\* A process that is killed, and nothing else that goes wrong.
CONSTANTS
    Blocks = 1
    MaxFaults = 0
SPECIFICATION Spec
INVARIANTS
    InterruptedIsNotAccepted
CHECK_DEADLOCK FALSE
