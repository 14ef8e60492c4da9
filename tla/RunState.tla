------------------------------ MODULE RunState ------------------------------
(***************************************************************************)
(* The run states of src/src/mendrune/state.py and the legal transitions   *)
(* between them.  orchestrator.py keeps the current state in a local       *)
(* variable, asks `transition` whether the next one is legal, and persists *)
(* it in run.yaml.                                                         *)
(***************************************************************************)

Failures ==
    {"configuration_error", "baseline_failure", "isolated_unit_failure",
     "ambiguous_overlap", "cumulative_failure", "evidence_failure",
     "infrastructure_error", "internal_error"}

TerminalStates == Failures \cup {"accepted"}

ActiveStates ==
    {"created", "validating", "preflight", "capturing_inputs",
     "phase_a_baseline", "phase_b_isolated", "phase_c_preapply",
     "phase_c_apply", "phase_c_verify", "final_verification",
     "assembling_evidence"}

RunStates == ActiveStates \cup TerminalStates

(* _ALLOWED: the successors of every state that has some. *)
Allowed ==
    [s \in ActiveStates |->
        CASE s = "created"             -> {"validating", "configuration_error"}
          [] s = "validating"          -> {"preflight", "configuration_error"}
          [] s = "preflight"           -> {"capturing_inputs", "infrastructure_error"}
          [] s = "capturing_inputs"    -> {"phase_a_baseline", "evidence_failure",
                                           "internal_error"}
          [] s = "phase_a_baseline"    -> {"phase_b_isolated", "baseline_failure",
                                           "infrastructure_error"}
          [] s = "phase_b_isolated"    -> {"phase_b_isolated", "phase_c_preapply",
                                           "isolated_unit_failure", "infrastructure_error"}
          [] s = "phase_c_preapply"    -> {"phase_c_apply", "ambiguous_overlap",
                                           "cumulative_failure"}
          [] s = "phase_c_apply"       -> {"phase_c_verify", "cumulative_failure"}
          [] s = "phase_c_verify"      -> {"phase_c_preapply", "final_verification",
                                           "cumulative_failure", "infrastructure_error"}
          [] s = "final_verification"  -> {"assembling_evidence", "cumulative_failure",
                                           "evidence_failure"}
          [] s = "assembling_evidence" -> {"accepted", "evidence_failure",
                                           "internal_error"}]

(* transition(current, target) returns target, or raises: when it returns. *)
Legal(current, target) ==
    /\ current \notin TerminalStates
    /\ target \in Allowed[current]
=============================================================================
