--------------------------- MODULE ExecutorProofs ---------------------------
(***************************************************************************)
(* Proofs, for every limit, chunk and amount of output, of the safety      *)
(* properties of ExecutorProperties, and that every step of a command is   *)
(* one that Execution allows.                                              *)
(***************************************************************************)
EXTENDS ExecutorProperties, SequenceTheorems, TLAPS

Joining == {"join", "rm", "decide"}
Waiting == {"wait", "stop", "waitStop", "waitKill"}

(***************************************************************************)
(* The parts of the inductive invariant.  Types is the type invariant but  *)
(* for the data that was kept, which Captured gives.                       *)
(***************************************************************************)
Types ==
    /\ pc \in {"launch", "readers", "wait", "stop", "waitStop", "waitKill",
               "join", "rm", "decide", "done"}
    /\ timedOut \in BOOLEAN /\ lifecycleError \in BOOLEAN /\ held \in BOOLEAN
    /\ error \in {"none", "launch", "raised"}
    /\ outcome \in {"running", "zero", "nonzero", "timeout", "launch", "uncertain", "escape"}
    /\ client \in {"none", "running", "exited"} /\ code \in Codes \cup {"none"}
    /\ box \in {"none", "running", "exited", "removed"} /\ boxCode \in Codes \cup {"none"}
    /\ finished \in Codes \cup {"no"}
    /\ reader \in [Streams -> {"idle", "reading", "done"}]
    /\ written \in [Streams -> 0..MaxBytes] /\ total \in [Streams -> 0..MaxBytes]

\* What the place of the executing thread says of the client, and that what has exited has a status.
Places ==
    /\ outcome = "running" <=> pc # "done"
    /\ pc = "launch" => client = "none" /\ error = "none"
    /\ pc \in {"readers"} \cup Waiting => client # "none" /\ error = "none"
    /\ pc \in Joining /\ error = "none" => client = "exited"
    /\ pc \in Joining /\ error = "launch" => client = "none"
    /\ client = "exited" => code \in Codes
    /\ box = "exited" => boxCode \in Codes
    /\ pc \in {"stop", "waitStop", "waitKill"} => timedOut

\* Nothing is left once podman rm has succeeded and no exception is in flight.
Cleared ==
    /\ pc = "decide" /\ ~lifecycleError /\ error # "raised" => box \in {"none", "removed"}
    /\ outcome \in Settled => box \in {"none", "removed"} /\ client # "running"

\* Where the exit code of the client comes from.
Exits ==
    /\ ~timedOut /\ boxCode = "zero" => finished = "zero"
    /\ code = "zero" => boxCode = "zero" /\ client = "exited" /\ box # "running"
    /\ outcome = "zero" => code = "zero" /\ ~timedOut

\* A thread that is done has read all there will ever be.
Readers ==
    /\ pc \in {"launch", "readers"} => \A s \in Streams : reader[s] = "idle"
    /\ pc \in Waiting \cup Joining /\ error # "launch" => \A s \in Streams : reader[s] # "idle"
    /\ pc \in {"rm", "decide"} /\ error = "none" /\ ~lifecycleError =>
          \A s \in Streams : reader[s] = "done"
    /\ outcome \in {"zero", "nonzero", "timeout"} => \A s \in Streams : reader[s] = "done"
    /\ \A s \in Streams : reader[s] = "done" => ~PipeOpen /\ total[s] = written[s]

Smaller(m, n) == IF m < n THEN m ELSE n

\* What was kept are the first bytes of what was read.
Captured ==
    /\ \A s \in Streams : total[s] <= written[s]
    /\ data = [s \in Streams |-> Bytes(1, Smaller(total[s], Limit))]

\* The second snapshot agrees with the tree while nothing writes to it.
Compared ==
    /\ tree \in [DOMAIN Entries -> BOOLEAN] /\ seen \in Seq(BOOLEAN)
    /\ Len(seen) <= Len(Entries)
    /\ outcome = "running" => seen = <<>> /\ integrity = "none"
    /\ outcome \in Settled => \A i \in DOMAIN seen : seen[i] = tree[i]
    /\ integrity = "passed" => Len(seen) = Len(Entries) /\ \A i \in DOMAIN seen : seen[i]

IInv == Types /\ Places /\ Cleared /\ Exits /\ Readers /\ Captured /\ Compared

-----------------------------------------------------------------------------
(* Bytes                                                                   *)

(* The first m bytes are a sequence of m numbers, each in its place. *)
LEMMA FirstBytes ==
  ASSUME NEW m \in Nat
  PROVE  /\ Bytes(1, m) \in Seq(1..m) /\ Bytes(1, m) \in Seq(Nat) /\ Len(Bytes(1, m)) = m
         /\ \A i \in 1..m : Bytes(1, m)[i] = i
BY DEF Bytes

(* Keeping what still fits of the next chunk keeps the first bytes. *)
LEMMA KeptBytes ==
  ASSUME NEW t \in Nat, NEW n \in Nat
  PROVE  Kept(Bytes(1, Smaller(t, Limit)), Bytes(t + 1, t + n)) = Bytes(1, Smaller(t + n, Limit))
<1> DEFINE kept == Bytes(1, Smaller(t, Limit))
           chunk == Bytes(t + 1, t + n)
<1>1. Limit \in Nat
  BY SizesAreNumbers
<1>2. Len(kept) = Smaller(t, Limit) /\ kept \in Seq(Nat)
  BY <1>1 DEF Smaller, Bytes
<1>3. chunk \in Seq(Nat) /\ Len(chunk) = n /\ \A i \in 1..n : chunk[i] = t + i
  BY DEF Bytes
<1> SUFFICES Kept(kept, chunk) = Bytes(1, Smaller(t + n, Limit))
  OBVIOUS
<1> HIDE DEF kept, chunk
<1>4. CASE t >= Limit
  BY <1>1, <1>2, <1>4 DEF Kept, Smaller, kept
<1>5. CASE t < Limit
  <2>1. Len(kept) = t /\ \A i \in 1..t : kept[i] = i
    BY <1>1, <1>2, <1>5 DEF Smaller, Bytes, kept
  <2> DEFINE k == IF n < Limit - t THEN n ELSE Limit - t
             part == SubSeq(chunk, 1, k)
  <2>2. k \in 0..n /\ t + k = Smaller(t + n, Limit)
    BY <1>1, <1>5 DEF Smaller
  <2>3. part \in Seq(Nat) /\ Len(part) = k /\ \A i \in 1..k : part[i] = t + i
    BY <1>3, <2>2
  <2>4. Kept(kept, chunk) = kept \o part
    BY <1>1, <1>3, <1>5, <2>1 DEF Kept, k
  <2>5. kept \o part \in Seq(Nat) /\ Len(kept \o part) = t + k
    BY <1>2, <2>1, <2>2, <2>3
  <2>6. \A i \in 1..(t + k) : (kept \o part)[i] = i
    BY <1>2, <2>1, <2>2, <2>3
  <2>7. /\ Bytes(1, t + k) \in Seq(Nat) /\ Len(Bytes(1, t + k)) = t + k
        /\ \A i \in 1..(t + k) : Bytes(1, t + k)[i] = i
    <3>1. t + k \in Nat
      BY <2>2
    <3>2. QED
      BY <3>1, FirstBytes
  <2>8. kept \o part = Bytes(1, t + k)
    BY <2>5, <2>6, <2>7, SeqEqual
  <2>9. QED
    BY <2>2, <2>4, <2>8
<1>6. QED
  BY <1>1, <1>4, <1>5

-----------------------------------------------------------------------------
(* Every step is one of the execution, or leaves it alone.                 *)

LEMMA StepsOfExecution ==
  ASSUME [CNext]_<<vars, checked>>
  PROVE  [Next]_vars
BY DEF CNext, vars, checked, BoxWrites, ReadEntry, Compare

(* Types is inductive. *)
LEMMA TypesHold ==
  ASSUME Types, Places, [Next]_vars
  PROVE  Types'
<1> USE DEF Types
<1>1. CASE Environment
  <2>1. CASE Create BY <2>1 DEF Create, main, process, output
  <2>2. CASE Finish BY <2>2 DEF Finish, Codes, main, process, output
  <2>3. CASE ClientExits BY <2>3 DEF ClientExits, Codes, main, guest, output
  <2>4. CASE ClientDies BY <2>4 DEF ClientDies, Codes, main, guest, output
  <2>5. CASE Release
    <3>1. held' \in BOOLEAN
      BY <2>5 DEF Release
    <3>2. QED
      BY <2>5, <3>1 DEF Release, main, process, guest
  <2>6. ASSUME NEW s \in Streams, Write(s) PROVE Types'
    BY <2>6, SizesAreNumbers DEF Write, Streams, main, process, guest
  <2>7. QED
    BY <1>1, <2>1, <2>2, <2>3, <2>4, <2>5, <2>6 DEF Environment
<1>2. ASSUME NEW s \in Streams, Read(s) PROVE Types'
  <2>1. reader' \in [Streams -> {"idle", "reading", "done"}]
    BY <1>2, SizesAreNumbers DEF Read, Take
  <2>2. total' \in [Streams -> 0..MaxBytes]
    BY <1>2, SizesAreNumbers DEF Read, Take
  <2>3. QED
    BY <1>2, <2>1, <2>2 DEF Read, main, process, guest
<1>3. CASE Main
  <2>1. CASE Refuse BY <2>1 DEF Refuse, Stop, process, guest, output
  <2>2. CASE Launch BY <2>2 DEF Launch, Goto, guest
  <2>3. CASE StartReaders BY <2>3 DEF StartReaders, Goto, Stop, process, guest
  <2>4. CASE Waited BY <2>4 DEF Waited, Goto, process, guest, output
  <2>5. CASE TimesOut BY <2>5 DEF TimesOut, Goto, process, guest, output
  <2>6. CASE PodmanStop BY <2>6 DEF PodmanStop, Codes, Goto, process, output
  <2>7. CASE Kill BY <2>7 DEF Kill, Goto, process, guest, output
  <2>8. CASE Join
    <3>1. lifecycleError' \in BOOLEAN
      BY <2>8, Zenon DEF Join
    <3>2. QED
      BY <2>8, <3>1 DEF Join, Goto, process, guest, output
  <2>9. CASE Remove
    <3>1. lifecycleError' \in BOOLEAN
      BY <2>9, Zenon DEF Remove, Cleanup
    <3>2. box' \in {"none", "running", "exited", "removed"}
      BY <2>9 DEF Remove, Gone
    <3>3. QED
      BY <2>9, <3>1, <3>2, ZenonT(60) DEF Remove, Goto, process, output
  <2>10. CASE Decide BY <2>10 DEF Decide, Codes, Stop, Result, Places, Joining, process, guest, output
  <2>11. QED
    BY <1>3, <2>1, <2>2, <2>3, <2>4, <2>5, <2>6, <2>7, <2>8, <2>9, <2>10 DEF Main
<1>4. CASE Interrupt
  BY <1>4 DEF Interrupt, Goto, Stop, process, guest, output
<1>5. CASE UNCHANGED vars
  BY <1>5 DEF vars, main, process, guest, output
<1>6. QED
  BY <1>1, <1>2, <1>3, <1>4, <1>5 DEF Next

(* Places is inductive. *)
LEMMA PlacesHold ==
  ASSUME Types, Places, [Next]_vars
  PROVE  Places'
<1> USE DEF Places, Waiting, Joining
<1>1. CASE Environment
  <2>1. CASE Create BY <2>1 DEF Create, main, process, guest
  <2>2. CASE Finish BY <2>2 DEF Finish, main, process, guest
  <2>3. CASE ClientExits
    <3>1. code' \in Codes
      BY <2>3 DEF ClientExits, Types, Codes
    <3>2. QED
      BY <2>3, <3>1 DEF ClientExits, Types, main, guest
  <2>4. CASE ClientDies BY <2>4 DEF ClientDies, Codes, main, guest
  <2>5. CASE Release BY <2>5 DEF Release, main, process, guest
  <2>6. ASSUME NEW s \in Streams, Write(s) PROVE Places'
    BY <2>6 DEF Write, main, process, guest
  <2>7. QED
    BY <1>1, <2>1, <2>2, <2>3, <2>4, <2>5, <2>6 DEF Environment
<1>2. ASSUME NEW s \in Streams, Read(s) PROVE Places'
  BY <1>2 DEF Read, main, process, guest
<1>3. CASE Main
  <2>1. CASE Refuse BY <2>1 DEF Refuse, Stop, process, guest
  <2>2. CASE Launch BY <2>2 DEF Launch, Goto, guest
  <2>3. CASE StartReaders BY <2>3 DEF StartReaders, Goto, Stop, process, guest
  <2>4. CASE Waited BY <2>4 DEF Waited, Goto, Types, process, guest
  <2>5. CASE TimesOut BY <2>5 DEF TimesOut, Goto, process, guest
  <2>6. CASE PodmanStop BY <2>6 DEF PodmanStop, Goto, process
  <2>7. CASE Kill BY <2>7 DEF Kill, Goto, process, guest
  <2>8. CASE Join BY <2>8 DEF Join, Goto, process, guest
  <2>9. CASE Remove BY <2>9 DEF Remove, Gone, Goto, process
  <2>10. CASE Decide BY <2>10 DEF Decide, Stop, Result, Types, Codes, process, guest
  <2>11. QED
    BY <1>3, <2>1, <2>2, <2>3, <2>4, <2>5, <2>6, <2>7, <2>8, <2>9, <2>10 DEF Main
<1>4. CASE Interrupt
  BY <1>4 DEF Interrupt, Goto, Stop, process, guest
<1>5. CASE UNCHANGED vars
  BY <1>5 DEF vars, main, process, guest
<1>6. QED
  BY <1>1, <1>2, <1>3, <1>4, <1>5 DEF Next

(* Cleared is inductive: nobody is left who could create or start a container. *)
LEMMA ClearedHolds ==
  ASSUME Types, Places, Cleared, [Next]_vars
  PROVE  Cleared'
<1> USE DEF Cleared, Settled
<1>1. CASE Environment
  <2>1. CASE Create
    BY <2>1 DEF Create, Types, Places, Joining, main, process
  <2>2. CASE Finish BY <2>2 DEF Finish, main, process
  <2>3. CASE ClientExits BY <2>3 DEF ClientExits, main, guest
  <2>4. CASE ClientDies BY <2>4 DEF ClientDies, main, guest
  <2>5. CASE Release BY <2>5 DEF Release, main, process, guest
  <2>6. ASSUME NEW s \in Streams, Write(s) PROVE Cleared'
    BY <2>6 DEF Write, main, process, guest
  <2>7. QED
    BY <1>1, <2>1, <2>2, <2>3, <2>4, <2>5, <2>6 DEF Environment
<1>2. ASSUME NEW s \in Streams, Read(s) PROVE Cleared'
  BY <1>2 DEF Read, main, process, guest
<1>3. CASE Main
  <2>1. CASE Refuse BY <2>1 DEF Refuse, Stop, process, guest
  <2>2. CASE Launch BY <2>2 DEF Launch, Goto, Places, guest
  <2>3. CASE StartReaders BY <2>3 DEF StartReaders, Goto, Stop, process, guest
  <2>4. CASE Waited BY <2>4 DEF Waited, Goto, process, guest
  <2>5. CASE TimesOut BY <2>5 DEF TimesOut, Goto, process, guest
  <2>6. CASE PodmanStop BY <2>6 DEF PodmanStop, Goto, Places, process
  <2>7. CASE Kill BY <2>7 DEF Kill, Goto, process, guest
  <2>8. CASE Join BY <2>8 DEF Join, Goto, process, guest
  <2>9. CASE Remove
    <3>1. pc' = "decide" /\ outcome' = "running" /\ (lifecycleError' \/ box' = Gone)
      BY <2>9 DEF Remove, Cleanup, Goto, Places
    <3>2. Gone \in {"none", "removed"}
      BY DEF Gone
    <3>3. QED
      BY <3>1, <3>2
  <2>10. CASE Decide
    BY <2>10 DEF Decide, Stop, Types, Places, Joining, process, guest
  <2>11. QED
    BY <1>3, <2>1, <2>2, <2>3, <2>4, <2>5, <2>6, <2>7, <2>8, <2>9, <2>10 DEF Main
<1>4. CASE Interrupt
  BY <1>4 DEF Interrupt, Goto, Stop, process, guest
<1>5. CASE UNCHANGED vars
  BY <1>5 DEF vars, main, process, guest
<1>6. QED
  BY <1>1, <1>2, <1>3, <1>4, <1>5 DEF Next

(* Exits is inductive: the client only passes on what the container says, *)
(* and before a timeout only the command itself ends the container.       *)
LEMMA ExitsHold ==
  ASSUME Types, Places, Exits, [Next]_vars
  PROVE  Exits'
<1> USE DEF Exits
<1>1. CASE Environment
  <2>1. CASE Create BY <2>1 DEF Create, main, process
  <2>2. CASE Finish BY <2>2 DEF Finish, main, process
  <2>3. CASE ClientExits BY <2>3 DEF ClientExits, main, guest
  <2>4. CASE ClientDies BY <2>4 DEF ClientDies, main, guest
  <2>5. CASE Release BY <2>5 DEF Release, main, process, guest
  <2>6. ASSUME NEW s \in Streams, Write(s) PROVE Exits'
    BY <2>6 DEF Write, main, process, guest
  <2>7. QED
    BY <1>1, <2>1, <2>2, <2>3, <2>4, <2>5, <2>6 DEF Environment
<1>2. ASSUME NEW s \in Streams, Read(s) PROVE Exits'
  BY <1>2 DEF Read, main, process, guest
<1>3. CASE Main
  <2>1. CASE Refuse BY <2>1 DEF Refuse, Stop, process, guest
  <2>2. CASE Launch BY <2>2 DEF Launch, Goto, Places, guest
  <2>3. CASE StartReaders BY <2>3 DEF StartReaders, Goto, Stop, process, guest
  <2>4. CASE Waited BY <2>4 DEF Waited, Goto, process, guest
  <2>5. CASE TimesOut BY <2>5 DEF TimesOut, Goto, Places, process, guest
  <2>6. CASE PodmanStop BY <2>6 DEF PodmanStop, Goto, Places, process
  <2>7. CASE Kill BY <2>7 DEF Kill, Goto, process, guest
  <2>8. CASE Join BY <2>8 DEF Join, Goto, process, guest
  <2>9. CASE Remove BY <2>9 DEF Remove, Gone, Goto, process
  <2>10. CASE Decide
    BY <2>10 DEF Decide, Stop, Result, process, guest
  <2>11. QED
    BY <1>3, <2>1, <2>2, <2>3, <2>4, <2>5, <2>6, <2>7, <2>8, <2>9, <2>10 DEF Main
<1>4. CASE Interrupt
  BY <1>4 DEF Interrupt, Goto, Stop, process, guest
<1>5. CASE UNCHANGED vars
  BY <1>5 DEF vars, main, process, guest
<1>6. QED
  BY <1>1, <1>2, <1>3, <1>4, <1>5 DEF Next

(* Readers is inductive: a pipe that has been closed is not opened again, *)
(* so that the end of the file is the end of it.                          *)
LEMMA ReadersHold ==
  ASSUME Types, Places, Captured, Readers, [Next]_vars
  PROVE  Readers'
<1> USE DEF Readers, Waiting, Joining
<1>1. CASE Environment
  <2>1. CASE Create BY <2>1 DEF Create, PipeOpen, main, process, output
  <2>2. CASE Finish BY <2>2 DEF Finish, PipeOpen, main, process, output
  <2>3. CASE ClientExits BY <2>3 DEF ClientExits, PipeOpen, main, output
  <2>4. CASE ClientDies BY <2>4 DEF ClientDies, PipeOpen, main, output
  <2>5. CASE Release BY <2>5 DEF Release, PipeOpen, main, process
  <2>6. ASSUME NEW s \in Streams, Write(s) PROVE Readers'
    BY <2>6 DEF Write, PipeOpen, main, process
  <2>7. QED
    BY <1>1, <2>1, <2>2, <2>3, <2>4, <2>5, <2>6 DEF Environment
<1>2. ASSUME NEW s \in Streams, Read(s) PROVE Readers'
  <2>1. PipeOpen' = PipeOpen
    BY <1>2 DEF Read, PipeOpen, process
  <2>2. \A r \in Streams \ {s} : reader'[r] = reader[r] /\ total'[r] = total[r]
    BY <1>2 DEF Read, Take, Types
  <2>3. reader[s] = "reading" /\ reader'[s] # "idle"
    BY <1>2 DEF Read, Take, Types
  <2>4. reader'[s] = "done" => ~PipeOpen /\ total'[s] = written[s]
    BY <1>2 DEF Read, Take, Types
  <2>5. QED
    BY <1>2, <2>1, <2>2, <2>3, <2>4 DEF Read, main
<1>3. CASE Main
  <2>1. CASE Refuse BY <2>1 DEF Refuse, Stop, PipeOpen, process, output
  <2>2. CASE Launch BY <2>2 DEF Launch, Goto, Places, PipeOpen
  <2>3. CASE StartReaders
    BY <2>3 DEF StartReaders, Goto, Stop, PipeOpen, process
  <2>4. CASE Waited BY <2>4 DEF Waited, Goto, Places, PipeOpen, process, output
  <2>5. CASE TimesOut BY <2>5 DEF TimesOut, Goto, PipeOpen, process, output
  <2>6. CASE PodmanStop BY <2>6 DEF PodmanStop, Goto, PipeOpen, process, output
  <2>7. CASE Kill BY <2>7 DEF Kill, Goto, Places, PipeOpen, process, output
  <2>8. CASE Join
    BY <2>8 DEF Join, ReadersAlive, Goto, Types, PipeOpen, process, output
  <2>9. CASE Remove BY <2>9 DEF Remove, Cleanup, Goto, PipeOpen, process, output
  <2>10. CASE Decide
    BY <2>10 DEF Decide, Stop, Types, PipeOpen, process, output
  <2>11. QED
    BY <1>3, <2>1, <2>2, <2>3, <2>4, <2>5, <2>6, <2>7, <2>8, <2>9, <2>10 DEF Main
<1>4. CASE Interrupt
  BY <1>4 DEF Interrupt, Goto, Stop, Places, PipeOpen, process, output
<1>5. CASE UNCHANGED vars
  BY <1>5 DEF vars, PipeOpen, main, process, output
<1>6. QED
  BY <1>1, <1>2, <1>3, <1>4, <1>5 DEF Next

(* Captured is inductive. *)
LEMMA CapturedHolds ==
  ASSUME Types, Captured, [Next]_vars
  PROVE  Captured'
<1>1. CASE UNCHANGED <<written, total, data>>
  BY <1>1 DEF Captured
<1>2. ASSUME NEW s \in Streams, Write(s) PROVE Captured'
  <2>1. \A r \in Streams : total[r] <= written'[r]
    BY <1>2 DEF Write, Captured, Types
  <2>2. QED
    BY <1>2, <2>1 DEF Write, Captured
<1>3. ASSUME NEW s \in Streams, NEW n \in 1..(written[s] - total[s]), Take(s, n),
             UNCHANGED written
      PROVE  Captured'
  <2>1. \A r \in Streams : total'[r] \in Nat /\ total'[r] <= written[r]
    BY <1>3 DEF Take, Types, Captured
  <2>2. data'[s] = Bytes(1, Smaller(total'[s], Limit))
    <3>1. total[s] \in Nat /\ n \in Nat /\ total'[s] = total[s] + n
      BY <1>3 DEF Take, Types
    <3>2. data'[s] = Kept(Bytes(1, Smaller(total[s], Limit)), Bytes(total[s] + 1, total[s] + n))
      BY <1>3 DEF Take, Captured
    <3>3. QED
      BY <3>1, <3>2, KeptBytes
  <2>3. \A r \in Streams \ {s} : data'[r] = Bytes(1, Smaller(total'[r], Limit))
    BY <1>3 DEF Take, Captured, Types
  <2>4. data' = [r \in Streams |-> data'[r]]
    BY <1>3 DEF Take, Captured
  <2>5. QED
    BY <1>3, <2>1, <2>2, <2>3, <2>4 DEF Captured
<1>4. ASSUME NEW s \in Streams, Read(s) PROVE Captured'
  <2>1. CASE written[s] - total[s] >= Chunk /\ Take(s, Chunk)
    <3>1. Chunk \in 1..(written[s] - total[s])
      BY <2>1, SizesAreNumbers DEF Types
    <3>2. QED
      BY <1>3, <1>4, <2>1, <3>1 DEF Read
  <2>2. CASE /\ written[s] - total[s] \in 1..(Chunk - 1)
             /\ Take(s, written[s] - total[s])
    <3>1. written[s] - total[s] \in 1..(written[s] - total[s])
      BY <2>2 DEF Types
    <3>2. QED
      BY <1>3, <1>4, <2>2, <3>1 DEF Read
  <2>3. CASE UNCHANGED <<total, data>>
    BY <1>1, <1>4, <2>3 DEF Read
  <2>4. QED
    BY <1>4, <2>1, <2>2, <2>3 DEF Read
<1>5. CASE Environment
  <2>1. CASE Create BY <1>1, <2>1 DEF Create, output
  <2>2. CASE Finish BY <1>1, <2>2 DEF Finish, output
  <2>3. CASE ClientExits BY <1>1, <2>3 DEF ClientExits, output
  <2>4. CASE ClientDies BY <1>1, <2>4 DEF ClientDies, output
  <2>5. CASE Release BY <1>1, <2>5 DEF Release
  <2>6. QED
    BY <1>2, <1>5, <2>1, <2>2, <2>3, <2>4, <2>5 DEF Environment
<1>6. CASE Main
  BY <1>1, <1>6 DEF Main, Refuse, Launch, StartReaders, Waited, TimesOut, PodmanStop, Kill, Join,
     Remove, Decide, output
<1>7. CASE Interrupt
  BY <1>1, <1>7 DEF Interrupt, output
<1>8. CASE UNCHANGED vars
  BY <1>1, <1>8 DEF vars, output
<1>9. QED
  BY <1>4, <1>5, <1>6, <1>7, <1>8 DEF Next

(* Compared is inductive: nothing writes to the tree once the outcome is  *)
(* settled, because no container is left.                                  *)
LEMMA ComparedHolds ==
  ASSUME Types, Places, Cleared, Compared, [CNext]_<<vars, checked>>
  PROVE  Compared'
<1> DEFINE n == Len(Entries)
<1>1. n \in Nat /\ DOMAIN Entries = 1..n
  BY EntriesAreListed
<1>2. DOMAIN tree = 1..n /\ seen \in Seq(BOOLEAN) /\ Len(seen) \in 0..n
  BY <1>1 DEF Compared
<1>3. CASE Next /\ UNCHANGED checked
  <2>1. CASE outcome = "running"
    BY <1>3, <2>1 DEF Compared, checked
  <2>2. CASE outcome # "running"
    <3>1. outcome' = outcome
      <4>1. pc = "done"
        BY <2>2 DEF Places
      <4>2. ~Main /\ ~Interrupt
        BY <4>1 DEF Main, Refuse, Launch, StartReaders, Waited, TimesOut, PodmanStop, Kill, Join,
           Remove, Decide, Interrupt
      <4>3. UNCHANGED main
        BY <1>3, <4>2 DEF Next, Environment, Create, Finish, ClientExits, ClientDies, Release,
           Write, Read
      <4>4. QED
        BY <4>3 DEF main
    <3>2. QED
      BY <1>3, <3>1 DEF Compared, checked
  <2>3. QED
    BY <2>1, <2>2
<1>4. CASE BoxWrites
  <2>1. outcome \notin Settled /\ outcome' = outcome
    BY <1>4 DEF BoxWrites, Cleared, vars, main
  <2>2. tree' \in [DOMAIN Entries -> BOOLEAN]
    BY <1>4 DEF BoxWrites, Compared
  <2>3. QED
    BY <1>4, <2>1, <2>2 DEF BoxWrites, Compared
<1>5. CASE ReadEntry
  <2> DEFINE k == Len(seen) + 1
  <2>1. k \in 1..n /\ tree[k] \in BOOLEAN
    BY <1>2, <1>5 DEF ReadEntry, Compared
  <2>2. /\ seen' \in Seq(BOOLEAN) /\ Len(seen') = k
        /\ \A i \in 1..(k - 1) : seen'[i] = seen[i]
        /\ seen'[k] = tree[k]
    BY <1>2, <1>5, <2>1 DEF ReadEntry
  <2>3. outcome # "running" /\ integrity' = "none" /\ UNCHANGED <<outcome, tree>>
    BY <1>5 DEF ReadEntry, vars, main
  <2>4. outcome \in Settled => \A i \in DOMAIN seen' : seen'[i] = tree'[i]
    BY <1>2, <2>1, <2>2, <2>3 DEF Compared
  <2>5. QED
    BY <1>1, <2>1, <2>2, <2>3, <2>4 DEF Compared
<1>6. CASE Compare
  BY <1>6 DEF Compare, Compared, vars, main
<1>7. CASE UNCHANGED <<vars, checked>>
  BY <1>7 DEF Compared, vars, main, checked
<1>8. QED
  BY <1>3, <1>4, <1>5, <1>6, <1>7 DEF CNext

-----------------------------------------------------------------------------
(* The theorems                                                            *)

LEMMA IInvInit == CInit => IInv
<1> SUFFICES ASSUME CInit PROVE IInv
  OBVIOUS
<1>1. Types
  <2>1. 0 \in 0..MaxBytes
    BY SizesAreNumbers
  <2>2. /\ reader \in [Streams -> {"idle", "reading", "done"}]
        /\ written \in [Streams -> 0..MaxBytes] /\ total \in [Streams -> 0..MaxBytes]
    BY <2>1 DEF CInit, Init
  <2>3. QED
    BY <2>2 DEF CInit, Init, Types
<1>2. Places /\ Cleared /\ Exits
  BY DEF CInit, Init, Places, Cleared, Exits, Waiting, Joining, Settled
<1>3. Readers
  BY DEF CInit, Init, Readers, Waiting, Joining
<1>4. Captured
  <2>1. Smaller(0, Limit) = 0
    BY SizesAreNumbers DEF Smaller
  <2>2. Bytes(1, 0) = <<>>
    BY FirstBytes
  <2>3. QED
    BY <2>1, <2>2 DEF CInit, Init, Captured
<1>5. Compared
  BY EntriesAreListed DEF CInit, Init, Compared, Settled
<1>6. QED
  BY <1>1, <1>2, <1>3, <1>4, <1>5 DEF IInv

LEMMA IInvStep == IInv /\ [CNext]_<<vars, checked>> => IInv'
<1> SUFFICES ASSUME IInv, [CNext]_<<vars, checked>> PROVE IInv'
  OBVIOUS
<1>1. [Next]_vars
  BY StepsOfExecution
<1>2. QED
  BY <1>1, TypesHold, PlacesHold, ClearedHolds, ExitsHold, ReadersHold, CapturedHolds,
     ComparedHolds DEF IInv

LEMMA IInvAlways == CSpec => []IInv
BY IInvInit, IInvStep, PTL DEF CSpec

(* A capture is well typed and within its limit, however the output        *)
(* arrives (_Capture.read).                                                *)
THEOREM ExecutionTypeCorrect == CSpec => []ExecutionTypeOK
<1>1. ASSUME IInv PROVE ExecutionTypeOK
  <2>1. ASSUME NEW s \in Streams
        PROVE  data[s] \in Seq(1..MaxBytes) /\ Len(data[s]) <= Limit
    <3> DEFINE m == Smaller(total[s], Limit)
    <3>1. m \in Nat /\ m <= MaxBytes /\ m <= Limit
      BY <1>1, SizesAreNumbers DEF IInv, Types, Smaller
    <3>2. data[s] = Bytes(1, m)
      BY <1>1 DEF IInv, Captured
    <3>3. Bytes(1, m) \in Seq(1..MaxBytes) /\ Len(Bytes(1, m)) = m
      BY <3>1, SizesAreNumbers DEF Bytes
    <3>4. QED
      BY <3>1, <3>2, <3>3
  <2>2. data \in [Streams -> Seq(1..MaxBytes)]
    BY <1>1, <2>1 DEF IInv, Captured
  <2>3. QED
    BY <1>1, <2>1, <2>2 DEF IInv, Types, ExecutionTypeOK
<1>2. QED
  BY <1>1, IInvAlways, PTL

(* When execute returns or reports a failed launch, there is no container  *)
(* and no client that could create one.                                    *)
THEOREM NothingIsLeft == CSpec => []NothingRunsOn
<1>1. IInv => NothingRunsOn
  BY DEF IInv, Cleared, NothingRunsOn
<1>2. QED
  BY <1>1, IInvAlways, PTL

(* A result holds all of the output, or its first bytes and how much there *)
(* was (_Capture, and the joins of the readers).                           *)
THEOREM OutputIsCaptured == CSpec => []OutputIsWhole
<1>1. ASSUME IInv, outcome \in {"zero", "nonzero", "timeout"}, NEW s \in Streams
      PROVE  /\ total[s] = written[s]
             /\ data[s] = Bytes(1, IF written[s] < Limit THEN written[s] ELSE Limit)
             /\ Truncated(s) <=> written[s] > Len(data[s])
  <2> DEFINE m == Smaller(written[s], Limit)
  <2>1. total[s] = written[s]
    BY <1>1 DEF IInv, Readers
  <2>2. data[s] = Bytes(1, m) /\ m \in Nat
    BY <1>1, <2>1, SizesAreNumbers DEF IInv, Captured, Types, Smaller
  <2>3. Len(data[s]) = m
    BY <2>2, FirstBytes
  <2>4. Truncated(s) <=> written[s] > m
    BY <1>1, <2>1, SizesAreNumbers DEF Truncated, Smaller, IInv, Types
  <2>5. QED
    BY <2>1, <2>2, <2>3, <2>4 DEF Smaller
<1>2. IInv => OutputIsWhole
  BY <1>1 DEF OutputIsWhole
<1>3. QED
  BY <1>2, IInvAlways, PTL

(* An exit code of zero that counts is that of a command which has ended   *)
(* by itself.                                                              *)
THEOREM ZeroIsEarned == CSpec => []ZeroIsTheCommands
<1>1. IInv => ZeroIsTheCommands
  BY DEF IInv, Exits, ZeroIsTheCommands
<1>2. QED
  BY <1>1, IInvAlways, PTL

(* A tree that has passed the check after a settled command stays as it    *)
(* was found.                                                              *)
THEOREM CheckedTreesStay == CSpec => []CheckedTreeStays
<1>1. ASSUME IInv, outcome \in Settled, integrity = "passed", NEW i \in DOMAIN tree
      PROVE  tree[i]
  <2>1. DOMAIN tree = DOMAIN Entries /\ DOMAIN Entries = 1..Len(Entries)
    BY <1>1, EntriesAreListed DEF IInv, Compared
  <2>2. DOMAIN seen = 1..Len(Entries)
    BY <1>1 DEF IInv, Compared
  <2>3. QED
    BY <1>1, <2>1, <2>2 DEF IInv, Compared
<1>2. IInv => CheckedTreeStays
  BY <1>1 DEF CheckedTreeStays
<1>3. QED
  BY <1>2, IInvAlways, PTL

-----------------------------------------------------------------------------
(* Execution                                                               *)

(* A step that does not end the execution comes and goes with the          *)
(* container while it is not settled, and leaves it alone once it is.      *)
LEMMA LiveOrStutter ==
  ASSUME IInv, IInv', UNCHANGED outcome
  PROVE  Promise!Live \/ UNCHANGED Promise!vars
<1>1. CASE outcome \in Settled
  BY <1>1 DEF IInv, Cleared, Promise!vars
<1>2. CASE outcome \notin Settled
  BY <1>2 DEF Promise!Live, Promise!Settled, Settled
<1>3. QED
  BY <1>1, <1>2

(* A command is one that Execution allows: its container is gone when it   *)
(* is settled, it is settled once, and only an execution that says so ends *)
(* without knowing.  That it ends is left to TLC.                          *)
THEOREM ExecutorImplementsExecution == CSpec => Promise!Init /\ [][Promise!Next]_(Promise!vars)
<1>1. CInit => Promise!Init
  BY DEF CInit, Init, Promise!Init
<1>2. ASSUME IInv, IInv', [Next]_vars
      PROVE  [Promise!Next]_(Promise!vars)
  <2>1. CASE UNCHANGED outcome
    BY <1>2, <2>1, LiveOrStutter DEF Promise!Next
  <2>2. ASSUME pc' = "done", outcome' \in {"uncertain", "escape"}, pc # "done", UNCHANGED box
        PROVE  Promise!GiveUp
    BY <1>2, <2>2 DEF IInv, Places, Promise!GiveUp
  <2>3. CASE Refuse
    BY <2>2, <2>3 DEF Refuse, Stop, guest, Promise!Next
  <2>4. CASE StartReaders
    BY <2>1, <2>2, <2>4 DEF StartReaders, Stop, Goto, guest, Promise!Next
  <2>5. CASE Interrupt
    BY <2>1, <2>2, <2>5 DEF Interrupt, Stop, Goto, guest, Promise!Next
  <2>6. CASE Decide
    <3>1. CASE outcome' \in Settled
      <4>1. box' \in {"none", "removed"} /\ UNCHANGED box /\ outcome = "running"
        BY <1>2, <2>6, <3>1 DEF IInv, Cleared, Decide, guest, Places
      <4>2. QED
        BY <3>1, <4>1 DEF Promise!Settle, Promise!Settled, Settled, Promise!Next
    <3>2. CASE outcome' \notin Settled
      <4>1. outcome' \in {"uncertain", "escape"}
        BY <1>2, <2>6, <3>2 DEF IInv, Types, Settled, Decide, Stop, Places
      <4>2. QED
        BY <2>2, <2>6, <4>1 DEF Decide, Stop, guest, Promise!Next
    <3>3. QED
      BY <3>1, <3>2
  <2>7. CASE Environment \/ (\E s \in Streams : Read(s))
    <3>1. UNCHANGED main
      BY <2>7 DEF Environment, Create, Finish, ClientExits, ClientDies, Release, Write, Read
    <3>2. QED
      BY <2>1, <3>1 DEF main
  <2>8. CASE \/ Launch \/ Waited \/ TimesOut \/ PodmanStop \/ Kill \/ Join \/ Remove
             \/ UNCHANGED vars
    BY <2>1, <2>8 DEF Launch, Waited, TimesOut, PodmanStop, Kill, Join, Remove, Goto, vars, main
  <2>9. QED
    BY <1>2, <2>3, <2>4, <2>5, <2>6, <2>7, <2>8 DEF Next, Main
<1>3. IInv /\ IInv' /\ [CNext]_<<vars, checked>> => [Promise!Next]_(Promise!vars)
  BY <1>2, StepsOfExecution
<1>4. QED
  BY <1>1, <1>3, IInvAlways, PTL DEF CSpec
=============================================================================
