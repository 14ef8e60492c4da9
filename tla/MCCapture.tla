----------------------------- MODULE MCCapture -----------------------------
(***************************************************************************)
(* Two patches, the second to be adapted, and two evidence files.  The     *)
(* two versions of the campaign declare different versions of p1.          *)
(***************************************************************************)
EXTENDS Capture

MCPatches == <<"p1", "p2">>
MCEvidence == <<"e1", "e2">>
MCDeclares == [v \in Versions |-> [p \in PatchSet |-> IF p = "p1" THEN v ELSE "v1"]]
=============================================================================
