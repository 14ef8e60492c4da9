----------------------------- MODULE MCExecutor -----------------------------
(***************************************************************************)
(* One command on a tree with two entries.                                 *)
(***************************************************************************)
EXTENDS ExecutorProperties

MCEntries == <<"f1", "f2">>
=============================================================================
