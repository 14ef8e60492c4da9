----------------------------- MODULE MCCampaign -----------------------------
(***************************************************************************)
(* Two units, declared in the order u1, u2 and composed in the order u2,   *)
(* u1, with a vulnerability and a patch each; only u2 has a regression of  *)
(* its own.                                                                *)
(***************************************************************************)
EXTENDS CampaignProperties

MCUnits == <<"u1", "u2">>
MCOrder == <<"u2", "u1">>
MCPatches == [u1 |-> <<"p1">>, u2 |-> <<"p2">>]
MCVulns == [u1 |-> <<"v1">>, u2 |-> <<"v2">>]
MCUnitRegs == [u1 |-> <<>>, u2 |-> <<"t2">>]
MCSharedRegs == <<"t0">>
MCScans == <<"s">>
=============================================================================
