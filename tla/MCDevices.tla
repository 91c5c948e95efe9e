----------------------------- MODULE MCDevices -----------------------------
(* Two devices; their edits tie in the time and differ in every rank. *)
EXTENDS Devices, TLC

CONSTANTS d1, d2

TwoSources == d1 :> 1 @@ d2 :> 2

V(edited, rev, src) == [edited |-> edited, rev |-> rev, src |-> src]

MCVersions == {V(1, 1, 1), V(2, 1, 1), V(1, 1, 2), V(1, 2, 2)}
=============================================================================
