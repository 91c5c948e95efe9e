---------------------------- MODULE MCDiffCheck ----------------------------
(* A two-key diff against two-key pushes of one device. *)
EXTENDS DiffCheck

CONSTANTS k1, k2, x

Env(k, edited, rev, src) ==
  [key |-> k, edited |-> edited, rev |-> rev, src |-> src,
   created |-> 1, body |-> x]

MCEnvelopes == {Env(k1, 1, 1, 1), Env(k1, 2, 1, 1), Env(k2, 1, 1, 1), Env(k2, 1, 1, 2)}

MCItems ==
  {[key |-> e.key, edited |-> e.edited, rev |-> e.rev, src |-> e.src] : e \in MCEnvelopes}
=============================================================================
