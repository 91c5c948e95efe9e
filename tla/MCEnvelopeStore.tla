-------------------------- MODULE MCEnvelopeStore --------------------------
(* Two devices of each user race on two keys; every rank decides somewhere. *)
EXTENDS EnvelopeStore

CONSTANTS alice, p1, p2, k1, k2, x, y

Env(k, edited, rev, src, created, body) ==
  [key |-> k, edited |-> edited, rev |-> rev, src |-> src,
   created |-> created, body |-> body]

\* k1: an edit, a second edit within the same millisecond, the same edit from
\* another installation, and a later one with a lower revision.
MCEnvelopes ==
  {Env(k1, 1, 1, 1, 1, x), Env(k1, 1, 2, 1, 2, x), Env(k1, 1, 2, 2, 2, y),
   Env(k1, 2, 1, 1, 1, y), Env(k2, 1, 1, 1, 1, x)}
=============================================================================
