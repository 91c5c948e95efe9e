----------------------------- MODULE MCLivePull -----------------------------
(* Pulls against pushes: one device with two requests in flight, and two    *)
(* devices, of one user or of two.                                          *)
EXTENDS LivePull, TLC

CONSTANTS alice, bob, d1, d2

OneDevice == d1 :> alice
TwoDevices == d1 :> alice @@ d2 :> alice
TwoUsers == d1 :> alice @@ d2 :> bob

Symmetry == Permutations(Handlers) \cup Permutations(Keys) \cup Permutations(Pushers)
=============================================================================
