------------------------------- MODULE SeqLog -------------------------------
(***************************************************************************)
(* What the envelope store promises to every pull: a user's rows carry     *)
(* distinct sequence numbers not above the user's counter, and a write     *)
(* transaction appears at once, moving each row it stores to a number that *)
(* was never visible before.  A cursor over such a log misses nothing.     *)
(***************************************************************************)
EXTENDS Integers

CONSTANTS
  Users,    \* user_id values
  Keys,     \* (id, part) pairs
  MaxBatch  \* sync.max_envelopes_per_push

ASSUME BatchAssumption == MaxBatch \in Nat \ {0}

VARIABLES
  nextSeq,  \* nextSeq[u]: users.next_seq, 0 before the first allocation
  seqOf     \* seqOf[u][k]: envelopes.server_seq, 0 when there is no row

logVars == <<nextSeq, seqOf>>

LogTypeOK ==
  /\ nextSeq \in [Users -> Nat]
  /\ seqOf \in [Users -> [Keys -> Nat]]

LogInit ==
  /\ nextSeq = [u \in Users |-> 0]
  /\ seqOf = [u \in Users |-> [k \in Keys |-> 0]]

\* One committed transaction of user u: n numbers are consumed and the rows in
\* DOMAIN pos are stored, row k under the pos[k]-th of them.  The other numbers
\* stay gaps, as does every number of a transaction that stores nothing.
Stamp(u, n, pos) ==
  /\ nextSeq' = [nextSeq EXCEPT ![u] = @ + n]
  /\ seqOf' = [seqOf EXCEPT ![u] =
       [k \in Keys |-> IF k \in DOMAIN pos THEN nextSeq[u] + pos[k] ELSE @[k]]]

\* The ways n consumed numbers can be given to the rows in W.
Positions(W, n) ==
  {pos \in [W -> 1..n] : \A j, k \in W : j # k => pos[j] # pos[k]}

LogNext ==
  \E u \in Users, n \in 1..MaxBatch, W \in SUBSET Keys :
    \E pos \in Positions(W, n) : Stamp(u, n, pos)

LogSpec == LogInit /\ [][LogNext]_logVars

\* No two rows of a user share a number and no row is above the counter: the
\* facts a cursor over server_seq rests on.
SeqsDistinct ==
  \A u \in Users, j, k \in Keys :
    /\ seqOf[u][k] <= nextSeq[u]
    /\ j # k /\ seqOf[u][k] > 0 => seqOf[u][j] # seqOf[u][k]

\* A row that changes takes a number above everything ever allocated to the
\* user, so whoever has read up to some cursor still has it ahead.
FreshAbove ==
  [][\A u \in Users, k \in Keys :
       seqOf'[u][k] # seqOf[u][k] => seqOf'[u][k] > nextSeq[u]]_logVars
=============================================================================
