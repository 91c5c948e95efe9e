------------------------------ MODULE Devices ------------------------------
(***************************************************************************)
(* The devices of one user and the store, end to end.  A device keeps its  *)
(* own copy of every envelope and a cursor; it asks with a diff what the   *)
(* store lacks, pushes that, and pulls page by page what is above its      *)
(* cursor.  Each of these is one step at the store: a push commits at once *)
(* (EnvelopeStore), a diff compares with one committed state (DiffCheck),  *)
(* a page is a snapshot (LivePull).  What the device does with the answer  *)
(* is a later step, with anything in between.                              *)
(*                                                                         *)
(* The database is in WAL mode with synchronous=NORMAL: a commit is on     *)
(* disk only with the next checkpoint, and a power loss takes the store    *)
(* back to one of the states since then.  A request whose answer is lost   *)
(* is one that was not made, except for a push: it may have committed.     *)
(***************************************************************************)
EXTENDS Conflict, FiniteSets

CONSTANTS
  Devices,   \* installations of one user
  Keys,      \* (id, part) pairs
  Versions,  \* the ranks an edit may have
  Source,    \* Source[d]: the source_id of installation d
  Limit,     \* rows per page
  MaxEdits,  \* bound on edits made by devices
  MaxFaults, \* bound on power losses and lost answers to pushes
  NoRow,     \* nothing is held under the key
  NoPage     \* no page is under way

Ranks == [edited : Int, rev : Int, src : Int]

RowType == [ranks : Ranks, seq : Nat]

ASSUME DevicesAssumption ==
  /\ Versions \subseteq Ranks
  /\ Source \in [Devices -> Int]
  /\ IsFiniteSet(Keys)
  /\ Limit \in Nat \ {0}
  /\ MaxEdits \in Nat
  /\ MaxFaults \in Nat
  /\ NoRow \notin Ranks \cup RowType

VARIABLES
  table,    \* table[k]: the committed row of the user
  nextSeq,  \* users.next_seq
  unsynced, \* the states committed since the last checkpoint, without the current one
  local,    \* local[d][k]: the ranks of the device's copy
  cursor,   \* cursor[d]: the cursor the device has stored
  wanted,   \* wanted[d]: keys the last diff asked for, not yet pushed
  page,     \* page[d]: the page on its way to the device
  fresh,    \* history: d was sent rows of a state not on disk since the last checkpoint
  exposed,  \* history: such a state was lost, and d has not pulled from 0 since
  edits,
  faults

storeVars == <<table, nextSeq, unsynced>>
deviceVars == <<local, cursor, wanted, page>>
vars == <<storeVars, deviceVars, fresh, exposed, edits, faults>>

\* Would the store take, or a device keep, version v over what is held?
Beats(v, held) == IF held = NoRow THEN TRUE ELSE Wins(v, held)

Held(row) == IF row = NoRow THEN NoRow ELSE row.ranks

Init ==
  /\ table = [k \in Keys |-> NoRow]
  /\ nextSeq = 0
  /\ unsynced = {}
  /\ local = [d \in Devices |-> [k \in Keys |-> NoRow]]
  /\ cursor = [d \in Devices |-> 0]
  /\ wanted = [d \in Devices |-> {}]
  /\ page = [d \in Devices |-> NoPage]
  /\ fresh = [d \in Devices |-> FALSE]
  /\ exposed = [d \in Devices |-> FALSE]
  /\ edits = 0
  /\ faults = 0
-----------------------------------------------------------------------------
\* The user edits an envelope on a device; an edit supersedes the copy it was
\* made on.
Edit(d, k, v) ==
  /\ edits < MaxEdits
  /\ v.src = Source[d] /\ Beats(v, local[d][k])
  /\ local' = [local EXCEPT ![d][k] = v]
  /\ edits' = edits + 1
  /\ UNCHANGED <<storeVars, cursor, wanted, page, fresh, exposed, faults>>

\* Deviation of Lacking: keys the store has no row for are left out.
LackingStale(d) ==
  {k \in Keys : local[d][k] # NoRow /\ table[k] # NoRow /\ Wins(local[d][k], table[k].ranks)}

\* diffHandler, asked about everything device d holds: missing and stale keys.
Lacking(d) ==
  {k \in Keys : local[d][k] # NoRow /\ Beats(local[d][k], Held(table[k]))}

Diff(d) ==
  /\ wanted[d] = {}
  /\ Lacking(d) # {}
  /\ wanted' = [wanted EXCEPT ![d] = Lacking(d)]
  /\ UNCHANGED <<storeVars, local, cursor, page, fresh, exposed, edits, faults>>

\* Deviation of Numbered: a row that is overwritten keeps its number.
NumberedOnce(k, s) == IF table[k] = NoRow THEN s ELSE table[k].seq

\* The server_seq of the row stored for key k under allocated number s.
Numbered(k, s) == s

\* UpsertMany of the copies of the keys in B, the one of k under the pos[k]-th
\* number.  The WHERE clause of the upsert decides what is stored.
Upsert(d, B, pos) ==
  /\ table' = [k \in Keys |->
       IF k \in B /\ (table[k] = NoRow \/ UpsertWhere(local[d][k], table[k].ranks))
       THEN [ranks |-> local[d][k], seq |-> Numbered(k, nextSeq + pos[k])]
       ELSE table[k]]
  /\ nextSeq' = nextSeq + Cardinality(B)
  /\ unsynced' = unsynced \cup {[table |-> table, nextSeq |-> nextSeq]}

\* The orders in which the envelopes of B can stand in a batch.
Orders(B) ==
  {pos \in [B -> 1..Cardinality(B)] : \A j, k \in B : j # k => pos[j] # pos[k]}

\* The push of what the diff asked for, and its answer.
Push(d) ==
  /\ wanted[d] # {}
  /\ \E pos \in Orders(wanted[d]) : Upsert(d, wanted[d], pos)
  /\ wanted' = [wanted EXCEPT ![d] = {}]
  /\ UNCHANGED <<local, cursor, page, fresh, exposed, edits, faults>>

\* The push commits, the answer is lost, the device will push again.
PushUnanswered(d) ==
  /\ faults < MaxFaults
  /\ wanted[d] # {}
  /\ \E pos \in Orders(wanted[d]) : Upsert(d, wanted[d], pos)
  /\ faults' = faults + 1
  /\ UNCHANGED <<deviceVars, fresh, exposed, edits>>
-----------------------------------------------------------------------------
Newer(s) == {k \in Keys : table[k] # NoRow /\ table[k].seq > s}

\* Deviation of IsPage: ORDER BY is missing.
IsPageUnordered(P, s) ==
  /\ P \subseteq Newer(s)
  /\ Cardinality(P) <= Limit
  /\ P # Newer(s) => Cardinality(P) = Limit

\* Store.Since: the lowest numbers after s, Limit of them or all there are.
IsPage(P, s) ==
  /\ P \subseteq Newer(s)
  /\ \A j \in P, k \in Newer(s) : table[k].seq < table[j].seq => k \in P
  /\ Cardinality(P) <= Limit
  /\ P # Newer(s) => Cardinality(P) = Limit

\* A pull that finds something.  The cursor that goes with the page is the
\* highest number in it.
Pull(d) ==
  /\ page[d] = NoPage
  /\ \E P \in SUBSET Newer(cursor[d]) : \E last \in P :
       /\ IsPage(P, cursor[d])
       /\ \A k \in P : table[k].seq <= table[last].seq
       /\ page' = [page EXCEPT ![d] =
            [rows |-> [k \in P |-> table[k].ranks], upto |-> table[last].seq]]
  /\ fresh' = [fresh EXCEPT ![d] = @ \/ unsynced # {}]
  /\ UNCHANGED <<storeVars, local, cursor, wanted, exposed, edits, faults>>

\* The device merges the page by the same rule and stores the cursor.
Receive(d) ==
  /\ page[d] # NoPage
  /\ local' = [local EXCEPT ![d] = [k \in Keys |->
       IF k \in DOMAIN page[d].rows /\ Beats(page[d].rows[k], @[k])
       THEN page[d].rows[k] ELSE @[k]]]
  /\ cursor' = [cursor EXCEPT ![d] = page[d].upto]
  /\ page' = [page EXCEPT ![d] = NoPage]
  /\ UNCHANGED <<storeVars, wanted, fresh, exposed, edits, faults>>
-----------------------------------------------------------------------------
\* A checkpoint syncs the log and the database file.
Checkpoint ==
  /\ unsynced # {}
  /\ unsynced' = {}
  /\ fresh' = [d \in Devices |-> FALSE]
  /\ UNCHANGED <<table, nextSeq, deviceVars, exposed, edits, faults>>

\* The machine loses power.  Recovery finds the log up to some commit; what it
\* finds is on disk.
PowerLoss ==
  /\ faults < MaxFaults
  /\ \E s \in unsynced : table' = s.table /\ nextSeq' = s.nextSeq
  /\ unsynced' = {}
  /\ fresh' = [d \in Devices |-> FALSE]
  /\ exposed' = [d \in Devices |-> exposed[d] \/ fresh[d]]
  /\ faults' = faults + 1
  /\ UNCHANGED <<deviceVars, edits>>

\* A device that may have read what was lost pulls from the beginning.
StartOver(d) ==
  /\ exposed[d]
  /\ cursor' = [cursor EXCEPT ![d] = 0]
  /\ page' = [page EXCEPT ![d] = NoPage]
  /\ exposed' = [exposed EXCEPT ![d] = FALSE]
  /\ UNCHANGED <<storeVars, local, wanted, fresh, edits, faults>>

Next ==
  \/ \E d \in Devices :
       \/ \E k \in Keys, v \in Versions : Edit(d, k, v)
       \/ Diff(d)
       \/ Push(d)
       \/ PushUnanswered(d)
       \/ Pull(d)
       \/ Receive(d)
       \/ StartOver(d)
  \/ Checkpoint
  \/ PowerLoss

Spec == Init /\ [][Next]_vars

\* Devices go on synchronising.  Nothing is assumed of edits, checkpoints,
\* failures, or of a device that would have to start over.
FairSpec ==
  /\ Spec
  /\ \A d \in Devices :
       WF_vars(Diff(d)) /\ WF_vars(Push(d)) /\ WF_vars(Pull(d)) /\ WF_vars(Receive(d))
-----------------------------------------------------------------------------
TypeOK ==
  /\ table \in [Keys -> [ranks : Versions, seq : Nat] \cup {NoRow}]
  /\ nextSeq \in Nat
  /\ \A s \in unsynced :
       /\ s.table \in [Keys -> [ranks : Versions, seq : Nat] \cup {NoRow}]
       /\ s.nextSeq \in Nat
  /\ local \in [Devices -> [Keys -> Versions \cup {NoRow}]]
  /\ cursor \in [Devices -> Nat]
  /\ wanted \in [Devices -> SUBSET Keys]
  /\ DOMAIN page = Devices
  /\ \A d \in Devices : page[d] # NoPage =>
       \E P \in SUBSET Keys : page[d] \in [rows : [P -> Versions], upto : Nat]
  /\ fresh \in [Devices -> BOOLEAN]
  /\ exposed \in [Devices -> BOOLEAN]
  /\ \A d \in Devices : \A k \in wanted[d] : local[d][k] # NoRow

\* The device's copy is at least as good as the row.
Covered(d, k) ==
  local[d][k] # NoRow /\ ~ Wins(table[k].ranks, local[d][k])

\* What a cursor says is true from end to end: unless the store has lost a
\* state the device had read, the device holds, for every row at or below its
\* cursor, that version or a better one.
CursorHolds ==
  \A d \in Devices, k \in Keys :
    ~ exposed[d] /\ table[k] # NoRow /\ table[k].seq <= cursor[d] => Covered(d, k)

\* Nothing a device still holds is lost: in the end the store has every copy of
\* every device or a better version, power losses and all.
ServerCatchesUp ==
  <>[](\A d \in Devices, k \in Keys :
         local[d][k] # NoRow => ~ Beats(local[d][k], Held(table[k])))

\* The devices converge: in the end every device holds what the store holds,
\* unless it had read what a power loss took and has not pulled from 0 since.
Converge ==
  \A d \in Devices :
    <>[](~ exposed[d] => \A k \in Keys : local[d][k] = Held(table[k]))
=============================================================================
