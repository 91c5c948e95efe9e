--------------------------- MODULE EnvelopeStore ---------------------------
(***************************************************************************)
(* The write path of package store: UpsertMany, one transaction per push,  *)
(* on a writer pool of a single connection.  A transaction allocates one   *)
(* sequence number per envelope, whether or not the envelope wins, works   *)
(* on its own copy of the user's rows, and becomes visible at COMMIT; an   *)
(* error or the death of the process leaves no trace of it.                *)
(*                                                                         *)
(* user_id, (id, part) and the columns nobody compares (entity_type,       *)
(* flags, schema_version, payload_encoding, payload: `body') are model     *)
(* values.  `accepted' is a history variable: the envelopes of committed   *)
(* transactions.                                                           *)
(***************************************************************************)
EXTENDS Conflict, Sequences, FiniteSets

CONSTANTS
  Users,     \* user_id values
  Keys,      \* (id, part) pairs
  Bodies,    \* what the opaque columns can hold
  Envelopes, \* the envelopes clients may push
  Pushers,   \* concurrent push requests
  MaxBatch,  \* sync.max_envelopes_per_push
  MaxSeq,    \* bound on every user's counter
  NoRow,     \* no row is stored under the key
  NoUser     \* the user of a request slot that serves nobody

EnvelopeType ==
  [key : Keys, edited : Int, rev : Int, src : Int, created : Int, body : Bodies]

RowType ==
  [edited : Int, rev : Int, src : Int, created : Int, body : Bodies, seq : Nat]

ASSUME StoreAssumption ==
  /\ Envelopes \subseteq EnvelopeType
  /\ MaxBatch \in Nat \ {0}
  /\ MaxSeq \in Nat
  /\ NoRow \notin RowType
  /\ NoUser \notin Users

VARIABLES
  nextSeq,   \* nextSeq[u]: users.next_seq, 0 when the row is absent
  table,     \* table[u][k]: the committed envelopes row
  pc,        \* pc[p]: "idle", "tx" (transaction open), "reply" (committed)
  user,      \* user[p], batch[p]: the push being served
  batch,
  next,      \* next[p], rows[p]: next_seq and rows of that user, as the open
  rows,      \*   transaction sees them
  applied,   \* applied[p]: the flags collected so far, one per envelope done
  accepted   \* accepted[u]: envelopes of u's committed transactions

vars == <<nextSeq, table, pc, user, batch, next, rows, applied, accepted>>

txVars == <<user, batch, next, rows, applied>>

\* Pushes the handler lets through: not empty, not above the limit, and no
\* (id, part) twice.
Batches ==
  {b \in UNION {[1..n -> Envelopes] : n \in 1..MaxBatch} :
     \A i, j \in DOMAIN b : i # j => b[i].key # b[j].key}

EmptyRows == [k \in Keys |-> NoRow]

Init ==
  /\ nextSeq = [u \in Users |-> 0]
  /\ table = [u \in Users |-> EmptyRows]
  /\ pc = [p \in Pushers |-> "idle"]
  /\ user = [p \in Pushers |-> NoUser]
  /\ batch = [p \in Pushers |-> <<>>]
  /\ next = [p \in Pushers |-> 0]
  /\ rows = [p \in Pushers |-> EmptyRows]
  /\ applied = [p \in Pushers |-> <<>>]
  /\ accepted = [u \in Users |-> {}]
-----------------------------------------------------------------------------
\* Deviation of Stores: only an insert is reported as applied.
StoresInsertOnly(e, row) == row = NoRow

\* INSERT ... ON CONFLICT DO UPDATE ... RETURNING, for one envelope e that was
\* given number s: does it store, and what does the row hold afterwards?  The
\* update leaves created_at_ms alone.
Stores(e, row) == row = NoRow \/ UpsertWhere(e, row)

NewRow(e, s, created) ==
  [edited |-> e.edited, rev |-> e.rev, src |-> e.src,
   created |-> created, body |-> e.body, seq |-> s]

\* Deviation of Upserted: created_at_ms is among the updated columns.
UpsertedCreated(e, s, row) ==
  IF row = NoRow \/ UpsertWhere(e, row) THEN NewRow(e, s, e.created) ELSE row

Upserted(e, s, row) ==
  IF row = NoRow THEN NewRow(e, s, e.created)
  ELSE IF UpsertWhere(e, row) THEN NewRow(e, s, row.created)
  ELSE row
-----------------------------------------------------------------------------
\* Deviation of WriterFree: a writer pool of several connections, with
\* transactions that do not take the write lock when they begin.
WriterShared == TRUE

\* The single writer connection is in nobody's hands.
WriterFree == \A p \in Pushers : pc[p] # "tx"

Forget(p) ==
  /\ user' = [user EXCEPT ![p] = NoUser]
  /\ batch' = [batch EXCEPT ![p] = <<>>]
  /\ next' = [next EXCEPT ![p] = 0]
  /\ rows' = [rows EXCEPT ![p] = EmptyRows]
  /\ applied' = [applied EXCEPT ![p] = <<>>]

\* writeDB.BeginTx: waits for the connection, then BEGIN IMMEDIATE.  MaxSeq
\* only bounds the instance.
Begin(p, u, b) ==
  /\ pc[p] = "idle"
  /\ WriterFree
  /\ nextSeq[u] + Len(b) <= MaxSeq
  /\ pc' = [pc EXCEPT ![p] = "tx"]
  /\ user' = [user EXCEPT ![p] = u]
  /\ batch' = [batch EXCEPT ![p] = b]
  /\ next' = [next EXCEPT ![p] = nextSeq[u]]
  /\ rows' = [rows EXCEPT ![p] = table[u]]
  /\ applied' = [applied EXCEPT ![p] = <<>>]
  /\ UNCHANGED <<nextSeq, table, accepted>>

\* upsertOneInTx for the next envelope of the batch.
UpsertOne(p) ==
  /\ pc[p] = "tx"
  /\ Len(applied[p]) < Len(batch[p])
  /\ LET e == batch[p][Len(applied[p]) + 1]
     IN /\ next' = [next EXCEPT ![p] = @ + 1]
        /\ rows' = [rows EXCEPT ![p][e.key] = Upserted(e, next[p] + 1, @)]
        /\ applied' = [applied EXCEPT ![p] = Append(@, Stores(e, rows[p][e.key]))]
  /\ UNCHANGED <<nextSeq, table, pc, user, batch, accepted>>

\* A statement or the COMMIT fails, or the request context is cancelled: the
\* transaction is rolled back and the handler answers 503.
Rollback(p) ==
  /\ pc[p] = "tx"
  /\ pc' = [pc EXCEPT ![p] = "idle"]
  /\ Forget(p)
  /\ UNCHANGED <<nextSeq, table, accepted>>

\* Deviation of Commit: the loop over the batch ends early.
CommitPartial(p) ==
  /\ pc[p] = "tx"
  /\ nextSeq' = [nextSeq EXCEPT ![user[p]] = next[p]]
  /\ table' = [table EXCEPT ![user[p]] = rows[p]]
  /\ pc' = [pc EXCEPT ![p] = "reply"]
  /\ accepted' = [accepted EXCEPT ![user[p]] =
                    @ \cup {batch[p][i] : i \in DOMAIN batch[p]}]
  /\ UNCHANGED txVars

Commit(p) ==
  /\ pc[p] = "tx"
  /\ Len(applied[p]) = Len(batch[p])
  /\ nextSeq' = [nextSeq EXCEPT ![user[p]] = next[p]]
  /\ table' = [table EXCEPT ![user[p]] = rows[p]]
  /\ pc' = [pc EXCEPT ![p] = "reply"]
  /\ accepted' = [accepted EXCEPT ![user[p]] =
                    @ \cup {batch[p][i] : i \in DOMAIN batch[p]}]
  /\ UNCHANGED txVars

\* The handler has sent the flags, or the client was gone before it could.
Reply(p) ==
  /\ pc[p] = "reply"
  /\ pc' = [pc EXCEPT ![p] = "idle"]
  /\ Forget(p)
  /\ UNCHANGED <<nextSeq, table, accepted>>

\* Store.AllocateSeq, an autocommit statement on the writer connection.
AllocateSeq(u) ==
  /\ WriterFree
  /\ nextSeq[u] < MaxSeq
  /\ nextSeq' = [nextSeq EXCEPT ![u] = @ + 1]
  /\ UNCHANGED <<table, pc, accepted, txVars>>

\* The process dies and is started again; what was committed is still there.
Restart ==
  /\ pc' = [p \in Pushers |-> "idle"]
  /\ user' = [p \in Pushers |-> NoUser]
  /\ batch' = [p \in Pushers |-> <<>>]
  /\ next' = [p \in Pushers |-> 0]
  /\ rows' = [p \in Pushers |-> EmptyRows]
  /\ applied' = [p \in Pushers |-> <<>>]
  /\ UNCHANGED <<nextSeq, table, accepted>>

\* What runs while the process is up.
Serve ==
  \/ \E p \in Pushers :
       \/ \E u \in Users, b \in Batches : Begin(p, u, b)
       \/ UpsertOne(p)
       \/ Rollback(p)
       \/ Commit(p)
       \/ Reply(p)
  \/ \E u \in Users : AllocateSeq(u)

Next == Serve \/ Restart

Spec == Init /\ [][Next]_vars
-----------------------------------------------------------------------------
\* Types; a slot that serves nobody holds nothing.
TypeOK ==
  /\ nextSeq \in [Users -> Nat]
  /\ table \in [Users -> [Keys -> RowType \cup {NoRow}]]
  /\ pc \in [Pushers -> {"idle", "tx", "reply"}]
  /\ user \in [Pushers -> Users \cup {NoUser}]
  /\ batch \in [Pushers -> Batches \cup {<<>>}]
  /\ next \in [Pushers -> Nat]
  /\ rows \in [Pushers -> [Keys -> RowType \cup {NoRow}]]
  /\ applied \in [Pushers -> Seq(BOOLEAN)]
  /\ accepted \in [Users -> SUBSET Envelopes]
  /\ \A p \in Pushers : pc[p] # "idle" => user[p] \in Users /\ batch[p] \in Batches

\* The working copy of p's transaction is the committed state with the envelopes
\* done so far applied to it, in order.
CopyOf(p) ==
  LET u == user[p]
      b == batch[p]
      done == Len(applied[p])
  IN /\ done <= Len(b)
     /\ next[p] = nextSeq[u] + done
     /\ \A i \in 1..done :
          LET old == table[u][b[i].key]
          IN /\ applied[p][i] = Stores(b[i], old)
             /\ rows[p][b[i].key] = Upserted(b[i], nextSeq[u] + i, old)
     /\ \A k \in Keys :
          (\A i \in 1..done : b[i].key # k) => rows[p][k] = table[u][k]

\* At most one transaction is open, and its working copy starts from what is
\* committed now: this is what makes the commit of a batch one step of the log.
WorkingCopy ==
  /\ \A p, q \in Pushers : pc[p] = "tx" /\ pc[q] = "tx" => p = q
  /\ \A p \in Pushers : pc[p] = "tx" => CopyOf(p)

\* What a client is told has been committed.
RepliedAccepted ==
  \A p \in Pushers : pc[p] = "reply" =>
    \A i \in DOMAIN batch[p] : batch[p][i] \in accepted[user[p]]

Candidates(u, k) == {e \in accepted[u] : e.key = k}

\* Whatever the order in which pushes of several devices were interleaved,
\* failed or repeated, a stored row holds the ranks and the contents of one
\* accepted envelope that no other accepted envelope of that key beats; a row
\* is absent only while nothing was accepted for it.
LwwWinner ==
  \A u \in Users, k \in Keys :
    IF table[u][k] = NoRow THEN Candidates(u, k) = {}
    ELSE /\ \E e \in Candidates(u, k) :
              SameRanks(e, table[u][k]) /\ e.body = table[u][k].body
         /\ \A e \in Candidates(u, k) : ~ UpsertWhere(e, table[u][k])

\* What is told to a client once its transaction has committed holds for good:
\* the store has a row for each envelope of the push, and that row is not
\* inferior to the envelope, applied or not.
RepliesHold ==
  \A p \in Pushers : pc[p] = "reply" =>
    \A i \in DOMAIN batch[p] :
      LET row == table[user[p]][batch[p][i].key]
      IN row # NoRow /\ ~ UpsertWhere(batch[p][i], row)

Committing(p) == pc[p] = "tx" /\ pc'[p] = "reply"

\* applied[i] is TRUE exactly when this commit rewrote the row of envelope i,
\* with that envelope: the flag comes from RETURNING inside the transaction
\* and no other push gets between it and the COMMIT.
AppliedIsTruth ==
  [][\A p \in Pushers : Committing(p) =>
       \A i \in DOMAIN batch[p] :
         LET e == batch[p][i]
             row == table'[user[p]][e.key]
         IN IF applied[p][i]
            THEN row.seq > nextSeq[user[p]] /\ SameRanks(e, row) /\ row.body = e.body
            ELSE row = table[user[p]][e.key]]_vars

\* A push repeated because its answer was lost stores nothing: when every
\* envelope of a batch has been accepted before, its commit changes no row.
RetryIsNoop ==
  [][\A p \in Pushers :
       Committing(p) /\ (\A i \in DOMAIN batch[p] : batch[p][i] \in accepted[user[p]])
         => table' = table]_vars

\* A stored row is never removed, its creation time never changes, and any
\* other change to it means strictly greater ranks.
RowsOnlyAdvance ==
  [][\A u \in Users, k \in Keys :
       LET old == table[u][k]
           new == table'[u][k]
       IN old # NoRow /\ new # old =>
            new # NoRow /\ new.created = old.created /\ Wins(new, old)]_vars

\* The store as the pulls see it: only the numbers.
SeqOf == [u \in Users |->
           [k \in Keys |-> IF table[u][k] = NoRow THEN 0 ELSE table[u][k].seq]]

Log == INSTANCE SeqLog WITH seqOf <- SeqOf

\* The write path implements the abstract log: numbers become visible in the
\* order they were allocated, a whole transaction at a time.
ImplementsSeqLog == Log!LogSpec
=============================================================================
