----------------------------- MODULE DiffCheck -----------------------------
(***************************************************************************)
(* POST /v1/sync/diff beside the write path: diffHandler asks              *)
(* store.StoredRanks for the ranks of the client's keys, one lookup per    *)
(* key inside one read transaction, and compares them with store.Wins.     *)
(* The reader pool is never blocked by the writer: BEGIN is deferred, so   *)
(* the snapshot is the state committed when the first lookup runs.         *)
(*                                                                         *)
(* `during' is a history variable: the states of the user's rows committed *)
(* at some moment while the request was served.                            *)
(***************************************************************************)
EXTENDS EnvelopeStore

CONSTANTS
  Diffs,      \* concurrent diff requests
  DiffItems   \* what a client may send: records [key, edited, rev, src]

ASSUME DiffAssumption ==
  /\ DiffItems \subseteq [key : Keys, edited : Int, rev : Int, src : Int]

VARIABLES
  dpc,      \* "idle", "reading" (in StoredRanks), "answered"
  duser,    \* the authenticated user
  items,    \* the items left after duplicates of a key are dropped
  looked,   \* keys already looked up
  snapshot, \* the rows the read transaction sees, pinned by its first lookup
  found,    \* the rows StoredRanks has found, as a function of their keys
  missing,  \* the answer
  stale,
  during

diffVars == <<dpc, duser, items, looked, snapshot, found, missing, stale, during>>

\* Requests after validation and deduplication: at most one item per key.
Requests ==
  {I \in SUBSET DiffItems :
     I # {} /\ \A i, j \in I : i.key = j.key => i = j}

DiffInit ==
  /\ Init
  /\ dpc = [r \in Diffs |-> "idle"]
  /\ duser = [r \in Diffs |-> NoUser]
  /\ items = [r \in Diffs |-> {}]
  /\ looked = [r \in Diffs |-> {}]
  /\ snapshot = [r \in Diffs |-> EmptyRows]
  /\ found = [r \in Diffs |-> <<>>]
  /\ missing = [r \in Diffs |-> {}]
  /\ stale = [r \in Diffs |-> {}]
  /\ during = [r \in Diffs |-> {}]

ForgetDiff(r) ==
  /\ dpc' = [dpc EXCEPT ![r] = "idle"]
  /\ duser' = [duser EXCEPT ![r] = NoUser]
  /\ items' = [items EXCEPT ![r] = {}]
  /\ looked' = [looked EXCEPT ![r] = {}]
  /\ snapshot' = [snapshot EXCEPT ![r] = EmptyRows]
  /\ found' = [found EXCEPT ![r] = <<>>]
  /\ missing' = [missing EXCEPT ![r] = {}]
  /\ stale' = [stale EXCEPT ![r] = {}]
  /\ during' = [during EXCEPT ![r] = {}]

\* StoredRanks begins its transaction; no snapshot is taken yet.
DiffBegin(r, u, I) ==
  /\ dpc[r] = "idle"
  /\ dpc' = [dpc EXCEPT ![r] = "reading"]
  /\ duser' = [duser EXCEPT ![r] = u]
  /\ items' = [items EXCEPT ![r] = I]
  /\ during' = [during EXCEPT ![r] = {table[u]}]
  /\ UNCHANGED <<vars, looked, snapshot, found, missing, stale>>

Extend(f, k, v) == [j \in DOMAIN f \cup {k} |-> IF j = k THEN v ELSE f[j]]

\* Deviation of Seen: lookups outside a transaction.
SeenNow(r) == table[duser[r]]

\* The rows a lookup of request r reads.
Seen(r) == IF looked[r] = {} THEN table[duser[r]] ELSE snapshot[r]

\* One primary-key lookup; an absent key stays out of the result.
Lookup(r, k) ==
  /\ dpc[r] = "reading"
  /\ k \in {i.key : i \in items[r]} \ looked[r]
  /\ snapshot' = [snapshot EXCEPT ![r] = Seen(r)]
  /\ looked' = [looked EXCEPT ![r] = @ \cup {k}]
  /\ found' = IF Seen(r)[k] = NoRow THEN found
              ELSE [found EXCEPT ![r] = Extend(@, k, Seen(r)[k])]
  /\ UNCHANGED <<vars, dpc, duser, items, missing, stale, during>>

\* The rest of diffHandler: absent keys are missing, keys the client wins are
\* stale, the others are left out.
Answer(r) ==
  /\ dpc[r] = "reading"
  /\ looked[r] = {i.key : i \in items[r]}
  /\ missing' = [missing EXCEPT ![r] = looked[r] \ DOMAIN found[r]]
  /\ stale' = [stale EXCEPT ![r] =
       {i.key : i \in {j \in items[r] :
          j.key \in DOMAIN found[r] /\ Wins(j, found[r][j.key])}}]
  /\ dpc' = [dpc EXCEPT ![r] = "answered"]
  /\ UNCHANGED <<vars, duser, items, looked, snapshot, found, during>>

\* A lookup fails or the context is cancelled: 503.
DiffFails(r) ==
  /\ dpc[r] = "reading"
  /\ ForgetDiff(r)
  /\ UNCHANGED vars

DiffDone(r) ==
  /\ dpc[r] = "answered"
  /\ ForgetDiff(r)
  /\ UNCHANGED vars

DiffStep ==
  \E r \in Diffs :
    \/ \E u \in Users, I \in Requests : DiffBegin(r, u, I)
    \/ \E k \in Keys : Lookup(r, k)
    \/ Answer(r)
    \/ DiffFails(r)
    \/ DiffDone(r)

\* A step of a push; a commit adds to `during' of the requests being served.
WriteStep ==
  /\ Serve
  /\ during' = [r \in Diffs |->
       IF dpc[r] = "reading" THEN during[r] \cup {table'[duser[r]]} ELSE during[r]]
  /\ UNCHANGED <<dpc, duser, items, looked, snapshot, found, missing, stale>>

\* The process dies with every request it was serving.
DiffRestart ==
  /\ Restart
  /\ dpc' = [r \in Diffs |-> "idle"]
  /\ duser' = [r \in Diffs |-> NoUser]
  /\ items' = [r \in Diffs |-> {}]
  /\ looked' = [r \in Diffs |-> {}]
  /\ snapshot' = [r \in Diffs |-> EmptyRows]
  /\ found' = [r \in Diffs |-> <<>>]
  /\ missing' = [r \in Diffs |-> {}]
  /\ stale' = [r \in Diffs |-> {}]
  /\ during' = [r \in Diffs |-> {}]

DiffNext == DiffStep \/ WriteStep \/ DiffRestart

DiffSpec == DiffInit /\ [][DiffNext]_<<vars, diffVars>>
-----------------------------------------------------------------------------
DiffTypeOK ==
  /\ TypeOK
  /\ dpc \in [Diffs -> {"idle", "reading", "answered"}]
  /\ duser \in [Diffs -> Users \cup {NoUser}]
  /\ items \in [Diffs -> Requests \cup {{}}]
  /\ looked \in [Diffs -> SUBSET Keys]
  /\ snapshot \in [Diffs -> [Keys -> RowType \cup {NoRow}]]
  /\ DOMAIN found = Diffs
  /\ \A r \in Diffs :
       /\ DOMAIN found[r] \subseteq looked[r]
       /\ \A k \in DOMAIN found[r] : found[r][k] \in RowType
  /\ missing \in [Diffs -> SUBSET Keys]
  /\ stale \in [Diffs -> SUBSET Keys]
  /\ during \in [Diffs -> SUBSET [Keys -> RowType \cup {NoRow}]]

\* The whole answer, over all its keys, is the comparison with one state of
\* the store that was committed while the request was served: a diff never
\* shows half of a push, however its lookups interleave with commits.
AnswerOfOneMoment ==
  \A r \in Diffs : dpc[r] = "answered" =>
    \E t \in during[r] : \A i \in items[r] :
      /\ i.key \in missing[r] <=> t[i.key] = NoRow
      /\ i.key \in stale[r] <=> t[i.key] # NoRow /\ UpsertWhere(i, t[i.key])

\* An item the answer leaves out needs no push, then or later: the store holds
\* a row for it that the upsert would not let the client's version overwrite.
SilentNeedsNoPush ==
  \A r \in Diffs : dpc[r] = "answered" =>
    \A i \in items[r] :
      i.key \notin missing[r] \cup stale[r] =>
        LET row == table[duser[r]][i.key]
        IN row # NoRow /\ ~ Stores(i, row)
=============================================================================
