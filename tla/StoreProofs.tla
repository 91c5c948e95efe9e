---------------------------- MODULE StoreProofs ----------------------------
(***************************************************************************)
(* Theorems about the last-write-wins rule, about the write path of the    *)
(* store, for any users, keys, envelopes, number of concurrent pushes and  *)
(* batch size, and about the diff beside it, for any number of requests.   *)
(***************************************************************************)
EXTENDS DiffCheck, TLAPS, SequenceTheorems

(* The two forms of the last-write-wins rule are one strict order on ranks. *)

\* store.Wins and the WHERE clause of the upsert decide alike, whatever the
\* ranks: the divergence check never disagrees with the write path.
THEOREM WinsIsUpsertWhere ==
  ASSUME NEW a, NEW b, Ranked(a), Ranked(b)
  PROVE  Wins(a, b) <=> UpsertWhere(a, b)
BY DEF Ranked, Wins, UpsertWhere

\* An envelope never beats one of the same ranks: re-sending is no win.
LEMMA NoWinOnTie ==
  ASSUME NEW a, NEW b, Ranked(a), Ranked(b), SameRanks(a, b)
  PROVE  ~ UpsertWhere(a, b)
BY DEF Ranked, SameRanks, UpsertWhere

\* Of two rankings, one wins, or they are the same: arrival order cannot leave
\* two devices with different winners.
THEOREM Total ==
  ASSUME NEW a, NEW b, Ranked(a), Ranked(b)
  PROVE  UpsertWhere(a, b) \/ UpsertWhere(b, a) \/ SameRanks(a, b)
BY DEF Ranked, SameRanks, UpsertWhere

THEOREM Asymmetric ==
  ASSUME NEW a, NEW b, Ranked(a), Ranked(b), UpsertWhere(a, b)
  PROVE  ~ UpsertWhere(b, a)
BY DEF Ranked, UpsertWhere

THEOREM Transitive ==
  ASSUME NEW a, NEW b, NEW c, Ranked(a), Ranked(b), Ranked(c),
         UpsertWhere(a, b), UpsertWhere(b, c)
  PROVE  UpsertWhere(a, c)
BY DEF Ranked, UpsertWhere

\* The form in which the store uses transitivity: what does not beat a row
\* does not beat a row that has advanced beyond it.
LEMMA StillLoses ==
  ASSUME NEW e, NEW old, NEW new, Ranked(e), Ranked(old), Ranked(new),
         ~ UpsertWhere(e, old), UpsertWhere(new, old)
  PROVE  ~ UpsertWhere(e, new)
BY DEF Ranked, UpsertWhere
-----------------------------------------------------------------------------
(* The write path *)

Row0 == RowType \cup {NoRow}

\* A batch the handler lets through is a sequence of envelopes with distinct
\* keys, not empty and within the limit.
LEMMA BatchFacts ==
  ASSUME NEW b \in Batches
  PROVE  /\ b \in Seq(Envelopes)
         /\ Len(b) \in 1..MaxBatch
         /\ DOMAIN b = 1..Len(b)
         /\ \A i \in 1..Len(b) : b[i] \in Envelopes /\ b[i].key \in Keys
         /\ \A i, j \in 1..Len(b) : i # j => b[i].key # b[j].key
<1>1. PICK n \in 1..MaxBatch : b \in [1..n -> Envelopes]
  BY DEF Batches
<1>2. n \in Nat
  BY <1>1, StoreAssumption
<1>3. b \in Seq(Envelopes) /\ Len(b) = n /\ DOMAIN b = 1..n
  BY <1>1, <1>2
<1>4. \A i \in 1..n : b[i] \in Envelopes
  BY <1>1
<1>5. \A e \in Envelopes : e.key \in Keys
  BY StoreAssumption DEF EnvelopeType
<1> QED
  BY <1>1, <1>3, <1>4, <1>5 DEF Batches

\* Envelopes and rows carry ranks.
LEMMA RankedFacts ==
  /\ \A e \in Envelopes : Ranked(e)
  /\ \A row \in RowType : Ranked(row)
BY StoreAssumption DEF EnvelopeType, RowType, Ranked

\* What the upsert leaves under a key is a row.
LEMMA UpsertedType ==
  ASSUME NEW e \in Envelopes, NEW s \in Nat, NEW row \in Row0
  PROVE  Upserted(e, s, row) \in RowType /\ Upserted(e, s, row) # NoRow
<1>1. e \in EnvelopeType /\ NoRow \notin RowType
  BY StoreAssumption
<1>2. \A c \in Int : NewRow(e, s, c) \in RowType
  BY <1>1 DEF NewRow, EnvelopeType, RowType
<1>3. row # NoRow => row \in RowType /\ row.created \in Int
  BY DEF Row0, RowType
<1>4. e.created \in Int
  BY <1>1 DEF EnvelopeType
<1> QED
  BY <1>1, <1>2, <1>3, <1>4 DEF Upserted

LEMMA EmptyRowsType == EmptyRows \in [Keys -> Row0]
BY DEF EmptyRows, Row0

LEMMA TypeInit == Init => TypeOK
BY EmptyRowsType DEF Init, TypeOK, Row0

LEMMA TypeStep == TypeOK /\ [Next]_vars => TypeOK'
<1> SUFFICES ASSUME TypeOK, [Next]_vars PROVE TypeOK'
  OBVIOUS
<1>1. ASSUME NEW p \in Pushers, NEW u \in Users, NEW b \in Batches, Begin(p, u, b)
      PROVE  TypeOK'
  BY <1>1 DEF TypeOK, Begin
<1>2. ASSUME NEW p \in Pushers, UpsertOne(p)
      PROVE  TypeOK'
  <2> DEFINE i == Len(applied[p]) + 1
             e == batch[p][i]
             row == rows[p][e.key]
  <2>1. batch[p] \in Batches /\ applied[p] \in Seq(BOOLEAN)
    BY <1>2 DEF TypeOK, UpsertOne
  <2>2. i \in 1..Len(batch[p])
    BY <1>2, <2>1, BatchFacts DEF UpsertOne
  <2>3. e \in Envelopes /\ e.key \in Keys
    BY <2>1, <2>2, BatchFacts
  <2>4. next[p] + 1 \in Nat /\ row \in Row0
    BY <2>3 DEF TypeOK, Row0
  <2>5. Upserted(e, next[p] + 1, row) \in Row0
    BY <2>3, <2>4, UpsertedType DEF Row0
  <2>6. rows' \in [Pushers -> [Keys -> Row0]]
    BY <1>2, <2>3, <2>5 DEF TypeOK, UpsertOne, Row0
  <2>7. Stores(e, row) \in BOOLEAN
    BY <2>3, <2>4, RankedFacts DEF Stores, UpsertWhere, Ranked, Row0
  <2>8. applied' \in [Pushers -> Seq(BOOLEAN)]
    BY <1>2, <2>1, <2>7 DEF TypeOK, UpsertOne
  <2>9. next' \in [Pushers -> Nat]
    BY <1>2 DEF TypeOK, UpsertOne
  <2> QED
    BY <1>2, <2>6, <2>8, <2>9 DEF TypeOK, UpsertOne, Row0
<1>3. ASSUME NEW p \in Pushers, Rollback(p)
      PROVE  TypeOK'
  BY <1>3, EmptyRowsType DEF TypeOK, Rollback, Forget, Row0
<1>4. ASSUME NEW p \in Pushers, Commit(p)
      PROVE  TypeOK'
  <2>1. user[p] \in Users /\ batch[p] \in Batches
    BY <1>4 DEF TypeOK, Commit
  <2>2. {batch[p][i] : i \in DOMAIN batch[p]} \subseteq Envelopes
    BY <2>1, BatchFacts
  <2>3. accepted' \in [Users -> SUBSET Envelopes]
    BY <1>4, <2>1, <2>2 DEF TypeOK, Commit
  <2> QED
    BY <1>4, <2>1, <2>3 DEF TypeOK, Commit, txVars
<1>5. ASSUME NEW p \in Pushers, Reply(p)
      PROVE  TypeOK'
  BY <1>5, EmptyRowsType DEF TypeOK, Reply, Forget, Row0
<1>6. ASSUME NEW u \in Users, AllocateSeq(u)
      PROVE  TypeOK'
  BY <1>6 DEF TypeOK, AllocateSeq, txVars
<1>7. CASE Restart
  BY <1>7, EmptyRowsType DEF TypeOK, Restart, Row0
<1>8. CASE UNCHANGED vars
  BY <1>8 DEF TypeOK, vars
<1> QED
  BY <1>1, <1>2, <1>3, <1>4, <1>5, <1>6, <1>7, <1>8 DEF Next, Serve

\* The variables of the write path keep their types.
THEOREM TypeCorrect == Spec => []TypeOK
BY TypeInit, TypeStep, PTL DEF Spec
-----------------------------------------------------------------------------
LEMMA WorkInit == Init => WorkingCopy
BY DEF Init, WorkingCopy

LEMMA WorkStep == TypeOK /\ WorkingCopy /\ [Next]_vars => WorkingCopy'
<1> SUFFICES ASSUME TypeOK, WorkingCopy, [Next]_vars PROVE WorkingCopy'
  OBVIOUS
<1>1. ASSUME NEW p \in Pushers, NEW u \in Users, NEW b \in Batches, Begin(p, u, b)
      PROVE  WorkingCopy'
  <2>1. /\ \A q \in Pushers : pc'[q] = "tx" <=> q = p
        /\ user'[p] = u /\ batch'[p] = b /\ applied'[p] = <<>>
        /\ next'[p] = nextSeq[u] /\ rows'[p] = table[u]
        /\ nextSeq' = nextSeq /\ table' = table
    BY <1>1 DEF TypeOK, Begin, WriterFree
  <2>2. Len(b) \in Nat /\ Len(<<>>) = 0 /\ nextSeq[u] \in Nat
    BY BatchFacts DEF TypeOK
  <2> QED
    BY <2>1, <2>2 DEF WorkingCopy, CopyOf
<1>2. ASSUME NEW p \in Pushers, UpsertOne(p)
      PROVE  WorkingCopy'
  <2> DEFINE u == user[p]
             b == batch[p]
             d == Len(applied[p])
             e == b[d + 1]
             old == table[u][e.key]
  <2>1. u \in Users /\ b \in Batches /\ applied[p] \in Seq(BOOLEAN) /\ d \in Nat
        /\ nextSeq[u] \in Nat /\ next[p] = nextSeq[u] + d
    BY <1>2 DEF TypeOK, UpsertOne, WorkingCopy, CopyOf
  <2>2. d + 1 \in 1..Len(b) /\ e \in Envelopes /\ e.key \in Keys /\ Len(b) \in Nat
    BY <1>2, <2>1, BatchFacts DEF UpsertOne
  <2>3. \A i \in 1..d : i \in 1..Len(b) /\ b[i].key # e.key /\ b[i].key \in Keys
    <3>1. \A i, j \in 1..Len(b) : i # j => b[i].key # b[j].key
      BY <2>1, BatchFacts
    <3>2. \A i \in 1..Len(b) : b[i].key \in Keys
      BY <2>1, BatchFacts
    <3>3. \A i \in 1..d : i \in 1..Len(b) /\ i # d + 1
      BY <2>1, <2>2
    <3> QED
      BY <2>2, <3>1, <3>2, <3>3
  <2>4. CopyOf(p)
    BY <1>2 DEF UpsertOne, WorkingCopy
  <2>5. rows[p][e.key] = old
    BY <2>2, <2>3, <2>4 DEF CopyOf
  <2>6. Stores(e, old) \in BOOLEAN
    <3>1. old \in Row0
      BY <2>1, <2>2 DEF TypeOK, Row0
    <3> QED
      BY <2>2, <3>1, RankedFacts DEF Stores, UpsertWhere, Ranked, Row0
  <2>7. /\ pc' = pc /\ user' = user /\ batch' = batch
        /\ nextSeq' = nextSeq /\ table' = table
        /\ next'[p] = nextSeq[u] + (d + 1)
        /\ applied'[p] = Append(applied[p], Stores(e, old))
    <3>1. pc' = pc /\ user' = user /\ batch' = batch /\ nextSeq' = nextSeq /\ table' = table
      BY <1>2 DEF UpsertOne
    <3>2. next'[p] = next[p] + 1
      BY <1>2 DEF TypeOK, UpsertOne
    <3>3. next'[p] = nextSeq[u] + (d + 1)
      BY <2>1, <3>2
    <3>4. applied'[p] = Append(applied[p], Stores(e, rows[p][e.key]))
      BY <1>2 DEF TypeOK, UpsertOne
    <3> QED
      BY <2>5, <3>1, <3>3, <3>4
  <2>8. /\ rows'[p][e.key] = Upserted(e, nextSeq[u] + (d + 1), old)
        /\ \A k \in Keys : k # e.key => rows'[p][k] = rows[p][k]
    <3>1. next[p] + 1 = nextSeq[u] + (d + 1)
      BY <2>1
    <3>2. rows' = [rows EXCEPT ![p] = [rows[p] EXCEPT ![e.key] =
                     Upserted(e, next[p] + 1, old)]]
      BY <1>2, <2>5 DEF UpsertOne
    <3>3. rows \in [Pushers -> [Keys -> Row0]]
      BY DEF TypeOK, Row0
    <3> QED
      BY <2>2, <3>1, <3>2, <3>3
  <2>9. /\ Len(applied'[p]) = d + 1
        /\ applied'[p][d + 1] = Stores(e, old)
        /\ \A i \in 1..d : applied'[p][i] = applied[p][i]
    BY <2>1, <2>6, <2>7
  <2>10. ASSUME NEW i \in 1..(d + 1)
         PROVE  /\ applied'[p][i] = Stores(b[i], table[u][b[i].key])
                /\ rows'[p][b[i].key] = Upserted(b[i], nextSeq[u] + i, table[u][b[i].key])
    <3>1. CASE i = d + 1
      BY <3>1, <2>8, <2>9
    <3>2. CASE i \in 1..d
      BY <3>2, <2>3, <2>4, <2>8, <2>9 DEF CopyOf
    <3> QED
      BY <2>1, <3>1, <3>2
  <2>11. ASSUME NEW k \in Keys, \A i \in 1..(d + 1) : b[i].key # k
         PROVE  rows'[p][k] = table[u][k]
    <3>1. k # e.key /\ \A i \in 1..d : b[i].key # k
      BY <2>1, <2>11
    <3>2. rows[p][k] = table[u][k]
      BY <3>1, <2>4 DEF CopyOf
    <3> QED
      BY <3>1, <3>2, <2>8
  <2>12. CopyOf(p)'
    <3>1. user'[p] = u /\ batch'[p] = b /\ nextSeq' = nextSeq /\ table' = table
      BY <2>7
    <3>2. d + 1 <= Len(b)
      BY <2>2
    <3>3. \A i \in 1..(d + 1) :
            /\ applied'[p][i] = Stores(batch'[p][i], table'[user'[p]][batch'[p][i].key])
            /\ rows'[p][batch'[p][i].key] =
                 Upserted(batch'[p][i], nextSeq'[user'[p]] + i,
                          table'[user'[p]][batch'[p][i].key])
      BY <3>1, <2>10
    <3>4. \A k \in Keys : (\A i \in 1..(d + 1) : batch'[p][i].key # k)
                           => rows'[p][k] = table'[user'[p]][k]
      BY <3>1, <2>11
    <3> HIDE DEF d
    <3> QED
      BY <2>7, <2>9, <3>2, <3>3, <3>4 DEF CopyOf
  <2>13. \A q \in Pushers : pc'[q] = "tx" => q = p
    BY <1>2, <2>7 DEF UpsertOne, WorkingCopy
  <2> QED
    BY <2>12, <2>13 DEF WorkingCopy
<1>3. ASSUME NEW p \in Pushers, Rollback(p) \/ Commit(p)
      PROVE  WorkingCopy'
  <2>1. \A q \in Pushers : pc'[q] # "tx"
    BY <1>3 DEF TypeOK, Rollback, Commit, WorkingCopy
  <2> QED
    BY <2>1 DEF WorkingCopy
<1>4. ASSUME NEW p \in Pushers, Reply(p)
      PROVE  WorkingCopy'
  <2>1. ASSUME NEW q \in Pushers, pc'[q] = "tx"
        PROVE  pc[q] = "tx" /\ CopyOf(q)'
    <3>1. q # p /\ pc[q] = "tx"
      BY <1>4, <2>1 DEF TypeOK, Reply
    <3>2. /\ user'[q] = user[q] /\ batch'[q] = batch[q] /\ next'[q] = next[q]
          /\ rows'[q] = rows[q] /\ applied'[q] = applied[q]
          /\ nextSeq' = nextSeq /\ table' = table
      BY <1>4, <3>1 DEF TypeOK, Reply, Forget
    <3>3. CopyOf(q)
      BY <3>1 DEF WorkingCopy
    <3> QED
      BY <3>1, <3>2, <3>3 DEF CopyOf
  <2> QED
    BY <2>1 DEF WorkingCopy
<1>5. ASSUME NEW u \in Users, AllocateSeq(u)
      PROVE  WorkingCopy'
  BY <1>5 DEF AllocateSeq, WriterFree, WorkingCopy
<1>6. CASE Restart
  BY <1>6 DEF Restart, WorkingCopy
<1>7. CASE UNCHANGED vars
  BY <1>7 DEF WorkingCopy, CopyOf, vars
<1> QED
  BY <1>1, <1>2, <1>3, <1>4, <1>5, <1>6, <1>7 DEF Next, Serve

\* The working copy of the one open transaction is, at every moment, the
\* committed state with a prefix of the batch applied to it.
THEOREM WorkingCopyCorrect == Spec => []WorkingCopy
<1>1. Init => TypeOK /\ WorkingCopy
  BY TypeInit, WorkInit
<1>2. TypeOK /\ WorkingCopy /\ [Next]_vars => (TypeOK /\ WorkingCopy)'
  BY TypeStep, WorkStep
<1> QED
  BY <1>1, <1>2, PTL DEF Spec
-----------------------------------------------------------------------------
\* What a commit makes visible: each envelope of the batch has met the row
\* that was committed before, under its own number, and nothing else changed.
LEMMA CommitEffect ==
  ASSUME TypeOK, WorkingCopy, NEW p \in Pushers, Commit(p)
  PROVE  LET u == user[p]
             b == batch[p]
         IN /\ u \in Users /\ b \in Batches
            /\ \A i \in 1..Len(b) :
                 /\ applied[p][i] = Stores(b[i], table[u][b[i].key])
                 /\ table'[u][b[i].key] =
                      Upserted(b[i], nextSeq[u] + i, table[u][b[i].key])
            /\ \A k \in Keys :
                 (\A i \in 1..Len(b) : b[i].key # k) => table'[u][k] = table[u][k]
            /\ \A v \in Users : v # u => table'[v] = table[v]
            /\ nextSeq' = [nextSeq EXCEPT ![u] = nextSeq[u] + Len(b)]
            /\ accepted' = [accepted EXCEPT ![u] = @ \cup {b[i] : i \in 1..Len(b)}]
<1>1. user[p] \in Users /\ batch[p] \in Batches
  BY DEF TypeOK, Commit
<1>2. CopyOf(p) /\ Len(applied[p]) = Len(batch[p])
  BY DEF Commit, WorkingCopy
<1>3. table'[user[p]] = rows[p] /\ \A v \in Users : v # user[p] => table'[v] = table[v]
  BY <1>1 DEF Commit, TypeOK
<1>4. nextSeq' = [nextSeq EXCEPT ![user[p]] = nextSeq[user[p]] + Len(batch[p])]
  BY <1>2 DEF Commit, CopyOf
<1>5. DOMAIN batch[p] = 1..Len(batch[p])
  BY <1>1, BatchFacts
<1>6. accepted' = [accepted EXCEPT ![user[p]] =
                     @ \cup {batch[p][i] : i \in 1..Len(batch[p])}]
  BY <1>5 DEF Commit
<1> QED
  BY <1>1, <1>2, <1>3, <1>4, <1>6 DEF CopyOf

\* Only a commit changes stored rows.
LEMMA OnlyCommits ==
  ASSUME [Next]_vars, \A p \in Pushers : ~ Commit(p)
  PROVE  table' = table /\ accepted' = accepted
BY DEF Next, Serve, Begin, UpsertOne, Rollback, Reply, AllocateSeq, Restart, vars

\* LwwWinner, for one key of one user.
Winner(u, k) ==
  IF table[u][k] = NoRow THEN Candidates(u, k) = {}
  ELSE /\ \E e \in Candidates(u, k) :
            SameRanks(e, table[u][k]) /\ e.body = table[u][k].body
       /\ \A e \in Candidates(u, k) : ~ UpsertWhere(e, table[u][k])

LEMMA WinnerInit == Init => LwwWinner
BY DEF Init, LwwWinner, Candidates, EmptyRows

LEMMA WinnerStep == TypeOK /\ WorkingCopy /\ LwwWinner /\ [Next]_vars => LwwWinner'
<1> SUFFICES ASSUME TypeOK, WorkingCopy, LwwWinner, [Next]_vars PROVE LwwWinner'
  OBVIOUS
<1>1. CASE \A p \in Pushers : ~ Commit(p)
  <2>1. table' = table /\ accepted' = accepted
    BY <1>1, OnlyCommits
  <2> QED
    BY <2>1 DEF LwwWinner, Candidates
<1>2. ASSUME NEW p \in Pushers, Commit(p)
      PROVE  LwwWinner'
  <2> DEFINE u == user[p]
             b == batch[p]
  <2>1. u \in Users /\ b \in Batches
    BY <1>2, CommitEffect
  <2>2. \A i \in 1..Len(b) : table'[u][b[i].key] =
                               Upserted(b[i], nextSeq[u] + i, table[u][b[i].key])
    BY <1>2, CommitEffect
  <2>3. \A k \in Keys : (\A i \in 1..Len(b) : b[i].key # k) => table'[u][k] = table[u][k]
    BY <1>2, CommitEffect
  <2>4. \A v \in Users : v # u => table'[v] = table[v]
    BY <1>2, CommitEffect
  <2>5. /\ accepted'[u] = accepted[u] \cup {b[i] : i \in 1..Len(b)}
        /\ \A v \in Users : v # u => accepted'[v] = accepted[v]
    BY <1>2, <2>1, CommitEffect DEF TypeOK
  <2>6. ASSUME NEW v \in Users, NEW k \in Keys
        PROVE  Winner(v, k)'
    <3>1. Winner(v, k)
      BY DEF LwwWinner, Winner
    <3>2. CASE v # u
      BY <3>1, <3>2, <2>4, <2>5 DEF Winner, Candidates
    <3>3. CASE v = u /\ \A i \in 1..Len(b) : b[i].key # k
      <4>1. table'[v][k] = table[v][k]
        BY <2>3, <3>3
      <4>2. Candidates(v, k)' = Candidates(v, k)
        BY <2>5, <3>3 DEF Candidates
      <4> QED
        BY <3>1, <4>1, <4>2 DEF Winner
    <3>4. ASSUME v = u, NEW i \in 1..Len(b), b[i].key = k
          PROVE  Winner(v, k)'
      <4> DEFINE e == b[i]
                 old == table[v][k]
                 new == table'[v][k]
      <4>1. e \in Envelopes /\ \A j \in 1..Len(b) : b[j].key = k => j = i
        BY <2>1, <3>4, BatchFacts
      <4>2. Candidates(v, k)' = Candidates(v, k) \cup {e}
        <5>1. accepted'[v] = accepted[v] \cup {b[j] : j \in 1..Len(b)}
          BY <2>5, <3>4
        <5>2. \A c \in {b[j] : j \in 1..Len(b)} : c.key = k => c = e
          BY <4>1
        <5>3. e \in {b[j] : j \in 1..Len(b)} /\ e.key = k
          BY <3>4
        <5> HIDE DEF e, b
        <5> QED
          BY <5>1, <5>2, <5>3 DEF Candidates
      <4>3. new = Upserted(e, nextSeq[v] + i, old)
        BY <2>2, <3>4
      <4>4. old \in Row0 /\ nextSeq[v] + i \in Nat
        BY <2>1, <2>2, <3>4 DEF TypeOK, Row0
      <4>5. new \in RowType /\ new # NoRow
        BY <4>1, <4>3, <4>4, UpsertedType
      <4>6. \A c \in Candidates(v, k) : c \in Envelopes
        BY DEF Candidates, TypeOK
      <4>7. CASE old = NoRow \/ UpsertWhere(e, old)
        <5>1. SameRanks(e, new) /\ e.body = new.body
          BY <4>3, <4>7 DEF Upserted, NewRow, SameRanks
        <5>2. ~ UpsertWhere(e, new)
          BY <4>1, <4>5, <5>1, RankedFacts, NoWinOnTie
        <5>3. ASSUME NEW c \in Candidates(v, k)
              PROVE  ~ UpsertWhere(c, new)
          <6>1. old # NoRow /\ ~ UpsertWhere(c, old)
            BY <3>1, <3>4, <5>3 DEF Winner
          <6>2. Ranked(c) /\ Ranked(old) /\ Ranked(new) /\ Ranked(e)
            BY <4>1, <4>4, <4>5, <4>6, <6>1, RankedFacts DEF Row0
          <6>3. UpsertWhere(new, old)
            BY <4>7, <5>1, <6>1 DEF UpsertWhere, SameRanks
          <6> QED
            BY <6>1, <6>2, <6>3, StillLoses
        <5> QED
          BY <3>4, <4>2, <4>5, <5>1, <5>2, <5>3 DEF Winner
      <4>8. CASE old # NoRow /\ ~ UpsertWhere(e, old)
        <5>1. new = old
          BY <4>3, <4>8 DEF Upserted
        <5> QED
          BY <3>1, <3>4, <4>2, <4>8, <5>1 DEF Winner
      <4> QED
        BY <4>7, <4>8
    <3> QED
      BY <3>2, <3>3, <3>4
  <2> QED
    BY <2>6 DEF LwwWinner, Winner
<1> QED
  BY <1>1, <1>2

\* Whatever the interleaving of pushes, failures, retries and restarts, the
\* stored version of a key is the winner of all versions ever accepted for it.
THEOREM LwwCorrect == Spec => []LwwWinner
<1>1. Init => TypeOK /\ WorkingCopy /\ LwwWinner
  BY TypeInit, WorkInit, WinnerInit
<1>2. TypeOK /\ WorkingCopy /\ LwwWinner /\ [Next]_vars
        => (TypeOK /\ WorkingCopy /\ LwwWinner)'
  BY TypeStep, WorkStep, WinnerStep
<1> QED
  BY <1>1, <1>2, PTL DEF Spec
-----------------------------------------------------------------------------
IInv == TypeOK /\ WorkingCopy /\ LwwWinner /\ RepliedAccepted

LEMMA RepliedStep == TypeOK /\ RepliedAccepted /\ [Next]_vars => RepliedAccepted'
<1> SUFFICES ASSUME TypeOK, RepliedAccepted, [Next]_vars PROVE RepliedAccepted'
  OBVIOUS
<1>1. ASSUME NEW p \in Pushers, Commit(p)
      PROVE  RepliedAccepted'
  <2>1. user[p] \in Users /\ user' = user /\ batch' = batch
    BY <1>1 DEF TypeOK, Commit, txVars
  <2>2. /\ \A v \in Users \cup {NoUser} : v \in Users => accepted[v] \subseteq accepted'[v]
        /\ {batch[p][i] : i \in DOMAIN batch[p]} \subseteq accepted'[user[p]]
    BY <1>1, <2>1 DEF TypeOK, Commit
  <2>3. \A q \in Pushers : pc'[q] = "reply" => q = p \/ (pc[q] = "reply" /\ user[q] \in Users)
    BY <1>1 DEF TypeOK, Commit
  <2> QED
    BY <2>1, <2>2, <2>3 DEF RepliedAccepted, TypeOK
<1>2. ASSUME NEW p \in Pushers, NEW u \in Users, NEW b \in Batches, Begin(p, u, b)
      PROVE  RepliedAccepted'
  BY <1>2 DEF TypeOK, Begin, RepliedAccepted
<1>3. ASSUME NEW p \in Pushers, UpsertOne(p)
      PROVE  RepliedAccepted'
  BY <1>3 DEF UpsertOne, RepliedAccepted
<1>4. ASSUME NEW p \in Pushers, Rollback(p) \/ Reply(p)
      PROVE  RepliedAccepted'
  BY <1>4 DEF TypeOK, Rollback, Reply, Forget, RepliedAccepted
<1>5. ASSUME NEW u \in Users, AllocateSeq(u)
      PROVE  RepliedAccepted'
  BY <1>5 DEF AllocateSeq, txVars, RepliedAccepted
<1>6. CASE Restart
  BY <1>6 DEF Restart, RepliedAccepted
<1>7. CASE UNCHANGED vars
  BY <1>7 DEF vars, RepliedAccepted
<1> QED
  BY <1>1, <1>2, <1>3, <1>4, <1>5, <1>6, <1>7 DEF Next, Serve

LEMMA Inductive == Spec => []IInv
<1>1. Init => IInv
  <2>1. Init => RepliedAccepted
    BY DEF Init, RepliedAccepted
  <2> QED
    BY <2>1, TypeInit, WorkInit, WinnerInit DEF IInv
<1>2. IInv /\ [Next]_vars => IInv'
  BY TypeStep, WorkStep, WinnerStep, RepliedStep DEF IInv
<1> QED
  BY <1>1, <1>2, PTL DEF Spec

\* An accepted envelope has a row, and does not beat it.
LEMMA AcceptedHasRow ==
  ASSUME LwwWinner, TypeOK, NEW u \in Users, NEW e \in accepted[u]
  PROVE  e.key \in Keys /\ table[u][e.key] # NoRow /\ ~ UpsertWhere(e, table[u][e.key])
<1>1. e \in Envelopes /\ e.key \in Keys
  BY StoreAssumption DEF TypeOK, EnvelopeType
<1>2. e \in Candidates(u, e.key)
  BY DEF Candidates
<1> QED
  BY <1>1, <1>2 DEF LwwWinner

\* What a client is told about a committed push stays true.
THEOREM RepliesCorrect == Spec => []RepliesHold
<1>1. IInv => RepliesHold
  <2> SUFFICES ASSUME IInv, NEW p \in Pushers, pc[p] = "reply", NEW i \in DOMAIN batch[p]
               PROVE  LET row == table[user[p]][batch[p][i].key]
                      IN row # NoRow /\ ~ UpsertWhere(batch[p][i], row)
    BY DEF RepliesHold
  <2>1. user[p] \in Users /\ batch[p][i] \in accepted[user[p]]
    BY DEF IInv, TypeOK, RepliedAccepted
  <2> QED
    BY <2>1, AcceptedHasRow DEF IInv
<1> QED
  BY <1>1, Inductive, PTL

\* A row that a commit leaves under a key is a row, and an old one is replaced
\* only by one that wins, with the creation time it had.
LEMMA RowStep ==
  ASSUME IInv, [Next]_vars, NEW u \in Users, NEW k \in Keys,
         table[u][k] # NoRow, table'[u][k] # table[u][k]
  PROVE  /\ table'[u][k] # NoRow
         /\ table'[u][k].created = table[u][k].created
         /\ Wins(table'[u][k], table[u][k])
<1>1. PICK p \in Pushers : Commit(p)
  BY OnlyCommits
<1>2. TypeOK /\ WorkingCopy
  BY DEF IInv
<1>3. u = user[p]
  BY <1>1, <1>2, CommitEffect
<1>4. PICK i \in 1..Len(batch[p]) : batch[p][i].key = k
  BY <1>1, <1>2, <1>3, CommitEffect
<1> DEFINE e == batch[p][i]
           old == table[u][k]
           new == table'[u][k]
<1>5. new = Upserted(e, nextSeq[u] + i, old) /\ batch[p] \in Batches
  BY <1>1, <1>2, <1>3, <1>4, CommitEffect
<1>6. e \in Envelopes /\ old \in RowType /\ nextSeq[u] + i \in Nat
  BY <1>2, <1>5, BatchFacts DEF TypeOK
<1>7. new \in RowType /\ new # NoRow
  BY <1>5, <1>6, UpsertedType DEF Row0
<1>8. UpsertWhere(e, old) /\ new = NewRow(e, nextSeq[u] + i, old.created)
  BY <1>5 DEF Upserted
<1>9. SameRanks(e, new) /\ new.created = old.created
  BY <1>8 DEF NewRow, SameRanks
<1>10. UpsertWhere(new, old)
  BY <1>8, <1>9 DEF UpsertWhere, SameRanks
<1> QED
  BY <1>6, <1>7, <1>9, <1>10, RankedFacts, WinsIsUpsertWhere

\* Rows only ever advance in the last-write-wins order, and keep their
\* creation time.
THEOREM RowsAdvance == Spec => RowsOnlyAdvance
<1>1. IInv /\ [Next]_vars =>
        [\A u \in Users, k \in Keys :
           LET old == table[u][k]
               new == table'[u][k]
           IN old # NoRow /\ new # old =>
                new # NoRow /\ new.created = old.created /\ Wins(new, old)]_vars
  BY RowStep
<1> QED
  BY <1>1, Inductive, PTL DEF Spec, RowsOnlyAdvance
-----------------------------------------------------------------------------
\* Only a commit takes a push from its transaction to its answer.
LEMMA CommittingIsCommit ==
  ASSUME TypeOK, [Next]_vars, NEW p \in Pushers, Committing(p)
  PROVE  Commit(p)
<1>1. ASSUME NEW q \in Pushers, q # p, Commit(q)
      PROVE  FALSE
  BY <1>1 DEF TypeOK, Commit, Committing
<1> QED
  BY <1>1 DEF TypeOK, Committing, Next, Serve, Begin, UpsertOne, Rollback, Reply,
              AllocateSeq, Restart, vars

\* A push that repeats what was accepted before stores nothing, so a client
\* may resend a push whose answer it has lost.
THEOREM RetryStoresNothing == Spec => RetryIsNoop
<1>1. ASSUME IInv, [Next]_vars, NEW p \in Pushers, Committing(p),
             \A i \in DOMAIN batch[p] : batch[p][i] \in accepted[user[p]]
      PROVE  table' = table
  <2>1. Commit(p) /\ TypeOK /\ WorkingCopy /\ LwwWinner
    BY <1>1, CommittingIsCommit DEF IInv
  <2>2. user[p] \in Users /\ batch[p] \in Batches
    BY <2>1, CommitEffect
  <2>3. DOMAIN batch[p] = 1..Len(batch[p])
    BY <2>2, BatchFacts
  <2>4. ASSUME NEW i \in 1..Len(batch[p])
        PROVE  table'[user[p]][batch[p][i].key] = table[user[p]][batch[p][i].key]
    <3> DEFINE e == batch[p][i]
               old == table[user[p]][e.key]
    <3>1. e \in accepted[user[p]]
      BY <1>1, <2>3
    <3>2. old # NoRow /\ ~ UpsertWhere(e, old)
      BY <2>1, <2>2, <3>1, AcceptedHasRow
    <3>3. table'[user[p]][e.key] = Upserted(e, nextSeq[user[p]] + i, old)
      BY <2>1, CommitEffect
    <3> QED
      BY <3>2, <3>3 DEF Upserted
  <2>5. \A k \in Keys : table'[user[p]][k] = table[user[p]][k]
    <3>1. \A k \in Keys : (\A i \in 1..Len(batch[p]) : batch[p][i].key # k)
                            => table'[user[p]][k] = table[user[p]][k]
      BY <2>1, CommitEffect
    <3> QED
      BY <2>4, <3>1
  <2>6. \A v \in Users : v # user[p] => table'[v] = table[v]
    BY <2>1, CommitEffect
  <2>7. table \in [Users -> [Keys -> Row0]] /\ table' \in [Users -> [Keys -> Row0]]
    BY <1>1, <2>1, TypeStep DEF TypeOK, Row0
  <2>8. table'[user[p]] = table[user[p]]
    BY <2>2, <2>5, <2>7
  <2> QED
    BY <2>6, <2>7, <2>8
<1>2. IInv /\ [Next]_vars =>
        [\A p \in Pushers :
           Committing(p) /\ (\A i \in DOMAIN batch[p] : batch[p][i] \in accepted[user[p]])
             => table' = table]_vars
  BY <1>1
<1> QED
  BY <1>2, Inductive, PTL DEF Spec, RetryIsNoop

\* The flags a client gets say exactly what its commit did.
THEOREM FlagsAreTrue == Spec => AppliedIsTruth
<1>1. ASSUME IInv, [Next]_vars, NEW p \in Pushers, Committing(p), NEW i \in DOMAIN batch[p]
      PROVE  LET e == batch[p][i]
                 row == table'[user[p]][e.key]
             IN IF applied[p][i]
                THEN row.seq > nextSeq[user[p]] /\ SameRanks(e, row) /\ row.body = e.body
                ELSE row = table[user[p]][e.key]
  <2> DEFINE e == batch[p][i]
             old == table[user[p]][e.key]
             row == table'[user[p]][e.key]
  <2>1. Commit(p) /\ TypeOK /\ WorkingCopy
    BY <1>1, CommittingIsCommit DEF IInv
  <2>2. user[p] \in Users /\ batch[p] \in Batches
    BY <2>1, CommitEffect
  <2>3. i \in 1..Len(batch[p])
    BY <1>1, <2>2, BatchFacts
  <2>4. applied[p][i] = Stores(e, old) /\ row = Upserted(e, nextSeq[user[p]] + i, old)
    BY <2>1, <2>3, CommitEffect
  <2>5. nextSeq[user[p]] \in Nat /\ Len(batch[p]) \in Nat
    BY <2>1, <2>2, BatchFacts DEF TypeOK
  <2>6. CASE Stores(e, old)
    <3>1. row.seq = nextSeq[user[p]] + i /\ SameRanks(e, row) /\ row.body = e.body
      BY <2>4, <2>6 DEF Stores, Upserted, NewRow, SameRanks
    <3>2. row.seq > nextSeq[user[p]]
      BY <2>3, <2>5, <3>1
    <3> QED
      BY <2>4, <2>6, <3>1, <3>2
  <2>7. CASE ~ Stores(e, old)
    BY <2>4, <2>7 DEF Stores, Upserted
  <2> QED
    BY <2>6, <2>7
<1>2. IInv /\ [Next]_vars =>
        [\A p \in Pushers : Committing(p) =>
           \A i \in DOMAIN batch[p] :
             LET e == batch[p][i]
                 row == table'[user[p]][e.key]
             IN IF applied[p][i]
                THEN row.seq > nextSeq[user[p]] /\ SameRanks(e, row) /\ row.body = e.body
                ELSE row = table[user[p]][e.key]]_vars
  BY <1>1
<1> QED
  BY <1>2, Inductive, PTL DEF Spec, AppliedIsTruth
-----------------------------------------------------------------------------
LEMMA LogInitial == Init => Log!LogInit
BY DEF Init, EmptyRows, Log!LogInit, SeqOf

\* A commit is one step of the log: the rows it stored take the numbers of
\* their envelopes, the numbers of the others are gaps.
LEMMA CommitStamps ==
  ASSUME TypeOK, WorkingCopy, NEW p \in Pushers, Commit(p)
  PROVE  Log!LogNext
<1> DEFINE u == user[p]
           b == batch[p]
           n == Len(b)
           At(k) == CHOOSE i \in 1..n : b[i].key = k
           W == {k \in Keys : \E i \in 1..n : b[i].key = k /\ applied[p][i]}
           pos == [k \in W |-> At(k)]
           val(row) == IF row = NoRow THEN 0 ELSE row.seq
<1>1. u \in Users /\ b \in Batches
  BY CommitEffect
<1>2. n \in 1..MaxBatch /\ \A i, j \in 1..n : b[i].key = b[j].key => i = j
  BY <1>1, BatchFacts
<1>3. \A i \in 1..n : At(b[i].key) = i
  BY <1>2
<1>4. \A k \in W : At(k) \in 1..n /\ b[At(k)].key = k /\ applied[p][At(k)]
  <2> SUFFICES ASSUME NEW k \in W
               PROVE  At(k) \in 1..n /\ b[At(k)].key = k /\ applied[p][At(k)]
    OBVIOUS
  <2>1. PICK i \in 1..n : b[i].key = k /\ applied[p][i]
    OBVIOUS
  <2>2. At(k) = i
    BY <1>3, <2>1
  <2> QED
    BY <2>1, <2>2
<1>5. pos \in Log!Positions(W, n)
  BY <1>4 DEF Log!Positions
<1>6. nextSeq' = [nextSeq EXCEPT ![u] = @ + n]
  BY CommitEffect
<1>7. ASSUME NEW k \in Keys
      PROVE  val(table'[u][k]) = IF k \in W THEN nextSeq[u] + At(k) ELSE val(table[u][k])
  <2>1. CASE k \in W
    <3> DEFINE i == At(k)
    <3>1. i \in 1..n /\ b[i].key = k /\ applied[p][i]
      BY <1>4, <2>1
    <3> HIDE DEF i
    <3>2. Stores(b[i], table[u][k]) /\ table'[u][k] = Upserted(b[i], nextSeq[u] + i, table[u][k])
      BY <3>1, CommitEffect
    <3>3. table'[u][k].seq = nextSeq[u] + i
      BY <3>2 DEF Stores, Upserted, NewRow
    <3>4. table'[u][k] # NoRow
      <4>1. b[i] \in Envelopes
        BY <1>1, <3>1, BatchFacts
      <4>2. nextSeq[u] + i \in Nat /\ table[u][k] \in Row0
        BY <1>1, <3>1 DEF TypeOK, Row0
      <4> QED
        BY <3>2, <4>1, <4>2, UpsertedType
    <3> QED
      BY <2>1, <3>3, <3>4 DEF i
  <2>2. CASE k \notin W /\ \E i \in 1..n : b[i].key = k
    <3>1. PICK i \in 1..n : b[i].key = k
      BY <2>2
    <3>2. ~ applied[p][i]
      BY <2>2, <3>1
    <3>3. ~ Stores(b[i], table[u][k]) /\ table'[u][k] = Upserted(b[i], nextSeq[u] + i, table[u][k])
      BY <3>1, <3>2, CommitEffect
    <3>4. table'[u][k] = table[u][k]
      BY <3>3 DEF Stores, Upserted
    <3> QED
      BY <2>2, <3>4
  <2>3. CASE k \notin W /\ \A i \in 1..n : b[i].key # k
    <3>1. table'[u][k] = table[u][k]
      BY <2>3, CommitEffect
    <3> QED
      BY <2>3, <3>1
  <2> QED
    BY <2>1, <2>2, <2>3
<1>8. \A v \in Users : v # u => table'[v] = table[v]
  BY CommitEffect
<1>9. SeqOf' = [SeqOf EXCEPT ![u] =
        [k \in Keys |-> IF k \in DOMAIN pos THEN nextSeq[u] + pos[k] ELSE @[k]]]
  <2>1. SeqOf = [v \in Users |-> [k \in Keys |-> val(table[v][k])]]
    BY DEF SeqOf
  <2>2. SeqOf' = [v \in Users |-> [k \in Keys |-> val(table'[v][k])]]
    BY DEF SeqOf
  <2>3. SeqOf[u] = [k \in Keys |-> val(table[u][k])]
    BY <1>1, <2>1
  <2>4. [k \in Keys |-> val(table'[u][k])] =
          [k \in Keys |-> IF k \in DOMAIN pos THEN nextSeq[u] + pos[k] ELSE SeqOf[u][k]]
    <3>1. \A k \in Keys : val(table'[u][k]) =
             IF k \in DOMAIN pos THEN nextSeq[u] + pos[k] ELSE SeqOf[u][k]
      BY <1>7, <2>3
    <3> HIDE DEF val, pos
    <3> QED
      BY <3>1
  <2> HIDE DEF val, pos, u
  <2> QED
    BY <1>1, <1>8, <2>1, <2>2, <2>4
<1>10. Log!Stamp(u, n, pos)
  BY <1>6, <1>9 DEF Log!Stamp
<1>11. W \in SUBSET Keys
  OBVIOUS
<1> QED
  BY <1>1, <1>2, <1>5, <1>10, <1>11 DEF Log!LogNext

LEMMA LogStep == TypeOK /\ WorkingCopy /\ [Next]_vars => [Log!LogNext]_(Log!logVars)
<1> SUFFICES ASSUME TypeOK, WorkingCopy, [Next]_vars PROVE [Log!LogNext]_(Log!logVars)
  OBVIOUS
<1>1. CASE \E p \in Pushers : Commit(p)
  BY <1>1, CommitStamps
<1>2. ASSUME NEW u \in Users, AllocateSeq(u)
      PROVE  Log!LogNext
  <2> DEFINE pos == [k \in {} |-> 1]
  <2>1. pos \in Log!Positions({}, 1)
    BY DEF Log!Positions
  <2>2. SeqOf' = SeqOf
    BY <1>2 DEF AllocateSeq, SeqOf
  <2>3. SeqOf = [SeqOf EXCEPT ![u] =
          [k \in Keys |-> IF k \in DOMAIN pos THEN nextSeq[u] + pos[k] ELSE @[k]]]
    BY DEF SeqOf
  <2>4. Log!Stamp(u, 1, pos)
    BY <1>2, <2>2, <2>3 DEF AllocateSeq, Log!Stamp
  <2>5. 1 \in 1..MaxBatch /\ {} \in SUBSET Keys
    BY StoreAssumption
  <2> QED
    BY <2>1, <2>4, <2>5 DEF Log!LogNext
<1>3. CASE (\A p \in Pushers : ~ Commit(p)) /\ \A u \in Users : ~ AllocateSeq(u)
  <2>1. nextSeq' = nextSeq /\ table' = table
    BY <1>3 DEF Next, Serve, Begin, UpsertOne, Rollback, Reply, Restart, vars
  <2>2. SeqOf' = SeqOf
    BY <2>1 DEF SeqOf
  <2> QED
    BY <2>1, <2>2 DEF Log!logVars
<1> QED
  BY <1>1, <1>2, <1>3

\* The write path implements the abstract log, for every instance.
THEOREM Implements == Spec => ImplementsSeqLog
<1>1. IInv => TypeOK /\ WorkingCopy
  BY DEF IInv
<1> QED
  BY <1>1, LogInitial, LogStep, Inductive, PTL DEF Spec, ImplementsSeqLog, Log!LogSpec
-----------------------------------------------------------------------------
\* Of the envelopes of a key, those that no other beats all have the same ranks.
LEMMA UnbeatenSame ==
  ASSUME NEW a, NEW b, Ranked(a), Ranked(b), ~ UpsertWhere(a, b), ~ UpsertWhere(b, a)
  PROVE  SameRanks(a, b)
BY Total

LEMMA CandidatesRanked ==
  ASSUME TypeOK, NEW u \in Users, NEW k \in Keys, NEW e \in Candidates(u, k)
  PROVE  Ranked(e)
BY RankedFacts DEF TypeOK, Candidates

LEMMA OrderIsNoMatter ==
  ASSUME TypeOK, LwwWinner, NEW u \in Users, NEW v \in Users, NEW k \in Keys,
         Candidates(u, k) = Candidates(v, k)
  PROVE  /\ table[u][k] = NoRow <=> table[v][k] = NoRow
         /\ table[u][k] # NoRow => SameRanks(table[u][k], table[v][k])
<1>1. table[u][k] = NoRow <=> Candidates(u, k) = {}
  BY DEF LwwWinner
<1>2. table[v][k] = NoRow <=> Candidates(v, k) = {}
  BY DEF LwwWinner
<1>3. ASSUME table[u][k] # NoRow, table[v][k] # NoRow
      PROVE  SameRanks(table[u][k], table[v][k])
  <2>1. PICK e \in Candidates(u, k) : SameRanks(e, table[u][k])
    BY <1>3 DEF LwwWinner
  <2>2. PICK f \in Candidates(v, k) : SameRanks(f, table[v][k])
    BY <1>3 DEF LwwWinner
  <2>3. ~ UpsertWhere(f, table[u][k]) /\ ~ UpsertWhere(e, table[v][k])
    BY <1>3, <2>1, <2>2 DEF LwwWinner
  <2>4. ~ UpsertWhere(f, e) /\ ~ UpsertWhere(e, f)
    BY <2>1, <2>2, <2>3 DEF SameRanks, UpsertWhere
  <2>5. SameRanks(e, f)
    BY <2>4, CandidatesRanked, UnbeatenSame
  <2> QED
    BY <2>1, <2>2, <2>5 DEF SameRanks
<1> QED
  BY <1>1, <1>2, <1>3

\* The order in which pushes arrive decides nothing: two users to whom the same
\* envelopes of a key were accepted, in whatever order and batches, hold rows of
\* the same ranks, or none.
THEOREM OrderIndependent ==
  Spec => [](\A u, v \in Users, k \in Keys : Candidates(u, k) = Candidates(v, k) =>
               /\ table[u][k] = NoRow <=> table[v][k] = NoRow
               /\ table[u][k] # NoRow => SameRanks(table[u][k], table[v][k]))
<1>1. TypeOK /\ LwwWinner =>
        \A u, v \in Users, k \in Keys : Candidates(u, k) = Candidates(v, k) =>
          /\ table[u][k] = NoRow <=> table[v][k] = NoRow
          /\ table[u][k] # NoRow => SameRanks(table[u][k], table[v][k])
  BY OrderIsNoMatter
<1> QED
  BY <1>1, TypeCorrect, LwwCorrect, PTL
-----------------------------------------------------------------------------
(* The diff beside the write path *)

KeysOf(r) == {i.key : i \in items[r]}

\* new is old, or a row that has beaten it since.
Advanced(old, new) ==
  old # NoRow => new \in RowType /\ (new = old \/ UpsertWhere(new, old))

\* What the transaction of r has read is one state that was committed while r
\* was served, and the rows have only advanced since.
OneSnapshot(r) ==
  /\ snapshot[r] \in during[r]
  /\ \A k \in looked[r] : k \in DOMAIN found[r] <=> snapshot[r][k] # NoRow
  /\ \A k \in DOMAIN found[r] : found[r][k] = snapshot[r][k]
  /\ \A k \in Keys : Advanced(snapshot[r][k], table[duser[r]][k])

\* A request that is being served.
Reading(r) ==
  /\ duser[r] \in Users
  /\ items[r] \in Requests
  /\ looked[r] \subseteq KeysOf(r)
  /\ looked[r] # {} => OneSnapshot(r)
  /\ dpc[r] = "reading" => table[duser[r]] \in during[r]
  /\ dpc[r] = "answered" =>
       /\ looked[r] = KeysOf(r)
       /\ missing[r] = looked[r] \ DOMAIN found[r]
       /\ stale[r] = {i.key : i \in {j \in items[r] :
                        j.key \in DOMAIN found[r] /\ Wins(j, found[r][j.key])}}

ReadInv == \A r \in Diffs : dpc[r] # "idle" => Reading(r)

IdleIsEmpty == \A r \in Diffs : dpc[r] = "idle" => looked[r] = {}

DInv == IInv /\ DiffTypeOK /\ ReadInv /\ IdleIsEmpty

LEMMA RequestFacts ==
  ASSUME NEW I \in Requests
  PROVE  /\ I # {}
         /\ \A i \in I : i.key \in Keys /\ Ranked(i)
         /\ \A i, j \in I : i.key = j.key => i = j
BY DiffAssumption DEF Requests, Ranked

\* The write path runs as it does alone.
LEMMA StoreSteps == [DiffNext]_<<vars, diffVars>> => [Next]_vars
BY DEF DiffNext, DiffStep, DiffBegin, Lookup, Answer, DiffFails, DiffDone, WriteStep,
       DiffRestart, Next

LEMMA DiffInitial == DiffInit => DInv
<1> SUFFICES ASSUME DiffInit PROVE DInv
  OBVIOUS
<1>1. IInv
  BY TypeInit, WorkInit, WinnerInit DEF DiffInit, IInv, Init, RepliedAccepted
<1>2. DiffTypeOK
  BY <1>1, EmptyRowsType DEF DiffInit, DiffTypeOK, IInv, Row0
<1>3. ReadInv /\ IdleIsEmpty
  BY DEF DiffInit, ReadInv, IdleIsEmpty
<1> QED
  BY <1>1, <1>2, <1>3 DEF DInv

LEMMA StepIInv == DInv /\ [DiffNext]_<<vars, diffVars>> => IInv'
BY StoreSteps, TypeStep, WorkStep, WinnerStep, RepliedStep DEF DInv, IInv

\* Forgetting a request touches no other.
LEMMA ForgetStep ==
  ASSUME DInv, NEW r \in Diffs, ForgetDiff(r), UNCHANGED vars
  PROVE  DiffTypeOK' /\ ReadInv' /\ IdleIsEmpty'
<1> USE DEF DInv, ForgetDiff
<1>1. TypeOK'
  BY DEF DiffTypeOK, TypeOK, vars
<1>2. EmptyRows \in [Keys -> RowType \cup {NoRow}]
  BY EmptyRowsType DEF Row0
<1>3. DiffTypeOK'
  BY <1>1, <1>2 DEF DiffTypeOK
<1>4. ASSUME NEW q \in Diffs, dpc'[q] # "idle" PROVE Reading(q)'
  <2>1. /\ q # r /\ dpc'[q] = dpc[q] /\ duser'[q] = duser[q] /\ items'[q] = items[q]
        /\ looked'[q] = looked[q] /\ snapshot'[q] = snapshot[q] /\ found'[q] = found[q]
        /\ missing'[q] = missing[q] /\ stale'[q] = stale[q] /\ during'[q] = during[q]
        /\ table' = table
    BY <1>4 DEF DiffTypeOK, vars
  <2>2. Reading(q)
    BY <1>4, <2>1 DEF ReadInv
  <2> QED
    BY <2>1, <2>2 DEF Reading, OneSnapshot, KeysOf
<1>5. IdleIsEmpty'
  BY DEF DiffTypeOK, IdleIsEmpty
<1> QED
  BY <1>3, <1>4, <1>5 DEF ReadInv

LEMMA BeginStep ==
  ASSUME DInv, NEW r \in Diffs, NEW u \in Users, NEW I \in Requests, DiffBegin(r, u, I)
  PROVE  DiffTypeOK' /\ ReadInv' /\ IdleIsEmpty'
<1>0. /\ dpc[r] = "idle" /\ table' = table
      /\ looked' = looked /\ snapshot' = snapshot /\ found' = found
      /\ missing' = missing /\ stale' = stale
      /\ dpc' = [dpc EXCEPT ![r] = "reading"] /\ duser' = [duser EXCEPT ![r] = u]
      /\ items' = [items EXCEPT ![r] = I] /\ during' = [during EXCEPT ![r] = {table[u]}]
  BY DEF DiffBegin, vars
<1>1. TypeOK' /\ TypeOK
  BY DEF DInv, DiffTypeOK, TypeOK, DiffBegin, vars
<1>2. DiffTypeOK'
  <2>1. {table[u]} \in SUBSET [Keys -> RowType \cup {NoRow}]
    BY <1>1 DEF TypeOK
  <2> QED
    BY <1>0, <1>1, <2>1 DEF DInv, DiffTypeOK
<1>3. ASSUME NEW q \in Diffs, dpc'[q] # "idle" PROVE Reading(q)'
  <2>1. CASE q = r
    <3>1. /\ dpc'[r] = "reading" /\ duser'[r] = u /\ items'[r] = I /\ during'[r] = {table[u]}
      BY <1>0 DEF DInv, DiffTypeOK
    <3>2. looked'[r] = {}
      BY <1>0 DEF DInv, IdleIsEmpty
    <3> QED
      BY <1>0, <2>1, <3>1, <3>2 DEF Reading
  <2>2. CASE q # r
    <3>1. /\ dpc'[q] = dpc[q] /\ duser'[q] = duser[q] /\ items'[q] = items[q]
          /\ during'[q] = during[q]
      BY <1>0, <2>2 DEF DInv, DiffTypeOK
    <3>2. Reading(q)
      BY <1>3, <3>1 DEF DInv, ReadInv
    <3> QED
      BY <1>0, <3>1, <3>2 DEF Reading, OneSnapshot, KeysOf
  <2> QED
    BY <2>1, <2>2
<1>4. IdleIsEmpty'
  BY <1>0 DEF DInv, DiffTypeOK, IdleIsEmpty
<1> QED
  BY <1>2, <1>3, <1>4 DEF ReadInv

\* The first lookup fixes the snapshot, which is the committed state.
LEMMA LookupStep ==
  ASSUME DInv, NEW r \in Diffs, NEW k \in Keys, Lookup(r, k)
  PROVE  DiffTypeOK' /\ ReadInv' /\ IdleIsEmpty'
<1> DEFINE S == Seen(r)
           F == IF S[k] = NoRow THEN found[r] ELSE Extend(found[r], k, S[k])
<1>0. /\ dpc[r] = "reading" /\ k \in KeysOf(r) \ looked[r] /\ table' = table
      /\ dpc' = dpc /\ duser' = duser /\ items' = items /\ missing' = missing
      /\ stale' = stale /\ during' = during
      /\ snapshot' = [snapshot EXCEPT ![r] = S]
      /\ looked' = [looked EXCEPT ![r] = @ \cup {k}]
      /\ DOMAIN found' = Diffs /\ \A q \in Diffs : found'[q] = IF q = r THEN F ELSE found[q]
  BY DEF Lookup, vars, KeysOf, DInv, DiffTypeOK
<1>1. TypeOK' /\ TypeOK
  BY DEF DInv, DiffTypeOK, TypeOK, Lookup, vars
<1>2. Reading(r)
  BY <1>0 DEF DInv, ReadInv
<1>3. /\ S \in during[r] /\ S \in [Keys -> RowType \cup {NoRow}]
      /\ \A j \in Keys : Advanced(S[j], table[duser[r]][j])
      /\ looked[r] # {} => S = snapshot[r]
  <2>1. CASE looked[r] = {}
    <3>1. S = table[duser[r]]
      BY <2>1 DEF Seen
    <3>2. S \in during[r] /\ S \in [Keys -> RowType \cup {NoRow}]
      BY <1>0, <1>1, <1>2, <3>1 DEF Reading, TypeOK
    <3> QED
      BY <2>1, <3>1, <3>2 DEF Advanced
  <2>2. CASE looked[r] # {}
    BY <1>2, <2>2 DEF Seen, Reading, OneSnapshot, DInv, DiffTypeOK
  <2> QED
    BY <2>1, <2>2
<1> HIDE DEF S
<1>4. /\ DOMAIN F = IF S[k] = NoRow THEN DOMAIN found[r] ELSE DOMAIN found[r] \cup {k}
      /\ \A j \in DOMAIN F : F[j] = IF S[k] # NoRow /\ j = k THEN S[k] ELSE found[r][j]
  BY DEF Extend
<1> HIDE DEF F
<1>5. DOMAIN found[r] \subseteq looked[r] /\ \A j \in DOMAIN found[r] : found[r][j] \in RowType
  BY DEF DInv, DiffTypeOK
<1>6. /\ \A q \in Diffs : q # r => /\ looked'[q] = looked[q] /\ snapshot'[q] = snapshot[q]
                                   /\ found'[q] = found[q]
      /\ looked'[r] = looked[r] \cup {k} /\ snapshot'[r] = S /\ found'[r] = F
  BY <1>0 DEF DInv, DiffTypeOK
<1>7. DiffTypeOK'
  <2>1. /\ looked' \in [Diffs -> SUBSET Keys]
        /\ snapshot' \in [Diffs -> [Keys -> RowType \cup {NoRow}]]
        /\ DOMAIN found' = Diffs
    BY <1>0, <1>3 DEF DInv, DiffTypeOK
  <2>2. ASSUME NEW q \in Diffs
        PROVE  /\ DOMAIN found'[q] \subseteq looked'[q]
               /\ \A j \in DOMAIN found'[q] : found'[q][j] \in RowType
    <3>1. CASE q = r
      BY <1>3, <1>4, <1>5, <1>6, <3>1
    <3>2. CASE q # r
      BY <1>6, <3>2 DEF DInv, DiffTypeOK
    <3> QED
      BY <3>1, <3>2
  <2> QED
    BY <1>0, <1>1, <2>1, <2>2 DEF DInv, DiffTypeOK
<1>8. ASSUME NEW q \in Diffs, dpc'[q] # "idle" PROVE Reading(q)'
  <2>1. CASE q = r
    <3>1. OneSnapshot(r)'
      <4>1. \A j \in looked'[r] : j \in DOMAIN F <=> S[j] # NoRow
        BY <1>2, <1>3, <1>4, <1>5, <1>6 DEF Reading, OneSnapshot
      <4>2. \A j \in DOMAIN F : F[j] = S[j]
        BY <1>2, <1>3, <1>4, <1>5 DEF Reading, OneSnapshot
      <4> QED
        BY <1>0, <1>3, <1>6, <4>1, <4>2 DEF OneSnapshot
    <3>2. looked'[r] \subseteq KeysOf(r)'
      BY <1>0, <1>2, <1>6 DEF Reading, KeysOf
    <3> QED
      BY <1>0, <1>2, <2>1, <3>1, <3>2 DEF Reading
  <2>2. CASE q # r
    <3>1. Reading(q)
      BY <1>0, <1>8 DEF DInv, ReadInv
    <3> QED
      BY <1>0, <1>6, <2>2, <3>1 DEF Reading, OneSnapshot, KeysOf
  <2> QED
    BY <2>1, <2>2
<1>9. IdleIsEmpty'
  BY <1>0, <1>6 DEF DInv, IdleIsEmpty
<1> QED
  BY <1>7, <1>8, <1>9 DEF ReadInv

LEMMA AnswerStep ==
  ASSUME DInv, NEW r \in Diffs, Answer(r)
  PROVE  DiffTypeOK' /\ ReadInv' /\ IdleIsEmpty'
<1> DEFINE Stale == {i.key : i \in {j \in items[r] :
                       j.key \in DOMAIN found[r] /\ Wins(j, found[r][j.key])}}
<1>0. /\ dpc[r] = "reading" /\ looked[r] = KeysOf(r) /\ table' = table
      /\ duser' = duser /\ items' = items /\ looked' = looked /\ snapshot' = snapshot
      /\ found' = found /\ during' = during
      /\ dpc' = [dpc EXCEPT ![r] = "answered"]
      /\ missing' = [missing EXCEPT ![r] = looked[r] \ DOMAIN found[r]]
      /\ stale' = [stale EXCEPT ![r] = Stale]
  BY DEF Answer, vars, KeysOf
<1>1. TypeOK'
  BY DEF DInv, DiffTypeOK, TypeOK, Answer, vars
<1>2. Reading(r)
  BY <1>0 DEF DInv, ReadInv
<1>3. Stale \subseteq Keys /\ looked[r] \subseteq Keys
  BY <1>2, RequestFacts DEF Reading, DInv, DiffTypeOK
<1>4. DiffTypeOK'
  BY <1>0, <1>1, <1>3 DEF DInv, DiffTypeOK
<1>5. /\ \A q \in Diffs : q # r => /\ dpc'[q] = dpc[q] /\ missing'[q] = missing[q]
                                   /\ stale'[q] = stale[q]
      /\ dpc'[r] = "answered" /\ missing'[r] = looked[r] \ DOMAIN found[r] /\ stale'[r] = Stale
  BY <1>0 DEF DInv, DiffTypeOK
<1>6. ASSUME NEW q \in Diffs, dpc'[q] # "idle" PROVE Reading(q)'
  <2>1. CASE q = r
    BY <1>0, <1>2, <1>5, <2>1 DEF Reading, OneSnapshot, KeysOf
  <2>2. CASE q # r
    <3>1. Reading(q)
      BY <1>5, <1>6, <2>2 DEF DInv, ReadInv
    <3> QED
      BY <1>0, <1>5, <2>2, <3>1 DEF Reading, OneSnapshot, KeysOf
  <2> QED
    BY <2>1, <2>2
<1>7. IdleIsEmpty'
  BY <1>0, <1>5 DEF DInv, IdleIsEmpty
<1> QED
  BY <1>4, <1>6, <1>7 DEF ReadInv

\* A row that has advanced since the snapshot and advances again.
LEMMA AdvancedFurther ==
  ASSUME NEW old \in Row0, NEW mid, NEW new, Advanced(old, mid),
         mid # NoRow /\ new # mid => new \in RowType /\ UpsertWhere(new, mid)
  PROVE  Advanced(old, new)
<1> SUFFICES ASSUME old # NoRow PROVE new \in RowType /\ (new = old \/ UpsertWhere(new, old))
  BY DEF Advanced
<1>1. old \in RowType /\ mid \in RowType /\ mid # NoRow
  BY StoreAssumption DEF Advanced, Row0
<1>2. CASE new = mid
  BY <1>1, <1>2 DEF Advanced
<1>3. CASE new # mid
  <2>1. new \in RowType /\ UpsertWhere(new, mid) /\ (mid = old \/ UpsertWhere(mid, old))
    BY <1>1, <1>3 DEF Advanced
  <2> QED
    BY <1>1, <2>1, RankedFacts, Transitive
<1> QED
  BY <1>2, <1>3

LEMMA WriteStepInv ==
  ASSUME DInv, WriteStep
  PROVE  DiffTypeOK' /\ ReadInv' /\ IdleIsEmpty'
<1>0. /\ dpc' = dpc /\ duser' = duser /\ items' = items /\ looked' = looked
      /\ snapshot' = snapshot /\ found' = found /\ missing' = missing /\ stale' = stale
      /\ during' = [r \in Diffs |->
           IF dpc[r] = "reading" THEN during[r] \cup {table'[duser[r]]} ELSE during[r]]
  BY DEF WriteStep
<1>1. IInv /\ [Next]_vars /\ IInv'
  <2>1. [DiffNext]_<<vars, diffVars>>
    BY DEF DiffNext
  <2> QED
    BY <2>1, StoreSteps, StepIInv DEF DInv
<1>2. table' \in [Users -> [Keys -> Row0]] /\ TypeOK'
  BY <1>1 DEF IInv, TypeOK, Row0
<1>3. DiffTypeOK'
  <2>1. ASSUME NEW r \in Diffs, dpc[r] = "reading"
        PROVE  table'[duser[r]] \in [Keys -> RowType \cup {NoRow}]
    BY <1>2, <2>1 DEF DInv, ReadInv, Reading, Row0
  <2>2. during' \in [Diffs -> SUBSET [Keys -> RowType \cup {NoRow}]]
    BY <1>0, <2>1 DEF DInv, DiffTypeOK
  <2> QED
    BY <1>0, <1>2, <2>2 DEF DInv, DiffTypeOK
<1>4. ASSUME NEW r \in Diffs, dpc'[r] # "idle" PROVE Reading(r)'
  <2>1. Reading(r) /\ duser[r] \in Users
    BY <1>0, <1>4 DEF DInv, ReadInv, Reading
  <2>2. during[r] \subseteq during'[r] /\ (dpc[r] = "reading" => table'[duser[r]] \in during'[r])
    BY <1>0
  <2>3. ASSUME looked[r] # {}, NEW k \in Keys
        PROVE  Advanced(snapshot[r][k], table'[duser[r]][k])
    <3> DEFINE mid == table[duser[r]][k]
               new == table'[duser[r]][k]
    <3>1. snapshot[r][k] \in Row0 /\ Advanced(snapshot[r][k], mid)
      BY <2>1, <2>3 DEF Reading, OneSnapshot, DInv, DiffTypeOK, Row0
    <3>2. mid \in Row0 /\ new \in Row0
      BY <1>1, <1>2, <2>1 DEF IInv, TypeOK, Row0
    <3>3. mid # NoRow /\ new # mid => new \in RowType /\ UpsertWhere(new, mid)
      <4> SUFFICES ASSUME mid # NoRow, new # mid PROVE new \in RowType /\ UpsertWhere(new, mid)
        OBVIOUS
      <4>1. new # NoRow /\ Wins(new, mid)
        BY <1>1, <2>1, RowStep
      <4> QED
        BY <3>2, <4>1, RankedFacts, WinsIsUpsertWhere DEF Row0
    <3> QED
      BY <3>1, <3>3, AdvancedFurther
  <2>4. looked[r] # {} => OneSnapshot(r)'
    BY <1>0, <2>1, <2>2, <2>3 DEF Reading, OneSnapshot
  <2> QED
    BY <1>0, <2>1, <2>2, <2>4 DEF Reading, KeysOf
<1>5. IdleIsEmpty'
  BY <1>0 DEF DInv, IdleIsEmpty
<1> QED
  BY <1>3, <1>4, <1>5 DEF ReadInv

LEMMA DiffInvStep == DInv /\ [DiffNext]_<<vars, diffVars>> => DInv'
<1> SUFFICES ASSUME DInv, [DiffNext]_<<vars, diffVars>>
             PROVE  DiffTypeOK' /\ ReadInv' /\ IdleIsEmpty'
  BY StepIInv DEF DInv
<1>1. ASSUME NEW r \in Diffs, NEW u \in Users, NEW I \in Requests, DiffBegin(r, u, I)
      PROVE  DiffTypeOK' /\ ReadInv' /\ IdleIsEmpty'
  BY <1>1, BeginStep
<1>2. ASSUME NEW r \in Diffs, NEW k \in Keys, Lookup(r, k)
      PROVE  DiffTypeOK' /\ ReadInv' /\ IdleIsEmpty'
  BY <1>2, LookupStep
<1>3. ASSUME NEW r \in Diffs, Answer(r) PROVE DiffTypeOK' /\ ReadInv' /\ IdleIsEmpty'
  BY <1>3, AnswerStep
<1>4. ASSUME NEW r \in Diffs, DiffFails(r) \/ DiffDone(r)
      PROVE  DiffTypeOK' /\ ReadInv' /\ IdleIsEmpty'
  BY <1>4, ForgetStep DEF DiffFails, DiffDone
<1>5. CASE WriteStep
  BY <1>5, WriteStepInv
<1>6. CASE DiffRestart
  <2>1. TypeOK'
    BY <1>6, StepIInv DEF IInv
  <2>2. EmptyRows \in [Keys -> RowType \cup {NoRow}]
    BY EmptyRowsType DEF Row0
  <2>3. DiffTypeOK'
    BY <1>6, <2>1, <2>2 DEF DiffRestart, DiffTypeOK
  <2> QED
    BY <1>6, <2>3 DEF DiffRestart, ReadInv, IdleIsEmpty
<1>7. CASE UNCHANGED <<vars, diffVars>>
  <2>1. /\ table' = table /\ dpc' = dpc /\ duser' = duser /\ items' = items
        /\ looked' = looked /\ snapshot' = snapshot /\ found' = found
        /\ missing' = missing /\ stale' = stale /\ during' = during
    BY <1>7 DEF vars, diffVars
  <2>2. TypeOK'
    BY StepIInv DEF IInv
  <2>3. DiffTypeOK'
    BY <2>1, <2>2 DEF DInv, DiffTypeOK
  <2>4. ASSUME NEW r \in Diffs, dpc[r] # "idle" PROVE Reading(r)'
    <3>1. Reading(r)
      BY <2>4 DEF DInv, ReadInv
    <3> QED
      BY <2>1, <3>1 DEF Reading, OneSnapshot, KeysOf
  <2>5. IdleIsEmpty'
    BY <2>1 DEF DInv, IdleIsEmpty
  <2> QED
    BY <2>1, <2>3, <2>4, <2>5 DEF ReadInv
<1> QED
  BY <1>1, <1>2, <1>3, <1>4, <1>5, <1>6, <1>7 DEF DiffNext, DiffStep

LEMMA Diffing == DiffSpec => []DInv
BY DiffInitial, DiffInvStep, PTL DEF DiffSpec

\* Type correctness of the diff beside the write path.
THEOREM DiffTypeCorrect == DiffSpec => []DiffTypeOK
<1>1. DInv => DiffTypeOK
  BY DEF DInv
<1> QED
  BY <1>1, Diffing, PTL

\* What an answer says of an item, in terms of the snapshot.
LEMMA Answered ==
  ASSUME DInv, NEW r \in Diffs, dpc[r] = "answered", NEW i \in items[r]
  PROVE  LET row == snapshot[r][i.key]
         IN /\ duser[r] \in Users /\ i.key \in Keys /\ Ranked(i)
            /\ snapshot[r] \in during[r] /\ row \in Row0
            /\ Advanced(row, table[duser[r]][i.key])
            /\ i.key \in missing[r] <=> row = NoRow
            /\ i.key \in stale[r] <=> row # NoRow /\ UpsertWhere(i, row)
<1> DEFINE row == snapshot[r][i.key]
<1>1. Reading(r)
  BY DEF DInv, ReadInv
<1>2. /\ i.key \in Keys /\ Ranked(i) /\ i.key \in looked[r]
      /\ \A j \in items[r] : j.key = i.key => j = i
  BY <1>1, RequestFacts DEF Reading, KeysOf
<1>3. OneSnapshot(r) /\ row \in Row0 /\ duser[r] \in Users
  BY <1>1, <1>2 DEF Reading, DInv, DiffTypeOK, Row0
<1>4. i.key \in DOMAIN found[r] <=> row # NoRow
  BY <1>2, <1>3 DEF OneSnapshot
<1>5. i.key \in missing[r] <=> row = NoRow
  BY <1>1, <1>2, <1>4 DEF Reading
<1>6. i.key \in stale[r] <=> row # NoRow /\ Wins(i, row)
  <2>1. i.key \in stale[r] <=>
          \E j \in items[r] : /\ j.key = i.key
                              /\ j.key \in DOMAIN found[r] /\ Wins(j, found[r][j.key])
    BY <1>1 DEF Reading
  <2>2. i.key \in stale[r] <=> i.key \in DOMAIN found[r] /\ Wins(i, found[r][i.key])
    BY <1>2, <2>1
  <2> QED
    BY <1>3, <1>4, <2>2 DEF OneSnapshot
<1>7. row # NoRow => (Wins(i, row) <=> UpsertWhere(i, row))
  BY <1>2, <1>3, RankedFacts, WinsIsUpsertWhere DEF Row0
<1> QED
  BY <1>2, <1>3, <1>5, <1>6, <1>7 DEF OneSnapshot

\* An answer compares all its items with one state that was committed while the
\* request was served.
THEOREM OneMomentCorrect == DiffSpec => []AnswerOfOneMoment
<1>1. DInv => AnswerOfOneMoment
  <2> SUFFICES ASSUME DInv, NEW r \in Diffs, dpc[r] = "answered"
               PROVE  \E t \in during[r] : \A i \in items[r] :
                        /\ i.key \in missing[r] <=> t[i.key] = NoRow
                        /\ i.key \in stale[r] <=> t[i.key] # NoRow /\ UpsertWhere(i, t[i.key])
    BY DEF AnswerOfOneMoment
  <2>1. items[r] # {}
    BY RequestFacts DEF DInv, ReadInv, Reading
  <2>2. snapshot[r] \in during[r]
    BY <2>1, Answered
  <2> QED
    BY <2>2, Answered
<1> QED
  BY <1>1, Diffing, PTL

\* What an answer leaves out needs no push, however far the rows have advanced
\* since.
THEOREM SilentCorrect == DiffSpec => []SilentNeedsNoPush
<1>1. DInv => SilentNeedsNoPush
  <2> SUFFICES ASSUME DInv, NEW r \in Diffs, dpc[r] = "answered", NEW i \in items[r],
                      i.key \notin missing[r] \cup stale[r]
               PROVE  LET row == table[duser[r]][i.key]
                      IN row # NoRow /\ ~ Stores(i, row)
    BY DEF SilentNeedsNoPush
  <2> DEFINE old == snapshot[r][i.key]
             row == table[duser[r]][i.key]
  <2>1. Ranked(i) /\ old \in RowType /\ ~ UpsertWhere(i, old) /\ Advanced(old, row)
    BY Answered DEF Row0
  <2>2. old # NoRow /\ row \in RowType /\ row # NoRow /\ (row = old \/ UpsertWhere(row, old))
    BY <2>1, StoreAssumption DEF Advanced
  <2>3. ~ UpsertWhere(i, row)
    BY <2>1, <2>2, RankedFacts, StillLoses
  <2> QED
    BY <2>2, <2>3 DEF Stores
<1> QED
  BY <1>1, Diffing, PTL

\* The diff only reads: beside it the write path runs as it does alone, and every
\* theorem about Spec holds of the two together.
THEOREM DiffOnlyReads == DiffSpec => Spec
<1>1. DiffInit => Init
  BY DEF DiffInit
<1>2. [DiffNext]_<<vars, diffVars>> => [Next]_vars
  BY DEF DiffNext, DiffStep, WriteStep, DiffRestart, DiffBegin, Lookup, Answer, DiffFails,
     DiffDone, Next
<1> QED
  BY <1>1, <1>2, PTL DEF DiffSpec, Spec
=============================================================================
