--------------------------- MODULE DevicesProofs ---------------------------
(***************************************************************************)
(* The cursor of a device is true from end to end, for any number of       *)
(* devices, keys, versions, edits, lost answers and power losses, and for  *)
(* any page size.                                                          *)
(***************************************************************************)
EXTENDS Devices, TLAPS, FiniteSetTheorems

Tables == [Keys -> [ranks : Versions, seq : Nat] \cup {NoRow}]

\* In the store state (t, n) every row has a number of its own, which was
\* allocated.
Numbering(t, n) ==
  /\ \A k \in Keys : t[k] # NoRow => t[k].seq \in 1..n
  /\ \A j, k \in Keys : t[j] # NoRow /\ t[k] # NoRow /\ t[j].seq = t[k].seq => j = k

\* A cursor c, a copy h of the keys and a page p under way are true of the store
\* state (t, n): rows up to the cursor are covered by the copy, rows from there
\* to the end of the page are in the page as they are.
True(c, h, p, t, n) ==
  /\ c <= n
  /\ \A k \in Keys : t[k] # NoRow /\ t[k].seq <= c =>
       h[k] # NoRow /\ ~ Wins(t[k].ranks, h[k])
  /\ p # NoPage =>
       /\ p.upto <= n
       /\ \A k \in Keys : t[k] # NoRow /\ t[k].seq > c /\ t[k].seq <= p.upto =>
            k \in DOMAIN p.rows /\ p.rows[k] = t[k].ranks

TrueOf(d, t, n) == True(cursor[d], local[d], page[d], t, n)

\* A power loss may bring back any state in unsynced, so each is numbered, and a
\* device that has read nothing since the last checkpoint is true to them all.
DeviceInv ==
  /\ TypeOK
  /\ Numbering(table, nextSeq)
  /\ \A s \in unsynced : Numbering(s.table, s.nextSeq)
  /\ \A d \in Devices : ~ exposed[d] =>
       /\ TrueOf(d, table, nextSeq)
       /\ ~ fresh[d] => \A s \in unsynced : TrueOf(d, s.table, s.nextSeq)

LEMMA VersionFacts ==
  /\ \A v \in Versions : Ranked(v) /\ v # NoRow
  /\ \A row \in [ranks : Versions, seq : Nat] : row # NoRow
BY DevicesAssumption DEF Ranks, RowType, Ranked

\* What does not beat the copy does not beat a better copy.
LEMMA WinsOnward ==
  ASSUME NEW a, NEW b, NEW c, Ranked(a), Ranked(b), Ranked(c), ~ Wins(a, b), Wins(c, b)
  PROVE  ~ Wins(a, c) /\ ~ Wins(a, a)
BY DEF Ranked, Wins

LEMMA NoWinOverSelf == ASSUME NEW a, Ranked(a) PROVE ~ Wins(a, a)
BY DEF Ranked, Wins

LEMMA DevicesInitial == Init => DeviceInv
<1> SUFFICES ASSUME Init PROVE DeviceInv
  OBVIOUS
<1> USE DEF Init
<1>1. TypeOK
  BY DEF TypeOK
<1>2. Numbering(table, nextSeq)
  BY DEF Numbering
<1>3. \A d \in Devices : TrueOf(d, table, nextSeq)
  BY DEF TrueOf, True
<1> QED
  BY <1>1, <1>2, <1>3 DEF DeviceInv

LEMMA EditStep ==
  ASSUME DeviceInv, NEW d \in Devices, NEW k \in Keys, NEW v \in Versions, Edit(d, k, v)
  PROVE  DeviceInv'
<1>1. /\ local' = [local EXCEPT ![d][k] = v] /\ Beats(v, local[d][k])
      /\ table' = table /\ nextSeq' = nextSeq /\ unsynced' = unsynced
      /\ cursor' = cursor /\ wanted' = wanted /\ page' = page
      /\ fresh' = fresh /\ exposed' = exposed
  BY DEF Edit, storeVars
<1>2. local \in [Devices -> [Keys -> Versions \cup {NoRow}]]
  BY DEF DeviceInv, TypeOK
<1>3. TypeOK'
  <2>1. local' \in [Devices -> [Keys -> Versions \cup {NoRow}]]
    BY <1>1, <1>2
  <2>2. \A e \in Devices : \A j \in wanted[e] : local'[e][j] # NoRow
    BY <1>1, <1>2, VersionFacts DEF DeviceInv, TypeOK
  <2> QED
    BY <1>1, <2>1, <2>2 DEF DeviceInv, TypeOK
<1>4. ASSUME NEW e \in Devices, NEW t \in Tables, NEW n, TrueOf(e, t, n)
      PROVE  True(cursor[e], local'[e], page[e], t, n)
  <2>1. ASSUME NEW j \in Keys, t[j] # NoRow, local[e][j] # NoRow, ~ Wins(t[j].ranks, local[e][j])
        PROVE  local'[e][j] # NoRow /\ ~ Wins(t[j].ranks, local'[e][j])
    <3>1. CASE local'[e][j] = local[e][j]
      BY <2>1, <3>1
    <3>2. CASE local'[e][j] # local[e][j]
      <4>1. e = d /\ j = k /\ local'[e][j] = v
        BY <1>1, <1>2, <3>2
      <4>2. Wins(v, local[e][j]) /\ Ranked(v) /\ Ranked(local[e][j]) /\ v # NoRow
        BY <1>1, <1>2, <2>1, <4>1, VersionFacts DEF Beats
      <4>3. Ranked(t[j].ranks)
        BY <2>1, VersionFacts DEF Tables
      <4> QED
        BY <2>1, <4>1, <4>2, <4>3, WinsOnward
    <3> QED
      BY <3>1, <3>2
  <2> QED
    BY <1>4, <2>1 DEF TrueOf, True
<1>5. table \in Tables /\ \A s \in unsynced : s.table \in Tables
  BY DEF DeviceInv, TypeOK, Tables
<1> QED
  BY <1>1, <1>3, <1>4, <1>5 DEF DeviceInv, TrueOf, Numbering

LEMMA DiffStep == ASSUME DeviceInv, NEW d \in Devices, Diff(d) PROVE DeviceInv'
<1>1. /\ wanted' = [wanted EXCEPT ![d] = Lacking(d)]
      /\ table' = table /\ nextSeq' = nextSeq /\ unsynced' = unsynced
      /\ local' = local /\ cursor' = cursor /\ page' = page
      /\ fresh' = fresh /\ exposed' = exposed
  BY DEF Diff, storeVars
<1>2. TypeOK'
  BY <1>1 DEF DeviceInv, TypeOK, Lacking
<1> QED
  BY <1>1, <1>2 DEF DeviceInv, TrueOf, Numbering

\* What an upsert leaves, row by row: the old row, or a new one above every
\* number allocated before.
LEMMA UpsertRows ==
  ASSUME DeviceInv, NEW d \in Devices, NEW pos \in Orders(wanted[d]), Upsert(d, wanted[d], pos)
  PROVE  /\ table' \in Tables /\ nextSeq' \in Nat /\ nextSeq' >= nextSeq
         /\ \A k \in Keys : table'[k] # NoRow =>
              table'[k] = table[k] \/ table'[k].seq \in (nextSeq + 1)..nextSeq'
         /\ \A j, k \in Keys : table'[j] # table[j] /\ table'[k] # table[k]
                               /\ table'[j].seq = table'[k].seq => j = k
<1> DEFINE B == wanted[d]
<1>1. B \subseteq Keys /\ nextSeq \in Nat /\ table \in Tables
      /\ local[d] \in [Keys -> Versions \cup {NoRow}] /\ \A k \in B : local[d][k] # NoRow
  BY DEF DeviceInv, TypeOK, Tables
<1>2. Cardinality(B) \in Nat
  BY <1>1, DevicesAssumption, FS_Subset, FS_CardinalityType
<1>3. /\ pos \in [B -> 1..Cardinality(B)]
      /\ \A j, k \in B : j # k => pos[j] # pos[k]
  BY DEF Orders
<1> HIDE DEF B
<1>4. ASSUME NEW k \in Keys
      PROVE  \/ table'[k] = table[k]
             \/ /\ k \in B
                /\ table'[k] = [ranks |-> local[d][k], seq |-> nextSeq + pos[k]]
  BY DEF Upsert, Numbered, B
<1>5. \A k \in B : nextSeq + pos[k] \in (nextSeq + 1)..(nextSeq + Cardinality(B))
  BY <1>1, <1>2, <1>3
<1>6. nextSeq' = nextSeq + Cardinality(B)
  BY DEF Upsert, B
<1>7. table' \in Tables
  <2>1. \A k \in B : [ranks |-> local[d][k], seq |-> nextSeq + pos[k]] \in [ranks : Versions, seq : Nat]
    BY <1>1, <1>2, <1>5
  <2>2. DOMAIN table' = Keys /\ table' = [k \in Keys |-> table'[k]]
    BY DEF Upsert
  <2> QED
    BY <1>1, <1>4, <2>1, <2>2 DEF Tables
<1>8. ASSUME NEW j \in Keys, NEW k \in Keys, table'[j] # table[j], table'[k] # table[k],
             table'[j].seq = table'[k].seq
      PROVE  j = k
  <2>1. /\ j \in B /\ table'[j] = [ranks |-> local[d][j], seq |-> nextSeq + pos[j]]
        /\ k \in B /\ table'[k] = [ranks |-> local[d][k], seq |-> nextSeq + pos[k]]
    BY <1>4, <1>8
  <2>2. nextSeq + pos[j] = nextSeq + pos[k]
    BY <1>8, <2>1
  <2>3. pos[j] = pos[k]
    BY <1>1, <1>2, <1>3, <2>1, <2>2
  <2> QED
    BY <1>3, <2>1, <2>3
<1>9. ASSUME NEW k \in Keys, table'[k] # table[k]
      PROVE  table'[k].seq \in (nextSeq + 1)..nextSeq'
  <2>1. k \in B /\ table'[k] = [ranks |-> local[d][k], seq |-> nextSeq + pos[k]]
    BY <1>4, <1>9
  <2> QED
    BY <1>5, <1>6, <2>1
<1>10. nextSeq' \in Nat /\ nextSeq' >= nextSeq
  BY <1>1, <1>2, <1>6
<1> QED
  BY <1>7, <1>8, <1>9, <1>10

\* An upsert keeps the state before it for a power loss to bring back.
LEMMA UpsertStep ==
  ASSUME DeviceInv, NEW d \in Devices, NEW pos \in Orders(wanted[d]), Upsert(d, wanted[d], pos),
         wanted' \in {wanted, [wanted EXCEPT ![d] = {}]},
         UNCHANGED <<local, cursor, page, fresh, exposed>>
  PROVE  DeviceInv'
<1>1. unsynced' = unsynced \cup {[table |-> table, nextSeq |-> nextSeq]}
  BY DEF Upsert
<1>2. table' \in Tables /\ nextSeq' \in Nat
  BY UpsertRows
<1>3. TypeOK'
  <2>1. wanted' \in [Devices -> SUBSET Keys] /\ \A e \in Devices : wanted'[e] \subseteq wanted[e]
    BY DEF DeviceInv, TypeOK
  <2> QED
    BY <1>1, <1>2, <2>1 DEF DeviceInv, TypeOK, Tables
<1>4. Numbering(table, nextSeq) /\ nextSeq \in Nat /\ nextSeq' >= nextSeq
  BY UpsertRows DEF DeviceInv, TypeOK
<1>5. Numbering(table', nextSeq')
  BY <1>2, <1>4, UpsertRows DEF Numbering
<1>6. ASSUME NEW e \in Devices, TrueOf(e, table, nextSeq)
      PROVE  True(cursor[e], local[e], page[e], table', nextSeq')
  <2>1. cursor[e] \in Nat /\ (page[e] # NoPage => page[e].upto \in Nat)
    BY DEF DeviceInv, TypeOK
  <2> QED
    BY <1>2, <1>4, <1>6, <2>1, UpsertRows DEF TrueOf, True
<1>7. \A s \in unsynced' : s \in unsynced \/ (s.table = table /\ s.nextSeq = nextSeq)
  <2> SUFFICES ASSUME NEW s \in unsynced', s \notin unsynced
               PROVE  s.table = table /\ s.nextSeq = nextSeq
    OBVIOUS
  <2>1. s = [table |-> table, nextSeq |-> nextSeq]
    BY <1>1
  <2> QED
    BY <2>1
<1>8. ASSUME NEW e \in Devices, ~ exposed[e]
      PROVE  /\ TrueOf(e, table, nextSeq)'
             /\ ~ fresh[e] => \A s \in unsynced' : TrueOf(e, s.table, s.nextSeq)'
  <2>1. TrueOf(e, table, nextSeq)'
    BY <1>6, <1>8 DEF DeviceInv, TrueOf
  <2>2. ASSUME ~ fresh[e], NEW s \in unsynced' PROVE TrueOf(e, s.table, s.nextSeq)'
    BY <1>7, <1>8, <2>2 DEF DeviceInv, TrueOf
  <2> QED
    BY <2>1, <2>2
<1>9. \A s \in unsynced' : Numbering(s.table, s.nextSeq)
  BY <1>4, <1>7 DEF DeviceInv
<1> QED
  BY <1>3, <1>5, <1>8, <1>9 DEF DeviceInv, Numbering

LEMMA PullStep == ASSUME DeviceInv, NEW d \in Devices, Pull(d) PROVE DeviceInv'
<1>1. /\ table' = table /\ nextSeq' = nextSeq /\ unsynced' = unsynced
      /\ local' = local /\ cursor' = cursor /\ wanted' = wanted /\ exposed' = exposed
      /\ fresh' = [fresh EXCEPT ![d] = @ \/ unsynced # {}]
  BY DEF Pull, storeVars
<1>2. PICK P \in SUBSET Newer(cursor[d]) : \E last \in P :
        /\ IsPage(P, cursor[d])
        /\ \A k \in P : table[k].seq <= table[last].seq
        /\ page' = [page EXCEPT ![d] =
             [rows |-> [k \in P |-> table[k].ranks], upto |-> table[last].seq]]
  BY DEF Pull
<1>3. PICK last \in P :
        /\ IsPage(P, cursor[d])
        /\ \A k \in P : table[k].seq <= table[last].seq
        /\ page' = [page EXCEPT ![d] =
             [rows |-> [k \in P |-> table[k].ranks], upto |-> table[last].seq]]
  BY <1>2
<1> DEFINE new == [rows |-> [k \in P |-> table[k].ranks], upto |-> table[last].seq]
<1>4. P \subseteq Keys /\ last \in Keys /\ \A k \in P : table[k] # NoRow
  BY DEF Newer
<1>5. /\ table \in Tables /\ nextSeq \in Nat /\ Numbering(table, nextSeq)
      /\ cursor[d] \in Nat /\ DOMAIN page = Devices
  BY DEF DeviceInv, TypeOK, Tables
<1>6. \A k \in P : table[k].ranks \in Versions /\ table[k].seq \in Nat
  BY <1>4, <1>5 DEF Tables
<1>7. new \in [rows : [P -> Versions], upto : Nat]
  BY <1>6
<1>8. /\ page'[d] = new /\ DOMAIN page' = Devices
      /\ \A e \in Devices : e # d => page'[e] = page[e]
  BY <1>3, <1>5
<1>9. TypeOK'
  <2>1. ASSUME NEW e \in Devices, page'[e] # NoPage
        PROVE  \E Q \in SUBSET Keys : page'[e] \in [rows : [Q -> Versions], upto : Nat]
    <3>1. CASE e = d
      BY <1>4, <1>7, <1>8, <3>1
    <3>2. CASE e # d
      BY <1>8, <2>1, <3>2 DEF DeviceInv, TypeOK
    <3> QED
      BY <3>1, <3>2
  <2>2. fresh' \in [Devices -> BOOLEAN]
    BY <1>1 DEF DeviceInv, TypeOK
  <2> QED
    BY <1>1, <1>8, <2>1, <2>2 DEF DeviceInv, TypeOK
<1>10. ASSUME TrueOf(d, table, nextSeq) PROVE True(cursor[d], local[d], new, table, nextSeq)
  <2>1. new.upto <= nextSeq /\ new.upto = table[last].seq
    BY <1>4, <1>5 DEF Numbering
  <2>2. ASSUME NEW k \in Keys, table[k] # NoRow, table[k].seq > cursor[d], table[k].seq <= new.upto
        PROVE  k \in P
    <3>1. k \in Newer(cursor[d])
      BY <2>2 DEF Newer
    <3>2. CASE table[k].seq = table[last].seq
      BY <1>4, <1>5, <2>2, <3>2 DEF Numbering
    <3>3. CASE table[k].seq # table[last].seq
      <4>1. table[k].seq < table[last].seq
        BY <1>4, <1>5, <2>1, <2>2, <3>3 DEF Tables
      <4> QED
        BY <1>3, <3>1, <4>1 DEF IsPage
    <3> QED
      BY <3>2, <3>3
  <2> QED
    BY <1>10, <2>1, <2>2 DEF TrueOf, True
<1> HIDE DEF new
<1>11. ASSUME NEW e \in Devices, ~ exposed[e]
       PROVE  /\ TrueOf(e, table, nextSeq)'
              /\ ~ fresh'[e] => \A s \in unsynced : TrueOf(e, s.table, s.nextSeq)'
  <2>1. CASE e = d
    <3>1. TrueOf(e, table, nextSeq)'
      BY <1>1, <1>8, <1>10, <1>11, <2>1 DEF DeviceInv, TrueOf
    <3>2. ~ fresh'[e] => unsynced = {}
      BY <1>1, <2>1 DEF DeviceInv, TypeOK
    <3> QED
      BY <3>1, <3>2
  <2>2. CASE e # d
    <3>1. page'[e] = page[e] /\ fresh'[e] = fresh[e]
      BY <1>1, <1>8, <2>2 DEF DeviceInv, TypeOK
    <3> QED
      BY <1>1, <1>11, <3>1 DEF DeviceInv, TrueOf
  <2> QED
    BY <2>1, <2>2
<1> QED
  BY <1>1, <1>9, <1>11 DEF DeviceInv, Numbering

\* What a device has merged and its new cursor are true of every state its old
\* cursor and the page were true of.
LEMMA ReceiveStep == ASSUME DeviceInv, NEW d \in Devices, Receive(d) PROVE DeviceInv'
<1> DEFINE Merged(k) == IF k \in DOMAIN page[d].rows /\ Beats(page[d].rows[k], local[d][k])
                        THEN page[d].rows[k] ELSE local[d][k]
<1>1. /\ table' = table /\ nextSeq' = nextSeq /\ unsynced' = unsynced
      /\ wanted' = wanted /\ exposed' = exposed /\ fresh' = fresh
      /\ cursor' = [cursor EXCEPT ![d] = page[d].upto] /\ page' = [page EXCEPT ![d] = NoPage]
      /\ page[d] # NoPage
  BY DEF Receive, storeVars
<1>2. /\ local \in [Devices -> [Keys -> Versions \cup {NoRow}]]
      /\ cursor \in [Devices -> Nat] /\ DOMAIN page = Devices
  BY DEF DeviceInv, TypeOK
<1>3. PICK P \in SUBSET Keys : page[d] \in [rows : [P -> Versions], upto : Nat]
  BY <1>1 DEF DeviceInv, TypeOK
<1>4. page[d].upto \in Nat /\ DOMAIN page[d].rows = P /\ \A k \in P : page[d].rows[k] \in Versions
  BY <1>3
<1>5. local' = [local EXCEPT ![d] = [k \in Keys |-> Merged(k)]]
  BY <1>2 DEF Receive
<1>6. \A k \in Keys : Merged(k) \in Versions \cup {NoRow} /\ (local[d][k] # NoRow => Merged(k) # NoRow)
  BY <1>2, <1>4, VersionFacts
<1>7. local'[d] = [k \in Keys |-> Merged(k)] /\ \A e \in Devices : e # d => local'[e] = local[e]
  BY <1>2, <1>5
<1>8. TypeOK'
  <2>1. local' \in [Devices -> [Keys -> Versions \cup {NoRow}]]
    BY <1>2, <1>5, <1>6
  <2>2. ASSUME NEW e \in Devices, NEW k \in wanted[e] PROVE local'[e][k] # NoRow
    BY <1>6, <1>7 DEF DeviceInv, TypeOK
  <2>3. \A e \in Devices : page'[e] # NoPage => page'[e] = page[e]
    BY <1>1, <1>2
  <2>4. cursor' \in [Devices -> Nat] /\ DOMAIN page' = Devices
    BY <1>1, <1>2, <1>4
  <2> QED
    BY <1>1, <2>1, <2>2, <2>3, <2>4 DEF DeviceInv, TypeOK
<1>9. ASSUME NEW t \in Tables, NEW n, TrueOf(d, t, n)
      PROVE  True(page[d].upto, local'[d], NoPage, t, n)
  <2>1. ASSUME NEW k \in Keys, t[k] # NoRow, t[k].seq <= page[d].upto
        PROVE  Merged(k) # NoRow /\ ~ Wins(t[k].ranks, Merged(k))
    <3>1. t[k].ranks \in Versions /\ t[k].seq \in Nat /\ cursor[d] \in Nat /\ Ranked(t[k].ranks)
      BY <1>2, <2>1, VersionFacts DEF Tables
    <3>2. CASE t[k].seq <= cursor[d]
      <4>1. local[d][k] # NoRow /\ ~ Wins(t[k].ranks, local[d][k]) /\ Ranked(local[d][k])
        BY <1>2, <1>9, <2>1, <3>2, VersionFacts DEF TrueOf, True
      <4>2. CASE Merged(k) = local[d][k]
        BY <4>1, <4>2
      <4>3. CASE Merged(k) # local[d][k]
        <5>1. Merged(k) \in Versions /\ Wins(Merged(k), local[d][k])
          BY <1>4, <4>1, <4>3 DEF Beats
        <5> QED
          BY <3>1, <4>1, <5>1, WinsOnward, VersionFacts
      <4> QED
        BY <4>2, <4>3
    <3>3. CASE t[k].seq > cursor[d]
      <4>1. k \in DOMAIN page[d].rows /\ page[d].rows[k] = t[k].ranks
        BY <1>1, <1>9, <2>1, <3>3 DEF TrueOf, True
      <4>2. CASE Beats(t[k].ranks, local[d][k])
        BY <3>1, <4>1, <4>2, NoWinOverSelf, VersionFacts
      <4>3. CASE ~ Beats(t[k].ranks, local[d][k])
        BY <4>1, <4>3 DEF Beats
      <4> QED
        BY <4>2, <4>3
    <3> QED
      BY <3>1, <3>2, <3>3
  <2>2. page[d].upto <= n
    BY <1>1, <1>9 DEF TrueOf, True
  <2> QED
    BY <1>7, <2>1, <2>2 DEF True
<1>10. table \in Tables /\ \A s \in unsynced : s.table \in Tables
  BY DEF DeviceInv, TypeOK, Tables
<1>11. ASSUME NEW e \in Devices, NEW t \in Tables, NEW n, TrueOf(e, t, n)
       PROVE  True(cursor'[e], local'[e], page'[e], t, n)
  <2>1. CASE e = d
    BY <1>1, <1>2, <1>9, <1>11, <2>1
  <2>2. CASE e # d
    BY <1>1, <1>2, <1>7, <1>11, <2>2 DEF TrueOf
  <2> QED
    BY <2>1, <2>2
<1> QED
  BY <1>1, <1>8, <1>10, <1>11 DEF DeviceInv, TrueOf, Numbering

\* Starting over, nothing is claimed any more.
LEMMA StartOverStep == ASSUME DeviceInv, NEW d \in Devices, StartOver(d) PROVE DeviceInv'
<1>1. /\ table' = table /\ nextSeq' = nextSeq /\ unsynced' = unsynced
      /\ local' = local /\ wanted' = wanted /\ fresh' = fresh
      /\ cursor' = [cursor EXCEPT ![d] = 0] /\ page' = [page EXCEPT ![d] = NoPage]
      /\ exposed' = [exposed EXCEPT ![d] = FALSE]
  BY DEF StartOver, storeVars
<1>2. TypeOK'
  BY <1>1 DEF DeviceInv, TypeOK
<1>3. ASSUME NEW t \in Tables, NEW n \in Nat, Numbering(t, n)
      PROVE  True(0, local[d], NoPage, t, n)
  BY <1>3 DEF Numbering, True
<1>4. /\ table \in Tables /\ nextSeq \in Nat
      /\ \A s \in unsynced : s.table \in Tables /\ s.nextSeq \in Nat
  BY DEF DeviceInv, TypeOK, Tables
<1>5. cursor'[d] = 0 /\ page'[d] = NoPage /\ \A e \in Devices : e # d =>
        cursor'[e] = cursor[e] /\ page'[e] = page[e] /\ exposed'[e] = exposed[e]
  BY <1>1 DEF DeviceInv, TypeOK
<1>6. ASSUME NEW e \in Devices, ~ exposed'[e]
      PROVE  /\ TrueOf(e, table, nextSeq)'
             /\ ~ fresh[e] => \A s \in unsynced : TrueOf(e, s.table, s.nextSeq)'
  <2>1. CASE e = d
    BY <1>1, <1>3, <1>4, <1>5, <2>1 DEF DeviceInv, TrueOf
  <2>2. CASE e # d
    BY <1>1, <1>5, <1>6, <2>2 DEF DeviceInv, TrueOf
  <2> QED
    BY <2>1, <2>2
<1> QED
  BY <1>1, <1>2, <1>6 DEF DeviceInv, Numbering

LEMMA CheckpointStep == ASSUME DeviceInv, Checkpoint PROVE DeviceInv'
<1>1. /\ table' = table /\ nextSeq' = nextSeq /\ unsynced' = {}
      /\ local' = local /\ cursor' = cursor /\ wanted' = wanted /\ page' = page
      /\ fresh' = [d \in Devices |-> FALSE] /\ exposed' = exposed
  BY DEF Checkpoint, deviceVars
<1>2. TypeOK'
  BY <1>1 DEF DeviceInv, TypeOK
<1> QED
  BY <1>1, <1>2 DEF DeviceInv, TrueOf, Numbering

\* A device that has read nothing since the last checkpoint is true to whatever
\* state the power loss brings back; any other is exposed.
LEMMA PowerLossStep == ASSUME DeviceInv, PowerLoss PROVE DeviceInv'
<1>1. PICK s \in unsynced : table' = s.table /\ nextSeq' = s.nextSeq
  BY DEF PowerLoss
<1>2. /\ unsynced' = {} /\ local' = local /\ cursor' = cursor /\ wanted' = wanted
      /\ page' = page /\ fresh' = [d \in Devices |-> FALSE]
      /\ exposed' = [d \in Devices |-> exposed[d] \/ fresh[d]]
  BY DEF PowerLoss, deviceVars
<1>3. TypeOK'
  <2>1. fresh' \in [Devices -> BOOLEAN] /\ exposed' \in [Devices -> BOOLEAN]
    BY <1>2 DEF DeviceInv, TypeOK
  <2> QED
    BY <1>1, <1>2, <2>1 DEF DeviceInv, TypeOK
<1>4. Numbering(table, nextSeq)'
  BY <1>1 DEF DeviceInv, Numbering
<1>5. ASSUME NEW d \in Devices, ~ exposed'[d] PROVE TrueOf(d, table, nextSeq)'
  <2>1. ~ exposed[d] /\ ~ fresh[d]
    BY <1>2, <1>5
  <2> QED
    BY <1>1, <1>2, <2>1 DEF DeviceInv, TrueOf
<1> QED
  BY <1>2, <1>3, <1>4, <1>5 DEF DeviceInv

LEMMA DevicesStep == DeviceInv /\ [Next]_vars => DeviceInv'
<1> SUFFICES ASSUME DeviceInv, [Next]_vars PROVE DeviceInv'
  OBVIOUS
<1>1. ASSUME NEW d \in Devices, Push(d) PROVE DeviceInv'
  <2>1. PICK pos \in Orders(wanted[d]) : Upsert(d, wanted[d], pos)
    BY <1>1 DEF Push
  <2> QED
    BY <1>1, <2>1, UpsertStep DEF Push
<1>2. ASSUME NEW d \in Devices, PushUnanswered(d) PROVE DeviceInv'
  <2>1. PICK pos \in Orders(wanted[d]) : Upsert(d, wanted[d], pos)
    BY <1>2 DEF PushUnanswered
  <2> QED
    BY <1>2, <2>1, UpsertStep DEF PushUnanswered, deviceVars
<1>3. CASE UNCHANGED vars
  <2>1. /\ table' = table /\ nextSeq' = nextSeq /\ unsynced' = unsynced
        /\ local' = local /\ cursor' = cursor /\ wanted' = wanted /\ page' = page
        /\ fresh' = fresh /\ exposed' = exposed
    BY <1>3 DEF vars, storeVars, deviceVars
  <2>2. TypeOK'
    BY <2>1 DEF DeviceInv, TypeOK
  <2> QED
    BY <2>1, <2>2 DEF DeviceInv, TrueOf, Numbering
<1> QED
  BY <1>1, <1>2, <1>3, EditStep, DiffStep, PullStep, ReceiveStep, StartOverStep,
     CheckpointStep, PowerLossStep DEF Next

\* Unless the store has lost a state the device had read, everything at or below
\* a device's cursor is on the device, or something better.
THEOREM CursorHoldsCorrect == Spec => []CursorHolds
<1>1. DeviceInv => CursorHolds
  BY DEF DeviceInv, TrueOf, True, CursorHolds, Covered
<1> QED
  BY <1>1, DevicesInitial, DevicesStep, PTL DEF Spec

\* Type correctness, and what a device asked to push is still on it.
THEOREM DevicesTypeCorrect == Spec => []TypeOK
<1>1. DeviceInv => TypeOK
  BY DEF DeviceInv
<1> QED
  BY <1>1, DevicesInitial, DevicesStep, PTL DEF Spec
-----------------------------------------------------------------------------
(* What it means to be done *)

\* A diff asks device d for nothing and a pull finds nothing for it.
AtRest(d) == Lacking(d) = {} /\ Newer(cursor[d]) = {}

\* Of two versions one wins, or they are one version.
LEMMA VersionsTotal ==
  ASSUME NEW v \in Versions, NEW w \in Versions, ~ Wins(v, w), ~ Wins(w, v)
  PROVE  v = w
<1>1. v \in Ranks /\ w \in Ranks
  BY DevicesAssumption
<1>2. v.edited = w.edited /\ v.rev = w.rev /\ v.src = w.src
  BY <1>1 DEF Ranks, Wins
<1> QED
  BY <1>1, <1>2 DEF Ranks

LEMMA RestIsAgreement ==
  ASSUME DeviceInv, NEW d \in Devices, ~ exposed[d], AtRest(d), NEW k \in Keys
  PROVE  local[d][k] = Held(table[k])
<1>1. /\ table[k] \in [ranks : Versions, seq : Nat] \cup {NoRow}
      /\ local[d][k] \in Versions \cup {NoRow} /\ cursor[d] \in Nat
  BY DEF DeviceInv, TypeOK
<1>2. local[d][k] # NoRow => ~ Beats(local[d][k], Held(table[k]))
  BY DEF AtRest, Lacking
<1>3. CASE table[k] = NoRow
  BY <1>2, <1>3 DEF Beats, Held
<1>4. CASE table[k] # NoRow
  <2>1. table[k].ranks \in Versions /\ table[k].ranks # NoRow /\ table[k].seq \in Nat
    BY <1>1, <1>4, VersionFacts
  <2>2. table[k].seq <= cursor[d]
    BY <1>1, <1>4, <2>1 DEF AtRest, Newer
  <2>3. local[d][k] # NoRow /\ ~ Wins(table[k].ranks, local[d][k])
    BY <1>4, <2>2 DEF DeviceInv, TrueOf, True
  <2>4. ~ Wins(local[d][k], table[k].ranks)
    BY <1>2, <1>4, <2>1, <2>3 DEF Beats, Held
  <2> QED
    BY <1>1, <1>4, <2>1, <2>3, <2>4, VersionsTotal DEF Held
<1> QED
  BY <1>3, <1>4

\* A device for which diff and pull have nothing more to do holds what the store
\* holds, key by key, whatever was edited, lost or cut off on the way; so two
\* such devices hold the same.  Converge adds that they come to rest.
THEOREM RestIsConverged ==
  Spec => [](\A d \in Devices :
               ~ exposed[d] /\ AtRest(d) => \A k \in Keys : local[d][k] = Held(table[k]))
<1>1. DeviceInv => \A d \in Devices :
        ~ exposed[d] /\ AtRest(d) => \A k \in Keys : local[d][k] = Held(table[k])
  BY RestIsAgreement
<1> QED
  BY <1>1, DevicesInitial, DevicesStep, PTL DEF Spec
-----------------------------------------------------------------------------
(* What the store has of a device *)

\* The row is version v or a better one: a diff does not ask for v.
Has(row, v) == row # NoRow /\ ~ Wins(v, row.ranks)

\* The row is the old one or a better one.
Onward(old, new) ==
  new = old \/ (new # NoRow /\ (old = NoRow \/ Wins(new.ranks, old.ranks)))

PageOf(d, t) == \A k \in DOMAIN page[d].rows : Has(t[k], page[d].rows[k])

\* A page on its way holds nothing the store would take, unless it is of a state
\* that was lost.
PageInv ==
  \A d \in Devices : ~ exposed[d] /\ page[d] # NoPage =>
    /\ PageOf(d, table)
    /\ ~ fresh[d] => \A s \in unsynced : PageOf(d, s.table)

Lacks(d, k) == local[d][k] # NoRow /\ ~ Has(table[k], local[d][k])

\* What a diff asks for are the keys the store lacks.
LEMMA LackingIsLacks ==
  ASSUME TypeOK, NEW d \in Devices
  PROVE  Lacking(d) = {k \in Keys : Lacks(d, k)}
<1>1. \A k \in Keys : table[k] # NoRow => table[k].ranks # NoRow
  BY VersionFacts DEF TypeOK
<1> QED
  BY <1>1 DEF Lacking, Lacks, Has, Beats, Held

LEMMA HasOnward ==
  ASSUME NEW old \in [ranks : Versions, seq : Nat] \cup {NoRow},
         NEW new \in [ranks : Versions, seq : Nat] \cup {NoRow},
         NEW v \in Versions, Has(old, v), Onward(old, new)
  PROVE  Has(new, v)
<1>1. CASE new = old
  BY <1>1
<1>2. CASE new # old
  <2>1. new # NoRow /\ Wins(new.ranks, old.ranks) /\ ~ Wins(v, old.ranks) /\ old # NoRow
    BY <1>2 DEF Has, Onward
  <2>2. Ranked(v) /\ Ranked(old.ranks) /\ Ranked(new.ranks)
    BY <2>1, VersionFacts
  <2> QED
    BY <2>1, <2>2, WinsOnward DEF Has
<1> QED
  BY <1>1, <1>2

\* An upsert changes a row only for a better one, and leaves nothing of the
\* batch for the next diff to ask for.
LEMMA UpsertOnward ==
  ASSUME DeviceInv, NEW d \in Devices, NEW pos \in Orders(wanted[d]), Upsert(d, wanted[d], pos)
  PROVE  /\ \A k \in Keys : Onward(table[k], table'[k])
         /\ \A k \in wanted[d] : Has(table'[k], local[d][k])
<1>1. /\ table \in Tables /\ wanted[d] \subseteq Keys
      /\ local[d] \in [Keys -> Versions \cup {NoRow}] /\ \A k \in wanted[d] : local[d][k] # NoRow
  BY DEF DeviceInv, TypeOK, Tables
<1>2. ASSUME NEW k \in Keys
      PROVE  Onward(table[k], table'[k]) /\ (k \in wanted[d] => Has(table'[k], local[d][k]))
  <2> DEFINE v == local[d][k]
             new == [ranks |-> v, seq |-> Numbered(k, nextSeq + pos[k])]
             takes == k \in wanted[d] /\ (table[k] = NoRow \/ UpsertWhere(v, table[k].ranks))
  <2>1. table'[k] = IF takes THEN new ELSE table[k]
    BY DEF Upsert
  <2>2. table' \in Tables
    BY UpsertRows
  <2>3. k \in wanted[d] => v \in Versions /\ Ranked(v)
    BY <1>1, VersionFacts
  <2>4. table[k] # NoRow => Ranked(table[k].ranks)
    BY <1>1, VersionFacts DEF Tables
  <2>5. k \in wanted[d] /\ table[k] # NoRow =>
          (UpsertWhere(v, table[k].ranks) <=> Wins(v, table[k].ranks))
    BY <2>3, <2>4 DEF Ranked, UpsertWhere, Wins
  <2>6. CASE takes
    <3>1. table'[k].ranks = v /\ table'[k] # NoRow
      <4>1. v \in Versions /\ table'[k] = new
        BY <2>1, <2>3, <2>6
      <4>2. nextSeq + pos[k] \in Nat
        <5>1. Cardinality(wanted[d]) \in Nat /\ nextSeq \in Nat
          BY <1>1, DevicesAssumption, FS_Subset, FS_CardinalityType DEF DeviceInv, TypeOK
        <5>2. pos[k] \in 1 .. Cardinality(wanted[d])
          BY <2>6 DEF Orders
        <5> QED
          BY <5>1, <5>2
      <4>3. new \in [ranks : Versions, seq : Nat]
        BY <4>1, <4>2 DEF Numbered
      <4> QED
        BY <4>1, <4>3, VersionFacts
    <3>2. ~ Wins(v, v)
      BY <2>3, <2>6, NoWinOverSelf
    <3> QED
      BY <2>5, <2>6, <3>1, <3>2 DEF Onward, Has
  <2>7. CASE ~ takes
    BY <2>1, <2>5, <2>7 DEF Onward, Has
  <2> QED
    BY <2>6, <2>7
<1> QED
  BY <1>1, <1>2

LEMMA PageInitial == Init => PageInv
BY DEF Init, PageInv

\* No version of a page that is still true of the store is news to it, so a
\* device that merges it has nothing to give back.
LEMMA PageInvStep ==
  ASSUME DeviceInv, PageInv, [Next]_vars
  PROVE  PageInv'
<1>1. /\ DOMAIN page = Devices /\ table \in Tables /\ \A s \in unsynced : s.table \in Tables
      /\ fresh \in [Devices -> BOOLEAN] /\ exposed \in [Devices -> BOOLEAN]
  BY DEF DeviceInv, TypeOK, Tables
<1>2. ASSUME NEW d \in Devices, NEW pos \in Orders(wanted[d]), Upsert(d, wanted[d], pos),
             UNCHANGED <<page, fresh, exposed>>
      PROVE  PageInv'
  <2>1. /\ \A k \in Keys : Onward(table[k], table'[k])
        /\ table' \in Tables
    BY <1>2, UpsertOnward, UpsertRows
  <2>2. \A s \in unsynced' : s \in unsynced \/ s.table = table
    <3> SUFFICES ASSUME NEW s \in unsynced', s \notin unsynced PROVE s.table = table
      OBVIOUS
    <3>1. s = [table |-> table, nextSeq |-> nextSeq]
      BY <1>2 DEF Upsert
    <3> QED
      BY <3>1
  <2>3. ASSUME NEW e \in Devices, ~ exposed[e], page[e] # NoPage PROVE PageOf(e, table')
    <3>1. PICK P \in SUBSET Keys : page[e] \in [rows : [P -> Versions], upto : Nat]
      BY <2>3 DEF DeviceInv, TypeOK
    <3>2. DOMAIN page[e].rows = P /\ \A k \in P : page[e].rows[k] \in Versions
      BY <3>1
    <3>3. PageOf(e, table)
      BY <2>3 DEF PageInv
    <3>4. ASSUME NEW k \in P PROVE Has(table'[k], page[e].rows[k])
      <4>1. /\ table[k] \in [ranks : Versions, seq : Nat] \cup {NoRow}
            /\ table'[k] \in [ranks : Versions, seq : Nat] \cup {NoRow}
        BY <1>1, <2>1, <3>1 DEF Tables
      <4>2. Has(table[k], page[e].rows[k]) /\ Onward(table[k], table'[k])
        BY <2>1, <3>1, <3>2, <3>3 DEF PageOf
      <4> QED
        BY <3>2, <4>1, <4>2, HasOnward
    <3> QED
      BY <3>2, <3>4 DEF PageOf
  <2>4. ASSUME NEW e \in Devices, ~ exposed[e], page[e] # NoPage, ~ fresh[e], NEW s \in unsynced'
        PROVE  PageOf(e, s.table)
    BY <2>2, <2>4 DEF PageInv
  <2> QED
    BY <1>2, <2>3, <2>4 DEF PageInv, PageOf
<1>3. ASSUME NEW d \in Devices, Push(d) PROVE PageInv'
  BY <1>2, <1>3 DEF Push
<1>4. ASSUME NEW d \in Devices, PushUnanswered(d) PROVE PageInv'
  BY <1>2, <1>4 DEF PushUnanswered, deviceVars
<1>5. ASSUME NEW d \in Devices, Pull(d) PROVE PageInv'
  <2>1. /\ table' = table /\ unsynced' = unsynced /\ exposed' = exposed
        /\ fresh' = [fresh EXCEPT ![d] = @ \/ unsynced # {}]
    BY <1>5 DEF Pull, storeVars
  <2>2. PICK P \in SUBSET Newer(cursor[d]) : \E u :
          page' = [page EXCEPT ![d] = [rows |-> [k \in P |-> table[k].ranks], upto |-> u]]
    BY <1>5 DEF Pull
  <2>3. PICK u : page' = [page EXCEPT ![d] = [rows |-> [k \in P |-> table[k].ranks], upto |-> u]]
    BY <2>2
  <2>4. DOMAIN page'[d].rows = P /\ \A k \in P : page'[d].rows[k] = table[k].ranks
    <3>1. page'[d] = [rows |-> [k \in P |-> table[k].ranks], upto |-> u]
      BY <1>1, <2>3
    <3> QED
      BY <3>1
  <2>5. \A k \in P : Has(table[k], table[k].ranks)
    <3> TAKE k \in P
    <3>1. table[k] # NoRow /\ table[k] \in [ranks : Versions, seq : Nat]
      BY <1>1 DEF Newer, Tables
    <3>2. Ranked(table[k].ranks)
      BY <3>1, VersionFacts
    <3> QED
      BY <3>1, <3>2, NoWinOverSelf DEF Has
  <2>6. PageOf(d, table)'
    BY <2>1, <2>4, <2>5 DEF PageOf
  <2>7. ~ fresh'[d] => unsynced = {}
    BY <1>1, <2>1
  <2>8. \A e \in Devices : e # d => page'[e] = page[e] /\ fresh'[e] = fresh[e]
    BY <1>1, <2>1, <2>3
  <2>9. ASSUME NEW e \in Devices, ~ exposed[e], page'[e] # NoPage
        PROVE  PageOf(e, table)' /\ (~ fresh'[e] => \A s \in unsynced : PageOf(e, s.table)')
    <3>1. CASE e = d
      BY <2>6, <2>7, <3>1
    <3>2. CASE e # d
      BY <2>1, <2>8, <2>9, <3>2 DEF PageInv, PageOf
    <3> QED
      BY <3>1, <3>2
  <2> QED
    BY <2>1, <2>9 DEF PageInv, PageOf
<1>6. ASSUME NEW d \in Devices, Receive(d) \/ StartOver(d) PROVE PageInv'
  <2>1. /\ table' = table /\ unsynced' = unsynced /\ fresh' = fresh
        /\ page' = [page EXCEPT ![d] = NoPage]
        /\ \A e \in Devices : e # d => exposed'[e] = exposed[e]
    BY <1>1, <1>6 DEF Receive, StartOver, storeVars
  <2>2. page'[d] = NoPage /\ \A e \in Devices : e # d => page'[e] = page[e]
    BY <1>1, <2>1
  <2> QED
    BY <2>1, <2>2 DEF PageInv, PageOf
<1>7. CASE Checkpoint
  BY <1>7 DEF Checkpoint, deviceVars, PageInv, PageOf
<1>8. CASE PowerLoss
  <2>1. PICK s \in unsynced : table' = s.table
    BY <1>8 DEF PowerLoss
  <2>2. /\ unsynced' = {} /\ page' = page
        /\ \A d \in Devices : ~ exposed'[d] => ~ exposed[d] /\ ~ fresh[d]
    BY <1>8 DEF PowerLoss, deviceVars
  <2> QED
    BY <2>1, <2>2 DEF PageInv, PageOf
<1>9. CASE UNCHANGED vars \/ \E d \in Devices : Diff(d) \/ \E k \in Keys, v \in Versions : Edit(d, k, v)
  <2>1. UNCHANGED <<table, unsynced, page, fresh, exposed>>
    BY <1>9 DEF vars, Diff, Edit, storeVars, deviceVars
  <2> QED
    BY <2>1 DEF PageInv, PageOf
<1> QED
  BY <1>3, <1>4, <1>5, <1>6, <1>7, <1>8, <1>9 DEF Next

LEMMA DevicesAlways == Spec => [](DeviceInv /\ PageInv)
BY DevicesInitial, DevicesStep, PageInitial, PageInvStep, PTL DEF Spec

\* What the store has of a device it has until the user edits that key there or
\* the store loses a commit: nothing that other devices push, and no page the
\* device merges, makes a diff ask for it again.  Only a device that had read
\* what a power loss took may bring something back with a page.
LEMMA HasStays ==
  ASSUME DeviceInv, PageInv, [Next]_vars, NEW d \in Devices, NEW k \in Keys,
         ~ exposed[d], Lacks(d, k)', ~ Lacks(d, k)
  PROVE  PowerLoss \/ \E v \in Versions : Edit(d, k, v)
<1>1. /\ table \in Tables /\ local \in [Devices -> [Keys -> Versions \cup {NoRow}]]
  BY DEF DeviceInv, TypeOK, Tables
<1>2. ASSUME NEW e \in Devices, NEW pos \in Orders(wanted[e]), Upsert(e, wanted[e], pos),
             local' = local
      PROVE  FALSE
  <2>1. Onward(table[k], table'[k]) /\ table' \in Tables
    BY <1>2, UpsertOnward, UpsertRows
  <2>2. local[d][k] \in Versions /\ Has(table[k], local[d][k])
    BY <1>1, <1>2 DEF Lacks
  <2>3. Has(table'[k], local[d][k])
    BY <1>1, <2>1, <2>2, HasOnward DEF Tables
  <2> QED
    BY <1>2, <2>3 DEF Lacks
<1>3. ASSUME NEW e \in Devices, Push(e) \/ PushUnanswered(e) PROVE FALSE
  <2>1. (\E pos \in Orders(wanted[e]) : Upsert(e, wanted[e], pos)) /\ local' = local
    BY <1>3 DEF Push, PushUnanswered, deviceVars
  <2> QED
    BY <1>2, <2>1
<1>4. CASE UNCHANGED <<table, local>>
  BY <1>4 DEF Lacks
<1>5. ASSUME NEW e \in Devices, Receive(e) PROVE FALSE
  <2>1. table' = table /\ page[e] # NoPage
    BY <1>5 DEF Receive, storeVars
  <2>2. CASE local'[d][k] = local[d][k]
    BY <2>1, <2>2 DEF Lacks
  <2>3. CASE local'[d][k] # local[d][k]
    <3>1. e = d /\ k \in DOMAIN page[d].rows /\ local'[d][k] = page[d].rows[k]
      BY <1>1, <1>5, <2>3 DEF Receive
    <3>2. Has(table[k], page[d].rows[k])
      BY <2>1, <3>1 DEF PageInv, PageOf
    <3> QED
      BY <2>1, <3>1, <3>2 DEF Lacks
  <2> QED
    BY <2>2, <2>3
<1>6. ASSUME NEW e \in Devices, NEW j \in Keys, NEW v \in Versions, Edit(e, j, v)
      PROVE  e = d /\ j = k
  <2>1. table' = table /\ local' = [local EXCEPT ![e][j] = v]
    BY <1>6 DEF Edit, storeVars
  <2>2. local'[d][k] # local[d][k]
    BY <2>1 DEF Lacks
  <2> QED
    BY <1>1, <2>1, <2>2
<1>7. ASSUME NEW e \in Devices, Diff(e) \/ Pull(e) \/ StartOver(e) PROVE UNCHANGED <<table, local>>
  BY <1>7 DEF Diff, Pull, StartOver, storeVars
<1>8. Checkpoint \/ UNCHANGED vars => UNCHANGED <<table, local>>
  BY DEF Checkpoint, vars, storeVars, deviceVars
<1> QED
  BY <1>3, <1>4, <1>5, <1>6, <1>7, <1>8 DEF Next

\* A diff stops asking for what the device has pushed, and starts again only
\* after an edit of that key on the device or a power loss, unless the device
\* had read what was lost.  ServerCatchesUp adds that everything is pushed.
THEOREM PushSettles ==
  Spec =>
    /\ [][\A d \in Devices : Push(d) => wanted[d] \cap Lacking(d)' = {}]_vars
    /\ [][\A d \in Devices, k \in Keys :
            ~ exposed[d] /\ k \in Lacking(d)' \ Lacking(d)
              => PowerLoss \/ \E v \in Versions : Edit(d, k, v)]_vars
<1> DEFINE Settles == \A d \in Devices : Push(d) => wanted[d] \cap Lacking(d)' = {}
           Stays == \A d \in Devices, k \in Keys :
                      ~ exposed[d] /\ k \in Lacking(d)' \ Lacking(d)
                        => PowerLoss \/ \E v \in Versions : Edit(d, k, v)
<1>1. ASSUME DeviceInv, [Next]_vars, NEW d \in Devices
      PROVE  /\ Lacking(d) = {k \in Keys : Lacks(d, k)}
             /\ Lacking(d)' = {k \in Keys : Lacks(d, k)'}
  <2>1. TypeOK /\ TypeOK'
    BY <1>1, DevicesStep DEF DeviceInv
  <2>2. Lacking(d)' = {k \in Keys : Lacks(d, k)'}
    <3>1. \A k \in Keys : table'[k] # NoRow => table'[k].ranks # NoRow
      BY <2>1, VersionFacts DEF TypeOK
    <3> QED
      BY <3>1 DEF Lacking, Lacks, Has, Beats, Held
  <2> QED
    BY <2>1, <2>2, LackingIsLacks
<1>2. DeviceInv /\ [Next]_vars => [Settles]_vars
  <2> SUFFICES ASSUME DeviceInv, [Next]_vars, NEW d \in Devices, Push(d), NEW k \in wanted[d]
               PROVE  k \notin Lacking(d)'
    OBVIOUS
  <2>1. PICK pos \in Orders(wanted[d]) : Upsert(d, wanted[d], pos)
    BY DEF Push
  <2>2. Has(table'[k], local[d][k]) /\ local' = local
    BY <2>1, UpsertOnward DEF Push
  <2>3. ~ Lacks(d, k)'
    BY <2>2 DEF Lacks
  <2> QED
    BY <1>1, <2>3
<1>3. DeviceInv /\ PageInv /\ [Next]_vars => [Stays]_vars
  BY <1>1, HasStays
<1> QED
  BY <1>2, <1>3, DevicesAlways, PTL DEF Spec
=============================================================================
