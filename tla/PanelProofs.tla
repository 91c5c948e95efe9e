---------------------------- MODULE PanelProofs ----------------------------
(***************************************************************************)
(* Theorems about the collector and the operations panel, for any number   *)
(* of requests, stored rows, failures of the statistics, frames, latencies *)
(* and any size of the ring.                                               *)
(***************************************************************************)
EXTENDS Panel, TLAPS, FiniteSetTheorems, WellFoundedInduction

(* Arithmetic *)

LEMMA ModBounds ==
  ASSUME NEW n \in Nat, NEW C \in Nat \ {0}
  PROVE  n % C \in 0 .. C-1 /\ n \div C \in Nat /\ n = C * (n \div C) + (n % C)
OBVIOUS

\* A multiple of C is not strictly between 0 and C.
LEMMA Gap ==
  ASSUME NEW C \in Nat \ {0}, NEW d \in Int, C*d > 0, C*d < C
  PROVE  FALSE
OBVIOUS

\* Quotient and remainder are unique.
LEMMA Unique ==
  ASSUME NEW C \in Nat \ {0}, NEW q \in Nat, NEW r \in 0 .. C - 1
  PROVE  (C * q + r) % C = r
<1> DEFINE n == C * q + r
<1>1. n \in Nat
  OBVIOUS
<1> HIDE DEF n
<1>2. n % C \in 0 .. C-1 /\ n \div C \in Nat /\ n = C * (n \div C) + (n % C)
  BY <1>1, ModBounds
<1>3. n = C * q + r
  BY DEF n
<1> DEFINE d == q - n \div C
<1>4. d \in Int /\ C * d = (n % C) - r
  BY <1>2, <1>3
<1> HIDE DEF d
<1>5. ~ (C * d > 0) /\ ~ (C * (-d) > 0)
  BY <1>2, <1>4, Gap
<1>6. C * (-d) = -(C*d)
  BY <1>4
<1> QED
  BY <1>2, <1>4, <1>5, <1>6 DEF n

\* Samples less than the capacity apart are in different slots.
LEMMA Distinct ==
  ASSUME NEW C \in Nat \ {0}, NEW a \in Nat, NEW b \in Nat, a < b, b < a + C
  PROVE  a % C # b % C
<1> DEFINE p == a \div C
           q == b \div C
           r == a % C
           s == b % C
<1>1. r \in 0..C-1 /\ p \in Nat /\ a = C*p + r
  BY ModBounds
<1>2. s \in 0..C-1 /\ q \in Nat /\ b = C*q + s
  BY ModBounds
<1> HIDE DEF p, q, r, s
<1> SUFFICES ASSUME r = s PROVE FALSE
  BY DEF r, s
<1>3. b - a = C*q - C*p
  BY <1>1, <1>2
<1>4. C*q - C*p = C*(q-p)
  BY <1>1, <1>2
<1> QED
  BY <1>1, <1>2, <1>3, <1>4, Gap

\* The next slot is the slot of the next sample.
LEMMA NextSlot ==
  ASSUME NEW C \in Nat \ {0}, NEW n \in Nat
  PROVE  (n + 1) % C = ((n % C) + 1) % C
<1> DEFINE q == n \div C
           r == n % C
<1>1. q \in Nat /\ r \in 0 .. C-1 /\ n = C*q + r
  BY ModBounds
<1> HIDE DEF q, r
<1>2. CASE r + 1 < C
  <2>1. n + 1 = C*q + (r+1) /\ r+1 \in 0..C-1
    BY <1>1, <1>2
  <2>2. (n+1) % C = r+1
    BY <1>1, <2>1, Unique
  <2>3. (r+1) % C = r+1
    BY <1>1, <1>2
  <2> QED
    BY <2>2, <2>3 DEF r
<1>3. CASE r + 1 = C
  <2>1. n + 1 = C*(q+1) + 0 /\ q+1 \in Nat
    BY <1>1, <1>3
  <2>2. (n+1) % C = 0
    <3>1. (C*(q+1) + 0) % C = 0
      BY <2>1, Unique
    <3> QED
      BY <2>1, <3>1
  <2>3. C % C = 0
    OBVIOUS
  <2> QED
    BY <1>3, <2>2, <2>3 DEF r
<1> QED
  BY <1>1, <1>2, <1>3

\* A set of naturals has a least element.
LEMMA Least ==
  ASSUME NEW T \in SUBSET Nat, T # {}
  PROVE  \E x \in T : \A y \in T : x <= y
<1> DEFINE R == OpToRel(<, Nat)
<1>1. IsWellFoundedOn(R, Nat)
  BY NatLessThanWellFounded
<1>2. \A x, y \in Nat : x < y => <<x, y>> \in R
  BY DEF OpToRel
<1> HIDE DEF R
<1>3. PICK x \in T : \A y \in T : ~ (<<y, x>> \in R)
  BY <1>1, WFMin
<1>4. ASSUME NEW y \in T PROVE x <= y
  <2>1. x \in Nat /\ y \in Nat
    OBVIOUS
  <2>2. ~ (y < x)
    BY <1>2, <1>3, <2>1, Zenon
  <2> QED
    BY <2>1, <2>2
<1> QED
  BY <1>4
-----------------------------------------------------------------------------
(* The collector *)

Phase(P) == {r \in Requests : pc[r] \in P}

\* Requests in flight, and those already counted as completed.
InService == {"serving", "total", "status", "record", "flag", "latency", "leave"}
Past == {"status", "record", "flag", "latency", "leave", "done"}

Active == Phase(InService)
Completed == Phase(Past)

CountersAgree ==
  /\ inFlight = Cardinality(Active)
  /\ total = Cardinality(Completed)

\* An error is counted before it is recorded.
ErrorsCounted ==
  /\ \A r \in Requests : pc[r] \in {"status", "record", "flag"} => class[r] \in Errors
  /\ \A r \in Requests : pc[r] \in {"record", "flag"} => status[class[r]] > 0
  /\ \A e \in Errors : lastErr = e => status[e] > 0

NextSlotOfRing == ringIdx = Len(observed) % Cap

CollectorInv ==
  CollectorTypeOK /\ CountersAgree /\ ErrorsCounted /\ NextSlotOfRing /\ RingIsRecent

LEMMA PhaseFinite ==
  ASSUME NEW P
  PROVE  IsFiniteSet(Phase(P)) /\ Cardinality(Phase(P)) \in Nat
BY PanelAssumption, FS_Subset, FS_CardinalityType DEF Phase

\* A request that goes on leaves a phase or enters it.
LEMMA PhaseStep ==
  ASSUME pc \in [Requests -> PC], NEW r \in Requests, NEW l \in PC, Goto(r, l), NEW P
  PROVE  Cardinality(Phase(P))' =
           Cardinality(Phase(P)) + (IF l \in P THEN 1 ELSE 0) - (IF pc[r] \in P THEN 1 ELSE 0)
<1>0. Cardinality(Phase(P)) \in Nat
  BY PhaseFinite
<1>1. pc'[r] = l /\ \A q \in Requests : q # r => pc'[q] = pc[q]
  BY DEF Goto
<1>2. CASE l \in P /\ pc[r] \notin P
  <2>1. Phase(P)' = Phase(P) \cup {r} /\ r \notin Phase(P)
    BY <1>1, <1>2 DEF Phase
  <2>2. Cardinality(Phase(P) \cup {r}) = Cardinality(Phase(P)) + 1
    BY <2>1, PhaseFinite, FS_AddElement
  <2> QED
    BY <1>0, <1>2, <2>1, <2>2
<1>3. CASE l \notin P /\ pc[r] \in P
  <2>1. Phase(P)' = Phase(P) \ {r} /\ r \in Phase(P)
    BY <1>1, <1>3 DEF Phase
  <2>2. Cardinality(Phase(P) \ {r}) = Cardinality(Phase(P)) - 1
    BY <2>1, PhaseFinite, FS_RemoveElement
  <2> QED
    BY <1>0, <1>3, <2>1, <2>2
<1>4. CASE l \in P <=> pc[r] \in P
  <2>1. Phase(P)' = Phase(P)
    BY <1>1, <1>4 DEF Phase
  <2> QED
    BY <1>0, <1>4, <2>1
<1> QED
  BY <1>2, <1>3, <1>4

LEMMA CollectorInitial == CollectorInit => CollectorInv
<1> SUFFICES ASSUME CollectorInit PROVE CollectorInv
  OBVIOUS
<1> USE CollectorAssumption DEF CollectorInit
<1>1. CollectorTypeOK
  <2>1. /\ pc \in [Requests -> PC] /\ class \in [Requests -> Classes]
        /\ status \in [Errors -> Nat] /\ latencies \in [Slots -> Nat]
    BY DEF PC, Classes
  <2>2. 0 \in Slots /\ 0 \in 0 .. Cap
    BY DEF Slots
  <2>3. observed \in Seq(Nat)
    OBVIOUS
  <2> QED
    BY <2>1, <2>2, <2>3 DEF CollectorTypeOK
<1>2. CountersAgree
  <2>1. Active = {} /\ Completed = {}
    BY DEF Active, Completed, Phase, InService, Past
  <2> QED
    BY <2>1, FS_EmptySet DEF CountersAgree
<1>3. ErrorsCounted
  BY DEF ErrorsCounted, Errors
<1>4. NextSlotOfRing /\ RingIsRecent
  BY DEF NextSlotOfRing, RingIsRecent
<1> QED
  BY <1>1, <1>2, <1>3, <1>4 DEF CollectorInv

LEMMA CountStep ==
  ASSUME CollectorInv, NEW r \in Requests, Wrap(r)
  PROVE  CountersAgree' /\ inFlight' \in Nat /\ total' \in Nat
<1>0. /\ pc \in [Requests -> PC] /\ class \in [Requests -> Classes]
      /\ inFlight \in Nat /\ total \in Nat
      /\ inFlight = Cardinality(Active) /\ total = Cardinality(Completed)
  BY DEF CollectorInv, CollectorTypeOK, CountersAgree
<1>1. ASSUME NEW l \in PC, Goto(r, l)
      PROVE  /\ Cardinality(Active)' =
                  inFlight + (IF l \in InService THEN 1 ELSE 0) - (IF pc[r] \in InService THEN 1 ELSE 0)
             /\ Cardinality(Completed)' =
                  total + (IF l \in Past THEN 1 ELSE 0) - (IF pc[r] \in Past THEN 1 ELSE 0)
  BY <1>0, <1>1, PhaseStep DEF Active, Completed
<1>2. inFlight' = Cardinality(Active)' /\ total' = Cardinality(Completed)'
  <2> USE <1>0 DEF InService, Past, PC, counters
  <2>1. CASE Enter(r)
    BY <1>1, <2>1 DEF Enter
  <2>2. ASSUME NEW c, Serve(r, c) PROVE inFlight' = Cardinality(Active)' /\ total' = Cardinality(Completed)'
    BY <1>1, <2>2 DEF Serve
  <2>3. CASE CountTotal(r)
    <3>1. CASE class[r] \in Errors
      BY <1>1, <2>3, <3>1 DEF CountTotal
    <3>2. CASE class[r] \notin Errors
      BY <1>1, <2>3, <3>2 DEF CountTotal
    <3> QED
      BY <3>1, <3>2
  <2>4. CASE CountStatus(r)
    BY <1>1, <2>4 DEF CountStatus
  <2>5. CASE RecordError(r)
    BY <1>1, <2>5 DEF RecordError
  <2>6. CASE FlagError(r)
    BY <1>1, <2>6 DEF FlagError
  <2>7. ASSUME NEW d, Observe(r, d) PROVE inFlight' = Cardinality(Active)' /\ total' = Cardinality(Completed)'
    BY <1>1, <2>7 DEF Observe
  <2>8. CASE SkipLatency(r)
    BY <1>1, <2>8 DEF SkipLatency
  <2>9. CASE Leave(r)
    BY <1>1, <2>9 DEF Leave
  <2> QED
    BY <2>1, <2>2, <2>3, <2>4, <2>5, <2>6, <2>7, <2>8, <2>9 DEF Wrap
<1>3. Cardinality(Active)' \in Nat /\ Cardinality(Completed)' \in Nat
  <2>1. IsFiniteSet(Phase(InService)') /\ IsFiniteSet(Phase(Past)')
    BY PanelAssumption, FS_Subset DEF Phase
  <2> QED
    BY <2>1, FS_CardinalityType DEF Active, Completed
<1> QED
  BY <1>2, <1>3 DEF CountersAgree

\* Counters only grow, but for the one of requests in flight, which falls
\* behind the completed ones.
LEMMA WrapGrows ==
  ASSUME CollectorInv, NEW r \in Requests, Wrap(r)
  PROVE  /\ total' \in {total, total + 1}
         /\ status' \in [Errors -> Nat] /\ \A e \in Errors : status'[e] >= status[e]
<1> USE DEF CollectorInv, CollectorTypeOK, counters
<1>1. CASE CountStatus(r)
  <2>1. class[r] \in Errors /\ status' = [status EXCEPT ![class[r]] = @ + 1] /\ total' = total
    BY <1>1 DEF CountStatus, ErrorsCounted
  <2> QED
    BY <2>1
<1>2. CASE CountTotal(r)
  BY <1>2 DEF CountTotal
<1>3. CASE ~ CountStatus(r) /\ ~ CountTotal(r)
  <2>1. total' = total /\ status' = status
    BY <1>3 DEF Wrap, Enter, Serve, RecordError, FlagError, Observe, SkipLatency, Leave
  <2> QED
    BY <2>1
<1> QED
  BY <1>1, <1>2, <1>3

LEMMA ErrorStep ==
  ASSUME CollectorInv, NEW r \in Requests, Wrap(r)
  PROVE  ErrorsCounted'
<1>0. /\ pc \in [Requests -> PC] /\ class \in [Requests -> Classes] /\ status \in [Errors -> Nat]
      /\ ErrorsCounted
  BY DEF CollectorInv, CollectorTypeOK
<1> USE <1>0 DEF ErrorsCounted, Goto
<1>1. CASE Enter(r)
  BY <1>1 DEF Enter, error
<1>2. ASSUME NEW c \in Classes, Serve(r, c) PROVE ErrorsCounted'
  BY <1>2 DEF Serve, error, counters
<1>3. CASE CountTotal(r)
  <2>1. /\ pc' = [pc EXCEPT ![r] = IF class[r] \in Errors THEN "status" ELSE "latency"]
        /\ class' = class /\ status' = status /\ lastErr' = lastErr
    BY <1>3 DEF CountTotal, error
  <2> QED
    BY <2>1
<1>4. CASE CountStatus(r)
  <2>1. /\ pc' = [pc EXCEPT ![r] = "record"] /\ class' = class /\ lastErr' = lastErr
        /\ status' = [status EXCEPT ![class[r]] = @ + 1] /\ class[r] \in Errors
    BY <1>4 DEF CountStatus, error
  <2>2. \A e \in Errors : status'[e] = IF e = class[r] THEN status[e] + 1 ELSE status[e]
    BY <2>1
  <2> QED
    BY <2>1, <2>2
<1>5. CASE RecordError(r)
  BY <1>5 DEF RecordError, counters
<1>6. CASE FlagError(r)
  BY <1>6 DEF FlagError, counters
<1>7. ASSUME NEW d, Observe(r, d) PROVE ErrorsCounted'
  BY <1>7 DEF Observe, counters, error
<1>8. CASE SkipLatency(r)
  BY <1>8 DEF SkipLatency, counters, error
<1>9. CASE Leave(r)
  BY <1>9 DEF Leave, error
<1> QED
  BY <1>1, <1>2, <1>3, <1>4, <1>5, <1>6, <1>7, <1>8, <1>9 DEF Wrap

\* A sample goes into the slot of the oldest one.
LEMMA RingStep ==
  ASSUME CollectorInv, NEW r \in Requests, Wrap(r)
  PROVE  /\ NextSlotOfRing' /\ RingIsRecent'
         /\ latencies' \in [Slots -> Nat] /\ ringIdx' \in Slots /\ ringCount' \in 0 .. Cap
         /\ observed' \in Seq(Nat)
<1>0. /\ latencies \in [Slots -> Nat] /\ ringIdx \in Slots /\ ringCount \in 0 .. Cap
      /\ observed \in Seq(Nat) /\ Cap \in Nat \ {0} /\ Durations \subseteq Nat
      /\ Len(observed) \in Nat
  BY CollectorAssumption DEF CollectorInv, CollectorTypeOK
<1>1. CASE UNCHANGED <<ring, observed>>
  BY <1>0, <1>1 DEF CollectorInv, NextSlotOfRing, RingIsRecent, ring
<1>2. ASSUME NEW d \in Durations, Observe(r, d)
      PROVE  /\ NextSlotOfRing' /\ RingIsRecent'
             /\ latencies' \in [Slots -> Nat] /\ ringIdx' \in Slots /\ ringCount' \in 0 .. Cap
             /\ observed' \in Seq(Nat)
  <2> DEFINE n == Len(observed)
  <2>1. /\ latencies' = [latencies EXCEPT ![ringIdx] = d] /\ observed' = Append(observed, d)
        /\ ringIdx' = (ringIdx + 1) % Cap
        /\ ringCount' = IF ringCount < Cap THEN ringCount + 1 ELSE ringCount
    BY <1>2 DEF Observe, Advance
  <2>2. /\ observed' \in Seq(Nat) /\ Len(observed') = n + 1 /\ observed'[n + 1] = d
        /\ \A i \in 1..n : observed'[i] = observed[i]
    BY <1>0, <2>1
  <2>3. ringIdx = n % Cap /\ ringIdx' = (n + 1) % Cap /\ ringIdx' \in Slots
    <3>1. ringIdx = n % Cap
      BY DEF CollectorInv, NextSlotOfRing
    <3>2. (n + 1) % Cap = ((n % Cap) + 1) % Cap
      BY <1>0, NextSlot
    <3>3. (n + 1) % Cap \in Slots
      <4>1. n + 1 \in Nat
        BY <1>0
      <4> QED
        BY <1>0, <4>1, ModBounds DEF Slots
    <3> QED
      BY <2>1, <3>1, <3>2, <3>3
  <2>4. latencies' \in [Slots -> Nat] /\ ringCount' \in 0 .. Cap
    BY <1>0, <2>1
  <2>5. ASSUME NEW i \in 1..(n + 1), n + 1 - i < Cap
        PROVE  latencies'[(i - 1) % Cap] = observed'[i]
    <3>1. CASE i = n + 1
      <4>1. i - 1 = n
        BY <1>0, <3>1
      <4> QED
        BY <1>0, <2>1, <2>2, <2>3, <3>1, <4>1
    <3>2. CASE i # n + 1
      <4>1. i \in 1..n /\ i - 1 \in Nat /\ i - 1 < n /\ n < (i - 1) + Cap /\ n - i < Cap
        BY <1>0, <2>5, <3>2
      <4>2. (i - 1) % Cap # ringIdx
        BY <1>0, <2>3, <4>1, Distinct
      <4>3. (i - 1) % Cap \in Slots
        BY <1>0, <4>1, ModBounds DEF Slots
      <4>4. latencies[(i - 1) % Cap] = observed[i]
        BY <4>1 DEF CollectorInv, RingIsRecent
      <4>5. latencies'[(i - 1) % Cap] = latencies[(i - 1) % Cap]
        BY <1>0, <2>1, <4>2, <4>3
      <4> QED
        BY <2>2, <4>1, <4>4, <4>5
    <3> QED
      BY <3>1, <3>2
  <2>6. ringCount' = IF n + 1 < Cap THEN n + 1 ELSE Cap
    <3>1. ringCount = IF n < Cap THEN n ELSE Cap
      BY DEF CollectorInv, RingIsRecent
    <3> QED
      BY <1>0, <2>1, <3>1
  <2>7. RingIsRecent'
    BY <2>2, <2>5, <2>6 DEF RingIsRecent
  <2> QED
    BY <2>2, <2>3, <2>4, <2>7 DEF NextSlotOfRing
<1> QED
  BY <1>0, <1>1, <1>2 DEF Wrap, Enter, Serve, CountTotal, CountStatus, RecordError, FlagError,
     SkipLatency, Leave, ring

LEMMA CollectorStep ==
  ASSUME CollectorInv, NEW r \in Requests, Wrap(r)
  PROVE  CollectorInv'
<1>1. /\ pc' \in [Requests -> PC] /\ class' \in [Requests -> Classes]
      /\ lastErr' \in Errors \cup {NoError} /\ hasErr' \in BOOLEAN
  <2>0. /\ pc \in [Requests -> PC] /\ class \in [Requests -> Classes] /\ "ok" \in Classes
        /\ lastErr \in Errors \cup {NoError} /\ hasErr \in BOOLEAN
        /\ pc[r] = "record" => class[r] \in Errors
    BY DEF CollectorInv, CollectorTypeOK, ErrorsCounted, Classes
  <2> USE <2>0 DEF Goto, PC, error
  <2>1. CASE Enter(r) \/ CountTotal(r) \/ CountStatus(r) \/ SkipLatency(r) \/ Leave(r)
    BY <2>1 DEF Enter, CountTotal, CountStatus, SkipLatency, Leave
  <2>2. CASE RecordError(r) \/ FlagError(r)
    BY <2>2 DEF RecordError, FlagError
  <2>3. CASE \E c \in Classes : Serve(r, c)
    BY <2>3 DEF Serve
  <2>4. CASE \E d \in Durations : Observe(r, d)
    BY <2>4 DEF Observe
  <2> QED
    BY <2>1, <2>2, <2>3, <2>4 DEF Wrap
<1> QED
  BY <1>1, CountStep, WrapGrows, ErrorStep, RingStep DEF CollectorInv, CollectorTypeOK
-----------------------------------------------------------------------------
(* P95 *)

\* Finitely many samples have an upper bound.
LEMMA Bounded ==
  ASSUME NEW n \in Nat, NEW f, \A i \in 0 .. n - 1 : f[i] \in Nat
  PROVE  \E b \in Nat : \A i \in 0 .. n - 1 : f[i] <= b
<1> DEFINE Has(m) == \E b \in Nat : \A i \in 0 .. m - 1 : f[i] <= b
           T == {m \in 0 .. n : ~ Has(m)}
<1>1. Has(0)
  OBVIOUS
<1>2. ASSUME NEW m \in 0 .. n, m > 0, Has(m - 1) PROVE Has(m)
  <2>1. PICK b \in Nat : \A i \in 0 .. (m - 1) - 1 : f[i] <= b
    BY <1>2
  <2>2. f[m - 1] \in Nat
    BY <1>2
  <2> DEFINE c == IF f[m - 1] > b THEN f[m - 1] ELSE b
  <2>3. c \in Nat /\ \A i \in 0 .. m - 1 : f[i] <= c
    BY <1>2, <2>1, <2>2
  <2> QED
    BY <2>3
<1> HIDE DEF Has
<1>3. T = {}
  <2> SUFFICES ASSUME T # {} PROVE FALSE
    OBVIOUS
  <2>1. PICK x \in T : \A y \in T : x <= y
    <3>1. T \in SUBSET Nat
      OBVIOUS
    <3> QED
      BY <3>1, Least
  <2>2. x \in 0 .. n /\ ~ Has(x) /\ x # 0
    BY <1>1, <2>1
  <2>3. x - 1 \in 0 .. n /\ ~ (x <= x - 1)
    BY <2>2
  <2>4. Has(x - 1)
    BY <2>1, <2>3
  <2> QED
    BY <1>2, <2>2, <2>4
<1>4. Has(n)
  BY <1>3
<1> QED
  BY <1>4 DEF Has

\* Of n samples there is a k-th smallest.
LEMMA SmallestIs ==
  ASSUME NEW n \in Nat, NEW f, \A i \in 0 .. n - 1 : f[i] \in Nat, NEW k \in 1 .. n
  PROVE  LET I == 0 .. n - 1
             v == Smallest(k, f, I)
         IN /\ v \in {f[i] : i \in I}
            /\ Cardinality({i \in I : f[i] < v}) < k
            /\ Cardinality({i \in I : f[i] <= v}) >= k
<1> DEFINE I == 0 .. n - 1
           Upto(v) == {i \in I : f[i] <= v}
           M == {v \in Nat : Cardinality(Upto(v)) >= k}
<1>1. IsFiniteSet(I) /\ Cardinality(I) = n
  BY FS_Interval
<1>2. \A S \in SUBSET I : IsFiniteSet(S) /\ Cardinality(S) \in Nat
  BY <1>1, FS_Subset, FS_CardinalityType
<1>3. PICK b \in Nat : \A i \in I : f[i] <= b
  BY Bounded
<1>4. b \in M
  <2>1. Upto(b) = I
    BY <1>3
  <2> HIDE DEF Upto, I
  <2>2. Cardinality(Upto(b)) >= k
    BY <1>1, <2>1
  <2> QED
    BY <2>2
<1>5. PICK v \in M : \A w \in M : v <= w
  BY <1>4, Least
<1>6. v \in Nat /\ Cardinality(Upto(v)) >= k
  OBVIOUS
<1>7. Cardinality({i \in I : f[i] < v}) < k
  <2>1. CASE v = 0
    <3>1. {i \in I : f[i] < v} = {}
      BY <2>1
    <3> QED
      BY <3>1, FS_EmptySet
  <2>2. CASE v # 0
    <3>1. v - 1 \in Nat /\ ~ (v <= v - 1)
      BY <1>6, <2>2
    <3>2. {i \in I : f[i] < v} = Upto(v - 1)
      BY <1>6, <3>1
    <3>3. v - 1 \notin M
      BY <1>5, <3>1
    <3>4. Cardinality(Upto(v - 1)) \in Nat
      BY <1>2
    <3>5. ~ (Cardinality(Upto(v - 1)) >= k)
      BY <3>1, <3>3
    <3> HIDE DEF Upto, I, M
    <3> QED
      BY <3>2, <3>4, <3>5
  <2> QED
    BY <2>1, <2>2
<1>8. v \in {f[i] : i \in I}
  <2> SUFFICES ASSUME v \notin {f[i] : i \in I} PROVE FALSE
    OBVIOUS
  <2>1. {i \in I : f[i] < v} = Upto(v)
    BY <1>6
  <2>2. Cardinality(Upto(v)) \in Nat
    BY <1>2
  <2> HIDE DEF Upto, I, M
  <2> QED
    BY <1>6, <1>7, <2>1, <2>2
<1> HIDE DEF M
<1> QED
  BY <1>6, <1>7, <1>8 DEF Smallest

LEMMA P95Type == CollectorTypeOK => P95 \in Nat
<1> SUFFICES ASSUME CollectorTypeOK, ringCount # 0 PROVE P95 \in Nat
  BY DEF P95
<1> DEFINE k == (95 * ringCount + 99) \div 100
<1>1. ringCount \in Nat /\ k \in 1 .. ringCount
  BY DEF CollectorTypeOK
<1>2. \A i \in 0 .. ringCount - 1 : latencies[i] \in Nat
  BY CollectorAssumption DEF CollectorTypeOK, Slots
<1> HIDE DEF k
<1>3. Smallest(k, latencies, 0 .. ringCount - 1) \in {latencies[i] : i \in 0 .. ringCount - 1}
  BY <1>1, <1>2, SmallestIs
<1> QED
  BY <1>2, <1>3 DEF P95, k
-----------------------------------------------------------------------------
(* What the percentile means *)

\* The latest samples with a value in V.
Among(V) == {i \in Latest : observed[i] \in V}

\* The latest samples are as many as the valid slots, and sample number i is in
\* slot (i - 1) % Cap: no slot is taken twice, so none is missed.
LEMMA LatestInSlots ==
  ASSUME CollectorInv
  PROVE  LET slot == [i \in Latest |-> (i - 1) % Cap]
         IN /\ slot \in Bijection(Latest, 0 .. ringCount - 1)
            /\ \A i \in Latest : latencies[slot[i]] = observed[i]
            /\ IsFiniteSet(Latest) /\ Cardinality(Latest) = ringCount
<1> DEFINE slot == [i \in Latest |-> (i - 1) % Cap]
           L == Len(observed)
           I == 0 .. ringCount - 1
<1>1. L \in Nat /\ Cap \in Nat \ {0} /\ ringCount = (IF L < Cap THEN L ELSE Cap)
  BY CollectorAssumption DEF CollectorInv, CollectorTypeOK, RingIsRecent
<1> HIDE DEF L
<1>2. Latest = L - ringCount + 1 .. L
  <2>1. \A i : i \in Latest <=> i \in 1 .. L /\ L - i < Cap
    BY DEF Latest, L
  <2>2. \A i : i \in L - ringCount + 1 .. L <=> i \in 1 .. L /\ L - i < Cap
    BY <1>1
  <2> QED
    BY <2>1, <2>2
<1>3. IsFiniteSet(Latest) /\ Cardinality(Latest) = ringCount
  <2> DEFINE a == L - ringCount + 1
  <2>1. a \in Int /\ L \in Int /\ (a > L => ringCount = 0) /\ (a <= L => L - a + 1 = ringCount)
    BY <1>1
  <2> HIDE DEF a
  <2>2. IsFiniteSet(a .. L) /\ Cardinality(a .. L) = IF a > L THEN 0 ELSE L - a + 1
    BY <2>1, FS_Interval
  <2>3. Cardinality(a .. L) = ringCount
    BY <2>1, <2>2
  <2> QED
    BY <1>2, <2>2, <2>3 DEF a
<1>4. IsFiniteSet(I) /\ Cardinality(I) = ringCount
  BY <1>1, FS_Interval
<1>5. ASSUME NEW i \in Latest PROVE (i - 1) % Cap \in I
  <2>1. i - 1 \in Nat /\ i - 1 < L
    BY <1>1, <1>2
  <2>2. (i - 1) % Cap \in 0 .. Cap - 1
    BY <1>1, <2>1, ModBounds
  <2>3. CASE L < Cap
    <3>1. i - 1 \in 0 .. Cap - 1
      BY <1>1, <2>1, <2>3
    <3>2. (Cap * 0 + (i - 1)) % Cap = i - 1
      BY <1>1, <3>1, Unique
    <3>3. Cap * 0 + (i - 1) = i - 1
      BY <1>1, <2>1
    <3> QED
      BY <1>1, <2>1, <2>3, <3>2, <3>3
  <2> QED
    BY <1>1, <2>2, <2>3
<1>6. ASSUME NEW i \in Latest, NEW j \in Latest, i < j PROVE (i - 1) % Cap # (j - 1) % Cap
  <2>1. i - 1 \in Nat /\ j - 1 \in Nat /\ i - 1 < j - 1 /\ j - 1 < (i - 1) + Cap
    BY <1>1, <1>2, <1>6
  <2> QED
    BY <1>1, <2>1, Distinct
<1>7. slot \in Injection(Latest, I)
  <2>1. slot \in [Latest -> I]
    BY <1>5
  <2>2. ASSUME NEW i \in Latest, NEW j \in Latest, slot[i] = slot[j] PROVE i = j
    <3>1. i \in Int /\ j \in Int
      BY <1>1, <1>2
    <3> QED
      BY <1>6, <2>2, <3>1
  <2> HIDE DEF slot, I
  <2> QED
    BY <2>1, <2>2 DEF Injection, IsInjective
<1>8. slot \in Surjection(Latest, I)
  <2> HIDE DEF slot, I
  <2> QED
    BY <1>3, <1>4, <1>7, FS_Injection
<1>9. \A i \in Latest : latencies[slot[i]] = observed[i]
  BY DEF Latest, CollectorInv, RingIsRecent
<1> HIDE DEF slot, I
<1> QED
  BY <1>3, <1>7, <1>8, <1>9 DEF slot, I, Bijection

\* So a class of values is as frequent in the slots as among the samples.
LEMMA SlotsCount ==
  ASSUME CollectorInv, NEW V
  PROVE  Cardinality({s \in 0 .. ringCount - 1 : latencies[s] \in V}) = Cardinality(Among(V))
<1> DEFINE slot == [i \in Latest |-> (i - 1) % Cap]
           I == 0 .. ringCount - 1
           J == {s \in I : latencies[s] \in V}
           part == [i \in Among(V) |-> slot[i]]
<1> HIDE DEF slot, I
<1>1. /\ slot \in Bijection(Latest, I)
      /\ \A i \in Latest : latencies[slot[i]] = observed[i]
      /\ IsFiniteSet(Latest)
  BY LatestInSlots DEF slot, I
<1>2. /\ slot \in [Latest -> I]
      /\ \A i, j \in Latest : slot[i] = slot[j] => i = j
      /\ \A s \in I : \E i \in Latest : slot[i] = s
  BY <1>1 DEF Bijection, Injection, Surjection, IsInjective
<1>3. Among(V) \subseteq Latest /\ IsFiniteSet(Among(V))
  BY <1>1, FS_Subset DEF Among
<1>4. part \in [Among(V) -> J]
  BY <1>1, <1>2 DEF Among
<1>5. \A i, j \in Among(V) : part[i] = part[j] => i = j
  BY <1>2, <1>3
<1>6. \A s \in J : \E i \in Among(V) : part[i] = s
  <2> TAKE s \in J
  <2>1. PICK i \in Latest : slot[i] = s
    BY <1>2
  <2>2. i \in Among(V)
    BY <1>1, <2>1 DEF Among
  <2> QED
    BY <2>1, <2>2
<1> HIDE DEF part, J
<1>7. part \in Bijection(Among(V), J)
  BY <1>4, <1>5, <1>6 DEF Bijection, Injection, Surjection, IsInjective
<1>8. ExistsBijection(Among(V), J)
  BY <1>7 DEF ExistsBijection
<1>9. Cardinality(J) = Cardinality(Among(V))
  BY <1>3, <1>8, FS_Bijection
<1> QED
  BY <1>9 DEF J, I

LEMMA PercentileIs ==
  ASSUME CollectorInv, observed # <<>>
  PROVE  IsPercentile(P95)
<1> DEFINE n == ringCount
           k == (95 * n + 99) \div 100
           I == 0 .. n - 1
           v == Smallest(k, latencies, I)
           above == Cardinality({i \in I : latencies[i] <= v})
           below == Cardinality({i \in I : latencies[i] < v})
<1>1. n \in Nat /\ n > 0 /\ \A i \in I : latencies[i] \in Nat
  <2>1. /\ observed \in Seq(Nat) /\ Cap \in Nat \ {0} /\ latencies \in [Slots -> Nat]
        /\ ringCount = IF Len(observed) < Cap THEN Len(observed) ELSE Cap
    BY CollectorAssumption DEF CollectorInv, CollectorTypeOK, RingIsRecent
  <2>2. Len(observed) \in Nat /\ Len(observed) > 0
    BY <2>1
  <2> QED
    BY <2>1, <2>2 DEF Slots
<1>2. k \in 1 .. n /\ 100 * k >= 95 * n /\ 100 * (k - 1) < 95 * n
  BY <1>1
<1>3. v = P95
  BY <1>1 DEF P95
<1> HIDE DEF k
<1>4. v \in {latencies[i] : i \in I} /\ below < k /\ above >= k
  BY <1>1, <1>2, SmallestIs
<1> HIDE DEF v
<1>5. {i \in I : latencies[i] <= v} = {i \in I : latencies[i] \in {d \in Nat : d <= v}}
  BY <1>1
<1>6. {i \in I : latencies[i] < v} = {i \in I : latencies[i] \in {d \in Nat : d < v}}
  BY <1>1
<1>7. /\ above = Cardinality({i \in Latest : observed[i] <= v})
      /\ below = Cardinality({i \in Latest : observed[i] < v})
  <2>1. \A i \in Latest : observed[i] \in Nat
    BY DEF Latest, CollectorInv, CollectorTypeOK
  <2>2. /\ Among({d \in Nat : d <= v}) = {i \in Latest : observed[i] <= v}
        /\ Among({d \in Nat : d < v}) = {i \in Latest : observed[i] < v}
    BY <2>1 DEF Among
  <2> QED
    BY <1>5, <1>6, <2>2, SlotsCount
<1>8. IsFiniteSet(I) /\ above \in Nat /\ below \in Nat
  <2>1. IsFiniteSet(I)
    BY <1>1, FS_Interval
  <2>2. \A S \in SUBSET I : Cardinality(S) \in Nat
    BY <2>1, FS_Subset, FS_CardinalityType
  <2>3. {i \in I : latencies[i] <= v} \in SUBSET I /\ {i \in I : latencies[i] < v} \in SUBSET I
    OBVIOUS
  <2> HIDE DEF I
  <2> QED
    BY <2>1, <2>2, <2>3
<1>9. Cardinality(Latest) = n
  BY LatestInSlots
<1>10. \E i \in Latest : observed[i] = v
  <2>1. PICK s \in I : latencies[s] = v
    BY <1>4
  <2> DEFINE slot == [i \in Latest |-> (i - 1) % Cap]
  <2> HIDE DEF slot
  <2>2. slot \in Bijection(Latest, I) /\ \A i \in Latest : latencies[slot[i]] = observed[i]
    BY LatestInSlots DEF slot
  <2>3. PICK i \in Latest : slot[i] = s
    BY <2>2 DEF Bijection, Surjection
  <2> QED
    BY <2>1, <2>2, <2>3
<1> HIDE DEF above, below, I, n
<1>11. 100 * above >= 95 * n /\ 100 * below < 95 * n
  BY <1>1, <1>2, <1>4, <1>8 DEF k
<1> QED
  BY <1>3, <1>7, <1>9, <1>10, <1>11 DEF IsPercentile, n

-----------------------------------------------------------------------------
(* The statistics *)

\* Users come with envelopes and are counted first; what is cached, and what is
\* being counted, only grows.
StatsInv ==
  /\ users \in Nat /\ envelopes \in Nat /\ users <= envelopes
  /\ step \in {"refresh", "count", "assemble"}
  /\ DOMAIN counted = {} \/ (DOMAIN counted = {"users"} /\ step = "count")
  /\ statsCached \in [users : Nat, envelopes : Nat]
  /\ statsCached.users <= users /\ statsCached.envelopes <= envelopes
  /\ statsCached.users <= statsCached.envelopes
  /\ read \in BOOLEAN /\ failures \in Nat
  /\ ~ read => statsCached = Zeros
  /\ "users" \in DOMAIN counted =>
       /\ counted["users"] \in Nat /\ counted["users"] <= users
       /\ statsCached.users <= counted["users"]

LEMMA StatsInitial == Init => StatsInv
<1> SUFFICES ASSUME Init PROVE StatsInv
  OBVIOUS
<1>1. DOMAIN counted = {}
  BY DEF Init, Nothing
<1>2. statsCached = [users |-> 0, envelopes |-> 0]
  BY DEF Init, Zeros
<1>3. users = 0 /\ envelopes = 0 /\ step = "refresh" /\ read = FALSE /\ statsCached = Zeros
  BY DEF Init
<1>4. /\ statsCached \in [users : Nat, envelopes : Nat]
      /\ statsCached.users = 0 /\ statsCached.envelopes = 0
  BY <1>2
<1>5. /\ users \in Nat /\ envelopes \in Nat /\ users <= envelopes
      /\ statsCached.users <= users /\ statsCached.envelopes <= envelopes
      /\ statsCached.users <= statsCached.envelopes
  BY <1>3, <1>4
<1>6. step \in {"refresh", "count", "assemble"} /\ read \in BOOLEAN /\ failures \in Nat
  BY <1>3 DEF Init
<1>7. "users" \notin DOMAIN counted
  BY <1>1
<1> QED
  BY <1>1, <1>3, <1>4, <1>5, <1>6, <1>7, Zenon DEF StatsInv

\* A query counts what is in the table now.
LEMMA CountStatsStep ==
  ASSUME StatsInv, Count
  PROVE  /\ StatsInv'
         /\ statsCached'.users >= statsCached.users
         /\ statsCached'.envelopes >= statsCached.envelopes
<1> DEFINE q == StatsOrder[Cardinality(DOMAIN counted) + 1]
           results == [t \in DOMAIN counted \cup {q} |-> IF t = q THEN Rows(q) ELSE counted[t]]
<1>0. /\ users' = users /\ envelopes' = envelopes /\ failures' = failures /\ step = "count"
      /\ counted' = IF Cardinality(DOMAIN results) = Len(StatsOrder) THEN Nothing ELSE results
      /\ IF Cardinality(DOMAIN results) = Len(StatsOrder)
         THEN /\ statsCached' = [users |-> results["users"], envelopes |-> results["envelopes"]]
              /\ read' = TRUE
              /\ step' = "assemble"
         ELSE statsCached' = statsCached /\ read' = read /\ step' = step
  BY DEF Count, tables
<1>1. Cardinality({"users"}) = 1 /\ Cardinality({"users", "envelopes"}) = 2 /\ Cardinality({}) = 0
  <2>1. {"users"} = {} \cup {"users"} /\ {"users", "envelopes"} = {"users"} \cup {"envelopes"}
    OBVIOUS
  <2>2. IsFiniteSet({}) /\ Cardinality({}) = 0
    BY FS_EmptySet
  <2>3. IsFiniteSet({"users"}) /\ Cardinality({"users"}) = 1
    BY <2>1, <2>2, FS_AddElement
  <2>4. Cardinality({"users", "envelopes"}) = 2
    BY <2>1, <2>3, FS_AddElement
  <2> QED
    BY <2>2, <2>3, <2>4
<1>2. CASE DOMAIN counted = {}
  <2>1. q = "users"
    BY <1>1, <1>2 DEF StatsOrder
  <2>2. DOMAIN results = {"users"} /\ results["users"] = users
    BY <1>2, <2>1 DEF Rows
  <2> HIDE DEF results, q
  <2>3. /\ counted' = results /\ statsCached' = statsCached /\ read' = read /\ step' = "count"
    BY <1>0, <1>1, <2>2 DEF StatsOrder
  <2> QED
    BY <1>0, <2>2, <2>3 DEF StatsInv
<1>3. CASE DOMAIN counted = {"users"}
  <2>1. q = "envelopes"
    BY <1>1, <1>3 DEF StatsOrder
  <2>2. /\ DOMAIN results = {"users", "envelopes"}
        /\ results["users"] = counted["users"] /\ results["envelopes"] = envelopes
    BY <1>3, <2>1 DEF Rows
  <2> HIDE DEF results, q
  <2>3. /\ counted' = Nothing /\ read' = TRUE /\ step' = "assemble"
        /\ statsCached' = [users |-> counted["users"], envelopes |-> envelopes]
    BY <1>0, <1>1, <2>2 DEF StatsOrder
  <2> QED
    BY <1>0, <1>3, <2>3 DEF StatsInv, Nothing
<1> QED
  BY <1>2, <1>3 DEF StatsInv

LEMMA StatsStep ==
  ASSUME StatsInv, [Next]_vars
  PROVE  /\ StatsInv'
         /\ statsCached'.users >= statsCached.users
         /\ statsCached'.envelopes >= statsCached.envelopes
<1> DEFINE Kept == /\ StatsInv'
                   /\ statsCached'.users >= statsCached.users
                   /\ statsCached'.envelopes >= statsCached.envelopes
<1> SUFFICES Kept
  OBVIOUS
<1>1. CASE /\ users' = users /\ envelopes' = envelopes /\ counted' = counted
           /\ statsCached' = statsCached /\ read' = read /\ failures' = failures /\ step' = step
  BY <1>1 DEF StatsInv
<1>2. ASSUME NEW new \in BOOLEAN, StoreRow(new) PROVE Kept
  BY <1>2 DEF StoreRow, panelVars, StatsInv
<1>3. ASSUME NEW next \in {"count", "assemble"}, Refresh(next) PROVE Kept
  BY <1>3 DEF Refresh, tables, StatsInv
<1>4. CASE Count
  BY <1>4, CountStatsStep
<1>5. CASE CountFails
  <2>1. /\ users' = users /\ envelopes' = envelopes /\ counted' = Nothing /\ step' = "assemble"
        /\ statsCached' = statsCached /\ read' \in BOOLEAN /\ (read => read')
    BY <1>5 DEF CountFails, tables, StatsInv
  <2>2. failures' \in Nat
    <3>1. failures \in Nat /\ failures' = failures + 1
      BY <1>5 DEF CountFails, StatsInv
    <3> QED
      BY <3>1
  <2> QED
    BY <2>1, <2>2 DEF StatsInv, Nothing
<1>6. CASE Assemble
  <2>1. /\ users' = users /\ envelopes' = envelopes /\ counted' = counted /\ step = "assemble"
        /\ statsCached' = statsCached /\ read' = read /\ failures' = failures
        /\ step' \in {"assemble", "refresh"}
    BY <1>6 DEF Assemble, tables
  <2> QED
    BY <2>1 DEF StatsInv
<1>7. ASSUME NEW r \in Requests, Traffic(r) PROVE Kept
  BY <1>1, <1>7 DEF Traffic, tables, panelVars
<1>8. CASE UNCHANGED vars
  BY <1>1, <1>8 DEF vars, tables, panelVars
<1> QED
  BY <1>2, <1>3, <1>4, <1>5, <1>6, <1>7, <1>8 DEF Next
-----------------------------------------------------------------------------
(* The frame *)

\* The reads of a frame after n of them.
Reads(n) == {FrameOrder[i] : i \in 1 .. n}

\* What a draft holds was true when it was read and is not too much now.
DraftInv ==
  /\ \E n \in 0 .. 6 : DOMAIN draft = Reads(n)
  /\ step # "assemble" => draft = Nothing
  /\ entered \in Nat
  /\ "hasErr" \in DOMAIN draft => draft["hasErr"] \in BOOLEAN
  /\ "lastErr" \in DOMAIN draft =>
       /\ draft["lastErr"] \in Errors \cup {NoError}
       /\ \A e \in Errors : draft["lastErr"] = e => status[e] > 0
  /\ "inFlight" \in DOMAIN draft =>
       draft["inFlight"] \in Nat /\ entered <= draft["inFlight"] + total
  /\ "total" \in DOMAIN draft =>
       /\ draft["total"] \in Nat /\ draft["total"] <= total
       /\ entered <= draft["inFlight"] + draft["total"]
  /\ \A e \in Errors : e \in DOMAIN draft =>
       /\ draft[e] \in Nat /\ draft[e] <= status[e]
       /\ draft["lastErr"] = e => draft[e] > 0

\* The counters a frame shows: at most those of now and of the draft.
FrameBounded ==
  /\ current.requests.total <= total
  /\ "total" \in DOMAIN draft => current.requests.total <= draft["total"]
  /\ \A e \in Errors :
       /\ current.requests[e] <= status[e]
       /\ e \in DOMAIN draft => current.requests[e] <= draft[e]
  /\ current.storage.users <= statsCached.users
  /\ current.storage.envelopes <= statsCached.envelopes

CurrentInv ==
  current # NoFrame =>
    /\ current \in FrameType
    /\ FrameBounded
    /\ current.requests.inFlight + current.requests.total >= current.entered
    /\ \A e \in Errors : current.requests.lastErr = e => current.requests[e] > 0
    /\ current.storage.users <= current.storage.envelopes

PanelInv == CollectorInv /\ StatsInv /\ DraftInv /\ CurrentInv

LEMMA ReadsAre ==
  /\ Reads(0) = {}
  /\ Reads(1) = {"hasErr"}
  /\ Reads(2) = {"hasErr", "lastErr"}
  /\ Reads(3) = {"hasErr", "lastErr", "inFlight"}
  /\ Reads(4) = {"hasErr", "lastErr", "inFlight", "total"}
  /\ Reads(5) = {"hasErr", "lastErr", "inFlight", "total", "status4xx"}
  /\ Reads(6) = {"hasErr", "lastErr", "inFlight", "total", "status4xx", "status5xx"}
  /\ Reads(7) = {"hasErr", "lastErr", "inFlight", "total", "status4xx", "status5xx", "p95"}
<1>1. /\ FrameOrder[1] = "hasErr" /\ FrameOrder[2] = "lastErr" /\ FrameOrder[3] = "inFlight"
      /\ FrameOrder[4] = "total" /\ FrameOrder[5] = "status4xx"
      /\ FrameOrder[6] = "status5xx" /\ FrameOrder[7] = "p95"
  BY DEF FrameOrder
<1>2. \A n \in Nat : Reads(n + 1) = Reads(n) \cup {FrameOrder[n + 1]}
  <2> SUFFICES ASSUME NEW n \in Nat PROVE Reads(n + 1) = Reads(n) \cup {FrameOrder[n + 1]}
    OBVIOUS
  <2>1. 1 .. (n + 1) = (1 .. n) \cup {n + 1}
    OBVIOUS
  <2> QED
    BY <2>1 DEF Reads
<1>3. Reads(0) = {}
  BY DEF Reads
<1>4. /\ Reads(1) = Reads(0) \cup {"hasErr"} /\ Reads(2) = Reads(1) \cup {"lastErr"}
      /\ Reads(3) = Reads(2) \cup {"inFlight"} /\ Reads(4) = Reads(3) \cup {"total"}
      /\ Reads(5) = Reads(4) \cup {"status4xx"} /\ Reads(6) = Reads(5) \cup {"status5xx"}
      /\ Reads(7) = Reads(6) \cup {"p95"}
  <2>1. /\ Reads(0 + 1) = Reads(0) \cup {FrameOrder[0 + 1]}
        /\ Reads(1 + 1) = Reads(1) \cup {FrameOrder[1 + 1]}
        /\ Reads(2 + 1) = Reads(2) \cup {FrameOrder[2 + 1]}
        /\ Reads(3 + 1) = Reads(3) \cup {FrameOrder[3 + 1]}
        /\ Reads(4 + 1) = Reads(4) \cup {FrameOrder[4 + 1]}
        /\ Reads(5 + 1) = Reads(5) \cup {FrameOrder[5 + 1]}
        /\ Reads(6 + 1) = Reads(6) \cup {FrameOrder[6 + 1]}
    BY <1>2
  <2> QED
    BY <1>1, <2>1
<1> QED
  BY <1>3, <1>4

LEMMA ReadsCount ==
  ASSUME NEW n \in 0 .. 7
  PROVE  Cardinality(Reads(n)) = n
<1>1. Cardinality(Reads(0)) = 0 /\ IsFiniteSet(Reads(0))
  BY ReadsAre, FS_EmptySet
<1>2. Cardinality(Reads(1)) = 1 /\ IsFiniteSet(Reads(1))
  <2>1. Reads(1) = Reads(0) \cup {"hasErr"} /\ "hasErr" \notin Reads(0)
    BY ReadsAre
  <2> QED
    BY <1>1, <2>1, FS_AddElement
<1>3. Cardinality(Reads(2)) = 2 /\ IsFiniteSet(Reads(2))
  <2>1. Reads(2) = Reads(1) \cup {"lastErr"} /\ "lastErr" \notin Reads(1)
    BY ReadsAre
  <2> QED
    BY <1>2, <2>1, FS_AddElement
<1>4. Cardinality(Reads(3)) = 3 /\ IsFiniteSet(Reads(3))
  <2>1. Reads(3) = Reads(2) \cup {"inFlight"} /\ "inFlight" \notin Reads(2)
    BY ReadsAre
  <2> QED
    BY <1>3, <2>1, FS_AddElement
<1>5. Cardinality(Reads(4)) = 4 /\ IsFiniteSet(Reads(4))
  <2>1. Reads(4) = Reads(3) \cup {"total"} /\ "total" \notin Reads(3)
    BY ReadsAre
  <2> QED
    BY <1>4, <2>1, FS_AddElement
<1>6. Cardinality(Reads(5)) = 5 /\ IsFiniteSet(Reads(5))
  <2>1. Reads(5) = Reads(4) \cup {"status4xx"} /\ "status4xx" \notin Reads(4)
    BY ReadsAre
  <2> QED
    BY <1>5, <2>1, FS_AddElement
<1>7. Cardinality(Reads(6)) = 6 /\ IsFiniteSet(Reads(6))
  <2>1. Reads(6) = Reads(5) \cup {"status5xx"} /\ "status5xx" \notin Reads(5)
    BY ReadsAre
  <2> QED
    BY <1>6, <2>1, FS_AddElement
<1>8. Cardinality(Reads(7)) = 7
  <2>1. Reads(7) = Reads(6) \cup {"p95"} /\ "p95" \notin Reads(6)
    BY ReadsAre
  <2> QED
    BY <1>7, <2>1, FS_AddElement
<1> QED
  BY <1>1, <1>2, <1>3, <1>4, <1>5, <1>6, <1>7, <1>8

LEMMA PanelInitial == Init => PanelInv
<1> SUFFICES ASSUME Init PROVE PanelInv
  OBVIOUS
<1>1. CollectorInv
  BY CollectorInitial DEF Init
<1>2. DraftInv
  <2>1. draft = Nothing /\ DOMAIN draft = {} /\ entered = 0 /\ step = "refresh"
    BY DEF Init, Nothing
  <2>2. \E n \in 0 .. 6 : DOMAIN draft = Reads(n)
    BY <2>1, ReadsAre
  <2> QED
    BY <2>1, <2>2 DEF DraftInv
<1>3. CurrentInv
  BY DEF Init, CurrentInv
<1> QED
  BY <1>1, <1>2, <1>3, StatsInitial DEF PanelInv

\* While no frame is built, what one shows stays true as counters grow.
LEMMA FrameKept ==
  ASSUME PanelInv, StatsInv', draft' = draft, current' = current, entered' = entered,
         step' = "assemble" \/ draft = Nothing,
         total' >= total, total' \in Nat, status' \in [Errors -> Nat],
         \A e \in Errors : status'[e] >= status[e],
         statsCached'.users >= statsCached.users, statsCached'.envelopes >= statsCached.envelopes
  PROVE  DraftInv' /\ CurrentInv'
<1>1. /\ total \in Nat /\ \A e \in Errors : status[e] \in Nat /\ status'[e] \in Nat
      /\ statsCached.users \in Nat /\ statsCached.envelopes \in Nat
      /\ statsCached'.users \in Nat /\ statsCached'.envelopes \in Nat
  BY DEF PanelInv, CollectorInv, CollectorTypeOK, StatsInv
<1>2. DraftInv'
  BY <1>1 DEF PanelInv, DraftInv
<1>3. CurrentInv'
  <2> SUFFICES ASSUME current # NoFrame PROVE CurrentInv'
    BY DEF CurrentInv
  <2>1. /\ current \in FrameType /\ FrameBounded /\ CurrentInv
    BY DEF PanelInv, CurrentInv
  <2>2. /\ current.requests.total \in Nat /\ \A e \in Errors : current.requests[e] \in Nat
        /\ current.storage.users \in Nat /\ current.storage.envelopes \in Nat
    BY <2>1 DEF FrameType, Errors
  <2>3. FrameBounded'
    BY <1>1, <2>1, <2>2 DEF FrameBounded
  <2> QED
    BY <2>1, <2>3 DEF CurrentInv
<1> QED
  BY <1>2, <1>3

\* What the n-th read returns, and where it goes.
LEMMA NextRead ==
  ASSUME PanelInv, Assemble
  PROVE  \E n \in 0 .. 6 :
           LET f == FrameOrder[n + 1]
               frame == [g \in Reads(n) \cup {f} |-> IF g = f THEN Value(f) ELSE draft[g]]
           IN /\ DOMAIN draft = Reads(n)
              /\ Reads(n + 1) = Reads(n) \cup {f} /\ f \notin Reads(n)
              /\ IF n = 6
                 THEN /\ current' = [requests |-> frame, storage |-> statsCached, entered |-> entered]
                      /\ draft' = Nothing /\ entered' = 0 /\ step' = "refresh"
                 ELSE /\ draft' = frame /\ current' = current /\ step' = "assemble"
                      /\ entered' = IF f = "inFlight" THEN Begun ELSE entered
<1>1. PICK n \in 0 .. 6 : DOMAIN draft = Reads(n)
  BY DEF PanelInv, DraftInv
<1> DEFINE f == FrameOrder[n + 1]
           frame == [g \in DOMAIN draft \cup {f} |-> IF g = f THEN Value(f) ELSE draft[g]]
<1>2. Cardinality(DOMAIN draft) = n
  BY <1>1, ReadsCount
<1>3. Reads(n + 1) = Reads(n) \cup {f}
  <2>1. 1 .. (n + 1) = (1 .. n) \cup {n + 1}
    OBVIOUS
  <2> QED
    BY <2>1 DEF Reads
<1>4. Cardinality(DOMAIN frame) = n + 1
  <2>1. n + 1 \in 0 .. 7 /\ DOMAIN frame = Reads(n + 1)
    BY <1>1, <1>3
  <2> HIDE DEF frame
  <2> QED
    BY <2>1, ReadsCount
<1>5. f \notin Reads(n)
  <2>1. f \in Reads(n) => Reads(n + 1) = Reads(n)
    BY <1>3
  <2>2. Cardinality(Reads(n + 1)) = n + 1 /\ Cardinality(Reads(n)) = n
    BY ReadsCount
  <2>3. n + 1 # n
    OBVIOUS
  <2> HIDE DEF f
  <2> QED
    BY <2>1, <2>2, <2>3
<1>6. Len(FrameOrder) = 7
  BY DEF FrameOrder
<1>7. IF n = 6
      THEN /\ current' = [requests |-> frame, storage |-> statsCached, entered |-> entered]
           /\ draft' = Nothing /\ entered' = 0 /\ step' = "refresh"
      ELSE /\ draft' = frame /\ current' = current /\ step' = "assemble"
           /\ entered' = IF f = "inFlight" THEN Begun ELSE entered
  <2>1. /\ step = "assemble"
        /\ IF Cardinality(DOMAIN frame) = Len(FrameOrder)
           THEN /\ current' = [requests |-> frame, storage |-> statsCached, entered |-> entered]
                /\ draft' = Nothing /\ entered' = 0 /\ step' = "refresh"
           ELSE /\ draft' = frame
                /\ entered' = IF f = "inFlight" THEN Begun ELSE entered
                /\ current' = current /\ step' = step
    BY <1>2 DEF Assemble
  <2>2. n + 1 = 7 <=> n = 6
    OBVIOUS
  <2> HIDE DEF frame, f
  <2> QED
    BY <1>4, <1>6, <2>1, <2>2
<1> QED
  BY <1>1, <1>3, <1>5, <1>7

\* Everyone who has begun is in flight or counted as completed.
LEMMA BegunShown == CollectorInv => Begun \in Nat /\ Begun <= inFlight + total
<1> SUFFICES ASSUME CollectorInv PROVE Begun \in Nat /\ Begun <= inFlight + total
  OBVIOUS
<1> DEFINE Started == {r \in Requests : pc[r] # "before"}
<1>1. Started \subseteq Active \cup Completed
  BY DEF CollectorInv, CollectorTypeOK, PC, Active, Completed, Phase, InService, Past
<1>2. /\ IsFiniteSet(Active) /\ Cardinality(Active) = inFlight /\ inFlight \in Nat
      /\ IsFiniteSet(Completed) /\ Cardinality(Completed) = total /\ total \in Nat
  BY PhaseFinite DEF CollectorInv, CollectorTypeOK, CountersAgree, Active, Completed
<1> HIDE DEF Started
<1>3. /\ IsFiniteSet(Active \cup Completed)
      /\ Cardinality(Active \cup Completed) = inFlight + total - Cardinality(Active \cap Completed)
  BY <1>2, FS_Union
<1>4. Cardinality(Active \cap Completed) \in Nat
  BY <1>2, FS_Subset, FS_CardinalityType
<1>5. Cardinality(Started) \in Nat /\ Cardinality(Started) <= Cardinality(Active \cup Completed)
  BY <1>1, <1>3, FS_Subset, FS_CardinalityType
<1>6. Begun = Cardinality(Started)
  BY DEF Begun, Started
<1> QED
  BY <1>2, <1>3, <1>4, <1>5, <1>6

LEMMA Values ==
  /\ Value("hasErr") = hasErr
  /\ Value("lastErr") = IF draft["hasErr"] THEN lastErr ELSE NoError
  /\ Value("inFlight") = inFlight
  /\ Value("total") = total
  /\ Value("status4xx") = status["status4xx"]
  /\ Value("status5xx") = status["status5xx"]
  /\ Value("p95") = P95
BY DEF Value, Errors

\* What the counters give a read.
LEMMA CounterFacts ==
  ASSUME PanelInv
  PROVE  /\ hasErr \in BOOLEAN /\ lastErr \in Errors \cup {NoError}
         /\ inFlight \in Nat /\ total \in Nat /\ Begun \in Nat /\ Begun <= inFlight + total
         /\ \A e \in Errors : status[e] \in Nat
         /\ \A e \in Errors : lastErr = e => status[e] > 0
         /\ NoError \notin Errors /\ P95 \in Nat
         /\ "status4xx" \in Errors /\ "status5xx" \in Errors
BY BegunShown, P95Type, CollectorAssumption
   DEF PanelInv, CollectorInv, CollectorTypeOK, ErrorsCounted, Errors

\* A read that is not the last adds to the draft what is true now.
LEMMA ReadStep ==
  ASSUME PanelInv, NEW n \in 0 .. 5,
         DOMAIN draft = Reads(n),
         Reads(n + 1) = Reads(n) \cup {FrameOrder[n + 1]}, FrameOrder[n + 1] \notin Reads(n),
         draft' = [g \in Reads(n) \cup {FrameOrder[n + 1]} |->
                     IF g = FrameOrder[n + 1] THEN Value(FrameOrder[n + 1]) ELSE draft[g]],
         entered' = IF FrameOrder[n + 1] = "inFlight" THEN Begun ELSE entered,
         step' = "assemble",
         current' = current, statsCached' = statsCached, total' = total, status' = status
  PROVE  DraftInv'
<1> DEFINE f == FrameOrder[n + 1]
<1>1. /\ DOMAIN draft' = Reads(n + 1) /\ draft'[f] = Value(f)
      /\ \A g \in Reads(n) : draft'[g] = draft[g]
      /\ entered' = IF f = "inFlight" THEN Begun ELSE entered
  OBVIOUS
<1>2. /\ FrameOrder[1] = "hasErr" /\ FrameOrder[2] = "lastErr" /\ FrameOrder[3] = "inFlight"
      /\ FrameOrder[4] = "total" /\ FrameOrder[5] = "status4xx" /\ FrameOrder[6] = "status5xx"
  BY DEF FrameOrder
<1>3. DraftInv
  BY DEF PanelInv
<1>4. n + 1 \in 0 .. 6 /\ \E m \in 0 .. 6 : DOMAIN draft' = Reads(m)
  BY <1>1
<1> HIDE DEF f
<1>5. CASE n = 0
  <2>1. f = "hasErr"
    BY <1>2, <1>5 DEF f
  <2> QED
    BY <1>1, <1>3, <1>4, <1>5, <2>1, CounterFacts, ReadsAre, Values DEF DraftInv, Errors
<1>6. CASE n = 1
  <2>1. f = "lastErr"
    BY <1>2, <1>6 DEF f
  <2> QED
    BY <1>1, <1>3, <1>4, <1>6, <2>1, CounterFacts, ReadsAre, Values DEF DraftInv, Errors
<1>7. CASE n = 2
  <2>1. f = "inFlight"
    BY <1>2, <1>7 DEF f
  <2> QED
    BY <1>1, <1>3, <1>4, <1>7, <2>1, CounterFacts, ReadsAre, Values DEF DraftInv, Errors
<1>8. CASE n = 3
  <2>1. f = "total"
    BY <1>2, <1>8 DEF f
  <2> QED
    BY <1>1, <1>3, <1>4, <1>8, <2>1, CounterFacts, ReadsAre, Values DEF DraftInv, Errors
<1>9. CASE n = 4
  <2>1. f = "status4xx"
    BY <1>2, <1>9 DEF f
  <2> QED
    BY <1>1, <1>3, <1>4, <1>9, <2>1, CounterFacts, ReadsAre, Values DEF DraftInv, Errors
<1>10. CASE n = 5
  <2>1. f = "status5xx"
    BY <1>2, <1>10 DEF f
  <2> QED
    BY <1>1, <1>3, <1>4, <1>10, <2>1, CounterFacts, ReadsAre, Values DEF DraftInv, Errors
<1> QED
  BY <1>5, <1>6, <1>7, <1>8, <1>9, <1>10

\* What is read is not less than what the frame shown before holds.
LEMMA ReadBounded ==
  ASSUME PanelInv, NEW n \in 0 .. 5,
         DOMAIN draft = Reads(n),
         Reads(n + 1) = Reads(n) \cup {FrameOrder[n + 1]}, FrameOrder[n + 1] \notin Reads(n),
         draft' = [g \in Reads(n) \cup {FrameOrder[n + 1]} |->
                     IF g = FrameOrder[n + 1] THEN Value(FrameOrder[n + 1]) ELSE draft[g]],
         current' = current, statsCached' = statsCached, total' = total, status' = status
  PROVE  CurrentInv'
<1> SUFFICES ASSUME current # NoFrame PROVE CurrentInv'
  BY DEF CurrentInv
<1> DEFINE f == FrameOrder[n + 1]
<1>1. /\ DOMAIN draft' = Reads(n) \cup {f} /\ draft'[f] = Value(f)
      /\ \A g \in Reads(n) : draft'[g] = draft[g]
  OBVIOUS
<1> HIDE DEF f
<1>2. CurrentInv /\ FrameBounded
  BY DEF PanelInv, CurrentInv
<1>3. "total" \in DOMAIN draft' => current.requests.total <= draft'["total"]
  <2>1. CASE f = "total"
    BY <1>1, <1>2, <2>1, Values DEF FrameBounded
  <2>2. CASE f # "total"
    BY <1>1, <1>2, <2>2 DEF FrameBounded
  <2> QED
    BY <2>1, <2>2
<1>4. ASSUME NEW e \in Errors, e \in DOMAIN draft' PROVE current.requests[e] <= draft'[e]
  <2>1. CASE f = e
    <3>1. draft'[e] = status[e]
      BY <1>1, <2>1, Values DEF Errors
    <3> QED
      BY <1>2, <3>1 DEF FrameBounded
  <2>2. CASE f # e
    <3>1. e \in DOMAIN draft /\ draft'[e] = draft[e]
      BY <1>1, <1>4, <2>2
    <3> QED
      BY <1>2, <3>1 DEF FrameBounded
  <2> QED
    BY <2>1, <2>2
<1>5. FrameBounded'
  BY <1>2, <1>3, <1>4 DEF FrameBounded
<1> QED
  BY <1>2, <1>5 DEF CurrentInv

\* The frame new holds at least what the frame old held.
NotLess(old, new) ==
  /\ new.storage.users >= old.storage.users
  /\ new.storage.envelopes >= old.storage.envelopes
  /\ new.requests.total >= old.requests.total
  /\ \A e \in Errors : new.requests[e] >= old.requests[e]

\* The last read: the draft becomes the frame shown.
LEMMA PublishStep ==
  ASSUME PanelInv, DOMAIN draft = Reads(6), NEW requests,
         requests = [g \in Reads(6) \cup {"p95"} |-> IF g = "p95" THEN P95 ELSE draft[g]],
         current' = [requests |-> requests, storage |-> statsCached, entered |-> entered],
         draft' = Nothing, entered' = 0, step' = "refresh",
         statsCached' = statsCached, total' = total, status' = status
  PROVE  DraftInv' /\ CurrentInv' /\ (current # NoFrame => NotLess(current, current'))
<1>1. DraftInv'
  <2>1. DOMAIN draft' = {} /\ DOMAIN draft' = Reads(0)
    BY ReadsAre DEF Nothing
  <2>2. \E m \in 0 .. 6 : DOMAIN draft' = Reads(m)
    BY <2>1
  <2> QED
    BY <2>1, <2>2 DEF DraftInv, Errors
<1>2. /\ DOMAIN requests = {"hasErr", "lastErr", "inFlight", "total", "status4xx", "status5xx", "p95"}
      /\ requests["p95"] = P95 /\ requests["hasErr"] = draft["hasErr"]
      /\ requests["lastErr"] = draft["lastErr"] /\ requests["inFlight"] = draft["inFlight"]
      /\ requests["total"] = draft["total"] /\ requests["status4xx"] = draft["status4xx"]
      /\ requests["status5xx"] = draft["status5xx"]
  BY ReadsAre
<1>3. /\ draft["hasErr"] \in BOOLEAN /\ draft["lastErr"] \in Errors \cup {NoError}
      /\ draft["inFlight"] \in Nat /\ draft["total"] \in Nat /\ draft["total"] <= total
      /\ entered \in Nat /\ entered <= draft["inFlight"] + draft["total"]
      /\ \A e \in Errors : draft[e] \in Nat /\ draft[e] <= status[e]
      /\ \A e \in Errors : draft["lastErr"] = e => draft[e] > 0
  BY ReadsAre DEF PanelInv, DraftInv, Errors
<1>4. statsCached \in [users : Nat, envelopes : Nat] /\ statsCached.users <= statsCached.envelopes
  BY DEF PanelInv, StatsInv
<1>5. P95 \in Nat
  BY CounterFacts
<1>6. requests \in [hasErr : BOOLEAN, lastErr : Errors \cup {NoError}, inFlight : Nat, total : Nat,
                    status4xx : Nat, status5xx : Nat, p95 : Nat]
  BY <1>2, <1>3, <1>5 DEF Errors
<1>7. /\ current'.requests = requests /\ current'.storage = statsCached /\ current'.entered = entered
  OBVIOUS
<1>8. current' \in FrameType
  BY <1>3, <1>4, <1>6 DEF FrameType
<1>9. FrameBounded'
  <2>1. DOMAIN draft' = {}
    BY DEF Nothing
  <2>2. \A e \in Errors : requests[e] <= status[e]
    BY <1>2, <1>3 DEF Errors
  <2>3. requests.total <= total
    BY <1>2, <1>3
  <2>4. /\ statsCached.users <= statsCached.users /\ statsCached.envelopes <= statsCached.envelopes
    BY <1>4
  <2>5. "total" \notin DOMAIN draft' /\ \A e \in Errors : e \notin DOMAIN draft'
    BY <2>1
  <2>6. /\ current'.requests.total <= total'
        /\ \A e \in Errors : current'.requests[e] <= status'[e]
        /\ current'.storage.users <= statsCached'.users
        /\ current'.storage.envelopes <= statsCached'.envelopes
    BY <1>7, <2>2, <2>3, <2>4
  <2> HIDE DEF Errors
  <2> QED
    BY <2>5, <2>6 DEF FrameBounded
<1>10. CurrentInv'
  <2>1. \A e \in Errors : requests["lastErr"] = e => requests[e] > 0
    BY <1>2, <1>3 DEF Errors
  <2> QED
    BY <1>2, <1>3, <1>4, <1>7, <1>8, <1>9, <2>1 DEF CurrentInv
<1>11. current # NoFrame => NotLess(current, current')
  <2> SUFFICES ASSUME current # NoFrame PROVE NotLess(current, current')
    OBVIOUS
  <2>1. FrameBounded /\ current \in FrameType
    BY DEF PanelInv, CurrentInv
  <2>2. /\ current.requests.total <= draft["total"]
        /\ \A e \in Errors : current.requests[e] <= draft[e] /\ current.requests[e] \in Nat
        /\ current.storage.users <= statsCached.users /\ current.storage.users \in Nat
        /\ current.storage.envelopes <= statsCached.envelopes /\ current.storage.envelopes \in Nat
        /\ current.requests.total \in Nat
    BY <2>1, ReadsAre DEF FrameBounded, FrameType, Errors
  <2>3. \A e \in Errors : requests[e] = draft[e]
    BY <1>2 DEF Errors
  <2> QED
    BY <1>2, <1>3, <1>4, <1>7, <2>2, <2>3 DEF NotLess
<1> QED
  BY <1>1, <1>10, <1>11

LEMMA AssembleStep ==
  ASSUME PanelInv, Assemble
  PROVE  DraftInv' /\ CurrentInv' /\ (current # NoFrame => current' = current \/ NotLess(current, current'))
<1>1. PICK n \in 0 .. 6 :
           LET f == FrameOrder[n + 1]
               frame == [g \in Reads(n) \cup {f} |-> IF g = f THEN Value(f) ELSE draft[g]]
           IN /\ DOMAIN draft = Reads(n)
              /\ Reads(n + 1) = Reads(n) \cup {f} /\ f \notin Reads(n)
              /\ IF n = 6
                 THEN /\ current' = [requests |-> frame, storage |-> statsCached, entered |-> entered]
                      /\ draft' = Nothing /\ entered' = 0 /\ step' = "refresh"
                 ELSE /\ draft' = frame /\ current' = current /\ step' = "assemble"
                      /\ entered' = IF f = "inFlight" THEN Begun ELSE entered
  BY NextRead
<1>2. statsCached' = statsCached /\ total' = total /\ status' = status
  BY DEF Assemble, collectorVars, counters
<1>3. CASE n = 6
  <2> DEFINE requests == [g \in Reads(6) \cup {"p95"} |-> IF g = "p95" THEN P95 ELSE draft[g]]
  <2>1. FrameOrder[6 + 1] = "p95"
    BY DEF FrameOrder
  <2>2. /\ DOMAIN draft = Reads(6)
        /\ current' = [requests |-> requests, storage |-> statsCached, entered |-> entered]
        /\ draft' = Nothing /\ entered' = 0 /\ step' = "refresh"
    BY <1>1, <1>3, <2>1, Values
  <2> HIDE DEF requests
  <2>3. requests = [g \in Reads(6) \cup {"p95"} |-> IF g = "p95" THEN P95 ELSE draft[g]]
    BY DEF requests
  <2> QED
    BY <1>2, <2>2, <2>3, PublishStep
<1>4. CASE n # 6
  <2>1. n \in 0 .. 5
    BY <1>4
  <2>2. /\ DOMAIN draft = Reads(n)
        /\ Reads(n + 1) = Reads(n) \cup {FrameOrder[n + 1]} /\ FrameOrder[n + 1] \notin Reads(n)
        /\ draft' = [g \in Reads(n) \cup {FrameOrder[n + 1]} |->
                       IF g = FrameOrder[n + 1] THEN Value(FrameOrder[n + 1]) ELSE draft[g]]
        /\ entered' = IF FrameOrder[n + 1] = "inFlight" THEN Begun ELSE entered
        /\ step' = "assemble" /\ current' = current
    BY <1>1, <1>4
  <2>3. DraftInv'
    BY <1>2, <2>1, <2>2, ReadStep
  <2>4. CurrentInv'
    BY <1>2, <2>1, <2>2, ReadBounded
  <2> QED
    BY <2>2, <2>3, <2>4
<1> QED
  BY <1>3, <1>4

LEMMA PanelStep ==
  ASSUME PanelInv, [Next]_vars
  PROVE  PanelInv' /\ (current # NoFrame => current' = current \/ NotLess(current, current'))
<1> DEFINE Kept == PanelInv' /\ (current # NoFrame => current' = current \/ NotLess(current, current'))
<1> SUFFICES Kept
  OBVIOUS
<1>1. /\ StatsInv'
      /\ statsCached'.users >= statsCached.users /\ statsCached'.envelopes >= statsCached.envelopes
  BY StatsStep DEF PanelInv
<1>2. ASSUME UNCHANGED collectorVars PROVE CollectorInv'
  BY <1>2 DEF PanelInv, CollectorInv, CollectorTypeOK, CountersAgree, Active, Completed, Phase,
     ErrorsCounted, NextSlotOfRing, RingIsRecent, collectorVars, counters, error, ring
<1>3. /\ total \in Nat /\ status \in [Errors -> Nat]
      /\ total >= total /\ \A e \in Errors : status[e] >= status[e]
  BY DEF PanelInv, CollectorInv, CollectorTypeOK
<1>4. ASSUME UNCHANGED collectorVars, UNCHANGED <<draft, current, entered>>,
             step' = "assemble" \/ step # "assemble"
      PROVE  Kept
  <2>1. total' = total /\ status' = status /\ (step' = "assemble" \/ draft = Nothing)
    BY <1>4 DEF PanelInv, DraftInv, collectorVars, counters
  <2>2. DraftInv' /\ CurrentInv'
    BY <1>1, <1>3, <1>4, <2>1, FrameKept
  <2> QED
    BY <1>1, <1>2, <1>4, <2>2 DEF PanelInv
<1>5. ASSUME NEW r \in Requests, Traffic(r) PROVE Kept
  <2>1. Wrap(r) /\ CollectorInv
    BY <1>5 DEF Traffic, PanelInv
  <2>2. CollectorInv' /\ total' \in {total, total + 1} /\ status' \in [Errors -> Nat]
        /\ \A e \in Errors : status'[e] >= status[e]
    BY <2>1, CollectorStep, WrapGrows
  <2>3. /\ draft' = draft /\ current' = current /\ entered' = entered /\ step' = step
    BY <1>5 DEF Traffic, panelVars
  <2>4. total' >= total /\ total' \in Nat /\ (step' = "assemble" \/ draft = Nothing)
    BY <1>3, <2>2, <2>3 DEF PanelInv, DraftInv
  <2>5. DraftInv' /\ CurrentInv'
    BY <1>1, <2>2, <2>3, <2>4, FrameKept
  <2> QED
    BY <1>1, <2>2, <2>3, <2>5 DEF PanelInv
<1>6. ASSUME NEW new \in BOOLEAN, StoreRow(new) PROVE Kept
  BY <1>4, <1>6 DEF StoreRow, panelVars
<1>7. ASSUME NEW next \in {"count", "assemble"}, Refresh(next) PROVE Kept
  BY <1>4, <1>7 DEF Refresh
<1>8. CASE Count
  <2>1. step = "count" /\ UNCHANGED <<collectorVars, draft, current, entered>>
    BY <1>8 DEF Count
  <2> QED
    BY <1>4, <2>1
<1>9. CASE CountFails
  BY <1>4, <1>9 DEF CountFails
<1>10. CASE Assemble
  <2>1. UNCHANGED collectorVars
    BY <1>10 DEF Assemble
  <2>2. CollectorInv'
    BY <1>2, <2>1
  <2> QED
    BY <1>1, <1>10, <2>2, AssembleStep DEF PanelInv
<1>11. CASE UNCHANGED vars
  BY <1>4, <1>11 DEF vars, panelVars
<1> QED
  BY <1>5, <1>6, <1>7, <1>8, <1>9, <1>10, <1>11 DEF Next

LEMMA PanelAlways == Spec => []PanelInv
<1>1. PanelInv /\ [Next]_vars => PanelInv'
  BY PanelStep
<1> QED
  BY PanelInitial, <1>1, PTL DEF Spec
-----------------------------------------------------------------------------
(* Theorems *)

\* Types, of the counters and of all that the snapshot goroutine keeps: what
\* the frame in the making holds is always a prefix of the reads.
THEOREM PanelTypeCorrect == Spec => []TypeOK
<1>1. PanelInv => TypeOK
  <2> SUFFICES ASSUME PanelInv PROVE TypeOK
    OBVIOUS
  <2>1. DOMAIN draft = {FrameOrder[i] : i \in 1 .. Cardinality(DOMAIN draft)}
    <3>1. PICK n \in 0 .. 6 : DOMAIN draft = Reads(n)
      BY DEF PanelInv, DraftInv
    <3>2. Cardinality(DOMAIN draft) = n
      BY <3>1, ReadsCount
    <3> QED
      BY <3>1, <3>2 DEF Reads
  <2>2. DOMAIN counted \subseteq {"users", "envelopes"}
    BY DEF PanelInv, StatsInv
  <2>3. current = NoFrame \/ current \in FrameType
    BY DEF PanelInv, CurrentInv
  <2>4. CollectorTypeOK /\ StatsInv /\ DraftInv
    BY DEF PanelInv, CollectorInv
  <2>5. /\ users \in Nat /\ envelopes \in Nat /\ step \in {"refresh", "count", "assemble"}
        /\ statsCached \in [users : Nat, envelopes : Nat] /\ read \in BOOLEAN /\ failures \in Nat
    BY <2>4 DEF StatsInv
  <2>6. (step # "assemble" => draft = Nothing) /\ entered \in Nat
    BY <2>4 DEF DraftInv
  <2> QED
    BY <2>1, <2>2, <2>3, <2>4, <2>5, <2>6 DEF TypeOK
<1> QED
  BY <1>1, PanelAlways, PTL

\* Whatever the size of the ring and the order in which requests end, the ring
\* of observeLatency holds the latest samples and no other.
THEOREM RingCorrect == Spec => []RingIsRecent
<1>1. PanelInv => RingIsRecent
  BY DEF PanelInv, CollectorInv
<1> QED
  BY <1>1, PanelAlways, PTL

\* The percentile the panel shows is one of the samples it is taken of: those
\* that ended last, as many as the ring holds.  At least 95 in 100 of them are
\* no longer and fewer than 95 in 100 are shorter, whatever the size of the ring
\* and however often it has wrapped, though P95 sorts slots and not samples.
THEOREM PercentileCorrect == Spec => [](observed # <<>> => IsPercentile(P95))
<1>1. PanelInv => (observed # <<>> => IsPercentile(P95))
  BY PercentileIs DEF PanelInv
<1> QED
  BY <1>1, PanelAlways, PTL

\* However many requests run while a frame is put together, none that had begun
\* when its in_flight was read is missing from it.
THEOREM ShownCorrect == Spec => []EveryRequestShown
<1>1. PanelInv => EveryRequestShown
  BY DEF PanelInv, CurrentInv, EveryRequestShown
<1> QED
  BY <1>1, PanelAlways, PTL

\* A frame that shows a last error shows its class counted.
THEOREM CountedCorrect == Spec => []ErrorIsCounted
<1>1. PanelInv => ErrorIsCounted
  BY DEF PanelInv, CurrentInv, ErrorIsCounted
<1> QED
  BY <1>1, PanelAlways, PTL

\* A frame has no more users than envelopes, whatever was stored between the
\* two queries, and whichever failed.
THEOREM RowsCorrect == Spec => []RowsCoverUsers
<1>1. PanelInv => RowsCoverUsers
  BY DEF PanelInv, CurrentInv, RowsCoverUsers
<1> QED
  BY <1>1, PanelAlways, PTL

\* No frame takes back what an earlier one showed.
THEOREM ForgetsNothing == Spec => NeverForgets
<1> DEFINE Step == current # NoFrame => NotLess(current, current')
<1>1. ASSUME PanelInv, [Next]_vars PROVE [Step]_current
  BY <1>1, PanelStep
<1>2. [Step]_current =>
        [current # NoFrame =>
           /\ current'.storage.users >= current.storage.users
           /\ current'.storage.envelopes >= current.storage.envelopes
           /\ current'.requests.total >= current.requests.total
           /\ \A e \in Errors : current'.requests[e] >= current.requests[e]]_current
  BY DEF NotLess
<1> QED
  BY <1>1, <1>2, PanelAlways, PTL DEF Spec, NeverForgets
=============================================================================
