--------------------------- MODULE LivePullProofs ---------------------------
(***************************************************************************)
(* Theorems about live pull, for any users, devices, concurrent requests   *)
(* and pushes, page size and batch size.                                   *)
(***************************************************************************)
EXTENDS LivePull, TLAPS, FiniteSetTheorems

(* The abstract log, for any users, keys and batch size. *)

\* One committed transaction, seen from the rows: each row it stores takes a
\* number of its own above the old counter, the others keep theirs.
LEMMA StampFacts ==
  ASSUME LogTypeOK, NEW u \in Users, NEW n \in Nat, NEW W \in SUBSET Keys,
         NEW pos \in Positions(W, n), Stamp(u, n, pos)
  PROVE  /\ LogTypeOK'
         /\ nextSeq'[u] = nextSeq[u] + n
         /\ \A v \in Users : v # u => nextSeq'[v] = nextSeq[v] /\ seqOf'[v] = seqOf[v]
         /\ DOMAIN pos = W
         /\ \A k \in Keys \ W : seqOf'[u][k] = seqOf[u][k]
         /\ \A k \in W : seqOf'[u][k] = nextSeq[u] + pos[k] /\ pos[k] \in 1..n
         /\ \A j, k \in W : j # k => pos[j] # pos[k]
<1>1. pos \in [W -> 1..n] /\ \A j, k \in W : j # k => pos[j] # pos[k]
  BY DEF Positions
<1>2. nextSeq \in [Users -> Nat] /\ seqOf \in [Users -> [Keys -> Nat]]
  BY DEF LogTypeOK
<1>3. nextSeq' \in [Users -> Nat] /\ nextSeq'[u] = nextSeq[u] + n
      /\ \A v \in Users : v # u => nextSeq'[v] = nextSeq[v]
  BY <1>2 DEF Stamp
<1> DEFINE new == [k \in Keys |-> IF k \in DOMAIN pos THEN nextSeq[u] + pos[k] ELSE seqOf[u][k]]
<1>4. new \in [Keys -> Nat]
  <2>1. \A k \in W : nextSeq[u] + pos[k] \in Nat
    BY <1>1, <1>2
  <2>2. DOMAIN pos = W
    BY <1>1
  <2> QED
    BY <1>2, <2>1, <2>2
<1>5. seqOf' = [seqOf EXCEPT ![u] = new]
  BY DEF Stamp
<1>6. seqOf' \in [Users -> [Keys -> Nat]] /\ seqOf'[u] = new
      /\ \A v \in Users : v # u => seqOf'[v] = seqOf[v]
  <2> HIDE DEF new
  <2> QED
    BY <1>2, <1>4, <1>5
<1> QED
  BY <1>1, <1>3, <1>6 DEF LogTypeOK

LEMMA StampDistinct ==
  ASSUME LogTypeOK, SeqsDistinct, NEW u \in Users, NEW n \in Nat, NEW W \in SUBSET Keys,
         NEW pos \in Positions(W, n), Stamp(u, n, pos)
  PROVE  SeqsDistinct'
<1> SUFFICES ASSUME NEW v \in Users, NEW j \in Keys, NEW k \in Keys
             PROVE  /\ seqOf'[v][k] <= nextSeq'[v]
                    /\ j # k /\ seqOf'[v][k] > 0 => seqOf'[v][j] # seqOf'[v][k]
  BY DEF SeqsDistinct
<1>1. /\ seqOf[v][k] \in Nat /\ seqOf[v][j] \in Nat /\ nextSeq[v] \in Nat
      /\ seqOf[v][k] <= nextSeq[v] /\ seqOf[v][j] <= nextSeq[v]
      /\ j # k /\ seqOf[v][k] > 0 => seqOf[v][j] # seqOf[v][k]
  BY DEF LogTypeOK, SeqsDistinct
<1>2. CASE v # u
  BY <1>1, <1>2, StampFacts
<1>3. CASE v = u
  <2>1. /\ k \notin W => seqOf'[u][k] = seqOf[u][k]
        /\ j \notin W => seqOf'[u][j] = seqOf[u][j]
        /\ k \in W => seqOf'[u][k] = nextSeq[u] + pos[k] /\ pos[k] \in 1..n
        /\ j \in W => seqOf'[u][j] = nextSeq[u] + pos[j] /\ pos[j] \in 1..n
        /\ j \in W /\ k \in W /\ j # k => pos[j] # pos[k]
        /\ nextSeq'[u] = nextSeq[u] + n
    BY StampFacts
  <2> QED
    BY <1>1, <1>3, <2>1
<1> QED
  BY <1>2, <1>3

\* Numbers only grow, and a row that moves passes the counter.
LEMMA StampGrows ==
  ASSUME LogTypeOK, SeqsDistinct, NEW u \in Users, NEW n \in Nat, NEW W \in SUBSET Keys,
         NEW pos \in Positions(W, n), Stamp(u, n, pos),
         NEW v \in Users, NEW k \in Keys
  PROVE  /\ seqOf[v][k] <= seqOf'[v][k]
         /\ seqOf'[v][k] # seqOf[v][k] => seqOf'[v][k] > nextSeq[v]
<1>1. nextSeq[v] \in Nat /\ seqOf[v][k] \in Nat /\ seqOf[v][k] <= nextSeq[v]
  BY DEF LogTypeOK, SeqsDistinct
<1>2. CASE v # u
  BY <1>1, <1>2, StampFacts
<1>3. CASE v = u
  <2>1. /\ k \notin W => seqOf'[u][k] = seqOf[u][k]
        /\ k \in W => seqOf'[u][k] = nextSeq[u] + pos[k] /\ pos[k] \in 1..n
    BY StampFacts
  <2> QED
    BY <1>1, <1>3, <2>1
<1> QED
  BY <1>2, <1>3

\* Counters only grow.
LEMMA StampCounts ==
  ASSUME LogTypeOK, NEW u \in Users, NEW n \in Nat, NEW W \in SUBSET Keys,
         NEW pos \in Positions(W, n), Stamp(u, n, pos), NEW v \in Users
  PROVE  nextSeq[v] \in Nat /\ nextSeq'[v] \in Nat /\ nextSeq[v] <= nextSeq'[v]
<1>1. nextSeq[v] \in Nat
  BY DEF LogTypeOK
<1>2. nextSeq'[u] = nextSeq[u] + n /\ (v # u => nextSeq'[v] = nextSeq[v])
  BY StampFacts
<1> QED
  BY <1>1, <1>2

\* A user's rows never share a number and never pass the counter.
THEOREM DistinctAlways == LogSpec => [](LogTypeOK /\ SeqsDistinct)
<1>1. LogInit => LogTypeOK /\ SeqsDistinct
  BY DEF LogInit, LogTypeOK, SeqsDistinct
<1>2. LogTypeOK /\ SeqsDistinct /\ [LogNext]_logVars => (LogTypeOK /\ SeqsDistinct)'
  <2> SUFFICES ASSUME LogTypeOK, SeqsDistinct, [LogNext]_logVars
               PROVE  LogTypeOK' /\ SeqsDistinct'
    OBVIOUS
  <2>1. ASSUME NEW u \in Users, NEW n \in 1..MaxBatch, NEW W \in SUBSET Keys,
               NEW pos \in Positions(W, n), Stamp(u, n, pos)
        PROVE  LogTypeOK' /\ SeqsDistinct'
    <3>1. n \in Nat
      BY BatchAssumption
    <3> QED
      BY <2>1, <3>1, StampFacts, StampDistinct
  <2>2. CASE UNCHANGED logVars
    BY <2>2 DEF logVars, LogTypeOK, SeqsDistinct
  <2> QED
    BY <2>1, <2>2 DEF LogNext
<1> QED
  BY <1>1, <1>2, PTL DEF LogSpec

\* Whatever becomes visible lies above every number ever allocated before, so
\* a cursor at or below the counter still has it ahead.
THEOREM FreshCorrect == LogSpec => FreshAbove
<1>1. LogTypeOK /\ [LogNext]_logVars =>
        [\A u \in Users, k \in Keys :
           seqOf'[u][k] # seqOf[u][k] => seqOf'[u][k] > nextSeq[u]]_logVars
  <2> SUFFICES ASSUME LogTypeOK, LogNext, NEW v \in Users, NEW k \in Keys,
                      seqOf'[v][k] # seqOf[v][k]
               PROVE  seqOf'[v][k] > nextSeq[v]
    OBVIOUS
  <2>1. PICK u \in Users, n \in 1..MaxBatch, W \in SUBSET Keys :
          \E pos \in Positions(W, n) : Stamp(u, n, pos)
    BY DEF LogNext
  <2>2. PICK pos \in Positions(W, n) : Stamp(u, n, pos)
    BY <2>1
  <2>3. n \in Nat /\ nextSeq[v] \in Nat
    BY BatchAssumption DEF LogTypeOK
  <2>4. v = u /\ k \in W
    BY <2>2, <2>3, StampFacts
  <2>5. seqOf'[u][k] = nextSeq[u] + pos[k] /\ pos[k] \in 1..n
    BY <2>2, <2>3, <2>4, StampFacts
  <2> QED
    BY <2>3, <2>4, <2>5
<1> QED
  BY <1>1, DistinctAlways, PTL DEF LogSpec, FreshAbove
-----------------------------------------------------------------------------
(* Types and the registry *)

PC == {"free", "subscribe", "query", "send", "wait", "requery", "respond", "finish"}

LEMMA UserOfType == \A d \in Devices : UserOf[d] \in Users
BY PullAssumption

LEMMA BusyHandler ==
  ASSUME TypeOK, NEW h \in Handlers, pc[h] # "free"
  PROVE  dev[h] \in Devices /\ UserOfReq(h) \in Users
BY UserOfType DEF TypeOK, UserOfReq

\* What a query leaves for request h: the page P with its cursor c.
Fetched(h, P, c, none, some) ==
  LET u == UserOfReq(h)
  IN /\ IsPage(P, u, since[h]) /\ IsCursor(c, P, u, since[h])
     /\ page' = [page EXCEPT ![h] = {[key |-> k, seq |-> seqOf[u][k]] : k \in P}]
     /\ page' \in [Handlers -> SUBSET Row]
     /\ upto' = [upto EXCEPT ![h] = c]
     /\ full' = [full EXCEPT ![h] = Cardinality(P) = Limit]
     /\ full' \in [Handlers -> BOOLEAN]
     /\ pc' = [pc EXCEPT ![h] = IF P = {} THEN none ELSE some]

LEMMA FetchFacts ==
  ASSUME TypeOK, NEW h \in Handlers, pc[h] # "free", NEW none \in PC, NEW some \in PC,
         Fetch(h, none, some)
  PROVE  \E P \in SUBSET Keys, c \in Nat : Fetched(h, P, c, none, some)
<1> DEFINE u == UserOfReq(h)
<1>1. u \in Users /\ since[h] \in Nat /\ seqOf[u] \in [Keys -> Nat]
  BY BusyHandler DEF TypeOK, LogTypeOK
<1>2. PICK P \in SUBSET Newer(u, since[h]) :
        \E c \in {since[h]} \cup {seqOf[u][k] : k \in P} :
          /\ IsPage(P, u, since[h]) /\ IsCursor(c, P, u, since[h])
          /\ page' = [page EXCEPT ![h] = {[key |-> k, seq |-> seqOf[u][k]] : k \in P}]
          /\ upto' = [upto EXCEPT ![h] = c]
          /\ full' = [full EXCEPT ![h] = Cardinality(P) = Limit]
          /\ pc' = [pc EXCEPT ![h] = IF P = {} THEN none ELSE some]
  BY DEF Fetch
<1>3. P \in SUBSET Keys
  BY DEF Newer
<1>2a. PICK c \in {since[h]} \cup {seqOf[u][k] : k \in P} :
          /\ IsPage(P, u, since[h]) /\ IsCursor(c, P, u, since[h])
          /\ page' = [page EXCEPT ![h] = {[key |-> k, seq |-> seqOf[u][k]] : k \in P}]
          /\ upto' = [upto EXCEPT ![h] = c]
          /\ full' = [full EXCEPT ![h] = Cardinality(P) = Limit]
          /\ pc' = [pc EXCEPT ![h] = IF P = {} THEN none ELSE some]
  BY <1>2
<1>4. c \in Nat
  BY <1>1, <1>3
<1>5. {[key |-> k, seq |-> seqOf[u][k]] : k \in P} \subseteq Row
  BY <1>1, <1>3 DEF Row
<1>6. page' \in [Handlers -> SUBSET Row]
  BY <1>2a, <1>5 DEF TypeOK
<1>7. full' \in [Handlers -> BOOLEAN]
  BY <1>2a DEF TypeOK
<1>8. Fetched(h, P, c, none, some)
  BY <1>2a, <1>6, <1>7 DEF Fetched
<1> QED
  BY <1>3, <1>4, <1>8

\* Registration depends only on the handler's own state.
LEMMA SameRegistry ==
  ASSUME TypeOK, waiters' = waiters, dev' = dev, mode' = mode,
         \A h \in Handlers : Registered(h)' <=> Registered(h)
  PROVE  RegistryExact'
BY DEF TypeOK, RegistryExact, UserOfReq

LEMMA TypeInit == Init => TypeOK
BY DEF Init, LogInit, TypeOK, LogTypeOK, RegistryExact, Registered, Row

LEMMA TypeStep == TypeOK /\ [Next]_vars => TypeOK'
<1> SUFFICES ASSUME TypeOK, [Next]_vars PROVE TypeOK'
  OBVIOUS
<1> USE DEF handlerVars, deviceVars, logVars
<1>1. ASSUME NEW p \in Pushers, NEW u \in Users, NEW n \in 1..MaxBatch, NEW W \in SUBSET Keys,
             NEW pos \in Positions(W, n), CommitPush(p, u, n, pos)
      PROVE  TypeOK'
  <2>1. LogTypeOK'
    BY <1>1, BatchAssumption, StampFacts DEF TypeOK, CommitPush
  <2>2. RegistryExact'
    BY <1>1, SameRegistry DEF CommitPush, Registered
  <2> QED
    BY <1>1, <2>1, <2>2 DEF TypeOK, CommitPush
<1>2. ASSUME NEW p \in Pushers, Notify(p)
      PROVE  TypeOK'
  <2>1. RegistryExact'
    BY <1>2, SameRegistry DEF Notify, Registered
  <2>2. ch' \in [Handlers -> {0, 1}]
    BY <1>2 DEF TypeOK, Notify
  <2> QED
    BY <1>2, <2>1, <2>2 DEF TypeOK, LogTypeOK, Notify
<1>3. ASSUME NEW h \in Handlers, NEW d \in Devices, NEW m \in Modes, Open(h, d, m)
      PROVE  TypeOK'
  <2>1. m \in {"plain", "poll", "sse"}
    BY PullAssumption
  <2>2. RegistryExact'
    BY <1>3, <2>1 DEF TypeOK, Open, RegistryExact, Registered, UserOfReq
  <2> QED
    BY <1>3, <2>1, <2>2 DEF TypeOK, LogTypeOK, Open
<1>4. ASSUME NEW h \in Handlers, Subscribe(h)
      PROVE  TypeOK'
  <2>1. UserOfReq(h) \in Users /\ mode[h] # "plain"
    BY <1>4, BusyHandler DEF Subscribe, TypeOK
  <2>2. /\ waiters' \in [Users -> SUBSET Handlers]
        /\ waiters'[UserOfReq(h)] = waiters[UserOfReq(h)] \cup {h}
        /\ \A u \in Users : u # UserOfReq(h) => waiters'[u] = waiters[u]
    BY <1>4, <2>1 DEF TypeOK, Subscribe
  <2>3. /\ \A g \in Handlers : g # h => (Registered(g)' <=> Registered(g))
        /\ Registered(h)' /\ ~ Registered(h)
        /\ \A g \in Handlers : UserOfReq(g)' = UserOfReq(g)
    BY <1>4, <2>1 DEF TypeOK, Subscribe, Registered, UserOfReq
  <2>4. RegistryExact'
    BY <2>1, <2>2, <2>3 DEF TypeOK, RegistryExact
  <2> QED
    BY <1>4, <2>1, <2>2, <2>4 DEF TypeOK, LogTypeOK, Subscribe
<1>5. ASSUME NEW h \in Handlers, Query(h)
      PROVE  TypeOK'
  <2>1. PICK none \in PC, some \in PC :
          /\ Fetch(h, none, some)
          /\ mode[h] = "sse" => none = "send" /\ some = "send"
          /\ mode[h] = "poll" => none = "wait" /\ some = "respond"
          /\ mode[h] = "plain" => none = "respond" /\ some = "respond"
    BY <1>5 DEF Query, TypeOK, PC
  <2>2. pc[h] = "query" /\ pc[h] # "free"
    BY <1>5 DEF Query
  <2>3. PICK P \in SUBSET Keys, c \in Nat : Fetched(h, P, c, none, some)
    BY <2>1, <2>2, FetchFacts
  <2>4. RegistryExact'
    BY <1>5, <2>1, <2>2, <2>3, SameRegistry DEF Query, Fetched, Registered, TypeOK
  <2> QED
    BY <1>5, <2>1, <2>2, <2>3, <2>4 DEF TypeOK, LogTypeOK, Query, Fetched, PC
<1>6. ASSUME NEW h \in Handlers, Requery(h)
      PROVE  TypeOK'
  <2>1. Fetch(h, "respond", "respond") /\ pc[h] = "requery" /\ "respond" \in PC
    BY <1>6 DEF Requery, PC
  <2>2. PICK P \in SUBSET Keys, c \in Nat : Fetched(h, P, c, "respond", "respond")
    BY <2>1, FetchFacts
  <2>3. RegistryExact'
    BY <1>6, <2>1, <2>2, SameRegistry DEF Requery, Fetched, Registered, TypeOK
  <2> QED
    BY <1>6, <2>1, <2>2, <2>3 DEF TypeOK, LogTypeOK, Requery, Fetched
<1>7. ASSUME NEW h \in Handlers, QueryFails(h)
      PROVE  TypeOK'
  <2>1. RegistryExact'
    BY <1>7, SameRegistry DEF QueryFails, Registered, TypeOK
  <2> QED
    BY <1>7, <2>1 DEF TypeOK, LogTypeOK, QueryFails
<1>8. ASSUME NEW h \in Handlers, Respond(h)
      PROVE  TypeOK'
  <2>1. RegistryExact'
    BY <1>8, SameRegistry DEF Respond, Registered, TypeOK
  <2>2. dev[h] \in Devices
    BY <1>8, BusyHandler DEF Respond
  <2>3. got' \in [Devices -> [Keys -> Nat]]
    <3> DEFINE new == [k \in Keys |-> IF \E r \in page[h] : r.key = k
                         THEN (CHOOSE r \in page[h] : r.key = k).seq ELSE got[dev[h]][k]]
    <3>1. new \in [Keys -> Nat]
      <4>1. ASSUME NEW k \in Keys, \E r \in page[h] : r.key = k
            PROVE  (CHOOSE r \in page[h] : r.key = k).seq \in Nat
        <5>1. (CHOOSE r \in page[h] : r.key = k) \in page[h]
          BY <4>1
        <5>2. \A r \in page[h] : r.seq \in Nat
          BY DEF TypeOK, Row
        <5> QED
          BY <5>1, <5>2
      <4>2. \A k \in Keys : got[dev[h]][k] \in Nat
        BY <2>2 DEF TypeOK
      <4> QED
        BY <4>1, <4>2
    <3>2. got' = [got EXCEPT ![dev[h]] = new] \/ got' = got
      BY <1>8 DEF Respond
    <3> HIDE DEF new
    <3> QED
      BY <2>2, <3>1, <3>2 DEF TypeOK
  <2>4. cursor' \in [Devices -> Nat] /\ link' \in [Devices -> Handlers \cup {NoHandler}]
    BY <1>8, <2>2 DEF Respond, TypeOK
  <2> QED
    BY <1>8, <2>1, <2>3, <2>4 DEF TypeOK, LogTypeOK, Respond
<1>9. ASSUME NEW h \in Handlers, PollTimeout(h)
      PROVE  TypeOK'
  <2>1. RegistryExact'
    BY <1>9, SameRegistry DEF PollTimeout, Registered, TypeOK
  <2> QED
    BY <1>9, <2>1 DEF TypeOK, LogTypeOK, PollTimeout
<1>10. ASSUME NEW h \in Handlers, PollAbandoned(h)
       PROVE  TypeOK'
  <2>1. RegistryExact'
    BY <1>10, SameRegistry DEF PollAbandoned, Registered, TypeOK
  <2> QED
    BY <1>10, <2>1 DEF TypeOK, LogTypeOK, PollAbandoned
<1>11. ASSUME NEW h \in Handlers, Wake(h)
       PROVE  TypeOK'
  <2>1. RegistryExact'
    BY <1>11, SameRegistry DEF Wake, Registered, TypeOK
  <2>2. mode[h] # "sse" => mode[h] = "poll"
    BY <1>11 DEF Wake, TypeOK
  <2> QED
    BY <1>11, <2>1, <2>2 DEF TypeOK, LogTypeOK, Wake
<1>12. ASSUME NEW h \in Handlers, NEW r \in page[h], SendEnvelope(h, r)
       PROVE  TypeOK'
  <2>1. RegistryExact'
    BY <1>12, SameRegistry DEF SendEnvelope, Registered, TypeOK
  <2>2. r.key \in Keys /\ r.seq \in Nat /\ dev[h] \in Devices
    BY <1>12, BusyHandler DEF TypeOK, Row, SendEnvelope
  <2>3. got' \in [Devices -> [Keys -> Nat]]
    BY <1>12, <2>2 DEF TypeOK, SendEnvelope
  <2> QED
    BY <1>12, <2>1, <2>3 DEF TypeOK, LogTypeOK, SendEnvelope
<1>13. ASSUME NEW h \in Handlers, SendCursor(h)
       PROVE  TypeOK'
  <2>1. RegistryExact'
    BY <1>13, SameRegistry DEF SendCursor, Registered, TypeOK
  <2> QED
    BY <1>13, <2>1 DEF TypeOK, LogTypeOK, SendCursor
<1>14. ASSUME NEW h \in Handlers, StreamBreaks(h)
       PROVE  TypeOK'
  <2>1. RegistryExact'
    BY <1>14, SameRegistry DEF StreamBreaks, Registered, TypeOK
  <2> QED
    BY <1>14, <2>1 DEF TypeOK, LogTypeOK, StreamBreaks
<1>15. ASSUME NEW h \in Handlers, Finish(h)
       PROVE  TypeOK'
  <2>1. UserOfReq(h) \in Users /\ dev[h] \in Devices
    BY <1>15, BusyHandler DEF Finish
  <2>2. /\ waiters' \in [Users -> SUBSET Handlers]
        /\ waiters'[UserOfReq(h)] = waiters[UserOfReq(h)] \ {h}
        /\ \A u \in Users : u # UserOfReq(h) => waiters'[u] = waiters[u]
    BY <1>15, <2>1 DEF TypeOK, Finish
  <2>3. /\ \A g \in Handlers : g # h => /\ Registered(g)' <=> Registered(g)
                                        /\ UserOfReq(g)' = UserOfReq(g)
        /\ ~ Registered(h)'
    BY <1>15 DEF TypeOK, Finish, Registered, UserOfReq
  <2>4. RegistryExact'
    BY <2>1, <2>2, <2>3 DEF TypeOK, RegistryExact
  <2>5. link' \in [Devices -> Handlers \cup {NoHandler}]
    BY <1>15, <2>1 DEF TypeOK, Finish
  <2> QED
    BY <1>15, <2>2, <2>4, <2>5 DEF TypeOK, LogTypeOK, Finish, Row
<1>16. ASSUME NEW d \in Devices, Drop(d)
       PROVE  TypeOK'
  <2>1. RegistryExact'
    BY <1>16, SameRegistry DEF Drop, Registered, TypeOK
  <2> QED
    BY <1>16, <2>1 DEF TypeOK, LogTypeOK, Drop
<1>17. CASE Restart
  BY <1>17 DEF TypeOK, LogTypeOK, Restart, RegistryExact, Registered, Row
<1>18. CASE UNCHANGED vars
  <2>1. RegistryExact'
    BY <1>18, SameRegistry DEF vars, Registered
  <2> QED
    BY <1>18, <2>1 DEF vars, TypeOK, LogTypeOK
<1> QED
  BY <1>1, <1>2, <1>3, <1>4, <1>5, <1>6, <1>7, <1>8, <1>9, <1>10, <1>11, <1>12, <1>13,
     <1>14, <1>15, <1>16, <1>17, <1>18 DEF Next, HandlerStep

\* Types, and a registry that knows exactly the requests that wait for a
\* signal, whatever ends them.
THEOREM TypeCorrect == Spec => []TypeOK
BY TypeInit, TypeStep, PTL DEF Spec
-----------------------------------------------------------------------------
(***************************************************************************)
(* Why a device that follows its cursor misses nothing, and a waiting      *)
(* request is always woken: the safety of LivePull, for any users,         *)
(* devices, concurrent requests and pushes, page size and batch size.      *)
(***************************************************************************)

LEMMA InvInit == Init => Inv
<1> SUFFICES ASSUME Init PROVE Inv
  OBVIOUS
<1> USE DEF Init, LogInit
<1>1. TypeOK
  BY TypeInit
<1>2. SeqsDistinct
  BY DEF SeqsDistinct
<1>3. PageSnapshot
  BY DEF PageSnapshot, Holding
<1>4. LinkCovers
  BY PullAssumption DEF LinkCovers
<1>5. DeviceBehind /\ CursorSound
  BY PullAssumption DEF DeviceBehind, CursorSound
<1>6. SignalPending
  BY DEF SignalPending
<1> QED
  BY <1>1, <1>2, <1>3, <1>4, <1>5, <1>6 DEF Inv

\* A step that only moves handlers on, away from pages and waits, or takes a
\* link away.
LEMMA Frame ==
  ASSUME Inv, TypeOK',
         UNCHANGED <<logVars, dev, since, page, upto, full, owes, cursor, got>>,
         \A h \in Handlers :
           /\ pc'[h] = "free" <=> pc[h] = "free"
           /\ Holding(h)' => Holding(h)
           /\ pc'[h] = "wait" => pc[h] = "wait"
           /\ pc'[h] \in {"send", "wait"} => pc[h] \in {"send", "wait"} /\ ch'[h] = ch[h],
         \A d \in Devices : link'[d] \in {link[d], NoHandler}
  PROVE  Inv'
<1> USE DEF Inv
<1>1. /\ nextSeq' = nextSeq /\ seqOf' = seqOf /\ dev' = dev /\ since' = since
      /\ page' = page /\ upto' = upto /\ full' = full /\ owes' = owes
      /\ cursor' = cursor /\ got' = got
  BY DEF logVars
<1>2. SeqsDistinct' /\ DeviceBehind' /\ CursorSound'
  BY <1>1 DEF SeqsDistinct, DeviceBehind, CursorSound
<1>3. PageSnapshot'
  BY <1>1 DEF PageSnapshot, UserOfReq
<1>4. LinkCovers'
  <2> SUFFICES ASSUME NEW d \in Devices, NEW h \in Handlers, link'[d] = h
               PROVE  /\ dev'[h] = d /\ pc'[h] # "free" /\ since'[h] = cursor'[d]
                      /\ Holding(h)' =>
                           /\ \A k \in Keys :
                                LET s == seqOf'[UserOf[d]][k]
                                IN s > 0 /\ s <= upto'[h] =>
                                     got'[d][k] = s \/ [key |-> k, seq |-> s] \in page'[h]
                           /\ \A r \in page'[h] : got'[d][r.key] <= r.seq
    BY DEF LinkCovers
  <2>1. link[d] = h
    BY PullAssumption DEF TypeOK
  <2> QED
    BY <1>1, <2>1 DEF LinkCovers
<1>5. SignalPending'
  <2> SUFFICES ASSUME NEW h \in Handlers, pc'[h] \in {"send", "wait"}, ~ full'[h],
                      ch'[h] = 0, ~ Coming(UserOfReq(h))'
               PROVE  Newer(UserOfReq(h), upto[h])' = {}
    BY DEF SignalPending
  <2>1. UserOfReq(h)' = UserOfReq(h)
    BY <1>1 DEF UserOfReq
  <2>2. ~ Coming(UserOfReq(h))
    BY <1>1, <2>1 DEF Coming
  <2>3. Newer(UserOfReq(h), upto[h]) = {}
    BY <1>1, <2>2 DEF SignalPending
  <2> QED
    BY <1>1, <2>1, <2>3 DEF Newer
<1> QED
  BY <1>2, <1>3, <1>4, <1>5

\* The steps Frame covers.
LEMMA ControlSteps ==
  ASSUME Inv, TypeOK',
         \/ \E h \in Handlers : \/ Subscribe(h) \/ QueryFails(h) \/ PollTimeout(h)
                               \/ PollAbandoned(h) \/ Wake(h) \/ StreamBreaks(h)
         \/ \E d \in Devices : Drop(d)
         \/ UNCHANGED vars
  PROVE  Inv'
<1> USE DEF handlerVars, deviceVars, logVars, Holding
<1>t. pc \in [Handlers -> PC] /\ ch \in [Handlers -> {0, 1}]
      /\ link \in [Devices -> Handlers \cup {NoHandler}]
  BY DEF Inv, TypeOK, PC
<1>1. ASSUME NEW h \in Handlers, Subscribe(h) PROVE Inv'
  BY <1>t, <1>1, Frame DEF Subscribe
<1>2. ASSUME NEW h \in Handlers, QueryFails(h) PROVE Inv'
  BY <1>t, <1>2, Frame DEF QueryFails
<1>3. ASSUME NEW h \in Handlers, PollTimeout(h) PROVE Inv'
  BY <1>t, <1>3, Frame DEF PollTimeout
<1>4. ASSUME NEW h \in Handlers, PollAbandoned(h) PROVE Inv'
  BY <1>t, <1>4, Frame DEF PollAbandoned
<1>5. ASSUME NEW h \in Handlers, Wake(h) PROVE Inv'
  BY <1>t, <1>5, Frame DEF Wake
<1>6. ASSUME NEW h \in Handlers, StreamBreaks(h) PROVE Inv'
  BY <1>t, <1>6, Frame DEF StreamBreaks
<1>7. ASSUME NEW d \in Devices, Drop(d) PROVE Inv'
  BY <1>t, <1>7, Frame DEF Drop
<1>8. CASE UNCHANGED vars
  BY <1>t, <1>8, Frame DEF vars
<1> QED
  BY <1>1, <1>2, <1>3, <1>4, <1>5, <1>6, <1>7, <1>8

\* A push moves rows past the counter, so past every cursor and page there is,
\* and owes the notification that SignalPending speaks of.
LEMMA CommitStep ==
  ASSUME Inv, TypeOK', NEW p \in Pushers, NEW u \in Users, NEW n \in 1..MaxBatch,
         NEW W \in SUBSET Keys, NEW pos \in Positions(W, n), CommitPush(p, u, n, pos)
  PROVE  Inv'
<1> USE DEF Inv
<1>0. LogTypeOK /\ SeqsDistinct
  BY DEF TypeOK
<1>1. n \in Nat /\ Stamp(u, n, pos)
  BY BatchAssumption DEF CommitPush
<1>2. \A v \in Users :
        nextSeq[v] \in Nat /\ nextSeq'[v] \in Nat /\ nextSeq[v] <= nextSeq'[v]
  BY <1>0, <1>1, StampCounts
<1>3. \A v \in Users, k \in Keys :
        /\ seqOf[v][k] \in Nat /\ seqOf'[v][k] \in Nat /\ seqOf[v][k] <= seqOf'[v][k]
        /\ seqOf'[v][k] # seqOf[v][k] => seqOf'[v][k] > nextSeq[v]
  <2>1. ASSUME NEW v \in Users, NEW k \in Keys
        PROVE  /\ seqOf[v][k] <= seqOf'[v][k]
               /\ seqOf'[v][k] # seqOf[v][k] => seqOf'[v][k] > nextSeq[v]
    BY <1>0, <1>1, StampGrows
  <2>2. ASSUME NEW v \in Users, NEW k \in Keys
        PROVE  seqOf[v][k] \in Nat /\ seqOf'[v][k] \in Nat
    BY DEF TypeOK, LogTypeOK
  <2> QED
    BY <2>1, <2>2
<1>4. /\ pc' = pc /\ mode' = mode /\ dev' = dev /\ since' = since /\ page' = page
      /\ upto' = upto /\ full' = full /\ ch' = ch /\ link' = link
      /\ cursor' = cursor /\ got' = got
  BY DEF CommitPush, handlerVars, deviceVars
<1>5. /\ \A h \in Handlers : since[h] \in Nat /\ upto[h] \in Nat /\ page[h] \subseteq Row
      /\ \A d \in Devices : cursor[d] \in Nat
      /\ \A d \in Devices, k \in Keys : got[d][k] \in Nat
  BY DEF TypeOK
<1>6. SeqsDistinct'
  BY <1>1, StampDistinct DEF TypeOK
<1>7. PageSnapshot'
  <2>1. \A h \in Handlers : UserOfReq(h)' = UserOfReq(h)
    BY <1>4 DEF UserOfReq
  <2> SUFFICES ASSUME NEW h \in Handlers, pc[h] # "free"
               PROVE  /\ since[h] <= nextSeq'[UserOfReq(h)]
                      /\ Holding(h) =>
                           /\ since[h] <= upto[h] /\ upto[h] <= nextSeq'[UserOfReq(h)]
                           /\ \A r \in page[h] : /\ since[h] < r.seq /\ r.seq <= upto[h]
                                                /\ r.seq <= seqOf'[UserOfReq(h)][r.key]
                           /\ \A r, q \in page[h] : r.key = q.key => r = q
                      /\ pc[h] = "wait" => page[h] = {} /\ upto[h] = since[h] /\ ~ full[h]
    BY <1>4, <2>1 DEF PageSnapshot, Holding
  <2>2. UserOfReq(h) \in Users
    BY BusyHandler
  <2>3. \A r \in page[h] : r.key \in Keys /\ r.seq \in Nat
    BY <1>5 DEF Row
  <2>4. /\ nextSeq[UserOfReq(h)] \in Nat /\ nextSeq'[UserOfReq(h)] \in Nat
        /\ nextSeq[UserOfReq(h)] <= nextSeq'[UserOfReq(h)]
        /\ since[h] \in Nat /\ upto[h] \in Nat
    BY <1>2, <1>3, <1>5, <2>2
  <2>5. /\ since[h] <= nextSeq'[UserOfReq(h)]
        /\ Holding(h) => upto[h] <= nextSeq'[UserOfReq(h)]
    BY <2>4 DEF PageSnapshot
  <2>6. ASSUME Holding(h), NEW r \in page[h]
        PROVE  r.seq <= seqOf'[UserOfReq(h)][r.key]
    <3>1. r.seq <= seqOf[UserOfReq(h)][r.key]
      BY <2>6 DEF PageSnapshot
    <3>2. /\ seqOf[UserOfReq(h)][r.key] \in Nat /\ seqOf'[UserOfReq(h)][r.key] \in Nat
          /\ seqOf[UserOfReq(h)][r.key] <= seqOf'[UserOfReq(h)][r.key]
      BY <1>2, <1>3, <2>2, <2>3
    <3> QED
      BY <2>3, <3>1, <3>2
  <2> QED
    BY <2>5, <2>6 DEF PageSnapshot
<1>8. LinkCovers'
  <2> SUFFICES ASSUME NEW d \in Devices, NEW h \in Handlers, link[d] = h
               PROVE  /\ dev[h] = d /\ pc[h] # "free" /\ since[h] = cursor[d]
                      /\ Holding(h) =>
                           /\ \A k \in Keys :
                                LET s == seqOf'[UserOf[d]][k]
                                IN s > 0 /\ s <= upto[h] =>
                                     got[d][k] = s \/ [key |-> k, seq |-> s] \in page[h]
                           /\ \A r \in page[h] : got[d][r.key] <= r.seq
    BY <1>4 DEF LinkCovers, Holding
  <2>1. /\ dev[h] = d /\ pc[h] # "free" /\ since[h] = cursor[d]
        /\ Holding(h) => \A r \in page[h] : got[d][r.key] <= r.seq
    BY DEF LinkCovers
  <2>2. UserOf[d] \in Users
    BY UserOfType
  <2>3. ASSUME Holding(h), NEW k \in Keys, seqOf'[UserOf[d]][k] > 0,
               seqOf'[UserOf[d]][k] <= upto[h]
        PROVE  \/ got[d][k] = seqOf'[UserOf[d]][k]
               \/ [key |-> k, seq |-> seqOf'[UserOf[d]][k]] \in page[h]
    <3>1. upto[h] <= nextSeq[UserOf[d]]
      BY <2>1, <2>3 DEF PageSnapshot, UserOfReq
    <3>2. /\ nextSeq[UserOf[d]] \in Nat /\ upto[h] \in Nat
          /\ seqOf'[UserOf[d]][k] \in Nat
          /\ seqOf'[UserOf[d]][k] # seqOf[UserOf[d]][k] =>
               seqOf'[UserOf[d]][k] > nextSeq[UserOf[d]]
      BY <1>2, <1>3, <1>5, <2>2
    <3>3. seqOf'[UserOf[d]][k] = seqOf[UserOf[d]][k]
      BY <2>3, <3>1, <3>2
    <3> QED
      BY <2>3, <3>3 DEF LinkCovers
  <2> QED
    BY <2>1, <2>3
<1>9. DeviceBehind'
  <2> SUFFICES ASSUME NEW d \in Devices
               PROVE  /\ cursor[d] <= nextSeq'[UserOf[d]]
                      /\ \A k \in Keys : got[d][k] <= seqOf'[UserOf[d]][k]
    BY <1>4 DEF DeviceBehind
  <2>1. UserOf[d] \in Users
    BY UserOfType
  <2>2. /\ nextSeq[UserOf[d]] \in Nat /\ nextSeq'[UserOf[d]] \in Nat /\ cursor[d] \in Nat
        /\ cursor[d] <= nextSeq[UserOf[d]] /\ nextSeq[UserOf[d]] <= nextSeq'[UserOf[d]]
    BY <1>2, <1>3, <1>5, <2>1 DEF DeviceBehind
  <2>3. ASSUME NEW k \in Keys
        PROVE  got[d][k] <= seqOf'[UserOf[d]][k]
    <3>1. /\ got[d][k] <= seqOf[UserOf[d]][k] /\ seqOf[UserOf[d]][k] <= seqOf'[UserOf[d]][k]
          /\ got[d][k] \in Nat /\ seqOf[UserOf[d]][k] \in Nat /\ seqOf'[UserOf[d]][k] \in Nat
      BY <1>2, <1>3, <1>5, <2>1 DEF DeviceBehind
    <3> QED
      BY <3>1
  <2> QED
    BY <2>2, <2>3
<1>10. CursorSound'
  <2> SUFFICES ASSUME NEW d \in Devices, NEW k \in Keys, seqOf'[UserOf[d]][k] > 0,
                      seqOf'[UserOf[d]][k] <= cursor[d]
               PROVE  got[d][k] = seqOf'[UserOf[d]][k]
    BY <1>4 DEF CursorSound
  <2>1. UserOf[d] \in Users /\ cursor[d] <= nextSeq[UserOf[d]]
    BY UserOfType DEF DeviceBehind
  <2>2. /\ nextSeq[UserOf[d]] \in Nat /\ cursor[d] \in Nat /\ seqOf'[UserOf[d]][k] \in Nat
        /\ seqOf'[UserOf[d]][k] # seqOf[UserOf[d]][k] =>
             seqOf'[UserOf[d]][k] > nextSeq[UserOf[d]]
    BY <1>2, <1>3, <1>5, <2>1
  <2>3. seqOf'[UserOf[d]][k] = seqOf[UserOf[d]][k]
    BY <2>1, <2>2
  <2> QED
    BY <2>3 DEF CursorSound
<1>11. SignalPending'
  <2> SUFFICES ASSUME NEW h \in Handlers, pc[h] \in {"send", "wait"}, ~ full[h], ch[h] = 0,
                      ~ Coming(UserOfReq(h))'
               PROVE  Newer(UserOfReq(h), upto[h])' = {}
    BY <1>4 DEF SignalPending
  <2>1. UserOfReq(h)' = UserOfReq(h) /\ UserOfReq(h) \in Users
    BY <1>4, BusyHandler DEF UserOfReq
  <2>2. owes' = [owes EXCEPT ![p] = IF DOMAIN pos = {} THEN NoUser ELSE u] /\ owes[p] = NoUser
    BY DEF CommitPush
  <2>3. ~ Coming(UserOfReq(h)) /\ (DOMAIN pos = {} \/ u # UserOfReq(h))
    BY <2>1, <2>2, PullAssumption DEF Coming, TypeOK
  <2>4. seqOf'[UserOfReq(h)] = seqOf[UserOfReq(h)]
    <3> HIDE DEF Inv
    <3>1. CASE u # UserOfReq(h)
      BY <1>0, <1>1, <2>1, <3>1, StampFacts
    <3>2. CASE DOMAIN pos = {}
      <4>1. DOMAIN pos = W
        BY <1>0, <1>1, StampFacts
      <4>2. \A k \in Keys : seqOf'[u][k] = seqOf[u][k]
        BY <1>0, <1>1, <3>2, <4>1, StampFacts
      <4>3. \A v \in Users : v # u => seqOf'[v] = seqOf[v]
        BY <1>0, <1>1, StampFacts
      <4>4. \A k \in Keys : seqOf'[UserOfReq(h)][k] = seqOf[UserOfReq(h)][k]
        BY <4>2, <4>3, <2>1
      <4> QED
        <5>1. /\ seqOf[UserOfReq(h)] \in [Keys -> Nat]
              /\ seqOf'[UserOfReq(h)] \in [Keys -> Nat]
          BY <2>1 DEF Inv, TypeOK, LogTypeOK
        <5> QED
          BY <4>4, <5>1
    <3> QED
      BY <2>3, <3>1, <3>2
  <2>5. Newer(UserOfReq(h), upto[h]) = {}
    BY <2>3 DEF SignalPending
  <2> QED
    BY <1>4, <2>1, <2>4, <2>5 DEF Newer
<1> QED
  BY <1>6, <1>7, <1>8, <1>9, <1>10, <1>11

\* A notification reaches every waiter of its user: the registry is exact.
LEMMA NotifyStep ==
  ASSUME Inv, TypeOK', NEW p \in Pushers, Notify(p)
  PROVE  Inv'
<1> USE DEF Inv
<1>1. /\ nextSeq' = nextSeq /\ seqOf' = seqOf /\ pc' = pc /\ mode' = mode /\ dev' = dev
      /\ since' = since /\ page' = page /\ upto' = upto /\ full' = full
      /\ waiters' = waiters /\ link' = link /\ cursor' = cursor /\ got' = got
  BY DEF Notify, logVars, handlerVars, deviceVars
<1>2. /\ ch' = [h \in Handlers |-> IF h \in waiters[owes[p]] THEN 1 ELSE ch[h]]
      /\ owes' = [owes EXCEPT ![p] = NoUser] /\ owes[p] \in Users
  BY DEF Notify, TypeOK
<1>3. SeqsDistinct' /\ DeviceBehind' /\ CursorSound'
  BY <1>1 DEF SeqsDistinct, DeviceBehind, CursorSound
<1>4. PageSnapshot'
  BY <1>1 DEF PageSnapshot, UserOfReq, Holding
<1>5. LinkCovers'
  BY <1>1 DEF LinkCovers, Holding
<1>6. SignalPending'
  <2> SUFFICES ASSUME NEW h \in Handlers, pc[h] \in {"send", "wait"}, ~ full[h],
                      ch'[h] = 0, ~ Coming(UserOfReq(h))'
               PROVE  Newer(UserOfReq(h), upto[h])' = {}
    BY <1>1 DEF SignalPending
  <2>1. UserOfReq(h)' = UserOfReq(h) /\ UserOfReq(h) \in Users
    BY <1>1, BusyHandler DEF UserOfReq
  <2>2. h \in waiters[UserOfReq(h)]
    BY <2>1 DEF TypeOK, RegistryExact, Registered
  <2>3. UserOfReq(h) # owes[p] /\ ch[h] = 0
    BY <1>2, <2>2
  <2>4. \A q \in Pushers : q # p => owes'[q] = owes[q]
    BY <1>2 DEF TypeOK
  <2>5. ~ Coming(UserOfReq(h))
    BY <2>1, <2>3, <2>4 DEF Coming
  <2> QED
    BY <1>1, <2>1, <2>3, <2>5 DEF SignalPending, Newer
<1> QED
  BY <1>3, <1>4, <1>5, <1>6

\* A request starts where its device stands.
LEMMA OpenStep ==
  ASSUME Inv, TypeOK', NEW h \in Handlers, NEW d \in Devices, NEW m \in Modes, Open(h, d, m)
  PROVE  Inv'
<1> USE DEF Inv
<1>1. /\ nextSeq' = nextSeq /\ seqOf' = seqOf /\ page' = page /\ upto' = upto /\ full' = full
      /\ ch' = ch /\ owes' = owes /\ cursor' = cursor /\ got' = got
  BY DEF Open, logVars
<1>2. /\ pc[h] = "free" /\ pc'[h] \in {"query", "subscribe"} /\ dev'[h] = d
      /\ since'[h] = cursor[d] /\ link'[d] = h
      /\ \A g \in Handlers : g # h => pc'[g] = pc[g] /\ dev'[g] = dev[g] /\ since'[g] = since[g]
      /\ \A e \in Devices : e # d => link'[e] = link[e]
  BY DEF Open, TypeOK
<1>3. SeqsDistinct' /\ DeviceBehind' /\ CursorSound'
  BY <1>1 DEF SeqsDistinct, DeviceBehind, CursorSound
<1>4. PageSnapshot'
  <2>1. cursor[d] <= nextSeq[UserOf[d]]
    BY DEF DeviceBehind
  <2>2. since'[h] <= nextSeq'[UserOfReq(h)'] /\ ~ Holding(h)' /\ pc'[h] # "wait"
    BY <1>1, <1>2, <2>1 DEF UserOfReq, Holding
  <2>3. \A g \in Handlers : g # h => UserOfReq(g)' = UserOfReq(g) /\ (Holding(g)' <=> Holding(g))
    BY <1>2 DEF UserOfReq, Holding
  <2> QED
    BY <1>1, <1>2, <2>2, <2>3 DEF PageSnapshot
<1>5. LinkCovers'
  <2> SUFFICES ASSUME NEW e \in Devices, NEW g \in Handlers, link'[e] = g
               PROVE  /\ dev'[g] = e /\ pc'[g] # "free" /\ since'[g] = cursor[e]
                      /\ Holding(g)' =>
                           /\ \A k \in Keys :
                                LET s == seqOf[UserOf[e]][k]
                                IN s > 0 /\ s <= upto[g] =>
                                     got[e][k] = s \/ [key |-> k, seq |-> s] \in page[g]
                           /\ \A r \in page[g] : got[e][r.key] <= r.seq
    BY <1>1 DEF LinkCovers
  <2>1. CASE e = d
    BY <1>2, <2>1 DEF Holding
  <2>2. CASE e # d
    <3>1. link[e] = g /\ g # h
      BY <1>2, <2>2 DEF LinkCovers
    <3> QED
      BY <1>2, <3>1 DEF LinkCovers, Holding
  <2> QED
    BY <2>1, <2>2
<1>6. SignalPending'
  <2> SUFFICES ASSUME NEW g \in Handlers, pc'[g] \in {"send", "wait"}, ~ full[g],
                      ch[g] = 0, ~ Coming(UserOfReq(g))'
               PROVE  Newer(UserOfReq(g), upto[g])' = {}
    BY <1>1 DEF SignalPending
  <2>1. g # h /\ UserOfReq(g)' = UserOfReq(g)
    BY <1>2 DEF UserOfReq
  <2>2. ~ Coming(UserOfReq(g))
    BY <1>1, <2>1 DEF Coming
  <2> QED
    BY <1>1, <1>2, <2>1, <2>2 DEF SignalPending, Newer
<1> QED
  BY <1>3, <1>4, <1>5, <1>6

\* A page takes up where the cursor ends, and its own cursor skips nothing.
LEMMA PageFacts ==
  ASSUME TypeOK, SeqsDistinct, NEW u \in Users, NEW s \in Nat, NEW P \in SUBSET Keys,
         NEW c \in Nat, s <= nextSeq[u], IsPage(P, u, s), IsCursor(c, P, u, s)
  PROVE  /\ s <= c /\ c <= nextSeq[u]
         /\ P = {} => c = s
         /\ \A k \in P : s < seqOf[u][k] /\ seqOf[u][k] <= c
         /\ \A k \in Keys : s < seqOf[u][k] /\ seqOf[u][k] <= c => k \in P
         /\ Cardinality(P) # Limit => Newer(u, c) = {}
<1>1. /\ \A k \in Keys : seqOf[u][k] \in Nat /\ seqOf[u][k] <= nextSeq[u]
      /\ nextSeq[u] \in Nat
  BY DEF TypeOK, LogTypeOK, SeqsDistinct
<1>2. \A k \in P : s < seqOf[u][k]
  BY <1>1 DEF IsPage, Newer
<1>3. CASE P = {}
  <2>1. c = s
    BY <1>3 DEF IsCursor
  <2>2. Cardinality(P) # Limit => Newer(u, c) = {}
    BY <1>3, <2>1 DEF IsPage
  <2> QED
    BY <1>1, <1>3, <2>1, <2>2
<1>4. CASE P # {}
  <2>1. PICK j \in P : c = seqOf[u][j]
    BY <1>4 DEF IsCursor
  <2>2. \A k \in P : seqOf[u][k] <= c
    BY <1>4 DEF IsCursor
  <2>3. s <= c /\ c <= nextSeq[u]
    BY <1>1, <1>2, <2>1
  <2>4. ASSUME NEW k \in Keys, s < seqOf[u][k], seqOf[u][k] <= c
        PROVE  k \in P
    <3>1. k \in Newer(u, s)
      BY <1>1, <2>4 DEF Newer
    <3>2. CASE seqOf[u][k] < seqOf[u][j]
      BY <2>1, <3>1, <3>2 DEF IsPage
    <3>3. CASE seqOf[u][k] = seqOf[u][j]
      <4>1. seqOf[u][k] > 0
        BY <1>1, <2>4
      <4> QED
        BY <2>1, <3>3, <4>1 DEF SeqsDistinct
    <3> QED
      BY <1>1, <2>1, <2>4, <3>2, <3>3
  <2>5. Cardinality(P) # Limit => Newer(u, c) = {}
    <3> SUFFICES ASSUME Cardinality(P) # Limit, NEW k \in Keys, seqOf[u][k] > c
                 PROVE  FALSE
      BY DEF Newer
    <3>1. P = Newer(u, s)
      BY DEF IsPage
    <3>2. k \in P
      BY <1>1, <2>3, <3>1 DEF Newer
    <3> QED
      BY <1>1, <2>2, <3>2
  <2> QED
    BY <1>2, <1>4, <2>2, <2>3, <2>4, <2>5
<1> QED
  BY <1>3, <1>4

\* Both queries: what the page holds and what it says it covers agree.
LEMMA FetchStep ==
  ASSUME Inv, TypeOK', NEW h \in Handlers, pc[h] # "free",
         NEW none \in {"send", "respond", "wait"}, NEW some \in {"send", "respond"},
         Fetch(h, none, some),
         UNCHANGED <<logVars, mode, dev, since, waiters, ch, owes, deviceVars>>
  PROVE  Inv'
<1> USE DEF Inv
<1> DEFINE u == UserOfReq(h)
<1>1. PICK P \in SUBSET Keys, c \in Nat : Fetched(h, P, c, none, some)
  BY FetchFacts DEF PC
<1>2. /\ nextSeq' = nextSeq /\ seqOf' = seqOf /\ dev' = dev /\ since' = since
      /\ ch' = ch /\ owes' = owes /\ link' = link /\ cursor' = cursor /\ got' = got
  BY DEF logVars, deviceVars
<1>3. /\ u \in Users /\ since[h] \in Nat /\ dev[h] \in Devices
      /\ \A k \in Keys : seqOf[u][k] \in Nat
  BY BusyHandler DEF TypeOK, LogTypeOK
<1>4. /\ page'[h] = {[key |-> k, seq |-> seqOf[u][k]] : k \in P} /\ upto'[h] = c
      /\ full'[h] = (Cardinality(P) = Limit) /\ pc'[h] = IF P = {} THEN none ELSE some
  BY <1>1 DEF Fetched, TypeOK
<1>5. \A g \in Handlers : g # h => /\ page'[g] = page[g] /\ upto'[g] = upto[g]
                                   /\ full'[g] = full[g] /\ pc'[g] = pc[g]
  BY <1>1 DEF Fetched, TypeOK
<1>6. /\ since[h] <= c /\ c <= nextSeq[u]
      /\ P = {} => c = since[h]
      /\ \A k \in P : since[h] < seqOf[u][k] /\ seqOf[u][k] <= c
      /\ \A k \in Keys : since[h] < seqOf[u][k] /\ seqOf[u][k] <= c => k \in P
      /\ Cardinality(P) # Limit => Newer(u, c) = {}
  <2>1. since[h] <= nextSeq[u]
    BY DEF PageSnapshot
  <2>2. IsPage(P, u, since[h]) /\ IsCursor(c, P, u, since[h])
    BY <1>1 DEF Fetched
  <2> HIDE DEF u, Inv
  <2>3. TypeOK /\ SeqsDistinct
    BY DEF Inv
  <2> QED
    BY <1>3, <2>1, <2>2, <2>3, PageFacts
<1>7. SeqsDistinct' /\ DeviceBehind' /\ CursorSound'
  BY <1>2 DEF SeqsDistinct, DeviceBehind, CursorSound
<1>8. \A g \in Handlers : UserOfReq(g)' = UserOfReq(g)
  BY <1>2 DEF UserOfReq
<1>9. \A g \in Handlers : g # h => (Holding(g)' <=> Holding(g))
  BY <1>5 DEF Holding
<1>10. PageSnapshot'
  <2> HIDE DEF u
  <2>1. ASSUME NEW r \in page'[h]
        PROVE  since[h] < r.seq /\ r.seq <= c /\ r.seq <= seqOf[u][r.key]
    <3>1. PICK k \in P : r = [key |-> k, seq |-> seqOf[u][k]]
      BY <1>4
    <3>2. r.key = k /\ r.seq = seqOf[u][k]
      BY <3>1
    <3> QED
      BY <1>3, <1>6, <3>2
  <2>2. \A r, q \in page'[h] : r.key = q.key => r = q
    BY <1>4
  <2>3. pc'[h] = "wait" => page'[h] = {} /\ c = since[h] /\ ~ full'[h]
    BY <1>4, <1>6, FS_EmptySet, PullAssumption
  <2>4. u = UserOfReq(h)
    BY DEF u
  <2>5. pc[h] # "free" => since[h] <= nextSeq[UserOfReq(h)]
    BY DEF PageSnapshot
  <2> QED
    BY <1>2, <1>4, <1>5, <1>6, <1>8, <1>9, <2>1, <2>2, <2>3, <2>4, <2>5 DEF PageSnapshot
<1>11. LinkCovers'
  <2> SUFFICES ASSUME NEW d \in Devices, NEW g \in Handlers, link[d] = g
               PROVE  /\ dev[g] = d /\ pc'[g] # "free" /\ since[g] = cursor[d]
                      /\ Holding(g)' =>
                           /\ \A k \in Keys :
                                LET s == seqOf[UserOf[d]][k]
                                IN s > 0 /\ s <= upto'[g] =>
                                     got[d][k] = s \/ [key |-> k, seq |-> s] \in page'[g]
                           /\ \A r \in page'[g] : got[d][r.key] <= r.seq
    BY <1>2 DEF LinkCovers
  <2>1. CASE g # h
    BY <1>5, <1>9, <2>1 DEF LinkCovers
  <2>2. CASE g = h
    <3>1. dev[h] = d /\ since[h] = cursor[d] /\ u = UserOf[d]
      BY <2>2 DEF LinkCovers, UserOfReq
    <3>2. pc'[h] # "free"
      BY <1>4
    <3> HIDE DEF u
    <3>3. ASSUME NEW k \in Keys, seqOf[u][k] > 0, seqOf[u][k] <= c
          PROVE  got[d][k] = seqOf[u][k] \/ [key |-> k, seq |-> seqOf[u][k]] \in page'[h]
      <4>1. CASE seqOf[u][k] <= since[h]
        BY <3>1, <3>3, <4>1 DEF CursorSound
      <4>2. CASE since[h] < seqOf[u][k]
        <5>1. k \in P
          BY <1>6, <3>3, <4>2
        <5> QED
          BY <1>4, <5>1
      <4> QED
        BY <1>3, <4>1, <4>2
    <3>4. ASSUME NEW r \in page'[h]
          PROVE  got[d][r.key] <= r.seq
      <4>1. PICK k \in P : r = [key |-> k, seq |-> seqOf[u][k]]
        BY <1>4
      <4> QED
        BY <3>1, <4>1 DEF DeviceBehind
    <3> QED
      BY <1>4, <2>2, <3>1, <3>2, <3>3, <3>4
  <2> QED
    BY <2>1, <2>2
<1>12. SignalPending'
  <2> SUFFICES ASSUME NEW g \in Handlers, pc'[g] \in {"send", "wait"}, ~ full'[g],
                      ch[g] = 0, ~ Coming(UserOfReq(g))'
               PROVE  Newer(UserOfReq(g), upto[g])' = {}
    BY <1>2 DEF SignalPending
  <2>1. UserOfReq(g)' = UserOfReq(g) /\ ~ Coming(UserOfReq(g))
    BY <1>2, <1>8 DEF Coming
  <2>2. CASE g = h
    BY <1>2, <1>4, <1>6, <2>1, <2>2 DEF Newer
  <2>3. CASE g # h
    <3>1. Newer(UserOfReq(g), upto[g]) = {}
      BY <1>2, <1>5, <2>1, <2>3 DEF SignalPending
    <3> QED
      BY <1>2, <1>5, <2>1, <2>3, <3>1 DEF Newer
  <2> QED
    BY <2>2, <2>3
<1> QED
  BY <1>7, <1>10, <1>11, <1>12

\* An envelope event: the row moves from the page to the device, where it is
\* never older than what is there.
LEMMA SendEnvelopeStep ==
  ASSUME Inv, TypeOK', NEW h \in Handlers, NEW r \in page[h], SendEnvelope(h, r)
  PROVE  Inv' /\ \A d \in Devices, k \in Keys : got'[d][k] >= got[d][k]
<1> USE DEF Inv
<1>1. /\ nextSeq' = nextSeq /\ seqOf' = seqOf /\ pc' = pc /\ dev' = dev /\ since' = since
      /\ upto' = upto /\ full' = full /\ ch' = ch /\ owes' = owes /\ link' = link
      /\ cursor' = cursor /\ pc[h] = "send"
  BY DEF SendEnvelope, logVars
<1>2. page'[h] = page[h] \ {r} /\ \A g \in Handlers : g # h => page'[g] = page[g]
  BY DEF SendEnvelope, TypeOK
<1>3. dev[h] \in Devices /\ r.key \in Keys /\ r.seq \in Nat /\ UserOf[dev[h]] \in Users
  BY <1>1, BusyHandler DEF TypeOK, Row, UserOfReq
<1>4. /\ since[h] < r.seq /\ r.seq <= upto[h] /\ r.seq <= seqOf[UserOf[dev[h]]][r.key]
      /\ \A q \in page[h] : r.key = q.key => r = q
  BY <1>1 DEF PageSnapshot, Holding, UserOfReq
<1>5. link[dev[h]] = h => /\ since[h] = cursor[dev[h]]
                          /\ got[dev[h]][r.key] <= r.seq
  BY <1>1, <1>3 DEF LinkCovers, Holding
<1>6. \A d \in Devices, k \in Keys :
        got'[d][k] = IF d = dev[h] /\ link[d] = h /\ k = r.key THEN r.seq ELSE got[d][k]
  BY <1>3 DEF SendEnvelope, TypeOK
<1>7. \A d \in Devices, k \in Keys : got[d][k] \in Nat
  BY DEF TypeOK
<1>8. \A d \in Devices, k \in Keys : got'[d][k] >= got[d][k]
  BY <1>3, <1>5, <1>6, <1>7
<1>9. \A v \in Users, k \in Keys : seqOf[v][k] \in Nat
  BY DEF TypeOK, LogTypeOK
<1>10. SeqsDistinct'
  BY <1>1 DEF SeqsDistinct
<1>11. DeviceBehind'
  BY <1>1, <1>3, <1>4, <1>6 DEF DeviceBehind
<1>12. CursorSound'
  <2> SUFFICES ASSUME NEW d \in Devices, NEW k \in Keys, seqOf[UserOf[d]][k] > 0,
                      seqOf[UserOf[d]][k] <= cursor[d]
               PROVE  got'[d][k] = seqOf[UserOf[d]][k]
    BY <1>1 DEF CursorSound
  <2>1. got[d][k] = seqOf[UserOf[d]][k]
    BY DEF CursorSound
  <2>2. ~ (d = dev[h] /\ link[d] = h /\ k = r.key)
    <3> SUFFICES ASSUME d = dev[h], link[d] = h, k = r.key PROVE FALSE
      OBVIOUS
    <3>1. cursor[d] < r.seq /\ r.seq <= seqOf[UserOf[d]][k]
      BY <1>4, <1>5
    <3>2. cursor[d] \in Nat /\ seqOf[UserOf[d]][k] \in Nat
      BY <1>3, <1>9 DEF TypeOK
    <3> QED
      BY <1>3, <3>1, <3>2
  <2> QED
    BY <1>6, <2>1, <2>2
<1>13. PageSnapshot'
  BY <1>1, <1>2 DEF PageSnapshot, UserOfReq, Holding
<1>14. LinkCovers'
  <2> SUFFICES ASSUME NEW d \in Devices, NEW g \in Handlers, link[d] = g
               PROVE  /\ dev[g] = d /\ pc[g] # "free" /\ since[g] = cursor[d]
                      /\ Holding(g) =>
                           /\ \A k \in Keys :
                                LET s == seqOf[UserOf[d]][k]
                                IN s > 0 /\ s <= upto[g] =>
                                     got'[d][k] = s \/ [key |-> k, seq |-> s] \in page'[g]
                           /\ \A q \in page'[g] : got'[d][q.key] <= q.seq
    BY <1>1 DEF LinkCovers, Holding
  <2>1. /\ dev[g] = d /\ pc[g] # "free" /\ since[g] = cursor[d]
        /\ Holding(g) =>
             /\ \A k \in Keys :
                  seqOf[UserOf[d]][k] > 0 /\ seqOf[UserOf[d]][k] <= upto[g] =>
                    \/ got[d][k] = seqOf[UserOf[d]][k]
                    \/ [key |-> k, seq |-> seqOf[UserOf[d]][k]] \in page[g]
             /\ \A q \in page[g] : got[d][q.key] <= q.seq
    BY DEF LinkCovers
  <2>2. \A q \in page[g] : q.key \in Keys /\ q.seq \in Nat
    BY DEF TypeOK, Row
  <2>3. CASE g # h
    <3>1. \A k \in Keys : got'[d][k] = got[d][k]
      BY <1>6, <2>1, <2>3
    <3> QED
      BY <1>2, <2>1, <2>2, <2>3, <3>1
  <2>4. CASE g = h
    <3>1. \A k \in Keys : got'[d][k] = IF k = r.key THEN r.seq ELSE got[d][k]
      BY <1>6, <2>1, <2>4
    <3>2. ASSUME NEW k \in Keys, seqOf[UserOf[d]][k] > 0, seqOf[UserOf[d]][k] <= upto[h]
          PROVE  \/ got'[d][k] = seqOf[UserOf[d]][k]
                 \/ [key |-> k, seq |-> seqOf[UserOf[d]][k]] \in page'[h]
      <4>1. \/ got[d][k] = seqOf[UserOf[d]][k]
            \/ [key |-> k, seq |-> seqOf[UserOf[d]][k]] \in page[h]
        BY <1>1, <2>1, <2>4, <3>2 DEF Holding
      <4>2. CASE k # r.key
        <5>1. [key |-> k, seq |-> seqOf[UserOf[d]][k]] # r
          BY <4>2
        <5> QED
          BY <1>2, <3>1, <4>1, <4>2, <5>1
      <4>3. CASE k = r.key
        <5>1. CASE got[d][k] = seqOf[UserOf[d]][k]
          <6>1. got[d][k] <= r.seq /\ r.seq <= seqOf[UserOf[d]][k]
            BY <1>4, <1>5, <2>1, <2>4, <4>3
          <6> QED
            BY <1>3, <1>7, <3>1, <4>3, <5>1, <6>1
        <5>2. CASE [key |-> k, seq |-> seqOf[UserOf[d]][k]] \in page[h]
          <6>1. r = [key |-> k, seq |-> seqOf[UserOf[d]][k]]
            BY <1>4, <4>3, <5>2
          <6> QED
            BY <3>1, <4>3, <6>1
        <5> QED
          BY <4>1, <5>1, <5>2
      <4> QED
        BY <4>2, <4>3
    <3>3. ASSUME NEW q \in page'[h]
          PROVE  got'[d][q.key] <= q.seq
      <4>1. q \in page[h] /\ q # r
        BY <1>2
      <4>2. q.key # r.key
        BY <1>4, <4>1
      <4> QED
        BY <1>1, <2>1, <2>2, <2>4, <3>1, <4>1, <4>2 DEF Holding
    <3> QED
      BY <2>1, <2>4, <3>2, <3>3
  <2> QED
    BY <2>3, <2>4
<1>15. SignalPending'
  <2> SUFFICES ASSUME NEW g \in Handlers, pc[g] \in {"send", "wait"}, ~ full[g],
                      ch[g] = 0, ~ Coming(UserOfReq(g))'
               PROVE  Newer(UserOfReq(g), upto[g])' = {}
    BY <1>1 DEF SignalPending
  <2>1. UserOfReq(g)' = UserOfReq(g) /\ ~ Coming(UserOfReq(g))
    BY <1>1 DEF Coming, UserOfReq
  <2> QED
    BY <1>1, <2>1 DEF SignalPending, Newer
<1> QED
  BY <1>8, <1>10, <1>11, <1>12, <1>13, <1>14, <1>15

\* The cursor event: the page is with the device, so its cursor is true of it.
LEMMA SendCursorStep ==
  ASSUME Inv, TypeOK', NEW h \in Handlers, SendCursor(h)
  PROVE  Inv' /\ \A d \in Devices : cursor'[d] >= cursor[d]
<1> USE DEF Inv
<1>1. /\ nextSeq' = nextSeq /\ seqOf' = seqOf /\ dev' = dev /\ page' = page
      /\ upto' = upto /\ full' = full /\ ch' = ch /\ owes' = owes /\ link' = link
      /\ got' = got /\ pc[h] = "send" /\ page[h] = {}
  BY DEF SendCursor, logVars
<1>2. /\ since'[h] = upto[h] /\ pc'[h] = IF full[h] THEN "query" ELSE "wait"
      /\ \A g \in Handlers : g # h => since'[g] = since[g] /\ pc'[g] = pc[g]
  BY DEF SendCursor, TypeOK
<1>3. dev[h] \in Devices /\ UserOf[dev[h]] \in Users
  BY <1>1, BusyHandler DEF UserOfReq
<1>4. \A d \in Devices :
        cursor'[d] = IF d = dev[h] /\ link[d] = h THEN upto[h] ELSE cursor[d]
  BY <1>3 DEF SendCursor, TypeOK
<1>5. /\ since[h] <= upto[h] /\ upto[h] <= nextSeq[UserOf[dev[h]]]
      /\ since[h] \in Nat /\ upto[h] \in Nat
  BY <1>1 DEF PageSnapshot, Holding, UserOfReq, TypeOK
<1>6. \A d \in Devices : link[d] = h => dev[h] = d /\ since[h] = cursor[d]
  BY DEF LinkCovers
<1>7. \A d \in Devices : cursor'[d] >= cursor[d]
  <2>1. \A d \in Devices : cursor[d] \in Nat
    BY DEF TypeOK
  <2> QED
    BY <1>4, <1>5, <1>6, <2>1
<1>8. SeqsDistinct'
  BY <1>1 DEF SeqsDistinct
<1>9. DeviceBehind'
  BY <1>1, <1>4, <1>5 DEF DeviceBehind
<1>10. CursorSound'
  <2> SUFFICES ASSUME NEW d \in Devices, NEW k \in Keys, seqOf[UserOf[d]][k] > 0,
                      seqOf[UserOf[d]][k] <= cursor'[d]
               PROVE  got[d][k] = seqOf[UserOf[d]][k]
    BY <1>1 DEF CursorSound
  <2>1. CASE d = dev[h] /\ link[d] = h
    BY <1>1, <1>4, <2>1 DEF LinkCovers, Holding
  <2>2. CASE ~ (d = dev[h] /\ link[d] = h)
    BY <1>4, <2>2 DEF CursorSound
  <2> QED
    BY <2>1, <2>2
<1>11. PageSnapshot'
  <2>1. \A g \in Handlers : UserOfReq(g)' = UserOfReq(g)
    BY <1>1 DEF UserOfReq
  <2>2. \A g \in Handlers : g # h => (Holding(g)' <=> Holding(g))
    BY <1>2 DEF Holding
  <2>3. UserOfReq(h) = UserOf[dev[h]]
    BY DEF UserOfReq
  <2> QED
    BY <1>1, <1>2, <1>5, <2>1, <2>2, <2>3 DEF PageSnapshot
<1>12. LinkCovers'
  <2> SUFFICES ASSUME NEW d \in Devices, NEW g \in Handlers, link[d] = g
               PROVE  /\ dev[g] = d /\ pc'[g] # "free" /\ since'[g] = cursor'[d]
                      /\ Holding(g)' =>
                           /\ \A k \in Keys :
                                LET s == seqOf[UserOf[d]][k]
                                IN s > 0 /\ s <= upto[g] =>
                                     got[d][k] = s \/ [key |-> k, seq |-> s] \in page[g]
                           /\ \A r \in page[g] : got[d][r.key] <= r.seq
    BY <1>1 DEF LinkCovers
  <2>1. CASE g = h
    BY <1>1, <1>2, <1>4, <1>6, <2>1 DEF LinkCovers, Holding
  <2>2. CASE g # h
    BY <1>2, <1>4, <2>2 DEF LinkCovers, Holding
  <2> QED
    BY <2>1, <2>2
<1>13. SignalPending'
  <2> SUFFICES ASSUME NEW g \in Handlers, pc'[g] \in {"send", "wait"}, ~ full[g],
                      ch[g] = 0, ~ Coming(UserOfReq(g))'
               PROVE  Newer(UserOfReq(g), upto[g])' = {}
    BY <1>1 DEF SignalPending
  <2>1. UserOfReq(g)' = UserOfReq(g) /\ ~ Coming(UserOfReq(g)) /\ pc[g] \in {"send", "wait"}
    BY <1>1, <1>2 DEF Coming, UserOfReq
  <2> QED
    BY <1>1, <2>1 DEF SignalPending, Newer
<1> QED
  BY <1>7, <1>8, <1>9, <1>10, <1>11, <1>12, <1>13

\* The answer of a plain pull or a poll: page and cursor arrive together.
LEMMA RespondStep ==
  ASSUME Inv, TypeOK', NEW h \in Handlers, Respond(h)
  PROVE  /\ Inv'
         /\ \A d \in Devices : cursor'[d] >= cursor[d]
         /\ \A d \in Devices, k \in Keys : got'[d][k] >= got[d][k]
<1> USE DEF Inv
<1> DEFINE u == UserOf[dev[h]]
<1>1. /\ nextSeq' = nextSeq /\ seqOf' = seqOf /\ dev' = dev /\ since' = since
      /\ upto' = upto /\ full' = full /\ ch' = ch /\ owes' = owes /\ pc[h] = "respond"
  BY DEF Respond, logVars
<1>2. /\ pc'[h] = "finish" /\ page'[h] = {}
      /\ \A g \in Handlers : g # h => pc'[g] = pc[g] /\ page'[g] = page[g]
  BY DEF Respond, TypeOK
<1>3. dev[h] \in Devices /\ u \in Users
  BY <1>1, BusyHandler DEF UserOfReq
<1>4. /\ since[h] <= upto[h] /\ upto[h] <= nextSeq[u]
      /\ since[h] \in Nat /\ upto[h] \in Nat
      /\ \A r \in page[h] : r.seq <= seqOf[u][r.key] /\ r.key \in Keys /\ r.seq \in Nat
      /\ \A r, q \in page[h] : r.key = q.key => r = q
  BY <1>1 DEF PageSnapshot, Holding, UserOfReq, TypeOK, Row
<1>5. \A k \in Keys : seqOf[u][k] \in Nat
  BY <1>3 DEF TypeOK, LogTypeOK
<1>6. \A d \in Devices : d # dev[h] \/ link[d] # h =>
        got'[d] = got[d] /\ cursor'[d] = cursor[d] /\ link'[d] = link[d]
  BY <1>3 DEF Respond, TypeOK, deviceVars
<1>7. ASSUME NEW d \in Devices, link[d] = h
      PROVE  /\ d = dev[h] /\ since[h] = cursor[d] /\ cursor'[d] = upto[h]
             /\ link'[d] = NoHandler
             /\ \A k \in Keys : seqOf[u][k] > 0 /\ seqOf[u][k] <= upto[h] =>
                                 got'[d][k] = seqOf[u][k]
             /\ \A k \in Keys : got[d][k] <= got'[d][k] /\ got'[d][k] <= seqOf[u][k]
  <2>1. /\ dev[h] = d /\ since[h] = cursor[d]
        /\ \A k \in Keys : seqOf[u][k] > 0 /\ seqOf[u][k] <= upto[h] =>
             got[d][k] = seqOf[u][k] \/ [key |-> k, seq |-> seqOf[u][k]] \in page[h]
        /\ \A r \in page[h] : got[d][r.key] <= r.seq
    BY <1>1, <1>7 DEF LinkCovers, Holding
  <2>2. /\ cursor'[d] = upto[h] /\ link'[d] = NoHandler
        /\ got'[d] = [k \in Keys |-> IF \E r \in page[h] : r.key = k
                                     THEN (CHOOSE r \in page[h] : r.key = k).seq ELSE got[d][k]]
    BY <1>7, <2>1 DEF Respond, TypeOK
  <2> HIDE DEF u
  <2>3. ASSUME NEW r \in page[h]
        PROVE  got'[d][r.key] = r.seq
    <3>1. (CHOOSE q \in page[h] : q.key = r.key) = r
      BY <1>4
    <3> QED
      BY <1>4, <2>2, <3>1
  <2>4. ASSUME NEW k \in Keys, ~ \E r \in page[h] : r.key = k
        PROVE  got'[d][k] = got[d][k]
    BY <2>2, <2>4
  <2>5. u = UserOf[d]
    BY <2>1 DEF u
  <2>6. ASSUME NEW k \in Keys
        PROVE  /\ seqOf[u][k] > 0 /\ seqOf[u][k] <= upto[h] => got'[d][k] = seqOf[u][k]
               /\ got[d][k] <= got'[d][k] /\ got'[d][k] <= seqOf[u][k]
    <3>1. got[d][k] <= seqOf[u][k] /\ got[d][k] \in Nat /\ seqOf[u][k] \in Nat
      BY <1>5, <2>5 DEF DeviceBehind, TypeOK
    <3>2. CASE ~ \E r \in page[h] : r.key = k
      <4>1. [key |-> k, seq |-> seqOf[u][k]] \notin page[h]
        BY <3>2
      <4>2. got'[d][k] = got[d][k]
        BY <2>4, <3>2
      <4>3. seqOf[u][k] > 0 /\ seqOf[u][k] <= upto[h] => got[d][k] = seqOf[u][k]
        BY <2>1, <4>1 DEF u
      <4> QED
        BY <3>1, <4>2, <4>3
    <3>3. ASSUME NEW r \in page[h], r.key = k
          PROVE  /\ seqOf[u][k] > 0 /\ seqOf[u][k] <= upto[h] => got'[d][k] = seqOf[u][k]
                 /\ got[d][k] <= got'[d][k] /\ got'[d][k] <= seqOf[u][k]
      <4>1. got'[d][k] = r.seq /\ got[d][k] <= r.seq /\ r.seq <= seqOf[u][k] /\ r.seq \in Nat
        BY <1>4, <2>1, <2>3, <3>3
      <4>2. ASSUME [key |-> k, seq |-> seqOf[u][k]] \in page[h]
            PROVE  r.seq = seqOf[u][k]
        <5>1. r = [key |-> k, seq |-> seqOf[u][k]]
          BY <1>4, <3>3, <4>2
        <5> QED
          BY <5>1
      <4>3. seqOf[u][k] > 0 /\ seqOf[u][k] <= upto[h] =>
              got[d][k] = seqOf[u][k] \/ [key |-> k, seq |-> seqOf[u][k]] \in page[h]
        BY <2>1 DEF u
      <4> QED
        BY <3>1, <4>1, <4>2, <4>3
    <3> QED
      BY <3>2, <3>3
  <2> QED
    BY <2>1, <2>2, <2>6
<1>8. /\ \A d \in Devices : cursor[d] \in Nat
      /\ \A d \in Devices, k \in Keys : got[d][k] \in Nat
  BY DEF TypeOK
<1>9. \A d \in Devices : cursor'[d] >= cursor[d]
  BY <1>4, <1>6, <1>7, <1>8
<1>10. \A d \in Devices, k \in Keys : got'[d][k] >= got[d][k]
  <2>1. ASSUME NEW d \in Devices, NEW k \in Keys
        PROVE  got'[d][k] >= got[d][k]
    <3>1. CASE link[d] = h
      <4>1. got[d][k] <= got'[d][k]
        BY <1>7, <3>1
      <4>2. got[d][k] \in Nat /\ got'[d][k] \in Nat
        BY DEF TypeOK
      <4> QED
        BY <4>1, <4>2
    <3>2. CASE link[d] # h
      BY <1>6, <1>8, <3>2
    <3> QED
      BY <3>1, <3>2
  <2> QED
    BY <2>1
<1>11. SeqsDistinct'
  BY <1>1 DEF SeqsDistinct
<1>12. DeviceBehind'
  <2> SUFFICES ASSUME NEW d \in Devices
               PROVE  /\ cursor'[d] <= nextSeq[UserOf[d]]
                      /\ \A k \in Keys : got'[d][k] <= seqOf[UserOf[d]][k]
    BY <1>1 DEF DeviceBehind
  <2>1. CASE link[d] = h
    BY <1>4, <1>7, <2>1
  <2>2. CASE link[d] # h
    BY <1>6, <2>2 DEF DeviceBehind
  <2> QED
    BY <2>1, <2>2
<1>13. CursorSound'
  <2> SUFFICES ASSUME NEW d \in Devices, NEW k \in Keys, seqOf[UserOf[d]][k] > 0,
                      seqOf[UserOf[d]][k] <= cursor'[d]
               PROVE  got'[d][k] = seqOf[UserOf[d]][k]
    BY <1>1 DEF CursorSound
  <2>1. CASE link[d] = h
    BY <1>7, <2>1
  <2>2. CASE link[d] # h
    BY <1>6, <2>2 DEF CursorSound
  <2> QED
    BY <2>1, <2>2
<1>14. PageSnapshot'
  <2>1. \A g \in Handlers : UserOfReq(g)' = UserOfReq(g)
    BY <1>1 DEF UserOfReq
  <2>2. \A g \in Handlers : g # h => (Holding(g)' <=> Holding(g))
    BY <1>2 DEF Holding
  <2>3. ~ Holding(h)' /\ pc'[h] # "wait" /\ pc[h] # "free"
    BY <1>1, <1>2 DEF Holding
  <2> QED
    BY <1>1, <1>2, <2>1, <2>2, <2>3 DEF PageSnapshot
<1>15. LinkCovers'
  <2> SUFFICES ASSUME NEW d \in Devices, NEW g \in Handlers, link'[d] = g
               PROVE  /\ dev[g] = d /\ pc'[g] # "free" /\ since[g] = cursor'[d]
                      /\ Holding(g)' =>
                           /\ \A k \in Keys :
                                LET s == seqOf[UserOf[d]][k]
                                IN s > 0 /\ s <= upto[g] =>
                                     got'[d][k] = s \/ [key |-> k, seq |-> s] \in page'[g]
                           /\ \A r \in page'[g] : got'[d][r.key] <= r.seq
    BY <1>1 DEF LinkCovers
  <2>1. link[d] = g /\ g # h
    BY <1>6, <1>7, PullAssumption
  <2>2. got'[d] = got[d] /\ cursor'[d] = cursor[d]
    BY <1>6, <2>1
  <2>3. pc'[g] = pc[g] /\ page'[g] = page[g]
    BY <1>2, <2>1
  <2> QED
    BY <2>1, <2>2, <2>3 DEF LinkCovers, Holding
<1>16. SignalPending'
  <2> SUFFICES ASSUME NEW g \in Handlers, pc'[g] \in {"send", "wait"}, ~ full[g],
                      ch[g] = 0, ~ Coming(UserOfReq(g))'
               PROVE  Newer(UserOfReq(g), upto[g])' = {}
    BY <1>1 DEF SignalPending
  <2>1. UserOfReq(g)' = UserOfReq(g) /\ ~ Coming(UserOfReq(g)) /\ pc[g] \in {"send", "wait"}
    BY <1>1, <1>2 DEF Coming, UserOfReq
  <2> QED
    BY <1>1, <2>1 DEF SignalPending, Newer
<1> QED
  BY <1>9, <1>10, <1>11, <1>12, <1>13, <1>14, <1>15, <1>16

\* The end of a request, and the end of the process: devices keep what they have.
LEMMA FinishStep ==
  ASSUME Inv, TypeOK', NEW h \in Handlers, Finish(h)
  PROVE  Inv'
<1> USE DEF Inv
<1>1. /\ nextSeq' = nextSeq /\ seqOf' = seqOf /\ owes' = owes /\ cursor' = cursor
      /\ got' = got /\ pc'[h] = "free"
  BY DEF Finish, logVars, TypeOK
<1>2. \A g \in Handlers : g # h =>
        /\ pc'[g] = pc[g] /\ dev'[g] = dev[g] /\ since'[g] = since[g] /\ page'[g] = page[g]
        /\ upto'[g] = upto[g] /\ full'[g] = full[g] /\ ch'[g] = ch[g]
  BY DEF Finish, TypeOK
<1>3. \A d \in Devices, g \in Handlers : link'[d] = g => link[d] = g /\ g # h
  <2>1. dev[h] \in Devices
    BY BusyHandler DEF Finish
  <2>2. \A d \in Devices : link'[d] = IF d = dev[h] /\ link[d] = h THEN NoHandler ELSE link[d]
    BY <2>1 DEF Finish, TypeOK
  <2>3. \A d \in Devices : link[d] = h => dev[h] = d
    BY DEF LinkCovers
  <2> QED
    BY <2>2, <2>3, PullAssumption
<1>4. SeqsDistinct' /\ DeviceBehind' /\ CursorSound'
  BY <1>1 DEF SeqsDistinct, DeviceBehind, CursorSound
<1>5. PageSnapshot'
  <2>1. \A g \in Handlers : g # h => UserOfReq(g)' = UserOfReq(g) /\ (Holding(g)' <=> Holding(g))
    BY <1>2 DEF UserOfReq, Holding
  <2>2. ~ Holding(h)' /\ pc'[h] # "wait"
    BY <1>1 DEF Holding
  <2> QED
    BY <1>1, <1>2, <2>1, <2>2 DEF PageSnapshot
<1>6. LinkCovers'
  <2> SUFFICES ASSUME NEW d \in Devices, NEW g \in Handlers, link'[d] = g
               PROVE  /\ dev'[g] = d /\ pc'[g] # "free" /\ since'[g] = cursor[d]
                      /\ Holding(g)' =>
                           /\ \A k \in Keys :
                                LET s == seqOf[UserOf[d]][k]
                                IN s > 0 /\ s <= upto'[g] =>
                                     got[d][k] = s \/ [key |-> k, seq |-> s] \in page'[g]
                           /\ \A r \in page'[g] : got[d][r.key] <= r.seq
    BY <1>1 DEF LinkCovers
  <2>1. link[d] = g /\ g # h
    BY <1>3
  <2> QED
    BY <1>2, <2>1 DEF LinkCovers, Holding
<1>7. SignalPending'
  <2> SUFFICES ASSUME NEW g \in Handlers, pc'[g] \in {"send", "wait"}, ~ full'[g],
                      ch'[g] = 0, ~ Coming(UserOfReq(g))'
               PROVE  Newer(UserOfReq(g), upto[g])' = {}
    BY DEF SignalPending
  <2>1. g # h
    BY <1>1
  <2>2. UserOfReq(g)' = UserOfReq(g)
    BY <1>2, <2>1 DEF UserOfReq
  <2>3. ~ Coming(UserOfReq(g))
    BY <1>1, <2>2 DEF Coming
  <2> QED
    BY <1>1, <1>2, <2>1, <2>2, <2>3 DEF SignalPending, Newer
<1> QED
  BY <1>4, <1>5, <1>6, <1>7

LEMMA RestartStep ==
  ASSUME Inv, TypeOK', Restart
  PROVE  Inv'
<1> USE DEF Inv, Restart, logVars
<1>1. SeqsDistinct' /\ DeviceBehind' /\ CursorSound'
  BY DEF SeqsDistinct, DeviceBehind, CursorSound
<1>2. PageSnapshot' /\ SignalPending'
  BY DEF PageSnapshot, SignalPending, Holding
<1>3. LinkCovers'
  BY PullAssumption DEF LinkCovers
<1> QED
  BY <1>1, <1>2, <1>3

\* Every step keeps the invariant and takes no device backwards.
LEMMA InvStep ==
  Inv /\ [Next]_vars =>
    /\ Inv'
    /\ \A d \in Devices :
         /\ cursor'[d] >= cursor[d]
         /\ \A k \in Keys : got'[d][k] >= got[d][k]
<1> DEFINE Forward == \A d \in Devices :
                        /\ cursor'[d] >= cursor[d]
                        /\ \A k \in Keys : got'[d][k] >= got[d][k]
<1> SUFFICES ASSUME Inv, [Next]_vars PROVE Inv' /\ Forward
  OBVIOUS
<1>1. TypeOK'
  BY TypeStep DEF Inv
<1>2. \A d \in Devices : cursor[d] \in Nat /\ \A k \in Keys : got[d][k] \in Nat
  BY DEF Inv, TypeOK
<1>3. ASSUME UNCHANGED <<cursor, got>> PROVE Forward
  BY <1>2, <1>3
<1>4. ASSUME NEW p \in Pushers, NEW u \in Users, NEW n \in 1..MaxBatch, NEW W \in SUBSET Keys,
             NEW pos \in Positions(W, n), CommitPush(p, u, n, pos)
      PROVE  Inv' /\ Forward
  BY <1>1, <1>3, <1>4, CommitStep DEF CommitPush, deviceVars
<1>5. ASSUME NEW p \in Pushers, Notify(p) PROVE Inv' /\ Forward
  BY <1>1, <1>3, <1>5, NotifyStep DEF Notify, deviceVars
<1>6. ASSUME NEW h \in Handlers, NEW d \in Devices, NEW m \in Modes, Open(h, d, m)
      PROVE  Inv' /\ Forward
  BY <1>1, <1>3, <1>6, OpenStep DEF Open
<1>7. ASSUME NEW h \in Handlers, Query(h) PROVE Inv' /\ Forward
  <2>1. /\ pc[h] = "query" /\ mode[h] \in {"plain", "poll", "sse"}
        /\ UNCHANGED <<logVars, mode, dev, since, waiters, ch, owes, deviceVars>>
    BY <1>7 DEF Query, Inv, TypeOK
  <2>2. \/ Fetch(h, "send", "send") \/ Fetch(h, "wait", "respond")
        \/ Fetch(h, "respond", "respond")
    BY <1>7, <2>1 DEF Query
  <2>3. Inv'
    BY <1>1, <2>1, <2>2, FetchStep
  <2> QED
    BY <1>3, <2>1, <2>3 DEF deviceVars
<1>8. ASSUME NEW h \in Handlers, Requery(h) PROVE Inv' /\ Forward
  <2>1. /\ pc[h] # "free" /\ Fetch(h, "respond", "respond")
        /\ UNCHANGED <<logVars, mode, dev, since, waiters, ch, owes, deviceVars>>
    BY <1>8 DEF Requery
  <2>2. Inv'
    BY <1>1, <2>1, FetchStep
  <2> QED
    BY <1>3, <2>1, <2>2 DEF deviceVars
<1>9. ASSUME NEW h \in Handlers, Respond(h) PROVE Inv' /\ Forward
  BY <1>1, <1>9, RespondStep
<1>10. ASSUME NEW h \in Handlers, NEW r \in page[h], SendEnvelope(h, r) PROVE Inv' /\ Forward
  <2>1. cursor' = cursor
    BY <1>10 DEF SendEnvelope
  <2> QED
    BY <1>1, <1>2, <1>10, <2>1, SendEnvelopeStep
<1>11. ASSUME NEW h \in Handlers, SendCursor(h) PROVE Inv' /\ Forward
  <2>1. got' = got
    BY <1>11 DEF SendCursor
  <2> QED
    BY <1>1, <1>2, <1>11, <2>1, SendCursorStep
<1>12. ASSUME NEW h \in Handlers, Finish(h) PROVE Inv' /\ Forward
  BY <1>1, <1>3, <1>12, FinishStep DEF Finish
<1>13. CASE Restart
  BY <1>1, <1>3, <1>13, RestartStep DEF Restart
<1>14. ASSUME NEW h \in Handlers,
              \/ Subscribe(h) \/ QueryFails(h) \/ PollTimeout(h)
              \/ PollAbandoned(h) \/ Wake(h) \/ StreamBreaks(h)
       PROVE  Inv' /\ Forward
  <2>1. UNCHANGED <<cursor, got>>
    BY <1>14 DEF Subscribe, QueryFails, PollTimeout, PollAbandoned, Wake, StreamBreaks, deviceVars
  <2> QED
    BY <1>1, <1>3, <1>14, <2>1, ControlSteps
<1>15. ASSUME NEW d \in Devices, Drop(d) PROVE Inv' /\ Forward
  BY <1>1, <1>3, <1>15, ControlSteps DEF Drop
<1>16. CASE UNCHANGED vars
  BY <1>1, <1>3, <1>16, ControlSteps DEF vars, deviceVars
<1> HIDE DEF Forward
<1> QED
  BY <1>4, <1>5, <1>6, <1>7, <1>8, <1>9, <1>10, <1>11, <1>12, <1>13, <1>14, <1>15, <1>16
     DEF Next, HandlerStep

THEOREM InvCorrect == Spec => []Inv
BY InvInit, InvStep, PTL DEF Spec

\* A device has the current version of every row at or below its cursor.
THEOREM CursorCorrect == Spec => []CursorSound
<1>1. Inv => CursorSound
  BY DEF Inv
<1> QED
  BY <1>1, InvCorrect, PTL

\* A request never waits on a row nobody will tell it of.
THEOREM NoWakeupLost == Spec => []NoLostWakeup
<1>1. Inv => NoLostWakeup
  BY DEF Inv, NoLostWakeup, SignalPending, PageSnapshot
<1> QED
  BY <1>1, InvCorrect, PTL

\* A user's rows never share a number, whatever pulls and restarts go on.
THEOREM SeqsStayDistinct == Spec => []SeqsDistinct
<1>1. Inv => SeqsDistinct
  BY DEF Inv
<1> QED
  BY <1>1, InvCorrect, PTL

\* No delivery takes a device back.
THEOREM ForwardOnly == Spec => NeverBackwards
<1>1. Inv /\ [Next]_vars =>
        [\A d \in Devices :
           /\ cursor'[d] >= cursor[d]
           /\ \A k \in Keys : got'[d][k] >= got[d][k]]_vars
  BY InvStep
<1> QED
  BY <1>1, InvCorrect, PTL DEF Spec, NeverBackwards
-----------------------------------------------------------------------------
(* What follows for the log and for a device that has nothing left to read *)

LEMMA StepKeepsLog == [Next]_vars => [LogNext]_logVars
<1> SUFFICES ASSUME [Next]_vars PROVE LogNext \/ UNCHANGED logVars
  OBVIOUS
<1>1. ASSUME NEW p \in Pushers, NEW u \in Users, NEW n \in 1..MaxBatch, NEW W \in SUBSET Keys,
             NEW pos \in Positions(W, n), CommitPush(p, u, n, pos)
      PROVE  LogNext
  BY <1>1 DEF CommitPush, LogNext
<1>2. ASSUME NEW h \in Handlers, HandlerStep(h) PROVE UNCHANGED logVars
  BY <1>2 DEF HandlerStep, Subscribe, Query, Requery, Respond, PollTimeout, Wake,
       SendEnvelope, SendCursor, Finish
<1> QED
  BY <1>1, <1>2
     DEF Next, Notify, Open, QueryFails, PollAbandoned, StreamBreaks, Drop, Restart, vars

\* Pulls, notifications, devices that vanish and restarts leave the log as the
\* store promises it: what is proved of the log holds beneath them.
THEOREM PullsKeepTheLog == Spec => LogSpec
<1>1. Init => LogInit
  BY DEF Init
<1> QED
  BY <1>1, StepKeepsLog, PTL DEF Spec, LogSpec

\* A device whose cursor has nothing above it holds the version of every row
\* that is stored now, and nothing else.
UpToDate(d) == got[d] = seqOf[UserOf[d]]

LEMMA NothingNewer ==
  ASSUME Inv, NEW d \in Devices, Newer(UserOf[d], cursor[d]) = {}
  PROVE  UpToDate(d)
<1>1. /\ got \in [Devices -> [Keys -> Nat]] /\ seqOf \in [Users -> [Keys -> Nat]]
      /\ cursor \in [Devices -> Nat] /\ UserOf[d] \in Users
  BY PullAssumption DEF Inv, TypeOK, LogTypeOK
<1>2. ASSUME NEW k \in Keys PROVE got[d][k] = seqOf[UserOf[d]][k]
  <2> DEFINE s == seqOf[UserOf[d]][k]
  <2>1. s \in Nat /\ got[d][k] \in Nat /\ cursor[d] \in Nat
    BY <1>1
  <2>2. s <= cursor[d]
    BY <2>1 DEF Newer
  <2>3. s > 0 => got[d][k] = s
    BY <2>2 DEF Inv, CursorSound
  <2>4. got[d][k] <= s
    BY DEF Inv, DeviceBehind
  <2> HIDE DEF s
  <2>5. s = 0 => got[d][k] = s
    BY <2>1, <2>4
  <2>6. got[d][k] = s
    BY <2>1, <2>3, <2>5
  <2> QED
    BY <2>6 DEF s
<1>3. got[d] \in [Keys -> Nat] /\ seqOf[UserOf[d]] \in [Keys -> Nat]
  BY <1>1
<1> QED
  BY <1>2, <1>3 DEF UpToDate

\* An empty answer to a pull is the truth: a device for which the next query
\* would find nothing holds exactly what is stored.
THEOREM NothingNewerIsUpToDate ==
  Spec => [](\A d \in Devices : Newer(UserOf[d], cursor[d]) = {} => UpToDate(d))
<1>1. Inv => \A d \in Devices : Newer(UserOf[d], cursor[d]) = {} => UpToDate(d)
  BY NothingNewer
<1> QED
  BY <1>1, InvCorrect, PTL

\* A device whose live request is quiet, that is, waits without a signal and
\* without a push of the user between commit and notification, holds exactly
\* what is stored.  StreamDelivers adds that requests become quiet.
THEOREM QuietIsUpToDate ==
  Spec => [](\A d \in Devices, h \in Handlers :
               link[d] = h /\ pc[h] = "wait" /\ ch[h] = 0 /\ ~ Coming(UserOf[d]) => UpToDate(d))
<1>1. Inv => \A d \in Devices, h \in Handlers :
        link[d] = h /\ pc[h] = "wait" /\ ch[h] = 0 /\ ~ Coming(UserOf[d]) => UpToDate(d)
  <2> SUFFICES ASSUME Inv, NEW d \in Devices, NEW h \in Handlers, link[d] = h,
                      pc[h] = "wait", ch[h] = 0, ~ Coming(UserOf[d])
               PROVE  Newer(UserOf[d], cursor[d]) = {}
    BY NothingNewer
  <2>1. dev[h] = d /\ since[h] = cursor[d]
    BY DEF Inv, LinkCovers
  <2>2. ~ Coming(UserOfReq(h))
    BY <2>1 DEF UserOfReq
  <2>3. Newer(UserOfReq(h), since[h]) = {}
    BY <2>2 DEF Inv, SignalPending, PageSnapshot
  <2> QED
    BY <2>1, <2>3 DEF UserOfReq
<1> QED
  BY <1>1, InvCorrect, PTL
=============================================================================
