-------------------------- MODULE LifecycleProofs --------------------------
(***************************************************************************)
(* Theorems about the end of runMain, for any sets of concurrent requests  *)
(* on the two listeners, whatever fails, is signalled or runs out of time, *)
(* and over any number of starts.                                          *)
(***************************************************************************)
EXTENDS Lifecycle, TLAPS

FlagsOK ==
  /\ signalled \in BOOLEAN
  /\ failed \in BOOLEAN
  /\ expired \in BOOLEAN
  /\ ticking \in BOOLEAN

ProcessOK ==
  /\ phase \in {"up", "sync", "admin", "close", "exited"}
  /\ listening \subseteq {"sync", "admin"}
  /\ request \in [Requests -> {"none", "short", "stream"}]
  /\ pools \subseteq {"write", "read"}
  /\ code \in {0, 1}

\* What has stopped in each phase of the shutdown.
PhaseOK ==
  /\ phase = "sync" => "sync" \notin listening
  /\ phase \in {"admin", "close", "exited"} => listening = {} /\ ticking = FALSE
  /\ phase \in {"up", "sync", "admin"} => pools = {"write", "read"}

LEMMA TypeParts == TypeOK <=> FlagsOK /\ ProcessOK /\ PhaseOK
<1>1. {signalled, failed, expired, ticking} \subseteq BOOLEAN <=> FlagsOK
  BY DEF FlagsOK
<1>2. ticking \in BOOLEAN => (ticking = FALSE <=> ~ ticking)
  OBVIOUS
<1> QED
  BY <1>1, <1>2 DEF TypeOK, FlagsOK, ProcessOK, PhaseOK

LEMMA FlagsStep == FlagsOK /\ [Next]_vars => FlagsOK'
BY Zenon DEF FlagsOK, Next, Start, Connect, Answer, Leave, Signal, ListenerFails, Shutdown,
   BeginShutdown, Expire, SyncShutdown, AdminShutdown, ClosePool, Exit, vars

LEMMA ProcessStep == ProcessOK /\ PhaseOK /\ [Next]_vars => ProcessOK' /\ PhaseOK'
<1> SUFFICES ASSUME ProcessOK, PhaseOK, [Next]_vars PROVE ProcessOK' /\ PhaseOK'
  OBVIOUS
<1>1. CASE Start
  BY <1>1 DEF Start, ProcessOK, PhaseOK
<1>2. ASSUME NEW r \in Requests, NEW kind \in {"short", "stream"}, Connect(r, kind)
      PROVE  ProcessOK' /\ PhaseOK'
  BY <1>2 DEF Connect, ProcessOK, PhaseOK
<1>3. ASSUME NEW r \in Requests, Answer(r) \/ Leave(r) PROVE ProcessOK' /\ PhaseOK'
  BY <1>3 DEF Answer, Leave, ProcessOK, PhaseOK
<1>4. CASE Signal
  BY <1>4 DEF Signal, ProcessOK, PhaseOK
<1>5. ASSUME NEW l \in listening, ListenerFails(l) PROVE ProcessOK' /\ PhaseOK'
  BY <1>5 DEF ListenerFails, ProcessOK, PhaseOK
<1>6. CASE BeginShutdown
  BY <1>6 DEF BeginShutdown, ProcessOK, PhaseOK
<1>7. CASE Expire
  BY <1>7 DEF Expire, ProcessOK, PhaseOK
<1>8. CASE SyncShutdown
  BY <1>8 DEF SyncShutdown, ProcessOK, PhaseOK
<1>9. CASE AdminShutdown
  BY <1>9 DEF AdminShutdown, ProcessOK, PhaseOK
<1>10. ASSUME NEW p \in {"write", "read"}, ClosePool(p) PROVE ProcessOK' /\ PhaseOK'
  BY <1>10 DEF ClosePool, ProcessOK, PhaseOK
<1>11. CASE Exit
  BY <1>11 DEF Exit, ProcessOK, PhaseOK
<1>12. CASE UNCHANGED vars
  BY <1>12 DEF vars, ProcessOK, PhaseOK
<1> QED
  BY <1>1, <1>2, <1>3, <1>4, <1>5, <1>6, <1>7, <1>8, <1>9, <1>10, <1>11, <1>12
     DEF Next, Shutdown

LEMMA TypeInit == Init => TypeOK
<1> SUFFICES ASSUME Init PROVE FlagsOK /\ ProcessOK /\ PhaseOK
  BY TypeParts
<1>1. FlagsOK
  BY DEF Init, FlagsOK
<1>2. ProcessOK /\ PhaseOK
  BY DEF Init, ProcessOK, PhaseOK
<1> QED
  BY <1>1, <1>2

LEMMA TypeStep == TypeOK /\ [Next]_vars => TypeOK'
<1> SUFFICES ASSUME TypeOK, [Next]_vars PROVE TypeOK'
  OBVIOUS
<1>1. FlagsOK' /\ ProcessOK' /\ PhaseOK'
  BY TypeParts, FlagsStep, ProcessStep
<1>2. {signalled, failed, expired, ticking}' \subseteq BOOLEAN
  BY <1>1 DEF FlagsOK
<1>3. ticking' = FALSE => ~ ticking'
  OBVIOUS
<1> QED
  BY <1>1, <1>2, <1>3 DEF TypeOK, ProcessOK, PhaseOK

\* The types, and: a listener whose Shutdown has been called accepts nothing
\* more, the snapshot goroutine does not outlive its server, and the pools stay
\* open until both shutdowns have returned.
THEOREM TypeCorrect == Spec => []TypeOK
<1> QED
  BY TypeInit, TypeStep, PTL DEF Spec
-----------------------------------------------------------------------------
(* Who is answered *)

\* Before the context is done, a Shutdown has returned only because the
\* requests of its listener had ended; nothing new can come after, since that
\* listener was closed first.
Drained ==
  expired # TRUE =>
    /\ phase \in {"admin", "close"} => Pending(SyncRequests) = {}
    /\ phase = "close" => Pending(AdminRequests) = {}

LEMMA PendingNone ==
  ASSUME NEW R
  PROVE  Pending(R) = {} <=> \A r \in R : request[r] = "none"
BY DEF Pending

LEMMA DrainedStep == TypeOK /\ Drained /\ [Next]_vars => Drained'
<1> SUFFICES ASSUME TypeOK, Drained, [Next]_vars PROVE Drained'
  OBVIOUS
<1>1. ProcessOK /\ PhaseOK
  BY TypeParts
<1>2. CASE Start
  BY <1>2 DEF Start, Drained
<1>3. ASSUME NEW r \in Requests, NEW kind \in {"short", "stream"}, Connect(r, kind)
      PROVE  Drained'
  <2>1. listening # {}
    BY <1>3 DEF Connect
  <2>2. phase' \notin {"admin", "close"}
    BY <1>1, <1>3, <2>1 DEF Connect, PhaseOK
  <2> QED
    BY <2>2 DEF Drained
<1>4. ASSUME NEW r \in Requests, Answer(r) \/ Leave(r) PROVE Drained'
  <2>1. \A q \in Requests : request[q] = "none" => request'[q] = "none"
    BY <1>1, <1>4 DEF Answer, Leave, ProcessOK
  <2>2. UNCHANGED <<phase, expired>>
    BY <1>4 DEF Answer, Leave
  <2> QED
    BY <2>1, <2>2 DEF Drained, Pending, Requests
<1>5. CASE BeginShutdown
  BY <1>5 DEF BeginShutdown, Drained
<1>6. CASE Expire
  BY <1>6 DEF Expire, Drained
<1>7. CASE SyncShutdown
  <2>1. phase' = "admin" /\ UNCHANGED <<request, expired>>
    BY <1>7 DEF SyncShutdown
  <2>2. expired # TRUE => Pending(SyncRequests) = {}
    BY <1>7 DEF SyncShutdown
  <2> QED
    BY <2>1, <2>2 DEF Drained, Pending
<1>8. CASE AdminShutdown
  <2>1. phase = "admin" /\ phase' = "close" /\ UNCHANGED <<request, expired>>
    BY <1>8 DEF AdminShutdown
  <2>2. expired # TRUE => Pending(AdminRequests) = {}
    BY <1>8 DEF AdminShutdown
  <2> QED
    BY <2>1, <2>2 DEF Drained, Pending
<1>9. CASE Exit
  BY <1>9 DEF Exit, Drained
<1>10. ASSUME UNCHANGED <<phase, request, expired>> PROVE Drained'
  BY <1>10 DEF Drained, Pending
<1> QED
  BY <1>2, <1>3, <1>4, <1>5, <1>6, <1>7, <1>8, <1>9, <1>10
     DEF Next, Shutdown, Signal, ListenerFails, ClosePool, vars

\* A pool is taken from a request that is still being served only after the
\* shutdown context has run out: whatever stops the service, on whichever
\* listener, a request that ends in time finds the store open.
THEOREM PoolsOutliveRequests == Spec => []ClosedInTime
<1>1. Init => Drained
  BY DEF Init, Drained
<1>2. TypeOK /\ Drained => ClosedInTime
  <2> SUFFICES ASSUME TypeOK, Drained, Serving, pools # {"write", "read"}, ~ expired
               PROVE  FALSE
    BY DEF ClosedInTime
  <2>1. phase = "close"
    BY TypeParts DEF ProcessOK, PhaseOK, Serving
  <2>2. Pending(SyncRequests) = {} /\ Pending(AdminRequests) = {}
    BY <2>1 DEF Drained
  <2>3. Pending(Requests) = {}
    BY <2>2 DEF Pending, Requests
  <2> QED
    BY <2>3 DEF Serving
<1> QED
  BY TypeCorrect, DrainedStep, <1>1, <1>2, PTL DEF Spec
=============================================================================
