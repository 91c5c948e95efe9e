---------------------------- MODULE OriginProofs ----------------------------
(***************************************************************************)
(* Theorems about the store origin, for any origins and any number of      *)
(* concurrent requests.  That a name stays and that a store serves one     *)
(* application from the start holds for one hello at a time only, and that *)
(* is the assumption two of the theorems state; the last section says what *)
(* holds without it.                                                       *)
(***************************************************************************)
EXTENDS Origin, TLAPS

\* Only an open store is imprinted, and the configuration does not change while
\* a request is under way.
PInv ==
  /\ TypeOK
  /\ AuthoredPinned
  /\ \A r \in Requests : pc[r] = "write" => authored = NoOrigin

\* Who is imprinted, and who is let through.
LEMMA VerdictFacts ==
  ASSUME NEW r
  PROVE  LET v == Verdict(request[r], meta, r \in Hellos)
         IN /\ v \in {"ok", "refused", "write"}
            /\ v = "write" =>
                 authored = NoOrigin /\ meta = NoOrigin /\ request[r] # NoOrigin /\ r \in Hellos
            /\ v = "ok" => IF authored # NoOrigin THEN request[r] = authored
                           ELSE request[r] = NoOrigin \/ request[r] = meta
BY DEF Verdict

LEMMA PInit == Init => PInv
BY OriginAssumption DEF Init, PInv, TypeOK, AuthoredPinned

LEMMA PStep == PInv /\ [Next]_vars => PInv'
<1> SUFFICES ASSUME PInv, [Next]_vars PROVE PInv'
  OBVIOUS
<1> USE DEF PInv, TypeOK, AuthoredPinned
<1>1. ASSUME NEW a \in Origins \cup {NoOrigin}, Start(a) PROVE PInv'
  BY <1>1 DEF Start
<1>2. CASE Stop
  BY <1>2 DEF Stop
<1>3. ASSUME NEW r \in Requests, NEW o \in Origins \cup {NoOrigin}, Arrive(r, o) PROVE PInv'
  BY <1>3 DEF Arrive
<1>4. ASSUME NEW r \in Requests, Check(r) PROVE PInv'
  <2> DEFINE v == Verdict(request[r], meta, r \in Hellos)
  <2>1. pc[r] = "check" /\ pc' = [pc EXCEPT ![r] = v]
        /\ ((v = "ok" /\ Admit(r)) \/ served' = served)
        /\ meta' = meta /\ up' = up /\ authored' = authored /\ request' = request
    BY <1>4 DEF Check
  <2>2. /\ v \in {"ok", "refused", "write"}
        /\ v = "write" => authored = NoOrigin /\ request[r] # NoOrigin /\ r \in Hellos
        /\ v = "ok" => IF authored # NoOrigin THEN request[r] = authored
                       ELSE request[r] = NoOrigin \/ request[r] = meta
    BY VerdictFacts
  <2> HIDE DEF v
  <2>3. served' \subseteq Origins
    BY <2>1 DEF Admit
  <2>4. TypeOK'
    BY <2>1, <2>2, <2>3
  <2>5. AuthoredPinned'
    BY <2>1, <2>2
  <2> QED
    BY <2>1, <2>2, <2>4, <2>5
<1>5. ASSUME NEW r \in Requests, Imprint(r) PROVE PInv'
  <2>1. served' \subseteq Origins
    BY <1>5 DEF Imprint, Admit
  <2> QED
    BY <1>5, <2>1 DEF Imprint
<1>6. ASSUME NEW r \in Requests, MetaFails(r) PROVE PInv'
  BY <1>6 DEF MetaFails
<1>7. ASSUME NEW r \in Requests, Answer(r) PROVE PInv'
  BY <1>7 DEF Answer
<1>8. CASE UNCHANGED vars
  BY <1>8 DEF vars
<1> QED
  BY <1>1, <1>2, <1>3, <1>4, <1>5, <1>6, <1>7, <1>8 DEF Next

LEMMA Pinned == Spec => []PInv
BY PInit, PStep, PTL DEF Spec

\* A store that is configured with a name has it and serves nobody else, with
\* any number of hellos at a time: they never imprint an authored store.
THEOREM PinnedCorrect == Spec => []AuthoredPinned
<1>1. PInv => AuthoredPinned
  BY DEF PInv
<1> QED
  BY <1>1, Pinned, PTL
-----------------------------------------------------------------------------
\* With one hello at a time, a request that is about to imprint still finds the
\* store nameless: only a hello or a start gives it a name, and there is no
\* start while the process runs.
OneHello == \A g, h \in Hellos : g = h

NInv == (\A r \in Requests : pc[r] = "write" => meta = NoOrigin) /\ OneContour

LEMMA NInit == Init => NInv
BY DEF Init, NInv, OneContour

LEMMA NStep ==
  ASSUME OneHello
  PROVE  PInv /\ NInv /\ [Next]_vars => NInv' /\ (meta # NoOrigin => meta' = meta)
<1> SUFFICES ASSUME PInv, NInv, [Next]_vars
             PROVE  NInv' /\ (meta # NoOrigin => meta' = meta)
  OBVIOUS
<1> USE DEF NInv, OneContour
<1>0. /\ pc \in [Requests -> {"idle", "check", "write", "ok", "refused"}]
      /\ request \in [Requests -> Origins \cup {NoOrigin}]
      /\ served \subseteq Origins /\ NoOrigin \notin Origins
      /\ \A r \in Requests : /\ pc[r] # "idle" => up
                             /\ pc[r] = "write" => r \in Hellos /\ request[r] \in Origins
  BY OriginAssumption DEF PInv, TypeOK
<1>1. ASSUME NEW a \in Origins \cup {NoOrigin}, Start(a)
      PROVE  NInv' /\ (meta # NoOrigin => meta' = meta)
  <2>1. CASE meta = NoOrigin
    BY <1>0, <1>1, <2>1 DEF Start
  <2>2. CASE meta # NoOrigin
    BY <1>0, <1>1, <2>2 DEF Start
  <2> QED
    BY <2>1, <2>2
<1>2. CASE Stop
  BY <1>2 DEF Stop
<1>3. ASSUME NEW r \in Requests, NEW o \in Origins \cup {NoOrigin}, Arrive(r, o)
      PROVE  NInv' /\ (meta # NoOrigin => meta' = meta)
  BY <1>0, <1>3 DEF Arrive
<1>4. ASSUME NEW r \in Requests, Check(r)
      PROVE  NInv' /\ (meta # NoOrigin => meta' = meta)
  <2> DEFINE v == Verdict(request[r], meta, r \in Hellos)
  <2>1. /\ pc[r] = "check" /\ pc' = [pc EXCEPT ![r] = v]
        /\ meta' = meta /\ up' = up /\ authored' = authored
        /\ IF v = "ok" THEN Admit(r) ELSE served' = served
    BY <1>4 DEF Check
  <2>2. /\ v = "write" => meta = NoOrigin
        /\ v = "ok" => IF authored # NoOrigin THEN request[r] = authored
                       ELSE request[r] = NoOrigin \/ request[r] = meta
    BY VerdictFacts
  <2> HIDE DEF v
  <2>3. up /\ (authored # NoOrigin => meta = authored)
    BY <1>0, <2>1 DEF PInv, AuthoredPinned
  <2>4. served' \subseteq {meta'}
    BY <2>1, <2>2, <2>3 DEF Admit
  <2> QED
    BY <1>0, <2>1, <2>2, <2>4
<1>5. ASSUME NEW r \in Requests, Imprint(r)
      PROVE  NInv' /\ (meta # NoOrigin => meta' = meta)
  <2>1. pc[r] = "write" /\ meta = NoOrigin /\ served = {}
    BY <1>0, <1>5 DEF Imprint
  <2>2. served' \subseteq {meta'}
    BY <1>5, <2>1 DEF Imprint, Admit
  <2>3. \A q \in Requests : pc'[q] # "write"
    BY <1>0, <1>5, <2>1 DEF Imprint, OneHello
  <2> QED
    BY <2>1, <2>2, <2>3
<1>6. ASSUME NEW r \in Requests, MetaFails(r)
      PROVE  NInv' /\ (meta # NoOrigin => meta' = meta)
  BY <1>0, <1>6 DEF MetaFails
<1>7. ASSUME NEW r \in Requests, Answer(r)
      PROVE  NInv' /\ (meta # NoOrigin => meta' = meta)
  BY <1>0, <1>7 DEF Answer
<1>8. CASE UNCHANGED vars
  BY <1>8 DEF vars
<1> QED
  BY <1>1, <1>2, <1>3, <1>4, <1>5, <1>6, <1>7, <1>8 DEF Next

LEMMA Named ==
  ASSUME OneHello
  PROVE  Spec => []NInv
BY Pinned, NInit, NStep, PTL DEF Spec

\* With one hello at a time, every request that named an origin and was let
\* through named the store's own.
THEOREM OneContourCorrect ==
  ASSUME OneHello
  PROVE  Spec => []OneContour
<1>1. NInv => OneContour
  BY DEF NInv
<1> QED
  BY <1>1, Named, PTL

\* With one hello at a time, a name stays.
THEOREM ImprintCorrect ==
  ASSUME OneHello
  PROVE  Spec => ImprintStays
<1>1. PInv /\ NInv /\ [Next]_vars => [meta # NoOrigin => meta' = meta]_vars
  BY NStep
<1> QED
  BY <1>1, Pinned, Named, PTL DEF Spec, ImprintStays
-----------------------------------------------------------------------------
(* Any number of hellos at a time *)

\* The store is named o, and no request is left that has read it nameless and
\* is about to imprint it.
Settled(o) == o # NoOrigin /\ meta = o /\ \A r \in Requests : pc[r] # "write"

LEMMA SettledStep ==
  ASSUME NEW o, PInv, Settled(o), [Next]_vars
  PROVE  Settled(o)' /\ served' \subseteq served \cup {o}
<1>0. /\ pc \in [Requests -> {"idle", "check", "write", "ok", "refused"}]
      /\ o # NoOrigin /\ meta = o /\ \A r \in Requests : pc[r] # "write"
      /\ \A r \in Requests : pc[r] # "idle" => up
  BY DEF PInv, TypeOK, Settled
<1>1. ASSUME NEW a \in Origins \cup {NoOrigin}, Start(a)
      PROVE  Settled(o)' /\ served' \subseteq served \cup {o}
  <2>1. meta' = o
    BY <1>0, <1>1 DEF Start
  <2> QED
    BY <1>0, <1>1, <2>1 DEF Start, Settled
<1>2. CASE Stop
  BY <1>0, <1>2 DEF Stop, Settled
<1>3. ASSUME NEW r \in Requests, NEW x \in Origins \cup {NoOrigin}, Arrive(r, x)
      PROVE  Settled(o)' /\ served' \subseteq served \cup {o}
  BY <1>0, <1>3 DEF Arrive, Settled
<1>4. ASSUME NEW r \in Requests, Check(r)
      PROVE  Settled(o)' /\ served' \subseteq served \cup {o}
  <2> DEFINE v == Verdict(request[r], meta, r \in Hellos)
  <2>1. /\ pc[r] = "check" /\ pc' = [pc EXCEPT ![r] = v] /\ meta' = meta
        /\ IF v = "ok" THEN Admit(r) ELSE served' = served
    BY <1>4 DEF Check
  <2>2. /\ v # "write"
        /\ v = "ok" => IF authored # NoOrigin THEN request[r] = authored
                       ELSE request[r] = NoOrigin \/ request[r] = meta
    BY <1>0, VerdictFacts
  <2> HIDE DEF v
  <2>3. authored # NoOrigin => meta = authored
    BY <1>0, <2>1 DEF PInv, AuthoredPinned
  <2>4. served' \subseteq served \cup {o}
    BY <1>0, <2>1, <2>2, <2>3 DEF Admit
  <2> QED
    BY <1>0, <2>1, <2>2, <2>4 DEF Settled
<1>5. ASSUME NEW r \in Requests, MetaFails(r) \/ Answer(r)
      PROVE  Settled(o)' /\ served' \subseteq served \cup {o}
  BY <1>0, <1>5 DEF MetaFails, Answer, Settled
<1>6. ASSUME NEW r \in Requests, Imprint(r) PROVE FALSE
  BY <1>0, <1>6 DEF Imprint
<1>7. CASE UNCHANGED vars
  BY <1>0, <1>7 DEF vars, Settled
<1> QED
  BY <1>1, <1>2, <1>3, <1>4, <1>5, <1>6, <1>7 DEF Next

\* The race of hellos is over with the last request that had found the store
\* nameless: from then on no hello, no start and no restart changes the name.
THEOREM NameSettles ==
  ASSUME NEW o
  PROVE  Spec => [](Settled(o) => []Settled(o))
<1>1. PInv /\ Settled(o) /\ [Next]_vars => Settled(o)'
  BY SettledStep
<1> QED
  BY <1>1, Pinned, PTL DEF Spec

\* And from then on whoever names an origin and is let through names the
\* store's own.
THEOREM SettledServesOne == Spec => [][Settled(meta) => served' \subseteq served \cup {meta}]_vars
<1>1. PInv /\ [Next]_vars => [Settled(meta) => served' \subseteq served \cup {meta}]_vars
  BY SettledStep
<1> QED
  BY <1>1, Pinned, PTL DEF Spec

\* A store that has a name never loses it, and ends every race with one: the end
\* of the process settles whatever name it has by then.
THEOREM NameIsKept ==
  Spec => [][meta # NoOrigin => meta' # NoOrigin /\ (Stop => Settled(meta)')]_vars
<1>1. PInv /\ [Next]_vars =>
        [meta # NoOrigin => meta' # NoOrigin /\ (Stop => Settled(meta)')]_vars
  <2> SUFFICES ASSUME PInv, Next, meta # NoOrigin
               PROVE  meta' # NoOrigin /\ (Stop => Settled(meta)')
    BY DEF vars
  <2>1. ASSUME NEW r \in Requests, Imprint(r) PROVE meta' # NoOrigin
    BY <2>1, OriginAssumption DEF Imprint, PInv, TypeOK
  <2>2. ASSUME NEW a, Start(a) PROVE meta' # NoOrigin
    BY <2>2 DEF Start
  <2>3. meta' # NoOrigin
    BY <2>1, <2>2 DEF Next, Stop, Arrive, Check, MetaFails, Answer
  <2>4. Stop => Settled(meta)'
    BY DEF Stop, Settled
  <2> QED
    BY <2>3, <2>4
<1> QED
  BY <1>1, Pinned, PTL DEF Spec
=============================================================================
