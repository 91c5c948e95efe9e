--------------------------- MODULE VerifierProofs ---------------------------
(***************************************************************************)
(* Theorems about the key cache, for any key ids, any number of concurrent *)
(* requests and any publications, withdrawals, failed fetches and          *)
(* restarts: its types, the rate limit of the refetch, and the halves of   *)
(* FinallyAccepted and FinallyRefused that need no fairness: what the      *)
(* cache has once settled on stays settled.                                *)
(***************************************************************************)
EXTENDS Verifier, TLAPS

Places == {"idle", "refresh", "lookup", "refetch", "fetch", "store",
           "bump", "verify", "accepted", "refused"}

\* Which steps belong to which kind of fetch; the last part of TypeOK.
CallOK(r) ==
  /\ pc[r] = "idle" <=> tok[r] = NoKid
  /\ pc[r] \in {"bump", "lookup", "refetch"} => why[r] = "stale"
  /\ answer[r] # {} => pc[r] = "store"

\* The calls, apart from the cache they share.
CallsOK ==
  /\ pc \in [Requests -> Places]
  /\ tok \in [Requests -> Kids \cup {NoKid}]
  /\ why \in [Requests -> {"stale", "kid"}]
  /\ answer \in [Requests -> SUBSET Kids]
  /\ \A r \in Requests : CallOK(r)

CacheOK ==
  /\ published \in [Kids -> Entries]
  /\ events \in 0..MaxEvents
  /\ keys \subseteq Kids
  /\ asked \in Nat

FlagsOK == stale \in BOOLEAN /\ limited \in BOOLEAN

LEMMA TypeParts == TypeOK <=> CacheOK /\ FlagsOK /\ CallsOK
BY DEF TypeOK, CacheOK, FlagsOK, CallsOK, CallOK, Places

\* What a fetch brings is a set of key ids.
LEMMA ParsedIsKids == \A doc : Parsed(doc) \subseteq Kids
BY DEF Parsed

LEMMA FirstIsKids ==
  ASSUME NEW doc, NEW K \in FirstKeys(doc)
  PROVE  K \subseteq Kids /\ K \subseteq Parsed(doc)
BY ParsedIsKids DEF FirstKeys

LEMMA TypeInit == Init => TypeOK
<1> SUFFICES ASSUME Init PROVE CacheOK /\ FlagsOK /\ CallsOK
  BY TypeParts
<1>1. CacheOK
  BY FirstIsKids, VerifierAssumption DEF Init, CacheOK
<1>2. FlagsOK
  BY DEF Init, FlagsOK
<1>3. CallsOK
  BY DEF Init, NoCalls, CallsOK, CallOK, Places
<1> QED
  BY <1>1, <1>2, <1>3

LEMMA FlagsStep == FlagsOK /\ [Next]_vars => FlagsOK'
BY Zenon DEF FlagsOK, Next, CallStep, Arrive, CheckStale, CheckKid, Refetch, FetchAnswer,
   FetchStore, FetchFails, Bump, Verify, Done, TtlPasses, IntervalPasses, Rotate, Restart,
   vars, callVars

\* The steps of a call move it from one place to another.
LEMMA CallsStep ==
  ASSUME CacheOK, CallsOK, NEW r \in Requests,
         CallStep(r) \/ \E k \in Kids : Arrive(r, k)
  PROVE  CallsOK'
<1>1. CASE \E k \in Kids : Arrive(r, k)
  BY <1>1, VerifierAssumption DEF Arrive, CallsOK, CallOK, Places
<1>2. CASE CheckStale(r)
  BY <1>2 DEF CheckStale, CallsOK, CallOK, Places
<1>3. CASE CheckKid(r)
  BY <1>3 DEF CheckKid, CallsOK, CallOK, Places
<1>4. CASE Refetch(r)
  BY <1>4 DEF Refetch, CallsOK, CallOK, Places
<1>5. CASE FetchAnswer(r)
  BY <1>5, ParsedIsKids DEF FetchAnswer, CallsOK, CallOK, Places
<1>6. CASE FetchStore(r)
  BY <1>6 DEF FetchStore, Resume, CallsOK, CallOK, Places
<1>7. CASE FetchFails(r)
  BY <1>7 DEF FetchFails, CallsOK, CallOK, Places
<1>8. CASE Bump(r)
  BY <1>8 DEF Bump, CallsOK, CallOK, Places
<1>9. CASE Verify(r)
  BY <1>9 DEF Verify, CallsOK, CallOK, Places
<1>10. CASE Done(r)
  BY <1>10 DEF Done, CallsOK, CallOK, Places
<1> QED
  BY <1>1, <1>2, <1>3, <1>4, <1>5, <1>6, <1>7, <1>8, <1>9, <1>10 DEF CallStep

LEMMA CacheStep == CacheOK /\ CallsOK /\ [Next]_vars => CacheOK'
<1> SUFFICES ASSUME CacheOK, CallsOK, [Next]_vars PROVE CacheOK'
  OBVIOUS
<1>1. ASSUME NEW r \in Requests, Refetch(r) PROVE CacheOK'
  BY <1>1 DEF Refetch, CacheOK
<1>2. ASSUME NEW r \in Requests, FetchStore(r) PROVE CacheOK'
  BY <1>2 DEF FetchStore, CacheOK, CallsOK
<1>3. CASE IntervalPasses
  BY <1>3 DEF IntervalPasses, CacheOK
<1>4. ASSUME NEW k \in Kids, NEW entry \in Entries, Rotate(k, entry) PROVE CacheOK'
  BY <1>4, VerifierAssumption DEF Rotate, CacheOK
<1>5. CASE Restart
  BY <1>5, FirstIsKids, VerifierAssumption DEF Restart, CacheOK
<1>6. ASSUME UNCHANGED <<published, events, keys, asked>> PROVE CacheOK'
  BY <1>6 DEF CacheOK
<1> QED
  BY <1>1, <1>2, <1>3, <1>4, <1>5, <1>6
     DEF Next, CallStep, Arrive, CheckStale, CheckKid, FetchAnswer, FetchFails, Bump,
         Verify, Done, TtlPasses, vars, callVars

LEMMA TypeStep == TypeOK /\ [Next]_vars => TypeOK'
<1> SUFFICES ASSUME TypeOK, [Next]_vars PROVE TypeOK'
  OBVIOUS
<1>1. CacheOK /\ FlagsOK /\ CallsOK
  BY TypeParts
<1>2. CallsOK'
  <2>1. ASSUME NEW r \in Requests, CallStep(r) \/ \E k \in Kids : Arrive(r, k)
        PROVE  CallsOK'
    BY <1>1, <2>1, CallsStep
  <2>2. CASE Restart
    BY <2>2 DEF Restart, CallsOK, CallOK, Places
  <2>3. ASSUME UNCHANGED callVars PROVE CallsOK'
    BY <1>1, <2>3 DEF callVars, CallsOK, CallOK
  <2> QED
    BY <2>1, <2>2, <2>3 DEF Next, TtlPasses, IntervalPasses, Rotate, vars
<1> QED
  BY <1>1, <1>2, FlagsStep, CacheStep DEF TypeOK, CacheOK, FlagsOK, CallsOK, CallOK, Places

\* The cache and the calls keep their types, and a call that looks a kid up or
\* has failed to refresh is one that fetched because the set was due.
THEOREM TypeCorrect == Spec => []TypeOK
<1> QED
  BY TypeInit, TypeStep, PTL DEF Spec
-----------------------------------------------------------------------------
(* The rate limit of refetchUnknownKID *)

\* The provider was asked for an unknown kid exactly when the mark is set:
\* looking at the mark and setting it are one critical section.
AskedIsMarked == asked = IF limited THEN 1 ELSE 0

LEMMA MarkedStep == TypeOK /\ AskedIsMarked /\ [Next]_vars => AskedIsMarked'
<1> SUFFICES ASSUME TypeOK, AskedIsMarked, [Next]_vars PROVE AskedIsMarked'
  OBVIOUS
<1>1. ASSUME NEW r \in Requests, Refetch(r) PROVE AskedIsMarked'
  <2>1. CASE limited
    BY <1>1, <2>1 DEF Refetch, AskedIsMarked
  <2>2. CASE ~ limited
    <3>1. asked = 0
      BY <2>2 DEF AskedIsMarked
    <3>2. asked' = 1 /\ limited' = TRUE
      BY <1>1, <2>2, <3>1 DEF Refetch
    <3> QED
      BY <3>2 DEF AskedIsMarked
  <2> QED
    BY <2>1, <2>2
<1>2. CASE IntervalPasses
  BY <1>2 DEF IntervalPasses, AskedIsMarked
<1>3. CASE Restart
  BY <1>3 DEF Restart, AskedIsMarked
<1>4. ASSUME UNCHANGED <<limited, asked>> PROVE AskedIsMarked'
  BY <1>4 DEF AskedIsMarked
<1> QED
  BY <1>1, <1>2, <1>3, <1>4
     DEF Next, CallStep, Arrive, CheckStale, CheckKid, FetchAnswer, FetchStore,
         FetchFails, Bump, Verify, Done, TtlPasses, Rotate, vars, callVars

\* However many requests name unknown kids side by side, and whether their
\* fetches succeed or not, the provider is asked once per interval for them.
THEOREM RefetchIsLimited == Spec => []RefetchOncePerInterval
<1>1. Init => AskedIsMarked
  BY DEF Init, AskedIsMarked
<1>2. AskedIsMarked => RefetchOncePerInterval
  BY DEF AskedIsMarked, RefetchOncePerInterval
<1> QED
  BY TypeCorrect, MarkedStep, <1>1, <1>2, PTL DEF Spec
-----------------------------------------------------------------------------
(* What the cache has settled on *)

\* Nothing in the service knows of the withdrawn key k: not the cached set, not
\* an answer still to be stored, and no token of it is just passing.
Gone(k) ==
  /\ published[k] # "usable"
  /\ k \notin keys
  /\ \A r \in Requests : k \notin answer[r] /\ (tok[r] = k => pc[r] # "accepted")

\* The published key k is cached, no answer still to be stored lacks it, and no
\* token of it is just being refused.
Settled(k) ==
  /\ published[k] = "usable"
  /\ k \in keys
  /\ \A r \in Requests :
       /\ pc[r] = "store" => k \in answer[r]
       /\ tok[r] = k => pc[r] # "refused"

\* The parsed set has a key exactly when the document has it usable, whatever
\* else is in the document.
LEMMA ParsedExactly ==
  ASSUME NEW k \in Kids, NEW doc
  PROVE  k \in Parsed(doc) <=> doc[k] = "usable"
BY DEF Parsed

LEMMA GoneStep ==
  ASSUME NEW k \in Kids, TypeOK, Gone(k), [Next]_vars, published'[k] # "usable"
  PROVE  Gone(k)'
<1>1. CallsOK
  BY TypeParts
<1>2. k \notin Parsed(published)
  BY ParsedExactly DEF Gone
<1>3. k # NoKid
  BY VerifierAssumption
<1>4. ASSUME NEW r \in Requests, NEW j \in Kids, Arrive(r, j) PROVE Gone(k)'
  BY <1>1, <1>4 DEF Arrive, Gone, CallsOK
<1>5. ASSUME NEW r \in Requests, FetchAnswer(r) PROVE Gone(k)'
  BY <1>1, <1>2, <1>5 DEF FetchAnswer, Gone, CallsOK
<1>6. ASSUME NEW r \in Requests, FetchStore(r) PROVE Gone(k)'
  BY <1>1, <1>6 DEF FetchStore, Resume, Gone, CallsOK
<1>7. ASSUME NEW r \in Requests, Verify(r) PROVE Gone(k)'
  BY <1>1, <1>7 DEF Verify, Gone, CallsOK
<1>8. ASSUME NEW r \in Requests, Done(r) PROVE Gone(k)'
  BY <1>1, <1>3, <1>8 DEF Done, Gone, CallsOK
<1>9. ASSUME NEW r \in Requests,
             CheckStale(r) \/ CheckKid(r) \/ Refetch(r) \/ FetchFails(r) \/ Bump(r)
      PROVE  Gone(k)'
  BY <1>1, <1>9 DEF CheckStale, CheckKid, Refetch, FetchFails, Bump, Gone, CallsOK
<1>10. CASE Restart
  BY <1>2, <1>3, <1>10, FirstIsKids DEF Restart, Gone
<1>11. ASSUME UNCHANGED <<keys, callVars>> PROVE Gone(k)'
  BY <1>11 DEF callVars, Gone
<1> QED
  BY <1>4, <1>5, <1>6, <1>7, <1>8, <1>9, <1>10, <1>11
     DEF Next, CallStep, TtlPasses, IntervalPasses, Rotate, vars

LEMMA SettledStep ==
  ASSUME NEW k \in Kids, TypeOK, Settled(k), [Next]_vars, published'[k] = "usable",
         ~ Restart
  PROVE  Settled(k)'
<1>1. CallsOK
  BY TypeParts
<1>2. k \in Parsed(published)
  BY ParsedExactly DEF Settled
<1>3. k # NoKid
  BY VerifierAssumption
<1>4. ASSUME NEW r \in Requests, NEW j \in Kids, Arrive(r, j) PROVE Settled(k)'
  BY <1>1, <1>4 DEF Arrive, Settled, CallsOK
<1>5. ASSUME NEW r \in Requests, FetchAnswer(r) PROVE Settled(k)'
  BY <1>1, <1>2, <1>5 DEF FetchAnswer, Settled, CallsOK
<1>6. ASSUME NEW r \in Requests, FetchStore(r) PROVE Settled(k)'
  BY <1>1, <1>6 DEF FetchStore, Resume, Settled, CallsOK
<1>7. ASSUME NEW r \in Requests, Verify(r) PROVE Settled(k)'
  BY <1>1, <1>7 DEF Verify, Settled, CallsOK
<1>8. ASSUME NEW r \in Requests, Done(r) PROVE Settled(k)'
  BY <1>1, <1>3, <1>8 DEF Done, Settled, CallsOK
<1>9. ASSUME NEW r \in Requests,
             CheckStale(r) \/ CheckKid(r) \/ Refetch(r) \/ FetchFails(r) \/ Bump(r)
      PROVE  Settled(k)'
  BY <1>1, <1>9 DEF CheckStale, CheckKid, Refetch, FetchFails, Bump, Settled, CallsOK
<1>10. ASSUME UNCHANGED <<keys, callVars>> PROVE Settled(k)'
  BY <1>10 DEF callVars, Settled
<1> QED
  BY <1>4, <1>5, <1>6, <1>7, <1>8, <1>9, <1>10
     DEF Next, CallStep, TtlPasses, IntervalPasses, Rotate, vars

\* Once no trace of a withdrawn key is left, no token of it passes again until
\* the key is published again, whatever fetches fail and whether or not the
\* service is restarted.  That the traces do vanish is FinallyRefused.
THEOREM WithdrawnStaysOut ==
  Spec => [][\A k \in Kids : Gone(k) /\ ~ Gone(k)' => published'[k] = "usable"]_vars
<1>1. TypeOK /\ [Next]_vars =>
        [\A k \in Kids : Gone(k) /\ ~ Gone(k)' => published'[k] = "usable"]_vars
  BY GoneStep
<1> QED
  BY <1>1, TypeCorrect, PTL DEF Spec

\* Once a published key is settled, tokens of it keep passing until it is
\* withdrawn, whatever becomes of the entries beside it, of fetches that fail or
\* of answers that arrive late; only a restart, whose first fetch may fail, can
\* lose it.  That it does settle is FinallyAccepted.
THEOREM PublishedStaysIn ==
  Spec => [][\A k \in Kids :
               Settled(k) /\ ~ Settled(k)' => Restart \/ published'[k] # "usable"]_vars
<1>1. TypeOK /\ [Next]_vars =>
        [\A k \in Kids :
           Settled(k) /\ ~ Settled(k)' => Restart \/ published'[k] # "usable"]_vars
  BY SettledStep
<1> QED
  BY <1>1, TypeCorrect, PTL DEF Spec
=============================================================================
