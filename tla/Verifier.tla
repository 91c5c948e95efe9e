------------------------------ MODULE Verifier ------------------------------
(***************************************************************************)
(* The key cache of auth.Verifier.  Every request checks whether the set   *)
(* is due for a refresh, then whether it holds the key its token names,    *)
(* and may fetch the set from the identity provider on either account; the *)
(* mutex is held for the single look or the single write, never over a     *)
(* fetch, so requests fetch side by side and store in any order.           *)
(*                                                                         *)
(* A document has at most one entry per kid: one that is usable as a key,  *)
(* one that parseJWKS skips, or one that keeps the document from decoding. *)
(* A key is its kid.  Times are only compared with two intervals, so each  *)
(* is a flag: jwks_cache_ttl has passed since loadedAt,                    *)
(* unknownKIDRefetchInterval has not passed since lastUnknownKIDFetch.     *)
(* Signatures, claims and tokens without a kid are left out, and so is a   *)
(* cache that is never due (jwks_cache_ttl < 0).                           *)
(***************************************************************************)
EXTENDS Naturals

CONSTANTS
  Kids,      \* kid values of tokens and of keys
  Requests,  \* concurrent calls of Diagnose
  MaxEvents, \* bound on publications, withdrawals and restarts
  NoKid      \* the token of a request slot that serves nobody

ASSUME VerifierAssumption == MaxEvents \in Nat /\ NoKid \notin Kids

VARIABLES
  published, \* the document the identity provider serves
  events,    \* publications, withdrawals and restarts so far
  keys,      \* Verifier.keys
  stale,     \* jwks_cache_ttl has passed since loadedAt
  limited,   \* a refetch was marked less than a minute ago
  pc,        \* pc[r]: where the call is, "idle" when there is none
  tok,       \* tok[r]: the kid of its token
  why,       \* why[r]: what its fetch is for, "stale" or "kid"
  answer,    \* answer[r]: the set it has received and not yet stored
  asked      \* history: fetches for an unknown kid begun within the interval

callVars == <<pc, tok, why, answer>>
vars == <<published, events, keys, stale, limited, callVars, asked>>

NoCalls ==
  /\ pc = [r \in Requests |-> "idle"]
  /\ tok = [r \in Requests |-> NoKid]
  /\ why = [r \in Requests |-> "stale"]
  /\ answer = [r \in Requests |-> {}]

\* What the document may have for a kid.  "skipped" is an object of string fields
\* that make no key: a foreign type or use, bad base64, a point off its curve.
\* "undecodable" is an entry that is no object, or has a field that is no string.
Entries == {"none", "usable", "skipped", "undecodable"}

\* json.Unmarshal takes the document as a whole, before any entry is looked at.
Decodes(doc) == \A k \in Kids : doc[k] # "undecodable"

\* Deviation of Parsed: an entry that is of no use discards the set.
ParsedWhole(doc) ==
  {k \in Kids : doc[k] = "usable" /\ \A j \in Kids : doc[j] # "skipped"}

\* parseJWKS on a document that decodes: entries that make no key are left out,
\* one by one.
Parsed(doc) == {k \in Kids : doc[k] = "usable"}

\* The sets a process may start with.  NewVerifier goes on without keys when its
\* first fetch fails; the set is not due before its time all the same.
FirstKeys(doc) == {{}} \cup IF Decodes(doc) THEN {Parsed(doc)} ELSE {}

Init ==
  /\ published \in [Kids -> Entries]
  /\ keys \in FirstKeys(published)
  /\ stale = FALSE
  /\ limited = FALSE
  /\ events = 0
  /\ asked = 0
  /\ NoCalls
-----------------------------------------------------------------------------
(* Diagnose *)

Arrive(r, k) ==
  /\ pc[r] = "idle"
  /\ pc' = [pc EXCEPT ![r] = "refresh"]
  /\ tok' = [tok EXCEPT ![r] = k]
  /\ UNCHANGED <<published, events, keys, stale, limited, why, answer, asked>>

\* refreshIfStale up to the decision, under the read lock.
CheckStale(r) ==
  /\ pc[r] = "refresh"
  /\ pc' = [pc EXCEPT ![r] = IF stale THEN "fetch" ELSE "lookup"]
  /\ why' = [why EXCEPT ![r] = "stale"]
  /\ UNCHANGED <<published, events, keys, stale, limited, tok, answer, asked>>

\* hasKey for the kid of the token.
CheckKid(r) ==
  /\ pc[r] = "lookup"
  /\ pc' = [pc EXCEPT ![r] = IF tok[r] \in keys THEN "verify" ELSE "refetch"]
  /\ UNCHANGED <<published, events, keys, stale, limited, tok, why, answer, asked>>

\* Deviation of Refetch: the fetch is not marked before it begins.
RefetchUnmarked(r) ==
  /\ pc[r] = "refetch"
  /\ IF limited
     THEN /\ pc' = [pc EXCEPT ![r] = "verify"]
          /\ UNCHANGED <<limited, why, asked>>
     ELSE /\ pc' = [pc EXCEPT ![r] = "fetch"]
          /\ why' = [why EXCEPT ![r] = "kid"]
          /\ asked' = asked + 1
          /\ UNCHANGED limited
  /\ UNCHANGED <<published, events, keys, stale, tok, answer>>

\* refetchUnknownKID up to the fetch: looking at the mark and setting it is one
\* critical section.
Refetch(r) ==
  /\ pc[r] = "refetch"
  /\ IF limited
     THEN /\ pc' = [pc EXCEPT ![r] = "verify"]
          /\ UNCHANGED <<limited, why, asked>>
     ELSE /\ pc' = [pc EXCEPT ![r] = "fetch"]
          /\ why' = [why EXCEPT ![r] = "kid"]
          /\ limited' = TRUE
          /\ asked' = asked + 1
  /\ UNCHANGED <<published, events, keys, stale, tok, answer>>

Resume(r) == IF why[r] = "stale" THEN "lookup" ELSE "verify"

\* fetchURL: the provider answers with its document of that moment, and that
\* decodes; when it does not, only FetchFails is left.
FetchAnswer(r) ==
  /\ pc[r] = "fetch"
  /\ Decodes(published)
  /\ answer' = [answer EXCEPT ![r] = Parsed(published)]
  /\ pc' = [pc EXCEPT ![r] = "store"]
  /\ UNCHANGED <<published, events, keys, stale, limited, tok, why, asked>>

\* Deviations of FetchStore: the new keys are added to the old ones; a set that
\* holds keys is never replaced.
FetchStoreMerged(r) ==
  /\ pc[r] = "store"
  /\ keys' = keys \cup answer[r]
  /\ stale' = FALSE
  /\ answer' = [answer EXCEPT ![r] = {}]
  /\ pc' = [pc EXCEPT ![r] = Resume(r)]
  /\ UNCHANGED <<published, events, limited, tok, why, asked>>

\* fetchURL: the parsed set replaces the cached one, whoever stored that.
FetchStore(r) ==
  /\ pc[r] = "store"
  /\ keys' = answer[r]
  /\ stale' = FALSE
  /\ answer' = [answer EXCEPT ![r] = {}]
  /\ pc' = [pc EXCEPT ![r] = Resume(r)]
  /\ UNCHANGED <<published, events, limited, tok, why, asked>>

\* Deviation of FetchFails: a failed refetch, too, moves loadedAt.
FetchFailsBumps(r) ==
  /\ pc[r] = "fetch"
  /\ pc' = [pc EXCEPT ![r] = "bump"]
  /\ UNCHANGED <<published, events, keys, stale, limited, tok, why, answer, asked>>

\* The fetch fails, times out, returns what does not decode, or the client of the
\* request is gone and its context cancelled; the old set stays.
FetchFails(r) ==
  /\ pc[r] = "fetch"
  /\ pc' = [pc EXCEPT ![r] = IF why[r] = "stale" THEN "bump" ELSE "verify"]
  /\ UNCHANGED <<published, events, keys, stale, limited, tok, why, answer, asked>>

\* refreshIfStale after a failure: loadedAt is moved to now.
Bump(r) ==
  /\ pc[r] = "bump"
  /\ stale' = FALSE
  /\ pc' = [pc EXCEPT ![r] = "lookup"]
  /\ UNCHANGED <<published, events, keys, limited, tok, why, answer, asked>>

\* ParseWithClaims with keyFunc: the signature is right for the key tok[r].
Verify(r) ==
  /\ pc[r] = "verify"
  /\ pc' = [pc EXCEPT ![r] = IF tok[r] \in keys THEN "accepted" ELSE "refused"]
  /\ UNCHANGED <<published, events, keys, stale, limited, tok, why, answer, asked>>

Done(r) ==
  /\ pc[r] \in {"accepted", "refused"}
  /\ pc' = [pc EXCEPT ![r] = "idle"]
  /\ tok' = [tok EXCEPT ![r] = NoKid]
  /\ why' = [why EXCEPT ![r] = "stale"]
  /\ UNCHANGED <<published, events, keys, stale, limited, answer, asked>>
-----------------------------------------------------------------------------
TtlPasses ==
  /\ ~ stale
  /\ stale' = TRUE
  /\ UNCHANGED <<published, events, keys, limited, callVars, asked>>

IntervalPasses ==
  /\ limited
  /\ limited' = FALSE
  /\ asked' = 0
  /\ UNCHANGED <<published, events, keys, stale, callVars>>

\* The identity provider adds, withdraws or changes the entry of a key.
Rotate(k, entry) ==
  /\ events < MaxEvents
  /\ events' = events + 1
  /\ published[k] # entry
  /\ published' = [published EXCEPT ![k] = entry]
  /\ UNCHANGED <<keys, stale, limited, callVars, asked>>

Restart ==
  /\ events < MaxEvents
  /\ events' = events + 1
  /\ keys' \in FirstKeys(published)
  /\ stale' = FALSE
  /\ limited' = FALSE
  /\ asked' = 0
  /\ pc' = [r \in Requests |-> "idle"]
  /\ tok' = [r \in Requests |-> NoKid]
  /\ why' = [r \in Requests |-> "stale"]
  /\ answer' = [r \in Requests |-> {}]
  /\ UNCHANGED published

\* What a call does by itself.
CallStep(r) ==
  \/ CheckStale(r)
  \/ CheckKid(r)
  \/ Refetch(r)
  \/ FetchAnswer(r)
  \/ FetchStore(r)
  \/ FetchFails(r)
  \/ Bump(r)
  \/ Verify(r)
  \/ Done(r)

Next ==
  \/ \E r \in Requests :
       \/ \E k \in Kids : Arrive(r, k)
       \/ CallStep(r)
  \/ TtlPasses
  \/ IntervalPasses
  \/ \E k \in Kids, entry \in Entries : Rotate(k, entry)
  \/ Restart

Spec == Init /\ [][Next]_vars

\* Calls run and time passes; a provider that is asked again and again for a
\* document that decodes answers some time.  Nothing is assumed of clients.
FairSpec ==
  /\ Spec
  /\ \A r \in Requests : WF_vars(CallStep(r)) /\ SF_vars(FetchAnswer(r))
  /\ WF_vars(TtlPasses)
  /\ WF_vars(IntervalPasses)
-----------------------------------------------------------------------------
\* Types, and which steps belong to which kind of fetch.
TypeOK ==
  /\ published \in [Kids -> Entries]
  /\ events \in 0..MaxEvents
  /\ keys \subseteq Kids
  /\ stale \in BOOLEAN
  /\ limited \in BOOLEAN
  /\ pc \in [Requests -> {"idle", "refresh", "lookup", "refetch", "fetch", "store",
                          "bump", "verify", "accepted", "refused"}]
  /\ tok \in [Requests -> Kids \cup {NoKid}]
  /\ why \in [Requests -> {"stale", "kid"}]
  /\ answer \in [Requests -> SUBSET Kids]
  /\ asked \in Nat
  /\ \A r \in Requests :
       /\ pc[r] = "idle" <=> tok[r] = NoKid
       /\ pc[r] \in {"bump", "lookup", "refetch"} => why[r] = "stale"
       /\ answer[r] # {} => pc[r] = "store"

\* However many requests name unknown kids at once, the provider is asked on
\* their account once per interval, whether or not the fetch succeeds.
RefetchOncePerInterval == asked <= 1

\* A token is refused for want of its key only finitely often once that key is
\* published for good in documents that decode: neither failed fetches, nor the
\* rate limit, nor an older set stored over a newer one, nor documents that did
\* not decode before, nor an entry beside it that makes no key keep it out for ever.
FinallyAccepted ==
  \A k \in Kids :
    <>[](published[k] = "usable" /\ Decodes(published)) =>
      <>[](\A r \in Requests : tok[r] = k => pc[r] # "refused")

\* A key that is withdrawn for good, from documents that decode, lets tokens pass
\* only finitely often, though a request whose key is cached never has a reason
\* of its own to fetch.
FinallyRefused ==
  \A k \in Kids :
    <>[](published[k] # "usable" /\ Decodes(published)) =>
      <>[](\A r \in Requests : tok[r] = k => pc[r] # "accepted")
=============================================================================
