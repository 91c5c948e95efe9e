------------------------------- MODULE Panel -------------------------------
(***************************************************************************)
(* The operations panel: the goroutine of enableSnapshot, which on every   *)
(* tick refreshes the cached table statistics when they are due and puts   *)
(* together a frame, reading one counter of the collector after the other  *)
(* while requests run.  What GET /admin/events sends is the current frame. *)
(*                                                                         *)
(* A frame has a part whose values come from separate reads, and only the  *)
(* order of the reads relates them.  The statistics are two queries on the *)
(* read pool, and each can fail.  Of the frame, the origin, the number of  *)
(* live connections and what never changes are left out.                   *)
(***************************************************************************)
EXTENDS Collector, FiniteSets

CONSTANTS
  MaxEvents,   \* bound on requests begun, their errors, rows and failures of Stats
  NoFrame      \* no frame was built yet

\* A request has no name of its own: they are numbered as they begin.
ASSUME PanelAssumption == MaxEvents \in Nat /\ Requests \subseteq Nat /\ IsFiniteSet(Requests)

VARIABLES
  users,       \* rows of table users
  envelopes,   \* rows of table envelopes
  step,        \* where the snapshot goroutine is
  counted,     \* results of the queries Stats has made so far
  statsCached, \* snapshotState.statsCached
  read,        \* snapshotState.statsAt is not zero
  draft,       \* what buildSnapshot has read so far
  current,     \* snapshotState.current
  failures,
  entered      \* history: requests begun when the draft's in_flight was read

tables == <<users, envelopes>>
panelVars == <<step, counted, statsCached, read, draft, current, failures, entered>>
vars == <<collectorVars, tables, panelVars>>

Begun == Cardinality({r \in Requests : pc[r] # "before"})

Failed ==
  status["status4xx"] + status["status5xx"]
  + Cardinality({r \in Requests : pc[r] \in {"total", "status"} /\ class[r] \in Errors})

Events == Begun + Failed + envelopes + failures

Nothing == [q \in {} |-> 0]

Zeros == [users |-> 0, envelopes |-> 0]

\* admin.New refreshes and builds a first frame before either listener is up.
Init ==
  /\ CollectorInit
  /\ users = 0
  /\ envelopes = 0
  /\ step = "refresh"
  /\ counted = Nothing
  /\ statsCached = Zeros
  /\ read = FALSE
  /\ draft = Nothing
  /\ current = NoFrame
  /\ failures = 0
  /\ entered = 0
-----------------------------------------------------------------------------
\* /v1 traffic, once the process serves.
Traffic(r) ==
  /\ current # NoFrame
  /\ pc[r] = "before" => \A q \in Requests : q < r => pc[q] # "before"
  /\ Wrap(r)
  /\ UNCHANGED <<tables, panelVars>>
  /\ Events' <= MaxEvents

\* A push commits an envelope that was not stored, of a new user or not.
StoreRow(new) ==
  /\ current # NoFrame
  /\ Events < MaxEvents
  /\ new \/ users > 0
  /\ envelopes' = envelopes + 1
  /\ users' = IF new THEN users + 1 ELSE users
  /\ UNCHANGED <<collectorVars, panelVars>>
-----------------------------------------------------------------------------
(* refreshStats *)

\* Deviation of StatsOrder: the tables are counted the other way round.
StatsOrderSwapped == <<"envelopes", "users">>

\* The queries of Store.Stats, in their order.
StatsOrder == <<"users", "envelopes">>

\* Deviation of Refresh: what was read once is kept.
RefreshOnce(next) ==
  /\ step = "refresh"
  /\ next = IF read THEN "assemble" ELSE "count"
  /\ step' = next
  /\ UNCHANGED <<collectorVars, tables, counted, statsCached, read, draft, current, failures, entered>>

\* Statistics are read at once, and again when statsEvery has passed; how long
\* that is to a tick is open.
Refresh(next) ==
  /\ step = "refresh"
  /\ read \/ next = "count"
  /\ step' = next
  /\ UNCHANGED <<collectorVars, tables, counted, statsCached, read, draft, current, failures, entered>>

Rows(q) == IF q = "users" THEN users ELSE envelopes

\* The next query answers.  With the last one the cache is replaced.
Count ==
  LET q == StatsOrder[Cardinality(DOMAIN counted) + 1]
      results == [t \in DOMAIN counted \cup {q} |-> IF t = q THEN Rows(q) ELSE counted[t]]
      complete == Cardinality(DOMAIN results) = Len(StatsOrder)
  IN /\ step = "count"
     /\ counted' = IF complete THEN Nothing ELSE results
     /\ IF complete
        THEN /\ statsCached' = [users |-> results["users"], envelopes |-> results["envelopes"]]
             /\ read' = TRUE
             /\ step' = "assemble"
        ELSE UNCHANGED <<statsCached, read, step>>
     /\ UNCHANGED <<collectorVars, tables, draft, current, failures, entered>>

\* Deviation of CountFails: zeros are kept on every failure.
CountFailsZero ==
  /\ step = "count"
  /\ Events < MaxEvents
  /\ failures' = failures + 1
  /\ statsCached' = Zeros
  /\ read' = TRUE
  /\ step' = "assemble"
  /\ counted' = Nothing
  /\ UNCHANGED <<collectorVars, tables, draft, current, entered>>

\* A query or the stat of the file fails.  Zeros are kept, as if they had been
\* read, when nothing was read before; else the cache stays, as old as it is,
\* and the next tick tries again.
CountFails ==
  /\ step = "count"
  /\ Events < MaxEvents
  /\ failures' = failures + 1
  /\ IF ~ read
     THEN statsCached' = Zeros /\ read' = TRUE
     ELSE UNCHANGED <<statsCached, read>>
  /\ step' = "assemble"
  /\ counted' = Nothing
  /\ UNCHANGED <<collectorVars, tables, draft, current, entered>>
-----------------------------------------------------------------------------
(* buildSnapshot *)

\* Deviations of FrameOrder: totals first; the last error after the totals.
FrameOrderTotalFirst == <<"hasErr", "lastErr", "total", "inFlight", "status4xx", "status5xx", "p95">>
FrameOrderErrorLast == <<"inFlight", "total", "status4xx", "status5xx", "hasErr", "lastErr", "p95">>

\* The reads of one frame, in the order Go evaluates them.
FrameOrder == <<"hasErr", "lastErr", "inFlight", "total", "status4xx", "status5xx", "p95">>

\* The k-th smallest of the samples f[i], i \in I.
Smallest(k, f, I) ==
  CHOOSE v \in {f[i] : i \in I} :
    /\ Cardinality({i \in I : f[i] < v}) < k
    /\ Cardinality({i \in I : f[i] <= v}) >= k

\* Collector.P95: of n samples number ceil(0.95 n), 0 of none.
P95 ==
  IF ringCount = 0 THEN 0
  ELSE Smallest((95 * ringCount + 99) \div 100, latencies, 0 .. ringCount - 1)

\* What reading f returns.  LastError looks at the flag before it takes the lock.
Value(f) ==
  CASE f = "hasErr" -> hasErr
    [] f = "lastErr" -> IF draft["hasErr"] THEN lastErr ELSE NoError
    [] f = "inFlight" -> inFlight
    [] f = "total" -> total
    [] f \in Errors -> status[f]
    [] f = "p95" -> P95

\* The next read of buildSnapshot.  With the last one the frame is published.
Assemble ==
  LET f == FrameOrder[Cardinality(DOMAIN draft) + 1]
      frame == [g \in DOMAIN draft \cup {f} |-> IF g = f THEN Value(f) ELSE draft[g]]
  IN /\ step = "assemble"
     /\ IF Cardinality(DOMAIN frame) = Len(FrameOrder)
        THEN /\ current' = [requests |-> frame, storage |-> statsCached, entered |-> entered]
             /\ draft' = Nothing
             /\ entered' = 0
             /\ step' = "refresh"
        ELSE /\ draft' = frame
             /\ entered' = IF f = "inFlight" THEN Begun ELSE entered
             /\ UNCHANGED <<current, step>>
     /\ UNCHANGED <<collectorVars, tables, counted, statsCached, read, failures>>

Next ==
  \/ \E r \in Requests : Traffic(r)
  \/ \E new \in BOOLEAN : StoreRow(new)
  \/ \E next \in {"count", "assemble"} : Refresh(next)
  \/ Count
  \/ CountFails
  \/ Assemble

Spec == Init /\ [][Next]_vars

\* The ticker fires, statsEvery passes time and again, and a query that does
\* not fail answers.
FairSpec ==
  /\ Spec
  /\ WF_vars(Refresh("assemble") \/ Refresh("count") \/ Count \/ Assemble)
  /\ SF_vars(Refresh("count"))
-----------------------------------------------------------------------------
FrameType ==
  [requests : [hasErr : BOOLEAN, lastErr : Errors \cup {NoError}, inFlight : Nat, total : Nat,
               status4xx : Nat, status5xx : Nat, p95 : Nat],
   storage : [users : Nat, envelopes : Nat],
   entered : Nat]

TypeOK ==
  /\ CollectorTypeOK
  /\ users \in Nat /\ envelopes \in Nat
  /\ step \in {"refresh", "count", "assemble"}
  /\ DOMAIN counted \subseteq {"users", "envelopes"}
  /\ statsCached \in [users : Nat, envelopes : Nat]
  /\ read \in BOOLEAN
  /\ DOMAIN draft = {FrameOrder[i] : i \in 1 .. Cardinality(DOMAIN draft)}
  /\ step # "assemble" => draft = Nothing
  /\ current = NoFrame \/ current \in FrameType
  /\ failures \in Nat
  /\ entered \in Nat

\* No request is missing from a frame: what it shows in flight and completed is
\* at least what had begun when it was built.  Wrap counts a request as
\* completed before it takes it out of those in flight, and buildSnapshot reads
\* the two the other way round.
EveryRequestShown ==
  current # NoFrame =>
    current.requests.inFlight + current.requests.total >= current.entered

\* A frame that shows an error counts an error of its class.  Wrap counts before
\* it records, and buildSnapshot reads the record before the counters.
ErrorIsCounted ==
  current # NoFrame =>
    \A e \in Errors : current.requests.lastErr = e => current.requests[e] > 0

\* Every user a frame shows has an envelope in it.  A user comes with a first
\* envelope, and the users are counted first.
RowsCoverUsers == current # NoFrame => current.storage.users <= current.storage.envelopes

\* A later frame never shows less: not when the statistics fail, not when a
\* frame is built while requests run.
NeverForgets ==
  [][current # NoFrame =>
       /\ current'.storage.users >= current.storage.users
       /\ current'.storage.envelopes >= current.storage.envelopes
       /\ current'.requests.total >= current.requests.total
       /\ \A e \in Errors : current'.requests[e] >= current.requests[e]]_current

\* The samples that ended last, as many as the ring holds, by their number.
Latest == {i \in 1 .. Len(observed) : Len(observed) - i < Cap}

\* v is one of the latest samples, at least 95 in 100 of them are no longer and
\* fewer than 95 in 100 are shorter.
IsPercentile(v) ==
  /\ \E i \in Latest : observed[i] = v
  /\ 100 * Cardinality({i \in Latest : observed[i] <= v}) >= 95 * Cardinality(Latest)
  /\ 100 * Cardinality({i \in Latest : observed[i] < v}) < 95 * Cardinality(Latest)

\* The panel catches up: once nothing changes, it shows what the tables and the
\* collector hold, although statistics failed on the way, and the percentile of
\* the requests that ended last, however often the ring has wrapped.
PanelFollows ==
  <>[](/\ current # NoFrame
       /\ current.storage = [users |-> users, envelopes |-> envelopes]
       /\ current.requests.total = total
       /\ current.requests.inFlight = inFlight
       /\ \A e \in Errors : current.requests[e] = status[e]
       /\ IF observed = <<>> THEN current.requests.p95 = 0
          ELSE IsPercentile(current.requests.p95)
       /\ hasErr => current.requests.lastErr = lastErr)
=============================================================================
