------------------------------ MODULE LivePull ------------------------------
(***************************************************************************)
(* GET /v1/sync/pull in its three forms (plain, live=poll, live=sse), the  *)
(* registry of waiters (package live) and the tail of pushHandler, which   *)
(* notifies the registry after the commit.                                 *)
(*                                                                         *)
(* The store is the abstract log of SeqLog, which EnvelopeStore is shown   *)
(* to implement: a push commits at once, and a row is its key and its      *)
(* server_seq.  Everything between two accesses to shared state is a step  *)
(* of its own: subscribing, a query, each event written to a stream, the   *)
(* commit of a push and its notification.                                  *)
(*                                                                         *)
(* A device is a client as the pull protocol expects one: it has one open  *)
(* request at a time, applies what it receives, and takes its cursor from  *)
(* the answer or from the cursor event.  The server may go on serving a    *)
(* request whose device has left.                                          *)
(***************************************************************************)
EXTENDS SeqLog, FiniteSets

CONSTANTS
  Devices,   \* client installations
  UserOf,    \* UserOf[d]: the user device d is signed in as
  Handlers,  \* concurrent pull requests
  Pushers,   \* concurrent push requests
  Modes,     \* the values of ?live= in use: "plain", "poll", "sse"
  Limit,     \* rows per page
  MaxSeq,    \* bound on every user's counter
  NoDevice, NoHandler, NoUser

ASSUME PullAssumption ==
  /\ UserOf \in [Devices -> Users]
  /\ Modes \subseteq {"plain", "poll", "sse"}
  /\ Limit \in Nat \ {0}
  /\ MaxSeq \in Nat
  /\ IsFiniteSet(Keys)
  /\ NoDevice \notin Devices
  /\ NoHandler \notin Handlers
  /\ NoUser \notin Users

VARIABLES
  pc,       \* pc[h]: where the handler is, "free" when it serves nothing
  mode,     \* mode[h], dev[h]: the request
  dev,
  since,    \* since[h]: the cursor the next query starts from
  page,     \* page[h]: rows read and not yet written
  upto,     \* upto[h]: the cursor that belongs to that page
  full,     \* full[h]: the page had Limit rows
  waiters,  \* Registry.waiters
  ch,       \* ch[h]: signals pending in the waiter's channel, 0 or 1
  owes,     \* owes[p]: the user push p still has to notify, or NoUser
  link,     \* link[d]: the request device d has open
  cursor,   \* cursor[d]: the cursor the device has stored
  got       \* got[d][k]: the server_seq of the version of k it last received

handlerVars == <<pc, mode, dev, since, page, upto, full>>
deviceVars == <<link, cursor, got>>
vars == <<logVars, handlerVars, waiters, ch, owes, deviceVars>>

Row == [key : Keys, seq : Nat]

\* The user a request was authenticated as.
UserOfReq(h) == UserOf[dev[h]]

Init ==
  /\ LogInit
  /\ pc = [h \in Handlers |-> "free"]
  /\ mode = [h \in Handlers |-> "plain"]
  /\ dev = [h \in Handlers |-> NoDevice]
  /\ since = [h \in Handlers |-> 0]
  /\ page = [h \in Handlers |-> {}]
  /\ upto = [h \in Handlers |-> 0]
  /\ full = [h \in Handlers |-> FALSE]
  /\ waiters = [u \in Users |-> {}]
  /\ ch = [h \in Handlers |-> 0]
  /\ owes = [p \in Pushers |-> NoUser]
  /\ link = [d \in Devices |-> NoHandler]
  /\ cursor = [d \in Devices |-> 0]
  /\ got = [d \in Devices |-> [k \in Keys |-> 0]]
-----------------------------------------------------------------------------
(* pushHandler, from the commit on *)

\* UpsertMany has committed n envelopes, of which those in DOMAIN pos were
\* stored.  The handler owes a notification when there is one.
CommitPush(p, u, n, pos) ==
  /\ owes[p] = NoUser
  /\ nextSeq[u] + n <= MaxSeq
  /\ Stamp(u, n, pos)
  /\ owes' = [owes EXCEPT ![p] = IF DOMAIN pos = {} THEN NoUser ELSE u]
  /\ UNCHANGED <<handlerVars, waiters, ch, deviceVars>>

\* Deviation of Notify: a channel without a buffer takes a signal only from a
\* waiter that is receiving at that moment.
NotifyUnbuffered(p) ==
  /\ owes[p] # NoUser
  /\ ch' = [h \in Handlers |->
             IF h \in waiters[owes[p]] /\ pc[h] = "wait" THEN 1 ELSE ch[h]]
  /\ owes' = [owes EXCEPT ![p] = NoUser]
  /\ UNCHANGED <<logVars, handlerVars, waiters, deviceVars>>

\* Deviation of Notify: the user is not the one the push was made for.
NotifySomeUser(p) ==
  /\ owes[p] # NoUser
  /\ \E u \in Users :
       ch' = [h \in Handlers |-> IF h \in waiters[u] THEN 1 ELSE ch[h]]
  /\ owes' = [owes EXCEPT ![p] = NoUser]
  /\ UNCHANGED <<logVars, handlerVars, waiters, deviceVars>>

\* Registry.Notify: a signal for every waiter of the user that has none yet.
Notify(p) ==
  /\ owes[p] # NoUser
  /\ ch' = [h \in Handlers |-> IF h \in waiters[owes[p]] THEN 1 ELSE ch[h]]
  /\ owes' = [owes EXCEPT ![p] = NoUser]
  /\ UNCHANGED <<logVars, handlerVars, waiters, deviceVars>>
-----------------------------------------------------------------------------
(* Store.Since: WHERE server_seq > s ORDER BY server_seq LIMIT Limit *)

Newer(u, s) == {k \in Keys : seqOf[u][k] > s}

\* Deviation of IsPage: ORDER BY is missing.
IsPageUnordered(P, u, s) ==
  /\ P \subseteq Newer(u, s)
  /\ Cardinality(P) <= Limit
  /\ P # Newer(u, s) => Cardinality(P) = Limit

\* P is the page: the lowest numbers after s, Limit of them or all there are.
IsPage(P, u, s) ==
  /\ P \subseteq Newer(u, s)
  /\ \A j \in P, k \in Newer(u, s) : seqOf[u][k] < seqOf[u][j] => k \in P
  /\ Cardinality(P) <= Limit
  /\ P # Newer(u, s) => Cardinality(P) = Limit

\* c is the cursor Since returns with page P: the last row's number, or s.
IsCursor(c, P, u, s) ==
  IF P = {} THEN c = s
  ELSE /\ \E k \in P : c = seqOf[u][k]
       /\ \A k \in P : seqOf[u][k] <= c

\* Run Since for request h; go on at the step `none' when the page is empty and
\* at `some' when it is not.
Fetch(h, none, some) ==
  LET u == UserOfReq(h)
  IN \E P \in SUBSET Newer(u, since[h]) :
       \E c \in {since[h]} \cup {seqOf[u][k] : k \in P} :
         /\ IsPage(P, u, since[h])
         /\ IsCursor(c, P, u, since[h])
         /\ page' = [page EXCEPT ![h] = {[key |-> k, seq |-> seqOf[u][k]] : k \in P}]
         /\ upto' = [upto EXCEPT ![h] = c]
         /\ full' = [full EXCEPT ![h] = Cardinality(P) = Limit]
         /\ pc' = [pc EXCEPT ![h] = IF P = {} THEN none ELSE some]
-----------------------------------------------------------------------------
(* pullHandler *)

\* Deviation of Open: the since parameter is not read.
OpenFromZero(h, d, m) ==
  /\ pc[h] = "free"
  /\ link[d] = NoHandler
  /\ pc' = [pc EXCEPT ![h] = IF m = "plain" THEN "query" ELSE "subscribe"]
  /\ mode' = [mode EXCEPT ![h] = m]
  /\ dev' = [dev EXCEPT ![h] = d]
  /\ link' = [link EXCEPT ![d] = h]
  /\ UNCHANGED <<logVars, since, page, upto, full, waiters, ch, owes, cursor, got>>

\* A device opens a request with the cursor it has stored.
Open(h, d, m) ==
  /\ pc[h] = "free"
  /\ link[d] = NoHandler
  /\ pc' = [pc EXCEPT ![h] = IF m = "plain" THEN "query" ELSE "subscribe"]
  /\ mode' = [mode EXCEPT ![h] = m]
  /\ dev' = [dev EXCEPT ![h] = d]
  /\ since' = [since EXCEPT ![h] = cursor[d]]
  /\ link' = [link EXCEPT ![d] = h]
  /\ UNCHANGED <<logVars, page, upto, full, waiters, ch, owes, cursor, got>>

\* Registry.Subscribe, with an empty channel, before the first query.
Subscribe(h) ==
  /\ pc[h] = "subscribe"
  /\ waiters' = [waiters EXCEPT ![UserOfReq(h)] = @ \cup {h}]
  /\ ch' = [ch EXCEPT ![h] = 0]
  /\ pc' = [pc EXCEPT ![h] = "query"]
  /\ UNCHANGED <<logVars, mode, dev, since, page, upto, full, owes, deviceVars>>

\* The first query of a request, and every query of a stream.  Only a poll
\* with an empty page waits before it has written anything.
Query(h) ==
  /\ pc[h] = "query"
  /\ CASE mode[h] = "sse"   -> Fetch(h, "send", "send")
       [] mode[h] = "poll"  -> Fetch(h, "wait", "respond")
       [] mode[h] = "plain" -> Fetch(h, "respond", "respond")
  /\ UNCHANGED <<logVars, mode, dev, since, waiters, ch, owes, deviceVars>>

\* The one query of a poll after its wakeup: whatever it finds is the answer.
Requery(h) ==
  /\ pc[h] = "requery"
  /\ Fetch(h, "respond", "respond")
  /\ UNCHANGED <<logVars, mode, dev, since, waiters, ch, owes, deviceVars>>

\* Deviation of QueryFails: a return that skips the deferred Unsubscribe.
QueryFailsUnsubscribed(h) ==
  /\ pc[h] \in {"query", "requery"}
  /\ pc' = [pc EXCEPT ![h] = "free"]
  /\ UNCHANGED <<logVars, mode, dev, since, page, upto, full, waiters, ch, owes,
                 deviceVars>>

\* Since fails: 503 from a plain pull or a poll, the end of a stream.
QueryFails(h) ==
  /\ pc[h] \in {"query", "requery"}
  /\ pc' = [pc EXCEPT ![h] = "finish"]
  /\ UNCHANGED <<logVars, mode, dev, since, page, upto, full, waiters, ch, owes,
                 deviceVars>>

\* writePullJSON: the page and its cursor in one body, if the device still
\* waits for it.
Respond(h) ==
  /\ pc[h] = "respond"
  /\ IF link[dev[h]] = h
     THEN /\ got' = [got EXCEPT ![dev[h]] = [k \in Keys |->
                       IF \E r \in page[h] : r.key = k
                       THEN (CHOOSE r \in page[h] : r.key = k).seq ELSE @[k]]]
          /\ cursor' = [cursor EXCEPT ![dev[h]] = upto[h]]
          /\ link' = [link EXCEPT ![dev[h]] = NoHandler]
     ELSE UNCHANGED deviceVars
  /\ page' = [page EXCEPT ![h] = {}]
  /\ pc' = [pc EXCEPT ![h] = "finish"]
  /\ UNCHANGED <<logVars, mode, dev, since, upto, full, waiters, ch, owes>>

\* Deviation of PollTimeout: the timer is only looked at after a signal.
PollTimeoutOnSignal(h) ==
  /\ pc[h] = "wait" /\ mode[h] = "poll" /\ ch[h] = 1
  /\ pc' = [pc EXCEPT ![h] = "respond"]
  /\ UNCHANGED <<logVars, mode, dev, since, page, upto, full, waiters, ch, owes,
                 deviceVars>>

\* serveLivePoll: the timer fires, the answer is empty and keeps the cursor.
PollTimeout(h) ==
  /\ pc[h] = "wait" /\ mode[h] = "poll"
  /\ pc' = [pc EXCEPT ![h] = "respond"]
  /\ UNCHANGED <<logVars, mode, dev, since, page, upto, full, waiters, ch, owes,
                 deviceVars>>

\* serveLivePoll: the request context is done.
PollAbandoned(h) ==
  /\ pc[h] = "wait" /\ mode[h] = "poll" /\ link[dev[h]] # h
  /\ pc' = [pc EXCEPT ![h] = "finish"]
  /\ UNCHANGED <<logVars, mode, dev, since, page, upto, full, waiters, ch, owes,
                 deviceVars>>

\* Receiving from waiter.C(): a poll asks once more, a stream catches up.
Wake(h) ==
  /\ pc[h] = "wait" /\ ch[h] = 1
  /\ ch' = [ch EXCEPT ![h] = 0]
  /\ pc' = [pc EXCEPT ![h] = IF mode[h] = "sse" THEN "query" ELSE "requery"]
  /\ UNCHANGED <<logVars, mode, dev, since, page, upto, full, waiters, owes, deviceVars>>
-----------------------------------------------------------------------------
(* streamCatchUp and the wait loop of serveLiveSSE *)

\* The envelope event of the next row, in the order of the numbers.
SendEnvelope(h, r) ==
  /\ pc[h] = "send"
  /\ r \in page[h] /\ \A q \in page[h] : r.seq <= q.seq
  /\ page' = [page EXCEPT ![h] = @ \ {r}]
  /\ got' = IF link[dev[h]] = h THEN [got EXCEPT ![dev[h]][r.key] = r.seq] ELSE got
  /\ UNCHANGED <<logVars, pc, mode, dev, since, upto, full, waiters, ch, owes,
                 link, cursor>>

\* The cursor event that closes the page; a full page is followed by a query.
SendCursor(h) ==
  /\ pc[h] = "send" /\ page[h] = {}
  /\ cursor' = IF link[dev[h]] = h THEN [cursor EXCEPT ![dev[h]] = upto[h]] ELSE cursor
  /\ since' = [since EXCEPT ![h] = upto[h]]
  /\ pc' = [pc EXCEPT ![h] = IF full[h] THEN "query" ELSE "wait"]
  /\ UNCHANGED <<logVars, mode, dev, page, upto, full, waiters, ch, owes, link, got>>

\* A write, a flush, a deadline or a ping fails, or the context is done.
StreamBreaks(h) ==
  /\ mode[h] = "sse" /\ pc[h] \in {"send", "wait"}
  /\ pc' = [pc EXCEPT ![h] = "finish"]
  /\ UNCHANGED <<logVars, mode, dev, since, page, upto, full, waiters, ch, owes,
                 deviceVars>>

\* The handler returns: the deferred Unsubscribe runs and the device, if it
\* is still there, sees the end of the response.
Finish(h) ==
  /\ pc[h] = "finish"
  /\ waiters' = [waiters EXCEPT ![UserOfReq(h)] = @ \ {h}]
  /\ link' = IF link[dev[h]] = h THEN [link EXCEPT ![dev[h]] = NoHandler] ELSE link
  /\ pc' = [pc EXCEPT ![h] = "free"]
  /\ mode' = [mode EXCEPT ![h] = "plain"]
  /\ dev' = [dev EXCEPT ![h] = NoDevice]
  /\ since' = [since EXCEPT ![h] = 0]
  /\ page' = [page EXCEPT ![h] = {}]
  /\ upto' = [upto EXCEPT ![h] = 0]
  /\ full' = [full EXCEPT ![h] = FALSE]
  /\ ch' = [ch EXCEPT ![h] = 0]
  /\ UNCHANGED <<logVars, owes, cursor, got>>
-----------------------------------------------------------------------------
\* The device goes away or loses the network; the handler is not told at once.
Drop(d) ==
  /\ link[d] # NoHandler
  /\ link' = [link EXCEPT ![d] = NoHandler]
  /\ UNCHANGED <<logVars, handlerVars, waiters, ch, owes, cursor, got>>

\* The process dies and is started again: requests and registry are gone, the
\* log and what the devices hold are not.
Restart ==
  /\ pc' = [h \in Handlers |-> "free"]
  /\ mode' = [h \in Handlers |-> "plain"]
  /\ dev' = [h \in Handlers |-> NoDevice]
  /\ since' = [h \in Handlers |-> 0]
  /\ page' = [h \in Handlers |-> {}]
  /\ upto' = [h \in Handlers |-> 0]
  /\ full' = [h \in Handlers |-> FALSE]
  /\ waiters' = [u \in Users |-> {}]
  /\ ch' = [h \in Handlers |-> 0]
  /\ owes' = [p \in Pushers |-> NoUser]
  /\ link' = [d \in Devices |-> NoHandler]
  /\ UNCHANGED <<logVars, cursor, got>>

\* What a handler does by itself as long as nothing goes wrong.
HandlerStep(h) ==
  \/ Subscribe(h)
  \/ Query(h)
  \/ Requery(h)
  \/ Respond(h)
  \/ PollTimeout(h)
  \/ Wake(h)
  \/ \E r \in page[h] : SendEnvelope(h, r)
  \/ SendCursor(h)
  \/ Finish(h)

Next ==
  \/ \E p \in Pushers, u \in Users, n \in 1..MaxBatch, W \in SUBSET Keys :
       \E pos \in Positions(W, n) : CommitPush(p, u, n, pos)
  \/ \E p \in Pushers : Notify(p)
  \/ \E h \in Handlers :
       \/ \E d \in Devices, m \in Modes : Open(h, d, m)
       \/ HandlerStep(h)
       \/ QueryFails(h)
       \/ PollAbandoned(h)
       \/ StreamBreaks(h)
  \/ \E d \in Devices : Drop(d)
  \/ Restart

Spec == Init /\ [][Next]_vars

\* Handlers and pushes in progress are goroutines the scheduler runs; nothing
\* is assumed of clients, pushes, failures or restarts.
FairSpec ==
  /\ Spec
  /\ \A h \in Handlers : WF_vars(HandlerStep(h))
  /\ \A p \in Pushers : WF_vars(Notify(p))
-----------------------------------------------------------------------------
Registered(h) ==
  mode[h] # "plain" /\ pc[h] \in {"query", "send", "wait", "requery", "respond", "finish"}

\* The registry holds the waiters of exactly the live requests that are between
\* Subscribe and Unsubscribe, each under its own user.
RegistryExact ==
  \A u \in Users : waiters[u] = {h \in Handlers : Registered(h) /\ UserOfReq(h) = u}

\* Types, and the registry in step with the handlers.
TypeOK ==
  /\ LogTypeOK
  /\ pc \in [Handlers -> {"free", "subscribe", "query", "send", "wait", "requery",
                          "respond", "finish"}]
  /\ mode \in [Handlers -> {"plain", "poll", "sse"}]
  /\ dev \in [Handlers -> Devices \cup {NoDevice}]
  /\ since \in [Handlers -> Nat]
  /\ page \in [Handlers -> SUBSET Row]
  /\ upto \in [Handlers -> Nat]
  /\ full \in [Handlers -> BOOLEAN]
  /\ waiters \in [Users -> SUBSET Handlers]
  /\ ch \in [Handlers -> {0, 1}]
  /\ owes \in [Pushers -> Users \cup {NoUser}]
  /\ link \in [Devices -> Handlers \cup {NoHandler}]
  /\ cursor \in [Devices -> Nat]
  /\ got \in [Devices -> [Keys -> Nat]]
  /\ \A h \in Handlers :
       /\ pc[h] # "free" => dev[h] \in Devices
       /\ pc[h] = "send" => mode[h] = "sse"
       /\ pc[h] = "respond" => mode[h] # "sse"
       /\ pc[h] \in {"subscribe", "wait"} => mode[h] # "plain"
       /\ pc[h] = "requery" => mode[h] = "poll"
  /\ RegistryExact

Coming(u) == \E p \in Pushers : owes[p] = u

\* A wakeup is never lost: a live request that waits, with no signal in its
\* channel and no push of its user between commit and notification, has
\* nothing to deliver.  Otherwise it would sit on a stored row until the next
\* push, for a poll until the timeout.
NoLostWakeup ==
  \A h \in Handlers :
    pc[h] = "wait" /\ ch[h] = 0 /\ ~ Coming(UserOfReq(h)) =>
      Newer(UserOfReq(h), since[h]) = {}

\* The cursor a device has stored covers what it says it covers: the device
\* has received the current version of every row at or below it, whatever
\* pages, rewrites, lost answers and reconnects led there.
CursorSound ==
  \A d \in Devices, k \in Keys :
    LET s == seqOf[UserOf[d]][k]
    IN s > 0 /\ s <= cursor[d] => got[d][k] = s

\* The handler holds a page it has fetched, or waits at its end.
Holding(h) == pc[h] \in {"send", "respond", "wait"}

\* A request starts from a number its user has reached.  A held page is a
\* snapshot of the rows between its two cursors; since then pushes can only
\* have moved rows to higher numbers.
PageSnapshot ==
  \A h \in Handlers :
    /\ pc[h] # "free" => since[h] <= nextSeq[UserOfReq(h)]
    /\ Holding(h) =>
         /\ since[h] <= upto[h] /\ upto[h] <= nextSeq[UserOfReq(h)]
         /\ \A r \in page[h] :
              since[h] < r.seq /\ r.seq <= upto[h] /\ r.seq <= seqOf[UserOfReq(h)][r.key]
         /\ \A r, q \in page[h] : r.key = q.key => r = q
    /\ pc[h] = "wait" => page[h] = {} /\ upto[h] = since[h] /\ ~ full[h]

\* What the device has, together with what its open request still holds for
\* it, covers everything up to the page's cursor.
LinkCovers ==
  \A d \in Devices, h \in Handlers : link[d] = h =>
    /\ dev[h] = d /\ pc[h] # "free" /\ since[h] = cursor[d]
    /\ Holding(h) =>
         /\ \A k \in Keys :
              LET s == seqOf[UserOf[d]][k]
              IN s > 0 /\ s <= upto[h] =>
                   got[d][k] = s \/ [key |-> k, seq |-> s] \in page[h]
         /\ \A r \in page[h] : got[d][r.key] <= r.seq

\* No device is ahead of the log.
DeviceBehind ==
  \A d \in Devices :
    /\ cursor[d] <= nextSeq[UserOf[d]]
    /\ \A k \in Keys : got[d][k] <= seqOf[UserOf[d]][k]

\* NoLostWakeup from the moment of the query on: what was committed after a
\* short page was read has left a signal, or is about to.
SignalPending ==
  \A h \in Handlers :
    pc[h] \in {"send", "wait"} /\ ~ full[h] /\ ch[h] = 0 /\ ~ Coming(UserOfReq(h)) =>
      Newer(UserOfReq(h), upto[h]) = {}

\* The inductive invariant.  CursorSound alone does not survive the delivery
\* of a page, nor NoLostWakeup the query before the wait: a page in flight has
\* to be described (PageSnapshot), what it adds to the device (LinkCovers), how
\* far the device can be (DeviceBehind), and the signal that a push leaves
\* between the query and the wait (SignalPending).
Inv ==
  /\ TypeOK
  /\ SeqsDistinct
  /\ PageSnapshot
  /\ LinkCovers
  /\ DeviceBehind
  /\ CursorSound
  /\ SignalPending

\* Neither the stored cursor nor any row ever goes back to an older state on a
\* device, though a page is a snapshot that pushes overtake while it is sent.
NeverBackwards ==
  [][\A d \in Devices :
       /\ cursor'[d] >= cursor[d]
       /\ \A k \in Keys : got'[d][k] >= got[d][k]]_vars

Streaming(d) == link[d] # NoHandler /\ mode[link[d]] = "sse"

\* A row stored for a user reaches every device of the user that keeps a
\* stream open, or the stream ends: no push is left behind for a later one.
StreamDelivers ==
  \A d \in Devices, k \in Keys, n \in 1..MaxSeq :
    (Streaming(d) /\ seqOf[UserOf[d]][k] = n) ~> (got[d][k] >= n \/ ~ Streaming(d))

\* Every plain pull and every poll comes to an end, and its waiter leaves the
\* registry, pushes or not.
PullEnds ==
  \A h \in Handlers : (pc[h] # "free" /\ mode[h] # "sse") ~> (pc[h] = "free")
=============================================================================
