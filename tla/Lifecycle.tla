----------------------------- MODULE Lifecycle -----------------------------
(***************************************************************************)
(* The end of runMain: two listeners are up; a signal or the failure of a  *)
(* listener starts the shutdown, which waits for the sync listener's       *)
(* requests, then for the panel's, both within one context of ten seconds, *)
(* and then the deferred Close closes the writer and the reader pool.      *)
(*                                                                         *)
(* A request is "short" (it ends by itself) or a "stream": live=sse on the *)
(* sync listener, /admin/events on the panel, which end only when their    *)
(* client leaves.  http.Server.Shutdown closes the listener, waits until   *)
(* no connection is in use or its context is done, and leaves what is      *)
(* still running alone.  The steps before the listeners are up are Start.  *)
(***************************************************************************)
EXTENDS FiniteSets

CONSTANTS
  SyncRequests,   \* concurrent requests on server.bind
  AdminRequests   \* concurrent requests on admin.bind

ASSUME LifecycleAssumption == SyncRequests \cap AdminRequests = {}

Requests == SyncRequests \cup AdminRequests

VARIABLES
  phase,      \* "up", "sync" and "admin" (waiting in that Shutdown), "close", "exited"
  signalled,  \* SIGINT or SIGTERM has arrived
  failed,     \* a listener's error is in errCh
  expired,    \* the shutdown context is done
  listening,  \* listeners that accept connections
  ticking,    \* the panel's snapshot goroutine has not been cancelled
  request,    \* request[r]: "none", "short" or "stream"
  pools,      \* open connection pools
  code        \* the exit code, once it is decided

vars == <<phase, signalled, failed, expired, listening, ticking, request, pools, code>>

Listener(r) == IF r \in SyncRequests THEN "sync" ELSE "admin"

Pending(R) == {r \in R : request[r] # "none"}

Init ==
  /\ phase = "exited"
  /\ signalled = FALSE
  /\ failed = FALSE
  /\ expired = FALSE
  /\ listening = {}
  /\ ticking = FALSE
  /\ request = [r \in Requests |-> "none"]
  /\ pools = {}
  /\ code = 0

\* The store is open and both listeners are up.
Start ==
  /\ phase = "exited"
  /\ phase' = "up"
  /\ signalled' = FALSE
  /\ failed' = FALSE
  /\ expired' = FALSE
  /\ listening' = {"sync", "admin"}
  /\ ticking' = TRUE
  /\ request' = [r \in Requests |-> "none"]
  /\ pools' = {"write", "read"}
  /\ code' = 0

Connect(r, kind) ==
  /\ Listener(r) \in listening
  /\ request[r] = "none"
  /\ request' = [request EXCEPT ![r] = kind]
  /\ UNCHANGED <<phase, signalled, failed, expired, listening, ticking, pools, code>>

\* A short request has been answered.
Answer(r) ==
  /\ phase # "exited" /\ request[r] = "short"
  /\ request' = [request EXCEPT ![r] = "none"]
  /\ UNCHANGED <<phase, signalled, failed, expired, listening, ticking, pools, code>>

\* The client of a stream leaves.
Leave(r) ==
  /\ phase # "exited" /\ request[r] = "stream"
  /\ request' = [request EXCEPT ![r] = "none"]
  /\ UNCHANGED <<phase, signalled, failed, expired, listening, ticking, pools, code>>

\* signal.NotifyContext: the first signal is seen by the select, later ones
\* change nothing.
Signal ==
  /\ phase # "exited" /\ ~ signalled
  /\ signalled' = TRUE
  /\ UNCHANGED <<phase, failed, expired, listening, ticking, request, pools, code>>

\* ListenAndServe returns an error that is not ErrServerClosed; once a shutdown
\* has begun, nobody reads errCh.
ListenerFails(l) ==
  /\ l \in listening
  /\ listening' = listening \ {l}
  /\ failed' = TRUE
  /\ UNCHANGED <<phase, signalled, expired, ticking, request, pools, code>>

\* The select of runMain, and Shutdown of the sync server: when both cases are
\* ready, either is taken.
BeginShutdown ==
  /\ phase = "up"
  /\ \/ failed /\ code' = 1
     \/ signalled /\ code' = 0
  /\ phase' = "sync"
  /\ listening' = listening \ {"sync"}
  /\ UNCHANGED <<signalled, failed, expired, ticking, request, pools>>

\* Ten seconds after the shutdown has begun.
Expire ==
  /\ phase \in {"sync", "admin"} /\ ~ expired
  /\ expired' = TRUE
  /\ UNCHANGED <<phase, signalled, failed, listening, ticking, request, pools, code>>

\* Deviations of SyncShutdown: the snapshot goroutine is not stopped; the
\* shutdown context has no deadline.
SyncShutdownTicking ==
  /\ phase = "sync"
  /\ Pending(SyncRequests) = {} \/ expired
  /\ phase' = "admin"
  /\ listening' = listening \ {"admin"}
  /\ UNCHANGED <<signalled, failed, expired, ticking, request, pools, code>>

SyncShutdownPatient ==
  /\ phase = "sync"
  /\ Pending(SyncRequests) = {}
  /\ phase' = "admin"
  /\ listening' = listening \ {"admin"}
  /\ ticking' = FALSE
  /\ UNCHANGED <<signalled, failed, expired, request, pools, code>>

\* Shutdown of the sync server returns and that of the panel begins: it stops
\* the snapshot goroutine and closes its listener.
SyncShutdown ==
  /\ phase = "sync"
  /\ Pending(SyncRequests) = {} \/ expired
  /\ phase' = "admin"
  /\ listening' = listening \ {"admin"}
  /\ ticking' = FALSE
  /\ UNCHANGED <<signalled, failed, expired, request, pools, code>>

\* Deviation of AdminShutdown: the panel's requests are not waited for.
AdminShutdownAtOnce ==
  /\ phase = "admin"
  /\ phase' = "close"
  /\ UNCHANGED <<signalled, failed, expired, listening, ticking, request, pools, code>>

\* Shutdown of the panel returns and runMain with it.
AdminShutdown ==
  /\ phase = "admin"
  /\ Pending(AdminRequests) = {} \/ expired
  /\ phase' = "close"
  /\ UNCHANGED <<signalled, failed, expired, listening, ticking, request, pools, code>>

\* The deferred Store.Close: the writer, then the reader.
ClosePool(p) ==
  /\ phase = "close"
  /\ p \in pools /\ (p = "read" => "write" \notin pools)
  /\ pools' = pools \ {p}
  /\ UNCHANGED <<phase, signalled, failed, expired, listening, ticking, request, code>>

\* os.Exit: what still runs ends with the process.
Exit ==
  /\ phase = "close" /\ pools = {}
  /\ phase' = "exited"
  /\ request' = [r \in Requests |-> "none"]
  /\ UNCHANGED <<signalled, failed, expired, listening, ticking, pools, code>>

Shutdown ==
  \/ BeginShutdown
  \/ Expire
  \/ SyncShutdown
  \/ AdminShutdown
  \/ \E p \in {"write", "read"} : ClosePool(p)
  \/ Exit

Next ==
  \/ Start
  \/ \E r \in Requests :
       \/ \E kind \in {"short", "stream"} : Connect(r, kind)
       \/ Answer(r)
       \/ Leave(r)
  \/ Signal
  \/ \E l \in listening : ListenerFails(l)
  \/ Shutdown

Spec == Init /\ [][Next]_vars

\* The main goroutine runs and its timer fires.  Nothing is assumed of
\* requests: a short one may take longer than the ten seconds.
FairSpec == Spec /\ WF_vars(Shutdown)
-----------------------------------------------------------------------------
\* Types; what is still listening in each phase.
TypeOK ==
  /\ phase \in {"up", "sync", "admin", "close", "exited"}
  /\ {signalled, failed, expired, ticking} \subseteq BOOLEAN
  /\ listening \subseteq {"sync", "admin"}
  /\ request \in [Requests -> {"none", "short", "stream"}]
  /\ pools \subseteq {"write", "read"}
  /\ code \in {0, 1}
  /\ phase = "sync" => "sync" \notin listening
  /\ phase \in {"admin", "close", "exited"} => listening = {} /\ ~ ticking
  /\ phase \in {"up", "sync", "admin"} => pools = {"write", "read"}

Serving == phase # "exited" /\ Pending(Requests) # {}

\* The pools are not taken away from a request of either listener before the
\* shutdown context has run out: who ends in time is answered.
ClosedInTime == Serving /\ pools # {"write", "read"} => expired

\* What the package comment says of the shutdown: requests in flight are drained
\* before the pools are closed.
DrainedBeforeClose == Serving => pools = {"write", "read"}

\* A shutdown that has begun comes to its end, whatever streams stay open.
ShutdownEnds == (phase \in {"sync", "admin", "close"}) ~> (phase = "exited")
=============================================================================
