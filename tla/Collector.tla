----------------------------- MODULE Collector -----------------------------
(***************************************************************************)
(* metrics.Collector: the counters every /v1 request updates on its way    *)
(* through Wrap, and what another goroutine can read of them meanwhile.    *)
(* The counters are separate atomics and the ring and the last error are   *)
(* behind a mutex, so each update of Wrap is a step of its own and there   *)
(* is no moment at which all of them agree.                                *)
(*                                                                         *)
(* A response is its class, a duration one of a few values.  Handlers do   *)
(* not panic.                                                              *)
(***************************************************************************)
EXTENDS Integers, Sequences

CONSTANTS
  Requests,  \* /v1 requests, each made once
  Durations, \* values a latency may have
  Cap,       \* latencyBufferCap
  NoError    \* no error was recorded yet

ASSUME CollectorAssumption ==
  /\ Cap \in Nat \ {0}
  /\ Durations \subseteq Nat
  /\ NoError \notin {"status4xx", "status5xx"}

\* The classes of error, named for their counters.
Errors == {"status4xx", "status5xx"}
Classes == Errors \cup {"ok"}

Slots == 0 .. Cap - 1

VARIABLES
  pc,        \* pc[r]: the next update of request r
  class,     \* class[r]: its statusWriter's class of status
  inFlight,
  total,
  status,    \* status[c]: status4xx and status5xx
  lastErr,   \* the class of Collector.lastErr
  hasErr,
  latencies, \* the ring
  ringIdx,   \* the slot written next
  ringCount, \* valid samples in the ring
  observed   \* history: every sample so far

counters == <<inFlight, total, status>>
error == <<lastErr, hasErr>>
ring == <<latencies, ringIdx, ringCount>>
collectorVars == <<pc, class, counters, error, ring, observed>>

\* metrics.New
CollectorInit ==
  /\ pc = [r \in Requests |-> "before"]
  /\ class = [r \in Requests |-> "ok"]
  /\ inFlight = 0
  /\ total = 0
  /\ status = [c \in Errors |-> 0]
  /\ lastErr = NoError
  /\ hasErr = FALSE
  /\ latencies = [i \in Slots |-> 0]
  /\ ringIdx = 0
  /\ ringCount = 0
  /\ observed = <<>>

Goto(r, l) == pc' = [pc EXCEPT ![r] = l]
-----------------------------------------------------------------------------
(* Wrap *)

Enter(r) ==
  /\ pc[r] = "before"
  /\ inFlight' = inFlight + 1
  /\ Goto(r, "serving")
  /\ UNCHANGED <<class, total, status, error, ring, observed>>

\* next.ServeHTTP returns, be it a 401 of requireBearer.
Serve(r, c) ==
  /\ pc[r] = "serving"
  /\ class' = [class EXCEPT ![r] = c]
  /\ Goto(r, "total")
  /\ UNCHANGED <<counters, error, ring, observed>>

CountTotal(r) ==
  /\ pc[r] = "total"
  /\ total' = total + 1
  /\ Goto(r, IF class[r] \in Errors THEN "status" ELSE "latency")
  /\ UNCHANGED <<class, inFlight, status, error, ring, observed>>

CountStatus(r) ==
  /\ pc[r] = "status"
  /\ status' = [status EXCEPT ![class[r]] = @ + 1]
  /\ Goto(r, "record")
  /\ UNCHANGED <<class, inFlight, total, error, ring, observed>>

\* recordLastError, in its critical section and after it.
RecordError(r) ==
  /\ pc[r] = "record"
  /\ lastErr' = class[r]
  /\ Goto(r, "flag")
  /\ UNCHANGED <<class, counters, hasErr, ring, observed>>

FlagError(r) ==
  /\ pc[r] = "flag"
  /\ hasErr' = TRUE
  /\ Goto(r, "latency")
  /\ UNCHANGED <<class, counters, lastErr, ring, observed>>

\* Deviation of Advance: the index stays at the last slot and does not wrap.
AdvanceStays ==
  /\ ringIdx' = IF ringIdx + 1 < Cap THEN ringIdx + 1 ELSE ringIdx
  /\ ringCount' = IF ringCount < Cap THEN ringCount + 1 ELSE ringCount

\* Where the next sample goes, and how many are valid.
Advance ==
  /\ ringIdx' = (ringIdx + 1) % Cap
  /\ ringCount' = IF ringCount < Cap THEN ringCount + 1 ELSE ringCount

\* observeLatency, under the mutex.
Observe(r, d) ==
  /\ pc[r] = "latency"
  /\ latencies' = [latencies EXCEPT ![ringIdx] = d]
  /\ Advance
  /\ observed' = Append(observed, d)
  /\ Goto(r, "leave")
  /\ UNCHANGED <<class, counters, error>>

\* live=sse and live=poll leave no sample.
SkipLatency(r) ==
  /\ pc[r] = "latency"
  /\ Goto(r, "leave")
  /\ UNCHANGED <<class, counters, error, ring, observed>>

\* The deferred decrement.
Leave(r) ==
  /\ pc[r] = "leave"
  /\ inFlight' = inFlight - 1
  /\ class' = [class EXCEPT ![r] = "ok"]
  /\ Goto(r, "done")
  /\ UNCHANGED <<total, status, error, ring, observed>>

Wrap(r) ==
  \/ Enter(r)
  \/ \E c \in Classes : Serve(r, c)
  \/ CountTotal(r)
  \/ CountStatus(r)
  \/ RecordError(r)
  \/ FlagError(r)
  \/ \E d \in Durations : Observe(r, d)
  \/ SkipLatency(r)
  \/ Leave(r)
-----------------------------------------------------------------------------
PC == {"before", "serving", "total", "status", "record", "flag", "latency", "leave", "done"}

CollectorTypeOK ==
  /\ pc \in [Requests -> PC]
  /\ class \in [Requests -> Classes]
  /\ inFlight \in Nat
  /\ total \in Nat
  /\ status \in [Errors -> Nat]
  /\ lastErr \in Errors \cup {NoError}
  /\ hasErr \in BOOLEAN
  /\ latencies \in [Slots -> Nat]
  /\ ringIdx \in Slots
  /\ ringCount \in 0 .. Cap
  /\ observed \in Seq(Nat)

\* The ring holds the latest samples, Cap of them once there are so many:
\* sample number i is in slot (i - 1) % Cap until Cap others have followed it,
\* and the valid slots are the first ringCount.  P95 reads just these.
RingIsRecent ==
  /\ ringCount = IF Len(observed) < Cap THEN Len(observed) ELSE Cap
  /\ \A i \in 1 .. Len(observed) :
       Len(observed) - i < Cap => latencies[(i - 1) % Cap] = observed[i]
=============================================================================
