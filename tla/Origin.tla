------------------------------- MODULE Origin -------------------------------
(***************************************************************************)
(* The store origin: server_meta names the application contour a database  *)
(* belongs to.  It is written at startup from the configuration (an        *)
(* authored store) or by GET /v1/sync/hello (an open store), and every     *)
(* /v1/sync request is compared with it by Store.EnsureOrigin.             *)
(*                                                                         *)
(* EnsureOrigin reads server_meta through the reader pool and, when it has *)
(* to imprint, writes it later through the writer pool: two steps, with    *)
(* those of other requests in between.  A header that is not well-formed   *)
(* is refused before any of this and is left out.  `served' is a history   *)
(* variable: the origins named by requests that were let through.          *)
(***************************************************************************)
EXTENDS FiniteSets

CONSTANTS
  Origins,   \* well-formed Ulsync-Origin values
  Hellos,    \* concurrent GET /v1/sync/hello requests, the ones with imprint
  Mails,     \* concurrent push, pull and diff requests
  NoOrigin   \* "": no header, nothing stored, or no origin configured

ASSUME OriginAssumption == NoOrigin \notin Origins /\ Hellos \cap Mails = {}

Requests == Hellos \cup Mails

VARIABLES
  meta,      \* server_meta['origin']
  up,        \* the process serves requests
  authored,  \* cfg.Origin of the running process
  pc,        \* pc[r]: "idle", "check", "write", "ok", "refused"
  request,   \* request[r]: the header
  served

vars == <<meta, up, authored, pc, request, served>>

TypeOK ==
  /\ meta \in Origins \cup {NoOrigin}
  /\ up \in BOOLEAN
  /\ authored \in Origins \cup {NoOrigin}
  /\ pc \in [Requests -> {"idle", "check", "write", "ok", "refused"}]
  /\ request \in [Requests -> Origins \cup {NoOrigin}]
  /\ served \subseteq Origins
  /\ \A r \in Requests :
       /\ pc[r] # "idle" => up
       /\ pc[r] = "write" => r \in Hellos /\ request[r] \in Origins

Init ==
  /\ meta = NoOrigin
  /\ up = FALSE
  /\ authored = NoOrigin
  /\ pc = [r \in Requests |-> "idle"]
  /\ request = [r \in Requests |-> NoOrigin]
  /\ served = {}
-----------------------------------------------------------------------------
\* The process starts with origin: a.  BindAuthoredOrigin names a nameless
\* store, and keeps the process from starting over a store of another name.
Start(a) ==
  /\ ~ up
  /\ a # NoOrigin => meta \in {NoOrigin, a}
  /\ meta' = IF a = NoOrigin THEN meta ELSE a
  /\ up' = TRUE
  /\ authored' = a
  /\ UNCHANGED <<pc, request, served>>

\* The process stops, or dies with the requests it was serving.
Stop ==
  /\ up
  /\ up' = FALSE
  /\ authored' = NoOrigin
  /\ pc' = [r \in Requests |-> "idle"]
  /\ request' = [r \in Requests |-> NoOrigin]
  /\ UNCHANGED <<meta, served>>

Arrive(r, o) ==
  /\ up /\ pc[r] = "idle"
  /\ pc' = [pc EXCEPT ![r] = "check"]
  /\ request' = [request EXCEPT ![r] = o]
  /\ UNCHANGED <<meta, up, authored, served>>

\* Deviations of Verdict: the configured origin is not looked at; any request
\* imprints; a store without a name lets mail through; every hello imprints.
VerdictUnauthored(name, stored, imprint) ==
  IF name = NoOrigin THEN IF imprint THEN "refused" ELSE "ok"
  ELSE IF stored = NoOrigin THEN IF imprint THEN "write" ELSE "refused"
  ELSE IF name = stored THEN "ok" ELSE "refused"

VerdictAnyImprints(name, stored, imprint) ==
  IF authored # NoOrigin THEN IF name = authored THEN "ok" ELSE "refused"
  ELSE IF name = NoOrigin THEN IF imprint THEN "refused" ELSE "ok"
  ELSE IF stored = NoOrigin THEN "write"
  ELSE IF name = stored THEN "ok" ELSE "refused"

VerdictNameless(name, stored, imprint) ==
  IF authored # NoOrigin THEN IF name = authored THEN "ok" ELSE "refused"
  ELSE IF name = NoOrigin THEN IF imprint THEN "refused" ELSE "ok"
  ELSE IF stored = NoOrigin THEN IF imprint THEN "write" ELSE "ok"
  ELSE IF name = stored THEN "ok" ELSE "refused"

VerdictReimprints(name, stored, imprint) ==
  IF authored # NoOrigin THEN IF name = authored THEN "ok" ELSE "refused"
  ELSE IF name = NoOrigin THEN IF imprint THEN "refused" ELSE "ok"
  ELSE IF imprint THEN "write"
  ELSE IF name = stored THEN "ok" ELSE "refused"

\* What EnsureOrigin does with a request after it has read `stored'.
Verdict(name, stored, imprint) ==
  IF authored # NoOrigin THEN IF name = authored THEN "ok" ELSE "refused"
  ELSE IF name = NoOrigin THEN IF imprint THEN "refused" ELSE "ok"
  ELSE IF stored = NoOrigin THEN IF imprint THEN "write" ELSE "refused"
  ELSE IF name = stored THEN "ok" ELSE "refused"

Admit(r) ==
  served' = IF request[r] = NoOrigin THEN served ELSE served \cup {request[r]}

\* EnsureOrigin up to its verdict: the read of server_meta and the decision.
Check(r) ==
  /\ pc[r] = "check"
  /\ LET v == Verdict(request[r], meta, r \in Hellos)
     IN /\ pc' = [pc EXCEPT ![r] = v]
        /\ IF v = "ok" THEN Admit(r) ELSE UNCHANGED served
  /\ UNCHANGED <<meta, up, authored, request>>

\* writeMeta: INSERT ... ON CONFLICT DO UPDATE SET v = excluded.v.
Imprint(r) ==
  /\ pc[r] = "write"
  /\ meta' = request[r]
  /\ pc' = [pc EXCEPT ![r] = "ok"]
  /\ Admit(r)
  /\ UNCHANGED <<up, authored, request>>

\* The read or the write of server_meta fails: 500.
MetaFails(r) ==
  /\ pc[r] \in {"check", "write"}
  /\ pc' = [pc EXCEPT ![r] = "refused"]
  /\ UNCHANGED <<meta, up, authored, request, served>>

Answer(r) ==
  /\ pc[r] \in {"ok", "refused"}
  /\ pc' = [pc EXCEPT ![r] = "idle"]
  /\ request' = [request EXCEPT ![r] = NoOrigin]
  /\ UNCHANGED <<meta, up, authored, served>>

Next ==
  \/ \E a \in Origins \cup {NoOrigin} : Start(a)
  \/ Stop
  \/ \E r \in Requests :
       \/ \E o \in Origins \cup {NoOrigin} : Arrive(r, o)
       \/ Check(r)
       \/ Imprint(r)
       \/ MetaFails(r)
       \/ Answer(r)

Spec == Init /\ [][Next]_vars
-----------------------------------------------------------------------------
\* An authored store has, as long as the process runs, the name it was
\* configured with, and lets through only requests that give that name.
AuthoredPinned ==
  up /\ authored # NoOrigin =>
    /\ meta = authored
    /\ \A r \in Requests : pc[r] = "ok" => request[r] = authored

\* Once a store has a name, no request and no restart changes it: the first
\* hello imprints, later ones are compared.
ImprintStays == [][meta # NoOrigin => meta' = meta]_vars

\* All requests that ever named an origin and were let through named the
\* store's own: two applications never both work on one database.
OneContour == served \subseteq {meta}
=============================================================================
