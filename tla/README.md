# ulsync-server: TLA+ specifications

ulsync-server is a small Go server that keeps *envelopes* (opaque rows with
three ranks) for the devices of each user.  A device pushes envelopes, asks
which of its envelopes the server lacks (diff), and pulls everything above a
cursor: once, by long poll, or as a stream of events.  This directory holds the
specifications of the parts that decide whether the devices of a user end up
with the same data, the TLC instances that check them, and the theorems proved
about them with TLAPS.

    tlc -workers 2 -config MCLivePull.cfg MCLivePull.tla     # one run
    tlapm StoreProofs.tla                                    # one proof module

`PROJECT.json` lists the runs, the mutants, the lines each definition stands
for, the hazards and the theorems.

## Inventory

| part | state | operations | talks to |
|---|---|---|---|
| envelope store, `internal/store` | `users.next_seq`, `envelopes`; one writer connection, a pool of readers, WAL | `Upsert`, `UpsertMany`, `AllocateSeq`, `Since`, `StoredRanks`, `Stats` | called by the handlers |
| conflict rule, `conflict.go` and the SQL of `upsert.go` | none | `Wins`; `WHERE` of the upsert | diff; store |
| push handler, `httpapi/push.go` | the request | validate, `UpsertMany`, flags, `Notify`, answer | store, registry |
| pull handler, `httpapi/pull.go`, `sse.go` | the request: `since`, page, timer | plain answer, long poll, stream | store, registry |
| live registry, `internal/live` | waiters per user, one channel of capacity 1 each; a mutex | `Subscribe`, `Notify`, `Unsubscribe`, `Len` | push (notify), pull (wait), panel (count) |
| diff handler, `httpapi/diff.go` | the request | validate, `StoredRanks`, `Wins`, answer | store |
| store origin, `store/origin.go`, `httpapi/origin.go` | `server_meta['origin']`, the configured origin | `BindAuthoredOrigin`, `EnsureOrigin`, hello | store; in front of every `/v1/sync` handler |
| token verifier, `internal/auth` | cached keys, two time stamps; a mutex | `Verify`, refresh, refetch on an unknown kid | identity provider; in front of every `/v1` handler |
| process lifecycle, `cmd/ulsync-server/main.go` | two listeners, the pools | start, serve, shut down | everything |
| migrations, `store/migrate.go` | `schema_migrations` | apply the missing ones | store, at startup |
| configuration, `internal/config` | the document | `Load` (`applyDefaults`, `validate`), `Seed` | read by the verifier, the pull handler, both listeners |
| seeding, `cmd/ulsync-server/seed.go` | the file at `-config`, a temporary file | look, write, sync, rename | configuration; other processes and the operator |
| metrics, `internal/metrics` | counters, last error, latency ring | `Wrap` around every `/v1` request; reads | every `/v1` handler, panel |
| panel, `internal/admin` | current frame, cached statistics | ticker: refresh, build, publish; events | metrics, store, registry, origin |
| routing, probe, installer, load tools | none | | outside the core |

What makes each part correct, and what makes it hard:

* **Store.** Whatever the order of pushes, failures and repetitions, each row
  is the winner of all accepted versions; a push is all or nothing; a row that
  changes takes a number no cursor has passed.  Numbers are allocated inside a
  transaction and seen after its commit, so this depends on transactions of one
  user never overlapping.
* **Push, registry, pull.** A stored row reaches every waiting device, and the
  cursor a device keeps is true: it has the current version of everything at
  or below it.  Commit, notification, subscription and query are separate
  steps of different goroutines, signals are dropped when one is pending, the
  page being sent is a snapshot others overtake, timers and disconnects cut in
  anywhere.
* **Diff.** The answer compares with one committed state, and what it leaves
  out needs no push.  The keys are looked up one by one while pushes commit,
  and the rule that compares is not the code that stores.
* **Origin.** A database belongs to one application: its name never changes,
  and only requests that give it (or, on an open store, none) pass.  The name
  is read and written on different connections, with requests in between.
* **Verifier.** A published key is accepted in the end, a withdrawn one is
  refused in the end, as long as the provider's document decodes, and the
  provider is not flooded.  Requests look, fetch and
  store without holding the mutex in between, and a fetch dies with its client.
* **Lifecycle, migrations, seeding.** Steps of a process that may die, beside
  another process and the operator: a shutdown within one deadline, a schema that
  is complete whenever it is used, a configuration file that is whole and nobody's
  work overwritten.
* **Configuration.** Defaults, checks and seed are written apart and have to fit:
  what is seeded must load and trust the authority that was asked for, and what
  loads must serve.
* **Metrics, panel.** A frame is put together from separate reads of separate
  counters while requests run and rows are stored, and the statistics can fail.
  Only the order of the reads and of the updates keeps a frame from
  contradicting itself.
* **All together.** A device diffs, pushes and pulls, each against a later
  store than the last, loses answers, and the store may lose its last commits with
  the power.  The devices must end up with the same data all the same.

Every hazard is listed in `PROJECT.json` with its line and with the properties
that would notice it going wrong, or the reason none does yet.

## Modules

    Conflict ----> EnvelopeStore ----> DiffCheck        Config ---+
        |               |                                         |
        |               |  implements                 Migrate ----+--> Startup
        |               v
        |            SeqLog ---------> LivePull       Collector -----> Panel
        |
        +--------------------------> Devices          Origin    Verifier    Lifecycle

An arrow is an `EXTENDS`, but for the refinement.

**`Conflict`**: `Wins` is `store.Wins`; `UpsertWhere` is the `WHERE` clause of
`upsertEnvelopeSQL`, clause for clause.  A `source_id` is an integer: only its
place in the byte order is compared.

**`EnvelopeStore`**: the write path.  A push is `Begin` (`BeginTx` on the
writer pool, which has one connection), one `UpsertOne` per envelope
(`upsertOneInTx`: allocate, upsert, `RETURNING`), and `Commit` or `Rollback`;
then `Reply`, before which the client may already be gone.  An open transaction
works on `next` and `rows`, its view of the user's counter and rows, and
`Commit` publishes both.  `Restart` may come at any step.  A batch is what
validation lets through: not empty, not over the limit, no key twice.
`accepted` is a history variable.  `created_at_ms` is kept from the first
version of a row, as the `SET` list does; the columns nobody compares are
`body`.

**`SeqLog`**: what the store promises its readers.  One action: a transaction
consumes `n` numbers and puts some of them on rows.  `EnvelopeStore` implements
it under the mapping `SeqOf` (the number of each committed row, 0 for none).
Note what is *not* promised: that numbers are contiguous.  A losing envelope
and `AllocateSeq` leave gaps.

**`LivePull`**: the three forms of pull, the registry and the tail of the push
handler, over `SeqLog`.  `pc[h]` is the place of a handler in its code:

| `pc` | the code is |
|---|---|
| `subscribe` | before `Registry.Subscribe` (poll and stream) |
| `query`, `requery` | before `Since`: the first query or the next one of a stream; the one after a poll's wakeup |
| `send` | in `streamCatchUp`, with `page` still to be written and then the cursor event |
| `wait` | in the `select` of `serveLivePoll` or `serveLiveSSE` |
| `respond` | before `writePullJSON` |
| `finish` | before the deferred `Unsubscribe` |

`CommitPush` and `Notify` are two steps of one push.  A device keeps a cursor
and, per key, the number of the version it last received; it has one request
open (`link`) and takes the cursor of the answer, or of the cursor event.
`Drop` is a device that leaves; its handler goes on until it notices.
`Restart` loses the requests, the registry and the notifications due, never
the log.

**`DiffCheck`**: `diffHandler` beside the write path.  Pool `readDB` opens
deferred transactions, so the snapshot is taken by the first lookup (`Seen`).
`during`, a history variable, is the set of committed states of the user's rows
while the request was served.

**`Origin`**: `Start` is `BindAuthoredOrigin`; `Check` is the read and the
decision of `EnsureOrigin` (`Verdict`), `Imprint` the write that may follow.
Requests with a malformed header are refused before and are left out.

**`Verifier`**: `CheckStale` is the decision of `refreshIfStale`, `CheckKid` is
`hasKey`, `Refetch` is the critical section of `refetchUnknownKID`; a fetch is
`FetchAnswer` (the provider answers), then `FetchStore` (the set is replaced),
or `FetchFails`, then `Bump` when it was a refresh.  What the document has for a
kid is nothing, a usable key, an entry that `parseJWKS` skips, or one that keeps
`json.Unmarshal` from taking the document at all (no object, or a field that is
not a string): `Parsed` leaves out the skipped ones, and while `Decodes` is false
every fetch ends in `FetchFails`.  The two times are compared
with one interval each and are flags: `stale`, `limited`.

**`Lifecycle`**: from two listeners to the exit.  `SyncShutdown` and
`AdminShutdown` are the *returns* of the two `Shutdown` calls, `Expire` is their
common context, `ClosePool` the deferred `Store.Close`.

**`Devices`**: the composition, seen from the devices of one user.  A device
holds a copy of every envelope and a cursor; `Diff`, `Push` and `Pull` are each
one step at the store, which is what `DiffCheck` (`AnswerOfOneMoment`),
`EnvelopeStore` (`Implements`) and `LivePull` (`PageSnapshot`) show of them;
what the device does with the answer is a step of its own.  `unsynced` holds the
states a power loss may go back to: with `journal_mode=WAL` and
`synchronous=NORMAL` a commit is on disk with the next `Checkpoint` only.  A push
whose answer is lost has committed and is repeated.  A device that read a row of
an unsynced state is `fresh`; when that state is lost it is `exposed`, until it
pulls from 0.  How a device edits, merges what it receives (by the server's
rule) and starts over is the client's code, which is not in this repository; the
server promises convergence only to such devices.  What `exposed` excepts is
conceded, not checked: until it starts over, such a device has a cursor above
numbers that are given out again, misses those rows, and neither it nor the server
can tell.

**`Migrate`**: `applyMigrations` in several processes on one file; a transaction
is `Begin`, `Exec`, `Record`, `Commit`, and SQLite's write lock is `holder`.

**`Config`**: operators, no state: `ApplyDefaults`, `Valid`, `Seed`, and what the
result means to the parts that read it, `Trusted` (the authorities `keyFunc`
takes tokens from) and `PageLimit` (the rows a pull may ask for).

**`Startup`**: `runMain` up to the listeners, in several processes.  `stage[p]`
is the step: `look` and `seed` (`ensureConfig`), `sync`, `recheck`, `rename`
(`writeFileAtomic`), `load` (`config.Load`), `store` (`store.Open`, which is
`Migrate`), `serve`.  `Edit` is the operator, `Stop` an error, an end or a kill,
and `PowerLoss` takes what was not synced: the temporary file's content, the
last migrations, and the rename itself.  The directory is never synced, so
`onDisk` is everything the path has had since the last power loss, and any of it
may come back, long after a process started with the new file.  `raced`, a history variable, are the processes at their rename
under which a file appeared.

**`Collector`**: `Wrap`, one step per atomic update: in flight, total, class,
last error under its mutex and the flag after it, the ring under its mutex, in
flight again.  `observed` is the history of samples.

**`Panel`**: the goroutine of `enableSnapshot` over `Collector`: `Refresh` (is it
time for statistics?), `Count` (one query of `Stats` each) or `CountFails`, and
`Assemble`, one read of `buildSnapshot` each; the last one publishes `current`.
`entered` is the history of requests begun when in_flight was read.

Each machine also holds a few definitions marked *Deviation of ...*: a mistake
that could be made in that place of the code.  They are not used by any
specification.  Put in place of the original, each must break the property
that `PROJECT.json` pairs it with, which shows that the run can see such a
mistake.  Two of them break a second property of their run: `AdvanceStays`
breaks `PanelFollows` too, and `ValidUnsigned` the pages of
`ServesAsConfigured`, whose trust `JwksURLAlways` breaks.

`MCEnvelopeStore`, `MCDiffCheck`, `MCLivePull`, `MCDevices` and `MCStartup` only
give the constants their values.

## Runs

| run | question | instance |
|---|---|---|
| `store_races` | Does every interleaving of pushes, rollbacks, repetitions and restarts leave the winners, true flags and a log? | one user, two pushers, two keys, batches of up to two out of five envelopes, counter to 4 |
| `diff_snapshot` | Is a diff the comparison with one moment of the store? | one diff of up to two keys, one pusher with batches of two, counter to 4 |
| `pull_safety` | Is no wakeup lost and every cursor true? | polls and streams of one device, two handlers, pages of one row, two pushers with batches of two, counter to 3 |
| `pull_live` | Do streams deliver and requests end, whoever else pushes? | all three forms, one device and handler, one pusher, users alice and bob, counters to 2, fair |
| `origin_one_hello` | Does a store keep its name? | two names, one hello and two mail requests at a time, restarts under any configuration |
| `origin_two_hellos` | The same with two hellos at a time | **violated**, see below |
| `keys` | Do published keys come to be accepted, withdrawn ones refused, within the rate limit? | two calls, two kids with four kinds of entry, two rotations or restarts, fair |
| `shutdown` | Does a shutdown wait, and end? | two sync requests, one of the panel, fair |
| `shutdown_drain` | Are requests drained before the pools are closed? | **violated**, see below |
| `startup` | Is the file whole and nobody's overwritten, is every migration done once, does what was configured serve? | two processes, two migrations, three sets of flags, five documents or none, two edits or power losses |
| `devices` | Do cursors hold and devices converge, from end to end? | two devices, two keys, two edits of four versions, pages of one row, one power loss or lost answer, fair |
| `panel` | Does a frame ever contradict itself or go back, and does the panel follow? | three requests of two durations, three events (requests, their errors, rows, failures of statistics), a ring of two, fair |

Why these bounds are enough to be interesting.  *Store:* the five envelopes
tie in the edit time, in the revision and in everything but the source, and
one has a lower revision with a later edit, so each clause of the rule decides
somewhere; two pushers are what an overlap of transactions needs, batches of two what a
torn commit needs, and a counter of 4 leaves room for two full batches and so
for a repetition of a batch after another one won.  *Pull:* with pages of one
row and two keys every page can be full and be followed by another; a counter
of 3 lets a row be rewritten while its page is being sent; two handlers are a
request the device has left and the one it reconnected with, both in the
registry; two pushers let one notification overtake another's commit.  *Other
users:* the registry is per user, so a second user who pushes is all a mix-up needs.
*Keys:* two calls are what storing in the wrong order needs, two kids let a
token name a key that is not published beside one that is, and let an entry
that is skipped, or that spoils the document, stand beside a key; `MaxEvents`
bounds rotations and restarts, and two let a document stop decoding and be
corrected.  *Shutdown:* one request of each kind on each listener,
and one more.  *Startup:* the two migrations there are; version 2 has no
`CREATE TABLE` and relies on the primary key of `schema_migrations` alone, as
0002 does; two processes can be between the same two looks at the path, and one event is what
must come between them; two let the operator's file be overwritten and a power
loss bring it back.  The documents name each kind of authority and none, one
names the placeholder beside a secret (as `config.example.yaml` does when the
secret of README's hands-on check is put in), and one is refused only by
`validate`'s check of the sign.  *Devices:*
of the four versions one has the later time, one the higher revision and two
differ in the source alone, so each device can win and lose; with pages of one row a cursor stops between
two rows of a push.  *Panel:* three requests wrap a ring of two, with two
durations so that an old sample and a new one differ; two of them are what must
end and begin between two reads of a frame.  An error answer, a stored row and a
failure of the statistics are events of the same bound of three, so the wrap comes
without them, and two failing requests, or one with a row and a failure, come
without the wrap.  They meet in the proofs, where the ring, the requests and the
events are arbitrary.
`MaxSeq` bounds the counters, by a guard of `Begin`, `AllocateSeq` and
`CommitPush`, and nothing else; the pull runs stay live because a counter at
its bound only means that no more pushes come.  The proofs have no such limit:
`MaxSeq`, and all sets, are arbitrary there.

`pull_safety` uses the permutations of handlers, keys and pushers as symmetry;
none of them is ordered or named in the module, and this run checks no liveness
property.  The same holds of the processes of `startup`.  `devices` turns the deadlock check off: with every edit made and
delivered there is nothing left to do.

**Fairness** (`FairSpec`): weak fairness of the steps a handler does by itself
(`HandlerStep`), which include the firing of a poll's timer, and of
`Notify`.  This is the Go scheduler running a goroutine that can run, and a
timer that is set.  Nothing is assumed of clients, of further pushes, of failing
queries or writes, of restarts: `StreamDelivers` and `PullEnds` hold whether or
not they come.  `Verifier!FairSpec`: calls run, the two intervals pass, and strong
fairness of `FetchAnswer`: a provider that is asked again and again for a document
that decodes answers some time; without it no cache can do anything.  That the
document decodes for good is a condition of `FinallyAccepted` and
`FinallyRefused`, because the code gives neither without it.  `Lifecycle!FairSpec`: the main
goroutine runs and its timer fires; nothing is assumed of requests.
`Panel!FairSpec`: the ticker's goroutine runs, queries that do not fail answer,
and `statsEvery` passes again and again (strong fairness, because a tick may find
it has not passed yet).  `Devices!FairSpec`: devices go on synchronising;
nothing is assumed of edits, checkpoints, failures, or of a device starting over.
`Startup` and `Origin` have no liveness properties: nothing makes an operator
start a process again.

### What the violated runs show

**`origin_two_hellos`.**

`EnsureOrigin` reads `server_meta` and, finding it empty on a hello, calls
`writeMeta`, which overwrites.  Two hellos with different origins at a time both
read the empty value, and the second write replaces the name the first one
gave the store, after the first client was told it had succeeded.  README.md
("The first client that calls `GET /v1/sync/hello` ... imprints that name") and
docs/CONFIG.md ("the first well-formed `Ulsync-Origin` on `GET /v1/sync/hello`
is recorded") say the first one stays.  With one hello at a time
`origin_one_hello` shows the intended behaviour; it has no moment between another
hello's read and write, so this run alone reaches the race.

**`shutdown_drain`.**  The package comment of `main.go` says that a shutdown
"drains in-flight HTTP requests before closing the database pools".  The drain
has ten seconds for both listeners together, an event stream never ends by
itself and a long poll lasts up to 55 seconds: with one of them open the deadline passes
and the pools are closed under it.  What does hold is `ClosedInTime`: who ends
before the deadline is answered first.

Not a run of its own: docs/CONFIG.md says of seeding that "An existing file is
never overwritten".  `os.Rename` replaces what is there, and between the last
`os.Stat` of `writeFileAtomic` and the rename a file may appear.
`OverwritesOnlyUnseen` states what does hold: that is the only window.

Nor is this: the comment of `parseJWKS` (`jwks.go:36-38`) says that "one broken
entry must not discard the rest of the set".  That is so of an entry that
decodes; one with a numeric `kid`, or that is a string, makes `json.Unmarshal`
(line 41) refuse the document, and with it every key.  The entry "undecodable" of
`Verifier` is that case: the old set stays, withdrawn keys and all, until the
provider corrects its document.  The two liveness properties state what
does hold: nothing of it outlasts the correction.

## Proofs

All proofs are for arbitrary constants, under the assumptions named in the
modules (`StoreAssumption`, `PullAssumption`, `BatchAssumption`, ...): typing,
`MaxBatch`, `Limit` and `Cap` positive, finitely many keys and requests (for
counting them), documents that have the fields of the `Config` struct
(`DocumentType`), requests of the panel that are numbered as they begin, and the
null values outside the sets they are null values of.  Two theorems have a
hypothesis of their own, `ImprintCorrect` and `OneContourCorrect`: at most one
hello at a time.

* `StoreProofs`, of `Conflict`: the Go rule and the SQL rule are the same relation
  (`WinsIsUpsertWhere`), and it is a strict order, total up to equal ranks.
* `StoreProofs`, of `EnvelopeStore`: the inductive invariant is
  `TypeOK /\ WorkingCopy /\ RepliedAccepted /\ LwwWinner`.  The types alone say
  nothing of what a commit will publish; `WorkingCopy` says it: at most one
  transaction is open, and its copy is *the state committed now* with the
  envelopes done so far applied.  With it a `Commit` is one step: every row of the batch is
  `Upserted`, the others are unchanged (`CommitEffect`).  `LwwWinner` is then
  kept because the rule is transitive: what lost to the old row loses to the
  new one.  `RepliesHold` follows from it, `RowsOnlyAdvance`, `RetryIsNoop` and
  `AppliedIsTruth` are consequences of `CommitEffect`, and `Implements` maps a
  commit to `Stamp` with the positions of the applied envelopes, an
  `AllocateSeq` to a `Stamp` that stores nothing, and everything else to a
  stutter.  `OrderIndependent` puts the two parts together: since a row is an
  accepted envelope nobody beats, and of two envelopes that do not beat each other the
  ranks are the same, *what* was accepted decides the row and not in which order.
* `LivePullProofs`: first the log it uses: numbers of a user are distinct, at
  most the counter, and a changed row is above the old counter (`StampFacts`, ...).
  Then types and `RegistryExact`: the registry holds exactly the live requests
  between `Subscribe` and `Unsubscribe`, under their own user.  `CursorSound` is
  not inductive, because a page on its way is a promise about rows that may move.
  `Inv`, which `pull_safety` checks too, adds
  `PageSnapshot` (a page holds rows between its two cursors, which can only
  have moved up since), `LinkCovers` (what the device has together with what
  its open request still holds covers everything up to the page's cursor),
  `DeviceBehind` (a device is never ahead of the log), and `SignalPending`
  (`NoLostWakeup` from the moment of the query on, not only while waiting).
  A push keeps `LinkCovers` because a row that changes leaves the covered
  range; a query keeps it because the cursor of a page is its highest number
  and the page holds the *lowest* rows after `since`.  `SignalPending` is kept
  by a commit because the push then owes a notification, and by the
  notification because the waiter is registered (`RegistryExact`) with a
  channel that holds a signal until it is received.  `Inv` also gives the safety
  half of `StreamDelivers`: where the next query would find nothing
  (`NothingNewerIsUpToDate`), and so where a live request is quiet
  (`QuietIsUpToDate`), the device holds exactly what is stored.  `PullsKeepTheLog`
  says that what is proved of the log holds beneath all this.
* `StoreProofs`, of `DiffCheck`: `DInv` is the store's invariant and, for each diff, that
  the keys looked up so far were all looked up in one state committed while it was
  served (`OneSnapshot`), and that each row has only *advanced* since, in the
  rule's order.  The second part is why `SilentNeedsNoPush` stays true after
  the answer: what lost to the row of then loses to the row of now.
  `DiffOnlyReads` is the refinement of the write path by the write path beside
  diffs, which carries every theorem above over.
* `DevicesProofs`: `DeviceInv` says of a device and a store state (`True`): the
  rows up to the cursor are covered by the copy, and the rows from there to the
  end of the page under way are in the page as they are.  It holds of the
  present state, and, of a device that has read nothing since the last checkpoint,
  of *every* state a power loss may bring back.  Without the second part a power
  loss does not keep the first.  From it, `RestIsConverged`: a device that has
  nothing to push and nothing to pull holds what the store holds, because two
  versions neither of which wins are one version.  `PushSettles` needs `PageInv`
  beside it: a page under way has nothing the store would take, unless it is of a
  state that was lost.  So no page, and no push of another device, makes a diff
  ask for something again; an edit or a power loss can.
* `OriginProofs`: `PInv` for any number of requests: an imprint is under way only
  on a store without an authored origin.  `NInv`, for at most one hello at a time,
  adds that who is about to imprint still finds no name, which gives
  `ImprintStays` and `OneContour`.  The assumption is stated in these two
  theorems; `origin_two_hellos` shows that they need it.  What holds without it is
  proved of `Settled`: the store has a name and no request that found it nameless
  is still to write.  A settled name stays (`NameSettles`) and is the only one
  served (`SettledServesOne`); a name is never lost, and a restart settles it
  (`NameIsKept`).  So the race can change the name only while it lasts.
* `StartupProofs`: `MInv` of the migrations (who is before its commit holds the
  lock, and the version it applies is not recorded; a process is never past what
  is recorded), `FInv` of the file (what is renamed was synced, so nothing a power loss may bring
  back is torn; a process at its rename that finds a file is in `raced`), and
  `RunType`.
  `SeedCorrect` goes through `Seed`, `applyDefaults` and `validate` for any flags.
  `ConfigValid` says that a configuration is a document completed and found valid.
  From it, `PagesAreBounded` (for any number of rows asked, not only the ones the
  run tries), and `ServesCorrect`, which is `ServesAsConfigured` for any documents:
  `applyDefaults` fills in the placeholder only where no authority is named.  A
  document may itself name that address beside a secret, as `config.example.yaml`
  does once a secret is put in; then both are named and both are trusted.
* `PanelProofs`: `CollectorInv` counts requests by their place in `Wrap`
  (`CountersAgree`), says that a recorded error was counted (`ErrorsCounted`) and
  that the next slot of the ring is the number of samples modulo its capacity;
  `RingIsRecent` then needs that samples less than the capacity apart are in
  different slots (`Distinct`).  `DraftInv` says what the reads of an unfinished
  frame have to do with the counters of *now*: totals only grow, so a value read
  earlier is at most the value of now, and who had begun by the read of in_flight is
  in it or in the total read after it.  `CurrentInv` keeps the frame shown below
  both, so that the next frame is not less.  That `P95` is a number needs that
  the k-th smallest of n samples exists (`SmallestIs`).  `PercentileCorrect` says
  which number it is: the ring is in the order of its slots and has wrapped any
  number of times, but slots and latest samples are in bijection
  (`LatestInSlots`), so counting slots counts samples; `PanelFollows` states the percentile in the same
  words (`IsPercentile`), of the samples and not of the ring.
* `VerifierProofs`: types, and `AskedIsMarked`: the provider was asked in this
  interval exactly when the interval is marked, and then once, because looking at
  the mark and setting it are one critical section.  `RefetchOncePerInterval` alone
  is not inductive: it does not say that one who finds no mark is the first.  `Gone(k)` says that neither the cached set nor
  an answer still to be stored holds the withdrawn key `k`; `Settled(k)` that the
  set and all those answers hold the published one.  The answers are what makes the two
  stable: a fetch that began before the rotation may be stored after a later one.
* `LifecycleProofs`: types with what has stopped in each phase (`PhaseOK`), and
  `Drained`: the listener that was shut down has no request left, or the deadline
  has passed.  Types alone do not say why a pool is closed only then.

| theorem | states |
|---|---|
| `StoreProofs!LwwCorrect`, `OrderIndependent` | `Spec => []LwwWinner`, and the order of arrival decides nothing |
| `StoreProofs!RepliesCorrect`, `FlagsAreTrue`, `RetryStoresNothing`, `RowsAdvance` | what a push tells its client, and what it may do to a row |
| `StoreProofs!Implements` | `Spec => Log!LogSpec` |
| `StoreProofs!OneMomentCorrect`, `SilentCorrect` | a diff is the comparison with one moment, and its silence stays right |
| `StoreProofs!DiffOnlyReads` | `DiffSpec => Spec` |
| `LivePullProofs!CursorCorrect`, `NoWakeupLost`, `ForwardOnly` | the cursor is true, no wakeup is lost, nothing goes back |
| `LivePullProofs!NothingNewerIsUpToDate`, `QuietIsUpToDate` | a device that has nothing more to get has everything |
| `LivePullProofs!PullsKeepTheLog` | `Spec => LogSpec` |
| `DevicesProofs!CursorHoldsCorrect` | `Spec => []CursorHolds`, power losses included |
| `DevicesProofs!RestIsConverged`, `PushSettles` | at rest device and store agree; what was pushed stays pushed |
| `OriginProofs!PinnedCorrect` | a configured origin is the store's origin |
| `OriginProofs!ImprintCorrect`, `OneContourCorrect` | with one hello at a time a name stays and one application is served |
| `OriginProofs!NameSettles`, `SettledServesOne`, `NameIsKept` | with any number of hellos: the same once the race is over |
| `StartupProofs!RecordCorrect`, `OpenCorrect` | every migration once, all of them before the store is used |
| `StartupProofs!WholeCorrect`, `OverwriteCorrect`, `SeedCorrect` | the file is whole, a seed replaces nothing that was seen, and it means what the flags say |
| `StartupProofs!ServesCorrect`, `PagesAreBounded` | what was loaded serves as configured |
| `VerifierProofs!RefetchIsLimited` | `Spec => []RefetchOncePerInterval` |
| `VerifierProofs!WithdrawnStaysOut`, `PublishedStaysIn` | what the cache has settled on stays |
| `LifecycleProofs!PoolsOutliveRequests` | `Spec => []ClosedInTime` |
| `PanelProofs!ShownCorrect`, `CountedCorrect`, `RowsCorrect`, `ForgetsNothing` | a frame does not contradict itself or an earlier one |
| `PanelProofs!RingCorrect`, `PercentileCorrect` | the ring holds the latest samples, and P95 is their percentile |

Every invariant and action property of the passing runs is proved.  Only
model-checked are the liveness properties, which are out of the prover's reach:
`StreamDelivers`, `PullEnds`, `ServerCatchesUp`, `Converge`, `PanelFollows`,
`FinallyAccepted`, `FinallyRefused` and `ShutdownEnds`.  Of five of them the
safety half is proved, that is, that what is reached is right and stays:
`StreamDelivers` (`QuietIsUpToDate`), `ServerCatchesUp` (`PushSettles`),
`Converge` (`RestIsConverged`), `FinallyAccepted` (`PublishedStaysIn`) and
`FinallyRefused` (`WithdrawnStaysOut`).  TLC adds, on its instances and under the
fairness above, that it is reached.

## Abstractions, and what is not modelled

* A row is its ranks, its creation time and one opaque value; in `LivePull`
  only its number.  Field validation, JSON, the wording of errors, the split
  of `source_id` and ids into characters are left out.
* A statement of a transaction succeeds or the transaction is rolled back;
  which statement failed makes no difference to the store.  `Upsert`, the form
  for one envelope, is `UpsertMany` with a batch of one.
* The keep-alive ping and the write deadlines of a stream are `StreamBreaks`
  when they fail and nothing when they do not.
* An SSE event and a JSON body arrive whole or not at all, and a device applies
  what arrives.  Devices that break the protocol are not considered.
* A crash is that of the process, but in `Devices` and `Startup`, where the
  machine may lose power.  What a power loss takes from a database in WAL mode
  is modelled as its documentation describes it: a suffix of the commits
  since the last checkpoint.  A file system makes a rename durable when it likes,
  because the directory is not synced, and without the sync of the file the name may
  come first.  That it does so in time of its own accord only takes outcomes
  away.
* The verifier's tokens are the kid they name, correctly signed; JWKS parsing is
  the set of usable keys of a document that decodes.  A negative `jwks_cache_ttl`, which turns the refresh
  off, is left out.
* Handlers do not panic: `Collector` and `LivePull` do not have the step.  (A
  negative `live_heartbeat` passes `validate` and makes the ticker of a stream
  panic; it is listed among the hazards.)
* Of the configuration, the fields nothing in the models depends on are left
  out: time-outs and sizes that only have to be there.  Addresses are
  "loopback", "network" or "malformed".  The origin's binding comes between
  `store.Open` and the listeners and is in `Origin`, not repeated in `Startup`.
* A frame of the panel leaves out the origin, the live connections and what
  never changes; the table statistics are two counts, and the size of the file only
  a way for them to fail.

Not modelled:

* routing and middleware (`server.go`): they hold no state, and what they let
  through is in the guards of `Arrive`, `Open` and `Traffic`;
* the admin page and the check of its token, `/healthz`, and the probe
  of `-healthcheck`: one comparison or one answer each, no state;
* the parsing of keys and of the configuration's texts (`ValidateOrigin`,
  addresses, durations), JSON and field validation: data, not control;
* the installer (shell around systemd and Docker) and the load tools: not part
  of the server.

## Where it stands

Modelled, checked and, where it says so above, proved: the path of the devices'
data (`Conflict`, `EnvelopeStore`, `SeqLog`, `LivePull`, `DiffCheck`, `Origin`)
and its composition (`Devices`); the process around it (`Startup` with `Config`
and `Migrate`, `Lifecycle`, `Verifier`); what the operator sees of it
(`Collector`, `Panel`).

What could come next: a proof that `LivePull` and `DiffCheck` implement the
single steps `Pull` and `Diff` of `Devices`; two devices pulling live while the
other one pushes, by putting `LivePull` in the place of `Pull` there; and a
handler that panics between two updates of `Wrap`, once the code says what is
then to hold.
