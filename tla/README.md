# A verification project for the SULO/Collaborall → SensorThings translation layer

TLA+ models of the translation layer, TLC runs on small instances of them, and
TLAPS proofs of all the safety properties of the passing runs for every value of the
constants.
The reference is the Go code; the design document
(`docs/sulo-sta-translation-layer-design.md`, "DD" below) is quoted only where
the code and its words differ.

`PROJECT.json` maps every definition to the lines it translates, every property
to a plausible slip of the code that breaks it, and every hazard of the code to
the properties that watch it.

## 1. The system

Vendors publish sensor readings. The layer copies them into one or more FROST
servers (OGC SensorThings API). Three programs live in the repository: the
service `cmd/translation-layer`, the satellite `cmd/collaborall-reader`, and the
diagnostic `cmd/sulo-probe`.

```
 REEN API ──poll──▶ adapters/sulo ──▶ scheduler ──▶ ingest ──▶ frost.Writer ──▶ FROST 1..n
                                                     ▲   │
 vendor ──POST /ingest/{id}──▶ api.PushServer ───────┘   ▼
   ▲                                              state.PGStore (Postgres)
   │                                                     ▲
 collaborall-reader ◀── source STA server             watchdog ──▶ webhook
```

| component | state it keeps | operations | hard behaviour |
|---|---|---|---|
| Poll scheduler (`internal/scheduler`) | none between cycles | `runAdapterCycle` discovers and fans out, `runDatastreamCycle` does one stream | a crash or an error between any two calls; retry by the next tick |
| Ingest core (`internal/ingest`) | a read-mostly mapper | `ProcessStream`: filter, resolve the entity chain on each target, write oldest first | partial success over targets and readings |
| Validator (`internal/validator`) | none | `Filter` | rejected readings count as covered and move the cursor |
| FROST client, writer (`internal/frost`) | entity cache, singleflight group | `GetOrCreate`, `PostObservation`, `FindByName`, `ObservationExists` | first-sight races, lost answers, 409, FROST accepting duplicates |
| MQTT publisher (`internal/frost/mqtt.go`) | broker connection | `PublishObservation` | timeout of a publish that is still delivered; an acknowledgement that says nothing about FROST |
| State store (`internal/state`) | Postgres rows | upserts, cursor, write log, watchdog row | commits whose answer is lost, order of commits |
| Watchdog (`internal/watchdog`) | one row `watchdog_state` | `tick` every 30 minutes and at start-up | state committed before a webhook that may fail; restarts |
| Push listener (`internal/api/push.go`) | none | `handleIngest`, `ingestBatch` | overlapping requests, half-done batches, re-sends |
| SULO client (`internal/adapters/sulo/client.go`) | token, generation, mutex | `get`, `session`, `invalidate`, `login` | many goroutines meeting one dead token |
| SULO fetch and discovery | slot snapshot | `FetchObservations`, `ListThings`, `paged` | newest-first truncation, forecasts, paging over live data |
| Collaborall reader (`cmd/collaborall-reader`) | cursors in memory and in a file | `runOnce`, `cursorStore.advance` | chunk failures, file failures, restarts, sliding first window |
| Collaborall source reader | none | `Discover`, `FetchObservations` | pages whose rows are all skipped |
| Service main, admin server | the goroutines, the two `http.Server`s | start, `ListenAndServe`, `Shutdown` | shutdown during start-up, one budget for two servers |
| OMS mapper, registry, dummy adapter, configuration, metrics, logging, types, probe | – | – | pure, read-only or start-up only |

What makes each of them correct, in a sentence:

* **Poll pipeline**: the cursor never passes a reading that is still owed to a
  target; retries store nothing twice; once failures stop, everything due is
  dealt with.
* **Push ingest**: a 202 is durable; the shared write log and `last_written_at`
  tell the truth whatever requests overlap.
* **Entity upsert**: one process makes one entity per name and hands out one id.
* **Session**: a token that works is never thrown away; nobody waits forever.
* **Watchdog**: no alert without two stale ticks, none twice, no promotion before a
  full interval unless the process restarted, and the status converges.
* **Reader**: a cursor, in memory or on disk, is backed by accepted readings.
* **MQTT path**: the cursor passes only what every target's broker acknowledged;
  only a write that was cut off is published again.
* **SULO fetch**: what stays in the vendor's list is not skipped by paging.
* **Service**: cycles of one stream do not overlap; the store closes last; a signal
  ends the process and requests in hand are answered first.

## 2. Modules

| module | role | source |
|---|---|---|
| `DeliveryLedger` | abstract specification: what one stream promises | – |
| `PollIngest` | one poll stream end to end; implements `DeliveryLedger` | scheduler, ingest, validator, sulo, frost, state |
| `MqttIngest` | `PollIngest` with creates published over MQTT (EXTENDS it); implements `DeliveryLedger` with a weaker "done" | frost/mqtt, frost/writer |
| `PushIngest`, `MCPushIngest` | concurrent push requests over the same rows | api/push, collaborall, ingest, frost, state |
| `EntityUpsert` | `GetOrCreate` for one name | frost/writer, client, entities |
| `SuloSession` | the REEN session | adapters/sulo/client |
| `SuloFetch`, `MCSuloFetch` | `paged` over live data, composed with `SuloSession` (EXTENDS it) | adapters/sulo/client, sulo |
| `ServiceLifecycle`, `MCServiceLifecycle` | the process: loops, fan-out, servers, shutdown | cmd/translation-layer, scheduler, api, watchdog |
| `Watchdog` | the freshness watchdog and its row | watchdog, pgstore |
| `CollaborallReader`, `MCCollaborallReader` | the reader binary against the push endpoint | cmd/collaborall-reader, source, frost/reader |
| `PollIngestProofs`, `MqttIngestProofs`, `PushIngestProofs`, `EntityUpsertProofs`, `SuloProofs`, `ServiceLifecycleProofs`, `WatchdogProofs`, `CollaborallReaderProofs` | the theorems of each (`SuloProofs`: session and fetch; `MqttIngestProofs` EXTENDS `PollIngestProofs`) | – |

Conventions. A step is one call that leaves the process (SQL statement or
transaction, HTTP request) with the local computation up to the next one: other
actors can move between any two of them. `pc` names the call that comes next.
Times are small numbers that double as the identity of a reading, since the code
identifies a reading by (stream, phenomenon time). `calm` is a switch the
environment may throw once: from then on no call fails and no new row appears;
only liveness properties speak of it. Operators called `Slip…` are plausible
mistakes next to the definition they would spoil; no specification uses them.

### PollIngest

State: the stream's row (`cursor`, `polled`, `linked`, `lastWritten`, `log`),
what each target stores (`copies`, `orphan`) and last answered with a 4xx
(`verdict`), the clock and the vendor's rows, and the local variables of
`runDatastreamCycle` and `writeObservation` (`since`, `todo`, `covered`, `ti`,
`wrote`, `permanent`).

| action | code |
|---|---|
| `ReadCursor` | `GetPollCursor` and the in-memory seed, scheduler.go:164-170 |
| `FetchAndFilter` | `FetchObservations(…, 1000)`, `toObservations`, `validator.Filter`; rejected readings raise `covered` |
| `ResolveTargets` | `resolveTargets`, `recordSTAIDs` (whose error is swallowed) |
| `CheckLog`, `Probe`, `Post`, `Drop`, `Record` | the calls of `writeObservation` and `PostObservation`, target by target |
| `AdvanceCursor`, `MarkPolled` | `AdvancePollCursor` (monotonic SQL; error only logged), the deferred `SetLastPolledAt` |
| `Crash`, `Land` | process death at any call; a POST left on the wire that FROST carries out later |
| `Publish`, `Tick` | the vendor serves a row early (a forecast), on time or late; time passes |

A commit or POST that happened although its answer was lost is the `Fail`
disjunct that also changes the row. The history variables `seen` and `forgone`
record which readings a fetch had on offer and which ones its window or its
limit left behind: the code gives the latter up, so the safety properties speak
of `seen \ forgone`, and `BacklogIsNeverCut` shows that they are really lost.

### PushIngest

One record per handler (`queue`, `todo`, `cur`, `ti`, …) follows `ingestBatch`
through registration, the grouped map in any order, and `writeObservation` in
batch order, which may be any order. Handlers share the write log,
`last_written_at` and FROST. In push mode the validator has a zero cursor; what
it rejects depends only on values and the clock, so `TakeStream` keeps any
subset. A handler fails when a call fails or when the vendor hangs up.

### EntityUpsert

One (entity, name) key on one target; keys do not interact. `Call` is the first
cache look-up, `Join` is `sf.Do` with the second, `Find`, `Post` and `Refetch`
are the requests of the flight's leader. The end of a flight releases leader and
waiters in one step, as `singleflight` does. Others may create the name, delete
an entity, or land a late POST; the process may restart with an empty cache.

### SuloSession

`Session` takes the mutex and either returns the cached token or keeps the mutex
into `Login`; `Request` runs without it; a 401 on the first attempt leads to
`Invalidate`. REEN may stop accepting a token at any time and may issue one
whose answer is lost.

### SuloFetch

One goroutine, `Fetcher`, runs `paged`; each of its page requests is one `get` of
`SuloSession`, and the other goroutines go on using the session. `NextPage` is the
head of the loop (the cap before the limit, as `range maxPages` tests it), `Size`
and `Offset` the query, `ReadPage` the decode function: one row that cannot be
decoded fails the page, and the fetch. `RowAdded` and `RowGone` change the list
between any two steps of the fetch. The same module stands for `FetchObservations`
(a limit) and for the three paged calls of discovery (limit 0). The filtering of
`toObservations` is in `PollIngest`. Rows are numbered: the first lists hold no row twice,
and a row that is added is a new one.

### MqttIngest

All of `PollIngest`, vendor and clock included, except the POST: `Publication` is
`PublishObservation`, which succeeds when the broker acknowledges, and otherwise fails with
the message sent or not. (Its permanent error, a payload that does not marshal, cannot come
up: every value in a payload was decoded from JSON.) `Deliver` lets FROST store a message late and repeatedly, `Lose` drops one
(client death, broker, or a refusal by FROST, which nobody hears of). A target's
verdict therefore never arrives over MQTT. `torn` remembers the readings whose
write ended after a publish and before its log row.

### ServiceLifecycle

`OpenStore`, `Launch`, `Shutdown`, `Drain`, `Wait`, `CloseStore` are `run()` from
the first line to the deferred closes. `Serve` is a server's goroutine: it assigns
`srv`, then binds. `Shutdown` before that assignment does nothing (`missed`); the
field is read without synchronisation, and a read that misses the assignment is a
read before it. `Discover`, `FanOut`, `Join` are `runAdapterCycle`; what discovery
may return is a constant, and repeats in it are what `SuloFetch` shows paging to
produce. A stream goroutine is only counted here: `PollIngest` is its life, as
`PushIngest` is that of a push request.

### Watchdog

`Snapshot`, `Read`, `Write`, `Fire` are the four calls of `tick`. Streams become
stale or fresh at will between them. `wait` and `age` measure time so that two
ticks are a `CheckInterval` apart except after a `Restart`; `since_ts` is the time
the tick began. `step`'s default
branch (a status that is none of the three) is left out: the column's values
come from `step` itself. A fresh snapshot whose state read or write fails leaves
`stale_pending` in place; `streak` therefore counts a fresh tick only when it ran
to its end.

### CollaborallReader

`Discover`, then per stream `Fetch`, `Post` chunk by chunk, `Advance`. Readings
come in two sizes, and `PerChunk` computes the length of a chunk from the page's
first reading, as `chunkEnvelopes` does; a chunk above the endpoint's limit is
answered 413. Otherwise the endpoint is what `AckIsDurable` says of it: a 2xx takes
in all of the chunk except readings in its future, an error any part. `Restart` reloads
the file. Rows that `FetchObservations` skips are `blank`.

## 3. What is checked

All bounds are named constants in the cfg files.

| run | states (about) | shows |
|---|---|---|
| `poll_ingest` | 1.9 M | type, cursor rule, no cursor in the future, no duplicate by completed POSTs with orphans on the wire, backed log rows, refinement of the ledger, the backlog is settled |
| `mqtt_ingest` | 0.9 M | cursor only over acknowledged readings, re-publication only of cut-off writes, `last_written_at` true whatever the order of commits, delivery without losses |
| `push_ingest` | 2.2 M | 202 durable, log and freshness true, duplicates only by overlap |
| `entity_upsert` | 52 k | one create, one id, stable id, waiters released |
| `watchdog` | 250 k | hysteresis, one alert per entry, sustained staleness, convergence |
| `sulo_fetch` | 0.3 M | no row skipped, repeats only by insertion; live token kept, every `get` returns |
| `collaborall_reader` | 0.4 M | cursors backed, file behind memory, backlog drains |
| `service` | 0.25 M | store closes last, no overlapping cycles, complete drain, shutdown ends |
| `poll_rate_limited`, `poll_truncated`, `push_resend`, `watchdog_lost_alert` | – | a sentence of the repository that the code does not keep (section 5) |

Why the bounds suffice for what the runs ask:

* *poll_ingest*: two times are enough for one reading to block another, for a window
  that slides (lookback 1) and for a late row; two targets with two refusals let
  both refuse one reading or each a different one; one orphaned POST may land at any
  later moment. The fetch limit does not cut anything here; `poll_truncated` shows
  the cut, and the theorems of section 4 cover every bound. Here readings are
  written in time order; commits out of order are `mqtt_ingest`'s and `push_ingest`'s.
* *mqtt_ingest*: the same vendor and clock, without HTTP refusals and orphans, which are
  poll_ingest's; one lost message, so that a loss at one target meets a delivery at
  the other. The first window reaches back over both times (lookback 2): a newer reading is
  written, the cursor update fails, an older reading is served late and written second.
* *push_ingest*: two handlers are the smallest overlap and the batches share a
  reading, cover one stream twice and reach a second stream. One target: the
  targets of a reading are independent except through the order in which
  `writeObservation` visits them, which poll_ingest covers with two.
* *entity_upsert*: a leader, a waiter and a caller that missed the cache before
  the flight closed; two foreign creates and two late POSTs make `FindByName`
  meet several matches.
* *watchdog*: the divisor 2 instead of 100 and five streams put the threshold at
  one and at two. Two units of time in an interval let a restart fall between
  two ticks.
* *sulo_fetch*: the list is longer than a page and may gain one row, which may be
  the one that does not decode; limits of 1 and 3 end a fetch in its first page, in
  its second or at the cap, limit 0 by a short page or at the cap. Two workers and
  two tokens let a late 401 meet a younger token; larger numbers are covered by the
  theorems about the session.
* *service*: two adapters (one whose listing may repeat a stream, one fixed), one
  admin and two push requests.
* *collaborall_reader*: three times with a page of two give a second page, chunks of
  one and of two, a small reading before a large one (413) and the reverse;
  the quiet stream shares the file with the busy one.

The passing runs fire every action and every disjunct of their next-state
relations. Each property of a passing run has a mutant: a slip of one mapped
definition under which TLC finds the property violated. Deadlock is checked in
every run.

### Fairness

* `PollIngest`: weak fairness of the cycle (the goroutine runs, HTTP and SQL calls
  return because both clients have timeouts, the ticker starts the next cycle) and
  of the clock. Nothing is assumed of the vendor, of FROST or of crashes; the
  property speaks of runs in which failures stop.
* `EntityUpsert`: weak fairness per caller, with the same justification.
* `Watchdog`: weak fairness of the tick's calls and of time.
* `CollaborallReader`: weak fairness of the main loop.
* `MqttIngest`: as `PollIngest`, and the broker delivers or drops what it holds; drops
  end with the other failures.
* `ServiceLifecycle`: weak fairness of `run()`, of each server, handler and stream
  goroutine and of the budget's timer; strong fairness of the `ctx.Done()` branch of
  the two selects, because a Go select with two ready cases chooses at random and so
  does not choose the ticker for ever.
* `SuloSession` and, for its composed steps, `SuloFetch`: weak fairness per worker,
  strong fairness of taking the mutex: `sync.Mutex` hands itself to a waiter that has starved for a millisecond.

## 4. What is proved

Every invariant and every non-temporal action property of the passing runs is a theorem
that TLAPS checks for every value of the constants, under the named assumptions of
the modules (`ConstantsAssumption`, `MqttBoundsAssumption`, `BoundsAssumption`,
`TokensAssumption`, `FetchAssumption`, `WatchdogAssumption`, `ServiceAssumption`),
which TLC evaluates in each run. The assumptions give the types of the constants. Three say
more: `PushIngest` has finitely many handlers at a time; the vendor's first
list has no row twice, since a row number is the row's identity; `MaxRepeat` bounds how often
one listing names a stream, as a listing is finite.

| proof module | theorems (property) |
|---|---|
| `PollIngestProofs` | `TypeCorrect`, `InductiveInvariant`, `CursorRule` (`SettledBelowCursor`), `ReplayIsIdempotent` (`NoReplayDuplicate`), `LogIsTrustworthy` (`LogRowsAreBacked`), `FreshnessIsExact` (`FreshnessTracksLog`), `CursorInThePast` (`CursorNotAhead`), `Refinement` (`ImplementsLedger`) |
| `MqttIngestProofs` | `MqttInductiveInvariant`, `CursorRuleOverMqtt` (`AcknowledgedBelowCursor`), `ResendsAreExplained` (`ResendNeedsATornWrite`), `FreshnessIsExactOverMqtt`, `CursorInThePastOverMqtt`, `RefinementOverMqtt` (`ImplementsLedgerOverMqtt`) |
| `PushIngestProofs` | `TypeCorrect`, `InductiveInvariant`, `DurableAck` (`AckIsDurable`), `LogIsTrustworthy` (`LogRowsAreBacked`), `FreshnessIsExact` (`FreshnessTracksLog`), `SerialResendIsSafe` (`DuplicatesNeedARace`) |
| `EntityUpsertProofs` | `TypeCorrect`, `InductiveInvariant`, `SingleCreate` (`NoOwnDuplicate`), `Agreement` (`AgreedId`), `StableIdentity` (`IdentityOutlivesRestarts`) |
| `SuloProofs` | session: `InductiveInvariant`, `LiveSessionKept` (`NoLiveTokenDropped`), `GenerationIsIdentity`; fetch: `FetchTypeCorrect`, `FetchInductiveInvariant`, `PagingLosesNothing` (`NothingSkipped`), `RepeatsAreExplained` (`RepeatsNeedAnInsertion`), `LiveSessionKeptByFetch` |
| `WatchdogProofs` | `TypeCorrect`, `InductiveInvariant`, `Hysteresis` (`StaleNeedsTwoTicks`), `NoSpam` (`OneAlertPerEntry`), `Sustained` (`StaleIsSustained`) |
| `CollaborallReaderProofs` | `TypeCorrect`, `InductiveInvariant`, `CursorRule` (`CursorIsBacked`), `FileIsSafe` (`FileIsAPast`) |
| `ServiceLifecycleProofs` | `TypeCorrect`, `InductiveInvariant`, `StoreIsClosedLast` (`StoreOutlivesTheLoops`), `CyclesNeverOverlap` (`OverlapNeedsARepeat`), `ShutdownIsGraceful` (`DrainIsComplete`) |

Each module proves that the invariant holds at first, that every action keeps it (one step
per action, one step below it per conjunct the action can disturb), and that it implies
the property. Hardly any property is inductive alone; what has to be added is the
interesting part, and says why the code is right.

**Poll.** When the cursor moves
nothing in the state says that what lies below is settled, unless the invariant
remembers where owed readings are: `OwedIsQueued` says that between the fetch and
the cursor update every owed reading is still in `todo`, and that `todo` is empty
when the cursor is about to move. A reading leaves `todo` when `writeObservation`
returns, so `ProgressOnTargets` carries what the loop over the targets has
established so far: targets before `ti` hold the reading or refused it, `wrote`
means some target holds it, and without a permanent refusal all of them do.
`PostIsFresh` links a POST to its probe, `FreshCounters` says the loop's
variables are reset between readings, `WindowAboveCursor` that a fetch never
starts below the cursor, and `NothingFromTheFuture` that no time the cycle
handles lies ahead of the clock. The refinement uses the same invariant: a fetch
is a ledger `Fetch`, a landed copy or a refusal is a `Settle`, the cursor update
is an `Advance`, everything else stutters.

**MQTT.** A step of the variant is a step of `PollIngest` other than the POST, a
publication, or a step of the broker (`StepKinds`); the step lemmas of `PollIngestProofs`
about clock, window, counters and freshness are stated with only the hypotheses they need
and are used again. The others speak of stored rows, which an acknowledgement is
not, so `UntakenIsQueued`, `LogRowsAreTaken` and `InHand` restate them with `Taken`:
stored, refused, or acknowledged, and `DealtWith`: taken by every target, or unusable. Both
are stable (`TakenStays`, `DealtWithStays`): copies, refusals and acknowledgements only grow, a
message that is lost takes none of them back, and a row once served does not change. `SentIsAccounted` says that whatever was
ever published is in the log, belongs to a torn write, or is in hand behind the loop;
so a second publish needs a torn write. With `DealtWith` for "settled" the variant implements
the same ledger.

**Push.** Handlers share the log, `last_written_at` and the targets and nothing
serialises them, so the invariant is about each handler and about every pair. `InProgress` is
`ProgressOnTargets` for one handler, stated so that no other handler can spoil it: copies
and refusals only grow. `Accounted` says that what a request counts as accepted is settled or
in its hand; when its work is done only the first is left, which is `DurableAck`.
`ProbeHolds` says that a handler can only be about to post what its target has meanwhile
got if the reading is raced, and `SharingIsARace` that two handlers carrying one
reading are known to race; the two give `SerialResendIsSafe` for any number of handlers.

**Entity upsert.** `OneFlight` (only the leader of the open flight is past the
join, with an empty cache), `NothingOwnBeforePost` (a leader about to create saw
nothing of its own), `CacheIsTheAnswer`, and `UndisturbedIsOwn` for the last
theorem.

**Session.** `LoginHoldsMutex` and `Generations`: the worker in `invalidate` holds
a dead token, so clearing the token it names loses nothing.

**Fetch.** Between two pages rows come and go, and every remaining row changes its place.
`RowsMove`, the lemma both environment actions rest on, says what that does: each row of the new
list had a place in the old one, in the same order, so what is true of "the part already
read" stays true of it unless a row went from that part (`shrunk`) or came into it (`grown`).
`ReadIsReturned` and `NewestComeFirst` then give `PagingLosesNothing`,
`UnreadIsNew` gives `RepeatsAreExplained`, and `StretchProperties` says what the next page
adds. Rows have places only while they are distinct (`RowsAreDistinct`). Each step of the fetch
is a step of `SuloSession` or leaves it alone (`SessionStep`), so the session's theorems hold of the
composition.

**Watchdog.** That an alert was earned does not follow from the tick's own
variables, as a pending row outlives ticks that fail and processes that die.
`PendingWasSeen` says such a row stands for one snapshot over the threshold and
that a tick in hand adds the second; `TickFollowsRow` that the alert in hand is
the one `step` gives for the row, which nobody else writes, and that a "stale" one
has its entry on record; `PendingIsTimed` that a pending row, the next tick and
the one before are an interval apart unless a process died.

**Reader.** A cursor jumps to the newest reading of a page, so all below must have been
dealt with, also what an earlier attempt fetched and failed to send. `SentIsSettled` covers the
page in hand; for the earlier attempts `PageHasNoGap` says that a page contains everything
fetched before, above the cursor and up to the page's end, because the page is the oldest rows of
its window and fetched rows stay (`FetchedStays`). The exception `aged` is real: without a cursor the
window slides. `CursorWasFetched` carries the second half of `FileIsSafe`.

**Service.** `RunOwnsTheLoops` ties the place of `run()` to what it has started and not
stopped, `StreamsBelongToACycle` counts the goroutines of a stream against the
entries of the listing the fan-out has been through, and `ServersGoInTurn` with
`RequestsHaveAServer` says that a server already shut down has no request left, unless the
budget is spent, and that none can enter it. The count needs facts about
cardinalities of index sets, which are lemmas of the module.

Only model-checked: liveness (`BacklogIsSettled`, `BacklogReachesFrost`,
`WaitersAreReleased`, `StatusConverges`, `GetReturns`, `BacklogDrains`,
`ShutdownCompletes`). It rests on fairness and ENABLED, which the prover cannot handle. The
violation runs refute a statement and need no proof. Conversely, `RefinementOverMqtt`
belongs to no run: TLC agreed on the instance of `mqtt_ingest.cfg` with a lookback of 1
(1 M states) before it was proved. `CursorInThePastOverMqtt` states over MQTT, where the vendor
serves forecasts too, what `poll_ingest` checks over HTTP.

## 5. Where documents and code differ

Shown by a run that TLC finds violated:

* **429 is final** (`poll_rate_limited`): `errors.go` sets 429 apart from the
  permanent class, `Client.Post` does not.
* **A long backlog is cut** (`poll_truncated`): 1000 rows, newest first, against
  "Adapter handles paging until exhausted" (DD:194) and DD:147.
* **A re-send can duplicate** (`push_resend`): when it overlaps the first request;
  against DD:146 and DD:1124.
* **An alert can be lost** (`watchdog_lost_alert`): against "fires once on entry to
  `stale`, once on `recovered`" (DD:292).
Noticed and not given a run of their own: a restart ticks at once, so two ticks can
be seconds apart and turn the row stale, against "≥ 30 minutes of sustained
staleness" (DD:289; `StaleIsSustained` holds with that exception); recovery fires at the threshold, not
"where the count returns to zero" (DD:290); push streams have no
`last_polled_at` and are never counted, against DD:1128; a failing reading stops
its stream, against "the cycle continues processing remaining observations"
(DD:1346); on an asymmetric permanent refusal the cursor does advance, against
DD:305, and a reading is dropped when nothing new landed and one target refused
it, not only when "every target" did (ingest.go:267); a server that ignores `offset`
and replays full pages is stopped by the limit or the page cap, not by `n == 0`
(client.go:312-314); a slot listed twice gets two goroutines for one Datastream,
whose sequence scheduler.go:7-9 calls serial; the error of a server that cannot
bind is logged only when the process shuts down (main.go:245-251); a `Shutdown`
before its `ListenAndServe` is lost, and `run()` then waits for ever (`missed` in
`ServiceLifecycle`).

## 6. Not modelled

The OMS mapper, registry, dummy adapter, configuration, metrics, logging, types and
the probe: pure, static, start-up only or one-shot. Of the SULO adapter the
projection of slots to Things and the cached snapshot, which feed metadata; of the
admin server what its read-only endpoints answer. Names: each model identifies a
stream with its FROST Datastream, so that two Datastreams which bring the same name
and share an entity (mapper.go:102) are outside all of them. `PurgeOldWriteLog` has
no caller. Connecting and reconnecting of the MQTT client is one outcome ("not
connected") of a publish. Wording, JSON, URLs and Unicode are abstracted to the
outcomes they lead to.

## 7. Plan

1. `PollIngest` with its ledger, proofs and refinement – done.
2. `PushIngest`, `EntityUpsert`, `SuloSession`, `Watchdog`, `CollaborallReader` with
   their runs; proofs of `EntityUpsert` and `SuloSession` – done.
3. `SuloFetch`, `MqttIngest`, `ServiceLifecycle` with the scheduler's fan-out, the
   reader's chunk sizes – done.
4. Proofs of `Watchdog`, `PushIngest`, `CollaborallReader`, `ServiceLifecycle`,
   `MqttIngest` and `SuloFetch`, refinement of the ledger over MQTT – done.
5. Abstract specifications for the components that have none yet, and their refinements:
   what `GetOrCreate` promises its callers, what a push request promises the vendor. A proof
   that the endpoint which `CollaborallReader` assumes is the one `PushIngest` provides.
