# A formal model of network-debugger

network-debugger records what a home network does from several vantage points.
An **agent** on each probe measures once a second into a durable spool and ships
the spool to a **server**, which stores the samples, runs detection rules over
them on a timer and correlates the events of several probes into incidents. The
network it debugs is the one its reports travel over, so losses, late answers,
restarts and backfills are its normal conditions.

These modules model the parts where that makes the code hard to get right:
the collection loop on its clock, delivery (the spool, the shipping thread,
registration and ingest), the detection watermark that backfills send back, the
events that detection leaves and the incidents made of them; and the way from a
fault of the network to what is said of it, through the collectors, the rules
and the dashboard's numbers. `PROJECT.json` maps every
definition to the lines it models. Paths below are relative to
`src/src/` unless they begin with `tests/`.

## 1. Inventory

### Agent (`netdbg_agent`)

| component | state | operations | interacts with |
|---|---|---|---|
| spool (`spool.py`) | SQLite table `spool` (id, kind, ts, payload, batch_id), table `identity`, a lock | `_add`, `claim_batch`, `confirm_batch`, `release_batch`, `trim`, `_reclaim_orphans`, `set_identity` | the collection loop adds and trims; the shipping thread claims, confirms, releases |
| shipper (`shipper.py`, `ship_worker.py`) | probe id and token in memory, failure count | `register`, `ship_once`, `clear_identity`, the worker loop | one HTTP call at a time to the server; the spool |
| runner (`runner.py`, `schedule.py`) | tick number, clock, pending clock steps, next due times, last trim | `collect_once`, `_flush_clock_steps`, `run_forever` | collectors, clock, spool |
| collectors (`collectors/`) | the DNS probes' query index and last answers | ping, DNS, HTTP, interface, gateway discovery | the operating system |

### Common (`netdbg_common`)

The wire models and enumerations (stateless validation) and `timeutil.py`: a clock
derived from a monotonic anchor, re-anchored by the collection loop when the wall
clock steps and read by both agent threads.

### Server (`netdbg_server`)

| component | state | operations | interacts with |
|---|---|---|---|
| registration and ingest (`api/ingest.py`, `api/auth.py`, `db/queries.py`) | `probes`, `ingest_batches`, `samples`, `wifi_samples`, `events`, `targets` | `register`, `require_probe`, `ingest` | agents; the watermark, which it rewinds after its commit |
| database (`db/engine.py`, `db/schema.sql`, `main.py`) | one connection shared by all threads | `transaction` | every handler and the detection thread |
| detection (`detect/engine.py`, `main.py`, `api/detect.py`) | `detect_watermarks`, `events` | the periodic pass, `rewind_for_backfill`, `rerun` | samples in, events out |
| rules (`detect/hysteresis.py`, `detect/window.py`, `detect/rules/`) | none: functions of a window | `find_spans`, six rules | the engine |
| correlator (`detect/correlate.py`) | `incidents`, the events' `incident_id` | `correlate` | events, probes |
| series API, dashboard, seeder | none | bucketed reads; demonstration data | the database |

### What is hard, and what makes each part correct

* **Two agent threads over one table.** The spool's lock makes each call atomic;
  `trim` takes it twice. Correct: every claim belongs to the batch being sent, rows
  leave oldest first, the table stays within its cap.
* **Calls that time out and are applied all the same.** Correct: no row leaves the
  spool before it is stored, and a success answer is never taken for another call's.
* **Crashes between steps**: between claim and confirm, between the two identity
  commits, between the ingest commit and the rewind. Correct: nothing is lost, the
  probe keeps its history, late samples are still analyzed.
* **Answers that registration cannot cure** and answers that are not the server's
  (captive portals). Correct: every row leaves the spool in the end.
* **A watermark written by two parties.** Correct: no stored sample is passed over.
* **One SQLite connection under many threads**: BEGIN fails inside another thread's
  transaction, and a read sees what is not committed.
* **A clock read by one thread while another re-anchors it.** Correct: stamps stay
  within the threshold of the wall clock, every shift of derived time is recorded and
  reaches the spool once, a torn read errs in one direction only.
* **Cycles that overrun, fail or sleep.** Correct: collectors neither burst nor starve,
  and the spool is trimmed all the same.
* **Faults that look alike, met by a tick whose calls take seconds each** and whose
  samples carry one time. Correct: a fault that lasts is named as what it is, and a finding
  rests on calls that met what it claims.
* **Detection re-run over moving windows, and incidents rebuilt over moving windows**:
  idempotent by key, if the key is stable.

`PROJECT.json` lists each hazard at its line.

## 2. Modules

```
 Spool        Ingest      AtLeastOnce        Detection           Clock
   |  \         |             |               |     |              |
   |   \________|_ Delivery __|     MCDetection DetectionProofs  Runner
MCSpool            |    |                                       /      \
          MCDelivery  DeliveryProofs                     MCRunner  RunnerProofs

                 Rules                              Correlate
      /            |          \                     /       \
  Events  TargetRules  Collectors  Series    MCCorrelate  CorrelateProofs --+
     |  \          \_______|________/                                       |
MCEvents \             Diagnosis -- DiagnosisProofs                         |
          \                |               |                      InductionLemmas
           \          MCDiagnosis          |                                |
       EventsProofs ------------- RulesProofs (on Rules) -------------------+
```

**`Spool`** is `spool.py` and its two callers, on its own. `spool` is the table: row
id to batch id, 0 for NULL. Each operation is named after its method. `Write` is one
commit of the collection loop (a cycle makes one, or two when the clock stepped);
`TrimCount` and `TrimDelete` are the two critical sections of `trim`, with the count
carried in `excess`; they and `Write` belong to one thread, so nothing is written
between the two. `Claim`, `Confirm`, `Release` are the shipping thread's; `Abandon` is
an exception that escapes between claim and confirm, after which no operation of the
process finishes the claim; `RestartSpool` is a new process opening the file.
`abandoned`, `trimmed` and `restarts` are history.

**`Ingest`** holds the server's tables and what each transaction does to them:
`RegisterProbe` (an existing probe keeps its status, the token is always replaced),
`AuthStatus` (`require_probe`, which reads outside the transaction), `TooLarge`,
`AlreadyApplied` and `ApplyBatch`. Tokens and generated ids are named by the call that
asked for them; `generate_token` and `uuid4` never repeat.

**`Delivery`** composes the two with the shipping thread and the network. `phase` is
where the thread stands in `ShipWorker.ship_once`; `call` is the HTTP call it waits
for. A request is a record on its way to the server or inside it: an ingest request
first passes authentication (`Authenticate`, stage `sent` to `admitted`) and is then
applied (`HandleIngest`), so a retirement or a new token may come in between. When the
thread stops waiting, its request stays and may be processed later; its answer is
dropped. Answers are classed as `_send` classes them: `Succeeds`, `Refuses` (400, 401,
403, 413, or JSON of the wrong shape), `Fails` (500 and the rest), `Escapes` (a 200
that is not JSON). `SaveToken` is separate from `Registered` because `set_identity`
commits the two rows one by one, and each of these commits may raise after the memory
was changed (`IdentityUnsaved`, `TokenUnsaved`, `ClearUnsaved`): the worker logs it and the
process goes on. `unsaved`, a history, is the ids it went by that never reached the table.
`Faults` says which kinds of fault a run injects:
`lose` (a request or an answer), `slow` (the timeout strikes while the call is under
way), `error` (500, before or after the batch is stored), `skew` (400), `disk` (a commit of
the identity raises), `foreign` and
`portal` (someone else answers, with JSON or with HTML), `retire` (the operator).

**`AtLeastOnce`** is the one-page promise: measured rows are held until a copy is
delivered, or dropped openly. `Delivery` implements it with `held` the spool,
`delivered` the rows stored at the server and `dropped` what trim dropped.

**`Detection`** models one probe's watermark and the two parties that write it. A
request thread inserts a batch in a transaction (`InsertBatch`, `CommitBatch`) and then
rewinds the watermark (`Rewind`); the detection thread takes the time, reads the
watermark, loads its window, writes its events and advances the watermark, each a step.
`Visible` includes the open transaction's rows, because the connection is shared;
`CanBegin` is false while one is open. Samples are records of their time, their batch
and the server's time at their arrival. What the rules find is left out: a sample is
*analyzed* when a pass that loaded it has written its events. `confirmed` and `raced`
are history. Other probes' transactions and the correlator's are a cause of failure
and not actors.

**`Rules`** is what detection computes: the hysteresis walk of `find_spans` over runs of
equal points, the outage rule and the gateway rule (those whose events are
correlated), each a function of a window. A reading says of each target whether it
answered in that second. `SpansOf` is the reference the walk is checked against: it
quantifies over runs and has no walk.

**`Events`** is what the engine does with those findings over time: seconds pass and are
measured, some arrive late, passes cut history into windows with a lookback, a rerun cuts
one of its own, and findings are upserted under the key (type, start). A pass and an
ingest with its rewind are single steps here; their interleavings are `Detection`'s subject.

**`Correlate`** is `correlate.py` over events that detection adds and rewrites freely and
clock offsets that ingest changes. `Clusters` is the sweep, `ScopeOf` the verdict, `Persist` the
rebuild: incidents that start in the window are deleted and their events detached, and
each cluster of the events that touch the window becomes a new incident. A correlation is
two steps, because the code loads before its transaction opens: `Load` groups and classifies,
`Persist` rebuilds, and the loop's correlation and a rerun's may overlap. `last`, and
`unseen` and `fresh` of a correlation under way, are history.

**`Clock`** is `timeutil.py`: the wall time and the monotonic time of the host, the
anchor pair, and the two threads that use it without a lock. A step is one read or one
write the other thread may come between: `check_step` reads the wall clock (`ReadWall`),
then the monotonic one and judges (`ReadMono`), then writes the anchors one after the
other; the shipping thread's `now_ms` reads one anchor and then the other. `Jump` is
NTP, or a sleep of the host.

**`Runner`** is the collection loop on that clock: wake up, check and stamp, run what
is due and commit, commit the clock steps, look whether to trim, sleep. Any commit may
fail, which ends the cycle without its trim check, and the process may restart at any
point. Time passes between any two steps, so that a cycle takes any time. `spooled`,
`ran`, `held` and `commits` are history.

**`Collectors`** is what the collectors make of the outcome of a ping, a query, a request
and a look at an interface, and what gateway discovery makes of each platform's routes:
functions, with the DNS probe's memory of answers as an argument.

**`TargetRules`** adds to `Rules` the four rules that look at one target each (loss,
latency, DNS, link) and the subtype of the gateway rule, on samples that say more than
whether the target answered. Series of samples are windows' rows here; `RowsOf` takes a target's
rows, `DetectAll` runs the rules as the engine does.

**`Series`** is the arithmetic of the dashboard's ribbon for one target: buckets,
sub-buckets, their rates, and the colours a rate is painted in.

**`Diagnosis`** composes them. A `Cycle` is one tick of the loop and the pause after it:
the targets that are due are called one after the other (`Turn` is the order of
`collect_once`), each call that is not answered waits for its timeout, and all samples are
stamped with the time the tick began. A fault prevails; it may change, or the host sleep, between two calls
of a tick or in the pause (`Beginnings` are the calls made before), so that the calls of one
tick meet different faults, and a tick lasts as long as its timeouts (`Took`), which
thins out the samples of an outage. `met` (which fault each call met) and `spells` (what
prevailed from when on) are history: the properties of findings speak of the calls, those of
the ribbon of what prevailed. `Encounters` says what a fault does to a ping, a query, a
request and an interface; it is the one
table here that is not code of the repository, and what `LastingFaultsAreNamed` says is
relative to it: a dead router answers nothing, a captive portal answers the gateway's
resolver with another address and the request with a redirect, and so on. The samples arrive
at once and in order, because lateness is the subject of `Events` and `Detection`.

`DeliveryProofs` (with those of the spool), `DetectionProofs`, `RunnerProofs`, `RulesProofs`,
`EventsProofs`, `DiagnosisProofs` and `CorrelateProofs` hold the theorems, and `InductionLemmas` the
induction principles and facts about finite sets that several of them rest on. The `MC` modules hold the assumptions the instances make about each other's constants.

## 3. Runs

| run | checks | states |
|---|---|---|
| `spool` | `SpoolTypeOK`, `ClaimsBelongToSender`, `OldestFirst`, `BacklogBounded`, with escaping exceptions | 572 thousand |
| `delivery` | `TypeOK`, `NoSilentLoss`, `AnswerMeansStored`, `OneHistory`, `DuplicatesBounded`, `KeepsPromise`, all faults | 1.3 million |
| `delivery_drains` | `EveryRowLeaves` under `FairSpec` | 398 thousand |
| `detection` | `TypeOK`, `FreshNeverSkipped`, `LateDataReopened`, and `DueIsAnalyzed` under `FairSpec` | 311 thousand |
| `events` | `TypeOK`, `SpansAreRight`, `StretchesCovered`, `EventsAreEarned`, `ClosedStaysClosed` | 187 thousand |
| `correlate` | `TypeOK`, `ClustersAreComponents`, `MembersFit`, `RerunIsIdempotent`, `RegroupingIsAccounted` | 1.9 million |
| `runner` | `TypeOK`, `StampsTrackWall`, `ShiftsAreExplained`, `SentNeverBehind`, `CollectorsKeepPace`, `WritesBetweenTrims`, `CollectorsAreSpaced`, `SuspendsNeedAHeldThread` | 4.1 million |
| `diagnosis` | `TypeOK`, `FindingsAreEarned`, `LastingFaultsAreNamed`, `MarksTellHijacks`, `RibbonShowsOutage`, `RibbonSparesStrays`, every fault of the table | 73 thousand |

Four more runs are disagreements between the code and what it says of itself, each with
the shortest counterexample TLC finds:

| run | property | what happens |
|---|---|---|
| `delivery_duplicates` | `NoDuplicates` | The answer to an ingest is lost; the rows are released and sent again under a new `batch_id`; the server stores them twice. The idempotency key is drawn per attempt (`shipper.py:133`), so it never absorbs a retry. |
| `detection_gap` | `NoSilentGap` | A late batch commits and rewinds between a pass's load and its write of the watermark; the write undoes the rewind and the samples are never analyzed. |
| `events_clipped` | `OneEventPerOutage` | An outage outlasts the lookback; the next window starts inside it and finds it again from its own first sample, under another key. The first event stays open for ever. |
| `correlate_accumulates` | `IncidentsAreGroups` | An event began before the window and reaches into it; it is put into a new incident, and the old one, which also began before the window, is not cleared. |

What else the models show, without a run of its own:

* `register` sets the probe id in memory and commits it afterwards (`shipper.py:105`). When
  that commit raises, the process ships under an id that is written nowhere (`unsaved`), and the next one
  registers anew: its history has two probes, against `spool.py:61`. `OneHistory` excepts this.
* An internet outage that ends between a tick's pings and its HTTP check
  (`runner.py:217`) leaves a success stamped with the tick's start, inside the outage, which is then
  named `icmp_filtered` from end to end, although nothing was filtered at any time
  (`gateway_up_internet_down.py:18` means by it that the internet was up).
* An outage as long as a sub-bucket lies across two of them, as a rule, and neither is lost as a
  whole: its bucket need not be red, although `series.py:83` says so of a 60-second outage.
  `RibbonShowsOutage` speaks of outages that fill a sub-bucket.
* A sub-bucket of as few samples as count, at the edge of a query or beside a sleep, with one lost
  ping has a rate of 2/3, and `app.js` paints a warning where it says (`app.js:19`) that an isolated
  drop must read "ok". `RibbonSparesStrays` says that it is never worse than that.
* `trim` counts in one critical section and deletes in another: a batch confirmed in
  between makes it drop rows from a spool that is within its cap, and the delete may reach
  rows that are being sent, against `spool.py:240`. `KeepsPromise` shows that this costs
  nothing beyond what trim would cost anyway: the rows are counted as dropped, and the
  confirm that follows finds fewer rows.
* A retired probe that follows the 403's advice to re-register (`auth.py:88`) gets a
  token and stays retired.
* Two requests that overlap on the shared connection: the BEGIN of one fails, and a
  stored batch is answered 500, against what `db/engine.py:27` expects of the busy timeout.
* HTTP successes that arrive late give a stretch an `icmp_filtered` event next to its
  `gateway_up_internet_down` event: the type is part of the key.
* A captive portal that answers 200 with HTML makes `resp.json()` raise past `except
  ValidationError` (`shipper.py:204`; `register` catches both); the rows stay claimed until
  the process restarts, against `shipper.py:4`. `Escapes` in `Delivery` and `Abandon` in
  `Spool` have it. `EveryRowLeaves` fails as soon as `portal` is among the
  faults of `delivery_drains`, and `BacklogBounded` shows that it does not unbound the spool.
* A time the shipping thread reads while the clock is re-anchored is ahead by the age of
  the old anchor, which may be days, and the server subtracts it into `clock_offset`. The
  order of the two writes and reads makes it err ahead only (`SentNeverBehind`).
* `likely_suspend` is to be told by a monotonic gap of less than half the interval, but
  the loop sleeps on the monotonic clock: between two checks lies an interval, suspended
  or not. `SuspendsNeedAHeldThread` says when a step can be named suspend at all: at the
  first check of a process, or after a check that came late in its own cycle.
* `_compute_slip` measures the 1 s cycle against `ship_interval_s` (5 s), so that
  a slip below 4 s is not recorded, and no rule reads it, though
  `models.py:63` says that detection excludes such samples.
* A correlation that loaded before a rerun found an event, and stores after the rerun
  grouped it, detaches the event again (`RegroupingIsAccounted` excepts it), against
  `api/detect.py:46`; the loop heals it within its trailing window, another rerun otherwise.
* Clock steps that wait for a failed commit are lost with the process.
* The gateway and the interfaces are discovered once, at the start: an agent that starts
  without a link calls every loss of the internet an outage and never reports a
  `link_change`, for as long as it runs (`Expected` in `Diagnosis` has both cases).
* No rule reads the clock_step events that `runner.py:112` says "stop a laptop's
  overnight sleep from being recorded as a flawless outage": the sleep leaves no samples,
  and a fault before and one after it become one event.
* A captive portal's redirect counts as an HTTP success, so that lost anchors are named
  `icmp_filtered` behind it.
* A latency spike that fills half the window becomes the median and is no spike any more.
* The seconds of a tick share one time: an outage of a few seconds leaves failed pings and
  good answers at the same instant, and `FindingsAreEarned` can say of an `icmp_filtered`
  finding only that an HTTP check of its ticks was answered, not when.
* A fault that begins between a tick's two resolvers splits them: the first failed query of
  one and the last good one of the other fall into the same tick, the DNS rule opens as `public_resolver` or
  `router_forwarder`, and the subtype stays. `LastingFaultsAreNamed` leaves out faults that begin there.
* While pings time out a cycle takes seconds instead of one, and a sub-bucket with fewer
  than 3 samples never counts for the ribbon: with sub-buckets of a few seconds, or timeouts
  of many targets, no outage shows at all. `RibbonShowsOutage` therefore asks for room for
  that many of the slowest ticks.

### Bounds, and why they are enough

* Spool: cap 2, batch 2, up to 2 rows a write, 2 writes between trims. The cap is
  passed by one interval's writes; a claim is both part of the backlog and all of it.
  9 rows let the cap be passed more than once, with one restart in between, and 4 batches
  let two be abandoned while others are sent.
* Delivery: 3 rows, so that a batch leaves a row behind and the next batch differs; 6
  identifiers (13 for liveness, where the bound must not be what stops the agent): the
  first registration, a second one, and retries of a batch; 2 faults of any kind and one restart.
  A fault and its retry need two calls; two faults make the second hit the retry of the first.
* Detection: a lookback of 1 and a clock of 2, so that a sample can fall behind the
  watermark by the lookback; two batches of any times, two request threads, and two
  crashes, failures or reruns. The theorems cover the rest of the safety properties' range.
* Events: thresholds of 2 instead of 3, a lookback of 2 and 5 seconds. A stretch needs 2
  seconds to open an event and 2 to close it, which leaves one for a blip on either
  side, and 5 seconds are longer than the lookback and a pass; one second arrives late and
  one rerun covers any window. The code's lookback (60 s) is above its thresholds
  (3 samples at one a second), which `EventsConstants` assumes: without it a stretch cut by
  two windows is too short in both.
* Correlate: 3 events on two probes (chains of overlap need 3), or fewer and changes of them or of an
  offset; a WiFi probe whose clock may be ahead by more than the gap between neighbours, a
  clock of 3 with a trailing window of 2, and two correlations, by the loop or by one rerun
  thread, one before, after or during the other. The properties do not speak of the verdict, and two
  probes do not reach all of `ScopeOf`.
* Runner: a threshold of 2, jumps of -2, 1 and 3 (below it and beyond it, both ways), a
  cycle of 2 with a jitter of 1, a collector every 3 and a trim interval of 2, over a
  monotonic time of 6: three cycles, so that a collector is due in one and not in the
  next, and a check can come late after one that did. One jump, one failed commit and one
  restart; the theorems cover any number of each.
* Diagnosis: `Moments` says in which ticks the fault may change and to what, and the host sleep. Any
  fault may be the first, the network recovers in the second tick (or not), and any fault begins in the
  seventh of eleven ticks, each at any point between the calls of its tick or in the pause after it:
  five ticks of health are as long as the slowest rule takes to let go, and the rest as long as it
  takes to confirm. `MaxChanges` of 2 counts changes, naps of 2 seconds and seconds of jitter of
  those ticks alike. Timeouts of 1, 1 and 2 seconds (1, 2 and 5 in the code)
  stretch a tick to as many as 6 seconds, so that a sub-bucket of 12 has room for two of the slowest, which is
  `WorstMinSamples` here. Thresholds of 2 instead of 3, loss windows of
  4 instead of 30 (`loss.py:20`), for which the least loss is 50 % instead of 20 %, so that it decides and the least
  number of failures does not, as in the code, where 20 % of 30 are 6; the ratios that matter (a baseline of 3 replies below which latency is not judged, a
  loss that is neither partial nor full) are kept. All starts are tried: with the three platforms' routes, linked
  or not. The queries have buckets of 2, 12 and 24 seconds, with sub-buckets of at most 12: as wide
  as the bucket, and dividing it; and the windows begin at bucket boundaries and between them.

`CHECK_DEADLOCK FALSE`: the bounds stop every behaviour, and a system with nothing to
do is allowed to be idle.

### Fairness

`Delivery!FairSpec` assumes weak fairness of the shipping thread and of the server. The
worker loop runs again after a bounded delay whatever the cycle did (`ship_worker.py:80`),
its HTTP client has a timeout (`ship_timeout_s`), and the server runs the requests it
has. Nothing is assumed of the collection loop, of crashes or of the network, except
that faults are finitely many, which is the bound. `Timeout` of a call that is still
under way is a fault, and of one whose request and answer are gone is not: it is then
the only way on.

`Detection!FairSpec` assumes weak fairness of the detection loop, which sleeps and runs
again whatever the last pass came to (`main.py:49`), of the requests being served, and
of the clock.

## 4. Theorems

All are for every value of the constants, under the modules' `ASSUME`s only.

* `DeliveryProofs`, on the spool alone: `SpoolTypeCorrect`, `ClaimsAlwaysBelong`, `OldestAlwaysFirst` and
  `BacklogAlwaysBounded`, with escaping exceptions or without. The last needs
  that the rows still to be trimmed are no fewer than the excess over the cap that the
  writes since the last check do not explain; finite-set cardinalities come from
  `FiniteSetTheorems`.
* `DeliveryProofs`, on the whole:
  `NothingLostInSilence` and `SuccessMeansStored` come from one inductive invariant: the
  rows of the batch being sent are among the rows of the request that carries it, a
  success answer only exists for a call whose rows are stored, and ids tell calls apart.
  `HistoryNeverSplits` needs an invariant of its own: every request that carries rows
  carries the id in the identity table, which once set never changes, or one of `unsaved`, those
  that a failed commit kept out of it. A probe row the
  server made for a registration whose answer was lost is nobody's id.
  `DeliveryKeepsPromise` is the step simulation of `AtLeastOnce`.
* `DeliveryProofs`, at the end: `DuplicatesAlwaysBounded`. It keeps an account for each row: the calls
  it was sent under that are stored or may still be (`Sent`) are at most one more than
  the faults and restarts so far, and no more than those while the row may be sent again
  (`Resendable`). A claim uses the one up; a lost, late or foreign answer, a server error
  and a restart each pay for a new one; and a refusal, which costs nothing, takes its call
  off the account, because a request that is answered before it is applied can store
  nothing any more. `WireInv` says that: an answer's request is gone, there is one answer at
  a time, and no request shares its id with a stored copy. That the copies of a row differ
  in their batch comes from `HistoryNeverSplits`' invariant.
* `DetectionProofs`: `FreshIsSafe` and `LateIsSafe`. The properties speak of the
  watermark between passes and are not inductive: `PassCovers` adds, for each stage of
  the pass under way, that what it will write back passes over nothing. A sample
  that is safe stays safe (`SafeStep`); new samples are safe because they are stamped
  after the pass took its time; a late batch becomes due at its rewind, and that no
  batch is in two places (`BatchInv`) makes the rewind reach its oldest sample. The proof
  needs a lookback of at least 1: without it a late sample stamped exactly at the
  watermark is neither rewound to (`engine.py:93` compares with `<`) nor loaded.

* `RunnerProofs`: all eight properties of the run. Most steps of the loop leave most of the clock
  alone, and `EveryStep` says once what a step does to it: nothing, a tick, a jump, a
  step of `check_step`, a read by the other thread, or a restart. `TypeInv` adds to the types that a check is
  under way only inside a cycle and that the step it carries was taken from the anchors as they
  still are. Each property then has its strengthening: `TrackInv` follows the wall time `check_step` read
  through the stages of the check, so that the judgement made in the middle still
  holds at the end; `StepInv` says what the half-written anchor will complete to;
  `ReaderInv` says that the monotonic anchor a reader holds is one the clock had or has,
  and that the present wall anchor on top of it is no less than the lowest offset since; `PaceInv` ties each due time to the collector's last run and `HeldInv`
  the wake-up time to the last check; `TrimInv` counts cycles since the last trim by
  the time they must have slept, which is why the bound on writes speaks of the
  failed cycles. Sequences of clock steps use `SequenceTheorems`.

* `RulesProofs`: `FindSpansCorrect`, that the walk of `find_spans` finds exactly the
  spans its docstring describes, for every sequence of points and every number of
  confirmations. The walk is a recursive function and is followed by induction on the
  points it has seen (`WalkInv`): each span it has closed, and the one it holds open, starts
  at a confirmed bad run and contains no confirmed good one, and no confirmed bad run is
  missing from them. The provers cannot use the library's induction theorems, whose parameter is an
  operator; `InductionLemmas` derives induction on *sets* of numbers from the well-foundedness of
  `<`, and every induction here is one of those. The module ends with what a span says of the
  instants it was found in (`Lasts`): it is broken up by no `Exit` good instants in a row.
* `EventsProofs`: all five properties of the run. Windows overlap, move back and see
  only a part of the past, so the invariant speaks of the stored samples alone: every
  event starts and ends at bad seconds and has enough of them (`EarnedIn`); each stretch the
  watermark has passed is *reached* by an event, one that starts at or before it with
  no confirmed good run in between (`CoveredIn`); and while nothing
  is late, an event that has ended is followed by `Exit` good seconds (`ClosedIn`). The second is
  what `StretchesCovered` alone lacks: a pass that rewrites the event, and closes it, can only close
  it after the stretch, because nothing in its window separates the two. A late sample may
  separate them, but only above the watermark, which `Backfill` sets back. That the lookback
  is no shorter than a stretch (`EventsConstants`) puts every stretch the
  watermark passes into a window as a whole.
* `CorrelateProofs`: all five properties of the run. `AlwaysComponents` follows from an
  invariant of the sweep (`SweptInv`, by induction along the sorted events): a group that
  is finished ends before all that comes later begins, the running end is the latest of the
  current group, and no part of a group is apart from the rest. `Inv` adds to the types
  that a correlation under way fits the events it loaded and has all of them that started in its
  window, but those found since (`Fits`); this gives `AlwaysMembersFit` and
  `AlwaysAccounted`, however the loop and a rerun interleave. `AlwaysIdempotent` needs `RerunInv`: what a
  fresh correlation would store is what it would find if it loaded again (`Current`),
  and the incidents that started in the last window stored, if nothing has changed since, are the
  newest ones, one for each of its groups (`Settled`). TLC checked both invariants on the instance of the run
  before they were proved. `InOrder` is any listing of the events in the order of their starts; that there is one
  for every finite set is a lemma (`SortedListing`).

* `DiagnosisProofs`: all properties of the run but `LastingFaultsAreNamed`. Its inductive
  invariant (`IInv`) says that the rows stored tell the history: each is of a tick that called its
  target, in order, and says what the fault that this very call met lets its collector see
  (`Says`), and no call is without its row. What a collector makes of each fault is proved once per
  collector (`PingFits` to `ResolveFits`), from the table `Encounters`.
  - `FindingsEarned`. The bad points a rule makes of rows stand for ticks whose calls met what it claims
    (`BearsOut`, `MergedReads` for the two rules that look at all targets), and a span of
    them starts and ends in such ticks and has as many as it takes (`Bears`, from
    `RulesProofs`, instantiated also with the thresholds of the slower rules). For a spike,
    the median is no less than the fastest ping (`MedianIsBetween`), so a ping as fast as that is
    none. A burst is counted directly: two rows of a target are of two ticks (`RowsCount`), and as many
    as its chunk reaches are no more than `LossWindow` ticks (`BurstReaches`).
  - `RibbonShows`. An outage is a spell of time, and the ribbon sees rows; between the two stands how
    long a tick may take. `SpellsInv` ties the calls to the spells: a ping made in a tick met what prevailed
    at some time within the pings' timeouts of its start (`PingsPrevailed`), and the next tick follows
    within `Slowest`, unless the host slept (`TicksFollow`). That a tick is bounded by the
    timeouts of its targets is `TookBounded`. So every interval as long as
    `Slowest` inside the outage holds a tick (`TickIn`) and each such tick a lost ping (`PingIsLost`); `WorstMinSamples`
    disjoint intervals hold as many (`OneInEach`), and the cell of the ribbon that consists of them counts, with a rate of 0.
  - `RibbonSpares`. A sub-bucket that counts has at least `WorstMinSamples` rows, and a rate with
    one loss only grows with their number (`RateGrows`), from 500 for two (`RateIsFair`), which is no worse than a warning.
  - `MarksTell` adds `MInv`: a probe's index is the number of its rows, a round of genuine answers is what it
    remembers (`Remembers`), what it remembers it was told (`Past`), and a forged answer after genuine ones is marked
    (`Marks`). The names come round every `Len(QueryNames)` queries (`ModRound`), so the first forged answer
    is to a query for a name that the round before was told genuinely.

  Assumed are: that targets of two kinds have two labels (`Labels`); that the faults are
  those of the table, a forged answer is nobody's genuine one and the routes name the one
  interface (`Environment`); and that a sub-bucket is not narrower than the smallest bucket
  and one sample does not make it count (`SeriesConstants`), as in the code (1 s and 60 s, and 3 samples).

Only model-checked: liveness (`EveryRowLeaves`, `DueIsAnalyzed`; out of the prover's
reach); the four disagreements of section 3, whose counterexamples are TLC's; and
`LastingFaultsAreNamed`, which does not hold for every value of the constants: it compares the
thresholds with each other (a congestion is no spike if the floor is above it).

## 5. What is abstracted, and what is not modelled

* A row's kind, time and payload: the spool's operations do not look at them. A clock
  step's row is followed in `Runner`. The 413
  check counts samples and wifi samples; here it counts rows, and a batch fits the limit
  in every instance, as `config.py:48` requires, so a 413 is left to the configuration
  the documents forbid. A 422 (a row the server's validation rejects) is not modelled: both
  sides use the same models.
* Delays: the backoff, the ship interval and the detection interval are "later".
* A power cut at the server, which with `synchronous=NORMAL` may undo a commit already
  answered; the comment in `db/engine.py` accepts it. A process crash loses only open
  transactions, and at the agent (`synchronous=FULL`) nothing committed.
* The server's clock does not step back across a restart.
* Inside a tick of `Diagnosis`: answers take no time, only timeouts do; a call meets the fault that prevails when
  it is made; at most one disturbance falls into a tick and the pause after it, one in the pause being dated by the
  next tick's start; pings of several anchors, interfaces, and the resolvers but the gateway's come in any order among themselves;
  the jitter of `schedule.py:55` is nothing or one second; and the clock that says what is due counts sleep.
* A probe that is not active is skipped by the detection loop until it is active again;
  a rule that raises is logged, and the watermark advances all the same.
* Severities, confidences, and the wording of evidence.
* The other probes in `Events`: rules see one probe at a time.
* The slip and the sequence number of a sample, which no rule reads, the NTP state, the
  error counters of an interface beyond one number.
* Loss bursts that accompany an outage are findings of their own (`FindingsAreEarned` asks
  the same of them); that two targets' bursts may share a key of the events table is not
  modelled: `Events` has the two rules whose findings are correlated.
* The series API beyond one target's rates: latencies, and the grouping of the answer.
* The wire models' field ranges, the dashboard (presentation) and the seeder, which
  writes generated data into an empty database and runs beside nothing.

## 6. What could come next

1. Theorems: `LastingFaultsAreNamed` under assumptions on the thresholds. A watermark
   written with a compare-and-set implements "no gap", and the present one does so when
   passes and rewinds do not overlap.
2. The per-target findings in `Events`, with the key they share.
