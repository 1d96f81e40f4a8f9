# ACM in TLA+

ACM is a condition-monitoring service.  It stores the whole life of every
machine it watches, calibrates a scorer on the healthy part of that life, turns
scores into *evidence* (a betting martingale, the e-process) and latches an
alarm when the evidence crosses `1/alpha`.  What it promises is statistical: a
false-alarm budget that holds for as long as each row of telemetry is bet on
exactly once, against a reference that contains no fault, and the bet is never
silently restarted.  Those are conditions on *control*: on the order of writes,
on what a restart finds, on which thread ran in between.  They are what this
directory models, checks and proves.  The numerics are not.

Paths below are relative to the repository; line numbers are in `PROJECT.json`,
where `map` gives for every definition the lines it translates.

## The system

| Part | Source | State it keeps | Operations |
|---|---|---|---|
| Raw store | `src/store/raw.py` | one parquet file per asset and month | append (month by month), read, span, row_count |
| State database | `src/store/state.py` | registry, journal (`last_seen`, `tick_count`), episodes, verdict history, wealth snapshot | one statement per call under a lock |
| Episode ledger | `src/memory/ledger.py` | the episodes, mirrored in memory | add, remove, windows, mask |
| Lifetime baseline | `src/memory/baseline.py` | period summaries on disk | build, calibration_sample |
| E-process bank | `src/decision/eprocess.py` | wealth, peak, partial block and generator per block size | update, state, runtime_state, load_runtime_state |
| Asset monitor | `src/monitor.py` | scorer, seven banks | calibrate_from_lifetime, process |
| Episodic monitor | `src/episodes.py` | start of the open episode | process, reanchor |
| Runtime | `src/runtime.py` | monitors, verdicts, `last_seen`, tick counts, markers | tick, reanchor, immune_pass, onboard, bootstrap, register, retire |
| Fleet workers | `src/fleet_workers.py` | monitor cache file | run_onboard, run_bootstrap, fingerprint |
| Ingestion | `src/ingest/*.py`, `scan_incoming` | a watermark per source, names of the files seen | drain, ingest_csv |
| Service | `src/service.py` | tick loop, background jobs, sockets | routes |
| Scorers, immune harness, novelty, prognosis, narrative | `src/scoring/*`, `src/immune/*`, ... | fitted numbers | numerics and text |

How they interact.  The service loop runs `tick_all` on a worker thread every
interval; every POST route runs the same `Runtime` methods on another thread.
There is no lock per asset.  `tick` drains the asset's source into the raw
store, reads the rows after `last_seen`, writes `last_seen` through, scores the
rows (monitor, then bank, then episode), appends the verdict, possibly absorbs
a change by re-anchoring, counts the tick, possibly rebuilds, possibly runs the
immune pass, and at the end saves the wealth.  Every one of those durable
writes is a statement of its own in SQLite or a file replace of its own, so a
crash can fall between any two of them.  At start the runtime hydrates the
verdicts, loads each monitor from its pickle if the fingerprint of store and
ledger still matches (else recalibrates), resumes the journal, and overlays the
wealth snapshot on a bank with the same signature.

What is hard, and what should hold:

* **A crash, an exception or a failed save between two writes** of a tick; after
  an exception the process goes on with what the operation changed so far.
  Evidence is counted once; what is lost is bounded and known.
* **Restart against another reference.**  Wealth is only ever resumed against
  the reference it was gathered on, bit-exactly.
* **The moving definition of normal.**  No ledgered fault row in a reference;
  no rebuild while evidence accumulates; an absorbed plateau is in the
  reference.
* **Two threads on one asset.**  Row counted once; episode closed once.
* **Latching.**  An alarm goes away only by the governed reset.
* **First contact.**  Bootstrap ends, ends calibrated, and is marked only then.
* **Appends beside reads.**  A month's file is read, merged and replaced without
  a lock, several months one after the other; a tick may read in between.  No row
  is lost, none is passed over.
* **A fleet that changes under the loop.**  Register, retire, purge, re-onboard
  and the drop folder change the maps the loop iterates over; exceptions end a
  pass.  Nobody is forgotten, nobody is stuck behind a label.
* **Seven banks, one verdict.**  Every domain is fed whatever the others say, and
  on its own scale.
* **Progress.**  Every published row is stored, every stored row scored, every
  monitored asset ticked in the end.

`PROJECT.json` lists every hazard at its line with the properties that cover
it, and every component with its status.

## Modules

| Module | Models |
|---|---|
| `AssetRuntime` | the evidence life of one asset: `tick`, `reanchor`, `immune_pass`, `onboard`, the journal, the ledger, the monitor cache, the snapshot |
| `EProcessBank` | one bank of e-processes with its durable copy |
| `EvidenceLatch` | what a bank promises, abstractly; `EProcessBank` implements it |
| `Bootstrap` | first contact with one asset: `run_bootstrap`, its sequential and its parallel caller, the marker |
| `History` | what the raw store promises of one asset's history, abstractly |
| `RawStore` | `append` as the threads run it, month by month |
| `Ingestion` | how rows reach the evidence: sources and their watermarks, the API, the first half of `tick`; it extends `RawStore`, and implements `History` |
| `LifetimeBaseline` | `build` with its summary cache and recency cap, `calibration_sample`, over a store that is `History` |
| `AssetMonitor` | which of the seven domains a calibration arms, how they are fed, what the verdict says, what a restart restores |
| `Fleet` | the life cycle of all assets: set-up, first contacts, passes, and register, retire, purge, re-onboard, drop folder beside them |
| `InductionTheorems` | facts the proofs share: least numbers, induction over the naturals, sums over finite sets |
| `*Proofs` | theorems about the module named |
| `MC*` | instances for TLC (`Fleet` needs none) |

The modules divide one program.  What is a step in one is unfolded in another:
a tick or a contact is one step of `Fleet` and has its own module
(`AssetRuntime`, `Bootstrap`); a rebuild samples the life in one step of
`AssetRuntime` and month by month in `LifetimeBaseline`; the rows a tick finds
are given in `AssetRuntime` and come through `Ingestion`; a bank is a count of
surprising rows in `AssetRuntime`, evidence in steps of the threshold in
`AssetMonitor`, and blocks and wealth in `EProcessBank`.

### AssetRuntime

A row is its timestamp `1, 2, 3, ...`; `life[r]` is the operating level the
machine had then.  A bank is the set of rows in its calibration sample, for
each row *how often that row's evidence entered the wealth* (the count is what
the double-counting and the loss properties talk about), and `aux`, whether one
of the auxiliary banks calibrated beside it is latched.  A row is surprising
when its level does not occur in the reference, and the main alarm latches at
`Threshold` surprising rows; the main bank is heard on every frame, a latched
auxiliary one is silent on a frame that gives its stream no point, so that the
verdict may read healthy while it is latched.  This replaces a float martingale by a counter
that is monotone under evidence and indifferent to ordinary rows; nothing
checked here depends on more.

A worker is a thread inside `tick`, `reanchor` or `immune_pass`, with a program
counter and the local variables the code holds across steps (`from`, `to`, the
verdict, the calibration sample).  A step ends at each durable write and
wherever a long computation separates a read from a write: `TickRead`,
`TickMark` (`last_seen`), `TickScore`, `TickPublish` (verdict), `CloseEpisode`
(ledger), `ReanchorSample`, `ReanchorInstall`, `ReanchorSaveCache`, `TickBump`
(tick count), `RebuildSample/Install/SaveCache`, `ImmuneCheck`,
`ImmuneInstall`, `TickSnapshot` (wealth).  `Crash` can follow any of them and
loses every variable named as lost; `Stop` is the orderly stop, with all
workers idle; `Restart` is construction, hydration and onboarding.

The process outlives a failed operation.  `Raises` is an exception out of any
step, which the service logs; the operation ends where it stands.  `MarkFails`
(memory has passed the frame, the journal has not), `ScoreRaises` (before or
after the main bank took the frame) and, among the writes whose failure is
swallowed, `PublishFails`, `SaveCacheFails` and `SnapshotFails` have actions of
their own, because what they leave behind differs.

`Sample` thins a life of more than `MaxSample` rows to chunks of `ChunkRows`
rows, evenly spaced, as `calibration_sample` does; the code spaces them in
floating point and rounds down, the model divides integers.

Data that is abstracted: the verdict word of an alarm is `alarm` or `change`
(`shape` and `concentration` are statistics; `escalating` is an alarm with a
horizon, and nothing here tells the two apart); the onset of an
episode is the frame's first row or its first surprising one; the immune
harness returns any finding; both cycles (rebuild and immune pass) have the
same length, as the source's constants do, and the counter is kept modulo it.
A tick count that memory has and the database has not, after its write
raised, is left out: the counter only paces rebuilds.  `ends`, `failures`,
`born`, `savedBorn`, `unsaved`, `dropped` and `halfDone` only observe: `unsaved`
are the rows marked since the wealth was last saved, `dropped` those lost,
`halfDone` what an exception left half done (rows fed and no verdict published, an
episode ledgered and the bank not recalibrated).

### EProcessBank and EvidenceLatch

A reference is `[id, rows, lags, high]`: identity of the calibration scores,
their number, the lags at which they are decorrelated, whether the residual
correlation reaches the refusal floor.  The block sizes, the audit and the
constructor's checks are translated as they stand, with 30 as `MinBlocks`.
Members carry wealth, peak, block count, partial buffer and the state of the
smoothing generator; `fed` and `savedFed` are the finite scores behind the live
and the saved wealth, which `ResumesExactly` replays; the log of the betting
factor is the constant operator `LogE(ref, block size, block, draw)`, so the
theorems hold for any betting scheme.  `EvidenceLatch` knows only a reference, how much was gathered against
it, the latch and the kept copy.

### Bootstrap

History is fixed, `1..Rows`, one scan window per row; a monitor is its
reference and a failed calibration is the empty one.  `draft` and `trial` are
the ledger and the monitor `run_bootstrap` works on.  Called sequentially they
are the shared ledger and the live monitor, and every write lands at once
(`Work`); in a worker process they are private, and the parent applies the
result: `Apply` (one episode at a time, in the order of a Python set), `Mark`,
`Journal` (`last_seen`), `Reload` (the monitor, from the cache file).  A step
ends at every ledger write, because a crash can fall after each.

The statistics are arbitrary: any set of fewer than half of the windows can be
hot (the bar is median plus a multiple of the spread, so never half), any chunk
can alarm with any onset, and the audit refuses any set of references out of
`Audits`.  What is exact is what the code does with the answers: which rows a
pass looks at, where a hot run ends, which regions are dropped as overlapping,
when an episode closes and with which recency exclusion, which calibrations run
audited, which window the guard drops, what the fingerprint is made of.

A sequential contact may raise at any step (`ContactRaises`): the ledger and the
live monitor stay as the last pass left them, the asset is not marked, and the
service goes on.  `raised` says that the last contact of this process ended so,
`completed` that the last one ran to its end.

Left out: `tick_count`, which only paces other work; rows arriving during the
run, and a second operation on the asset at the same time (the composition with
`AssetRuntime`'s workers is in the plan); `onboard_and_bootstrap`, which is an
onboarding followed by the same run (module `Fleet`).  A worker cannot remove an
episode the parent has, because a virgin asset has none, so `removed_episodes`
is empty.

### History, RawStore and Ingestion

A row is `[ts, val]`: two sources may give one timestamp different values, and
the store keeps the first.  `append` takes its rows month by month, oldest
first; `AppendRead` is the read of the month's file and `AppendReplace` the
merge with `os.replace`.  Which of two equal timestamps *in one frame* survives
is up to the frame (`unique(keep="first")` after a sort that is not stable).

The tick runs on the loop's thread: `Drain` fetches what is newer than the
watermark and appends it, `DrainEnds` moves the watermark (in memory only),
`List` and `ReadMonth` are `store.read`, which lists the month files and then
reads them one by one, `MarkSeen` moves `last_seen` and `Score` hands the frame
on; `TickFails` is an exception anywhere in between, and `forgone` are the rows of
a frame that was marked and then not scored.  A table is asked for rows whose
timestamp *text* is greater than the text of the watermark, so its order is that
of `Text`, an arbitrary function of the row; `Lagging` are rows a table will not
give for that reason.  (The HTTP source leaves the comparison to the server; that
is external.)  `Post` is an append on the API's thread.  The four kinds of source differ in
what raises and what is skipped: a pull source swallows every exception and the
tick goes on; the SQLite buffer of the bridge skips rows whose JSON does not
parse, moves its watermark past them, and lets any other exception end the tick;
a file is parsed whole, so that one naive timestamp blocks it.  `DrainFails`,
`PostFails` and `SourceUnavailable` are failed reads and writes; an append that
fails leaves the months it wrote.

One client posts at a time, and each asset is fed along one path: the API feeds
an asset without a source (`MixedFeeds = FALSE`), because with both at once the
store does lose rows (see below).

### LifetimeBaseline

One channel.  A summary stands for the rows it summarizes.  `Begin` lists the
months; `FromCache` and `Summarize` take one month each, oldest first; `Sample`
is `calibration_sample`, which lists and reads the store again; rows may arrive
between any two of them.  A summary of a closed month is cached under the fault
windows that masked it.  The ledger changes between rebuilds only: both writers
of an asset's ledger call the rebuild on their own thread (a ledger write on
another thread in the middle of a rebuild is among `AssetRuntime`'s steps).
The cache is never invalidated by rows, which is why `CachedIsCurrent` is worth
stating: only a row that came behind a later one may be missing from it.
`Weight` is the exact fraction by which the recent months are scaled.

### AssetMonitor

A life is what a calibration sees of the history: rows, usable channels,
transients, and the domains the exchangeability audit refuses.  `Arms` says
which of the seven domains it arms, with the arithmetic of the code: sample,
60/40 split, windows and points of each scorer.  A bank records which life it
was calibrated on and which lives' models fed it.  `Process` feeds every live
bank what its stream has, then judges: magnitude first, then availability, then
the strongest of the others in the order of the code.  A failed calibration
clears the main pair only and leaves the other banks and models.  Calibration
and `process` are one step each; the interleavings of a tick are
`AssetRuntime`'s.  Evidence is the number of threshold steps reached and never
falls, as a peak does not.

### Fleet

Each asset has a registry row, a directory, windows in the table, and a place in
the runtime's maps.  The loop is `phase` with `todo`: `onboard_all`
(sequential, or by worker processes whose results come in any order), then
`bootstrap_virgin`, then passes of `scan_incoming` and ticks.  `BringUp` is
`onboard_and_bootstrap` of one asset, run by the loop for a dropped file and by
a background job for a request.  `Delete` removes the asset from the maps and
`Retire` or five `PurgeStep`s (three that change what is modelled) follow, so
that anything can fall in between.  `SiftRaises`, `TickLost`, `ContactLost` and
`ContactMissesMonitor` are the exceptions that a change of the maps under an
iteration causes; `Failure` are all others, at most `MaxTroubles` with the
crashes.  Two of them come back: an asset in `broken` has a row in its buffer that
no drain gets over, one in `hollow` an `EpisodicMonitor` of `None`, which the
parent installs when rows arrived between the worker's save and its reload; both
raise on every pass (`TickRaisesAgain`) and end it.  An exception leaves what the
code changed before it: of an onboarding the monitor, with its source or without
(`BrokenOff`), of a contact windows in the mirror or the table and the marker
(`ContactBrokenOff`).

Simplified: the order in which assets are onboarded and ticked is arbitrary; a
tick and a contact are one step; an asset has at most one background job and one DELETE at
a time; the monitor's cache file, and the verdict, immune and wealth rows a purge
deletes, are left out, since nothing here reads them; sources given on the
command line are left out.  Four variables only observe, and each property
excuses by name those it must: `cut` are the assets whose own last onboarding
raised, until one completes; `stranded` those at or behind the asset whose
exception ended a step of the loop, until a job takes them up; `spoilt` those
whose file could not be taken; `clashed` those deleted while they were brought
up.  A crash empties all four.

## Runs

| Run | Checks | Shows |
|---|---|---|
| `asset_runtime` | `TypeOK`, `NoDoubleCount`, `NothingLostSilently`, `FaultHygiene`, `MainAlarmHoldsBaseline`, `AbsorptionIncludesPlateau`, `StoredRowsAreSeen` | one worker, one crash or stop, one exception or failed write: passes (620 thousand states) |
| `eprocess_bank` | `TypeOK`, `ResumesExactly`, `EveryReferenceIsUsable`, `LatchSpec` | passes |
| `bootstrap` | `TypeOK`, `RestorableIsClean`, `FindingsAreNew`, `NeverLeftDead`, `LiveMatchesLedger`, `NoLostFindings`, `ContactEnds` | both modes, worker failure, broken pool, one crash, an exception of a sequential contact, one requested repetition: passes (1.3 million states) |
| `ingestion` | `TypeOK`, `ScoredIsKept`, `WatermarkCovers`, `NothingSkipped`, `AppendOnly`, `PublishedIsStored`, `StoredIsScored` | all four kinds of source, late, duplicate, undecodable and naive rows, a table with offsets, one failure, one crash: passes (353 thousand states) |
| `lifetime_baseline` | `TypeOK`, `CachedIsCurrent`, `LifeIsWhole`, `BaselineIsHealthy`, `RecentIsCapped` | rows arriving at any time, late ones too, one crash: passes (601 thousand states) |
| `asset_monitor` | `NoDomainStarves`, `OwnScale`, `AlarmsAreHeard`, `LatchIsDurable` | seven domains, four lives, two calibrations, both kinds of restart: passes (474 thousand states) |
| `fleet` | `TypeOK`, `BusyMeansWorking`, `SourceIsAttached`, `NobodyForgotten`, `FilesAreTaken`, `EveryMonitorIsTicked` | two assets, one request or dropped file, one exception (returning or not), broken pool, missed reload or crash: passes (350 thousand states) |
| `closed_evidence` | `ClosedEvidenceStaysClosed` | violated: a re-anchor does not save the wealth, so an orderly restart brings the closed alarm back |
| `overlapping_ticks` | `NoDoubleCount` | violated with two threads |
| `held_baseline` | `BaselineHeldWhileOpen` | violated: an auxiliary alarm opens an episode, the next quiet frame's verdict is healthy, and the immune pass recalibrates under both |
| `parallel_live` | `ParallelLeavesLiveClean` | violated: two windows applied in another order change the fingerprint, and the contaminated monitor stays live |
| `beside_broken` | `TickedBesideBroken` | violated: a monitor that raises on every tick ends every pass, and the one behind it is never ticked |

The violations are disagreements between the code and what its own
docstrings, docs or tests say; `findings` in `PROJECT.json` quotes both sides.

Bounds.  `asset_runtime` has four rows in months of two with the newest month
kept out of calibration: a month of history, a recent month, a frame of up to two
rows, an alarm of two rows, an absorption, samples of at most three rows in chunks
of one, and a rebuild every second tick with the immune pass on the other.  Every
action fires; the one crash separates every pair of durable writes, the one
failure hits every step.  Safety alone was checked too with five rows, samples of
four rows in chunks of two, one crash and no failure (1.7 million states), and
with four rows, one crash, one stop and one failure (1.5 million), and agrees.
`held_baseline` has five rows, so that the episode is open for two frames.
`eprocess_bank` feeds four scores, a NaN at any place, to banks with one and
two members; five scores (2.1 million states) agree.  References cover each
outcome of the block derivation: one member, several, refused, too short, lag
cap reached.

`bootstrap` has four rows, one held out of calibration, two-row chunks, three
passes, and audits that refuse nothing, the unmasked life, or whatever holds
row 2: calibrations fail for either reason, the guard drops one window and
several, contact ends converged, exhausted and insufficient.  It starts virgin
or with an alarm a tick left.  Deadlock is not checked there, since after first
contact the model rests.  The same with five rows, three-row chunks and two
passes (990 thousand states without a requested repetition, safety only) agrees; there the
scan can find two regions at once.  `parallel_live` has six rows.

`ingestion` has five rows at four timestamps in two months: a duplicate
timestamp, one of the two values undecodable in a buffer, a naive one, and a table
whose texts sort one row after later ones and one below the watermark.  An
append of two months with a read in between, a replay after a failure and a late
row need no more.  `lifetime_baseline` has three months of two, one and three
timestamps, so that the two recent months outweigh the old one and the cap bites,
and one fault window across two months.  `asset_monitor` has the constants of the
code scaled down (banks of two points, windows of two and three rows); its lives
arm, between them, every domain and refuse several, one is too thin for a main
bank, and the two frames differ in which streams they feed.  Three calibrations
with one frame agree.  `fleet` has two assets, the least with which one can be
lost while the other is served and the pool is used; one of them may come
through the drop folder; the registry starts in every combination of unknown,
active with a source (with a history or without) and retired assets.  A dropped
file counts against the bound on requests.  Without that bound, safety agrees on
1.6 million states from every combination of registry and store, and so do the
liveness properties in two parts (one request and no drop folder, 594 thousand;
two files and two failures, 484 thousand).  It may come to rest with nothing
monitored, hence no deadlock check.

Fairness.  In `Bootstrap`, a run in progress has weak fairness: it is one
thread, or one process and the thread that waits for it; `ContactEnds` is then
about the loops, not the scheduler.  In `AssetRuntime`, `FairSpec` gives a
started operation weak fairness (threads run to their end; nothing in it waits for
another), `Restart` weak fairness (a supervised service), and the *start* of a
tick strong fairness: the loop comes back every interval whatever other operations
are requested, so it is enabled again and again even if requests keep the single
worker busy.  Crashes, failures and requests have none.  In `Ingestion` the loop's next step, a step of an accepted
request and `Restart` are weakly fair; failures and publications are not, and
since failures are bounded the source answers in the end.  In `Fleet` the loop,
`Restart`, every job and every deletion are weakly fair, each being one thread
that waits for no other; failures are bounded, but what one of them leaves may
raise for ever, and then `EveryMonitorIsTicked` promises nothing while it does:
the code does not either, as `beside_broken` shows.

## Proofs

`tlapm` checks all of them; no step is left out.

`InductionTheorems`.  Several properties are about definitions that recur over
data (a feed, a frame, a set of rows), and the library states induction for a
predicate that is a parameter, which the provers here cannot instantiate.  So
induction is stated over a *set*: the order of the naturals is well-founded, a
set of numbers that is not empty has a least one (`LeastNumber`), and a set that
holds zero and every successor holds them all (`InductionOverNat`).  From it come
the existence of the function a finite sum recurs over (`SumRecursion`), that the
order of summation does not matter (`SumsTakeAny`), and the laws of
`SumFunctionOnSet` the other modules cite (`SumLaws`, `SumAdd`, `SumOfEquals`,
`SumOfZeros`, `SumGrows`).

`AssetRuntimeProofs`.  `TypeCorrect` proves `TypeOK` for all constants and any
number of workers; the inductive invariant adds that a worker past its read
holds a non-empty frame and that an open episode has a last scored row, which
is what keeps the ledgered windows inside the stored rows.  `CountedOnce` proves
`NoDoubleCount` with one worker: live wealth, snapshot and cached monitor count
every row at most once and none after the journal (`AllCountUpTo(dbSeen)`); the
journal in memory and on disk agree while the process runs (`JournalInStep`);
and the rows of a frame marked and not yet scored are counted nowhere
(`FramesAreNew`).  The last one is what fails with two workers, as
`overlapping_ticks` shows.  With one worker again, `FaultsStayOut` proves
`FaultHygiene`: a calibration sample is clean from the moment it is taken, the
live bank is clean but between the closing of an episode and the re-anchor that
follows it, and the cached monitor is clean of the windows its fingerprint names,
whatever the ledger says by now (`HygieneInv`), which is why a hit on the
fingerprint may be trusted; a re-anchor that raises between the ledger and the
recalibration leaves the bank of before, and only that is excused.
`LossesAreKnown` proves `NothingLostSilently`: a row seen since the live wealth
started is in it, was dropped, or is in the frame about to be scored; a row seen
since the saved wealth started is in that one, was dropped, or is still unsaved
(`LossInv`).  The second half is what a restart turns into the first: what is
unsaved when the process ends is dropped, and a save, the next one after one that
failed too, leaves nothing unsaved.

Two action properties, with one worker too.  `StoreInv` says that banks, samples,
windows and journal only name rows the store has.  `PlateauIsAbsorbed` proves
`AbsorptionIncludesPlateau` from it and `PlateauInv`: the sample of a re-anchor
that is about to absorb a change holds the change's rows, when the healthy life
fits into one sample.  `BaselineIsHeld` proves `MainAlarmHoldsBaseline`; its
invariant `HeldInv` says what the decisions before a rebuild were made on and that
it still stands when the rebuild begins: no episode is open in a rebuild, the
verdict of an open episode with a latched main bank is an alarm word (which is
what holds the immune pass off) unless a tick raised before it published one, and
a conformance finding acts only when there is no such episode.  It needs that a row that
arrives in between is counted nowhere (`CountInv`), so that the sum that defines
`Alarmed` does not move (`ArrivalIsQuiet`).

`EProcessBankProofs`.  `ReferencesUsable` proves that the integer divisions of
block derivation, audit and constructor agree for every reference;
`BankTypeCorrect` that a member never holds a whole block back; `BankLatches`
the refinement, from the monotonicity of the peak and the equality of
references with equal signatures.  `BankResumesExactly` proves that the members
are those of an uninterrupted feed: a member is described by the path its wealth
took, block by block (`IsPath`), and its peak by the greatest value on that path
(`IsPeak`); such a description is unique, by induction over the blocks, and one
more score extends it as `update` does, whether it fills a block
(`ReferenceBlock`) or only the buffer (`ReferenceBuffers`).  Since the snapshot
keeps wealth, peak, buffer and generator together, restarts and crashes leave
the description alone.

`BootstrapProofs`.  `CacheIsClean` and `LiveIsClean` share the invariant
`CleanInv`: a cache file's reference lies outside the windows its own
fingerprint names (`FingerprintCovers`: equal fingerprints mean equal faulty
rows), a run about to save holds an audited reference outside its draft's
windows, a sequential run's draft and trial are the shared ones, and nothing
runs in a process that is down.  Of the service's monitor `LiveIsClean` says
nothing while the last contact is one that raised.  `FindingsTransferred` needs that the parent's
ledger is untouched until a worker returns (`TransferInv`).  `FirstContactTypes`
proves `TypeOK`, with the conditions on ledgers (windows run forward) that the
scan, the replay and the deletions keep.  `PassesFindNew` proves
`FindingsAreNew`: whatever a pass still holds (rows to read, regions, the open
episode) starts on a row that no episode of an earlier pass explains
(`PassInv`), so the first episode it adds explains a row that was unexplained,
and no later one takes that back.  `GuardRevives` proves `NeverLeftDead`: the
guard is entered only with a calibration that failed, and is left only with one
that succeeded or with no fault window in the draft (`GuardInv`).

`LifetimeBaselineProofs`.  One invariant per theorem over type correctness
(`BaselineTypeCorrect`): what the summaries of the running rebuild and the cache
hold is healthy under the windows they are keyed with (`BaselineStaysHealthy`);
a cached summary is that of a *closed* month, so that a row it lacks came behind
a later one (`CacheStaysCurrent`, which needs that the store has a later month
when a summary is kept); the months a rebuild has done hold all that was healthy
when it began (`WholeLifeIsUsed`).  `RecencyIsCapped` is about the weights: the
totals are sums over months and hence naturals (`TotalsAre`), and the fraction
by which the recent months are scaled is just small enough (`CapIsKept`), at the
boundaries of one old month, no recent row or a full weight too.

`IngestionProofs`.  Without mixed feeds at most one thread appends
(`WriterInv`), so what it read from a month is still what the month holds when
it replaces the file; that is what `StoreIsAHistory`, the refinement of
`History`, and `EvidenceIsKept` rest on, and what mixed feeds take away.
`WatermarkIsSafe` needs that the rows `reach` will pass over are in the store or
in the append's batch (`OnTheWay`), or are late, garbled or lagging: `Text` is any
function of the row.  `NothingIsSkipped` excuses the rows of a frame that is
marked and about to be scored, and those an exception or a crash kept from it
(`forgone`); it needs the order of an append: months are written oldest first, so a row that came since a tick listed
the files comes after all that the tick will read, or lies in a month that it
will read (`OrderInv`, `UnreadAfter`).  Extremes of finite sets are from the library's facts on finite
sets.

`FleetProofs`.  `LoopInv` says that the loop brings up one asset at a time and
that nothing runs in a process that is down; type correctness and `LabelsAreTrue`
follow (the labels of the stranded are the only ones excused: an exception of a
job or of a file takes its label away), `SourcesAreAttached` with an invariant that says of every monitored asset whose row names a pull source
that it is attached, excused by name, or has a step of the code ahead that will
attach it (`Due`, `WillAttach`).

`AssetMonitorProofs`.  `DynamicsNeverArms` is arithmetic on the code's constants:
the sample is capped at 20000 rows, the held-out part makes 15 windows, the bank
wants 30.  `BanksKeepTheirScale` proves that a bank stands on the life of its
model and has eaten nothing else, in the live monitor and in the pickled one
(`ScaleInv`), given a main bank; `AlarmsSurviveRestarts` that restored evidence
is the saved one.  The condition on the main bank is needed: after a calibration
that failed, the code keeps, and may pickle, auxiliary banks beside a cleared
main pair, and such a monitor restores nothing and judges nothing.  `MonitorTypeCorrect` and
`AlarmsSpeakUp` share `RestInv`, which says what every verdict over a frame says
of the banks (`Faithful`); that the ranking of the auxiliary domains has a
strongest one among those latched is `LeastNumber` twice, for the evidence and
for the place in the code's order (`StrongestIs`).  `NobodyStarves` proves
`NoDomainStarves`: the banks of a monitor with a main bank come from one
calibration (`Whole`) and have eaten what the frames since made of points
(`Ate`), so that a restart gives the saved wealth back to all of them or to none;
a mixture of restored and fresh banks is what would starve one.

Assumptions.  Every theorem rests on the named assumption on the constants of
its module, which TLC evaluates in the runs.  The four about the store and the
watermark assume `~MixedFeeds`; `CountedOnce`, `FaultsStayOut`, `LossesAreKnown`,
`PlateauIsAbsorbed` and `BaselineIsHeld` assume one worker.  `Bootstrap` assumes
of the ledger it starts with that its windows lie in the history and run
forward (`LedgerAssumption`), as the windows a tick wrote do.

Every safety and action property of the passing runs is proved (and the type
invariant of `AssetMonitor`, which no run repeats).  Checked by TLC
only: the liveness properties, all under fairness (`StoredRowsAreSeen`,
`ContactEnds`, `PublishedIsStored`, `StoredIsScored`, `NobodyForgotten`,
`FilesAreTaken`, `EveryMonitorIsTicked`), because `ENABLED` and fairness of the actions are beyond
the provers at hand.

## Known disagreements without a run

TLC finds each of these violated when it is put into the module and checked; the
runs keep the ones with the widest effect, and the properties of the passing runs
excuse the rest by name.

| Said | Done | To see it |
|---|---|---|
| `episodes.py:315`: the absorbed plateau enters the reference, or the same episode opens again | a life of more than 20000 rows is thinned to 512-row chunks, and the plateau may lie between two (`baseline.py:182`) | `AbsorptionIncludesPlateau` without the condition on `MaxSample`, five rows |
| `fleet_workers.py:242`: the fully audited calibration arms the guarantee | a sequential contact that raises after a pass leaves that pass's unaudited monitor live until a rebuild is due | in `Bootstrap`, `up /\ pc = "idle" => live = {} \/ live \notin refused` |
| `fleet_workers.py:315`: the guard drops a bootstrap-created window | it chooses among all fault windows, a tick's too | in `Bootstrap`, no step removes an episode with source `"tick"` |
| `ingest/sources.py:6`: watermarks are an efficiency mechanism only | a table is asked for greater *texts*; with offsets newer rows may never be fetched (`sources.py:125`) | in `Ingestion`, `WatermarkCovers` without `Lagging` |
| `store/raw.py:1`: an append-only history | `append` has no lock: a post beside a drain replaces the month's file without the drained rows | `ScoredIsKept` with `MixedFeeds = TRUE` |
| `service.py:106-112`: every step is guarded, try again | `onboard_all` has no guard per asset; those behind the one that raised wait for the next start (`runtime.py:312`) | `NobodyForgotten` without `stranded` |
| `runtime.py:1057`: ingested files are skipped by name | a file that failed to load is skipped as well (`runtime.py:1074`) | in `Fleet`, `opened \subseteq history` |
| `runtime.py:471`: a retired asset is skipped on the next start | the drop folder's memory dies with the process, and the restart takes the asset's file again (`runtime.py:1072`) | in `Fleet` with two requests: a retired asset whose row is of kind `"folder"` turns active by `Register` only |
| `runtime.py:1040`: a restart re-attaches every asset's source | the asset of a failed onboard worker gets none (`runtime.py:370`) | `SourceIsAttached` without `cut` |

The others are read off the code, or their mechanism is one of those above.

* An absorbed plateau drops out of the reference at the next scheduled rebuild,
  which leaves the recent months out again.
* A scheduled rebuild restarts the wealth although the reference is unchanged;
  only re-anchoring is said to.
* The watch line is compared with the peak, not with the current wealth
  (`monitor.py:392`): once on watch, an asset stays there until re-anchored.
* A crash in the middle of a first contact leaves windows, and the next start
  takes them as proof of a finished contact.
* The buffer's drain raises on a naive timestamp, and the tick with it
  (`buffer_source.py:53` says it never raises).
* A wealth snapshot that cannot be written is not reported to anybody
  (`runtime.py:701`); the rows since the last one are lost with the process.
* `dynamics-drift` cannot arm with a sample of 20000 rows (`dynamics.py:99`).

## Plan

1. `Bootstrap` composed with the workers of `AssetRuntime`: a contact requested
   while the loop ticks, rows that arrive during the run, `last_seen` moved
   back, a marked asset without a journal.
2. A retire inside a tick, and what a purge leaves of verdicts and wealth:
   `Fleet` with the steps of `AssetRuntime`.
3. Theorems about these compositions, as they are written; and which of the
   theorems that assume one worker hold with several (type correctness does,
   `NoDoubleCount` does not).

## Not modelled

The fitting and scoring of the models (regression, training, transforms), the
statistics of shape, novelty, anatomy and prognosis, and the immune injections
compute on floating-point arrays and keep no state of their own between calls;
what the rest of the program tells apart of them (armed or not, how many points,
surprising or not, finding or not) is an arbitrary choice or a constant where
they are called.  The narrative, the views, the sockets and the report only
read.  Hardware probing happens once, before anything else.  The evidence
scripts drive the runtime offline.  The migration of old state files is left
out.  The world model is the scorer of a stronger machine in the place of the
conditional one: its training is numerics, its place in the control the same.
