----------------------------- MODULE AssetRuntime -----------------------------
(***************************************************************************)
(* The evidence life of ONE asset inside the monitoring service            *)
(* (runtime.py, episodes.py, monitor.py), together with everything of it   *)
(* that outlives the process: the raw store, the state database, the       *)
(* episode ledger and the monitor cache file.                              *)
(*                                                                         *)
(* Rows are timestamps 1, 2, 3, ...; life[r] is the operating level the    *)
(* machine ran at.  A calibrated bank is its reference (the rows of the    *)
(* calibration sample, which is what the bank's signature hashes), for     *)
(* every row how often that row's evidence entered the wealth, and whether *)
(* an auxiliary bank calibrated beside it is latched.  A row is evidence   *)
(* against health when its level never occurs in the reference, and the    *)
(* main alarm latches at Threshold such rows.  The main bank speaks on     *)
(* every frame; an auxiliary one (dynamics drift, transient response) is   *)
(* silent on a frame that gives it no point (monitor.py:304-337).          *)
(*                                                                         *)
(* A worker is a thread that runs tick, reanchor or immune_pass on the     *)
(* asset.  The code takes no per-asset lock, so with several workers the   *)
(* steps interleave; with one worker they do not.  A step ends at each     *)
(* durable write and at each place where a long computation sits between   *)
(* a read and a write, so Crash can fall anywhere in between, and so can   *)
(* an exception: it ends the operation where it stands and the process     *)
(* stays up (service.py:153-157).  Writes that fail without an exception   *)
(* reaching the operation are failures of their own.                       *)
(***************************************************************************)
EXTENDS Naturals, Sequences, FiniteSets, Functions

CONSTANTS
    Workers,        \* threads that operate on the asset
    Levels,         \* operating levels a row can have
    History,        \* the rows present when the asset is first onboarded
    MaxRow,         \* bound: rows ever stored
    MayCrash,       \* whether the process crashes, or is only stopped
    MaxEnds,        \* bound: crashes and orderly stops of the process
    MaxFailures,    \* bound: exceptions and failed writes
    PeriodLen,      \* rows per monthly partition
    RecentPeriods,  \* RECENT_PERIODS, partitions kept out of calibration
    MinCalib,       \* rows a calibration needs
    MaxSample,      \* max_rows of calibration_sample
    ChunkRows,      \* CALIB_CHUNK_ROWS
    Threshold,      \* rows of evidence that cross 1/alpha
    AbsorbAfter,    \* rows a change plateau must hold before absorption
    Cycle,          \* REBUILD_EVERY_TICKS = IMMUNE_EVERY_TICKS
    ImmuneStagger,  \* _stagger(asset, salt=1); salt=0 is taken as 0
    ImmuneFindings  \* outcomes of the immune harness

ASSUME ConstantAssumption ==
    /\ {MaxRow, MaxEnds, MaxFailures} \subseteq Nat /\ MayCrash \in BOOLEAN
    /\ MaxSample \in Nat \ {0} /\ ChunkRows \in Nat \ {0}
    /\ History \in Seq(Levels) /\ Len(History) \in 1..MaxRow
    /\ PeriodLen \in Nat \ {0} /\ RecentPeriods \in Nat
    /\ MinCalib \in Nat \ {0} /\ Threshold \in Nat \ {0}
    /\ AbsorbAfter \in Nat
    /\ Cycle \in Nat \ {0} /\ ImmuneStagger \in Nat
    /\ ImmuneFindings \subseteq {"sound", "nonconforming", "dead"}

VARIABLES
    \* survives a crash
    life,       \* raw store: the level of every stored row, in time order
    ledger,     \* closed episodes
    cache,      \* the pickled monitor and the fingerprint it is filed under
    ticks,      \* tick_count, written through, modulo Cycle
    dbSeen,     \* runtime_journal.last_seen
    dbVerdict,  \* newest verdict_history row
    dbWealth,   \* wealth snapshot
    \* lost in a crash
    up,         \* the process runs
    seen,       \* Runtime._last_seen
    bank,       \* AssetMonitor.bank with its reference
    open,       \* EpisodicMonitor.open_episode_start, 0 when none
    lastTs,     \* AssetMonitor.last_ts
    verdict,    \* Runtime.verdicts[key].state
    pc, task,   \* where each worker is, and its local variables
    \* observation only
    ends,       \* crashes and stops so far
    failures,   \* exceptions and failed writes so far
    born,       \* rows seen when the current wealth started from zero
    savedBorn,  \* born of the wealth in dbWealth
    unsaved,    \* rows marked seen since a wealth snapshot was last written
    dropped,    \* rows lost: marked and then not scored because of an
                \* exception, or still unsaved when the process went down
    halfDone    \* what an exception left half done: "verdict", rows fed whose
                \* verdict was not published; "reanchor", an episode ledgered
                \* and the bank not recalibrated

durable == <<life, ledger, cache, ticks, dbSeen, dbVerdict, dbWealth>>
memory  == <<up, seen, bank, open, lastTs, verdict>>
ghosts  == <<ends, failures, born, savedBorn, unsaved, dropped, halfDone>>
vars    == <<durable, memory, pc, task, ghosts>>

Row        == 1..MaxRow
\* "escalating" is an alarm with a horizon computed for it: what follows tells
\* the two apart nowhere.
AlarmWords == {"alarm", "change"}
Words      == AlarmWords \cup {"healthy", "insufficient", "none"}

Zero   == [r \in Row |-> 0]
NoBank == [ref |-> {}, count |-> Zero, aux |-> FALSE]   \* bank is None
Armed(b) == b.ref # {}

Idle == [job |-> "none", from |-> 0, to |-> 0, word |-> "none", ref |-> {}]
Goto(w, step) == pc' = [pc EXCEPT ![w] = step]

-----------------------------------------------------------------------------
\* Reference, evidence and fingerprint.

Faults == {e \in ledger : e.state = "alarm"}

MaskedHalfOpen(rows) == {r \in rows : \A e \in Faults : ~(e.start <= r /\ r < e.end)}

\* ledger.mask(..., FAULT_STATES)
Masked(rows) == {r \in rows : \A e \in Faults : ~(e.start <= r /\ r <= e.end)}

Partitions == (Len(life) + PeriodLen - 1) \div PeriodLen

\* More rows than MaxSample: chunks of consecutive rows, evenly spaced.
Chunks == IF ChunkRows <= MaxSample THEN MaxSample \div ChunkRows ELSE 1
ChunkStart(i, height) == (i * height) \div Chunks
Position(rows, r) == Cardinality({q \in rows : q < r})
InChunk(p, height) ==
    \E i \in 0..(Chunks - 1) :
       ChunkStart(i, height) <= p /\ p < ChunkStart(i, height) + ChunkRows
Thinned(rows) ==
    IF Cardinality(rows) <= MaxSample THEN rows
    ELSE {r \in rows : InChunk(Position(rows, r), Cardinality(rows))}

\* LifetimeBaseline.calibration_sample: the newest partitions are left out
\* unless that would leave nothing, or a change is being absorbed.
Sample(includeRecent) ==
    Thinned(Masked(
        IF ~includeRecent /\ 0 < RecentPeriods /\ RecentPeriods < Partitions
        THEN 1..((Partitions - RecentPeriods) * PeriodLen)
        ELSE 1..Len(life)))

\* calibrate_from_lifetime: a fresh bank on the sample, or none.
Calibrated(sample) ==
    IF Cardinality(sample) >= MinCalib
    THEN [ref |-> sample, count |-> Zero, aux |-> FALSE]
    ELSE NoBank

Evidence(b) == {r \in 1..Len(life) : life[r] \notin {life[q] : q \in b.ref}}

Alarmed(b) == Armed(b) /\ SumFunctionOnSet(b.count, Evidence(b)) >= Threshold

Fingerprint == <<Len(life), Faults>>

CacheHit == cache.fp = Fingerprint

-----------------------------------------------------------------------------
Init ==
    /\ life = History
    /\ ledger = {}
    /\ ticks = 0
    /\ dbSeen = Len(History) /\ seen = Len(History)
    /\ dbVerdict = "none" /\ verdict = "none"
    /\ dbWealth = NoBank
    /\ up = TRUE
    /\ bank = Calibrated(Sample(FALSE))
    /\ cache = [fp |-> Fingerprint, bank |-> bank]
    /\ open = 0
    /\ lastTs = Len(History)
    /\ pc = [w \in Workers |-> "idle"]
    /\ task = [w \in Workers |-> Idle]
    /\ ends = 0 /\ failures = 0
    /\ unsaved = {} /\ dropped = {} /\ halfDone = {}
    /\ born = Len(History) /\ savedBorn = 0

\* Rows reach the store from a source drained by tick, a drop folder or the
\* ingestion API.
Ingest(level) ==
    /\ Len(life) < MaxRow
    /\ life' = Append(life, level)
    /\ UNCHANGED <<ledger, cache, ticks, dbSeen, dbVerdict, dbWealth>>
    /\ UNCHANGED <<memory, pc, task, ghosts>>

-----------------------------------------------------------------------------
\* tick, up to the verdict.

FrameEndStale == IF Len(life) > seen + 1 THEN Len(life) - 1 ELSE seen
FrameEnd == Len(life)

TickRead(w) ==
    /\ up /\ pc[w] = "idle"
    /\ task' = [task EXCEPT ![w] =
                   [Idle EXCEPT !.job = "tick", !.from = seen, !.to = FrameEnd]]
    /\ Goto(w, IF FrameEnd > seen THEN "mark" ELSE "bump")
    /\ UNCHANGED <<durable, memory, ghosts>>

Frame(w) == {r \in Row : task[w].from < r /\ r <= task[w].to}

TickMark(w) ==
    /\ pc[w] = "mark"
    /\ seen' = task[w].to
    /\ dbSeen' = task[w].to
    /\ unsaved' = unsaved \cup Frame(w)
    /\ Goto(w, "score")
    /\ UNCHANGED <<life, ledger, cache, ticks, dbVerdict, dbWealth>>
    /\ UNCHANGED <<up, bank, open, lastTs, verdict, task>>
    /\ UNCHANGED <<ends, failures, born, savedBorn, dropped, halfDone>>

Fed(b, rows) ==
    [b EXCEPT !.count = [r \in Row |-> b.count[r] + IF r \in rows THEN 1 ELSE 0]]

\* _onset_ts: the first row of a short or wholly surprising frame, else the
\* first surprising one.
Onsets(w) ==
    LET hot == Frame(w) \cap Evidence(bank)
    IN  {task[w].from + 1} \cup
        {r \in hot : \A q \in hot : r <= q}

\* The open episode, opened by the frame being scored when there is none.
Opened(w) == IF open = 0 THEN Onsets(w) ELSE {open}

\* EpisodicMonitor.process.  A latched main bank is heard on every frame; a
\* latched auxiliary bank may get no point from this one and stay silent.
TickScore(w) ==
    /\ pc[w] = "score"
    /\ lastTs' = task[w].to
    /\ LET fed == Fed(bank, Frame(w)) IN
       \/ /\ ~Armed(bank)
          /\ task' = [task EXCEPT ![w].word = "insufficient"]
          /\ UNCHANGED <<bank, open>>
       \/ /\ Armed(bank) /\ ~Alarmed(fed)
          /\ bank' = fed
          /\ task' = [task EXCEPT ![w].word = "healthy"]
          /\ UNCHANGED open
       \/ /\ Armed(bank)
          /\ \E aux \in {bank.aux, TRUE} :
                /\ Alarmed(fed) \/ aux
                /\ bank' = [fed EXCEPT !.aux = aux]
          /\ open' \in Opened(w)
          /\ \E word \in AlarmWords : task' = [task EXCEPT ![w].word = word]
    /\ Goto(w, "publish")
    /\ UNCHANGED <<durable, up, seen, verdict, ghosts>>

\* _change_ripe_for_absorption
Ripe(w) ==
    /\ task[w].word = "change" /\ open # 0
    /\ task[w].to >= open + AbsorbAfter

Publish(w) ==
    /\ pc[w] = "publish"
    /\ verdict' = task[w].word
    /\ halfDone' = halfDone \ {"verdict"}
    /\ Goto(w, IF Ripe(w) THEN "close" ELSE "bump")
    /\ UNCHANGED <<life, ledger, cache, ticks, dbSeen, dbWealth>>
    /\ UNCHANGED <<up, seen, bank, open, lastTs, task>>
    /\ UNCHANGED <<ends, born, savedBorn, unsaved, dropped>>

TickPublish(w) ==
    /\ Publish(w)
    /\ dbVerdict' = task[w].word
    /\ UNCHANGED failures

-----------------------------------------------------------------------------
\* reanchor: from tick (absorption) and from the operator.

RequestReanchor(w) ==
    /\ up /\ pc[w] = "idle" /\ verdict # "none"
    /\ task' = [task EXCEPT ![w] = [Idle EXCEPT !.job = "reanchor", !.word = verdict]]
    /\ Goto(w, "close")
    /\ UNCHANGED <<durable, memory, ghosts>>

CloseEpisodeAlways(w) ==
    /\ pc[w] = "close"
    /\ ledger' = ledger \cup
         {[start |-> open, end |-> lastTs,
           state |-> IF task[w].word = "change" THEN "change" ELSE "alarm"]}
    /\ Goto(w, "resample")
    /\ UNCHANGED <<life, cache, ticks, dbSeen, dbVerdict, dbWealth>>
    /\ UNCHANGED <<memory, task, ghosts>>

CloseEpisode(w) ==
    /\ pc[w] = "close"
    /\ ledger' = ledger \cup
         IF open = 0 THEN {}
         ELSE {[start |-> open, end |-> lastTs,
                state |-> IF task[w].word = "change" THEN "change" ELSE "alarm"]}
    /\ Goto(w, "resample")
    /\ UNCHANGED <<life, cache, ticks, dbSeen, dbVerdict, dbWealth>>
    /\ UNCHANGED <<memory, task, ghosts>>

IncludeRecentNever(w) == FALSE
IncludeRecent(w) == task[w].word = "change"

ReanchorSample(w) ==
    /\ pc[w] = "resample"
    /\ open' = 0
    /\ task' = [task EXCEPT ![w].ref = Sample(IncludeRecent(w))]
    /\ Goto(w, "reinstall")
    /\ UNCHANGED <<durable, up, seen, bank, lastTs, verdict, ghosts>>

AfterReanchor(w) == IF task[w].job = "tick" THEN "bump" ELSE "idle"

Install(w) ==
    /\ bank' = Calibrated(task[w].ref)
    /\ born' = seen
    /\ halfDone' = {}
    /\ UNCHANGED <<durable, up, seen, open, lastTs, verdict>>
    /\ UNCHANGED <<ends, failures, savedBorn, unsaved, dropped>>

\* A worker's next step; its locals end with its job.
Continue(w, step) ==
    /\ Goto(w, step)
    /\ task' = [task EXCEPT ![w] = IF step = "idle" THEN Idle
                                   ELSE [@ EXCEPT !.ref = {}]]

ReanchorInstall(w) ==
    /\ pc[w] = "reinstall"
    /\ Install(w)
    /\ Continue(w, IF Armed(Calibrated(task[w].ref)) THEN "recache"
                   ELSE AfterReanchor(w))

SaveCache ==
    /\ cache' = [fp |-> Fingerprint, bank |-> bank]
    /\ UNCHANGED <<life, ledger, ticks, dbSeen, dbVerdict, dbWealth>>
    /\ UNCHANGED <<memory, ghosts>>

ReanchorSaveCache(w) ==
    /\ pc[w] = "recache"
    /\ SaveCache
    /\ Continue(w, AfterReanchor(w))

-----------------------------------------------------------------------------
\* tick, after the verdict: scheduled rebuild, immune pass, wealth snapshot.

AfterRebuild(t) == IF (t + ImmuneStagger) % Cycle = 0 THEN "immune" ELSE "snapshot"

RebuildDue(t) == t % Cycle = 0 /\ open = 0

NextTick == (ticks + 1) % Cycle

TickBump(w) ==
    /\ pc[w] = "bump"
    /\ ticks' = NextTick
    /\ Goto(w, IF RebuildDue(NextTick) THEN "rebuild" ELSE AfterRebuild(NextTick))
    /\ UNCHANGED <<life, ledger, cache, dbSeen, dbVerdict, dbWealth>>
    /\ UNCHANGED <<memory, task, ghosts>>

RebuildSample(w) ==
    /\ pc[w] = "rebuild"
    /\ task' = [task EXCEPT ![w].ref = Sample(FALSE)]
    /\ Goto(w, "rebuilt")
    /\ UNCHANGED <<durable, memory, ghosts>>

RebuildInstall(w) ==
    /\ pc[w] = "rebuilt"
    /\ Install(w)
    /\ Continue(w, "recacheRebuilt")

RebuildSaveCache(w) ==
    /\ pc[w] = "recacheRebuilt"
    /\ SaveCache
    /\ Continue(w, AfterRebuild(ticks))

RequestImmune(w) ==
    /\ up /\ pc[w] = "idle"
    /\ task' = [task EXCEPT ![w] = [Idle EXCEPT !.job = "immune"]]
    /\ Goto(w, "immune")
    /\ UNCHANGED <<durable, memory, ghosts>>

AfterImmune(w) == IF task[w].job = "tick" THEN "snapshot" ELSE "idle"

\* A scorer that is missing reads as dead; conformance and PIT count only
\* while the current verdict is not an alarm.
Dead(finding) == finding = "dead" \/ ~Armed(bank) \/ Masked(1..Len(life)) = {}
SickAlways(finding) == Dead(finding) \/ finding = "nonconforming"
Sick(finding) ==
    Dead(finding) \/ (finding = "nonconforming" /\ verdict \notin AlarmWords)

ImmuneCheck(w) ==
    /\ pc[w] = "immune"
    /\ \E finding \in ImmuneFindings :
         \/ /\ Sick(finding)
            /\ task' = [task EXCEPT ![w].ref = Sample(FALSE)]
            /\ Goto(w, IF Dead(finding) THEN "revive" ELSE "recalibrate")
         \/ /\ ~Sick(finding)
            /\ Continue(w, AfterImmune(w))
    /\ UNCHANGED <<durable, memory, ghosts>>

ImmuneInstall(w) ==
    /\ pc[w] \in {"revive", "recalibrate"}
    /\ Install(w)
    /\ Continue(w, AfterImmune(w))

NewRows(w) == task[w].to > task[w].from

TickSnapshot(w) ==
    /\ pc[w] = "snapshot"
    /\ IF NewRows(w) /\ Armed(bank)
       THEN dbWealth' = bank /\ savedBorn' = born /\ unsaved' = {}
       ELSE UNCHANGED <<dbWealth, savedBorn, unsaved>>
    /\ Continue(w, "idle")
    /\ UNCHANGED <<life, ledger, cache, ticks, dbSeen, dbVerdict, memory>>
    /\ UNCHANGED <<ends, failures, born, dropped, halfDone>>

-----------------------------------------------------------------------------
\* Failed writes and exceptions.  The process stays up.

Fails == failures < MaxFailures /\ failures' = failures + 1

\* The operation is over; what it changed so far stays changed.
GivesUp(w) ==
    /\ pc' = [pc EXCEPT ![w] = "idle"]
    /\ task' = [task EXCEPT ![w] = Idle]

\* _set_last_seen moves the memory before its database write raises.
MarkFails(w) ==
    /\ pc[w] = "mark" /\ Fails
    /\ seen' = task[w].to
    /\ dropped' = dropped \cup Frame(w)
    /\ GivesUp(w)
    /\ UNCHANGED <<durable, up, bank, open, lastTs, verdict>>
    /\ UNCHANGED <<ends, born, savedBorn, unsaved, halfDone>>

\* em.process raises: before the main bank took the frame, or behind it (an
\* auxiliary bank, the enrichment of an alarm).
ScoreRaises(w) ==
    /\ pc[w] = "score" /\ Fails
    /\ \/ /\ lastTs' \in {lastTs, task[w].to}
          /\ dropped' = dropped \cup Frame(w)
          /\ UNCHANGED <<bank, open, halfDone>>
       \/ /\ Armed(bank)
          /\ lastTs' = task[w].to
          /\ \E aux \in {bank.aux, TRUE} :
                bank' = [Fed(bank, Frame(w)) EXCEPT !.aux = aux]
          /\ open' \in {open} \cup Opened(w)
          /\ halfDone' = halfDone \cup {"verdict"}
          /\ UNCHANGED dropped
    /\ GivesUp(w)
    /\ UNCHANGED <<durable, up, seen, verdict>>
    /\ UNCHANGED <<ends, born, savedBorn, unsaved>>

\* Any other step of an operation raises.
Raises(w) ==
    /\ pc[w] \notin {"idle", "score"} /\ Fails
    /\ halfDone' = halfDone \cup
         CASE pc[w] = "publish" -> {"verdict"}
           [] pc[w] \in {"resample", "reinstall"} -> {"reanchor"}
           [] OTHER -> {}
    /\ GivesUp(w)
    /\ UNCHANGED <<durable, memory>>
    /\ UNCHANGED <<ends, born, savedBorn, unsaved, dropped>>

\* _record_evidence_point swallows a failed write of the verdict.
PublishFails(w) ==
    /\ Publish(w) /\ Fails
    /\ UNCHANGED dbVerdict

\* _save_monitor_cache logs a failed save and goes on.
SaveCacheFails(w) ==
    /\ Fails
    /\ \/ pc[w] = "recache" /\ Continue(w, AfterReanchor(w))
       \/ pc[w] = "recacheRebuilt" /\ Continue(w, AfterRebuild(ticks))
    /\ UNCHANGED <<durable, memory>>
    /\ UNCHANGED <<ends, born, savedBorn, unsaved, dropped, halfDone>>

\* _save_wealth swallows a failed save: the snapshot stays behind the journal.
SnapshotFails(w) ==
    /\ pc[w] = "snapshot" /\ NewRows(w) /\ Armed(bank) /\ Fails
    /\ Continue(w, "idle")
    /\ UNCHANGED <<durable, memory>>
    /\ UNCHANGED <<ends, born, savedBorn, unsaved, dropped, halfDone>>

-----------------------------------------------------------------------------
\* Crash and restart.

\* The process is gone: so is everything it held in memory.
Down ==
    /\ ends < MaxEnds /\ ends' = ends + 1
    /\ up' = FALSE /\ seen' = 0 /\ bank' = NoBank /\ open' = 0
    /\ lastTs' = 0 /\ verdict' = "none"
    /\ pc' = [w \in Workers |-> "idle"]
    /\ task' = [w \in Workers |-> Idle]
    /\ dropped' = dropped \cup unsaved
    /\ unsaved' = {} /\ halfDone' = {}
    /\ UNCHANGED <<durable, failures, born, savedBorn>>

Crash == MayCrash /\ up /\ Down

AllIdle == up /\ \A w \in Workers : pc[w] = "idle"

\* The service is stopped: the loop is cancelled and running operations end.
Stop == AllIdle /\ Down

ResumedSeenForgotten == 0
ResumedSeen == dbSeen

\* _restore_wealth: only onto a bank with the same signature.
Restorable(b) == Armed(b) /\ dbWealth.ref = b.ref

RestoredNever(b) == b
Restored(b) == IF Restorable(b) THEN dbWealth ELSE b

\* _hydrate_from_store, then onboard (from the cache when its fingerprint
\* still matches, else by calibrating).
Restart ==
    /\ ~up
    /\ up' = TRUE
    /\ LET built == IF CacheHit THEN cache.bank ELSE Calibrated(Sample(FALSE))
           ok    == CacheHit \/ Armed(built)
       IN  /\ bank' = Restored(built)
           /\ born' = IF Restorable(built) THEN savedBorn ELSE dbSeen
           /\ cache' = IF ok /\ ~CacheHit THEN [fp |-> Fingerprint, bank |-> built]
                       ELSE cache
           /\ verdict' = IF ok THEN dbVerdict ELSE "insufficient"
    /\ seen' = ResumedSeen
    /\ UNCHANGED <<life, ledger, ticks, dbSeen, dbVerdict, dbWealth>>
    /\ UNCHANGED <<open, lastTs, pc, task>>
    /\ UNCHANGED <<ends, failures, savedBorn, unsaved, dropped, halfDone>>

-----------------------------------------------------------------------------
Tick(w) ==
    \/ TickRead(w) \/ TickMark(w) \/ TickScore(w) \/ TickPublish(w)
    \/ TickBump(w) \/ RebuildSample(w) \/ RebuildInstall(w) \/ RebuildSaveCache(w)
    \/ TickSnapshot(w)

Reanchor(w) ==
    \/ CloseEpisode(w) \/ ReanchorSample(w) \/ ReanchorInstall(w)
    \/ ReanchorSaveCache(w)

ImmunePass(w) == ImmuneCheck(w) \/ ImmuneInstall(w)

Request(w) == RequestReanchor(w) \/ RequestImmune(w)

Failure(w) ==
    \/ MarkFails(w) \/ ScoreRaises(w) \/ Raises(w) \/ PublishFails(w)
    \/ SaveCacheFails(w) \/ SnapshotFails(w)

Next ==
    \/ \E level \in Levels : Ingest(level)
    \/ \E w \in Workers : Tick(w) \/ Reanchor(w) \/ ImmunePass(w) \/ Request(w)
    \/ \E w \in Workers : Failure(w)
    \/ Stop \/ Crash
    \/ Restart

Spec == Init /\ [][Next]_vars

\* The service loop ticks every interval whatever else is asked of it, a
\* started operation runs to its end, and a supervisor restarts the process.
Fairness ==
    /\ WF_vars(Restart)
    /\ \A w \in Workers : /\ SF_vars(TickRead(w))
                          /\ WF_vars((Tick(w) \/ Reanchor(w) \/ ImmunePass(w))
                                        /\ pc[w] # "idle")

FairSpec == Spec /\ Fairness

-----------------------------------------------------------------------------
\* Properties.

Bank    == [ref : SUBSET Row, count : [Row -> Nat], aux : BOOLEAN]
Episode == [start : Row, end : Row, state : {"alarm", "change"}]
Steps   == {"idle", "mark", "score", "publish", "close", "resample", "reinstall",
            "recache", "bump", "rebuild", "rebuilt", "recacheRebuilt", "immune",
            "revive", "recalibrate", "snapshot"}
Task    == [job : {"none", "tick", "reanchor", "immune"}, from : 0..MaxRow,
            to : 0..MaxRow, word : Words, ref : SUBSET Row]

\* Every variable stays in its type; in particular an episode never starts or
\* ends outside the stored rows and the tick counter stays inside its cycle.
TypeOK ==
    /\ life \in Seq(Levels) /\ Len(life) <= MaxRow
    /\ ledger \subseteq Episode
    /\ cache \in [fp : (0..MaxRow) \X SUBSET Episode, bank : Bank]
    /\ ticks \in 0..(Cycle - 1)
    /\ dbSeen \in 0..MaxRow /\ seen \in 0..MaxRow /\ lastTs \in 0..MaxRow
    /\ open \in 0..MaxRow
    /\ dbVerdict \in Words /\ verdict \in Words
    /\ bank \in Bank /\ dbWealth \in Bank
    /\ up \in BOOLEAN
    /\ pc \in [Workers -> Steps] /\ task \in [Workers -> Task]
    /\ ends \in 0..MaxEnds
    /\ failures \in 0..MaxFailures
    /\ born \in 0..MaxRow /\ savedBorn \in 0..MaxRow
    /\ unsaved \subseteq Row /\ dropped \subseteq Row
    /\ halfDone \subseteq {"verdict", "reanchor"}

\* No row's evidence enters one wealth twice: not in the live bank, and not in
\* the snapshot a restart would resume.  A restart must neither re-read rows
\* the resumed wealth already holds nor resume a wealth behind the journal.
NoDoubleCount ==
    \A r \in Row : bank.count[r] <= 1 /\ dbWealth.count[r] <= 1

\* Between operations, a row seen since the wealth started is in the wealth,
\* with two exceptions: an exception between the mark and the main bank's update
\* passed over it, or no snapshot was written between its mark and the end of the
\* process.  (The journal and the snapshot are two writes, and a save that fails
\* is made good by the next one.)
NothingLostSilently ==
    AllIdle /\ Armed(bank)
      => \A r \in Row : born < r /\ r <= seen => bank.count[r] = 1 \/ r \in dropped

FaultRows == {r \in Row : \E e \in Faults : e.start <= r /\ r <= e.end}

\* Between operations, no row of a ledgered fault window is in the reference of
\* the live bank, nor in that of the monitor a restart would load.  The one
\* exception is a re-anchor that raised between ledgering its episode and
\* recalibrating: the bank of before then stays until the next calibration.
FaultHygiene ==
    AllIdle => /\ "reanchor" \notin halfDone => bank.ref \cap FaultRows = {}
               /\ CacheHit => cache.bank.ref \cap FaultRows = {}

\* The worker leaves one of these steps by installing its sample.
Installs(w, steps) == pc[w] \in steps /\ pc'[w] # pc[w] /\ up' /\ UNCHANGED failures

\* Neither the scheduled rebuild nor a conformance finding of the immune pass
\* moves the baseline under an open episode whose MAIN alarm is latched, in
\* whatever order frames, guards and installs interleave: the main bank is heard
\* on every frame, so the verdict the guard reads is an alarm.  The one exception
\* is a tick that raised before it published that verdict.  (A dead scorer does
\* move it, as meant; an auxiliary alarm does not hold it, see below.)
MainAlarmHoldsBaseline ==
    [][\A w \in Workers :
          Installs(w, {"rebuilt", "recalibrate"})
            => "verdict" \in halfDone \/ ~(open # 0 /\ Alarmed(bank))]_vars

\* The same of any alarm, as the immune pass means it: no rebuild "DURING
\* accumulating evidence" (runtime.py:1333-1338).
BaselineHeldWhileOpen ==
    [][\A w \in Workers :
          Installs(w, {"rebuilt", "recalibrate"})
            => ~(open # 0 /\ (Alarmed(bank) \/ bank.aux))]_vars

ChangeRows ==
    Masked({r \in Row : \E e \in ledger : e.state = "change" /\ e.start <= r /\ r <= e.end})

Absorbed == ChangeRows \cap Evidence(bank) = {}

\* Absorbing a change leaves no row of the absorbed plateau surprising, or the
\* same episode would open again on the next row - as long as the healthy life
\* fits into one calibration sample, so that no row of it is passed over.
AbsorptionIncludesPlateau ==
    [][\A w \in Workers :
          (/\ Installs(w, {"reinstall"}) /\ task[w].word = "change" /\ Armed(bank')
           /\ Cardinality(Masked(1..Len(life))) <= MaxSample)
            => Absorbed']_vars

\* Every stored row is eventually marked seen, whatever crashes, exceptions and
\* requests come in between, but a row whose mark itself could not be written:
\* memory has passed it then.
StoredRowsAreSeen == \A r \in Row : Len(life) >= r ~> dbSeen >= r \/ r \in dropped

\* Between operations an alarm rests on at least one row outside every closed
\* episode: what was adjudicated does not come back.
ClosedEvidenceStaysClosed ==
    AllIdle /\ Alarmed(bank)
      => \E r \in Evidence(bank) :
           /\ bank.count[r] > 0
           /\ \A e \in ledger : ~(e.start <= r /\ r <= e.end)
=============================================================================
