------------------------------- MODULE Bootstrap -------------------------------
(***************************************************************************)
(* First contact with ONE asset (fleet_workers.run_bootstrap and the two   *)
(* ways runtime.py calls it): detect, mask, detect again until a pass finds *)
(* nothing, then the audited calibration, the guard that drops windows     *)
(* which leave nothing to calibrate on, the cache file and the marker.     *)
(*                                                                         *)
(* "sequential": the thread works on the shared ledger and on the live     *)
(* monitor, every write lands at once.  "parallel": a worker process works *)
(* on a private ledger and a private monitor, and the parent then applies  *)
(* the difference.  draft and trial are the ledger and the reference the   *)
(* run works on; in sequential mode they are the shared ones.              *)
(*                                                                         *)
(* The stored history is 1..Rows.  A monitor is its reference, {} when     *)
(* calibration failed.  What the statistics answer (which windows are hot, *)
(* what a chunk's verdict is, which references the audit refuses) is       *)
(* arbitrary.  An exception ends a contact between two of its steps.  The   *)
(* asset's tick counter, which paces other work, is left out.              *)
(***************************************************************************)
EXTENDS Naturals, Sequences, FiniteSets, FiniteSetsExt, SequencesExt

CONSTANTS
    Rows,           \* rows of history, one scan window each
    HeldOut,        \* newest rows calibration leaves out (RECENT_PERIODS)
    MinCalib,       \* rows a calibration needs
    MinScan,        \* rows a contamination scan needs
    ChunkRows,      \* rows per replayed chunk
    MaxPasses,      \* max_iters
    Audits,         \* possible audits: the set of references one refuses
    Modes,          \* subset of {"sequential", "parallel"}
    InitialLedgers, \* episodes that ticks left before first contact
    MaxRequests,    \* bound: bootstraps requested through the API
    MaxCrashes      \* bound: process crashes

ASSUME BootstrapAssumption ==
    /\ Rows \in Nat \ {0} /\ HeldOut \in 0..(Rows - 1)
    /\ MinCalib \in Nat \ {0} /\ MinScan \in Nat
    /\ ChunkRows \in Nat \ {0} /\ MaxPasses \in Nat
    /\ MaxRequests \in Nat /\ MaxCrashes \in Nat
    /\ Audits \subseteq SUBSET SUBSET (1..Rows)
    /\ Modes \subseteq {"sequential", "parallel"}

VARIABLES
    refused,    \* references the exchangeability audit refuses
    \* survives a crash
    ledger,     \* episodes in the order they were added
    marked,     \* assets.bootstrapped_at is set
    seen,       \* runtime_journal.last_seen, 0 when none
    cache,      \* the pickled monitor and the fingerprint it is filed under
    \* lost in a crash
    up, live,   \* the process runs; reference of Runtime.monitors[key]
    contacted,  \* bootstrap_virgin, called once per process, came past the asset
    pc, mode,   \* where the run is, and how it is run
    draft,      \* the ledger the run works on
    trial,      \* reference of the monitor the run works on
    t,          \* local variables of run_bootstrap
    \* observation only
    completed,  \* a run reached its end since the marker was last absent
    raised,     \* this process's last contact ended in an exception
    requests, crashes

service == <<ledger, marked, seen, cache>>
run     == <<pc, mode, draft, trial, t>>
memory  == <<up, live, contacted>>
ghosts  == <<completed, raised, requests, crashes>>
vars    == <<refused, service, memory, run, ghosts>>

Row     == 1..Rows
Episode == [start : Row, end : Row,
            state : {"alarm", "change-not-fault"},
            source : {"scan", "replay", "tick"}]

\* Windows lie in the history and run forward.
IsLedger(d) == d \in Seq(Episode) /\ \A e \in ToSet(d) : e.start <= e.end

ASSUME LedgerAssumption == \A d \in InitialLedgers : IsLedger(d)

FaultStates == {"alarm", "intervention"}

Nothing == [pass |-> 0, before |-> 0, left |-> {}, regions |-> {},
            open |-> 0, last |-> 0, word |-> "none"]

-----------------------------------------------------------------------------
\* Windows, masks, references.

Window(e) == {r \in Row : e.start <= r /\ r <= e.end}

FaultRows(d) == UNION {Window(e) : e \in {f \in ToSet(d) : f.state \in FaultStates}}

UnexplainedFaultsOnly(d) == Row \ FaultRows(d)

\* ledger.mask without states: every episode explains its rows.
Unexplained(d) == Row \ UNION {Window(e) : e \in ToSet(d)}

\* LifetimeBaseline.calibration_sample
Sample(d, includeRecent) ==
    (IF includeRecent THEN Row ELSE 1..(Rows - HeldOut)) \ FaultRows(d)

\* calibrate_from_lifetime: the scan passes calibrate without the audit.
Calibrated(sample, audited) ==
    IF Cardinality(sample) < MinCalib \/ (audited /\ sample \in refused)
    THEN {} ELSE sample

FingerprintOfStoreOnly(d) == {}

Faults(d) == {i \in DOMAIN d : d[i].state \in FaultStates}

\* monitor_fingerprint: the fault windows, each with its place among them (the
\* store does not change during first contact).
Fingerprint(d) ==
    {<<Cardinality({j \in Faults(d) : j <= i}), d[i].start, d[i].end>> :
        i \in Faults(d)}

CacheHit == cache.ref # {} /\ cache.fp = Fingerprint(ledger)

\* Runtime.onboard: the cached monitor, or an audited calibration.
Onboarded ==
    IF CacheHit THEN cache.ref ELSE Calibrated(Sample(ledger, FALSE), TRUE)

RunEndUnclamped(rows, hot, a) ==
    LET cool == {r \in rows \ hot : a < r}
    IN  IF cool = {} THEN Max(rows) + 1 ELSE Min(cool)

\* scan_contamination: the maximal runs of hot windows, each ending at the
\* first row after the run, or at the last row.
RunEnd(rows, hot, a) ==
    LET cool == {r \in rows \ hot : a < r}
    IN  IF cool = {} THEN Max(rows) ELSE Min(cool)

HotRegions(rows, hot) ==
    {[start |-> a, end |-> RunEnd(rows, hot, a)] :
        a \in {b \in hot : \A p \in hot : p < b => RunEnd(rows, hot, p) < b}}

\* The bar is the median plus a multiple of the spread: fewer than half of
\* the windows can be above it.
PossiblyHot(rows) ==
    IF Cardinality(rows) < MinScan THEN {{}}
    ELSE {hot \in SUBSET rows : 2 * Cardinality(hot) < Cardinality(rows)}

NewRegions(d, rows, hot) ==
    {w \in HotRegions(rows, hot) :
        \A e \in ToSet(d) : w.end < e.start \/ w.start > e.end}

Chunk(rows) == {r \in rows : Cardinality({q \in rows : q < r}) < ChunkRows}

FaultsOfTheScan(d) == {i \in DOMAIN d : d[i].source = "scan"}

Width(e) == e.end - e.start

\* max(candidates, key=_span): the first of the widest.
Widest(d, candidates) ==
    CHOOSE i \in candidates :
        \A j \in candidates : \/ Width(d[j]) < Width(d[i])
                              \/ Width(d[j]) = Width(d[i]) /\ i <= j

DroppedInCopy(d, i) == d

\* ledger.remove
Dropped(d, i) == RemoveAt(d, i)

-----------------------------------------------------------------------------
Init ==
    /\ refused \in Audits
    /\ ledger \in InitialLedgers
    /\ marked = FALSE /\ seen = 0
    /\ live = Calibrated(Sample(ledger, FALSE), TRUE)
    /\ cache = [fp |-> Fingerprint(ledger), ref |-> live]
    /\ up = TRUE /\ contacted = FALSE
    /\ pc = "idle" /\ mode = "none" /\ t = Nothing
    /\ draft = <<>> /\ trial = {}
    /\ completed = FALSE /\ raised = FALSE /\ requests = 0 /\ crashes = 0

Goto(step) == pc' = step

\* The run puts d on its ledger and s in its monitor.
Work(d, s) ==
    /\ draft' = d /\ trial' = s
    /\ IF mode = "sequential" THEN ledger' = d /\ live' = s
                              ELSE UNCHANGED <<ledger, live>>
    /\ UNCHANGED <<refused, marked, seen, cache, up, contacted, mode, raised,
                   requests, crashes>>

Begin(m) ==
    /\ mode' = m /\ draft' = ledger
    /\ trial' = IF m = "sequential" THEN live ELSE {}
    /\ t' = Nothing /\ raised' = FALSE
    /\ Goto("pass")

\* bootstrap_virgin: an asset without marker and without windows.
Virgin(m) ==
    /\ up /\ pc = "idle" /\ ~contacted /\ ~marked /\ ledger = <<>>
    /\ contacted' = TRUE
    /\ Begin(m)
    /\ UNCHANGED <<refused, service, up, live, completed, requests, crashes>>

\* bootstrap_virgin: windows without a marker count as an earlier contact.
AcceptLedger ==
    /\ up /\ pc = "idle" /\ ~contacted /\ ~marked /\ ledger # <<>>
    /\ contacted' = TRUE /\ marked' = TRUE
    /\ UNCHANGED <<refused, ledger, seen, cache, up, live, run, ghosts>>

\* POST /api/bootstrap/{asset}
RequestBootstrap ==
    /\ up /\ pc = "idle" /\ requests < MaxRequests
    /\ requests' = requests + 1
    /\ Begin("sequential")
    /\ UNCHANGED <<refused, service, memory, completed, crashes>>

-----------------------------------------------------------------------------
\* run_bootstrap.

PassesExhausted ==
    /\ pc = "pass" /\ t.pass = MaxPasses
    /\ Goto("final")
    /\ UNCHANGED <<refused, service, memory, mode, draft, trial, t, ghosts>>

\* The pass calibrates unaudited; it stops the loop when that fails or when
\* the whole life is explained.
StartPass ==
    LET ref  == Calibrated(Sample(draft, FALSE), FALSE)
        rows == Unexplained(draft)
    IN  /\ pc = "pass" /\ t.pass < MaxPasses
        /\ Work(draft, ref)
        /\ IF ref = {} \/ rows = {}
           THEN Goto("final") /\ UNCHANGED t
           ELSE /\ Goto("scan")
                /\ t' = [Nothing EXCEPT !.pass = t.pass + 1,
                             !.before = Len(draft), !.left = rows]
        /\ UNCHANGED completed

Scan ==
    /\ pc = "scan"
    /\ \E hot \in PossiblyHot(t.left) :
           t' = [t EXCEPT !.regions = NewRegions(draft, t.left, hot)]
    /\ Goto("mask")
    /\ UNCHANGED <<refused, service, memory, mode, draft, trial, ghosts>>

\* The regions go to the ledger in time order, one write each.
Mask ==
    /\ pc = "mask" /\ t.regions # {}
    /\ LET w == CHOOSE w \in t.regions : \A x \in t.regions : w.start <= x.start
       IN  /\ t' = [t EXCEPT !.regions = @ \ {w}]
           /\ Work(Append(draft, [start |-> w.start, end |-> w.end,
                                  state |-> "alarm", source |-> "scan"]), trial)
    /\ UNCHANGED <<pc, completed>>

Masked ==
    /\ pc = "mask" /\ t.regions = {}
    /\ Goto("replay")
    /\ UNCHANGED <<refused, service, memory, mode, draft, trial, t, ghosts>>

\* EpisodicMonitor.reanchor: the episode, then the audited calibration, which
\* takes in the recent rows when a change is absorbed.
Close(end) ==
    LET change == t.word = "change"
        d == Append(draft, [start |-> t.open, end |-> end,
                            state |-> IF change THEN "change-not-fault" ELSE "alarm",
                            source |-> "replay"])
    IN  Work(d, Calibrated(Sample(d, change), TRUE))

\* A chunk in alarm opens an episode at its onset unless one is open; a
\* chunk that is not closes the open one.  A dead monitor sees nothing.
Replay ==
    LET chunk == Chunk(t.left)
        read  == [t EXCEPT !.left = @ \ chunk, !.last = Max(chunk)]
    IN  /\ pc = "replay" /\ t.left # {}
        /\ \/ /\ trial # {}
              /\ \E word \in {"alarm", "change"}, onset \in chunk :
                     t' = [read EXCEPT !.word = word,
                               !.open = IF t.open = 0 THEN onset ELSE t.open]
              /\ Work(draft, trial)
           \/ t.open = 0 /\ t' = read /\ Work(draft, trial)
           \/ /\ t.open # 0
              /\ t' = [read EXCEPT !.open = 0, !.word = "none"]
              /\ Close(Max(chunk))
        /\ UNCHANGED <<pc, completed>>

EndReplay ==
    /\ pc = "replay" /\ t.left = {}
    /\ IF t.open = 0
       THEN UNCHANGED t /\ Work(draft, trial)
       ELSE t' = [t EXCEPT !.open = 0, !.word = "none"] /\ Close(t.last)
    /\ Goto("tally")
    /\ UNCHANGED completed

Tally ==
    /\ pc = "tally"
    /\ Goto(IF Len(draft) > t.before THEN "pass" ELSE "final")
    /\ t' = [Nothing EXCEPT !.pass = t.pass]
    /\ UNCHANGED <<refused, service, memory, mode, draft, trial, ghosts>>

FinalSkipped == UNCHANGED <<refused, service, memory, mode, draft, trial,
                            raised, requests, crashes>> /\ Goto("save")

Calibrate(d) ==
    LET ref == Calibrated(Sample(d, FALSE), TRUE)
    IN  Work(d, ref) /\ Goto(IF ref = {} THEN "refute" ELSE "save")

\* The calibration that arms the guarantee.
FinalCalibration == Calibrate(draft)

Final ==
    /\ pc = "final"
    /\ FinalCalibration
    /\ t' = Nothing
    /\ UNCHANGED completed

Candidates(d) == Faults(d)

\* The self-refuting mask guard drops the widest fault window and tries again.
Refute ==
    /\ pc = "refute" /\ Candidates(draft) # {}
    /\ Calibrate(Dropped(draft, Widest(draft, Candidates(draft))))
    /\ UNCHANGED <<t, completed>>

Returned == IF mode = "parallel" THEN "apply" ELSE "mark"

\* Nothing is left to drop: the history is too thin.
Insufficient ==
    /\ pc = "refute" /\ Candidates(draft) = {}
    /\ Goto(Returned) /\ completed' = TRUE
    /\ UNCHANGED <<refused, service, memory, mode, draft, trial, t,
                   raised, requests, crashes>>

Save ==
    /\ pc = "save"
    /\ cache' = [fp |-> Fingerprint(draft), ref |-> trial]
    /\ Goto(Returned) /\ completed' = TRUE
    /\ UNCHANGED <<refused, ledger, marked, seen, memory, mode, draft, trial,
                   t, raised, requests, crashes>>

-----------------------------------------------------------------------------
\* What the caller does with the result.

Missing == ToSet(draft) \ ToSet(ledger)

MissingStarts == {e \in Missing : \A f \in ToSet(ledger) : e.start # f.start}

Added == Missing

\* The parent adds what the worker found, in the order of a Python set.  A
\* virgin asset has no episode the worker could have removed.
Apply ==
    /\ pc = "apply" /\ Added # {}
    /\ \E e \in Added : ledger' = Append(ledger, e)
    /\ UNCHANGED <<refused, marked, seen, cache, memory, run, ghosts>>

Applied ==
    /\ pc = "apply" /\ Added = {}
    /\ Goto("mark")
    /\ UNCHANGED <<refused, service, memory, mode, draft, trial, t, ghosts>>

\* _mark_bootstrapped
Mark ==
    /\ pc = "mark"
    /\ marked' = TRUE
    /\ Goto("journal")
    /\ UNCHANGED <<refused, ledger, seen, cache, memory, mode, draft, trial, t,
                   ghosts>>

Finished == t' = Nothing /\ draft' = <<>> /\ trial' = {} /\ UNCHANGED mode

\* _set_last_seen with the last row of the history the run read.
Journal ==
    /\ pc = "journal"
    /\ seen' = Rows
    /\ IF mode = "parallel"
       THEN Goto("reload") /\ UNCHANGED <<mode, draft, trial, t>>
       ELSE Goto("idle") /\ Finished
    /\ UNCHANGED <<refused, ledger, marked, cache, memory, ghosts>>

\* The parent takes the worker's monitor from the cache file, if it is filed
\* under the fingerprint of the parent's ledger.
Reload ==
    /\ pc = "reload"
    /\ live' = IF trial # {} /\ CacheHit THEN cache.ref ELSE live
    /\ Goto("idle") /\ Finished
    /\ UNCHANGED <<refused, service, up, contacted, ghosts>>

WorkerSteps == {"pass", "scan", "mask", "replay", "tally", "final", "refute", "save"}

\* An exception in the worker: marked, so that it is not tried again.
WorkerFails ==
    /\ mode = "parallel" /\ pc \in WorkerSteps
    /\ marked' = TRUE
    /\ Goto("idle") /\ Finished
    /\ UNCHANGED <<refused, ledger, seen, cache, memory, ghosts>>

\* The pool died: the asset is bootstrapped again, sequentially.
PoolBreaks ==
    /\ mode = "parallel" /\ pc \in WorkerSteps
    /\ Begin("sequential")
    /\ UNCHANGED <<refused, service, memory, completed, requests, crashes>>

\* An exception in what the service's own thread does: the sequential run, or
\* the transfer of a worker's result.  Whoever called the contact logs it and
\* goes on; windows already ledgered, the marker if it was set, and whatever
\* the monitor was last calibrated on stay.
ContactRaises ==
    /\ \/ mode = "sequential" /\ pc # "idle"
       \/ mode = "parallel" /\ pc \in {"apply", "mark", "journal", "reload"}
    /\ raised' = TRUE
    /\ Goto("idle") /\ Finished
    /\ UNCHANGED <<refused, service, memory, completed, requests, crashes>>

-----------------------------------------------------------------------------
Crash ==
    /\ up /\ crashes < MaxCrashes
    /\ crashes' = crashes + 1
    /\ up' = FALSE /\ live' = {} /\ contacted' = FALSE /\ raised' = FALSE
    /\ mode' = "none" /\ pc' = "idle" /\ t' = Nothing /\ draft' = <<>> /\ trial' = {}
    /\ UNCHANGED <<refused, service, completed, requests>>

Restart ==
    /\ ~up /\ up' = TRUE
    /\ live' = Onboarded
    /\ cache' = IF CacheHit \/ Onboarded = {} THEN cache
                ELSE [fp |-> Fingerprint(ledger), ref |-> Onboarded]
    /\ UNCHANGED <<refused, ledger, marked, seen, contacted, run, ghosts>>

RunBootstrap ==
    \/ PassesExhausted \/ StartPass \/ Scan \/ Mask \/ Masked
    \/ Replay \/ EndReplay \/ Tally \/ Final \/ Refute \/ Insufficient \/ Save

Caller == Apply \/ Applied \/ Mark \/ Journal \/ Reload

Next ==
    \/ \E m \in Modes : Virgin(m)
    \/ AcceptLedger \/ RequestBootstrap
    \/ RunBootstrap \/ Caller
    \/ WorkerFails \/ PoolBreaks \/ ContactRaises
    \/ Crash \/ Restart

Spec == Init /\ [][Next]_vars

\* A run in progress keeps running: it is one thread, or one process and the
\* thread that waits for it.
FairSpec == Spec /\ WF_vars(RunBootstrap \/ Caller)

-----------------------------------------------------------------------------
Steps == WorkerSteps \cup {"idle", "apply", "mark", "journal", "reload"}

Locals == [pass : 0..MaxPasses, before : Nat, left : SUBSET Row,
           regions : SUBSET [start : Row, end : Row],
           open : 0..Rows, last : 0..Rows, word : {"none", "alarm", "change"}]

\* Every variable has its type; windows run forward and end in the history.
TypeOK ==
    /\ refused \in Audits
    /\ IsLedger(ledger) /\ IsLedger(draft)
    /\ marked \in BOOLEAN /\ up \in BOOLEAN /\ contacted \in BOOLEAN
    /\ completed \in BOOLEAN /\ raised \in BOOLEAN
    /\ seen \in {0, Rows}
    /\ cache \in [fp : SUBSET (Nat \X Row \X Row), ref : SUBSET Row]
    /\ live \in SUBSET Row /\ trial \in SUBSET Row
    /\ pc \in Steps /\ mode \in {"none", "sequential", "parallel"}
    /\ t \in Locals
    /\ requests \in 0..MaxRequests /\ crashes \in 0..MaxCrashes

\* A monitor that the next onboarding would take from the cache was
\* calibrated on rows outside every fault window of the ledger as it stands,
\* and the audit accepted it: neither the passes that calibrate unaudited on
\* contaminated life, nor a crash between a window and the cache file, nor a
\* worker whose result was lost leaves a file that a start would trust.
RestorableIsClean ==
    CacheHit => /\ cache.ref \cap FaultRows(ledger) = {}
                /\ cache.ref \notin refused

\* A pass that ledgered anything explained a row no earlier episode
\* explained; without this the passes find the same fault again and again
\* until max_iters cuts them off (fleet_workers.py, the mask of all states).
FindingsAreNew ==
    pc = "tally" /\ Len(draft) > t.before =>
        Unexplained(draft) # Unexplained(SubSeq(draft, 1, t.before))

\* First contact leaves no dead monitor for which the history would have
\* been enough: if the last calibration failed, it fails without any mask.
NeverLeftDead ==
    pc \in {"apply", "mark"} /\ trial = {} => Calibrated(Sample(<<>>, FALSE), TRUE) = {}

\* Between runs the live monitor of a service that bootstraps sequentially is
\* calibrated on none of the rows the ledger calls faulty, whatever a crash, a
\* worker or an earlier contact that raised left behind; only while the last
\* contact of this very process is one that raised may it be.
LiveMatchesLedger ==
    up /\ pc = "idle" /\ mode # "parallel" /\ ~raised =>
        live \cap FaultRows(ledger) = {}

\* The parent's ledger ends up with exactly the episodes the worker left,
\* those its guard dropped not among them.
NoLostFindings ==
    mode = "parallel" /\ pc \in {"mark", "journal", "reload"} =>
        ToSet(ledger) = ToSet(draft)

\* First contact ends: the passes converge or run out, and the guard runs out
\* of windows.
ContactEnds == pc # "idle" ~> pc = "idle"

-----------------------------------------------------------------------------
\* A claim of the repository that the code does not keep.

\* tests/test_runtime_service.py: a parallel run over the same data must
\* produce the outcome of the sequential one.  So after a parallel contact
\* the live monitor too is calibrated outside the ledger's fault windows.
ParallelLeavesLiveClean ==
    up /\ pc = "idle" /\ mode = "parallel" /\ completed /\ ~raised =>
        live \cap FaultRows(ledger) = {}
=============================================================================
