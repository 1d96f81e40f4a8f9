--------------------------------- MODULE Fleet ---------------------------------
(***************************************************************************)
(* The life cycle of the assets of one service (runtime.py, service.py,    *)
(* store/state.py): the loop sets the fleet up, contacts the virgin assets *)
(* and then makes one pass after another; the operator registers, retires, *)
(* purges and re-onboards through the API, each on a thread of its own;    *)
(* files appear in the drop folder.  What a tick or a contact does to the  *)
(* evidence of one asset is in AssetRuntime and Bootstrap; here it is one  *)
(* step.                                                                   *)
(***************************************************************************)
EXTENDS Integers, FiniteSets

CONSTANTS
    Assets,
    Droppable,     \* assets the drop folder may get a file of
    MaxRequests,   \* bound: calls over the API, rows that come, files that are dropped
    MaxTroubles    \* bound: crashes, exceptions, missed reloads, monitors that begin to raise

VARIABLES
    \* on disk
    row,       \* the registry: status, kind of source, marker
    history,   \* assets with a directory in the raw store
    table,     \* assets with windows in the episodes table
    files,     \* files in the drop folder, by the asset they name
    \* in memory
    up,
    monitors,
    booted,    \* _bootstrapped
    mirror,    \* assets with windows in ledger.episodes
    attached,  \* live_sources
    opened,    \* _incoming_seen
    busy,      \* the label of an asset that is being brought up
    broken,    \* assets whose buffer has a row that no tick gets over
    hollow,    \* assets with an EpisodicMonitor of None
    \* control
    phase,     \* what the loop does
    todo,      \* the assets it has still to do so
    pool,      \* whether worker processes are doing it
    at,        \* where each thread is in onboard_and_bootstrap
    deleting,  \* where a DELETE of each asset is
    \* observation only
    cut,       \* assets whose own onboarding an exception cut short
    stranded,  \* assets still to be brought up when an exception ended that step of the loop
    spoilt,    \* assets whose file could not be taken
    clashed,   \* assets deleted while they were brought up
    requests, troubles

\* The loop brings up one asset at a time; each asset has a background job.
Workers == {"loop", "job"} \X Assets

ASSUME FleetAssumption ==
    /\ IsFiniteSet(Assets) /\ Droppable \subseteq Assets
    /\ {MaxRequests, MaxTroubles} \subseteq Nat

disk     == <<row, history, table, files>>
sick     == <<broken, hollow>>
memory   == <<up, monitors, booted, mirror, attached, opened, busy, sick>>
schedule == <<phase, todo, pool>>
counters == <<requests, troubles>>
deletion == <<deleting, clashed>>
losses   == <<cut, stranded, spoilt>>
vars     == <<disk, memory, schedule, at, deletion, losses, counters>>

Row(status, kind) == [status |-> status, kind |-> kind, marked |-> FALSE]
NoRow == Row("none", "manual")

Init ==
    /\ row \in [Assets -> {NoRow, Row("active", "pull"), Row("retired", "manual")}]
    \* a retired asset has a history, one not yet registered has none
    /\ history \in SUBSET {a \in Assets : row[a] # NoRow}
    /\ {a \in Assets : row[a].status = "retired"} \subseteq history
    /\ table = {} /\ files = {}
    /\ up = TRUE /\ monitors = {} /\ booted = {} /\ mirror = {}
    /\ attached = {} /\ opened = {}
    /\ busy = [a \in Assets |-> "none"] /\ broken = {} /\ hollow = {}
    /\ phase = "setup" /\ todo = {} /\ pool = FALSE
    /\ at = [w \in Workers |-> "idle"]
    /\ deleting = [a \in Assets |-> "no"]
    /\ cut = {} /\ stranded = {} /\ spoilt = {} /\ clashed = {}
    /\ requests = 0 /\ troubles = 0

Active(a)  == row[a].status = "active"
Retired(a) == row[a].status = "retired"
Known(a)   == a \in monitors \/ row[a] # NoRow

On(w) == w[2]
Loop(a) == <<"loop", a>>
Job(a) == <<"job", a>>

InTheQueue(a) == phase \in {"onboard", "contact"} /\ a \in todo
Working(a) == InTheQueue(a) \/ \E w \in Workers : at[w] # "idle" /\ On(w) = a

Goto(w, step) == at' = [at EXCEPT ![w] = step]
Label(set, text) == busy' = [a \in Assets |-> IF a \in set THEN text ELSE busy[a]]
Unlabel(a) == Label({a}, "none")

\* Bringing up what is being deleted.
Clashes(set) ==
    /\ clashed' = clashed \cup {a \in set : deleting[a] # "no"}
    /\ UNCHANGED deleting

Fails == troubles < MaxTroubles /\ troubles' = troubles + 1 /\ UNCHANGED requests
Asks  == requests < MaxRequests /\ requests' = requests + 1 /\ UNCHANGED troubles

\* INSERT OR IGNORE
Ensured(r) == IF r = NoRow THEN [r EXCEPT !.status = "active"] ELSE r

\* _mark_bootstrapped
MarkUnregistered(set) ==
    /\ booted' = booted \cup set
    /\ row' = [a \in Assets |-> [row[a] EXCEPT !.marked = @ \/ a \in set]]
Mark(set) ==
    /\ booted' = booted \cup set
    /\ row' = [a \in Assets |->
                 IF a \in set THEN [Ensured(row[a]) EXCEPT !.marked = TRUE] ELSE row[a]]

-----------------------------------------------------------------------------
\* Bringing one asset up: onboard, then first contact if it had none.  In the
\* set-up of the loop an onboarding ends at Install.

InSetup(w) == w = Loop(On(w)) /\ phase = "onboard"

StartJob(w) ==
    /\ at[w] = "start"
    /\ Label({On(w)}, "onboarding")
    /\ stranded' = stranded \ {On(w)}
    /\ Goto(w, "fit")
    /\ UNCHANGED <<disk, up, monitors, booted, mirror, attached, opened, sick, schedule,
                   deletion, cut, spoilt, counters>>

\* run_onboard or the cache; then the monitor is in the map, the journal resumed
\* and the source attached.
AttachedOnRequest(a) == attached
Attached(a) == IF row[a].kind = "pull" THEN attached \cup {a} ELSE attached

Installed(a, ok) ==
    /\ ok => a \in history
    /\ monitors' = monitors \cup {a} /\ hollow' = hollow \ {a}
    /\ row' = [row EXCEPT ![a] = Ensured(@)]

\* With the source attached the onboarding is whole.
Completed(a) ==
    /\ attached' = Attached(a)
    /\ cut' = cut \ {a}
    /\ UNCHANGED <<stranded, spoilt>>

\* An exception on the way: there is no monitor yet, or the monitor is in the map,
\* with its source or without.
BrokenOff(a) ==
    /\ \/ UNCHANGED <<monitors, hollow, row, attached>>
       \/ Installed(a, FALSE) /\ attached' \in {attached, Attached(a)}
    /\ cut' = cut \cup {a}

\* The label goes when nothing more is to be done.
UnlabelAfterInstall(w, ok) ==
    Label(IF ok /\ ~InSetup(w) THEN {} ELSE {On(w)}, "none")

Install(w, ok) ==
    /\ at[w] = "fit" /\ Installed(On(w), ok) /\ Completed(On(w))
    /\ UnlabelAfterInstall(w, ok)
    /\ Goto(w, IF ok /\ ~InSetup(w) THEN "decide" ELSE "idle")
    /\ UNCHANGED <<history, table, files, up, booted, mirror, opened, broken, schedule,
                   deletion, counters>>

Virgin(a) == a \notin booted /\ a \notin mirror
Usable == monitors \ hollow

BeginContact(w) ==
    /\ at[w] = "decide" /\ Virgin(On(w)) /\ On(w) \in Usable
    /\ Label({On(w)}, "bootstrapping")
    /\ Goto(w, "contact")
    /\ UNCHANGED <<disk, up, monitors, booted, mirror, attached, opened, sick, schedule,
                   deletion, losses, counters>>

\* bootstrap finds no monitor, or one of None: it raises, and the job is over.
ContactMissesMonitor(w) ==
    /\ at[w] = "decide" /\ Virgin(On(w)) /\ On(w) \notin Usable
    /\ Unlabel(On(w))
    /\ Goto(w, "idle")
    /\ UNCHANGED <<disk, up, monitors, booted, mirror, attached, opened, sick, schedule,
                   deletion, losses, counters>>

SkipContact(w) ==
    /\ at[w] = "decide" /\ ~Virgin(On(w))
    /\ Mark({On(w)})
    /\ Unlabel(On(w))
    /\ Goto(w, "idle")
    /\ UNCHANGED <<history, table, files, up, monitors, mirror, attached, opened, sick,
                   schedule, deletion, losses, counters>>

\* What a contact leaves: windows or none, the marker, a cached monitor.
Contacted(a, found) ==
    /\ mirror' = IF found THEN mirror \cup {a} ELSE mirror
    /\ table'  = IF found THEN table \cup {a} ELSE table
    /\ Mark({a})
    /\ Unlabel(a)

EndContact(w, found) ==
    /\ at[w] = "contact"
    /\ Contacted(On(w), found)
    /\ Goto(w, "idle")
    /\ UNCHANGED <<history, files, up, monitors, attached, opened, sick, schedule,
                   deletion, losses, counters>>

\* What an exception leaves of a contact: windows in the ledger, or only in its
\* mirror, and the marker when it was the last write that raised.
ContactBrokenOff(a) ==
    /\ mirror' \in {mirror, mirror \cup {a}}
    /\ table' \in {table, table \cup (mirror' \cap {a})}
    /\ \E marked \in SUBSET {a} : Mark(marked)
    /\ UNCHANGED <<monitors, hollow, attached, cut>>

\* An exception in a job, or while the loop takes a file: the finally clause
\* removes the label, and the pass goes on.
UnlabelNever(a) == UNCHANGED busy
UnlabelFinally(a) == Unlabel(a)

JobRaises(w) ==
    /\ Fails
    /\ w = Loop(On(w)) => phase = "scan"
    /\ \/ at[w] = "fit" /\ BrokenOff(On(w)) /\ UNCHANGED <<table, booted, mirror>>
       \/ at[w] = "contact" /\ ContactBrokenOff(On(w))
    /\ UnlabelFinally(On(w))
    /\ spoilt' = IF w = Loop(On(w)) THEN spoilt \cup {On(w)} ELSE spoilt
    /\ Goto(w, "idle")
    /\ UNCHANGED <<history, files, up, opened, broken, schedule, deletion, stranded>>

BringUp(w) ==
    \/ StartJob(w) \/ BeginContact(w) \/ ContactMissesMonitor(w) \/ SkipContact(w)
    \/ \E b \in BOOLEAN : Install(w, b) \/ EndContact(w, b)

-----------------------------------------------------------------------------
\* The loop: onboard_all.

LoopAt(step) == {a \in Assets : at[Loop(a)] = step}
LoopIdle == up /\ LoopAt("idle") = Assets

DiscoverStored == {a \in Assets : a \in history /\ ~Retired(a)}
Discovered == {a \in Assets : (a \in history \/ Active(a)) /\ ~Retired(a)}

Discover ==
    /\ LoopIdle /\ phase = "setup"
    /\ todo' = Discovered
    /\ Label({a \in Discovered \ monitors : busy[a] = "none"}, "queued")
    /\ phase' = "onboard" /\ pool' = FALSE
    /\ Clashes(Discovered)
    /\ UNCHANGED <<disk, up, monitors, booted, mirror, attached, opened, sick, at,
                   losses, counters>>

Take(a) ==
    /\ LoopIdle /\ ~pool /\ a \in todo
    /\ todo' = todo \ {a}
    /\ UNCHANGED <<phase, pool>>

SetupTakes(a) ==
    /\ phase = "onboard" /\ Take(a)
    /\ Label({a}, "onboarding")
    /\ Goto(Loop(a), "fit")
    /\ UNCHANGED <<disk, up, monitors, booted, mirror, attached, opened, sick, deletion,
                   losses, counters>>

\* An exception ends the step, and nobody makes it again; the labels stay.
Stops(next) ==
    /\ phase' = next /\ todo' = {} /\ pool' = FALSE
    /\ UNCHANGED <<spoilt, deletion>>

SetupRaises(a) ==
    /\ Fails /\ phase = "onboard" /\ at[Loop(a)] = "fit"
    /\ BrokenOff(a)
    /\ stranded' = stranded \cup todo \cup {a}
    /\ Stops("virgin")
    /\ Goto(Loop(a), "idle")
    /\ UNCHANGED <<history, table, files, up, booted, mirror, opened, busy, broken>>

\* Two or more assets go to worker processes when there are any; results are
\* installed as they come.
StartPool ==
    /\ LoopIdle /\ phase \in {"onboard", "contact"} /\ ~pool /\ Cardinality(todo) >= 2
    /\ pool' = TRUE /\ UNCHANGED <<phase, todo>>
    /\ Label(todo, IF phase = "onboard" THEN "onboarding" ELSE "bootstrapping")
    /\ UNCHANGED <<disk, up, monitors, booted, mirror, attached, opened, sick, at,
                   deletion, losses, counters>>

PoolReturns(a) ==
    /\ pool /\ a \in todo
    /\ todo' = todo \ {a}
    /\ UNCHANGED <<phase, pool>>

PoolInstalls(a, ok) ==
    /\ phase = "onboard" /\ PoolReturns(a)
    /\ Installed(a, ok) /\ Completed(a)
    /\ Unlabel(a)
    /\ UNCHANGED <<history, table, files, up, booted, mirror, opened, broken, at,
                   deletion, counters>>

\* A worker that raises leaves an unfitted monitor, and no source.
PoolInstallFails(a) ==
    /\ Fails /\ phase = "onboard" /\ PoolReturns(a)
    /\ Installed(a, FALSE)
    /\ cut' = cut \cup {a}
    /\ Unlabel(a)
    /\ UNCHANGED <<history, table, files, up, booted, mirror, attached, opened, broken,
                   at, deletion, stranded, spoilt>>

\* The parent itself raises.  Rows that came after the worker saved its monitor change
\* the fingerprint: the reload finds none, an EpisodicMonitor of None is in the map,
\* and the wealth cannot be restored to it.  Or the source cannot be built.
PoolInstallRaises(a) ==
    /\ Fails /\ phase = "onboard" /\ pool /\ a \in todo
    /\ \/ /\ a \in history
          /\ monitors' = monitors \cup {a} /\ hollow' = hollow \cup {a}
          /\ row' = [row EXCEPT ![a] = Ensured(@)]
          /\ attached' = Attached(a)
       \/ Installed(a, FALSE) /\ UNCHANGED attached
    /\ cut' = cut \cup {a}
    /\ stranded' = stranded \cup todo
    /\ Stops("virgin")
    /\ UNCHANGED <<history, table, files, up, booted, mirror, opened, busy, broken, at>>

PoolBreaks ==
    /\ Fails /\ pool /\ todo # {}
    /\ pool' = FALSE
    /\ UNCHANGED <<disk, memory, phase, todo, at, deletion, losses>>

SetupEnds ==
    /\ LoopIdle /\ phase = "onboard" /\ todo = {}
    /\ phase' = "virgin" /\ pool' = FALSE
    /\ UNCHANGED <<disk, memory, todo, at, deletion, losses, counters>>

-----------------------------------------------------------------------------
\* The loop: bootstrap_virgin.

ListVirgins ==
    /\ LoopIdle /\ phase = "virgin"
    /\ todo' = monitors /\ phase' = "sift"
    /\ UNCHANGED <<disk, memory, pool, at, deletion, losses, counters>>

\* Windows in the ledger stand for an earlier contact.
Contacts == {a \in monitors : a \notin booted /\ a \in mirror}

Sift ==
    /\ phase = "sift" /\ Cardinality(monitors) = Cardinality(todo)
    /\ Mark(Contacts)
    /\ todo' = {a \in monitors : Virgin(a)}
    /\ phase' = "contact" /\ pool' = FALSE
    /\ UNCHANGED <<history, table, files, up, monitors, mirror, attached, opened, sick,
                   busy, at, deletion, losses, counters>>

\* The loop iterates over the map itself: when its size changes, Python raises.
SiftRaises ==
    /\ phase = "sift" /\ Cardinality(monitors) # Cardinality(todo)
    /\ \E marked \in SUBSET Contacts : Mark(marked)
    /\ todo' = {} /\ phase' = "scan" /\ UNCHANGED pool
    /\ UNCHANGED <<history, table, files, up, monitors, mirror, attached, opened, sick,
                   busy, at, deletion, losses, counters>>

ContactTakes(a) ==
    /\ phase = "contact" /\ Take(a) /\ a \in Usable
    /\ Label({a}, "bootstrapping")
    /\ Goto(Loop(a), "contact")
    /\ UNCHANGED <<disk, up, monitors, booted, mirror, attached, opened, sick, deletion,
                   losses, counters>>

\* A monitor gone or of None, or any other exception, ends bootstrap_virgin; only the
\* asset it was at loses its label, and only when no pool is at work.
ContactLost(a) ==
    /\ LoopIdle /\ phase = "contact" /\ ~pool /\ a \in todo \ Usable
    /\ Unlabel(a)
    /\ stranded' = stranded \cup (todo \ {a})
    /\ Stops("scan")
    /\ UNCHANGED <<disk, up, monitors, booted, mirror, attached, opened, sick, at, cut,
                   counters>>

ContactRaises(a) ==
    /\ Fails /\ phase = "contact" /\ at[Loop(a)] = "contact"
    /\ ContactBrokenOff(a)
    /\ Unlabel(a) /\ Goto(Loop(a), "idle")
    /\ stranded' = stranded \cup todo
    /\ Stops("scan")
    /\ UNCHANGED <<history, files, up, opened, broken>>

PoolContactRaises(a) ==
    /\ Fails /\ phase = "contact" /\ pool /\ a \in todo
    /\ ContactBrokenOff(a)
    /\ stranded' = stranded \cup todo
    /\ Stops("scan")
    /\ UNCHANGED <<history, files, up, opened, busy, broken, at>>

\* The parent installs the worker's monitor, when it finds it in the cache.
PoolContacts(a, found) ==
    /\ phase = "contact" /\ PoolReturns(a)
    /\ Contacted(a, found)
    /\ \/ UNCHANGED <<monitors, hollow>>
       \/ monitors' = monitors \cup {a} /\ hollow' = hollow \ {a}
    /\ UNCHANGED <<history, files, up, attached, opened, broken, at, deletion, losses,
                   counters>>

PoolContactFails(a) ==
    /\ Fails /\ phase = "contact" /\ PoolReturns(a)
    /\ Mark({a})
    /\ Unlabel(a)
    /\ UNCHANGED <<history, table, files, up, monitors, mirror, attached, opened, sick,
                   at, deletion, losses>>

ContactsEnd ==
    /\ LoopIdle /\ phase = "contact" /\ todo = {}
    /\ phase' = "scan" /\ pool' = FALSE
    /\ UNCHANGED <<disk, memory, todo, at, deletion, losses, counters>>

-----------------------------------------------------------------------------
\* The loop: tick_all, the drop folder first.

Scanning == LoopIdle /\ phase = "scan"

NewFilesUnknown == {a \in files \ opened : row[a] = NoRow}
NewFiles == files \ opened

TakeFile(a) ==
    /\ Scanning /\ a \in NewFiles
    /\ opened' = opened \cup {a}
    /\ history' = history \cup {a}
    /\ row' = [row EXCEPT ![a] = [@ EXCEPT !.status = "active", !.kind = "folder"]]
    /\ Goto(Loop(a), "start")
    /\ Clashes({a})
    /\ UNCHANGED <<table, files, up, monitors, booted, mirror, attached, busy, sick,
                   schedule, losses, counters>>

\* The exception is caught here, before or after the rows are stored.
FileFails(a) ==
    /\ Fails /\ Scanning /\ a \in NewFiles
    /\ opened' = opened \cup {a} /\ spoilt' = spoilt \cup {a}
    /\ history' \in {history, history \cup {a}}
    /\ UNCHANGED <<row, table, files, up, monitors, booted, mirror, attached, busy,
                   sick, schedule, at, deletion, cut, stranded>>

StartTicks ==
    /\ Scanning /\ NewFiles = {}
    /\ todo' = monitors /\ phase' = "ticks"
    /\ UNCHANGED <<disk, memory, pool, at, deletion, losses, counters>>

Tick(a) ==
    /\ phase = "ticks" /\ a \in (todo \cap monitors) \ broken
    /\ todo' = todo \ {a}
    /\ UNCHANGED <<disk, memory, phase, pool, at, deletion, losses, counters>>

\* An exception ends the pass; the loop logs it and makes the next one.
AfterAbandonedDead == "dead"
AfterAbandoned == "scan"

EndPass(next) ==
    /\ phase' = next /\ todo' = {}
    /\ UNCHANGED <<disk, memory, pool, at, deletion, losses>>

TickLost ==
    /\ phase = "ticks" /\ todo \ monitors # {}
    /\ EndPass(AfterAbandoned)
    /\ UNCHANGED counters

TickRaises ==
    /\ Fails /\ phase = "ticks" /\ todo # {}
    /\ EndPass(AfterAbandoned)

\* A naive timestamp in the buffer of a live source: the drain raises, and does so on
\* every pass.  A hollow monitor raises on every pass that finds it new rows.
TurnsBroken(a) ==
    /\ Fails /\ up /\ a \in monitors
    /\ broken' = broken \cup {a}
    /\ UNCHANGED <<disk, up, monitors, booted, mirror, attached, opened, busy, hollow,
                   schedule, at, deletion, losses>>

Raising == monitors \cap (broken \cup hollow)

TickRaisesAgain(a) ==
    /\ phase = "ticks" /\ a \in todo \cap Raising
    /\ EndPass(AfterAbandoned)
    /\ UNCHANGED counters

PassEnds ==
    /\ phase = "ticks" /\ todo = {}
    /\ EndPass("scan")
    /\ UNCHANGED counters

-----------------------------------------------------------------------------
\* The operator.

\* POST /api/assets: refused while the registry has the asset and it is not retired.
Register(a, kind) ==
    /\ Asks /\ up /\ ~Active(a) /\ at[Job(a)] = "idle"
    /\ row' = [row EXCEPT ![a] = [@ EXCEPT !.status = "active", !.kind = kind]]
    /\ Label({a}, "queued")
    /\ Goto(Job(a), "start")
    /\ Clashes({a})
    /\ UNCHANGED <<history, table, files, up, monitors, booted, mirror, attached,
                   opened, sick, schedule, losses>>

Reonboard(a) ==
    /\ Asks /\ up /\ Known(a) /\ at[Job(a)] = "idle"
    /\ Goto(Job(a), "start")
    /\ Clashes({a})
    /\ UNCHANGED <<disk, memory, schedule, losses>>

\* DELETE: the maps first, then the registry, or everything.
Delete(a, purge) ==
    /\ Asks /\ up /\ Known(a) /\ deleting[a] = "no"
    /\ monitors' = monitors \ {a} /\ hollow' = hollow \ {a} /\ booted' = booted \ {a}
    /\ Unlabel(a)
    /\ deleting' = [deleting EXCEPT ![a] = IF purge THEN "row" ELSE "retire"]
    /\ clashed' = IF Working(a) THEN clashed \cup {a} ELSE clashed
    /\ UNCHANGED <<disk, up, mirror, attached, opened, broken, schedule, at, losses>>

Retire(a) ==
    /\ deleting[a] = "retire"
    /\ row' = [row EXCEPT ![a] = IF @ = NoRow THEN @ ELSE [@ EXCEPT !.status = "retired"]]
    /\ deleting' = [deleting EXCEPT ![a] = "no"]
    /\ UNCHANGED <<history, table, files, memory, schedule, at, clashed, losses,
                   counters>>

\* Five DELETE statements, each committed on its own, then the directories.
PurgeStep(a) ==
    /\ \/ /\ deleting[a] = "row"
          /\ row' = [row EXCEPT ![a] = NoRow]
          /\ UNCHANGED <<table, history>>
       \/ /\ deleting[a] = "episodes"
          /\ table' = table \ {a}
          /\ UNCHANGED <<row, history>>
       \/ /\ deleting[a] = "history"
          /\ history' = history \ {a}
          /\ UNCHANGED <<row, table>>
    /\ deleting' = [deleting EXCEPT ![a] =
                      CASE @ = "row"      -> "episodes"
                        [] @ = "episodes" -> "history"
                        [] @ = "history"  -> "no"]
    /\ UNCHANGED <<files, memory, schedule, at, clashed, losses, counters>>

\* Rows come in for the asset, by the API or from a source; a file is dropped.
RowsArrive(a) ==
    /\ Asks /\ up /\ a \notin history
    /\ history' = history \cup {a}
    /\ UNCHANGED <<row, table, files, memory, schedule, at, deletion, losses>>

DropFile(a) ==
    /\ Asks /\ a \in Droppable \ files
    /\ files' = files \cup {a}
    /\ UNCHANGED <<row, history, table, memory, schedule, at, deletion, losses>>

-----------------------------------------------------------------------------
Crash ==
    /\ Fails /\ up /\ up' = FALSE
    /\ monitors' = {} /\ booted' = {} /\ mirror' = {} /\ attached' = {} /\ opened' = {}
    /\ busy' = [a \in Assets |-> "none"] /\ broken' \in SUBSET broken /\ hollow' = {}
    /\ phase' = "setup" /\ todo' = {} /\ pool' = FALSE
    /\ at' = [w \in Workers |-> "idle"] /\ deleting' = [a \in Assets |-> "no"]
    /\ cut' = {} /\ stranded' = {} /\ spoilt' = {} /\ clashed' = {}
    /\ UNCHANGED disk

\* __post_init__: the ledger and the markers come from the database.
Restart ==
    /\ ~up /\ up' = TRUE
    /\ mirror' = table /\ booted' = {a \in Assets : row[a].marked}
    /\ UNCHANGED <<disk, monitors, attached, opened, sick, busy, schedule, at, deletion,
                   losses, counters>>

LoopStep ==
    \/ Discover \/ StartPool \/ SetupEnds
    \/ ListVirgins \/ Sift \/ SiftRaises \/ ContactsEnd
    \/ StartTicks \/ TickLost \/ PassEnds
    \/ \E a \in Assets :
          \/ BringUp(Loop(a)) \/ SetupTakes(a) \/ ContactTakes(a) \/ ContactLost(a)
          \/ TakeFile(a) \/ Tick(a) \/ TickRaisesAgain(a)
          \/ \E b \in BOOLEAN : PoolInstalls(a, b) \/ PoolContacts(a, b)

Failure ==
    \/ PoolBreaks \/ TickRaises
    \/ \E a \in Assets :
          \/ SetupRaises(a) \/ ContactRaises(a) \/ TurnsBroken(a)
          \/ PoolInstallRaises(a) \/ PoolContactRaises(a)
          \/ PoolInstallFails(a) \/ PoolContactFails(a) \/ FileFails(a)
    \/ \E w \in Workers : JobRaises(w)

Request(a) ==
    \/ Reonboard(a) \/ RowsArrive(a) \/ DropFile(a)
    \/ \E kind \in {"manual", "pull"} : Register(a, kind)
    \/ \E purge \in BOOLEAN : Delete(a, purge)

Deletion(a) == Retire(a) \/ PurgeStep(a)

Next ==
    \/ LoopStep \/ Failure \/ Crash \/ Restart
    \/ \E a \in Assets : BringUp(Job(a)) \/ Request(a) \/ Deletion(a)

Spec == Init /\ [][Next]_vars

\* Threads run to their end, and the service is supervised.
FairSpec ==
    /\ Spec /\ WF_vars(LoopStep) /\ WF_vars(Restart)
    /\ \A a \in Assets : WF_vars(BringUp(Job(a))) /\ WF_vars(Deletion(a))

-----------------------------------------------------------------------------
\* Properties.

Kinds  == {"manual", "pull", "folder"}
Steps  == {"idle", "start", "fit", "decide", "contact"}
Labels == {"none", "queued", "onboarding", "bootstrapping"}
Phases == {"setup", "onboard", "virgin", "sift", "contact", "scan", "ticks"}

TypeOK ==
    /\ row \in [Assets -> [status : {"none", "active", "retired"},
                           kind : Kinds, marked : BOOLEAN]]
    /\ \A a \in Assets : row[a].status = "none" => row[a] = NoRow
    /\ \A s \in {history, table, files, monitors, booted, mirror, attached, opened,
                 broken, hollow, todo, cut, stranded, spoilt, clashed} : s \subseteq Assets
    /\ up \in BOOLEAN /\ pool \in BOOLEAN
    /\ hollow \subseteq monitors
    /\ ~up => monitors = {} /\ \A w \in Workers : at[w] = "idle"
    /\ busy \in [Assets -> Labels] /\ at \in [Workers -> Steps]
    /\ phase \in Phases
    /\ LoopAt("idle") # Assets => phase \in {"onboard", "contact", "scan"}
    /\ deleting \in [Assets -> {"no", "retire", "row", "episodes", "history"}]
    /\ requests \in 0..MaxRequests /\ troubles \in 0..MaxTroubles

\* A label on an asset means that somebody is bringing it up, or will: it is the
\* only sign of life an asset has before its first verdict.  Excused are the assets
\* a step of the loop had still before it, or at, when an exception ended it; no
\* exception of a job, or of a file, is excused.
BusyMeansWorking ==
    \A a \in Assets : busy[a] # "none" => Working(a) \/ a \in stranded

\* A monitored asset whose registry row names a pull source is drained, whatever
\* restarts, re-registrations and re-onboardings lie between.  Excused are the asset
\* whose own last onboarding raised and one deleted while it was brought up.
SourceIsAttached ==
    \A a \in monitors : row[a].kind = "pull" /\ ~Working(a) => a \in attached \cup cut \cup clashed

\* What the registry says is to be monitored is monitored in the end.  Excused are
\* also the assets that come after the one whose exception ended the set-up.
NobodyForgotten ==
    \A a \in Assets :
       Active(a) ~> (a \in monitors \/ ~Active(a) \/ a \in cut \cup stranded \cup clashed)

\* Every file in the drop folder is taken in the end, and its asset monitored, unless
\* that file fails: no retired row, no neighbour that raises, no earlier file and no
\* restart keeps the loop from it.
FilesAreTaken ==
    \A a \in Droppable :
       (a \in files \ opened) ~> (a \in opened /\ a \in monitors \cup spoilt)

\* As long as an asset is monitored, pass after pass ticks it: neither a retired
\* neighbour nor an exception stops the loop for good.  Excused are the passes that a
\* monitor ends which raises for ever, its own or a neighbour's.
EveryMonitorIsTicked ==
    \A a \in Assets : \/ []<>(a \notin monitors) \/ []<><<Tick(a)>>_vars
                      \/ []<>(Raising # {})

\* The same of "N independent monitors": only its own exceptions keep an asset from
\* its ticks.
TickedBesideBroken ==
    \A a \in Assets : \/ []<>(a \notin monitors) \/ []<><<Tick(a)>>_vars
                      \/ []<>(a \in Raising)
=============================================================================
