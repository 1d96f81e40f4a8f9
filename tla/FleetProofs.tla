------------------------------ MODULE FleetProofs ------------------------------
(***************************************************************************)
(* Theorems about Fleet, for any set of assets and any number of requests  *)
(* and exceptions.                                                         *)
(***************************************************************************)
EXTENDS Fleet, TLAPS

\* The loop brings up one asset at a time, and none itself while a pool is at work;
\* nothing runs while the process is down.
LoopInv ==
    /\ \A a \in Assets, b \in Assets :
          at[Loop(a)] # "idle" /\ at[Loop(b)] # "idle" => a = b
    /\ pool => phase \in {"onboard", "contact"} /\ \A a \in Assets : at[Loop(a)] = "idle"
    /\ ~up => phase = "setup" /\ ~pool /\ todo = {}

Typed == TypeOK /\ LoopInv

-----------------------------------------------------------------------------
LEMMA WorkersAre ==
    /\ \A a \in Assets : Loop(a) \in Workers /\ Job(a) \in Workers /\ Loop(a) # Job(a)
                         /\ On(Loop(a)) = a /\ On(Job(a)) = a
    /\ \A a \in Assets, b \in Assets : /\ Loop(a) = Loop(b) => a = b
                                       /\ Job(a) = Job(b) => a = b
                                       /\ Loop(a) # Job(b)
    /\ \A w \in Workers : On(w) \in Assets /\ (w = Loop(On(w)) \/ w = Job(On(w)))
BY DEF Workers, Loop, Job, On

LEMMA Bounds ==
    /\ MaxRequests \in Nat /\ MaxTroubles \in Nat /\ Droppable \subseteq Assets
BY FleetAssumption DEF FleetAssumption

\* What a step that fails or asks does to the counters.
LEMMA Counted ==
    ASSUME TypeOK, Fails \/ Asks \/ UNCHANGED counters
    PROVE  requests' \in 0..MaxRequests /\ troubles' \in 0..MaxTroubles
BY Bounds DEF TypeOK, Fails, Asks, counters

Registry == [Assets -> [status : {"none", "active", "retired"}, kind : Kinds, marked : BOOLEAN]]

LEMMA NoRowIs ==
    /\ NoRow \in [status : {"none", "active", "retired"}, kind : Kinds, marked : BOOLEAN]
    /\ NoRow.status = "none" /\ NoRow.kind = "manual" /\ NoRow.marked = FALSE
BY DEF NoRow, Row, Kinds

\* The writes to the registry keep it well formed.
WellFormed(r) == r \in Registry /\ \A a \in Assets : r[a].status = "none" => r[a] = NoRow

LEMMA MarkKeeps ==
    ASSUME WellFormed(row), NEW set \in SUBSET Assets, booted \subseteq Assets, Mark(set)
    PROVE  WellFormed(row') /\ booted' \subseteq Assets
           /\ \A a \in Assets : row'[a].kind = row[a].kind
BY NoRowIs DEF Mark, WellFormed, Registry, Ensured, Kinds

LEMMA InstallKeeps ==
    ASSUME WellFormed(row), NEW a \in Assets, NEW ok, monitors \subseteq Assets,
           hollow \subseteq monitors, Installed(a, ok)
    PROVE  WellFormed(row') /\ monitors' = monitors \cup {a} /\ monitors' \subseteq Assets
           /\ hollow' \subseteq monitors'
           /\ \A b \in Assets : row'[b].kind = row[b].kind
BY NoRowIs DEF Installed, WellFormed, Registry, Ensured, Kinds

-----------------------------------------------------------------------------
\* A type invariant in parts, by who changes them.
MemoryOK ==
    /\ \A s \in {history, table, files, monitors, booted, mirror, attached, opened,
                 broken, hollow, todo, cut, stranded, spoilt, clashed} : s \subseteq Assets
    /\ hollow \subseteq monitors
    /\ up \in BOOLEAN /\ (~up => monitors = {})
    /\ busy \in [Assets -> Labels]
    /\ deleting \in [Assets -> {"no", "retire", "row", "episodes", "history"}]

ControlOK ==
    /\ pool \in BOOLEAN /\ phase \in Phases
    /\ at \in [Workers -> Steps]
    /\ ~up => \A w \in Workers : at[w] = "idle"
    /\ LoopAt("idle") # Assets => phase \in {"onboard", "contact", "scan"}
    /\ LoopInv

CountersOK == requests \in 0..MaxRequests /\ troubles \in 0..MaxTroubles

LEMMA TypeParts == TypeOK /\ LoopInv <=> WellFormed(row) /\ MemoryOK /\ ControlOK /\ CountersOK
BY DEF TypeOK, WellFormed, Registry, MemoryOK, ControlOK, CountersOK

\* Which threads a step may move, and where to.
LEMMA ControlStep == TypeOK /\ LoopInv /\ [Next]_vars => ControlOK'
<1> SUFFICES ASSUME WellFormed(row), MemoryOK, ControlOK, CountersOK, [Next]_vars PROVE ControlOK'
    BY TypeParts
<1> USE DEF Goto
<1>1. ASSUME NEW w \in Workers, NEW step \in Steps,
             at[w] # "idle" \/ step = "idle" \/ w = Job(On(w)),
             Goto(w, step), UNCHANGED <<up, phase, pool, todo>>, up
      PROVE  ControlOK'
    BY <1>1, WorkersAre DEF ControlOK, LoopInv, LoopAt
<1>2. ASSUME UNCHANGED <<up, at, phase, pool>>, todo' \subseteq todo PROVE ControlOK'
    BY <1>2 DEF ControlOK, LoopInv, LoopAt
<1>3. ASSUME NEW w \in Workers, BringUp(w) PROVE ControlOK'
  <2>1. at[w] # "idle" /\ up
      BY <1>3 DEF BringUp, StartJob, BeginContact, ContactMissesMonitor, SkipContact, Install,
         EndContact, ControlOK
  <2>2. \E step \in Steps : Goto(w, step)
      BY <1>3 DEF BringUp, StartJob, BeginContact, ContactMissesMonitor, SkipContact, Install,
         EndContact, Steps
  <2>3. UNCHANGED <<up, phase, pool, todo>>
      BY <1>3 DEF BringUp, StartJob, BeginContact, ContactMissesMonitor, SkipContact, Install,
         EndContact, schedule
  <2> HIDE DEF Goto
  <2> QED
      BY <1>1, <2>1, <2>2, <2>3
<1>4. ASSUME NEW w \in Workers, JobRaises(w) PROVE ControlOK'
  <2>1. up /\ Goto(w, "idle") /\ "idle" \in Steps /\ UNCHANGED <<up, phase, pool, todo>>
      BY <1>4 DEF JobRaises, ControlOK, Steps, schedule
  <2> QED
      BY <1>1, <2>1
<1>5. ASSUME NEW a \in Assets, NEW step \in Steps,
             LoopIdle, phase \in {"onboard", "contact", "scan"}, ~pool,
             Goto(Loop(a), step), UNCHANGED <<up, phase, pool>>
      PROVE  ControlOK'
  <2>1. \A b \in Assets : b # a => at'[Loop(b)] = "idle"
      BY <1>5, WorkersAre DEF LoopIdle, LoopAt, ControlOK
  <2> QED
      BY <1>5, <2>1 DEF ControlOK, LoopInv, LoopIdle
<1>6. ASSUME NEW a \in Assets, SetupTakes(a) \/ ContactTakes(a) \/ TakeFile(a) PROVE ControlOK'
  <2>1. /\ LoopIdle /\ phase \in {"onboard", "contact", "scan"} /\ ~pool
        /\ UNCHANGED <<up, phase, pool>> /\ \E step \in Steps : Goto(Loop(a), step)
      BY <1>6 DEF SetupTakes, ContactTakes, TakeFile, Take, Scanning, schedule, Steps, ControlOK, LoopInv
  <2> QED
      BY <1>5, <2>1
<1>7. ASSUME NEW a \in Assets, Register(a, "manual") \/ Register(a, "pull") \/ Reonboard(a)
      PROVE  ControlOK'
  <2>1. up /\ Goto(Job(a), "start") /\ "start" \in Steps /\ UNCHANGED <<up, phase, pool, todo>>
      BY <1>7 DEF Register, Reonboard, schedule, memory, Steps
  <2> QED
      BY <1>1, <2>1, WorkersAre
<1>8. ASSUME LoopIdle, UNCHANGED <<up, at>>, phase' \in Phases, pool' \in BOOLEAN,
             pool' => phase' \in {"onboard", "contact"}
      PROVE  ControlOK'
    BY <1>8 DEF ControlOK, LoopInv, LoopIdle, LoopAt
<1>9. CASE Discover \/ StartPool \/ SetupEnds \/ ListVirgins \/ ContactsEnd \/ StartTicks
            \/ \E a \in Assets : ContactLost(a)
    BY <1>8, <1>9 DEF Discover, StartPool, SetupEnds, ListVirgins, ContactLost, Stops,
       ContactsEnd, StartTicks, Scanning, memory, Phases, ControlOK, LoopInv
<1>10. ASSUME up, phase \notin {"onboard", "contact", "scan"}, UNCHANGED <<up, at>>,
              phase' \in Phases, pool' = FALSE \/ pool' = pool
       PROVE  ControlOK'
  <2>1. pool = FALSE /\ pool' = FALSE /\ LoopAt("idle") = Assets
      BY <1>10 DEF ControlOK, LoopInv
  <2> QED
      BY <1>10, <2>1 DEF ControlOK, LoopInv, LoopAt
<1>11. CASE Sift \/ SiftRaises \/ TickLost \/ PassEnds \/ TickRaises
            \/ \E a \in Assets : TickRaisesAgain(a)
    BY <1>10, <1>11 DEF Sift, SiftRaises, TickLost, PassEnds, TickRaises, TickRaisesAgain, EndPass,
       AfterAbandoned, memory, Phases, ControlOK, LoopInv
<1>12. ASSUME NEW a \in Assets, SetupRaises(a) PROVE ControlOK'
  <2>1. /\ at[Loop(a)] = "fit" /\ at' = [at EXCEPT ![Loop(a)] = "idle"] /\ up /\ up' = up
        /\ pool' = FALSE /\ phase' = "virgin"
      BY <1>12, WorkersAre DEF SetupRaises, Stops, ControlOK
  <2>2. \A b \in Assets : at'[Loop(b)] = "idle"
      BY <2>1, WorkersAre DEF ControlOK, LoopInv
  <2> QED
      BY <2>1, <2>2 DEF ControlOK, LoopInv, LoopAt, Phases, Steps
<1>13. ASSUME NEW a \in Assets, ContactRaises(a) PROVE ControlOK'
  <2>1. /\ at' = [at EXCEPT ![Loop(a)] = "idle"] /\ up /\ up' = up
        /\ pool' = FALSE /\ phase' = "scan"
      BY <1>13, WorkersAre DEF ContactRaises, Stops, ControlOK
  <2> QED
      BY <2>1, WorkersAre DEF ControlOK, LoopInv, LoopAt, Phases, Steps
<1>14. ASSUME PoolBreaks PROVE ControlOK'
    BY <1>14 DEF PoolBreaks, ControlOK, LoopInv, LoopAt, memory
<1>15. ASSUME NEW a \in Assets, NEW b \in BOOLEAN,
              \/ PoolInstalls(a, b) \/ PoolContacts(a, b) \/ PoolInstallFails(a)
              \/ PoolContactFails(a) \/ FileFails(a) \/ Tick(a) \/ TurnsBroken(a)
       PROVE  ControlOK'
    BY <1>2, <1>15 DEF PoolInstalls, PoolContacts, PoolInstallFails, PoolContactFails, PoolReturns,
       FileFails, Tick, TurnsBroken, schedule, memory
<1>16. ASSUME NEW a \in Assets, NEW purge \in BOOLEAN,
              \/ RowsArrive(a) \/ DropFile(a) \/ Delete(a, purge) \/ Retire(a) \/ PurgeStep(a)
       PROVE  ControlOK'
    BY <1>2, <1>16 DEF RowsArrive, DropFile, Delete, Retire, PurgeStep, schedule, memory
<1>17. CASE Crash
    BY <1>17, WorkersAre DEF Crash, ControlOK, LoopInv, LoopAt, Phases, Steps
<1>18. CASE Restart
    BY <1>18 DEF Restart, ControlOK, LoopInv, LoopAt, schedule
<1>19. CASE UNCHANGED vars
    BY <1>2, <1>19 DEF vars, memory, schedule
<1>20. CASE LoopStep
    BY <1>3, <1>6, <1>9, <1>11, <1>15, <1>20, WorkersAre DEF LoopStep
<1>23. ASSUME NEW a \in Assets, PoolInstallRaises(a) \/ PoolContactRaises(a) PROVE ControlOK'
  <2>1. /\ pool /\ up /\ UNCHANGED <<up, at>> /\ pool' = FALSE /\ phase' \in {"virgin", "scan"}
        /\ \A b \in Assets : at[Loop(b)] = "idle"
      BY <1>23 DEF PoolInstallRaises, PoolContactRaises, Stops, ControlOK, LoopInv
  <2> QED
      BY <2>1 DEF ControlOK, LoopInv, LoopAt, Phases
<1>21. CASE Failure
    BY <1>4, <1>11, <1>12, <1>13, <1>14, <1>15, <1>21, <1>23 DEF Failure
<1>22. ASSUME NEW a \in Assets, BringUp(Job(a)) \/ Request(a) \/ Deletion(a) PROVE ControlOK'
    BY <1>3, <1>7, <1>16, <1>22, WorkersAre DEF Request, Deletion
<1> QED
    BY <1>17, <1>18, <1>19, <1>20, <1>21, <1>22 DEF Next

\* What a thread that brings an asset up, and what the others, write to the rest.
LEMMA MemoryStep == TypeOK /\ LoopInv /\ [Next]_vars => WellFormed(row') /\ MemoryOK' /\ CountersOK'
<1> SUFFICES ASSUME WellFormed(row), MemoryOK, ControlOK, CountersOK, TypeOK, [Next]_vars
             PROVE  WellFormed(row') /\ MemoryOK' /\ CountersOK'
    BY TypeParts
<1>1. \A set \in SUBSET Assets, text \in Labels : Label(set, text) => busy' \in [Assets -> Labels]
    BY DEF Label, MemoryOK
<1>2. \A a \in Assets : Unlabel(a) => busy' \in [Assets -> Labels]
    BY <1>1 DEF Unlabel, Labels
<1>3. \A a \in Assets : Attached(a) \subseteq Assets
    BY DEF Attached, MemoryOK
<1>4. \A set \in SUBSET Assets :
         Clashes(set) => clashed' \subseteq Assets /\ deleting' = deleting
    BY DEF Clashes, MemoryOK
<1>5. {"none", "queued", "onboarding", "bootstrapping"} \subseteq Labels
    BY DEF Labels
<1>6. ASSUME NEW w \in Workers, StartJob(w) \/ BeginContact(w) \/ ContactMissesMonitor(w)
      PROVE  WellFormed(row') /\ MemoryOK' /\ CountersOK'
  <2>1. busy' \in [Assets -> Labels]
      BY <1>1, <1>2, <1>5, <1>6, WorkersAre DEF StartJob, BeginContact, ContactMissesMonitor
  <2>2. /\ UNCHANGED <<disk, up, monitors, booted, mirror, attached, opened, todo>>
        /\ UNCHANGED <<sick, deleting, clashed, cut, spoilt, counters>> /\ stranded' \subseteq stranded
      BY <1>6 DEF StartJob, BeginContact, ContactMissesMonitor, schedule, deletion, losses
  <2> QED
      BY <2>1, <2>2 DEF disk, sick, counters, MemoryOK, CountersOK
<1>7. ASSUME NEW w \in Workers, SkipContact(w)
      PROVE  WellFormed(row') /\ MemoryOK' /\ CountersOK'
    BY <1>2, <1>7, WorkersAre, MarkKeeps DEF SkipContact, sick, schedule, deletion, losses, counters,
       MemoryOK, CountersOK
<1>8. ASSUME NEW w \in Workers, NEW b \in BOOLEAN, Install(w, b)
      PROVE  WellFormed(row') /\ MemoryOK' /\ CountersOK'
  <2>1. busy' \in [Assets -> Labels]
      BY <1>1, <1>5, <1>8, WorkersAre DEF Install, UnlabelAfterInstall
  <2>2. up
      BY <1>8 DEF Install, ControlOK
  <2>3. /\ On(w) \in Assets /\ WellFormed(row') /\ monitors' \subseteq Assets
        /\ hollow' \subseteq monitors'
      BY <1>8, WorkersAre, InstallKeeps DEF Install, MemoryOK
  <2>4. /\ UNCHANGED <<history, table, files, up, booted, mirror, opened, broken, todo>>
        /\ UNCHANGED <<deleting, clashed, stranded, spoilt, counters>>
        /\ attached' = Attached(On(w)) /\ cut' \subseteq cut
      BY <1>8 DEF Install, Completed, schedule, deletion
  <2> QED
      BY <1>3, <2>1, <2>2, <2>3, <2>4 DEF counters, MemoryOK, CountersOK
<1>9. ASSUME NEW a \in Assets, NEW b \in BOOLEAN, Contacted(a, b)
      PROVE  WellFormed(row') /\ busy' \in [Assets -> Labels]
             /\ mirror' \subseteq Assets /\ table' \subseteq Assets /\ booted' \subseteq Assets
    BY <1>2, <1>9, MarkKeeps DEF Contacted, MemoryOK
<1>10. ASSUME NEW w \in Workers, NEW b \in BOOLEAN, EndContact(w, b)
       PROVE  WellFormed(row') /\ MemoryOK' /\ CountersOK'
    BY <1>9, <1>10, WorkersAre DEF EndContact, sick, schedule, deletion, losses, counters, MemoryOK,
       CountersOK
\* What an exception may leave of an onboarding, and of a contact.
<1>37. ASSUME NEW a \in Assets, BrokenOff(a)
       PROVE  /\ WellFormed(row') /\ monitors' \subseteq Assets /\ hollow' \subseteq monitors'
              /\ attached' \subseteq Assets /\ cut' \subseteq Assets /\ (monitors' = {} => monitors = {})
    BY <1>3, <1>37, InstallKeeps DEF BrokenOff, MemoryOK
<1>38. ASSUME NEW a \in Assets, ContactBrokenOff(a)
       PROVE  /\ WellFormed(row') /\ mirror' \subseteq Assets /\ table' \subseteq Assets
              /\ booted' \subseteq Assets /\ UNCHANGED <<monitors, hollow, attached, cut>>
  <2>1. PICK marked \in SUBSET {a} : Mark(marked)
      BY <1>38 DEF ContactBrokenOff
  <2> QED
      BY <1>38, <2>1, MarkKeeps DEF ContactBrokenOff, MemoryOK
<1>11. ASSUME NEW w \in Workers, JobRaises(w)
       PROVE  WellFormed(row') /\ MemoryOK' /\ CountersOK'
  <2>1. On(w) \in Assets /\ up /\ up' = up /\ busy' \in [Assets -> Labels]
      BY <1>2, <1>11, WorkersAre DEF JobRaises, UnlabelFinally, ControlOK
  <2>2. /\ UNCHANGED <<history, files, opened, broken, todo, deleting, clashed, stranded>>
        /\ spoilt' \subseteq spoilt \cup {On(w)} /\ CountersOK'
      BY <1>11, Counted DEF JobRaises, schedule, deletion, CountersOK
  <2>3. CASE BrokenOff(On(w)) /\ UNCHANGED <<table, booted, mirror>>
      BY <1>37, <2>1, <2>2, <2>3 DEF MemoryOK
  <2>4. CASE ContactBrokenOff(On(w))
      BY <1>38, <2>1, <2>2, <2>4 DEF MemoryOK
  <2> QED
      BY <1>11, <2>3, <2>4 DEF JobRaises
<1>12. CASE Discover
  <2>1. /\ Discovered \in SUBSET Assets
        /\ {a \in Discovered \ monitors : busy[a] = "none"} \in SUBSET Assets
      BY DEF Discovered
  <2>2. busy' \in [Assets -> Labels] /\ clashed' \subseteq Assets /\ deleting' = deleting
      BY <1>1, <1>4, <1>5, <1>12, <2>1 DEF Discover
  <2> QED
      BY <1>12, <2>1, <2>2 DEF Discover, disk, sick, losses, counters, MemoryOK, CountersOK
<1>13. ASSUME NEW a \in Assets, SetupTakes(a) \/ ContactTakes(a)
       PROVE  WellFormed(row') /\ MemoryOK' /\ CountersOK'
    BY <1>1, <1>5, <1>13 DEF SetupTakes, ContactTakes, Take, disk, sick, deletion, losses, counters,
       MemoryOK, CountersOK
<1>14. ASSUME NEW a \in Assets, SetupRaises(a)
       PROVE  WellFormed(row') /\ MemoryOK' /\ CountersOK'
  <2>1. up
      BY <1>14, WorkersAre DEF SetupRaises, ControlOK
  <2>2. /\ UNCHANGED <<history, table, files, up, booted, mirror, opened, busy, broken, spoilt>>
        /\ UNCHANGED <<deleting, clashed>> /\ todo' = {} /\ stranded' \subseteq Assets /\ CountersOK'
      BY <1>14, Counted DEF SetupRaises, Stops, deletion, MemoryOK, CountersOK
  <2> QED
      BY <1>14, <1>37, <2>1, <2>2 DEF SetupRaises, MemoryOK
<1>15. CASE StartPool
  <2>1. todo \in SUBSET Assets
      BY DEF MemoryOK
  <2> QED
      BY <1>1, <1>5, <1>15, <2>1 DEF StartPool, disk, sick, deletion, losses, counters, MemoryOK,
         CountersOK
<1>16. ASSUME NEW a \in Assets, NEW b \in BOOLEAN, PoolInstalls(a, b) \/ PoolInstallFails(a)
       PROVE  WellFormed(row') /\ MemoryOK' /\ CountersOK'
  <2>1. up
      BY <1>16 DEF PoolInstalls, PoolInstallFails, ControlOK, LoopInv, PoolReturns
  <2>2. WellFormed(row') /\ monitors' \subseteq Assets /\ hollow' \subseteq monitors'
      BY <1>16, InstallKeeps DEF PoolInstalls, PoolInstallFails, MemoryOK
  <2> QED
      BY <1>2, <1>3, <1>16, <2>1, <2>2, Counted DEF PoolInstalls, PoolInstallFails, Completed,
         PoolReturns, deletion, counters, MemoryOK, CountersOK
<1>39. ASSUME NEW a \in Assets, PoolInstallRaises(a)
       PROVE  WellFormed(row') /\ MemoryOK' /\ CountersOK'
  <2>1. up
      BY <1>39 DEF PoolInstallRaises, ControlOK, LoopInv
  <2>2. /\ WellFormed(row') /\ monitors' \subseteq Assets /\ hollow' \subseteq monitors'
        /\ attached' \subseteq Assets
    <3>1. CASE Installed(a, FALSE) /\ UNCHANGED attached
        BY <3>1, InstallKeeps DEF MemoryOK
    <3>2. CASE /\ monitors' = monitors \cup {a} /\ hollow' = hollow \cup {a}
               /\ row' = [row EXCEPT ![a] = Ensured(@)] /\ attached' = Attached(a)
        BY <1>3, <3>2, NoRowIs DEF Ensured, WellFormed, Registry, MemoryOK
    <3> QED
        BY <1>39, <3>1, <3>2 DEF PoolInstallRaises
  <2>3. /\ UNCHANGED <<history, table, files, up, booted, mirror, opened, busy, broken, spoilt>>
        /\ UNCHANGED <<deleting, clashed>> /\ todo' = {} /\ stranded' \subseteq Assets
        /\ cut' \subseteq Assets /\ CountersOK'
      BY <1>39, Counted DEF PoolInstallRaises, Stops, deletion, MemoryOK, CountersOK
  <2> QED
      BY <2>1, <2>2, <2>3 DEF MemoryOK
<1>40. ASSUME NEW a \in Assets, ContactRaises(a) \/ PoolContactRaises(a)
       PROVE  WellFormed(row') /\ MemoryOK' /\ CountersOK'
  <2>1. busy' \in [Assets -> Labels]
      BY <1>2, <1>40 DEF ContactRaises, PoolContactRaises, MemoryOK
  <2>2. /\ UNCHANGED <<history, files, up, opened, broken, spoilt, deleting, clashed>>
        /\ todo' = {} /\ stranded' \subseteq Assets /\ CountersOK'
      BY <1>40, Counted DEF ContactRaises, PoolContactRaises, Stops, deletion, MemoryOK, CountersOK
  <2> QED
      BY <1>38, <1>40, <2>1, <2>2 DEF ContactRaises, PoolContactRaises, MemoryOK
<1>17. CASE PoolBreaks \/ SetupEnds \/ ListVirgins \/ ContactsEnd \/ StartTicks
    BY <1>17, Counted DEF PoolBreaks, SetupEnds, ListVirgins, ContactsEnd, StartTicks,
       disk, memory, sick, deletion, losses, counters, MemoryOK, CountersOK
<1>18. CASE Sift \/ SiftRaises
  <2>1. PICK marked \in SUBSET Assets : Mark(marked)
      BY <1>18 DEF Sift, SiftRaises, Contacts, MemoryOK
  <2>2. WellFormed(row') /\ booted' \subseteq Assets
      BY <2>1, MarkKeeps DEF MemoryOK
  <2> QED
      BY <1>18, <2>2 DEF Sift, SiftRaises, sick, deletion, losses, counters, MemoryOK, CountersOK
<1>19. ASSUME NEW a \in Assets, ContactLost(a) PROVE WellFormed(row') /\ MemoryOK' /\ CountersOK'
    BY <1>2, <1>19 DEF ContactLost, Stops, disk, sick, deletion, counters, MemoryOK, CountersOK
<1>21. ASSUME NEW a \in Assets, NEW b \in BOOLEAN, PoolContacts(a, b)
       PROVE  WellFormed(row') /\ MemoryOK' /\ CountersOK'
  <2>1. up
      BY <1>21 DEF PoolContacts, ControlOK, LoopInv, PoolReturns
  <2> QED
      BY <1>9, <1>21, <2>1 DEF PoolContacts, PoolReturns, deletion, losses, counters, MemoryOK,
         CountersOK
<1>22. ASSUME NEW a \in Assets, PoolContactFails(a)
       PROVE  WellFormed(row') /\ MemoryOK' /\ CountersOK'
    BY <1>2, <1>22, MarkKeeps, Counted DEF PoolContactFails, PoolReturns, sick, deletion, losses,
       MemoryOK, CountersOK
<1>23. ASSUME NEW a \in Assets, TakeFile(a)
       PROVE  WellFormed(row') /\ MemoryOK' /\ CountersOK'
  <2>1. WellFormed(row')
      BY <1>23 DEF TakeFile, WellFormed, Registry, Kinds
  <2> QED
      BY <1>4, <1>23, <2>1 DEF TakeFile, sick, schedule, losses, counters, MemoryOK, CountersOK
<1>24. ASSUME NEW a \in Assets, FileFails(a) \/ Tick(a) \/ DropFile(a) \/ RowsArrive(a)
       PROVE  WellFormed(row') /\ MemoryOK' /\ CountersOK'
    BY <1>24, Counted, Bounds DEF FileFails, Tick, DropFile, RowsArrive, disk, memory, sick, schedule,
       deletion, losses, counters, MemoryOK, CountersOK
<1>41. ASSUME NEW a \in Assets, TurnsBroken(a) PROVE WellFormed(row') /\ MemoryOK' /\ CountersOK'
    BY <1>41, Counted DEF TurnsBroken, disk, schedule, deletion, losses, MemoryOK, CountersOK
<1>25. CASE TickLost \/ TickRaises \/ PassEnds \/ \E a \in Assets : TickRaisesAgain(a)
    BY <1>25, Counted DEF TickLost, TickRaises, TickRaisesAgain, PassEnds, EndPass, disk, memory, sick,
       deletion, losses, counters, MemoryOK, CountersOK
<1>26. ASSUME NEW a \in Assets, NEW kind \in {"manual", "pull"}, Register(a, kind)
       PROVE  WellFormed(row') /\ MemoryOK' /\ CountersOK'
  <2>1. WellFormed(row')
      BY <1>26 DEF Register, WellFormed, Registry, Kinds
  <2>2. /\ busy' \in [Assets -> Labels] /\ clashed' \subseteq Assets /\ deleting' = deleting
      BY <1>1, <1>4, <1>5, <1>26 DEF Register
  <2>3. CountersOK'
      BY <1>26, Counted DEF Register, CountersOK
  <2> QED
      BY <1>26, <2>1, <2>2, <2>3 DEF Register, sick, schedule, losses, MemoryOK
<1>27. ASSUME NEW a \in Assets, Reonboard(a)
       PROVE  WellFormed(row') /\ MemoryOK' /\ CountersOK'
    BY <1>4, <1>27, Counted DEF Reonboard, disk, memory, sick, schedule, losses, MemoryOK, CountersOK
<1>28. ASSUME NEW a \in Assets, NEW purge \in BOOLEAN, Delete(a, purge)
       PROVE  WellFormed(row') /\ MemoryOK' /\ CountersOK'
    BY <1>2, <1>28, Counted DEF Delete, disk, schedule, losses, MemoryOK, CountersOK
<1>29. ASSUME NEW a \in Assets, Retire(a) \/ PurgeStep(a)
       PROVE  WellFormed(row') /\ MemoryOK' /\ CountersOK'
  <2>1. WellFormed(row')
      BY <1>29, NoRowIs DEF Retire, PurgeStep, WellFormed, Registry, Kinds
  <2>2. deleting' \in [Assets -> {"no", "retire", "row", "episodes", "history"}]
      BY <1>29 DEF Retire, PurgeStep, MemoryOK
  <2>3. table' \subseteq Assets /\ history' \subseteq Assets
      BY <1>29 DEF Retire, PurgeStep, MemoryOK
  <2>4. UNCHANGED <<files, memory, todo, losses, clashed, counters>>
      BY <1>29 DEF Retire, PurgeStep, schedule
  <2> QED
      BY <2>1, <2>2, <2>3, <2>4 DEF memory, sick, losses, counters, MemoryOK, CountersOK
<1>30. CASE Crash
  <2>1. CountersOK' /\ WellFormed(row')
      BY <1>30, Counted DEF Crash, disk, CountersOK, WellFormed
  <2>2. busy' \in [Assets -> Labels] /\ broken' \subseteq Assets
      BY <1>30 DEF Crash, Labels, MemoryOK
  <2>3. /\ history' = history /\ table' = table /\ files' = files /\ up' = FALSE
        /\ monitors' = {} /\ booted' = {} /\ mirror' = {} /\ attached' = {} /\ opened' = {}
        /\ hollow' = {} /\ todo' = {} /\ cut' = {} /\ stranded' = {} /\ spoilt' = {} /\ clashed' = {}
        /\ deleting' = [a \in Assets |-> "no"]
      BY <1>30 DEF Crash, disk
  <2>4. \A s \in {history', table', files', monitors', booted', mirror', attached', opened', broken',
                 hollow', todo', cut', stranded', spoilt', clashed'} : s \subseteq Assets
      BY <2>2, <2>3 DEF MemoryOK
  <2>5. deleting' \in [Assets -> {"no", "retire", "row", "episodes", "history"}]
      BY <2>3
  <2> QED
      BY <2>1, <2>2, <2>3, <2>4, <2>5 DEF MemoryOK
<1>31. CASE Restart
    BY <1>31 DEF Restart, disk, sick, schedule, deletion, losses, counters, MemoryOK, CountersOK,
       ControlOK
<1>32. CASE UNCHANGED vars
    BY <1>32 DEF vars, disk, memory, sick, schedule, deletion, losses, counters, MemoryOK, CountersOK
<1>33. ASSUME NEW w \in Workers, BringUp(w)
       PROVE  WellFormed(row') /\ MemoryOK' /\ CountersOK'
    BY <1>6, <1>7, <1>8, <1>10, <1>33 DEF BringUp
<1>34. CASE LoopStep
    BY <1>12, <1>13, <1>15, <1>16, <1>17, <1>18, <1>19, <1>21, <1>23, <1>24, <1>25, <1>33, <1>34,
       WorkersAre DEF LoopStep
<1>35. CASE Failure
    BY <1>11, <1>14, <1>16, <1>17, <1>22, <1>24, <1>25, <1>35, <1>39, <1>40, <1>41 DEF Failure
<1>36. ASSUME NEW a \in Assets, BringUp(Job(a)) \/ Request(a) \/ Deletion(a)
       PROVE  WellFormed(row') /\ MemoryOK' /\ CountersOK'
    BY <1>24, <1>26, <1>27, <1>28, <1>29, <1>33, <1>36, WorkersAre DEF Request, Deletion
<1> QED
    BY <1>30, <1>31, <1>32, <1>34, <1>35, <1>36 DEF Next

\* Every variable keeps its type, and the loop brings up one asset at a time.
LEMMA FleetTyped == Spec => [](TypeOK /\ LoopInv)
<1>1. Init => TypeOK /\ LoopInv
  <2>1. ASSUME Init PROVE WellFormed(row)
    <3> DEFINE R == [status : {"none", "active", "retired"}, kind : Kinds, marked : BOOLEAN]
    <3>1. Row("active", "pull") \in R /\ Row("active", "pull").status # "none"
        BY DEF Row, Kinds
    <3>2. Row("retired", "manual") \in R /\ Row("retired", "manual").status # "none"
        BY DEF Row, Kinds
    <3>3. NoRow \in R
        BY NoRowIs
    <3>4. row \in [Assets -> {NoRow, Row("active", "pull"), Row("retired", "manual")}]
        BY <2>1 DEF Init
    <3> HIDE DEF R
    <3>5. row \in [Assets -> R] /\ \A a \in Assets : row[a].status = "none" => row[a] = NoRow
        BY <3>1, <3>2, <3>3, <3>4
    <3> QED
        BY <3>5 DEF WellFormed, Registry, R
  <2>2. Init => MemoryOK /\ CountersOK
      BY Bounds DEF Init, MemoryOK, CountersOK, Labels
  <2>3. Init => ControlOK
      BY WorkersAre DEF Init, ControlOK, LoopInv, LoopAt, Phases, Steps
  <2> QED
      BY <2>1, <2>2, <2>3, TypeParts
<1>2. TypeOK /\ LoopInv /\ [Next]_vars => (TypeOK /\ LoopInv)'
  <2>1. WellFormed(row') /\ MemoryOK' /\ ControlOK' /\ CountersOK' => (TypeOK /\ LoopInv)'
      BY DEF TypeOK, WellFormed, Registry, MemoryOK, ControlOK, CountersOK, LoopInv, LoopAt
  <2> QED
      BY <2>1, ControlStep, MemoryStep
<1> QED
    BY <1>1, <1>2, PTL DEF Spec

THEOREM FleetTypeCorrect == Spec => []TypeOK
BY FleetTyped, PTL

-----------------------------------------------------------------------------
\* An asset keeps its worker until that worker is idle, and its place in the queue
\* until it is taken.
LEMMA LabelIs ==
    ASSUME TypeOK
    PROVE  /\ \A set, text : Label(set, text) =>
                 \A a \in Assets : busy'[a] = IF a \in set THEN text ELSE busy[a]
           /\ \A b \in Assets : Unlabel(b) =>
                 \A a \in Assets : busy'[a] = IF a = b THEN "none" ELSE busy[a]
BY DEF Label, Unlabel, TypeOK

LEMMA BusyStep == TypeOK /\ BusyMeansWorking /\ [Next]_vars => BusyMeansWorking'
<1> SUFFICES ASSUME TypeOK, BusyMeansWorking, [Next]_vars PROVE BusyMeansWorking'
    OBVIOUS
<1>0. at \in [Workers -> Steps] /\ busy \in [Assets -> Labels] /\ todo \subseteq Assets
    BY DEF TypeOK
\* No label is new, and who works goes on.
<1>1. ASSUME \A a \in Assets : busy'[a] = busy[a] \/ busy'[a] = "none",
             stranded \subseteq stranded',
             \A a \in Assets : busy'[a] # "none" /\ Working(a) => Working(a)' \/ a \in stranded'
      PROVE  BusyMeansWorking'
    BY <1>1 DEF BusyMeansWorking
\* A thread goes one step on with its asset.
<1>2. ASSUME NEW w \in Workers, NEW step \in Steps, Goto(w, step),
             phase' = phase /\ todo' = todo, stranded \ {On(w)} \subseteq stranded',
             \A a \in Assets \ {On(w)} : busy'[a] = busy[a],
             step # "idle" \/ busy'[On(w)] = "none"
      PROVE  BusyMeansWorking'
  <2>1. at' = [at EXCEPT ![w] = step]
      BY <1>2 DEF Goto
  <2>2. ASSUME NEW a \in Assets \ {On(w)}, Working(a) PROVE Working(a)'
      BY <1>0, <1>2, <2>1, <2>2 DEF Working, InTheQueue
  <2>3. step # "idle" => Working(On(w))'
      BY <1>0, <2>1, WorkersAre DEF Working
  <2> QED
      BY <1>2, <2>2, <2>3 DEF BusyMeansWorking
<1>3. ASSUME NEW w \in Workers, BringUp(w) PROVE BusyMeansWorking'
  <2>1. \E step \in Steps : Goto(w, step) /\ (step # "idle" \/ busy'[On(w)] = "none")
      BY <1>3, WorkersAre, LabelIs DEF BringUp, StartJob, BeginContact, ContactMissesMonitor,
         SkipContact, Install, UnlabelAfterInstall, EndContact, Contacted, Steps
  <2>2. /\ phase' = phase /\ todo' = todo /\ stranded \ {On(w)} \subseteq stranded'
        /\ \A a \in Assets \ {On(w)} : busy'[a] = busy[a]
      BY <1>3, WorkersAre, LabelIs DEF BringUp, StartJob, BeginContact, ContactMissesMonitor,
         SkipContact, Install, Completed, UnlabelAfterInstall, EndContact, Contacted, schedule, losses
  <2> QED
      BY <1>2, <2>1, <2>2
<1>4. ASSUME NEW w \in Workers, JobRaises(w) PROVE BusyMeansWorking'
  <2>1. "idle" \in Steps
      BY DEF Steps
  <2> QED
      BY <1>2, <1>4, <2>1, WorkersAre, LabelIs DEF JobRaises, UnlabelFinally, schedule
<1>5. CASE Discover
  <2>1. /\ todo' = Discovered /\ phase' = "onboard" /\ phase = "setup" /\ at' = at
        /\ stranded' = stranded /\ \A a \in Assets : busy'[a] = busy[a] \/ a \in todo'
      BY <1>5, LabelIs DEF Discover, losses
  <2> QED
      BY <2>1 DEF BusyMeansWorking, Working, InTheQueue
<1>6. ASSUME NEW a \in Assets, NEW step \in Steps \ {"idle"}, Goto(Loop(a), step),
             phase' = phase, todo \ {a} \subseteq todo', stranded' = stranded,
             \A b \in Assets \ {a} : busy'[b] = busy[b]
      PROVE  BusyMeansWorking'
  <2>1. Working(a)'
      BY <1>0, <1>6, WorkersAre DEF Working, Goto
  <2>2. ASSUME NEW b \in Assets \ {a}, Working(b) PROVE Working(b)'
      BY <1>0, <1>6, <2>2, WorkersAre DEF Working, InTheQueue, Goto
  <2> QED
      BY <1>6, <2>1, <2>2 DEF BusyMeansWorking
<1>7. ASSUME NEW a \in Assets, SetupTakes(a) \/ ContactTakes(a) \/ TakeFile(a)
      PROVE  BusyMeansWorking'
    BY <1>6, <1>7, LabelIs DEF SetupTakes, ContactTakes, TakeFile, Take, Steps, schedule, losses
\* A step of the loop that an exception ends strands all that was left of it.
<1>8. ASSUME NEW a \in Assets, SetupRaises(a) PROVE BusyMeansWorking'
  <2>1. \A b \in Assets \ stranded' : Working(b) => Working(b)'
      BY <1>0, <1>8, WorkersAre DEF SetupRaises, Working, InTheQueue, Goto
  <2> QED
      BY <1>1, <1>8, <2>1 DEF SetupRaises
<1>24. ASSUME NEW a \in Assets, PoolInstallRaises(a) \/ PoolContactRaises(a) PROVE BusyMeansWorking'
  <2>1. \A b \in Assets \ stranded' : Working(b) => Working(b)'
      BY <1>24 DEF PoolInstallRaises, PoolContactRaises, Working, InTheQueue
  <2> QED
      BY <1>1, <1>24, <2>1 DEF PoolInstallRaises, PoolContactRaises
<1>9. ASSUME NEW a \in Assets, ContactRaises(a) PROVE BusyMeansWorking'
  <2>1. \A b \in Assets \ stranded' : b # a /\ Working(b) => Working(b)'
      BY <1>0, <1>9, WorkersAre DEF ContactRaises, Working, InTheQueue, Goto
  <2> QED
      BY <1>1, <1>9, <2>1, LabelIs DEF ContactRaises
<1>10. ASSUME NEW a \in Assets, ContactLost(a) PROVE BusyMeansWorking'
  <2>1. \A b \in Assets \ stranded' : b # a /\ Working(b) => Working(b)'
      BY <1>10 DEF ContactLost, Working, InTheQueue
  <2> QED
      BY <1>1, <1>10, <2>1, LabelIs DEF ContactLost
<1>11. CASE StartPool
  <2>1. \A a \in Assets : (a \in todo => Working(a)') /\ (Working(a) => Working(a)')
      BY <1>11 DEF StartPool, Working, InTheQueue
  <2> QED
      BY <1>11, <2>1, LabelIs DEF StartPool, BusyMeansWorking, losses
<1>12. ASSUME NEW a \in Assets, PoolReturns(a), at' = at, Unlabel(a), stranded' = stranded
       PROVE  BusyMeansWorking'
  <2>1. \A b \in Assets : b # a /\ Working(b) => Working(b)'
      BY <1>12 DEF PoolReturns, Working, InTheQueue
  <2> QED
      BY <1>1, <1>12, <2>1, LabelIs
<1>13. ASSUME NEW a \in Assets, NEW b \in BOOLEAN,
              \/ PoolInstalls(a, b) \/ PoolInstallFails(a)
              \/ PoolContacts(a, b) \/ PoolContactFails(a)
       PROVE  BusyMeansWorking'
    BY <1>12, <1>13 DEF PoolInstalls, PoolInstallFails, PoolContacts, PoolContactFails, Contacted,
       Completed, losses
<1>14. ASSUME at' = at, stranded' = stranded, busy' = busy, ~(phase \in {"onboard", "contact"} /\ todo # {})
       PROVE  BusyMeansWorking'
  <2>1. \A a \in Assets : Working(a) => Working(a)'
      BY <1>14 DEF Working, InTheQueue
  <2> QED
      BY <1>1, <1>14, <2>1
<1>15. CASE \/ SetupEnds \/ ListVirgins \/ Sift \/ SiftRaises \/ ContactsEnd \/ StartTicks
            \/ TickLost \/ TickRaises \/ PassEnds
            \/ \E a \in Assets : Tick(a) \/ TickRaisesAgain(a)
    BY <1>14, <1>15 DEF SetupEnds, ListVirgins, Sift, SiftRaises, ContactsEnd, StartTicks, Scanning,
       TickLost, TickRaises, TickRaisesAgain, PassEnds, EndPass, Tick, memory, losses
<1>16. ASSUME UNCHANGED <<at, stranded, phase, todo>>,
              \A a \in Assets : busy'[a] = busy[a] \/ busy'[a] = "none"
       PROVE  BusyMeansWorking'
  <2>1. \A a \in Assets : Working(a) => Working(a)'
      BY <1>16 DEF Working, InTheQueue
  <2> QED
      BY <1>1, <1>16, <2>1
<1>17. ASSUME NEW a \in Assets, NEW purge \in BOOLEAN,
              \/ Delete(a, purge) \/ Retire(a) \/ PurgeStep(a) \/ RowsArrive(a) \/ DropFile(a)
              \/ FileFails(a) \/ TurnsBroken(a)
       PROVE  BusyMeansWorking'
    BY <1>16, <1>17, LabelIs DEF Delete, Retire, PurgeStep, RowsArrive, DropFile, FileFails,
       TurnsBroken, memory, schedule, losses
<1>18. ASSUME NEW a \in Assets, NEW kind, Register(a, kind) \/ Reonboard(a) PROVE BusyMeansWorking'
  <2>1. "start" \in Steps
      BY DEF Steps
  <2> QED
      BY <1>2, <1>18, <2>1, WorkersAre, LabelIs DEF Register, Reonboard, schedule, memory, losses
<1>19. CASE Crash
    BY <1>19 DEF Crash, BusyMeansWorking
<1>20. CASE PoolBreaks \/ Restart \/ UNCHANGED vars
    BY <1>16, <1>20 DEF PoolBreaks, Restart, vars, memory, schedule, losses
<1>21. CASE LoopStep
    BY <1>3, <1>5, <1>7, <1>10, <1>11, <1>13, <1>15, <1>21, WorkersAre DEF LoopStep
<1>22. CASE Failure
    BY <1>4, <1>8, <1>9, <1>13, <1>15, <1>17, <1>20, <1>22, <1>24 DEF Failure
<1>23. ASSUME NEW a \in Assets, BringUp(Job(a)) \/ Request(a) \/ Deletion(a)
       PROVE  BusyMeansWorking'
    BY <1>3, <1>17, <1>18, <1>23, WorkersAre DEF Request, Deletion
<1> QED
    BY <1>19, <1>20, <1>21, <1>22, <1>23 DEF Next

\* No label stays on an asset that nobody brings up or will.  An exception in a job, in
\* the taking of a file or in a worker is no excuse; the one excuse is a step of the loop
\* itself, set-up or first contacts, that an exception ended with that asset still to do,
\* and it lasts until the asset is brought up again.
THEOREM LabelsAreTrue == Spec => []BusyMeansWorking
<1>1. Init => BusyMeansWorking
    BY DEF Init, BusyMeansWorking
<1> QED
    BY <1>1, BusyStep, FleetTypeCorrect, PTL DEF Spec

-----------------------------------------------------------------------------
\* An asset that is monitored, or about to be after its first contact, has its
\* source, or somebody will attach it.
Due(a) == a \in monitors \/ (phase = "contact" /\ a \in todo)

Excused(a) == a \in attached \cup cut \cup clashed

WillAttach(a) == \E w \in Workers : On(w) = a /\ at[w] \in {"start", "fit"}

SourceInv ==
    \A a \in Assets : row[a].kind = "pull" /\ Due(a) => Excused(a) \/ WillAttach(a)

LEMMA SourceStep == TypeOK /\ LoopInv /\ SourceInv /\ [Next]_vars => SourceInv'
<1> SUFFICES ASSUME TypeOK, LoopInv, SourceInv, [Next]_vars PROVE SourceInv'
    OBVIOUS
<1>0. /\ at \in [Workers -> Steps] /\ todo \subseteq Assets /\ monitors \subseteq Assets
      /\ booted \subseteq Assets /\ WellFormed(row)
    BY TypeParts DEF TypeOK, MemoryOK
\* What a step must not do to one asset: make it due, or a pull source of it, or
\* take its prospects away.
<1>1. ASSUME NEW a \in Assets,
             row'[a].kind = "pull" => row[a].kind = "pull",
             Due(a)' => Due(a),
             Excused(a) => Excused(a)',
             WillAttach(a) => WillAttach(a)' \/ Excused(a)' \/ row'[a].kind # "pull"
      PROVE  row'[a].kind = "pull" /\ Due(a)' => Excused(a)' \/ WillAttach(a)'
    BY <1>1 DEF SourceInv
<1>2. ASSUME \A a \in Assets : row'[a].kind = "pull" => row[a].kind = "pull",
             UNCHANGED <<phase, todo>>, monitors' \subseteq monitors,
             \A a \in Assets : Excused(a) => Excused(a)',
             \A w \in Workers : at[w] \in {"start", "fit"}
                => at'[w] \in {"start", "fit"} \/ Excused(On(w))' \/ row'[On(w)].kind # "pull"
      PROVE  SourceInv'
  <2>1. \A a \in Assets : Due(a)' => Due(a)
      BY <1>2 DEF Due
  <2>2. \A a \in Assets : WillAttach(a) => WillAttach(a)' \/ Excused(a)' \/ row'[a].kind # "pull"
      BY <1>2 DEF WillAttach
  <2> QED
      BY <1>1, <1>2, <2>1, <2>2 DEF SourceInv
<1>3. ASSUME NEW w \in Workers, StartJob(w) \/ BeginContact(w) \/ ContactMissesMonitor(w)
      PROVE  SourceInv'
  <2>1. \A v \in Workers : at[v] \in {"start", "fit"} => at'[v] \in {"start", "fit"}
      BY <1>0, <1>3 DEF StartJob, BeginContact, ContactMissesMonitor, Goto
  <2> QED
      BY <1>2, <1>3, <2>1 DEF StartJob, BeginContact, ContactMissesMonitor, disk, schedule,
         deletion, losses, Excused
<1>4. ASSUME NEW w \in Workers, NEW b \in BOOLEAN, SkipContact(w) \/ EndContact(w, b)
      PROVE  SourceInv'
  <2>1. \A v \in Workers : at[v] \in {"start", "fit"} => at'[v] \in {"start", "fit"}
      BY <1>0, <1>4 DEF SkipContact, EndContact, Goto
  <2>2. \A a \in Assets : row'[a].kind = row[a].kind
    <3>1. On(w) \in Assets /\ Mark({On(w)})
        BY <1>4, WorkersAre DEF SkipContact, EndContact, Contacted
    <3> QED
        BY <1>0, <3>1, MarkKeeps
  <2> QED
      BY <1>2, <1>4, <2>1, <2>2 DEF SkipContact, EndContact, schedule, deletion, losses, Excused
<1>5. ASSUME NEW a \in Assets, monitors' = monitors \cup {a},
             \A b \in Assets : row'[b].kind = row[b].kind, attached' = Attached(a) \/ a \in cut',
             attached \subseteq attached', cut \ {a} \subseteq cut', clashed' = clashed,
             phase' = phase,
             \A b \in Assets \ {a} : WillAttach(b) => WillAttach(b)',
             todo' \subseteq todo
      PROVE  SourceInv'
  <2>2. row[a].kind = "pull" => Excused(a)'
      BY <1>5 DEF Attached, Excused
  <2>3. \A b \in Assets \ {a} : (Due(b)' => Due(b)) /\ (Excused(b) => Excused(b)')
      BY <1>5 DEF Due, Excused
  <2> QED
      BY <1>5, <2>2, <2>3 DEF SourceInv
<1>6. /\ \A a \in Assets : attached \subseteq Attached(a)
      /\ \A a \in Assets : \A ok : Installed(a, ok) =>
            monitors' = monitors \cup {a} /\ \A b \in Assets : row'[b].kind = row[b].kind
    BY <1>0, InstallKeeps DEF Attached, TypeOK
<1>7. ASSUME NEW w \in Workers, NEW b \in BOOLEAN, Install(w, b) PROVE SourceInv'
  <2>1. \A a \in Assets \ {On(w)} : WillAttach(a) => WillAttach(a)'
      BY <1>0, <1>7 DEF Install, Goto, WillAttach, schedule
  <2> QED
      BY <1>5, <1>6, <1>7, <2>1, WorkersAre DEF Install, Completed, schedule, deletion
<1>8. ASSUME NEW a \in Assets, NEW b \in BOOLEAN, PoolInstalls(a, b) \/ PoolInstallFails(a)
      PROVE  SourceInv'
  <2>1. \A c \in Assets \ {a} : WillAttach(c) => WillAttach(c)'
      BY <1>8 DEF PoolInstalls, PoolInstallFails, PoolReturns, WillAttach
  <2> QED
      BY <1>5, <1>6, <1>8, <2>1 DEF PoolInstalls, PoolInstallFails, Completed, PoolReturns, deletion
\* An onboarding broken off excuses its asset, whatever it left behind.
<1>29. ASSUME NEW a \in Assets, BrokenOff(a)
       PROVE  /\ monitors' \subseteq monitors \cup {a} /\ \A b \in Assets : row'[b].kind = row[b].kind
              /\ attached \subseteq attached' /\ cut' = cut \cup {a}
    BY <1>6, <1>29 DEF BrokenOff
<1>30. ASSUME NEW a \in Assets, ContactBrokenOff(a)
       PROVE  UNCHANGED <<monitors, attached, cut>> /\ \A b \in Assets : row'[b].kind = row[b].kind
  <2>1. PICK marked \in SUBSET {a} : Mark(marked)
      BY <1>30 DEF ContactBrokenOff
  <2> QED
      BY <1>0, <1>30, <2>1, MarkKeeps DEF ContactBrokenOff
<1>9. ASSUME NEW w \in Workers, JobRaises(w) PROVE SourceInv'
  <2>1. \A v \in Workers : at[v] \in {"start", "fit"} => v = w \/ at'[v] \in {"start", "fit"}
      BY <1>0, <1>9 DEF JobRaises, Goto
  <2>2. /\ UNCHANGED <<phase, todo, clashed>> /\ On(w) \in Assets
      BY <1>9, WorkersAre DEF JobRaises, schedule, deletion
  <2>3. CASE at[w] = "fit" /\ BrokenOff(On(w))
    <3>1. \A b \in Assets \ {On(w)} : /\ (Due(b)' => Due(b)) /\ (Excused(b) => Excused(b)')
                                      /\ (WillAttach(b) => WillAttach(b)')
        BY <1>29, <2>1, <2>2, <2>3 DEF Due, Excused, WillAttach
    <3>2. Excused(On(w))'
        BY <1>29, <2>2, <2>3 DEF Excused
    <3> QED
        BY <1>29, <2>2, <2>3, <3>1, <3>2 DEF SourceInv
  <2>4. CASE at[w] = "contact" /\ ContactBrokenOff(On(w))
    <3>1. \A v \in Workers : at[v] \in {"start", "fit"} => at'[v] \in {"start", "fit"}
        BY <2>1, <2>4
    <3>2. /\ UNCHANGED <<monitors, attached, cut>>
          /\ \A b \in Assets : row'[b].kind = row[b].kind
        BY <1>30, <2>2, <2>4
    <3> QED
        BY <1>2, <2>2, <3>1, <3>2 DEF Excused
  <2> QED
      BY <1>9, <2>3, <2>4 DEF JobRaises
<1>10. CASE Discover
  <2>1. \A a \in Assets : /\ (Due(a)' => Due(a)) /\ (Excused(a) => Excused(a)')
                          /\ (WillAttach(a) => WillAttach(a)')
      BY <1>10 DEF Discover, Due, Excused, WillAttach, Clashes, losses
  <2> QED
      BY <1>1, <1>10, <2>1 DEF Discover, disk, SourceInv
<1>11. ASSUME NEW a \in Assets, SetupTakes(a) \/ ContactTakes(a) PROVE SourceInv'
  <2>1. \A v \in Workers : at[v] \in {"start", "fit"} => at'[v] \in {"start", "fit"}
      BY <1>0, <1>11, WorkersAre DEF SetupTakes, ContactTakes, Take, LoopIdle, LoopAt, Goto
  <2>2. SetupTakes(a) => at'[Loop(a)] = "fit"
      BY <1>0, WorkersAre DEF SetupTakes, Goto
  <2>3. \A b \in Assets : WillAttach(b) => WillAttach(b)'
      BY <1>11, <2>1, <2>2, WorkersAre DEF SetupTakes, ContactTakes, Take, WillAttach
  <2>4. \A b \in Assets : (Due(b)' => Due(b)) /\ (Excused(b) => Excused(b)')
      BY <1>11 DEF SetupTakes, ContactTakes, Take, Due, Excused, deletion, losses
  <2> QED
      BY <1>1, <1>11, <2>3, <2>4 DEF SetupTakes, ContactTakes, disk, SourceInv
<1>12. ASSUME NEW a \in Assets, SetupRaises(a) PROVE SourceInv'
  <2>1. \A v \in Workers : at[v] \in {"start", "fit"} => v = Loop(a) \/ at'[v] \in {"start", "fit"}
      BY <1>0, <1>12 DEF SetupRaises, Goto
  <2>2. /\ BrokenOff(a) /\ phase' = "virgin" /\ clashed' = clashed /\ phase = "onboard"
      BY <1>12 DEF SetupRaises, Stops, deletion
  <2>3. \A b \in monitors' : b = a \/ b \in monitors
      BY <1>29, <2>2
  <2>4. \A b \in Assets : Excused(b) \/ b = a => Excused(b)'
      BY <1>29, <2>2 DEF Excused
  <2>5. \A b \in Assets \ {a} : /\ (Due(b)' => Due(b)) /\ (Excused(b) => Excused(b)')
                                /\ (WillAttach(b) => WillAttach(b)')
      BY <2>1, <2>2, <2>3, <2>4, WorkersAre DEF Due, WillAttach
  <2> QED
      BY <1>29, <2>2, <2>4, <2>5 DEF SourceInv
<1>13. ASSUME NEW a \in Assets, ContactRaises(a) \/ PoolContactRaises(a) PROVE SourceInv'
  <2>1. \A v \in Workers : at[v] \in {"start", "fit"} => at'[v] \in {"start", "fit"}
      BY <1>0, <1>13 DEF ContactRaises, PoolContactRaises, Goto
  <2>2. /\ ContactBrokenOff(a) /\ phase' = "scan" /\ clashed' = clashed
      BY <1>13 DEF ContactRaises, PoolContactRaises, Stops, deletion
  <2>3. /\ UNCHANGED <<monitors, attached, cut>> /\ \A b \in Assets : row'[b].kind = row[b].kind
      BY <1>30, <2>2
  <2>4. \A b \in Assets : /\ (Due(b)' => Due(b)) /\ (Excused(b) => Excused(b)')
                          /\ (WillAttach(b) => WillAttach(b)')
      BY <2>1, <2>2, <2>3 DEF Due, Excused, WillAttach
  <2> QED
      BY <1>1, <2>3, <2>4 DEF SourceInv
\* The parent that raises excuses its asset, and nobody was to attach to the others.
<1>31. ASSUME NEW a \in Assets, PoolInstallRaises(a) PROVE SourceInv'
  <2>1. /\ phase' = "virgin" /\ UNCHANGED <<at, clashed>> /\ cut' = cut \cup {a}
      BY <1>31 DEF PoolInstallRaises, Stops, deletion
  <2>2. /\ monitors' = monitors \cup {a} /\ \A b \in Assets : row'[b].kind = row[b].kind
        /\ attached \subseteq attached'
    <3>1. CASE Installed(a, FALSE) /\ UNCHANGED attached
        BY <1>6, <3>1
    <3>2. CASE /\ monitors' = monitors \cup {a} /\ row' = [row EXCEPT ![a] = Ensured(@)]
               /\ attached' = Attached(a)
        BY <1>0, <1>6, <3>2, NoRowIs DEF Ensured, WellFormed, Registry
    <3> QED
        BY <1>31, <3>1, <3>2 DEF PoolInstallRaises
  <2>3. \A b \in Assets \ {a} : /\ (Due(b)' => Due(b)) /\ (Excused(b) => Excused(b)')
                                /\ (WillAttach(b) => WillAttach(b)')
      BY <2>1, <2>2 DEF Due, Excused, WillAttach
  <2>4. Excused(a)'
      BY <2>1 DEF Excused
  <2> QED
      BY <2>2, <2>3, <2>4 DEF SourceInv
<1>14. CASE SetupEnds \/ ListVirgins \/ ContactsEnd \/ StartTicks \/ TickLost \/ TickRaises \/ PassEnds
            \/ \E a \in Assets : ContactLost(a) \/ TickRaisesAgain(a)
  <2>1. UNCHANGED <<row, monitors, attached, clashed, at, cut>> /\ phase' # "contact"
      BY <1>14 DEF SetupEnds, ListVirgins, ContactLost, Stops, ContactsEnd, StartTicks, Scanning,
         TickLost, TickRaises, TickRaisesAgain, PassEnds, EndPass, AfterAbandoned, disk, memory, deletion,
         losses
  <2>2. \A b \in Assets : /\ (Due(b)' => Due(b)) /\ (Excused(b) => Excused(b)')
                          /\ (WillAttach(b) => WillAttach(b)')
      BY <2>1 DEF Due, Excused, WillAttach
  <2> QED
      BY <1>1, <2>1, <2>2 DEF SourceInv
<1>15. CASE Sift \/ SiftRaises
  <2>1. PICK marked \in SUBSET Assets : Mark(marked)
      BY <1>0, <1>15 DEF Sift, SiftRaises, Contacts
  <2>2. \A a \in Assets : row'[a].kind = row[a].kind
      BY <1>0, <2>1, MarkKeeps
  <2>3. \A b \in Assets : /\ (Due(b)' => Due(b)) /\ (Excused(b) => Excused(b)')
                          /\ (WillAttach(b) => WillAttach(b)')
      BY <1>15 DEF Sift, SiftRaises, Due, Excused, WillAttach, deletion, losses
  <2> QED
      BY <1>1, <2>2, <2>3 DEF SourceInv
<1>16. ASSUME NEW a \in Assets, NEW b \in BOOLEAN, PoolContacts(a, b) \/ PoolContactFails(a)
       PROVE  SourceInv'
  <2>1. \A c \in Assets : row'[c].kind = row[c].kind
    <3>1. Mark({a}) /\ {a} \in SUBSET Assets
        BY <1>16 DEF PoolContacts, PoolContactFails, Contacted
    <3> QED
        BY <1>0, <3>1, MarkKeeps
  <2>2. \A c \in Assets : /\ (Due(c)' => Due(c)) /\ (Excused(c) => Excused(c)')
                          /\ (WillAttach(c) => WillAttach(c)')
      BY <1>16 DEF PoolContacts, PoolContactFails, PoolReturns, Due, Excused, WillAttach, deletion,
         losses
  <2> QED
      BY <1>1, <2>1, <2>2 DEF SourceInv
<1>17. ASSUME NEW a \in Assets, TakeFile(a) PROVE SourceInv'
  <2>1. \A w \in Workers : at[w] \in {"start", "fit"} => at'[w] \in {"start", "fit"}
      BY <1>0, <1>17 DEF TakeFile, Goto
  <2>2. \A b \in Assets : row'[b].kind = "pull" => row[b].kind = "pull"
      BY <1>0, <1>17 DEF TakeFile, WellFormed, Registry
  <2> QED
      BY <1>2, <1>17, <2>1, <2>2 DEF TakeFile, Excused, Clashes, schedule, losses
<1>18. ASSUME NEW a \in Assets, NEW kind, Register(a, kind) \/ Reonboard(a) PROVE SourceInv'
  <2>1. /\ \A w \in Workers : at[w] \in {"start", "fit"} => at'[w] \in {"start", "fit"}
        /\ at'[Job(a)] = "start"
      BY <1>0, <1>18, WorkersAre DEF Register, Reonboard, Goto
  <2>2. \A b \in Assets \ {a} : row'[b] = row[b]
      BY <1>0, <1>18 DEF Register, Reonboard, disk, WellFormed, Registry
  <2>3. /\ WillAttach(a)'
        /\ \A b \in Assets : /\ (Due(b)' => Due(b)) /\ (Excused(b) => Excused(b)')
                             /\ (WillAttach(b) => WillAttach(b)')
      BY <1>18, <2>1, WorkersAre DEF Register, Reonboard, Due, Excused, WillAttach, Clashes,
         schedule, memory, losses
  <2> QED
      BY <1>1, <2>2, <2>3 DEF SourceInv
<1>19. ASSUME NEW a \in Assets, NEW purge \in BOOLEAN,
              Delete(a, purge) \/ Retire(a) \/ PurgeStep(a)
       PROVE  SourceInv'
  <2>1. \A b \in Assets : row'[b].kind = "pull" => row[b].kind = "pull"
      BY <1>0, <1>19, NoRowIs DEF Delete, Retire, PurgeStep, disk, WellFormed, Registry
  <2> QED
      BY <1>2, <1>19, <2>1 DEF Delete, Retire, PurgeStep, memory, schedule, losses, Excused
<1>20. ASSUME NEW a \in Assets, RowsArrive(a) \/ DropFile(a) \/ FileFails(a) \/ TurnsBroken(a)
       PROVE  SourceInv'
    BY <1>2, <1>20 DEF RowsArrive, DropFile, FileFails, TurnsBroken, disk, memory, schedule, deletion,
       losses, Excused
<1>21. CASE Restart \/ UNCHANGED vars
    BY <1>2, <1>21 DEF Restart, vars, disk, memory, schedule, deletion, losses, Excused
<1>22. CASE StartPool \/ PoolBreaks
    BY <1>2, <1>22 DEF StartPool, PoolBreaks, disk, memory, deletion, losses, Excused
<1>23. ASSUME NEW a \in Assets, Tick(a) PROVE SourceInv'
  <2>1. \A b \in Assets : /\ (Due(b)' => Due(b)) /\ (Excused(b) => Excused(b)')
                          /\ (WillAttach(b) => WillAttach(b)')
      BY <1>23 DEF Tick, Due, Excused, WillAttach, memory, deletion, losses
  <2> QED
      BY <1>1, <1>23, <2>1 DEF Tick, disk, SourceInv
<1>24. CASE Crash
    BY <1>24 DEF Crash, SourceInv, Due
<1>25. ASSUME NEW w \in Workers, BringUp(w) PROVE SourceInv'
    BY <1>3, <1>4, <1>7, <1>25 DEF BringUp
<1>26. CASE LoopStep
    BY <1>8, <1>10, <1>11, <1>14, <1>15, <1>16, <1>17, <1>22, <1>23, <1>25, <1>26, WorkersAre
    DEF LoopStep
<1>27. CASE Failure
    BY <1>8, <1>9, <1>12, <1>13, <1>14, <1>16, <1>20, <1>22, <1>27, <1>31 DEF Failure
<1>28. ASSUME NEW a \in Assets, BringUp(Job(a)) \/ Request(a) \/ Deletion(a) PROVE SourceInv'
    BY <1>18, <1>19, <1>20, <1>25, <1>28, WorkersAre DEF Request, Deletion
<1> QED
    BY <1>21, <1>24, <1>26, <1>27, <1>28 DEF Next

\* A pull source is attached to every monitored asset that has one.
THEOREM SourcesAreAttached == Spec => []SourceIsAttached
<1>1. Init => SourceInv
    BY DEF Init, SourceInv, Due
<1>2. ASSUME SourceInv, TypeOK PROVE SourceIsAttached
  <2>1. ASSUME NEW a \in Assets, WillAttach(a) PROVE Working(a)
      BY <2>1 DEF WillAttach, Working
  <2> QED
      BY <1>2, <2>1 DEF SourceInv, SourceIsAttached, Due, Excused, TypeOK
<1>3. SourceInv /\ TypeOK => SourceIsAttached
    BY <1>2
<1> QED
    BY <1>1, <1>3, SourceStep, FleetTyped, PTL DEF Spec
=============================================================================
