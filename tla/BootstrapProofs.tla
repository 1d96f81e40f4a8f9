---------------------------- MODULE BootstrapProofs ----------------------------
(***************************************************************************)
(* Theorems about Bootstrap, for every history, audit and bound.           *)
(***************************************************************************)
EXTENDS Bootstrap, InductionTheorems, SequenceTheorems

Transferring == {"mark", "journal", "reload"}

\* The ledger is untouched while a worker runs, then holds episodes of the
\* worker only, then all of them.
TransferInv ==
    mode = "parallel" =>
        /\ pc \in WorkerSteps => ledger = <<>>
        /\ pc \in {"apply"} \cup Transferring => ledger \in Seq(ToSet(draft))
        /\ pc \in Transferring => ToSet(draft) \subseteq ToSet(ledger)

-----------------------------------------------------------------------------
\* An episode added to the ledger is on it, and those on it stay.
LEMMA AppendKeeps ==
    ASSUME NEW S, NEW s \in Seq(S), NEW e \in S
    PROVE  /\ Append(s, e) \in Seq(S)
           /\ ToSet(s) \subseteq ToSet(Append(s, e))
BY DEF ToSet

\* The elements of a sequence over S are in S.
LEMMA ElementsOf ==
    ASSUME NEW S, NEW s \in Seq(S)
    PROVE  ToSet(s) \subseteq S
BY DEF ToSet

\* In parallel mode a step that only works on the draft leaves the ledger.
LEMMA WorkLeavesLedger ==
    ASSUME NEW d, NEW s, Work(d, s)
    PROVE  mode' = mode /\ (mode = "parallel" => ledger' = ledger)
BY DEF Work

LEMMA TransferInit == Init => TransferInv
BY DEF Init, TransferInv

LEMMA TransferStep == TransferInv /\ [Next]_vars => TransferInv'
<1> SUFFICES ASSUME TransferInv, [Next]_vars PROVE TransferInv'
    OBVIOUS
<1> USE DEF TransferInv, Transferring, WorkerSteps
<1>1. ASSUME NEW m \in Modes, Virgin(m) PROVE TransferInv'
    BY <1>1 DEF Virgin, Begin, Goto, service
<1>2. CASE AcceptLedger
    BY <1>2 DEF AcceptLedger, run
<1>3. CASE RequestBootstrap
    BY <1>3 DEF RequestBootstrap, Begin, Goto
<1>4. CASE RunBootstrap
  <2>1. CASE StartPass
    BY <2>1, WorkLeavesLedger DEF StartPass, Goto
  <2>2. CASE Mask
    BY <2>2, WorkLeavesLedger DEF Mask
  <2>3. CASE Replay
    BY <2>3, WorkLeavesLedger DEF Replay, Close
  <2>4. CASE EndReplay
    BY <2>4, WorkLeavesLedger DEF EndReplay, Close, Goto
  <2>5. CASE Final
    BY <2>5, WorkLeavesLedger DEF Final, FinalCalibration, Calibrate, Goto
  <2>6. CASE Refute
    BY <2>6, WorkLeavesLedger DEF Refute, Calibrate, Goto
  <2>7. CASE PassesExhausted \/ Scan \/ Masked \/ Tally
    BY <2>7 DEF PassesExhausted, Scan, Masked, Tally, Goto, service, memory
  <2>8. CASE Insufficient \/ Save
    <3>1. ASSUME mode' = "parallel"
          PROVE  pc' = "apply" /\ ledger' = <<>>
        BY <2>8, <3>1 DEF Insufficient, Save, Returned, Goto, service, memory
    <3> QED BY <3>1
  <2> QED BY <1>4, <2>1, <2>2, <2>3, <2>4, <2>5, <2>6, <2>7, <2>8 DEF RunBootstrap
<1>5. CASE Caller
  <2>1. CASE Apply
    <3>1. ASSUME mode = "parallel" PROVE ledger' \in Seq(ToSet(draft))
      <4>1. PICK e \in Added : ledger' = Append(ledger, e)
          BY <2>1 DEF Apply
      <4>2. e \in ToSet(draft)
          BY <4>1 DEF Added, Missing
      <4> QED BY <2>1, <3>1, <4>1, <4>2, AppendKeeps DEF Apply
    <3> QED BY <2>1, <3>1 DEF Apply, run
  <2>2. CASE Applied
    BY <2>2 DEF Applied, Added, Missing, Goto, service, memory
  <2>3. CASE Mark
    BY <2>3 DEF Mark, Goto
  <2>4. CASE Journal
    BY <2>4 DEF Journal, Finished, Goto
  <2>5. CASE Reload
    BY <2>5 DEF Reload, Goto
  <2> QED BY <1>5, <2>1, <2>2, <2>3, <2>4, <2>5 DEF Caller
<1>6. CASE WorkerFails \/ ContactRaises
    BY <1>6 DEF WorkerFails, ContactRaises, Finished, Goto
<1>7. CASE PoolBreaks
    BY <1>7 DEF PoolBreaks, Begin
<1>8. CASE Crash
    BY <1>8 DEF Crash
<1>9. CASE Restart
    BY <1>9 DEF Restart, run
<1>10. CASE UNCHANGED vars
    BY <1>10 DEF vars, service, memory, run
<1> QED BY <1>1, <1>2, <1>3, <1>4, <1>5, <1>6, <1>7, <1>8, <1>9, <1>10 DEF Next

LEMMA TransferImplies == TransferInv => NoLostFindings
BY ElementsOf DEF TransferInv, Transferring, NoLostFindings

\* After a parallel first contact the parent's ledger holds exactly the
\* episodes the worker's ledger held, in whatever order it applied them
\* (runtime.py, _bootstrap_parallel; fleet_workers.py, bootstrap_worker).
THEOREM FindingsTransferred == Spec => []NoLostFindings
<1>1. Init => TransferInv
    BY TransferInit
<1>2. TransferInv /\ [Next]_vars => TransferInv'
    BY TransferStep
<1>3. TransferInv => NoLostFindings
    BY TransferImplies
<1> QED BY <1>1, <1>2, <1>3, PTL DEF Spec

-----------------------------------------------------------------------------
\* Contamination: what a start may trust, and what the service runs on.

Covered(fp) == UNION {{r \in Row : w[2] <= r /\ r <= w[3]} : w \in fp}

Busy == WorkerSteps \cup {"mark", "journal"}

\* The file holds a reference that its own fingerprint does not cover; a run
\* about to save holds such a reference; a sequential run works on the shared
\* ledger and the live monitor, and ends with a clean one unless it raises.
\* Nothing runs in a process that is down.
CleanInv ==
    /\ cache.ref # {} =>
           cache.ref \cap Covered(cache.fp) = {} /\ cache.ref \notin refused
    /\ pc = "save" => trial \cap FaultRows(draft) = {} /\ trial \notin refused
    /\ pc = "refute" => trial = {}
    /\ pc \in Busy => mode \in {"sequential", "parallel"}
    /\ pc \in Busy /\ mode = "sequential" => ledger = draft /\ live = trial
    /\ pc \in {"mark", "journal"} /\ mode = "sequential" =>
           live \cap FaultRows(ledger) = {}
    /\ pc = "idle" /\ up /\ mode # "parallel" /\ ~raised =>
           live \cap FaultRows(ledger) = {}
    /\ pc \in {"apply", "reload"} => mode = "parallel"
    /\ ~up => pc = "idle"

\* A fingerprint determines the rows under the ledger's fault windows.
LEMMA FingerprintCovers ==
    ASSUME NEW d PROVE Covered(Fingerprint(d)) = FaultRows(d)
<1>1. {f \in ToSet(d) : f.state \in FaultStates} = {d[i] : i \in Faults(d)}
    BY DEF ToSet, Faults
<1>2. \A r \in Row : r \in Covered(Fingerprint(d)) <=>
          \E i \in Faults(d) : d[i].start <= r /\ r <= d[i].end
  <2> DEFINE key(i) == <<Cardinality({j \in Faults(d) : j <= i}), d[i].start, d[i].end>>
  <2>1. \A i \in Faults(d) : key(i)[2] = d[i].start /\ key(i)[3] = d[i].end
      OBVIOUS
  <2>2. Fingerprint(d) = {key(i) : i \in Faults(d)}
      BY DEF Fingerprint
  <2> HIDE DEF key
  <2>3. \A r : r \in Covered(Fingerprint(d)) <=>
            \E w \in Fingerprint(d) : r \in Row /\ w[2] <= r /\ r <= w[3]
      BY DEF Covered
  <2> QED BY <2>1, <2>2, <2>3
<1>3. \A r \in Row : r \in FaultRows(d) <=>
          \E i \in Faults(d) : d[i].start <= r /\ r <= d[i].end
    BY <1>1 DEF FaultRows, Window
<1>4. Covered(Fingerprint(d)) \subseteq Row /\ FaultRows(d) \subseteq Row
    BY DEF Covered, FaultRows, Window
<1> QED BY <1>2, <1>3, <1>4

\* An audited calibration avoids the fault windows and what the audit refuses.
LEMMA CalibrationIsClean ==
    ASSUME NEW d, NEW recent,
           Calibrated(Sample(d, recent), TRUE) # {}
    PROVE  /\ Calibrated(Sample(d, recent), TRUE) \cap FaultRows(d) = {}
           /\ Calibrated(Sample(d, recent), TRUE) \notin refused
BY DEF Calibrated, Sample

LEMMA HitIsClean ==
    ASSUME CleanInv, CacheHit
    PROVE  cache.ref \cap FaultRows(ledger) = {} /\ cache.ref \notin refused
BY FingerprintCovers DEF CleanInv, CacheHit

LEMMA CleanInit == Init => CleanInv
<1> SUFFICES ASSUME Init PROVE CleanInv
    OBVIOUS
<1>1. live = Calibrated(Sample(ledger, FALSE), TRUE) /\ cache.ref = live
      /\ cache.fp = Fingerprint(ledger) /\ pc = "idle"
    BY DEF Init
<1>2. live # {} => live \cap FaultRows(ledger) = {} /\ live \notin refused
    BY <1>1, CalibrationIsClean
<1> QED BY <1>1, <1>2, FingerprintCovers DEF CleanInv, Busy, WorkerSteps

\* A run step that goes from a working state to a working state.
LEMMA WorkKeepsClean ==
    ASSUME CleanInv, pc \in Busy, NEW d, NEW s, Work(d, s),
           pc' \in WorkerSteps \ {"save", "refute"}
    PROVE  CleanInv'
BY DEF CleanInv, Work, Busy, WorkerSteps

\* The audited calibration, before a save or before the guard.
LEMMA CalibrateKeepsClean ==
    ASSUME CleanInv, pc \in Busy, NEW d, Calibrate(d)
    PROVE  CleanInv'
<1> DEFINE ref == Calibrated(Sample(d, FALSE), TRUE)
<1>1. Work(d, ref) /\ pc' = (IF ref = {} THEN "refute" ELSE "save")
    BY DEF Calibrate, Goto
<1>2. ref # {} => ref \cap FaultRows(d) = {} /\ ref \notin refused
    BY CalibrationIsClean
<1>3. draft' = d /\ trial' = ref /\ refused' = refused
    BY <1>1 DEF Work
<1>4. FaultRows(draft') = FaultRows(draft)'
    BY DEF FaultRows, Window, Row
<1>5. FaultRows(draft') = FaultRows(d)
    BY <1>3
<1>6. pc' = "save" => (trial \cap FaultRows(draft) = {} /\ trial \notin refused)'
    BY <1>1, <1>2, <1>3, <1>4, <1>5
<1>7. pc' = "refute" => trial' = {}
    BY <1>1, <1>3
<1> HIDE DEF ref
<1> QED BY <1>1, <1>6, <1>7 DEF CleanInv, Work, Busy, WorkerSteps

\* A run begins on the shared ledger and the live monitor, or apart from them.
LEMMA BeginKeepsClean ==
    ASSUME CleanInv, NEW m \in {"sequential", "parallel"}, Begin(m), up,
           UNCHANGED <<refused, ledger, cache, up, live>>
    PROVE  CleanInv'
BY DEF CleanInv, Begin, Goto, Busy, WorkerSteps

LEMMA CleanStep == CleanInv /\ [Next]_vars => CleanInv'
<1> SUFFICES ASSUME CleanInv, [Next]_vars PROVE CleanInv'
    OBVIOUS
<1>1. ASSUME NEW m \in Modes, Virgin(m) PROVE CleanInv'
    BY <1>1, BeginKeepsClean, BootstrapAssumption DEF Virgin, service, memory
<1>2. CASE AcceptLedger
    BY <1>2 DEF AcceptLedger, run, ghosts, CleanInv, Busy, WorkerSteps
<1>3. CASE RequestBootstrap
    BY <1>3, BeginKeepsClean DEF RequestBootstrap, service, memory
<1>4. CASE RunBootstrap
  <2>1. CASE StartPass
    BY <2>1, WorkKeepsClean DEF StartPass, Goto, Busy, WorkerSteps
  <2>2. CASE Mask
    BY <2>2, WorkKeepsClean DEF Mask, Busy, WorkerSteps
  <2>3. CASE Replay
    BY <2>3, WorkKeepsClean DEF Replay, Close, Busy, WorkerSteps
  <2>4. CASE EndReplay
    BY <2>4, WorkKeepsClean DEF EndReplay, Close, Goto, Busy, WorkerSteps
  <2>5. CASE Final
    BY <2>5, CalibrateKeepsClean DEF Final, FinalCalibration, Busy, WorkerSteps
  <2>6. CASE Refute
    BY <2>6, CalibrateKeepsClean DEF Refute, Busy, WorkerSteps
  <2>7. CASE PassesExhausted \/ Scan \/ Masked \/ Tally
    BY <2>7 DEF PassesExhausted, Scan, Masked, Tally, Goto, service, memory, CleanInv,
                Busy, WorkerSteps
  <2>8. CASE Insufficient
    BY <2>8 DEF Insufficient, Returned, Goto, service, memory, CleanInv, Busy, WorkerSteps
  <2>9. CASE Save
    <3>1. Covered(cache.fp)' = FaultRows(draft)
      <4>1. cache'.fp = Fingerprint(draft)
          BY <2>9 DEF Save
      <4> QED BY <4>1, FingerprintCovers DEF Covered, Row
    <3> QED BY <2>9, <3>1 DEF Save, Returned, Goto, memory, CleanInv, Busy, WorkerSteps
  <2> QED BY <1>4, <2>1, <2>2, <2>3, <2>4, <2>5, <2>6, <2>7, <2>8, <2>9 DEF RunBootstrap
<1>5. CASE Caller
  <2>1. CASE Apply
    BY <2>1 DEF Apply, run, memory, CleanInv, Busy, WorkerSteps
  <2>2. CASE Applied
    BY <2>2 DEF Applied, Goto, service, memory, CleanInv, Busy, WorkerSteps
  <2>3. CASE Mark
    BY <2>3 DEF Mark, Goto, memory, CleanInv, Busy, WorkerSteps
  <2>4. CASE Journal
    BY <2>4 DEF Journal, Finished, Goto, memory, CleanInv, Busy, WorkerSteps
  <2>5. CASE Reload
    BY <2>5 DEF Reload, Finished, Goto, service, memory, CleanInv, Busy, WorkerSteps
  <2> QED BY <1>5, <2>1, <2>2, <2>3, <2>4, <2>5 DEF Caller
<1>6. CASE WorkerFails \/ ContactRaises
    BY <1>6 DEF WorkerFails, ContactRaises, Finished, Goto, service, memory, CleanInv,
                Busy, WorkerSteps
<1>7. CASE PoolBreaks
    BY <1>7, BeginKeepsClean DEF PoolBreaks, service, memory, CleanInv, WorkerSteps
<1>8. CASE Crash
    BY <1>8 DEF Crash, service, memory, CleanInv, Busy, WorkerSteps
<1>9. CASE Restart
  <2>1. live' # {} => live' \cap FaultRows(ledger) = {} /\ live' \notin refused
      BY <1>9, HitIsClean, CalibrationIsClean DEF Restart, Onboarded
  <2>2. cache' # cache => /\ cache'.ref = live'
                         /\ cache'.fp = Fingerprint(ledger)
      BY <1>9 DEF Restart
  <2>3. cache' # cache => Covered(cache.fp)' = FaultRows(ledger)
      BY <2>2, FingerprintCovers DEF Covered, Row
  <2>4. FaultRows(ledger)' = FaultRows(ledger) /\ UNCHANGED <<refused, ledger, pc, mode, draft, trial>>
      BY <1>9 DEF Restart, run, FaultRows, Window, Row
  <2>5. cache' = cache => Covered(cache.fp)' = Covered(cache.fp)
      BY DEF Covered, Row
  <2>6. pc = "idle" /\ pc' = "idle"
      BY <1>9, <2>4 DEF Restart, CleanInv
  <2>7. (cache.ref # {} =>
            cache.ref \cap Covered(cache.fp) = {} /\ cache.ref \notin refused)'
      BY <2>1, <2>2, <2>3, <2>4, <2>5 DEF CleanInv
  <2> QED BY <2>1, <2>4, <2>6, <2>7 DEF CleanInv, Busy, WorkerSteps
<1>10. CASE UNCHANGED vars
    BY <1>10 DEF vars, service, memory, run, ghosts, CleanInv, Busy,
                 WorkerSteps
<1> QED BY <1>1, <1>2, <1>3, <1>4, <1>5, <1>6, <1>7, <1>8, <1>9, <1>10 DEF Next

\* Whatever a first contact, a worker, or a crash left in the cache, the
\* monitor the next onboarding takes from it was calibrated outside the
\* ledger's fault windows and passed the audit (fleet_workers.py,
\* monitor_fingerprint, save_monitor_cache, load_monitor_cache).
THEOREM CacheIsClean == Spec => []RestorableIsClean
<1>1. Init => CleanInv
    BY CleanInit
<1>2. CleanInv /\ [Next]_vars => CleanInv'
    BY CleanStep
<1>3. CleanInv => RestorableIsClean
    BY HitIsClean DEF RestorableIsClean
<1> QED BY <1>1, <1>2, <1>3, PTL DEF Spec

\* Between contacts that run sequentially the live monitor is calibrated on
\* none of the ledger's faulty rows, unless the last contact of this process
\* raised: a restart, or the next contact that comes to its end, repairs what a
\* contact that raised left live (fleet_workers.py, run_bootstrap; runtime.py,
\* bootstrap, onboard).
THEOREM LiveIsClean == Spec => []LiveMatchesLedger
<1>1. Init => CleanInv
    BY CleanInit
<1>2. CleanInv /\ [Next]_vars => CleanInv'
    BY CleanStep
<1>3. CleanInv => LiveMatchesLedger
    BY DEF CleanInv, LiveMatchesLedger
<1> QED BY <1>1, <1>2, <1>3, PTL DEF Spec

-----------------------------------------------------------------------------
\* Least, greatest and finitely many rows.

LEMMA SomeRows == Rows \in Nat \ {0} /\ Row \subseteq Nat \ {0} /\ \A x \in Row : x <= Rows
BY BootstrapAssumption DEF Row

LEMMA RowsFinite ==
    ASSUME NEW S \in SUBSET Row
    PROVE  IsFiniteSet(S) /\ Cardinality(S) \in Nat
<1>1. S \in SUBSET Nat /\ Rows \in Nat /\ \A x \in S : x <= Rows
    BY SomeRows
<1>2. IsFiniteSet(S)
    BY <1>1, FS_BoundedSetOfNaturals
<1> QED BY <1>2, FS_CardinalityType

LEMMA LeastRow ==
    ASSUME NEW S \in SUBSET Row, S # {}
    PROVE  Min(S) \in S /\ \A x \in S : Min(S) <= x
<1>1. S \subseteq Nat
    BY SomeRows
<1>2. \E x \in S : \A y \in S : x <= y
    BY <1>1, LeastNumber
<1> QED BY <1>2 DEF Min

LEMMA GreatestRow ==
    ASSUME NEW S \in SUBSET Row, S # {}
    PROVE  Max(S) \in S /\ \A x \in S : x <= Max(S)
<1> DEFINE T == {Rows - x : x \in S}
<1>1. T \subseteq Nat /\ T # {}
  <2>1. ASSUME NEW x \in S PROVE Rows - x \in Nat
    <3>1. x \in Nat /\ x <= Rows /\ Rows \in Nat
        BY SomeRows
    <3> QED BY <3>1
  <2> QED BY <2>1
<1>2. PICK y \in T : \A z \in T : y <= z
    BY <1>1, LeastNumber
<1>3. PICK x \in S : y = Rows - x
    BY <1>2
<1>4. ASSUME NEW z \in S PROVE x >= z
  <2>1. Rows - x <= Rows - z
      BY <1>2, <1>3
  <2>2. x \in Nat /\ z \in Nat /\ Rows \in Nat
      BY SomeRows
  <2> QED BY <2>1, <2>2
<1>5. Max(S) \in S /\ \A z \in S : Max(S) >= z
    BY <1>4 DEF Max
<1>6. \A z \in S : Max(S) \in Nat /\ z \in Nat
    BY <1>5, SomeRows
<1> QED BY <1>5, <1>6

\* A chunk is the oldest rows: none of the others comes before its last.
LEMMA ChunkIsOldest ==
    ASSUME NEW rows \in SUBSET Row, rows # {}
    PROVE  /\ Chunk(rows) \subseteq rows
           /\ Max(Chunk(rows)) \in Chunk(rows)
           /\ \A x \in Chunk(rows) : x <= Max(Chunk(rows))
           /\ \A x \in rows \ Chunk(rows) : Max(Chunk(rows)) < x
<1> DEFINE older(x) == {q \in rows : q < x}
<1>1. Chunk(rows) \in SUBSET Row /\ ChunkRows \in Nat \ {0}
    BY BootstrapAssumption DEF Chunk
<1>2. Chunk(rows) # {}
  <2>1. Min(rows) \in rows /\ \A x \in rows : Min(rows) <= x
      BY LeastRow
  <2>2. older(Min(rows)) = {}
    <3>1. \A x \in rows : x \in Nat
        BY SomeRows
    <3>2. \A x \in rows : ~(x < Min(rows))
        BY <2>1, <3>1
    <3> QED BY <3>2
  <2>3. Cardinality(older(Min(rows))) < ChunkRows
      BY <1>1, <2>2, FS_EmptySet
  <2> QED BY <2>1, <2>3 DEF Chunk
<1>3. Max(Chunk(rows)) \in Chunk(rows) /\ \A x \in Chunk(rows) : x <= Max(Chunk(rows))
    BY <1>1, <1>2, GreatestRow
<1>4. ASSUME NEW c \in Chunk(rows), NEW x \in rows \ Chunk(rows) PROVE c < x
  <2>1. c \in rows /\ Cardinality(older(c)) < ChunkRows /\ ~(Cardinality(older(x)) < ChunkRows)
      BY <1>4 DEF Chunk
  <2>2. x \in Nat /\ c \in Nat
      BY <2>1, SomeRows
  <2>3. ASSUME ~(c < x) PROVE FALSE
    <3>1. \A q \in rows : q < x => q < c
        BY <2>2, <2>3, SomeRows
    <3>2. older(x) \in SUBSET older(c)
        BY <3>1
    <3>3. older(c) \in SUBSET Row /\ older(x) \in SUBSET Row
        OBVIOUS
    <3> HIDE DEF older
    <3>4. Cardinality(older(x)) <= Cardinality(older(c))
        BY <3>2, <3>3, RowsFinite, FS_Subset
    <3>5. Cardinality(older(x)) \in Nat /\ Cardinality(older(c)) \in Nat
        BY <3>3, RowsFinite
    <3> QED BY <1>1, <2>1, <3>4, <3>5
  <2> QED BY <2>3
<1>5. Chunk(rows) \subseteq rows
    BY DEF Chunk
<1> QED BY <1>3, <1>4, <1>5

\* A region found by a scan starts on a scanned row and runs forward.
LEMMA RegionsAreScanned ==
    ASSUME NEW d, NEW rows \in SUBSET Row, NEW hot \in PossiblyHot(rows),
           NEW w \in NewRegions(d, rows, hot)
    PROVE  w \in [start : Row, end : Row] /\ w.start \in rows /\ w.start <= w.end
<1>1. hot \in SUBSET rows
    BY DEF PossiblyHot
<1>2. PICK a \in hot : w = [start |-> a, end |-> RunEnd(rows, hot, a)]
    BY DEF NewRegions, HotRegions
<1>3. a \in rows /\ a \in Nat
    BY <1>1, SomeRows
<1> DEFINE cool == {x \in rows \ hot : a < x}
<1>4. RunEnd(rows, hot, a) \in Row /\ a <= RunEnd(rows, hot, a)
  <2>1. CASE cool = {}
    <3>1. RunEnd(rows, hot, a) = Max(rows)
        BY <2>1 DEF RunEnd
    <3> QED BY <1>3, <3>1, GreatestRow
  <2>2. CASE cool # {}
    <3>1. RunEnd(rows, hot, a) = Min(cool)
        BY <2>2 DEF RunEnd
    <3>2. cool \in SUBSET Row
        OBVIOUS
    <3>3. Min(cool) \in cool
        BY <2>2, <3>2, LeastRow
    <3>4. Min(cool) \in Row /\ a < Min(cool)
        BY <3>3
    <3>5. Min(cool) \in Nat
        BY <3>4, SomeRows
    <3> QED BY <1>3, <3>1, <3>4, <3>5
  <2> QED BY <2>1, <2>2
<1> QED BY <1>2, <1>3, <1>4

-----------------------------------------------------------------------------
\* Ledgers.

LEMMA EmptyLedger == IsLedger(<<>>)
BY DEF IsLedger, ToSet

LEMMA AddedToLedger ==
    ASSUME NEW d, IsLedger(d), NEW e \in Episode, e.start <= e.end
    PROVE  /\ IsLedger(Append(d, e))
           /\ Len(Append(d, e)) = Len(d) + 1
           /\ Unexplained(Append(d, e)) = Unexplained(d) \ Window(e)
<1>1. d \in Seq(Episode)
    BY DEF IsLedger
<1>2. /\ Append(d, e) \in Seq(Episode) /\ Len(Append(d, e)) = Len(d) + 1
      /\ \A i \in 1..Len(d) : Append(d, e)[i] = d[i]
      /\ Append(d, e)[Len(d) + 1] = e
    BY <1>1, AppendProperties
<1>3. ToSet(Append(d, e)) = ToSet(d) \cup {e}
  <2>1. Len(d) \in Nat /\ DOMAIN d = 1..Len(d) /\ DOMAIN Append(d, e) = 1..(Len(d) + 1)
      BY <1>1, <1>2
  <2>2. \A i \in 1..(Len(d) + 1) : i \in 1..Len(d) \/ i = Len(d) + 1
      BY <2>1
  <2>3. 1..Len(d) \subseteq 1..(Len(d) + 1) /\ Len(d) + 1 \in 1..(Len(d) + 1)
      BY <2>1
  <2>4. ToSet(Append(d, e)) = {Append(d, e)[i] : i \in 1..(Len(d) + 1)}
      BY <2>1 DEF ToSet
  <2>5. ToSet(d) = {d[i] : i \in 1..Len(d)}
      BY <2>1 DEF ToSet
  <2> QED BY <1>2, <2>2, <2>3, <2>4, <2>5
<1>4. IsLedger(Append(d, e))
    BY <1>2, <1>3 DEF IsLedger
<1>5. Unexplained(Append(d, e)) = Unexplained(d) \ Window(e)
    BY <1>3 DEF Unexplained
<1> QED BY <1>2, <1>4, <1>5

\* Taking an episode out leaves a ledger.
LEMMA TakenFromLedger ==
    ASSUME NEW d, IsLedger(d), NEW i \in DOMAIN d
    PROVE  IsLedger(RemoveAt(d, i))
<1> DEFINE S == ToSet(d)
<1>1. d \in Seq(Episode) /\ i \in 1..Len(d) /\ Len(d) \in Nat
    BY DEF IsLedger
<1>2. S \subseteq Episode /\ \A j \in 1..Len(d) : d[j] \in S
    BY <1>1, ElementsOf DEF ToSet
<1>3. d \in Seq(S)
    BY <1>1, <1>2, IsASeq
<1> HIDE DEF S
<1>4. SubSeq(d, 1, i - 1) \in Seq(S) /\ SubSeq(d, i + 1, Len(d)) \in Seq(S)
    BY <1>1, <1>3
<1>5. RemoveAt(d, i) \in Seq(S)
    BY <1>4 DEF RemoveAt
<1>6. RemoveAt(d, i) \in Seq(Episode) /\ ToSet(RemoveAt(d, i)) \subseteq S
    BY <1>2, <1>5, ElementsOf
<1> QED BY <1>6 DEF IsLedger, S

\* There is a widest window among the fault windows.
LEMMA WidestExists ==
    ASSUME NEW d, IsLedger(d), Faults(d) # {}
    PROVE  Widest(d, Faults(d)) \in Faults(d)
<1> DEFINE C == Faults(d)
<1>1. C \in SUBSET Nat /\ \A i \in C : Width(d[i]) \in 0..Rows
  <2>1. d \in Seq(Episode) /\ \A i \in DOMAIN d : d[i] \in Episode /\ d[i].start <= d[i].end
      BY DEF IsLedger, ToSet
  <2>2. \A i \in DOMAIN d : i \in Nat
      BY <2>1
  <2>3. ASSUME NEW e \in Episode, e.start <= e.end PROVE Width(e) \in 0..Rows
    <3>1. e.start \in Row /\ e.end \in Row
        BY DEF Episode
    <3>2. e.start \in Nat /\ e.end \in Nat /\ e.end <= Rows /\ Rows \in Nat
        BY <3>1, SomeRows
    <3> QED BY <2>3, <3>2 DEF Width
  <2> QED BY <2>1, <2>2, <2>3 DEF Faults
<1> HIDE DEF C
<1> DEFINE G == {Rows - Width(d[i]) : i \in C}
<1>2. G \subseteq Nat /\ G # {}
    BY <1>1, SomeRows DEF C
<1>3. PICK g \in G : \A h \in G : g <= h
    BY <1>2, LeastNumber
<1>4. PICK k \in C : g = Rows - Width(d[k])
    BY <1>3
<1>5. ASSUME NEW i \in C PROVE Width(d[i]) <= Width(d[k])
  <2>1. Rows - Width(d[k]) <= Rows - Width(d[i])
      BY <1>3, <1>4
  <2>2. Width(d[k]) \in Int /\ Width(d[i]) \in Int /\ Rows \in Int
      BY <1>1, SomeRows
  <2> QED BY <2>1, <2>2
<1> DEFINE W == {i \in C : Width(d[i]) = Width(d[k])}
<1>6. W \subseteq Nat /\ W # {}
    BY <1>1
<1>7. PICK i \in W : \A j \in W : i <= j
    BY <1>6, LeastNumber
<1>8. ASSUME NEW j \in C
      PROVE  \/ Width(d[j]) < Width(d[i])
             \/ Width(d[j]) = Width(d[i]) /\ i <= j
  <2>1. Width(d[j]) \in Int /\ Width(d[k]) \in Int
      BY <1>1
  <2>2. Width(d[j]) <= Width(d[k]) /\ Width(d[i]) = Width(d[k])
      BY <1>5, <1>7
  <2>3. Width(d[j]) = Width(d[k]) => j \in W
      OBVIOUS
  <2> QED BY <1>7, <2>1, <2>2, <2>3
<1>9. Widest(d, C) \in C
    BY <1>7, <1>8 DEF Widest
<1> QED BY <1>9 DEF C

\* A fingerprint numbers finitely many windows.
LEMMA FingerprintType ==
    ASSUME NEW d, IsLedger(d)
    PROVE  Fingerprint(d) \in SUBSET (Nat \X Row \X Row)
<1> SUFFICES ASSUME NEW i \in Faults(d)
             PROVE  <<Cardinality({j \in Faults(d) : j <= i}), d[i].start, d[i].end>>
                      \in Nat \X Row \X Row
    BY DEF Fingerprint
<1>1. d \in Seq(Episode) /\ i \in 1..Len(d) /\ Len(d) \in Nat /\ d[i] \in Episode
    BY DEF IsLedger, Faults
<1>2. d[i].start \in Row /\ d[i].end \in Row
    BY <1>1 DEF Episode
<1>3. {j \in Faults(d) : j <= i} \in SUBSET (1..Len(d))
    BY <1>1 DEF Faults
<1>4. IsFiniteSet(1..Len(d))
    BY <1>1, FS_Interval
<1>5. Cardinality({j \in Faults(d) : j <= i}) \in Nat
    BY <1>3, <1>4, FS_Subset, FS_CardinalityType
<1> QED BY <1>2, <1>5

LEMMA CalibratedType ==
    ASSUME NEW d, NEW recent, NEW audited
    PROVE  Calibrated(Sample(d, recent), audited) \in SUBSET Row
<1>1. 1..(Rows - HeldOut) \subseteq Row
    BY BootstrapAssumption DEF Row
<1> QED BY <1>1 DEF Calibrated, Sample

-----------------------------------------------------------------------------
\* A pass only ledgers windows that start on a row no earlier episode
\* explained.

PassSteps == {"scan", "mask", "replay", "tally"}

\* What the pass v still holds lies outside the episodes of p, and the row
\* read last comes before those still to be read.
NewOnly(p, v) ==
    /\ v.left \subseteq Unexplained(p)
    /\ \A w \in v.regions : w.start \in Unexplained(p) /\ w.start <= w.end
    /\ v.open # 0 => v.open \in Unexplained(p) /\ v.open <= v.last
    /\ \A x \in v.left : v.last < x

\* The pass v works on the ledger d, and what it added explains something new.
PassHolds(d, v) ==
    /\ v.before <= Len(d)
    /\ NewOnly(SubSeq(d, 1, v.before), v)
    /\ Len(d) > v.before =>
          ~(Unexplained(SubSeq(d, 1, v.before)) \subseteq Unexplained(d))

PassInv == pc \in PassSteps => PassHolds(draft, t)

LEMMA UnexplainedType == \A d : Unexplained(d) \in SUBSET Row
BY DEF Unexplained

LEMMA PrefixStays ==
    ASSUME NEW S, NEW s \in Seq(S), NEW x \in S, NEW n \in Nat, n <= Len(s)
    PROVE  SubSeq(Append(s, x), 1, n) = SubSeq(s, 1, n)
<1>1. /\ Append(s, x) \in Seq(S) /\ Len(Append(s, x)) = Len(s) + 1
      /\ \A i \in 1..Len(s) : Append(s, x)[i] = s[i]
    OBVIOUS
<1>2. SubSeq(s, 1, n) = [i \in 1..n |-> s[i]]
    OBVIOUS
<1>3. SubSeq(Append(s, x), 1, n) = [i \in 1..n |-> Append(s, x)[i]]
    BY <1>1
<1>4. \A i \in 1..n : Append(s, x)[i] = s[i]
    BY <1>1
<1> QED BY <1>2, <1>3, <1>4

LEMMA LocalsFields ==
    ASSUME NEW v \in Locals
    PROVE  /\ v = [pass |-> v.pass, before |-> v.before, left |-> v.left,
                   regions |-> v.regions, open |-> v.open, last |-> v.last,
                   word |-> v.word]
           /\ v.pass \in 0..MaxPasses /\ v.before \in Nat /\ v.left \in SUBSET Row
           /\ v.regions \in SUBSET [start : Row, end : Row]
           /\ v.open \in 0..Rows /\ v.last \in 0..Rows
           /\ v.word \in {"none", "alarm", "change"}
BY DEF Locals

LEMMA NothingWith ==
    ASSUME NEW n \in 0..MaxPasses, NEW m \in Nat, NEW rows \in SUBSET Row
    PROVE  [Nothing EXCEPT !.pass = n, !.before = m, !.left = rows]
             = [pass |-> n, before |-> m, left |-> rows, regions |-> {},
                open |-> 0, last |-> 0, word |-> "none"]
<1> DEFINE v == [Nothing EXCEPT !.pass = n, !.before = m, !.left = rows]
<1>1. 0 \in 0..MaxPasses /\ 0 \in 0..Rows
    BY BootstrapAssumption
<1>2. Nothing \in Locals
    BY <1>1 DEF Nothing, Locals
<1>3. v \in Locals
    BY <1>2 DEF Locals
<1>4. /\ v.pass = n /\ v.before = m /\ v.left = rows /\ v.regions = {}
      /\ v.open = 0 /\ v.last = 0 /\ v.word = "none"
    BY DEF Nothing
<1> HIDE DEF v
<1> QED BY <1>3, <1>4, LocalsFields DEF v

LEMMA PassStarts ==
    ASSUME NEW d, IsLedger(d), NEW n \in 0..MaxPasses
    PROVE  LET v == [Nothing EXCEPT !.pass = n, !.before = Len(d), !.left = Unexplained(d)]
           IN  v \in Locals /\ PassHolds(d, v)
<1> DEFINE v == [Nothing EXCEPT !.pass = n, !.before = Len(d), !.left = Unexplained(d)]
<1>1. d \in Seq(Episode) /\ Len(d) \in Nat /\ SubSeq(d, 1, Len(d)) = d
    BY SubSeqFull DEF IsLedger
<1>2. v = [pass |-> n, before |-> Len(d), left |-> Unexplained(d), regions |-> {},
           open |-> 0, last |-> 0, word |-> "none"]
    BY <1>1, UnexplainedType, NothingWith
<1> HIDE DEF v
<1>3. Unexplained(d) \in SUBSET Row /\ Rows \in Nat /\ \A x \in Row : 0 < x
    BY UnexplainedType, SomeRows
<1>4. v \in Locals
    BY <1>1, <1>2, <1>3 DEF Locals
<1>5. PassHolds(d, v)
  <2>1. /\ v.before = Len(d) /\ v.left = Unexplained(d) /\ v.regions = {}
        /\ v.open = 0 /\ v.last = 0
      BY <1>2
  <2>2. NewOnly(d, v)
      BY <1>3, <2>1 DEF NewOnly
  <2>3. SubSeq(d, 1, v.before) = d /\ ~(Len(d) > v.before) /\ v.before <= Len(d)
      BY <1>1, <2>1
  <2> QED BY <2>2, <2>3 DEF PassHolds
<1> QED BY <1>4, <1>5 DEF v

\* An episode that starts on a row no earlier episode explained.
LEMMA PassAdds ==
    ASSUME NEW d, IsLedger(d), NEW v \in Locals, PassHolds(d, v),
           NEW e \in Episode, e.start <= e.end,
           e.start \in Unexplained(SubSeq(d, 1, v.before)),
           NEW u \in Locals, u.before = v.before,
           NewOnly(SubSeq(d, 1, v.before), u)
    PROVE  PassHolds(Append(d, e), u)
<1>1. d \in Seq(Episode) /\ v.before \in Nat /\ v.before <= Len(d) /\ Len(d) \in Nat
    BY DEF IsLedger, Locals, PassHolds
<1>2. Len(Append(d, e)) = Len(d) + 1 /\ Unexplained(Append(d, e)) = Unexplained(d) \ Window(e)
    BY AddedToLedger
<1>3. SubSeq(Append(d, e), 1, v.before) = SubSeq(d, 1, v.before)
    BY <1>1, PrefixStays
<1>4. e.start \in Window(e)
  <2>1. e.start \in Row
      BY DEF Episode
  <2>2. e.start \in Nat
      BY <2>1, SomeRows
  <2> QED BY <2>1, <2>2 DEF Window
<1>5. ~(Unexplained(SubSeq(d, 1, v.before)) \subseteq Unexplained(Append(d, e)))
    BY <1>2, <1>4
<1> DEFINE longer == Append(d, e)
<1>6. /\ u.before <= Len(longer)
      /\ SubSeq(longer, 1, u.before) = SubSeq(d, 1, v.before)
    BY <1>1, <1>2, <1>3
<1> HIDE DEF longer
<1>7. ~(Unexplained(SubSeq(longer, 1, u.before)) \subseteq Unexplained(longer))
    BY <1>5, <1>6 DEF longer
<1>8. NewOnly(SubSeq(longer, 1, u.before), u)
    BY <1>6
<1>9. PassHolds(longer, u)
    BY <1>6, <1>7, <1>8 DEF PassHolds
<1> QED BY <1>9 DEF longer

\* A chunk that was read.
ChunkRead(v) == [v EXCEPT !.left = @ \ Chunk(v.left), !.last = Max(Chunk(v.left))]

LEMMA ReadChunk ==
    ASSUME NEW v \in Locals, v.left # {}, NEW p, NewOnly(p, v)
    PROVE  /\ ChunkRead(v) \in Locals /\ NewOnly(p, ChunkRead(v))
           /\ ChunkRead(v).before = v.before /\ ChunkRead(v).open = v.open
           /\ ChunkRead(v).last = Max(Chunk(v.left)) /\ Max(Chunk(v.left)) \in Row
           /\ v.open # 0 => v.open <= Max(Chunk(v.left))
           /\ Chunk(v.left) \subseteq Unexplained(p)
           /\ \A x \in Chunk(v.left) : x <= Max(Chunk(v.left))
<1> DEFINE chunk == Chunk(v.left)
           last  == Max(chunk)
<1>1. v.left \in SUBSET Row /\ v.open \in 0..Rows /\ v.last \in 0..Rows
    BY DEF Locals
<1>2. /\ chunk \subseteq v.left /\ last \in chunk
      /\ \A x \in chunk : x <= last
      /\ \A x \in v.left \ chunk : last < x
    BY <1>1, ChunkIsOldest
<1> HIDE DEF chunk, last
<1>3. last \in Row /\ last \in 0..Rows
  <2>1. last \in Row
      BY <1>1, <1>2
  <2>2. last \in Nat /\ last <= Rows /\ Rows \in Nat
      BY <2>1, SomeRows
  <2> QED BY <2>1, <2>2
<1>4. v.open # 0 => v.open <= last
  <2>1. v.last < last
      BY <1>2 DEF NewOnly
  <2> QED BY <1>1, <1>3, <2>1 DEF NewOnly
<1>5. ChunkRead(v) = [v EXCEPT !.left = v.left \ chunk, !.last = last]
    BY DEF ChunkRead, chunk, last
<1>6. ChunkRead(v) = [pass |-> v.pass, before |-> v.before, left |-> v.left \ chunk,
                      regions |-> v.regions, open |-> v.open, last |-> last, word |-> v.word]
    BY <1>5 DEF Locals
<1>7. ChunkRead(v) \in Locals
    BY <1>1, <1>3, <1>6 DEF Locals
<1>8. NewOnly(p, ChunkRead(v))
    BY <1>2, <1>4, <1>6 DEF NewOnly
<1>9. chunk \subseteq Unexplained(p)
    BY <1>2 DEF NewOnly
<1> QED BY <1>2, <1>3, <1>4, <1>6, <1>7, <1>8, <1>9 DEF chunk, last

BootInv == TypeOK /\ PassInv

LEMMA NothingType ==
    ASSUME NEW n \in 0..MaxPasses
    PROVE  Nothing \in Locals /\ [Nothing EXCEPT !.pass = n] \in Locals
<1>1. 0 \in 0..MaxPasses /\ 0 \in 0..Rows
    BY BootstrapAssumption
<1>2. [Nothing EXCEPT !.pass = n]
        = [pass |-> n, before |-> 0, left |-> {}, regions |-> {}, open |-> 0,
           last |-> 0, word |-> "none"]
    BY DEF Nothing
<1> QED BY <1>1, <1>2 DEF Nothing, Locals

\* Whatever work a run puts on its ledger and in its monitor.
LEMMA WorkTypes ==
    ASSUME TypeOK, NEW d, IsLedger(d), NEW s \in SUBSET Row, Work(d, s),
           pc' \in Steps, t' \in Locals, completed' = completed
    PROVE  TypeOK'
<1>1. IsLedger(draft') /\ IsLedger(ledger') /\ live' \in SUBSET Row /\ trial' = s
    BY DEF Work, TypeOK
<1>2. UNCHANGED <<refused, marked, seen, cache, up, contacted, mode, raised, requests,
                   crashes, completed>>
    BY DEF Work
<1> QED BY <1>1, <1>2 DEF TypeOK, IsLedger

LEMMA CloseEpisode ==
    ASSUME BootInv, pc \in PassSteps, NEW end \in Row, Close(end), t.open # 0, t.open <= end,
           NEW p, p = SubSeq(draft, 1, t.before),
           t' \in Locals, t'.before = t.before, NewOnly(p, t'),
           pc' \in PassSteps, completed' = completed
    PROVE  BootInv'
<1> DEFINE change == t.word = "change"
           e == [start |-> t.open, end |-> end,
                 state |-> IF change THEN "change-not-fault" ELSE "alarm",
                 source |-> "replay"]
           d == Append(draft, e)
<1>1. PassHolds(draft, t) /\ t \in Locals /\ IsLedger(draft)
    BY DEF BootInv, PassInv, TypeOK
<1>2. t.open \in Unexplained(p)
    BY <1>1 DEF PassHolds, NewOnly
<1>3. e \in Episode /\ e.start = t.open /\ e.end = end
    BY <1>2, UnexplainedType DEF Episode
<1> HIDE DEF e
<1>4. IsLedger(d)
    BY <1>1, <1>3, AddedToLedger
<1>5. Work(d, Calibrated(Sample(d, change), TRUE))
    BY DEF Close, e
<1>6. draft' = d
    BY <1>5 DEF Work
<1>7. PassHolds(d, t')
    BY <1>1, <1>2, <1>3, PassAdds
<1>8. pc' \in Steps
    BY DEF PassSteps, Steps, WorkerSteps
<1>9. Calibrated(Sample(d, change), TRUE) \in SUBSET Row
    BY CalibratedType
<1> HIDE DEF d
<1>10. TypeOK'
    BY <1>4, <1>5, <1>8, <1>9, WorkTypes DEF BootInv
<1>11. PassInv'
    BY <1>6, <1>7 DEF PassInv, PassHolds, NewOnly, Unexplained, Window, Row
<1> QED BY <1>10, <1>11 DEF BootInv

LEMMA ReplayKeeps ==
    ASSUME BootInv, Replay PROVE BootInv'
<1> DEFINE chunk == Chunk(t.left)
           read  == ChunkRead(t)
           p     == SubSeq(draft, 1, t.before)
<1>1. /\ PassHolds(draft, t) /\ t \in Locals /\ IsLedger(draft) /\ t.left # {}
      /\ pc = "replay" /\ pc' = pc /\ completed' = completed /\ trial \in SUBSET Row
    BY DEF Replay, BootInv, PassInv, PassSteps, TypeOK
<1>2. NewOnly(p, t)
    BY <1>1 DEF PassHolds
<1> HIDE DEF p
<1>3. /\ read \in Locals /\ NewOnly(p, read)
      /\ read.before = t.before /\ read.open = t.open
      /\ read.last = Max(chunk) /\ Max(chunk) \in Row
      /\ t.open # 0 => t.open <= Max(chunk)
      /\ chunk \subseteq Unexplained(p)
      /\ \A x \in chunk : x <= Max(chunk)
    BY <1>1, <1>2, ReadChunk
<1>4. read = [t EXCEPT !.left = @ \ chunk, !.last = Max(chunk)]
    BY DEF ChunkRead
<1>5. pc \in PassSteps /\ pc' \in PassSteps /\ pc' \in Steps
    BY <1>1 DEF PassSteps, Steps, WorkerSteps
<1> HIDE DEF read
\* Nothing is ledgered.
<1>6. ASSUME t' \in Locals, t'.before = t.before, NewOnly(p, t'), Work(draft, trial)
      PROVE  BootInv'
  <2>1. TypeOK'
      BY <1>1, <1>5, <1>6, WorkTypes DEF BootInv
  <2>2. draft' = draft
      BY <1>6 DEF Work
  <2>3. PassHolds(draft, t')
      BY <1>1, <1>6 DEF PassHolds, p
  <2>4. PassInv'
      BY <2>2, <2>3 DEF PassInv, PassHolds, NewOnly, Unexplained, Window, Row
  <2> QED BY <2>1, <2>4 DEF BootInv
<1>7. ASSUME NEW word \in {"alarm", "change"}, NEW onset \in chunk,
             t' = [read EXCEPT !.word = word, !.open = IF t.open = 0 THEN onset ELSE t.open],
             Work(draft, trial)
      PROVE  BootInv'
  <2> DEFINE open == IF t.open = 0 THEN onset ELSE t.open
  <2>1. onset \in Row /\ onset \in Unexplained(p) /\ onset <= Max(chunk)
      BY <1>3, UnexplainedType
  <2>2. onset \in 0..Rows
    <3>1. onset \in Nat /\ onset <= Rows /\ Rows \in Nat
        BY <2>1, SomeRows
    <3> QED BY <3>1
  <2>3. open \in 0..Rows
      BY <1>1, <2>2, LocalsFields
  <2>4. open # 0 => open \in Unexplained(p) /\ open <= Max(chunk)
      BY <1>2, <1>3, <2>1 DEF NewOnly
  <2> HIDE DEF open
  <2>5. t' = [pass |-> read.pass, before |-> read.before, left |-> read.left,
              regions |-> read.regions, open |-> open, last |-> read.last, word |-> word]
    <3>1. t' = [read EXCEPT !.word = word, !.open = open]
        BY <1>7 DEF open
    <3>2. read = [pass |-> read.pass, before |-> read.before, left |-> read.left,
                  regions |-> read.regions, open |-> read.open, last |-> read.last,
                  word |-> read.word]
        BY <1>3, LocalsFields
    <3> QED BY <3>1, <3>2
  <2>6. t' \in Locals
      BY <1>3, <2>3, <2>5, LocalsFields DEF Locals
  <2>7. NewOnly(p, t')
      BY <1>3, <2>4, <2>5 DEF NewOnly
  <2>8. t'.before = t.before
      BY <1>3, <2>5
  <2> QED BY <1>6, <1>7, <2>6, <2>7, <2>8
<1>8. ASSUME t' = read, Work(draft, trial) PROVE BootInv'
    BY <1>3, <1>6, <1>8
<1>9. ASSUME t.open # 0, t' = [read EXCEPT !.open = 0, !.word = "none"], Close(Max(chunk))
      PROVE  BootInv'
  <2>1. t' = [pass |-> read.pass, before |-> read.before, left |-> read.left,
              regions |-> read.regions, open |-> 0, last |-> read.last, word |-> "none"]
    <3>1. read = [pass |-> read.pass, before |-> read.before, left |-> read.left,
                  regions |-> read.regions, open |-> read.open, last |-> read.last,
                  word |-> read.word]
        BY <1>3, LocalsFields
    <3> QED BY <1>9, <3>1
  <2>2. t' \in Locals /\ t'.before = t.before
    <3>1. 0 \in 0..Rows
        BY SomeRows
    <3> QED BY <1>3, <2>1, <3>1, LocalsFields DEF Locals
  <2>3. NewOnly(p, t')
      BY <1>3, <2>1 DEF NewOnly
  <2> QED BY <1>1, <1>3, <1>5, <1>9, <2>2, <2>3, CloseEpisode DEF p
<1> QED BY <1>4, <1>7, <1>8, <1>9 DEF Replay

LEMMA EndReplayKeeps ==
    ASSUME BootInv, EndReplay PROVE BootInv'
<1> DEFINE p == SubSeq(draft, 1, t.before)
<1>1. /\ PassHolds(draft, t) /\ t \in Locals /\ t.left = {} /\ pc' = "tally"
      /\ pc = "replay" /\ completed' = completed /\ trial \in SUBSET Row /\ IsLedger(draft)
    BY DEF EndReplay, BootInv, PassInv, PassSteps, TypeOK, Goto
<1>2. NewOnly(p, t)
    BY <1>1 DEF PassHolds
<1>3. pc \in PassSteps /\ pc' \in PassSteps /\ pc' \in Steps
    BY <1>1 DEF PassSteps, Steps, WorkerSteps
<1>4. CASE t.open = 0
  <2>1. Work(draft, trial) /\ t' = t
      BY <1>4 DEF EndReplay
  <2>2. TypeOK'
      BY <1>1, <1>3, <2>1, WorkTypes DEF BootInv
  <2>3. PassHolds(draft, t') /\ draft' = draft
      BY <1>1, <2>1 DEF Work
  <2>4. PassInv'
      BY <2>3 DEF PassInv, PassHolds, NewOnly, Unexplained, Window, Row
  <2> QED BY <2>2, <2>4 DEF BootInv
<1>5. CASE t.open # 0
  <2>1. Close(t.last) /\ t' = [t EXCEPT !.open = 0, !.word = "none"]
      BY <1>5 DEF EndReplay
  <2>2. t' = [pass |-> t.pass, before |-> t.before, left |-> t.left,
              regions |-> t.regions, open |-> 0, last |-> t.last, word |-> "none"]
    <3>1. t = [pass |-> t.pass, before |-> t.before, left |-> t.left,
               regions |-> t.regions, open |-> t.open, last |-> t.last, word |-> t.word]
        BY <1>1, LocalsFields
    <3> QED BY <2>1, <3>1
  <2>3. t' \in Locals /\ t'.before = t.before
    <3>1. 0 \in 0..Rows
        BY SomeRows
    <3> QED BY <1>1, <2>2, <3>1, LocalsFields DEF Locals
  <2>4. NewOnly(p, t')
      BY <1>2, <2>2 DEF NewOnly
  <2>5. t.open <= t.last /\ t.last \in Row
    <3>1. t.open <= t.last
        BY <1>2, <1>5 DEF NewOnly
    <3>2. t.open \in 0..Rows /\ t.last \in 0..Rows /\ Rows \in Nat
        BY <1>1, LocalsFields, SomeRows
    <3> QED BY <1>5, <3>1, <3>2 DEF Row
  <2> QED BY <1>1, <1>3, <1>5, <2>1, <2>3, <2>4, <2>5, CloseEpisode
<1> QED BY <1>4, <1>5

LEMMA MaskKeeps ==
    ASSUME BootInv, Mask PROVE BootInv'
<1> DEFINE w == CHOOSE w \in t.regions : \A x \in t.regions : w.start <= x.start
           e == [start |-> w.start, end |-> w.end, state |-> "alarm", source |-> "scan"]
           p == SubSeq(draft, 1, t.before)
<1>1. /\ PassHolds(draft, t) /\ t \in Locals /\ t.regions # {} /\ pc' = pc
      /\ pc = "mask" /\ completed' = completed /\ trial \in SUBSET Row /\ IsLedger(draft)
    BY DEF Mask, BootInv, PassInv, PassSteps, TypeOK
<1>2. NewOnly(p, t)
    BY <1>1 DEF PassHolds
<1>3. pc \in PassSteps /\ pc' \in PassSteps /\ pc' \in Steps
    BY <1>1 DEF PassSteps, Steps, WorkerSteps
<1>4. t' = [t EXCEPT !.regions = @ \ {w}] /\ Work(Append(draft, e), trial)
    BY DEF Mask
<1>5. w \in t.regions
  <2> DEFINE starts == {x.start : x \in t.regions}
  <2>1. \A x \in t.regions : x.start \in Row
      BY <1>1, LocalsFields
  <2>2. starts \in SUBSET Row /\ starts # {}
      BY <1>1, <2>1
  <2>3. Min(starts) \in starts /\ \A y \in starts : Min(starts) <= y
      BY <2>2, LeastRow
  <2>4. PICK x \in t.regions : Min(starts) = x.start
      BY <2>3
  <2>5. \A y \in t.regions : x.start <= y.start
      BY <2>3, <2>4
  <2> QED BY <2>4, <2>5
<1> HIDE DEF w
<1>6. w \in [start : Row, end : Row] /\ w.start \in Unexplained(p) /\ w.start <= w.end
    BY <1>1, <1>2, <1>5, LocalsFields DEF NewOnly
<1>7. e \in Episode /\ e.start = w.start /\ e.end = w.end
    BY <1>6 DEF Episode
<1> HIDE DEF e
<1>8. t' = [pass |-> t.pass, before |-> t.before, left |-> t.left,
            regions |-> t.regions \ {w}, open |-> t.open, last |-> t.last, word |-> t.word]
  <2>1. t = [pass |-> t.pass, before |-> t.before, left |-> t.left,
             regions |-> t.regions, open |-> t.open, last |-> t.last, word |-> t.word]
      BY <1>1, LocalsFields
  <2> QED BY <1>4, <2>1
<1>9. t' \in Locals /\ t'.before = t.before
  <2>1. t.regions \ {w} \in SUBSET [start : Row, end : Row]
      BY <1>1, LocalsFields
  <2> QED BY <1>1, <1>8, <2>1, LocalsFields DEF Locals
<1>10. NewOnly(p, t')
    BY <1>2, <1>8 DEF NewOnly
<1>11. IsLedger(Append(draft, e))
    BY <1>1, <1>6, <1>7, AddedToLedger
<1>12. PassHolds(Append(draft, e), t')
    BY <1>1, <1>6, <1>7, <1>9, <1>10, PassAdds
<1>13. draft' = Append(draft, e)
    BY <1>4 DEF Work
<1>14. TypeOK'
    BY <1>1, <1>3, <1>4, <1>9, <1>11, WorkTypes DEF BootInv
<1>15. PassInv'
    BY <1>12, <1>13 DEF PassInv, PassHolds, NewOnly, Unexplained, Window, Row
<1> QED BY <1>14, <1>15 DEF BootInv

LEMMA ScanKeeps ==
    ASSUME BootInv, Scan PROVE BootInv'
<1> DEFINE p == SubSeq(draft, 1, t.before)
<1>1. /\ PassHolds(draft, t) /\ t \in Locals /\ pc' = "mask" /\ pc = "scan"
    BY DEF Scan, BootInv, PassInv, PassSteps, TypeOK, Goto
<1>2. NewOnly(p, t) /\ t.left \in SUBSET Row
    BY <1>1, LocalsFields DEF PassHolds
<1>3. PICK hot \in PossiblyHot(t.left) :
           t' = [t EXCEPT !.regions = NewRegions(draft, t.left, hot)]
    BY DEF Scan
<1> DEFINE regions == NewRegions(draft, t.left, hot)
<1>4. \A w \in regions : w \in [start : Row, end : Row] /\ w.start \in t.left
                         /\ w.start <= w.end
    BY <1>2, RegionsAreScanned
<1> HIDE DEF regions
<1>5. t' = [pass |-> t.pass, before |-> t.before, left |-> t.left,
            regions |-> regions, open |-> t.open, last |-> t.last, word |-> t.word]
  <2>1. t = [pass |-> t.pass, before |-> t.before, left |-> t.left,
             regions |-> t.regions, open |-> t.open, last |-> t.last, word |-> t.word]
      BY <1>1, LocalsFields
  <2> QED BY <1>3, <2>1 DEF regions
<1>6. t' \in Locals /\ t'.before = t.before
    BY <1>1, <1>4, <1>5, LocalsFields DEF Locals
<1>7. NewOnly(p, t')
    BY <1>2, <1>4, <1>5 DEF NewOnly
<1>8. PassHolds(draft, t')
    BY <1>1, <1>6, <1>7 DEF PassHolds
<1>9. UNCHANGED <<refused, service, memory, mode, draft, trial, ghosts>>
    BY DEF Scan
<1>10. TypeOK'
    BY <1>1, <1>6, <1>9 DEF BootInv, TypeOK, Steps, WorkerSteps, service, memory, ghosts, IsLedger
<1>11. PassInv'
    BY <1>8, <1>9 DEF PassInv, PassHolds, NewOnly, Unexplained, Window, Row
<1> QED BY <1>10, <1>11 DEF BootInv

LEMMA StartPassKeeps ==
    ASSUME BootInv, StartPass PROVE BootInv'
<1> DEFINE ref == Calibrated(Sample(draft, FALSE), FALSE)
           v   == [Nothing EXCEPT !.pass = t.pass + 1, !.before = Len(draft),
                                  !.left = Unexplained(draft)]
<1>1. /\ t \in Locals /\ IsLedger(draft) /\ Work(draft, ref) /\ completed' = completed
      /\ ref \in SUBSET Row /\ t.pass < MaxPasses
    BY CalibratedType DEF StartPass, BootInv, TypeOK
<1>2. \/ pc' = "final" /\ t' = t
      \/ pc' = "scan" /\ t' = v
    BY DEF StartPass, Goto
<1>3. v \in Locals /\ PassHolds(draft, v)
  <2>1. t.pass + 1 \in 0..MaxPasses
      BY <1>1, LocalsFields, BootstrapAssumption
  <2> QED BY <1>1, <2>1, PassStarts
<1> HIDE DEF v, ref
<1>4. t' \in Locals /\ pc' \in Steps
    BY <1>1, <1>2, <1>3 DEF Steps, WorkerSteps
<1>5. TypeOK'
    BY <1>1, <1>4, WorkTypes DEF BootInv
<1>6. draft' = draft
    BY <1>1 DEF Work
<1>7. pc' \in PassSteps => PassHolds(draft, t')
    BY <1>2, <1>3 DEF PassSteps
<1>8. PassInv'
    BY <1>6, <1>7 DEF PassInv, PassHolds, NewOnly, Unexplained, Window, Row
<1> QED BY <1>5, <1>8 DEF BootInv

\* A calibration before a save, or before the guard.
LEMMA CalibrateKeeps ==
    ASSUME BootInv, NEW d, IsLedger(d), Calibrate(d), t' \in Locals, completed' = completed
    PROVE  BootInv'
<1> DEFINE ref == Calibrated(Sample(d, FALSE), TRUE)
<1>1. Work(d, ref) /\ pc' \in {"save", "refute"} /\ ref \in SUBSET Row
    BY CalibratedType DEF Calibrate, Goto
<1> HIDE DEF ref
<1>2. pc' \in Steps /\ pc' \notin PassSteps
    BY <1>1 DEF Steps, WorkerSteps, PassSteps
<1>3. TypeOK'
    BY <1>1, <1>2, WorkTypes DEF BootInv
<1> QED BY <1>2, <1>3 DEF BootInv, PassInv

LEMMA BootInit == Init => BootInv
<1> SUFFICES ASSUME Init PROVE BootInv
    OBVIOUS
<1>1. IsLedger(ledger) /\ IsLedger(draft)
    BY LedgerAssumption, EmptyLedger DEF Init
<1>2. live \in SUBSET Row /\ cache.fp \in SUBSET (Nat \X Row \X Row)
      /\ cache = [fp |-> cache.fp, ref |-> live]
    BY <1>1, CalibratedType, FingerprintType DEF Init
<1>3. t \in Locals
  <2>1. 0 \in 0..MaxPasses
      BY BootstrapAssumption
  <2> QED BY <2>1, NothingType DEF Init
<1>4. 0 \in 0..MaxRequests /\ 0 \in 0..MaxCrashes
    BY BootstrapAssumption
<1>5. cache \in [fp : SUBSET (Nat \X Row \X Row), ref : SUBSET Row]
    BY <1>2
<1>6. TypeOK
    BY <1>1, <1>2, <1>3, <1>4, <1>5 DEF Init, TypeOK, Steps
<1>7. PassInv
    BY DEF Init, PassInv, PassSteps
<1> QED BY <1>6, <1>7 DEF BootInv

LEMMA BootStep == BootInv /\ [Next]_vars => BootInv'
<1> SUFFICES ASSUME BootInv, [Next]_vars PROVE BootInv'
    OBVIOUS
<1>0. TypeOK /\ PassInv
    BY DEF BootInv
<1>1. Nothing \in Locals /\ [Nothing EXCEPT !.pass = t.pass] \in Locals /\ IsLedger(<<>>)
  <2>1. 0 \in 0..MaxPasses /\ t.pass \in 0..MaxPasses
      BY <1>0, LocalsFields, BootstrapAssumption DEF TypeOK
  <2> QED BY <2>1, NothingType, EmptyLedger
\* A step that leaves ledgers alone and ends outside a pass.
<1>2. ASSUME pc' \in Steps \ PassSteps, t' \in Locals, IsLedger(draft'), trial' \in SUBSET Row,
             mode' \in {"none", "sequential", "parallel"},
             IsLedger(ledger'), live' \in SUBSET Row, marked' \in BOOLEAN, up' \in BOOLEAN,
             completed' \in BOOLEAN, raised' \in BOOLEAN, contacted' \in BOOLEAN, seen' \in {0, Rows}, refused' = refused,
             cache' \in [fp : SUBSET (Nat \X Row \X Row), ref : SUBSET Row],
             requests' \in 0..MaxRequests, crashes' \in 0..MaxCrashes
      PROVE  BootInv'
  <2>1. TypeOK'
      BY <1>0, <1>2 DEF TypeOK, IsLedger
  <2>2. PassInv'
      BY <1>2 DEF PassInv
  <2> QED BY <2>1, <2>2 DEF BootInv
<1>3. /\ pc \in Steps /\ t \in Locals /\ IsLedger(draft) /\ trial \in SUBSET Row
      /\ mode \in {"none", "sequential", "parallel"}
      /\ IsLedger(ledger) /\ live \in SUBSET Row /\ marked \in BOOLEAN /\ up \in BOOLEAN
      /\ completed \in BOOLEAN /\ raised \in BOOLEAN /\ contacted \in BOOLEAN /\ seen \in {0, Rows}
      /\ cache \in [fp : SUBSET (Nat \X Row \X Row), ref : SUBSET Row]
      /\ requests \in 0..MaxRequests /\ crashes \in 0..MaxCrashes
    BY <1>0 DEF TypeOK
<1> DEFINE Outside == {"idle", "pass", "final", "save", "refute", "apply", "mark",
                       "journal", "reload"}
<1>4. Outside = Steps \ PassSteps
    BY DEF Steps, WorkerSteps, PassSteps
<1>5. ASSUME NEW m \in {"sequential", "parallel"}, Begin(m),
             UNCHANGED <<refused, service, up, live, completed, crashes>>,
             contacted' \in BOOLEAN, requests' \in 0..MaxRequests
      PROVE  BootInv'
  <2>1. /\ pc' = "pass" /\ mode' = m /\ draft' = ledger /\ t' = Nothing
        /\ raised' = FALSE /\ trial' \in SUBSET Row
      BY <1>3, <1>5 DEF Begin, Goto
  <2> QED BY <1>1, <1>2, <1>3, <1>4, <1>5, <2>1 DEF service, memory
<1>6. ASSUME NEW m \in Modes, Virgin(m) PROVE BootInv'
  <2>1. m \in {"sequential", "parallel"}
      BY BootstrapAssumption
  <2> QED BY <1>3, <1>5, <1>6, <2>1 DEF Virgin, ghosts
<1>7. CASE AcceptLedger
    BY <1>2, <1>3, <1>4, <1>7 DEF AcceptLedger, run, memory, ghosts
<1>8. CASE RequestBootstrap
  <2>1. requests' \in 0..MaxRequests
      BY <1>3, <1>8, BootstrapAssumption DEF RequestBootstrap
  <2> QED BY <1>3, <1>5, <1>8, <2>1 DEF RequestBootstrap, service, memory
<1>9. CASE RunBootstrap
  <2>1. CASE PassesExhausted
    BY <1>2, <1>3, <1>4, <2>1 DEF PassesExhausted, Goto, service, memory, ghosts
  <2>2. CASE StartPass
    BY <2>2, StartPassKeeps
  <2>3. CASE Scan
    BY <2>3, ScanKeeps
  <2>4. CASE Mask
    BY <2>4, MaskKeeps
  <2>5. CASE Masked
    <3>1. TypeOK'
        BY <1>0, <2>5 DEF Masked, Goto, TypeOK, service, memory, ghosts, IsLedger, Steps, WorkerSteps
    <3>2. PassInv'
        BY <1>0, <2>5 DEF Masked, Goto, PassInv, PassSteps, PassHolds, NewOnly,
                          Unexplained, Window, Row
    <3> QED BY <3>1, <3>2 DEF BootInv
  <2>6. CASE Replay
    BY <2>6, ReplayKeeps
  <2>7. CASE EndReplay
    BY <2>7, EndReplayKeeps
  <2>8. CASE Tally
    <3>1. pc' \in {"pass", "final"} /\ t' = [Nothing EXCEPT !.pass = t.pass]
        BY <2>8 DEF Tally, Goto
    <3> QED BY <1>1, <1>2, <1>3, <1>4, <2>8, <3>1 DEF Tally, service, memory, ghosts
  <2>9. CASE Final
    BY <1>1, <1>3, <2>9, CalibrateKeeps DEF Final, FinalCalibration
  <2>10. CASE Refute
    <3>1. Widest(draft, Faults(draft)) \in Faults(draft)
        BY <1>3, <2>10, WidestExists DEF Refute, Candidates
    <3>2. IsLedger(RemoveAt(draft, Widest(draft, Faults(draft))))
        BY <1>3, <3>1, TakenFromLedger DEF Faults
    <3> QED BY <1>3, <2>10, <3>2, CalibrateKeeps DEF Refute, Candidates, Dropped
  <2>11. CASE Insufficient
    <3>1. pc' \in {"apply", "mark"}
        BY <2>11 DEF Insufficient, Goto, Returned
    <3> QED BY <1>2, <1>3, <1>4, <2>11, <3>1 DEF Insufficient, service, memory
  <2>12. CASE Save
    <3>1. pc' \in {"apply", "mark"}
        BY <2>12 DEF Save, Goto, Returned
    <3>2. cache' \in [fp : SUBSET (Nat \X Row \X Row), ref : SUBSET Row]
        BY <1>3, <2>12, FingerprintType DEF Save
    <3> QED BY <1>2, <1>3, <1>4, <2>12, <3>1, <3>2 DEF Save, memory
  <2> QED BY <1>9, <2>1, <2>2, <2>3, <2>4, <2>5, <2>6, <2>7, <2>8, <2>9, <2>10, <2>11, <2>12
          DEF RunBootstrap
<1>10. CASE Caller
  <2>1. CASE Apply
    <3>1. PICK e \in Added : ledger' = Append(ledger, e)
        BY <2>1 DEF Apply
    <3>2. e \in Episode /\ e.start <= e.end
        BY <1>3, <3>1, ElementsOf DEF Added, Missing, IsLedger
    <3>3. IsLedger(ledger')
        BY <1>3, <3>1, <3>2, AddedToLedger
    <3>4. pc' \in Outside
        BY <2>1 DEF Apply, run
    <3> QED BY <1>2, <1>3, <1>4, <2>1, <3>3, <3>4 DEF Apply, run, memory, ghosts
  <2>2. CASE Applied
    BY <1>2, <1>3, <1>4, <2>2 DEF Applied, Goto, service, memory, ghosts
  <2>3. CASE Mark
    BY <1>2, <1>3, <1>4, <2>3 DEF Mark, Goto, memory, ghosts
  <2>4. CASE Journal
    <3>1. /\ pc' \in {"reload", "idle"} /\ t' \in Locals /\ IsLedger(draft')
          /\ trial' \in SUBSET Row /\ mode' = mode
        BY <1>1, <1>3, <2>4 DEF Journal, Finished, Goto
    <3> QED BY <1>2, <1>3, <1>4, <2>4, <3>1 DEF Journal, memory, ghosts
  <2>5. CASE Reload
    <3>1. live' \in SUBSET Row
        BY <1>3, <2>5 DEF Reload
    <3> QED BY <1>1, <1>2, <1>3, <1>4, <2>5, <3>1 DEF Reload, Finished, Goto, service, memory, ghosts
  <2> QED BY <1>10, <2>1, <2>2, <2>3, <2>4, <2>5 DEF Caller
<1>11. CASE WorkerFails \/ ContactRaises
    BY <1>1, <1>2, <1>3, <1>4, <1>11 DEF WorkerFails, ContactRaises, Finished, Goto,
                                         service, memory, ghosts
<1>12. CASE PoolBreaks
    BY <1>3, <1>5, <1>12 DEF PoolBreaks, memory, ghosts
<1>13. CASE Crash
  <2>1. crashes' \in 0..MaxCrashes
      BY <1>3, <1>13, BootstrapAssumption DEF Crash
  <2> QED BY <1>1, <1>2, <1>3, <1>4, <1>13, <2>1 DEF Crash, service, memory
<1>14. CASE Restart
  <2>1. Onboarded \in SUBSET Row
      BY <1>3, CalibratedType DEF Onboarded
  <2>2. cache' \in [fp : SUBSET (Nat \X Row \X Row), ref : SUBSET Row]
      BY <1>3, <1>14, <2>1, FingerprintType DEF Restart
  <2>3. TypeOK'
      BY <1>0, <1>14, <2>1, <2>2 DEF Restart, TypeOK, run, ghosts, IsLedger
  <2>4. PassInv'
      BY <1>0, <1>14 DEF Restart, run, PassInv, PassHolds, NewOnly, Unexplained, Window, Row
  <2> QED BY <2>3, <2>4 DEF BootInv
<1>15. CASE UNCHANGED vars
  <2>1. TypeOK'
      BY <1>0, <1>15 DEF vars, service, memory, run, ghosts, TypeOK, IsLedger
  <2>2. PassInv'
      BY <1>0, <1>15 DEF vars, service, memory, run, PassInv, PassHolds, NewOnly, Unexplained,
                         Window, Row
  <2> QED BY <2>1, <2>2 DEF BootInv
<1> QED BY <1>6, <1>7, <1>8, <1>9, <1>10, <1>11, <1>12, <1>13, <1>14, <1>15 DEF Next

\* Every variable keeps its type; every window that a pass, a replay or a
\* worker ledgers runs forward within the history.
THEOREM FirstContactTypes == Spec => []TypeOK
<1>1. BootInv => TypeOK
    BY DEF BootInv
<1> QED BY BootInit, BootStep, <1>1, PTL DEF Spec

\* A pass that ledgers anything explains a row that no earlier episode
\* explained: the passes cannot find the same fault twice, whatever the scan
\* and the replay report (fleet_workers.py, the mask of all states).
THEOREM PassesFindNew == Spec => []FindingsAreNew
<1>1. BootInv => FindingsAreNew
    BY DEF BootInv, PassInv, PassSteps, PassHolds, FindingsAreNew
<1> QED BY BootInit, BootStep, <1>1, PTL DEF Spec

-----------------------------------------------------------------------------
\* The guard.

\* A run is before the guard only with a calibration that failed, before the
\* save only with one that did not, and ends dead only if no mask is to blame.
GuardInv ==
    /\ pc = "refute" => Calibrated(Sample(draft, FALSE), TRUE) = {}
    /\ pc = "refute" => trial = {}
    /\ pc = "save" => trial # {}
    /\ pc \in {"apply", "mark"} /\ trial = {} => Calibrated(Sample(<<>>, FALSE), TRUE) = {}

\* Without fault windows the sample is the whole history.
LEMMA UnmaskedSample ==
    ASSUME NEW d, Faults(d) = {}
    PROVE  Sample(d, FALSE) = Sample(<<>>, FALSE)
<1>1. \A f \in ToSet(d) : f.state \notin FaultStates
    BY DEF ToSet, Faults
<1>2. ToSet(<<>>) = {}
    BY DEF ToSet
<1> QED BY <1>1, <1>2 DEF Sample, FaultRows

LEMMA CalibrateGuards ==
    ASSUME NEW d, Calibrate(d)
    PROVE  GuardInv'
<1> DEFINE ref == Calibrated(Sample(d, FALSE), TRUE)
<1>1. /\ draft' = d /\ trial' = ref /\ refused' = refused
      /\ pc' = IF ref = {} THEN "refute" ELSE "save"
    BY DEF Calibrate, Work, Goto
<1>2. Calibrated(Sample(draft, FALSE), TRUE)' = ref
    BY <1>1 DEF Calibrated, Sample, FaultRows, Window, Row
<1> HIDE DEF ref
<1> QED BY <1>1, <1>2 DEF GuardInv

LEMMA GuardStep == GuardInv /\ [Next]_vars => GuardInv'
<1> SUFFICES ASSUME GuardInv, [Next]_vars PROVE GuardInv'
    OBVIOUS
<1>1. ASSUME pc' \notin {"refute", "save", "apply", "mark"} PROVE GuardInv'
    BY <1>1 DEF GuardInv
<1>2. ASSUME UNCHANGED <<refused, pc, trial, draft>> PROVE GuardInv'
    BY <1>2 DEF GuardInv, Calibrated, Sample, FaultRows, Window, Row
<1>3. ASSUME NEW m \in Modes, Virgin(m) PROVE GuardInv'
    BY <1>1, <1>3 DEF Virgin, Begin, Goto
<1>4. CASE AcceptLedger
    BY <1>2, <1>4 DEF AcceptLedger, run
<1>5. CASE RequestBootstrap \/ PoolBreaks
    BY <1>1, <1>5 DEF RequestBootstrap, PoolBreaks, Begin, Goto
<1>6. CASE RunBootstrap
  <2>1. CASE PassesExhausted \/ StartPass \/ Scan \/ Mask \/ Masked \/ Replay \/ EndReplay \/ Tally
    BY <1>1, <2>1 DEF PassesExhausted, StartPass, Scan, Mask, Masked, Replay, EndReplay,
                      Tally, Goto
  <2>2. CASE Final
    BY <2>2, CalibrateGuards DEF Final, FinalCalibration
  <2>3. CASE Refute
    BY <2>3, CalibrateGuards DEF Refute
  <2>4. CASE Insufficient
    <3>1. /\ pc = "refute" /\ Faults(draft) = {} /\ pc' \in {"apply", "mark"}
          /\ UNCHANGED <<refused, trial, draft>>
        BY <2>4 DEF Insufficient, Candidates, Goto, Returned
    <3>2. Calibrated(Sample(<<>>, FALSE), TRUE) = {}
        BY <3>1, UnmaskedSample DEF GuardInv
    <3>3. Calibrated(Sample(<<>>, FALSE), TRUE)' = {}
        BY <3>1, <3>2 DEF Calibrated, Sample, FaultRows, Window, Row
    <3> QED BY <3>1, <3>3 DEF GuardInv
  <2>5. CASE Save
    <3>1. pc = "save" /\ pc' \in {"apply", "mark"} /\ trial' = trial
        BY <2>5 DEF Save, Goto, Returned
    <3> QED BY <3>1 DEF GuardInv
  <2> QED BY <1>6, <2>1, <2>2, <2>3, <2>4, <2>5 DEF RunBootstrap
<1>7. CASE Caller
  <2>1. CASE Apply
    BY <1>2, <2>1 DEF Apply, run
  <2>2. CASE Applied
    <3>1. pc = "apply" /\ pc' = "mark" /\ UNCHANGED <<refused, trial, draft>>
        BY <2>2 DEF Applied, Goto
    <3>2. Calibrated(Sample(<<>>, FALSE), TRUE)' = Calibrated(Sample(<<>>, FALSE), TRUE)
        BY <3>1 DEF Calibrated, Sample, FaultRows, Window, Row
    <3> QED BY <3>1, <3>2 DEF GuardInv
  <2>3. CASE Mark \/ Journal \/ Reload
    BY <1>1, <2>3 DEF Mark, Journal, Reload, Goto
  <2> QED BY <1>7, <2>1, <2>2, <2>3 DEF Caller
<1>8. CASE WorkerFails \/ ContactRaises \/ Crash
    BY <1>1, <1>8 DEF WorkerFails, ContactRaises, Crash, Goto
<1>9. CASE Restart
    BY <1>2, <1>9 DEF Restart, run
<1>10. CASE UNCHANGED vars
    BY <1>2, <1>10 DEF vars, run
<1> QED BY <1>3, <1>4, <1>5, <1>6, <1>7, <1>8, <1>9, <1>10 DEF Next

\* First contact leaves a dead monitor only for a history on which the
\* calibration fails without any mask: no set of windows the run itself
\* ledgered can keep it dead (fleet_workers.py, the self-refuting mask guard).
THEOREM GuardRevives == Spec => []NeverLeftDead
<1>1. Init => GuardInv
    BY DEF Init, GuardInv
<1>2. GuardInv => NeverLeftDead
    BY DEF GuardInv, NeverLeftDead
<1> QED BY <1>1, <1>2, GuardStep, PTL DEF Spec
=============================================================================
