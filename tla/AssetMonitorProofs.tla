--------------------------- MODULE AssetMonitorProofs ---------------------------
(***************************************************************************)
(* Theorems about AssetMonitor: its invariants, for any lives, frames and  *)
(* bounds, and one about the arming of dynamics-drift with the constants   *)
(* of the code.                                                            *)
(***************************************************************************)
EXTENDS AssetMonitor, InductionTheorems, SequenceTheorems

-----------------------------------------------------------------------------
HeldOutOf(sample) == sample - (3 * sample) \div 5

LEMMA HeldOutIs ==
    ASSUME NEW sample \in Int, 0 <= sample, sample <= 20000
    PROVE  HeldOutOf(sample) \in Int /\ HeldOutOf(sample) <= 8001
<1>1. PICK fit \in Int : fit = (3 * sample) \div 5
    OBVIOUS
<1>2. 5 * fit > 3 * sample - 5
    BY <1>1
<1> QED
    BY <1>1, <1>2 DEF HeldOutOf

LEMMA DriftPointsAre ==
    ASSUME NEW rows \in Int, rows <= 8001, IdentWindow = 512
    PROVE  DriftPoints(rows) \in Int /\ DriftPoints(rows) < 30
BY DEF DriftPoints

\* calibration_sample gives at most 20000 rows in chunks of 512; two fifths of them,
\* the held-out part, make 15 windows of 512 rows, and the bank needs 30: as the code
\* is configured, no life, however long, arms dynamics-drift.
THEOREM DynamicsNeverArms ==
    ASSUME MaxSample = 20000, ChunkRows = 512, FitNum = 3, FitDen = 5,
           IdentWindow = 512, MinCalib = 30
    PROVE  \A l \in Lives : ~DynamicsArms(l)
<1> SUFFICES ASSUME NEW l \in Lives PROVE ~DynamicsArms(l)
    OBVIOUS
<1>1. Life[l].rows \in Nat
    BY MonitorAssumption DEF MonitorAssumption
<1>2. SampleRows(l) \in Int /\ 0 <= SampleRows(l) /\ SampleRows(l) <= 20000
  <2>1. AtLeast(1, 20000 \div 512) * 512 = 19968
      BY DEF AtLeast
  <2>2. Life[l].rows > 20000 => SampleRows(l) = 19968
      BY <2>1 DEF SampleRows
  <2>3. ~(Life[l].rows > 20000) => SampleRows(l) = Life[l].rows
      BY DEF SampleRows
  <2> QED
      BY <1>1, <2>2, <2>3
<1>3. HeldOutRows(l) = HeldOutOf(SampleRows(l))
    BY DEF HeldOutRows, FitRows, HeldOutOf
<1>4. HeldOutRows(l) \in Int /\ HeldOutRows(l) <= 8001
    BY <1>2, <1>3, HeldOutIs
<1>5. DriftPoints(HeldOutRows(l)) \in Int /\ DriftPoints(HeldOutRows(l)) < 30
    BY <1>4, DriftPointsAre
<1> QED
    BY <1>5 DEF DynamicsArms, Bankable

-----------------------------------------------------------------------------
BanksInv ==
    /\ models \in [Models -> Lives \cup {NoLife}]
    /\ cache.models \in [Models -> Lives \cup {NoLife}]
    /\ banks \in [Domains -> Bank]
    /\ saved.banks \in [Domains -> Bank] /\ cache.banks \in [Domains -> Bank]

\* In a monitor with a main bank every bank stands on the life its model was fitted
\* on, and has eaten nothing else.
Matched(bs, ms) ==
    bs["magnitude"].of # NoLife =>
       \A d \in Domains : bs[d].of # NoLife =>
          ms[ModelOf[d]] = bs[d].of /\ bs[d].eaten \subseteq {bs[d].of}

ScaleInv ==
    /\ Matched(banks, models)
    /\ Matched(cache.banks, cache.models)
    /\ \A d \in Domains : saved.banks[d].of # NoLife =>
          saved.banks[d].eaten \subseteq {saved.banks[d].of}

LEMMA DomainsAre ==
    /\ "magnitude" \in Domains /\ ModelOf["magnitude"] = "scorer"
    /\ \A d \in Domains : ModelOf[d] \in Models
    /\ NoLife \notin Lives
    /\ AlarmAt \in Nat \ {0} /\ Top \in Nat
BY MonitorAssumption DEF Domains, ModelOf, Models, MonitorAssumption

LEMMA FreshIs ==
    /\ \A l \in Lives : Fresh(l) \in Bank /\ Fresh(l).of = l /\ Fresh(l).eaten = {}
                        /\ Fresh(l).evidence = 0
    /\ NoBank \in Bank /\ NoBank.of = NoLife /\ NoBank.evidence = 0 /\ NoBank.eaten = {}
BY DomainsAre DEF Fresh, NoBank, Bank

LEMMA PointsAre == ASSUME NEW d \in Domains, NEW f \in Frames PROVE Points(d, f) \in Nat
<1>1. /\ f.rows \in Nat \ {0} /\ f.transients \in Nat /\ LongHorizon \in Nat
      /\ BandWindow \in Nat \ {0} /\ IdentWindow \in Nat \ {0}
    BY MonitorAssumption DEF MonitorAssumption
<1>2. ASSUME NEW n \in Nat, NEW w \in Nat \ {0} PROVE n \div w \in Nat
    OBVIOUS
<1>3. f.rows - 1 \in Nat
    BY <1>1
<1>4. BandPoints(f.rows) \in Nat /\ DriftPoints(f.rows) \in Nat
    BY <1>1, <1>2, <1>3 DEF BandPoints, DriftPoints
<1>5. GapPoints(f.rows) \in Nat
    BY <1>1 DEF GapPoints, AtLeast
<1> QED
    BY <1>1, <1>4, <1>5 DEF Points

\* What a calibration installs.
LEMMA CalibrationMatches ==
    ASSUME NEW l \in Lives, MagnitudeArms(l)
    PROVE  /\ Banked(l) \in [Domains -> Bank] /\ Fitted(l) \in [Models -> Lives \cup {NoLife}]
           /\ Matched(Banked(l), Fitted(l))
           /\ \A d \in Domains : Banked(l)[d].evidence = 0
<1>1. \A d \in Domains : Banked(l)[d] = IF Arms(l, d) THEN Fresh(l) ELSE NoBank
    BY DEF Banked
<1>2. \A d \in Domains : Arms(l, d) => Fitted(l)[ModelOf[d]] = l
    BY DomainsAre DEF Fitted
<1>3. \A d \in Domains : Banked(l)[d].of # NoLife => Arms(l, d) /\ Banked(l)[d] = Fresh(l)
    BY <1>1, FreshIs
<1>4. Matched(Banked(l), Fitted(l))
    BY <1>2, <1>3, FreshIs DEF Matched
<1>5. Banked(l) \in [Domains -> Bank] /\ \A d \in Domains : Banked(l)[d].evidence = 0
    BY <1>1, FreshIs DEF Banked
<1>6. Fitted(l) \in [Models -> Lives \cup {NoLife}]
    BY DEF Fitted
<1> QED
    BY <1>4, <1>5, <1>6

\* Wealth comes back to the bank it was earned in.
LEMMA RestoreMatches ==
    ASSUME BanksInv, ScaleInv, NEW on \in [Domains -> Bank], NEW ms, Matched(on, ms)
    PROVE  Restored(on) \in [Domains -> Bank] /\ Matched(Restored(on), ms)
<1>1. \A d \in Domains : Restored(on)[d] = IF on["magnitude"].of # NoLife /\ Restorable(d, on)
                                           THEN saved.banks[d] ELSE on[d]
    BY DEF Restored
<1>2. \A d \in Domains : Restored(on)[d].of = on[d].of
    BY <1>1 DEF Restorable
<1>3. Restored(on) \in [Domains -> Bank]
    BY <1>1 DEF Restored, BanksInv
<1>4. Matched(Restored(on), ms)
    BY <1>1, <1>2, DomainsAre DEF Matched, ScaleInv, Restorable
<1> QED
    BY <1>3, <1>4

LEMMA ProcessMatches ==
    ASSUME BanksInv, ScaleInv, NEW f \in Frames, Process(f)
    PROVE  /\ banks' \in [Domains -> Bank] /\ Matched(banks', models)
           /\ \A d \in Domains : banks'[d].of = banks[d].of
                                 /\ banks'[d].evidence >= banks[d].evidence
<1>1. PICK evidence \in [Fed(f) -> 0..Top] :
         /\ \A d \in Fed(f) : evidence[d] >= banks[d].evidence
         /\ banks' = [d \in Domains |-> IF d \in Fed(f) THEN Ingested(d, f, evidence[d])
                                                        ELSE banks[d]]
    BY DEF Process
<1>2. banks["magnitude"].of # NoLife
    BY DEF Process, Usable
<1>3. ASSUME NEW d \in Fed(f)
      PROVE  /\ d \in Domains /\ banks'[d] \in Bank
             /\ banks'[d].of = banks[d].of /\ banks'[d].of # NoLife
             /\ banks'[d].evidence >= banks[d].evidence
             /\ banks'[d].eaten \subseteq {banks[d].of}
  <2>1. d \in Domains /\ banks[d].of # NoLife /\ banks[d] \in Bank
      BY DEF Fed, Updated, Live, BanksInv
  <2>2. models[ModelOf[d]] = banks[d].of /\ banks[d].eaten \subseteq {banks[d].of}
      BY <1>2, <2>1 DEF ScaleInv, Matched
  <2>3. banks[d].of \in Lives \cup {NoLife} /\ banks[d].points \in Nat
      BY <2>1 DEF Bank
  <2>4. banks'[d] = [banks[d] EXCEPT !.evidence = evidence[d],
                                     !.eaten = @ \cup {banks[d].of},
                                     !.points = @ + Points(d, f)]
      BY <1>1, <2>1, <2>2 DEF Ingested
  <2>5. Points(d, f) \in Nat
      BY <2>1, PointsAre
  <2>6. evidence[d] \in 0..Top /\ evidence[d] >= banks[d].evidence
      BY <1>1
  <2>7. /\ banks'[d].of = banks[d].of /\ banks'[d].evidence = evidence[d]
        /\ banks'[d].eaten = banks[d].eaten \cup {banks[d].of}
      BY <2>1, <2>4 DEF Bank
  <2>8. banks'[d] = [of |-> banks[d].of, evidence |-> evidence[d],
                     eaten |-> banks[d].eaten \cup {banks[d].of},
                     points |-> banks[d].points + Points(d, f)]
      BY <2>1, <2>4 DEF Bank
  <2>9. banks'[d] \in Bank
    <3>1. banks[d].eaten \in SUBSET (Lives \cup {NoLife})
        BY <2>1 DEF Bank
    <3>2. banks[d].points + Points(d, f) \in Nat
        BY <2>3, <2>5
    <3>3. banks[d].eaten \cup {banks[d].of} \in SUBSET (Lives \cup {NoLife})
        BY <2>3, <3>1
    <3> QED
        BY <2>3, <2>6, <2>8, <3>2, <3>3 DEF Bank
  <2> QED
      BY <2>1, <2>2, <2>6, <2>7, <2>9
<1>4. \A d \in Domains \ Fed(f) : banks'[d] = banks[d]
    BY <1>1
<1>5. banks' \in [Domains -> Bank]
    BY <1>1, <1>3, <1>4 DEF BanksInv
<1>6. Matched(banks', models)
  <2> SUFFICES ASSUME NEW d \in Domains, banks'[d].of # NoLife
               PROVE  models[ModelOf[d]] = banks'[d].of /\ banks'[d].eaten \subseteq {banks'[d].of}
      BY DEF Matched
  <2>1. CASE d \in Fed(f)
      BY <1>2, <1>3, <2>1 DEF ScaleInv, Matched
  <2>2. CASE d \notin Fed(f)
      BY <1>2, <1>4, <2>2 DEF ScaleInv, Matched
  <2> QED
      BY <2>1, <2>2
<1>7. \A d \in Domains : banks'[d].of = banks[d].of
                          /\ banks'[d].evidence >= banks[d].evidence
  <2>1. \A d \in Domains : banks[d].evidence \in Int
      BY DomainsAre DEF BanksInv, Bank
  <2>2. \A d \in Domains : banks[d].evidence >= banks[d].evidence
      BY <2>1
  <2> QED
      BY <1>3, <1>4, <2>2
<1> QED
    BY <1>5, <1>6, <1>7

-----------------------------------------------------------------------------
\* A monitor of a cached file or of a restart, on what a calibration banked.

LEMMA InitHolds == Init => BanksInv /\ ScaleInv
<1> SUFFICES ASSUME Init PROVE BanksInv /\ ScaleInv
    OBVIOUS
<1>1. /\ banks = [d \in Domains |-> NoBank] /\ saved.banks = [d \in Domains |-> NoBank]
      /\ cache.banks = [d \in Domains |-> NoBank]
      /\ models = [m \in Models |-> NoLife] /\ cache.models = [m \in Models |-> NoLife]
    BY DEF Init, NothingSaved, NotCached
<1>2. BanksInv
    BY <1>1, FreshIs DEF BanksInv
<1>3. Matched(banks, models) /\ Matched(cache.banks, cache.models)
    BY <1>1, FreshIs, DomainsAre DEF Matched
<1> QED
    BY <1>1, <1>2, <1>3, FreshIs DEF ScaleInv

LEMMA NothingMatches ==
    ASSUME BanksInv, ScaleInv
    PROVE  /\ NotCached.banks \in [Domains -> Bank]
           /\ NotCached.models \in [Models -> Lives \cup {NoLife}]
           /\ Matched(NotCached.banks, NotCached.models)
<1>1. NotCached.banks = [d \in Domains |-> NoBank]
      /\ NotCached.models = [m \in Models |-> NoLife]
    BY DEF NotCached
<1> QED
    BY <1>1, FreshIs, DomainsAre DEF Matched

LEMMA CalibratePreserves ==
    ASSUME BanksInv, ScaleInv, NEW l \in Lives, Calibrate(l)
    PROVE  BanksInv' /\ ScaleInv'
<1>1. UNCHANGED <<saved, cache>> /\ Install(l)
    BY DEF Calibrate
<1>2. /\ models' \in [Models -> Lives \cup {NoLife}] /\ banks' \in [Domains -> Bank]
      /\ Matched(banks', models')
  <2>1. CASE MagnitudeArms(l)
      BY <1>1, <2>1, CalibrationMatches DEF Install
  <2>2. CASE ~MagnitudeArms(l)
    <3>1. banks' = [banks EXCEPT !["magnitude"] = NoBank]
          /\ models' = [models EXCEPT !["scorer"] = NoLife]
        BY <1>1, <2>2 DEF Install
    <3>2. banks'["magnitude"].of = NoLife
        BY <3>1, DomainsAre, FreshIs DEF BanksInv
    <3> QED
        BY <3>1, <3>2, DomainsAre, FreshIs DEF BanksInv, Matched
  <2> QED
      BY <2>1, <2>2
<1> QED
    BY <1>1, <1>2 DEF BanksInv, ScaleInv

LEMMA RestartAnewPreserves ==
    ASSUME BanksInv, ScaleInv, NEW l \in Lives, RestartAnew(l)
    PROVE  /\ BanksInv' /\ ScaleInv' /\ UNCHANGED <<saved, reset>>
           /\ \E on \in [Domains -> Bank] : banks' = Restored(on)
<1>1. UNCHANGED <<saved, reset>>
    BY DEF RestartAnew
<1>2. CASE MagnitudeArms(l)
  <2>1. /\ models' = Fitted(l) /\ banks' = Restored(Banked(l))
        /\ cache' = [held |-> TRUE, banks |-> Banked(l), models |-> Fitted(l)]
      BY <1>2 DEF RestartAnew
  <2>2. /\ Banked(l) \in [Domains -> Bank] /\ Fitted(l) \in [Models -> Lives \cup {NoLife}]
        /\ Matched(Banked(l), Fitted(l))
      BY <1>2, CalibrationMatches
  <2>3. banks' \in [Domains -> Bank] /\ Matched(banks', models')
      BY <2>1, <2>2, RestoreMatches
  <2>4. cache'.banks = Banked(l) /\ cache'.models = Fitted(l)
      BY <2>1
  <2>5. BanksInv' /\ ScaleInv'
      BY <1>1, <2>1, <2>2, <2>3, <2>4 DEF BanksInv, ScaleInv
  <2> QED
      BY <1>1, <2>1, <2>2, <2>5
<1>3. CASE ~MagnitudeArms(l)
  <2>1. /\ models' = NotCached.models /\ banks' = Restored(NotCached.banks)
        /\ cache' = cache
      BY <1>3 DEF RestartAnew
  <2>2. banks' \in [Domains -> Bank] /\ Matched(banks', models')
      BY <2>1, NothingMatches, RestoreMatches
  <2>3. BanksInv' /\ ScaleInv'
      BY <1>1, <2>1, <2>2, NothingMatches DEF BanksInv, ScaleInv
  <2> QED
      BY <1>1, <2>1, <2>3, NothingMatches
<1> QED
    BY <1>2, <1>3

LEMMA RestartFromCachePreserves ==
    ASSUME BanksInv, ScaleInv, RestartFromCache
    PROVE  BanksInv' /\ ScaleInv'
<1>1. models' = cache.models /\ banks' = Restored(cache.banks)
      /\ saved' = saved /\ cache' = cache
    BY DEF RestartFromCache
<1>2. banks' \in [Domains -> Bank] /\ Matched(banks', models')
    BY <1>1, RestoreMatches DEF BanksInv, ScaleInv
<1> QED
    BY <1>1, <1>2 DEF BanksInv, ScaleInv

LEMMA SavesPreserve ==
    ASSUME BanksInv, ScaleInv, SaveWealth \/ SaveCache
    PROVE  BanksInv' /\ ScaleInv'
<1>1. CASE SaveWealth
  <2>1. /\ banks["magnitude"].of # NoLife /\ saved'.banks = banks
        /\ UNCHANGED <<models, banks, cache>>
      BY <1>1 DEF SaveWealth
  <2> QED
      BY <2>1 DEF BanksInv, ScaleInv, Matched
<1>2. CASE SaveCache
  <2>1. /\ cache'.banks = banks /\ cache'.models = models
        /\ UNCHANGED <<models, banks, saved>>
      BY <1>2 DEF SaveCache
  <2> QED
      BY <2>1 DEF BanksInv, ScaleInv
<1> QED
    BY <1>1, <1>2

LEMMA StepPreserves == BanksInv /\ ScaleInv /\ [Next]_vars => BanksInv' /\ ScaleInv'
<1> SUFFICES ASSUME BanksInv, ScaleInv, [Next]_vars PROVE BanksInv' /\ ScaleInv'
    OBVIOUS
<1>1. ASSUME NEW l \in Lives, Calibrate(l) PROVE BanksInv' /\ ScaleInv'
    BY <1>1, CalibratePreserves
<1>2. ASSUME NEW l \in Lives, RestartAnew(l) PROVE BanksInv' /\ ScaleInv'
    BY <1>2, RestartAnewPreserves
<1>3. CASE ProcessUncalibrated
    BY <1>3 DEF ProcessUncalibrated, BanksInv, ScaleInv
<1>4. ASSUME NEW f \in Frames, Process(f) PROVE BanksInv' /\ ScaleInv'
  <2>1. UNCHANGED <<models, saved, cache>>
      BY <1>4 DEF Process
  <2>2. banks' \in [Domains -> Bank] /\ Matched(banks', models)
      BY <1>4, ProcessMatches
  <2> QED
      BY <2>1, <2>2 DEF BanksInv, ScaleInv
<1>5. CASE SaveWealth \/ SaveCache
    BY <1>5, SavesPreserve
<1>6. CASE RestartFromCache
    BY <1>6, RestartFromCachePreserves
<1>7. CASE UNCHANGED vars
    BY <1>7 DEF vars, BanksInv, ScaleInv
<1> QED
    BY <1>1, <1>2, <1>3, <1>4, <1>5, <1>6, <1>7 DEF Next

LEMMA ScaleHolds == Spec => [](BanksInv /\ ScaleInv)
BY InitHolds, StepPreserves, PTL DEF Spec

\* A bank of a monitor that judges has eaten nothing but the points of the model it was
\* calibrated on (monitor.py calibrate_from_lifetime, process, load_runtime_state), for
\* any lives, any of which may arm any domain.
THEOREM BanksKeepTheirScale == Spec => []OwnScale
<1>1. ScaleInv => OwnScale
    BY DomainsAre DEF ScaleInv, Matched, OwnScale, Usable, Live
<1> QED
    BY <1>1, ScaleHolds, PTL

-----------------------------------------------------------------------------
\* The latch.

\* A bank that is not there has no evidence.
EmptyInv ==
    \A d \in Domains : /\ banks[d].of = NoLife => banks[d].evidence = 0
                       /\ saved.banks[d].of = NoLife => saved.banks[d].evidence = 0
                       /\ cache.banks[d].of = NoLife => cache.banks[d].evidence = 0

Latched(bs) ==
    bs["magnitude"].of # NoLife => \A d \in Domains :
       bs[d].of = saved.banks[d].of /\ Alarmed(saved.banks[d]) => Alarmed(bs[d])

LatchInv == EmptyInv /\ (~reset => Latched(banks))

LEMMA RestoredIsLatched ==
    ASSUME BanksInv, EmptyInv, NEW on \in [Domains -> Bank]
    PROVE  Latched(Restored(on))
<1> SUFFICES ASSUME Restored(on)["magnitude"].of # NoLife, NEW d \in Domains,
                    Restored(on)[d].of = saved.banks[d].of, Alarmed(saved.banks[d])
             PROVE  Alarmed(Restored(on)[d])
    BY DEF Latched
<1>1. \A e \in Domains : Restored(on)[e] = IF on["magnitude"].of # NoLife /\ Restorable(e, on)
                                           THEN saved.banks[e] ELSE on[e]
    BY DEF Restored
<1>2. on["magnitude"].of # NoLife
    BY <1>1, DomainsAre DEF Restorable
<1>3. on[d].of = saved.banks[d].of
    BY <1>1 DEF Restorable
<1>4. saved.banks[d].of # NoLife
    BY DomainsAre DEF EmptyInv, Alarmed
<1>5. Restored(on)[d] = saved.banks[d]
    BY <1>1, <1>2, <1>3, <1>4 DEF Restorable
<1> QED
    BY <1>5

LEMMA RestoredIsEmpty ==
    ASSUME EmptyInv, NEW on \in [Domains -> Bank],
           \A d \in Domains : on[d].of = NoLife => on[d].evidence = 0
    PROVE  \A d \in Domains : Restored(on)[d].of = NoLife => Restored(on)[d].evidence = 0
<1>1. \A d \in Domains : Restored(on)[d] = IF on["magnitude"].of # NoLife /\ Restorable(d, on)
                                           THEN saved.banks[d] ELSE on[d]
    BY DEF Restored
<1> QED
    BY <1>1 DEF EmptyInv

LEMMA LatchInit == Init => LatchInv
<1> SUFFICES ASSUME Init PROVE LatchInv
    OBVIOUS
<1>1. /\ banks = [d \in Domains |-> NoBank] /\ saved.banks = [d \in Domains |-> NoBank]
      /\ cache.banks = [d \in Domains |-> NoBank] /\ reset
    BY DEF Init, NothingSaved, NotCached
<1> QED
    BY <1>1, FreshIs DEF LatchInv, EmptyInv

LEMMA LatchStep == BanksInv /\ ScaleInv /\ LatchInv /\ [Next]_vars => LatchInv'
<1> SUFFICES ASSUME BanksInv, ScaleInv, LatchInv, [Next]_vars PROVE LatchInv'
    OBVIOUS
<1>0. EmptyInv
    BY DEF LatchInv
<1>1. ASSUME NEW l \in Lives, Calibrate(l) PROVE LatchInv'
  <2>1. UNCHANGED <<saved, cache>> /\ reset' /\ Install(l)
      BY <1>1 DEF Calibrate
  <2>2. \A d \in Domains : banks'[d].of = NoLife => banks'[d].evidence = 0
    <3>1. CASE MagnitudeArms(l)
        BY <2>1, <3>1, CalibrationMatches DEF Install
    <3>2. CASE ~MagnitudeArms(l)
        BY <1>0, <2>1, <3>2, FreshIs DEF Install, BanksInv, EmptyInv
    <3> QED
        BY <3>1, <3>2
  <2> QED
      BY <1>0, <2>1, <2>2 DEF LatchInv, EmptyInv
<1>2. ASSUME NEW l \in Lives, RestartAnew(l) PROVE LatchInv'
  <2>1. UNCHANGED <<saved, reset>>
      BY <1>2 DEF RestartAnew
  <2>2. PICK on \in [Domains -> Bank] :
           /\ banks' = Restored(on)
           /\ \A d \in Domains : on[d].of = NoLife => on[d].evidence = 0
           /\ cache'.banks = on \/ cache' = cache
    <3>1. CASE MagnitudeArms(l)
      <4>1. banks' = Restored(Banked(l)) /\ cache'.banks = Banked(l)
          BY <1>2, <3>1 DEF RestartAnew
      <4> QED
          BY <3>1, <4>1, CalibrationMatches
    <3>2. CASE ~MagnitudeArms(l)
      <4>1. banks' = Restored(NotCached.banks) /\ cache' = cache
          BY <1>2, <3>2 DEF RestartAnew
      <4>2. NotCached.banks = [d \in Domains |-> NoBank]
          BY DEF NotCached
      <4> QED
          BY <4>1, <4>2, FreshIs
    <3> QED
        BY <3>1, <3>2
  <2>3. Latched(Restored(on))
      BY <1>0, <2>2, RestoredIsLatched
  <2>4. Latched(banks)'
      BY <2>1, <2>2, <2>3 DEF Latched
  <2>5. EmptyInv'
      BY <1>0, <2>1, <2>2, RestoredIsEmpty DEF EmptyInv
  <2> QED
      BY <2>4, <2>5 DEF LatchInv
<1>3. CASE ProcessUncalibrated
    BY <1>3 DEF ProcessUncalibrated, ghosts, LatchInv, EmptyInv, Latched
<1>4. ASSUME NEW f \in Frames, Process(f) PROVE LatchInv'
  <2>1. UNCHANGED <<saved, cache, reset>>
      BY <1>4 DEF Process, ghosts
  <2>2. \A d \in Domains : banks'[d].of = banks[d].of
                          /\ banks'[d].evidence >= banks[d].evidence
      BY <1>4, ProcessMatches
  <2>3. \A d \in Domains : /\ banks[d].evidence \in Int /\ saved.banks[d].evidence \in Int
                          /\ banks'[d] \in Bank /\ banks'[d].evidence \in Int
      BY <1>4, ProcessMatches, DomainsAre DEF BanksInv, Bank
  <2>4. \A d \in Domains : Alarmed(banks[d]) => Alarmed(banks'[d])
      BY <2>2, <2>3, DomainsAre DEF Alarmed
  <2>5. (~reset => Latched(banks))'
      BY <2>1, <2>2, <2>4, DomainsAre DEF LatchInv, Latched
  <2>6. ASSUME NEW d \in Domains, banks'[d].of = NoLife PROVE banks'[d].evidence = 0
    <3>1. d \notin Fed(f)
        BY <2>2, <2>6 DEF Fed, Updated, Live
    <3>2. banks'[d] = banks[d]
        BY <1>4, <3>1 DEF Process
    <3> QED
        BY <1>0, <2>6, <3>2 DEF EmptyInv
  <2>7. EmptyInv'
      BY <1>0, <2>1, <2>6 DEF EmptyInv
  <2> QED
      BY <2>5, <2>7 DEF LatchInv
<1>5. CASE SaveWealth
  <2>1. saved'.banks = banks /\ UNCHANGED <<banks, cache>>
      BY <1>5 DEF SaveWealth
  <2> QED
      BY <1>0, <2>1 DEF LatchInv, EmptyInv, Latched
<1>6. CASE SaveCache
  <2>1. cache'.banks = banks /\ UNCHANGED <<banks, saved, reset>>
      BY <1>6 DEF SaveCache, ghosts
  <2> QED
      BY <1>0, <2>1 DEF LatchInv, EmptyInv, Latched
<1>7. CASE RestartFromCache
  <2>1. banks' = Restored(cache.banks) /\ UNCHANGED <<saved, cache>>
      BY <1>7 DEF RestartFromCache
  <2>2. cache.banks \in [Domains -> Bank]
        /\ \A d \in Domains : cache.banks[d].of = NoLife => cache.banks[d].evidence = 0
      BY <1>0 DEF BanksInv, EmptyInv
  <2>3. Latched(Restored(cache.banks))
      BY <1>0, <2>2, RestoredIsLatched
  <2>4. Latched(banks)'
      BY <2>1, <2>3 DEF Latched
  <2>5. EmptyInv'
      BY <1>0, <2>1, <2>2, RestoredIsEmpty DEF EmptyInv
  <2> QED
      BY <2>4, <2>5 DEF LatchInv
<1>8. CASE UNCHANGED vars
    BY <1>8 DEF vars, ghosts, LatchInv, EmptyInv, Latched
<1> QED
    BY <1>1, <1>2, <1>3, <1>4, <1>5, <1>6, <1>7, <1>8 DEF Next

\* A latched bank that reached the snapshot is latched in every later monitor with a
\* main bank, across both kinds of restart, until a calibration (monitor.py
\* save_runtime_state, load_runtime_state; runtime.py boot).
THEOREM AlarmsSurviveRestarts == Spec => []LatchIsDurable
<1>1. LatchInv => LatchIsDurable
    BY DEF LatchInv, Latched, LatchIsDurable, Usable
<1>2. Init => BanksInv /\ ScaleInv /\ LatchInv
    BY InitHolds, LatchInit
<1>3. BanksInv /\ ScaleInv /\ LatchInv /\ [Next]_vars => (BanksInv /\ ScaleInv /\ LatchInv)'
    BY StepPreserves, LatchStep
<1> QED
    BY <1>1, <1>2, <1>3, PTL DEF Spec
-----------------------------------------------------------------------------
\* The verdict.

LEMMA RankIs ==
    /\ \A d \in ToSet(Aux) : d \in Domains /\ Rank(d) \in Nat /\ Aux[Rank(d)] = d
    /\ Domains = {"magnitude", "availability"} \cup ToSet(Aux)
<1>1. ASSUME NEW d \in ToSet(Aux)
      PROVE  d \in Domains /\ Rank(d) \in Nat /\ Aux[Rank(d)] = d
  <2>1. \E i \in 1..Len(Aux) : Aux[i] = d
      BY DEF ToSet, Aux
  <2>2. Rank(d) \in 1..Len(Aux) /\ Aux[Rank(d)] = d
      BY <2>1 DEF Rank
  <2>3. Len(Aux) \in Nat
      BY DEF Aux
  <2> QED
      BY <2>2, <2>3 DEF Domains
<1> QED
    BY <1>1 DEF Domains

\* Of alarmed auxiliary domains, one is the strongest: the greatest evidence first,
\* then the first in the order of Aux.
LEMMA StrongestIs ==
    ASSUME NEW now \in [Domains -> Bank], NEW alarms \in SUBSET ToSet(Aux), alarms # {}
    PROVE  Strongest(alarms, now) \in alarms
<1> DEFINE Missing == {Top - now[d].evidence : d \in alarms}
<1>1. \A d \in alarms : /\ d \in Domains /\ Rank(d) \in Nat /\ Aux[Rank(d)] = d
                        /\ now[d].evidence \in 0..Top
    BY RankIs DEF Bank
<1>2. Missing \subseteq Nat /\ Missing # {}
    BY <1>1, DomainsAre
<1>3. PICK least \in Missing : \A n \in Missing : least <= n
    BY <1>2, LeastNumber
<1> DEFINE tied  == {d \in alarms : Top - now[d].evidence = least}
           Ranks == {Rank(d) : d \in tied}
<1>4. Ranks \subseteq Nat /\ Ranks # {}
    BY <1>1, <1>3
<1>5. PICK first \in Ranks : \A n \in Ranks : first <= n
    BY <1>4, LeastNumber
<1>6. PICK d \in tied : Rank(d) = first
    BY <1>5
<1>7. ASSUME NEW e \in alarms \ {d}
      PROVE  \/ now[d].evidence > now[e].evidence
             \/ now[d].evidence = now[e].evidence /\ Rank(d) < Rank(e)
  <2>1. /\ now[d].evidence \in 0..Top /\ now[e].evidence \in 0..Top /\ Top \in Nat
        /\ Rank(d) \in Nat /\ Rank(e) \in Nat /\ Rank(d) # Rank(e)
      BY <1>1, <1>6, DomainsAre
  <2>2. Top - now[d].evidence = least /\ least <= Top - now[e].evidence
      BY <1>3, <1>6
  <2>3. CASE e \in tied
    <3>1. Top - now[e].evidence = least /\ Rank(d) <= Rank(e)
        BY <1>5, <1>6, <2>3
    <3> QED
        BY <2>1, <2>2, <3>1
  <2>4. CASE e \notin tied
      BY <2>1, <2>2, <2>4
  <2> QED
      BY <2>3, <2>4
<1>8. \E x \in alarms : \A e \in alarms \ {x} :
         \/ now[x].evidence > now[e].evidence
         \/ now[x].evidence = now[e].evidence /\ Rank(x) < Rank(e)
    BY <1>6, <1>7
<1> QED
    BY <1>8 DEF Strongest

Spoken == {"healthy", "watch", "alarm"}

VerdictTyped ==
    /\ verdict.state \in {"none", "insufficient"} \cup Spoken
    /\ verdict.domain \in Domains \cup {"none"} /\ verdict.evidence \in 0..Top

LEMMA NamedIs ==
    ASSUME NEW now \in [Domains -> Bank], NEW d \in Domains
    PROVE  /\ Named(d, now).state \in Spoken /\ Named(d, now).domain = d
           /\ Named(d, now).evidence = now[d].evidence /\ now[d].evidence \in 0..Top
           /\ Named(d, now).state = "alarm" <=> Alarmed(now[d])
BY DEF Named, State, Spoken, Bank

\* What a verdict over this frame says of these banks.
Faithful(v, f, now) ==
    LET latched == {d \in Heard(f) : Alarmed(now[d])}
    IN  IF latched = {} THEN v.state # "alarm"
        ELSE v.state = "alarm" /\ v.domain \in latched /\ v.evidence = now[v.domain].evidence

LEMMA JudgedIs ==
    ASSUME NEW f \in Frames, NEW now \in [Domains -> Bank], "magnitude" \in Live
    PROVE  /\ Judged(f, now).state \in Spoken /\ Judged(f, now).domain \in Domains
           /\ Judged(f, now).evidence \in 0..Top
           /\ Faithful(Judged(f, now), f, now)
<1> DEFINE alarms == {d \in Heard(f) : Alarmed(now[d])}
           aux    == alarms \cap ToSet(Aux)
<1>1. "magnitude" \in Heard(f) /\ Heard(f) \subseteq Domains
    BY DEF Heard, Live
<1>2. CASE "magnitude" \in alarms \/ alarms = {}
  <2>1. Judged(f, now) = Named("magnitude", now)
      BY <1>2 DEF Judged
  <2>2. alarms = {} => ~Alarmed(now["magnitude"])
      BY <1>1
  <2> QED
      BY <1>1, <1>2, <2>1, <2>2, NamedIs, DomainsAre DEF Faithful
<1>3. CASE ~("magnitude" \in alarms \/ alarms = {}) /\ "availability" \in alarms
  <2>1. Judged(f, now) = Named("availability", now)
      BY <1>3 DEF Judged
  <2> QED
      BY <1>1, <1>3, <2>1, NamedIs DEF Faithful
<1>4. CASE ~("magnitude" \in alarms \/ alarms = {}) /\ "availability" \notin alarms
  <2>1. Judged(f, now) = Named(Strongest(aux, now), now)
      BY <1>4 DEF Judged
  <2>2. aux # {} /\ aux \in SUBSET ToSet(Aux)
      BY <1>1, <1>4, RankIs
  <2>3. Strongest(aux, now) \in alarms
      BY <2>2, StrongestIs
  <2> QED
      BY <1>1, <1>4, <2>1, <2>3, NamedIs DEF Faithful
<1> QED
    BY <1>2, <1>3, <1>4

\* The horizon pair, and the values BanksInv does not speak of.
Paired(bs) == (bs["horizon-gap"].of = NoLife) = (bs["predictability-band"].of = NoLife)

RestInv ==
    /\ VerdictTyped /\ frames \in Seq(Frames) /\ saved.frames \in Seq(Frames)
    /\ reset \in BOOLEAN /\ cache.held \in BOOLEAN /\ calibrations \in 0..MaxCalibrations
    /\ Paired(banks) /\ Paired(cache.banks)
    /\ verdict.state \in Spoken => Faithful(verdict, Last(frames), banks)

LEMMA QuietVerdict ==
    /\ \A v : v = NoVerdict \/ v = [NoVerdict EXCEPT !.state = "insufficient"] =>
          /\ v.state \in {"none", "insufficient"} /\ v.state \notin Spoken
          /\ v.domain \in Domains \cup {"none"} /\ v.evidence \in 0..Top
BY DomainsAre DEF NoVerdict, Spoken

LEMMA BankedIsPaired ==
    ASSUME NEW l \in Lives
    PROVE  Paired(Banked(l)) /\ Paired(NotCached.banks)
<1>1. "horizon-gap" \in Domains /\ "predictability-band" \in Domains
    BY DEF Domains, ToSet, Aux
<1>2. Arms(l, "horizon-gap") = Arms(l, "predictability-band")
    BY DEF Arms
<1> QED
    BY <1>1, <1>2, FreshIs, DomainsAre DEF Paired, Banked, NotCached

LEMMA RestoredKeepsLives ==
    ASSUME NEW on
    PROVE  \A d \in Domains : Restored(on)[d].of = on[d].of
BY DEF Restored, Restorable

LEMMA PairIsKept ==
    ASSUME NEW before, NEW after, Paired(before),
           \A d \in Domains : after[d].of = before[d].of
    PROVE  Paired(after)
<1>1. "horizon-gap" \in Domains /\ "predictability-band" \in Domains
    BY DEF Domains, ToSet, Aux
<1> QED
    BY <1>1 DEF Paired

LEMMA RestoredFramesAre ==
    ASSUME RestInv, NEW on
    PROVE  RestoredFrames(on) \in Seq(Frames)
BY DEF RestoredFrames, RestInv

LEMMA RestInit == Init => RestInv
<1> SUFFICES ASSUME Init PROVE RestInv
    OBVIOUS
<1>1. /\ banks = [d \in Domains |-> NoBank] /\ cache.banks = [d \in Domains |-> NoBank]
      /\ cache.held = FALSE /\ saved.frames = <<>> /\ frames = <<>> /\ reset = TRUE
      /\ calibrations = 0 /\ verdict = NoVerdict
    BY DEF Init, NothingSaved, NotCached
<1>2. "horizon-gap" \in Domains /\ "predictability-band" \in Domains
    BY DEF Domains, ToSet, Aux
<1>3. Paired(banks) /\ Paired(cache.banks)
    BY <1>1, <1>2 DEF Paired
<1>4. MaxCalibrations \in Nat
    BY MonitorAssumption DEF MonitorAssumption
<1>5. VerdictTyped /\ verdict.state \notin Spoken
    BY <1>1, QuietVerdict DEF VerdictTyped
<1>6. calibrations \in 0..MaxCalibrations
    BY <1>1, <1>4
<1>7. frames \in Seq(Frames) /\ saved.frames \in Seq(Frames)
    BY <1>1
<1>8. reset \in BOOLEAN /\ cache.held \in BOOLEAN
    BY <1>1
<1> QED
    BY <1>3, <1>5, <1>6, <1>7, <1>8 DEF RestInv

LEMMA RestStep == BanksInv /\ ScaleInv /\ RestInv /\ [Next]_vars => RestInv'
<1> SUFFICES ASSUME BanksInv, ScaleInv, RestInv, [Next]_vars PROVE RestInv'
    OBVIOUS
<1>0. "horizon-gap" \in Domains /\ "predictability-band" \in Domains
      /\ MaxCalibrations \in Nat /\ <<>> \in Seq(Frames)
    BY MonitorAssumption DEF Domains, ToSet, Aux, MonitorAssumption
<1>1. ASSUME NewCalibration
      PROVE  /\ calibrations' \in 0..MaxCalibrations /\ verdict' = NoVerdict
             /\ VerdictTyped' /\ verdict'.state \notin Spoken
  <2>1. verdict' = NoVerdict /\ calibrations < MaxCalibrations
        /\ calibrations' = calibrations + 1
      BY <1>1 DEF NewCalibration
  <2> QED
      BY <1>0, <2>1, QuietVerdict DEF RestInv, VerdictTyped
<1>2. ASSUME NEW l \in Lives, Calibrate(l) PROVE RestInv'
  <2>1. /\ UNCHANGED <<saved, cache>> /\ Install(l) /\ NewCalibration
        /\ frames' = <<>> /\ reset' = TRUE
      BY <1>2 DEF Calibrate
  <2>2. Paired(banks')
    <3>1. CASE MagnitudeArms(l)
        BY <2>1, <3>1, BankedIsPaired DEF Install
    <3>2. CASE ~MagnitudeArms(l)
      <4>1. banks' = [banks EXCEPT !["magnitude"] = NoBank]
          BY <2>1, <3>2 DEF Install
      <4>2. banks'["horizon-gap"] = banks["horizon-gap"]
            /\ banks'["predictability-band"] = banks["predictability-band"]
          BY <1>0, <4>1 DEF BanksInv
      <4> QED
          BY <4>2 DEF RestInv, Paired
    <3> QED
        BY <3>1, <3>2
  <2> QED
      BY <1>0, <1>1, <2>1, <2>2 DEF RestInv
<1>3. ASSUME NEW l \in Lives, RestartAnew(l) PROVE RestInv'
  <2>1. UNCHANGED <<saved, reset>> /\ NewCalibration
      BY <1>3 DEF RestartAnew
  <2>2. PICK on : /\ banks' = Restored(on) /\ frames' = RestoredFrames(on) /\ Paired(on)
                  /\ \/ cache' = cache
                     \/ cache'.held /\ cache'.banks = on
    <3>1. CASE MagnitudeArms(l)
      <4>1. /\ banks' = Restored(Banked(l)) /\ frames' = RestoredFrames(Banked(l))
            /\ cache' = [held |-> TRUE, banks |-> Banked(l), models |-> models']
          BY <1>3, <3>1 DEF RestartAnew
      <4> QED
          BY <4>1, BankedIsPaired
    <3>2. CASE ~MagnitudeArms(l)
      <4>1. /\ banks' = Restored(NotCached.banks) /\ frames' = RestoredFrames(NotCached.banks)
            /\ cache' = cache
          BY <1>3, <3>2 DEF RestartAnew
      <4> QED
          BY <4>1, BankedIsPaired
    <3> QED
        BY <3>1, <3>2
  <2>3. Paired(banks')
      BY <2>2, RestoredKeepsLives, PairIsKept
  <2>4. frames' \in Seq(Frames)
      BY <2>2, RestoredFramesAre
  <2>5. cache'.held \in BOOLEAN /\ Paired(cache'.banks)
    <3>1. CASE cache' = cache
        BY <3>1 DEF RestInv
    <3>2. CASE cache'.held /\ cache'.banks = on
        BY <1>3, <2>2, <3>2 DEF RestartAnew, RestInv
    <3> QED
        BY <2>2, <3>1, <3>2
  <2> QED
      BY <1>1, <2>1, <2>3, <2>4, <2>5 DEF RestInv
<1>4. CASE ProcessUncalibrated
  <2>1. /\ verdict' = [NoVerdict EXCEPT !.state = "insufficient"]
        /\ UNCHANGED <<banks, saved, cache, frames, reset, calibrations>>
      BY <1>4 DEF ProcessUncalibrated, ghosts
  <2>2. VerdictTyped' /\ verdict'.state \notin Spoken
      BY <2>1, QuietVerdict DEF VerdictTyped
  <2> QED
      BY <2>1, <2>2 DEF RestInv
<1>5. ASSUME NEW f \in Frames, Process(f) PROVE RestInv'
  <2>1. /\ UNCHANGED <<models, saved, cache, reset, calibrations>>
        /\ frames' = Append(frames, f) /\ verdict' = Judged(f, banks') /\ Usable
      BY <1>5 DEF Process, ghosts
  <2>2. /\ banks' \in [Domains -> Bank]
        /\ \A d \in Domains : banks'[d].of = banks[d].of
      BY <1>5, ProcessMatches
  <2>3. "magnitude" \in Live
      BY <2>1, DomainsAre DEF Usable, Live
  <2>4. /\ verdict'.state \in Spoken /\ verdict'.domain \in Domains
        /\ verdict'.evidence \in 0..Top /\ Faithful(verdict', f, banks')
      BY <2>1, <2>2, <2>3, JudgedIs
  <2>5. Live' = Live
      BY <2>1, <2>2 DEF Live
  <2>6. Heard(f)' = Heard(f)
      BY <2>5 DEF Heard
  <2>7. frames' \in Seq(Frames) /\ Last(frames') = f
      BY <2>1 DEF RestInv, Last
  <2>8. Faithful(verdict, Last(frames), banks)'
      BY <2>4, <2>6, <2>7 DEF Faithful
  <2>9. Paired(banks')
      BY <2>2, PairIsKept DEF RestInv
  <2> QED
      BY <2>1, <2>4, <2>7, <2>8, <2>9 DEF RestInv, VerdictTyped
<1>6. ASSUME UNCHANGED <<models, banks, verdict, frames>>
      PROVE  (verdict.state \in Spoken => Faithful(verdict, Last(frames), banks))'
  <2>1. Heard(Last(frames))' = Heard(Last(frames))
      BY <1>6 DEF Heard, Live
  <2> QED
      BY <1>6, <2>1 DEF RestInv, Faithful
<1>7. CASE SaveWealth
  <2>1. /\ saved'.frames = frames /\ reset' = FALSE
        /\ UNCHANGED <<models, banks, verdict, cache, frames, calibrations>>
      BY <1>7 DEF SaveWealth
  <2> QED
      BY <1>6, <2>1 DEF RestInv, VerdictTyped
<1>8. CASE SaveCache
  <2>1. /\ cache'.held = TRUE /\ cache'.banks = banks
        /\ UNCHANGED <<models, banks, verdict, saved, frames, reset, calibrations>>
      BY <1>8 DEF SaveCache, ghosts
  <2> QED
      BY <1>6, <2>1 DEF RestInv, VerdictTyped
<1>9. CASE RestartFromCache
  <2>1. /\ banks' = Restored(cache.banks) /\ frames' = RestoredFrames(cache.banks)
        /\ verdict' = NoVerdict /\ UNCHANGED <<saved, cache, reset, calibrations>>
      BY <1>9 DEF RestartFromCache, ghosts
  <2>2. Paired(banks')
      BY <2>1, RestoredKeepsLives, PairIsKept DEF RestInv
  <2>3. frames' \in Seq(Frames)
      BY <2>1, RestoredFramesAre
  <2>4. VerdictTyped' /\ verdict'.state \notin Spoken
      BY <2>1, QuietVerdict DEF VerdictTyped
  <2> QED
      BY <2>1, <2>2, <2>3, <2>4 DEF RestInv
<1>10. CASE UNCHANGED vars
  <2>1. UNCHANGED <<models, banks, verdict, saved, cache, frames, reset, calibrations>>
      BY <1>10 DEF vars, ghosts
  <2> QED
      BY <1>6, <2>1 DEF RestInv, VerdictTyped
<1> QED
    BY <1>2, <1>3, <1>4, <1>5, <1>7, <1>8, <1>9, <1>10 DEF Next

LEMMA RestHolds == Spec => [](BanksInv /\ ScaleInv /\ RestInv)
<1>1. Init => BanksInv /\ ScaleInv /\ RestInv
    BY InitHolds, RestInit
<1>2. BanksInv /\ ScaleInv /\ RestInv /\ [Next]_vars => (BanksInv /\ ScaleInv /\ RestInv)'
    BY StepPreserves, RestStep
<1> QED
    BY <1>1, <1>2, PTL DEF Spec

\* Every value stays in its type, the two banks of the horizon scorer are there
\* together or not at all (monitor.py calibrate_from_lifetime, load_runtime_state).
THEOREM MonitorTypeCorrect == Spec => []TypeOK
<1>1. BanksInv /\ RestInv => TypeOK
    BY DEF BanksInv, RestInv, VerdictTyped, Spoken, Paired, TypeOK
<1> QED
    BY <1>1, RestHolds, PTL

\* The verdict is an alarm exactly when a domain that has a say over the last frame is
\* latched, and names such a domain with its evidence (monitor.py process), for any
\* number of domains alarmed at once.
THEOREM AlarmsSpeakUp == Spec => []AlarmsAreHeard
<1>1. RestInv => AlarmsAreHeard
    BY DEF RestInv, Spoken, Faithful, AlarmsAreHeard
<1> QED
    BY <1>1, RestHolds, PTL
-----------------------------------------------------------------------------
\* The points.

Weights(d, fs) == [i \in DOMAIN fs |-> Points(d, fs[i])]

LEMMA WeightsAre ==
    ASSUME NEW d \in Domains, NEW fs \in Seq(Frames)
    PROVE  /\ Made(d, fs) = SumFunctionOnSet(Weights(d, fs), 1..Len(fs))
           /\ Summable(Weights(d, fs), 1..Len(fs))
<1>1. DOMAIN fs = 1..Len(fs) /\ Len(fs) \in Nat /\ \A i \in 1..Len(fs) : fs[i] \in Frames
    OBVIOUS
<1>2. IsFiniteSet(1..Len(fs))
    BY <1>1, FS_Interval
<1>3. \A i \in 1..Len(fs) : Weights(d, fs)[i] \in Int
    BY <1>1, PointsAre DEF Weights
<1>4. DOMAIN Weights(d, fs) = 1..Len(fs)
    BY <1>1 DEF Weights
<1>5. Made(d, fs) = SumFunctionOnSet(Weights(d, fs), DOMAIN Weights(d, fs))
    BY DEF Made, SumFunction, Weights
<1> QED
    BY <1>2, <1>3, <1>4, <1>5 DEF Summable

LEMMA NoneMade == ASSUME NEW d \in Domains PROVE Made(d, <<>>) = 0
<1>1. <<>> \in Seq(Frames) /\ 1..Len(<<>>) = {}
    OBVIOUS
<1>2. Made(d, <<>>) = SumFunctionOnSet(Weights(d, <<>>), {})
      /\ Summable(Weights(d, <<>>), {})
    BY <1>1, WeightsAre
<1> QED
    BY <1>2, SumLaws

LEMMA MoreMade ==
    ASSUME NEW d \in Domains, NEW fs \in Seq(Frames), NEW f \in Frames
    PROVE  Made(d, Append(fs, f)) = Made(d, fs) + Points(d, f)
<1> DEFINE n   == Len(fs)
           gs  == Append(fs, f)
           old == Weights(d, fs)
           new == Weights(d, gs)
<1>1. gs \in Seq(Frames) /\ n \in Nat /\ Len(gs) = n + 1
    OBVIOUS
<1>2. 1..(n + 1) = (1..n) \cup {n + 1} /\ n + 1 \notin 1..n
    BY <1>1
<1>3. \A i \in 1..n : gs[i] = fs[i]
    OBVIOUS
<1>4. gs[n + 1] = f /\ DOMAIN gs = 1..(n + 1) /\ DOMAIN fs = 1..n
    OBVIOUS
<1>5. \A i \in 1..n : old[i] = new[i]
    BY <1>2, <1>3, <1>4 DEF Weights
<1>6. new[n + 1] = Points(d, f) /\ Points(d, f) \in Int
    BY <1>2, <1>4, PointsAre DEF Weights
<1>7. Made(d, fs) = SumFunctionOnSet(old, 1..n) /\ Summable(old, 1..n)
    BY WeightsAre
<1>8. Made(d, gs) = SumFunctionOnSet(new, 1..(n + 1)) /\ Summable(new, 1..(n + 1))
    BY <1>1, WeightsAre
<1>9. Summable(new, 1..n)
    BY <1>5, <1>7 DEF Summable
<1>10. SumFunctionOnSet(old, 1..n) = SumFunctionOnSet(new, 1..n)
       /\ SumFunctionOnSet(old, 1..n) \in Int
    BY <1>5, <1>7, SumOfEquals, SumLaws
<1>11. SumFunctionOnSet(new, (1..n) \cup {n + 1}) = new[n + 1] + SumFunctionOnSet(new, 1..n)
    BY <1>2, <1>6, <1>9, SumAdd
<1>12. SumFunctionOnSet(new, 1..(n + 1)) = new[n + 1] + SumFunctionOnSet(new, 1..n)
    BY <1>2, <1>11
<1>13. Made(d, gs) = Points(d, f) + Made(d, fs) /\ Made(d, fs) \in Int
    BY <1>6, <1>7, <1>8, <1>10, <1>12
<1> QED
    BY <1>6, <1>13

\* A monitor with a main bank has the banks of one calibration ...
Whole(bs) ==
    bs["magnitude"].of # NoLife => \A d \in Domains :
       bs[d].of = IF Arms(bs["magnitude"].of, d) THEN bs["magnitude"].of ELSE NoLife

\* ... which have eaten what these frames make.
Ate(bs, fs) ==
    bs["magnitude"].of # NoLife =>
       \A d \in Domains : bs[d].of # NoLife => bs[d].points = Made(d, fs)

FedInv ==
    /\ Whole(banks) /\ Whole(saved.banks) /\ Whole(cache.banks)
    /\ Ate(banks, frames) /\ Ate(saved.banks, saved.frames) /\ Ate(cache.banks, <<>>)
    /\ saved.banks["magnitude"].of = NoLife => \A d \in Domains : saved.banks[d].of = NoLife

LEMMA CalibrationIsWhole ==
    ASSUME NEW l \in Lives, MagnitudeArms(l)
    PROVE  Whole(Banked(l)) /\ Ate(Banked(l), <<>>)
<1>1. \A d \in Domains : Banked(l)[d] = IF Arms(l, d) THEN Fresh(l) ELSE NoBank
    BY DEF Banked
<1>2. \A d \in Domains : Banked(l)[d].of = IF Arms(l, d) THEN l ELSE NoLife
    BY <1>1, FreshIs
<1>3. Arms(l, "magnitude") /\ Banked(l)["magnitude"].of = l
    BY <1>2, DomainsAre DEF Arms
<1>4. \A d \in Domains : Banked(l)[d].points = 0
    BY <1>1 DEF Fresh, NoBank
<1> QED
    BY <1>2, <1>3, <1>4, NoneMade DEF Whole, Ate

LEMMA NothingIsWhole ==
    Whole(NotCached.banks) /\ Ate(NotCached.banks, <<>>)
<1>1. NotCached.banks["magnitude"].of = NoLife
    BY FreshIs, DomainsAre DEF NotCached
<1> QED
    BY <1>1 DEF Whole, Ate

\* The wealth of a calibration goes back to all of its banks or to none.
LEMMA RestoredIsWhole ==
    ASSUME FedInv, NEW on, Whole(on), Ate(on, <<>>)
    PROVE  Whole(Restored(on)) /\ Ate(Restored(on), RestoredFrames(on))
<1>1. \A d \in Domains : Restored(on)[d] = IF on["magnitude"].of # NoLife /\ Restorable(d, on)
                                           THEN saved.banks[d] ELSE on[d]
    BY DEF Restored
<1>2. \A d \in Domains : Restored(on)[d].of = on[d].of
    BY RestoredKeepsLives
<1>3. Whole(Restored(on))
    BY <1>2, DomainsAre DEF Whole
<1>4. SUFFICES ASSUME on["magnitude"].of # NoLife, NEW d \in Domains, on[d].of # NoLife
               PROVE  Restored(on)[d].points = Made(d, RestoredFrames(on))
    BY <1>2, <1>3, DomainsAre DEF Ate
<1>5. on[d].of = on["magnitude"].of /\ Arms(on["magnitude"].of, d)
    BY <1>4 DEF Whole
<1>6. CASE Restorable("magnitude", on)
  <2>1. /\ saved.banks["magnitude"].of = on["magnitude"].of
        /\ RestoredFrames(on) = saved.frames
      BY <1>4, <1>6 DEF Restorable, RestoredFrames
  <2>2. saved.banks[d].of = on[d].of
      BY <1>4, <1>5, <2>1 DEF FedInv, Whole
  <2>3. Restored(on)[d] = saved.banks[d]
      BY <1>1, <1>4, <2>2 DEF Restorable
  <2> QED
      BY <1>4, <2>1, <2>2, <2>3 DEF FedInv, Ate
<1>7. CASE ~Restorable("magnitude", on)
  <2>1. RestoredFrames(on) = <<>>
      BY <1>7 DEF RestoredFrames
  <2>2. ~Restorable(d, on)
    <3>1. SUFFICES ASSUME saved.banks[d].of # NoLife, on[d].of = saved.banks[d].of
                   PROVE  FALSE
        BY DEF Restorable
    <3>2. saved.banks["magnitude"].of # NoLife
        BY <3>1 DEF FedInv
    <3>3. saved.banks[d].of = saved.banks["magnitude"].of
        BY <3>1, <3>2 DEF FedInv, Whole
    <3> QED
        BY <1>5, <1>7, <3>1, <3>2, <3>3 DEF Restorable
  <2>3. Restored(on)[d] = on[d]
      BY <1>1, <2>2
  <2> QED
      BY <1>4, <2>1, <2>3 DEF Ate
<1> QED
    BY <1>6, <1>7

LEMMA ProcessFeeds ==
    ASSUME BanksInv, ScaleInv, RestInv, FedInv, NEW f \in Frames, Process(f)
    PROVE  Whole(banks') /\ Ate(banks', frames')
<1>1. Usable /\ frames' = Append(frames, f) /\ frames \in Seq(Frames)
    BY DEF Process, RestInv
<1>2. \A d \in Domains : banks'[d].of = banks[d].of
    BY ProcessMatches
<1>3. Whole(banks')
    BY <1>2, DomainsAre DEF FedInv, Whole
<1>4. banks["magnitude"].of # NoLife
    BY <1>1 DEF Usable
<1>5. ASSUME NEW d \in Domains, banks[d].of # NoLife
      PROVE  banks'[d].points = Made(d, Append(frames, f))
  <2>1. models[ModelOf[d]] = banks[d].of
      BY <1>4, <1>5 DEF ScaleInv, Matched
  <2>2. d \in Updated
      BY <1>5, <2>1 DEF Updated, Live
  <2>3. banks[d].points = Made(d, frames) /\ banks[d].points \in Nat
      BY <1>4, <1>5 DEF FedInv, Ate, BanksInv, Bank
  <2>4. Points(d, f) \in Nat
      BY PointsAre
  <2>5. Made(d, Append(frames, f)) = Made(d, frames) + Points(d, f)
      BY <1>1, MoreMade
  <2>6. PICK evidence \in [Fed(f) -> 0..Top] :
           banks' = [e \in Domains |-> IF e \in Fed(f) THEN Ingested(e, f, evidence[e])
                                                      ELSE banks[e]]
      BY DEF Process
  <2>7. CASE d \in Fed(f)
    <3>1. banks'[d] = Ingested(d, f, evidence[d])
        BY <2>6, <2>7
    <3>2. banks'[d].points = banks[d].points + Points(d, f)
        BY <3>1 DEF Ingested, BanksInv, Bank
    <3> QED
        BY <2>3, <2>5, <3>2
  <2>8. CASE d \notin Fed(f)
    <3>1. Points(d, f) = 0
        BY <2>2, <2>4, <2>8 DEF Fed
    <3>2. banks'[d] = banks[d]
        BY <2>6, <2>8
    <3> QED
        BY <2>3, <2>5, <3>1, <3>2
  <2> QED
      BY <2>7, <2>8
<1> QED
    BY <1>1, <1>2, <1>3, <1>5 DEF Ate

LEMMA FedInit == Init => FedInv
<1> SUFFICES ASSUME Init PROVE FedInv
    OBVIOUS
<1>1. /\ banks = [d \in Domains |-> NoBank] /\ saved.banks = [d \in Domains |-> NoBank]
      /\ cache.banks = [d \in Domains |-> NoBank]
    BY DEF Init, NothingSaved, NotCached
<1> QED
    BY <1>1, FreshIs, DomainsAre DEF FedInv, Whole, Ate

LEMMA FedStep == BanksInv /\ ScaleInv /\ RestInv /\ FedInv /\ [Next]_vars => FedInv'
<1> SUFFICES ASSUME BanksInv, ScaleInv, RestInv, FedInv, [Next]_vars PROVE FedInv'
    OBVIOUS
<1>1. ASSUME NEW l \in Lives, Calibrate(l) PROVE FedInv'
  <2>1. UNCHANGED <<saved, cache>> /\ Install(l) /\ frames' = <<>>
      BY <1>1 DEF Calibrate
  <2>2. Whole(banks') /\ Ate(banks', frames')
    <3>1. CASE MagnitudeArms(l)
        BY <2>1, <3>1, CalibrationIsWhole DEF Install
    <3>2. CASE ~MagnitudeArms(l)
      <4>1. banks'["magnitude"].of = NoLife
          BY <2>1, <3>2, FreshIs, DomainsAre DEF Install, BanksInv
      <4> QED
          BY <4>1 DEF Whole, Ate
    <3> QED
        BY <3>1, <3>2
  <2> QED
      BY <2>1, <2>2 DEF FedInv
<1>2. ASSUME NEW l \in Lives, RestartAnew(l) PROVE FedInv'
  <2>1. UNCHANGED saved
      BY <1>2 DEF RestartAnew
  <2>2. PICK on : /\ banks' = Restored(on) /\ frames' = RestoredFrames(on)
                  /\ Whole(on) /\ Ate(on, <<>>)
                  /\ cache' = cache \/ cache'.banks = on
    <3>1. CASE MagnitudeArms(l)
      <4>1. /\ banks' = Restored(Banked(l)) /\ frames' = RestoredFrames(Banked(l))
            /\ cache' = [held |-> TRUE, banks |-> Banked(l), models |-> models']
          BY <1>2, <3>1 DEF RestartAnew
      <4> QED
          BY <3>1, <4>1, CalibrationIsWhole
    <3>2. CASE ~MagnitudeArms(l)
      <4>1. /\ banks' = Restored(NotCached.banks) /\ frames' = RestoredFrames(NotCached.banks)
            /\ cache' = cache
          BY <1>2, <3>2 DEF RestartAnew
      <4> QED
          BY <4>1, NothingIsWhole
    <3> QED
        BY <3>1, <3>2
  <2>3. Whole(banks') /\ Ate(banks', frames')
      BY <2>2, RestoredIsWhole
  <2>4. Whole(cache'.banks) /\ Ate(cache'.banks, <<>>)
      BY <2>2 DEF FedInv
  <2> QED
      BY <2>1, <2>3, <2>4 DEF FedInv
<1>3. CASE ProcessUncalibrated
    BY <1>3 DEF ProcessUncalibrated, FedInv
<1>4. ASSUME NEW f \in Frames, Process(f) PROVE FedInv'
  <2>1. UNCHANGED <<saved, cache>>
      BY <1>4 DEF Process
  <2>2. Whole(banks') /\ Ate(banks', frames')
      BY <1>4, ProcessFeeds
  <2> QED
      BY <2>1, <2>2 DEF FedInv
<1>5. CASE SaveWealth
  <2>1. /\ saved'.banks = banks /\ saved'.frames = frames /\ banks["magnitude"].of # NoLife
        /\ UNCHANGED <<banks, cache, frames>>
      BY <1>5 DEF SaveWealth
  <2> QED
      BY <2>1 DEF FedInv
<1>6. CASE SaveCache
  <2>1. /\ cache'.banks = banks /\ frames = <<>> /\ UNCHANGED <<banks, saved, frames>>
      BY <1>6 DEF SaveCache
  <2> QED
      BY <2>1 DEF FedInv
<1>7. CASE RestartFromCache
  <2>1. /\ banks' = Restored(cache.banks) /\ frames' = RestoredFrames(cache.banks)
        /\ UNCHANGED <<saved, cache>>
      BY <1>7 DEF RestartFromCache
  <2>2. Whole(banks') /\ Ate(banks', frames')
      BY <2>1, RestoredIsWhole DEF FedInv
  <2> QED
      BY <2>1, <2>2 DEF FedInv
<1>8. CASE UNCHANGED vars
    BY <1>8 DEF vars, FedInv
<1> QED
    BY <1>1, <1>2, <1>3, <1>4, <1>5, <1>6, <1>7, <1>8 DEF Next

\* Every bank of a monitor that judges has eaten all that its domain makes of all the
\* frames since the calibration (monitor.py process, load_runtime_state): a domain with
\* a say is never passed over, and no restart gives one bank a history that another of
\* the same monitor has not.
THEOREM NobodyStarves == Spec => []NoDomainStarves
<1>1. FedInv => NoDomainStarves
    BY DEF FedInv, Ate, NoDomainStarves, Usable, Live
<1>2. Init => BanksInv /\ ScaleInv /\ RestInv /\ FedInv
    BY InitHolds, RestInit, FedInit
<1>3. BanksInv /\ ScaleInv /\ RestInv /\ FedInv /\ [Next]_vars
         => (BanksInv /\ ScaleInv /\ RestInv /\ FedInv)'
    BY StepPreserves, RestStep, FedStep
<1> QED
    BY <1>1, <1>2, <1>3, PTL DEF Spec
=============================================================================
