----------------------------- MODULE AssetMonitor -----------------------------
(***************************************************************************)
(* The monitor of one asset (monitor.py): five fitted models give seven    *)
(* evidence domains a stream of points each, every domain has a bank of    *)
(* its own, and process turns the banks into one verdict.                  *)
(*                                                                         *)
(* A life is what a calibration rests on: [rows, channels, transients,     *)
(* refused], its healthy rows, its usable channels, the transients in the  *)
(* sample, and the domains whose bank the exchangeability audit refuses.   *)
(* A bank is [of, evidence, eaten, points]: the life it was calibrated on, *)
(* its peak evidence in steps of the alarm threshold (module EProcessBank  *)
(* has the arithmetic), and, for observation, the lives whose models gave  *)
(* it points and how many there were.  A frame is [rows, transients].      *)
(***************************************************************************)
EXTENDS Integers, Sequences, FiniteSets, Functions, SequencesExt

CONSTANTS
    Life,                      \* the lives, by name
    Frames,
    NoLife,
    MaxSample, ChunkRows,      \* max_rows, CALIB_CHUNK_ROWS
    FitNum, FitDen,            \* FIT_FRACTION
    MinValues,                 \* finite values that make a channel usable
    MinCalib,                  \* points that calibrate a bank
    LocalChannels,             \* CHANNEL_LOCAL_MIN_CHANNELS
    LongHorizon, BandWindow,   \* max(HORIZONS), BILATERAL_WINDOW
    IdentWindow, MinWindows,   \* IDENT_WINDOW, MIN_WINDOWS
    MinCatalogue,              \* MIN_CATALOGUE
    AlarmAt, Top,              \* evidence that latches, and the bound on evidence
    MaxFrames,                 \* bound: frames between two calibrations
    MaxCalibrations            \* bound: calibrations

VARIABLES
    models,    \* what each fitted model was fitted on
    banks,
    verdict,   \* what the last process returned, about the present banks
    saved,     \* the wealth snapshot
    cache,     \* the pickled monitor
    \* observation only
    frames,       \* the frames processed since the calibration
    reset,        \* calibrated since the wealth was saved
    calibrations

ghosts == <<reset, calibrations>>
vars   == <<models, banks, verdict, saved, cache, frames, ghosts>>

Lives == DOMAIN Life

Aux == << "channel-local", "dynamics-drift", "transient-response",
          "horizon-gap", "predictability-band" >>

Domains == {"magnitude", "availability"} \cup ToSet(Aux)

ModelOf == [d \in Domains |->
    CASE d \in {"magnitude", "channel-local"} -> "scorer"
      [] d = "availability" -> "avail_scorer"
      [] d \in {"horizon-gap", "predictability-band"} -> "mh_scorer"
      [] d = "transient-response" -> "trans_catalogue"
      [] d = "dynamics-drift" -> "dyn_drift"]

Models == {ModelOf[d] : d \in Domains}

ASSUME MonitorAssumption ==
    /\ NoLife \notin Lives
    /\ \A l \in Lives : /\ {Life[l].rows, Life[l].channels, Life[l].transients} \subseteq Nat
                        /\ Life[l].refused \subseteq Domains
    /\ \A f \in Frames : f.rows \in Nat \ {0} /\ f.transients \in Nat
    /\ {MaxSample, ChunkRows, FitNum, FitDen, MinValues, MinCalib, LocalChannels,
        LongHorizon, BandWindow, IdentWindow, MinWindows, MinCatalogue, AlarmAt}
          \subseteq Nat \ {0}
    /\ FitNum < FitDen /\ AlarmAt <= Top /\ Top \in Nat
    /\ MaxFrames \in Nat /\ MaxCalibrations \in Nat

-----------------------------------------------------------------------------
\* The points a domain makes of so many rows in one piece.

AtLeast(n, k) == IF n >= k THEN n ELSE k

GapPoints(rows)   == AtLeast(rows - LongHorizon, 0)
BandPoints(rows)  == (rows - 1) \div BandWindow
DriftPoints(rows) == rows \div IdentWindow

Points(d, f) ==
    CASE d = "horizon-gap"         -> GapPoints(f.rows)
      [] d = "predictability-band" -> BandPoints(f.rows)
      [] d = "dynamics-drift"      -> DriftPoints(f.rows)
      [] d = "transient-response"  -> f.transients
      [] OTHER                     -> f.rows

-----------------------------------------------------------------------------
\* Calibration.

\* A long life is sampled in whole chunks.
SampleRows(l) ==
    IF Life[l].rows > MaxSample THEN AtLeast(1, MaxSample \div ChunkRows) * ChunkRows ELSE Life[l].rows

FitRows(l)     == (FitNum * SampleRows(l)) \div FitDen
HeldOutRows(l) == SampleRows(l) - FitRows(l)

HasChannels(l, rows, n) == rows >= MinValues /\ Life[l].channels >= n

Bankable(l, d, points) == points >= MinCalib /\ d \notin Life[l].refused

MagnitudeArms(l) ==
    HasChannels(l, FitRows(l), 2) /\ Bankable(l, "magnitude", HeldOutRows(l))

ChannelLocalArms(l) ==
    Life[l].channels >= LocalChannels /\ Bankable(l, "channel-local", HeldOutRows(l))

AvailabilityArms(l) ==
    HasChannels(l, SampleRows(l), 1) /\ Bankable(l, "availability", SampleRows(l))

HorizonArms(l) ==
    /\ HasChannels(l, FitRows(l), 2) /\ FitRows(l) >= 4 * LongHorizon
    /\ Bankable(l, "horizon-gap", GapPoints(HeldOutRows(l)))
    /\ Bankable(l, "predictability-band", BandPoints(HeldOutRows(l)))

TransientArms(l) ==
    /\ HasChannels(l, SampleRows(l), 2) /\ Life[l].transients >= MinCatalogue
    /\ Bankable(l, "transient-response", Life[l].transients)

DynamicsArms(l) ==
    /\ HasChannels(l, FitRows(l), 2) /\ FitRows(l) >= (MinWindows + 1) * IdentWindow
    /\ Bankable(l, "dynamics-drift", DriftPoints(HeldOutRows(l)))

Arms(l, d) ==
    CASE d = "magnitude"          -> MagnitudeArms(l)
      [] d = "channel-local"      -> ChannelLocalArms(l)
      [] d = "availability"       -> AvailabilityArms(l)
      [] d = "transient-response" -> TransientArms(l)
      [] d = "dynamics-drift"     -> DynamicsArms(l)
      [] OTHER                    -> HorizonArms(l)

Fresh(l) == [of |-> l, evidence |-> 0, eaten |-> {}, points |-> 0]
NoBank   == Fresh(NoLife)

NoVerdict == [state |-> "none", domain |-> "none", evidence |-> 0]

NothingSaved == [banks |-> [d \in Domains |-> NoBank], frames |-> <<>>]
NotCached    == [held |-> FALSE, banks |-> [d \in Domains |-> NoBank],
                 models |-> [m \in Models |-> NoLife]]

Init ==
    /\ models = [m \in Models |-> NoLife]
    /\ banks = [d \in Domains |-> NoBank]
    /\ verdict = NoVerdict
    /\ saved = NothingSaved /\ cache = NotCached
    /\ frames = <<>> /\ reset = TRUE /\ calibrations = 0

FittedKeepingScorer(l) ==
    [m \in Models |-> IF m = "scorer" /\ models[m] # NoLife THEN models[m]
                      ELSE IF \E d \in Domains : ModelOf[d] = m /\ Arms(l, d) THEN l ELSE NoLife]
Fitted(l) ==
    [m \in Models |-> IF \E d \in Domains : ModelOf[d] = m /\ Arms(l, d) THEN l ELSE NoLife]

Banked(l) == [d \in Domains |-> IF Arms(l, d) THEN Fresh(l) ELSE NoBank]

\* A failure clears the main pair only; the other banks stay as they were.
Install(l) ==
    /\ models' = IF MagnitudeArms(l) THEN Fitted(l) ELSE [models EXCEPT !["scorer"] = NoLife]
    /\ banks' = IF MagnitudeArms(l) THEN Banked(l) ELSE [banks EXCEPT !["magnitude"] = NoBank]

NewCalibration ==
    /\ calibrations < MaxCalibrations /\ calibrations' = calibrations + 1
    /\ verdict' = NoVerdict

\* calibrate_from_lifetime
Calibrate(l) ==
    /\ Install(l) /\ NewCalibration
    /\ frames' = <<>> /\ reset' = TRUE
    /\ UNCHANGED <<saved, cache>>

-----------------------------------------------------------------------------
\* process.

Usable == banks["magnitude"].of # NoLife /\ models["scorer"] # NoLife

ProcessUncalibrated ==
    /\ ~Usable /\ calibrations > 0
    /\ verdict' = [NoVerdict EXCEPT !.state = "insufficient"]
    /\ UNCHANGED <<models, banks, saved, cache, frames, ghosts>>

Alarmed(bank) == bank.evidence >= AlarmAt

Live == {d \in Domains : banks[d].of # NoLife /\ models[ModelOf[d]] # NoLife}

\* Every bank is updated, whatever the others say.
UpdatedByPriority == IF Alarmed(banks["magnitude"]) THEN Live \cap {"magnitude"} ELSE Live
Updated == Live

Fed(f) == {d \in Updated : Points(d, f) > 0}

\* The domains that have a say over this frame: a stream that may be empty has none
\* when it is.
Heard(f) ==
    {d \in Live : d \in {"dynamics-drift", "transient-response"} => Points(d, f) > 0}

\* The first of the alarmed auxiliary domains with the greatest evidence.
Rank(d) == CHOOSE i \in 1..Len(Aux) : Aux[i] = d

Strongest(alarms, now) ==
    CHOOSE d \in alarms : \A e \in alarms \ {d} :
       \/ now[d].evidence > now[e].evidence
       \/ now[d].evidence = now[e].evidence /\ Rank(d) < Rank(e)

State(bank) ==
    IF Alarmed(bank) THEN "alarm" ELSE IF 2 * bank.evidence >= AlarmAt THEN "watch" ELSE "healthy"

Named(d, now) == [state |-> State(now[d]), domain |-> d, evidence |-> now[d].evidence]

JudgedByEvidence(f, now) ==
    LET heard == Heard(f) \cap ToSet(Aux)
    IN  IF Alarmed(now["magnitude"]) \/ heard = {} THEN Named("magnitude", now)
        ELSE Named(Strongest(heard, now), now)

Judged(f, now) ==
    LET alarms == {d \in Heard(f) : Alarmed(now[d])}
        aux    == alarms \cap ToSet(Aux)
    IN  IF "magnitude" \in alarms \/ alarms = {} THEN Named("magnitude", now)
        ELSE IF "availability" \in alarms THEN Named("availability", now)
        ELSE Named(Strongest(aux, now), now)

Ingested(d, f, evidence) ==
    [banks[d] EXCEPT !.evidence = evidence,
                     !.eaten = @ \cup {models[ModelOf[d]]},
                     !.points = @ + Points(d, f)]

Process(f) ==
    /\ Usable /\ Len(frames) < MaxFrames
    /\ \E evidence \in [Fed(f) -> 0..Top] :
          /\ \A d \in Fed(f) : evidence[d] >= banks[d].evidence
          /\ banks' = [d \in Domains |-> IF d \in Fed(f) THEN Ingested(d, f, evidence[d])
                                                         ELSE banks[d]]
    /\ verdict' = Judged(f, banks')
    /\ frames' = Append(frames, f)
    /\ UNCHANGED <<models, saved, cache, ghosts>>

-----------------------------------------------------------------------------
\* What a restart finds: runtime_state as the runtime saves it after a tick, the
\* monitor as it pickles it after a calibration.

SaveWealth ==
    /\ banks["magnitude"].of # NoLife /\ verdict # NoVerdict
    /\ saved' = [banks |-> banks, frames |-> frames]
    /\ reset' = FALSE
    /\ UNCHANGED <<models, banks, verdict, cache, frames, calibrations>>

SaveCache ==
    /\ frames = <<>> /\ calibrations > 0
    /\ cache' = [held |-> TRUE, banks |-> banks, models |-> models]
    /\ UNCHANGED <<models, banks, verdict, saved, frames, ghosts>>

\* load_runtime_state: bank by bank, when the calibration is the one the wealth was
\* earned against.  Nothing is restored to a monitor without a main bank.
Restorable(d, on) == saved.banks[d].of # NoLife /\ on[d].of = saved.banks[d].of

RestoredMain(on) ==
    [d \in Domains |-> IF d = "magnitude" /\ Restorable(d, on) THEN saved.banks[d] ELSE on[d]]
Restored(on) ==
    [d \in Domains |-> IF on["magnitude"].of # NoLife /\ Restorable(d, on)
                       THEN saved.banks[d] ELSE on[d]]

RestoredFrames(on) ==
    IF on["magnitude"].of # NoLife /\ Restorable("magnitude", on) THEN saved.frames ELSE <<>>

\* A restart that finds the store and the ledger as they were at the pickling.
RestartFromCache ==
    /\ cache.held
    /\ models' = cache.models
    /\ banks' = Restored(cache.banks)
    /\ frames' = RestoredFrames(cache.banks)
    /\ verdict' = NoVerdict
    /\ UNCHANGED <<saved, cache, ghosts>>

\* A restart that does not: the new process calibrates, pickles and restores.
RestartAnew(l) ==
    /\ NewCalibration
    /\ models' = IF MagnitudeArms(l) THEN Fitted(l) ELSE NotCached.models
    /\ LET on == IF MagnitudeArms(l) THEN Banked(l) ELSE NotCached.banks
       IN  /\ banks' = Restored(on)
           /\ frames' = RestoredFrames(on)
           /\ cache' = IF MagnitudeArms(l)
                       THEN [held |-> TRUE, banks |-> on, models |-> models'] ELSE cache
    /\ UNCHANGED <<saved, reset>>

Next ==
    \/ \E l \in Lives : Calibrate(l) \/ RestartAnew(l)
    \/ ProcessUncalibrated
    \/ \E f \in Frames : Process(f)
    \/ SaveWealth \/ SaveCache \/ RestartFromCache

Spec == Init /\ [][Next]_vars

-----------------------------------------------------------------------------
\* Properties.

Bank == [of : Lives \cup {NoLife}, evidence : 0..Top,
         eaten : SUBSET (Lives \cup {NoLife}), points : Nat]

\* Values; the two predictability banks stand and fall together.
TypeOK ==
    /\ models \in [Models -> Lives \cup {NoLife}]
    /\ banks \in [Domains -> Bank]
    /\ saved.banks \in [Domains -> Bank] /\ cache.banks \in [Domains -> Bank]
    /\ cache.models \in [Models -> Lives \cup {NoLife}]
    /\ verdict.state \in {"none", "insufficient", "healthy", "watch", "alarm"}
    /\ verdict.domain \in Domains \cup {"none"} /\ verdict.evidence \in 0..Top
    /\ frames \in Seq(Frames) /\ saved.frames \in Seq(Frames)
    /\ reset \in BOOLEAN /\ cache.held \in BOOLEAN /\ calibrations \in 0..MaxCalibrations
    /\ (banks["horizon-gap"].of = NoLife) = (banks["predictability-band"].of = NoLife)

\* The points a domain makes of all of these frames.
Made(d, fs) == SumFunction([i \in DOMAIN fs |-> Points(d, fs[i])])

\* Every bank has eaten everything its domain makes of every frame since the
\* calibration, whichever domain the verdicts named meanwhile and however often the
\* service restarted.
NoDomainStarves == Usable => \A d \in Live : banks[d].points = Made(d, frames)

\* A bank never eats the points of another calibration's model: its false-alarm bound
\* is over the scale it was calibrated on.
OwnScale == Usable => \A d \in Live : banks[d].eaten \subseteq {banks[d].of}

\* The verdict is an alarm exactly when a domain with something to say is latched, and
\* names such a domain.
AlarmsAreHeard ==
    verdict.state \in {"healthy", "watch", "alarm"} =>
       LET latched == {d \in Heard(Last(frames)) : Alarmed(banks[d])}
       IN  IF latched = {} THEN verdict.state # "alarm"
           ELSE verdict.state = "alarm" /\ verdict.domain \in latched
                /\ verdict.evidence = banks[verdict.domain].evidence

\* A latched alarm that reached the snapshot stays latched in a monitor that judges,
\* through restarts, until a calibration replaces its bank.
LatchIsDurable ==
    Usable /\ ~reset => \A d \in Domains :
       banks[d].of = saved.banks[d].of /\ Alarmed(saved.banks[d]) => Alarmed(banks[d])
=============================================================================
