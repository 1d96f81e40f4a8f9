--------------------------- MODULE LifetimeBaseline ---------------------------
(***************************************************************************)
(* The lifetime baseline of one asset (memory/baseline.py): every rebuild  *)
(* merges one summary per month of the ledger-masked life.  The summary of *)
(* a closed month is kept on disk, under the fault windows it was masked   *)
(* with; the newest month is summarized anew every time.  Rows arrive      *)
(* while a rebuild runs: the raw store is the abstract one.                *)
(***************************************************************************)
EXTENDS Integers, FiniteSets, Functions

CONSTANTS
    MaxTime,          \* bound: timestamps are 1..MaxTime
    Period(_),        \* the month of a timestamp
    RecentPeriods,    \* RECENT_PERIODS
    CapNum, CapDen,   \* RECENCY_CAP, as a fraction
    Windows,          \* the <<start, end>> of alarms that may come to the ledger
    MaxBatch,         \* bound: rows in one addition to the store
    MaxCrashes        \* bound: crashes

VARIABLES
    stored,     \* the raw history
    episodes,   \* the ledger's fault windows, as <<start, end>>
    cache,      \* the summaries on disk: [month, windows, rows]
    pc,
    windows,    \* the fault windows when the rebuild began
    months,     \* the months it listed
    todo,       \* those it has not summarized yet
    recent,     \* how many of the newest months its sample leaves out
    summary,    \* the rows its summary of each month stands for
    sample,     \* the calibration sample
    \* observation only
    belated,    \* rows that came to the store behind a later one
    atStart,    \* the store when the rebuild began
    crashes

history == <<stored, belated>>
build   == <<windows, months, todo, recent, summary, sample, atStart>>
vars    == <<history, episodes, cache, pc, build, crashes>>

Times   == 1..MaxTime
Row     == [ts : Times]
Month(r) == Period(r.ts)
Months  == {Month(r) : r \in Row}

ASSUME BaselineAssumption ==
    /\ MaxTime \in Nat \ {0} /\ RecentPeriods \in Nat \ {0}
    /\ CapNum \in Nat /\ CapDen \in Nat /\ CapNum < CapDen
    /\ Windows \subseteq Times \X Times
    /\ MaxBatch \in Nat /\ MaxCrashes \in Nat
    /\ \A t \in Times, u \in Times :
          /\ Period(t) \in Nat
          /\ t <= u => Period(t) <= Period(u)

Log == INSTANCE History WITH rows <- stored, Rows <- Row, Month <- Month

Latest(set)   == CHOOSE x \in set : \A y \in set : y <= x
Earliest(set) == CHOOSE x \in set : \A y \in set : x <= y

Of(m, rows) == {r \in rows : Month(r) = m}

\* EpisodeLedger.mask
Masked(rows, eps) ==
    {r \in rows : \A w \in eps : ~(w[1] <= r.ts /\ r.ts <= w[2])}

NoSummary == [m \in Months |-> {}]

Init ==
    /\ stored = {} /\ belated = {}
    /\ episodes = {} /\ cache = {}
    /\ pc = "idle"
    /\ windows = {} /\ months = {} /\ todo = {} /\ recent = 0
    /\ summary = NoSummary /\ sample = {} /\ atStart = {}
    /\ crashes = 0

-----------------------------------------------------------------------------
\* The weight of a recent row in the merged summary, as a fraction: the recent
\* months together hold at most RECENCY_CAP of the whole.

NewestOf(listed, n) == {m \in listed : Cardinality({k \in listed : m < k}) < n}

RecentMonths == NewestOf(months, RecentPeriods)
OldMonths    == months \ RecentMonths

\* A channel with fewer than two values has no summary.
RowsOf(m) == IF Cardinality(summary[m]) < 2 THEN 0 ELSE Cardinality(summary[m])

Total(set) == SumFunctionOnSet([m \in Months |-> RowsOf(m)], set)

OrOne(n) == IF n = 0 THEN 1 ELSE n

WeightInverted ==
    LET num == CapNum * OrOne(Total(RecentMonths))
        den == (CapDen - CapNum) * OrOne(Total(OldMonths))
    IN  IF OldMonths = {} \/ num >= den THEN <<1, 1>> ELSE <<num, den>>

Weight ==
    LET num == CapNum * OrOne(Total(OldMonths))
        den == (CapDen - CapNum) * OrOne(Total(RecentMonths))
    IN  IF OldMonths = {} \/ num >= den THEN <<1, 1>> ELSE <<num, den>>

-----------------------------------------------------------------------------
\* Around the rebuild: rows arrive at any time, the ledger changes between
\* rebuilds.

Append(new) ==
    /\ Log!Add(new)
    /\ belated' = belated \cup {r \in new : \E q \in stored : r.ts < q.ts}
    /\ UNCHANGED <<episodes, cache, pc, build, crashes>>

LedgerAdds(w) ==
    /\ pc = "idle"
    /\ episodes' = episodes \cup {w}
    /\ UNCHANGED <<history, cache, pc, build, crashes>>

LedgerRemoves(w) ==
    /\ pc = "idle" /\ w \in episodes
    /\ episodes' = episodes \ {w}
    /\ UNCHANGED <<history, cache, pc, build, crashes>>

-----------------------------------------------------------------------------
\* LifetimeBaseline.build and calibration_sample.

Begin(excluded) ==
    /\ pc = "idle" /\ stored # {}
    /\ windows' = episodes
    /\ months' = {Month(r) : r \in stored} /\ todo' = months'
    /\ recent' = excluded
    /\ atStart' = stored
    /\ pc' = "build"
    /\ UNCHANGED <<history, episodes, cache, summary, sample, crashes>>

NextMonth == Earliest(todo)

ClosedLenient(m) == TRUE
ClosedButFirst(m) == m # Earliest(months)
Closed(m) == m # Latest(months)

KeyedByMonth(e, m) == e.month = m
Keyed(e, m) == e.month = m /\ e.windows = windows

Hits(m) == {e \in cache : Closed(m) /\ Keyed(e, m)}

Summarized(m, rows) ==
    /\ summary' = [summary EXCEPT ![m] = rows]
    /\ todo' = todo \ {m}
    /\ UNCHANGED <<history, episodes, pc, windows, months, recent, sample, atStart, crashes>>

FromCache(m) ==
    /\ pc = "build" /\ m \in todo /\ m = NextMonth
    /\ \E e \in Hits(m) : Summarized(m, e.rows)
    /\ UNCHANGED cache

Summarize(m) ==
    LET rows == Masked(Of(m, stored), episodes) IN
    /\ pc = "build" /\ m \in todo /\ m = NextMonth /\ Hits(m) = {}
    /\ Summarized(m, rows)
    /\ cache' = IF Closed(m)
                THEN cache \cup {[month |-> m, windows |-> windows, rows |-> rows]}
                ELSE cache

Whole == UNION {summary[m] : m \in Months}

\* The months but the newest ones, if there are more; listed again.
Calibrating(excluded) ==
    LET listed == {Month(r) : r \in stored} IN
    IF excluded = 0 \/ excluded >= Cardinality(listed) THEN listed
    ELSE listed \ NewestOf(listed, excluded)

Sample ==
    /\ pc = "build" /\ todo = {} /\ Whole # {}
    /\ sample' = Masked({r \in stored : Month(r) \in Calibrating(recent)}, episodes)
    /\ pc' = "done"
    /\ UNCHANGED <<history, episodes, cache, windows, months, todo, recent, summary, atStart, crashes>>

Ends ==
    /\ pc' = "idle"
    /\ windows' = {} /\ months' = {} /\ todo' = {} /\ recent' = 0
    /\ summary' = NoSummary /\ sample' = {} /\ atStart' = {}
    /\ UNCHANGED <<history, episodes, cache>>

\* No channel is left to measure: the asset stays without a monitor.
Unusable ==
    /\ pc = "build" /\ todo = {} /\ Whole = {}
    /\ Ends
    /\ UNCHANGED crashes

Return ==
    /\ pc = "done" /\ Ends
    /\ UNCHANGED crashes

Crash ==
    /\ crashes < MaxCrashes /\ Ends
    /\ crashes' = crashes + 1

Additions == {new \in SUBSET Row : Cardinality(new) \in 1..MaxBatch}

Next ==
    \/ \E new \in Additions : Append(new)
    \/ \E w \in Windows : LedgerAdds(w) \/ LedgerRemoves(w)
    \/ \E excluded \in {0, RecentPeriods} : Begin(excluded)
    \/ \E m \in Months : FromCache(m) \/ Summarize(m)
    \/ Unusable \/ Sample \/ Return \/ Crash

Spec == Init /\ [][Next]_vars

-----------------------------------------------------------------------------
\* Properties.

Entry == [month : Months, windows : SUBSET Windows, rows : SUBSET Row]

\* What is on disk is the summary of a closed month, and a rebuild works on months
\* the store has.
TypeOK ==
    /\ stored \subseteq Row /\ belated \subseteq stored /\ atStart \subseteq stored
    /\ episodes \subseteq Windows /\ windows \subseteq Windows
    /\ cache \subseteq Entry
    /\ \A e \in cache : \E r \in stored : e.month < Month(r)
    /\ pc \in {"idle", "build", "done"}
    /\ months \subseteq {Month(r) : r \in stored} /\ todo \subseteq months
    /\ recent \in {0, RecentPeriods}
    /\ summary \in [Months -> SUBSET Row] /\ sample \subseteq Row
    /\ crashes \in 0..MaxCrashes

\* A summary kept for a closed month stands for exactly the healthy rows of that
\* month, whatever arrived since it was written; only a row that came behind a
\* later one may be missing from it.
CachedIsCurrent ==
    \A e \in cache :
       LET healthy == Masked(Of(e.month, stored), e.windows)
       IN  e.rows \subseteq healthy /\ healthy \ e.rows \subseteq belated

\* The definition of normal rests on the whole life: a rebuild misses no healthy
\* row that was stored when it began, cached summaries included, but belated ones.
LifeIsWhole ==
    pc # "idle" /\ todo = {} => Masked(atStart, windows) \ belated \subseteq Whole

\* Nothing from a fault window of the present ledger is in the summaries or in the
\* calibration sample of a rebuild under way.
BaselineIsHealthy ==
    pc # "idle" => Whole \cup sample = Masked(Whole \cup sample, episodes)

\* The recent months never hold more than RECENCY_CAP of a definition of normal that
\* has older rows to rest on.
RecentIsCapped ==
    LET recentShare == Weight[1] * Total(RecentMonths)
        oldShare    == Weight[2] * Total(OldMonths)
    IN  pc # "idle" /\ todo = {} /\ Total(OldMonths) > 0
        => CapDen * recentShare <= CapNum * (recentShare + oldShare)
=============================================================================
