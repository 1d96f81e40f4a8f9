------------------------ MODULE LifetimeBaselineProofs ------------------------
(***************************************************************************)
(* Theorems about LifetimeBaseline, for any number of months, rows, fault  *)
(* windows and crashes.                                                    *)
(***************************************************************************)
EXTENDS LifetimeBaseline, InductionTheorems

\* A rebuild works on the ledger it began with; what it has and what is cached
\* was masked.
HealthInv ==
    /\ pc # "idle" => windows = episodes
    /\ pc = "idle" => summary = NoSummary /\ sample = {} /\ todo = {}
    /\ \A e \in cache : e.rows = Masked(e.rows, e.windows)
    /\ \A m \in Months : summary[m] = Masked(summary[m], episodes)
    /\ sample = Masked(sample, episodes)

\* A month with a cached summary has a later month behind it.
CacheInv ==
    \A e \in cache :
       /\ \E r \in stored : e.month < Month(r)
       /\ e.rows \subseteq Masked(Of(e.month, stored), e.windows)
       /\ Masked(Of(e.month, stored), e.windows) \ e.rows \subseteq belated

\* A rebuild has listed every month there was, and each month it has done it has
\* done in full.
WholeInv ==
    pc # "idle" =>
        /\ \A r \in atStart : Month(r) \in months
        /\ \A m \in months : \E r \in stored : Month(r) = m
        /\ \A m \in months \ todo :
              Masked(Of(m, atStart), windows) \ belated \subseteq summary[m]

-----------------------------------------------------------------------------
\* A month is a number, and later timestamps lie in no earlier month.
LEMMA MonthsOrdered ==
    /\ \A r \in Row : Month(r) \in Nat /\ r.ts \in Int
    /\ \A r \in Row, q \in Row : Month(r) < Month(q) => r.ts < q.ts
<1>1. \A r \in Row : r.ts \in Times
    BY DEF Row
<1>2. \A t \in Times : t \in Int /\ Period(t) \in Nat
    BY BaselineAssumption DEF BaselineAssumption, Times
<1>3. \A r \in Row : Month(r) \in Nat /\ r.ts \in Int
    BY <1>1, <1>2 DEF Month
<1>4. ASSUME NEW r \in Row, NEW q \in Row, Month(r) < Month(q), ~(r.ts < q.ts)
      PROVE  FALSE
  <2>1. q.ts <= r.ts
      BY <1>3, <1>4
  <2>2. Period(q.ts) <= Period(r.ts)
      BY <2>1, <1>1, BaselineAssumption DEF BaselineAssumption
  <2> QED
      BY <2>2, <1>3, <1>4 DEF Month
<1> QED
    BY <1>3, <1>4

\* Masking keeps a part, and twice is once.
LEMMA Masking ==
    ASSUME NEW rows, NEW eps
    PROVE  /\ Masked(rows, eps) \subseteq rows
           /\ Masked(rows, eps) = Masked(Masked(rows, eps), eps)
BY DEF Masked

LEMMA MaskingUnion ==
    ASSUME NEW rows, NEW others, NEW eps,
           rows = Masked(rows, eps), others = Masked(others, eps)
    PROVE  rows \cup others = Masked(rows \cup others, eps)
BY DEF Masked

\* A month that is not the newest of those listed has a newer one.
LEMMA ClosedHasLater ==
    ASSUME NEW m \in months, Closed(m), months \subseteq Nat
    PROVE  \E k \in months : m < k
<1> SUFFICES ASSUME \A k \in months : k <= m PROVE FALSE
    OBVIOUS
<1>1. /\ Latest(months) \in months
      /\ \A k \in months : k <= Latest(months)
    BY DEF Latest
<1>2. Latest(months) <= m /\ m <= Latest(months)
    BY <1>1
<1>3. m \in Nat /\ Latest(months) \in Nat
    BY <1>1
<1>4. m = Latest(months)
    BY <1>2, <1>3
<1> QED
    BY <1>4 DEF Closed

LEMMA MonthsAreNumbers == Months \subseteq Nat
BY MonthsOrdered DEF Months

-----------------------------------------------------------------------------
\* Every variable keeps its type, what is on disk is the summary of a closed month,
\* and a rebuild works on months the store has.
THEOREM BaselineTypeCorrect == Spec => []TypeOK
<1>1. Init => TypeOK
    BY BaselineAssumption DEF Init, TypeOK, NoSummary
<1>2. ASSUME TypeOK, [Next]_vars PROVE TypeOK'
  <2> USE <1>2, BaselineAssumption DEF TypeOK, BaselineAssumption
  <2>1. ASSUME NEW new \in Additions, Append(new) PROVE TypeOK'
    <3>1. new \subseteq Row
        BY DEF Additions
    <3>2. stored' = stored \cup new
        BY <2>1 DEF Append, Log!Add
    <3>3. belated' \subseteq stored' /\ stored' \subseteq Row /\ atStart' \subseteq stored'
        BY <2>1, <3>1, <3>2 DEF Append, build
    <3>4. /\ months' \subseteq {Month(r) : r \in stored'}
          /\ \A e \in cache' : \E r \in stored' : e.month < Month(r)
        BY <2>1, <3>2 DEF Append, build
    <3> QED
        BY <2>1, <3>3, <3>4 DEF Append, build
  <2>2. ASSUME NEW w \in Windows, LedgerAdds(w) \/ LedgerRemoves(w) PROVE TypeOK'
      BY <2>2 DEF LedgerAdds, LedgerRemoves, history, build
  <2>3. ASSUME NEW excluded \in {0, RecentPeriods}, Begin(excluded) PROVE TypeOK'
    <3>1. /\ months' \subseteq {Month(r) : r \in stored'} /\ todo' = months'
          /\ pc' = "build"
        BY <2>3 DEF Begin, history
    <3> QED
        BY <2>3, <3>1 DEF Begin, history
  <2>4. ASSUME NEW m \in Months, NEW rows \in SUBSET Row, Summarized(m, rows),
               cache' \subseteq Entry,
               \A e \in cache' : \E r \in stored : e.month < Month(r)
        PROVE  TypeOK'
      BY <2>4 DEF Summarized, history
  <2>5. ASSUME NEW m \in Months, FromCache(m) PROVE TypeOK'
    <3>1. PICK e \in Hits(m) : Summarized(m, e.rows)
        BY <2>5 DEF FromCache
    <3>2. e.rows \in SUBSET Row
        BY <3>1 DEF Hits, Entry
    <3> QED
        BY <2>4, <2>5, <3>1, <3>2 DEF FromCache
  <2>6. ASSUME NEW m \in Months, Summarize(m) PROVE TypeOK'
    <3> DEFINE rows == Masked(Of(m, stored), episodes)
    <3>1. rows \in SUBSET Row
        BY Masking DEF Of
    <3>2. [month |-> m, windows |-> windows, rows |-> rows] \in Entry
        BY <3>1 DEF Entry
    <3>3. cache' \subseteq Entry /\ Summarized(m, rows)
        BY <2>6, <3>2 DEF Summarize
    <3>4. ASSUME Closed(m) PROVE \E r \in stored : m < Month(r)
      <4>1. m \in months /\ months \subseteq Nat
          BY <2>6, MonthsAreNumbers DEF Summarize, Months
      <4> QED
          BY <3>4, <4>1, ClosedHasLater
    <3>5. \A e \in cache' : \E r \in stored : e.month < Month(r)
        BY <2>6, <3>4 DEF Summarize
    <3> QED
        BY <2>4, <3>1, <3>3, <3>5
  <2>7. CASE Sample
    <3>1. sample' \subseteq Row
        BY <2>7, Masking DEF Sample
    <3> QED
        BY <2>7, <3>1 DEF Sample, history
  <2>8. ASSUME Ends, crashes' \in 0..MaxCrashes PROVE TypeOK'
      BY <2>8 DEF Ends, history, NoSummary
  <2>9. CASE Unusable \/ Return \/ Crash
      BY <2>8, <2>9 DEF Unusable, Return, Crash
  <2>10. CASE UNCHANGED vars
      BY <2>10 DEF vars, history, build
  <2> QED
      BY <2>1, <2>2, <2>3, <2>5, <2>6, <2>7, <2>9, <2>10 DEF Next
<1> QED
    BY <1>1, <1>2, PTL DEF Spec

-----------------------------------------------------------------------------
\* A month of a summary, masked by the ledger of the rebuild.
LEMMA SummarizedHealthy ==
    ASSUME TypeOK, HealthInv, NEW m \in Months, NEW rows, Summarized(m, rows),
           rows = Masked(rows, episodes), pc = "build",
           \A e \in cache' : e.rows = Masked(e.rows, e.windows)
    PROVE  HealthInv'
BY DEF TypeOK, HealthInv, Summarized, Masked

LEMMA NothingIsHealthy == Masked({}, episodes') = {} /\ \A m \in Months : NoSummary[m] = {}
BY DEF Masked, NoSummary

LEMMA HealthStep == TypeOK /\ HealthInv /\ [Next]_vars => HealthInv'
<1> SUFFICES ASSUME TypeOK, HealthInv, [Next]_vars PROVE HealthInv'
    OBVIOUS
<1>1. ASSUME NEW new \in Additions, Append(new) PROVE HealthInv'
    BY <1>1 DEF Append, HealthInv, build
<1>2. ASSUME NEW w \in Windows, LedgerAdds(w) \/ LedgerRemoves(w) PROVE HealthInv'
    BY <1>2, NothingIsHealthy DEF LedgerAdds, LedgerRemoves, HealthInv, build
<1>3. ASSUME NEW excluded \in {0, RecentPeriods}, Begin(excluded) PROVE HealthInv'
    BY <1>3 DEF Begin, HealthInv
<1>4. ASSUME NEW m \in Months, FromCache(m) PROVE HealthInv'
  <2>1. PICK e \in Hits(m) : Summarized(m, e.rows)
      BY <1>4 DEF FromCache
  <2>2. e \in cache /\ e.windows = windows /\ pc = "build" /\ cache' = cache
      BY <1>4, <2>1 DEF FromCache, Hits, Keyed
  <2> QED
      BY <2>1, <2>2, SummarizedHealthy DEF HealthInv
<1>5. ASSUME NEW m \in Months, Summarize(m) PROVE HealthInv'
  <2> DEFINE rows == Masked(Of(m, stored), episodes)
  <2>1. rows = Masked(rows, episodes)
      BY Masking
  <2>2. /\ pc = "build" /\ windows = episodes /\ Summarized(m, rows)
        /\ cache' \subseteq cache \cup {[month |-> m, windows |-> windows, rows |-> rows]}
      BY <1>5 DEF Summarize, HealthInv
  <2>3. \A e \in cache' : e.rows = Masked(e.rows, e.windows)
      BY <2>1, <2>2 DEF HealthInv
  <2> QED
      BY <2>1, <2>2, <2>3, SummarizedHealthy
<1>6. CASE Sample
  <2>1. sample' = Masked(sample', episodes)
      BY <1>6, Masking DEF Sample
  <2> QED
      BY <1>6, <2>1 DEF Sample, HealthInv
<1>7. ASSUME Ends PROVE HealthInv'
    BY <1>7, NothingIsHealthy DEF Ends, HealthInv
<1>8. CASE UNCHANGED vars
    BY <1>8 DEF vars, build, HealthInv
<1> QED
    BY <1>1, <1>2, <1>3, <1>4, <1>5, <1>6, <1>7, <1>8 DEF Next, Unusable, Return, Crash

\* Nothing faulty by the ledger of the day enters a definition of normal, whatever
\* the cache holds from other days and ledgers.
THEOREM BaselineStaysHealthy == Spec => []BaselineIsHealthy
<1>1. Init => HealthInv
    BY DEF Init, HealthInv, NoSummary, Masked
<1>2. ASSUME HealthInv PROVE BaselineIsHealthy
  <2>1. Whole = Masked(Whole, episodes)
      BY <1>2 DEF HealthInv, Whole, Masked
  <2>2. sample = Masked(sample, episodes)
      BY <1>2 DEF HealthInv
  <2>3. Whole \cup sample = Masked(Whole \cup sample, episodes)
      BY <2>1, <2>2, MaskingUnion
  <2> QED
      BY <2>3 DEF BaselineIsHealthy
<1> QED
    BY <1>1, <1>2, HealthStep, BaselineTypeCorrect, PTL DEF Spec

-----------------------------------------------------------------------------
LEMMA CacheStep ==
    TypeOK /\ HealthInv /\ CacheInv /\ WholeInv /\ [Next]_vars => CacheInv'
<1> SUFFICES ASSUME TypeOK, HealthInv, CacheInv, WholeInv, [Next]_vars PROVE CacheInv'
    OBVIOUS
<1>1. ASSUME NEW new \in Additions, Append(new) PROVE CacheInv'
  <2>1. /\ stored' = stored \cup new /\ cache' = cache
        /\ belated' = belated \cup {r \in new : \E q \in stored : r.ts < q.ts}
      BY <1>1 DEF Append, Log!Add
  <2>2. new \subseteq Row /\ stored \subseteq Row
      BY DEF Additions, TypeOK
  <2>3. ASSUME NEW e \in cache PROVE Masked(Of(e.month, stored'), e.windows) \ e.rows \subseteq belated'
    <3> SUFFICES ASSUME NEW r \in Masked(Of(e.month, stored'), e.windows) \ e.rows
                 PROVE  r \in belated'
        OBVIOUS
    <3>1. CASE r \in stored
        BY <2>1, <3>1 DEF CacheInv, Masked, Of
    <3>2. CASE r \in new
      <4>1. PICK q \in stored : e.month < Month(q)
          BY DEF CacheInv
      <4>2. Month(r) = e.month
          BY DEF Masked, Of
      <4>3. r.ts < q.ts
          BY <2>2, <3>2, <4>1, <4>2, MonthsOrdered
      <4> QED
          BY <2>1, <3>2, <4>3
    <3> QED
        BY <2>1, <3>1, <3>2 DEF Masked, Of
  <2>4. ASSUME NEW e \in cache
        PROVE  /\ \E r \in stored' : e.month < Month(r)
               /\ e.rows \subseteq Masked(Of(e.month, stored'), e.windows)
      BY <2>1 DEF CacheInv, Masked, Of
  <2> QED
      BY <2>1, <2>3, <2>4 DEF CacheInv
<1>2. ASSUME NEW m \in Months, Summarize(m) PROVE CacheInv'
  <2> DEFINE entry == [month |-> m, windows |-> windows,
                       rows |-> Masked(Of(m, stored), episodes)]
  <2>1. /\ pc = "build" /\ windows = episodes /\ m \in months
        /\ UNCHANGED <<stored, belated>>
        /\ cache' = IF Closed(m) THEN cache \cup {entry} ELSE cache
      BY <1>2 DEF Summarize, Summarized, HealthInv, TypeOK, history
  <2>2. ASSUME Closed(m) PROVE \E r \in stored : m < Month(r)
    <3>1. PICK k \in months : m < k
        BY <2>1, <2>2, ClosedHasLater, MonthsAreNumbers DEF TypeOK, Months
    <3> QED
        BY <2>1, <3>1 DEF WholeInv
  <2>3. entry.rows = Masked(Of(entry.month, stored), entry.windows)
      BY <2>1
  <2>4. ASSUME NEW e \in cache'
        PROVE  /\ \E r \in stored : e.month < Month(r)
               /\ e.rows \subseteq Masked(Of(e.month, stored), e.windows)
               /\ Masked(Of(e.month, stored), e.windows) \ e.rows \subseteq belated
    <3>1. CASE e \in cache
        BY <3>1 DEF CacheInv
    <3>2. CASE e = entry /\ Closed(m)
        BY <2>2, <2>3, <3>2
    <3> QED
        BY <2>1, <3>1, <3>2
  <2> QED
      BY <2>1, <2>4 DEF CacheInv
<1>3. ASSUME UNCHANGED <<stored, belated, cache>> PROVE CacheInv'
    BY <1>3 DEF CacheInv, Of, Masked
<1> QED
    BY <1>1, <1>2, <1>3 DEF Next, LedgerAdds, LedgerRemoves, Begin, FromCache, Summarized,
       Unusable, Sample, Return, Crash, Ends, history, build, vars

\* What a rebuild takes for a month has the healthy rows that were there when it
\* began.
LEMMA MonthDone ==
    ASSUME TypeOK, WholeInv, NEW m \in todo, NEW rows, Summarized(m, rows), pc = "build",
           Masked(Of(m, atStart), windows) \ belated \subseteq rows
    PROVE  WholeInv'
<1>1. /\ UNCHANGED <<stored, belated, pc, windows, months, atStart>>
      /\ summary' = [summary EXCEPT ![m] = rows] /\ todo' = todo \ {m}
    BY DEF Summarized, history
<1>2. summary \in [Months -> SUBSET Row] /\ months \subseteq Months /\ m \in months
    BY DEF TypeOK, Months
<1>3. ASSUME NEW k \in months \ todo'
      PROVE  Masked(Of(k, atStart), windows) \ belated \subseteq summary'[k]
  <2>1. CASE k = m
      BY <1>1, <1>2, <2>1
  <2>2. CASE k # m
    <3>1. k \in months \ todo /\ summary'[k] = summary[k]
        BY <1>1, <1>2, <1>3, <2>2
    <3> QED
        BY <3>1 DEF WholeInv
  <2> QED
      BY <2>1, <2>2
<1> QED
    BY <1>1, <1>3 DEF WholeInv, Masked, Of

LEMMA WholeStep ==
    TypeOK /\ HealthInv /\ CacheInv /\ WholeInv /\ [Next]_vars => WholeInv'
<1> SUFFICES ASSUME TypeOK, HealthInv, CacheInv, WholeInv, [Next]_vars PROVE WholeInv'
    OBVIOUS
<1>1. ASSUME NEW new \in Additions, Append(new) PROVE WholeInv'
  <2>1. /\ stored' = stored \cup new /\ belated \subseteq belated'
        /\ UNCHANGED <<pc, windows, months, todo, summary, atStart>>
      BY <1>1 DEF Append, Log!Add, build
  <2> QED
      BY <2>1 DEF WholeInv, Masked, Of
<1>2. ASSUME NEW excluded \in {0, RecentPeriods}, Begin(excluded) PROVE WholeInv'
    BY <1>2 DEF Begin, WholeInv, history
<1>3. ASSUME NEW m \in Months, FromCache(m) PROVE WholeInv'
  <2>1. PICK e \in Hits(m) : Summarized(m, e.rows)
      BY <1>3 DEF FromCache
  <2>2. e \in cache /\ e.month = m /\ e.windows = windows /\ pc = "build" /\ m \in todo
      BY <1>3, <2>1 DEF FromCache, Hits, Keyed
  <2>3. Masked(Of(m, stored), windows) \ belated \subseteq e.rows
      BY <2>2 DEF CacheInv
  <2>4. Masked(Of(m, atStart), windows) \ belated \subseteq e.rows
      BY <2>3 DEF TypeOK, Masked, Of
  <2> QED
      BY <2>1, <2>2, <2>4, MonthDone
<1>4. ASSUME NEW m \in Months, Summarize(m) PROVE WholeInv'
  <2>1. /\ pc = "build" /\ m \in todo /\ windows = episodes
        /\ Summarized(m, Masked(Of(m, stored), episodes))
      BY <1>4 DEF Summarize, HealthInv
  <2>2. Masked(Of(m, atStart), windows) \ belated \subseteq Masked(Of(m, stored), episodes)
      BY <2>1 DEF TypeOK, Masked, Of
  <2> QED
      BY <2>1, <2>2, MonthDone
<1>5. CASE Sample
    BY <1>5 DEF Sample, WholeInv, Masked, Of, history
<1>6. ASSUME Ends PROVE WholeInv'
    BY <1>6 DEF Ends, WholeInv
<1>7. ASSUME NEW w \in Windows, LedgerAdds(w) \/ LedgerRemoves(w) PROVE WholeInv'
    BY <1>7 DEF LedgerAdds, LedgerRemoves, WholeInv
<1>8. CASE UNCHANGED vars
    BY <1>8 DEF vars, history, build, WholeInv, Masked, Of
<1> QED
    BY <1>1, <1>2, <1>3, <1>4, <1>5, <1>6, <1>7, <1>8 DEF Next, Unusable, Return, Crash

LEMMA BaselineInductive == Spec => [](HealthInv /\ CacheInv /\ WholeInv)
<1>1. Init => HealthInv /\ CacheInv /\ WholeInv
    BY DEF Init, HealthInv, CacheInv, WholeInv, NoSummary, Masked
<1>2. TypeOK /\ (HealthInv /\ CacheInv /\ WholeInv) /\ [Next]_vars
      => (HealthInv /\ CacheInv /\ WholeInv)'
    BY HealthStep, CacheStep, WholeStep
<1> QED
    BY <1>1, <1>2, BaselineTypeCorrect, PTL DEF Spec

\* A summary that was kept is as good as a new one, but for rows that came late.
THEOREM CacheStaysCurrent == Spec => []CachedIsCurrent
<1>1. CacheInv => CachedIsCurrent
    BY DEF CacheInv, CachedIsCurrent
<1> QED
    BY <1>1, BaselineInductive, PTL

\* A rebuild misses nothing of the healthy life that was stored when it began.
THEOREM WholeLifeIsUsed == Spec => []LifeIsWhole
<1>1. ASSUME TypeOK, WholeInv, pc # "idle", todo = {},
             NEW r \in Masked(atStart, windows) \ belated
      PROVE  r \in Whole
  <2>1. r \in atStart /\ r \in Masked(Of(Month(r), atStart), windows)
      BY <1>1 DEF Masked, Of
  <2>2. Month(r) \in months /\ Month(r) \in Months
      BY <1>1, <2>1 DEF WholeInv, TypeOK, Months
  <2>3. r \in summary[Month(r)]
      BY <1>1, <2>1, <2>2 DEF WholeInv
  <2> QED
      BY <2>2, <2>3 DEF Whole
<1>2. TypeOK /\ WholeInv => LifeIsWhole
    BY <1>1 DEF LifeIsWhole
<1> QED
    BY <1>2, BaselineInductive, BaselineTypeCorrect, PTL
-----------------------------------------------------------------------------
\* The weights.

LEMMA TimeIsFinite == IsFiniteSet(Row) /\ IsFiniteSet(Months)
<1>1. IsFiniteSet(Times)
    BY BaselineAssumption, FS_Interval DEF BaselineAssumption, Times
<1> DEFINE rowAt   == [t \in Times |-> [ts |-> t]]
           monthOf == [r \in Row |-> Month(r)]
<1>2. rowAt \in Surjection(Times, Row)
    BY DEF Surjection, Row
<1>3. monthOf \in Surjection(Row, Months)
    BY DEF Surjection, Months
<1> QED
    BY <1>1, <1>2, <1>3, FS_Surjection

LEMMA TotalsAre ==
    ASSUME TypeOK, NEW set \in SUBSET Months
    PROVE  Total(set) \in Nat /\ Total({}) = 0
<1> DEFINE w == [m \in Months |-> RowsOf(m)]
<1>1. ASSUME NEW m \in Months PROVE RowsOf(m) \in Nat
  <2>1. IsFiniteSet(summary[m])
      BY TimeIsFinite, FS_Subset DEF TypeOK
  <2> QED
      BY <2>1, FS_CardinalityType DEF RowsOf
<1>2. IsFiniteSet(set) /\ IsFiniteSet({})
    BY TimeIsFinite, FS_Subset
<1>3. \A m \in set : w[m] \in Nat
    BY <1>1
<1>4. SumFunctionOnSet(w, set) \in Nat
    BY <1>2, <1>3, SumGrows
<1>5. Summable(w, {})
    BY <1>2 DEF Summable
<1>6. SumFunctionOnSet(w, {}) = 0
    BY <1>5, SumLaws
<1> QED
    BY <1>4, <1>6 DEF Total

\* A weight that caps: full when the cap is kept as it is, else just so small that it
\* is kept.
LEMMA CapIsKept ==
    ASSUME NEW c \in Nat, NEW d \in Nat, c < d, NEW old \in Nat \ {0}, NEW new \in Nat,
           NEW num, NEW den, num = c * old, den = (d - c) * OrOne(new)
    PROVE  /\ num >= den => d * new <= c * (new + old)
           /\ d * (num * new) <= c * (num * new + den * old)
<1>1. CASE new = 0
  <2>1. num \in Nat /\ den \in Nat
      BY <1>1 DEF OrOne
  <2>2. den * old \in Nat /\ c * old \in Nat
      BY <2>1
  <2>3. c * (den * old) \in Nat
      BY <2>2
  <2>4. num * new = 0 /\ d * new = 0 /\ d * (num * new) = 0
      BY <1>1, <2>1
  <2> QED
      BY <1>1, <2>2, <2>3, <2>4
<1>2. CASE new # 0
  <2>1. den = (d - c) * new
      BY <1>2 DEF OrOne
  <2>2. den = d * new - c * new
      BY <2>1
  <2>3. c * (new + old) = c * new + c * old
      OBVIOUS
  <2>4. num >= den => d * new <= c * (new + old)
      BY <2>2, <2>3
  <2>5. num * new + den * old = d * (old * new)
    <3>1. num * new = c * (old * new)
        OBVIOUS
    <3>2. den * old = d * (old * new) - c * (old * new)
        BY <2>1
    <3> QED
        BY <3>1, <3>2
  <2>6. d * (num * new) = c * (d * (old * new))
      OBVIOUS
  <2>7. c * (num * new + den * old) = c * (d * (old * new))
      BY <2>5
  <2>8. c * (d * (old * new)) \in Int
      OBVIOUS
  <2> QED
      BY <2>4, <2>6, <2>7, <2>8
<1> QED
    BY <1>1, <1>2

\* The recent months hold at most RECENCY_CAP of a definition of normal with older rows
\* to rest on (memory/baseline.py build), for any months, any rows and any cap.
THEOREM RecencyIsCapped == Spec => []RecentIsCapped
<1>1. ASSUME TypeOK, Total(OldMonths) > 0
      PROVE  CapDen * (Weight[1] * Total(RecentMonths))
                <= CapNum * (Weight[1] * Total(RecentMonths) + Weight[2] * Total(OldMonths))
  <2> DEFINE c   == CapNum
             d   == CapDen
             old == Total(OldMonths)
             new == Total(RecentMonths)
             num == c * OrOne(old)
             den == (d - c) * OrOne(new)
  <2>1. c \in Nat /\ d \in Nat /\ c < d
      BY BaselineAssumption DEF BaselineAssumption
  <2>2. RecentMonths \in SUBSET Months /\ OldMonths \in SUBSET Months
      BY <1>1 DEF TypeOK, RecentMonths, OldMonths, NewestOf, Months
  <2>3. old \in Nat \ {0} /\ new \in Nat /\ OldMonths # {}
      BY <1>1, <2>2, TotalsAre
  <2>4. Weight = IF num >= den THEN <<1, 1>> ELSE <<num, den>>
      BY <2>3 DEF Weight
  <2>5. OrOne(old) = old
      BY <2>3 DEF OrOne
  <2>6. /\ num >= den => d * new <= c * (new + old)
        /\ d * (num * new) <= c * (num * new + den * old)
      BY <2>1, <2>3, <2>5, CapIsKept
  <2>7. CASE num >= den
    <3>1. Weight[1] = 1 /\ Weight[2] = 1
        BY <2>4, <2>7
    <3>2. Weight[1] * new = new /\ Weight[2] * old = old
        BY <2>3, <3>1
    <3> QED
        BY <2>6, <2>7, <3>2
  <2>8. CASE ~(num >= den)
    <3>1. Weight[1] = num /\ Weight[2] = den
        BY <2>4, <2>8
    <3> QED
        BY <2>6, <3>1
  <2> QED
      BY <2>7, <2>8
<1>2. TypeOK => RecentIsCapped
    BY <1>1 DEF RecentIsCapped
<1> QED
    BY <1>2, BaselineTypeCorrect, PTL
=============================================================================
