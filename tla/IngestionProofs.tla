---------------------------- MODULE IngestionProofs ----------------------------
(***************************************************************************)
(* Theorems about Ingestion, for any rows, months, failures and crashes:   *)
(* an asset that is fed along one path, by its source or over the API.     *)
(***************************************************************************)
EXTENDS Ingestion, FiniteSetTheorems, WellFoundedInduction, TLAPS

-----------------------------------------------------------------------------
\* A finite set of numbers has a first and a last one.
LEMMA Extremes ==
    ASSUME NEW N, N \subseteq Nat, IsFiniteSet(N), N # {}
    PROVE  /\ \E x \in N : \A y \in N : x <= y
           /\ \E x \in N : \A y \in N : y <= x
<1> DEFINE Good(S) == /\ \E x \in S : \A y \in S : x <= y
                      /\ \E x \in S : \A y \in S : y <= x
           Bad == {S \in FiniteSubsetsOf(N) : S # {} /\ ~Good(S)}
<1>1. SUFFICES ASSUME Bad # {} PROVE FALSE
  <2>1. N \in FiniteSubsetsOf(N)
      BY DEF FiniteSubsetsOf
  <2> QED
      BY <2>1
<1>2. PICK S \in Bad : \A T \in Bad : ~(<<T, S>> \in StrictSubsetOrdering(N))
  <2>1. IsWellFoundedOn(StrictSubsetOrdering(N), FiniteSubsetsOf(N))
      BY FS_StrictSubsetOrderingWellFounded
  <2>2. Bad \subseteq FiniteSubsetsOf(N)
      OBVIOUS
  <2> HIDE DEF Bad
  <2> QED
      BY <1>1, <2>1, <2>2, WFMin
<1>3. PICK x \in S : TRUE
    OBVIOUS
<1> DEFINE T == S \ {x}
<1>4. T \in FiniteSubsetsOf(N) /\ <<T, S>> \in StrictSubsetOrdering(N)
  <2>1. S \subseteq N /\ IsFiniteSet(S)
      BY DEF FiniteSubsetsOf
  <2>2. IsFiniteSet(T)
      BY <2>1, FS_RemoveElement
  <2> QED
      BY <1>3, <2>1, <2>2 DEF FiniteSubsetsOf, StrictSubsetOrdering
<1>5. T = {} \/ Good(T)
    BY <1>2, <1>4
<1>6. S \subseteq Nat
    BY DEF FiniteSubsetsOf
<1>7. CASE T = {}
    BY <1>3, <1>6, <1>7
<1>8. CASE Good(T)
  <2>1. PICK lo \in T : \A y \in T : lo <= y
      BY <1>8
  <2>2. PICK hi \in T : \A y \in T : y <= hi
      BY <1>8
  <2>3. \E z \in S : \A y \in S : z <= y
      BY <1>3, <1>6, <2>1
  <2>4. \E z \in S : \A y \in S : y <= z
      BY <1>3, <1>6, <2>2
  <2> QED
      BY <2>3, <2>4
<1> QED
    BY <1>5, <1>7, <1>8

LEMMA RowsAreNumbered ==
    /\ \A r \in Rows : r.ts \in Nat \ {0} /\ Month(r) \in Nat /\ Month(r) \in Months
    /\ \A r \in Rows, q \in Rows : r.ts = q.ts => Month(r) = Month(q)
    /\ \A r \in Rows, q \in Rows : Month(r) < Month(q) => r.ts < q.ts
    /\ \A r \in Rows, q \in Rows : r.ts < q.ts => Month(r) <= Month(q)
<1>1. \A r \in Rows : r.ts \in Nat \ {0} /\ Month(r) \in Nat
    BY IngestionAssumption DEF IngestionAssumption, Month
<1>2. \A r \in Rows, q \in Rows : r.ts <= q.ts => Month(r) <= Month(q)
    BY IngestionAssumption DEF IngestionAssumption, Month
<1> QED
    BY <1>1, <1>2 DEF Month, Months

LEMMA EarliestIs ==
    ASSUME NEW N, N \subseteq Nat, IsFiniteSet(N), N # {}
    PROVE  Earliest(N) \in N /\ \A y \in N : Earliest(N) <= y
BY Extremes DEF Earliest

LEMMA LatestIs ==
    ASSUME NEW N, N \subseteq Nat, IsFiniteSet(N), N # {}
    PROVE  Latest(N) \in N /\ \A y \in N : y <= Latest(N)
BY Extremes DEF Latest

\* Sets of rows have finitely many timestamps and months.
LEMMA FewOfEach ==
    ASSUME NEW set, set \subseteq Rows
    PROVE  /\ IsFiniteSet(Timestamps(set)) /\ Timestamps(set) \subseteq Nat
           /\ IsFiniteSet({Month(r) : r \in set}) /\ {Month(r) : r \in set} \subseteq Nat
<1>1. IsFiniteSet(set)
    BY IngestionAssumption, FS_Subset DEF IngestionAssumption
<1> DEFINE stamp == [r \in set |-> r.ts]
           month == [r \in set |-> Month(r)]
<1>2. stamp \in Surjection(set, Timestamps(set))
    BY DEF Surjection, Timestamps
<1>3. month \in Surjection(set, {Month(r) : r \in set})
    BY DEF Surjection
<1>4. IsFiniteSet(Timestamps(set)) /\ IsFiniteSet({Month(r) : r \in set})
    BY <1>1, <1>2, <1>3, FS_Surjection
<1> QED
    BY <1>4, RowsAreNumbered DEF Timestamps

LEMMA NewestIs ==
    ASSUME NEW set, set \subseteq Rows
    PROVE  /\ Newest(set) \in Nat
           /\ \A r \in set : r.ts <= Newest(set)
           /\ set # {} => \E r \in set : r.ts = Newest(set)
<1>1. CASE set = {}
    BY <1>1 DEF Newest
<1>2. CASE set # {}
  <2>1. Timestamps(set) # {}
      BY <1>2 DEF Timestamps
  <2>2. Newest(set) \in Timestamps(set) /\ \A y \in Timestamps(set) : y <= Newest(set)
      BY <1>2, <2>1, FewOfEach, LatestIs DEF Newest
  <2> QED
      BY <2>2, FewOfEach DEF Timestamps
<1> QED
    BY <1>1, <1>2

\* The month that an append writes next, and a read reads next.
LEMMA NextMonthIs ==
    ASSUME TypeOK, NEW t \in Threads, batch[t] # {}
    PROVE  /\ NextMonth(t) \in Months /\ NextMonth(t) \in Nat
           /\ \E r \in batch[t] : Month(r) = NextMonth(t)
           /\ \A r \in batch[t] : NextMonth(t) <= Month(r)
<1>1. batch[t] \subseteq Rows /\ {Month(r) : r \in batch[t]} # {}
    BY DEF TypeOK
<1>2. NextMonth(t) \in {Month(r) : r \in batch[t]}
    BY <1>1, FewOfEach, EarliestIs DEF NextMonth
<1>3. \A y \in {Month(r) : r \in batch[t]} : NextMonth(t) <= y
    BY <1>1, FewOfEach, EarliestIs DEF NextMonth
<1> QED
    BY <1>1, <1>2, <1>3, RowsAreNumbered

LEMMA NextUnreadIs ==
    ASSUME TypeOK, unread # {}
    PROVE  Earliest(unread) \in unread /\ \A m \in unread : Earliest(unread) <= m
<1>1. IsFiniteSet(Months) /\ Months \subseteq Nat
    BY FewOfEach DEF Months
<1>2. unread \subseteq Nat /\ IsFiniteSet(unread)
    BY <1>1, FS_Subset DEF TypeOK
<1> QED
    BY <1>2, EarliestIs

-----------------------------------------------------------------------------
\* What the replace of a month puts into it.
LEMMA ReplaceAdds ==
    ASSUME TypeOK, NEW t \in Threads, AppendReplace(t)
    PROVE  \E new \in SUBSET Part(t, NextMonth(t)) :
              /\ \A r \in new, q \in new : r.ts = q.ts => r = q
              /\ Timestamps(new) = Timestamps({r \in Part(t, NextMonth(t)) :
                                                 r.ts \notin Timestamps(existing[t])})
              /\ months' = [months EXCEPT ![NextMonth(t)] =
                              IF existing[t] \cup new = existing[t] THEN @
                              ELSE existing[t] \cup new]
<1> DEFINE fresh == {r \in Part(t, NextMonth(t)) : r.ts \notin Timestamps(existing[t])}
<1>1. PICK merged \in Merged(existing[t], Part(t, NextMonth(t))) :
         months' = [months EXCEPT ![NextMonth(t)] = IF merged = existing[t] THEN @ ELSE merged]
    BY DEF AppendReplace
<1>2. PICK new \in FirstOfEach(fresh) : merged = existing[t] \cup new
    BY DEF Merged
<1>3. /\ new \in SUBSET Part(t, NextMonth(t))
      /\ \A r \in new, q \in new : r.ts = q.ts => r = q
      /\ Timestamps(new) = Timestamps(fresh)
    BY <1>2 DEF FirstOfEach
<1> QED
    BY <1>1, <1>2, <1>3

LEMMA PartIs ==
    ASSUME TypeOK, NEW t \in Threads, NEW m, NEW r \in Part(t, m)
    PROVE  r \in batch[t] /\ r \in Rows /\ Month(r) = m
BY DEF Part, TypeOK

LEMMA TypeStep == TypeOK /\ [Next]_vars => TypeOK'
<1> SUFFICES ASSUME TypeOK, [Next]_vars PROVE TypeOK'
    OBVIOUS
<1>0. /\ Threads = {loop, client} /\ loop # client
      /\ MaxFailures \in Nat /\ MaxCrashes \in Nat
    BY IngestionAssumption DEF IngestionAssumption, loop, client
<1>1. ASSUME NEW r \in Rows, Publish(r) PROVE TypeOK'
    BY <1>1 DEF TypeOK, Publish, store, draining, ticking, faults, NextMonth
<1>2. ASSUME NEW t \in Threads, NEW set \in SUBSET Rows, Append(t, set),
             UNCHANGED <<up, feeding, watermark, ticking, faults>>, reach' \in Nat
      PROVE  TypeOK'
  <2>1. Behind(set) \subseteq Rows
      BY DEF Behind
  <2>2. /\ pc' = [pc EXCEPT ![t] = "append"] /\ batch' = [batch EXCEPT ![t] = set]
        /\ UNCHANGED <<months, existing>>
      BY <1>2 DEF Append, StartAppend, Goto
  <2>3. \A u \in Threads : pc'[u] = "merge" =>
          batch'[u] # {} /\ \A r \in existing'[u] : Month(r) = NextMonth(u)'
      BY <2>2 DEF TypeOK, NextMonth
  <2> QED
      BY <1>0, <1>2, <2>1, <2>2, <2>3 DEF TypeOK, Append, feeding, ticking, faults, Steps
<1>3. source \subseteq Rows /\ Fetched \subseteq Rows /\ Drained \subseteq Rows
    BY DEF Fetched, Parsed, Drained, TypeOK
<1>4. CASE Drain
  <2>1. reach' \in Nat
      BY <1>3, <1>4, NewestIs DEF Drain
  <2> QED
      BY <1>0, <1>2, <1>3, <1>4, <2>1 DEF Drain
<1>5. ASSUME NEW set \in Posts, Post(set) PROVE TypeOK'
  <2>1. set \in SUBSET Rows /\ reach' \in Nat
      BY <1>5 DEF Posts, Post, draining, TypeOK
  <2> QED
      BY <1>0, <1>2, <1>5, <2>1 DEF Post, draining
<1>6. ASSUME NEW t \in Threads, AppendStep(t) PROVE TypeOK'
  <2>1. UNCHANGED <<up, feeding, draining, ticking, belated, faults>>
      BY <1>6 DEF AppendStep
  <2>2. CASE AppendRead(t)
    <3>1. NextMonth(t) \in Months
        BY <2>2, NextMonthIs DEF AppendRead
    <3>2. /\ pc' = [pc EXCEPT ![t] = "merge"] /\ batch[t] # {}
          /\ existing' = [existing EXCEPT ![t] = months[NextMonth(t)]]
          /\ UNCHANGED <<months, batch>>
        BY <2>2 DEF AppendRead, Goto
    <3>3. \A u \in Threads : pc'[u] = "merge" =>
            batch'[u] # {} /\ \A r \in existing'[u] : Month(r) = NextMonth(u)'
        BY <3>1, <3>2 DEF TypeOK, NextMonth
    <3> QED
        BY <1>0, <2>1, <3>1, <3>2, <3>3 DEF TypeOK, feeding, draining, ticking, faults, Steps
  <2>3. CASE AppendReplace(t)
    <3>1. NextMonth(t) \in Months
        BY <2>3, NextMonthIs DEF AppendReplace, TypeOK
    <3>2. PICK new \in SUBSET Part(t, NextMonth(t)) :
             months' = [months EXCEPT ![NextMonth(t)] =
                          IF existing[t] \cup new = existing[t] THEN @
                          ELSE existing[t] \cup new]
        BY <2>3, ReplaceAdds
    <3>3. \A r \in existing[t] \cup new : r \in Rows /\ Month(r) = NextMonth(t)
        BY <2>3, PartIs DEF AppendReplace, TypeOK
    <3>4. /\ months' \in [Months -> SUBSET Rows]
          /\ \A m \in Months : \A r \in months'[m] : Month(r) = m
        BY <3>1, <3>2, <3>3 DEF TypeOK
    <3>5. /\ pc' = [pc EXCEPT ![t] = "append"]
          /\ batch' = [batch EXCEPT ![t] = @ \ Part(t, NextMonth(t))]
          /\ existing' = [existing EXCEPT ![t] = {}]
        BY <2>3 DEF AppendReplace, Goto
    <3>6. \A u \in Threads : pc'[u] = "merge" =>
            batch'[u] # {} /\ \A r \in existing'[u] : Month(r) = NextMonth(u)'
        BY <3>5 DEF TypeOK, NextMonth
    <3> QED
        BY <1>0, <2>1, <3>4, <3>5, <3>6 DEF TypeOK, feeding, draining, ticking, faults, Steps
  <2> QED
      BY <1>6, <2>2, <2>3 DEF AppendStep
<1>7. ASSUME NEW t \in Threads, NEW step \in Steps,
             step # "merge", t = client => step = "idle",
             UNCHANGED months, Goto(t, step),
             \/ UNCHANGED <<batch, existing>>
             \/ AbandonAppend(t),
             UNCHANGED <<up, feeding>>, watermark' \in Nat, reach' \in Nat, seen' \in Nat,
             unread' \subseteq Months, frame' \subseteq Rows, scored' \subseteq Rows,
             forgone' \subseteq Rows,
             UNCHANGED belated, failures' \in 0..MaxFailures, UNCHANGED crashes
      PROVE  TypeOK'
  <2>1. /\ pc' = [pc EXCEPT ![t] = step]
        /\ \A u \in Threads \ {t} : batch'[u] = batch[u] /\ existing'[u] = existing[u]
        /\ batch' \in [Threads -> SUBSET Rows] /\ existing' \in [Threads -> SUBSET Rows]
      BY <1>7 DEF TypeOK, AbandonAppend, Goto
  <2>2. \A u \in Threads : pc'[u] = "merge" =>
          batch'[u] # {} /\ \A r \in existing'[u] : Month(r) = NextMonth(u)'
      BY <1>7, <2>1 DEF TypeOK, NextMonth
  <2> QED
      BY <1>0, <1>7, <2>1, <2>2 DEF TypeOK, feeding
<1>8. loop \in Threads /\ client \in Threads /\ loop # client
      /\ AfterFailure \in Steps /\ AfterFailure # "merge"
      /\ {"idle", "list", "read", "score"} \subseteq Steps
    BY <1>0 DEF AfterFailure, Steps
<1>9. ASSUME Fails PROVE failures' \in 0..MaxFailures
    BY <1>0, <1>9 DEF Fails, TypeOK
<1>10. CASE TickWithoutSource \/ DrainNothing \/ DrainRaises
    BY <1>7, <1>8, <1>10 DEF TickWithoutSource, DrainNothing, DrainRaises,
       store, draining, ticking, faults, TypeOK
<1>11. CASE SourceUnavailable \/ DrainFails \/ DrainEnds
    BY <1>7, <1>8, <1>9, <1>11 DEF SourceUnavailable, DrainFails, DrainEnds, AbandonAppend,
       store, draining, ticking, faults, TypeOK
<1>12. CASE PostFails \/ PostEnds
    BY <1>7, <1>8, <1>9, <1>12 DEF PostFails, PostEnds, AbandonAppend,
       store, draining, ticking, faults, TypeOK
<1>13. CASE List
    BY <1>7, <1>8, <1>13 DEF List, store, draining, faults, TypeOK
<1>14. CASE NothingNew \/ MarkSeen \/ Score \/ TickFails
  <2>1. CASE MarkSeen
    <3>1. seen' \in Nat
        BY <2>1, NewestIs DEF MarkSeen, TypeOK
    <3> QED
        BY <1>7, <1>8, <2>1, <3>1 DEF MarkSeen, store, draining, faults, TypeOK
  <2>2. CASE NothingNew \/ Score
      BY <1>7, <1>8, <2>2 DEF NothingNew, Score, store, draining, ticking, faults, TypeOK
  <2>3. CASE TickFails
    <3>1. forgone' \subseteq Rows
        BY <2>3 DEF TickFails, Underway, TypeOK
    <3> QED
        BY <1>7, <1>8, <1>9, <2>3, <3>1 DEF TickFails, store, draining, TypeOK
  <2> QED
      BY <1>14, <2>1, <2>2, <2>3
<1>15. CASE ReadMonth
  <2>1. Earliest(unread) \in Months
      BY <1>15, NextUnreadIs DEF ReadMonth, TypeOK
  <2>2. frame' \subseteq Rows
      BY <1>15, <2>1 DEF ReadMonth, TypeOK
  <2> QED
      BY <1>15, <2>2 DEF ReadMonth, TypeOK, store, feeding, draining, faults, NextMonth
<1>16. CASE Crash
  <2>1. /\ pc' = [t \in Threads |-> "idle"]
        /\ batch' = [t \in Threads |-> {}] /\ existing' = [t \in Threads |-> {}]
        /\ crashes' \in 0..MaxCrashes
      BY <1>0, <1>16 DEF Crash, TypeOK
  <2>2. "idle" \in Steps /\ loop \in Threads /\ client \in Threads /\ forgone' \subseteq Rows
      BY <1>0, <1>16 DEF Crash, Underway, Steps, TypeOK
  <2> QED
      BY <1>16, <2>1, <2>2 DEF Crash, TypeOK, feeding
<1>17. CASE Restart \/ UNCHANGED vars
    BY <1>17 DEF Restart, vars, TypeOK, store, feeding, draining, ticking, faults, NextMonth
<1> QED
    BY <1>1, <1>4, <1>5, <1>6, <1>8, <1>10, <1>11, <1>12, <1>13, <1>14, <1>15, <1>16, <1>17
    DEF Next, Tick

\* Every variable keeps its type, and every month its rows.
THEOREM IngestionTypeCorrect == Spec => []TypeOK
<1>1. Init => TypeOK
  <2>1. Threads = {loop, client} /\ MaxFailures \in Nat /\ MaxCrashes \in Nat
      BY IngestionAssumption DEF IngestionAssumption
  <2> QED
      BY <2>1 DEF Init, StoreInit, TypeOK, Steps, client, loop
<1> QED
    BY <1>1, TypeStep, PTL DEF Spec

-----------------------------------------------------------------------------
\* An asset that is fed along one path has one writer at a time; what it read from
\* a month is still there when it replaces it.
Appending(t) == pc[t] \in {"append", "merge"}

WriterInv ==
    /\ kind = "manual" => ~Appending(loop)
    /\ kind # "manual" => pc[client] = "idle"
    /\ \A t \in Threads : ~Appending(t) => batch[t] = {}
    /\ \A t \in Threads : pc[t] = "merge" => existing[t] = months[NextMonth(t)]

LEMMA Two == /\ Threads = {loop, client} /\ loop # client
BY IngestionAssumption DEF IngestionAssumption, loop, client

\* Only the replace of a month changes the files.
LEMMA OnlyReplaceStores ==
    ASSUME [Next]_vars, months' # months
    PROVE  \E t \in Threads : AppendReplace(t) /\ AppendStep(t)
BY Two DEF Next, Tick, vars, store, Publish, TickWithoutSource, DrainNothing, Drain, DrainRaises,
   DrainEnds, List, ReadMonth, NothingNew, MarkSeen, Score, TickFails, SourceUnavailable, DrainFails, AbandonAppend, Post,
   PostFails, PostEnds, AppendStep, AppendRead, Crash, Restart, Append, StartAppend

\* What a replace does to the store as a whole.
LEMMA ReplaceStores ==
    ASSUME TypeOK, WriterInv, NEW t \in Threads, AppendReplace(t)
    PROVE  \E new \in SUBSET Part(t, NextMonth(t)) :
              /\ \A r \in new, q \in new : r.ts = q.ts => r = q
              /\ \A r \in new, q \in Stored : r.ts # q.ts
              /\ Stored' = Stored \cup new
              /\ Timestamps(Part(t, NextMonth(t))) \subseteq Timestamps(Stored')
              /\ \A m \in Months : months[m] \subseteq months'[m]
<1> DEFINE m == NextMonth(t)
<1>1. /\ pc[t] = "merge" /\ m \in Months /\ existing[t] = months[m]
    BY NextMonthIs DEF AppendReplace, WriterInv, TypeOK
<1>2. PICK new \in SUBSET Part(t, m) :
         /\ \A r \in new, q \in new : r.ts = q.ts => r = q
         /\ Timestamps(new) = Timestamps({r \in Part(t, m) : r.ts \notin Timestamps(months[m])})
         /\ months' = [months EXCEPT ![m] = IF months[m] \cup new = months[m] THEN @
                                            ELSE months[m] \cup new]
    BY <1>1, ReplaceAdds
<1> HIDE DEF m
<1>3. months' = [months EXCEPT ![m] = months[m] \cup new]
    BY <1>1, <1>2 DEF TypeOK
<1>4. Stored' = Stored \cup new /\ \A k \in Months : months[k] \subseteq months'[k]
    BY <1>1, <1>3 DEF Stored, TypeOK
<1>5. ASSUME NEW r \in new, NEW q \in Stored, r.ts = q.ts PROVE FALSE
  <2>1. PICK k \in Months : q \in months[k]
      BY DEF Stored
  <2>2. r \in Rows /\ q \in Rows /\ Month(r) = m /\ Month(q) = k
      BY <2>1, PartIs DEF TypeOK
  <2>3. q \in months[m]
      BY <1>5, <2>1, <2>2, RowsAreNumbered
  <2>4. r.ts \in Timestamps(months[m])
      BY <1>5, <2>3 DEF Timestamps
  <2>5. PICK p \in Part(t, m) : p.ts = r.ts /\ p.ts \notin Timestamps(months[m])
      BY <1>2 DEF Timestamps
  <2> QED
      BY <2>4, <2>5
<1>6. ASSUME NEW r \in Part(t, m) PROVE r.ts \in Timestamps(Stored')
  <2>1. CASE r.ts \in Timestamps(months[m])
      BY <1>1, <1>4, <2>1 DEF Timestamps, Stored
  <2>2. CASE r.ts \notin Timestamps(months[m])
    <3>1. r.ts \in Timestamps(new)
        BY <1>2, <2>2 DEF Timestamps
    <3> QED
        BY <1>4, <3>1 DEF Timestamps
  <2> QED
      BY <2>1, <2>2
<1> QED
    BY <1>2, <1>4, <1>5, <1>6 DEF m, Timestamps

LEMMA WriterStep ==
    ASSUME ~MixedFeeds
    PROVE  TypeOK /\ WriterInv /\ [Next]_vars => WriterInv'
<1> SUFFICES ASSUME TypeOK, WriterInv, [Next]_vars PROVE WriterInv'
    OBVIOUS
<1>0. MixedFeeds \in BOOLEAN
    BY IngestionAssumption DEF IngestionAssumption
<1>1. ASSUME NEW t \in Threads, NEW set, Append(t, set), kind' = kind,
             kind = "manual" <=> t = client
      PROVE  WriterInv'
  <2>1. /\ pc' = [pc EXCEPT ![t] = "append"] /\ batch' = [batch EXCEPT ![t] = set]
        /\ UNCHANGED <<months, existing>>
      BY <1>1 DEF Append, StartAppend, Goto
  <2> QED
      BY <1>1, <2>1, Two DEF WriterInv, Appending, TypeOK, NextMonth
<1>2. CASE Drain
    BY <1>1, <1>2, Two DEF Drain, feeding
<1>3. ASSUME NEW set \in Posts, Post(set) PROVE WriterInv'
    BY <1>1, <1>3, Two DEF Post, feeding
<1>4. ASSUME NEW t \in Threads, AppendStep(t) PROVE WriterInv'
  <2>1. kind' = kind /\ (kind = "manual" <=> t = client)
      BY <1>4, Two DEF AppendStep, feeding, WriterInv, Appending, AppendRead, AppendReplace
  <2>2. CASE AppendRead(t)
    <3>1. /\ pc' = [pc EXCEPT ![t] = "merge"] /\ pc[t] = "append"
          /\ existing' = [existing EXCEPT ![t] = months[NextMonth(t)]]
          /\ UNCHANGED <<months, batch>>
        BY <2>2 DEF AppendRead, Goto
    <3> QED
        BY <2>1, <3>1, Two DEF WriterInv, Appending, TypeOK, NextMonth
  <2>3. CASE AppendReplace(t)
    <3>1. /\ pc' = [pc EXCEPT ![t] = "append"]
          /\ batch' = [batch EXCEPT ![t] = @ \ Part(t, NextMonth(t))]
        BY <2>3 DEF AppendReplace, Goto
    <3>2. \A u \in Threads \ {t} : pc'[u] \notin {"append", "merge"} /\ batch'[u] = {}
        BY <2>1, <3>1, Two DEF WriterInv, Appending, TypeOK
    <3> QED
        BY <2>1, <3>1, <3>2, Two DEF WriterInv, Appending, TypeOK
  <2> QED
      BY <1>4, <2>2, <2>3 DEF AppendStep
<1>5. ASSUME NEW t \in Threads, NEW step, step \notin {"append", "merge"}, Goto(t, step),
             t = client => step = "idle",
             UNCHANGED <<months, kind>>,
             \/ UNCHANGED <<batch, existing>> /\ batch[t] = {}
             \/ AbandonAppend(t)
      PROVE  WriterInv'
  <2>1. /\ pc' = [pc EXCEPT ![t] = step]
        /\ \A u \in Threads \ {t} : batch'[u] = batch[u] /\ existing'[u] = existing[u]
        /\ batch'[t] = {}
      BY <1>5 DEF TypeOK, AbandonAppend, Goto
  <2> QED
      BY <1>5, <2>1, Two DEF WriterInv, Appending, TypeOK, NextMonth
<1>6. /\ AfterFailure \notin {"append", "merge"}
      /\ \A t \in Threads : pc[t] \notin {"append", "merge"} => batch[t] = {}
      /\ loop \in Threads /\ client \in Threads /\ loop # client
    BY Two DEF AfterFailure, WriterInv, Appending
<1>7. CASE TickWithoutSource \/ DrainNothing \/ DrainRaises \/ SourceUnavailable
    BY <1>5, <1>6, <1>7 DEF TickWithoutSource, DrainNothing, DrainRaises, SourceUnavailable,
       TickBegins, store, feeding
<1>8. CASE DrainFails \/ DrainEnds \/ PostFails \/ PostEnds
    BY <1>5, <1>6, <1>8 DEF DrainFails, DrainEnds, PostFails, PostEnds, Appended,
       AbandonAppend, store, feeding
<1>9. CASE List \/ NothingNew \/ MarkSeen \/ Score \/ TickFails
    BY <1>5, <1>6, <1>9 DEF List, NothingNew, MarkSeen, Score, TickFails, store, feeding
<1>10. CASE Crash
    BY <1>10, Two DEF Crash, WriterInv, Appending, feeding
<1>11. ASSUME UNCHANGED <<store, pc, kind>> PROVE WriterInv'
    BY <1>11 DEF WriterInv, Appending, store, NextMonth
<1>12. CASE ReadMonth \/ Restart \/ UNCHANGED vars \/ \E r \in Rows : Publish(r)
    BY <1>11, <1>12 DEF ReadMonth, Restart, vars, Publish, feeding
<1> QED
    BY <1>2, <1>3, <1>4, <1>6, <1>7, <1>8, <1>9, <1>10, <1>12 DEF Next, Tick

LEMMA OneWriter == ASSUME ~MixedFeeds PROVE Spec => []WriterInv
<1>1. Init => WriterInv
  <2>1. Init => \A t \in Threads : pc[t] = "idle" /\ batch[t] = {}
      BY DEF Init, StoreInit
  <2> QED
      BY <2>1, Two DEF WriterInv, Appending
<1> QED
    BY <1>1, WriterStep, IngestionTypeCorrect, PTL DEF Spec

\* The store only grows, whoever acts.
LEMMA StoredGrows ==
    ASSUME TypeOK, WriterInv, [Next]_vars
    PROVE  Stored \subseteq Stored' /\ \A m \in Months : months[m] \subseteq months'[m]
<1>1. CASE months' = months
    BY <1>1 DEF Stored
<1>2. CASE months' # months
    BY <1>2, OnlyReplaceStores, ReplaceStores
<1> QED
    BY <1>1, <1>2

\* The raw store implements the abstract history.
THEOREM StoreIsAHistory == ASSUME ~MixedFeeds PROVE Spec => AppendOnly
<1>1. Init => Log!Init
    BY DEF Init, StoreInit, Log!Init, Stored
<1>2. ASSUME TypeOK, WriterInv, [Next]_vars PROVE [Log!Next]_Stored
  <2>1. CASE months' = months
      BY <2>1 DEF Stored
  <2>2. CASE months' # months
    <3>1. PICK t \in Threads : AppendReplace(t)
        BY <1>2, <2>2, OnlyReplaceStores
    <3>2. PICK new \in SUBSET Part(t, NextMonth(t)) :
             /\ \A r \in new, q \in new : r.ts = q.ts => r = q
             /\ \A r \in new, q \in Stored : r.ts # q.ts
             /\ Stored' = Stored \cup new
        BY <1>2, <3>1, ReplaceStores
    <3>3. \A r \in new : r \in Rows /\ Month(r) = NextMonth(t)
        BY <1>2, PartIs
    <3>4. CASE new = {}
        BY <3>2, <3>4
    <3>5. CASE new # {}
      <4>1. Log!Add(new)
          BY <3>2, <3>3, <3>5 DEF Log!Add, Log!OnePerTimestamp
      <4> QED
          BY <3>3, <4>1 DEF Log!Next
    <3> QED
        BY <3>4, <3>5
  <2> QED
      BY <2>1, <2>2
<1>3. TypeOK /\ WriterInv /\ [Next]_vars => [Log!Next]_Stored
    BY <1>2
<1> QED
    BY <1>1, <1>3, OneWriter, IngestionTypeCorrect, PTL DEF Spec, AppendOnly, Log!Spec

-----------------------------------------------------------------------------
\* What is read and what is scored was stored, and stays.
KeptInv == scored \subseteq Stored /\ frame \subseteq Stored

\* What a tick reads of a month.
LEMMA ReadIs ==
    ASSUME TypeOK, ReadMonth
    PROVE  /\ Earliest(unread) \in Months /\ Earliest(unread) \in unread
           /\ \A m \in unread : Earliest(unread) <= m
           /\ frame' = frame \cup {r \in months[Earliest(unread)] : r.ts > seen}
           /\ unread' = unread \ {Earliest(unread)}
           /\ Stored' = Stored
BY NextUnreadIs DEF ReadMonth, TypeOK, store, Stored

LEMMA KeptStep == TypeOK /\ WriterInv /\ KeptInv /\ [Next]_vars => KeptInv'
<1> SUFFICES ASSUME TypeOK, WriterInv, KeptInv, [Next]_vars PROVE KeptInv'
    OBVIOUS
<1>1. Stored \subseteq Stored'
    BY StoredGrows
<1>2. CASE ReadMonth
    BY <1>2, ReadIs DEF KeptInv, ReadMonth, Stored
<1>3. CASE Score
    BY <1>1, <1>3 DEF Score, KeptInv
<1>4. ASSUME scored' = scored, frame' \in {frame, {}} PROVE KeptInv'
    BY <1>1, <1>4 DEF KeptInv
<1> QED
    BY <1>2, <1>3, <1>4, Two DEF Next, Tick, vars, Publish, TickWithoutSource, DrainNothing, Drain,
       DrainRaises, DrainEnds, List, NothingNew, MarkSeen, TickFails, SourceUnavailable,
       DrainFails, Post, PostFails, PostEnds, AppendStep, Crash, Restart, ticking

\* The rows that verdicts rest on stay in the record.
THEOREM EvidenceIsKept == ASSUME ~MixedFeeds PROVE Spec => []ScoredIsKept
<1>1. Init => KeptInv
    BY DEF Init, KeptInv
<1>2. KeptInv => ScoredIsKept
    BY DEF KeptInv, ScoredIsKept
<1> QED
    BY <1>1, <1>2, KeptStep, OneWriter, IngestionTypeCorrect, PTL DEF Spec

-----------------------------------------------------------------------------
\* What the watermark is about to pass over is stored or being stored.
OnTheWay == Timestamps(Stored) \cup (IF Appending(loop) THEN Timestamps(batch[loop]) ELSE {})

WatermarkInv ==
    /\ watermark <= Newest(source) /\ reach <= Newest(source)
    /\ WatermarkCovers
    /\ \A r \in source \ (late \cup Garbled \cup Lagging) : r.ts <= reach => r.ts \in OnTheWay

LEMMA NewestGrows ==
    ASSUME NEW few, NEW more, few \subseteq more, more \subseteq Rows
    PROVE  Newest(few) <= Newest(more)
<1>1. CASE few = {}
    BY <1>1, NewestIs DEF Newest
<1>2. CASE few # {}
  <2>1. PICK r \in few : r.ts = Newest(few)
      BY <1>2, NewestIs
  <2> QED
      BY <2>1, NewestIs
<1> QED
    BY <1>1, <1>2

LEMMA WatermarkStep ==
    ASSUME ~MixedFeeds
    PROVE  TypeOK /\ WriterInv /\ WatermarkInv /\ [Next]_vars => WatermarkInv'
<1> SUFFICES ASSUME TypeOK, WriterInv, WatermarkInv, [Next]_vars PROVE WatermarkInv'
    OBVIOUS
<1>0. /\ Timestamps(Stored) \subseteq Timestamps(Stored')
      /\ source \subseteq Rows /\ Newest(source) \in Nat /\ watermark \in Nat /\ reach \in Nat
      /\ \A r \in source : r \in Rows /\ r.ts \in Nat \ {0}
    BY StoredGrows, NewestIs, RowsAreNumbered DEF Timestamps, TypeOK
<1>1. ASSUME NEW r \in Rows, Publish(r) PROVE WatermarkInv'
  <2>1. /\ source' = source \cup {r} /\ UNCHANGED <<months, pc, batch, kind, watermark, reach>>
        /\ late' = IF r.ts <= Newest(source) THEN late \cup {r} ELSE late
        /\ r.ts \in Nat
      BY <1>1, RowsAreNumbered DEF Publish, store, draining
  <2>2. Newest(source) <= Newest(source') /\ Newest(source') \in Nat
      BY <1>0, <2>1, NewestGrows, NewestIs
  <2>3. \A q \in source' \ (late' \cup Garbled' \cup Lagging') :
           \/ q \in source \ (late \cup Garbled \cup Lagging)
           \/ q.ts > watermark /\ q.ts > reach
      BY <1>0, <2>1 DEF WatermarkInv, Garbled, Lagging
  <2>4. Stored' = Stored /\ OnTheWay' = OnTheWay
      BY <2>1 DEF OnTheWay, Stored, Appending
  <2>5. watermark' <= Newest(source)' /\ reach' <= Newest(source)'
      BY <1>0, <2>1, <2>2 DEF WatermarkInv
  <2> QED
      BY <1>0, <2>1, <2>3, <2>4, <2>5 DEF WatermarkInv, WatermarkCovers
<1>2. CASE Drain
  <2>1. /\ kind # "manual" /\ UNCHANGED <<kind, source, late, months, watermark>>
        /\ batch' = [batch EXCEPT ![loop] = Drained] /\ pc' = [pc EXCEPT ![loop] = "append"]
        /\ reach' = Newest(IF kind = "buffer" THEN Fetched ELSE Drained)
      BY <1>2 DEF Drain, Append, StartAppend, Goto, feeding
  <2>2. batch'[loop] = Drained /\ pc'[loop] = "append"
      BY <2>1, Two DEF TypeOK
  <2>3. OnTheWay' = Timestamps(Stored) \cup Timestamps(Drained)
      BY <2>1, <2>2 DEF OnTheWay, Stored, Appending
  <2>4. ASSUME NEW r \in source \ (late \cup Garbled \cup Lagging), r.ts <= reach'
        PROVE  r.ts \in OnTheWay'
    <3>1. CASE r.ts <= watermark
        BY <2>3, <3>1 DEF WatermarkInv, WatermarkCovers
    <3>2. CASE r.ts > watermark
      <4>1. kind = "table" => Text(r) >= r.ts /\ Text(r) \in Nat
          BY <1>0, IngestionAssumption DEF IngestionAssumption, Lagging
      <4>2. r \in Fetched
          BY <1>0, <3>2, <4>1 DEF Fetched
      <4>3. r \in Drained
          BY <3>2, <4>2 DEF Drained, Parsed
      <4> QED
          BY <2>3, <4>3 DEF Timestamps
    <3> QED
        BY <1>0, <3>1, <3>2
  <2>5. reach' <= Newest(source)
      BY <1>0, <2>1, NewestGrows DEF Drained, Parsed, Fetched
  <2> QED
      BY <1>0, <2>1, <2>4, <2>5 DEF WatermarkInv, WatermarkCovers, Garbled, Lagging, Stored
<1>3. CASE DrainEnds
  <2>1. /\ watermark' = reach /\ reach' = 0 /\ UNCHANGED <<kind, source, late, months>>
        /\ batch[loop] = {} /\ pc[loop] = "append"
      BY <1>3 DEF DrainEnds, Appended, store, feeding
  <2>2. OnTheWay = Timestamps(Stored)
      BY <2>1 DEF OnTheWay, Timestamps
  <2> QED
      BY <1>0, <2>1, <2>2 DEF WatermarkInv, WatermarkCovers, Garbled, Lagging, Stored
<1>4. ASSUME UNCHANGED <<kind, source, late>>, watermark' \in {watermark, 0}, reach' = 0
      PROVE  WatermarkInv'
    BY <1>0, <1>4 DEF WatermarkInv, WatermarkCovers, Garbled, Lagging
<1>5. ASSUME UNCHANGED <<kind, source, late, watermark, reach>>, OnTheWay \subseteq OnTheWay'
      PROVE  WatermarkInv'
    BY <1>0, <1>5 DEF WatermarkInv, WatermarkCovers, Garbled, Lagging
<1>6. CASE DrainFails \/ Crash
    BY <1>4, <1>6 DEF DrainFails, Crash, feeding
<1>7. ASSUME NEW t \in Threads, AppendStep(t) PROVE OnTheWay \subseteq OnTheWay'
  <2>1. CASE AppendRead(t)
      BY <2>1 DEF AppendRead, OnTheWay, Stored, Goto, Appending, TypeOK
  <2>2. CASE AppendReplace(t)
    <3>1. Timestamps(Part(t, NextMonth(t))) \subseteq Timestamps(Stored')
        BY <2>2, ReplaceStores
    <3>2. /\ batch' = [batch EXCEPT ![t] = @ \ Part(t, NextMonth(t))]
          /\ pc' = [pc EXCEPT ![t] = "append"] /\ pc[t] = "merge"
        BY <2>2 DEF AppendReplace, Goto
    <3>3. ASSUME NEW x \in OnTheWay, x \notin Timestamps(Stored) PROVE x \in OnTheWay'
      <4>1. Appending(loop) /\ x \in Timestamps(batch[loop])
          BY <3>3 DEF OnTheWay
      <4>2. PICK r \in batch[loop] : x = r.ts
          BY <4>1 DEF Timestamps
      <4>3. Appending(loop)'
          BY <3>2, <4>1 DEF Appending, TypeOK
      <4>4. CASE r \in batch'[loop]
          BY <4>2, <4>3, <4>4 DEF OnTheWay, Timestamps
      <4>5. CASE r \notin batch'[loop]
        <5>1. r \in Part(t, NextMonth(t))
            BY <3>2, <4>2, <4>5, Two DEF TypeOK
        <5>2. r.ts \in Timestamps(Stored')
            BY <3>1, <5>1 DEF Timestamps
        <5> QED
            BY <4>2, <5>2 DEF OnTheWay
      <4> QED
          BY <4>4, <4>5
    <3> QED
        BY <1>0, <3>3 DEF OnTheWay
  <2> QED
      BY <1>7, <2>1, <2>2 DEF AppendStep
<1>8. ASSUME NEW t \in Threads, AppendStep(t) PROVE WatermarkInv'
    BY <1>5, <1>7, <1>8 DEF AppendStep, feeding, draining
<1>9. ASSUME UNCHANGED <<months, kind, source, late, watermark, reach>>,
             pc[loop] \notin {"append", "merge"} \/ UNCHANGED <<pc[loop], batch[loop]>>
      PROVE  WatermarkInv'
    BY <1>5, <1>9 DEF OnTheWay, Stored, Appending
<1>10. ASSUME NEW set \in Posts, Post(set) PROVE WatermarkInv'
    BY <1>9, <1>10, Two DEF Post, Append, StartAppend, Goto, feeding, draining, TypeOK
<1>11. CASE PostFails \/ PostEnds
    BY <1>9, <1>11, Two DEF PostFails, PostEnds, AbandonAppend, Goto, store, feeding, draining, TypeOK
<1>12. CASE TickWithoutSource \/ DrainNothing \/ DrainRaises \/ SourceUnavailable
    BY <1>9, <1>12 DEF TickWithoutSource, DrainNothing, DrainRaises, SourceUnavailable,
       TickBegins, store, feeding, draining
<1>13. CASE List \/ ReadMonth \/ NothingNew \/ MarkSeen \/ Score \/ TickFails \/ Restart
            \/ UNCHANGED vars
    BY <1>9, <1>13 DEF List, ReadMonth, NothingNew, MarkSeen, Score, TickFails, Restart, vars,
       store, feeding, draining
<1> QED
    BY <1>1, <1>2, <1>3, <1>6, <1>8, <1>10, <1>11, <1>12, <1>13, Two DEF Next, Tick

\* The watermark never passes over a row that is not stored, unless the source
\* published it behind a later one, it cannot be decoded, or the table's text of
\* its timestamp sorts too low (ingest/sources.py, ingest/buffer_source.py).
THEOREM WatermarkIsSafe == ASSUME ~MixedFeeds PROVE Spec => []WatermarkCovers
<1>1. Init => WatermarkInv
    BY DEF Init, WatermarkInv, WatermarkCovers, Newest
<1>2. WatermarkInv => WatermarkCovers
    BY DEF WatermarkInv
<1> QED
    BY <1>1, <1>2, WatermarkStep, OneWriter, IngestionTypeCorrect, PTL DEF Spec

-----------------------------------------------------------------------------
\* A row on its way to the store that nothing has overtaken comes after all that
\* is there; so a row that came since a tick listed the months comes after all
\* that the tick will read, or lies in a month that it will read.
Passed == scored \cup forgone \cup Underway

UnreadAfter(r) ==
    \/ Month(r) \in unread
    \/ /\ \A m \in unread : m < Month(r)
       /\ \A q \in frame : q.ts < r.ts

OrderInv ==
    /\ \A t \in Threads : \A r \in batch[t] \ belated :
          r.ts \in Timestamps(Stored) \/ \A q \in Stored : q.ts < r.ts
    /\ seen = 0 \/ seen \in Timestamps(Stored)
    /\ pc[loop] = "read" => \A m \in unread : months[m] # {}
    /\ pc[loop] = "read" => \A q \in frame, m \in unread : Month(q) < m
    /\ pc[loop] \notin {"read", "score"} => frame = {}
    /\ \A r \in Stored \ (belated \cup Passed) : seen < r.ts
    /\ pc[loop] = "read" =>
          \A r \in Stored \ (belated \cup Passed \cup frame) : UnreadAfter(r)

\* A row that is stored without having been overtaken comes after all the others.
LEMMA NewRowsAreLast ==
    ASSUME TypeOK, WriterInv, KeptInv, OrderInv, [Next]_vars,
           NEW r \in Stored' \ belated, r \notin Stored
    PROVE  /\ r \in Rows /\ \A q \in Stored : q.ts < r.ts
           /\ \E t \in Threads : AppendReplace(t) /\ AppendStep(t) /\ r \in batch[t]
<1>1. months' # months
    BY DEF Stored
<1>2. PICK t \in Threads : AppendReplace(t) /\ AppendStep(t)
    BY <1>1, OnlyReplaceStores
<1>3. PICK new \in SUBSET Part(t, NextMonth(t)) :
         /\ \A p \in new, q \in Stored : p.ts # q.ts
         /\ Stored' = Stored \cup new
    BY <1>2, ReplaceStores
<1>4. r \in new /\ r \in batch[t] /\ r \in Rows
    BY <1>3, PartIs
<1>5. r.ts \notin Timestamps(Stored)
    BY <1>3, <1>4 DEF Timestamps
<1> QED
    BY <1>2, <1>4, <1>5 DEF OrderInv

LEMMA StoredRows ==
    ASSUME TypeOK
    PROVE  /\ Stored \subseteq Rows
           /\ \A r \in Stored : Month(r) \in Months /\ r \in months[Month(r)]
           /\ \A m \in Months : \A r \in months[m] : r \in Stored /\ Month(r) = m
BY RowsAreNumbered DEF TypeOK, Stored

LEMMA ReplaceKeepsOrder ==
    ASSUME TypeOK, WriterInv, KeptInv, OrderInv, [Next]_vars,
           NEW t \in Threads, AppendReplace(t), AppendStep(t)
    PROVE  OrderInv'
<1> DEFINE m == NextMonth(t)
<1>1. /\ UNCHANGED <<belated, seen, scored, forgone, frame, unread>>
      /\ pc' = [pc EXCEPT ![t] = "append"] /\ pc[t] = "merge"
      /\ batch' = [batch EXCEPT ![t] = @ \ Part(t, m)]
    BY DEF AppendStep, AppendReplace, Goto, ticking
<1>2. PICK new \in SUBSET Part(t, m) :
         /\ \A p \in new, q \in Stored : p.ts # q.ts
         /\ Stored' = Stored \cup new
         /\ \A k \in Months : months[k] \subseteq months'[k]
    BY ReplaceStores
<1>3. batch[t] # {} /\ \A r \in batch[t] : m <= Month(r) /\ r \in Rows
    BY <1>1, NextMonthIs DEF TypeOK
<1>4. m \in Nat /\ \A r \in new : r \in batch[t] /\ r \in Rows /\ Month(r) = m
    BY <1>1, <1>3, NextMonthIs, PartIs
<1>5. \A r \in Stored' \ belated :
         r \in Stored \/ (r \in Rows /\ \A q \in Stored : q.ts < r.ts)
    BY NewRowsAreLast
<1> HIDE DEF m
<1>6. ASSUME NEW u \in Threads, NEW r \in batch'[u] \ belated
      PROVE  r.ts \in Timestamps(Stored') \/ \A q \in Stored' : q.ts < r.ts
  <2>1. CASE u = t
    <3>1. r \in batch[t] /\ r \notin Part(t, m)
        BY <1>1, <1>6, <2>1 DEF TypeOK
    <3>2. r \in Rows /\ m < Month(r)
        BY <1>3, <1>4, <3>1, RowsAreNumbered DEF Part
    <3>3. \A q \in new : q.ts < r.ts
        BY <1>4, <3>2, RowsAreNumbered
    <3>4. r.ts \in Timestamps(Stored) \/ \A q \in Stored : q.ts < r.ts
        BY <1>6, <3>1 DEF OrderInv
    <3> QED
        BY <1>2, <3>3, <3>4 DEF Timestamps
  <2>2. CASE u # t
    <3>1. r \in batch[u] \ belated
        BY <1>1, <1>6, <2>2 DEF TypeOK
    <3>2. u \notin {t} /\ Appending(t)
        BY <1>1, <2>2 DEF Appending
    <3>3. batch[u] = {}
        BY <3>2, Two DEF WriterInv, Appending
    <3> QED
        BY <3>1, <3>3
  <2> QED
      BY <2>1, <2>2
<1>7. ASSUME NEW r \in Stored' \ (belated \cup Passed) PROVE seen < r.ts
  <2>1. CASE r \in Stored
      BY <2>1, <1>7 DEF OrderInv
  <2>2. CASE r \notin Stored
      BY <1>5, <1>7, <2>2, RowsAreNumbered DEF OrderInv, Timestamps
  <2> QED
      BY <2>1, <2>2
<1>8. ASSUME pc'[loop] = "read", NEW r \in Stored' \ (belated \cup Passed \cup frame)
      PROVE  UnreadAfter(r)
  <2>1. pc[loop] = "read"
      BY <1>1, <1>8, Two DEF TypeOK
  <2>2. CASE r \in Stored
      BY <1>8, <2>1, <2>2 DEF OrderInv
  <2>3. CASE r \notin Stored
    <3>1. r \in Rows /\ \A q \in Stored : q.ts < r.ts
        BY <1>5, <1>8, <2>3
    <3>2. ASSUME NEW k \in unread PROVE k <= Month(r) /\ k \in Nat
      <4>1. PICK q \in months[k] : TRUE
          BY <2>1 DEF OrderInv
      <4>2. q \in Stored /\ q \in Rows /\ Month(q) = k
          BY StoredRows DEF TypeOK
      <4> QED
          BY <3>1, <4>2, RowsAreNumbered
    <3>3. \A q \in frame : q.ts < r.ts
        BY <3>1 DEF KeptInv
    <3>4. Month(r) \in Nat
        BY <3>1, RowsAreNumbered
    <3> QED
        BY <3>2, <3>3, <3>4 DEF UnreadAfter
  <2> QED
      BY <2>2, <2>3
<1>9. /\ seen = 0 \/ seen \in Timestamps(Stored')
      /\ pc'[loop] = "read" <=> pc[loop] = "read"
      /\ pc[loop] = "read" => \A k \in unread : months'[k] # {}
    BY <1>1, <1>2, Two DEF OrderInv, Timestamps, TypeOK
<1>10. Passed' = Passed /\ (pc'[loop] \in {"read", "score"} <=> pc[loop] \in {"read", "score"})
    BY <1>1, Two DEF Passed, Underway, TypeOK
<1> QED
    BY <1>1, <1>6, <1>7, <1>8, <1>9, <1>10 DEF OrderInv, UnreadAfter

LEMMA OrderStep ==
    TypeOK /\ WriterInv /\ KeptInv /\ OrderInv /\ [Next]_vars => OrderInv'
<1> SUFFICES ASSUME TypeOK, WriterInv, KeptInv, OrderInv, [Next]_vars PROVE OrderInv'
    OBVIOUS
<1>1. ASSUME NEW t \in Threads, NEW set \in SUBSET Rows, Append(t, set),
             t = loop => pc[loop] = "idle", UNCHANGED ticking
      PROVE  OrderInv'
  <2>1. /\ batch' = [batch EXCEPT ![t] = set] /\ pc' = [pc EXCEPT ![t] = "append"]
        /\ belated' = belated \cup Behind(set)
        /\ UNCHANGED <<months, seen, unread, frame, scored, forgone>>
      BY <1>1 DEF Append, StartAppend, Goto, ticking
  <2>2. /\ Stored' = Stored /\ Passed' = Passed /\ (pc'[loop] = "read" <=> pc[loop] = "read")
        /\ pc'[loop] \in {"read", "score"} <=> pc[loop] \in {"read", "score"}
      BY <1>1, <2>1, Two DEF Stored, Passed, Underway, TypeOK
  <2>3. ASSUME NEW r \in set, r \notin belated', r.ts \notin Timestamps(Stored)
        PROVE  \A q \in Stored : q.ts < r.ts
    <3>1. ~(r.ts <= Newest(Stored))
        BY <2>1, <2>3 DEF Behind
    <3>2. /\ Newest(Stored) \in Nat /\ r.ts \in Nat
          /\ \A q \in Stored : q.ts \in Nat /\ q.ts <= Newest(Stored)
        BY StoredRows, NewestIs, RowsAreNumbered
    <3> QED
        BY <3>1, <3>2
  <2>4. \A u \in Threads : \A r \in batch'[u] \ belated' :
           r.ts \in Timestamps(Stored) \/ \A q \in Stored : q.ts < r.ts
      BY <2>1, <2>3 DEF OrderInv, TypeOK
  <2> QED
      BY <2>1, <2>2, <2>4, Two DEF OrderInv, UnreadAfter
<1>2. CASE Drain
  <2>1. Drained \in SUBSET Rows
      BY DEF Drained, Parsed, Fetched, TypeOK
  <2> QED
      BY <1>1, <1>2, <2>1, Two DEF Drain, TickBegins
<1>3. ASSUME NEW set \in Posts, Post(set) PROVE OrderInv'
    BY <1>1, <1>3, Two DEF Post, Posts
<1>4. ASSUME NEW t \in Threads, AppendStep(t), ~AppendReplace(t) PROVE OrderInv'
  <2>1. /\ UNCHANGED <<months, batch, belated, seen, unread, frame, scored, forgone>>
        /\ pc[t] = "append" /\ pc' = [pc EXCEPT ![t] = "merge"]
      BY <1>4 DEF AppendStep, AppendRead, Goto, ticking
  <2>2. /\ Stored' = Stored /\ Passed' = Passed /\ (pc'[loop] = "read" <=> pc[loop] = "read")
        /\ pc'[loop] \in {"read", "score"} <=> pc[loop] \in {"read", "score"}
      BY <2>1, Two DEF Stored, Passed, Underway, TypeOK
  <2> QED
      BY <2>1, <2>2 DEF OrderInv, UnreadAfter
<1>5. CASE ReadMonth
  <2> DEFINE m == Earliest(unread)
  <2>1. /\ UNCHANGED <<months, batch, belated, pc, seen, scored, forgone>> /\ pc[loop] = "read"
        /\ Stored' = Stored /\ Passed' = Passed
        /\ frame' = frame \cup {r \in months[m] : r.ts > seen}
        /\ unread' = unread \ {m} /\ m \in unread /\ m \in Months /\ \A k \in unread : m <= k
      BY <1>5, ReadIs DEF ReadMonth, store, Passed, Underway
  <2> HIDE DEF m
  <2>2. unread \subseteq Nat
      BY RowsAreNumbered DEF TypeOK, Months
  <2>3. \A q \in frame' : q \in frame \/ Month(q) = m
      BY <2>1, StoredRows
  <2>4. \A q \in frame', k \in unread' : Month(q) < k
      BY <2>1, <2>2, <2>3 DEF OrderInv
  <2>5. ASSUME NEW r \in Stored \ (belated \cup Passed \cup frame') PROVE UnreadAfter(r)'
    <3>1. UnreadAfter(r) /\ r \in Rows /\ seen < r.ts
        BY <2>1, StoredRows DEF OrderInv
    <3>2. Month(r) # m
        BY <2>1, <3>1, StoredRows, RowsAreNumbered DEF TypeOK
    <3>3. CASE Month(r) \in unread
        BY <2>1, <3>2, <3>3 DEF UnreadAfter
    <3>4. CASE /\ \A k \in unread : k < Month(r)
               /\ \A q \in frame : q.ts < r.ts
      <4>1. \A q \in months[m] : q.ts < r.ts
          BY <2>1, <3>1, <3>4, StoredRows, RowsAreNumbered
      <4> QED
          BY <2>1, <3>4, <4>1 DEF UnreadAfter
    <3> QED
        BY <3>1, <3>3, <3>4 DEF UnreadAfter
  <2> QED
      BY <2>1, <2>4, <2>5 DEF OrderInv
<1>6. CASE List
  <2>1. /\ UNCHANGED <<months, batch, belated, seen, scored, forgone>>
        /\ unread' = {m \in Months : months[m] # {}} /\ frame' = {}
        /\ Stored' = Stored /\ frame = {} /\ pc'[loop] = "read" /\ Passed' = Passed
      BY <1>6, Two DEF List, Goto, store, Stored, OrderInv, TypeOK, Passed, Underway
  <2>2. \A r \in Stored : Month(r) \in unread'
      BY <2>1, StoredRows
  <2> QED
      BY <2>1, <2>2 DEF OrderInv, UnreadAfter
<1>7. CASE MarkSeen
  <2>1. /\ UNCHANGED <<months, batch, belated, unread, frame>> /\ unread = {}
        /\ pc[loop] = "read" /\ seen' = Newest(frame) /\ pc'[loop] = "score"
        /\ Stored' = Stored /\ Passed' = Passed \cup frame
      BY <1>7, Two DEF MarkSeen, Goto, store, Stored, TypeOK, Passed, Underway
  <2>2. \E q \in frame : q \in Stored /\ q.ts = Newest(frame)
      BY <1>7, NewestIs DEF MarkSeen, KeptInv, TypeOK
  <2>3. seen' \in Timestamps(Stored)
      BY <2>1, <2>2 DEF Timestamps
  <2>4. \A r \in Stored \ (belated \cup Passed') : seen' < r.ts
      BY <2>1, <2>2 DEF OrderInv, UnreadAfter
  <2> QED
      BY <2>1, <2>3, <2>4 DEF OrderInv
<1>8. ASSUME UNCHANGED <<months, belated, seen>>, Passed \subseteq Passed',
             \A t \in Threads : batch'[t] \subseteq batch[t],
             frame' = {}, pc'[loop] # "read"
      PROVE  OrderInv'
  <2>1. Stored' = Stored
      BY <1>8 DEF Stored
  <2> QED
      BY <1>8, <2>1 DEF OrderInv
<1>9. ASSUME UNCHANGED <<months, belated, seen, scored, forgone, frame, unread, pc[loop]>>,
             \A t \in Threads : batch'[t] \subseteq batch[t]
      PROVE  OrderInv'
  <2>1. Stored' = Stored
      BY <1>9 DEF Stored
  <2> QED
      BY <1>9, <2>1 DEF OrderInv, UnreadAfter, Passed, Underway
<1>10. CASE TickWithoutSource \/ DrainNothing \/ DrainRaises \/ SourceUnavailable
    BY <1>8, <1>10, Two DEF TickWithoutSource, DrainNothing, DrainRaises, SourceUnavailable,
       TickBegins, Goto, AfterFailure, store, ticking, OrderInv, TypeOK, Passed, Underway
<1>11. CASE DrainFails \/ DrainEnds
    BY <1>8, <1>11, Two DEF DrainFails, DrainEnds, AbandonAppend, Appended, Goto, AfterFailure,
       store, ticking, OrderInv, TypeOK, Passed, Underway
<1>12. CASE PostFails \/ PostEnds
    BY <1>9, <1>12, Two DEF PostFails, PostEnds, AbandonAppend, Goto, store, ticking, TypeOK
<1>13. CASE Crash
    BY <1>8, <1>13, Two DEF Crash, Passed, Underway
<1>14. CASE Score \/ TickFails
    BY <1>8, <1>14, Two DEF Score, TickFails, Goto, store, Passed, Underway, TypeOK
<1>15. CASE NothingNew
    BY <1>8, <1>15, Two DEF NothingNew, Goto, store, ticking, Passed, Underway, TypeOK
<1>16. CASE Restart \/ UNCHANGED vars \/ \E r \in Rows : Publish(r)
    BY <1>9, <1>16 DEF Restart, vars, Publish, store, ticking
<1> QED
    BY <1>2, <1>3, <1>4, <1>5, <1>6, <1>7, <1>10, <1>11, <1>12, <1>13, <1>14, <1>15, <1>16,
       Two, ReplaceKeepsOrder DEF Next, Tick

\* last_seen passes over no row that came to the store in its turn, except the
\* frame of a tick that is about to score it, or that a crash or an exception
\* ended between writing last_seen and the verdict (runtime.py, tick).
THEOREM NothingIsSkipped == ASSUME ~MixedFeeds PROVE Spec => []NothingSkipped
<1>1. Init => KeptInv /\ OrderInv
  <2>1. Init => /\ \A t \in Threads : pc[t] = "idle" /\ batch[t] = {}
                /\ Stored = {} /\ seen = 0 /\ frame = {} /\ scored = {} /\ unread = {}
      BY DEF Init, StoreInit, Stored
  <2> QED
      BY <2>1, Two DEF KeptInv, OrderInv
<1>2. ASSUME TypeOK, OrderInv PROVE NothingSkipped
    BY <1>2, StoredRows, RowsAreNumbered DEF OrderInv, NothingSkipped, Passed, TypeOK
<1>3. TypeOK /\ WriterInv /\ (KeptInv /\ OrderInv) /\ [Next]_vars => (KeptInv /\ OrderInv)'
    BY KeptStep, OrderStep
<1>4. TypeOK /\ KeptInv /\ OrderInv => NothingSkipped
    BY <1>2
<1> QED
    BY <1>1, <1>3, <1>4, OneWriter, IngestionTypeCorrect, PTL DEF Spec
=============================================================================
