-------------------------- MODULE AssetRuntimeProofs --------------------------
(***************************************************************************)
(* Theorems about AssetRuntime, for every value of its constants.          *)
(***************************************************************************)
EXTENDS AssetRuntime, InductionTheorems

-----------------------------------------------------------------------------
\* Helpers of the model.

\* A whole number of divisors fits into the dividend.
LEMMA DivFits ==
    ASSUME NEW n \in Nat, NEW d \in Nat \ {0}
    PROVE  n \div d \in Nat /\ (n \div d) * d <= n
  BY SMT

\* Thinning only leaves rows out, and none of a sample that fits.
LEMMA ThinnedRows ==
    ASSUME NEW rows
    PROVE  /\ Thinned(rows) \subseteq rows
           /\ Cardinality(rows) <= MaxSample => Thinned(rows) = rows
  BY DEF Thinned

\* The calibration sample holds stored rows only: cutting the newest
\* partitions off never reaches past the end of the store.
LEMMA SampleStored ==
    ASSUME Len(life) \in 0..MaxRow, NEW include \in BOOLEAN
    PROVE  Sample(include) \subseteq 1..Len(life) /\ Sample(include) \subseteq Row
<1> DEFINE L == Len(life)
           P == PeriodLen
           k == (L + P - 1) \div P
           h == (k - RecentPeriods) * P
<1>1. L \in Nat /\ L <= MaxRow /\ MaxRow \in Nat /\ P \in Nat /\ P >= 1 /\ RecentPeriods \in Nat
  BY ConstantAssumption
<1>2. L + P - 1 \in Nat
  BY <1>1
<1>3. k \in Nat /\ k * P <= L + P - 1
  BY <1>1, <1>2, DivFits
<1>4. ASSUME 0 < RecentPeriods PROVE h <= L
  <2> HIDE DEF L, P, k
  <2>1. PICK m \in Nat : RecentPeriods = m + 1
    BY <1>1, <1>4
  <2>2. h = k * P - m * P - P
    BY <2>1, <1>1, <1>3
  <2>3. m * P \in Nat /\ k * P \in Nat
    BY <2>1, <1>1, <1>3
  <2> QED BY <2>2, <2>3, <1>1, <1>3
<1>5. 1..L \subseteq Row
  BY <1>1 DEF Row
<1>6. ASSUME 0 < RecentPeriods PROVE 1..h \subseteq 1..L
  <2> HIDE DEF k, h, P
  <2>1. h \in Int
    BY <1>1, <1>3 DEF h
  <2> QED BY <2>1, <1>4, <1>6, <1>1
<1>7. Partitions = k
  BY DEF Partitions
<1> QED BY <1>5, <1>6, <1>7, ThinnedRows DEF Sample, Masked

LEMMA CalibratedBank ==
    ASSUME NEW sample \in SUBSET Row
    PROVE  Calibrated(sample) \in Bank /\ Calibrated(sample).count = Zero
  BY DEF Calibrated, Bank, NoBank, Zero

LEMMA FedBank ==
    ASSUME NEW b \in Bank, NEW rows
    PROVE  /\ Fed(b, rows) \in Bank
           /\ Fed(b, rows).ref = b.ref
           /\ \A r \in Row : Fed(b, rows).count[r] = b.count[r] + IF r \in rows THEN 1 ELSE 0
<1> DEFINE c == [r \in Row |-> b.count[r] + IF r \in rows THEN 1 ELSE 0]
<1>1. c \in [Row -> Nat]
  BY DEF Bank
<1>2. Fed(b, rows) = [ref |-> b.ref, count |-> c, aux |-> b.aux]
  BY DEF Fed, Bank
<1>3. b.aux \in BOOLEAN /\ b.ref \in SUBSET Row
  BY DEF Bank
<1> QED BY <1>1, <1>2, <1>3 DEF Bank

\* The auxiliary latch is no part of the main bank's evidence.
LEMMA LatchedBank ==
    ASSUME NEW b \in Bank, NEW aux \in BOOLEAN
    PROVE  /\ [b EXCEPT !.aux = aux] \in Bank
           /\ [b EXCEPT !.aux = aux].ref = b.ref
           /\ [b EXCEPT !.aux = aux].count = b.count
           /\ Evidence([b EXCEPT !.aux = aux]) = Evidence(b)
           /\ Alarmed([b EXCEPT !.aux = aux]) = Alarmed(b)
<1>1. [b EXCEPT !.aux = aux].ref = b.ref /\ [b EXCEPT !.aux = aux].count = b.count
  BY DEF Bank
<1>2. [b EXCEPT !.aux = aux] \in Bank
  BY DEF Bank
<1>3. Evidence([b EXCEPT !.aux = aux]) = Evidence(b)
  BY <1>1 DEF Evidence
<1> HIDE DEF Bank
<1> QED BY <1>1, <1>2, <1>3 DEF Alarmed, Armed

\* What scoring a frame makes of the bank.
FedWith(w, b) == \E aux \in BOOLEAN : b = [Fed(bank, Frame(w)) EXCEPT !.aux = aux]
Scored(w, b)  == b = bank \/ FedWith(w, b)

LEMMA FedIsScored ==
    ASSUME TypeOK, NEW w \in Workers
    PROVE  FedWith(w, Fed(bank, Frame(w)))
<1> DEFINE fed == Fed(bank, Frame(w))
<1>1. fed \in Bank
  BY FedBank DEF TypeOK
<1>2. fed.aux \in BOOLEAN /\ fed = [fed EXCEPT !.aux = fed.aux]
  BY <1>1 DEF Bank
<1> QED BY <1>2 DEF FedWith

LEMMA FedWithBank ==
    ASSUME TypeOK, NEW w \in Workers, NEW b, FedWith(w, b)
    PROVE  /\ b \in Bank /\ b.ref = bank.ref
           /\ \A r \in Row : b.count[r] = bank.count[r] + IF r \in Frame(w) THEN 1 ELSE 0
<1>1. bank \in Bank
  BY DEF TypeOK
<1>2. PICK aux \in BOOLEAN : b = [Fed(bank, Frame(w)) EXCEPT !.aux = aux]
  BY DEF FedWith
<1> DEFINE fed == Fed(bank, Frame(w))
<1>3. fed \in Bank /\ fed.ref = bank.ref
      /\ \A r \in Row : fed.count[r] = bank.count[r] + IF r \in Frame(w) THEN 1 ELSE 0
  BY <1>1, FedBank
<1>4. b = [fed EXCEPT !.aux = aux]
  BY <1>2
<1> HIDE DEF fed
<1>5. b \in Bank /\ b.ref = fed.ref /\ b.count = fed.count
  BY <1>3, <1>4, LatchedBank
<1> QED BY <1>3, <1>5

LEMMA ScoredBank ==
    ASSUME TypeOK, NEW w \in Workers, NEW b, Scored(w, b)
    PROVE  /\ b \in Bank /\ b.ref = bank.ref
           /\ \/ b.count = bank.count
              \/ \A r \in Row :
                    b.count[r] = bank.count[r] + IF r \in Frame(w) THEN 1 ELSE 0
<1>1. bank \in Bank
  BY DEF TypeOK
<1> QED BY <1>1, FedWithBank DEF Scored

LEMMA TickScoreScores ==
    ASSUME TypeOK, NEW w \in Workers, TickScore(w)
    PROVE  /\ Scored(w, bank') /\ bank'.ref = bank.ref
           /\ Armed(bank) => FedWith(w, bank')
           /\ open' = open \/ open' \in Onsets(w)
           /\ \E word \in Words : task' = [task EXCEPT ![w].word = word]
<1>1. bank \in Bank /\ bank.aux \in BOOLEAN
  BY DEF TypeOK, Bank
<1>2. Scored(w, bank') /\ (Armed(bank) => FedWith(w, bank'))
  <2>1. CASE ~Armed(bank) /\ bank' = bank
    BY <2>1 DEF Scored
  <2>2. CASE bank' = Fed(bank, Frame(w))
    BY <2>2, FedIsScored DEF Scored
  <2>3. CASE \E aux \in {bank.aux, TRUE} : bank' = [Fed(bank, Frame(w)) EXCEPT !.aux = aux]
    BY <1>1, <2>3 DEF Scored, FedWith
  <2> QED BY <2>1, <2>2, <2>3 DEF TickScore
<1>3. open' = open \/ open' \in Onsets(w)
  BY DEF TickScore, Opened
<1>4. \E word \in Words : task' = [task EXCEPT ![w].word = word]
  BY DEF TickScore, Words
<1> QED BY <1>2, <1>3, <1>4, ScoredBank

LEMMA ScoreRaisesScores ==
    ASSUME TypeOK, NEW w \in Workers, ScoreRaises(w)
    PROVE  /\ Scored(w, bank') /\ bank'.ref = bank.ref
           /\ open' = open \/ open' \in Onsets(w)
           /\ FedWith(w, bank') \/ Frame(w) \subseteq dropped'
<1>1. bank \in Bank /\ bank.aux \in BOOLEAN
  BY DEF TypeOK, Bank
<1>2. Scored(w, bank') /\ (FedWith(w, bank') \/ Frame(w) \subseteq dropped')
  <2>1. CASE bank' = bank /\ dropped' = dropped \cup Frame(w)
    BY <2>1 DEF Scored
  <2>2. CASE \E aux \in {bank.aux, TRUE} : bank' = [Fed(bank, Frame(w)) EXCEPT !.aux = aux]
    BY <1>1, <2>2 DEF Scored, FedWith
  <2> QED BY <2>1, <2>2 DEF ScoreRaises
<1>3. open' = open \/ open' \in Onsets(w)
  BY DEF ScoreRaises, Opened
<1> QED BY <1>2, <1>3, ScoredBank

LEMMA FingerprintType ==
    ASSUME TypeOK
    PROVE  Fingerprint \in (0..MaxRow) \X SUBSET Episode
  BY DEF Fingerprint, Faults, TypeOK

-----------------------------------------------------------------------------
\* Type correctness.  A frame that is being scored holds at least one row, and
\* an open episode has a last timestamp; without these two the episode that
\* CloseEpisode ledgers could start or end outside the store.

FrameNonEmpty == \A w \in Workers : pc[w] \in {"mark", "score"} => task[w].from < task[w].to
OpenHasLast   == open # 0 => lastTs # 0

TypeInv == TypeOK /\ FrameNonEmpty /\ OpenHasLast

LEMMA TypeInvInit == Init => TypeInv
<1> SUFFICES ASSUME Init PROVE TypeInv
  OBVIOUS
<1> USE ConstantAssumption
<1>1. Len(life) \in 0..MaxRow
  BY DEF Init
<1>2. bank \in Bank
  BY <1>1, SampleStored, CalibratedBank DEF Init
<1>3. NoBank \in Bank
  BY DEF NoBank, Bank, Zero
<1>4. cache \in [fp : (0..MaxRow) \X SUBSET Episode, bank : Bank]
  BY <1>1, <1>2 DEF Init, Fingerprint, Faults
<1>5. Idle \in Task
  BY DEF Idle, Task, Words
<1>6. task \in [Workers -> Task] /\ pc \in [Workers -> Steps]
  BY <1>5 DEF Init, Steps
<1>7. life \in Seq(Levels) /\ Len(life) <= MaxRow
  BY DEF Init
<1>8. 0 \in 0..(Cycle - 1)
  OBVIOUS
<1>9. /\ ledger \subseteq Episode /\ dropped \subseteq Row /\ unsaved \subseteq Row
      /\ halfDone \subseteq {"verdict", "reanchor"} /\ failures \in 0..MaxFailures
  BY DEF Init
<1>10. ticks \in 0..(Cycle - 1) /\ open \in 0..MaxRow
  BY DEF Init
<1>11. dbSeen \in 0..MaxRow /\ seen \in 0..MaxRow /\ lastTs \in 0..MaxRow
  BY DEF Init
<1>12. dbVerdict \in Words /\ verdict \in Words /\ up \in BOOLEAN
  BY DEF Init, Words
<1>13. ends \in 0..MaxEnds
  BY DEF Init
<1>14. born \in 0..MaxRow /\ savedBorn \in 0..MaxRow
  BY DEF Init
<1>15. dbWealth \in Bank
  BY <1>3 DEF Init
<1>16. TypeOK
  BY <1>2, <1>4, <1>6, <1>7, <1>9, <1>10, <1>11, <1>12, <1>13, <1>14, <1>15 DEF TypeOK
<1> QED BY <1>16 DEF Init, TypeInv, FrameNonEmpty, OpenHasLast

\* What each group of actions leaves in its type.
LEMMA GotoType ==
    ASSUME TypeOK, NEW w \in Workers, NEW step \in Steps, Goto(w, step)
    PROVE  pc' \in [Workers -> Steps] /\ pc'[w] = step
                 /\ \A v \in Workers : v # w => pc'[v] = pc[v]
  BY DEF TypeOK, Goto

LEMMA ContinueType ==
    ASSUME TypeOK, NEW w \in Workers, NEW step \in Steps, Continue(w, step)
    PROVE  /\ pc' \in [Workers -> Steps] /\ pc'[w] = step
           /\ task' \in [Workers -> Task]
           /\ \A v \in Workers : v # w => pc'[v] = pc[v] /\ task'[v] = task[v]
<1>1. Idle \in Task
  BY ConstantAssumption DEF Idle, Task, Words
<1>2. [task[w] EXCEPT !.ref = {}] \in Task
  <2>1. task[w] \in Task
    BY DEF TypeOK
  <2> QED BY <2>1 DEF Task
<1>3. task' = [task EXCEPT ![w] = IF step = "idle" THEN Idle ELSE [task[w] EXCEPT !.ref = {}]]
  BY DEF Continue
<1>4. task' \in [Workers -> Task] /\ \A v \in Workers : v # w => task'[v] = task[v]
  BY <1>1, <1>2, <1>3 DEF TypeOK
<1> QED BY <1>4, GotoType DEF Continue

LEMMA TypeInvStep == TypeInv /\ [Next]_vars => TypeInv'
<1> SUFFICES ASSUME TypeInv, [Next]_vars PROVE TypeInv'
  OBVIOUS
<1> USE ConstantAssumption
<1>0. TypeOK /\ FrameNonEmpty /\ OpenHasLast
  BY DEF TypeInv
<1>a. \A include \in BOOLEAN : Sample(include) \subseteq Row
  BY <1>0, SampleStored DEF TypeOK
<1>b. Fingerprint \in (0..MaxRow) \X SUBSET Episode
  BY <1>0, FingerprintType
<1>c. NoBank \in Bank
  BY DEF NoBank, Bank, Zero
<1>d. Idle \in Task
  BY DEF Idle, Task, Words
<1>1. ASSUME NEW level \in Levels, Ingest(level) PROVE TypeInv'
  <2>1. life' \in Seq(Levels) /\ Len(life') <= MaxRow
    BY <1>0, <1>1 DEF Ingest, TypeOK
  <2> QED BY <1>0, <1>1, <2>1
        DEF Ingest, TypeInv, TypeOK, FrameNonEmpty, OpenHasLast, memory, ghosts
<1>2. ASSUME NEW w \in Workers, TickRead(w) PROVE TypeInv'
  <2>1. Len(life) \in 0..MaxRow /\ seen \in 0..MaxRow
    BY <1>0 DEF TypeOK
  <2> DEFINE t == [Idle EXCEPT !.job = "tick", !.from = seen, !.to = FrameEnd]
  <2>2. t \in Task /\ t.from = seen /\ t.to = Len(life)
    BY <2>1, <1>d DEF FrameEnd, Idle, Task, Words
  <2>3. task' = [task EXCEPT ![w] = t]
    BY <1>2 DEF TickRead
  <2>4. task' \in [Workers -> Task] /\ task'[w] = t /\ \A v \in Workers : v # w => task'[v] = task[v]
    BY <2>2, <2>3, <1>0 DEF TypeOK
  <2>5. /\ pc' \in [Workers -> Steps]
        /\ pc'[w] = (IF Len(life) > seen THEN "mark" ELSE "bump")
        /\ \A v \in Workers : v # w => pc'[v] = pc[v]
    BY <1>0, <1>2, GotoType DEF TickRead, Steps, FrameEnd
  <2>6. TypeOK'
    BY <1>0, <1>2, <2>4, <2>5 DEF TickRead, TypeOK, durable, memory, ghosts
  <2>7. FrameNonEmpty'
    <3>1. pc'[w] \in {"mark", "score"} => t.from < t.to
      BY <2>1, <2>2, <2>5
    <3> QED BY <1>0, <2>4, <2>5, <3>1 DEF FrameNonEmpty
  <2> QED BY <1>0, <1>2, <2>6, <2>7 DEF TypeInv, OpenHasLast, TickRead, memory
<1>3. ASSUME NEW w \in Workers, TickMark(w) PROVE TypeInv'
  <2>1. pc' \in [Workers -> Steps] /\ pc'[w] = "score" /\ \A v \in Workers : v # w => pc'[v] = pc[v]
    BY <1>0, <1>3, GotoType DEF TickMark, Steps
  <2>2. task[w] \in Task /\ UNCHANGED task
    BY <1>0, <1>3 DEF TypeOK, TickMark
  <2>3. unsaved' \subseteq Row
    BY <1>0, <1>3 DEF TickMark, TypeOK, Frame
  <2>5. TypeOK'
    BY <1>0, <1>3, <2>1, <2>2, <2>3 DEF TickMark, TypeOK, Task
  <2>4. FrameNonEmpty'
    BY <1>0, <1>3, <2>1, <2>2 DEF FrameNonEmpty, TickMark
  <2> QED BY <1>0, <1>3, <2>4, <2>5 DEF TypeInv, OpenHasLast, TickMark
<1>4. ASSUME NEW w \in Workers, TickScore(w) PROVE TypeInv'
  <2>1. pc' \in [Workers -> Steps] /\ pc'[w] = "publish" /\ \A v \in Workers : v # w => pc'[v] = pc[v]
    BY <1>0, <1>4, GotoType DEF TickScore, Steps
  <2>2. /\ task[w].from \in 0..MaxRow /\ task[w].to \in 0..MaxRow
        /\ task[w].from < task[w].to
    <3>1. pc[w] = "score" /\ task[w] \in Task
      BY <1>0, <1>4 DEF TypeOK, TickScore
    <3> QED BY <1>0, <3>1 DEF Task, FrameNonEmpty
  <2>3. lastTs' = task[w].to
    BY <1>4 DEF TickScore
  <2>4. Onsets(w) \subseteq Row
    <3>1. task[w].from + 1 \in Row
      BY <2>2 DEF Row
    <3>2. Frame(w) \subseteq Row
      BY DEF Frame
    <3> QED BY <3>1, <3>2 DEF Onsets
  <2>5. bank' \in Bank
    BY <1>0, <1>4, TickScoreScores, ScoredBank
  <2>6. open' \in 0..MaxRow
    <3>1. open' = open \/ open' \in Onsets(w)
      BY <1>0, <1>4, TickScoreScores
    <3> QED BY <1>0, <2>4, <3>1 DEF TypeOK, Row
  <2>7. \E word \in Words : task' = [task EXCEPT ![w].word = word]
    BY <1>0, <1>4, TickScoreScores
  <2>8. task' \in [Workers -> Task] /\ \A v \in Workers : v # w => task'[v] = task[v]
    <3>1. PICK word \in Words : task' = [task EXCEPT ![w].word = word]
      BY <2>7
    <3>2. task[w] \in Task
      BY <1>0 DEF TypeOK
    <3>3. [task[w] EXCEPT !.word = word] \in Task
      BY <3>1, <3>2 DEF Task
    <3> QED BY <1>0, <3>1, <3>3 DEF TypeOK
  <2>9. TypeOK'
    BY <1>0, <1>4, <2>1, <2>2, <2>3, <2>5, <2>6, <2>8 DEF TickScore, TypeOK, durable, ghosts
  <2>10. FrameNonEmpty'
    BY <1>0, <2>1, <2>8 DEF FrameNonEmpty
  <2>11. OpenHasLast'
    BY <2>2, <2>3 DEF OpenHasLast
  <2> QED BY <2>9, <2>10, <2>11 DEF TypeInv
<1>5. ASSUME NEW w \in Workers, Publish(w), dbVerdict' \in {dbVerdict, task[w].word},
             failures' \in 0..MaxFailures
      PROVE  TypeInv'
  <2>1. /\ pc' \in [Workers -> Steps] /\ pc'[w] \in {"close", "bump"}
        /\ \A v \in Workers : v # w => pc'[v] = pc[v]
    BY <1>0, <1>5, GotoType DEF Publish, Steps
  <2>2. task[w].word \in Words
    BY <1>0 DEF TypeOK, Task
  <2>3. TypeOK'
    BY <1>0, <1>5, <2>1, <2>2 DEF Publish, TypeOK
  <2>4. FrameNonEmpty'
    BY <1>0, <1>5, <2>1 DEF FrameNonEmpty, Publish
  <2> QED BY <1>0, <1>5, <2>3, <2>4 DEF TypeInv, OpenHasLast, Publish
<1>6. ASSUME NEW w \in Workers, Request(w) PROVE TypeInv'
  <2>1. /\ pc' \in [Workers -> Steps] /\ pc'[w] \in {"close", "immune"}
        /\ \A v \in Workers : v # w => pc'[v] = pc[v]
    BY <1>0, <1>6, GotoType DEF Request, RequestReanchor, RequestImmune, Steps
  <2>2. PICK t \in Task : task' = [task EXCEPT ![w] = t]
    <3>1. [Idle EXCEPT !.job = "reanchor", !.word = verdict] \in Task
      BY <1>0, <1>d DEF TypeOK, Task, Idle
    <3>2. [Idle EXCEPT !.job = "immune"] \in Task
      BY <1>d DEF Task, Idle
    <3> QED BY <1>6, <3>1, <3>2 DEF Request, RequestReanchor, RequestImmune
  <2>3. task' \in [Workers -> Task] /\ \A v \in Workers : v # w => task'[v] = task[v]
    BY <1>0, <2>2 DEF TypeOK
  <2>4. UNCHANGED <<durable, memory, ghosts>>
    BY <1>6 DEF Request, RequestReanchor, RequestImmune
  <2>5. TypeOK'
    BY <1>0, <2>1, <2>3, <2>4 DEF TypeOK, durable, memory, ghosts
  <2>6. FrameNonEmpty'
    BY <1>0, <2>1, <2>3 DEF FrameNonEmpty
  <2> QED BY <1>0, <2>4, <2>5, <2>6 DEF TypeInv, OpenHasLast, memory
<1>7. ASSUME NEW w \in Workers, CloseEpisode(w) PROVE TypeInv'
  <2>1. pc' \in [Workers -> Steps] /\ pc'[w] = "resample" /\ \A v \in Workers : v # w => pc'[v] = pc[v]
    BY <1>0, <1>7, GotoType DEF CloseEpisode, Steps
  <2>2. ledger' \subseteq Episode
    <3>1. CASE open = 0
      BY <1>0, <1>7, <3>1 DEF CloseEpisode, TypeOK
    <3>2. CASE open # 0
      <4>1. open \in Row /\ lastTs \in Row
        BY <1>0, <3>2 DEF TypeOK, OpenHasLast, Row
      <4>2. ASSUME NEW word \in {"alarm", "change"}
            PROVE  [start |-> open, end |-> lastTs, state |-> word] \in Episode
        BY <4>1 DEF Episode
      <4> QED BY <1>0, <1>7, <3>2, <4>2 DEF CloseEpisode, TypeOK
    <3> QED BY <3>1, <3>2
  <2>3. TypeOK'
    BY <1>0, <1>7, <2>1, <2>2 DEF CloseEpisode, TypeOK, memory, ghosts
  <2>4. FrameNonEmpty'
    BY <1>0, <1>7, <2>1 DEF FrameNonEmpty, CloseEpisode
  <2> QED BY <1>0, <1>7, <2>3, <2>4 DEF TypeInv, OpenHasLast, CloseEpisode, memory
<1>8. ASSUME NEW w \in Workers, NEW step \in Steps \ {"mark", "score"},
             NEW ref \in SUBSET Row,
             task' = [task EXCEPT ![w].ref = ref], Goto(w, step),
             open' \in {open, 0},
             UNCHANGED <<durable, up, seen, bank, lastTs, verdict, ghosts>>
      PROVE  TypeInv'
  <2>1. pc' \in [Workers -> Steps] /\ pc'[w] = step /\ \A v \in Workers : v # w => pc'[v] = pc[v]
    BY <1>0, <1>8, GotoType
  <2>2. [task[w] EXCEPT !.ref = ref] \in Task
    <3>1. task[w] \in Task
      BY <1>0 DEF TypeOK
    <3>2. ref \in SUBSET Row
      BY <1>8
    <3> QED BY <3>1, <3>2 DEF Task
  <2>3. task' \in [Workers -> Task] /\ \A v \in Workers : v # w => task'[v] = task[v]
    BY <1>0, <1>8, <2>2 DEF TypeOK
  <2>4. TypeOK'
    <3>1. open' \in 0..MaxRow
      <4>1. open \in 0..MaxRow /\ 0 \in 0..MaxRow
        BY <1>0 DEF TypeOK
      <4> QED BY <4>1, <1>8, Zenon
    <3> QED BY <1>0, <1>8, <2>1, <2>3, <3>1 DEF TypeOK, durable, ghosts
  <2>5. FrameNonEmpty'
    BY <1>0, <2>1, <2>3 DEF FrameNonEmpty
  <2> QED BY <1>0, <1>8, <2>4, <2>5 DEF TypeInv, OpenHasLast
<1>9. ASSUME NEW w \in Workers, ReanchorSample(w) PROVE TypeInv'
  <2>1. IncludeRecent(w) \in BOOLEAN
    BY DEF IncludeRecent
  <2>2. Sample(IncludeRecent(w)) \in SUBSET Row
    BY <1>a, <2>1
  <2> QED BY <1>8, <1>9, <2>2 DEF ReanchorSample, Steps
<1>10. ASSUME NEW w \in Workers, RebuildSample(w) PROVE TypeInv'
  BY <1>8, <1>10, <1>a DEF RebuildSample, Steps, memory
<1>11. ASSUME NEW w \in Workers, NEW step \in Steps \ {"mark", "score"},
              Continue(w, step), UNCHANGED <<durable, memory, ghosts>>
       PROVE  TypeInv'
  <2>1. TypeOK'
    BY <1>0, <1>11, ContinueType DEF TypeOK, durable, memory, ghosts
  <2>2. FrameNonEmpty'
    BY <1>0, <1>11, ContinueType DEF FrameNonEmpty
  <2> QED BY <1>0, <1>11, <2>1, <2>2 DEF TypeInv, OpenHasLast, memory
<1>12. ASSUME NEW w \in Workers, ImmuneCheck(w) PROVE TypeInv'
  <2>1. AfterImmune(w) \in Steps \ {"mark", "score"}
    BY DEF AfterImmune, Steps
  <2>2. CASE Continue(w, AfterImmune(w))
    BY <1>11, <1>12, <2>1, <2>2 DEF ImmuneCheck
  <2>3. CASE ~Continue(w, AfterImmune(w))
    <3>1. PICK step \in {"revive", "recalibrate"} :
             task' = [task EXCEPT ![w].ref = Sample(FALSE)] /\ Goto(w, step)
      BY <1>12, <2>3 DEF ImmuneCheck
    <3> QED BY <1>8, <1>12, <1>a, <3>1 DEF ImmuneCheck, Steps, memory
  <2> QED BY <2>2, <2>3
<1>13. ASSUME NEW w \in Workers, NEW step \in Steps \ {"mark", "score"},
              Continue(w, step), Install(w)
       PROVE  TypeInv'
  <2>1. Calibrated(task[w].ref) \in Bank
    BY <1>0, CalibratedBank DEF TypeOK, Task
  <2>2. TypeOK'
    BY <1>0, <1>13, <2>1, ContinueType DEF TypeOK, Install, durable
  <2>3. FrameNonEmpty'
    BY <1>0, <1>13, ContinueType DEF FrameNonEmpty
  <2> QED BY <1>0, <1>13, <2>2, <2>3 DEF TypeInv, OpenHasLast, Install
<1>14. ASSUME NEW w \in Workers,
              ReanchorInstall(w) \/ RebuildInstall(w) \/ ImmuneInstall(w)
       PROVE  TypeInv'
  <2>1. \A s \in {AfterReanchor(w), AfterImmune(w), "recache", "recacheRebuilt"} :
           s \in Steps \ {"mark", "score"}
    BY DEF AfterReanchor, AfterImmune, Steps
  <2>2. \E s \in {AfterReanchor(w), AfterImmune(w), "recache", "recacheRebuilt"} :
           Continue(w, s) /\ Install(w)
    BY <1>14 DEF ReanchorInstall, RebuildInstall, ImmuneInstall
  <2> QED BY <1>13, <2>1, <2>2
<1>15. ASSUME NEW w \in Workers, ReanchorSaveCache(w) \/ RebuildSaveCache(w) PROVE TypeInv'
  <2>1. PICK s \in Steps \ {"mark", "score"} : Continue(w, s) /\ SaveCache
    BY <1>15 DEF ReanchorSaveCache, RebuildSaveCache, AfterReanchor, AfterRebuild, Steps
  <2>2. cache' \in [fp : (0..MaxRow) \X SUBSET Episode, bank : Bank]
    BY <1>0, <1>b, <2>1 DEF SaveCache, TypeOK
  <2>3. TypeOK'
    BY <1>0, <2>1, <2>2, ContinueType DEF TypeOK, SaveCache, memory, ghosts
  <2>4. FrameNonEmpty'
    BY <1>0, <2>1, ContinueType DEF FrameNonEmpty
  <2> QED BY <1>0, <2>1, <2>3, <2>4 DEF TypeInv, OpenHasLast, SaveCache, memory
<1>16. ASSUME NEW w \in Workers, TickBump(w) PROVE TypeInv'
  <2>1. ticks' \in 0..(Cycle - 1)
    BY <1>0, <1>16 DEF TickBump, NextTick, TypeOK
  <2>2. PICK s \in Steps \ {"mark", "score"} : Goto(w, s)
    BY <1>16 DEF TickBump, AfterRebuild, Steps
  <2>3. pc' \in [Workers -> Steps] /\ pc'[w] = s /\ \A v \in Workers : v # w => pc'[v] = pc[v]
    BY <1>0, <2>2, GotoType
  <2>4. TypeOK'
    BY <1>0, <1>16, <2>1, <2>3 DEF TickBump, TypeOK, memory, ghosts
  <2>5. FrameNonEmpty'
    BY <1>0, <1>16, <2>3 DEF FrameNonEmpty, TickBump
  <2> QED BY <1>0, <1>16, <2>4, <2>5 DEF TypeInv, OpenHasLast, TickBump, memory
<1>17. ASSUME NEW w \in Workers PROVE Frame(w) \subseteq Row
  BY DEF Frame
<1>18. ASSUME NEW w \in Workers, TickSnapshot(w) PROVE TypeInv'
  <2>1. Continue(w, "idle") /\ "idle" \in Steps \ {"mark", "score"}
    BY <1>18 DEF TickSnapshot, Steps
  <2>2. dbWealth' \in Bank /\ savedBorn' \in 0..MaxRow
    BY <1>0, <1>18 DEF TickSnapshot, TypeOK
  <2>3. unsaved' \subseteq Row
    BY <1>0, <1>18 DEF TickSnapshot, TypeOK
  <2>4. TypeOK'
    BY <1>0, <1>18, <2>1, <2>2, <2>3, ContinueType DEF TickSnapshot, TypeOK, memory
  <2>5. FrameNonEmpty'
    BY <1>0, <2>1, ContinueType DEF FrameNonEmpty
  <2> QED BY <1>0, <1>18, <2>4, <2>5 DEF TypeInv, OpenHasLast, TickSnapshot, memory
<1>19. ASSUME Crash \/ Stop PROVE TypeInv'
  <2>1. Down
    BY <1>19 DEF Crash, Stop
  <2>2. ends' \in 0..MaxEnds
    BY <1>0, <2>1, ConstantAssumption DEF Down, TypeOK
  <2>3. /\ dropped' \subseteq Row /\ unsaved' \subseteq Row
        /\ halfDone' \subseteq {"verdict", "reanchor"}
    BY <1>0, <2>1 DEF Down, TypeOK
  <2>4. pc' \in [Workers -> Steps] /\ task' \in [Workers -> Task]
    BY <1>d, <2>1 DEF Down, Steps
  <2>5. /\ seen' = 0 /\ open' = 0 /\ lastTs' = 0 /\ up' = FALSE
        /\ verdict' \in Words /\ bank' \in Bank
        /\ UNCHANGED <<durable, failures, born, savedBorn>>
    BY <1>c, <2>1 DEF Down, Words
  <2>6. TypeOK'
    <3>1. 0 \in 0..MaxRow
      OBVIOUS
    <3> QED BY <1>0, <2>2, <2>3, <2>4, <2>5, <3>1 DEF TypeOK, durable
  <2>7. FrameNonEmpty'
    BY <2>1 DEF FrameNonEmpty, Down
  <2> QED BY <2>5, <2>6, <2>7 DEF TypeInv, OpenHasLast
<1>20. ASSUME Restart PROVE TypeInv'
  <2> DEFINE built == IF CacheHit THEN cache.bank ELSE Calibrated(Sample(FALSE))
  <2>1. built \in Bank
    BY <1>0, <1>a, CalibratedBank DEF TypeOK
  <2>2. bank' = Restored(built)
    BY <1>20 DEF Restart
  <2>3. bank' \in Bank
    BY <1>0, <2>1, <2>2 DEF Restored, TypeOK
  <2>4. cache' = cache \/ cache' = [fp |-> Fingerprint, bank |-> built]
    BY <1>20 DEF Restart
  <2>5. cache' \in [fp : (0..MaxRow) \X SUBSET Episode, bank : Bank]
    <3>1. [fp |-> Fingerprint, bank |-> built] \in [fp : (0..MaxRow) \X SUBSET Episode, bank : Bank]
      <4> HIDE DEF built
      <4> QED BY <1>b, <2>1
    <3>2. cache \in [fp : (0..MaxRow) \X SUBSET Episode, bank : Bank]
      BY <1>0 DEF TypeOK
    <3> QED BY <2>4, <3>1, <3>2, Zenon
  <2>6. born' \in 0..MaxRow /\ verdict' \in Words /\ seen' \in 0..MaxRow /\ up' = TRUE
    BY <1>0, <1>20 DEF Restart, TypeOK, Words, ResumedSeen
  <2>7. TypeOK'
    BY <1>0, <1>20, <2>3, <2>5, <2>6 DEF Restart, TypeOK
  <2> QED BY <1>0, <1>20, <2>7 DEF TypeInv, FrameNonEmpty, OpenHasLast, Restart
<1>21. ASSUME UNCHANGED vars PROVE TypeInv'
  BY <1>0, <1>21
     DEF vars, durable, memory, ghosts, TypeInv, TypeOK, FrameNonEmpty, OpenHasLast
<1>e. ASSUME NEW w \in Workers, TickPublish(w) PROVE TypeInv'
  <2>1. failures' \in 0..MaxFailures
    BY <1>0, <1>e DEF TickPublish, TypeOK
  <2> QED BY <1>5, <1>e, <2>1 DEF TickPublish
<1>22. ASSUME NEW w \in Workers, Tick(w) PROVE TypeInv'
  BY <1>2, <1>3, <1>4, <1>e, <1>10, <1>14, <1>15, <1>16, <1>18, <1>22 DEF Tick
<1>23. ASSUME NEW w \in Workers, Reanchor(w) \/ ImmunePass(w) PROVE TypeInv'
  BY <1>7, <1>9, <1>12, <1>14, <1>15, <1>23 DEF Reanchor, ImmunePass
\* Failures.
<1>24. ASSUME Fails PROVE failures' \in 0..MaxFailures
  BY <1>0, <1>24 DEF Fails, TypeOK
<1>25. ASSUME NEW w \in Workers, GivesUp(w)
       PROVE  /\ pc' \in [Workers -> Steps] /\ task' \in [Workers -> Task]
              /\ FrameNonEmpty'
  <2>1. /\ pc' \in [Workers -> Steps] /\ pc'[w] = "idle"
        /\ \A v \in Workers : v # w => pc'[v] = pc[v]
    BY <1>0, <1>25 DEF GivesUp, TypeOK, Steps
  <2>2. task' \in [Workers -> Task] /\ \A v \in Workers : v # w => task'[v] = task[v]
    BY <1>0, <1>d, <1>25 DEF GivesUp, TypeOK
  <2> QED BY <1>0, <2>1, <2>2 DEF FrameNonEmpty
<1>26. ASSUME NEW w \in Workers, MarkFails(w) PROVE TypeInv'
  <2>1. dropped' \subseteq Row /\ seen' \in 0..MaxRow
    BY <1>0, <1>17, <1>26 DEF MarkFails, TypeOK, Task
  <2>2. TypeOK'
    BY <1>0, <1>24, <1>25, <1>26, <2>1 DEF MarkFails, TypeOK, durable
  <2> QED BY <1>0, <1>25, <1>26, <2>2 DEF TypeInv, OpenHasLast, MarkFails
<1>27. ASSUME NEW w \in Workers, ScoreRaises(w) PROVE TypeInv'
  <2>1. /\ task[w].from \in 0..MaxRow /\ task[w].to \in 0..MaxRow
        /\ task[w].from < task[w].to
    <3>1. pc[w] = "score" /\ task[w] \in Task
      BY <1>0, <1>27 DEF TypeOK, ScoreRaises
    <3> QED BY <1>0, <3>1 DEF Task, FrameNonEmpty
  <2>2. lastTs' = task[w].to \/ (lastTs' = lastTs /\ open' = open)
    BY <1>27 DEF ScoreRaises
  <2>3. lastTs' \in 0..MaxRow
    BY <1>0, <2>1, <2>2 DEF TypeOK
  <2>4. bank' \in Bank
    BY <1>0, <1>27, ScoreRaisesScores, ScoredBank
  <2>5. open' \in 0..MaxRow
    <3>1. task[w].from + 1 \in Row
      BY <2>1 DEF Row
    <3>2. Onsets(w) \subseteq Row
      BY <1>17, <3>1 DEF Onsets
    <3>3. open' = open \/ open' \in Onsets(w)
      BY <1>0, <1>27, ScoreRaisesScores
    <3> QED BY <1>0, <3>2, <3>3 DEF TypeOK, Row
  <2>6. dropped' \subseteq Row /\ halfDone' \subseteq {"verdict", "reanchor"}
    BY <1>0, <1>17, <1>27 DEF ScoreRaises, TypeOK
  <2>7. GivesUp(w) /\ failures' \in 0..MaxFailures
    BY <1>24, <1>27 DEF ScoreRaises
  <2>8. UNCHANGED <<durable, up, seen, verdict, ends, born, savedBorn, unsaved>>
    BY <1>27 DEF ScoreRaises
  <2>9. TypeOK'
    BY <1>0, <1>25, <2>3, <2>4, <2>5, <2>6, <2>7, <2>8 DEF TypeOK, durable
  <2>10. OpenHasLast'
    BY <1>0, <2>1, <2>2 DEF OpenHasLast
  <2> QED BY <1>25, <2>7, <2>9, <2>10 DEF TypeInv
<1>28. ASSUME NEW w \in Workers, Raises(w) PROVE TypeInv'
  <2>1. halfDone' \subseteq {"verdict", "reanchor"}
    BY <1>0, <1>28 DEF Raises, TypeOK
  <2>2. TypeOK'
    BY <1>0, <1>24, <1>25, <1>28, <2>1 DEF Raises, TypeOK, durable, memory
  <2> QED BY <1>0, <1>25, <1>28, <2>2 DEF TypeInv, OpenHasLast, Raises, memory
<1>29. ASSUME NEW w \in Workers, PublishFails(w) PROVE TypeInv'
  BY <1>5, <1>24, <1>29 DEF PublishFails
<1>30. ASSUME NEW w \in Workers, SaveCacheFails(w) \/ SnapshotFails(w) PROVE TypeInv'
  <2>1. PICK step \in Steps \ {"mark", "score"} : Continue(w, step)
    BY <1>30 DEF SaveCacheFails, SnapshotFails, AfterReanchor, AfterRebuild, Steps
  <2>2. Fails /\ UNCHANGED <<durable, memory, ends, born, savedBorn, unsaved>>
        /\ UNCHANGED <<dropped, halfDone>>
    BY <1>30 DEF SaveCacheFails, SnapshotFails
  <2>3. TypeOK'
    BY <1>0, <1>24, <2>1, <2>2, ContinueType DEF TypeOK, durable, memory
  <2>4. FrameNonEmpty'
    BY <1>0, <2>1, ContinueType DEF FrameNonEmpty
  <2> QED BY <1>0, <2>2, <2>3, <2>4 DEF TypeInv, OpenHasLast, memory
<1>31. ASSUME NEW w \in Workers, Failure(w) PROVE TypeInv'
  BY <1>26, <1>27, <1>28, <1>29, <1>30, <1>31 DEF Failure
<1> QED BY <1>1, <1>6, <1>19, <1>20, <1>21, <1>22, <1>23, <1>31 DEF Next

\* The evidence life of an asset is well typed in every reachable state, and an
\* adjudicated episode always lies within the rows of the store.
THEOREM TypeCorrect == Spec => []TypeOK
<1>1. TypeInv => TypeOK
  BY DEF TypeInv
<1> QED BY TypeInvInit, TypeInvStep, <1>1, PTL DEF Spec

-----------------------------------------------------------------------------
\* Evidence is counted once, provided one thread at a time works on the asset.
\* Every wealth the system holds (the live bank, the snapshot, the bank of the
\* cached monitor) counts a row at most once, and only rows behind the frontier
\* of what was scored: the journal, less the frame being scored.  The memory may be
\* ahead of the journal (a mark that could not be written), never behind it, so a
\* frame starts at that frontier or beyond and its rows are new to the wealth.

OneWorker == \A v, w \in Workers : v = w

CountsUpTo(b, n) == \A r \in Row : b.count[r] = 0 \/ (b.count[r] = 1 /\ r <= n)

AllCountUpTo(n) ==
    CountsUpTo(bank, n) /\ CountsUpTo(dbWealth, n) /\ CountsUpTo(cache.bank, n)

JournalBehind == up => dbSeen <= seen

FramesAreNew ==
    \A w \in Workers :
       /\ pc[w] \in {"mark", "score"} => up
       /\ pc[w] = "mark"  => task[w].from = seen /\ dbSeen <= seen
       /\ pc[w] = "score" => task[w].to = dbSeen /\ AllCountUpTo(task[w].from)

CountInv == AllCountUpTo(dbSeen) /\ JournalBehind /\ FramesAreNew

LEMMA CountsUpToMonotone ==
    ASSUME NEW b, NEW m \in 0..MaxRow, NEW n \in 0..MaxRow, m <= n, CountsUpTo(b, m)
    PROVE  CountsUpTo(b, n)
  BY ConstantAssumption DEF CountsUpTo, Row

LEMMA ZeroCounts ==
    ASSUME NEW b, b.count = Zero, NEW n
    PROVE  CountsUpTo(b, n)
  BY DEF CountsUpTo, Zero

LEMMA CountInvInit == Init => CountInv
<1> SUFFICES ASSUME Init PROVE CountInv
  OBVIOUS
<1>1. Len(life) \in 0..MaxRow
  BY ConstantAssumption DEF Init
<1>2. bank.count = Zero /\ dbWealth.count = Zero /\ cache.bank = bank
  BY <1>1, SampleStored, CalibratedBank DEF Init, NoBank
<1>3. AllCountUpTo(dbSeen)
  BY <1>2, ZeroCounts DEF AllCountUpTo
<1> QED BY <1>3 DEF Init, CountInv, JournalBehind, FramesAreNew

LEMMA CountInvStep ==
    ASSUME OneWorker, TypeInv, TypeInv', CountInv, [Next]_vars
    PROVE  CountInv'
<1> USE ConstantAssumption
<1>1. TypeOK /\ TypeOK' /\ FrameNonEmpty
  BY DEF TypeInv
<1>2. AllCountUpTo(dbSeen) /\ JournalBehind /\ FramesAreNew
  BY DEF CountInv
\* A step that starts no frame, scores none and raises no count.
<1>3. ASSUME UNCHANGED dbSeen, JournalBehind',
             \A n \in 0..MaxRow : AllCountUpTo(n) => AllCountUpTo(n)',
             \A w \in Workers : \/ pc'[w] \notin {"mark", "score"}
                                 \/ UNCHANGED <<pc[w], task[w], seen, up>>
      PROVE  CountInv'
  <2>1. AllCountUpTo(dbSeen)'
    BY <1>1, <1>2, <1>3 DEF TypeOK
  <2>2. ASSUME NEW w \in Workers
        PROVE  /\ pc'[w] \in {"mark", "score"} => up'
               /\ pc'[w] = "mark"  => task'[w].from = seen' /\ dbSeen' <= seen'
               /\ pc'[w] = "score" => task'[w].to = dbSeen' /\ AllCountUpTo(task[w].from)'
    <3>1. CASE pc'[w] \notin {"mark", "score"}
      BY <3>1
    <3>2. CASE UNCHANGED <<pc[w], task[w], seen, up>>
      <4>1. task[w].from \in 0..MaxRow
        BY <1>1 DEF TypeOK, Task
      <4>2. AllCountUpTo(task[w].from) => AllCountUpTo(task[w].from)'
        BY <1>3, <3>2, <4>1 DEF AllCountUpTo
      <4> QED BY <1>2, <1>3, <3>2, <4>2 DEF FramesAreNew
    <3> QED BY <1>3, <3>1, <3>2
  <2> QED BY <1>3, <2>1, <2>2 DEF CountInv, FramesAreNew
<1>4. ASSUME NEW w \in Workers PROVE \A v \in Workers : v = w
  BY DEF OneWorker
<1>5. ASSUME NEW level \in Levels, Ingest(level) PROVE CountInv'
  BY <1>2, <1>3, <1>5 DEF Ingest, memory, AllCountUpTo, JournalBehind
<1>6. ASSUME NEW w \in Workers, TickRead(w) PROVE CountInv'
  <2>1. UNCHANGED <<durable, memory>> /\ dbSeen <= seen /\ up
    BY <1>2, <1>6 DEF TickRead, JournalBehind
  <2>2. task'[w].from = seen /\ pc'[w] # "score"
    BY <1>1, <1>6 DEF TickRead, Goto, TypeOK, Idle
  <2>3. AllCountUpTo(dbSeen)'
    BY <1>2, <2>1 DEF durable, memory, AllCountUpTo
  <2> QED BY <1>2, <1>4, <2>1, <2>2, <2>3
        DEF CountInv, JournalBehind, FramesAreNew, durable, memory
<1>7. ASSUME NEW w \in Workers, TickMark(w) PROVE CountInv'
  <2>1. dbSeen <= task[w].from /\ task[w].from < task[w].to
    BY <1>1, <1>2, <1>7 DEF FramesAreNew, FrameNonEmpty, TickMark
  <2>2. /\ dbSeen' = task[w].to /\ seen' = task[w].to /\ up'
        /\ UNCHANGED <<task, bank, dbWealth, cache>>
    BY <1>2, <1>7 DEF TickMark, FramesAreNew
  <2>3. dbSeen \in 0..MaxRow /\ task[w].from \in 0..MaxRow /\ task[w].to \in 0..MaxRow
    BY <1>1 DEF TypeOK, Task
  <2>4. AllCountUpTo(task[w].from)'
    BY <1>2, <2>1, <2>2, <2>3, CountsUpToMonotone DEF AllCountUpTo
  <2>5. AllCountUpTo(dbSeen)'
    BY <2>1, <2>2, <2>3, <2>4, CountsUpToMonotone DEF AllCountUpTo
  <2>6. pc'[w] = "score"
    BY <1>1, <1>7 DEF TickMark, Goto, TypeOK
  <2> QED BY <1>4, <2>2, <2>3, <2>4, <2>5, <2>6 DEF CountInv, JournalBehind, FramesAreNew
<1>b. ASSUME NEW w \in Workers, pc[w] = "score", NEW b, Scored(w, b)
      PROVE  CountsUpTo(b, dbSeen)
  <2>1. task[w].to = dbSeen /\ AllCountUpTo(task[w].from) /\ task[w].from < task[w].to
    BY <1>1, <1>2, <1>b DEF FramesAreNew, FrameNonEmpty
  <2>2. CASE b.count = bank.count
    BY <1>2, <2>2 DEF AllCountUpTo, CountsUpTo
  <2>3. CASE \A r \in Row : b.count[r] = bank.count[r] + IF r \in Frame(w) THEN 1 ELSE 0
    <3>1. task[w].from \in 0..MaxRow /\ dbSeen \in 0..MaxRow
      BY <1>1 DEF TypeOK, Task
    <3>2. ASSUME NEW r \in Row
          PROVE b.count[r] = 0 \/ (b.count[r] = 1 /\ r <= dbSeen)
      <4>1. bank.count[r] = 0 \/ (bank.count[r] = 1 /\ r <= task[w].from)
        BY <2>1 DEF AllCountUpTo, CountsUpTo
      <4>2. b.count[r] = bank.count[r] + IF task[w].from < r /\ r <= dbSeen THEN 1 ELSE 0
        BY <2>1, <2>3 DEF Frame
      <4> QED BY <2>1, <3>1, <4>1, <4>2 DEF Row
    <3> QED BY <3>2 DEF CountsUpTo
  <2> QED BY <1>1, <1>b, <2>2, <2>3, ScoredBank
<1>8. ASSUME NEW w \in Workers, TickScore(w) PROVE CountInv'
  <2>1. task[w].to = dbSeen /\ AllCountUpTo(task[w].from) /\ task[w].from < task[w].to
    BY <1>1, <1>2, <1>8 DEF FramesAreNew, FrameNonEmpty, TickScore
  <2>2. UNCHANGED <<dbSeen, dbWealth, cache, up, seen>> /\ pc'[w] = "publish"
    BY <1>1, <1>8 DEF TickScore, durable, Goto, TypeOK
  <2>3. CountsUpTo(bank', dbSeen)
    BY <1>1, <1>8, <1>b, TickScoreScores DEF TickScore
  <2>4. AllCountUpTo(dbSeen)'
    BY <1>2, <2>2, <2>3 DEF AllCountUpTo
  <2> QED BY <1>2, <1>4, <2>2, <2>4 DEF CountInv, JournalBehind, FramesAreNew
<1>9. ASSUME NEW w \in Workers,
             pc'[w] \notin {"mark", "score"}, UNCHANGED <<dbSeen, up, seen>>,
             \A n \in 0..MaxRow : AllCountUpTo(n) => AllCountUpTo(n)'
      PROVE  CountInv'
  BY <1>2, <1>3, <1>4, <1>9 DEF JournalBehind
<1>10. ASSUME NEW w \in Workers, NEW step, Goto(w, step) \/ Continue(w, step)
       PROVE  pc'[w] = step
  BY <1>1, <1>10 DEF Goto, Continue, TypeOK
<1>11. ASSUME NEW w \in Workers,
              TickPublish(w) \/ CloseEpisode(w) \/ ReanchorSample(w) \/ TickBump(w)
                 \/ RebuildSample(w) \/ ImmuneCheck(w) \/ Request(w)
       PROVE  CountInv'
  <2>1. UNCHANGED <<dbSeen, up, seen, bank, dbWealth, cache>>
    BY <1>11
       DEF TickPublish, Publish, CloseEpisode, ReanchorSample, TickBump, RebuildSample,
           ImmuneCheck, Request, RequestReanchor, RequestImmune, durable, memory
  <2>2. pc'[w] \notin {"mark", "score"}
    BY <1>10, <1>11
       DEF TickPublish, Publish, CloseEpisode, ReanchorSample, TickBump, RebuildSample,
           ImmuneCheck, Request, RequestReanchor, RequestImmune,
           AfterRebuild, AfterImmune
  <2> QED BY <1>9, <2>1, <2>2 DEF AllCountUpTo
<1>12. ASSUME NEW w \in Workers,
              ReanchorInstall(w) \/ RebuildInstall(w) \/ ImmuneInstall(w)
       PROVE  CountInv'
  <2>1. UNCHANGED <<dbSeen, up, seen, dbWealth, cache>> /\ bank' = Calibrated(task[w].ref)
    BY <1>12 DEF ReanchorInstall, RebuildInstall, ImmuneInstall, Install, durable
  <2>2. pc'[w] \notin {"mark", "score"}
    BY <1>10, <1>12
       DEF ReanchorInstall, RebuildInstall, ImmuneInstall, AfterReanchor, AfterImmune
  <2>3. bank'.count = Zero
    BY <1>1, <2>1, CalibratedBank DEF TypeOK, Task
  <2> QED BY <1>9, <2>1, <2>2, <2>3, ZeroCounts DEF AllCountUpTo
<1>13. ASSUME NEW w \in Workers, ReanchorSaveCache(w) \/ RebuildSaveCache(w)
       PROVE  CountInv'
  <2>1. UNCHANGED <<dbSeen, up, seen, dbWealth, bank>> /\ cache'.bank = bank
    BY <1>13 DEF ReanchorSaveCache, RebuildSaveCache, SaveCache, memory
  <2>2. pc'[w] \notin {"mark", "score"}
    BY <1>10, <1>13 DEF ReanchorSaveCache, RebuildSaveCache, AfterReanchor, AfterRebuild
  <2> QED BY <1>9, <2>1, <2>2 DEF AllCountUpTo
<1>14. ASSUME NEW w \in Workers, TickSnapshot(w) PROVE CountInv'
  <2>1. UNCHANGED <<dbSeen, up, seen, bank, cache>> /\ dbWealth' \in {bank, dbWealth}
    BY <1>14 DEF TickSnapshot, memory
  <2>2. pc'[w] \notin {"mark", "score"}
    BY <1>10, <1>14 DEF TickSnapshot
  <2> QED BY <1>9, <2>1, <2>2 DEF AllCountUpTo
<1>15. ASSUME Crash \/ Stop PROVE CountInv'
  <2>1. /\ up' = FALSE /\ bank' = NoBank /\ UNCHANGED <<dbSeen, dbWealth, cache>>
        /\ \A w \in Workers : pc'[w] = "idle"
    BY <1>15 DEF Crash, Stop, Down, durable
  <2>2. bank'.count = Zero
    BY <2>1 DEF NoBank
  <2> QED BY <1>3, <2>1, <2>2, ZeroCounts DEF AllCountUpTo, JournalBehind
<1>16. ASSUME Restart PROVE CountInv'
  <2> DEFINE built == IF CacheHit THEN cache.bank ELSE Calibrated(Sample(FALSE))
  <2>1. /\ bank' = Restored(built) /\ (cache' = cache \/ cache'.bank = built)
        /\ seen' = dbSeen /\ UNCHANGED <<dbSeen, dbWealth, pc, task>>
        /\ \A w \in Workers : pc[w] \notin {"mark", "score"}
    BY <1>2, <1>16 DEF Restart, ResumedSeen, FramesAreNew
  <2>2. Calibrated(Sample(FALSE)).count = Zero
    <3>1. Len(life) \in 0..MaxRow
      BY <1>1 DEF TypeOK
    <3> QED BY <3>1, SampleStored, CalibratedBank
  <2>3. ASSUME NEW n \in 0..MaxRow, AllCountUpTo(n) PROVE AllCountUpTo(n)'
    <3>1. CountsUpTo(built, n)
      BY <2>2, <2>3, ZeroCounts DEF AllCountUpTo
    <3>2. bank' \in {built, dbWealth} /\ cache'.bank \in {built, cache.bank}
      BY <2>1 DEF Restored
    <3> HIDE DEF built
    <3> QED BY <2>1, <2>3, <3>1, <3>2 DEF AllCountUpTo
  <2>4. dbSeen \in Int
    BY <1>1 DEF TypeOK
  <2> QED BY <1>3, <2>1, <2>3, <2>4 DEF JournalBehind
<1>17. ASSUME UNCHANGED vars PROVE CountInv'
  BY <1>2, <1>3, <1>17 DEF vars, durable, memory, AllCountUpTo, JournalBehind
<1>18. ASSUME NEW w \in Workers, Tick(w) PROVE CountInv'
  BY <1>6, <1>7, <1>8, <1>11, <1>12, <1>13, <1>14, <1>18 DEF Tick
<1>19. ASSUME NEW w \in Workers, Reanchor(w) \/ ImmunePass(w) PROVE CountInv'
  BY <1>11, <1>12, <1>13, <1>19 DEF Reanchor, ImmunePass
<1>20. ASSUME NEW w \in Workers, Failure(w) PROVE CountInv'
  <2>1. UNCHANGED <<dbSeen, dbWealth, cache, up>>
    BY <1>20 DEF Failure, MarkFails, ScoreRaises, Raises, PublishFails, Publish,
       SaveCacheFails, SnapshotFails, durable, memory
  <2>2. pc'[w] \notin {"mark", "score"}
    <3>1. CASE GivesUp(w)
      BY <1>1, <3>1 DEF GivesUp, TypeOK
    <3>2. CASE \E step : Continue(w, step) /\ step \in {"idle", AfterReanchor(w), AfterRebuild(ticks)}
      BY <1>10, <3>2 DEF AfterReanchor, AfterRebuild
    <3>3. CASE PublishFails(w)
      BY <1>10, <3>3 DEF PublishFails, Publish
    <3> QED BY <1>20, <3>1, <3>2, <3>3
          DEF Failure, MarkFails, ScoreRaises, Raises, SaveCacheFails, SnapshotFails
  <2>3. JournalBehind'
    <3>1. CASE MarkFails(w)
      <4>1. seen' = task[w].to /\ dbSeen <= task[w].from /\ task[w].from < task[w].to
        BY <1>1, <1>2, <3>1 DEF FramesAreNew, FrameNonEmpty, MarkFails
      <4>2. task[w].from \in Int /\ task[w].to \in Int /\ dbSeen \in Int
        <5>1. task[w] \in Task /\ dbSeen \in Int
          BY <1>1 DEF TypeOK
        <5> QED BY <5>1 DEF Task
      <4> QED BY <2>1, <4>1, <4>2 DEF JournalBehind
    <3>2. CASE UNCHANGED seen
      BY <1>2, <2>1, <3>2 DEF JournalBehind
    <3> QED BY <1>20, <3>1, <3>2 DEF Failure, ScoreRaises, Raises, PublishFails, Publish,
          SaveCacheFails, SnapshotFails, memory
  <2>4. CASE ScoreRaises(w)
    <3>1. CountsUpTo(bank', dbSeen)
      BY <1>1, <1>b, <2>4, ScoreRaisesScores DEF ScoreRaises
    <3>2. AllCountUpTo(dbSeen)'
      BY <1>2, <2>1, <3>1 DEF AllCountUpTo
    <3> QED BY <1>4, <2>2, <2>3, <3>2 DEF CountInv, FramesAreNew
  <2>5. CASE ~ScoreRaises(w)
    <3>1. UNCHANGED bank
      BY <1>20, <2>5 DEF Failure, MarkFails, Raises, PublishFails, Publish,
         SaveCacheFails, SnapshotFails, memory
    <3>2. AllCountUpTo(dbSeen)'
      BY <1>2, <2>1, <3>1 DEF AllCountUpTo
    <3> QED BY <1>4, <2>2, <2>3, <3>2 DEF CountInv, FramesAreNew
  <2> QED BY <2>4, <2>5
<1> QED BY <1>5, <1>11, <1>15, <1>16, <1>17, <1>18, <1>19, <1>20 DEF Next

\* With one thread at a time on the asset, no row's evidence enters a wealth
\* twice, in the live bank or in the snapshot, through any number of crashes,
\* stops, restarts, exceptions, failed writes, rebuilds, re-anchors and immune
\* passes: what the journal written before the scoring is for.
THEOREM CountedOnce ==
    ASSUME OneWorker
    PROVE  Spec => []NoDoubleCount
<1>1. CountInv => NoDoubleCount
  BY DEF CountInv, AllCountUpTo, CountsUpTo, NoDoubleCount
<1>2. TypeInv /\ TypeInv' /\ CountInv /\ [Next]_vars => CountInv'
  BY CountInvStep
<1> QED BY TypeInvInit, TypeInvStep, CountInvInit, <1>1, <1>2, PTL DEF Spec
-----------------------------------------------------------------------------
\* Fault rows stay out of the references, provided one thread at a time works on
\* the asset.  The reference of the live bank is clean but between the closing of
\* an episode and the re-anchor that follows (for good when that one raised), so
\* always when a fresh calibration is cached; a sample is clean from the moment it
\* is taken; the cached monitor is clean of the windows its fingerprint names,
\* whatever the ledger says by now.

RowsIn(episodes) == {r \in Row : \E e \in episodes : e.start <= r /\ r <= e.end}

CacheClean == cache.bank.ref \cap RowsIn(cache.fp[2]) = {}

Closing   == {"resample", "reinstall"}
Recaching == {"recache", "recacheRebuilt"}

BankClean ==
    "reanchor" \notin halfDone /\ (\A w \in Workers : pc[w] \notin Closing)
    => bank.ref \cap FaultRows = {}

RecachesFresh == \A w \in Workers : pc[w] \in Recaching => "reanchor" \notin halfDone

Sampled == {"reinstall", "rebuilt", "revive", "recalibrate"}

SampleClean == \A w \in Workers : pc[w] \in Sampled => task[w].ref \cap FaultRows = {}

HygieneInv == CacheClean /\ BankClean /\ RecachesFresh /\ SampleClean

LEMMA SampleIsClean ==
    ASSUME NEW include \in BOOLEAN
    PROVE  Sample(include) \cap FaultRows = {}
  BY ThinnedRows DEF Sample, Masked, FaultRows

LEMMA CalibratedRef == ASSUME NEW sample PROVE Calibrated(sample).ref \subseteq sample
  BY DEF Calibrated, NoBank

\* FaultRows is a matter of the ledger alone.
LEMMA FaultRowsAre == FaultRows = RowsIn(Faults) /\ Fingerprint[2] = Faults
  BY DEF FaultRows, RowsIn, Fingerprint

LEMMA HygieneInit == Init => HygieneInv
<1> SUFFICES ASSUME Init PROVE HygieneInv
  OBVIOUS
<1>1. bank.ref \cap FaultRows = {} /\ cache.bank = bank /\ cache.fp = Fingerprint
  BY SampleIsClean, CalibratedRef DEF Init
<1>2. \A w \in Workers : pc[w] = "idle"
  BY DEF Init
<1> QED BY <1>1, <1>2, FaultRowsAre
      DEF HygieneInv, CacheClean, BankClean, RecachesFresh, Recaching, SampleClean, Sampled

LEMMA HygieneStep ==
    ASSUME OneWorker, TypeInv, HygieneInv, [Next]_vars
    PROVE  HygieneInv'
<1>1. TypeOK
  BY DEF TypeInv
<1>2. CacheClean /\ BankClean /\ RecachesFresh /\ SampleClean
  BY DEF HygieneInv
<1>3. ASSUME NEW w \in Workers, NEW step, Goto(w, step) \/ Continue(w, step)
      PROVE  pc'[w] = step
  BY <1>1, <1>3 DEF Goto, Continue, TypeOK
<1>4. ASSUME NEW w \in Workers PROVE \A v \in Workers : v = w
  BY DEF OneWorker
\* A step that leaves ledger, reference and cache alone.
<1>5. ASSUME UNCHANGED <<ledger, cache>>, bank'.ref = bank.ref,
             "reanchor" \in halfDone => "reanchor" \in halfDone',
             \A w \in Workers :
                /\ pc'[w] \in Sampled => task'[w].ref \cap FaultRows = {}
                /\ pc[w] \in Closing => pc'[w] \in Closing \/ "reanchor" \in halfDone'
                /\ pc'[w] \in Recaching => "reanchor" \notin halfDone'
      PROVE  HygieneInv'
  <2>1. FaultRows' = FaultRows
    BY <1>5 DEF FaultRows, Faults
  <2> QED BY <1>2, <1>5, <2>1
        DEF HygieneInv, CacheClean, BankClean, RecachesFresh, SampleClean, RowsIn
<1>6. ASSUME NEW level \in Levels, Ingest(level) PROVE HygieneInv'
  <2>1. UNCHANGED <<ledger, cache, bank, pc, task, halfDone>>
    BY <1>6 DEF Ingest, memory, ghosts
  <2> QED BY <1>2, <1>5, <2>1 DEF SampleClean, RecachesFresh
<1>7. ASSUME NEW w \in Workers, pc[w] \notin Closing,
             UNCHANGED <<ledger, cache>>, bank'.ref = bank.ref,
             "reanchor" \in halfDone' <=> "reanchor" \in halfDone,
             pc'[w] \in Sampled => task'[w].ref \cap FaultRows = {},
             pc'[w] \notin Recaching
      PROVE  HygieneInv'
  BY <1>4, <1>5, <1>7
<1>8. ASSUME NEW w \in Workers,
             TickRead(w) \/ TickMark(w) \/ TickPublish(w) \/ TickBump(w)
               \/ TickSnapshot(w) \/ Request(w)
      PROVE  HygieneInv'
  <2>1. /\ UNCHANGED <<ledger, cache, bank>> /\ pc[w] \notin Closing
        /\ "reanchor" \in halfDone' <=> "reanchor" \in halfDone
    BY <1>8 DEF TickRead, TickMark, TickPublish, Publish, TickBump, TickSnapshot, Request,
                RequestReanchor, RequestImmune, durable, memory, ghosts, Closing
  <2>2. pc'[w] \notin Sampled /\ pc'[w] \notin Recaching
    BY <1>3, <1>8 DEF TickRead, TickMark, TickPublish, Publish, TickBump, TickSnapshot,
                Request, RequestReanchor, RequestImmune, AfterRebuild, Sampled, Recaching
  <2> QED BY <1>7, <2>1, <2>2
<1>9. ASSUME NEW w \in Workers, TickScore(w) PROVE HygieneInv'
  <2>1. UNCHANGED <<ledger, cache, halfDone>> /\ pc[w] = "score" /\ pc'[w] = "publish"
    BY <1>3, <1>9 DEF TickScore, durable, ghosts
  <2>2. bank'.ref = bank.ref
    BY <1>1, <1>9, TickScoreScores
  <2> QED BY <1>7, <2>1, <2>2 DEF Sampled, Closing, Recaching
<1>10. ASSUME NEW w \in Workers, CloseEpisode(w) PROVE HygieneInv'
  <2>1. UNCHANGED <<cache, bank, task>> /\ pc'[w] = "resample"
    BY <1>3, <1>10 DEF CloseEpisode, memory
  <2> QED BY <1>2, <1>4, <2>1 DEF HygieneInv, CacheClean, BankClean, Closing,
                RecachesFresh, Recaching, SampleClean, Sampled, RowsIn
<1>11. ASSUME NEW w \in Workers, NEW include \in BOOLEAN,
              task' = [task EXCEPT ![w].ref = Sample(include)]
       PROVE  task'[w].ref \cap FaultRows = {}
  <2>1. task'[w].ref = Sample(include)
    BY <1>1, <1>11 DEF TypeOK, Task
  <2> QED BY <2>1, SampleIsClean
<1>12. ASSUME NEW w \in Workers, ReanchorSample(w) PROVE HygieneInv'
  <2>1. UNCHANGED <<ledger, cache, bank, halfDone>> /\ pc'[w] = "reinstall"
    BY <1>3, <1>12 DEF ReanchorSample, durable, ghosts
  <2>2. task'[w].ref \cap FaultRows = {}
    BY <1>11, <1>12 DEF ReanchorSample, IncludeRecent
  <2> QED BY <1>4, <1>5, <2>1, <2>2 DEF Closing, Recaching
<1>13. ASSUME NEW w \in Workers, RebuildSample(w) \/ ImmuneCheck(w) PROVE HygieneInv'
  <2>1. UNCHANGED <<ledger, cache, bank, halfDone>> /\ pc[w] \notin Closing
    BY <1>13 DEF RebuildSample, ImmuneCheck, durable, memory, ghosts, Closing
  <2>2. \/ task' = [task EXCEPT ![w].ref = Sample(FALSE)]
        \/ pc'[w] \in {"snapshot", "idle"}
    BY <1>3, <1>13 DEF RebuildSample, ImmuneCheck, AfterImmune
  <2>4. pc'[w] \notin Recaching
    BY <1>3, <1>13 DEF RebuildSample, ImmuneCheck, AfterImmune, Recaching
  <2>3. pc'[w] \in Sampled => task'[w].ref \cap FaultRows = {}
    BY <1>11, <2>2 DEF Sampled
  <2> QED BY <1>7, <2>1, <2>3, <2>4
<1>14. ASSUME NEW w \in Workers, ReanchorInstall(w) \/ RebuildInstall(w) \/ ImmuneInstall(w)
       PROVE  HygieneInv'
  <2>1. UNCHANGED <<ledger, cache>> /\ bank' = Calibrated(task[w].ref) /\ halfDone' = {}
    BY <1>14 DEF ReanchorInstall, RebuildInstall, ImmuneInstall, Install, durable
  <2>2. task[w].ref \cap FaultRows = {}
    BY <1>2, <1>14 DEF SampleClean, Sampled, ReanchorInstall, RebuildInstall, ImmuneInstall
  <2>3. bank'.ref \cap FaultRows = {} /\ FaultRows' = FaultRows
    BY <2>1, <2>2, CalibratedRef DEF FaultRows, Faults
  <2>4. pc'[w] \notin Sampled
    BY <1>3, <1>14 DEF ReanchorInstall, RebuildInstall, ImmuneInstall, AfterReanchor,
                       AfterImmune, Sampled
  <2> QED BY <1>2, <1>4, <2>1, <2>3, <2>4
        DEF HygieneInv, CacheClean, BankClean, RecachesFresh, SampleClean, RowsIn
<1>15. ASSUME NEW w \in Workers, ReanchorSaveCache(w) \/ RebuildSaveCache(w)
       PROVE  HygieneInv'
  <2>1. /\ UNCHANGED <<ledger, bank, halfDone>>
        /\ cache' = [fp |-> Fingerprint, bank |-> bank] /\ pc[w] \in Recaching
    BY <1>15 DEF ReanchorSaveCache, RebuildSaveCache, SaveCache, memory, ghosts, Recaching
  <2>2. pc[w] \notin Closing /\ pc'[w] \notin Sampled /\ pc'[w] \notin Recaching
    BY <1>3, <1>15 DEF ReanchorSaveCache, RebuildSaveCache, AfterReanchor, AfterRebuild,
                Sampled, Closing, Recaching
  <2>3. bank.ref \cap FaultRows = {} /\ FaultRows' = FaultRows
    BY <1>2, <1>4, <2>1, <2>2 DEF BankClean, RecachesFresh, FaultRows, Faults
  <2>4. CacheClean'
    BY <2>1, <2>3, FaultRowsAre DEF CacheClean, RowsIn
  <2> QED BY <1>4, <2>1, <2>2, <2>3, <2>4
        DEF HygieneInv, BankClean, RecachesFresh, SampleClean
<1>16. ASSUME Crash \/ Stop PROVE HygieneInv'
  <2>1. /\ UNCHANGED <<ledger, cache>> /\ bank'.ref = {}
        /\ \A w \in Workers : pc'[w] = "idle"
    BY <1>16 DEF Crash, Stop, Down, durable, NoBank
  <2> QED BY <1>2, <2>1 DEF HygieneInv, CacheClean, BankClean, RecachesFresh, Recaching,
                SampleClean, Sampled, RowsIn
<1>17. ASSUME Restart PROVE HygieneInv'
  <2> DEFINE built == IF CacheHit THEN cache.bank ELSE Calibrated(Sample(FALSE))
  <2>1. /\ UNCHANGED <<ledger, pc, task, halfDone>> /\ bank' = Restored(built)
        /\ cache' = cache \/ cache' = [fp |-> Fingerprint, bank |-> built]
    BY <1>17 DEF Restart
  <2>2. built.ref \cap FaultRows = {}
    <3>1. CASE CacheHit
      BY <1>2, <3>1, FaultRowsAre DEF CacheHit, CacheClean
    <3>2. CASE ~CacheHit
      BY <3>2, SampleIsClean, CalibratedRef
    <3> QED BY <3>1, <3>2
  <2> HIDE DEF built
  <2>3. bank'.ref = built.ref
    BY <2>1 DEF Restored, Restorable
  <2>4. FaultRows' = FaultRows
    BY <2>1 DEF FaultRows, Faults
  <2>5. CacheClean'
    BY <1>2, <2>1, <2>2, FaultRowsAre DEF CacheClean, RowsIn
  <2> QED BY <1>2, <2>1, <2>2, <2>3, <2>4, <2>5
        DEF HygieneInv, BankClean, RecachesFresh, SampleClean
<1>18. ASSUME UNCHANGED vars PROVE HygieneInv'
  <2>1. UNCHANGED <<ledger, cache, bank, pc, task, halfDone>>
    BY <1>18 DEF vars, durable, memory, ghosts
  <2> QED BY <1>2, <1>5, <2>1 DEF SampleClean, RecachesFresh
<1>19. ASSUME NEW w \in Workers, Tick(w) PROVE HygieneInv'
  BY <1>8, <1>9, <1>13, <1>14, <1>15, <1>19 DEF Tick
<1>20. ASSUME NEW w \in Workers, Reanchor(w) \/ ImmunePass(w) PROVE HygieneInv'
  BY <1>10, <1>12, <1>13, <1>14, <1>15, <1>20 DEF Reanchor, ImmunePass
<1>21. ASSUME NEW w \in Workers, Failure(w) PROVE HygieneInv'
  <2>1. UNCHANGED <<ledger, cache>>
    BY <1>21 DEF Failure, MarkFails, ScoreRaises, Raises, PublishFails, Publish,
       SaveCacheFails, SnapshotFails, durable
  <2>2. bank'.ref = bank.ref
    <3>1. CASE ScoreRaises(w)
      BY <1>1, <3>1, ScoreRaisesScores
    <3>2. CASE ~ScoreRaises(w)
      BY <1>21, <3>2 DEF Failure, MarkFails, Raises, PublishFails, Publish,
         SaveCacheFails, SnapshotFails, memory
    <3> QED BY <3>1, <3>2
  <2>3. pc'[w] \notin Sampled /\ pc'[w] \notin Recaching
    <3>1. CASE GivesUp(w)
      BY <1>1, <3>1 DEF GivesUp, TypeOK, Sampled, Recaching
    <3>2. CASE \E step : Continue(w, step) /\ step \in {"idle", AfterReanchor(w), AfterRebuild(ticks)}
      BY <1>3, <3>2 DEF AfterReanchor, AfterRebuild, Sampled, Recaching
    <3>3. CASE PublishFails(w)
      BY <1>3, <3>3 DEF PublishFails, Publish, Sampled, Recaching
    <3> QED BY <1>21, <3>1, <3>2, <3>3
          DEF Failure, MarkFails, ScoreRaises, Raises, SaveCacheFails, SnapshotFails
  <2>4. "reanchor" \in halfDone => "reanchor" \in halfDone'
    BY <1>21 DEF Failure, MarkFails, ScoreRaises, Raises, PublishFails, Publish,
       SaveCacheFails, SnapshotFails
  <2>5. pc[w] \in Closing => "reanchor" \in halfDone'
    BY <1>21 DEF Failure, MarkFails, ScoreRaises, Raises, PublishFails, Publish,
       SaveCacheFails, SnapshotFails, Closing
  <2> QED BY <1>4, <1>5, <2>1, <2>2, <2>3, <2>4, <2>5
<1> QED BY <1>6, <1>8, <1>16, <1>17, <1>18, <1>19, <1>20, <1>21 DEF Next

\* With one thread at a time on the asset, no row of a ledgered fault is in the
\* reference of an idle service's bank, unless the re-anchor that ledgered it raised
\* before it recalibrated, and none in that of the monitor a restart would load from
\* the cache, whatever raised.
THEOREM FaultsStayOut ==
    ASSUME OneWorker
    PROVE  Spec => []FaultHygiene
<1>1. HygieneInv => FaultHygiene
  <2> SUFFICES ASSUME HygieneInv, AllIdle
               PROVE  /\ "reanchor" \notin halfDone => bank.ref \cap FaultRows = {}
                      /\ CacheHit => cache.bank.ref \cap FaultRows = {}
    BY DEF FaultHygiene
  <2> QED BY FaultRowsAre DEF HygieneInv, BankClean, Closing, CacheClean, AllIdle, CacheHit
<1>2. TypeInv /\ HygieneInv /\ [Next]_vars => HygieneInv'
  BY HygieneStep
<1> QED BY TypeInvInit, TypeInvStep, HygieneInit, <1>1, <1>2, PTL DEF Spec
-----------------------------------------------------------------------------
\* Nothing is lost silently, provided one thread at a time works on the asset.  A
\* row seen since the live wealth started is in it, or known as dropped, or is
\* about to be scored; the same holds of the snapshot, with every row marked since
\* it was written for about to be saved.  The rows by which the memory is ahead of
\* the journal are those whose mark could not be written.

Counted(b, r) == b.count[r] = 1 \/ r \in dropped

LiveKept ==
    Armed(bank) => \A r \in Row : born < r /\ r <= seen =>
       Counted(bank, r) \/ \E w \in Workers : pc[w] = "score" /\ r \in Frame(w)

SavedKept ==
    Armed(dbWealth) => \A r \in Row : savedBorn < r /\ r <= dbSeen =>
       Counted(dbWealth, r) \/ r \in unsaved

AheadIsDropped == up => \A r \in Row : dbSeen < r /\ r <= seen => r \in dropped

DownIsQuiet == ~up => unsaved = {} /\ \A w \in Workers : pc[w] = "idle"

LossInv == LiveKept /\ SavedKept /\ AheadIsDropped /\ DownIsQuiet

LEMMA LossInit == Init => LossInv
<1> SUFFICES ASSUME Init PROVE LossInv
  OBVIOUS
<1>1. born = seen /\ dbSeen = seen /\ dbWealth = NoBank /\ up
  BY DEF Init
<1>2. seen \in Int
  BY ConstantAssumption DEF Init
<1>3. LiveKept /\ AheadIsDropped
  BY <1>1, <1>2 DEF LiveKept, AheadIsDropped, Row
<1>4. SavedKept
  BY <1>1 DEF SavedKept, Armed, NoBank
<1> QED BY <1>1, <1>3, <1>4 DEF LossInv, DownIsQuiet

LEMMA LossStep ==
    ASSUME OneWorker, TypeInv, TypeInv', CountInv, LossInv, [Next]_vars
    PROVE  LossInv'
<1> USE ConstantAssumption
<1>1. TypeOK /\ TypeOK'
  BY DEF TypeInv
<1>2. LiveKept /\ SavedKept /\ AheadIsDropped /\ DownIsQuiet
  BY DEF LossInv
<1>3. ASSUME NEW w \in Workers, NEW step, Goto(w, step) \/ Continue(w, step)
      PROVE  pc'[w] = step
  BY <1>1, <1>3 DEF Goto, Continue, TypeOK
<1>4. ASSUME NEW w \in Workers PROVE \A v \in Workers : v = w
  BY DEF OneWorker
<1>5. ASSUME NEW w \in Workers, pc[w] # "idle" PROVE up
  BY <1>2, <1>5 DEF DownIsQuiet
\* A step around the scoring that marks no rows and saves none.
<1>6. ASSUME NEW w \in Workers, up, pc[w] # "score", pc'[w] # "score",
             UNCHANGED <<seen, dbSeen, dbWealth, savedBorn, up, unsaved, dropped>>,
             UNCHANGED <<bank, born>> \/ born' = seen
      PROVE  LossInv'
  <2>1. CASE UNCHANGED <<bank, born>>
    <3>1. ASSUME Armed(bank), NEW r \in Row, born < r, r <= seen PROVE Counted(bank, r)
      BY <1>2, <1>4, <1>6, <3>1 DEF LiveKept
    <3>2. UNCHANGED <<bank, born, seen, dropped>>
      BY <1>6, <2>1
    <3>3. LiveKept'
      BY <3>1, <3>2 DEF LiveKept, Counted, Armed
    <3> QED BY <1>2, <1>6, <3>3 DEF LossInv, SavedKept, Counted, AheadIsDropped, DownIsQuiet
  <2>2. CASE born' = seen
    <3>1. seen' = seen /\ seen \in Int
      BY <1>1, <1>6 DEF TypeOK
    <3>2. LiveKept'
      BY <2>2, <3>1 DEF LiveKept, Row
    <3> QED BY <1>2, <1>6, <3>2 DEF LossInv, SavedKept, Counted, AheadIsDropped, DownIsQuiet
  <2> QED BY <1>6, <2>1, <2>2
\* The frame enters the main bank, or is dropped, or there is no bank.
<1>7. ASSUME NEW w \in Workers, pc[w] = "score", pc'[w] # "score",
             UNCHANGED <<seen, dbSeen, dbWealth, savedBorn, up, unsaved, born>>,
             dropped \subseteq dropped', bank'.ref = bank.ref,
             \/ ~Armed(bank)
             \/ FedWith(w, bank') /\ dropped' = dropped
             \/ bank' = bank /\ Frame(w) \subseteq dropped'
      PROVE  LossInv'
  <2>1. Armed(bank') = Armed(bank) /\ up
    BY <1>5, <1>7 DEF Armed
  <2>2. ASSUME Armed(bank), NEW r \in Row, r \notin Frame(w), born < r, r <= seen
        PROVE  Counted(bank, r)
    BY <1>2, <1>4, <2>2 DEF LiveKept
  <2>3. ASSUME Armed(bank), FedWith(w, bank'), NEW r \in Row, born < r, r <= seen
        PROVE  bank'.count[r] = 1 \/ r \in dropped
    <3>1. bank'.count[r] = bank.count[r] + IF r \in Frame(w) THEN 1 ELSE 0
      BY <1>1, <2>3, FedWithBank
    <3>2. bank.count[r] \in Nat
      BY <1>1 DEF TypeOK, Bank
    <3>3. CASE r \in Frame(w)
      <4>1. CountsUpTo(bank, task[w].from)
        BY <1>7 DEF CountInv, FramesAreNew, AllCountUpTo
      <4>2. task[w].from < r /\ task[w].from \in Int
        <5>1. task[w] \in Task
          BY <1>1 DEF TypeOK
        <5> QED BY <3>3, <5>1 DEF Frame, Task
      <4>3. bank.count[r] = 0
        BY <4>1, <4>2 DEF CountsUpTo, Row
      <4> QED BY <3>1, <3>3, <4>3
    <3>4. CASE r \notin Frame(w)
      BY <2>2, <2>3, <3>1, <3>2, <3>4 DEF Counted
    <3> QED BY <3>3, <3>4
  <2>4. LiveKept'
    <3> SUFFICES ASSUME Armed(bank), NEW r \in Row, born < r, r <= seen
                 PROVE  Counted(bank, r)'
      BY <1>7, <2>1 DEF LiveKept
    <3>1. CASE FedWith(w, bank')
      BY <1>7, <2>3, <3>1 DEF Counted
    <3>2. CASE bank' = bank /\ Frame(w) \subseteq dropped'
      BY <1>7, <2>2, <3>2 DEF Counted
    <3> QED BY <1>7, <3>1, <3>2
  <2>5. SavedKept' /\ AheadIsDropped'
    BY <1>2, <1>7 DEF SavedKept, Counted, AheadIsDropped
  <2> QED BY <1>7, <2>1, <2>4, <2>5 DEF LossInv, DownIsQuiet
<1>8. ASSUME NEW level \in Levels, Ingest(level) PROVE LossInv'
  BY <1>2, <1>8 DEF Ingest, memory, ghosts, LossInv, LiveKept, SavedKept, AheadIsDropped,
                    DownIsQuiet, Counted, Frame
<1>9. ASSUME NEW w \in Workers, TickRead(w) \/ Request(w) PROVE LossInv'
  <2>1. UNCHANGED <<durable, memory, ghosts>> /\ pc[w] = "idle" /\ up
    BY <1>9 DEF TickRead, Request, RequestReanchor, RequestImmune
  <2>2. pc'[w] # "score"
    BY <1>3, <1>9 DEF TickRead, Request, RequestReanchor, RequestImmune
  <2> QED BY <1>6, <2>1, <2>2 DEF durable, memory, ghosts
\* The rows a mark passes over.
<1>10. ASSUME NEW w \in Workers, pc[w] = "mark"
       PROVE  /\ up /\ dbSeen \in Int /\ seen \in Int /\ task[w].to \in Int
              /\ dbSeen <= seen /\ seen < task[w].to /\ task[w].from = seen
              /\ \A r \in Row : seen < r /\ r <= task[w].to => r \in Frame(w)
              /\ \A v \in Workers : pc[v] # "score"
  <2>1. task[w].from = seen /\ dbSeen <= seen
    BY <1>10 DEF CountInv, FramesAreNew
  <2>2. dbSeen \in Int /\ seen \in Int /\ task[w].to \in Int
    <3>1. task[w] \in Task /\ dbSeen \in Int /\ seen \in Int
      BY <1>1 DEF TypeOK
    <3> QED BY <3>1 DEF Task
  <2> QED BY <1>4, <1>5, <1>10, <2>1, <2>2 DEF Frame, TypeInv, FrameNonEmpty
<1>11. ASSUME NEW w \in Workers, TickMark(w) PROVE LossInv'
  <2>1. /\ seen' = task[w].to /\ dbSeen' = task[w].to /\ unsaved' = unsaved \cup Frame(w)
        /\ UNCHANGED <<task, bank, born, dropped, dbWealth, savedBorn, up>>
        /\ pc[w] = "mark" /\ pc'[w] = "score"
    BY <1>3, <1>11 DEF TickMark
  <2>2. Frame(w)' = Frame(w)
    BY <2>1 DEF Frame
  <2>3. LiveKept'
    <3> SUFFICES ASSUME Armed(bank), NEW r \in Row, born < r, r <= task[w].to
                 PROVE  Counted(bank, r) \/ r \in Frame(w)
      BY <2>1, <2>2 DEF LiveKept, Counted
    <3>1. CASE r <= seen
      BY <1>2, <1>10, <2>1, <3>1 DEF LiveKept
    <3>2. CASE ~(r <= seen)
      BY <1>10, <2>1, <3>2 DEF Row
    <3> QED BY <3>1, <3>2
  <2>4. SavedKept'
    <3> SUFFICES ASSUME Armed(dbWealth), NEW r \in Row, savedBorn < r, r <= task[w].to
                 PROVE  Counted(dbWealth, r) \/ r \in unsaved \/ r \in Frame(w)
      BY <2>1 DEF SavedKept, Counted
    <3>1. CASE r <= dbSeen
      BY <1>2, <3>1 DEF SavedKept
    <3>2. CASE ~(r <= dbSeen) /\ r <= seen
      BY <1>2, <1>10, <2>1, <3>2 DEF AheadIsDropped, Counted, Row
    <3>3. CASE ~(r <= seen)
      BY <1>10, <2>1, <3>3 DEF Row
    <3> QED BY <3>1, <3>2, <3>3
  <2>5. AheadIsDropped' /\ DownIsQuiet'
    BY <1>10, <2>1 DEF AheadIsDropped, DownIsQuiet, Row
  <2> QED BY <2>3, <2>4, <2>5 DEF LossInv
<1>12. ASSUME NEW w \in Workers, MarkFails(w) PROVE LossInv'
  <2>1. /\ seen' = task[w].to /\ dropped' = dropped \cup Frame(w)
        /\ UNCHANGED <<bank, born, dbSeen, dbWealth, savedBorn, unsaved, up>> /\ pc[w] = "mark"
    BY <1>12 DEF MarkFails, durable
  <2>2. LiveKept'
    <3> SUFFICES ASSUME Armed(bank), NEW r \in Row, born < r, r <= task[w].to
                 PROVE  Counted(bank, r) \/ r \in Frame(w)
      BY <2>1 DEF LiveKept, Counted
    <3>1. CASE r <= seen
      BY <1>2, <1>10, <2>1, <3>1 DEF LiveKept
    <3>2. CASE ~(r <= seen)
      BY <1>10, <2>1, <3>2 DEF Row
    <3> QED BY <3>1, <3>2
  <2>3. SavedKept'
    BY <1>2, <2>1 DEF SavedKept, Counted
  <2>4. AheadIsDropped'
    <3> SUFFICES ASSUME NEW r \in Row, dbSeen < r, r <= task[w].to
                 PROVE  r \in dropped \/ r \in Frame(w)
      BY <2>1 DEF AheadIsDropped
    <3>1. CASE r <= seen
      BY <1>2, <1>10, <2>1, <3>1 DEF AheadIsDropped
    <3>2. CASE ~(r <= seen)
      BY <1>10, <2>1, <3>2 DEF Row
    <3> QED BY <3>1, <3>2
  <2>5. DownIsQuiet'
    BY <1>10, <2>1 DEF DownIsQuiet
  <2> QED BY <2>2, <2>3, <2>4, <2>5 DEF LossInv
<1>13. ASSUME NEW w \in Workers, TickScore(w) PROVE LossInv'
  <2>1. /\ pc[w] = "score" /\ pc'[w] = "publish"
        /\ UNCHANGED <<seen, dbSeen, dbWealth, savedBorn, born, dropped, unsaved, up>>
    BY <1>3, <1>13 DEF TickScore, durable, ghosts
  <2> QED BY <1>1, <1>7, <1>13, <2>1, TickScoreScores
<1>14. ASSUME NEW w \in Workers, ScoreRaises(w) PROVE LossInv'
  <2>1. /\ pc[w] = "score" /\ pc'[w] = "idle"
        /\ UNCHANGED <<seen, dbSeen, dbWealth, savedBorn, born, unsaved, up>>
    BY <1>1, <1>14 DEF ScoreRaises, GivesUp, TypeOK, durable
  <2>2. CASE dropped' = dropped \cup Frame(w) /\ bank' = bank
    BY <1>7, <2>1, <2>2
  <2>3. CASE /\ dropped' = dropped
             /\ \E aux \in {bank.aux, TRUE} : bank' = [Fed(bank, Frame(w)) EXCEPT !.aux = aux]
    <3>1. bank.aux \in BOOLEAN
      BY <1>1 DEF TypeOK, Bank
    <3>2. FedWith(w, bank')
      BY <2>3, <3>1 DEF FedWith
    <3> QED BY <1>1, <1>7, <1>14, <2>1, <2>3, <3>2, ScoreRaisesScores
  <2> QED BY <1>14, <2>2, <2>3 DEF ScoreRaises
<1>15. ASSUME NEW w \in Workers,
              TickPublish(w) \/ CloseEpisode(w) \/ TickBump(w) \/ ReanchorSample(w)
                \/ RebuildSample(w) \/ ImmuneCheck(w) \/ ReanchorSaveCache(w)
                \/ RebuildSaveCache(w)
       PROVE  LossInv'
  <2>1. /\ pc[w] \notin {"idle", "score"}
        /\ UNCHANGED <<seen, dbSeen, dbWealth, savedBorn, up, unsaved, dropped, bank, born>>
    BY <1>15 DEF TickPublish, Publish, CloseEpisode, TickBump, ReanchorSample, RebuildSample,
                 ImmuneCheck, ReanchorSaveCache, RebuildSaveCache, SaveCache, durable, memory,
                 ghosts
  <2>2. pc'[w] # "score"
    BY <1>3, <1>15
       DEF TickPublish, Publish, CloseEpisode, TickBump, ReanchorSample, RebuildSample,
           ImmuneCheck, ReanchorSaveCache, RebuildSaveCache, AfterRebuild, AfterReanchor,
           AfterImmune
  <2> QED BY <1>5, <1>6, <2>1, <2>2
<1>16. ASSUME NEW w \in Workers, ReanchorInstall(w) \/ RebuildInstall(w) \/ ImmuneInstall(w)
       PROVE  LossInv'
  <2>1. /\ UNCHANGED <<seen, dbSeen, dbWealth, savedBorn, up, unsaved, dropped>>
        /\ born' = seen /\ pc[w] \notin {"idle", "score"}
    BY <1>16 DEF ReanchorInstall, RebuildInstall, ImmuneInstall, Install, durable
  <2>2. pc'[w] # "score"
    BY <1>3, <1>16 DEF ReanchorInstall, RebuildInstall, ImmuneInstall, AfterReanchor, AfterImmune
  <2> QED BY <1>5, <1>6, <2>1, <2>2
<1>17. ASSUME NEW w \in Workers, TickSnapshot(w) PROVE LossInv'
  <2>1. /\ UNCHANGED <<seen, dbSeen, up, bank, born, dropped>> /\ pc[w] = "snapshot" /\ up
        /\ pc'[w] = "idle"
    BY <1>3, <1>5, <1>17 DEF TickSnapshot, memory
  <2>2. CASE UNCHANGED <<dbWealth, savedBorn, unsaved>>
    BY <1>6, <2>1, <2>2
  <2>3. CASE dbWealth' = bank /\ savedBorn' = born /\ unsaved' = {}
    <3>1. ASSUME Armed(bank), NEW r \in Row, born < r, r <= seen PROVE Counted(bank, r)
      BY <1>2, <1>4, <2>1, <3>1 DEF LiveKept
    <3>2. dbSeen <= seen /\ dbSeen \in Int /\ seen \in Int
      BY <1>1, <2>1 DEF CountInv, JournalBehind, TypeOK
    <3>3. LiveKept'
      BY <2>1, <3>1 DEF LiveKept, Counted
    <3>4. SavedKept'
      <4> SUFFICES ASSUME Armed(bank), NEW r \in Row, born < r, r <= dbSeen
                   PROVE  Counted(bank, r)
        BY <2>1, <2>3 DEF SavedKept, Counted
      <4> QED BY <3>1, <3>2 DEF Row
    <3> QED BY <1>2, <2>1, <2>3, <3>3, <3>4 DEF LossInv, AheadIsDropped, DownIsQuiet
  <2> QED BY <1>17, <2>2, <2>3 DEF TickSnapshot
<1>18. ASSUME NEW w \in Workers,
              Raises(w) \/ PublishFails(w) \/ SaveCacheFails(w) \/ SnapshotFails(w)
       PROVE  LossInv'
  <2>1. /\ UNCHANGED <<seen, dbSeen, dbWealth, savedBorn, up, unsaved, dropped, bank, born>>
        /\ pc[w] \notin {"idle", "score"}
    BY <1>18 DEF Raises, PublishFails, Publish, SaveCacheFails, SnapshotFails, durable, memory
  <2>2. pc'[w] # "score"
    <3>1. CASE Raises(w)
      BY <1>1, <3>1 DEF Raises, GivesUp, TypeOK
    <3>2. CASE PublishFails(w)
      BY <1>3, <3>2 DEF PublishFails, Publish
    <3>3. CASE SaveCacheFails(w) \/ SnapshotFails(w)
      BY <1>3, <3>3 DEF SaveCacheFails, SnapshotFails, AfterReanchor, AfterRebuild
    <3> QED BY <1>18, <3>1, <3>2, <3>3
  <2> QED BY <1>5, <1>6, <2>1, <2>2
<1>19. ASSUME NEW w \in Workers, Failure(w) PROVE LossInv'
  BY <1>12, <1>14, <1>18, <1>19 DEF Failure
<1>20. ASSUME Crash \/ Stop PROVE LossInv'
  <2>1. /\ bank' = NoBank /\ UNCHANGED <<dbWealth, dbSeen, savedBorn>> /\ up' = FALSE
        /\ \A w \in Workers : pc'[w] = "idle"
        /\ dropped' = dropped \cup unsaved /\ unsaved' = {}
    BY <1>20 DEF Crash, Stop, Down, durable
  <2>2. LiveKept'
    BY <2>1 DEF LiveKept, Armed, NoBank
  <2>3. SavedKept'
    BY <1>2, <2>1 DEF SavedKept, Counted
  <2> QED BY <2>1, <2>2, <2>3 DEF LossInv, AheadIsDropped, DownIsQuiet
<1>21. ASSUME Restart PROVE LossInv'
  <2> DEFINE built == IF CacheHit THEN cache.bank ELSE Calibrated(Sample(FALSE))
  <2>1. /\ bank' = Restored(built) /\ seen' = dbSeen /\ up' = TRUE /\ ~up
        /\ born' = IF Restorable(built) THEN savedBorn ELSE dbSeen
        /\ UNCHANGED <<dbWealth, dbSeen, savedBorn, dropped, unsaved>>
    BY <1>21 DEF Restart, ResumedSeen
  <2> HIDE DEF built
  <2>2. unsaved = {}
    BY <1>2, <2>1 DEF DownIsQuiet
  <2>3. SavedKept'
    BY <1>2, <2>1 DEF SavedKept, Counted
  <2>4. LiveKept'
    <3>1. CASE Restorable(built)
      <4>1. bank' = dbWealth /\ born' = savedBorn
        BY <2>1, <3>1 DEF Restored
      <4> QED BY <1>2, <2>1, <2>2, <4>1 DEF LiveKept, SavedKept, Counted
    <3>2. CASE ~Restorable(built)
      <4>1. born' = dbSeen /\ seen' = dbSeen /\ dbSeen \in Int
        BY <1>1, <2>1, <3>2 DEF TypeOK
      <4> QED BY <4>1 DEF LiveKept, Row
    <3> QED BY <3>1, <3>2
  <2>5. AheadIsDropped'
    <3>1. seen' = dbSeen' /\ dbSeen \in Int /\ dbSeen' = dbSeen
      BY <1>1, <2>1 DEF TypeOK
    <3> QED BY <3>1 DEF AheadIsDropped, Row
  <2> QED BY <2>1, <2>3, <2>4, <2>5 DEF LossInv, DownIsQuiet
<1>22. ASSUME UNCHANGED vars PROVE LossInv'
  BY <1>2, <1>22 DEF vars, durable, memory, ghosts, LossInv, LiveKept, SavedKept,
                     AheadIsDropped, DownIsQuiet, Counted, Frame
<1>23. ASSUME NEW w \in Workers, Tick(w) PROVE LossInv'
  BY <1>9, <1>11, <1>13, <1>15, <1>16, <1>17, <1>23 DEF Tick
<1>24. ASSUME NEW w \in Workers, Reanchor(w) \/ ImmunePass(w) PROVE LossInv'
  BY <1>15, <1>16, <1>24 DEF Reanchor, ImmunePass
<1> QED BY <1>8, <1>9, <1>19, <1>20, <1>21, <1>22, <1>23, <1>24 DEF Next

\* With one thread at a time on the asset, every row seen since the wealth of an
\* idle service started is in that wealth, but those an exception passed over
\* between mark and scoring, and those no snapshot was written for before the
\* process ended.  A snapshot whose write was swallowed is made good by the next.
THEOREM LossesAreKnown ==
    ASSUME OneWorker
    PROVE  Spec => []NothingLostSilently
<1>1. LossInv => NothingLostSilently
  BY DEF LossInv, LiveKept, NothingLostSilently, Counted, AllIdle
<1>2. TypeInv /\ TypeInv' /\ CountInv /\ LossInv /\ [Next]_vars => LossInv'
  BY LossStep
<1>3. TypeInv /\ TypeInv' /\ CountInv /\ [Next]_vars => CountInv'
  BY CountInvStep
<1> QED BY TypeInvInit, TypeInvStep, CountInvInit, LossInit, <1>1, <1>2, <1>3, PTL DEF Spec
-----------------------------------------------------------------------------
\* Whatever speaks of rows speaks of stored ones: the frames, the episodes, the
\* journal, and the reference of every bank and of every sample on its way to one.

Within(b) == b.ref \subseteq 1..Len(life)

TimesWithin == lastTs <= Len(life) /\ dbSeen <= Len(life) /\ \A e \in ledger : e.end <= Len(life)
BanksWithin == Within(bank) /\ Within(dbWealth) /\ Within(cache.bank)
TaskWithin(t) == t.to <= Len(life) /\ t.ref \subseteq 1..Len(life)
TasksWithin == \A w \in Workers : TaskWithin(task[w])

StoreInv == TimesWithin /\ BanksWithin /\ TasksWithin

LEMMA LengthIs == ASSUME TypeOK PROVE Len(life) \in Nat /\ Len(life) \in 0..MaxRow
  BY ConstantAssumption DEF TypeOK

LEMMA CalibratedWithin ==
    ASSUME NEW sample \in SUBSET (1..Len(life))
    PROVE  Within(Calibrated(sample))
  BY DEF Calibrated, Within, NoBank

LEMMA NothingWithin == ASSUME TypeOK PROVE TaskWithin(Idle) /\ Within(NoBank)
  BY LengthIs DEF TaskWithin, Idle, Within, NoBank

LEMMA StoreInit == Init => StoreInv
<1> SUFFICES ASSUME Init PROVE StoreInv
  OBVIOUS
<1>1. TypeOK
  BY TypeInvInit DEF TypeInv
<1>2. Len(life) \in Nat /\ Len(life) \in 0..MaxRow
  BY <1>1, LengthIs
<1>3. Sample(FALSE) \in SUBSET (1..Len(life))
  BY <1>2, SampleStored
<1>4. Within(bank) /\ cache.bank = bank /\ dbWealth = NoBank
  BY <1>3, CalibratedWithin DEF Init
<1>5. TimesWithin
  BY <1>2 DEF Init, TimesWithin
<1>6. BanksWithin
  BY <1>1, <1>4, NothingWithin DEF BanksWithin
<1>7. TasksWithin
  BY <1>1, NothingWithin DEF Init, TasksWithin
<1> QED BY <1>5, <1>6, <1>7 DEF StoreInv

LEMMA StoreStep == ASSUME TypeInv, StoreInv, [Next]_vars PROVE StoreInv'
<1>1. TypeOK /\ Len(life) \in Nat /\ Len(life) \in 0..MaxRow
  BY LengthIs DEF TypeInv
<1>2. TimesWithin /\ BanksWithin /\ TasksWithin
  BY DEF StoreInv
<1>3. \A include \in BOOLEAN : Sample(include) \subseteq 1..Len(life)
  BY <1>1, SampleStored
<1>4. ASSUME UNCHANGED life, NEW w \in Workers, NEW t, TaskWithin(t),
             task' = [task EXCEPT ![w] = t]
      PROVE  TasksWithin'
  <2>1. \A v \in Workers : task'[v] = t \/ task'[v] = task[v]
    BY <1>1, <1>4 DEF TypeOK
  <2> QED BY <1>2, <1>4, <2>1 DEF TasksWithin, TaskWithin
<1>5. ASSUME UNCHANGED life, NEW w \in Workers, NEW step, Continue(w, step)
      PROVE  TasksWithin'
  <2>1. TaskWithin(Idle)
    BY <1>1, NothingWithin
  <2>2. TaskWithin([task[w] EXCEPT !.ref = {}])
    <3>1. task[w] \in Task /\ TaskWithin(task[w])
      BY <1>1, <1>2 DEF TypeOK, TasksWithin
    <3>2. [task[w] EXCEPT !.ref = {}].to = task[w].to
          /\ [task[w] EXCEPT !.ref = {}].ref = {}
      BY <3>1 DEF Task
    <3> QED BY <3>1, <3>2 DEF TaskWithin
  <2>3. task' = [task EXCEPT ![w] = IF step = "idle" THEN Idle
                                     ELSE [task[w] EXCEPT !.ref = {}]]
    BY <1>5 DEF Continue
  <2>4. TaskWithin(IF step = "idle" THEN Idle ELSE [task[w] EXCEPT !.ref = {}])
    BY <2>1, <2>2
  <2> QED BY <1>4, <1>5, <2>3, <2>4
<1>6. ASSUME NEW w \in Workers, NEW include \in BOOLEAN, UNCHANGED life,
             task' = [task EXCEPT ![w].ref = Sample(include)]
      PROVE  TasksWithin'
  <2>1. task[w] \in Task /\ TaskWithin(task[w])
    BY <1>1, <1>2 DEF TypeOK, TasksWithin
  <2>2. [task[w] EXCEPT !.ref = Sample(include)].to = task[w].to
        /\ [task[w] EXCEPT !.ref = Sample(include)].ref = Sample(include)
    BY <2>1 DEF Task
  <2>3. TaskWithin([task[w] EXCEPT !.ref = Sample(include)])
    BY <1>3, <2>1, <2>2 DEF TaskWithin
  <2>4. task' = [task EXCEPT ![w] = [task[w] EXCEPT !.ref = Sample(include)]]
    BY <1>6
  <2> QED BY <1>4, <1>6, <2>3, <2>4
<1>7. ASSUME UNCHANGED <<life, ledger, dbSeen, lastTs>> PROVE TimesWithin'
  BY <1>2, <1>7 DEF TimesWithin
<1>8. ASSUME UNCHANGED <<life, bank, dbWealth, cache>> PROVE BanksWithin'
  BY <1>2, <1>8 DEF BanksWithin, Within
<1>9. ASSUME NEW level \in Levels, Ingest(level) PROVE StoreInv'
  <2>1. /\ UNCHANGED <<ledger, cache, dbSeen, dbWealth, bank, lastTs, task>>
        /\ life' = Append(life, level)
    BY <1>9 DEF Ingest, memory
  <2>2. Len(life') = Len(life) + 1
    BY <1>1, <2>1 DEF TypeOK
  <2>3. 1..Len(life) \subseteq 1..Len(life')
    BY <1>1, <2>2
  <2>4. \A n \in Int : n <= Len(life) => n <= Len(life')
    BY <1>1, <2>2
  <2>5. TimesWithin'
    <3>1. lastTs \in Int /\ dbSeen \in Int /\ \A e \in ledger : e.end \in Int
      BY <1>1 DEF TypeOK, Episode, Row
    <3> QED BY <1>2, <2>1, <2>4, <3>1 DEF TimesWithin
  <2>6. BanksWithin'
    BY <1>2, <2>1, <2>3 DEF BanksWithin, Within
  <2>7. TasksWithin'
    <3>1. \A w \in Workers : task[w].to \in Int
      BY <1>1 DEF TypeOK, Task
    <3> QED BY <1>2, <2>1, <2>3, <2>4, <3>1 DEF TasksWithin, TaskWithin
  <2> QED BY <2>5, <2>6, <2>7 DEF StoreInv
<1>10. ASSUME NEW w \in Workers, TickRead(w) \/ Request(w) PROVE StoreInv'
  <2>1. UNCHANGED <<life, ledger, cache, dbSeen, dbWealth, bank, lastTs>>
    BY <1>10 DEF TickRead, Request, RequestReanchor, RequestImmune, durable, memory
  <2>2. PICK t : task' = [task EXCEPT ![w] = t] /\ TaskWithin(t)
    <3>1. CASE TickRead(w)
      <4> DEFINE t == [Idle EXCEPT !.job = "tick", !.from = seen, !.to = FrameEnd]
      <4>1. task' = [task EXCEPT ![w] = t]
        BY <3>1 DEF TickRead
      <4>2. t.to = Len(life) /\ t.ref = {}
        BY DEF Idle, FrameEnd
      <4>3. TaskWithin(t)
        BY <1>1, <4>2 DEF TaskWithin
      <4> HIDE DEF t
      <4> QED BY <4>1, <4>3
    <3>2. CASE RequestReanchor(w)
      <4> DEFINE t == [Idle EXCEPT !.job = "reanchor", !.word = verdict]
      <4>1. task' = [task EXCEPT ![w] = t]
        BY <3>2 DEF RequestReanchor
      <4>2. t.to = 0 /\ t.ref = {}
        BY DEF Idle
      <4>3. TaskWithin(t)
        BY <1>1, <4>2 DEF TaskWithin
      <4> HIDE DEF t
      <4> QED BY <4>1, <4>3
    <3>3. CASE RequestImmune(w)
      <4> DEFINE t == [Idle EXCEPT !.job = "immune"]
      <4>1. task' = [task EXCEPT ![w] = t]
        BY <3>3 DEF RequestImmune
      <4>2. t.to = 0 /\ t.ref = {}
        BY DEF Idle
      <4>3. TaskWithin(t)
        BY <1>1, <4>2 DEF TaskWithin
      <4> HIDE DEF t
      <4> QED BY <4>1, <4>3
    <3> QED BY <1>10, <3>1, <3>2, <3>3 DEF Request
  <2>3. TasksWithin'
    BY <1>4, <2>1, <2>2
  <2> QED BY <1>7, <1>8, <2>1, <2>3 DEF StoreInv
<1>11. ASSUME NEW w \in Workers, TickMark(w) \/ TickPublish(w) \/ TickBump(w) PROVE StoreInv'
  <2>1. /\ UNCHANGED <<life, ledger, cache, dbWealth, bank, lastTs, task>>
        /\ dbSeen' \in {dbSeen, task[w].to}
    BY <1>11 DEF TickMark, TickPublish, Publish, TickBump, memory
  <2>2. TimesWithin'
    BY <1>2, <2>1 DEF TimesWithin, TasksWithin, TaskWithin
  <2>3. TasksWithin'
    BY <1>2, <2>1 DEF TasksWithin, TaskWithin
  <2> QED BY <1>8, <2>1, <2>2, <2>3 DEF StoreInv
<1>12. ASSUME NEW w \in Workers, TickScore(w) PROVE StoreInv'
  <2>1. UNCHANGED <<life, ledger, cache, dbSeen, dbWealth>> /\ lastTs' = task[w].to
    BY <1>12 DEF TickScore, durable
  <2>3. bank'.ref = bank.ref
    BY <1>1, <1>12, TickScoreScores
  <2>4. PICK word : task' = [task EXCEPT ![w].word = word]
    BY <1>1, <1>12, TickScoreScores
  <2>5. task[w] \in Task /\ TaskWithin(task[w])
    BY <1>1, <1>2 DEF TypeOK, TasksWithin
  <2>6. [task[w] EXCEPT !.word = word].to = task[w].to
        /\ [task[w] EXCEPT !.word = word].ref = task[w].ref
    BY <2>5 DEF Task
  <2>7. TaskWithin([task[w] EXCEPT !.word = word])
    BY <2>5, <2>6 DEF TaskWithin
  <2>8. task' = [task EXCEPT ![w] = [task[w] EXCEPT !.word = word]]
    BY <2>4
  <2>9. TasksWithin'
    BY <1>4, <2>1, <2>7, <2>8
  <2>10. TimesWithin'
    BY <1>2, <2>1, <2>5 DEF TimesWithin, TaskWithin
  <2>11. BanksWithin'
    BY <1>2, <2>1, <2>3 DEF BanksWithin, Within
  <2> QED BY <2>9, <2>10, <2>11 DEF StoreInv
<1>13. ASSUME NEW w \in Workers, CloseEpisode(w) PROVE StoreInv'
  <2>1. UNCHANGED <<life, cache, dbSeen, dbWealth, bank, lastTs, task>>
    BY <1>13 DEF CloseEpisode, memory
  <2>2. \A e \in ledger' : e \in ledger \/ e.end = lastTs
    BY <1>13 DEF CloseEpisode
  <2>3. TimesWithin'
    BY <1>2, <2>1, <2>2 DEF TimesWithin
  <2>4. TasksWithin'
    BY <1>2, <2>1 DEF TasksWithin, TaskWithin
  <2> QED BY <1>8, <2>1, <2>3, <2>4 DEF StoreInv
<1>14. ASSUME NEW w \in Workers, ReanchorSample(w) \/ RebuildSample(w) \/ ImmuneCheck(w)
       PROVE  StoreInv'
  <2>1. UNCHANGED <<life, ledger, cache, dbSeen, dbWealth, bank, lastTs>>
    BY <1>14 DEF ReanchorSample, RebuildSample, ImmuneCheck, durable, memory
  <2>2. \/ \E include \in BOOLEAN : task' = [task EXCEPT ![w].ref = Sample(include)]
        \/ Continue(w, AfterImmune(w))
    BY <1>14 DEF ReanchorSample, IncludeRecent, RebuildSample, ImmuneCheck
  <2>3. TasksWithin'
    BY <1>5, <1>6, <2>1, <2>2
  <2> QED BY <1>7, <1>8, <2>1, <2>3 DEF StoreInv
<1>15. ASSUME NEW w \in Workers, ReanchorInstall(w) \/ RebuildInstall(w) \/ ImmuneInstall(w)
       PROVE  StoreInv'
  <2>1. /\ UNCHANGED <<life, ledger, cache, dbSeen, dbWealth, lastTs>>
        /\ bank' = Calibrated(task[w].ref) /\ \E step : Continue(w, step)
    BY <1>15 DEF ReanchorInstall, RebuildInstall, ImmuneInstall, Install, durable
  <2>2. task[w].ref \in SUBSET (1..Len(life))
    BY <1>2 DEF TasksWithin, TaskWithin
  <2>3. Within(bank)'
    BY <2>1, <2>2, CalibratedWithin DEF Within
  <2>4. BanksWithin'
    BY <1>2, <2>1, <2>3 DEF BanksWithin, Within
  <2> QED BY <1>5, <1>7, <2>1, <2>4 DEF StoreInv
<1>16. ASSUME NEW w \in Workers, ReanchorSaveCache(w) \/ RebuildSaveCache(w) PROVE StoreInv'
  <2>1. /\ UNCHANGED <<life, ledger, bank, dbSeen, dbWealth, lastTs>>
        /\ cache'.bank = bank /\ \E step : Continue(w, step)
    BY <1>16 DEF ReanchorSaveCache, RebuildSaveCache, SaveCache, memory
  <2>2. BanksWithin'
    BY <1>2, <2>1 DEF BanksWithin, Within
  <2> QED BY <1>5, <1>7, <2>1, <2>2 DEF StoreInv
<1>17. ASSUME NEW w \in Workers, TickSnapshot(w) PROVE StoreInv'
  <2>1. /\ UNCHANGED <<life, ledger, cache, bank, dbSeen, lastTs>>
        /\ dbWealth' \in {dbWealth, bank} /\ Continue(w, "idle")
    BY <1>17 DEF TickSnapshot, memory
  <2>2. BanksWithin'
    BY <1>2, <2>1 DEF BanksWithin, Within
  <2> QED BY <1>5, <1>7, <2>1, <2>2 DEF StoreInv
<1>18. ASSUME Crash \/ Stop PROVE StoreInv'
  <2>1. /\ UNCHANGED <<life, ledger, cache, dbSeen, dbWealth>> /\ bank' = NoBank /\ lastTs' = 0
        /\ \A w \in Workers : task'[w] = Idle
    BY <1>18 DEF Crash, Stop, Down, durable
  <2>2. TimesWithin'
    BY <1>1, <1>2, <2>1 DEF TimesWithin
  <2>3. BanksWithin'
    BY <1>1, <1>2, <2>1, NothingWithin DEF BanksWithin, Within
  <2>4. TasksWithin'
    BY <1>1, <2>1, NothingWithin DEF TasksWithin, TaskWithin
  <2> QED BY <2>2, <2>3, <2>4 DEF StoreInv
<1>19. ASSUME Restart PROVE StoreInv'
  <2> DEFINE built == IF CacheHit THEN cache.bank ELSE Calibrated(Sample(FALSE))
  <2>1. /\ UNCHANGED <<life, ledger, dbSeen, dbWealth, lastTs, task>> /\ bank' = Restored(built)
        /\ cache' = cache \/ cache' = [fp |-> Fingerprint, bank |-> built]
    BY <1>19 DEF Restart
  <2>2. Within(built)
    BY <1>2, <1>3, CalibratedWithin DEF BanksWithin
  <2> HIDE DEF built
  <2>3. bank' = built \/ bank' = dbWealth
    BY <2>1 DEF Restored
  <2>4. BanksWithin'
    BY <1>2, <2>1, <2>2, <2>3 DEF BanksWithin, Within
  <2>5. TasksWithin'
    BY <1>2, <2>1 DEF TasksWithin, TaskWithin
  <2> QED BY <1>7, <2>1, <2>4, <2>5 DEF StoreInv
<1>20. ASSUME UNCHANGED vars PROVE StoreInv'
  <2>1. UNCHANGED <<life, ledger, cache, dbSeen, dbWealth, bank, lastTs, task>>
    BY <1>20 DEF vars, durable, memory
  <2>2. TasksWithin'
    BY <1>2, <2>1 DEF TasksWithin, TaskWithin
  <2> QED BY <1>7, <1>8, <2>1, <2>2 DEF StoreInv
<1>21. ASSUME NEW w \in Workers, Tick(w) PROVE StoreInv'
  BY <1>10, <1>11, <1>12, <1>14, <1>15, <1>16, <1>17, <1>21 DEF Tick
<1>22. ASSUME NEW w \in Workers, Reanchor(w) \/ ImmunePass(w) PROVE StoreInv'
  BY <1>13, <1>14, <1>15, <1>16, <1>22 DEF Reanchor, ImmunePass
<1>23. ASSUME NEW w \in Workers, Failure(w) PROVE StoreInv'
  <2>1. UNCHANGED <<life, ledger, cache, dbSeen, dbWealth>>
    BY <1>23 DEF Failure, MarkFails, ScoreRaises, Raises, PublishFails, Publish,
       SaveCacheFails, SnapshotFails, durable
  <2>2. bank'.ref = bank.ref /\ lastTs' \in {lastTs, task[w].to}
    <3>1. CASE ScoreRaises(w)
      BY <1>1, <3>1, ScoreRaisesScores DEF ScoreRaises
    <3>2. CASE ~ScoreRaises(w)
      BY <1>23, <3>2 DEF Failure, MarkFails, Raises, PublishFails, Publish,
         SaveCacheFails, SnapshotFails, memory
    <3> QED BY <3>1, <3>2
  <2>3. TasksWithin'
    <3>1. CASE GivesUp(w)
      <4>1. TaskWithin(Idle)
        BY <1>1, NothingWithin
      <4> QED BY <1>4, <2>1, <3>1, <4>1 DEF GivesUp
    <3>2. CASE \E step : Continue(w, step)
      BY <1>5, <2>1, <3>2
    <3>3. CASE UNCHANGED task
      BY <1>2, <2>1, <3>3 DEF TasksWithin, TaskWithin
    <3> QED BY <1>23, <3>1, <3>2, <3>3 DEF Failure, MarkFails, ScoreRaises, Raises,
         PublishFails, Publish, SaveCacheFails, SnapshotFails
  <2>4. TimesWithin'
    BY <1>2, <2>1, <2>2 DEF TimesWithin, TasksWithin, TaskWithin
  <2>5. BanksWithin'
    BY <1>2, <2>1, <2>2 DEF BanksWithin, Within
  <2> QED BY <2>3, <2>4, <2>5 DEF StoreInv
<1> QED BY <1>9, <1>10, <1>18, <1>19, <1>20, <1>21, <1>22, <1>23 DEF Next

\* A failed write or an exception is counted, so no install is one.
LEMMA FailureIsCounted ==
    ASSUME TypeOK, NEW w \in Workers, Failure(w)
    PROVE  failures' # failures
<1>1. failures \in Nat
  BY ConstantAssumption DEF TypeOK
<1>2. failures' = failures + 1
  BY DEF Failure, MarkFails, ScoreRaises, Raises, PublishFails, SaveCacheFails, SnapshotFails, Fails
<1> QED BY <1>1, <1>2

\* Every failure leaves the worker idle, or goes on with the step behind the write.
LEMMA FailureEnds ==
    ASSUME TypeOK, NEW w \in Workers, Failure(w)
    PROVE  pc'[w] \in {"idle", "close", "bump", "immune", "snapshot"}
<1>1. ASSUME NEW step, Goto(w, step) \/ Continue(w, step) PROVE pc'[w] = step
  BY <1>1 DEF Goto, Continue, TypeOK
<1>2. CASE GivesUp(w)
  BY <1>2 DEF GivesUp, TypeOK
<1>3. CASE \E step : Continue(w, step) /\ step \in {"idle", AfterReanchor(w), AfterRebuild(ticks)}
  BY <1>1, <1>3 DEF AfterReanchor, AfterRebuild
<1>4. CASE PublishFails(w)
  BY <1>1, <1>4 DEF PublishFails, Publish
<1> QED BY <1>2, <1>3, <1>4
      DEF Failure, MarkFails, ScoreRaises, Raises, SaveCacheFails, SnapshotFails

-----------------------------------------------------------------------------
\* The rows of a change that is about to be absorbed are in the sample that will
\* absorb it, as long as the healthy life fits into one sample.  Rows only arrive
\* while the ledger stands still, so a life that fits now fitted when it was sampled.

Fits == Cardinality(Masked(1..Len(life))) <= MaxSample

PlateauInv ==
    \A w \in Workers :
       pc[w] = "reinstall" /\ task[w].word = "change" /\ Fits
         => ChangeRows \subseteq task[w].ref

LEMMA ArrivalFits ==
    ASSUME TypeOK, NEW level \in Levels, Ingest(level), Fits'
    PROVE  Fits
<1> DEFINE n == Len(life)
           was == Masked(1..n)
           now == Masked(1..Len(life))'
<1>1. n \in Nat /\ MaxSample \in Nat
  BY LengthIs, ConstantAssumption
<1>2. Len(life') = n + 1 /\ ledger' = ledger
  BY DEF Ingest, TypeOK
<1>3. now = {r \in 1..(n + 1) : \A e \in Faults : ~(e.start <= r /\ r <= e.end)}
  BY <1>2 DEF Masked, Faults
<1>4. was \in SUBSET now
  BY <1>1, <1>3 DEF Masked
<1>5. IsFiniteSet(1..(n + 1)) /\ now \in SUBSET (1..(n + 1))
  BY <1>1, <1>3, FS_Interval
<1>6. IsFiniteSet(now)
  BY <1>5, FS_Subset
<1>7. IsFiniteSet(was) /\ Cardinality(was) <= Cardinality(now)
  BY <1>4, <1>6, FS_Subset
<1>8. Cardinality(was) \in Nat /\ Cardinality(now) \in Nat
  BY <1>6, <1>7, FS_CardinalityType
<1>9. Cardinality(now) <= MaxSample
  BY DEF Fits
<1> HIDE DEF was, now
<1>10. Cardinality(was) <= MaxSample
  BY <1>1, <1>7, <1>8, <1>9
<1> QED BY <1>10 DEF Fits, was

LEMMA PlateauInit == Init => PlateauInv
  BY DEF Init, PlateauInv

LEMMA PlateauStep ==
    ASSUME OneWorker, TypeInv, StoreInv, PlateauInv, [Next]_vars
    PROVE  PlateauInv'
<1>1. TypeOK /\ Len(life) \in Nat
  BY LengthIs DEF TypeInv
<1>2. ASSUME NEW w \in Workers PROVE \A v \in Workers : v = w
  BY DEF OneWorker
<1>3. ASSUME NEW w \in Workers, NEW step, Goto(w, step) \/ Continue(w, step)
      PROVE  pc'[w] = step
  BY <1>1, <1>3 DEF Goto, Continue, TypeOK
\* A step that ends elsewhere.
<1>4. ASSUME \A w \in Workers : pc'[w] # "reinstall" PROVE PlateauInv'
  BY <1>4 DEF PlateauInv
<1>5. ASSUME UNCHANGED <<ledger, pc, task>>, Fits' => Fits PROVE PlateauInv'
  <2>1. ChangeRows' = ChangeRows
    BY <1>5 DEF ChangeRows, Masked, Faults
  <2> QED BY <1>5, <2>1 DEF PlateauInv
<1>6. ASSUME NEW w \in Workers, ReanchorSample(w) PROVE PlateauInv'
  <2>1. UNCHANGED <<ledger, life>> /\ task' = [task EXCEPT ![w].ref = Sample(IncludeRecent(w))]
    BY <1>6 DEF ReanchorSample, durable
  <2>2. task'[w].ref = Sample(IncludeRecent(w)) /\ task'[w].word = task[w].word
    BY <1>1, <2>1 DEF TypeOK, Task
  <2>3. ChangeRows' = ChangeRows
    BY <2>1 DEF ChangeRows, Masked, Faults
  <2>5. Fits' = Fits
    BY <2>1 DEF Fits, Masked, Faults
  <2>4. ASSUME task[w].word = "change", Fits PROVE ChangeRows \subseteq Sample(IncludeRecent(w))
    <3>1. Sample(IncludeRecent(w)) = Masked(1..Len(life))
      BY <2>4, ThinnedRows DEF Sample, IncludeRecent, Fits
    <3>2. ASSUME NEW r \in ChangeRows PROVE r \in Masked(1..Len(life))
      <4>1. PICK e \in ledger : e.start <= r /\ r <= e.end
        BY DEF ChangeRows, Masked
      <4>2. e.end <= Len(life) /\ e.end \in Nat /\ r \in Nat /\ r >= 1
        BY <1>1, <4>1 DEF StoreInv, TimesWithin, TypeOK, Episode, ChangeRows, Masked, Row
      <4>3. r \in 1..Len(life)
        BY <1>1, <4>1, <4>2
      <4> QED BY <4>3 DEF ChangeRows, Masked
    <3> QED BY <3>1, <3>2
  <2> QED BY <1>2, <2>2, <2>3, <2>4, <2>5 DEF PlateauInv
<1>7. ASSUME NEW w \in Workers, Tick(w) \/ Request(w) PROVE PlateauInv'
  <2>1. \E step \in Steps \ {"reinstall"} : Goto(w, step) \/ Continue(w, step)
    BY <1>7 DEF Tick, TickRead, TickMark, TickScore, TickPublish, Publish, TickBump,
       RebuildSample, RebuildInstall, RebuildSaveCache, TickSnapshot, Request,
       RequestReanchor, RequestImmune, AfterRebuild, Steps
  <2>2. pc'[w] # "reinstall"
    BY <1>3, <2>1
  <2> QED BY <1>2, <1>4, <2>2
<1>8. ASSUME NEW w \in Workers,
             CloseEpisode(w) \/ ReanchorInstall(w) \/ ReanchorSaveCache(w) \/ ImmunePass(w)
      PROVE  PlateauInv'
  <2>1. \E step \in Steps \ {"reinstall"} : Goto(w, step) \/ Continue(w, step)
    BY <1>8 DEF CloseEpisode, ReanchorInstall, ReanchorSaveCache, AfterReanchor, ImmunePass,
       ImmuneCheck, ImmuneInstall, AfterImmune, Steps
  <2>2. pc'[w] # "reinstall"
    BY <1>3, <2>1
  <2> QED BY <1>2, <1>4, <2>2
<1>9. ASSUME Crash \/ Stop PROVE PlateauInv'
  BY <1>4, <1>9 DEF Crash, Stop, Down
<1>10. ASSUME NEW level \in Levels, Ingest(level) PROVE PlateauInv'
  BY <1>1, <1>5, <1>10, ArrivalFits DEF Ingest
<1>11. ASSUME Restart \/ UNCHANGED vars PROVE PlateauInv'
  <2>1. UNCHANGED <<life, ledger, pc, task>>
    BY <1>11 DEF Restart, vars, durable
  <2>2. Fits' = Fits
    BY <2>1 DEF Fits, Masked, Faults
  <2> QED BY <1>5, <2>1, <2>2
<1>12. ASSUME NEW w \in Workers, Failure(w) PROVE PlateauInv'
  BY <1>1, <1>2, <1>4, <1>12, FailureEnds
<1> QED BY <1>6, <1>7, <1>8, <1>9, <1>10, <1>11, <1>12 DEF Next, Reanchor

\* With one thread at a time on the asset, a re-anchor that absorbs a change leaves no
\* row of an absorbed plateau surprising (episodes.py reanchor, include_recent), while
\* the healthy life fits into one calibration sample: the same change does not open
\* again on the next row.
THEOREM PlateauIsAbsorbed ==
    ASSUME OneWorker
    PROVE  Spec => AbsorptionIncludesPlateau
<1>1. ASSUME TypeInv, StoreInv, PlateauInv, [Next]_vars, NEW w \in Workers,
             Installs(w, {"reinstall"}), task[w].word = "change", Armed(bank'), Fits
      PROVE  Absorbed'
  <2>1. TypeOK /\ \A v \in Workers : v = w
    BY <1>1 DEF TypeInv, OneWorker
  <2>2. pc[w] = "reinstall" /\ pc'[w] # pc[w] /\ up' /\ failures' = failures
    BY <1>1 DEF Installs
  <2>3. ReanchorInstall(w)
    <3>1. ~(Crash \/ Stop)
      BY <2>2 DEF Crash, Stop, Down
    <3>2. ~(Restart \/ UNCHANGED vars \/ \E level \in Levels : Ingest(level))
      BY <2>2 DEF Restart, vars, Ingest
    <3>3. ~(Tick(w) \/ Request(w) \/ ImmunePass(w))
      BY <2>2 DEF Tick, TickRead, TickMark, TickScore, TickPublish, Publish, TickBump,
         RebuildSample, RebuildInstall, RebuildSaveCache, TickSnapshot, Request,
         RequestReanchor, RequestImmune, ImmunePass, ImmuneCheck, ImmuneInstall
    <3>4. ~(CloseEpisode(w) \/ ReanchorSample(w) \/ ReanchorSaveCache(w))
      BY <2>2 DEF CloseEpisode, ReanchorSample, ReanchorSaveCache
    <3>5. ~Failure(w)
      BY <2>1, <2>2, FailureIsCounted
    <3> QED BY <1>1, <2>1, <3>1, <3>2, <3>3, <3>4, <3>5 DEF Next, Reanchor
  <2>4. bank' = Calibrated(task[w].ref) /\ life' = life /\ ledger' = ledger
    BY <2>3 DEF ReanchorInstall, Install, durable
  <2>5. bank'.ref = task[w].ref
    BY <1>1, <2>4 DEF Calibrated, Armed, NoBank
  <2>6. ChangeRows \subseteq bank'.ref
    BY <1>1, <2>2, <2>5 DEF PlateauInv
  <2>7. \A r \in bank'.ref : r \notin Evidence(bank)'
    BY <2>4 DEF Evidence
  <2>8. ChangeRows' = ChangeRows
    BY <2>4 DEF ChangeRows, Masked, Faults
  <2> QED BY <2>6, <2>7, <2>8 DEF Absorbed
<1>2. TypeInv /\ StoreInv /\ PlateauInv /\ [Next]_vars =>
         [\A w \in Workers :
             (/\ Installs(w, {"reinstall"}) /\ task[w].word = "change" /\ Armed(bank')
              /\ Cardinality(Masked(1..Len(life))) <= MaxSample)
               => Absorbed']_vars
  BY <1>1 DEF Fits
<1>3. TypeInv /\ StoreInv /\ PlateauInv /\ [Next]_vars => StoreInv' /\ PlateauInv'
  BY StoreStep, PlateauStep
<1> QED BY TypeInvInit, TypeInvStep, StoreInit, PlateauInit, <1>2, <1>3, PTL
        DEF Spec, AbsorptionIncludesPlateau

-----------------------------------------------------------------------------
\* The baseline stays put under an open episode whose main alarm is latched: such
\* an alarm is in the verdict from one published frame to the next, unless an
\* exception came before the publishing.

Alarming == open # 0 /\ Alarmed(bank)

Held(w) ==
    /\ pc[w] \in {"rebuild", "rebuilt"} => open = 0
    /\ pc[w] = "publish" /\ Alarming => task[w].word \in AlarmWords
    /\ pc[w] = "recalibrate" /\ Alarming => "verdict" \in halfDone
    /\ pc[w] # "publish" /\ Alarming => verdict \in AlarmWords \/ "verdict" \in halfDone

HeldInv ==
    /\ ~up => open = 0 /\ \A w \in Workers : pc[w] = "idle"
    /\ \A w \in Workers : Held(w)

LEMMA EvidenceIs ==
    ASSUME TypeOK, NEW b \in Bank
    PROVE  /\ Evidence(b) \subseteq Row /\ Evidence(b) \subseteq 1..Len(life)
           /\ IsFiniteSet(Evidence(b)) /\ Summable(b.count, Evidence(b))
<1>1. Len(life) \in Nat /\ Len(life) \in 0..MaxRow /\ MaxRow \in Nat
  BY LengthIs, ConstantAssumption
<1>2. Evidence(b) \subseteq 1..Len(life) /\ Evidence(b) \subseteq Row
  BY <1>1 DEF Evidence, Row
<1>3. IsFiniteSet(Evidence(b))
  <2>1. IsFiniteSet(1..Len(life)) /\ Evidence(b) \in SUBSET (1..Len(life))
    BY <1>1, <1>2, FS_Interval
  <2> QED BY <2>1, FS_Subset
<1> QED BY <1>2, <1>3 DEF Summable, Bank

\* A fresh bank has no evidence.
LEMMA CalibratedIsQuiet ==
    ASSUME TypeOK, NEW sample \in SUBSET Row
    PROVE  ~Alarmed(Calibrated(sample))
<1> DEFINE b == Calibrated(sample)
<1>1. b \in Bank /\ b.count = Zero
  BY CalibratedBank
<1>2. IsFiniteSet(Evidence(b)) /\ \A r \in Evidence(b) : b.count[r] = 0
  BY <1>1, EvidenceIs DEF Zero
<1>3. SumFunctionOnSet(b.count, Evidence(b)) = 0
  BY <1>2, SumOfZeros
<1> QED BY <1>3, ConstantAssumption DEF Alarmed

\* A row that only arrives raises no alarm.
LEMMA ArrivalIsQuiet ==
    ASSUME TypeInv, TypeOK', StoreInv, CountInv, NEW level \in Levels, Ingest(level),
           Alarmed(bank)'
    PROVE  Alarmed(bank)
<1> DEFINE n   == Len(life)
           was == Evidence(bank)
           now == Evidence(bank)'
<1>1. /\ TypeOK /\ n \in Nat /\ bank \in Bank /\ dbSeen <= n /\ dbSeen \in Nat
      /\ bank.ref \subseteq 1..n
  <2>1. TypeOK /\ MaxRow \in Nat
    BY ConstantAssumption DEF TypeInv
  <2>2. n \in Nat
    BY <2>1, LengthIs
  <2>3. bank \in Bank /\ dbSeen \in Nat
    BY <2>1 DEF TypeOK
  <2>4. dbSeen <= n /\ bank.ref \subseteq 1..n
    BY DEF StoreInv, TimesWithin, BanksWithin, Within
  <2> QED BY <2>1, <2>2, <2>3, <2>4
<1>2. life' = Append(life, level) /\ bank' = bank
  BY DEF Ingest, memory
<1>3. Len(life') = n + 1 /\ \A r \in 1..n : life'[r] = life[r]
  BY <1>1, <1>2 DEF TypeOK
<1>4. {life'[q] : q \in bank.ref} = {life[q] : q \in bank.ref}
  BY <1>1, <1>3
<1>5. now = {r \in 1..(n + 1) : life'[r] \notin {life[q] : q \in bank.ref}}
  BY <1>2, <1>3, <1>4 DEF Evidence
<1>6. was = {r \in 1..n : life[r] \notin {life[q] : q \in bank.ref}}
  BY DEF Evidence
<1>7. 1..(n + 1) = (1..n) \cup {n + 1} /\ n + 1 \notin 1..n
  BY <1>1
<1>8. now = was \/ now = was \cup {n + 1}
  <2> HIDE DEF n, was, now
  <2>1. \A r \in 1..n : r \in now <=> r \in was
    BY <1>3, <1>5, <1>6, <1>7
  <2>2. now \subseteq (1..n) \cup {n + 1} /\ was \subseteq 1..n
    BY <1>5, <1>6, <1>7
  <2> QED BY <2>1, <2>2
<1>9. n + 1 \in Row /\ n + 1 \notin was
  <2>1. n + 1 <= MaxRow
    BY <1>3 DEF TypeOK
  <2> HIDE DEF n
  <2>2. n + 1 \in Row
    BY <1>1, <2>1, ConstantAssumption DEF Row
  <2> QED BY <1>6, <1>7, <2>2
<1>10. bank.count[n + 1] = 0
  <2>1. ~(n + 1 <= dbSeen)
    BY <1>1
  <2> QED BY <1>9, <2>1 DEF CountInv, AllCountUpTo, CountsUpTo
<1>11. Summable(bank.count, was)
  BY <1>1, EvidenceIs
<1>12. SumFunctionOnSet(bank.count, was) \in Int
  BY <1>11, SumLaws
<1>13. SumFunctionOnSet(bank.count, was \cup {n + 1}) = SumFunctionOnSet(bank.count, was)
  <2>1. bank.count[n + 1] \in Int
    BY <1>10
  <2>2. SumFunctionOnSet(bank.count, was \cup {n + 1})
           = bank.count[n + 1] + SumFunctionOnSet(bank.count, was)
    BY <1>9, <1>11, <2>1, SumAdd
  <2> QED BY <1>10, <1>12, <2>2
<1>14. SumFunctionOnSet(bank.count, now) = SumFunctionOnSet(bank.count, was)
  BY <1>8, <1>13
<1>15. Armed(bank) /\ SumFunctionOnSet(bank.count, now) >= Threshold
  BY <1>2 DEF Alarmed, Armed
<1> HIDE DEF now, was
<1>16. SumFunctionOnSet(bank.count, was) >= Threshold
  BY <1>14, <1>15
<1> QED BY <1>15, <1>16 DEF Alarmed, was

LEMMA HeldInit == Init => HeldInv
  BY DEF Init, HeldInv, Held, Alarming

LEMMA HeldStep ==
    ASSUME OneWorker, TypeInv, TypeInv', StoreInv, CountInv, HeldInv, [Next]_vars
    PROVE  HeldInv'
<1>1. TypeOK /\ TypeOK'
  BY DEF TypeInv
<1>2. ASSUME NEW w \in Workers PROVE \A v \in Workers : v = w
  BY DEF OneWorker
<1>3. ASSUME NEW w \in Workers, NEW step, Goto(w, step) \/ Continue(w, step)
      PROVE  pc'[w] = step
  BY <1>1, <1>3 DEF Goto, Continue, TypeOK
<1>4. ASSUME UNCHANGED <<life, bank, open>> PROVE Alarming' = Alarming
  BY <1>4 DEF Alarming, Alarmed, Armed, Evidence
<1>a. ASSUME NEW w \in Workers, pc[w] # "idle" PROVE up
  BY <1>a DEF HeldInv
\* A step that moves nothing an alarm rests on.
<1>5. ASSUME NEW w \in Workers, UNCHANGED <<life, bank, open, verdict, up>>, up,
             pc[w] # "publish", pc'[w] # "publish",
             "verdict" \in halfDone => "verdict" \in halfDone',
             pc'[w] \in {"rebuild", "rebuilt"} => open = 0,
             pc'[w] = "recalibrate" /\ Alarming => "verdict" \in halfDone
      PROVE  HeldInv'
  BY <1>2, <1>4, <1>5 DEF HeldInv, Held
\* A step that leaves no episode, or no alarm.
<1>6. ASSUME NEW w \in Workers, up', ~Alarming',
             pc'[w] \in {"rebuild", "rebuilt"} => open' = 0
      PROVE  HeldInv'
  BY <1>2, <1>6 DEF HeldInv, Held
<1>7. ASSUME NEW level \in Levels, Ingest(level) PROVE HeldInv'
  <2>1. UNCHANGED <<bank, open, verdict, up, pc, task, halfDone>>
    BY <1>7 DEF Ingest, memory, ghosts
  <2>2. Alarming' => Alarming
    BY <1>1, <1>7, <2>1, ArrivalIsQuiet DEF Alarming
  <2> QED BY <2>1, <2>2 DEF HeldInv, Held
<1>8. ASSUME NEW w \in Workers,
             TickRead(w) \/ TickMark(w) \/ TickSnapshot(w) \/ Request(w) \/ CloseEpisode(w)
               \/ ReanchorSaveCache(w) \/ RebuildSaveCache(w)
      PROVE  HeldInv'
  <2>1. UNCHANGED <<life, bank, open, verdict, up, halfDone>> /\ pc[w] # "publish"
    BY <1>8 DEF TickRead, TickMark, TickSnapshot, Request, RequestReanchor, RequestImmune,
       CloseEpisode, ReanchorSaveCache, RebuildSaveCache, SaveCache, durable, memory, ghosts
  <2>2. pc'[w] \notin {"publish", "rebuild", "rebuilt", "recalibrate"}
    BY <1>3, <1>8 DEF TickRead, TickMark, TickSnapshot, Request, RequestReanchor, RequestImmune,
       CloseEpisode, ReanchorSaveCache, RebuildSaveCache, AfterReanchor, AfterRebuild
  <2>3. up
    BY <1>8, <1>a DEF TickRead, TickMark, TickSnapshot, Request, RequestReanchor, RequestImmune,
       CloseEpisode, ReanchorSaveCache, RebuildSaveCache
  <2> QED BY <1>5, <2>1, <2>2, <2>3
<1>9. ASSUME NEW w \in Workers, TickBump(w) \/ RebuildSample(w) PROVE HeldInv'
  <2>1. UNCHANGED <<life, bank, open, verdict, up, halfDone>> /\ pc[w] \notin {"publish", "idle"}
    BY <1>9 DEF TickBump, RebuildSample, durable, memory, ghosts
  <2>2. pc'[w] \in {"rebuild", "rebuilt"} => open = 0
    <3>1. CASE TickBump(w)
      BY <1>3, <3>1 DEF TickBump, RebuildDue, AfterRebuild
    <3>2. CASE RebuildSample(w)
      BY <3>2 DEF RebuildSample, HeldInv, Held
    <3> QED BY <1>9, <3>1, <3>2
  <2>3. pc'[w] \notin {"publish", "recalibrate"}
    BY <1>3, <1>9 DEF TickBump, RebuildSample, AfterRebuild
  <2> QED BY <1>5, <1>a, <2>1, <2>2, <2>3
<1>10. ASSUME NEW w \in Workers, ImmuneCheck(w) PROVE HeldInv'
  <2>1. UNCHANGED <<life, bank, open, verdict, up, halfDone>> /\ pc[w] = "immune"
    BY <1>10 DEF ImmuneCheck, durable, memory, ghosts
  <2>2. pc'[w] \in {"revive", "recalibrate", "snapshot", "idle"}
    BY <1>3, <1>10 DEF ImmuneCheck, AfterImmune
  <2>3. ASSUME pc'[w] = "recalibrate" PROVE verdict \notin AlarmWords
    <3>1. PICK finding \in ImmuneFindings :
             \/ Sick(finding) /\ Goto(w, IF Dead(finding) THEN "revive" ELSE "recalibrate")
             \/ ~Sick(finding) /\ Continue(w, AfterImmune(w))
      BY <1>10 DEF ImmuneCheck
    <3>2. ~Continue(w, AfterImmune(w))
      BY <1>3, <2>3 DEF AfterImmune
    <3>3. Sick(finding) /\ ~Dead(finding)
      BY <1>3, <2>3, <3>1, <3>2
    <3> QED BY <3>3 DEF Sick
  <2>4. pc'[w] = "recalibrate" /\ Alarming => "verdict" \in halfDone
    BY <2>1, <2>3 DEF HeldInv, Held
  <2> QED BY <1>5, <1>a, <2>1, <2>2, <2>4
<1>11. ASSUME NEW w \in Workers, Publish(w) PROVE HeldInv'
  <2>1. /\ UNCHANGED <<life, bank, open, up, task>> /\ pc[w] = "publish"
        /\ verdict' = task[w].word
    BY <1>11 DEF Publish
  <2>2. pc'[w] \in {"close", "bump"}
    BY <1>3, <1>11 DEF Publish
  <2> QED BY <1>2, <1>4, <2>1, <2>2 DEF HeldInv, Held
<1>12. ASSUME UNCHANGED life PROVE Alarmed(bank)' = Alarmed(bank')
  BY <1>12 DEF Alarmed, Armed, Evidence
<1>13. ASSUME NEW w \in Workers, TickScore(w) PROVE HeldInv'
  <2> DEFINE fed == Fed(bank, Frame(w))
  <2>1. UNCHANGED <<life, up, verdict>> /\ pc[w] = "score" /\ pc'[w] = "publish"
    BY <1>3, <1>13 DEF TickScore, durable
  <2>2. up /\ up'
    BY <1>a, <2>1
  <2>3. \/ bank' = bank /\ ~Armed(bank)
        \/ bank' = fed /\ ~Alarmed(fed)
        \/ \E word \in AlarmWords : task' = [task EXCEPT ![w].word = word]
    BY <1>13 DEF TickScore
  <2> HIDE DEF fed
  <2>4. CASE bank' = bank /\ ~Armed(bank)
    <3>1. ~Alarmed(bank)'
      BY <1>12, <2>1, <2>4 DEF Alarmed
    <3> QED BY <1>6, <2>1, <2>2, <3>1 DEF Alarming
  <2>5. CASE bank' = fed /\ ~Alarmed(fed)
    <3>1. ~Alarmed(bank)'
      BY <1>12, <2>1, <2>5
    <3> QED BY <1>6, <2>1, <2>2, <3>1 DEF Alarming
  <2>6. CASE \E word \in AlarmWords : task' = [task EXCEPT ![w].word = word]
    <3>1. task'[w].word \in AlarmWords
      BY <1>1, <2>6 DEF TypeOK, Task
    <3> QED BY <1>2, <2>1, <2>2, <3>1 DEF HeldInv, Held
  <2> QED BY <2>3, <2>4, <2>5, <2>6
<1>14. ASSUME NEW w \in Workers, ReanchorSample(w) PROVE HeldInv'
  <2>1. up' /\ open' = 0 /\ pc'[w] = "reinstall"
    BY <1>3, <1>a, <1>14 DEF ReanchorSample
  <2> QED BY <1>6, <2>1 DEF Alarming
<1>15. ASSUME NEW w \in Workers, ReanchorInstall(w) \/ RebuildInstall(w) \/ ImmuneInstall(w)
       PROVE  HeldInv'
  <2>1. /\ UNCHANGED <<life, up>> /\ bank' = Calibrated(task[w].ref) /\ pc[w] # "idle"
    BY <1>15 DEF ReanchorInstall, RebuildInstall, ImmuneInstall, Install, durable
  <2>2. pc'[w] \notin {"rebuild", "rebuilt"}
    BY <1>3, <1>15 DEF ReanchorInstall, RebuildInstall, ImmuneInstall, AfterReanchor, AfterImmune
  <2>3. task[w].ref \in SUBSET Row
    BY <1>1 DEF TypeOK, Task
  <2>4. ~Alarmed(bank)'
    BY <1>1, <1>12, <2>1, <2>3, CalibratedIsQuiet
  <2> QED BY <1>6, <1>a, <2>1, <2>2, <2>4 DEF Alarming
<1>16. ASSUME Crash \/ Stop PROVE HeldInv'
  <2>1. open' = 0 /\ \A w \in Workers : pc'[w] = "idle"
    BY <1>16 DEF Crash, Stop, Down
  <2> QED BY <2>1 DEF HeldInv, Held, Alarming
<1>17. ASSUME Restart PROVE HeldInv'
  <2>1. open' = 0 /\ up' /\ UNCHANGED pc /\ \A w \in Workers : pc[w] = "idle"
    BY <1>17 DEF Restart, HeldInv
  <2> QED BY <2>1 DEF HeldInv, Held, Alarming
<1>18. ASSUME UNCHANGED vars PROVE HeldInv'
  <2>1. UNCHANGED <<life, bank, open, verdict, up, pc, task, halfDone>>
    BY <1>18 DEF vars, durable, memory, ghosts
  <2> QED BY <1>4, <2>1 DEF HeldInv, Held
<1>19. ASSUME NEW w \in Workers, Tick(w) PROVE HeldInv'
  BY <1>8, <1>9, <1>11, <1>13, <1>15, <1>19 DEF Tick, TickPublish
<1>20. ASSUME NEW w \in Workers, Reanchor(w) \/ ImmunePass(w) PROVE HeldInv'
  BY <1>8, <1>10, <1>14, <1>15, <1>20 DEF Reanchor, ImmunePass
<1>21. ASSUME NEW w \in Workers, Failure(w) PROVE HeldInv'
  <2>1. up /\ up' /\ pc'[w] \notin {"publish", "rebuild", "rebuilt", "recalibrate"}
    <3>1. up
      BY <1>21, <1>a DEF Failure, MarkFails, ScoreRaises, Raises, PublishFails, Publish,
         SaveCacheFails, SnapshotFails
    <3>2. up' = up
      BY <1>21 DEF Failure, MarkFails, ScoreRaises, Raises, PublishFails, Publish,
         SaveCacheFails, SnapshotFails, memory
    <3> QED BY <1>1, <1>21, <3>1, <3>2, FailureEnds
  <2>2. CASE "verdict" \in halfDone'
    BY <1>2, <2>1, <2>2 DEF HeldInv, Held
  <2>3. CASE PublishFails(w)
    BY <1>11, <2>3 DEF PublishFails
  <2>4. CASE "verdict" \notin halfDone' /\ ~PublishFails(w)
    <3>1. UNCHANGED <<life, bank, open, verdict, up>> /\ pc[w] # "publish"
      BY <1>21, <2>4 DEF Failure, MarkFails, ScoreRaises, Raises, SaveCacheFails,
         SnapshotFails, durable, memory
    <3>2. "verdict" \notin halfDone
      BY <1>21, <2>4 DEF Failure, MarkFails, ScoreRaises, Raises, SaveCacheFails, SnapshotFails
    <3> QED BY <1>5, <2>1, <3>1, <3>2
  <2> QED BY <2>2, <2>3, <2>4
<1> QED BY <1>7, <1>8, <1>16, <1>17, <1>18, <1>19, <1>20, <1>21 DEF Next

\* With one thread at a time on the asset, neither the scheduled rebuild nor a finding
\* of the immune pass that is not a dead scorer replaces the bank while an episode is
\* open and its main alarm latched (runtime.py tick, immune_pass), unless the tick
\* that raised it ended in an exception before its verdict was published: the guards
\* read the episode and the verdict some steps before the bank is replaced, and rows
\* arrive in between.
THEOREM BaselineIsHeld ==
    ASSUME OneWorker
    PROVE  Spec => MainAlarmHoldsBaseline
<1>1. HeldInv => \A w \in Workers :
         Installs(w, {"rebuilt", "recalibrate"})
           => "verdict" \in halfDone \/ ~(open # 0 /\ Alarmed(bank))
  BY DEF HeldInv, Held, Alarming, Installs
<1>2. TypeInv /\ TypeInv' /\ CountInv /\ [Next]_vars => CountInv'
  BY CountInvStep
<1>3. TypeInv /\ StoreInv /\ [Next]_vars => StoreInv'
  BY StoreStep
<1>4. TypeInv /\ TypeInv' /\ StoreInv /\ CountInv /\ HeldInv /\ [Next]_vars => HeldInv'
  BY HeldStep
<1> QED BY TypeInvInit, TypeInvStep, CountInvInit, StoreInit, HeldInit, <1>1, <1>2, <1>3, <1>4,
        PTL DEF Spec, MainAlarmHoldsBaseline
=============================================================================
