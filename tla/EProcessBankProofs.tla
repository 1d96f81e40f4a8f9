-------------------------- MODULE EProcessBankProofs --------------------------
(***************************************************************************)
(* Theorems about EProcessBank, for every set of references, every betting *)
(* factor and every threshold.                                             *)
(***************************************************************************)
EXTENDS EProcessBank, InductionTheorems, SequenceTheorems

-----------------------------------------------------------------------------
\* The block structure.

\* Dividing by a divisor of one block's worth leaves at least that many.
LEMMA DivAtLeast ==
    ASSUME NEW n \in Nat, NEW d \in Nat \ {0}, NEW q \in Nat, q * d <= n
    PROVE  n \div d \in Nat /\ n \div d >= q
<1>1. n \div d \in Nat /\ n < (n \div d + 1) * d
  BY SMT
<1>2. ASSUME n \div d < q PROVE FALSE
  <2> DEFINE k == n \div d
  <2>1. k + 1 <= q
    BY <1>1, <1>2
  <2>2. (k + 1) * d <= q * d
    BY <1>1, <2>1
  <2> QED BY <1>1, <2>2
<1> QED BY <1>1, <1>2

\* The base block is a positive number of rows, and never more than the cap.
LEMMA BaseBlock ==
    ASSUME NEW r \in Refs
    PROVE  /\ LagCap(r) \in Nat
           /\ DecorrelationLength(r) \in Nat \ {0}
           /\ DecorrelationLength(r) <= AtLeast(1, LagCap(r))
<1> DEFINE found == {lag \in 1..(AtLeast(2, LagCap(r)) - 1) : lag \in r.lags}
<1>1. r.rows \in Nat /\ MinBlocks \in Nat \ {0}
  BY BankAssumption
<1>2. LagCap(r) \in Nat
  BY <1>1, DivAtLeast DEF LagCap
<1>3. CASE r.rows < 2 * MinBlocks
  BY <1>1, <1>2, <1>3 DEF DecorrelationLength, AtLeast
<1>4. CASE ~(r.rows < 2 * MinBlocks) /\ found = {}
  BY <1>2, <1>4 DEF DecorrelationLength, AtLeast
<1>5. CASE ~(r.rows < 2 * MinBlocks) /\ found # {}
  <2>1. found \in SUBSET Nat
    BY <1>2 DEF AtLeast
  <2>2. \E lag \in found : \A other \in found : lag <= other
    BY <1>5, <2>1, LeastNumber
  <2>3. DecorrelationLength(r) \in found
    BY <1>5, <2>2 DEF DecorrelationLength
  <2> QED BY <1>2, <2>3 DEF AtLeast
<1> QED BY <1>2, <1>3, <1>4, <1>5

\* A reference of enough rows supports its base block.
LEMMA BaseSupported ==
    ASSUME NEW r \in Refs, r.rows >= MinBlocks
    PROVE  r.rows \div DecorrelationLength(r) >= MinBlocks
<1> DEFINE base == DecorrelationLength(r)
<1>1. r.rows \in Nat /\ MinBlocks \in Nat \ {0}
  BY BankAssumption
<1>2. base \in Nat \ {0} /\ LagCap(r) \in Nat /\ base <= AtLeast(1, LagCap(r))
  BY BaseBlock
<1>3. MinBlocks * base <= r.rows
  <2>1. CASE base = 1
    BY <1>1, <2>1
  <2>2. CASE base # 1
    <3>1. base <= LagCap(r)
      BY <1>2, <2>2 DEF AtLeast
    <3>2. LagCap(r) * (2 * MinBlocks) <= r.rows
      BY <1>1 DEF LagCap
    <3> HIDE DEF base
    <3>3. base * (2 * MinBlocks) <= LagCap(r) * (2 * MinBlocks)
      BY <1>1, <1>2, <3>1
    <3>4. MinBlocks * base <= base * (2 * MinBlocks)
      BY <1>1, <1>2
    <3>5. MinBlocks * base \in Nat /\ base * (2 * MinBlocks) \in Nat
          /\ LagCap(r) * (2 * MinBlocks) \in Nat
      BY <1>1, <1>2
    <3> QED BY <1>1, <3>2, <3>3, <3>4, <3>5
  <2> QED BY <2>1, <2>2
<1> QED BY <1>1, <1>2, <1>3, DivAtLeast

LEMMA BlockSizesPositive ==
    ASSUME NEW r \in Refs
    PROVE  BlockSizes(r) \subseteq Nat \ {0} /\ BlockSizes(r) # {}
  BY BaseBlock DEF BlockSizes

\* A reference of enough rows that passes the audit arms every derived member.
LEMMA AuditedArms ==
    ASSUME NEW r \in Refs, r.rows >= MinBlocks, Audited(r)
    PROVE  Arms(r)
<1>1. r.rows \div DecorrelationLength(r) >= MinBlocks
  BY BaseSupported
<1>2. ASSUME NEW b \in BlockSizes(r) PROVE r.rows \div b >= MinBlocks
  BY <1>1 DEF BlockSizes
<1> QED BY <1>2 DEF Arms, MemberArms

\* The block derivation never hands a member constructor a structure that it
\* rejects: a calibration of at least MinBlocks rows that passes the audit
\* always arms, for every length and every autocorrelation.
THEOREM ReferencesUsable == Spec => EveryReferenceIsUsable
<1>1. [Next]_vars =>
        [\A r \in Refs :
            /\ Calibrate(r) \/ Restart(r)
            /\ r.rows >= MinBlocks /\ Audited(r)
            => ref' = r]_vars
  <2> SUFFICES ASSUME NEW r \in Refs, Calibrate(r) \/ Restart(r),
                      r.rows >= MinBlocks, Audited(r)
               PROVE  ref' = r
    OBVIOUS
  <2>1. Arms(r)
    BY AuditedArms
  <2> QED BY <2>1 DEF Calibrate, Restart
<1> QED BY <1>1, PTL DEF Spec, EveryReferenceIsUsable

-----------------------------------------------------------------------------
\* Type correctness of the bank.

LEMMA FreshMember ==
    ASSUME NEW b \in Nat \ {0}
    PROVE  Fresh \in Member /\ Len(Fresh.buffer) < b /\ Fresh.peak = 0
  BY BankAssumption DEF Fresh, Member

LEMMA FreshBank ==
    ASSUME NEW r \in Refs, Arms(r)
    PROVE  WellFormed(r, FreshMembers(r)) /\ ~Alarmed(r, FreshMembers(r))
<1>1. r # NoRef /\ Threshold[r] \in Nat \ {0}
  BY BankAssumption
<1>2. \A b \in BlockSizes(r) :
         FreshMembers(r)[b] \in Member /\ Len(FreshMembers(r)[b].buffer) < b
            /\ FreshMembers(r)[b].peak = 0
  BY FreshMember, BlockSizesPositive DEF FreshMembers
<1>3. DOMAIN FreshMembers(r) = BlockSizes(r)
  BY DEF FreshMembers
<1>4. WellFormed(r, FreshMembers(r))
  <2>1. FreshMembers(r) \in [BlockSizes(r) -> Member]
    BY <1>2 DEF FreshMembers
  <2> QED BY <1>1, <1>2, <2>1 DEF WellFormed
<1>5. ~Alarmed(r, FreshMembers(r))
  BY <1>1, <1>2, <1>3 DEF Alarmed, MemberAlarmed
<1> QED BY <1>4, <1>5

\* What a block makes of a member, field by field.
LEMMA IngestResult ==
    ASSUME NEW r, NEW b, NEW block, NEW w, NEW p, NEW n, NEW rest, NEW g
    PROVE  LET next == AtMost(w + LogE(r, b, block, g), LogWealthCap) IN
           IngestBlock(r, b, [wealth |-> w, peak |-> p, blocks |-> n,
                              buffer |-> rest, rng |-> g], block)
             = [wealth |-> next, peak |-> AtLeast(p, next), blocks |-> n + 1,
                buffer |-> rest, rng |-> (g + 1) % RngPeriod]
<1> DEFINE next == AtMost(w + LogE(r, b, block, g), LogWealthCap)
<1> HIDE DEF next
<1>1. IngestBlock(r, b, [wealth |-> w, peak |-> p, blocks |-> n,
                         buffer |-> rest, rng |-> g], block)
        = [[wealth |-> w, peak |-> p, blocks |-> n, buffer |-> rest, rng |-> g]
             EXCEPT !.wealth = next, !.peak = AtLeast(p, next), !.blocks = n + 1,
                    !.rng = (g + 1) % RngPeriod]
  BY DEF IngestBlock, Peak, next
<1> QED BY <1>1 DEF next

\* A whole block leaves nothing behind in the buffer, and no block lowers the
\* peak.
LEMMA UpdateMember ==
    ASSUME NEW r \in Refs, NEW b \in BlockSizes(r), NEW m \in Member,
           Len(m.buffer) < b, NEW score \in Scores \cup {NaN}
    PROVE  /\ Update(r, b, m, score) \in Member
           /\ Len(Update(r, b, m, score).buffer) < b
           /\ Update(r, b, m, score).peak >= m.peak
<1> DEFINE buffer == Append(m.buffer, score)
<1>1. b \in Nat \ {0} /\ RngPeriod \in Nat \ {0} /\ LogWealthCap \in Nat
  BY BlockSizesPositive, BankAssumption
<1>2. /\ m.wealth \in Int /\ m.peak \in Nat /\ m.blocks \in Nat
      /\ m.buffer \in Seq(Scores) /\ m.rng \in 0..(RngPeriod - 1)
  BY DEF Member
<1>3. CASE score = NaN
  BY <1>2, <1>3 DEF Update
<1>4. CASE score # NaN /\ Len(buffer) < b
  <2>1. buffer \in Seq(Scores)
    BY <1>2, <1>4
  <2>2. Update(r, b, m, score) = [m EXCEPT !.buffer = buffer]
    BY <1>4 DEF Update
  <2> HIDE DEF buffer
  <2> QED BY <1>2, <1>4, <2>1, <2>2 DEF Member
<1>5. CASE score # NaN /\ ~(Len(buffer) < b)
  <2>1. buffer \in Seq(Scores) /\ Len(buffer) = b
    BY <1>1, <1>2, <1>5
  <2> HIDE DEF buffer
  <2>2. Rest(b, buffer) = <<>>
    BY <1>1, <2>1, SubSeqEmpty DEF Rest
  <2>3. SubSeq(buffer, 1, b) \in [1..b -> Scores]
    <3>1. SubSeq(buffer, 1, b) = buffer
      BY <2>1, SubSeqFull
    <3>2. buffer \in [1..Len(buffer) -> Scores]
      BY <2>1
    <3> QED BY <2>1, <3>1, <3>2, Zenon
  <2> DEFINE e    == LogE(r, b, SubSeq(buffer, 1, b), m.rng)
             wealth == AtMost(m.wealth + e, LogWealthCap)
             next == [wealth |-> wealth, peak |-> AtLeast(m.peak, wealth),
                      blocks |-> m.blocks + 1, buffer |-> <<>>,
                      rng |-> (m.rng + 1) % RngPeriod]
  <2>4. e \in Int
    BY <1>2, <2>3, BankAssumption
  <2>5. wealth \in Int
    BY <1>1, <1>2, <2>4 DEF AtMost
  <2>6. AtLeast(m.peak, wealth) \in Nat /\ AtLeast(m.peak, wealth) >= m.peak
    BY <1>2, <2>5 DEF AtLeast
  <2>7. (m.rng + 1) % RngPeriod \in 0..(RngPeriod - 1)
    BY <1>1, <1>2
  <2>8. <<>> \in Seq(Scores) /\ m.blocks + 1 \in Nat
    BY <1>2
  <2>9. next \in Member /\ next.buffer = <<>> /\ next.peak >= m.peak
    <3> HIDE DEF wealth
    <3> QED BY <2>5, <2>6, <2>7, <2>8 DEF Member
  <2>10. m = [wealth |-> m.wealth, peak |-> m.peak, blocks |-> m.blocks,
              buffer |-> m.buffer, rng |-> m.rng]
    BY DEF Member
  <2>11. IngestBlock(r, b, [m EXCEPT !.buffer = <<>>], SubSeq(buffer, 1, b)) = next
    <3> DEFINE rest == [wealth |-> m.wealth, peak |-> m.peak, blocks |-> m.blocks,
                        buffer |-> <<>>, rng |-> m.rng]
    <3>1. [m EXCEPT !.buffer = <<>>] = rest
      BY <2>10
    <3>2. IngestBlock(r, b, rest, SubSeq(buffer, 1, b)) = next
      BY IngestResult
    <3> HIDE DEF rest, next
    <3> QED BY <3>1, <3>2
  <2>12. Update(r, b, m, score) = next
    BY <1>5, <2>2, <2>11 DEF Update, buffer
  <2> HIDE DEF next
  <2> QED BY <1>1, <2>9, <2>12
<1> QED BY <1>3, <1>4, <1>5

\* One score keeps the bank well formed and every alarm latched.
LEMMA FeedBank ==
    ASSUME TypeOK, NEW score \in Scores \cup {NaN}, Feed(score)
    PROVE  /\ WellFormed(ref, members')
           /\ Alarmed(ref, members) => Alarmed(ref, members')
<1>1. ref \in Refs /\ ref # NoRef /\ Arms(ref) /\ DOMAIN members = BlockSizes(ref)
  BY DEF TypeOK, WellFormed, Feed
<1>2. \A b \in BlockSizes(ref) : members[b] \in Member /\ Len(members[b].buffer) < b
  BY <1>1 DEF TypeOK, WellFormed
<1>3. members' = [b \in BlockSizes(ref) |-> Update(ref, b, members[b], score)]
  BY DEF Feed
<1>4. \A b \in BlockSizes(ref) :
         members'[b] \in Member /\ Len(members'[b].buffer) < b
            /\ members'[b].peak >= members[b].peak
  BY <1>1, <1>2, <1>3, UpdateMember
<1>5. WellFormed(ref, members')
  <2>1. members' \in [BlockSizes(ref) -> Member]
    BY <1>3, <1>4
  <2> QED BY <1>1, <1>4, <2>1 DEF WellFormed
<1>6. Threshold[ref] \in Nat
  BY <1>1, BankAssumption
<1>7. ASSUME NEW b \in BlockSizes(ref), members[b].peak >= Threshold[ref]
      PROVE  members'[b].peak >= Threshold[ref]
  <2>1. members[b].peak \in Nat /\ members'[b].peak \in Nat
    BY <1>2, <1>4 DEF Member
  <2> QED BY <1>4, <1>6, <1>7, <2>1
<1> QED BY <1>1, <1>3, <1>5, <1>7 DEF Alarmed, MemberAlarmed

\* The snapshot fits any reference with its signature, which is the reference
\* it was taken on.
LEMMA RestoredBank ==
    ASSUME TypeOK, NEW r \in Refs, Arms(r)
    PROVE  /\ saved.ref = r => Restored(r) = saved.members
           /\ saved.ref # r => Restored(r) = FreshMembers(r)
           /\ WellFormed(r, Restored(r))
<1>1. Restorable(r) <=> saved.ref = r
  <2>1. saved.ref # NoRef => saved.ref \in Refs
    BY DEF TypeOK, WellFormed
  <2> QED BY <2>1, BankAssumption DEF Restorable, Signature
<1>2. CASE saved.ref = r
  <2>1. r # NoRef /\ DOMAIN saved.members = BlockSizes(r)
    BY <1>2, BankAssumption DEF TypeOK, WellFormed
  <2>2. Restored(r) = [b \in BlockSizes(r) |-> saved.members[b]]
    BY <1>1, <1>2, <2>1 DEF Restored
  <2>3. WellFormed(r, saved.members)
    BY <1>2 DEF TypeOK
  <2>4. saved.members = [b \in BlockSizes(r) |-> saved.members[b]]
    BY <2>1, <2>3 DEF WellFormed
  <2> QED BY <1>2, <2>2, <2>3, <2>4
<1>3. CASE saved.ref # r
  BY <1>1, <1>3, FreshBank DEF Restored
<1> QED BY <1>2, <1>3

LEMMA BankTypeStep == TypeOK /\ [Next]_vars => TypeOK'
<1> SUFFICES ASSUME TypeOK, [Next]_vars PROVE TypeOK'
  OBVIOUS
<1>1. NoRef \notin Refs /\ WellFormed(NoRef, <<>>)
  BY BankAssumption DEF WellFormed
<1>2. /\ up \in BOOLEAN
      /\ WellFormed(ref, members) /\ WellFormed(saved.ref, saved.members)
      /\ fed \in Seq(Scores) /\ savedFed \in Seq(Scores)
      /\ saved.ref = NoRef => savedFed = <<>>
  BY DEF TypeOK
<1>3. <<>> \in Seq(Scores)
  OBVIOUS
<1>4. ASSUME NEW r \in Refs, Calibrate(r) PROVE TypeOK'
  <2>1. WellFormed(ref', members')
    BY <1>1, <1>4, FreshBank DEF Calibrate
  <2> QED BY <1>2, <1>3, <1>4, <2>1 DEF Calibrate, TypeOK, WellFormed
<1>5. ASSUME NEW score \in Scores \cup {NaN}, Feed(score) PROVE TypeOK'
  <2>1. WellFormed(ref, members') /\ UNCHANGED <<up, ref, saved, savedFed>>
    BY <1>5, FeedBank DEF Feed
  <2>2. fed' \in Seq(Scores)
    BY <1>2, <1>5 DEF Feed
  <2> QED BY <1>2, <2>1, <2>2 DEF TypeOK, WellFormed
<1>6. ASSUME Save PROVE TypeOK'
  <2>1. ref \in Refs /\ members \in [BlockSizes(ref) -> Member]
    BY <1>2, <1>6 DEF Save, WellFormed
  <2>2. saved'.ref = ref /\ saved'.members = members
    BY <1>6, <2>1 DEF Save, RuntimeState
  <2> QED BY <1>2, <1>6, <2>2 DEF Save, TypeOK, WellFormed
<1>7. ASSUME Crash PROVE TypeOK'
  BY <1>1, <1>2, <1>3, <1>7 DEF Crash, TypeOK, WellFormed
<1>8. ASSUME NEW r \in Refs, Restart(r) PROVE TypeOK'
  <2>1. WellFormed(ref', members')
    BY <1>1, <1>8, RestoredBank DEF Restart
  <2>2. fed' \in Seq(Scores)
    BY <1>2, <1>3, <1>8 DEF Restart
  <2> QED BY <1>2, <1>8, <2>1, <2>2 DEF Restart, TypeOK, WellFormed
<1>9. ASSUME UNCHANGED vars PROVE TypeOK'
  BY <1>2, <1>9 DEF vars, TypeOK, WellFormed
<1> QED BY <1>4, <1>5, <1>6, <1>7, <1>8, <1>9 DEF Next

LEMMA BankTypeInit == Init => TypeOK
  BY BankAssumption DEF Init, TypeOK, WellFormed, NothingSaved

\* Every bank that exists passed the audit and is well formed; no member holds
\* a whole block back.
THEOREM BankTypeCorrect == Spec => []TypeOK
  BY BankTypeInit, BankTypeStep, PTL DEF Spec

-----------------------------------------------------------------------------
\* The bank implements the latch.

LEMMA NoBankNoAlarm ==
    ASSUME NEW ms
    PROVE  Alarmed(NoRef, ms) = FALSE
  BY DEF Alarmed

LEMMA LatchInit == Init => Latch!Init
<1> SUFFICES ASSUME Init PROVE Latch!Init
  OBVIOUS
<1>1. saved.ref = NoRef /\ ref = NoRef /\ up = TRUE
  BY DEF Init, NothingSaved
<1>2. Len(fed) = 0 /\ Len(savedFed) = 0
  BY DEF Init
<1>3. Alarmed(ref, members) = FALSE /\ Alarmed(saved.ref, saved.members) = FALSE
  BY <1>1, NoBankNoAlarm
<1> QED BY <1>1, <1>2, <1>3 DEF Latch!Init, Latch!Nothing

LEMMA LatchStep == TypeOK /\ [Next]_vars => [Latch!Next]_(Latch!vars)
<1> SUFFICES ASSUME TypeOK, [Next]_vars PROVE [Latch!Next]_(Latch!vars)
  OBVIOUS
<1>1. \A ms : Alarmed(NoRef, ms) = FALSE
  BY NoBankNoAlarm
<1>2. \A r \in Refs : Arms(r) => Alarmed(r, FreshMembers(r)) = FALSE
  BY FreshBank
<1>3. ASSUME NEW r \in Refs, Calibrate(r) PROVE Latch!Adopt(ref')
  BY <1>1, <1>2, <1>3
     DEF Calibrate, Latch!Adopt, Latch!Become, Latch!FromZero, Latch!Nothing
<1>4. ASSUME NEW score \in Scores, Feed(score) PROVE Latch!Accumulate
  <2>0. score # NaN
    BY BankAssumption
  <2>1. Len(fed') = Len(fed) + 1
    BY <1>4, <2>0 DEF Feed, TypeOK
  <2>2. Alarmed(ref, members) => Alarmed(ref, members')
    BY <1>4, FeedBank
  <2>3. Alarmed(ref, members') \in BOOLEAN
    BY DEF Alarmed
  <2> QED BY <1>4, <2>1, <2>2, <2>3 DEF Feed, Latch!Accumulate
<1>5. ASSUME Save PROVE Latch!Keep
  <2>1. saved'.ref = ref /\ saved'.members = members
    BY <1>5 DEF Save, TypeOK, WellFormed, RuntimeState
  <2> QED BY <1>5, <2>1 DEF Save, Latch!Keep, Latch!State
<1>6. ASSUME Crash PROVE Latch!Crash
  BY <1>1, <1>6 DEF Crash, Latch!Crash, Latch!Become, Latch!Nothing
<1>7. ASSUME NEW r \in Refs, Restart(r) PROVE Latch!Resume(ref')
  <2>1. CASE ~Arms(r)
    <3>1. saved.ref = NoRef =>
             Len(savedFed) = 0 /\ Alarmed(saved.ref, saved.members) = FALSE
      BY <1>1 DEF TypeOK
    <3> QED BY <1>1, <1>7, <2>1, <3>1
       DEF Restart, Latch!Resume, Latch!Become, Latch!FromZero, Latch!Nothing
  <2>2. CASE Arms(r) /\ saved.ref = r
    BY <1>7, <2>2, RestoredBank
       DEF Restart, Latch!Resume, Latch!Become, Latch!FromZero, Latch!Nothing
  <2>3. CASE Arms(r) /\ saved.ref # r
    BY <1>2, <1>7, <2>3, RestoredBank
       DEF Restart, Latch!Resume, Latch!Become, Latch!FromZero, Latch!Nothing
  <2> QED BY <2>1, <2>2, <2>3
<1>8. ASSUME UNCHANGED vars PROVE UNCHANGED Latch!vars
  BY <1>8 DEF vars, Latch!vars
<1>9. ASSUME NEW r \in Refs, Calibrate(r) \/ Restart(r) PROVE ref' \in Refs \cup {NoRef}
  BY <1>9 DEF Calibrate, Restart
<1>10. ASSUME Feed(NaN) PROVE UNCHANGED Latch!vars
  <2>1. ref # NoRef /\ members = [b \in BlockSizes(ref) |-> members[b]]
    BY <1>10 DEF Feed, TypeOK, WellFormed
  <2>2. members' = members
    BY <1>10, <2>1 DEF Feed, Update
  <2> QED BY <1>10, <2>2 DEF Feed, Latch!vars
<1> QED BY <1>3, <1>4, <1>5, <1>6, <1>7, <1>8, <1>9, <1>10 DEF Next, Latch!Next

\* Through any saves, crashes, restarts and recalibrations the bank's alarm
\* latches: it goes away only when the running monitor adopts a reference from
\* zero, and a restart onto the reference of the snapshot brings it back.
THEOREM BankLatches == Spec => LatchSpec
<1>1. TypeOK /\ [Next]_vars => [Latch!Next]_(Latch!vars)
  BY LatchStep
<1> QED BY LatchInit, <1>1, BankTypeCorrect, PTL DEF Spec, LatchSpec, Latch!Spec

-----------------------------------------------------------------------------
\* Restarts resume the bank bit-exactly.

\* How many blocks a feed gives, and what an added score does to the count.
LEMMA BlockCount ==
    ASSUME NEW n \in Nat, NEW b \in Nat \ {0}
    PROVE  /\ n \div b \in Nat
           /\ (n \div b) * b \in Nat
           /\ (n \div b) * b <= n /\ n < (n \div b) * b + b
           /\ n + 1 < (n \div b) * b + b => (n + 1) \div b = n \div b
           /\ ~(n + 1 < (n \div b) * b + b) =>
                 /\ n + 1 = (n \div b) * b + b
                 /\ (n + 1) \div b = n \div b + 1
<1> DEFINE q == n \div b
           d == (n + 1) \div b
<1>1. q \in Nat /\ q * b <= n /\ n < (q + 1) * b
  BY SMT
<1>2. d \in Nat /\ d * b <= n + 1 /\ n + 1 < (d + 1) * b
  BY SMT
<1> HIDE DEF q, d
<1>3. /\ (q + 1) * b = q * b + b /\ (d + 1) * b = d * b + b
      /\ q * b \in Nat /\ d * b \in Nat
  BY <1>1, <1>2
<1>4. ASSUME NEW x \in Nat, NEW y \in Nat, x < y PROVE x * b + b <= y * b
  <2>1. x + 1 <= y
    BY <1>4
  <2>2. (x + 1) * b <= y * b
    BY <2>1
  <2> QED BY <2>2
<1>5. d < q => d * b + b <= q * b
  BY <1>1, <1>2, <1>4
<1>6. q < d => q * b + b <= d * b
  BY <1>1, <1>2, <1>4
<1>7. ~(d < q)
  BY <1>1, <1>2, <1>3, <1>5
<1>8. n + 1 < q * b + b => d = q
  BY <1>1, <1>2, <1>3, <1>6, <1>7
<1>9. ASSUME ~(n + 1 < q * b + b) PROVE n + 1 = q * b + b /\ d = q + 1
  <2>1. n + 1 = q * b + b
    BY <1>1, <1>3, <1>9
  <2>2. d # q
    BY <1>2, <1>3, <2>1
  <2>3. q + 1 \in Nat /\ (q + 1 < d => (q + 1) * b + b <= d * b)
    BY <1>1, <1>2, <1>4
  <2>4. ~(q + 1 < d)
    BY <1>1, <1>2, <1>3, <2>1, <2>3
  <2> QED BY <1>1, <1>2, <1>7, <2>1, <2>2, <2>4
<1> QED BY <1>1, <1>3, <1>8, <1>9 DEF q, d

LEMMA ModSuccessor ==
    ASSUME NEW n \in Nat, NEW d \in Nat \ {0}
    PROVE  ((n % d) + 1) % d = (n + 1) % d
<1> DEFINE q == n \div d
           m == n % d
           u == (n + 1) \div d
           v == (n + 1) % d
<1>1. q \in Nat /\ m \in 0..(d - 1) /\ n = q * d + m
  <2>1. q = n \div d /\ m = n % d
    OBVIOUS
  <2> HIDE DEF q, m
  <2> QED BY <2>1, SMT
<1>2. u \in Nat /\ v \in 0..(d - 1) /\ n + 1 = u * d + v
  <2>1. n + 1 \in Nat /\ u = (n + 1) \div d /\ v = (n + 1) % d
    OBVIOUS
  <2> HIDE DEF u, v
  <2> QED BY <2>1, SMT
<1>3. /\ n + 1 < q * d + d => u = q
      /\ ~(n + 1 < q * d + d) => n + 1 = q * d + d /\ u = q + 1
  BY BlockCount
<1>4. m + 1 < d => (m + 1) % d = m + 1
  BY <1>1, SMT
<1>5. d % d = 0
  BY SMT
<1> HIDE DEF q, m, u, v
<1>6. q * d \in Nat /\ (q + 1) * d = q * d + d
  BY <1>1
<1>7. CASE n + 1 < q * d + d
  <2>1. v = m + 1 /\ m + 1 < d
    BY <1>1, <1>2, <1>3, <1>6, <1>7
  <2> QED BY <1>4, <2>1 DEF m, v
<1>8. CASE ~(n + 1 < q * d + d)
  <2>1. v = 0 /\ m + 1 = d
    BY <1>1, <1>2, <1>3, <1>6, <1>8
  <2> QED BY <1>5, <2>1 DEF m, v
<1> QED BY <1>7, <1>8

\* The wealth after a block, from the wealth before it.
Wealth(r, b, scores, k, before) ==
    AtMost(before + LogE(r, b, Block(b, scores, k), (k - 1) % RngPeriod), LogWealthCap)

\* A path over the first n blocks.
IsPath(path, r, b, scores, n) ==
    /\ path \in [0..n -> Int]
    /\ path[0] = 0
    /\ \A k \in 1..n : path[k] = Wealth(r, b, scores, k, path[k - 1])

LEMMA BlockType ==
    ASSUME NEW b \in Nat \ {0}, NEW scores \in Seq(Scores),
           NEW k \in Nat \ {0}, k * b <= Len(scores)
    PROVE  Block(b, scores, k) \in [1..b -> Scores]
<1> DEFINE m == (k - 1) * b + 1
<1>1. k * b = (k - 1) * b + b /\ (k - 1) * b \in Nat
  <2>1. k - 1 \in Nat /\ k = (k - 1) + 1
    OBVIOUS
  <2> QED BY <2>1
<1>2. m \in 1..Len(scores) /\ k * b \in m..Len(scores) /\ k * b - m + 1 = b
  BY <1>1
<1> HIDE DEF m
<1>3. SubSeq(scores, m, k * b) \in Seq(Scores) /\ Len(SubSeq(scores, m, k * b)) = b
  BY <1>2, SubSeqProperties
<1>4. \A s \in Seq(Scores) : s \in [1..Len(s) -> Scores]
  OBVIOUS
<1> QED BY <1>3, <1>4 DEF Block, m

LEMMA WealthType ==
    ASSUME NEW r \in Refs, NEW b \in BlockSizes(r), NEW scores \in Seq(Scores),
           NEW k \in Nat \ {0}, k * b <= Len(scores), NEW before \in Int
    PROVE  /\ LogE(r, b, Block(b, scores, k), (k - 1) % RngPeriod) \in Int
           /\ Wealth(r, b, scores, k, before) \in Int
           /\ Wealth(r, b, scores, k, before) <= LogWealthCap
<1>1. b \in Nat \ {0} /\ RngPeriod \in Nat \ {0} /\ LogWealthCap \in Nat
  BY BlockSizesPositive, BankAssumption
<1>2. Block(b, scores, k) \in [1..b -> Scores]
  BY <1>1, BlockType
<1>3. (k - 1) % RngPeriod \in 0..(RngPeriod - 1)
  BY <1>1
<1> DEFINE e == LogE(r, b, Block(b, scores, k), (k - 1) % RngPeriod)
<1>4. e \in Int
  BY <1>2, <1>3, BankAssumption
<1> HIDE DEF e
<1>5. AtMost(before + e, LogWealthCap) \in Int /\ AtMost(before + e, LogWealthCap) <= LogWealthCap
  BY <1>1, <1>4 DEF AtMost
<1> QED BY <1>4, <1>5 DEF Wealth, e

\* The first blocks of a feed are within it.
LEMMA BlocksFit ==
    ASSUME NEW b \in Nat \ {0}, NEW l \in Nat, NEW k \in Nat, k <= l \div b
    PROVE  k * b <= l
<1> DEFINE q == l \div b
<1>1. q \in Nat /\ q * b <= l
  BY BlockCount
<1> HIDE DEF q
<1>2. k <= q
  BY DEF q
<1>3. k * b <= q * b /\ k * b \in Nat /\ q * b \in Nat
  BY <1>1, <1>2
<1> QED BY <1>1, <1>3

\* The recursion has a solution over any number of blocks.
LEMMA PathExists ==
    ASSUME NEW r \in Refs, NEW b \in BlockSizes(r), NEW scores \in Seq(Scores)
    PROVE  \E path : IsPath(path, r, b, scores, Len(scores) \div b)
<1> DEFINE all == Len(scores) \div b
           Good == {n \in Nat : n <= all => \E path : IsPath(path, r, b, scores, n)}
<1>1. b \in Nat \ {0} /\ Len(scores) \in Nat /\ all \in Nat
  BY BlockSizesPositive, BlockCount
<1>2. 0 \in Good
  <2> DEFINE path == [k \in 0..0 |-> 0]
  <2>1. IsPath(path, r, b, scores, 0)
    BY DEF IsPath
  <2> QED BY <2>1
<1>3. ASSUME NEW n \in Nat, n \in Good PROVE n + 1 \in Good
  <2> SUFFICES ASSUME n + 1 <= all PROVE \E path : IsPath(path, r, b, scores, n + 1)
    OBVIOUS
  <2>1. n <= all
    BY <1>1
  <2>2. PICK path : IsPath(path, r, b, scores, n)
    BY <1>3, <2>1
  <2> DEFINE last == Wealth(r, b, scores, n + 1, path[n])
             longer == [k \in 0..(n + 1) |-> IF k = n + 1 THEN last ELSE path[k]]
  <2>3. path[n] \in Int
    BY <2>2 DEF IsPath
  <2>4. (n + 1) * b <= Len(scores)
    <3>1. n + 1 \in Nat /\ n + 1 <= Len(scores) \div b
      OBVIOUS
    <3> QED BY <1>1, <3>1, BlocksFit
  <2>5. last \in Int
    BY <2>3, <2>4, WealthType
  <2> HIDE DEF last
  <2>6. longer \in [0..(n + 1) -> Int] /\ longer[0] = 0
    BY <2>2, <2>5 DEF IsPath
  <2>7. ASSUME NEW k \in 1..(n + 1) PROVE longer[k] = Wealth(r, b, scores, k, longer[k - 1])
    <3>1. longer[k - 1] = path[k - 1]
      OBVIOUS
    <3>2. CASE k = n + 1
      BY <3>1, <3>2 DEF last
    <3>3. CASE k # n + 1
      <4>1. k \in 1..n /\ longer[k] = path[k]
        BY <3>3
      <4> QED BY <2>2, <3>1, <4>1 DEF IsPath
    <3> QED BY <3>2, <3>3
  <2> HIDE DEF longer
  <2> QED BY <2>6, <2>7 DEF IsPath
<1>4. Nat \subseteq Good
  <2> HIDE DEF Good
  <2> QED BY <1>2, <1>3, InductionOverNat
<1> QED BY <1>1, <1>4

\* So Wealths is one.
LEMMA WealthsPath ==
    ASSUME NEW r \in Refs, NEW b \in BlockSizes(r), NEW scores \in Seq(Scores)
    PROVE  IsPath(Wealths(r, b, scores), r, b, scores, Len(scores) \div b)
<1> DEFINE n == Len(scores) \div b
           Eq(f) == f = [k \in 0..n |->
                           IF k = 0 THEN 0
                           ELSE AtMost(f[k - 1] + LogE(r, b, Block(b, scores, k),
                                                       (k - 1) % RngPeriod),
                                       LogWealthCap)]
           path == CHOOSE f : Eq(f)
<1>1. Wealths(r, b, scores) = path
  BY DEF Wealths
<1>2. b \in Nat \ {0} /\ Len(scores) \in Nat /\ n \in Nat
  BY BlockSizesPositive, BlockCount
<1> HIDE DEF n
<1>3. PICK p : IsPath(p, r, b, scores, n)
  BY PathExists DEF n
<1>4. Eq(p)
  <2>1. ASSUME NEW k \in 0..n
        PROVE  p[k] = IF k = 0 THEN 0
                      ELSE AtMost(p[k - 1] + LogE(r, b, Block(b, scores, k),
                                                  (k - 1) % RngPeriod),
                                  LogWealthCap)
    BY <1>2, <1>3 DEF IsPath, Wealth
  <2>2. p \in [0..n -> Int]
    BY <1>3 DEF IsPath
  <2> QED BY <2>1, <2>2
<1>5. Eq(path)
  <2> HIDE DEF Eq
  <2> QED BY <1>4
<1> HIDE DEF path
<1>6. path[0] = 0 /\ \A k \in 1..n : path[k] = Wealth(r, b, scores, k, path[k - 1])
  BY <1>2, <1>5 DEF Wealth
<1> DEFINE Good == {k \in Nat : k <= n => path[k] \in Int}
<1>7. Nat \subseteq Good
  <2>1. 0 \in Good
    BY <1>6
  <2>2. ASSUME NEW k \in Nat, k \in Good PROVE k + 1 \in Good
    <3> SUFFICES ASSUME k + 1 <= n PROVE path[k + 1] \in Int
      OBVIOUS
    <3>1. k <= n /\ k + 1 \in 1..n /\ (k + 1) - 1 = k
      BY <1>2
    <3>2. path[k] \in Int /\ path[k + 1] = Wealth(r, b, scores, k + 1, path[k])
      BY <1>6, <2>2, <3>1
    <3>3. (k + 1) * b <= Len(scores)
      <4>1. k + 1 \in Nat /\ k + 1 <= Len(scores) \div b
        BY DEF n
      <4> QED BY <1>2, <4>1, BlocksFit
    <3>4. k + 1 \in Nat \ {0}
      OBVIOUS
    <3>5. Wealth(r, b, scores, k + 1, path[k]) \in Int
      BY <3>2, <3>3, <3>4, WealthType
    <3> QED BY <3>2, <3>5
  <2> HIDE DEF Good
  <2> QED BY <2>1, <2>2, InductionOverNat
<1>8. path \in [0..n -> Int]
  <2>1. \A k \in 0..n : path[k] \in Int
    BY <1>2, <1>7
  <2>2. path = [k \in 0..n |-> path[k]]
    BY <1>5
  <2> QED BY <2>1, <2>2
<1> QED BY <1>1, <1>6, <1>8 DEF IsPath, n


SameBlocks(b, s, u, n) == \A k \in 1..n : Block(b, s, k) = Block(b, u, k)

\* Two paths over the same blocks agree.
LEMMA PathsAgree ==
    ASSUME NEW r, NEW b, NEW s, NEW u, NEW n \in Nat, NEW m \in Nat, NEW o \in Nat,
           NEW p, NEW q, IsPath(p, r, b, s, m), IsPath(q, r, b, u, o), n <= m, n <= o,
           SameBlocks(b, s, u, n)
    PROVE  \A k \in 0..n : p[k] = q[k]
<1> DEFINE Good == {k \in Nat : k <= n => p[k] = q[k]}
<1>1. 0 \in Good
  BY DEF IsPath
<1>2. ASSUME NEW k \in Nat, k \in Good PROVE k + 1 \in Good
  <2> SUFFICES ASSUME k + 1 <= n PROVE p[k + 1] = q[k + 1]
    OBVIOUS
  <2>1. p[k] = q[k]
    BY <1>2
  <2>2. k + 1 \in 1..n /\ k + 1 \in 1..m /\ k + 1 \in 1..o /\ (k + 1) - 1 = k
    OBVIOUS
  <2>3. /\ p[k + 1] = Wealth(r, b, s, k + 1, p[k])
        /\ q[k + 1] = Wealth(r, b, u, k + 1, q[k])
    BY <2>2 DEF IsPath
  <2>4. Block(b, s, k + 1) = Block(b, u, k + 1)
    BY <2>2 DEF SameBlocks
  <2> QED BY <2>1, <2>3, <2>4 DEF Wealth
<1>3. Nat \subseteq Good
  <2> HIDE DEF Good
  <2> QED BY <1>1, <1>2, InductionOverNat
<1> QED BY <1>3

\* The highest wealth of a path.
IsPeak(top, path, n) ==
    top \in {path[k] : k \in 0..n} /\ \A k \in 0..n : path[k] <= top

LEMMA PeakExists ==
    ASSUME NEW r \in Refs, NEW b \in BlockSizes(r), NEW scores \in Seq(Scores),
           NEW n \in Nat, n = Len(scores) \div b, NEW path, IsPath(path, r, b, scores, n)
    PROVE  \E top \in Nat : IsPeak(top, path, n)
<1>1. b \in Nat \ {0} /\ Len(scores) \in Nat /\ LogWealthCap \in Nat
  BY BlockSizesPositive, BankAssumption
<1>2. \A k \in 0..n : path[k] \in Int /\ path[k] <= LogWealthCap
  <2>1. \A k \in 0..n : path[k] \in Int
    BY DEF IsPath
  <2>2. path[0] <= LogWealthCap
    BY <1>1 DEF IsPath
  <2>3. ASSUME NEW k \in 1..n PROVE path[k] <= LogWealthCap
    <3>1. k \in Nat \ {0} /\ k * b <= Len(scores)
      BY <1>1, BlocksFit
    <3>2. path[k] = Wealth(r, b, scores, k, path[k - 1]) /\ path[k - 1] \in Int
      BY <2>1 DEF IsPath
    <3> QED BY <3>1, <3>2, WealthType
  <2> QED BY <2>1, <2>2, <2>3
<1> DEFINE below == {LogWealthCap - path[k] : k \in 0..n}
<1>3. below \subseteq Nat
  BY <1>1, <1>2
<1>4. 0 \in 0..n /\ below # {}
  OBVIOUS
<1>5. PICK x \in below : \A y \in below : x <= y
  BY <1>3, <1>4, LeastNumber
<1>6. PICK l \in 0..n : x = LogWealthCap - path[l]
  BY <1>5
<1>7. \A k \in 0..n : path[k] <= path[l]
  <2> SUFFICES ASSUME NEW k \in 0..n PROVE path[k] <= path[l]
    OBVIOUS
  <2>1. LogWealthCap - path[l] <= LogWealthCap - path[k]
    BY <1>5, <1>6
  <2> QED BY <1>1, <1>2, <2>1
<1>8. path[l] >= 0
  BY <1>2, <1>4, <1>7 DEF IsPath
<1>9. path[l] \in Nat
  BY <1>2, <1>8
<1>10. IsPeak(path[l], path, n)
  BY <1>7 DEF IsPeak
<1> QED BY <1>9, <1>10

LEMMA PeakUnique ==
    ASSUME NEW path, NEW n, \A k \in 0..n : path[k] \in Int,
           NEW x, IsPeak(x, path, n), NEW y, IsPeak(y, path, n)
    PROVE  x = y
<1>1. PICK k \in 0..n, l \in 0..n : x = path[k] /\ y = path[l]
  BY DEF IsPeak
<1>2. x <= y /\ y <= x /\ x \in Int /\ y \in Int
  BY <1>1 DEF IsPeak
<1> QED BY <1>2

\* What the uninterrupted member is, field by field.
Uninterrupted(m, r, b, scores, path, n, top) ==
    /\ n \in Nat /\ n = Len(scores) \div b
    /\ IsPath(path, r, b, scores, n)
    /\ top \in Nat /\ IsPeak(top, path, n)
    /\ m = [wealth |-> path[n], peak |-> top, blocks |-> n,
            buffer |-> SubSeq(scores, n * b + 1, Len(scores)), rng |-> n % RngPeriod]

LEMMA ReferenceFields ==
    ASSUME NEW r \in Refs, NEW b \in BlockSizes(r), NEW scores \in Seq(Scores)
    PROVE  \E path, n, top : Uninterrupted(Reference(r, b, scores), r, b, scores, path, n, top)
<1> DEFINE n    == Len(scores) \div b
           path == Wealths(r, b, scores)
           peak == CHOOSE p \in {path[k] : k \in 0..n} : \A k \in 0..n : path[k] <= p
<1>1. b \in Nat \ {0} /\ Len(scores) \in Nat /\ n \in Nat
  BY BlockSizesPositive, BlockCount
<1>2. Reference(r, b, scores) =
        [wealth |-> path[n], peak |-> peak, blocks |-> n,
         buffer |-> SubSeq(scores, n * b + 1, Len(scores)), rng |-> n % RngPeriod]
  BY DEF Reference
<1>3. IsPath(path, r, b, scores, n)
  BY WealthsPath
<1> HIDE DEF path
<1>4. PICK top \in Nat : IsPeak(top, path, n)
  BY <1>1, <1>3, PeakExists
<1>5. IsPeak(peak, path, n)
  BY <1>4 DEF IsPeak
<1>6. \A k \in 0..n : path[k] \in Int
  BY <1>3 DEF IsPath
<1> HIDE DEF peak, n
<1>7. peak = top
  BY <1>4, <1>5, <1>6, PeakUnique
<1>8. n = Len(scores) \div b
  BY DEF n
<1>9. Uninterrupted(Reference(r, b, scores), r, b, scores, path, n, top)
  BY <1>1, <1>2, <1>3, <1>4, <1>7, <1>8 DEF Uninterrupted
<1> QED BY <1>9

\* A member that has met nothing is fresh.
LEMMA ReferenceFresh ==
    ASSUME NEW r \in Refs, NEW b \in BlockSizes(r)
    PROVE  Reference(r, b, <<>>) = Fresh
<1>1. b \in Nat \ {0} /\ RngPeriod \in Nat \ {0} /\ <<>> \in Seq(Scores) /\ Len(<<>>) = 0
  BY BlockSizesPositive, BankAssumption
<1>0. PICK path, n, top : Uninterrupted(Reference(r, b, <<>>), r, b, <<>>, path, n, top)
  BY <1>1, ReferenceFields
<1>2. /\ n \in Nat /\ n = Len(<<>>) \div b
      /\ IsPath(path, r, b, <<>>, n) /\ IsPeak(top, path, n)
      /\ Reference(r, b, <<>>) =
           [wealth |-> path[n], peak |-> top, blocks |-> n,
            buffer |-> SubSeq(<<>>, n * b + 1, Len(<<>>)), rng |-> n % RngPeriod]
  BY <1>0 DEF Uninterrupted
<1>3. n = 0
  <2>1. (Len(<<>>) \div b) * b <= 0 /\ Len(<<>>) \div b \in Nat
    BY <1>1, BlockCount
  <2>2. ASSUME n # 0 PROVE FALSE
    <3>1. n - 1 \in Nat /\ n = (n - 1) + 1
      BY <1>2, <2>2
    <3>2. n * b = (n - 1) * b + b /\ (n - 1) * b \in Nat
      BY <1>1, <3>1
    <3> QED BY <1>1, <1>2, <2>1, <3>2
  <2> QED BY <2>2
<1>4. path[0] = 0
  BY <1>2 DEF IsPath
<1>5. top = 0
  BY <1>2, <1>3, <1>4 DEF IsPeak
<1>6. SubSeq(<<>>, 0 * b + 1, 0) = <<>>
  <2>1. 0 * b + 1 = 1
    BY <1>1
  <2>2. SubSeq(<<>>, 1, 0) = <<>>
    BY <1>1, SubSeqEmpty
  <2> QED BY <2>1, <2>2
<1>7. 0 % RngPeriod = 0
  BY <1>1
<1> QED BY <1>1, <1>2, <1>3, <1>4, <1>5, <1>6, <1>7 DEF Fresh

\* A block within a feed is there in the longer feed too.
LEMMA BlockOfLonger ==
    ASSUME NEW b \in Nat \ {0}, NEW s \in Seq(Scores), NEW x \in Scores,
           NEW k \in Nat \ {0}, k * b <= Len(s)
    PROVE  Block(b, s, k) = Block(b, Append(s, x), k)
<1> DEFINE m == (k - 1) * b + 1
<1>1. m \in Nat \ {0} /\ k * b \in Nat
  OBVIOUS
<1> HIDE DEF m
<1>2. SubSeq(s, m, k * b) = SubSeq(Append(s, x), m, k * b)
  <2>1. Append(s, x) \in Seq(Scores) /\ Len(Append(s, x)) = Len(s) + 1
    OBVIOUS
  <2>2. \A i \in m..(k * b) : s[i] = Append(s, x)[i]
    BY <1>1
  <2>3. SubSeq(s, m, k * b) = [i \in 1..(k * b - m + 1) |-> s[i + m - 1]]
    BY <1>1
  <2>4. SubSeq(Append(s, x), m, k * b) = [i \in 1..(k * b - m + 1) |-> Append(s, x)[i + m - 1]]
    BY <1>1, <2>1
  <2>5. \A i \in 1..(k * b - m + 1) : s[i + m - 1] = Append(s, x)[i + m - 1]
    BY <1>1, <2>2
  <2> QED BY <2>3, <2>4, <2>5
<1> QED BY <1>2 DEF Block, m

\* The rest of a feed, and of the feed with one score more.
LEMMA RestOfLonger ==
    ASSUME NEW s \in Seq(Scores), NEW x \in Scores, NEW m \in Nat, m <= Len(s)
    PROVE  /\ SubSeq(s, m + 1, Len(s)) \in Seq(Scores)
           /\ Len(SubSeq(s, m + 1, Len(s))) = Len(s) - m
           /\ SubSeq(Append(s, x), m + 1, Len(s) + 1) = Append(SubSeq(s, m + 1, Len(s)), x)
<1> DEFINE rest == SubSeq(s, m + 1, Len(s))
           long == Append(s, x)
<1>1. rest = [i \in 1..(Len(s) - m) |-> s[i + m]]
  OBVIOUS
<1>2. rest \in Seq(Scores) /\ Len(rest) = Len(s) - m
  OBVIOUS
<1>3. /\ long \in Seq(Scores) /\ Len(long) = Len(s) + 1
      /\ \A i \in 1..Len(s) : long[i] = s[i]
      /\ long[Len(s) + 1] = x
  OBVIOUS
<1>4. SubSeq(long, m + 1, Len(s) + 1) = [i \in 1..(Len(s) + 1 - m) |-> long[i + m]]
  BY <1>3
<1> HIDE DEF rest, long
<1>5. /\ Append(rest, x) \in Seq(Scores) /\ Len(Append(rest, x)) = Len(s) + 1 - m
      /\ \A i \in 1..(Len(s) - m) : Append(rest, x)[i] = rest[i]
      /\ Append(rest, x)[Len(s) + 1 - m] = x
  <2>1. /\ Append(rest, x) \in Seq(Scores) /\ Len(Append(rest, x)) = Len(rest) + 1
        /\ \A i \in 1..Len(rest) : Append(rest, x)[i] = rest[i]
        /\ Append(rest, x)[Len(rest) + 1] = x
    BY <1>2, AppendProperties
  <2> QED BY <1>2, <2>1
<1>6. ASSUME NEW i \in 1..(Len(s) + 1 - m) PROVE Append(rest, x)[i] = long[i + m]
  <2>1. CASE i = Len(s) + 1 - m
    BY <1>3, <1>5, <2>1
  <2>2. CASE i # Len(s) + 1 - m
    <3>1. i \in 1..(Len(s) - m) /\ i + m \in 1..Len(s)
      BY <2>2
    <3> QED BY <1>1, <1>3, <1>5, <3>1
  <2> QED BY <2>1, <2>2
<1>7. Append(rest, x) = [i \in 1..(Len(s) + 1 - m) |-> Append(rest, x)[i]]
  <2>1. \A u \in Seq(Scores) : u = [i \in 1..Len(u) |-> u[i]]
    OBVIOUS
  <2> QED BY <1>5, <2>1
<1>8. SubSeq(long, m + 1, Len(s) + 1) = Append(rest, x)
  BY <1>4, <1>6, <1>7
<1> QED BY <1>2, <1>8 DEF rest, long

\* A score short of a block joins the rest of the feed.
LEMMA ReferenceBuffers ==
    ASSUME NEW r \in Refs, NEW b \in BlockSizes(r), NEW s \in Seq(Scores), NEW x \in Scores,
           NEW path, NEW n, NEW top,
           Uninterrupted(Reference(r, b, s), r, b, s, path, n, top),
           Len(s) + 1 < n * b + b
    PROVE  Update(r, b, Reference(r, b, s), x) = Reference(r, b, Append(s, x))
<1> DEFINE long == Append(s, x)
           rest == SubSeq(s, n * b + 1, Len(s))
<1>1. b \in Nat \ {0} /\ Len(s) \in Nat /\ x # NaN
  BY BlockSizesPositive, BankAssumption
<1>2. long \in Seq(Scores) /\ Len(long) = Len(s) + 1
  OBVIOUS
<1>3. /\ n \in Nat /\ n = Len(s) \div b /\ IsPath(path, r, b, s, n) /\ top \in Nat
      /\ IsPeak(top, path, n)
      /\ Reference(r, b, s) = [wealth |-> path[n], peak |-> top, blocks |-> n,
                               buffer |-> rest, rng |-> n % RngPeriod]
  BY DEF Uninterrupted
<1>4. n * b \in Nat /\ n * b <= Len(s) /\ Len(long) \div b = n
  BY <1>1, <1>2, <1>3, BlockCount
<1>5. Len(rest) = Len(s) - n * b /\ SubSeq(long, n * b + 1, Len(long)) = Append(rest, x)
      /\ rest \in Seq(Scores)
  <2> DEFINE m == n * b
  <2>1. m \in Nat /\ m <= Len(s)
    BY <1>4
  <2> HIDE DEF m
  <2>2. /\ SubSeq(s, m + 1, Len(s)) \in Seq(Scores)
        /\ Len(SubSeq(s, m + 1, Len(s))) = Len(s) - m
        /\ SubSeq(Append(s, x), m + 1, Len(s) + 1) = Append(SubSeq(s, m + 1, Len(s)), x)
    BY <2>1, RestOfLonger
  <2> QED BY <1>2, <2>2 DEF m
<1>6. PICK path2, n2, top2 : Uninterrupted(Reference(r, b, long), r, b, long, path2, n2, top2)
  BY <1>2, ReferenceFields
<1>7. /\ n2 = n /\ IsPath(path2, r, b, long, n) /\ top2 \in Nat /\ IsPeak(top2, path2, n)
      /\ Reference(r, b, long) = [wealth |-> path2[n], peak |-> top2, blocks |-> n,
                                  buffer |-> Append(rest, x), rng |-> n % RngPeriod]
  BY <1>4, <1>5, <1>6 DEF Uninterrupted
<1> HIDE DEF long
<1>8. SameBlocks(b, s, long, n)
  <2> SUFFICES ASSUME NEW k \in 1..n PROVE Block(b, s, k) = Block(b, long, k)
    BY DEF SameBlocks
  <2>1. k \in Nat \ {0} /\ k <= Len(s) \div b
    BY <1>3
  <2>2. k * b <= Len(s)
    BY <1>1, <2>1, BlocksFit
  <2> QED BY <1>1, <2>1, <2>2, BlockOfLonger DEF long
<1>9. \A k \in 0..n : path[k] = path2[k]
  <2>1. n <= n
    BY <1>3
  <2> QED BY <1>3, <1>7, <1>8, <2>1, PathsAgree
<1>10. path[n] = path2[n] /\ IsPeak(top, path2, n)
  BY <1>3, <1>9 DEF IsPeak
<1>11. \A k \in 0..n : path2[k] \in Int
  BY <1>7 DEF IsPath
<1>12. top = top2
  BY <1>7, <1>10, <1>11, PeakUnique
<1> HIDE DEF rest
<1>13. Reference(r, b, s).buffer = rest
  BY <1>3
<1>14. Len(Append(rest, x)) = Len(rest) + 1
  BY <1>5
<1>15. Len(Append(rest, x)) < b
  BY <1>1, <1>4, <1>5, <1>14
<1>16. Update(r, b, Reference(r, b, s), x) = [Reference(r, b, s) EXCEPT !.buffer = Append(rest, x)]
  BY <1>1, <1>13, <1>15 DEF Update
<1>17. Reference(r, b, long) = [Reference(r, b, s) EXCEPT !.buffer = Append(rest, x)]
  <2> DEFINE buffer == Append(rest, x)
  <2> HIDE DEF buffer
  <2>1. [[wealth |-> path[n], peak |-> top, blocks |-> n, buffer |-> rest, rng |-> n % RngPeriod]
           EXCEPT !.buffer = buffer]
          = [wealth |-> path[n], peak |-> top, blocks |-> n, buffer |-> buffer,
             rng |-> n % RngPeriod]
    OBVIOUS
  <2> QED BY <1>3, <1>7, <1>10, <1>12, <2>1 DEF buffer
<1> QED BY <1>16, <1>17 DEF long

\* A score that completes a block adds its wealth to the path.
LEMMA ReferenceBlock ==
    ASSUME NEW r \in Refs, NEW b \in BlockSizes(r), NEW s \in Seq(Scores), NEW x \in Scores,
           NEW path, NEW n, NEW top,
           Uninterrupted(Reference(r, b, s), r, b, s, path, n, top),
           ~(Len(s) + 1 < n * b + b)
    PROVE  Update(r, b, Reference(r, b, s), x) = Reference(r, b, Append(s, x))
<1> DEFINE long == Append(s, x)
           rest == SubSeq(s, n * b + 1, Len(s))
<1>1. /\ b \in Nat \ {0} /\ Len(s) \in Nat /\ x # NaN
      /\ RngPeriod \in Nat \ {0} /\ LogWealthCap \in Nat
  BY BlockSizesPositive, BankAssumption
<1>2. long \in Seq(Scores) /\ Len(long) = Len(s) + 1
  OBVIOUS
<1>3. /\ n \in Nat /\ n = Len(s) \div b /\ IsPath(path, r, b, s, n) /\ top \in Nat
      /\ IsPeak(top, path, n)
      /\ Reference(r, b, s) = [wealth |-> path[n], peak |-> top, blocks |-> n,
                               buffer |-> rest, rng |-> n % RngPeriod]
  BY DEF Uninterrupted
<1>4. /\ n * b \in Nat /\ n * b <= Len(s) /\ Len(s) + 1 = n * b + b
      /\ Len(long) \div b = n + 1
  <2> DEFINE q == Len(s) \div b
  <2>1. /\ q * b \in Nat /\ q * b <= Len(s)
        /\ ~(Len(s) + 1 < q * b + b) => Len(s) + 1 = q * b + b /\ (Len(s) + 1) \div b = q + 1
    BY <1>1, BlockCount
  <2> HIDE DEF q
  <2>2. n = q
    BY <1>3 DEF q
  <2> QED BY <1>2, <2>1, <2>2
<1>5. Len(rest) = Len(s) - n * b /\ SubSeq(long, n * b + 1, Len(long)) = Append(rest, x)
      /\ rest \in Seq(Scores)
  <2> DEFINE m == n * b
  <2>1. m \in Nat /\ m <= Len(s)
    BY <1>4
  <2> HIDE DEF m
  <2>2. /\ SubSeq(s, m + 1, Len(s)) \in Seq(Scores)
        /\ Len(SubSeq(s, m + 1, Len(s))) = Len(s) - m
        /\ SubSeq(Append(s, x), m + 1, Len(s) + 1) = Append(SubSeq(s, m + 1, Len(s)), x)
    BY <2>1, RestOfLonger
  <2> QED BY <1>2, <2>2 DEF m
<1>6. (n + 1) * b = Len(long) /\ (n + 1) - 1 = n
  BY <1>1, <1>2, <1>3, <1>4
<1>7. SubSeq(long, (n + 1) * b + 1, Len(long)) = <<>>
  BY <1>2, <1>6, SubSeqEmpty
<1>8. Block(b, long, n + 1) = Append(rest, x)
  BY <1>5, <1>6 DEF Block
<1>9. PICK path2, n2, top2 : Uninterrupted(Reference(r, b, long), r, b, long, path2, n2, top2)
  BY <1>2, ReferenceFields
<1>10. /\ n2 = n + 1 /\ IsPath(path2, r, b, long, n + 1)
       /\ top2 \in Nat /\ IsPeak(top2, path2, n + 1)
       /\ Reference(r, b, long) = [wealth |-> path2[n + 1], peak |-> top2, blocks |-> n + 1,
                                   buffer |-> <<>>, rng |-> (n + 1) % RngPeriod]
  BY <1>4, <1>7, <1>9 DEF Uninterrupted
<1> HIDE DEF long
<1>11. SameBlocks(b, s, long, n)
  <2> SUFFICES ASSUME NEW k \in 1..n PROVE Block(b, s, k) = Block(b, long, k)
    BY DEF SameBlocks
  <2>1. k \in Nat \ {0} /\ k <= Len(s) \div b
    BY <1>3
  <2>2. k * b <= Len(s)
    BY <1>1, <2>1, BlocksFit
  <2> QED BY <1>1, <2>1, <2>2, BlockOfLonger DEF long
<1>12. \A k \in 0..n : path[k] = path2[k]
  <2>1. n + 1 \in Nat /\ n <= n + 1
    BY <1>3
  <2> QED BY <1>3, <1>10, <1>11, <2>1, PathsAgree
<1> DEFINE next == AtMost(path[n] + LogE(r, b, Append(rest, x), n % RngPeriod), LogWealthCap)
<1>13. path2[n + 1] = next
  <2>1. n + 1 \in 1..(n + 1) /\ n \in 0..n
    BY <1>3
  <2>2. path2[n + 1] = Wealth(r, b, long, n + 1, path2[n])
    BY <1>6, <1>10, <2>1 DEF IsPath
  <2> QED BY <1>6, <1>8, <1>12, <2>1, <2>2 DEF Wealth
<1>14. next \in Int /\ \A k \in 0..(n + 1) : path2[k] \in Int
  <2>1. \A k \in 0..(n + 1) : path2[k] \in Int
    BY <1>10 DEF IsPath
  <2> HIDE DEF next
  <2> QED BY <1>3, <1>13, <2>1
<1> HIDE DEF next
<1>15. AtLeast(top, next) = top2
  <2>1. IsPeak(AtLeast(top, next), path2, n + 1)
    <3>1. PICK l \in 0..n : top = path[l]
      BY <1>3 DEF IsPeak
    <3>2. \A k \in 0..(n + 1) : k \in 0..n \/ k = n + 1
      BY <1>3
    <3>3. \A k \in 0..n : path2[k] <= top
      BY <1>3, <1>12 DEF IsPeak
    <3>4. \A k \in 0..(n + 1) : path2[k] <= top \/ path2[k] <= next
      BY <1>13, <1>14, <3>2, <3>3
    <3>5. AtLeast(top, next) = top \/ AtLeast(top, next) = next
      BY DEF AtLeast
    <3>6. AtLeast(top, next) >= top /\ AtLeast(top, next) >= next
      BY <1>3, <1>14 DEF AtLeast
    <3>7. \A k \in 0..(n + 1) : path2[k] <= AtLeast(top, next)
      BY <1>3, <1>14, <3>4, <3>5, <3>6
    <3>8. l \in 0..(n + 1) /\ n + 1 \in 0..(n + 1) /\ top = path2[l]
      BY <1>3, <1>12, <3>1
    <3> QED BY <1>13, <3>5, <3>7, <3>8 DEF IsPeak
  <2>2. n + 1 \in Nat
    BY <1>3
  <2> QED BY <1>10, <1>14, <2>1, <2>2, PeakUnique
<1>16. ((n % RngPeriod) + 1) % RngPeriod = (n + 1) % RngPeriod
  BY <1>1, <1>3, ModSuccessor
<1>17. Append(rest, x) \in Seq(Scores) /\ Len(Append(rest, x)) = b
  <2> HIDE DEF rest
  <2>1. Append(rest, x) \in Seq(Scores) /\ Len(Append(rest, x)) = Len(rest) + 1
    BY <1>5
  <2> DEFINE m == n * b
  <2> HIDE DEF m
  <2>2. m \in Nat /\ Len(s) + 1 = m + b /\ Len(rest) = Len(s) - m
    BY <1>4, <1>5 DEF m
  <2>3. Len(rest) + 1 = b
    BY <1>1, <2>2
  <2> QED BY <2>1, <2>3
<1>18. Rest(b, Append(rest, x)) = <<>> /\ SubSeq(Append(rest, x), 1, b) = Append(rest, x)
  <2> DEFINE buffer == Append(rest, x)
  <2> HIDE DEF buffer
  <2>1. buffer \in Seq(Scores) /\ Len(buffer) = b
    BY <1>17 DEF buffer
  <2>2. Rest(b, buffer) = <<>>
    BY <1>1, <2>1, SubSeqEmpty DEF Rest
  <2>3. SubSeq(buffer, 1, b) = buffer
    BY <2>1, SubSeqFull
  <2> QED BY <2>2, <2>3 DEF buffer
<1> HIDE DEF rest
<1>19. Reference(r, b, s).buffer = rest
  BY <1>3
<1>20. Update(r, b, Reference(r, b, s), x)
         = IngestBlock(r, b, [Reference(r, b, s) EXCEPT !.buffer = <<>>], Append(rest, x))
  <2>1. ~(Len(Append(rest, x)) < b)
    BY <1>1, <1>17
  <2> QED BY <1>1, <1>18, <1>19, <2>1 DEF Update
<1>21. [Reference(r, b, s) EXCEPT !.buffer = <<>>]
         = [wealth |-> path[n], peak |-> top, blocks |-> n, buffer |-> <<>>,
            rng |-> n % RngPeriod]
  BY <1>3
<1>22. IngestBlock(r, b, [wealth |-> path[n], peak |-> top, blocks |-> n, buffer |-> <<>>,
                          rng |-> n % RngPeriod], Append(rest, x))
         = [wealth |-> next, peak |-> AtLeast(top, next), blocks |-> n + 1,
            buffer |-> <<>>, rng |-> ((n % RngPeriod) + 1) % RngPeriod]
  BY IngestResult DEF next
<1> QED BY <1>10, <1>13, <1>15, <1>16, <1>20, <1>21, <1>22 DEF long

\* One score takes the uninterrupted member to the uninterrupted member.
LEMMA ReferenceStep ==
    ASSUME NEW r \in Refs, NEW b \in BlockSizes(r), NEW s \in Seq(Scores), NEW x \in Scores
    PROVE  Update(r, b, Reference(r, b, s), x) = Reference(r, b, Append(s, x))
<1>1. PICK path, n, top : Uninterrupted(Reference(r, b, s), r, b, s, path, n, top)
  BY ReferenceFields
<1> QED BY <1>1, ReferenceBuffers, ReferenceBlock

\* Every member of a bank is the uninterrupted one.
FollowsReference(r, ms, scores) ==
    r # NoRef => \A b \in BlockSizes(r) : ms[b] = Reference(r, b, scores)

LEMMA FreshFollows ==
    ASSUME NEW r \in Refs
    PROVE  FollowsReference(r, FreshMembers(r), <<>>)
  BY ReferenceFresh DEF FollowsReference, FreshMembers

LEMMA FollowsStep ==
    TypeOK /\ ResumesExactly /\ [Next]_vars => ResumesExactly'
<1> SUFFICES ASSUME TypeOK, ResumesExactly, [Next]_vars PROVE ResumesExactly'
  OBVIOUS
<1>1. /\ FollowsReference(ref, members, fed)
      /\ FollowsReference(saved.ref, saved.members, savedFed)
  BY DEF ResumesExactly, FollowsReference
<1>2. FollowsReference(NoRef, <<>>, <<>>)
  BY DEF FollowsReference
<1> SUFFICES /\ FollowsReference(ref', members', fed')
             /\ FollowsReference(saved'.ref, saved'.members, savedFed')
  BY DEF ResumesExactly, FollowsReference
<1>3. ASSUME NEW r \in Refs, Calibrate(r)
      PROVE  /\ FollowsReference(ref', members', fed')
             /\ FollowsReference(saved'.ref, saved'.members, savedFed')
  BY <1>1, <1>2, <1>3, FreshFollows DEF Calibrate
<1>4. ASSUME NEW score \in Scores \cup {NaN}, Feed(score)
      PROVE  /\ FollowsReference(ref', members', fed')
             /\ FollowsReference(saved'.ref, saved'.members, savedFed')
  <2>1. /\ ref \in Refs /\ ref' = ref /\ fed \in Seq(Scores)
        /\ members' = [b \in BlockSizes(ref) |-> Update(ref, b, members[b], score)]
        /\ saved' = saved /\ savedFed' = savedFed
        /\ \A b \in BlockSizes(ref) : members[b] = Reference(ref, b, fed)
    BY <1>1, <1>4 DEF Feed, TypeOK, WellFormed, FollowsReference
  <2>2. CASE score = NaN
    <3>1. fed' = fed
      BY <1>4, <2>2 DEF Feed
    <3>2. \A b \in BlockSizes(ref) : members'[b] = members[b]
      BY <2>1, <2>2 DEF Update
    <3> QED BY <1>1, <2>1, <3>1, <3>2 DEF FollowsReference
  <2>3. CASE score # NaN
    <3>1. fed' = Append(fed, score) /\ score \in Scores
      BY <1>4, <2>3 DEF Feed
    <3>2. ASSUME NEW b \in BlockSizes(ref) PROVE members'[b] = Reference(ref, b, fed')
      <4>1. members'[b] = Update(ref, b, Reference(ref, b, fed), score)
        BY <2>1
      <4> QED BY <2>1, <3>1, <4>1, ReferenceStep
    <3> QED BY <1>1, <2>1, <3>2 DEF FollowsReference
  <2> QED BY <2>2, <2>3
<1>5. ASSUME Save
      PROVE  /\ FollowsReference(ref', members', fed')
             /\ FollowsReference(saved'.ref, saved'.members, savedFed')
  <2>1. /\ saved'.ref = ref /\ savedFed' = fed
        /\ \A b \in BlockSizes(ref) : saved'.members[b] = members[b]
    BY <1>5 DEF Save, RuntimeState
  <2>2. ref' = ref /\ members' = members /\ fed' = fed
    BY <1>5 DEF Save
  <2> QED BY <1>1, <2>1, <2>2 DEF FollowsReference
<1>6. ASSUME Crash
      PROVE  /\ FollowsReference(ref', members', fed')
             /\ FollowsReference(saved'.ref, saved'.members, savedFed')
  BY <1>1, <1>2, <1>6 DEF Crash
<1>7. ASSUME NEW r \in Refs, Restart(r)
      PROVE  /\ FollowsReference(ref', members', fed')
             /\ FollowsReference(saved'.ref, saved'.members, savedFed')
  <2>1. saved' = saved /\ savedFed' = savedFed
    BY <1>7 DEF Restart
  <2>2. FollowsReference(ref', members', fed')
    <3>1. CASE ~Arms(r)
      BY <1>2, <1>7, <3>1 DEF Restart
    <3>2. CASE Arms(r) /\ saved.ref = r
      <4>1. ref' = r /\ members' = saved.members /\ fed' = savedFed
        BY <1>7, <3>2, RestoredBank DEF Restart
      <4> QED BY <1>1, <3>2, <4>1
    <3>3. CASE Arms(r) /\ saved.ref # r
      <4>1. ref' = r /\ members' = FreshMembers(r) /\ fed' = <<>>
        BY <1>7, <3>3, RestoredBank DEF Restart
      <4> QED BY <4>1, FreshFollows
    <3> QED BY <3>1, <3>2, <3>3
  <2> QED BY <1>1, <2>1, <2>2
<1>8. CASE UNCHANGED vars
  BY <1>1, <1>8 DEF vars
<1> QED BY <1>3, <1>4, <1>5, <1>6, <1>7, <1>8 DEF Next

\* Whatever saves, crashes, restarts and recalibrations came in between, every
\* member of the live bank and of the snapshot is the one that an
\* uninterrupted feed of the same finite scores gives, for feeds of any
\* length, every block size and every betting factor: no restart loses or
\* repeats a partial block, a block's wealth, the peak or a draw of the
\* smoothing generator.
THEOREM BankResumesExactly == Spec => []ResumesExactly
<1>1. Init => ResumesExactly
  BY DEF Init, ResumesExactly, NothingSaved
<1> QED BY <1>1, FollowsStep, BankTypeCorrect, PTL DEF Spec
=============================================================================
