----------------------------- MODULE EProcessBank -----------------------------
(***************************************************************************)
(* The bank of e-processes that turns scores into a latched alarm          *)
(* (decision/eprocess.py), with the durable copy of its wealth.            *)
(*                                                                         *)
(* A calibration reference is [id, rows, lags, high]: its identity (the    *)
(* hash of the calibration scores), its length, the lags at which the      *)
(* scores are decorrelated, and whether the autocorrelation left at the    *)
(* base block reaches the refusal floor.  Log wealth is an integer;        *)
(* LogE(ref, b, block, draw) is the log of the betting factor of a block   *)
(* of b scores under the given draw of the smoothing generator.            *)
(***************************************************************************)
EXTENDS Integers, Sequences, FiniteSets

CONSTANTS
    Refs,           \* calibration references
    NoRef,          \* no bank: none calibrated yet, or the last one refused
    Scores,         \* finite scores
    NaN,            \* a score that is not finite
    MinBlocks,      \* _MIN_CALIB_BLOCKS
    Threshold,      \* threshold_log of a bank's members, by reference
    LogWealthCap,   \* _LOG_WEALTH_CAP
    LogE(_, _, _, _),
    RngPeriod,      \* period of the smoothing generator
    MaxFed          \* bound: scores fed to one bank

VARIABLES
    up,        \* the process runs
    ref,       \* the bank's reference, or NoRef
    members,   \* the bank's e-processes by block size
    saved,     \* wealth snapshot in the state database
    \* observation only
    fed,       \* the finite scores behind the bank's wealth
    savedFed   \* the finite scores behind the snapshot

vars == <<up, ref, members, saved, fed, savedFed>>

AtLeast(n, k) == IF n >= k THEN n ELSE k
AtMost(n, k)  == IF n <= k THEN n ELSE k

-----------------------------------------------------------------------------
\* Block structure of a reference.

LagCap(r) == r.rows \div (2 * MinBlocks)

DecorrelationLength(r) ==
    IF r.rows < 2 * MinBlocks THEN 1
    ELSE LET found == {lag \in 1..(AtLeast(2, LagCap(r)) - 1) : lag \in r.lags}
         IN  IF found = {} THEN AtLeast(1, LagCap(r))
             ELSE CHOOSE lag \in found : \A other \in found : lag <= other

BlockSizesOffByOne(r) ==
    LET base == DecorrelationLength(r)
        fit  == {b \in {base, 4 * base, 16 * base} : r.rows \div b >= MinBlocks - 1}
    IN  IF fit = {} THEN {base} ELSE fit

BlockSizes(r) ==
    LET base == DecorrelationLength(r)
        fit  == {b \in {base, 4 * base, 16 * base} : r.rows \div b >= MinBlocks}
    IN  IF fit = {} THEN {base} ELSE fit

\* The audit refuses a bank whose base block hit the lag cap while the
\* scores are still correlated at it.
Audited(r) ==
    LET base == DecorrelationLength(r) IN
    ~(base >= AtLeast(1, LagCap(r)) /\ base \notin r.lags /\ r.high)

\* EProcess.__post_init__: enough calibration, raw and in blocks.
MemberArms(r, b) == r.rows >= MinBlocks /\ r.rows \div b >= MinBlocks

Arms(r) == Audited(r) /\ \A b \in BlockSizes(r) : MemberArms(r, b)

ASSUME BankAssumption ==
    /\ MinBlocks \in Nat \ {0} /\ RngPeriod \in Nat \ {0}
    /\ MaxFed \in Nat /\ LogWealthCap \in Nat
    /\ NoRef \notin Refs /\ NaN \notin Scores
    /\ \A r \in Refs : r.rows \in Nat /\ r.lags \subseteq Nat \ {0} /\ r.high \in BOOLEAN
    /\ \A r \in Refs, q \in Refs : r.id = q.id => r = q
    /\ Threshold \in [Refs -> Nat \ {0}]
    /\ \A r \in Refs : Threshold[r] <= LogWealthCap
    /\ \A r \in Refs : \A b \in BlockSizes(r) :
          \A block \in [1..b -> Scores], draw \in 0..(RngPeriod - 1) :
             LogE(r, b, block, draw) \in Int

-----------------------------------------------------------------------------
\* One e-process.

Fresh == [wealth |-> 0, peak |-> 0, blocks |-> 0, buffer |-> <<>>, rng |-> 0]

PeakFollows(m, wealth) == wealth
Peak(m, wealth) == AtLeast(m.peak, wealth)

\* _ingest_block
IngestBlock(r, b, m, block) ==
    LET wealth == AtMost(m.wealth + LogE(r, b, block, m.rng), LogWealthCap)
    IN  [m EXCEPT !.wealth = wealth,
                  !.peak   = Peak(m, wealth),
                  !.blocks = m.blocks + 1,
                  !.rng    = (m.rng + 1) % RngPeriod]

RestUncut(b, buffer) == buffer
Rest(b, buffer) == SubSeq(buffer, b + 1, Len(buffer))

\* update, for one score: a block is formed when the buffer is long enough.
Update(r, b, m, score) ==
    LET buffer == Append(m.buffer, score) IN
    IF score = NaN THEN m
    ELSE IF Len(buffer) < b THEN [m EXCEPT !.buffer = buffer]
    ELSE IngestBlock(r, b, [m EXCEPT !.buffer = Rest(b, buffer)], SubSeq(buffer, 1, b))

MemberAlarmed(r, m) == m.peak >= Threshold[r]

-----------------------------------------------------------------------------
\* The bank.

FreshMembers(r) == [b \in BlockSizes(r) |-> Fresh]

Alarmed(r, ms) == r # NoRef /\ \E b \in DOMAIN ms : MemberAlarmed(r, ms[b])

\* _signature: the calibration scores and the block sizes.
Signature(r) == <<r.id, BlockSizes(r)>>

NothingSaved == [ref |-> NoRef, members |-> <<>>]

RuntimeStateNoBuffer(m) == [m EXCEPT !.buffer = <<>>]
RuntimeState(m) == m

\* load_runtime_state, onto a fresh bank
Restorable(r) == saved.ref # NoRef /\ Signature(saved.ref) = Signature(r)

Restored(r) ==
    IF Restorable(r)
    THEN [b \in BlockSizes(r) |-> IF b \in DOMAIN saved.members THEN saved.members[b] ELSE Fresh]
    ELSE FreshMembers(r)

-----------------------------------------------------------------------------
Init ==
    /\ up = TRUE
    /\ ref = NoRef /\ members = <<>>
    /\ saved = NothingSaved
    /\ fed = <<>> /\ savedFed = <<>>

\* Any recalibration of the running monitor: onboarding, rebuild, re-anchor.
Calibrate(r) ==
    /\ up
    /\ ref' = IF Arms(r) THEN r ELSE NoRef
    /\ members' = IF Arms(r) THEN FreshMembers(r) ELSE <<>>
    /\ fed' = <<>>
    /\ UNCHANGED <<up, saved, savedFed>>

\* One score of a frame reaches every member.
Feed(score) ==
    /\ up /\ ref # NoRef /\ Len(fed) < MaxFed
    /\ members' = [b \in BlockSizes(ref) |-> Update(ref, b, members[b], score)]
    /\ fed' = IF score = NaN THEN fed ELSE Append(fed, score)
    /\ UNCHANGED <<up, ref, saved, savedFed>>

Save ==
    /\ up /\ ref # NoRef
    /\ saved' = [ref |-> ref, members |-> [b \in BlockSizes(ref) |-> RuntimeState(members[b])]]
    /\ savedFed' = fed
    /\ UNCHANGED <<up, ref, members, fed>>

Crash ==
    /\ up
    /\ up' = FALSE /\ ref' = NoRef /\ members' = <<>> /\ fed' = <<>>
    /\ UNCHANGED <<saved, savedFed>>

\* The restarted process calibrates on what the store holds now, then overlays
\* the snapshot.
Restart(r) ==
    /\ ~up
    /\ up' = TRUE
    /\ ref' = IF Arms(r) THEN r ELSE NoRef
    /\ members' = IF Arms(r) THEN Restored(r) ELSE <<>>
    /\ fed' = IF Arms(r) /\ saved.ref = r THEN savedFed ELSE <<>>
    /\ UNCHANGED <<saved, savedFed>>

Next ==
    \/ \E r \in Refs : Calibrate(r) \/ Restart(r)
    \/ \E score \in Scores \cup {NaN} : Feed(score)
    \/ Save \/ Crash

Spec == Init /\ [][Next]_vars

-----------------------------------------------------------------------------
\* Properties.

Member ==
    [wealth : Int, peak : Nat, blocks : Nat, buffer : Seq(Scores), rng : 0..(RngPeriod - 1)]

WellFormed(r, ms) ==
    IF r = NoRef THEN ms = <<>>
    ELSE /\ r \in Refs /\ Arms(r)
         /\ ms \in [BlockSizes(r) -> Member]
         /\ \A b \in BlockSizes(r) : Len(ms[b].buffer) < b

\* The bank and its snapshot are well formed; no member ever holds a whole
\* block back, and a bank that exists passed the audit.
TypeOK ==
    /\ up \in BOOLEAN
    /\ WellFormed(ref, members)
    /\ WellFormed(saved.ref, saved.members)
    /\ fed \in Seq(Scores) /\ savedFed \in Seq(Scores)
    /\ saved.ref = NoRef => savedFed = <<>>

\* The wealth after every block, counted from the scores alone.
Block(b, scores, k) == SubSeq(scores, (k - 1) * b + 1, k * b)

Wealths(r, b, scores) ==
    LET path[k \in 0..(Len(scores) \div b)] ==
           IF k = 0 THEN 0
           ELSE AtMost(path[k - 1] + LogE(r, b, Block(b, scores, k), (k - 1) % RngPeriod),
                       LogWealthCap)
    IN  path

\* A member that met these scores without interruption.
Reference(r, b, scores) ==
    LET n    == Len(scores) \div b
        path == Wealths(r, b, scores)
    IN  [wealth |-> path[n],
         peak   |-> CHOOSE p \in {path[k] : k \in 0..n} : \A k \in 0..n : path[k] <= p,
         blocks |-> n,
         buffer |-> SubSeq(scores, n * b + 1, Len(scores)),
         rng    |-> n % RngPeriod]

\* Restarts resume the bank bit-exactly: whatever saves, crashes and restarts
\* came in between, every member of the live bank and of the snapshot is the
\* one an uninterrupted feed of the same finite scores gives, partial block and
\* smoothing generator included.
ResumesExactly ==
    /\ ref # NoRef =>
          \A b \in BlockSizes(ref) : members[b] = Reference(ref, b, fed)
    /\ saved.ref # NoRef =>
          \A b \in BlockSizes(saved.ref) : saved.members[b] = Reference(saved.ref, b, savedFed)

\* A calibration, at run time or at a restart, on at least MinBlocks rows gives a
\* bank or was refused by the audit: the derivation of the block sizes never asks
\* for a member that its own constructor rejects, which would be no bank at all.
EveryReferenceIsUsable ==
    [][\A r \in Refs :
          /\ Calibrate(r) \/ Restart(r)
          /\ r.rows >= MinBlocks /\ Audited(r)
          => ref' = r]_vars

\* The bank implements the latch: an alarm holds until the running monitor
\* recalibrates, and a restart onto the same reference brings it back.
Latch ==
    INSTANCE EvidenceLatch
    WITH References <- Refs, None <- NoRef,
         running <- up, reference <- ref, gathered <- Len(fed),
         latched <- Alarmed(ref, members),
         kept <- [reference |-> saved.ref, gathered |-> Len(savedFed),
                  latched |-> Alarmed(saved.ref, saved.members)]

LatchSpec == Latch!Spec
=============================================================================
