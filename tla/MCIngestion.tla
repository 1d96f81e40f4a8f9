------------------------------ MODULE MCIngestion ------------------------------
(***************************************************************************)
(* Instances of Ingestion for TLC.                                         *)
(***************************************************************************)
EXTENDS Ingestion

\* Months of two timestamps.
MCPeriod(ts) == (ts - 1) \div 2

Row(t, v) == [ts |-> t, val |-> v]

MCUndecodable == {Row(2, "b")}
MCNaive == {Row(4, "naive")}
\* The table of the first text writes UTC but for two rows: one sorts with later
\* timestamps, one below the watermark that the row before it leaves.
MCText(r) ==
    CASE r = Row(1, "a") -> 3 [] r = Row(2, "b") -> 1 [] OTHER -> r.ts

MCRows == {Row(1, "a"), Row(2, "a"), Row(2, "b"), Row(3, "a"), Row(4, "naive")}
=============================================================================
