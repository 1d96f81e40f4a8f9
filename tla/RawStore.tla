------------------------------- MODULE RawStore -------------------------------
(***************************************************************************)
(* The raw history of one asset (store/raw.py): a file per month, written  *)
(* by append.  append takes its rows month by month, oldest first; for     *)
(* each month it reads the file, merges, and replaces the file.  Nothing   *)
(* locks the file in between.  A thread in append is at "append" between   *)
(* two months and at "merge" between the read and the replace.             *)
(***************************************************************************)
EXTENDS Integers, FiniteSets

CONSTANTS
    Rows,         \* [ts, val]: two sources may give a timestamp different values
    Period(_),    \* the month of a timestamp
    Threads

VARIABLES
    months,    \* the files: the rows of each month, {} when there is none
    pc,        \* where each thread is
    batch,     \* the rows its append has still to write
    existing   \* what it read from the month it is about to replace

store == <<months, batch, existing>>

Month(r) == Period(r.ts)

Months == {Month(r) : r \in Rows}

Timestamps(rows) == {r.ts : r \in rows}

Earliest(set) == CHOOSE x \in set : \A y \in set : x <= y
Latest(set)   == CHOOSE x \in set : \A y \in set : y <= x

Stored == UNION {months[m] : m \in Months}

\* partition_by("_period")
PartWhole(t, m) == batch[t]
Part(t, m) == {r \in batch[t] : Month(r) = m}

\* unique(subset="timestamp", keep="first"): which of two equal timestamps in
\* one frame is first is up to the frame.
FirstOfEach(rows) ==
    {new \in SUBSET rows :
        /\ Timestamps(new) = Timestamps(rows)
        /\ \A r \in new, q \in new : r.ts = q.ts => r = q}

MergedKeepLast(old, part) ==
    {new \cup {r \in old : r.ts \notin Timestamps(new)} : new \in FirstOfEach(part)}
MergedOverwriting(old, part) == FirstOfEach(part)

Merged(old, part) ==
    {old \cup new : new \in FirstOfEach({r \in part : r.ts \notin Timestamps(old)})}

NextMonthLatest(t) == Latest({Month(r) : r \in batch[t]})
NextMonth(t) == Earliest({Month(r) : r \in batch[t]})

Goto(t, step) == pc' = [pc EXCEPT ![t] = step]

StartAppend(t, rows) ==
    /\ batch' = [batch EXCEPT ![t] = rows]
    /\ UNCHANGED <<months, existing>>

\* read_parquet
AppendRead(t) ==
    /\ pc[t] = "append" /\ batch[t] # {}
    /\ existing' = [existing EXCEPT ![t] = months[NextMonth(t)]]
    /\ Goto(t, "merge")
    /\ UNCHANGED <<months, batch>>

\* concat, unique, os.replace; a month without news is left alone.
AppendReplace(t) ==
    LET m == NextMonth(t) IN
    /\ pc[t] = "merge"
    /\ \E merged \in Merged(existing[t], Part(t, m)) :
          months' = [months EXCEPT ![m] = IF merged = existing[t] THEN @ ELSE merged]
    /\ batch' = [batch EXCEPT ![t] = @ \ Part(t, m)]
    /\ existing' = [existing EXCEPT ![t] = {}]
    /\ Goto(t, "append")

Appended(t) == pc[t] = "append" /\ batch[t] = {}

\* An append that raises leaves the months it has written.
AbandonAppend(t) ==
    /\ pc[t] \in {"append", "merge"}
    /\ batch' = [batch EXCEPT ![t] = {}]
    /\ existing' = [existing EXCEPT ![t] = {}]
    /\ UNCHANGED months

StoreInit ==
    /\ months = [m \in Months |-> {}]
    /\ batch = [t \in Threads |-> {}]
    /\ existing = [t \in Threads |-> {}]
=============================================================================
