------------------------------- MODULE Ingestion -------------------------------
(***************************************************************************)
(* How telemetry reaches the evidence of one asset: a source that the tick *)
(* drains (ingest/), rows posted over the API, the raw store, and the      *)
(* first half of Runtime.tick, which drains, reads what is newer than      *)
(* last_seen and scores it.  The tick runs on the service's loop thread,   *)
(* the API on another.                                                     *)
(*                                                                         *)
(* A source holds rows and gives the newer ones than a watermark.  "table" *)
(* and "file" stand for the pull sources of ingest/sources.py ("table"     *)
(* also for the HTTP source), "buffer" for the bridge's SQLite buffer, and *)
(* "manual" for an asset that only the API feeds.  A table compares texts: *)
(* its own timestamp of a row with the watermark, printed in UTC.          *)
(***************************************************************************)
EXTENDS RawStore

CONSTANTS
    Kinds,         \* how the asset may be fed
    Undecodable,   \* rows whose JSON does not parse when they come from a buffer
    Naive,         \* rows whose timestamp has no UTC offset: normalize raises
    Text(_),       \* the table's text of a row's timestamp sorts behind the UTC
                   \* texts of the timestamps below this one; the timestamp itself
                   \* when the table writes UTC, another one when it writes offsets
    MixedFeeds,    \* whether the API may also feed an asset with a source
    MaxPost,       \* bound: rows in one post
    MaxFailures,   \* bound: reads or writes that fail
    MaxCrashes     \* bound: crashes

VARIABLES
    up, kind, source,
    watermark,   \* the source's _last_ts: memory only
    reach,       \* what the watermark becomes when the drain has succeeded
    seen,        \* last_seen, written through
    unread,      \* the months the tick has listed and not read yet
    frame,       \* the rows it has read, and then has to score
    \* observation only
    late,        \* rows the source published out of order
    belated,     \* rows that entered append behind a row already stored
    scored,
    forgone,     \* rows of ticks that ended between last_seen and the verdict
    failures, crashes

client == "client"
loop   == "loop"

ASSUME IngestionAssumption ==
    /\ Rows # {} /\ IsFiniteSet(Rows)
    /\ \A r \in Rows : r.ts \in Nat \ {0} /\ Text(r) \in Nat \ {0}
    /\ \A r \in Rows, q \in Rows :
          /\ Period(r.ts) \in Nat
          /\ r.ts <= q.ts => Period(r.ts) <= Period(q.ts)
    /\ Threads = {loop, client}
    /\ Kinds \subseteq {"manual", "table", "file", "buffer"}
    /\ Undecodable \subseteq Rows /\ Naive \subseteq Rows
    /\ MixedFeeds \in BOOLEAN
    /\ {MaxPost, MaxFailures, MaxCrashes} \subseteq Nat

feeding  == <<kind, source, late>>
ticking  == <<seen, unread, frame, scored, forgone>>
draining == <<watermark, reach>>
faults   == <<failures, crashes>>
vars == <<store, pc, up, feeding, draining, ticking, belated, faults>>

Init ==
    /\ StoreInit
    /\ pc = [t \in Threads |-> "idle"]
    /\ up = TRUE /\ kind \in Kinds
    /\ source = {} /\ late = {}
    /\ watermark = 0 /\ reach = 0
    /\ seen = 0 /\ unread = {} /\ frame = {}
    /\ belated = {} /\ scored = {} /\ forgone = {}
    /\ failures = 0 /\ crashes = 0

Newest(rows) == IF rows = {} THEN 0 ELSE Latest(Timestamps(rows))

\* Rows the store has not got, behind one that it has.
Behind(rows) ==
    {r \in rows : r.ts <= Newest(Stored) /\ r.ts \notin Timestamps(Stored)}

Append(t, rows) ==
    /\ StartAppend(t, rows)
    /\ belated' = belated \cup Behind(rows)
    /\ Goto(t, "append")

-----------------------------------------------------------------------------
\* The source, and the drain at the start of a tick.

Publish(r) ==
    /\ kind # "manual" /\ r \notin source
    /\ source' = source \cup {r}
    /\ late' = IF r.ts <= Newest(source) THEN late \cup {r} ELSE late
    /\ UNCHANGED <<store, pc, up, kind, draining, ticking, belated, faults>>

Fetched ==
    CASE kind = "table" -> {r \in source : Text(r) > watermark}
      [] kind = "file"  -> source
      [] OTHER          -> {r \in source : r.ts > watermark}

Garbled == IF kind = "buffer" THEN Undecodable ELSE {}

\* Rows the table's comparison can hide although they are newer.
Lagging == IF kind = "table" THEN {r \in Rows : Text(r) < r.ts} ELSE {}

\* What normalize sees.
Parsed == Fetched \ Garbled

\* What is left to append: _store_frame compares again, as instants.
Drained == {r \in Parsed : r.ts > watermark}

Raises == Parsed \cap Naive # {}

\* The pull sources swallow an exception; the buffer lets it end the tick.
AfterFailureEndsTick == "idle"
AfterFailure == IF kind = "buffer" THEN "idle" ELSE "list"

TickBegins == up /\ pc[loop] = "idle"

TickWithoutSource ==
    /\ TickBegins /\ kind = "manual"
    /\ Goto(loop, "list")
    /\ UNCHANGED <<store, up, feeding, draining, ticking, belated, faults>>

DrainNothing ==
    /\ TickBegins /\ kind # "manual" /\ ~Raises /\ Drained = {}
    /\ Goto(loop, "list")
    /\ UNCHANGED <<store, up, feeding, draining, ticking, belated, faults>>

Drain ==
    /\ TickBegins /\ kind # "manual" /\ ~Raises /\ Drained # {}
    /\ Append(loop, Drained)
    /\ reach' = Newest(IF kind = "buffer" THEN Fetched ELSE Drained)
    /\ UNCHANGED <<up, feeding, watermark, ticking, faults>>

DrainRaises ==
    /\ TickBegins /\ kind # "manual" /\ Raises
    /\ Goto(loop, AfterFailure)
    /\ UNCHANGED <<store, up, feeding, draining, ticking, belated, faults>>

\* The database is locked, the request times out, the disk is full.
Fails == failures < MaxFailures /\ failures' = failures + 1

SourceUnavailable ==
    /\ TickBegins /\ kind # "manual" /\ Fails
    /\ Goto(loop, AfterFailure)
    /\ UNCHANGED <<store, up, feeding, draining, ticking, belated, crashes>>

DrainFailsAdvancing ==
    /\ Fails /\ AbandonAppend(loop)
    /\ watermark' = reach /\ reach' = 0
    /\ Goto(loop, AfterFailure)
    /\ UNCHANGED <<up, feeding, ticking, belated, crashes>>

DrainFails ==
    /\ Fails /\ AbandonAppend(loop)
    /\ reach' = 0
    /\ Goto(loop, AfterFailure)
    /\ UNCHANGED <<up, feeding, watermark, ticking, belated, crashes>>

DrainEnds ==
    /\ Appended(loop)
    /\ watermark' = reach /\ reach' = 0
    /\ Goto(loop, "list")
    /\ UNCHANGED <<store, up, feeding, ticking, belated, faults>>

-----------------------------------------------------------------------------
\* The rest of the tick: store.read lists the files, then reads them one by one.

List ==
    /\ pc[loop] = "list"
    /\ unread' = {m \in Months : months[m] # {}}
    /\ frame' = {}
    /\ Goto(loop, "read")
    /\ UNCHANGED <<store, up, feeding, draining, seen, scored, forgone, belated, faults>>

ReadMonth ==
    LET m == Earliest(unread) IN
    /\ pc[loop] = "read" /\ unread # {}
    /\ frame' = frame \cup {r \in months[m] : r.ts > seen}
    /\ unread' = unread \ {m}
    /\ UNCHANGED <<store, pc, up, feeding, draining, seen, scored, forgone, belated,
                   faults>>

NothingNew ==
    /\ pc[loop] = "read" /\ unread = {} /\ frame = {}
    /\ Goto(loop, "idle")
    /\ UNCHANGED <<store, up, feeding, draining, ticking, belated, faults>>

\* _set_last_seen, before the rows are scored.
MarkSeen ==
    /\ pc[loop] = "read" /\ unread = {} /\ frame # {}
    /\ seen' = Newest(frame)
    /\ Goto(loop, "score")
    /\ UNCHANGED <<store, up, feeding, draining, unread, frame, scored, forgone, belated,
                   faults>>

\* EpisodicMonitor.process
Score ==
    /\ pc[loop] = "score"
    /\ scored' = scored \cup frame
    /\ frame' = {}
    /\ Goto(loop, "idle")
    /\ UNCHANGED <<store, up, feeding, draining, seen, unread, forgone, belated, faults>>

Underway == IF pc[loop] = "score" THEN frame ELSE {}

\* A read or the scoring raises; the loop logs it and goes on.
TickFails ==
    /\ pc[loop] \in {"list", "read", "score"} /\ Fails
    /\ forgone' = forgone \cup Underway
    /\ unread' = {} /\ frame' = {}
    /\ Goto(loop, "idle")
    /\ UNCHANGED <<store, up, feeding, draining, seen, scored, belated, crashes>>

-----------------------------------------------------------------------------
\* Rows posted over the API.

Post(rows) ==
    /\ up /\ pc[client] = "idle"
    /\ kind = "manual" \/ MixedFeeds
    /\ Append(client, rows)
    /\ UNCHANGED <<up, feeding, draining, ticking, faults>>

PostFails ==
    /\ Fails /\ AbandonAppend(client)
    /\ Goto(client, "idle")
    /\ UNCHANGED <<up, feeding, draining, ticking, belated, crashes>>

PostEnds ==
    /\ Appended(client)
    /\ Goto(client, "idle")
    /\ UNCHANGED <<store, up, feeding, draining, ticking, belated, faults>>

AppendStep(t) ==
    /\ AppendRead(t) \/ AppendReplace(t)
    /\ UNCHANGED <<up, feeding, draining, ticking, belated, faults>>

-----------------------------------------------------------------------------
Crash ==
    /\ up /\ crashes < MaxCrashes
    /\ up' = FALSE /\ crashes' = crashes + 1
    /\ pc' = [t \in Threads |-> "idle"]
    /\ batch' = [t \in Threads |-> {}] /\ existing' = [t \in Threads |-> {}]
    /\ watermark' = 0 /\ reach' = 0
    /\ unread' = {} /\ frame' = {} /\ forgone' = forgone \cup Underway
    /\ UNCHANGED <<months, feeding, seen, scored, belated, failures>>

Restart ==
    /\ ~up /\ up' = TRUE
    /\ UNCHANGED <<store, pc, feeding, draining, ticking, belated, faults>>

Tick ==
    \/ TickWithoutSource \/ DrainNothing \/ Drain \/ DrainRaises
    \/ AppendStep(loop) \/ DrainEnds
    \/ List \/ ReadMonth \/ NothingNew \/ MarkSeen \/ Score

Posts == {rows \in SUBSET (Rows \ Naive) : Cardinality(rows) \in 1..MaxPost}

Next ==
    \/ \E r \in Rows : Publish(r)
    \/ Tick \/ SourceUnavailable \/ DrainFails \/ TickFails
    \/ \E rows \in Posts : Post(rows)
    \/ AppendStep(client) \/ PostFails \/ PostEnds
    \/ Crash \/ Restart

Spec == Init /\ [][Next]_vars

\* The loop comes back every interval; a request that was accepted is worked
\* off; the service is supervised.
FairSpec ==
    /\ Spec
    /\ WF_vars(Tick) /\ WF_vars(AppendStep(client) \/ PostEnds) /\ WF_vars(Restart)

-----------------------------------------------------------------------------
\* Properties.

Steps == {"idle", "append", "merge", "list", "read", "score"}

\* Values, and who may be where.
TypeOK ==
    /\ months \in [Months -> SUBSET Rows]
    /\ \A m \in Months : \A r \in months[m] : Month(r) = m
    /\ pc \in [Threads -> Steps] /\ pc[client] \notin {"list", "read", "score"}
    /\ batch \in [Threads -> SUBSET Rows] /\ existing \in [Threads -> SUBSET Rows]
    /\ \A t \in Threads : pc[t] = "merge" =>
          batch[t] # {} /\ \A r \in existing[t] : Month(r) = NextMonth(t)
    /\ up \in BOOLEAN /\ kind \in Kinds /\ source \subseteq Rows /\ late \subseteq source
    /\ watermark \in Nat /\ reach \in Nat /\ seen \in Nat
    /\ unread \subseteq Months /\ frame \subseteq Rows
    /\ belated \subseteq Rows /\ scored \subseteq Rows /\ forgone \subseteq Rows
    /\ failures \in 0..MaxFailures /\ crashes \in 0..MaxCrashes

\* The store keeps the promises of its docstring through failed appends, crashes
\* and replays: rows are only added, the first row of a timestamp stays, one
\* month at a time.
Log == INSTANCE History WITH rows <- Stored

AppendOnly == Log!Spec

\* The record of the asset's life holds every row the verdicts rest on.
ScoredIsKept == scored \subseteq Stored

\* The watermark is only an optimisation: a row it passes over is in the store,
\* unless the source published it behind a later one, it cannot be decoded, or a
\* table writes its timestamp with an offset that sorts it too low.
WatermarkCovers ==
    \A r \in source \ (late \cup Garbled \cup Lagging) :
       r.ts <= watermark => r.ts \in Timestamps(Stored)

\* No stored row is passed over by last_seen unscored, unless it came to the
\* store behind a row that was already there, or a tick read it and ended,
\* by an exception or a crash, between last_seen and the verdict: an append in
\* progress never shows a tick its later months without its earlier ones.
NothingSkipped ==
    \A r \in Stored :
       r.ts <= seen => r \in scored \cup belated \cup forgone \cup Underway

\* Every row published in order gets to the store, whatever fails in between,
\* unless a naive timestamp blocks the source or a table hides the row.
PublishedIsStored ==
    \A r \in Rows :
       (r \in source \ (late \cup Garbled \cup Lagging))
       ~> (r.ts \in Timestamps(Stored) \/ source \cap Naive # {})

\* Every stored row that came in order is scored, whatever happens to the source,
\* unless a tick ended between last_seen and its verdict; only a naive timestamp
\* in a buffer, which ends every tick, can prevent it for good.
StoredIsScored ==
    \A r \in Rows :
       (r \in Stored \ belated)
       ~> (r \in scored \cup forgone \/ (kind = "buffer" /\ source \cap Naive # {}))
=============================================================================
