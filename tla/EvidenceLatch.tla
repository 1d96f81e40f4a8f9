----------------------------- MODULE EvidenceLatch -----------------------------
(***************************************************************************)
(* What a bank of evidence promises (docstrings of decision/eprocess.py    *)
(* and of Runtime._save_wealth): an alarm latches and holds for as long as *)
(* its calibration reference does.  It goes away only when the running     *)
(* monitor adopts a reference and gathers evidence from zero, and a        *)
(* restart onto the reference of the last kept state brings back exactly   *)
(* the evidence and the alarm that were kept.                              *)
(***************************************************************************)
EXTENDS Naturals

CONSTANTS References, None

VARIABLES
    running,    \* the process runs
    reference,  \* the reference evidence is gathered against, or None
    gathered,   \* how many scores it was gathered from
    latched,    \* the alarm
    kept        \* durable: a reference, and what was gathered against it

vars == <<running, reference, gathered, latched, kept>>

State == [reference |-> reference, gathered |-> gathered, latched |-> latched]

Nothing == [reference |-> None, gathered |-> 0, latched |-> FALSE]

Become(state) ==
    /\ reference' = state.reference
    /\ gathered' = state.gathered
    /\ latched' = state.latched

Init ==
    /\ running = TRUE
    /\ reference = None /\ gathered = 0 /\ latched = FALSE
    /\ kept = Nothing

Accumulate ==
    /\ running /\ reference # None
    /\ gathered' = gathered + 1
    /\ latched' \in BOOLEAN /\ (latched => latched')
    /\ UNCHANGED <<running, reference, kept>>

Keep ==
    /\ running /\ reference # None
    /\ kept' = State
    /\ UNCHANGED <<running, reference, gathered, latched>>

FromZero(r) == [Nothing EXCEPT !.reference = r]

Adopt(r) ==
    /\ running
    /\ Become(FromZero(r))
    /\ UNCHANGED <<running, kept>>

Crash ==
    /\ running /\ running' = FALSE
    /\ Become(Nothing)
    /\ UNCHANGED kept

Resume(r) ==
    /\ ~running /\ running' = TRUE
    /\ Become(IF kept.reference = r THEN kept ELSE FromZero(r))
    /\ UNCHANGED kept

Next ==
    \/ Accumulate \/ Keep \/ Crash
    \/ \E r \in References \cup {None} : Adopt(r) \/ Resume(r)

Spec == Init /\ [][Next]_vars
=============================================================================
