------------------------------ MODULE MCBootstrap ------------------------------
(***************************************************************************)
(* Instances of Bootstrap for TLC.                                         *)
(***************************************************************************)
EXTENDS Bootstrap

\* An audit that accepts everything, one that refuses whatever holds row 2,
\* and one that refuses the unmasked history.
MCAudits == {{}, {s \in SUBSET Row : 2 \in s}, {1..(Rows - HeldOut)}}

\* A virgin asset, and one whose ticks closed an alarm before.
MCLedgers ==
    {<<>>, <<[start |-> 3, end |-> 4, state |-> "alarm", source |-> "tick"]>>}

Virgins == {<<>>}
=============================================================================
