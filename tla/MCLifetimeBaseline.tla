-------------------------- MODULE MCLifetimeBaseline --------------------------
(***************************************************************************)
(* Instances of LifetimeBaseline for TLC.                                  *)
(***************************************************************************)
EXTENDS LifetimeBaseline

\* Three months, of two, one and three timestamps: the two recent ones can hold
\* more rows than the old one.
MCPeriod(ts) == IF ts <= 2 THEN 0 ELSE IF ts = 3 THEN 1 ELSE 2

MCWindows == {<<2, 3>>}
=============================================================================
