---------------------------- MODULE MCEProcessBank ----------------------------
(***************************************************************************)
(* Instances of EProcessBank for TLC.  The references cover the cases of   *)
(* the block derivation: one member; two members, twice, on different      *)
(* scores; refused by the audit; too short to arm; the lag cap reached     *)
(* with the scores decorrelated at it.                                     *)
(***************************************************************************)
EXTENDS EProcessBank

MCRefs ==
    {[id |-> 1, rows |-> 8,  lags |-> {2},    high |-> FALSE],
     [id |-> 2, rows |-> 11, lags |-> {1, 2}, high |-> TRUE],
     [id |-> 3, rows |-> 11, lags |-> {1, 2}, high |-> TRUE],
     [id |-> 4, rows |-> 8,  lags |-> {},     high |-> TRUE],
     [id |-> 5, rows |-> 1,  lags |-> {1},    high |-> FALSE],
     [id |-> 6, rows |-> 3,  lags |-> {},     high |-> FALSE]}

MCThreshold == [r \in MCRefs |-> IF r.rows = 11 THEN 4 ELSE 3]

\* A block of surprising scores pays, one of ordinary scores costs, and the
\* draw of the generator moves both.
MCLogE(r, b, block, draw) ==
    LET hot == Cardinality({i \in 1..b : block[i] = 1})
    IN  IF hot = b THEN 2 + draw ELSE IF hot = 0 THEN draw - 2 ELSE draw
=============================================================================
