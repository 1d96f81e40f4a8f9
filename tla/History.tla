-------------------------------- MODULE History --------------------------------
(***************************************************************************)
(* What the raw store promises of one asset's history (docstring of        *)
(* store/raw.py), abstractly: rows are only ever added, a timestamp has    *)
(* one row, the first one that came, and one addition is confined to one   *)
(* month.                                                                  *)
(***************************************************************************)
CONSTANTS Rows, Month(_)

VARIABLE rows

OnePerTimestamp(set) == \A r \in set, q \in set : r.ts = q.ts => r = q

Init == rows = {}

Add(new) ==
    /\ new # {}
    /\ \A r \in new, q \in new : Month(r) = Month(q)
    /\ \A r \in new, q \in rows : r.ts # q.ts
    /\ OnePerTimestamp(new)
    /\ rows' = rows \cup new

Next == \E new \in SUBSET Rows : Add(new)

Spec == Init /\ [][Next]_rows
=============================================================================
