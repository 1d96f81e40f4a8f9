---------------------------- MODULE MCAssetMonitor ----------------------------
(***************************************************************************)
(* Instances of AssetMonitor for TLC.                                      *)
(***************************************************************************)
EXTENDS AssetMonitor

Of(rows, channels, transients, refused) ==
    [rows |-> rows, channels |-> channels, transients |-> transients, refused |-> refused]

Frame(rows, transients) == [rows |-> rows, transients |-> transients]

\* Scaled down: windows of 2 and 3 rows, banks of 2 points.  One life has too little
\* for the main bank; the others arm, between them, every domain.
SmallLives ==
    [thin |-> Of(3, 2, 0, {}),
     wide |-> Of(10, 4, 2, {"availability", "horizon-gap"}),
     long |-> Of(30, 2, 0, {"availability", "dynamics-drift"}),
     slow |-> Of(30, 2, 0, {"horizon-gap"})]
SmallFrames == {Frame(1, 0), Frame(4, 1)}
=============================================================================
