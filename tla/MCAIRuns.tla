------------------------------- MODULE MCAIRuns -------------------------------
(* Instances of AIRuns small enough for TLC.                                 *)
EXTENDS AIRuns

CONSTANT r1

TwoCommunities == {1, 2}
OneRequest == {r1}

OneWatched == {2}

\* Readings of two hours in one community, of one in the other.
ThreeReadings == {<<1, 1>>, <<1, 2>>, <<2, 1>>}
=============================================================================
