-------------------------- MODULE MCDashboardStream --------------------------
(* Instances of DashboardStream small enough for TLC.                        *)
EXTENDS DashboardStream, TLC

CONSTANTS u1, s1, s2

OneUnit == {u1}
TwoSockets == {s1, s2}

\* Both clients watch the community.
BothOnCommunity == [s \in TwoSockets |-> Community]

\* One client watches the community and one the unit.
OneOnEach == (s1 :> Community) @@ (s2 :> u1)

=============================================================================
