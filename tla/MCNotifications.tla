---------------------------- MODULE MCNotifications ----------------------------
(* An administrator and a coordinator; one community, one building. *)
EXTENDS Notifications, TLC

CONSTANTS admin, coordinator, c1, b1, n1, n2, t1, t2

MCUsers == {admin, coordinator}
MCProfile ==
    [u \in MCUsers |->
        CASE u = admin -> [role |-> "ADMIN", scope |-> [community |-> None, building |-> None]]
          [] u = coordinator -> [role |-> "COORDINATOR", scope |-> ToCommunity(c1)]]
MCCommunities == {c1}
MCBuildings == {b1}
MCIds == {n1, n2}
MCSlots == {t1, t2}
MCListers == {<<t2, coordinator>>}
Symmetry == Permutations(MCIds)
=============================================================================
