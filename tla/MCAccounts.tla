------------------------------ MODULE MCAccounts ------------------------------
(* An instance of Accounts small enough for TLC: the administrator and one   *)
(* more user, one community, one building, and edits of one field at a time. *)
EXTENDS Accounts, TLC

CONSTANTS admin, user, s1, s2

TwoUsers == {admin, user}
TwoSlots == {s1, s2}
Symmetry == Permutations(TwoSlots)

Field(c, v) == [[d \in Columns |-> Keep] EXCEPT ![c] = v]
Edits ==
    {Field("status", "DELETED"), Field("status", "ACTIVE"), Field("email", "own")}
      \union {Field("community", c) : c \in Communities}
      \union {Field("building", b) : b \in Buildings}
Created == {[role |-> "COORDINATOR", status |-> "ACTIVE"]}
=============================================================================
