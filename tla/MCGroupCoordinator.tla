------------------------- MODULE MCGroupCoordinator -------------------------
(* Model values and symmetry for GroupCoordinator. *)
EXTENDS GroupCoordinator, TLC

CONSTANTS c1, c2, c3

TwoConsumers == {c1, c2}
ThreeConsumers == {c1, c2, c3}

\* c1 resumes where the group is; c2 was started with --offset 1.
OneOverride == c1 :> NoOffset @@ c2 :> 1
NoOverride == [c \in ThreeConsumers |-> NoOffset]

Symmetry == Permutations({c1, c2, c3})
=============================================================================
