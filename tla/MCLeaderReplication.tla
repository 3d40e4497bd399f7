------------------------ MODULE MCLeaderReplication ------------------------
(* Model values for LeaderReplication. *)
EXTENDS LeaderReplication

CONSTANTS f1, p1, p2

OneFollower == {f1}
OneProducer == {p1}
TwoProducers == {p1, p2}
=============================================================================
