---------------------------- MODULE MCTrustStore ----------------------------
(* A small instance of TrustStore: one device that appears with two keys,  *)
(* as after a reset of its identity, and was remembered before there were  *)
(* keys.                                                                   *)
EXTENDS TrustStore

CONSTANTS k1, k2

TwoKeys == {[id |-> 1, key |-> k1], [id |-> 1, key |-> k2]}
LegacyRecord == <<[id |-> 1, key |-> NoKey, routes |-> {1},
                   trusted |-> FALSE, at |-> 0]>>
NoRecord == <<>>

(* Nothing tells the two keys apart.                                       *)
EitherKey == Permutations({k1, k2})
=============================================================================
