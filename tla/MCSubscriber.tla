---------------------------- MODULE MCSubscriber ----------------------------
(* Subscriber on small instances. *)
EXTENDS Subscriber

CONSTANTS s1, s2, ann

OneSession == [s \in {s1} |-> ann]
SameId     == [s \in {s1, s2} |-> ann]
=============================================================================
