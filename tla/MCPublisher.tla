---------------------------- MODULE MCPublisher ----------------------------
(* Publisher on small instances. *)
EXTENDS Publisher

CONSTANTS s1, s2, ann, bob

OneSession == [s \in {s1} |-> ann]
SameId     == [s \in {s1, s2} |-> ann]
TwoIds     == [s \in {s1, s2} |-> IF s = s1 THEN ann ELSE bob]
=============================================================================
