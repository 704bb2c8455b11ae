-------------------------------- MODULE MCSfu --------------------------------
(* Two publishers and a subscriber on a small instance. *)
EXTENDS Sfu

CONSTANTS s1, s2, ann, bob

TwoIds == [s \in {s1, s2} |-> IF s = s1 THEN ann ELSE bob]
=============================================================================
