------------------------------ MODULE MCStreams ------------------------------
(* The RTP of a room's publisher on a small instance. *)
EXTENDS Streams

CONSTANTS s1, ann

OneSession == [s \in {s1} |-> ann]
=============================================================================
