------------------------------- MODULE MCFleet -------------------------------
(* Fleet on a small instance: Ann publishes, Bob subscribes. *)
EXTENDS Fleet

CONSTANTS i1, p1, b1, ann, bob

KindOf == [s \in {p1, b1} |-> IF s = b1 THEN "sub" ELSE "pub"]
IdOf   == [s \in {p1, b1} |-> IF s = b1 THEN bob ELSE ann]
=============================================================================
