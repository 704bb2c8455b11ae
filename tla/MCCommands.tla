----------------------------- MODULE MCCommands -----------------------------
(* Commands on small instances. *)
EXTENDS Commands

CONSTANTS i1, r1, s1, s2, p1

\* Everybody in one room of one instance.
OneHome == [s \in Subs |-> i1]
OneRoom == [x \in Subs \union Pubs |-> r1]
=============================================================================
