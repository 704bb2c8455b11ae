--------------------------- MODULE MCRenegotiation ---------------------------
(* Renegotiation on small instances. *)
EXTENDS Renegotiation

\* ann and bob are other users; me is the subscriber as a publisher, and
\* myscreen its shared screen.
CONSTANTS ann, bob, me, myscreen
=============================================================================
