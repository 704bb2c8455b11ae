------------------------------ MODULE Broadcast ------------------------------
(***************************************************************************)
(* What the commands between the instances promise the subscribers of a     *)
(* room.  A publisher first makes a change (of its media, in Redis), then   *)
(* announces it.  A subscriber hears of a change of its own room, after it  *)
(* was announced, once at the most, in any order; or it finds the change    *)
(* when it looks at the room for the first time.  Nothing says that it must *)
(* hear of it: that is left to fairness, and to what may fail.              *)
(***************************************************************************)
EXTENDS Sequences

CONSTANTS
    Subs,       \* subscribers
    Changes,    \* changes that publishers make
    Reach       \* the changes a subscriber may hear of: those of its room

VARIABLES
    made,       \* changes made
    announced,  \* changes announced
    heard,      \* what each subscriber was told, in order
    found       \* what each subscriber found when it first looked

vars == <<made, announced, heard, found>>

Init ==
    /\ made = {} /\ announced = {}
    /\ heard = [s \in Subs |-> <<>>]
    /\ found = [s \in Subs |-> {}]

Make(c) ==
    /\ made' = made \union {c}
    /\ UNCHANGED <<announced, heard, found>>

Announce(c) ==
    /\ c \in made \ announced
    /\ announced' = announced \union {c}
    /\ UNCHANGED <<made, heard, found>>

Hear(s, c) ==
    /\ c \in announced \intersect Reach[s]
    /\ \A n \in DOMAIN heard[s] : heard[s][n] # c
    /\ heard' = [heard EXCEPT ![s] = Append(@, c)]
    /\ UNCHANGED <<made, announced, found>>

Look(s) ==
    /\ found[s] = {}
    /\ found' = [found EXCEPT ![s] = made]
    /\ UNCHANGED <<made, announced, heard>>

Next ==
    \/ \E c \in Changes : Make(c) \/ Announce(c)
    \/ \E s \in Subs : Look(s) \/ \E c \in Changes : Hear(s, c)

Spec == Init /\ [][Next]_vars
=============================================================================
