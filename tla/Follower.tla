------------------------------ MODULE Follower ------------------------------
(***************************************************************************)
(* What a subscriber promises about a room whose publishers come and go.    *)
(* Publishers change their streams and announce it afterwards.  The         *)
(* subscriber need not see a change when it happens: an announcement makes  *)
(* a look at the room due, one look may stand for many announcements, and   *)
(* a look finds the streams as they are then.                               *)
(*                                                                         *)
(* Once something has failed on the subscriber's side it promises nothing.  *)
(***************************************************************************)
CONSTANTS
    Pubs,       \* the publishers the subscriber follows
    Kinds       \* kinds of streams

VARIABLES
    room,           \* streams of the room, <<publisher, kind>>
    unannounced,    \* publishers that have changed something since they announced
    seen,           \* streams the subscriber has, or is about to have
    due,            \* is a look at the room to come?
    failed

vars == <<room, unannounced, seen, due, failed>>

Stream == Pubs \X Kinds

\* The streams of one publisher.
Of(streams, p) == {s \in streams : s[1] = p}

Init ==
    /\ room = {} /\ unannounced = {} /\ seen = {}
    /\ due = TRUE
    /\ failed = FALSE

Change(p) ==
    /\ room' \in SUBSET Stream
    /\ \A q \in Pubs \ {p} : Of(room', q) = Of(room, q)
    /\ unannounced' = unannounced \union {p}
    /\ UNCHANGED <<seen, due, failed>>

Announce(p) ==
    /\ unannounced' = unannounced \ {p}
    /\ due' = TRUE
    /\ UNCHANGED <<room, seen, failed>>

\* An announcement that is none of the publishers'.
Stir ==
    /\ due' = TRUE
    /\ UNCHANGED <<room, unannounced, seen, failed>>

Look ==
    /\ due
    /\ seen' = room
    /\ due' \in BOOLEAN
    /\ UNCHANGED <<room, unannounced, failed>>

Fail == failed' = TRUE

Next == (\E p \in Pubs : Change(p) \/ Announce(p)) \/ Stir \/ Look \/ Fail

Spec == Init /\ [][Next]_vars

\* A publisher that has announced all it did is seen as it is, or will be looked at.
Follows ==
    \A p \in Pubs \ unannounced : ~due /\ ~failed => Of(seen, p) = Of(room, p)
=============================================================================
