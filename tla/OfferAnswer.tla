----------------------------- MODULE OfferAnswer -----------------------------
(***************************************************************************)
(* What renegotiation promises one subscriber.  The room's streams change   *)
(* at any time.  In a round the server drafts them, builds the draft into   *)
(* the peer connection, offers what the connection carries, and the browser *)
(* shows what was offered.  Rounds do not overlap: one begins only when no  *)
(* other is under way.  So what is shown is the room as it was when some    *)
(* round began, never a mixture of two rounds.                              *)
(*                                                                         *)
(* With MayFail, a round may keep old streams, lack new ones, or be given   *)
(* up; it still never carries a stream that neither it nor an earlier round *)
(* found in the room.                                                       *)
(***************************************************************************)
CONSTANTS
    Streams,    \* the streams a room may have
    MayFail     \* may the steps of a round fail?

VARIABLES
    room,       \* streams of the room
    phase,      \* "open", "draft", "built" or "offered"
    draft,      \* what the round under way found in the room
    carried,    \* streams of the peer connection
    shown       \* streams the browser was last offered

vars == <<room, phase, draft, carried, shown>>

Init ==
    /\ room = {}
    /\ phase = "open"
    /\ draft = {}
    /\ carried = {}
    /\ shown = {}

RoomChange ==
    /\ room' \in SUBSET Streams
    /\ UNCHANGED <<phase, draft, carried, shown>>

Begin ==
    /\ phase = "open"
    /\ phase' = "draft"
    /\ draft' = room
    /\ UNCHANGED <<room, carried, shown>>

\* The room cannot be read: the round goes on with what is carried.
BeginBlind ==
    /\ MayFail
    /\ phase = "open"
    /\ phase' = "built"
    /\ UNCHANGED <<room, draft, carried, shown>>

Build ==
    /\ phase = "draft"
    /\ phase' = "built"
    /\ draft' = {}
    /\ \/ carried' = draft
       \/ MayFail /\ carried' \in SUBSET (draft \union carried)
    /\ UNCHANGED <<room, shown>>

Offer ==
    /\ phase = "built"
    /\ phase' = "offered"
    /\ UNCHANGED <<room, draft, carried, shown>>

Accept ==
    /\ phase = "offered"
    /\ phase' = "open"
    /\ shown' = carried
    /\ UNCHANGED <<room, draft, carried>>

Abandon ==
    /\ MayFail
    /\ phase \in {"built", "offered"}
    /\ phase' = "open"
    /\ UNCHANGED <<room, draft, carried, shown>>

Next ==
    \/ RoomChange \/ Begin \/ BeginBlind \/ Build
    \/ Offer \/ Accept \/ Abandon

Spec == Init /\ [][Next]_vars
=============================================================================
