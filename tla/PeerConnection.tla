--------------------------- MODULE PeerConnection ---------------------------
(***************************************************************************)
(* What publishers and subscribers see of their webrtc-rs peer connections. *)
(* The state of a connection is up to the network and the browser, until it *)
(* is closed.  The state handler is called with each new state, one call at *)
(* a time and in order; it runs in a task of its own and may lag behind.    *)
(***************************************************************************)
EXTENDS Integers, Sequences

CONSTANTS
    Sessions,   \* one peer connection each
    MaxDrops    \* bound: disconnections of one connection

ASSUME PeerConnectionAssumption == MaxDrops \in Nat

VARIABLES
    link,       \* RTCPeerConnectionState
    events,     \* states the handler has yet to be called with
    drops       \* disconnections so far

linkVars == <<link, events, drops>>

LinkStates == {"new", "connected", "disconnected", "failed", "closed"}

LinkType ==
    /\ link \in [Sessions -> LinkStates]
    /\ events \in [Sessions -> Seq(LinkStates)]
    /\ drops \in [Sessions -> 0 .. MaxDrops]

LinkInit ==
    /\ link = [s \in Sessions |-> "new"]
    /\ events = [s \in Sessions |-> <<>>]
    /\ drops = [s \in Sessions |-> 0]

Goes(s, state) ==
    /\ link' = [link EXCEPT ![s] = state]
    /\ events' = [events EXCEPT ![s] = Append(@, state)]

LinkUp(s) ==
    /\ link[s] \in {"new", "disconnected"}
    /\ Goes(s, "connected")
    /\ UNCHANGED drops

LinkLost(s) ==
    /\ link[s] = "connected"
    /\ drops[s] < MaxDrops
    /\ drops' = [drops EXCEPT ![s] = @ + 1]
    /\ Goes(s, "disconnected")

\* ICE finds no way to the browser, or no way back.
LinkFails(s) ==
    /\ link[s] \in {"new", "disconnected"}
    /\ Goes(s, "failed")
    /\ UNCHANGED drops

\* pc.close(), which may be called again.
LinkCloses(s) ==
    /\ \/ link[s] = "closed" /\ UNCHANGED <<link, events>>
       \/ link[s] # "closed" /\ Goes(s, "closed")
    /\ UNCHANGED drops

\* The state handler is called with state.
Called(s, state) ==
    /\ events[s] # <<>>
    /\ Head(events[s]) = state
    /\ events' = [events EXCEPT ![s] = Tail(@)]
    /\ UNCHANGED <<link, drops>>
=============================================================================
