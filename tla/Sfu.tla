--------------------------------- MODULE Sfu ---------------------------------
(***************************************************************************)
(* The publishers of a room together with one subscriber of it: what a       *)
(* subscriber is about to show, given what the publishers' handlers leave in *)
(* Redis and which of their commands go out.                                 *)
(*                                                                         *)
(* A publisher is Publisher's, in full.  The subscriber is a Follower (which *)
(* Renegotiation implements): a command makes a look due, a look finds the   *)
(* counts as they are in Redis.  A command that NATS takes is one the        *)
(* subscriber gets (Commands says when).                                     *)
(***************************************************************************)
EXTENDS Publisher

VARIABLES
    seen,       \* the media counts that the subscriber's last look found
    due,        \* is a look to come?
    missed      \* history: a command of the session was not sent

subVars == <<seen, due, missed>>
sfuVars == <<vars, subVars>>

SfuTypeOK ==
    /\ TypeOK
    /\ seen \in [FullIds -> Nat]
    /\ due \in BOOLEAN
    /\ missed \in [Sessions -> BOOLEAN]

\* The subscriber's data channel opens: it looks at once.
SfuInit ==
    /\ Init
    /\ seen = [i \in FullIds |-> 0]
    /\ due = TRUE
    /\ missed = [s \in Sessions |-> FALSE]

\* Fault seeded in Told: the subscriber does not look when somebody leaves.
Told_Joins == joins' # joins

\* A command goes out, of either kind.
Told == joins' # joins \/ lefts' # lefts

\* s ought to send a command, and does not.
Silent(s) == (SendJoin(s) \/ SendLeft(s)) /\ UNCHANGED <<joins, lefts>>

Publishing ==
    /\ Next
    /\ due' = (due \/ Told)
    /\ missed' = [s \in Sessions |-> missed[s] \/ Silent(s)]
    /\ UNCHANGED seen

\* Another command may be waiting already.
Look ==
    /\ due
    /\ seen' = media
    /\ due' \in BOOLEAN
    /\ UNCHANGED <<vars, missed>>

SfuNext == Publishing \/ Look

SfuSpec == SfuInit /\ [][SfuNext]_sfuVars

-----------------------------------------------------------------------------
(* Properties *)

\* The session has told all it has to tell: its tracks are there, or it was closed,
\* and none of its handlers is at work.
Settled(s) ==
    /\ handler[s] = "idle" /\ onTrack[s] = "idle"
    /\ tracks[s] = Total \/ isClosed[s]

(***************************************************************************)
(* A subscriber that has no look to come has the tracks of each session that *)
(* is settled, and no track of one that is closed.  The exceptions are all:  *)
(* a command that NATS did not take, which nobody sends again; a track that  *)
(* was counted after its session was closed; and a session whose main task   *)
(* is gone before the last track came, which does not announce itself.       *)
(***************************************************************************)
FollowsUnless ==
    \A s \in Sessions :
        Alone(s) /\ Settled(s) /\ ~due =>
            \/ seen[Id[s]] = media[Id[s]]
            \/ missed[s] \/ late[s]
            \/ Dropped(s) /\ joins[s] = 0
=============================================================================
