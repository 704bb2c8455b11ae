------------------------------- MODULE Streams -------------------------------
(***************************************************************************)
(* The RTP of a room: the tasks that push the tracks of a publisher to NATS, *)
(* each on a subject with a number of its own, and the subjects a subscriber *)
(* pulls.  Nothing tells a subscriber the numbers: it counts from 0 to the    *)
(* count in Redis, and the publisher numbers its tracks as they come.        *)
(***************************************************************************)
EXTENDS Sfu

VARIABLES
    pushing,    \* of each session, the numbers whose RTP is pushed to NATS
    silent      \* the numbers whose task has ended

rtpVars    == <<pushing, silent>>
streamVars == <<sfuVars, rtpVars>>

StreamsTypeOK ==
    /\ SfuTypeOK
    /\ pushing \in [Sessions -> SUBSET (0 .. Total - 1)]
    /\ silent \in [Sessions -> SUBSET (0 .. Total - 1)]

StreamsInit ==
    /\ SfuInit
    /\ pushing = [s \in Sessions |-> {}]
    /\ silent = [s \in Sessions |-> {}]

\* Fault seeded in Number: the track is numbered after it was counted.
Number_After(s) == tracks[s]

\* video_count and audio_count, before the track was added.
Number(s) == tracks[s] - 1

\* on_track comes to spawn_rtp_to_nats: it returned before if the connection is gone.
Spawns(s) ==
    /\ onTrack[s] \in {"check", "join"} /\ onTrack'[s] = "idle"
    /\ onTrack[s] = "check" => ~Dropped(s)

Handlers ==
    /\ SfuNext
    /\ pushing' = [s \in Sessions |->
                     pushing[s] \union (IF Spawns(s) THEN {Number(s)} ELSE {})]
    /\ UNCHANGED silent

\* Ten seconds without RTP, an error of the track, or of NATS: nobody starts it again.
Silence(s) ==
    /\ \E n \in pushing[s] :
          /\ pushing' = [pushing EXCEPT ![s] = @ \ {n}]
          /\ silent' = [silent EXCEPT ![s] = @ \union {n}]
    /\ UNCHANGED sfuVars

StreamsNext == Handlers \/ \E s \in Sessions : Silence(s)

StreamsSpec == StreamsInit /\ [][StreamsNext]_streamVars

StreamsFairSpec == StreamsSpec /\ Fairness

-----------------------------------------------------------------------------
(* Properties *)

(***************************************************************************)
(* A subscriber that has no look to come pulls the subjects on which the      *)
(* tracks of a settled publisher are, or were, pushed, each of them and no    *)
(* other: the numbers it makes up from the count in Redis are those of        *)
(* on_track.  The exceptions: a command that did not go out, a failing call   *)
(* (a track that Redis did not count is pushed all the same, and never        *)
(* pulled), and a session whose main task is over by its timeout (its tracks  *)
(* are counted all the same, and never pushed).                               *)
(***************************************************************************)
StreamsMeetUnless ==
    \A s \in Sessions :
        Alone(s) /\ Settled(s) /\ ~isClosed[s] /\ ~due =>
            \/ pushing[s] \union silent[s] = 0 .. seen[Id[s]] - 1
            \/ missed[s] \/ faulted \/ Dropped(s)
=============================================================================
