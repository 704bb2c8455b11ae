------------------------------- MODULE Tracks -------------------------------
(***************************************************************************)
(* What a subscriber's update_transceivers_based_on_room does to the maps   *)
(* of its tracks, given the media counts that Redis holds for the room.     *)
(*                                                                         *)
(* A stream is a pair <<full user id, media kind>>; a track is a triple     *)
(* <<full user id, media kind, index>>, the key (pub_user, track_id) of     *)
(* rtp_tracks, rtp_senders and rtp_forward_tasks.  A media count of 0 is a  *)
(* field the Redis hash does not have.                                      *)
(***************************************************************************)
EXTENDS Integers

CONSTANTS
    Users,      \* full ids of the publishers ("ID+RANDOM")
    Kinds,      \* media kinds: "video", "audio"
    Own,        \* users whose ID is the subscriber's, or its "-screen"
    MaxCount    \* bound: tracks one user publishes of one kind

ASSUME TracksAssumption ==
    /\ Own \subseteq Users
    /\ MaxCount \in Nat \ {0}

Stream == Users \X Kinds
Media  == [Stream -> 0 .. MaxCount]
Track  == (Users \ Own) \X Kinds \X (0 .. MaxCount - 1)

StreamOf(t)   == <<t[1], t[2]>>
StreamsOf(ts) == {StreamOf(t) : t \in ts}

\* The streams of the room that the subscriber is to be sent.
Wanted(media) == {s \in Stream : s[1] \notin Own /\ media[s] > 0}

\* The tracks that a connection carries serve user u: all that u publishes are
\* there, and none of a kind that u does not publish.  (When u publishes fewer
\* tracks of a kind than before, the last ones stay: "case4: (not cover yet)".)
Serves(carried, media, u) ==
    \A t \in Track : t[1] = u =>
        /\ t[3] < media[StreamOf(t)] => t \in carried
        /\ t \in carried => media[StreamOf(t)] > 0

\* case2: senders whose (user, mime) pair is gone from the room's metadata.
Gone(senders, media) == {t \in senders : media[StreamOf(t)] = 0}

\* case1: tracks of the room that rtp_tracks does not know yet.
Missing(tracks, media) ==
    {t \in Track : t[3] < media[StreamOf(t)] /\ t \notin tracks}

ToAdd(tracks, senders, media) == Missing(tracks \ Gone(senders, media), media)

\* Fault seeded in Updated: a removed track stays in rtp_tracks.
Updated_Forgets(tracks, senders, carried, media, stuck, added, failed, wired) ==
    LET gone == Gone(senders, media)
    IN  [tracks  |-> tracks \union added \union failed,
         senders |-> (senders \ gone) \union added,
         carried |-> (carried \ (gone \ stuck)) \union added \union wired]

(***************************************************************************)
(* The two maps, and the tracks the peer connection carries, after a run    *)
(* of the function that got `media'.  pc.remove_track failed for the tracks *)
(* `stuck' (the code logs it and goes on); the tracks `added' were added;   *)
(* the function returned early at the track in `failed', if any, which is a *)
(* key of rtp_tracks by then and never becomes one of rtp_senders; `wired'  *)
(* holds it when it was the NATS subscription that failed, after add_track. *)
(***************************************************************************)
Updated(tracks, senders, carried, media, stuck, added, failed, wired) ==
    LET gone == Gone(senders, media)
    IN  [tracks  |-> (tracks \ gone) \union added \union failed,
         senders |-> (senders \ gone) \union added,
         carried |-> (carried \ (gone \ stuck)) \union added \union wired]

\* Nothing fails.
UpdateDone(tracks, senders, carried, media) ==
    Updated(tracks, senders, carried, media,
            {}, ToAdd(tracks, senders, media), {}, {})

\* Something fails.
UpdateBroken(tracks, senders, carried, media) ==
    LET todo == ToAdd(tracks, senders, media)
    IN  {Updated(tracks, senders, carried, media, c.stuck, c.added, c.failed, c.wired) :
            c \in {d \in [stuck  : SUBSET Gone(senders, media),
                          added  : SUBSET todo,
                          failed : {{}} \union {{t} : t \in todo},
                          wired  : {{}} \union {{t} : t \in todo}] :
                     /\ d.wired \subseteq d.failed
                     /\ d.added \intersect d.failed = {}
                     /\ d.failed = {} => d.added = todo
                     /\ d.stuck # {} \/ d.failed # {}}}
=============================================================================
