------------------------------ MODULE Publisher ------------------------------
(***************************************************************************)
(* The life of the publishers of one room on one instance: the HTTP request *)
(* that admits a session, the main task webrtc_to_nats, the handlers that   *)
(* webrtc-rs calls (on_track, one track at a time; on_peer_connection_      *)
(* state_change, one state at a time and in order), and what they leave in  *)
(* Redis, in the local state and on NATS.  The handlers of one session run  *)
(* in tasks of their own and interleave at every await.                     *)
(*                                                                         *)
(* A session is one peer connection.  Two sessions may have the same full   *)
(* id: an API client chooses it.                                            *)
(***************************************************************************)
EXTENDS PeerConnection

CONSTANTS
    FullIds,
    Id,         \* the full id of each session
    Total,      \* transceivers of a session
    Faults      \* the operations that may fail

ASSUME PublisherAssumption ==
    /\ Id \in [Sessions -> FullIds]
    /\ Total \in Nat \ {0}
    /\ Faults \subseteq {"redis", "nats", "setup"}

VARIABLES
    \* shared state
    pubList,    \* Redis, room#R#pub_list
    media,      \* Redis, room#R#media: tracks by full id
    localPubs,  \* rooms[R].pubs of this instance
    \* per session
    main,       \* where the request and then the main task are
    handler,    \* where the state handler is
    isClosed,   \* its is_closed
    rtp,        \* tracks whose RTP arrived
    tracks,     \* track_count of on_track
    onTrack,    \* where on_track is
    joins,      \* PubJoin commands sent
    lefts,      \* PubLeft commands sent
    \* history
    late,       \* on_track counted a track after the state handler had closed
    revived,    \* the connection came back after the state handler had closed
    deaf,       \* the main task was not waiting when it was notified
    faulted     \* has an operation failed?

sharedVars  == <<pubList, media, localPubs>>
handlerVars == <<handler, isClosed, lefts, revived, deaf>>
trackVars   == <<rtp, tracks, onTrack, joins, late>>
vars == <<sharedVars, main, linkVars, handlerVars, trackVars, faulted>>

MainStages ==
    {"idle", "refused", "spawned", "negotiating", "answered", "waiting",
     "closing", "ended", "failed", "expired"}
HandlerStages == {"idle", "sadd", "insert", "hdel", "left", "srem", "remove"}
TrackStages   == {"idle", "hincr", "check", "join"}

TypeOK ==
    /\ pubList \subseteq FullIds
    /\ media \in [FullIds -> Nat]
    /\ localPubs \subseteq FullIds
    /\ main \in [Sessions -> MainStages]
    /\ LinkType
    /\ handler \in [Sessions -> HandlerStages]
    /\ isClosed \in [Sessions -> BOOLEAN]
    /\ rtp \in [Sessions -> 0 .. Total]
    /\ tracks \in [Sessions -> 0 .. Total]
    /\ onTrack \in [Sessions -> TrackStages]
    /\ joins \in [Sessions -> Nat]
    /\ lefts \in [Sessions -> Nat]
    /\ late \in [Sessions -> BOOLEAN]
    /\ revived \in [Sessions -> BOOLEAN]
    /\ deaf \in [Sessions -> BOOLEAN]
    /\ faulted \in BOOLEAN

Init ==
    /\ pubList = {} /\ localPubs = {}
    /\ media = [i \in FullIds |-> 0]
    /\ main = [s \in Sessions |-> "idle"]
    /\ LinkInit
    /\ handler = [s \in Sessions |-> "idle"]
    /\ onTrack = [s \in Sessions |-> "idle"]
    /\ isClosed = [s \in Sessions |-> FALSE]
    /\ late = [s \in Sessions |-> FALSE]
    /\ revived = [s \in Sessions |-> FALSE]
    /\ deaf = [s \in Sessions |-> FALSE]
    /\ rtp = [s \in Sessions |-> 0] /\ tracks = [s \in Sessions |-> 0]
    /\ joins = [s \in Sessions |-> 0] /\ lefts = [s \in Sessions |-> 0]
    /\ faulted = FALSE

GoMain(s, stage)    == main' = [main EXCEPT ![s] = stage]
GoHandler(s, stage) == handler' = [handler EXCEPT ![s] = stage]
GoTrack(s, stage)   == onTrack' = [onTrack EXCEPT ![s] = stage]

Fails(f) == f \in Faults /\ faulted' = TRUE
Works    == UNCHANGED faulted

-----------------------------------------------------------------------------
(* publish (web.rs) and webrtc_to_nats *)

\* exist_publisher: the request is refused when the full id is in the room, or
\* Redis cannot tell; otherwise the main task is spawned.
Publish(s) ==
    /\ main[s] = "idle"
    /\ \/ Works /\ GoMain(s, IF Id[s] \in pubList THEN "refused" ELSE "spawned")
       \/ Fails("redis") /\ GoMain(s, "refused")
    /\ UNCHANGED <<sharedVars, linkVars, handlerVars, trackVars>>

\* The peer connection is made and given its handlers; from
\* set_local_description on it is at work.  `?' gives it up before that, and the
\* request fails.
Negotiate(s) ==
    /\ main[s] = "spawned"
    /\ \/ Works /\ GoMain(s, "negotiating")
       \/ Fails("setup") /\ GoMain(s, "refused")
    /\ UNCHANGED <<sharedVars, linkVars, handlerVars, trackVars>>

\* answer_tx.send fails when the request is gone; ICE is at work already.
Answer(s) ==
    /\ main[s] = "negotiating"
    /\ \/ Works /\ GoMain(s, "answered")
       \/ Fails("setup") /\ GoMain(s, "failed")
    /\ UNCHANGED <<sharedVars, linkVars, handlerVars, trackVars>>

\* notify_close.notified() is polled: only from now on is a notification seen.
Wait(s) ==
    /\ main[s] = "answered"
    /\ GoMain(s, "waiting")
    /\ UNCHANGED <<sharedVars, linkVars, handlerVars, trackVars, faulted>>

\* 24 hours have passed: timeout(..).await? returns the error.
Expire(s) ==
    /\ main[s] = "waiting"
    /\ GoMain(s, "expired")
    /\ UNCHANGED <<sharedVars, linkVars, handlerVars, trackVars, faulted>>

Close(s) ==
    /\ main[s] = "closing"
    /\ GoMain(s, "ended")
    /\ LinkCloses(s)
    /\ UNCHANGED <<sharedVars, handlerVars, trackVars, faulted>>

\* The handlers' weak references are dead once the main task has returned.
Dropped(s) == main[s] \in {"ended", "failed", "expired"}

-----------------------------------------------------------------------------
(* The peer connection, the network and the browser. *)

\* The browser has the answer.
Connect(s) ==
    /\ main[s] \in {"answered", "waiting", "closing", "expired"}
    /\ LinkUp(s)
    /\ UNCHANGED <<sharedVars, main, handlerVars, trackVars, faulted>>

Disconnect(s) ==
    /\ LinkLost(s)
    /\ UNCHANGED <<sharedVars, main, handlerVars, trackVars, faulted>>

GiveUp(s) ==
    /\ main[s] \notin {"idle", "refused", "spawned"}
    /\ LinkFails(s)
    /\ UNCHANGED <<sharedVars, main, handlerVars, trackVars, faulted>>

\* STOP over the data channel.
Stop(s) ==
    /\ link[s] = "connected"
    /\ ~Dropped(s)
    /\ LinkCloses(s)
    /\ UNCHANGED <<sharedVars, main, handlerVars, trackVars, faulted>>

Arrive(s) ==
    /\ link[s] = "connected"
    /\ rtp[s] < Total
    /\ rtp' = [rtp EXCEPT ![s] = @ + 1]
    /\ UNCHANGED <<sharedVars, main, linkVars, handlerVars, tracks, onTrack, joins,
                   late, faulted>>

-----------------------------------------------------------------------------
(* on_track *)

OnTrack(s) ==
    /\ onTrack[s] = "idle"
    /\ tracks[s] < rtp[s]
    /\ tracks' = [tracks EXCEPT ![s] = @ + 1]
    /\ GoTrack(s, "hincr")
    /\ UNCHANGED <<sharedVars, main, linkVars, handlerVars, rtp, joins, late, faulted>>

Counted(s) ==
    /\ media' = [media EXCEPT ![Id[s]] = @ + 1]
    /\ late' = [late EXCEPT ![s] = @ \/ isClosed[s]]

\* add_user_media_count, whose error (of either Redis call) is only logged.
CountMedia(s) ==
    /\ onTrack[s] = "hincr"
    /\ \/ Works /\ Counted(s)
       \/ Fails("redis") /\ (Counted(s) \/ UNCHANGED <<media, late>>)
    /\ GoTrack(s, "check")
    /\ UNCHANGED <<pubList, localPubs, main, linkVars, handlerVars, rtp, tracks, joins>>

\* Fault seeded in Check: one track too few.
Check_Early(s) ==
    /\ onTrack[s] = "check"
    /\ GoTrack(s, IF ~Dropped(s) /\ tracks[s] + 1 >= Total THEN "join" ELSE "idle")
    /\ UNCHANGED <<sharedVars, main, linkVars, handlerVars, rtp, tracks, joins, late, faulted>>

Check(s) ==
    /\ onTrack[s] = "check"
    /\ GoTrack(s, IF ~Dropped(s) /\ tracks[s] >= Total THEN "join" ELSE "idle")
    /\ UNCHANGED <<sharedVars, main, linkVars, handlerVars, rtp, tracks, joins, late, faulted>>

\* notify_subs_for_join
SendJoin(s) ==
    /\ onTrack[s] = "join"
    /\ \/ Works /\ joins' = [joins EXCEPT ![s] = @ + 1]
       \/ Fails("nats") /\ UNCHANGED joins
    /\ GoTrack(s, "idle")
    /\ UNCHANGED <<sharedVars, main, linkVars, handlerVars, rtp, tracks, late>>

-----------------------------------------------------------------------------
(* on_peer_connection_state_change *)

\* Fault seeded in Notify: nobody is woken.
Notify_Nobody(s) == UNCHANGED <<main, deaf>>

\* notify_waiters: it wakes the main task only if that is waiting already.
Notify(s) ==
    /\ main' = IF main[s] = "waiting" THEN [main EXCEPT ![s] = "closing"] ELSE main
    /\ deaf' = [deaf EXCEPT ![s] = @ \/ main[s] \in {"negotiating", "answered"}]

HandleConnected(s) ==
    /\ handler[s] = "idle"
    /\ Called(s, "connected")
    /\ GoHandler(s, "sadd")
    /\ UNCHANGED <<sharedVars, main, isClosed, lefts, revived, deaf, trackVars, faulted>>

\* Fault seeded in HandleClosed: the hack against a second PubLeft is missing.
HandleClosed_Again(s) ==
    /\ handler[s] = "idle"
    /\ \E state \in {"disconnected", "failed", "closed"} : Called(s, state)
    /\ isClosed' = [isClosed EXCEPT ![s] = TRUE]
    /\ Notify(s)
    /\ GoHandler(s, "hdel")
    /\ UNCHANGED <<sharedVars, lefts, revived, trackVars, faulted>>

HandleClosed(s) ==
    /\ handler[s] = "idle"
    /\ \E state \in {"disconnected", "failed", "closed"} : Called(s, state)
    /\ \/ isClosed[s] /\ UNCHANGED <<handler, isClosed, main, deaf>>
       \/ /\ ~isClosed[s]
          /\ isClosed' = [isClosed EXCEPT ![s] = TRUE]
          /\ Notify(s)
          /\ GoHandler(s, "hdel")
    /\ UNCHANGED <<sharedVars, lefts, revived, trackVars, faulted>>

(***************************************************************************)
(* add_publisher and remove_publisher first change the set in Redis, then   *)
(* its time to live, and then the local state; an error of either Redis     *)
(* call leaves the local state as it is.                                    *)
(***************************************************************************)
RedisThenLocal(s, set, stage) ==
    \/ Works /\ pubList' = set /\ GoHandler(s, stage)
    \/ Fails("redis") /\ pubList' \in {pubList, set} /\ GoHandler(s, "idle")

AddToRedis(s) ==
    /\ handler[s] = "sadd"
    /\ RedisThenLocal(s, pubList \union {Id[s]}, "insert")
    /\ revived' = [revived EXCEPT ![s] = @ \/ isClosed[s]]
    /\ UNCHANGED <<media, localPubs, main, linkVars, isClosed, lefts, deaf, trackVars>>

AddLocally(s) ==
    /\ handler[s] = "insert"
    /\ localPubs' = localPubs \union {Id[s]}
    /\ GoHandler(s, "idle")
    /\ UNCHANGED <<pubList, media, main, linkVars, isClosed, lefts, revived, deaf, trackVars, faulted>>

\* Fault seeded in RemoveMedia: the count is lowered by one track instead of removed.
RemoveMedia_OneTrack(s) ==
    /\ handler[s] = "hdel"
    /\ Works /\ media' = [media EXCEPT ![Id[s]] = @ - 1]
    /\ GoHandler(s, "left")
    /\ UNCHANGED <<pubList, localPubs, main, linkVars, isClosed, lefts, revived, deaf, trackVars>>

\* notify_subs_for_leave: remove_user_media_count, one field of the hash after the
\* other, whose error is only logged,
RemoveMedia(s) ==
    /\ handler[s] = "hdel"
    /\ \/ Works /\ media' = [media EXCEPT ![Id[s]] = 0]
       \/ /\ Fails("redis")
          /\ \E n \in 0 .. media[Id[s]] : media' = [media EXCEPT ![Id[s]] = n]
    /\ GoHandler(s, "left")
    /\ UNCHANGED <<pubList, localPubs, main, linkVars, isClosed, lefts, revived, deaf, trackVars>>

\* Fault seeded in SendLeft: remove_publisher is not called after the command.
SendLeft_Last(s) ==
    /\ handler[s] = "left"
    /\ Works /\ lefts' = [lefts EXCEPT ![s] = @ + 1]
    /\ GoHandler(s, "idle")
    /\ UNCHANGED <<sharedVars, main, linkVars, isClosed, revived, deaf, trackVars>>

\* and the command, whose error is only logged too.
SendLeft(s) ==
    /\ handler[s] = "left"
    /\ \/ Works /\ lefts' = [lefts EXCEPT ![s] = @ + 1]
       \/ Fails("nats") /\ UNCHANGED lefts
    /\ GoHandler(s, "srem")
    /\ UNCHANGED <<sharedVars, main, linkVars, isClosed, revived, deaf, trackVars>>

\* Fault seeded in RemoveFromRedis: every publisher of the room is removed (DEL for SREM).
RemoveFromRedis_Room(s) ==
    /\ handler[s] = "srem"
    /\ RedisThenLocal(s, {}, "remove")
    /\ UNCHANGED <<media, localPubs, main, linkVars, isClosed, lefts, revived, deaf, trackVars>>

\* Fault seeded in RemoveFromRedis: the local state is forgotten.
RemoveFromRedis_Only(s) ==
    /\ handler[s] = "srem"
    /\ RedisThenLocal(s, pubList \ {Id[s]}, "idle")
    /\ UNCHANGED <<media, localPubs, main, linkVars, isClosed, lefts, revived, deaf, trackVars>>

RemoveFromRedis(s) ==
    /\ handler[s] = "srem"
    /\ RedisThenLocal(s, pubList \ {Id[s]}, "remove")
    /\ UNCHANGED <<media, localPubs, main, linkVars, isClosed, lefts, revived, deaf, trackVars>>

RemoveLocally(s) ==
    /\ handler[s] = "remove"
    /\ localPubs' = localPubs \ {Id[s]}
    /\ GoHandler(s, "idle")
    /\ UNCHANGED <<pubList, media, main, linkVars, isClosed, lefts, revived, deaf, trackVars, faulted>>

-----------------------------------------------------------------------------
MainTask(s) == Publish(s) \/ Negotiate(s) \/ Answer(s) \/ Wait(s) \/ Expire(s) \/ Close(s)

Network(s) == Connect(s) \/ Disconnect(s) \/ GiveUp(s) \/ Stop(s) \/ Arrive(s)

TrackTask(s) == OnTrack(s) \/ CountMedia(s) \/ Check(s) \/ SendJoin(s)

StateTask(s) ==
    \/ HandleConnected(s) \/ AddToRedis(s) \/ AddLocally(s)
    \/ HandleClosed(s) \/ RemoveMedia(s) \/ SendLeft(s)
    \/ RemoveFromRedis(s) \/ RemoveLocally(s)

Next == \E s \in Sessions : MainTask(s) \/ Network(s) \/ TrackTask(s) \/ StateTask(s)

(***************************************************************************)
(* tokio runs every task that can go on.  Requests, the network and the     *)
(* browser need not do anything; a day need not pass.                       *)
(***************************************************************************)
Fairness ==
    \A s \in Sessions :
        /\ WF_vars(Negotiate(s) \/ Answer(s) \/ Wait(s) \/ Close(s))
        /\ WF_vars(TrackTask(s))
        /\ WF_vars(StateTask(s))

Spec     == Init /\ [][Next]_vars
FairSpec == Spec /\ Fairness

-----------------------------------------------------------------------------
(* Properties *)

\* No other session of the room has this one's full id.
Alone(s) == \A r \in Sessions \ {s} : Id[r] # Id[s]

\* A session sends one PubLeft at the most, whatever sequence of states its
\* connection goes through ("a quick hack to avoid sending duplicate PUB_LEFT").
LeftOnce == \A s \in Sessions : lefts[s] <= 1

(***************************************************************************)
(* PubJoin says that Redis has all the session's tracks: subscribers read   *)
(* the counts when they get it and not again.  Only a session that was      *)
(* closed meanwhile, or an operation that failed, makes it say less.        *)
(***************************************************************************)
JoinIsComplete ==
    [][\A s \in Sessions :
          Alone(s) /\ joins'[s] > joins[s] =>
              media[Id[s]] = Total \/ isClosed[s] \/ faulted]_vars

\* The set of Redis, which other instances read, and the local one, which
\* preStop waits on, agree on a publisher whenever its state handler is idle.
RedisMatchesLocal ==
    \A s \in Sessions :
        Alone(s) /\ handler[s] = "idle" /\ ~faulted =>
            (Id[s] \in pubList <=> Id[s] \in localPubs)

\* A publisher whose connection is up, and whose handler has caught up, is in the
\* room, whatever other publishers come and go.
ListedWhileUp ==
    \A s \in Sessions :
        Alone(s) /\ link[s] = "connected" /\ ~isClosed[s] /\ ~faulted
            /\ handler[s] = "idle" /\ events[s] = <<>> =>
            Id[s] \in pubList /\ Id[s] \in localPubs

\* The state handler has closed the session, and nothing is left to run.
AtRest(s) ==
    /\ isClosed[s]
    /\ handler[s] = "idle" /\ events[s] = <<>>
    /\ onTrack[s] = "idle" /\ tracks[s] = rtp[s]

NothingLeft(s) ==
    Id[s] \notin pubList /\ Id[s] \notin localPubs /\ media[Id[s]] = 0

(***************************************************************************)
(* A session that was closed leaves nothing behind ("let's cleanup          *)
(* everything for now").  The code does not keep this: on_track may count   *)
(* its track after the state handler removed the counts, and a connection   *)
(* that comes back is added again and not removed a second time.            *)
(***************************************************************************)
CleanedUp == \A s \in Sessions : AtRest(s) => NothingLeft(s)

\* These two, a failed operation, and another session with the same full id are
\* the only reasons: a session closed without them leaves nothing behind.  And only
\* a connection that was lost comes back: states that the handler is called with
\* late are no such reason.
CleanedUpUnless ==
    \A s \in Sessions :
        AtRest(s) /\ Alone(s) =>
            NothingLeft(s) \/ late[s] \/ (revived[s] /\ drops[s] > 0) \/ faulted

\* No two publishers with the same full id are in a room ("check if there is
\* another publisher in the room with same full id").  The code does not keep
\* this: the id is added only when the connection is up.
OneLivePublisher ==
    \A r, s \in Sessions :
        r # s /\ Id[r] = Id[s] => ~(link[r] = "connected" /\ link[s] = "connected")

\* Once the state handler has closed the session, the peer connection will be
\* closed, unless the main task was notified before it waited, the day was over
\* or the setup failed.
ClosedInTheEnd ==
    \A s \in Sessions :
        isClosed[s] ~>
            link[s] = "closed" \/ deaf[s] \/ main[s] \in {"expired", "failed"}

\* The main task has no step of its own to take: it waits, or is over.
MainRests(s) == main[s] \notin {"spawned", "negotiating", "answered", "closing"}

(***************************************************************************)
(* The same of what is, not of what will be: once a session's state handler *)
(* has begun to close it and its main task rests, the connection is closed, *)
(* whenever the connection's states and the notification came.              *)
(***************************************************************************)
RestIsClosed ==
    \A s \in Sessions :
        isClosed[s] /\ MainRests(s) =>
            link[s] = "closed" \/ deaf[s] \/ main[s] \in {"expired", "failed"}

\* "after 24 hours, we close the connection".  The code does not keep this: the
\* timeout's error makes the main task return before it calls close.
ClosedAfterADay ==
    \A s \in Sessions : main[s] = "expired" ~> link[s] = "closed"
=============================================================================
