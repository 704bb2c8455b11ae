---------------------------- MODULE Renegotiation ----------------------------
(***************************************************************************)
(* Renegotiation with one subscriber over its "control" data channel, while *)
(* its peer connection is open.  Two tasks of the server take part:         *)
(*   "loop"     the task of on_data_channel_sender, which takes the room's  *)
(*              commands from a bounded channel;                            *)
(*   "handler"  the SDP_ANSWER branch of on_data_channel_msg (webrtc-rs     *)
(*              calls on_message for one message at a time).                *)
(* They share the flags is_doing_renegotiation and                          *)
(* need_another_renegotiation, each behind a tokio Mutex of its own.  The   *)
(* browser, the publishers (Redis and NATS) are the environment.            *)
(***************************************************************************)
EXTENDS Tracks, Sequences

CONSTANTS
    Muted,          \* users whose ID is the subscriber's: their commands are skipped
    ChanCap,        \* capacity of the subscriber's command channel (10 in the code)
    MaxSessions,    \* bound: sessions of one publisher
    Faults          \* the operations that may fail

ASSUME RenegotiationAssumption ==
    /\ Muted \subseteq Own
    /\ ChanCap \in Nat \ {0}
    /\ MaxSessions \in Nat
    /\ Faults \subseteq {"redis", "transceiver", "offer", "notice", "answer", "browser"}

VARIABLES
    \* the publishers, and what Redis and NATS hold of them
    media,          \* room#R#media: tracks by stream
    pubs,           \* stage of each publisher
    sessions,       \* sessions each publisher has begun
    inflight,       \* commands sent and not yet delivered, by publisher
    \* the subscriber on the server
    chan,           \* commands in its notify channel
    tracks,         \* keys of rtp_tracks
    senders,        \* keys of rtp_senders (and of rtp_forward_tasks)
    carried,        \* tracks the peer connection has a sender for
    doing,          \* *is_doing_renegotiation
    need,           \* *need_another_renegotiation
    doingLock,      \* who holds the mutex of is_doing_renegotiation
    needLock,       \* who holds the mutex of need_another_renegotiation
    pc,             \* where each task is
    snap,           \* media each task got from Redis last
    sendErr,        \* the loop's `result' is an error
    \* the data channel and the browser
    toClient,       \* SDP_OFFERs on their way, each the tracks it carries
    toServer,       \* number of SDP_ANSWERs on their way
    shown,          \* tracks of the browser's remote description
    faulted         \* has an operation failed?

pubVars  == <<media, pubs, sessions>>
cmdVars  == <<inflight, chan>>
mapVars  == <<tracks, senders, carried>>
flagVars == <<doing, need>>
lockVars == <<doingLock, needLock>>
dcVars   == <<toClient, toServer, shown>>
vars == <<pubVars, cmdVars, mapVars, flagVars, lockVars, pc, snap, sendErr,
          dcVars, faulted>>

Tasks == {"loop", "handler"}
Free  == "free"

LoopStages ==
    {"start", "fetch", "apply", "offer", "select", "notice", "lock_doing",
     "lock_need", "left"}
HandlerStages == {"idle", "lock_need", "fetch", "apply", "offer", "lock_doing"}

TypeOK ==
    /\ media \in Media
    /\ pubs \in [Users -> {"out", "joining", "live", "leaving"}]
    /\ sessions \in [Users -> Nat]
    /\ inflight \in [Users -> Nat]
    /\ chan \in Seq(Users)
    /\ tracks \subseteq Track
    /\ senders \subseteq Track
    /\ carried \subseteq Track
    /\ doing \in BOOLEAN
    /\ need \in BOOLEAN
    /\ doingLock \in Tasks \union {Free}
    /\ needLock \in Tasks \union {Free}
    /\ pc \in [Tasks -> LoopStages \union HandlerStages]
    /\ pc["loop"] \in LoopStages
    /\ pc["handler"] \in HandlerStages
    /\ snap \in [Tasks -> Media]
    /\ sendErr \in BOOLEAN
    /\ toClient \in Seq(SUBSET Track)
    /\ toServer \in Nat
    /\ shown \subseteq Track
    /\ faulted \in BOOLEAN

NoMedia == [s \in Stream |-> 0]

Init ==
    /\ media = NoMedia
    /\ pubs = [u \in Users |-> "out"]
    /\ sessions = [u \in Users |-> 0]
    /\ inflight = [u \in Users |-> 0]
    /\ chan = <<>>
    /\ tracks = {} /\ senders = {} /\ carried = {}
    /\ doing = FALSE /\ need = FALSE
    /\ doingLock = Free /\ needLock = Free
    /\ pc = [t \in Tasks |-> IF t = "loop" THEN "start" ELSE "idle"]
    /\ snap = [t \in Tasks |-> NoMedia]
    /\ sendErr = FALSE
    /\ toClient = <<>> /\ toServer = 0 /\ shown = {}
    /\ faulted = FALSE

Goto(t, stage) == pc' = [pc EXCEPT ![t] = stage]

\* Operation f fails, here.
Fails(f) == f \in Faults /\ faulted' = TRUE

-----------------------------------------------------------------------------
(* The publishers and the room's commands. *)

\* on_track: one more track in the room's media hash; a rejoin may begin it.
AddTrack(u, k) ==
    /\ \/ pubs[u] = "out" /\ sessions[u] < MaxSessions
       \/ pubs[u] = "joining"
    /\ media[<<u, k>>] < MaxCount
    /\ media' = [media EXCEPT ![<<u, k>>] = @ + 1]
    /\ pubs' = [pubs EXCEPT ![u] = "joining"]
    /\ sessions' = [sessions EXCEPT ![u] = IF pubs[u] = "out" THEN @ + 1 ELSE @]
    /\ UNCHANGED <<cmdVars, mapVars, flagVars, lockVars, pc, snap, sendErr, dcVars, faulted>>

Announce(u, from, to) ==
    /\ pubs[u] = from
    /\ pubs' = [pubs EXCEPT ![u] = to]
    /\ inflight' = [inflight EXCEPT ![u] = @ + 1]
    /\ UNCHANGED <<media, sessions, chan, mapVars, flagVars, lockVars, pc, snap,
                   sendErr, dcVars, faulted>>

\* notify_subs_for_join
AnnounceJoin(u) == Announce(u, "joining", "live")

\* notify_subs_for_leave: the media go first, one kind at a time, then the
\* command is sent.
RemoveMedia(u, k) ==
    /\ \/ pubs[u] \in {"joining", "live"}
       \/ pubs[u] = "leaving" /\ media[<<u, k>>] > 0
    /\ pubs' = [pubs EXCEPT ![u] = "leaving"]
    /\ media' = [media EXCEPT ![<<u, k>>] = 0]
    /\ UNCHANGED <<sessions, cmdVars, mapVars, flagVars, lockVars, pc, snap,
                   sendErr, dcVars, faulted>>

AnnounceLeave(u) ==
    /\ \A k \in Kinds : media[<<u, k>>] = 0
    /\ Announce(u, "leaving", "out")

(***************************************************************************)
(* forward_to_all_subs, run by a task of its own for each NATS message: any *)
(* command on its way may be next.  It waits while the channel is full; the *)
(* loop's exit drops the receiver, and sending then fails, without a trace. *)
(***************************************************************************)
Deliver(u) ==
    /\ inflight[u] > 0
    /\ \/ pc["loop"] # "left" /\ Len(chan) < ChanCap /\ chan' = Append(chan, u)
       \/ pc["loop"] = "left" /\ UNCHANGED chan
    /\ inflight' = [inflight EXCEPT ![u] = @ - 1]
    /\ UNCHANGED <<pubVars, mapVars, flagVars, lockVars, pc, snap, sendErr, dcVars, faulted>>

-----------------------------------------------------------------------------
(* update_transceivers_based_on_room and send_data_sdp_offer, as called by   *)
(* either task (t).  `catch' logs an error and the caller goes on.           *)

\* Once the update returned, the handler resets the flag it was called for.
AfterUpdate(t) == need' = IF t = "handler" THEN FALSE ELSE need

Fetch(t) ==
    /\ pc[t] = "fetch"
    /\ snap' = [snap EXCEPT ![t] = media]
    /\ Goto(t, "apply")
    /\ UNCHANGED <<pubVars, cmdVars, mapVars, flagVars, lockVars, sendErr, dcVars, faulted>>

FetchFails(t) ==
    /\ pc[t] = "fetch"
    /\ Fails("redis")
    /\ Goto(t, "offer")
    /\ AfterUpdate(t)
    /\ UNCHANGED <<pubVars, cmdVars, mapVars, doing, lockVars, snap, sendErr, dcVars>>

Install(maps) ==
    /\ tracks' = maps.tracks
    /\ senders' = maps.senders
    /\ carried' = maps.carried

Apply(t) ==
    /\ pc[t] = "apply"
    /\ Install(UpdateDone(tracks, senders, carried, snap[t]))
    /\ Goto(t, "offer")
    /\ AfterUpdate(t)
    /\ UNCHANGED <<pubVars, cmdVars, doing, lockVars, snap, sendErr, dcVars, faulted>>

ApplyFails(t) ==
    /\ pc[t] = "apply"
    /\ Fails("transceiver")
    /\ \E maps \in UpdateBroken(tracks, senders, carried, snap[t]) : Install(maps)
    /\ Goto(t, "offer")
    /\ AfterUpdate(t)
    /\ UNCHANGED <<pubVars, cmdVars, doing, lockVars, snap, sendErr, dcVars>>

\* The end of the block that made the offer: its guard is dropped.
LeaveBlock(t) ==
    \/ /\ t = "loop"
       /\ Goto(t, IF sendErr THEN "left" ELSE "select")
       /\ chan' = IF sendErr THEN <<>> ELSE chan
       /\ doingLock' = Free
       /\ UNCHANGED needLock
    \/ /\ t = "handler"
       /\ Goto(t, "idle")
       /\ needLock' = Free
       /\ UNCHANGED <<chan, doingLock>>

SendOffer(t) ==
    /\ pc[t] = "offer"
    /\ toClient' = Append(toClient, carried)
    /\ LeaveBlock(t)
    /\ UNCHANGED <<pubVars, inflight, mapVars, flagVars, snap, sendErr, toServer, shown, faulted>>

\* create_offer, set_local_description or send_text failed.
SendOfferFails(t) ==
    /\ pc[t] = "offer"
    /\ Fails("offer")
    /\ LeaveBlock(t)
    /\ UNCHANGED <<pubVars, inflight, mapVars, flagVars, snap, sendErr, dcVars>>

-----------------------------------------------------------------------------
(* on_data_channel_sender *)

\* Fault seeded in Open: the first round is not marked as one.
Open_Unmarked ==
    /\ pc["loop"] = "start"
    /\ doingLock = Free
    /\ doingLock' = "loop"
    /\ Goto("loop", "fetch")
    /\ UNCHANGED <<pubVars, cmdVars, mapVars, flagVars, needLock, snap, sendErr, dcVars, faulted>>

\* The channel is open: renegotiate at once.
Open ==
    /\ pc["loop"] = "start"
    /\ doingLock = Free
    /\ doingLock' = "loop"
    /\ doing' = TRUE
    /\ Goto("loop", "fetch")
    /\ UNCHANGED <<pubVars, cmdVars, mapVars, need, needLock, snap, sendErr, dcVars, faulted>>

\* notify_message.recv(), and `continue' for the subscriber's own commands.
Recv ==
    /\ pc["loop"] = "select"
    /\ chan # <<>>
    /\ chan' = Tail(chan)
    /\ Goto("loop", IF Head(chan) \in Muted THEN "select" ELSE "notice")
    /\ UNCHANGED <<pubVars, inflight, mapVars, flagVars, lockVars, snap, sendErr, dcVars, faulted>>

\* send_data: PUB_JOIN or PUB_LEFT for the application.
SendNotice ==
    /\ pc["loop"] = "notice"
    /\ \/ UNCHANGED <<sendErr, faulted>>
       \/ Fails("notice") /\ sendErr' = TRUE
    /\ Goto("loop", "lock_doing")
    /\ UNCHANGED <<pubVars, cmdVars, mapVars, flagVars, lockVars, snap, dcVars>>

\* Fault seeded in LockDoing: the flag is not tested.
LockDoing_Untested ==
    /\ pc["loop"] = "lock_doing"
    /\ doingLock = Free
    /\ doingLock' = "loop"
    /\ doing' = TRUE
    /\ Goto("loop", "fetch")
    /\ UNCHANGED <<pubVars, cmdVars, mapVars, need, needLock, snap, sendErr, dcVars, faulted>>

\* Fault seeded in LockDoing: the guard is dropped before the other mutex is
\* asked for, which would rule out the cycle of waits.
LockDoing_Early ==
    /\ pc["loop"] = "lock_doing"
    /\ doingLock = Free
    /\ doingLock' = IF doing THEN Free ELSE "loop"
    /\ doing' = TRUE
    /\ Goto("loop", IF doing THEN "lock_need" ELSE "fetch")
    /\ UNCHANGED <<pubVars, cmdVars, mapVars, need, needLock, snap, sendErr, dcVars, faulted>>

LockDoing ==
    /\ pc["loop"] = "lock_doing"
    /\ doingLock = Free
    /\ doingLock' = "loop"
    /\ doing' = TRUE
    /\ Goto("loop", IF doing THEN "lock_need" ELSE "fetch")
    /\ UNCHANGED <<pubVars, cmdVars, mapVars, need, needLock, snap, sendErr, dcVars, faulted>>

\* The round in progress is to be followed by another; both guards are dropped.
MarkNeed ==
    /\ pc["loop"] = "lock_need"
    /\ needLock = Free
    /\ need' = TRUE
    /\ LeaveBlock("loop")
    /\ UNCHANGED <<pubVars, inflight, mapVars, doing, snap, sendErr, dcVars, faulted>>

-----------------------------------------------------------------------------
(* on_data_channel_msg, SDP_ANSWER *)

SetRemote ==
    /\ pc["handler"] = "idle"
    /\ toServer > 0
    /\ toServer' = toServer - 1
    /\ \/ Goto("handler", "lock_need") /\ UNCHANGED faulted
       \/ Fails("answer") /\ UNCHANGED pc     \* the handler returns
    /\ UNCHANGED <<pubVars, cmdVars, mapVars, flagVars, lockVars, snap, sendErr,
                   toClient, shown>>

\* Fault seeded in LockNeed: the next round does not update the transceivers.
LockNeed_Stale ==
    /\ pc["handler"] = "lock_need"
    /\ needLock = Free
    /\ needLock' = "handler"
    /\ Goto("handler", IF need THEN "offer" ELSE "lock_doing")
    /\ need' = FALSE
    /\ UNCHANGED <<pubVars, cmdVars, mapVars, doing, doingLock, snap, sendErr, dcVars, faulted>>

\* Fault seeded in LockNeed: what was put on hold is not looked at.
LockNeed_Deaf ==
    /\ pc["handler"] = "lock_need"
    /\ needLock = Free
    /\ needLock' = "handler"
    /\ Goto("handler", "lock_doing")
    /\ UNCHANGED <<pubVars, cmdVars, mapVars, flagVars, doingLock, snap, sendErr, dcVars, faulted>>

LockNeed ==
    /\ pc["handler"] = "lock_need"
    /\ needLock = Free
    /\ needLock' = "handler"
    /\ Goto("handler", IF need THEN "fetch" ELSE "lock_doing")
    /\ UNCHANGED <<pubVars, cmdVars, mapVars, flagVars, doingLock, snap, sendErr, dcVars, faulted>>

\* Nothing on hold: the round is over, and both guards are dropped.
MarkDone ==
    /\ pc["handler"] = "lock_doing"
    /\ doingLock = Free
    /\ doing' = FALSE
    /\ needLock' = Free
    /\ Goto("handler", "idle")
    /\ UNCHANGED <<pubVars, cmdVars, mapVars, need, doingLock, snap, sendErr, dcVars, faulted>>

-----------------------------------------------------------------------------
(* The browser: dc.onmessage of weever-streaming.js. *)

Answer ==
    /\ toClient # <<>>
    /\ shown' = Head(toClient)
    /\ toClient' = Tail(toClient)
    /\ toServer' = toServer + 1
    /\ UNCHANGED <<pubVars, cmdVars, mapVars, flagVars, lockVars, pc, snap, sendErr, faulted>>

\* createAnswer, or what follows it, is rejected: no answer is sent.
AnswerFails ==
    /\ toClient # <<>>
    /\ Fails("browser")
    /\ toClient' = Tail(toClient)
    /\ UNCHANGED <<pubVars, cmdVars, mapVars, flagVars, lockVars, pc, snap, sendErr,
                   toServer, shown>>

-----------------------------------------------------------------------------
Publishers ==
    \E u \in Users :
        \/ \E k \in Kinds : AddTrack(u, k) \/ RemoveMedia(u, k)
        \/ AnnounceJoin(u)
        \/ AnnounceLeave(u)

Commands == \E u \in Users : Deliver(u)

Update(t) ==
    \/ Fetch(t) \/ FetchFails(t) \/ Apply(t) \/ ApplyFails(t)
    \/ SendOffer(t) \/ SendOfferFails(t)

Loop    == Open \/ Recv \/ SendNotice \/ LockDoing \/ MarkNeed \/ Update("loop")
Handler == SetRemote \/ LockNeed \/ MarkDone \/ Update("handler")
Browser == Answer \/ AnswerFails

Next == Publishers \/ Commands \/ Loop \/ Handler \/ Browser

(***************************************************************************)
(* tokio runs every task that can go on, and grants a mutex in the order    *)
(* in which it was asked for; NATS delivers; the browser answers.  Nothing  *)
(* is asked of the publishers: they may stop anywhere.                      *)
(***************************************************************************)
Fairness ==
    /\ WF_vars(Commands)
    /\ WF_vars(Loop)
    /\ WF_vars(Handler)
    /\ WF_vars(Browser)

Spec     == Init /\ [][Next]_vars
FairSpec == Spec /\ Fairness

-----------------------------------------------------------------------------
(* Properties *)

Updating(t) == pc[t] \in {"fetch", "apply", "offer"}

\* Is there a round that will end, or go on, with the handler?
RoundOut == toClient # <<>> \/ toServer > 0 \/ pc["handler"] # "idle"

(***************************************************************************)
(* One round at a time.  The two tasks update the transceivers and make     *)
(* offers under different mutexes, so no lock keeps them apart: it is the   *)
(* flag doing, and the alternation of offers and answers, that does.  Never *)
(* two tasks in an update, never two offers or answers under way, never an  *)
(* update while an offer is not answered.                                   *)
(* (subscriber.rs, the struct: "we will handle only one renegotiation at    *)
(* once in case there is many publisher come and go in very short interval")*)
(***************************************************************************)
OneRound ==
    /\ ~(Updating("loop") /\ Updating("handler"))
    /\ Len(toClient) + toServer <= 1
    /\ Len(toClient) + toServer = 1 =>
           pc["handler"] = "idle" /\ ~Updating("loop") /\ doing

(***************************************************************************)
(* A round that was asked for during another one is not forgotten.  The     *)
(* flag need is set only by a task that still holds the mutex of doing, so  *)
(* that the answer it counts on cannot have ended the round before.  Unless *)
(* an operation failed, while need is set, or about to be, a round is out,  *)
(* and the handler has not gone past its test of the flag except when the   *)
(* two tasks wait for each other.                                           *)
(***************************************************************************)
HeldRoundIsAwaited ==
    ~faulted =>
        /\ need => RoundOut /\ pc["handler"] # "lock_doing"
        /\ pc["loop"] = "lock_need" => RoundOut

\* A command, or a flag, that makes some later round read Redis again.
RefreshDue ==
    \/ \E u \in Users \ Muted : inflight[u] > 0
    \/ \E i \in 1 .. Len(chan) : chan[i] \notin Muted
    \/ pc["loop"] \in {"start", "fetch", "notice", "lock_doing", "lock_need"}
    \/ pc["handler"] = "fetch"
    \/ need /\ pc["handler"] # "apply"

\* The tracks the next offer will carry, as far as is known already.
Prospect ==
    LET after(t) == UpdateDone(tracks, senders, carried, snap[t]).carried
    IN  IF pc["loop"] = "apply" THEN after("loop")
        ELSE IF pc["handler"] = "apply" THEN after("handler")
        ELSE carried

(***************************************************************************)
(* No change of the room is lost.  When a publisher is settled (it has      *)
(* announced what it did) and the subscriber's connection does not serve    *)
(* its tracks, then something is left that will make the server look       *)
(* again: for every interleaving of the media's changes in Redis, the       *)
(* commands, the snapshot a round took, and the flags.                      *)
(***************************************************************************)
NoLostUpdate ==
    ~faulted =>
        \A u \in Users \ Own :
            pubs[u] \in {"out", "live"} =>
                Serves(Prospect, media, u) \/ RefreshDue

(***************************************************************************)
(* The two maps and the peer connection agree, and no sender is for the     *)
(* subscriber's own streams.  A track of rtp_tracks without a sender would  *)
(* never be added again, a transceiver without a sender never be removed.   *)
(***************************************************************************)
MapsAgree == ~faulted => tracks = senders /\ senders = carried

(***************************************************************************)
(* Why the above hold.  Each mutex is only ever held by one of the tasks,   *)
(* within its block.  While a round is out doing is set, and while doing is *)
(* set the loop begins none; the round is in one place: with the loop, on   *)
(* its way as an offer or an answer, or with the handler.  An offer under   *)
(* way is what the connection carries.  Unless an operation failed, a round *)
(* that was begun is somewhere, and the loop is there to go on.             *)
(***************************************************************************)
LockInv ==
    /\ doingLock # "handler" /\ needLock # "loop"
    /\ doingLock = "loop" <=> pc["loop"] \in {"fetch", "apply", "offer", "lock_need"}
    /\ needLock = "handler" <=>
           pc["handler"] \in {"fetch", "apply", "offer", "lock_doing"}

RoundInv ==
    /\ pc["loop"] = "start" => ~doing
    /\ Updating("loop") =>
           doing /\ toClient = <<>> /\ toServer = 0 /\ pc["handler"] = "idle"
    /\ pc["loop"] = "lock_need" => doing
    /\ toClient # <<>> =>
           doing /\ toClient = <<carried>> /\ toServer = 0 /\ pc["handler"] = "idle"
    /\ toServer > 0 => doing /\ toServer = 1 /\ pc["handler"] = "idle"
    /\ pc["handler"] # "idle" => doing

NoFaultInv ==
    ~faulted =>
        /\ doing => RoundOut \/ Updating("loop")
        /\ need => pc["loop"] # "start" /\ RoundOut /\ pc["handler"] # "lock_doing"
        /\ ~sendErr /\ pc["loop"] # "left"
        /\ tracks = senders /\ senders = carried

\* All of it together is kept by every step.
IInv == TypeOK /\ LockInv /\ RoundInv /\ NoFaultInv /\ NoLostUpdate

(***************************************************************************)
(* Renegotiation implements the rounds of OfferAnswer: an update builds     *)
(* what it found in Redis, and the browser is shown just that.              *)
(***************************************************************************)
AbsPhase ==
    IF \E t \in Tasks : pc[t] = "apply" THEN "draft"
    ELSE IF \E t \in Tasks : pc[t] = "offer" THEN "built"
    ELSE IF toClient # <<>> THEN "offered"
    ELSE "open"

AbsDraft ==
    IF pc["loop"] = "apply" THEN Wanted(snap["loop"])
    ELSE IF pc["handler"] = "apply" THEN Wanted(snap["handler"])
    ELSE {}

Rounds == INSTANCE OfferAnswer WITH
    Streams <- Stream,
    MayFail <- Faults # {},
    room    <- Wanted(media),
    phase   <- AbsPhase,
    draft   <- AbsDraft,
    carried <- StreamsOf(carried),
    shown   <- StreamsOf(shown)

ImplementsRounds == Rounds!Spec

(***************************************************************************)
(* To the room's publishers the subscriber is a Follower: of all that their *)
(* sessions, the commands, the flags and the rounds do, what counts is that *)
(* a look at the room is due once a publisher has announced a change, and   *)
(* that a look that is no longer due has found it.                          *)
(***************************************************************************)
Subscriber == INSTANCE Follower WITH
    Pubs        <- Users \ Own,
    room        <- Wanted(media),
    unannounced <- {u \in Users \ Own : pubs[u] \in {"joining", "leaving"}},
    seen        <- StreamsOf(Prospect),
    due         <- RefreshDue,
    failed      <- faulted

ImplementsFollower == Subscriber!Spec

(***************************************************************************)
(* The cycle of waits the two tasks can end up in: the loop holds the mutex *)
(* of is_doing_renegotiation and asks for that of                           *)
(* need_another_renegotiation, the handler the other way round.             *)
(***************************************************************************)
LockCycle ==
    /\ pc["loop"] = "lock_need" /\ doingLock = "loop"
    /\ pc["handler"] = "lock_doing" /\ needLock = "handler"

LooksAgain == \E t \in Tasks : pc[t] = "fetch"

\* Every command of another user is followed by a new look at the room and an
\* offer ("When a publisher join or leave, server will trigger WebRTC
\* Renegotiation for subscribers").  The code does not keep this.
EveryCommandIsServed == pc["loop"] = "notice" ~> LooksAgain

\* The round that was begun is nowhere any more: its offer was not made, or not
\* answered, or the answer not taken; nobody resets doing.
Orphaned == doing /\ ~RoundOut /\ ~Updating("loop")

(***************************************************************************)
(* Where each task waits, and when nothing more can happen unless a         *)
(* publisher acts: no command can be delivered, no mutex granted, no offer  *)
(* or answer is on its way.                                                 *)
(***************************************************************************)
LoopWaits ==
    \/ pc["loop"] \in {"start", "lock_doing"} /\ doingLock # Free
    \/ pc["loop"] = "lock_need" /\ needLock # Free
    \/ pc["loop"] = "select" /\ chan = <<>>
    \/ pc["loop"] = "left"

HandlerWaits ==
    \/ pc["handler"] = "idle" /\ toServer = 0
    \/ pc["handler"] = "lock_need" /\ needLock # Free
    \/ pc["handler"] = "lock_doing" /\ doingLock # Free

AtRest ==
    /\ LoopWaits /\ HandlerWaits /\ toClient = <<>>
    /\ \A u \in Users : inflight[u] > 0 => pc["loop"] # "left" /\ Len(chan) = ChanCap

(***************************************************************************)
(* The subscriber never comes to rest with something left to do.  When it   *)
(* does rest, the two tasks wait for each other; or an operation failed and *)
(* left a round that nobody ends, or ended the loop; or no round is marked  *)
(* as going on or as needed, and, had nothing failed, the browser shows     *)
(* every settled publisher's streams as Redis has them.                     *)
(***************************************************************************)
RestIsUpToDate ==
    AtRest =>
        \/ LockCycle
        \/ faulted /\ (Orphaned \/ pc["loop"] = "left")
        \/ /\ ~doing /\ ~need
           /\ ~faulted => \A u \in Users \ Own :
                  pubs[u] \in {"out", "live"} => Serves(shown, media, u)

(***************************************************************************)
(* Two things alone keep a command from being served: the mutual wait, and  *)
(* a round whose offer or answer failed.  Neither a failing Redis, notice   *)
(* or transceiver, nor any order of commands and answers does: held rounds  *)
(* are always taken up.                                                     *)
(***************************************************************************)
ServedUnlessStuck ==
    pc["loop"] = "notice" ~> LooksAgain \/ LockCycle \/ Orphaned

\* In the end the browser shows each settled publisher's streams as Redis has
\* them, whatever came and went meanwhile, unless the tasks wait for each other
\* or some operation failed.
ShownInTheEnd ==
    \A u \in Users \ Own :
        <>[]( pubs[u] \in {"out", "live"} =>
                Serves(shown, media, u) \/ LockCycle \/ faulted )
=============================================================================
