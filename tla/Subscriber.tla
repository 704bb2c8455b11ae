----------------------------- MODULE Subscriber -----------------------------
(***************************************************************************)
(* The life of the subscribers of one room on one instance: the request     *)
(* that admits a session, the main task nats_to_webrtc, the loop over the   *)
(* "control" data channel, and the state handler; and preStop, which waits  *)
(* until the instance has no peers.  What a round of the loop does is       *)
(* Renegotiation's business: here the loop is busy or selecting.            *)
(*                                                                         *)
(* The main task and the loop each hold the subscriber (`sub'); the         *)
(* handlers hold a weak reference and do nothing once it is dead.           *)
(***************************************************************************)
EXTENDS PeerConnection

CONSTANTS
    FullIds,
    Id,         \* the full id of each session
    ChanCap,    \* capacity of a session's command channel (10 in the code)
    Faults      \* the operations that may fail

ASSUME SubscriberAssumption ==
    /\ Id \in [Sessions -> FullIds]
    /\ ChanCap \in Nat \ {0}
    /\ Faults \subseteq {"redis", "setup", "close"}

VARIABLES
    \* shared state
    subList,    \* Redis, room#R#sub_list
    registered, \* rooms[R].subs: the session whose sender is registered, by full id
    drain,      \* preStop
    \* per session
    main,       \* where the request and then the main task are
    handler,    \* where the state handler is
    loop,       \* where the loop over the data channel is
    inbox,      \* commands in the session's channel
    \* history
    deaf,       \* who missed a close notification
    ignored,    \* a state came when nobody held the subscriber
    faulted     \* has an operation failed?

sharedVars == <<subList, registered, drain>>
loopVars   == <<loop, inbox>>
historyVars == <<deaf, ignored>>
vars == <<sharedVars, linkVars, main, handler, loopVars, historyVars, faulted>>

NoSession == "none"

ASSUME NoSessionAssumption == NoSession \notin Sessions

MainStages ==
    {"idle", "refused", "spawned", "registered", "negotiating", "answered",
     "waiting", "closing", "closed", "ended", "failed", "expired"}
LoopStages == {"none", "opening", "select", "woken", "busy", "leaving", "left"}

TypeOK ==
    /\ subList \subseteq FullIds
    /\ registered \in [FullIds -> Sessions \union {NoSession}]
    /\ drain \in {"serving", "waiting", "stopped"}
    /\ LinkType
    /\ main \in [Sessions -> MainStages]
    /\ handler \in [Sessions -> {"idle", "sadd", "srem"}]
    /\ loop \in [Sessions -> LoopStages]
    /\ inbox \in [Sessions -> 0 .. ChanCap]
    /\ deaf \in [Sessions -> SUBSET {"main", "loop"}]
    /\ ignored \in [Sessions -> BOOLEAN]
    /\ faulted \in BOOLEAN

Init ==
    /\ subList = {}
    /\ registered = [i \in FullIds |-> NoSession]
    /\ drain = "serving"
    /\ LinkInit
    /\ main = [s \in Sessions |-> "idle"]
    /\ handler = [s \in Sessions |-> "idle"]
    /\ loop = [s \in Sessions |-> "none"]
    /\ inbox = [s \in Sessions |-> 0]
    /\ deaf = [s \in Sessions |-> {}]
    /\ ignored = [s \in Sessions |-> FALSE]
    /\ faulted = FALSE

GoMain(s, stage)    == main' = [main EXCEPT ![s] = stage]
GoHandler(s, stage) == handler' = [handler EXCEPT ![s] = stage]
GoLoop(s, stage)    == loop' = [loop EXCEPT ![s] = stage]

Fails(f) == f \in Faults /\ faulted' = TRUE
Works    == UNCHANGED faulted

\* Does the main task or the loop hold the subscriber?
Alive(s) ==
    \/ main[s] \in {"registered", "negotiating", "answered", "waiting", "closing", "closed"}
    \/ loop[s] \in {"opening", "select", "woken", "busy", "leaving"}

-----------------------------------------------------------------------------
(* subscribe (web.rs) and nats_to_webrtc *)

\* exist_subscriber
Subscribe(s) ==
    /\ main[s] = "idle"
    /\ \/ Works /\ GoMain(s, IF Id[s] \in subList THEN "refused" ELSE "spawned")
       \/ Fails("redis") /\ GoMain(s, "refused")
    /\ UNCHANGED <<sharedVars, linkVars, handler, loopVars, historyVars>>

\* create_pc and register_notify_message: the sender of an earlier session with
\* the same full id is replaced.
Register(s) ==
    /\ main[s] = "spawned"
    /\ \/ /\ Works /\ GoMain(s, "registered")
          /\ registered' = [registered EXCEPT ![Id[s]] = s]
       \/ Fails("setup") /\ GoMain(s, "refused") /\ UNCHANGED registered
    /\ UNCHANGED <<subList, drain, linkVars, handler, loopVars, historyVars>>

\* Up to set_local_description.  `?' gives up without deregistering.
Negotiate(s) ==
    /\ main[s] = "registered"
    /\ \/ Works /\ GoMain(s, "negotiating")
       \/ Fails("setup") /\ GoMain(s, "failed")
    /\ UNCHANGED <<sharedVars, linkVars, handler, loopVars, historyVars>>

\* answer_tx.send fails when the request is gone.
Answer(s) ==
    /\ main[s] = "negotiating"
    /\ \/ Works /\ GoMain(s, "answered")
       \/ Fails("setup") /\ GoMain(s, "failed")
    /\ UNCHANGED <<sharedVars, linkVars, handler, loopVars, historyVars>>

\* notify_close.notified(): only from now on is a notification seen.
Wait(s) ==
    /\ main[s] = "answered"
    /\ GoMain(s, "waiting")
    /\ UNCHANGED <<sharedVars, linkVars, handler, loopVars, historyVars, faulted>>

\* 24 hours have passed: timeout(..).await? returns the error.
Expire(s) ==
    /\ main[s] = "waiting"
    /\ GoMain(s, "expired")
    /\ UNCHANGED <<sharedVars, linkVars, handler, loopVars, historyVars, faulted>>

\* Fault seeded in Close: the connection is left to itself.
Close_Not(s) ==
    /\ main[s] = "closing"
    /\ Works /\ GoMain(s, "closed")
    /\ UNCHANGED <<sharedVars, linkVars, handler, loopVars, historyVars>>

Close(s) ==
    /\ main[s] = "closing"
    /\ LinkCloses(s)
    /\ \/ Works /\ GoMain(s, "closed")
       \/ Fails("close") /\ GoMain(s, "failed")
    /\ UNCHANGED <<sharedVars, handler, loopVars, historyVars>>

\* Fault seeded in Deregister: the call is missing.
Deregister_Not(s) ==
    /\ main[s] = "closed"
    /\ GoMain(s, "ended")
    /\ UNCHANGED <<sharedVars, linkVars, handler, loopVars, historyVars, faulted>>

\* deregister_notify_message removes whatever sender the full id has.
Deregister(s) ==
    /\ main[s] = "closed"
    /\ GoMain(s, "ended")
    /\ registered' = [registered EXCEPT ![Id[s]] = NoSession]
    /\ UNCHANGED <<subList, drain, linkVars, handler, loopVars, historyVars, faulted>>

-----------------------------------------------------------------------------
(* The peer connection, the network and the browser. *)

Connect(s) ==
    /\ main[s] \in {"answered", "waiting", "closing", "expired"}
    /\ LinkUp(s)
    /\ UNCHANGED <<sharedVars, main, handler, loopVars, historyVars, faulted>>

Disconnect(s) ==
    /\ LinkLost(s)
    /\ UNCHANGED <<sharedVars, main, handler, loopVars, historyVars, faulted>>

GiveUp(s) ==
    /\ main[s] \notin {"idle", "refused", "spawned", "registered"}
    /\ LinkFails(s)
    /\ UNCHANGED <<sharedVars, main, handler, loopVars, historyVars, faulted>>

\* STOP over the data channel, handled while the subscriber is alive.
Stop(s) ==
    /\ link[s] = "connected"
    /\ loop[s] # "none"
    /\ Alive(s)
    /\ LinkCloses(s)
    /\ UNCHANGED <<sharedVars, main, handler, loopVars, historyVars, faulted>>

-----------------------------------------------------------------------------
(* on_data_channel_sender *)

\* The first round, at once.
OpenChannel(s) ==
    /\ loop[s] = "none"
    /\ link[s] = "connected"
    /\ Alive(s)
    /\ GoLoop(s, "opening")
    /\ UNCHANGED <<sharedVars, linkVars, main, handler, inbox, historyVars, faulted>>

\* The round's errors are logged, and the loop begins.
Opened(s) ==
    /\ loop[s] = "opening"
    /\ GoLoop(s, "select")
    /\ UNCHANGED <<sharedVars, linkVars, main, handler, inbox, historyVars, faulted>>

\* Fault seeded in Forward: a channel without a limit.
Forward_Unbounded(s) ==
    /\ registered[Id[s]] = s
    /\ loop[s] # "left"
    /\ inbox[s] <= ChanCap
    /\ inbox' = [inbox EXCEPT ![s] = @ + 1]
    /\ UNCHANGED <<sharedVars, linkVars, main, handler, loop, historyVars, faulted>>

\* forward_to_all_subs
Forward(s) ==
    /\ registered[Id[s]] = s
    /\ loop[s] # "left"
    /\ inbox[s] < ChanCap
    /\ inbox' = [inbox EXCEPT ![s] = @ + 1]
    /\ UNCHANGED <<sharedVars, linkVars, main, handler, loop, historyVars, faulted>>

\* A command is taken; sending to a closed channel is an error, which ends the
\* loop when the round is over.  select polls its branches in any order: with a
\* command there too, the notification may go unseen.
Take(s) ==
    /\ loop[s] \in {"select", "woken"}
    /\ inbox[s] > 0
    /\ inbox' = [inbox EXCEPT ![s] = @ - 1]
    /\ GoLoop(s, IF link[s] = "closed" THEN "leaving" ELSE "busy")
    /\ deaf' = [deaf EXCEPT ![s] = @ \union (IF loop[s] = "woken" THEN {"loop"} ELSE {})]
    /\ UNCHANGED <<sharedVars, linkVars, main, handler, ignored, faulted>>

\* notify_close.notified()
Leave(s) ==
    /\ loop[s] = "woken"
    /\ GoLoop(s, "left")
    /\ UNCHANGED <<sharedVars, linkVars, main, handler, inbox, historyVars, faulted>>

Handled(s) ==
    /\ loop[s] \in {"busy", "leaving"}
    /\ GoLoop(s, IF loop[s] = "busy" THEN "select" ELSE "left")
    /\ UNCHANGED <<sharedVars, linkVars, main, handler, inbox, historyVars, faulted>>

-----------------------------------------------------------------------------
(* on_peer_connection_state_change *)

\* Fault seeded in Notify: notify_one, which wakes only the first who waits.
Notify_One(s) ==
    /\ main' = IF main[s] = "waiting" THEN [main EXCEPT ![s] = "closing"] ELSE main
    /\ loop' = IF main[s] # "waiting" /\ loop[s] = "select"
               THEN [loop EXCEPT ![s] = "woken"] ELSE loop
    /\ deaf' = [deaf EXCEPT ![s] = @
                   \union (IF main[s] \in {"negotiating", "answered"} THEN {"main"} ELSE {})
                   \union (IF loop[s] \in {"opening", "busy"} THEN {"loop"} ELSE {})]

(***************************************************************************)
(* notify_waiters wakes the main task and the loop, whichever wait for it;  *)
(* it is not kept for one that does not wait yet, or is busy.               *)
(***************************************************************************)
Notify(s) ==
    /\ main' = IF main[s] = "waiting" THEN [main EXCEPT ![s] = "closing"] ELSE main
    /\ loop' = IF loop[s] = "select" THEN [loop EXCEPT ![s] = "woken"] ELSE loop
    /\ deaf' = [deaf EXCEPT ![s] = @
                   \union (IF main[s] \in {"negotiating", "answered"} THEN {"main"} ELSE {})
                   \union (IF loop[s] \in {"opening", "busy"} THEN {"loop"} ELSE {})]

HandleConnected(s) ==
    /\ handler[s] = "idle"
    /\ Alive(s)
    /\ Called(s, "connected")
    /\ GoHandler(s, "sadd")
    /\ UNCHANGED <<sharedVars, main, loopVars, historyVars, faulted>>

\* Fault seeded in HandleDown: only the first loss is cleaned up after.
HandleDown_Once(s) ==
    /\ handler[s] = "idle"
    /\ Alive(s)
    /\ \E state \in {"disconnected", "failed", "closed"} : Called(s, state)
    /\ Notify(s)
    /\ GoHandler(s, IF main[s] = "waiting" THEN "srem" ELSE "idle")
    /\ UNCHANGED <<sharedVars, inbox, ignored, faulted>>

HandleDown(s) ==
    /\ handler[s] = "idle"
    /\ Alive(s)
    /\ \E state \in {"disconnected", "failed", "closed"} : Called(s, state)
    /\ Notify(s)
    /\ GoHandler(s, "srem")
    /\ UNCHANGED <<sharedVars, inbox, ignored, faulted>>

\* The weak reference is dead: the handler returns at once.
Ignore(s) ==
    /\ handler[s] = "idle"
    /\ ~Alive(s)
    /\ \E state \in LinkStates : Called(s, state)
    /\ ignored' = [ignored EXCEPT ![s] = TRUE]
    /\ UNCHANGED <<sharedVars, main, handler, loopVars, deaf, faulted>>

Sets(set) ==
    \/ Works /\ subList' = set
    \/ Fails("redis") /\ subList' \in {subList, set}

\* add_subscriber
AddToRedis(s) ==
    /\ handler[s] = "sadd"
    /\ Sets(subList \union {Id[s]})
    /\ GoHandler(s, "idle")
    /\ UNCHANGED <<registered, drain, linkVars, main, loopVars, historyVars>>

\* remove_subscriber
RemoveFromRedis(s) ==
    /\ handler[s] = "srem"
    /\ Sets(subList \ {Id[s]})
    /\ GoHandler(s, "idle")
    /\ UNCHANGED <<registered, drain, linkVars, main, loopVars, historyVars>>

-----------------------------------------------------------------------------
(* prestop (web.rs) *)

PreStop ==
    /\ drain = "serving"
    /\ drain' = "waiting"
    /\ UNCHANGED <<subList, registered, linkVars, main, handler, loopVars, historyVars, faulted>>

\* has_peers, every three seconds, until there are none.
NoPeers ==
    /\ drain = "waiting"
    /\ \A i \in FullIds : registered[i] = NoSession
    /\ drain' = "stopped"
    /\ UNCHANGED <<subList, registered, linkVars, main, handler, loopVars, historyVars, faulted>>

-----------------------------------------------------------------------------
Setup(s)    == Subscribe(s) \/ Register(s) \/ Negotiate(s) \/ Answer(s) \/ Wait(s)
Teardown(s) == Close(s) \/ Deregister(s)
Network(s)  == Connect(s) \/ Disconnect(s) \/ GiveUp(s) \/ Stop(s)
Loop(s)     == Opened(s) \/ Take(s) \/ Leave(s) \/ Handled(s)
StateTask(s) ==
    HandleConnected(s) \/ HandleDown(s) \/ Ignore(s) \/ AddToRedis(s) \/ RemoveFromRedis(s)

Next ==
    \/ PreStop \/ NoPeers
    \/ \E s \in Sessions :
          \/ Setup(s) \/ Teardown(s) \/ Expire(s)
          \/ Network(s) \/ StateTask(s)
          \/ OpenChannel(s) \/ Forward(s) \/ Loop(s)

(***************************************************************************)
(* tokio runs every task that can go on; a round of the loop ends (but see  *)
(* Renegotiation, LockCycle).  A day need not pass, nor commands come.      *)
(***************************************************************************)
Fairness ==
    /\ WF_vars(NoPeers)
    /\ \A s \in Sessions :
          /\ WF_vars(Setup(s) /\ main[s] # "idle")
          /\ WF_vars(Teardown(s))
          /\ WF_vars(StateTask(s))
          /\ WF_vars(Loop(s))

Spec     == Init /\ [][Next]_vars
FairSpec == Spec /\ Fairness

-----------------------------------------------------------------------------
(* Properties *)

Alone(s) == \A r \in Sessions \ {s} : Id[r] # Id[s]

(***************************************************************************)
(* The set of Redis, which refuses a second subscriber with the same full   *)
(* id, has a session exactly while its connection is up, once the state     *)
(* handler has caught up: however often the connection comes and goes.      *)
(* Unlike the publisher's, this handler does not stop at the first loss.    *)
(***************************************************************************)
RedisFollowsLink ==
    \A s \in Sessions :
        Alone(s) /\ handler[s] = "idle" /\ events[s] = <<>> /\ ~ignored[s] /\ ~faulted =>
            (Id[s] \in subList <=> link[s] = "connected")

\* A session whose connection is up is registered: commands of the room reach
\* its channel, in whatever order the connection, the loop and the main task end.
HeardWhileConnected ==
    \A s \in Sessions :
        Alone(s) /\ link[s] = "connected" => registered[Id[s]] = s

\* The session's sender will never be removed: the main task returned early.
Leaked(s) == registered[Id[s]] = s /\ main[s] \in {"failed", "expired"}

Down == {"disconnected", "failed", "closed"}

\* Nothing more happens to s by itself: its main task waits or is over, the state
\* handler has nothing to handle, and the loop has nothing to take.
AtRest(s) ==
    /\ main[s] \in {"idle", "refused", "waiting", "ended", "failed", "expired"}
    /\ handler[s] = "idle" /\ events[s] = <<>>
    /\ \/ loop[s] \in {"none", "left"}
       \/ loop[s] = "select" /\ inbox[s] = 0

(***************************************************************************)
(* A session whose connection is lost does not come to rest with anything   *)
(* left behind but in two ways: its main task returned early, or a          *)
(* notification found the main task, or the loop, not waiting for it.       *)
(* Neither the order of the states, nor the commands in the channel, nor    *)
(* other sessions of the full id leave a registration or a loop behind.     *)
(***************************************************************************)
RestIsTidy ==
    \A s \in Sessions :
        AtRest(s) /\ link[s] \in Down =>
            /\ registered[Id[s]] # s \/ Leaked(s) \/ "main" \in deaf[s]
            /\ loop[s] # "select" \/ "loop" \in deaf[s]

\* When a connection is lost, its session is deregistered in the end, unless the
\* main task returned early or was not waiting for the notification.
DeregisteredInTheEnd ==
    \A s \in Sessions :
        link[s] \in {"disconnected", "failed", "closed"} ~>
            registered[Id[s]] # s \/ Leaked(s) \/ "main" \in deaf[s]

(***************************************************************************)
(* The loop over the data channel does not outlive the main task ("use a    *)
(* timeout to make sure we have chance to leave the waiting task even it's  *)
(* closed").  The code does not keep this: there is no timeout, the         *)
(* notification is not kept for a busy loop, and recv never returns None,   *)
(* since the loop itself holds the subscriber with its notify_sender.       *)
(***************************************************************************)
LoopLeaves ==
    \A s \in Sessions : main[s] = "ended" ~> loop[s] \in {"none", "left"}

\* A loop that missed a notification, because it was busy or took a command
\* instead, is the only one to stay.
LoopLeavesUnless ==
    \A s \in Sessions :
        main[s] = "ended" ~> loop[s] \in {"none", "left"} \/ "loop" \in deaf[s]

\* preStop ends once every connection of the instance is closed, unless a
\* session's registration outlives its main task or its notification was lost.
DrainEndsUnless ==
    <>(drain # "serving")
        /\ <>[](\A s \in Sessions : main[s] \in {"idle", "refused"} \/ link[s] = "closed")
    => <>(drain = "stopped" \/ \E s \in Sessions : Leaked(s) \/ "main" \in deaf[s])
=============================================================================
