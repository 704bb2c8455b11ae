-------------------------- MODULE SubscriberProofs --------------------------
(***************************************************************************)
(* Theorems about Subscriber, for every set of sessions and full ids, every *)
(* capacity and every set of operations that may fail.                      *)
(***************************************************************************)
EXTENDS Subscriber, PeerConnectionProofs, TLAPS

\* Why a connected session is registered: it connects after it was registered,
\* and is deregistered after it was closed.
HeardInv ==
    \A s \in Sessions :
        /\ main[s] \in {"idle", "refused", "spawned", "registered"} => link[s] = "new"
        /\ main[s] \in {"closed", "ended"} => link[s] = "closed"
        /\ Alone(s) /\ main[s] \notin {"idle", "refused", "spawned", "ended"} =>
               registered[Id[s]] = s

\* Why Redis follows the connection: the last state of the connection is handled
\* last, and what the handler has still to do is what that state calls for.
FollowInv ==
    \A s \in Sessions :
        Alone(s) /\ ~ignored[s] /\ ~faulted /\ events[s] = <<>> =>
            /\ handler[s] = "sadd" => link[s] = "connected"
            /\ handler[s] = "srem" => link[s] # "connected"
            /\ handler[s] = "idle" => (Id[s] \in subList <=> link[s] = "connected")

-----------------------------------------------------------------------------
(* Type correctness *)

\* Sessions begin with values of the right types.
LEMMA TypeInit == Init => TypeOK
<1> SUFFICES ASSUME Init PROVE TypeOK
  OBVIOUS
<1>1. events \in [Sessions -> Seq(LinkStates)]
  BY DEF Init, LinkInit
<1>2. /\ main \in [Sessions -> MainStages] /\ link \in [Sessions -> LinkStates]
      /\ handler \in [Sessions -> {"idle", "sadd", "srem"}]
      /\ loop \in [Sessions -> LoopStages]
  BY DEF Init, LinkInit, MainStages, LinkStates, LoopStages
<1>3. inbox \in [Sessions -> 0 .. ChanCap] /\ drops \in [Sessions -> 0 .. MaxDrops]
  BY SubscriberAssumption, PeerConnectionAssumption DEF Init, LinkInit
<1> QED
  BY <1>1, <1>2, <1>3 DEF Init, TypeOK, LinkType

\* The main task keeps the types.
LEMMA TypeMain ==
    ASSUME TypeOK, NEW s \in Sessions, Setup(s) \/ Teardown(s) \/ Expire(s)
    PROVE  TypeOK'
<1> USE SubscriberAssumption DEF TypeOK, MainStages, GoMain, Fails, Works
<1>1. CASE Subscribe(s) \/ Negotiate(s) \/ Answer(s) \/ Wait(s) \/ Expire(s)
  <2>1. main' \in [Sessions -> MainStages] /\ faulted' \in BOOLEAN
    BY <1>1 DEF Subscribe, Negotiate, Answer, Wait, Expire
  <2>2. UNCHANGED <<sharedVars, linkVars, handler, loopVars, historyVars>>
    BY <1>1 DEF Subscribe, Negotiate, Answer, Wait, Expire
  <2> QED
    BY <2>1, <2>2 DEF sharedVars, linkVars, loopVars, historyVars, LinkType
<1>2. CASE Register(s)
  <2>1. registered' = registered \/ registered' = [registered EXCEPT ![Id[s]] = s]
    BY <1>2 DEF Register
  <2>2. registered' \in [FullIds -> Sessions \union {NoSession}]
    BY <2>1
  <2>3. main' \in [Sessions -> MainStages] /\ faulted' \in BOOLEAN
    BY <1>2 DEF Register
  <2> QED
    BY <1>2, <2>2, <2>3 DEF Register, linkVars, loopVars, historyVars, LinkType
<1>3. CASE Close(s)
  BY <1>3, LinkTypeNext DEF Close, sharedVars, loopVars, historyVars
<1>4. CASE Deregister(s)
  BY <1>4 DEF Deregister, linkVars, loopVars, historyVars, LinkType
<1> QED
  BY <1>1, <1>2, <1>3, <1>4 DEF Setup, Teardown

\* So do the network and the browser,
LEMMA TypeNetwork ==
    ASSUME TypeOK, NEW s \in Sessions, Network(s)
    PROVE  TypeOK'
BY LinkTypeNext
DEF TypeOK, Network, Connect, Disconnect, GiveUp, Stop, sharedVars, loopVars, historyVars

\* the loop, whose channel never holds more than its capacity,
LEMMA TypeLoop ==
    ASSUME TypeOK, NEW s \in Sessions, OpenChannel(s) \/ Forward(s) \/ Loop(s)
    PROVE  TypeOK'
<1> USE SubscriberAssumption
    DEF TypeOK, LoopStages, GoLoop, LinkType, sharedVars, linkVars, historyVars
<1>1. CASE OpenChannel(s) \/ Opened(s) \/ Leave(s) \/ Handled(s)
  BY <1>1 DEF OpenChannel, Opened, Leave, Handled
<1>2. CASE Forward(s)
  <2>1. inbox' \in [Sessions -> 0 .. ChanCap]
    BY <1>2 DEF Forward
  <2> QED
    BY <1>2, <2>1 DEF Forward
<1>3. CASE Take(s)
  <2>1. inbox' \in [Sessions -> 0 .. ChanCap]
    BY <1>3 DEF Take
  <2>2. deaf' \in [Sessions -> SUBSET {"main", "loop"}]
    BY <1>3 DEF Take
  <2> QED
    BY <1>3, <2>1, <2>2 DEF Take
<1> QED
  BY <1>1, <1>2, <1>3 DEF Loop

\* and the state handler.
LEMMA TypeState ==
    ASSUME TypeOK, NEW s \in Sessions, StateTask(s)
    PROVE  TypeOK'
<1> USE SubscriberAssumption DEF TypeOK, GoHandler, sharedVars
<1>1. CASE HandleConnected(s)
  BY <1>1, LinkTypeNext DEF HandleConnected, loopVars, historyVars
<1>2. CASE HandleDown(s)
  <2>1. LinkType'
    BY <1>2, LinkTypeNext DEF HandleDown
  <2>2. main' \in [Sessions -> MainStages] /\ loop' \in [Sessions -> LoopStages]
    BY <1>2 DEF HandleDown, Notify, MainStages, LoopStages
  <2>3. deaf' \in [Sessions -> SUBSET {"main", "loop"}]
    BY <1>2 DEF HandleDown, Notify
  <2> QED
    BY <1>2, <2>1, <2>2, <2>3 DEF HandleDown
<1>3. CASE Ignore(s)
  BY <1>3, LinkTypeNext DEF Ignore, loopVars
<1>4. CASE AddToRedis(s) \/ RemoveFromRedis(s)
  BY <1>4 DEF AddToRedis, RemoveFromRedis, Sets, Fails, Works,
              linkVars, loopVars, historyVars, LinkType
<1> QED
  BY <1>1, <1>2, <1>3, <1>4 DEF StateTask

\* Every step keeps the types.
LEMMA TypeNext == TypeOK /\ [Next]_vars => TypeOK'
<1>1. TypeOK /\ UNCHANGED vars => TypeOK'
  BY DEF TypeOK, LinkType, vars, sharedVars, linkVars, loopVars, historyVars
<1>2. TypeOK /\ (PreStop \/ NoPeers) => TypeOK'
  BY DEF PreStop, NoPeers, TypeOK, LinkType, linkVars, loopVars, historyVars
<1> QED
  BY <1>1, <1>2, TypeMain, TypeNetwork, TypeLoop, TypeState DEF Next

\* Whatever the network, the browser and failing calls do, the state keeps its
\* types; the channel of a session never holds more than its capacity.
THEOREM TypeCorrect == Spec => []TypeOK
BY TypeInit, TypeNext, PTL DEF Spec

-----------------------------------------------------------------------------
(* Registration *)

\* The loop leaves registration, main task, connection and Redis alone.
LEMMA LoopStaysAway ==
    ASSUME NEW s \in Sessions, OpenChannel(s) \/ Forward(s) \/ Loop(s)
    PROVE  UNCHANGED <<main, link, events, registered, subList, handler, ignored, faulted>>
BY DEF OpenChannel, Forward, Loop, Opened, Take, Leave, Handled,
       sharedVars, linkVars, historyVars

\* A session is registered before its connection comes up and deregistered after
\* close; nobody else's session takes its place.
LEMMA HeardNext == TypeOK /\ HeardInv /\ [Next]_vars => HeardInv'
<1> DEFINE Heard(m, l, a, g, r) ==
             /\ m \in {"idle", "refused", "spawned", "registered"} => l = "new"
             /\ m \in {"closed", "ended"} => l = "closed"
             /\ a /\ m \notin {"idle", "refused", "spawned", "ended"} => g = r
<1> SUFFICES ASSUME TypeOK, HeardInv, [Next]_vars, NEW r \in Sessions
             PROVE  Heard(main'[r], link'[r], Alone(r), registered'[Id[r]], r)
  BY DEF HeardInv, Alone
<1>1. Heard(main[r], link[r], Alone(r), registered[Id[r]], r)
  BY DEF HeardInv
<1>2. /\ main \in [Sessions -> MainStages] /\ link \in [Sessions -> LinkStates]
      /\ registered \in [FullIds -> Sessions \union {NoSession}] /\ Id[r] \in FullIds
  BY SubscriberAssumption DEF TypeOK, LinkType
<1> HIDE DEF Heard
<1>3. CASE UNCHANGED <<main, link, registered>>
  BY <1>1, <1>3
<1>4. ASSUME NEW s \in Sessions, Setup(s) \/ Expire(s) \/ Deregister(s)
      PROVE  Heard(main'[r], link'[r], Alone(r), registered'[Id[r]], r)
  <2>1. link' = link
    BY <1>4 DEF Setup, Expire, Deregister, Subscribe, Register, Negotiate, Answer, Wait, linkVars
  <2>2. CASE s # r
    <3>1. main'[r] = main[r]
      BY <1>2, <1>4, <2>2 DEF Setup, Expire, Deregister, Subscribe, Register, Negotiate,
                              Answer, Wait, GoMain
    <3>2. Alone(r) => Id[s] # Id[r]
      BY <2>2 DEF Alone
    <3>3. Alone(r) => registered'[Id[r]] = registered[Id[r]]
      BY <1>2, <1>4, <3>2 DEF Setup, Expire, Deregister, Subscribe, Register, Negotiate,
                              Answer, Wait, sharedVars
    <3> QED
      BY <1>1, <2>1, <3>1, <3>3 DEF Heard
  <2>3. CASE s = r /\ Register(r)
    <3>1. \/ main'[r] = "refused"
          \/ main'[r] = "registered" /\ registered'[Id[r]] = r
      BY <1>2, <2>3 DEF Register, GoMain
    <3>2. main[r] = "spawned"
      BY <2>3 DEF Register
    <3> QED
      BY <1>1, <2>1, <3>1, <3>2 DEF Heard
  <2>4. CASE s = r /\ Subscribe(r)
    <3>1. main[r] = "idle" /\ main'[r] \in {"refused", "spawned"}
      BY <1>2, <2>4 DEF Subscribe, GoMain
    <3> QED
      BY <1>1, <2>1, <3>1 DEF Heard
  <2>5. CASE s = r /\ (Negotiate(r) \/ Answer(r) \/ Wait(r) \/ Expire(r))
    <3>1. /\ main[r] \in {"registered", "negotiating", "answered", "waiting"}
          /\ main'[r] \in {"negotiating", "answered", "waiting", "expired", "failed"}
          /\ UNCHANGED registered
      BY <1>2, <2>5 DEF Negotiate, Answer, Wait, Expire, GoMain, sharedVars
    <3> QED
      BY <1>1, <2>1, <3>1 DEF Heard
  <2>6. CASE s = r /\ Deregister(r)
    <3>1. main[r] = "closed" /\ main'[r] = "ended"
      BY <1>2, <2>6 DEF Deregister, GoMain
    <3> QED
      BY <1>1, <2>1, <3>1 DEF Heard
  <2> QED
    BY <1>4, <2>2, <2>3, <2>4, <2>5, <2>6 DEF Setup
<1>5. ASSUME NEW s \in Sessions, Close(s)
      PROVE  Heard(main'[r], link'[r], Alone(r), registered'[Id[r]], r)
  <2>1. UNCHANGED registered
    BY <1>5 DEF Close, sharedVars
  <2>2. CASE s # r
    BY <1>1, <1>2, <1>5, <2>1, <2>2 DEF Close, LinkCloses, Goes, GoMain
  <2>3. CASE s = r
    <3>1. link'[r] = "closed"
      BY <1>2, <1>5, <2>3 DEF Close, LinkCloses, Goes
    <3>2. main[r] = "closing" /\ main'[r] \in {"closed", "failed"}
      BY <1>2, <1>5, <2>3 DEF Close, GoMain
    <3> QED
      BY <1>1, <2>1, <3>1, <3>2 DEF Heard
  <2> QED
    BY <2>2, <2>3
<1>6. ASSUME NEW s \in Sessions, Network(s)
      PROVE  Heard(main'[r], link'[r], Alone(r), registered'[Id[r]], r)
  <2>1. UNCHANGED <<main, registered>>
    BY <1>6 DEF Network, Connect, Disconnect, GiveUp, Stop, sharedVars
  <2>2. link'[r] = link[r] \/ s = r
    BY <1>2, <1>6 DEF Network, Connect, Disconnect, GiveUp, Stop, LinkUp, LinkLost,
                      LinkFails, LinkCloses, Goes, LinkStates
  <2>3. CASE s = r /\ link'[r] # link[r]
    <3>1. main[r] \notin {"idle", "refused", "spawned", "registered"}
      BY <1>1, <1>6, <2>3 DEF Network, Connect, Disconnect, GiveUp, Stop, LinkLost, Heard
    <3>2. link[r] # "closed"
      BY <1>6, <2>3 DEF Network, Connect, Disconnect, GiveUp, Stop, LinkUp, LinkLost,
                        LinkFails, LinkCloses
    <3> QED
      BY <1>1, <2>1, <3>1, <3>2 DEF Heard
  <2> QED
    BY <1>1, <2>1, <2>2, <2>3
<1>7. ASSUME NEW s \in Sessions, StateTask(s)
      PROVE  Heard(main'[r], link'[r], Alone(r), registered'[Id[r]], r)
  <2>1. UNCHANGED <<registered, link>>
    BY <1>7 DEF StateTask, HandleConnected, HandleDown, Ignore, AddToRedis, RemoveFromRedis,
                Called, linkVars, sharedVars
  <2>2. \/ main'[r] = main[r]
        \/ main[r] = "waiting" /\ main'[r] = "closing"
    <3>1. \/ main' = main
          \/ main[s] = "waiting" /\ main' = [main EXCEPT ![s] = "closing"]
      BY <1>7, Zenon DEF StateTask, HandleConnected, HandleDown, Ignore, AddToRedis,
                         RemoveFromRedis, Notify
    <3> QED
      BY <1>2, <3>1
  <2> QED
    BY <1>1, <2>1, <2>2 DEF Heard
<1> QED
  BY <1>3, <1>4, <1>5, <1>6, <1>7, LoopStaysAway
  DEF Next, Teardown, PreStop, NoPeers, vars, sharedVars, linkVars

\* A subscriber whose connection is up is sent the commands of its room.
THEOREM ConnectedIsHeard == Spec => []HeardWhileConnected
<1>1. Init => HeardInv
  BY DEF Init, LinkInit, HeardInv
<1>2. HeardInv => HeardWhileConnected
  BY DEF HeardInv, HeardWhileConnected
<1> QED
  BY <1>1, <1>2, HeardNext, TypeCorrect, PTL DEF Spec

-----------------------------------------------------------------------------
(* The set of Redis *)

\* Main task, commands and preStop leave Redis and the state handler alone; no
\* step undoes a failure.
LEMMA MainStaysAway ==
    ASSUME PreStop \/ NoPeers \/ \E s \in Sessions : Setup(s) \/ Expire(s) \/ Deregister(s)
    PROVE  /\ UNCHANGED <<link, events, subList, handler, ignored>>
           /\ ~faulted' => ~faulted
BY DEF PreStop, NoPeers, Setup, Expire, Deregister, Subscribe, Register, Negotiate,
       Answer, Wait, Fails, Works, sharedVars, linkVars, historyVars

\* The connection's changes, from wherever they come.
LEMMA LinkChanges ==
    ASSUME NEW s \in Sessions, Network(s) \/ Close(s)
    PROVE  /\ LinkUp(s) \/ LinkLost(s) \/ LinkFails(s) \/ LinkCloses(s)
           /\ UNCHANGED <<subList, handler, ignored>>
           /\ ~faulted' => ~faulted
BY DEF Network, Connect, Disconnect, GiveUp, Stop, Close, Fails, Works, sharedVars, historyVars

\* Calls are made in order, and the last one is about the present state.
LEMMA CallsNext == TypeOK /\ UpToDate /\ [Next]_vars => UpToDate'
<1> SUFFICES ASSUME TypeOK, UpToDate, [Next]_vars PROVE UpToDate'
  OBVIOUS
<1>1. LinkType
  BY DEF TypeOK
<1>2. CASE UNCHANGED <<link, events>>
  BY <1>2 DEF UpToDate
<1>3. ASSUME NEW s \in Sessions, Network(s) \/ Close(s)
      PROVE  UpToDate'
  BY <1>1, <1>3, LinkChanges, UpToDateNext
<1>4. ASSUME NEW s \in Sessions, StateTask(s)
      PROVE  UpToDate'
  BY <1>1, <1>2, <1>4, UpToDateNext
  DEF StateTask, HandleConnected, HandleDown, Ignore, AddToRedis, RemoveFromRedis, linkVars
<1> QED
  BY <1>2, <1>3, <1>4, LoopStaysAway, MainStaysAway DEF Next, Teardown, vars, linkVars

\* A change of the connection leaves a call to be made, and the last call leaves
\* to the handler just what the state it is about asks for.
LEMMA FollowNext == TypeOK /\ UpToDate /\ FollowInv /\ [Next]_vars => FollowInv'
<1> DEFINE Follows(h, l, in) ==
             /\ h = "sadd" => l = "connected"
             /\ h = "srem" => l # "connected"
             /\ h = "idle" => (in <=> l = "connected")
<1> SUFFICES ASSUME TypeOK, UpToDate, FollowInv, [Next]_vars, NEW r \in Sessions,
                    Alone(r), ~ignored'[r], ~faulted', events'[r] = <<>>
             PROVE  Follows(handler'[r], link'[r], Id[r] \in subList')
  BY DEF FollowInv, Alone
<1>1. ~ignored[r] /\ ~faulted /\ events[r] = <<>> =>
          Follows(handler[r], link[r], Id[r] \in subList)
  BY DEF FollowInv
<1>2. /\ LinkType
      /\ link \in [Sessions -> LinkStates] /\ events \in [Sessions -> Seq(LinkStates)]
      /\ handler \in [Sessions -> {"idle", "sadd", "srem"}]
      /\ ignored \in [Sessions -> BOOLEAN]
  BY DEF TypeOK, LinkType
<1> HIDE DEF Follows
<1>3. CASE UNCHANGED <<link, events, subList, handler, ignored>> /\ ~faulted
  BY <1>1, <1>3
<1>4. ASSUME NEW s \in Sessions, Network(s) \/ Close(s)
      PROVE  Follows(handler'[r], link'[r], Id[r] \in subList')
  <2>1. UNCHANGED <<subList, handler, ignored>> /\ ~faulted
    BY <1>4, LinkChanges
  <2>2. CASE UNCHANGED <<link, events>>
    BY <1>1, <2>1, <2>2
  <2>3. ASSUME NEW state \in LinkStates, Goes(s, state)
        PROVE  link'[r] = link[r] /\ events'[r] = events[r]
    <3>1. Append(events[s], state) # <<>>
      <4>1. events[s] \in Seq(LinkStates)
        BY <1>2
      <4> QED
        BY <4>1
    <3>2. s # r
      BY <1>2, <2>3, <3>1 DEF Goes
    <3> QED
      BY <1>2, <2>3, <3>2 DEF Goes
  <2>4. \/ UNCHANGED <<link, events>>
        \/ \E state \in LinkStates : Goes(s, state)
    BY <1>4, LinkChanges DEF LinkUp, LinkLost, LinkFails, LinkCloses, LinkStates
  <2> QED
    BY <1>1, <2>1, <2>2, <2>3, <2>4
<1>5. ASSUME NEW s \in Sessions, HandleConnected(s) \/ HandleDown(s) \/ Ignore(s)
      PROVE  Follows(handler'[r], link'[r], Id[r] \in subList')
  <2>1. UNCHANGED <<link, subList, faulted>>
    BY <1>5 DEF HandleConnected, HandleDown, Ignore, Called, sharedVars
  <2>2. CASE s # r
    <3>1. /\ events'[r] = events[r] /\ handler'[r] = handler[r]
          /\ ignored'[r] = ignored[r]
      BY <1>2, <1>5, <2>2 DEF HandleConnected, HandleDown, Ignore, Called, GoHandler,
                              historyVars
    <3> QED
      BY <1>1, <2>1, <3>1
  <2>3. CASE s = r /\ HandleConnected(r)
    <3>1. link[r] = "connected"
      BY <1>2, <2>3, LastCall DEF HandleConnected
    <3>2. handler'[r] = "sadd"
      BY <1>2, <2>3 DEF HandleConnected, GoHandler
    <3> QED
      BY <2>1, <3>1, <3>2 DEF Follows
  <2>4. CASE s = r /\ HandleDown(r)
    <3>1. PICK state \in {"disconnected", "failed", "closed"} : Called(r, state)
      BY <2>4 DEF HandleDown
    <3>2. link[r] = state
      BY <1>2, <3>1, LastCall
    <3>3. handler'[r] = "srem"
      BY <1>2, <2>4 DEF HandleDown, GoHandler
    <3> QED
      BY <2>1, <3>1, <3>2, <3>3 DEF Follows
  <2>5. CASE s = r /\ Ignore(r)
    BY <1>2, <2>5 DEF Ignore
  <2> QED
    BY <1>5, <2>2, <2>3, <2>4, <2>5
<1>6. ASSUME NEW s \in Sessions, AddToRedis(s) \/ RemoveFromRedis(s)
      PROVE  Follows(handler'[r], link'[r], Id[r] \in subList')
  <2>1. UNCHANGED <<link, events, ignored>> /\ ~faulted
    BY <1>6 DEF AddToRedis, RemoveFromRedis, Sets, Fails, Works, linkVars, historyVars
  <2>2. \/ /\ handler[s] = "sadd" /\ subList' = subList \union {Id[s]}
           /\ handler' = [handler EXCEPT ![s] = "idle"]
        \/ /\ handler[s] = "srem" /\ subList' = subList \ {Id[s]}
           /\ handler' = [handler EXCEPT ![s] = "idle"]
    BY <1>6 DEF AddToRedis, RemoveFromRedis, Sets, Fails, GoHandler
  <2>3. s # r => Id[s] # Id[r]
    BY DEF Alone
  <2> QED
    BY <1>1, <1>2, <2>1, <2>2, <2>3 DEF Follows
<1> QED
  <2>1. CASE UNCHANGED vars
    BY <1>3, <2>1 DEF vars, sharedVars, linkVars, historyVars
  <2>2. CASE PreStop \/ NoPeers
    BY <1>3, <2>2, MainStaysAway
  <2>3. ASSUME NEW s \in Sessions, Setup(s) \/ Expire(s) \/ Deregister(s)
        PROVE  Follows(handler'[r], link'[r], Id[r] \in subList')
    BY <1>3, <2>3, MainStaysAway
  <2>4. ASSUME NEW s \in Sessions, OpenChannel(s) \/ Forward(s) \/ Loop(s)
        PROVE  Follows(handler'[r], link'[r], Id[r] \in subList')
    BY <1>3, <2>4, LoopStaysAway
  <2> QED
    BY <1>4, <1>5, <1>6, <2>1, <2>2, <2>3, <2>4 DEF Next, Teardown, StateTask

\* However often its connection comes and goes, Redis has a subscriber exactly
\* while the connection is up, once the handler has caught up.
THEOREM RedisAlwaysFollows == Spec => []RedisFollowsLink
<1>1. Init => UpToDate /\ FollowInv
  <2> SUFFICES ASSUME Init, NEW s \in Sessions
               PROVE  events[s] = <<>> /\ link[s] = "new" /\ subList = {} /\ handler[s] = "idle"
    BY DEF UpToDate, FollowInv
  <2> QED
    BY DEF Init, LinkInit
<1>2. FollowInv => RedisFollowsLink
  BY DEF FollowInv, RedisFollowsLink
<1> QED
  BY <1>1, <1>2, CallsNext, FollowNext, TypeCorrect, PTL DEF Spec
-----------------------------------------------------------------------------
(* What is left when a connection is lost. *)

\* Why nothing but the named remains is left: a session that is over is not registered,
\* and once the handler was called with the last state, each of the two tasks was told
\* of the loss, or is over, or missed it.
Tidy(s) ==
    /\ main[s] \in {"idle", "refused", "spawned", "ended"} => registered[Id[s]] # s
    /\ link[s] \in Down /\ events[s] = <<>> =>
          /\ \/ main[s] \in {"closing", "closed", "ended", "failed", "expired"}
             \/ "main" \in deaf[s]
          /\ \/ loop[s] \in {"none", "left", "woken", "leaving"}
             \/ "loop" \in deaf[s]

TidyInv == \A s \in Sessions : Tidy(s)

\* The sessions of a step that is about one of them only.
LEMMA OthersTidy ==
    ASSUME TypeOK, TidyInv, NEW s \in Sessions, NEW r \in Sessions \ {s},
           \/ Setup(s) \/ Teardown(s) \/ Expire(s) \/ Network(s) \/ StateTask(s)
           \/ OpenChannel(s) \/ Forward(s) \/ Loop(s)
    PROVE  Tidy(r)'
<1>1. Tidy(r)
  BY DEF TidyInv
<1>2. /\ main'[r] = main[r] /\ loop'[r] = loop[r] /\ deaf'[r] = deaf[r]
      /\ link'[r] = link[r] /\ events'[r] = events[r]
  <2> USE DEF TypeOK, LinkType, GoMain, GoLoop, GoHandler, Goes, linkVars, loopVars, historyVars
  <2>1. CASE Setup(s) \/ Expire(s) \/ Deregister(s)
    BY <2>1 DEF Setup, Subscribe, Register, Negotiate, Answer, Wait, Expire, Deregister
  <2>2. CASE Close(s)
    BY <2>2 DEF Close, LinkCloses
  <2>3. CASE Network(s)
    BY <2>3 DEF Network, Connect, Disconnect, GiveUp, Stop, LinkUp, LinkLost, LinkFails, LinkCloses
  <2>4. CASE HandleConnected(s) \/ Ignore(s) \/ AddToRedis(s) \/ RemoveFromRedis(s)
    BY <2>4 DEF HandleConnected, Ignore, AddToRedis, RemoveFromRedis, Called
  <2>5. CASE HandleDown(s)
    BY <2>5 DEF HandleDown, Notify, Called
  <2>6. CASE OpenChannel(s) \/ Forward(s) \/ Loop(s)
    BY <2>6 DEF OpenChannel, Forward, Loop, Opened, Take, Leave, Handled
  <2> QED
    BY <2>1, <2>2, <2>3, <2>4, <2>5, <2>6 DEF Teardown, StateTask
<1>3. \/ registered' = registered
      \/ registered' = [registered EXCEPT ![Id[s]] = s]
      \/ registered' = [registered EXCEPT ![Id[s]] = NoSession]
  BY DEF Setup, Subscribe, Register, Negotiate, Answer, Wait, Expire, Teardown, Close,
         Deregister, Network, Connect, Disconnect, GiveUp, Stop, StateTask, HandleConnected,
         HandleDown, Ignore, AddToRedis, RemoveFromRedis, OpenChannel, Forward, Loop, Opened,
         Take, Leave, Handled, sharedVars
<1>4. registered[Id[r]] # r => registered'[Id[r]] # r
  BY <1>3, NoSessionAssumption, SubscriberAssumption DEF TypeOK
<1> QED
  BY <1>1, <1>2, <1>4 DEF Tidy

\* A step of the session itself.
LEMMA OwnTidy ==
    ASSUME TypeOK, UpToDate, HeardInv, TidyInv, NEW s \in Sessions,
           \/ Setup(s) \/ Teardown(s) \/ Expire(s) \/ Network(s) \/ StateTask(s)
           \/ OpenChannel(s) \/ Forward(s) \/ Loop(s)
    PROVE  Tidy(s)'
<1>1. /\ main \in [Sessions -> MainStages] /\ link \in [Sessions -> LinkStates]
      /\ loop \in [Sessions -> LoopStages] /\ events \in [Sessions -> Seq(LinkStates)]
      /\ deaf \in [Sessions -> SUBSET {"main", "loop"}]
      /\ registered \in [FullIds -> Sessions \union {NoSession}] /\ Id[s] \in FullIds
  BY SubscriberAssumption DEF TypeOK, LinkType
<1>2. Tidy(s)
  BY DEF TidyInv
<1>3. /\ main[s] \in {"idle", "refused", "spawned", "registered"} => link[s] = "new"
      /\ main[s] \in {"closed", "ended"} => link[s] = "closed"
  BY DEF HeardInv
<1> USE DEF GoMain, GoLoop, GoHandler, linkVars, loopVars, historyVars, sharedVars, Down
\* A new state of the connection is still to be handled.
<1>4. ASSUME UNCHANGED <<registered, main>>, NEW state \in LinkStates, Goes(s, state)
      PROVE  Tidy(s)'
  <2>1. events'[s] = Append(events[s], state) /\ events[s] \in Seq(LinkStates)
    BY <1>1, <1>4 DEF Goes
  <2>2. events'[s] # <<>>
    BY <2>1
  <2> QED
    BY <1>2, <1>4, <2>2 DEF Tidy
<1>5. CASE Subscribe(s)
  BY <1>1, <1>2, <1>3, <1>5 DEF Tidy, Subscribe
<1>6. CASE Register(s)
  BY <1>1, <1>2, <1>3, <1>6 DEF Tidy, Register
<1>7. CASE Negotiate(s) \/ Answer(s) \/ Wait(s) \/ Expire(s)
  BY <1>1, <1>2, <1>3, <1>7 DEF Tidy, Negotiate, Answer, Wait, Expire
<1>8. CASE Deregister(s)
  <2>1. registered'[Id[s]] # s
    BY <1>1, <1>8, NoSessionAssumption DEF Deregister
  <2> QED
    BY <1>1, <1>2, <1>8, <2>1 DEF Tidy, Deregister
<1>9. CASE Close(s)
  <2>1. main[s] = "closing" /\ main'[s] \in {"closed", "failed"} /\ UNCHANGED <<registered, loop, deaf>>
    BY <1>1, <1>9 DEF Close
  <2>2. CASE UNCHANGED <<link, events>>
    BY <1>2, <2>1, <2>2 DEF Tidy
  <2>3. CASE Goes(s, "closed")
    <3>1. events'[s] = Append(events[s], "closed") /\ events[s] \in Seq(LinkStates)
      BY <1>1, <2>3 DEF Goes
    <3>2. events'[s] # <<>>
      BY <3>1
    <3> QED
      BY <1>2, <2>1, <3>2 DEF Tidy
  <2> QED
    BY <1>9, <2>2, <2>3 DEF Close, LinkCloses
<1>10. CASE Network(s)
  <2>1. UNCHANGED <<registered, main, loop, deaf>>
    BY <1>10 DEF Network, Connect, Disconnect, GiveUp, Stop
  <2>2. \/ UNCHANGED <<link, events>>
        \/ \E state \in LinkStates : Goes(s, state)
    BY <1>10 DEF Network, Connect, Disconnect, GiveUp, Stop, LinkUp, LinkLost, LinkFails,
                 LinkCloses, LinkStates
  <2> QED
    BY <1>2, <1>4, <2>1, <2>2 DEF Tidy
<1>11. CASE HandleConnected(s) \/ Ignore(s)
  <2>1. UNCHANGED <<registered, main, loop, deaf, link>>
    BY <1>11 DEF HandleConnected, Ignore, Called
  <2>2. CASE Ignore(s)
    <3>1. ~Alive(s)
      BY <2>2 DEF Ignore
    <3>2. link[s] \in Down => main[s] \in {"ended", "failed", "expired"}
      BY <1>1, <1>3, <3>1 DEF Alive, MainStages
    <3>3. loop[s] \in {"none", "left"}
      BY <1>1, <3>1 DEF Alive, LoopStages
    <3> QED
      BY <1>2, <2>1, <3>2, <3>3 DEF Tidy
  <2>3. CASE HandleConnected(s) /\ events'[s] = <<>>
    <3>1. link[s] = "connected"
      BY <2>3, LastCall DEF HandleConnected, TypeOK
    <3> QED
      BY <1>2, <2>1, <3>1 DEF Tidy
  <2>4. CASE events'[s] # <<>>
    BY <1>2, <2>1, <2>4 DEF Tidy
  <2> QED
    BY <1>11, <2>2, <2>3, <2>4
<1>12. CASE HandleDown(s)
  <2>1. UNCHANGED <<registered, link>>
    BY <1>12 DEF HandleDown, Called
  <2>2. /\ main'[s] = IF main[s] = "waiting" THEN "closing" ELSE main[s]
        /\ loop'[s] = IF loop[s] = "select" THEN "woken" ELSE loop[s]
        /\ main[s] \in {"negotiating", "answered"} => "main" \in deaf'[s]
        /\ loop[s] \in {"opening", "busy"} => "loop" \in deaf'[s]
    BY <1>1, <1>12 DEF HandleDown, Notify
  <2>3. link[s] \in Down =>
            main'[s] \in {"closing", "closed", "ended", "failed", "expired"}
                \/ "main" \in deaf'[s]
    BY <1>1, <1>3, <2>2 DEF MainStages
  <2>4. loop'[s] \in {"none", "left", "woken", "leaving"} \/ "loop" \in deaf'[s]
    BY <1>1, <2>2 DEF LoopStages
  <2>5. main'[s] \in {"idle", "refused", "spawned", "ended"} => main'[s] = main[s]
    BY <2>2
  <2> QED
    BY <1>2, <2>1, <2>3, <2>4, <2>5 DEF Tidy
<1>13. CASE AddToRedis(s) \/ RemoveFromRedis(s)
  BY <1>2, <1>13 DEF Tidy, AddToRedis, RemoveFromRedis
<1>14. CASE OpenChannel(s)
  <2>1. link[s] = "connected" /\ UNCHANGED <<registered, main, link, events>>
    BY <1>14 DEF OpenChannel
  <2> QED
    BY <1>2, <2>1 DEF Tidy
<1>15. CASE Forward(s)
  BY <1>2, <1>15 DEF Tidy, Forward
<1>16. CASE Opened(s) \/ Leave(s) \/ Handled(s)
  BY <1>1, <1>2, <1>16 DEF Tidy, Opened, Leave, Handled
<1>17. CASE Take(s)
  BY <1>1, <1>2, <1>17 DEF Tidy, Take
<1> QED
  BY <1>5, <1>6, <1>7, <1>8, <1>9, <1>10, <1>11, <1>12, <1>13, <1>14, <1>15, <1>16, <1>17
  DEF Setup, Teardown, StateTask, Loop

\* No step leaves anything but the named remains.
LEMMA TidyNext ==
    ASSUME TypeOK, UpToDate, HeardInv, TidyInv, [Next]_vars
    PROVE  TidyInv'
<1>1. CASE PreStop \/ NoPeers \/ UNCHANGED vars
  <2>1. UNCHANGED <<registered, main, link, events, loop, deaf>>
    BY <1>1 DEF PreStop, NoPeers, vars, sharedVars, linkVars, loopVars, historyVars
  <2> QED
    BY <2>1 DEF TidyInv, Tidy
<1>2. ASSUME NEW s \in Sessions,
             \/ Setup(s) \/ Teardown(s) \/ Expire(s) \/ Network(s) \/ StateTask(s)
             \/ OpenChannel(s) \/ Forward(s) \/ Loop(s)
      PROVE  TidyInv'
  BY <1>2, OthersTidy, OwnTidy DEF TidyInv
<1> QED
  BY <1>1, <1>2 DEF Next

\* When a connection is lost, whatever the order of its states, the commands and the
\* two tasks' ends, a registration stays behind only a main task that returned early or
\* missed the notification, and a loop only if it missed it.
THEOREM RestIsAlwaysTidy == Spec => []RestIsTidy
<1>1. Init => UpToDate /\ HeardInv /\ TidyInv
  <2> SUFFICES ASSUME Init, NEW s \in Sessions
               PROVE  /\ events[s] = <<>> /\ link[s] = "new" /\ main[s] = "idle"
                      /\ registered[Id[s]] # s
    BY DEF UpToDate, HeardInv, TidyInv, Tidy, Down, Alone
  <2> QED
    BY NoSessionAssumption, SubscriberAssumption DEF Init, LinkInit
<1>2. HeardInv /\ TidyInv => RestIsTidy
  <2> SUFFICES ASSUME HeardInv, TidyInv, NEW s \in Sessions, AtRest(s), link[s] \in Down
               PROVE  /\ registered[Id[s]] # s \/ Leaked(s) \/ "main" \in deaf[s]
                      /\ loop[s] # "select" \/ "loop" \in deaf[s]
    BY DEF RestIsTidy
  <2>1. main[s] \in {"waiting", "ended", "failed", "expired"}
    BY DEF AtRest, HeardInv, Down
  <2> QED
    BY <2>1 DEF TidyInv, Tidy, AtRest, Leaked
<1> QED
  BY <1>1, <1>2, TidyNext, HeardNext, CallsNext, TypeCorrect, PTL DEF Spec
=============================================================================
