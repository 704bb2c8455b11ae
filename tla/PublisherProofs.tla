--------------------------- MODULE PublisherProofs ---------------------------
(***************************************************************************)
(* Theorems about Publisher, for every set of sessions and full ids, every  *)
(* number of tracks and every set of operations that may fail.              *)
(***************************************************************************)
EXTENDS Publisher, PeerConnectionProofs, TLAPS

\* Why a session sends PubLeft once: only the handler that found is_closed FALSE,
\* and set it, gets to the command.
LeftInv ==
    \A s \in Sessions :
        /\ lefts[s] \in {0, 1}
        /\ lefts[s] = 1 => isClosed[s]
        /\ handler[s] \in {"hdel", "left"} => isClosed[s] /\ lefts[s] = 0

\* Why Redis and the local state agree: between the two halves of add_publisher
\* and of remove_publisher, and only there, Redis is ahead.
ListInv ==
    \A s \in Sessions :
        Alone(s) /\ ~faulted =>
            CASE handler[s] = "insert" -> Id[s] \in pubList
              [] handler[s] = "remove" -> Id[s] \notin pubList
              [] OTHER -> (Id[s] \in pubList <=> Id[s] \in localPubs)

\* Why a publisher that is up is listed: between the last call of the handler and
\* the end of add_publisher, and only there, it may not be.
UpInv ==
    \A s \in Sessions :
        Alone(s) /\ ~faulted /\ ~isClosed[s] /\ events[s] = <<>> /\ link[s] = "connected" =>
            \/ handler[s] = "sadd"
            \/ handler[s] = "insert" /\ Id[s] \in pubList
            \/ handler[s] = "idle" /\ Id[s] \in pubList /\ Id[s] \in localPubs

\* Why a closed session leaves nothing: each entry is gone once the handler has
\* passed the stage that removes it.
CleanInv ==
    \A s \in Sessions :
        Alone(s) /\ isClosed[s] /\ ~late[s] /\ ~revived[s] /\ ~faulted =>
            /\ handler[s] # "insert"
            /\ handler[s] # "hdel" => media[Id[s]] = 0
            /\ handler[s] = "remove" => Id[s] \notin pubList
            /\ handler[s] \in {"idle", "sadd"} => Id[s] \notin pubList /\ Id[s] \notin localPubs

\* Why PubJoin is not early: Redis counts the tracks that on_track has begun,
\* but for the one it is about to count.
CountInv ==
    \A s \in Sessions :
        Alone(s) /\ ~isClosed[s] /\ ~faulted =>
            /\ media[Id[s]] = IF onTrack[s] = "hincr" THEN tracks[s] - 1 ELSE tracks[s]
            /\ onTrack[s] = "join" => tracks[s] = Total

\* Why a connection must be lost to come back: the states the handler has yet to be
\* called with are in the order in which they came, so without a loss none of them is
\* "connected" after one that closes.
Ups(q)   == \A n \in 1 .. Len(q) : q[n] = "connected"
Downs(q) == \A n \in 1 .. Len(q) : q[n] # "connected"
UpsFirst(q) == \A m, n \in 1 .. Len(q) : m < n /\ q[n] = "connected" => q[m] = "connected"

Back(s) ==
    /\ ~revived[s]
    /\ link[s] # "disconnected"
    /\ link[s] \in {"new", "connected"} => ~isClosed[s] /\ Ups(events[s])
    /\ isClosed[s] => handler[s] # "sadd" /\ Downs(events[s])
    /\ UpsFirst(events[s])

BackInv == \A s \in Sessions : drops[s] = 0 => Back(s)

\* Why a closed session's connection is closed when its main task rests: the handler
\* finds the main task waiting, and wakes it, or not waiting yet, and then it is deaf.
ClosedInv ==
    \A s \in Sessions :
        /\ main[s] \in {"idle", "refused", "spawned"} =>
              link[s] = "new" /\ events[s] = <<>> /\ ~isClosed[s]
        /\ main[s] = "ended" => link[s] = "closed"
        /\ isClosed[s] /\ main[s] \in {"negotiating", "answered", "waiting"} => deaf[s]

-----------------------------------------------------------------------------
(* Type correctness *)

\* Sessions begin with values of the right types.
LEMMA TypeInit == Init => TypeOK
<1> SUFFICES ASSUME Init PROVE TypeOK
  OBVIOUS
<1>1. events \in [Sessions -> Seq(LinkStates)]
  BY DEF Init, LinkInit
<1>2. /\ main \in [Sessions -> MainStages] /\ link \in [Sessions -> LinkStates]
      /\ handler \in [Sessions -> HandlerStages] /\ onTrack \in [Sessions -> TrackStages]
  BY DEF Init, LinkInit, MainStages, LinkStates, HandlerStages, TrackStages
<1>3. /\ media \in [FullIds -> Nat] /\ rtp \in [Sessions -> 0 .. Total]
      /\ tracks \in [Sessions -> 0 .. Total] /\ drops \in [Sessions -> 0 .. MaxDrops]
      /\ joins \in [Sessions -> Nat] /\ lefts \in [Sessions -> Nat]
  BY PublisherAssumption, PeerConnectionAssumption DEF Init, LinkInit
<1> QED
  BY <1>1, <1>2, <1>3 DEF Init, TypeOK, LinkType

\* The main task, the network and the browser keep the types.
LEMMA TypeMain ==
    ASSUME TypeOK, NEW s \in Sessions, MainTask(s) \/ Network(s)
    PROVE  TypeOK'
<1> USE DEF TypeOK, MainStages
<1>1. CASE Publish(s) \/ Negotiate(s) \/ Answer(s) \/ Wait(s) \/ Expire(s)
  BY <1>1 DEF Publish, Negotiate, Answer, Wait, Expire, GoMain, Fails, Works,
              sharedVars, linkVars, handlerVars, trackVars, LinkType
<1>2. CASE Close(s)
  BY <1>2, LinkTypeNext DEF Close, GoMain, sharedVars, handlerVars, trackVars
<1>3. CASE Connect(s) \/ GiveUp(s) \/ Disconnect(s) \/ Stop(s)
  BY <1>3, LinkTypeNext
  DEF Connect, GiveUp, Disconnect, Stop, sharedVars, handlerVars, trackVars
<1>4. CASE Arrive(s)
  <2>1. rtp' \in [Sessions -> 0 .. Total]
    BY <1>4, PublisherAssumption DEF Arrive
  <2> QED
    BY <1>4, <2>1 DEF Arrive, sharedVars, linkVars, handlerVars, LinkType
<1> QED
  BY <1>1, <1>2, <1>3, <1>4 DEF MainTask, Network

\* So does on_track,
LEMMA TypeTrack ==
    ASSUME TypeOK, NEW s \in Sessions, TrackTask(s)
    PROVE  TypeOK'
<1> USE PublisherAssumption DEF TypeOK, LinkType, linkVars, TrackStages
<1>1. CASE OnTrack(s)
  <2>1. tracks' \in [Sessions -> 0 .. Total]
    BY <1>1 DEF OnTrack
  <2> QED
    BY <1>1, <2>1 DEF OnTrack, GoTrack, sharedVars, linkVars, handlerVars
<1>2. CASE CountMedia(s)
  <2>1. media' \in [FullIds -> Nat]
    <3>1. media' = [media EXCEPT ![Id[s]] = @ + 1] \/ media' = media
      BY <1>2 DEF CountMedia, Counted
    <3>2. media \in [FullIds -> Nat] /\ Id[s] \in FullIds
      OBVIOUS
    <3> HIDE DEF TypeOK
    <3> QED
      BY <3>1, <3>2
  <2>2. late' \in [Sessions -> BOOLEAN]
    BY <1>2, Zenon DEF CountMedia, Counted
  <2>3. faulted' \in BOOLEAN
    BY <1>2 DEF CountMedia, Fails, Works
  <2> QED
    BY <1>2, <2>1, <2>2, <2>3 DEF CountMedia, GoTrack, linkVars, handlerVars
<1>3. CASE Check(s)
  BY <1>3 DEF Check, GoTrack, sharedVars, linkVars, handlerVars
<1>4. CASE SendJoin(s)
  <2>1. joins' \in [Sessions -> Nat] /\ faulted' \in BOOLEAN
    <3>1. joins' = [joins EXCEPT ![s] = @ + 1] \/ joins' = joins
      BY <1>4 DEF SendJoin
    <3>2. joins' \in [Sessions -> Nat]
      <4>1. joins \in [Sessions -> Nat]
        OBVIOUS
      <4> HIDE DEF TypeOK
      <4> QED
        BY <3>1, <4>1
    <3>3. faulted' \in BOOLEAN
      BY <1>4 DEF SendJoin, Fails, Works
    <3> QED
      BY <3>2, <3>3
  <2> QED
    BY <1>4, <2>1 DEF SendJoin, GoTrack, sharedVars, linkVars, handlerVars
<1> QED
  BY <1>1, <1>2, <1>3, <1>4 DEF TrackTask

\* and so does the state handler.
LEMMA TypeState ==
    ASSUME TypeOK, NEW s \in Sessions, StateTask(s)
    PROVE  TypeOK'
<1> USE PublisherAssumption DEF TypeOK, HandlerStages, GoHandler
<1>1. UNCHANGED linkVars => LinkType'
  BY DEF LinkType, linkVars
<1>2. CASE HandleConnected(s)
  BY <1>2, LinkTypeNext DEF HandleConnected, sharedVars, trackVars
<1>3. CASE HandleClosed(s)
  <2>1. LinkType'
    BY <1>3, LinkTypeNext DEF HandleClosed
  <2>2. main' \in [Sessions -> MainStages] /\ handler' \in [Sessions -> HandlerStages]
    <3>1. main' = main \/ main' = [main EXCEPT ![s] = "closing"]
      BY <1>3, Zenon DEF HandleClosed, Notify
    <3>2. handler' = handler \/ handler' = [handler EXCEPT ![s] = "hdel"]
      BY <1>3, Zenon DEF HandleClosed
    <3> QED
      BY <3>1, <3>2 DEF MainStages
  <2>3. isClosed' \in [Sessions -> BOOLEAN] /\ deaf' \in [Sessions -> BOOLEAN]
    BY <1>3, Zenon DEF HandleClosed, Notify
  <2> QED
    BY <1>3, <2>1, <2>2, <2>3 DEF HandleClosed, sharedVars, trackVars
<1>4. CASE AddToRedis(s)
  <2>1. revived' \in [Sessions -> BOOLEAN]
    BY <1>4, Zenon DEF AddToRedis
  <2>2. pubList' \subseteq FullIds /\ handler' \in [Sessions -> HandlerStages] /\ faulted' \in BOOLEAN
    BY <1>4 DEF AddToRedis, RedisThenLocal, Fails, Works
  <2> QED
    BY <1>1, <1>4, <2>1, <2>2 DEF AddToRedis, trackVars
<1>5. CASE AddLocally(s) \/ RemoveLocally(s)
  BY <1>1, <1>5 DEF AddLocally, RemoveLocally, trackVars
<1>6. CASE RemoveMedia(s)
  <2>1. media' \in [FullIds -> Nat] /\ faulted' \in BOOLEAN
    <3>1. PICK n \in Nat : media' = [media EXCEPT ![Id[s]] = n]
      <4>1. media[Id[s]] \in Nat
        OBVIOUS
      <4> QED
        BY <1>6, <4>1 DEF RemoveMedia
    <3>2. media' \in [FullIds -> Nat]
      <4>1. media \in [FullIds -> Nat] /\ Id[s] \in FullIds
        OBVIOUS
      <4> HIDE DEF TypeOK
      <4> QED
        BY <3>1, <4>1
    <3>3. faulted' \in BOOLEAN
      BY <1>6 DEF RemoveMedia, Fails, Works
    <3> QED
      BY <3>2, <3>3
  <2> QED
    BY <1>1, <1>6, <2>1 DEF RemoveMedia, trackVars
<1>8. CASE SendLeft(s)
  <2>1. lefts' \in [Sessions -> Nat] /\ faulted' \in BOOLEAN
    <3>1. lefts' = [lefts EXCEPT ![s] = @ + 1] \/ lefts' = lefts
      BY <1>8 DEF SendLeft
    <3>2. lefts' \in [Sessions -> Nat]
      <4>1. lefts \in [Sessions -> Nat]
        OBVIOUS
      <4> HIDE DEF TypeOK
      <4> QED
        BY <3>1, <4>1
    <3>3. faulted' \in BOOLEAN
      BY <1>8 DEF SendLeft, Fails, Works
    <3> QED
      BY <3>2, <3>3
  <2> QED
    BY <1>1, <1>8, <2>1 DEF SendLeft, sharedVars, trackVars
<1>7. CASE RemoveFromRedis(s)
  BY <1>1, <1>7 DEF RemoveFromRedis, RedisThenLocal, Fails, Works, trackVars
<1> QED
  BY <1>2, <1>3, <1>4, <1>5, <1>6, <1>7, <1>8 DEF StateTask

\* Every step keeps the types.
LEMMA TypeNext == TypeOK /\ [Next]_vars => TypeOK'
<1>1. TypeOK /\ UNCHANGED vars => TypeOK'
  BY DEF TypeOK, LinkType, vars, sharedVars, linkVars, handlerVars, trackVars
<1> QED
  BY <1>1, TypeMain, TypeTrack, TypeState DEF Next

\* Whatever the network, the browser and failing calls do, the state keeps its
\* types; the count of tracks never passes the number of transceivers.
THEOREM TypeCorrect == Spec => []TypeOK
BY TypeInit, TypeNext, PTL DEF Spec

-----------------------------------------------------------------------------
(* The state handler *)

\* Only the state handler touches the lists of publishers and its own state; no
\* step undoes a failure.
LEMMA OthersStayAway ==
    ASSUME NEW s \in Sessions, MainTask(s) \/ Network(s) \/ TrackTask(s)
    PROVE  UNCHANGED <<pubList, localPubs, handlerVars>> /\ (~faulted' => ~faulted)
<1>1. CASE MainTask(s)
  BY <1>1 DEF MainTask, Publish, Negotiate, Answer, Wait, Expire, Close,
              Fails, Works, sharedVars, handlerVars
<1>2. CASE Network(s)
  BY <1>2 DEF Network, Connect, Disconnect, GiveUp, Stop, Arrive,
              sharedVars, handlerVars
<1>3. CASE TrackTask(s)
  BY <1>3 DEF TrackTask, OnTrack, CountMedia, Check, SendJoin, Fails, Works,
              sharedVars, handlerVars
<1> QED
  BY <1>1, <1>2, <1>3

\* A second closing state finds is_closed set, whenever it comes.
LEMMA LeftNext == TypeOK /\ LeftInv /\ [Next]_vars => LeftInv'
<1> SUFFICES ASSUME TypeOK, LeftInv, [Next]_vars, NEW r \in Sessions
             PROVE  /\ lefts'[r] \in {0, 1}
                    /\ lefts'[r] = 1 => isClosed'[r]
                    /\ handler'[r] \in {"hdel", "left"} => isClosed'[r] /\ lefts'[r] = 0
  BY DEF LeftInv
<1>1. /\ lefts[r] \in {0, 1}
      /\ lefts[r] = 1 => isClosed[r]
      /\ handler[r] \in {"hdel", "left"} => isClosed[r] /\ lefts[r] = 0
  BY DEF LeftInv
<1>2. /\ handler \in [Sessions -> HandlerStages] /\ lefts \in [Sessions -> Nat]
      /\ isClosed \in [Sessions -> BOOLEAN]
  BY DEF TypeOK
<1>3. CASE UNCHANGED vars
  BY <1>1, <1>3 DEF vars, handlerVars
<1>4. ASSUME NEW s \in Sessions, MainTask(s) \/ Network(s) \/ TrackTask(s)
      PROVE  UNCHANGED handlerVars
  BY <1>4, OthersStayAway
<1>5. ASSUME NEW s \in Sessions, HandleConnected(s) \/ AddLocally(s) \/ RemoveLocally(s)
      PROVE  /\ UNCHANGED <<lefts, isClosed>>
             /\ handler'[r] = handler[r] \/ handler'[r] \in {"sadd", "idle"}
  BY <1>2, <1>5 DEF HandleConnected, AddLocally, RemoveLocally, GoHandler
<1>6. ASSUME NEW s \in Sessions, AddToRedis(s) \/ RemoveFromRedis(s)
      PROVE  /\ UNCHANGED <<lefts, isClosed>>
             /\ handler'[r] = handler[r] \/ handler'[r] \in {"insert", "remove", "idle"}
  BY <1>2, <1>6 DEF AddToRedis, RemoveFromRedis, RedisThenLocal, GoHandler
<1>7. ASSUME NEW s \in Sessions, HandleClosed(s)
      PROVE  /\ UNCHANGED lefts
             /\ \/ UNCHANGED <<isClosed, handler>>
                \/ /\ ~isClosed[s]
                   /\ isClosed' = [isClosed EXCEPT ![s] = TRUE]
                   /\ handler' = [handler EXCEPT ![s] = "hdel"]
  BY <1>7, Zenon DEF HandleClosed, GoHandler
<1>8. ASSUME NEW s \in Sessions, RemoveMedia(s)
      PROVE  /\ UNCHANGED <<lefts, isClosed>>
             /\ handler[s] = "hdel" /\ handler' = [handler EXCEPT ![s] = "left"]
  BY <1>8 DEF RemoveMedia, GoHandler
<1>9. ASSUME NEW s \in Sessions, SendLeft(s)
      PROVE  /\ UNCHANGED isClosed
             /\ handler[s] = "left" /\ handler' = [handler EXCEPT ![s] = "srem"]
             /\ lefts' = lefts \/ lefts' = [lefts EXCEPT ![s] = @ + 1]
  BY <1>9 DEF SendLeft, GoHandler
<1>10. ASSUME NEW s \in Sessions, StateTask(s)
       PROVE  /\ lefts'[r] \in {0, 1}
              /\ lefts'[r] = 1 => isClosed'[r]
              /\ handler'[r] \in {"hdel", "left"} => isClosed'[r] /\ lefts'[r] = 0
  <2>1. CASE HandleConnected(s) \/ AddLocally(s) \/ RemoveLocally(s)
    BY <1>1, <1>5, <2>1
  <2>2. CASE AddToRedis(s) \/ RemoveFromRedis(s)
    BY <1>1, <1>6, <2>2
  <2>3. CASE HandleClosed(s)
    BY <1>1, <1>2, <1>7, <2>3
  <2>4. CASE RemoveMedia(s)
    BY <1>1, <1>2, <1>8, <2>4
  <2>5. CASE SendLeft(s)
    BY <1>1, <1>2, <1>9, <2>5
  <2> QED
    BY <1>10, <2>1, <2>2, <2>3, <2>4, <2>5 DEF StateTask
<1> QED
  BY <1>1, <1>3, <1>4, <1>10 DEF Next, handlerVars

\* No session has sent anything when it begins.
LEMMA LeftInit == Init => LeftInv
<1> SUFFICES ASSUME Init, NEW s \in Sessions
             PROVE  /\ lefts[s] \in {0, 1}
                    /\ lefts[s] # 1
                    /\ handler[s] \notin {"hdel", "left"}
  BY DEF LeftInv
<1>1. lefts[s] = 0 /\ handler[s] = "idle"
  BY DEF Init
<1> QED
  BY <1>1

\* Whatever its connection goes through, a session announces its end once.
THEOREM LeftIsSentOnce == Spec => []LeftOnce
<1>1. Init => LeftInv
  BY LeftInit
<1>2. LeftInv => LeftOnce
  <2> SUFFICES ASSUME LeftInv, NEW s \in Sessions PROVE lefts[s] <= 1
    BY DEF LeftOnce
  <2>1. lefts[s] = 0 \/ lefts[s] = 1
    BY DEF LeftInv
  <2> QED
    BY <2>1
<1> QED
  BY <1>1, <1>2, LeftNext, TypeCorrect, PTL DEF Spec

\* Each half of add_publisher and remove_publisher takes Redis and the local
\* state from one case of ListInv to the next.
LEMMA ListNext == TypeOK /\ ListInv /\ [Next]_vars => ListInv'
<1> DEFINE Listed(r, h, p, l) ==
             CASE h = "insert" -> Id[r] \in p
               [] h = "remove" -> Id[r] \notin p
               [] OTHER -> (Id[r] \in p <=> Id[r] \in l)
<1> SUFFICES ASSUME TypeOK, ListInv, [Next]_vars, NEW r \in Sessions, Alone(r), ~faulted'
             PROVE  Listed(r, handler'[r], pubList', localPubs')
  BY DEF ListInv, Alone
<1>1. handler \in [Sessions -> HandlerStages]
  BY DEF TypeOK
<1>2. ~faulted => Listed(r, handler[r], pubList, localPubs)
  BY DEF ListInv
<1> HIDE DEF Listed
<1>3. CASE UNCHANGED vars
  BY <1>2, <1>3 DEF vars, sharedVars, handlerVars
<1>4. ASSUME NEW s \in Sessions, MainTask(s) \/ Network(s) \/ TrackTask(s)
      PROVE  Listed(r, handler'[r], pubList', localPubs')
  BY <1>2, <1>4, OthersStayAway DEF handlerVars
<1>5. ASSUME NEW s \in Sessions, StateTask(s)
      PROVE  Listed(r, handler'[r], pubList', localPubs')
  <2> USE DEF Listed, GoHandler, Works, sharedVars
  <2>1. s # r => Id[s] # Id[r]
    BY DEF Alone
  <2>2. CASE HandleConnected(s) \/ HandleClosed(s)
    <3>1. /\ UNCHANGED <<pubList, localPubs, faulted>> /\ handler[s] = "idle"
          /\ \/ handler' = handler \/ handler' = [handler EXCEPT ![s] = "sadd"]
             \/ handler' = [handler EXCEPT ![s] = "hdel"]
      BY <2>2, Zenon DEF HandleConnected, HandleClosed
    <3> QED
      BY <1>1, <1>2, <3>1
  <2>3. CASE RemoveMedia(s) \/ SendLeft(s)
    <3>1. ~faulted
      BY <2>3 DEF RemoveMedia, SendLeft, Fails
    <3>2. /\ UNCHANGED <<pubList, localPubs>>
          /\ handler[s] \in {"hdel", "left"}
          /\ \E h \in {"left", "srem"} : handler' = [handler EXCEPT ![s] = h]
      BY <2>3 DEF RemoveMedia, SendLeft
    <3> QED
      BY <1>1, <1>2, <3>1, <3>2
  <2>4. CASE AddToRedis(s)
    BY <1>1, <1>2, <2>1, <2>4 DEF AddToRedis, RedisThenLocal, Fails
  <2>5. CASE AddLocally(s)
    BY <1>1, <1>2, <2>1, <2>5 DEF AddLocally
  <2>6. CASE RemoveFromRedis(s)
    BY <1>1, <1>2, <2>1, <2>6 DEF RemoveFromRedis, RedisThenLocal, Fails
  <2>7. CASE RemoveLocally(s)
    BY <1>1, <1>2, <2>1, <2>7 DEF RemoveLocally
  <2> QED
    BY <1>5, <2>2, <2>3, <2>4, <2>5, <2>6, <2>7 DEF StateTask
<1> QED
  BY <1>3, <1>4, <1>5 DEF Next

\* Redis and the local state hold the same publishers whenever no handler is
\* between its two halves.
THEOREM RedisAlwaysMatchesLocal == Spec => []RedisMatchesLocal
<1>1. Init => ListInv
  BY DEF Init, ListInv
<1>2. ListInv => RedisMatchesLocal
  BY DEF ListInv, RedisMatchesLocal
<1> QED
  BY <1>1, <1>2, ListNext, TypeCorrect, PTL DEF Spec

-----------------------------------------------------------------------------
(* The list while the connection is up *)

\* Nobody but the network and close changes the connection, and nobody but the
\* handler takes its calls.
LEMMA LinkChanges ==
    ASSUME NEW s \in Sessions, MainTask(s) \/ Network(s) \/ TrackTask(s)
    PROVE  \/ UNCHANGED <<link, events>>
           \/ LinkUp(s) \/ LinkLost(s) \/ LinkFails(s) \/ LinkCloses(s)
<1>1. CASE MainTask(s)
  BY <1>1 DEF MainTask, Publish, Negotiate, Answer, Wait, Expire, Close, linkVars
<1>2. CASE Network(s)
  BY <1>2 DEF Network, Connect, Disconnect, GiveUp, Stop, Arrive, linkVars
<1>3. CASE TrackTask(s)
  BY <1>3 DEF TrackTask, OnTrack, CountMedia, Check, SendJoin, linkVars
<1> QED
  BY <1>1, <1>2, <1>3

\* The connection comes up with a call to be made, and the call begins add_publisher.
LEMMA UpNext == TypeOK /\ UpInv /\ [Next]_vars => UpInv'
<1> DEFINE Up(r, h, p, l) ==
             \/ h = "sadd"
             \/ h = "insert" /\ Id[r] \in p
             \/ h = "idle" /\ Id[r] \in p /\ Id[r] \in l
<1> SUFFICES ASSUME TypeOK, UpInv, [Next]_vars, NEW r \in Sessions,
                    Alone(r), ~faulted', ~isClosed'[r], events'[r] = <<>>,
                    link'[r] = "connected"
             PROVE  Up(r, handler'[r], pubList', localPubs')
  BY DEF UpInv, Alone
<1>1. ~faulted /\ ~isClosed[r] /\ events[r] = <<>> /\ link[r] = "connected" =>
          Up(r, handler[r], pubList, localPubs)
  BY DEF UpInv
<1>2. /\ LinkType
      /\ link \in [Sessions -> LinkStates] /\ events \in [Sessions -> Seq(LinkStates)]
      /\ handler \in [Sessions -> HandlerStages] /\ isClosed \in [Sessions -> BOOLEAN]
  BY DEF TypeOK, LinkType
<1> HIDE DEF Up
<1>3. CASE UNCHANGED vars
  BY <1>1, <1>3 DEF vars, sharedVars, handlerVars, linkVars
<1>4. ASSUME NEW s \in Sessions, MainTask(s) \/ Network(s) \/ TrackTask(s)
      PROVE  Up(r, handler'[r], pubList', localPubs')
  <2>1. UNCHANGED <<pubList, localPubs, handler, isClosed>> /\ ~faulted
    BY <1>4, OthersStayAway DEF handlerVars
  <2>2. CASE UNCHANGED <<link, events>>
    BY <1>1, <2>1, <2>2
  <2>3. ASSUME NEW state \in LinkStates, Goes(s, state)
        PROVE  link'[r] = link[r] /\ events'[r] = events[r]
    <3>1. Append(events[s], state) # <<>>
      <4>1. events[s] \in Seq(LinkStates)
        BY <1>2
      <4> QED
        BY <4>1
    <3>2. s # r
      BY <1>2, <2>3, <3>1 DEF Goes
    <3> QED
      BY <1>2, <2>3, <3>2 DEF Goes
  <2>4. \/ UNCHANGED <<link, events>>
        \/ \E state \in LinkStates : Goes(s, state)
    BY <1>4, LinkChanges DEF LinkUp, LinkLost, LinkFails, LinkCloses, LinkStates
  <2> QED
    BY <1>1, <2>1, <2>2, <2>3, <2>4
<1>5. ASSUME NEW s \in Sessions, StateTask(s)
      PROVE  Up(r, handler'[r], pubList', localPubs')
  <2> USE DEF GoHandler, Works
  <2>1. s # r => Id[s] # Id[r]
    BY DEF Alone
  <2>2. CASE HandleConnected(s)
    <3>1. UNCHANGED <<pubList, localPubs, isClosed, faulted, link>>
      BY <2>2 DEF HandleConnected, Called, sharedVars
    <3>2. s # r => handler'[r] = handler[r] /\ events'[r] = events[r]
      BY <1>2, <2>2 DEF HandleConnected, Called
    <3>3. s = r => handler'[r] = "sadd"
      BY <1>2, <2>2 DEF HandleConnected
    <3> QED
      BY <1>1, <3>1, <3>2, <3>3 DEF Up
  <2>3. CASE HandleClosed(s)
    <3>1. UNCHANGED <<pubList, localPubs, faulted, link>>
      BY <2>3 DEF HandleClosed, Called, sharedVars
    <3>2. events' = [events EXCEPT ![s] = Tail(@)]
      BY <2>3 DEF HandleClosed, Called
    <3>3. \/ isClosed[s] /\ UNCHANGED <<handler, isClosed>>
          \/ /\ isClosed' = [isClosed EXCEPT ![s] = TRUE]
             /\ handler' = [handler EXCEPT ![s] = "hdel"]
      BY <2>3, Zenon DEF HandleClosed, GoHandler
    <3>4. s # r
      BY <1>2, <3>3
    <3>5. events'[r] = events[r] /\ handler'[r] = handler[r] /\ isClosed'[r] = isClosed[r]
      BY <1>2, <3>2, <3>3, <3>4
    <3> QED
      BY <1>1, <3>1, <3>5
  <2>4. CASE AddToRedis(s)
    <3>1. /\ UNCHANGED <<link, events, isClosed, localPubs>> /\ ~faulted
          /\ pubList' = pubList \union {Id[s]} /\ handler' = [handler EXCEPT ![s] = "insert"]
      BY <2>4 DEF AddToRedis, RedisThenLocal, Fails, linkVars
    <3> QED
      BY <1>1, <1>2, <2>1, <3>1 DEF Up
  <2>5. CASE AddLocally(s)
    <3>1. /\ UNCHANGED <<link, events, isClosed, pubList, faulted>> /\ handler[s] = "insert"
          /\ localPubs' = localPubs \union {Id[s]} /\ handler' = [handler EXCEPT ![s] = "idle"]
      BY <2>5 DEF AddLocally, linkVars
    <3> QED
      BY <1>1, <1>2, <2>1, <3>1 DEF Up
  <2>6. CASE RemoveMedia(s) \/ SendLeft(s) \/ RemoveFromRedis(s) \/ RemoveLocally(s)
    <3> USE <2>6 DEF RemoveMedia, SendLeft, RemoveFromRedis, RemoveLocally, RedisThenLocal, Fails
    <3>1. UNCHANGED <<link, events, isClosed>> /\ ~faulted
      BY DEF linkVars
    <3>2. /\ handler[s] \in {"hdel", "left", "srem", "remove"}
          /\ \E h \in HandlerStages : handler' = [handler EXCEPT ![s] = h]
      BY DEF HandlerStages
    <3>3. /\ pubList' \in {pubList, pubList \ {Id[s]}}
          /\ localPubs' \in {localPubs, localPubs \ {Id[s]}}
      BY DEF sharedVars
    <3> HIDE <2>6 DEF RemoveMedia, SendLeft, RemoveFromRedis, RemoveLocally, RedisThenLocal, Fails
    <3>4. s # r \/ ~Up(r, handler[r], pubList, localPubs)
      BY <3>2 DEF Up
    <3> QED
      BY <1>1, <1>2, <2>1, <3>1, <3>2, <3>3, <3>4 DEF Up
  <2> QED
    BY <1>5, <2>2, <2>3, <2>4, <2>5, <2>6 DEF StateTask
<1> QED
  BY <1>3, <1>4, <1>5 DEF Next

\* Whoever else comes and goes, a publisher whose connection is up is listed.
THEOREM PublisherIsListed == Spec => []ListedWhileUp
<1>1. Init => UpInv
  BY DEF Init, LinkInit, UpInv
<1>2. UpInv => ListedWhileUp
  BY DEF UpInv, ListedWhileUp
<1> QED
  BY <1>1, <1>2, UpNext, TypeCorrect, PTL DEF Spec

-----------------------------------------------------------------------------
(* What a closed session leaves *)

\* Tracks are counted by on_track and removed by the state handler, and by nobody
\* else.
LEMMA CountsChange ==
    ASSUME NEW s \in Sessions, MainTask(s) \/ Network(s) \/ TrackTask(s)
    PROVE  UNCHANGED <<media, late>> \/ Counted(s)
<1>1. CASE MainTask(s)
  BY <1>1 DEF MainTask, Publish, Negotiate, Answer, Wait, Expire, Close, sharedVars, trackVars
<1>2. CASE Network(s)
  BY <1>2 DEF Network, Connect, Disconnect, GiveUp, Stop, Arrive, sharedVars, trackVars
<1>3. CASE TrackTask(s)
  BY <1>3 DEF TrackTask, OnTrack, CountMedia, Check, SendJoin, sharedVars
<1> QED
  BY <1>1, <1>2, <1>3

\* Each stage of the handler removes one entry, and nothing puts it back but a
\* late count or a connection that comes back.
LEMMA CleanNext == TypeOK /\ CleanInv /\ [Next]_vars => CleanInv'
<1> DEFINE Clean(r, h, m, p, l) ==
             /\ h # "insert"
             /\ h # "hdel" => m[Id[r]] = 0
             /\ h = "remove" => Id[r] \notin p
             /\ h \in {"idle", "sadd"} => Id[r] \notin p /\ Id[r] \notin l
<1> SUFFICES ASSUME TypeOK, CleanInv, [Next]_vars, NEW r \in Sessions,
                    Alone(r), isClosed'[r], ~late'[r], ~revived'[r], ~faulted'
             PROVE  Clean(r, handler'[r], media', pubList', localPubs')
  BY DEF CleanInv, Alone
<1>1. isClosed[r] /\ ~late[r] /\ ~revived[r] /\ ~faulted =>
          Clean(r, handler[r], media, pubList, localPubs)
  BY DEF CleanInv
<1>2. /\ media \in [FullIds -> Nat] /\ handler \in [Sessions -> HandlerStages]
      /\ isClosed \in [Sessions -> BOOLEAN] /\ late \in [Sessions -> BOOLEAN]
      /\ revived \in [Sessions -> BOOLEAN] /\ Id \in [Sessions -> FullIds]
  BY PublisherAssumption DEF TypeOK
<1> HIDE DEF Clean
<1>3. CASE UNCHANGED vars
  BY <1>1, <1>3 DEF vars, sharedVars, handlerVars, trackVars
<1>4. ASSUME NEW s \in Sessions, MainTask(s) \/ Network(s) \/ TrackTask(s)
      PROVE  Clean(r, handler'[r], media', pubList', localPubs')
  <2>1. UNCHANGED <<pubList, localPubs, handler, isClosed, revived>> /\ ~faulted
    BY <1>4, OthersStayAway DEF handlerVars
  <2>2. CASE UNCHANGED <<media, late>>
    BY <1>1, <2>1, <2>2
  <2>3. CASE Counted(s)
    <3>1. late' = [late EXCEPT ![s] = late[s] \/ isClosed[s]]
      BY <2>3 DEF Counted
    <3>2. s # r /\ ~late[r]
      BY <1>2, <2>1, <3>1, Zenon
    <3>3. media'[Id[r]] = media[Id[r]]
      BY <1>2, <2>3, <3>2 DEF Counted, Alone
    <3> QED
      BY <1>1, <2>1, <3>2, <3>3 DEF Clean
  <2> QED
    BY <1>4, <2>2, <2>3, CountsChange
<1>5. ASSUME NEW s \in Sessions, StateTask(s)
      PROVE  Clean(r, handler'[r], media', pubList', localPubs')
  <2> USE DEF GoHandler, Works
  <2>1. s # r => Id[s] # Id[r]
    BY DEF Alone
  <2>2. CASE HandleConnected(s)
    <3>1. /\ UNCHANGED <<media, pubList, localPubs, faulted, isClosed, late, revived>>
          /\ handler[s] = "idle" /\ handler' = [handler EXCEPT ![s] = "sadd"]
      BY <2>2 DEF HandleConnected, sharedVars, trackVars
    <3> QED
      BY <1>1, <1>2, <3>1 DEF Clean
  <2>3. CASE HandleClosed(s)
    <3>1. UNCHANGED <<media, pubList, localPubs, faulted, late, revived>>
      BY <2>3 DEF HandleClosed, sharedVars, trackVars
    <3>2. \/ UNCHANGED <<handler, isClosed>>
          \/ /\ isClosed' = [isClosed EXCEPT ![s] = TRUE]
             /\ handler' = [handler EXCEPT ![s] = "hdel"]
      BY <2>3, Zenon DEF HandleClosed
    <3>3. CASE UNCHANGED <<handler, isClosed>>
      BY <1>1, <3>1, <3>3
    <3>4. CASE s = r /\ handler'[r] = "hdel"
      BY <3>4 DEF Clean
    <3>5. CASE s # r /\ handler'[r] = handler[r] /\ isClosed'[r] = isClosed[r]
      BY <1>1, <3>1, <3>5
    <3> QED
      BY <1>2, <3>2, <3>3, <3>4, <3>5
  <2>4. CASE AddToRedis(s)
    <3>1. /\ UNCHANGED <<media, localPubs, isClosed, late>> /\ ~faulted
          /\ pubList' = pubList \union {Id[s]}
          /\ handler' = [handler EXCEPT ![s] = "insert"]
      BY <2>4 DEF AddToRedis, RedisThenLocal, Fails, trackVars
    <3>2. revived' = [revived EXCEPT ![s] = revived[s] \/ isClosed[s]]
      BY <2>4 DEF AddToRedis
    <3>3. s # r /\ ~revived[r]
      BY <1>2, <3>1, <3>2, Zenon
    <3> QED
      BY <1>1, <1>2, <2>1, <3>1, <3>3 DEF Clean
  <2>5. CASE AddLocally(s)
    <3>1. /\ UNCHANGED <<media, pubList, isClosed, late, revived, faulted>>
          /\ handler[s] = "insert" /\ localPubs' = localPubs \union {Id[s]}
          /\ handler' = [handler EXCEPT ![s] = "idle"]
      BY <2>5 DEF AddLocally, trackVars
    <3> QED
      BY <1>1, <1>2, <2>1, <3>1 DEF Clean
  <2>6. CASE RemoveMedia(s)
    <3>1. /\ UNCHANGED <<pubList, localPubs, isClosed, late, revived>> /\ ~faulted
          /\ media' = [media EXCEPT ![Id[s]] = 0]
          /\ handler[s] = "hdel" /\ handler' = [handler EXCEPT ![s] = "left"]
      BY <2>6 DEF RemoveMedia, Fails, trackVars
    <3> QED
      BY <1>1, <1>2, <2>1, <3>1 DEF Clean
  <2>7. CASE SendLeft(s)
    <3>1. /\ UNCHANGED <<media, pubList, localPubs, isClosed, late, revived>> /\ ~faulted
          /\ handler[s] = "left" /\ handler' = [handler EXCEPT ![s] = "srem"]
      BY <2>7 DEF SendLeft, Fails, sharedVars, trackVars
    <3> QED
      BY <1>1, <1>2, <3>1 DEF Clean
  <2>8. CASE RemoveFromRedis(s)
    <3>1. /\ UNCHANGED <<media, localPubs, isClosed, late, revived>> /\ ~faulted
          /\ pubList' = pubList \ {Id[s]}
          /\ handler[s] = "srem" /\ handler' = [handler EXCEPT ![s] = "remove"]
      BY <2>8 DEF RemoveFromRedis, RedisThenLocal, Fails, trackVars
    <3> QED
      BY <1>1, <1>2, <2>1, <3>1 DEF Clean
  <2>9. CASE RemoveLocally(s)
    <3>1. /\ UNCHANGED <<media, pubList, isClosed, late, revived, faulted>>
          /\ handler[s] = "remove" /\ localPubs' = localPubs \ {Id[s]}
          /\ handler' = [handler EXCEPT ![s] = "idle"]
      BY <2>9 DEF RemoveLocally, trackVars
    <3> QED
      BY <1>1, <1>2, <2>1, <3>1 DEF Clean
  <2> QED
    BY <1>5, <2>2, <2>3, <2>4, <2>5, <2>6, <2>7, <2>8, <2>9 DEF StateTask
<1> QED
  BY <1>3, <1>4, <1>5 DEF Next

\* What Append and Tail make of calls that come in order.
LEMMA CallsInOrder ==
    ASSUME NEW q \in Seq(LinkStates)
    PROVE  /\ \A x \in LinkStates :
                 /\ Ups(q) /\ x = "connected" => Ups(Append(q, x))
                 /\ Downs(q) /\ x # "connected" => Downs(Append(q, x))
                 /\ UpsFirst(q) /\ x # "connected" => UpsFirst(Append(q, x))
           /\ Ups(q) => UpsFirst(q)
           /\ q # <<>> =>
                 /\ Ups(q) => Ups(Tail(q)) /\ Head(q) = "connected"
                 /\ Downs(q) => Downs(Tail(q)) /\ Head(q) # "connected"
                 /\ UpsFirst(q) => UpsFirst(Tail(q))
                 /\ UpsFirst(q) /\ Head(q) # "connected" => Downs(Tail(q))
<1>1. ASSUME NEW x \in LinkStates
      PROVE  /\ Len(Append(q, x)) = Len(q) + 1
             /\ \A n \in 1 .. Len(q) : Append(q, x)[n] = q[n]
             /\ Append(q, x)[Len(q) + 1] = x
  OBVIOUS
<1>2. ASSUME q # <<>>
      PROVE  /\ Len(q) > 0 /\ Len(Tail(q)) = Len(q) - 1 /\ Head(q) = q[1]
             /\ \A n \in 1 .. Len(q) - 1 : Tail(q)[n] = q[n + 1]
  BY <1>2
<1>3. Len(q) \in Nat
  OBVIOUS
<1>4. Ups(q) => UpsFirst(q)
  BY DEF Ups, UpsFirst
<1>5. ASSUME NEW x \in LinkStates
      PROVE  /\ Ups(q) /\ x = "connected" => Ups(Append(q, x))
             /\ Downs(q) /\ x # "connected" => Downs(Append(q, x))
             /\ UpsFirst(q) /\ x # "connected" => UpsFirst(Append(q, x))
  <2>1. Ups(q) /\ x = "connected" => Ups(Append(q, x))
    BY <1>1, <1>3, SMT DEF Ups
  <2>2. Downs(q) /\ x # "connected" => Downs(Append(q, x))
    BY <1>1, <1>3, SMT DEF Downs
  <2>3. UpsFirst(q) /\ x # "connected" => UpsFirst(Append(q, x))
    BY <1>1, <1>3, SMT DEF UpsFirst
  <2> QED
    BY <2>1, <2>2, <2>3
<1>6. ASSUME q # <<>>
      PROVE  /\ Ups(q) => Ups(Tail(q)) /\ Head(q) = "connected"
             /\ Downs(q) => Downs(Tail(q)) /\ Head(q) # "connected"
             /\ UpsFirst(q) => UpsFirst(Tail(q))
             /\ UpsFirst(q) /\ Head(q) # "connected" => Downs(Tail(q))
  <2>1. Ups(q) => Ups(Tail(q)) /\ Head(q) = "connected"
    BY <1>2, <1>3, <1>6, SMT DEF Ups
  <2>2. Downs(q) => Downs(Tail(q)) /\ Head(q) # "connected"
    BY <1>2, <1>3, <1>6, SMT DEF Downs
  <2>3. UpsFirst(q) => UpsFirst(Tail(q))
    BY <1>2, <1>3, <1>6, SMT DEF UpsFirst
  <2>4. UpsFirst(q) /\ Head(q) # "connected" => Downs(Tail(q))
    BY <1>2, <1>3, <1>6, SMT DEF UpsFirst, Downs
  <2> QED
    BY <2>1, <2>2, <2>3, <2>4
<1> QED
  BY <1>4, <1>5, <1>6

\* The connection of a session that was never lost goes up once and down once.
LEMMA BackLink ==
    ASSUME TypeOK, NEW r \in Sessions, Back(r), drops[r] = 0, drops'[r] = 0,
           LinkUp(r) \/ LinkLost(r) \/ LinkFails(r) \/ LinkCloses(r),
           UNCHANGED <<isClosed, handler, revived>>
    PROVE  Back(r)'
<1>1. /\ link \in [Sessions -> LinkStates] /\ events \in [Sessions -> Seq(LinkStates)]
      /\ drops \in [Sessions -> 0 .. MaxDrops] /\ events[r] \in Seq(LinkStates)
  BY DEF TypeOK, LinkType
<1>2. ASSUME NEW state \in LinkStates, Goes(r, state)
      PROVE  link'[r] = state /\ events'[r] = Append(events[r], state)
  BY <1>1, <1>2 DEF Goes
<1>3. CASE LinkUp(r)
  <2>1. link[r] = "new" /\ link'[r] = "connected" /\ events'[r] = Append(events[r], "connected")
    BY <1>2, <1>3 DEF LinkUp, LinkStates, Back
  <2>2. Ups(events[r]) /\ ~isClosed[r]
    BY <2>1 DEF Back
  <2>3. Ups(events'[r])
    BY <1>1, <2>1, <2>2, CallsInOrder DEF LinkStates
  <2>4. events'[r] \in Seq(LinkStates)
    BY <1>1, <2>1, SeqType DEF LinkStates
  <2>5. UpsFirst(events'[r])
    BY <2>3, <2>4, CallsInOrder
  <2> QED
    BY <2>1, <2>2, <2>3, <2>5 DEF Back
<1>4. CASE LinkLost(r)
  BY <1>1, <1>4 DEF LinkLost
<1>5. ASSUME NEW state \in {"failed", "closed"}, Goes(r, state)
      PROVE  Back(r)'
  <2>1. link'[r] = state /\ events'[r] = Append(events[r], state)
    BY <1>2, <1>5 DEF LinkStates
  <2>2. /\ UpsFirst(events'[r])
        /\ Downs(events[r]) => Downs(events'[r])
    BY <1>1, <1>5, <2>1, CallsInOrder DEF Back, LinkStates
  <2> QED
    BY <2>1, <2>2 DEF Back
<1>6. CASE UNCHANGED <<link, events>>
  BY <1>6 DEF Back
<1> QED
  BY <1>3, <1>4, <1>5, <1>6 DEF LinkFails, LinkCloses

\* The handler sees a connection that was never lost come up before it closes it.
LEMMA BackNext == TypeOK /\ BackInv /\ [Next]_vars => BackInv'
<1> SUFFICES ASSUME TypeOK, BackInv, [Next]_vars, NEW r \in Sessions, drops'[r] = 0
             PROVE  Back(r)'
  BY DEF BackInv
<1>1. /\ link \in [Sessions -> LinkStates] /\ events \in [Sessions -> Seq(LinkStates)]
      /\ drops \in [Sessions -> 0 .. MaxDrops] /\ handler \in [Sessions -> HandlerStages]
      /\ isClosed \in [Sessions -> BOOLEAN] /\ revived \in [Sessions -> BOOLEAN]
  BY DEF TypeOK, LinkType
<1>2. drops[r] = 0 => Back(r)
  BY DEF BackInv
<1>3. CASE UNCHANGED <<link, events, drops, isClosed, handler, revived>>
  BY <1>2, <1>3 DEF Back
<1>4. ASSUME NEW s \in Sessions, MainTask(s) \/ Network(s) \/ TrackTask(s)
      PROVE  Back(r)'
  <2>1. UNCHANGED <<isClosed, handler, revived>>
    BY <1>4, OthersStayAway DEF handlerVars
  <2>2. \/ UNCHANGED linkVars
        \/ LinkUp(s) \/ LinkLost(s) \/ LinkFails(s) \/ LinkCloses(s)
    BY <1>4 DEF MainTask, Publish, Negotiate, Answer, Wait, Expire, Close, Network, Connect,
                Disconnect, GiveUp, Stop, Arrive, TrackTask, OnTrack, CountMedia, Check, SendJoin
  <2>3. CASE UNCHANGED linkVars
    BY <1>3, <2>1, <2>3 DEF linkVars
  <2>4. CASE LinkUp(s) \/ LinkLost(s) \/ LinkFails(s) \/ LinkCloses(s)
    <3>1. s # r => link'[r] = link[r] /\ events'[r] = events[r] /\ drops'[r] = drops[r]
      BY <1>1, <2>4 DEF LinkUp, LinkLost, LinkFails, LinkCloses, Goes
    <3>2. drops[r] = 0
      BY <1>1, <2>4 DEF LinkUp, LinkLost, LinkFails, LinkCloses
    <3>3. CASE s # r
      BY <1>2, <2>1, <3>1, <3>2, <3>3 DEF Back
    <3> QED
      BY <1>2, <2>1, <2>4, <3>2, <3>3, BackLink
  <2> QED
    BY <2>2, <2>3, <2>4
<1>5. ASSUME NEW s \in Sessions, StateTask(s)
      PROVE  Back(r)'
  <2>1. UNCHANGED <<link, drops>> /\ Back(r)
    BY <1>2, <1>5 DEF StateTask, HandleConnected, AddToRedis, AddLocally, HandleClosed,
                      RemoveMedia, SendLeft, RemoveFromRedis, RemoveLocally, Called, linkVars
  <2>2. ASSUME NEW state, Called(s, state), s = r
        PROVE  /\ Ups(events[r]) => Ups(events'[r]) /\ state = "connected"
               /\ Downs(events[r]) => Downs(events'[r]) /\ state # "connected"
               /\ UpsFirst(events'[r])
               /\ state # "connected" => Downs(events'[r])
    <3>1. /\ events[r] \in Seq(LinkStates) /\ events[r] # <<>> /\ Head(events[r]) = state
          /\ events'[r] = Tail(events[r])
      BY <1>1, <2>2 DEF Called
    <3> QED
      BY <2>1, <3>1, CallsInOrder DEF Back
  <2>3. CASE HandleConnected(s)
    <3>1. /\ UNCHANGED <<isClosed, revived>> /\ Called(s, "connected")
          /\ handler' = [handler EXCEPT ![s] = "sadd"]
      BY <2>3 DEF HandleConnected, GoHandler
    <3>2. s # r => handler'[r] = handler[r] /\ events'[r] = events[r]
      BY <1>1, <3>1 DEF Called
    <3>3. CASE s = r
      BY <2>1, <2>2, <3>1, <3>3 DEF Back
    <3> QED
      BY <2>1, <3>1, <3>2, <3>3 DEF Back
  <2>4. CASE HandleClosed(s)
    <3>1. UNCHANGED revived
      BY <2>4 DEF HandleClosed
    <3>2. PICK state \in {"disconnected", "failed", "closed"} : Called(s, state)
      BY <2>4 DEF HandleClosed
    <3>3. \/ UNCHANGED <<handler, isClosed>>
          \/ /\ isClosed' = [isClosed EXCEPT ![s] = TRUE]
             /\ handler' = [handler EXCEPT ![s] = "hdel"]
      BY <2>4, Zenon DEF HandleClosed, GoHandler
    <3>4. CASE s # r
      <4>1. /\ handler'[r] = handler[r] /\ isClosed'[r] = isClosed[r]
            /\ events'[r] = events[r]
        BY <1>1, <3>2, <3>3, <3>4 DEF Called
      <4> QED
        BY <2>1, <3>1, <4>1 DEF Back
    <3>5. CASE s = r
      <4>1. UpsFirst(events'[r]) /\ Downs(events'[r]) /\ ~Ups(events[r])
        BY <2>2, <3>2, <3>5
      <4>2. handler'[r] # "sadd"
        <5>1. handler[r] = "idle"
          BY <2>4, <3>5 DEF HandleClosed
        <5> QED
          BY <1>1, <3>3, <3>5, <5>1
      <4> QED
        BY <2>1, <3>1, <4>1, <4>2 DEF Back
    <3> QED
      BY <3>4, <3>5
  <2>5. CASE AddToRedis(s)
    <3>1. /\ UNCHANGED <<events, isClosed>> /\ handler[s] = "sadd"
          /\ handler'[r] # "sadd" \/ handler'[r] = handler[r]
      BY <1>1, <2>5 DEF AddToRedis, RedisThenLocal, GoHandler, linkVars
    <3>2. revived' = [revived EXCEPT ![s] = revived[s] \/ isClosed[s]]
      BY <2>5 DEF AddToRedis
    <3>3. ~revived'[r]
      <4>1. CASE s = r
        <5>1. ~isClosed[s] /\ ~revived[s]
          BY <2>1, <3>1, <4>1 DEF Back
        <5> QED
          BY <1>1, <3>2, <4>1, <5>1, Zenon
      <4>2. CASE s # r
        <5>1. ~revived[r]
          BY <2>1 DEF Back
        <5> QED
          BY <1>1, <3>2, <4>2, <5>1, Zenon
      <4> QED
        BY <4>1, <4>2
    <3> QED
      BY <2>1, <3>1, <3>3 DEF Back
  <2>6. CASE AddLocally(s) \/ RemoveMedia(s) \/ SendLeft(s) \/ RemoveFromRedis(s) \/ RemoveLocally(s)
    <3>1. /\ UNCHANGED <<events, isClosed, revived>>
          /\ handler'[r] # "sadd" \/ handler'[r] = handler[r]
      BY <1>1, <2>6 DEF AddLocally, RemoveMedia, SendLeft, RemoveFromRedis, RemoveLocally,
                        RedisThenLocal, GoHandler, linkVars
    <3> QED
      BY <2>1, <3>1 DEF Back
  <2> QED
    BY <1>5, <2>3, <2>4, <2>5, <2>6 DEF StateTask
<1> QED
  BY <1>3, <1>4, <1>5 DEF Next, vars, linkVars, handlerVars

\* A closed session at rest has left nothing in Redis or the local state, but
\* for the reasons that CleanedUpUnless names: there are no others.
THEOREM ClosedLeavesNothing == Spec => []CleanedUpUnless
<1>1. Init => CleanInv /\ BackInv
  BY DEF Init, CleanInv, BackInv, Back, Ups, UpsFirst, LinkInit
<1>2. CleanInv /\ BackInv /\ TypeOK => CleanedUpUnless
  <2> SUFFICES ASSUME CleanInv, BackInv, TypeOK, NEW s \in Sessions, AtRest(s), Alone(s),
                      ~late[s], ~faulted
               PROVE  NothingLeft(s) \/ (revived[s] /\ drops[s] > 0)
    BY DEF CleanedUpUnless
  <2>1. drops[s] = 0 \/ drops[s] > 0
    BY PeerConnectionAssumption DEF TypeOK, LinkType
  <2>2. drops[s] = 0 => ~revived[s]
    BY DEF BackInv, Back
  <2>3. ~revived[s] => NothingLeft(s)
    BY DEF CleanInv, AtRest, NothingLeft
  <2> QED
    BY <2>1, <2>2, <2>3
<1> QED
  BY <1>1, <1>2, CleanNext, BackNext, TypeCorrect, PTL DEF Spec

-----------------------------------------------------------------------------
(* The main task of a closed session *)

\* The handler's notification meets a waiting main task, or one that is deaf to it.
LEMMA ClosedNext == TypeOK /\ ClosedInv /\ [Next]_vars => ClosedInv'
<1> DEFINE Shut(m, l, e, c, d) ==
             /\ m \in {"idle", "refused", "spawned"} => l = "new" /\ e = <<>> /\ ~c
             /\ m = "ended" => l = "closed"
             /\ c /\ m \in {"negotiating", "answered", "waiting"} => d
<1> SUFFICES ASSUME TypeOK, ClosedInv, [Next]_vars, NEW r \in Sessions
             PROVE  Shut(main'[r], link'[r], events'[r], isClosed'[r], deaf'[r])
  BY DEF ClosedInv
<1>1. Shut(main[r], link[r], events[r], isClosed[r], deaf[r])
  BY DEF ClosedInv
<1>2. /\ main \in [Sessions -> MainStages] /\ link \in [Sessions -> LinkStates]
      /\ events \in [Sessions -> Seq(LinkStates)]
      /\ isClosed \in [Sessions -> BOOLEAN] /\ deaf \in [Sessions -> BOOLEAN]
  BY DEF TypeOK, LinkType
<1>3. CASE UNCHANGED <<main, link, events, isClosed, deaf>>
  BY <1>1, <1>3
<1> USE DEF GoMain
<1>4. ASSUME NEW s \in Sessions, Publish(s) \/ Negotiate(s) \/ Answer(s) \/ Wait(s) \/ Expire(s)
      PROVE  Shut(main'[r], link'[r], events'[r], isClosed'[r], deaf'[r])
  <2>1. UNCHANGED <<link, events, isClosed, deaf>>
    BY <1>4 DEF Publish, Negotiate, Answer, Wait, Expire, linkVars, handlerVars
  <2>2. \/ main'[r] = main[r]
        \/ main[r] \in {"idle", "spawned"} /\ main'[r] \in {"refused", "spawned", "negotiating"}
        \/ main[r] \in {"negotiating", "answered"}
               /\ main'[r] \in {"answered", "waiting", "failed"}
        \/ main'[r] = "expired"
    BY <1>2, <1>4 DEF Publish, Negotiate, Answer, Wait, Expire
  <2> QED
    BY <1>1, <2>1, <2>2
<1>5. ASSUME NEW s \in Sessions, Close(s)
      PROVE  Shut(main'[r], link'[r], events'[r], isClosed'[r], deaf'[r])
  <2>1. UNCHANGED <<isClosed, deaf>> /\ main' = [main EXCEPT ![s] = "ended"]
    BY <1>5 DEF Close, handlerVars
  <2>2. CASE s = r
    <3>1. link'[r] = "closed"
      BY <1>2, <1>5, <2>2 DEF Close, LinkCloses, Goes
    <3> QED
      BY <1>2, <2>1, <2>2, <3>1
  <2>3. CASE s # r
    <3>1. link'[r] = link[r] /\ events'[r] = events[r]
      BY <1>2, <1>5, <2>3 DEF Close, LinkCloses, Goes
    <3> QED
      BY <1>1, <1>2, <2>1, <2>3, <3>1
  <2> QED
    BY <2>2, <2>3
<1>6. ASSUME NEW s \in Sessions, Network(s)
      PROVE  Shut(main'[r], link'[r], events'[r], isClosed'[r], deaf'[r])
  <2>1. UNCHANGED <<main, isClosed, deaf>>
    BY <1>6 DEF Network, Connect, Disconnect, GiveUp, Stop, Arrive, handlerVars
  <2>2. UNCHANGED <<link, events>> \/ \E state \in LinkStates : Goes(s, state)
    BY <1>6 DEF Network, Connect, Disconnect, GiveUp, Stop, Arrive, linkVars,
                LinkUp, LinkLost, LinkFails, LinkCloses, LinkStates
  <2>3. s # r => link'[r] = link[r] /\ events'[r] = events[r]
    BY <1>2, <2>2 DEF Goes
  <2>4. s = r => \/ UNCHANGED <<link, events>>
                 \/ main[r] \notin {"idle", "refused", "spawned"}
    <3>1. CASE main[s] \in {"idle", "refused", "spawned"} /\ s = r
      <4>1. link[s] = "new"
        BY <1>1, <3>1
      <4> QED
        BY <1>6, <3>1, <4>1
        DEF Network, Connect, Disconnect, GiveUp, Stop, Arrive, linkVars, LinkLost
    <3> QED
      BY <3>1
  <2>5. link[r] = "closed" => link'[r] = "closed"
    BY <1>2, <1>6 DEF Network, Connect, Disconnect, GiveUp, Stop, Arrive, linkVars,
                      LinkUp, LinkLost, LinkFails, LinkCloses, Goes
  <2> QED
    BY <1>1, <2>1, <2>3, <2>4, <2>5
<1>7. ASSUME NEW s \in Sessions, TrackTask(s)
      PROVE  UNCHANGED <<main, link, events, isClosed, deaf>>
  BY <1>7 DEF TrackTask, OnTrack, CountMedia, Check, SendJoin, linkVars, handlerVars
<1>8. ASSUME NEW s \in Sessions, HandleClosed(s)
      PROVE  Shut(main'[r], link'[r], events'[r], isClosed'[r], deaf'[r])
  <2>1. UNCHANGED link /\ events[s] # <<>> /\ events' = [events EXCEPT ![s] = Tail(@)]
    BY <1>8 DEF HandleClosed, Called
  <2>2. \/ UNCHANGED <<isClosed, main, deaf>>
        \/ isClosed' = [isClosed EXCEPT ![s] = TRUE] /\ Notify(s)
    BY <1>8, Zenon DEF HandleClosed
  <2>3. CASE s # r
    <3>1. main'[r] = main[r] /\ isClosed'[r] = isClosed[r] /\ deaf'[r] = deaf[r]
      BY <1>2, <2>2, <2>3 DEF Notify
    <3> QED
      BY <1>1, <1>2, <2>1, <2>3, <3>1
  <2>4. CASE s = r
    <3>1. main[r] \notin {"idle", "refused", "spawned"}
      BY <1>1, <2>1, <2>4
    <3>2. CASE UNCHANGED <<isClosed, main, deaf>>
      BY <1>1, <2>1, <3>1, <3>2
    <3>3. CASE Notify(s)
      <4>1. main'[r] = IF main[r] = "waiting" THEN "closing" ELSE main[r]
        BY <1>2, <2>4, <3>3 DEF Notify
      <4>2. main[r] \in {"negotiating", "answered"} => deaf'[r]
        BY <1>2, <2>4, <3>3, Zenon DEF Notify
      <4> QED
        BY <1>1, <2>1, <3>1, <4>1, <4>2
    <3> QED
      BY <2>2, <3>2, <3>3
  <2> QED
    BY <2>3, <2>4
<1>9. ASSUME NEW s \in Sessions, HandleConnected(s)
      PROVE  Shut(main'[r], link'[r], events'[r], isClosed'[r], deaf'[r])
  <2>1. /\ UNCHANGED <<link, main, isClosed, deaf>>
        /\ events[s] # <<>> /\ events' = [events EXCEPT ![s] = Tail(@)]
    BY <1>9 DEF HandleConnected, Called
  <2> QED
    BY <1>1, <1>2, <2>1
<1>10. ASSUME NEW s \in Sessions, \/ AddToRedis(s) \/ AddLocally(s) \/ RemoveMedia(s)
                                  \/ SendLeft(s) \/ RemoveFromRedis(s) \/ RemoveLocally(s)
       PROVE  UNCHANGED <<main, link, events, isClosed, deaf>>
  BY <1>10 DEF AddToRedis, AddLocally, RemoveMedia, SendLeft, RemoveFromRedis, RemoveLocally,
               linkVars
<1> QED
  BY <1>3, <1>4, <1>5, <1>6, <1>7, <1>8, <1>9, <1>10
  DEF Next, MainTask, StateTask, vars, linkVars, handlerVars

\* A closed session whose main task rests has its connection closed, but for the reasons
\* that RestIsClosed names.
THEOREM RestIsAlwaysClosed == Spec => []RestIsClosed
<1>1. Init => ClosedInv
  BY DEF Init, ClosedInv, LinkInit
<1>2. TypeOK /\ ClosedInv => RestIsClosed
  BY DEF ClosedInv, RestIsClosed, MainRests, TypeOK, MainStages
<1> QED
  BY <1>1, <1>2, ClosedNext, TypeCorrect, PTL DEF Spec

-----------------------------------------------------------------------------
(* What Redis counts when PubJoin is sent *)

\* on_track alone counts its tracks, until the state handler of the session, or
\* one of its id, removes them.
LEMMA CountNext == TypeOK /\ LeftInv /\ CountInv /\ [Next]_vars => CountInv'
<1> DEFINE Count(m, o, n) ==
             /\ m = IF o = "hincr" THEN n - 1 ELSE n
             /\ o = "join" => n = Total
<1> SUFFICES ASSUME TypeOK, LeftInv, CountInv, [Next]_vars, NEW r \in Sessions,
                    Alone(r), ~isClosed'[r], ~faulted'
             PROVE  Count(media'[Id[r]], onTrack'[r], tracks'[r])
  BY DEF CountInv, Alone
<1>1. ~isClosed[r] /\ ~faulted => Count(media[Id[r]], onTrack[r], tracks[r])
  BY DEF CountInv
<1>2. /\ media \in [FullIds -> Nat] /\ handler \in [Sessions -> HandlerStages]
      /\ onTrack \in [Sessions -> TrackStages] /\ tracks \in [Sessions -> 0 .. Total]
      /\ isClosed \in [Sessions -> BOOLEAN] /\ Id \in [Sessions -> FullIds]
      /\ Total \in Nat
  BY PublisherAssumption DEF TypeOK
<1>3. \A s \in Sessions : s # r => Id[s] # Id[r]
  BY DEF Alone
<1> HIDE DEF Count
<1>4. CASE UNCHANGED vars
  BY <1>1, <1>4 DEF vars, sharedVars, handlerVars, trackVars
<1>5. ASSUME NEW s \in Sessions, MainTask(s) \/ Network(s)
      PROVE  Count(media'[Id[r]], onTrack'[r], tracks'[r])
  <2>1. UNCHANGED isClosed /\ ~faulted
    BY <1>5, OthersStayAway DEF handlerVars
  <2>2. CASE MainTask(s)
    <3>1. UNCHANGED <<media, onTrack, tracks>>
      BY <2>2 DEF MainTask, Publish, Negotiate, Answer, Wait, Expire, Close, sharedVars, trackVars
    <3> QED
      BY <1>1, <2>1, <3>1
  <2>3. CASE Network(s)
    <3>1. UNCHANGED <<media, onTrack, tracks>>
      BY <2>3 DEF Network, Connect, Disconnect, GiveUp, Stop, Arrive, sharedVars, trackVars
    <3> QED
      BY <1>1, <2>1, <3>1
  <2> QED
    BY <1>5, <2>2, <2>3
<1>6. ASSUME NEW s \in Sessions, TrackTask(s)
      PROVE  Count(media'[Id[r]], onTrack'[r], tracks'[r])
  <2> USE DEF GoTrack
  <2>1. UNCHANGED isClosed /\ ~faulted
    BY <1>6, OthersStayAway DEF handlerVars
  <2>2. Count(media[Id[r]], onTrack[r], tracks[r])
    BY <1>1, <2>1
  <2>3. CASE OnTrack(s)
    <3>1. /\ media' = media /\ onTrack[s] = "idle"
          /\ onTrack' = [onTrack EXCEPT ![s] = "hincr"]
          /\ tracks' = [tracks EXCEPT ![s] = @ + 1]
      BY <2>3 DEF OnTrack, sharedVars
    <3> QED
      BY <1>2, <2>2, <3>1 DEF Count
  <2>4. CASE CountMedia(s)
    <3>1. /\ media' = [media EXCEPT ![Id[s]] = @ + 1] /\ tracks' = tracks
          /\ onTrack[s] = "hincr" /\ onTrack' = [onTrack EXCEPT ![s] = "check"]
      BY <2>4 DEF CountMedia, Counted, Fails
    <3> QED
      BY <1>2, <1>3, <2>2, <3>1 DEF Count
  <2>5. CASE Check(s)
    <3>1. /\ media' = media /\ tracks' = tracks /\ onTrack[s] = "check"
          /\ \/ onTrack' = [onTrack EXCEPT ![s] = "idle"]
             \/ tracks[s] >= Total /\ onTrack' = [onTrack EXCEPT ![s] = "join"]
      BY <2>5 DEF Check, sharedVars
    <3> QED
      BY <1>2, <2>2, <3>1 DEF Count
  <2>6. CASE SendJoin(s)
    <3>1. /\ media' = media /\ tracks' = tracks /\ onTrack[s] = "join"
          /\ onTrack' = [onTrack EXCEPT ![s] = "idle"]
      BY <2>6 DEF SendJoin, sharedVars
    <3> QED
      BY <1>2, <2>2, <3>1 DEF Count
  <2> QED
    BY <1>6, <2>3, <2>4, <2>5, <2>6 DEF TrackTask
<1>7. ASSUME NEW s \in Sessions, StateTask(s)
      PROVE  Count(media'[Id[r]], onTrack'[r], tracks'[r])
  <2>1. CASE HandleClosed(s)
    <3>1. UNCHANGED <<media, faulted, onTrack, tracks>>
      BY <2>1 DEF HandleClosed, sharedVars, trackVars
    <3>2. isClosed' = isClosed \/ isClosed' = [isClosed EXCEPT ![s] = TRUE]
      BY <2>1 DEF HandleClosed
    <3>3. ~isClosed[r]
      BY <1>2, <3>2, Zenon
    <3> QED
      BY <1>1, <3>1, <3>3
  <2>2. CASE RemoveMedia(s)
    <3>1. /\ UNCHANGED <<isClosed, onTrack, tracks>> /\ ~faulted
          /\ media' = [media EXCEPT ![Id[s]] = 0] /\ handler[s] = "hdel"
      BY <2>2 DEF RemoveMedia, Fails, trackVars, Works
    <3>2. s # r
      BY <3>1 DEF LeftInv
    <3> QED
      BY <1>1, <1>2, <1>3, <3>1, <3>2
  <2>3. CASE \/ HandleConnected(s) \/ AddToRedis(s) \/ AddLocally(s)
             \/ SendLeft(s) \/ RemoveFromRedis(s) \/ RemoveLocally(s)
    <3>1. UNCHANGED <<isClosed, media, onTrack, tracks>> /\ ~faulted
      BY <2>3 DEF HandleConnected, AddToRedis, AddLocally, SendLeft, RemoveFromRedis,
                  RemoveLocally, RedisThenLocal, Fails, Works, sharedVars, trackVars
    <3> QED
      BY <1>1, <3>1
  <2> QED
    BY <1>7, <2>1, <2>2, <2>3 DEF StateTask
<1> QED
  BY <1>4, <1>5, <1>6, <1>7 DEF Next

\* Unless the session was closed meanwhile or an operation failed, its PubJoin
\* finds all its tracks counted in Redis, for any number of tracks.
THEOREM JoinsAreComplete == Spec => JoinIsComplete
<1> DEFINE Complete ==
             \A s \in Sessions :
                 Alone(s) /\ joins'[s] > joins[s] =>
                     media[Id[s]] = Total \/ isClosed[s] \/ faulted
<1>1. Init => LeftInv /\ CountInv
  <2>1. Init => LeftInv
    BY LeftInit
  <2>2. Init => CountInv
    BY PublisherAssumption DEF Init, CountInv
  <2> QED
    BY <2>1, <2>2
<1>2. TypeOK /\ CountInv /\ [Next]_vars => [Complete]_vars
  <2> SUFFICES ASSUME TypeOK, CountInv, Next, NEW r \in Sessions,
                      Alone(r), joins'[r] > joins[r], ~isClosed[r], ~faulted
               PROVE  media[Id[r]] = Total
    BY DEF Complete
  <2>1. joins \in [Sessions -> Nat]
    BY DEF TypeOK
  <2>2. joins' # joins
    BY <2>1
  <2>3. PICK s \in Sessions : SendJoin(s)
    BY <2>2 DEF Next, MainTask, Network, TrackTask, StateTask, trackVars,
                Publish, Negotiate, Answer, Wait, Expire, Close,
                Connect, Disconnect, GiveUp, Stop, Arrive, OnTrack, CountMedia, Check,
                HandleConnected, AddToRedis, AddLocally, HandleClosed, RemoveMedia,
                SendLeft, RemoveFromRedis, RemoveLocally
  <2>4. onTrack[s] = "join" /\ joins' \in {joins, [joins EXCEPT ![s] = @ + 1]}
    BY <2>3 DEF SendJoin
  <2>5. s = r
    BY <2>1, <2>4
  <2> QED
    BY <2>4, <2>5 DEF CountInv
<1> QED
  BY <1>1, <1>2, LeftNext, CountNext, TypeCorrect, PTL DEF Spec, JoinIsComplete, Complete
=============================================================================
