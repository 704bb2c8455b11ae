------------------------------ MODULE SfuProofs ------------------------------
(***************************************************************************)
(* Theorems about a room with a subscriber (Sfu), for every set of sessions  *)
(* and full ids, every number of tracks and every set of operations that may *)
(* fail.  A step of Sfu is one of Publisher's or leaves Publisher alone, so  *)
(* what PublisherProofs shows holds of a room too.                           *)
(***************************************************************************)
EXTENDS Streams, PublisherProofs

\* A room's publishers are Publisher's.
LEMMA IsPublisher == SfuSpec => Spec
<1>1. SfuInit => Init
  BY DEF SfuInit
<1>2. [SfuNext]_sfuVars => [Next]_vars
  BY DEF SfuNext, Publishing, Look, sfuVars
<1> QED
  BY <1>1, <1>2, PTL DEF SfuSpec, Spec

-----------------------------------------------------------------------------
(* Types *)

\* A room begins with values of the right types.
LEMMA SfuTypeInit == SfuInit => SfuTypeOK
BY TypeInit DEF SfuInit, SfuTypeOK

\* Every step keeps them.
LEMMA SfuTypeNext == SfuTypeOK /\ [SfuNext]_sfuVars => SfuTypeOK'
<1> SUFFICES ASSUME SfuTypeOK, [SfuNext]_sfuVars PROVE SfuTypeOK'
  OBVIOUS
<1>1. TypeOK /\ TypeOK'
  <2>1. [Next]_vars
    BY DEF SfuNext, Publishing, Look, sfuVars
  <2> QED
    BY <2>1, TypeNext DEF SfuTypeOK
<1>2. CASE Publishing
  <2>1. missed' \in [Sessions -> BOOLEAN]
    BY <1>2, Zenon DEF Publishing
  <2>2. due' \in BOOLEAN
    BY <1>2, Zenon DEF Publishing, SfuTypeOK
  <2> QED
    BY <1>1, <1>2, <2>1, <2>2 DEF SfuTypeOK, Publishing
<1>3. CASE Look
  BY <1>1, <1>3 DEF Look, SfuTypeOK, TypeOK
<1>4. CASE UNCHANGED sfuVars
  BY <1>1, <1>4 DEF SfuTypeOK, sfuVars, subVars
<1> QED
  BY <1>2, <1>3, <1>4 DEF SfuNext

\* What a subscriber finds in Redis are counts.
THEOREM SfuTypeCorrect == SfuSpec => []SfuTypeOK
BY SfuTypeInit, SfuTypeNext, PTL DEF SfuSpec

-----------------------------------------------------------------------------
(* What the subscriber shows *)

\* Why a session announces itself once, with its last track.
TrackInv ==
    \A s \in Sessions :
        /\ onTrack[s] = "join" => tracks[s] = Total
        /\ joins[s] # 0 => tracks[s] = Total /\ onTrack[s] = "idle"

\* The subscriber has what Redis has of s, or will look, or is excused.
Shown(s) ==
    \/ seen[Id[s]] = media[Id[s]]
    \/ due \/ missed[s] \/ late[s]
    \/ Dropped(s) /\ joins[s] = 0

\* Why the subscriber has the tracks of a settled session: it is shown from the
\* last track on until the state handler closes it, and again once the handler
\* has sent PubLeft.
ShownInv ==
    \A s \in Sessions :
        Alone(s) =>
            /\ ~isClosed[s] /\ onTrack[s] = "idle" /\ tracks[s] = Total => Shown(s)
            /\ isClosed[s] /\ handler[s] \notin {"hdel", "left"} => Shown(s)

\* What a step of session s does to another session r.
LEMMA OtherSession ==
    ASSUME TypeOK, NEW r \in Sessions, NEW s \in Sessions, s # r, Alone(r),
           MainTask(s) \/ Network(s) \/ TrackTask(s) \/ StateTask(s)
    PROVE  /\ media'[Id[r]] = media[Id[r]] /\ joins'[r] = joins[r]
           /\ onTrack'[r] = onTrack[r] /\ tracks'[r] = tracks[r]
           /\ isClosed'[r] = isClosed[r] /\ handler'[r] = handler[r]
<1>1. Id[s] # Id[r] /\ Id[s] \in FullIds /\ Id[r] \in FullIds
  BY PublisherAssumption DEF Alone
<1>2. /\ media \in [FullIds -> Nat] /\ joins \in [Sessions -> Nat]
      /\ onTrack \in [Sessions -> TrackStages] /\ tracks \in [Sessions -> 0 .. Total]
      /\ isClosed \in [Sessions -> BOOLEAN] /\ handler \in [Sessions -> HandlerStages]
  BY DEF TypeOK
<1>3. CASE MainTask(s) \/ Network(s)
  BY <1>3 DEF MainTask, Network, Publish, Negotiate, Answer, Wait, Expire, Close,
              Connect, Disconnect, GiveUp, Stop, Arrive, sharedVars, handlerVars, trackVars
<1>4. CASE TrackTask(s)
  <2>1. isClosed' = isClosed /\ handler' = handler
    BY <1>4, OthersStayAway DEF handlerVars
  <2>2. media' = media \/ media' = [media EXCEPT ![Id[s]] = @ + 1]
    BY <1>4 DEF TrackTask, OnTrack, CountMedia, Counted, Check, SendJoin, sharedVars
  <2>3. joins' = joins \/ joins' = [joins EXCEPT ![s] = @ + 1]
    BY <1>4 DEF TrackTask, OnTrack, CountMedia, Check, SendJoin
  <2>4. tracks' = tracks \/ tracks' = [tracks EXCEPT ![s] = @ + 1]
    BY <1>4 DEF TrackTask, OnTrack, CountMedia, Check, SendJoin
  <2>5. \E x : onTrack' = [onTrack EXCEPT ![s] = x]
    BY <1>4, Zenon DEF TrackTask, OnTrack, CountMedia, Check, SendJoin, GoTrack
  <2> QED
    BY <1>1, <1>2, <2>1, <2>2, <2>3, <2>4, <2>5
<1>5. CASE StateTask(s)
  <2>1. UNCHANGED <<joins, onTrack, tracks>>
    BY <1>5 DEF StateTask, HandleConnected, AddToRedis, AddLocally, HandleClosed, RemoveMedia,
                SendLeft, RemoveFromRedis, RemoveLocally, trackVars
  <2>2. media' = media \/ \E n : media' = [media EXCEPT ![Id[s]] = n]
    BY <1>5, Zenon DEF StateTask, HandleConnected, AddToRedis, AddLocally, HandleClosed,
                RemoveMedia, SendLeft, RemoveFromRedis, RemoveLocally, sharedVars
  <2>3. isClosed' = isClosed \/ isClosed' = [isClosed EXCEPT ![s] = TRUE]
    BY <1>5, Zenon DEF StateTask, HandleConnected, AddToRedis, AddLocally, HandleClosed,
                RemoveMedia, SendLeft, RemoveFromRedis, RemoveLocally
  <2>4. handler' = handler \/ \E x : handler' = [handler EXCEPT ![s] = x]
    BY <1>5, Zenon DEF StateTask, HandleConnected, AddToRedis, AddLocally, HandleClosed,
                RemoveMedia, SendLeft, RemoveFromRedis, RemoveLocally, RedisThenLocal, GoHandler
  <2> QED
    BY <1>1, <1>2, <2>1, <2>2, <2>3, <2>4
<1> QED
  BY <1>3, <1>4, <1>5

\* A late count stays late, a main task that has returned stays so, and a closed
\* session stays closed.
LEMMA Lasting ==
    ASSUME TypeOK, Next, NEW r \in Sessions
    PROVE  (late[r] => late'[r]) /\ (Dropped(r) => Dropped(r)') /\ (isClosed[r] => isClosed'[r])
<1>1. PICK s \in Sessions : MainTask(s) \/ Network(s) \/ TrackTask(s) \/ StateTask(s)
  BY DEF Next
<1>2. /\ main \in [Sessions -> MainStages] /\ late \in [Sessions -> BOOLEAN]
      /\ isClosed \in [Sessions -> BOOLEAN]
  BY DEF TypeOK
<1>3. late[r] => late'[r]
  <2>1. late' = late \/ late' = [late EXCEPT ![s] = @ \/ isClosed[s]]
    BY <1>1, Zenon DEF MainTask, Network, TrackTask, StateTask, trackVars,
                Publish, Negotiate, Answer, Wait, Expire, Close,
                Connect, Disconnect, GiveUp, Stop, Arrive, OnTrack, CountMedia, Counted, Check,
                SendJoin, HandleConnected, AddToRedis, AddLocally, HandleClosed, RemoveMedia,
                SendLeft, RemoveFromRedis, RemoveLocally
  <2> QED
    BY <1>2, <2>1, Zenon
<1>4. Dropped(r) => Dropped(r)'
  <2>1. \/ main' = main
        \/ ~Dropped(s) /\ \E x : main' = [main EXCEPT ![s] = x]
    BY <1>1, Zenon DEF MainTask, Network, TrackTask, StateTask, Dropped, GoMain, Notify,
                Publish, Negotiate, Answer, Wait, Expire, Close,
                Connect, Disconnect, GiveUp, Stop, Arrive, OnTrack, CountMedia, Check,
                SendJoin, HandleConnected, AddToRedis, AddLocally, HandleClosed, RemoveMedia,
                SendLeft, RemoveFromRedis, RemoveLocally
  <2> QED
    BY <1>2, <2>1 DEF Dropped
<1>5. isClosed[r] => isClosed'[r]
  <2>1. isClosed' = isClosed \/ isClosed' = [isClosed EXCEPT ![s] = TRUE]
    <3>1. CASE StateTask(s)
      BY <3>1, Zenon DEF StateTask, HandleConnected, AddToRedis, AddLocally, HandleClosed,
                RemoveMedia, SendLeft, RemoveFromRedis, RemoveLocally
    <3>2. CASE ~StateTask(s)
      BY <1>1, <3>2, OthersStayAway DEF handlerVars
    <3> QED
      BY <3>1, <3>2
  <2> QED
    BY <1>2, <2>1, Zenon
<1> QED
  BY <1>3, <1>4, <1>5

\* A step that changes neither the count of r nor its announcements leaves it shown.
LEMMA StaysShown ==
    ASSUME SfuTypeOK, Publishing, NEW r \in Sessions, Shown(r),
           media'[Id[r]] = media[Id[r]], joins'[r] = joins[r]
    PROVE  Shown(r)'
<1>1. (late[r] => late'[r]) /\ (Dropped(r) => Dropped(r)')
  BY Lasting DEF Publishing, SfuTypeOK
<1>2. (due => due') /\ (missed[r] => missed'[r]) /\ seen' = seen
  BY Zenon DEF Publishing
<1> QED
  BY <1>1, <1>2 DEF Shown

\* A session that ought to send a command makes a look due, or has missed one.
LEMMA Commanded ==
    ASSUME Publishing, NEW r \in Sessions, SendJoin(r) \/ SendLeft(r)
    PROVE  Shown(r)'
<1>1. CASE UNCHANGED <<joins, lefts>>
  <2>1. Silent(r)
    BY <1>1 DEF Silent
  <2>2. missed'[r]
    BY <2>1 DEF Publishing
  <2> QED
    BY <2>2 DEF Shown
<1>2. CASE ~UNCHANGED <<joins, lefts>>
  <2>1. due'
    BY <1>2 DEF Publishing, Told
  <2> QED
    BY <2>1 DEF Shown
<1> QED
  BY <1>1, <1>2

\* Only on_track changes its count, and it announces the last track.
LEMMA TrackNext == TypeOK /\ TrackInv /\ [Next]_vars => TrackInv'
<1> SUFFICES ASSUME TypeOK, TrackInv, [Next]_vars, NEW r \in Sessions
             PROVE  /\ onTrack'[r] = "join" => tracks'[r] = Total
                    /\ joins'[r] # 0 => tracks'[r] = Total /\ onTrack'[r] = "idle"
  BY DEF TrackInv
<1>1. /\ onTrack \in [Sessions -> TrackStages] /\ tracks \in [Sessions -> 0 .. Total]
      /\ rtp \in [Sessions -> 0 .. Total] /\ joins \in [Sessions -> Nat] /\ Total \in Nat \ {0}
  BY PublisherAssumption DEF TypeOK
<1>2. /\ onTrack[r] = "join" => tracks[r] = Total
      /\ joins[r] # 0 => tracks[r] = Total /\ onTrack[r] = "idle"
  BY DEF TrackInv
<1>3. CASE UNCHANGED <<onTrack, tracks, joins>>
  BY <1>2, <1>3
<1>4. ASSUME NEW s \in Sessions, MainTask(s) \/ Network(s) \/ StateTask(s)
      PROVE  UNCHANGED <<onTrack, tracks, joins>>
  BY <1>4 DEF MainTask, Network, StateTask, trackVars,
              Publish, Negotiate, Answer, Wait, Expire, Close,
              Connect, Disconnect, GiveUp, Stop, Arrive,
              HandleConnected, AddToRedis, AddLocally, HandleClosed, RemoveMedia,
              SendLeft, RemoveFromRedis, RemoveLocally
<1>5. ASSUME NEW s \in Sessions, TrackTask(s)
      PROVE  /\ onTrack'[r] = "join" => tracks'[r] = Total
             /\ joins'[r] # 0 => tracks'[r] = Total /\ onTrack'[r] = "idle"
  <2> USE DEF GoTrack
  <2>1. CASE OnTrack(s)
    <3>1. /\ onTrack[s] = "idle" /\ tracks[s] < rtp[s] /\ joins' = joins
          /\ tracks' = [tracks EXCEPT ![s] = @ + 1] /\ onTrack' = [onTrack EXCEPT ![s] = "hincr"]
      BY <2>1 DEF OnTrack
    <3>2. tracks[s] # Total
      BY <1>1, <3>1
    <3> QED
      BY <1>1, <1>2, <3>1, <3>2
  <2>2. CASE CountMedia(s)
    <3>1. /\ onTrack[s] = "hincr" /\ onTrack' = [onTrack EXCEPT ![s] = "check"]
          /\ UNCHANGED <<tracks, joins>>
      BY <2>2 DEF CountMedia
    <3> QED
      BY <1>1, <1>2, <3>1
  <2>3. CASE Check(s)
    <3>1. /\ onTrack[s] = "check" /\ UNCHANGED <<tracks, joins>>
          /\ \/ onTrack' = [onTrack EXCEPT ![s] = "idle"]
             \/ tracks[s] >= Total /\ onTrack' = [onTrack EXCEPT ![s] = "join"]
      BY <2>3 DEF Check
    <3> QED
      BY <1>1, <1>2, <3>1
  <2>4. CASE SendJoin(s)
    <3>1. /\ onTrack[s] = "join" /\ onTrack' = [onTrack EXCEPT ![s] = "idle"] /\ tracks' = tracks
          /\ joins' = joins \/ joins' = [joins EXCEPT ![s] = @ + 1]
      BY <2>4 DEF SendJoin
    <3> QED
      BY <1>1, <1>2, <3>1
  <2> QED
    BY <1>5, <2>1, <2>2, <2>3, <2>4 DEF TrackTask
<1>6. CASE UNCHANGED vars
  BY <1>3, <1>6 DEF vars, trackVars
<1> QED
  BY <1>3, <1>4, <1>5, <1>6 DEF Next

\* r's own steps keep it shown wherever ShownInv says so.
LEMMA OwnShown ==
    ASSUME SfuTypeOK, LeftInv, TrackInv, ShownInv, Publishing, NEW r \in Sessions, Alone(r),
           MainTask(r) \/ Network(r) \/ TrackTask(r) \/ StateTask(r)
    PROVE  /\ ~isClosed'[r] /\ onTrack'[r] = "idle" /\ tracks'[r] = Total => Shown(r)'
           /\ isClosed'[r] /\ handler'[r] \notin {"hdel", "left"} => Shown(r)'
<1> DEFINE Open   == ~isClosed[r] /\ onTrack[r] = "idle" /\ tracks[r] = Total
           Closed == isClosed[r] /\ handler[r] \notin {"hdel", "left"}
<1> SUFFICES (Open' => Shown(r)') /\ (Closed' => Shown(r)')
  OBVIOUS
<1>1. (Open => Shown(r)) /\ (Closed => Shown(r))
  BY DEF ShownInv
<1>2. /\ media \in [FullIds -> Nat] /\ joins \in [Sessions -> Nat] /\ lefts \in [Sessions -> Nat]
      /\ onTrack \in [Sessions -> TrackStages] /\ tracks \in [Sessions -> 0 .. Total]
      /\ isClosed \in [Sessions -> BOOLEAN] /\ handler \in [Sessions -> HandlerStages]
      /\ rtp \in [Sessions -> 0 .. Total] /\ late \in [Sessions -> BOOLEAN] /\ Id[r] \in FullIds
  BY PublisherAssumption DEF SfuTypeOK, TypeOK
<1>3. media'[Id[r]] = media[Id[r]] /\ joins'[r] = joins[r] /\ Shown(r) => Shown(r)'
  BY StaysShown
<1>4. CASE MainTask(r) \/ Network(r)
  <2>1. UNCHANGED <<media, joins, onTrack, tracks, isClosed, handler>>
    BY <1>4 DEF MainTask, Network, Publish, Negotiate, Answer, Wait, Expire, Close,
                Connect, Disconnect, GiveUp, Stop, Arrive, sharedVars, handlerVars, trackVars
  <2>2. (Open' => Open) /\ (Closed' => Closed)
    BY <2>1
  <2> QED
    BY <1>1, <1>3, <2>1, <2>2
<1>5. CASE TrackTask(r)
  <2> USE DEF GoTrack
  <2>1. isClosed' = isClosed /\ handler' = handler
    BY <1>5, OthersStayAway DEF handlerVars
  <2>2. CASE OnTrack(r)
    <3>1. /\ UNCHANGED <<media, joins>> /\ onTrack' = [onTrack EXCEPT ![r] = "hincr"]
      BY <2>2 DEF OnTrack, sharedVars
    <3>2. ~Open' /\ (Closed' => Closed)
      BY <1>2, <2>1, <3>1
    <3> QED
      BY <1>1, <1>3, <3>1, <3>2
  <2>3. CASE CountMedia(r)
    <3>1. /\ onTrack' = [onTrack EXCEPT ![r] = "check"] /\ joins' = joins
          /\ Counted(r) \/ UNCHANGED <<media, late>>
      BY <2>3 DEF CountMedia
    <3>2. ~Open' /\ (Closed' => Closed)
      BY <1>2, <2>1, <3>1
    <3>3. CASE Counted(r) /\ Closed
      <4>1. late'[r]
        BY <1>2, <3>3, Zenon DEF Counted
      <4> QED
        BY <3>2, <4>1 DEF Shown
    <3>4. CASE UNCHANGED <<media, late>> \/ ~Closed
      BY <1>1, <1>3, <3>1, <3>2, <3>4
    <3> QED
      BY <3>1, <3>3, <3>4
  <2>4. CASE Check(r)
    <3>1. /\ UNCHANGED <<media, joins, tracks, main>> /\ onTrack[r] = "check"
          /\ \/ Dropped(r) /\ onTrack' = [onTrack EXCEPT ![r] = "idle"]
             \/ tracks[r] < Total /\ onTrack' = [onTrack EXCEPT ![r] = "idle"]
             \/ onTrack' = [onTrack EXCEPT ![r] = "join"]
      <4>1. tracks[r] \in Int /\ Total \in Int
        BY <1>2, PublisherAssumption
      <4>2. UNCHANGED <<media, joins, tracks, main>> /\ onTrack[r] = "check"
        BY <2>4 DEF Check, sharedVars
      <4>3. CASE ~Dropped(r) /\ tracks[r] >= Total
        BY <2>4, <4>2, <4>3 DEF Check
      <4>4. CASE Dropped(r)
        BY <2>4, <4>2, <4>4 DEF Check
      <4>5. CASE ~(tracks[r] >= Total)
        <5>1. tracks[r] < Total
          BY <4>1, <4>5
        <5>2. onTrack' = [onTrack EXCEPT ![r] = "idle"]
          BY <2>4, <4>5 DEF Check
        <5> QED
          BY <4>2, <5>1, <5>2
      <4> QED
        BY <4>3, <4>4, <4>5
    <3>2. Closed' => Closed
      BY <2>1
    <3>3. Open' => Dropped(r)'
      <4>1. tracks[r] < Total => tracks[r] # Total
        BY <1>2, PublisherAssumption
      <4>2. CASE Dropped(r)
        BY <3>1, <4>2 DEF Dropped
      <4>3. CASE tracks[r] < Total
        BY <3>1, <4>1, <4>3
      <4>4. CASE onTrack' = [onTrack EXCEPT ![r] = "join"]
        BY <1>2, <4>4
      <4> QED
        BY <3>1, <4>2, <4>3, <4>4
    <3>4. joins'[r] = 0
      BY <3>1 DEF TrackInv
    <3>5. Open' => Shown(r)'
      BY <3>3, <3>4 DEF Shown
    <3> QED
      BY <1>1, <1>3, <3>1, <3>2, <3>5
  <2>5. CASE SendJoin(r)
    BY <2>5, Commanded
  <2> QED
    BY <1>5, <2>2, <2>3, <2>4, <2>5 DEF TrackTask
<1>6. CASE StateTask(r)
  <2> USE DEF GoHandler
  <2>1. UNCHANGED <<joins, onTrack, tracks>>
    BY <1>6 DEF StateTask, HandleConnected, AddToRedis, AddLocally, HandleClosed, RemoveMedia,
                SendLeft, RemoveFromRedis, RemoveLocally, trackVars
  <2>2. CASE HandleConnected(r) \/ AddToRedis(r) \/ AddLocally(r) \/ RemoveFromRedis(r)
              \/ RemoveLocally(r)
    <3>1. /\ UNCHANGED <<media, isClosed>>
          /\ handler[r] \notin {"hdel", "left"}
      BY <2>2 DEF HandleConnected, AddToRedis, AddLocally, RemoveFromRedis, RemoveLocally,
                  sharedVars
    <3>2. (Open' => Open) /\ (Closed' => Closed)
      BY <2>1, <3>1
    <3> QED
      BY <1>1, <1>3, <2>1, <3>1, <3>2
  <2>3. CASE HandleClosed(r)
    <3>1. media' = media
      BY <2>3 DEF HandleClosed, sharedVars
    <3>2. \/ UNCHANGED <<handler, isClosed>>
          \/ isClosed' = [isClosed EXCEPT ![r] = TRUE] /\ handler' = [handler EXCEPT ![r] = "hdel"]
      BY <2>3, Zenon DEF HandleClosed
    <3>3. (Open' => Open) /\ (Closed' => Closed)
      <4>1. CASE UNCHANGED <<handler, isClosed>>
        BY <2>1, <4>1
      <4>2. CASE isClosed' = [isClosed EXCEPT ![r] = TRUE] /\ handler' = [handler EXCEPT ![r] = "hdel"]
        <5>1. isClosed'[r] /\ handler'[r] = "hdel"
          BY <1>2, <4>2, Zenon
        <5> QED
          BY <5>1
      <4> QED
        BY <3>2, <4>1, <4>2
    <3> QED
      BY <1>1, <1>3, <2>1, <3>1, <3>3
  <2>4. CASE RemoveMedia(r)
    <3>1. handler[r] = "hdel" /\ handler'[r] = "left" /\ isClosed' = isClosed
      BY <1>2, <2>4 DEF RemoveMedia
    <3>2. isClosed[r]
      BY <3>1 DEF LeftInv
    <3>3. ~Open' /\ ~Closed'
      BY <3>1, <3>2
    <3> QED
      BY <3>3
  <2>5. CASE SendLeft(r)
    BY <2>5, Commanded
  <2> QED
    BY <1>6, <2>2, <2>3, <2>4, <2>5 DEF StateTask
<1> QED
  BY <1>4, <1>5, <1>6

\* Every step keeps what is shown so.
LEMMA ShownNext ==
    SfuTypeOK /\ LeftInv /\ TrackInv /\ ShownInv /\ [SfuNext]_sfuVars => ShownInv'
<1> SUFFICES ASSUME SfuTypeOK, LeftInv, TrackInv, ShownInv, [SfuNext]_sfuVars,
                    NEW r \in Sessions, Alone(r)
             PROVE  /\ ~isClosed'[r] /\ onTrack'[r] = "idle" /\ tracks'[r] = Total => Shown(r)'
                    /\ isClosed'[r] /\ handler'[r] \notin {"hdel", "left"} => Shown(r)'
  BY DEF ShownInv, Alone
<1>1. /\ ~isClosed[r] /\ onTrack[r] = "idle" /\ tracks[r] = Total => Shown(r)
      /\ isClosed[r] /\ handler[r] \notin {"hdel", "left"} => Shown(r)
  BY DEF ShownInv
<1>2. CASE Publishing
  <2>1. PICK s \in Sessions : MainTask(s) \/ Network(s) \/ TrackTask(s) \/ StateTask(s)
    BY <1>2 DEF Publishing, Next
  <2>2. CASE s = r
    BY <1>2, <2>1, <2>2, OwnShown
  <2>3. CASE s # r
    <3>1. /\ media'[Id[r]] = media[Id[r]] /\ joins'[r] = joins[r]
          /\ onTrack'[r] = onTrack[r] /\ tracks'[r] = tracks[r]
          /\ isClosed'[r] = isClosed[r] /\ handler'[r] = handler[r]
      BY <2>1, <2>3, OtherSession DEF SfuTypeOK
    <3> QED
      BY <1>1, <1>2, <3>1, StaysShown
  <2> QED
    BY <2>2, <2>3
<1>3. CASE Look
  <2>1. seen'[Id[r]] = media'[Id[r]]
    BY <1>3 DEF Look, vars, sharedVars
  <2> QED
    BY <2>1 DEF Shown
<1>4. CASE UNCHANGED sfuVars
  <2>1. /\ UNCHANGED <<media, joins, onTrack, tracks, isClosed, handler, late, main>>
        /\ UNCHANGED <<seen, due, missed>>
    BY <1>4 DEF sfuVars, subVars, vars, sharedVars, handlerVars, trackVars
  <2> QED
    BY <1>1, <2>1 DEF Shown, Dropped
<1> QED
  BY <1>2, <1>3, <1>4 DEF SfuNext

\* A subscriber that has no look to come has the tracks of each session that is
\* settled and none of one that is closed, for any number of publishers and tracks
\* and whatever fails; a command that was not sent, a late count and a session whose
\* main task is gone too early are the only exceptions.
THEOREM SubscriberFollows == SfuSpec => []FollowsUnless
<1>1. SfuInit => LeftInv /\ TrackInv /\ ShownInv
  <2> SUFFICES ASSUME SfuInit PROVE LeftInv /\ TrackInv /\ ShownInv
    OBVIOUS
  <2>1. LeftInv
    BY LeftInit DEF SfuInit
  <2>2. TrackInv
    BY DEF SfuInit, Init, TrackInv
  <2>3. ShownInv
    BY DEF SfuInit, ShownInv, Shown
  <2> QED
    BY <2>1, <2>2, <2>3
<1>2. SfuTypeOK /\ LeftInv /\ TrackInv /\ ShownInv /\ [SfuNext]_sfuVars
        => LeftInv' /\ TrackInv' /\ ShownInv'
  <2>1. [SfuNext]_sfuVars => [Next]_vars
    BY DEF SfuNext, Publishing, Look, sfuVars
  <2> QED
    BY <2>1, LeftNext, TrackNext, ShownNext DEF SfuTypeOK
<1>3. ShownInv => FollowsUnless
  <2> SUFFICES ASSUME ShownInv, NEW r \in Sessions, Alone(r), Settled(r), ~due
               PROVE  \/ seen[Id[r]] = media[Id[r]]
                      \/ missed[r] \/ late[r]
                      \/ Dropped(r) /\ joins[r] = 0
    BY DEF FollowsUnless
  <2>1. Shown(r)
    BY DEF ShownInv, Settled
  <2> QED
    BY <2>1 DEF Shown
<1> QED
  BY <1>1, <1>2, <1>3, SfuTypeCorrect, PTL DEF SfuSpec

\* What is shown of publishers alone holds of a room with a subscriber.
THEOREM RoomIsSound ==
    SfuSpec => [](LeftOnce /\ RedisMatchesLocal /\ ListedWhileUp /\ CleanedUpUnless
                    /\ RestIsClosed)
BY IsPublisher, LeftIsSentOnce, RedisAlwaysMatchesLocal, PublisherIsListed, ClosedLeavesNothing,
   RestIsAlwaysClosed, PTL

-----------------------------------------------------------------------------
(* The RTP of the room (Streams) *)

\* The tasks that push RTP leave the room alone.
LEMMA IsRoom == StreamsSpec => SfuSpec
<1>1. StreamsInit => SfuInit
  BY DEF StreamsInit
<1>2. [StreamsNext]_streamVars => [SfuNext]_sfuVars
  BY DEF StreamsNext, Handlers, Silence, streamVars
<1> QED
  BY <1>1, <1>2, PTL DEF StreamsSpec, SfuSpec

\* How many tracks on_track is through with.
Through(s) == IF onTrack[s] = "idle" THEN tracks[s] ELSE tracks[s] - 1

\* Why the numbers are those of the count: each track on_track is through with
\* was pushed on the number of its place, unless the main task has returned.
PushInv ==
    \A s \in Sessions :
        Dropped(s) \/ pushing[s] \union silent[s] = 0 .. Through(s) - 1

\* on_track has counted the track it is at.
AtTrack == \A s \in Sessions : onTrack[s] # "idle" => tracks[s] # 0

\* A track is late only after its session was closed.
LateInv == \A s \in Sessions : late[s] => isClosed[s]

\* What a step of Publisher does to on_track of one session.
LEMMA TrackStep ==
    ASSUME TypeOK, Next, NEW r \in Sessions
    PROVE  \/ onTrack'[r] = onTrack[r] /\ tracks'[r] = tracks[r]
           \/ onTrack[r] = "idle" /\ onTrack'[r] = "hincr" /\ tracks'[r] = tracks[r] + 1
           \/ onTrack[r] = "hincr" /\ onTrack'[r] = "check" /\ tracks'[r] = tracks[r]
           \/ onTrack[r] = "check" /\ onTrack'[r] = "join" /\ tracks'[r] = tracks[r]
           \/ onTrack[r] \in {"check", "join"} /\ onTrack'[r] = "idle" /\ tracks'[r] = tracks[r]
<1>1. PICK s \in Sessions : MainTask(s) \/ Network(s) \/ TrackTask(s) \/ StateTask(s)
  BY DEF Next
<1>2. onTrack \in [Sessions -> TrackStages] /\ tracks \in [Sessions -> 0 .. Total]
  BY DEF TypeOK
<1>3. CASE MainTask(s) \/ Network(s)
  BY <1>3 DEF MainTask, Network, Publish, Negotiate, Answer, Wait, Expire, Close,
              Connect, Disconnect, GiveUp, Stop, Arrive, trackVars
<1>4. CASE StateTask(s)
  BY <1>4 DEF StateTask, HandleConnected, AddToRedis, AddLocally, HandleClosed, RemoveMedia,
              SendLeft, RemoveFromRedis, RemoveLocally, trackVars
<1>5. CASE OnTrack(s)
  BY <1>2, <1>5 DEF OnTrack, GoTrack
<1>6. CASE CountMedia(s)
  BY <1>2, <1>6 DEF CountMedia, GoTrack
<1>7. CASE Check(s)
  BY <1>2, <1>7 DEF Check, GoTrack
<1>8. CASE SendJoin(s)
  BY <1>2, <1>8 DEF SendJoin, GoTrack
<1> QED
  BY <1>1, <1>3, <1>4, <1>5, <1>6, <1>7, <1>8 DEF TrackTask

\* on_track begins by counting, and never counts down.
LEMMA AtTrackNext == TypeOK /\ AtTrack /\ [Next]_vars => AtTrack'
<1> SUFFICES ASSUME TypeOK, AtTrack, [Next]_vars, NEW r \in Sessions, onTrack'[r] # "idle"
             PROVE  tracks'[r] # 0
  BY DEF AtTrack
<1>1. tracks[r] \in Nat /\ (onTrack[r] # "idle" => tracks[r] # 0)
  BY PublisherAssumption DEF TypeOK, AtTrack
<1>2. CASE Next
  BY <1>1, <1>2, TrackStep
<1>3. CASE UNCHANGED vars
  BY <1>1, <1>3 DEF vars, trackVars
<1> QED
  BY <1>2, <1>3

\* The connection's closing comes first, and is not taken back.
LEMMA LateNext == TypeOK /\ LateInv /\ [Next]_vars => LateInv'
<1> SUFFICES ASSUME TypeOK, LateInv, [Next]_vars, NEW r \in Sessions, late'[r]
             PROVE  isClosed'[r]
  BY DEF LateInv
<1>1. late[r] => isClosed[r]
  BY DEF LateInv
<1>2. CASE UNCHANGED vars
  BY <1>1, <1>2 DEF vars, handlerVars, trackVars
<1>3. CASE Next
  <2>1. PICK s \in Sessions : MainTask(s) \/ Network(s) \/ TrackTask(s) \/ StateTask(s)
    BY <1>3 DEF Next
  <2>2. late' = late \/ late' = [late EXCEPT ![s] = @ \/ isClosed[s]]
    BY <2>1, Zenon DEF MainTask, Network, TrackTask, StateTask, trackVars,
                Publish, Negotiate, Answer, Wait, Expire, Close,
                Connect, Disconnect, GiveUp, Stop, Arrive, OnTrack, CountMedia, Counted, Check,
                SendJoin, HandleConnected, AddToRedis, AddLocally, HandleClosed, RemoveMedia,
                SendLeft, RemoveFromRedis, RemoveLocally
  <2>3. late \in [Sessions -> BOOLEAN]
    BY DEF TypeOK
  <2>4. late[r] \/ isClosed[r]
    BY <2>2, <2>3, Zenon
  <2> QED
    BY <1>1, <1>3, <2>4, Lasting
<1> QED
  BY <1>2, <1>3

\* A step spawns a task as on_track is through with a track, and for that one.
LEMMA PushNext ==
    StreamsTypeOK /\ AtTrack /\ PushInv /\ [StreamsNext]_streamVars => PushInv'
<1> SUFFICES ASSUME StreamsTypeOK, AtTrack, PushInv, [StreamsNext]_streamVars, NEW r \in Sessions,
                    ~Dropped(r)'
             PROVE  pushing'[r] \union silent'[r] = 0 .. Through(r)' - 1
  BY DEF PushInv
<1>1. /\ pushing \in [Sessions -> SUBSET (0 .. Total - 1)]
      /\ silent \in [Sessions -> SUBSET (0 .. Total - 1)]
      /\ TypeOK /\ tracks \in [Sessions -> 0 .. Total] /\ Total \in Nat
  BY PublisherAssumption DEF StreamsTypeOK, SfuTypeOK, TypeOK
<1>2. ~Dropped(r) => pushing[r] \union silent[r] = 0 .. Through(r) - 1
  BY DEF PushInv
<1>3. ASSUME UNCHANGED vars PROVE ~Dropped(r) /\ Through(r)' = Through(r)
  BY <1>3 DEF vars, trackVars, Dropped, Through
<1>4. CASE Handlers
  <2>1. /\ silent'[r] = silent[r]
        /\ pushing'[r] = pushing[r] \union (IF Spawns(r) THEN {Number(r)} ELSE {})
    BY <1>4 DEF Handlers
  <2>2. CASE UNCHANGED vars
    <3>1. ~Spawns(r)
      BY <2>2 DEF vars, trackVars, Spawns
    <3> QED
      BY <1>2, <1>3, <2>1, <2>2, <3>1
  <2>3. CASE Next
    <3>1. ~Dropped(r)
      BY <1>1, <2>3, Lasting
    <3>2. pushing[r] \union silent[r] = 0 .. Through(r) - 1
      BY <1>2, <3>1
    <3>3. tracks[r] \in Nat
      BY <1>1
    <3>4. CASE Spawns(r)
      <4>1. /\ onTrack[r] \in {"check", "join"} /\ onTrack'[r] = "idle"
            /\ tracks'[r] = tracks[r]
        BY <1>1, <2>3, <3>4, TrackStep DEF Spawns
      <4>2. Through(r) = tracks[r] - 1 /\ Through(r)' = tracks[r]
        BY <4>1 DEF Through
      <4>3. tracks[r] # 0
        BY <4>1 DEF AtTrack
      <4>4. (0 .. (tracks[r] - 1) - 1) \union {tracks[r] - 1} = 0 .. tracks[r] - 1
        BY <3>3, <4>3
      <4>5. pushing'[r] \union silent'[r] = (pushing[r] \union silent[r]) \union {tracks[r] - 1}
        BY <2>1, <3>4, Zenon DEF Number
      <4> QED
        BY <3>2, <4>2, <4>4, <4>5
    <3>5. CASE ~Spawns(r)
      <4>1. Through(r)' = Through(r)
        BY <1>1, <2>3, <3>1, <3>3, <3>5, TrackStep DEF Spawns, Through
      <4> QED
        BY <2>1, <3>2, <3>5, <4>1
    <3> QED
      BY <3>4, <3>5
  <2> QED
    BY <1>4, <2>2, <2>3 DEF Handlers, SfuNext, Publishing, Look
<1>5. ASSUME NEW s \in Sessions, Silence(s)
      PROVE  pushing'[r] \union silent'[r] = 0 .. Through(r)' - 1
  <2>1. pushing'[r] \union silent'[r] = pushing[r] \union silent[r]
    BY <1>1, <1>5 DEF Silence
  <2>2. UNCHANGED vars
    BY <1>5 DEF Silence, sfuVars
  <2> QED
    BY <1>2, <1>3, <2>1, <2>2
<1>6. CASE UNCHANGED streamVars
  BY <1>2, <1>3, <1>6 DEF streamVars, rtpVars, sfuVars
<1> QED
  BY <1>4, <1>5, <1>6 DEF StreamsNext

\* The room's own step keeps the types, a task's number is below Total, and a task
\* that ends was one.
LEMMA StreamsTypeNext ==
    StreamsTypeOK /\ AtTrack /\ [StreamsNext]_streamVars => StreamsTypeOK'
<1> SUFFICES ASSUME StreamsTypeOK, AtTrack, [StreamsNext]_streamVars PROVE StreamsTypeOK'
  OBVIOUS
<1>1. SfuTypeOK'
  <2>1. [SfuNext]_sfuVars
    BY DEF StreamsNext, Handlers, Silence, streamVars
  <2> QED
    BY <2>1, SfuTypeNext DEF StreamsTypeOK
<1>2. /\ pushing \in [Sessions -> SUBSET (0 .. Total - 1)]
      /\ silent \in [Sessions -> SUBSET (0 .. Total - 1)]
      /\ tracks \in [Sessions -> 0 .. Total] /\ Total \in Nat
  BY PublisherAssumption DEF StreamsTypeOK, SfuTypeOK, TypeOK
<1>3. CASE Handlers
  <2>1. ASSUME NEW s \in Sessions, Spawns(s) PROVE Number(s) \in 0 .. Total - 1
    BY <1>2, <2>1 DEF AtTrack, Spawns, Number
  <2>2. ASSUME NEW s \in Sessions
        PROVE  pushing[s] \union (IF Spawns(s) THEN {Number(s)} ELSE {}) \subseteq 0 .. Total - 1
    BY <1>2, <2>1
  <2>3. pushing' \in [Sessions -> SUBSET (0 .. Total - 1)]
    BY <1>3, <2>2, Zenon DEF Handlers
  <2> QED
    BY <1>1, <1>2, <1>3, <2>3 DEF Handlers, StreamsTypeOK
<1>4. ASSUME NEW s \in Sessions, Silence(s) PROVE StreamsTypeOK'
  BY <1>1, <1>2, <1>4 DEF Silence, StreamsTypeOK
<1>5. CASE UNCHANGED streamVars
  BY <1>1, <1>2, <1>5 DEF streamVars, rtpVars, StreamsTypeOK
<1> QED
  BY <1>3, <1>4, <1>5 DEF StreamsNext

\* The invariant of the room's RTP.
LEMMA StreamsInvariant ==
    StreamsSpec => [](StreamsTypeOK /\ AtTrack /\ PushInv /\ LateInv /\ LeftInv /\ CountInv)
<1>1. StreamsInit => StreamsTypeOK /\ AtTrack /\ PushInv /\ LateInv /\ LeftInv /\ CountInv
  <2> SUFFICES ASSUME StreamsInit
               PROVE  StreamsTypeOK /\ AtTrack /\ PushInv /\ LateInv /\ LeftInv /\ CountInv
    OBVIOUS
  <2>1. Init /\ SfuTypeOK /\ LeftInv
    BY SfuTypeInit, LeftInit DEF StreamsInit, SfuInit
  <2>2. StreamsTypeOK
    BY <2>1 DEF StreamsInit, StreamsTypeOK
  <2>3. AtTrack /\ LateInv
    BY <2>1 DEF Init, AtTrack, LateInv
  <2>4. PushInv
    <3> SUFFICES ASSUME NEW s \in Sessions
                 PROVE  pushing[s] \union silent[s] = 0 .. Through(s) - 1
      BY DEF PushInv
    <3>1. pushing[s] \union silent[s] = {}
      BY DEF StreamsInit
    <3>2. Through(s) = 0
      BY <2>1 DEF Init, Through
    <3>3. 0 .. 0 - 1 = {}
      OBVIOUS
    <3> QED
      BY <3>1, <3>2, <3>3
  <2>5. CountInv
    BY <2>1, PublisherAssumption DEF Init, CountInv
  <2> QED
    BY <2>1, <2>2, <2>3, <2>4, <2>5
<1>2. /\ StreamsTypeOK /\ AtTrack /\ PushInv /\ LateInv /\ LeftInv /\ CountInv
      /\ [StreamsNext]_streamVars
      => (StreamsTypeOK /\ AtTrack /\ PushInv /\ LateInv /\ LeftInv /\ CountInv)'
  <2>1. [StreamsNext]_streamVars => [Next]_vars
    BY DEF StreamsNext, Handlers, SfuNext, Publishing, Look, Silence, streamVars, sfuVars
  <2>2. StreamsTypeOK => TypeOK
    BY DEF StreamsTypeOK, SfuTypeOK
  <2> QED
    BY <2>1, <2>2, StreamsTypeNext, AtTrackNext, PushNext, LateNext, LeftNext, CountNext
<1> QED
  BY <1>1, <1>2, PTL DEF StreamsSpec

\* Tracks are numbered from 0 to one less than their number, for any number of them.
THEOREM StreamsTypeCorrect == StreamsSpec => []StreamsTypeOK
BY StreamsInvariant, PTL

\* A subscriber that has no look to come pulls the numbers that a settled publisher
\* pushes or pushed, for any number of publishers and tracks and whatever fails, but
\* for the exceptions that StreamsMeetUnless names.
THEOREM StreamsMeet == StreamsSpec => []StreamsMeetUnless
<1>1. StreamsTypeOK /\ PushInv /\ LateInv /\ CountInv /\ FollowsUnless => StreamsMeetUnless
  <2> SUFFICES ASSUME StreamsTypeOK, PushInv, LateInv, CountInv, FollowsUnless, NEW s \in Sessions,
                      Alone(s), Settled(s), ~isClosed[s], ~due,
                      ~missed[s], ~faulted, ~Dropped(s)
               PROVE  pushing[s] \union silent[s] = 0 .. seen[Id[s]] - 1
    BY DEF StreamsMeetUnless
  <2>1. onTrack[s] = "idle" /\ tracks[s] = Total
    BY DEF Settled
  <2>2. pushing[s] \union silent[s] = 0 .. Total - 1
    BY <2>1 DEF PushInv, Through
  <2>3. media[Id[s]] = Total
    BY <2>1 DEF CountInv
  <2>4. seen[Id[s]] = media[Id[s]]
    BY DEF FollowsUnless, LateInv
  <2> QED
    BY <2>2, <2>3, <2>4
<1> QED
  BY <1>1, StreamsInvariant, SubscriberFollows, IsRoom, PTL
=============================================================================
