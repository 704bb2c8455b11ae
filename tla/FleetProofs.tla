----------------------------- MODULE FleetProofs -----------------------------
(***************************************************************************)
(* Theorems about Fleet, for every set of instances, sessions and full ids,  *)
(* any length of a day in parts, any number of failing calls of Redis and    *)
(* every set of other operations that may fail.                              *)
(***************************************************************************)
EXTENDS Fleet, TLAPS

Adding   == {"sadd", "sexpire"}
Removing == {"srem", "rexpire"}

\* What the stages of the tasks say of each other: the handler adds while the connection
\* is up, as far as it knows, and removes, a publisher once, when it is not.
Stages ==
    \A s \in Sessions :
        /\ main[s] \in {"idle", "spawned"} => link[s] = "new" /\ ~isClosed[s]
        /\ main[s] \in {"negotiating", "failed"} => link[s] # "up"
        /\ main[s] # "waiting" => age[s] = 0
        /\ link[s] = "new" => handler[s] = "idle"
        /\ handler[s] \in Adding => link[s] = "up"
        /\ handler[s] \in Removing => link[s] # "up" /\ ~revived[s]
        /\ isClosed[s] /\ link[s] = "up" => revived[s]
        /\ revived[s] => isClosed[s]
        /\ isClosed[s] => Kind[s] = "pub"

\* The list of s outlasts the main task of s.
Outlasts(s) == Name(s) \in listed /\ listTtl[Kind[s]] >= Day - age[s]

\* Why a peer that is up stays listed: when it was added the list was given a whole day,
\* of which no more than its age is over.
Lists ==
    /\ \A n \in listed : listTtl[n[1]] > 0
    /\ \A s \in Sessions :
          /\ handler[s] = "sexpire" => Name(s) \in listed
          /\ main[s] \in {"answered", "waiting"} /\ link[s] = "up" /\ handler[s] = "idle"
                 /\ ~Faulted =>
                 age[s] = Day \/ Outlasts(s)

\* Why an entry without a session is an old one: a session is admitted when its name is not
\* listed, and a connection that goes down takes it away, but for one that came back.
Owners ==
    \A s \in Sessions :
        /\ main[s] # "idle" => Name(s) \notin ghosts
        /\ main[s] = "spawned" => Name(s) \notin listed
        /\ handler[s] = "rexpire" => Name(s) \notin listed
        /\ main[s] # "idle" /\ link[s] # "up" /\ handler[s] = "idle" /\ ~revived[s] =>
               Name(s) \notin listed \/ Faulted

\* Why an instance with a peer that is up has the room: the peer is in it.
Places ==
    /\ \A i \in Instances : ~rooms[i] => local[i] = {}
    /\ \A s \in Sessions :
          /\ Kind[s] = "sub"
                 /\ main[s] \in {"negotiating", "answered", "waiting", "closing", "expired"} =>
                 Name(s) \in local[at[s]]
          /\ Kind[s] = "pub" /\ link[s] = "up" /\ handler[s] = "idle" /\ ~Faulted =>
                 Name(s) \in local[at[s]]

\* The inductive invariant.
IInv ==
    /\ TypeOK /\ Stages /\ Lists /\ Owners /\ Places
    /\ ListedIsThere /\ ListsExpireUnless

-----------------------------------------------------------------------------
(* Type correctness *)

\* Nobody is there at first.
LEMMA TypeInit == Init => TypeOK
<1> SUFFICES ASSUME Init PROVE TypeOK
  OBVIOUS
<1> USE FleetAssumption DEF Init
<1>1. 0 \in 0 .. Forever /\ 0 \in 0 .. Day /\ 0 \in 0 .. MaxFailures
  BY DEF Forever
<1>2. listTtl \in [Kinds -> 0 .. Forever] /\ age \in [Sessions -> 0 .. Day]
  BY <1>1
<1> QED
  BY <1>1, <1>2 DEF TypeOK, MainStages, HandlerStages

\* Listing, delisting and touching keep the lists, and every history of them.
LEMMA TypeCalls ==
    ASSUME TypeOK, NEW s \in Sessions, Listing(s) \/ Delisting(s) \/ Touch(s)
    PROVE  /\ listed' \subseteq Names
           /\ listTtl' \in [Kinds -> 0 .. Forever]
           /\ ghosts' \subseteq listed'
<1> USE FleetAssumption DEF TypeOK
<1>1. Kind[s] \in Kinds /\ Name(s) \in Names
  BY DEF Name, Names
<1>2. {0, Day, Forever} \subseteq 0 .. Forever
  BY DEF Forever
<1>3. CASE Listing(s)
  BY <1>1, <1>2, <1>3 DEF Listing
<1>4. CASE Delisting(s)
  BY <1>1, <1>2, <1>4 DEF Delisting
<1>5. CASE Touch(s)
  BY <1>1, <1>2, <1>5 DEF Touch
<1> QED
  BY <1>3, <1>4, <1>5

\* A peer enters and leaves a room under its name.
LEMMA TypePlaces ==
    ASSUME TypeOK, NEW s \in Sessions
    PROVE  /\ Enter(s) => /\ rooms' \in [Instances -> BOOLEAN]
                         /\ local' \in [Instances -> SUBSET Names]
           /\ Depart(s) => /\ rooms' \in [Instances -> BOOLEAN]
                          /\ local' \in [Instances -> SUBSET Names]
                          /\ strays' \subseteq Instances \X Names
           /\ Strays(s) \/ Claims(s) => strays' \subseteq Instances \X Names
<1> USE FleetAssumption DEF TypeOK
<1>1. Name(s) \in Names /\ at[s] \in Instances
  BY DEF Name, Names
<1>2. ASSUME Enter(s)
      PROVE  rooms' \in [Instances -> BOOLEAN] /\ local' \in [Instances -> SUBSET Names]
  BY <1>1, <1>2 DEF Enter
<1>3. ASSUME Depart(s)
      PROVE  /\ rooms' \in [Instances -> BOOLEAN]
             /\ local' \in [Instances -> SUBSET Names]
             /\ strays' \subseteq Instances \X Names
  <2> DEFINE rest == local[at[s]] \ {Name(s)}
  <2>1. rest \subseteq Names /\ Stays(rest) \in BOOLEAN
    BY <1>1 DEF Stays
  <2> QED
    BY <1>1, <1>3, <2>1 DEF Depart, Claims
<1>4. ASSUME Strays(s) \/ Claims(s) PROVE strays' \subseteq Instances \X Names
  BY <1>1, <1>4 DEF Strays, Claims
<1> QED
  BY <1>2, <1>3, <1>4

\* Every step keeps the types.
LEMMA TypeNext == ASSUME TypeOK, Next PROVE TypeOK'
<1> USE FleetAssumption
    DEF TypeOK, MainStages, HandlerStages, GoMain, GoHandler, Works, RedisFails,
        redisVars, localVars, handlerVars, sessionVars
<1>1. ASSUME NEW s \in Sessions, MainTask(s) \/ Called(s) \/ StateTask(s) PROVE TypeOK'
  <2>1. CASE Ask(s)
    BY <2>1 DEF Ask, Comes, Name, Names
  <2>2. CASE Start(s)
    BY <2>2, TypePlaces DEF Start
  <2>3. CASE Answer(s)
    BY <2>3, TypePlaces DEF Answer
  <2>4. CASE Wait(s)
    BY <2>4 DEF Wait
  <2>5. CASE Expire(s)
    BY <2>5, TypePlaces DEF Expire
  <2>6. CASE Close(s)
    BY <2>6, TypePlaces DEF Close
  <2>7. CASE HandleUp(s)
    BY <2>7 DEF HandleUp, Begun
  <2>8. ASSUME NEW d \in Downs(s), HandleDown(s, d) PROVE TypeOK'
    <3>1. d \in {"lost", "failed", "closed"}
      BY DEF Downs
    <3>2. /\ main' \in [Sessions -> MainStages] /\ age' \in [Sessions -> 0 .. Day]
          /\ handler' \in [Sessions -> HandlerStages]
      BY <2>8 DEF HandleDown, Notify
    <3>3. isClosed' \in [Sessions -> BOOLEAN]
      <4>1. (Kind[s] = "pub") \in BOOLEAN
        OBVIOUS
      <4> QED
        BY <2>8, <4>1, Zenon DEF HandleDown
    <3> QED
      BY <2>8, <3>1, <3>2, <3>3 DEF HandleDown
  <2>9. CASE Ignore(s)
    BY <2>9 DEF Ignore, Over
  <2>10. CASE AddToRedis(s)
    <3>1. /\ listed' \subseteq Names /\ listTtl' \in [Kinds -> 0 .. Forever]
          /\ ghosts' \subseteq listed'
      BY <2>10, TypeCalls DEF AddToRedis, Fails
    <3> QED
      BY <2>10, <3>1, TypePlaces DEF AddToRedis, Fails
  <2>11. CASE TouchAdded(s)
    <3>1. /\ listed' \subseteq Names /\ listTtl' \in [Kinds -> 0 .. Forever]
          /\ ghosts' \subseteq listed'
      BY <2>11, TypeCalls DEF TouchAdded, Fails
    <3> QED
      BY <2>11, <3>1, TypePlaces DEF TouchAdded, Fails
  <2>12. CASE RemoveFromRedis(s)
    <3>1. /\ listed' \subseteq Names /\ listTtl' \in [Kinds -> 0 .. Forever]
          /\ ghosts' \subseteq listed'
      BY <2>12, TypeCalls DEF RemoveFromRedis, Fails
    <3> QED
      BY <2>12, <3>1, TypePlaces DEF RemoveFromRedis, Fails
  <2>13. CASE TouchRemoved(s)
    <3>1. /\ listed' \subseteq Names /\ listTtl' \in [Kinds -> 0 .. Forever]
          /\ ghosts' \subseteq listed'
      BY <2>13, TypeCalls DEF TouchRemoved, Fails
    <3> QED
      BY <2>13, <3>1, TypePlaces DEF TouchRemoved, Fails
  <2> QED
    BY <1>1, <2>1, <2>2, <2>3, <2>4, <2>5, <2>6, <2>7, <2>8, <2>9, <2>10, <2>11, <2>12, <2>13
    DEF MainTask, Called, StateTask
<1>2. ASSUME NEW i \in Instances, Instance(i) PROVE TypeOK'
  <2>1. CASE PreStop(i)
    BY <2>1 DEF PreStop
  <2>2. CASE NoPeers(i)
    BY <2>2 DEF NoPeers
  <2>3. CASE Kill(i)
    BY <2>3 DEF Kill, Dies, On
  <2>4. CASE Exit(i)
    BY <2>4 DEF Exit, Dies, On
  <2>5. CASE Restart(i)
    BY <2>5 DEF Restart
  <2> QED
    BY <1>2, <2>1, <2>2, <2>3, <2>4, <2>5 DEF Instance
<1>3. CASE Tick
  <2>1. listed' \subseteq Names /\ ghosts' \subseteq listed'
    BY <1>3 DEF Tick
  <2>2. \A n \in 0 .. Forever : Less(n) \in 0 .. Forever
    BY DEF Less, Forever
  <2>3. listTtl' \in [Kinds -> 0 .. Forever]
    BY <1>3, <2>2 DEF Tick
  <2>4. age' \in [Sessions -> 0 .. Day]
    BY <1>3 DEF Tick, Quiet
  <2> QED
    BY <1>3, <2>1, <2>3, <2>4 DEF Tick
<1> QED
  BY <1>1, <1>2, <1>3 DEF Next

-----------------------------------------------------------------------------
(* The inductive invariant *)

\* The state handler stays in step with the main task.
LEMMA StagesNext == ASSUME IInv, Next PROVE Stages'
<1> USE FleetAssumption
    DEF IInv, TypeOK, MainStages, HandlerStages, GoMain, GoHandler, Works, RedisFails,
        Faulted, redisVars, localVars, handlerVars, sessionVars,
        Stages, Adding, Removing
<1>1. ASSUME NEW s \in Sessions, MainTask(s) \/ Called(s) \/ StateTask(s) PROVE Stages'
  <2>1. CASE Ask(s)
    BY <2>1 DEF Ask, Over, Comes
  <2>2. CASE Start(s)
    BY <2>2 DEF Start, Enter, Claims, Strays
  <2>3. CASE Answer(s)
    BY <2>3 DEF Answer, Strays
  <2>4. CASE Wait(s)
    BY <2>4 DEF Wait
  <2>5. CASE Expire(s)
    BY <2>5 DEF Expire, Strays
  <2>6. CASE Close(s)
    BY <2>6 DEF Close, Depart, Claims, Strays
  <2>7. CASE HandleUp(s)
    BY <2>7 DEF HandleUp, Begun
  <2>8. ASSUME NEW d \in Downs(s), HandleDown(s, d) PROVE Stages'
    BY <2>8 DEF HandleDown, Notify, Downs, Begun
  <2>9. CASE Ignore(s)
    BY <2>9 DEF Ignore, Over
  <2>10. CASE AddToRedis(s)
    BY <2>10 DEF AddToRedis, Fails, Listing
  <2>11. CASE TouchAdded(s)
    BY <2>11 DEF TouchAdded, Fails, Touch, Enter, Claims
  <2>12. CASE RemoveFromRedis(s)
    BY <2>12 DEF RemoveFromRedis, Fails, Delisting
  <2>13. CASE TouchRemoved(s)
    BY <2>13 DEF TouchRemoved, Fails, Touch, Depart, Claims
  <2> QED
    BY <1>1, <2>1, <2>2, <2>3, <2>4, <2>5, <2>6, <2>7, <2>8, <2>9, <2>10, <2>11, <2>12, <2>13
    DEF MainTask, Called, StateTask
<1>2. ASSUME NEW i \in Instances, Instance(i) PROVE Stages'
  <2>1. CASE PreStop(i)
    BY <2>1 DEF PreStop
  <2>2. CASE NoPeers(i)
    BY <2>2 DEF NoPeers
  <2>3. CASE Kill(i)
    BY <2>3 DEF Kill, Dies, On
  <2>4. CASE Exit(i)
    BY <2>4 DEF Exit, Dies, On
  <2>5. CASE Restart(i)
    BY <2>5 DEF Restart
  <2> QED
    BY <1>2, <2>1, <2>2, <2>3, <2>4, <2>5 DEF Instance
<1>3. CASE Tick
  BY <1>3 DEF Tick, Quiet, Rests, Less
<1> QED
  BY <1>1, <1>2, <1>3 DEF Next

\* Lists are touched when a peer is added, and outlast it.
LEMMA ListsNext == ASSUME IInv, Next PROVE Lists'
<1> USE FleetAssumption
    DEF IInv, TypeOK, MainStages, HandlerStages, GoMain, GoHandler, Works, RedisFails,
        Faulted, redisVars, localVars, handlerVars, sessionVars,
        Stages, Adding, Removing, Lists, Outlasts,
        Name, Names, Kinds, Forever
<1>1. ASSUME NEW s \in Sessions, MainTask(s) \/ Called(s) \/ StateTask(s) PROVE Lists'
  <2>1. CASE Ask(s)
    BY <2>1 DEF Ask, Over, Comes
  <2>2. CASE Start(s)
    BY <2>2 DEF Start, Enter, Claims, Strays
  <2>3. CASE Answer(s)
    BY <2>3 DEF Answer, Strays
  <2>4. CASE Wait(s)
    BY <2>4 DEF Wait
  <2>5. CASE Expire(s)
    BY <2>5 DEF Expire, Strays
  <2>6. CASE Close(s)
    BY <2>6 DEF Close, Depart, Claims, Strays
  <2>7. CASE HandleUp(s)
    BY <2>7 DEF HandleUp, Begun
  <2>8. ASSUME NEW d \in Downs(s), HandleDown(s, d) PROVE Lists'
    BY <2>8 DEF HandleDown, Notify, Downs, Begun
  <2>9. CASE Ignore(s)
    BY <2>9 DEF Ignore, Over
  <2>10. CASE AddToRedis(s)
    BY <2>10 DEF AddToRedis, Fails, Listing
  <2>11. CASE TouchAdded(s)
    BY <2>11 DEF TouchAdded, Fails, Touch, Enter, Claims
  <2>12. CASE RemoveFromRedis(s)
    BY <2>12 DEF RemoveFromRedis, Fails, Delisting
  <2>13. CASE TouchRemoved(s)
    BY <2>13 DEF TouchRemoved, Fails, Touch, Depart, Claims
  <2> QED
    BY <1>1, <2>1, <2>2, <2>3, <2>4, <2>5, <2>6, <2>7, <2>8, <2>9, <2>10, <2>11, <2>12, <2>13
    DEF MainTask, Called, StateTask
<1>2. ASSUME NEW i \in Instances, Instance(i) PROVE Lists'
  <2>1. CASE PreStop(i)
    BY <2>1 DEF PreStop
  <2>2. CASE NoPeers(i)
    BY <2>2 DEF NoPeers
  <2>3. CASE Kill(i)
    BY <2>3 DEF Kill, Dies, On
  <2>4. CASE Exit(i)
    BY <2>4 DEF Exit, Dies, On
  <2>5. CASE Restart(i)
    BY <2>5 DEF Restart
  <2> QED
    BY <1>2, <2>1, <2>2, <2>3, <2>4, <2>5 DEF Instance
<1>3. CASE Tick
  <2>1. \A k \in Kinds : listTtl'[k] >= listTtl[k] - 1
    BY <1>3 DEF Tick, Less
  <2>2. \A n \in listed' : listTtl'[n[1]] > 0
    BY <1>3 DEF Tick
  <2>3. ASSUME NEW s \in Sessions, main[s] = "waiting", link[s] = "up", ~Faulted
        PROVE  age'[s] = Day \/ Outlasts(s)'
    <3>1. age[s] < Day /\ age'[s] = age[s] + 1 /\ Outlasts(s)
      BY <1>3, <2>3 DEF Tick, Quiet, Rests
    <3>2. listTtl'[Kind[s]] >= Day - age'[s] /\ Name(s)[1] = Kind[s]
      <4>1. Kind[s] \in Kinds /\ age[s] \in 0 .. Day /\ listTtl[Kind[s]] \in 0 .. Forever
        OBVIOUS
      <4>2. listTtl'[Kind[s]] >= listTtl[Kind[s]] - 1 /\ listTtl'[Kind[s]] \in Int
        BY <1>3, <2>1, <4>1 DEF Tick, Less
      <4> QED
        BY <3>1, <4>1, <4>2
    <3>3. age'[s] < Day => Name(s) \in listed'
      <4>1. age'[s] \in Int /\ listTtl'[Kind[s]] \in Int
        BY <1>3, <3>1 DEF Tick, Less
      <4>2. age'[s] < Day => listTtl'[Name(s)[1]] > 0
        BY <3>2, <4>1
      <4> QED
        BY <1>3, <3>1, <4>2 DEF Tick
    <3>4. age'[s] = Day \/ age'[s] < Day
      <4>1. age[s] \in 0 .. Day /\ Day \in Nat
        OBVIOUS
      <4> QED
        BY <3>1, <4>1
    <3> QED
      BY <3>2, <3>3, <3>4
  <2> QED
    BY <1>3, <2>2, <2>3 DEF Tick, Quiet, Rests
<1> QED
  BY <1>1, <1>2, <1>3 DEF Next

\* A session owns its name from its admission until the name is removed.
LEMMA OwnersNext == ASSUME IInv, Next PROVE Owners'
<1> USE FleetAssumption
    DEF IInv, TypeOK, MainStages, HandlerStages, GoMain, GoHandler, Works, RedisFails,
        Faulted, redisVars, localVars, handlerVars, sessionVars,
        Stages, Adding, Removing, Owners, Name
<1>1. ASSUME NEW s \in Sessions, MainTask(s) \/ Called(s) \/ StateTask(s) PROVE Owners'
  <2>1. CASE Ask(s)
    BY <2>1 DEF Ask, Over, Comes
  <2>2. CASE Start(s)
    BY <2>2 DEF Start, Enter, Claims, Strays
  <2>3. CASE Answer(s)
    BY <2>3 DEF Answer, Strays
  <2>4. CASE Wait(s)
    BY <2>4 DEF Wait
  <2>5. CASE Expire(s)
    BY <2>5 DEF Expire, Strays
  <2>6. CASE Close(s)
    BY <2>6 DEF Close, Depart, Claims, Strays
  <2>7. CASE HandleUp(s)
    BY <2>7 DEF HandleUp, Begun
  <2>8. ASSUME NEW d \in Downs(s), HandleDown(s, d) PROVE Owners'
    BY <2>8 DEF HandleDown, Notify, Downs, Begun
  <2>9. CASE Ignore(s)
    BY <2>9 DEF Ignore, Over
  <2>10. CASE AddToRedis(s)
    BY <2>10 DEF AddToRedis, Fails, Listing
  <2>11. CASE TouchAdded(s)
    BY <2>11 DEF TouchAdded, Fails, Touch, Enter, Claims
  <2>12. CASE RemoveFromRedis(s)
    BY <2>12 DEF RemoveFromRedis, Fails, Delisting
  <2>13. CASE TouchRemoved(s)
    BY <2>13 DEF TouchRemoved, Fails, Touch, Depart, Claims
  <2> QED
    BY <1>1, <2>1, <2>2, <2>3, <2>4, <2>5, <2>6, <2>7, <2>8, <2>9, <2>10, <2>11, <2>12, <2>13
    DEF MainTask, Called, StateTask
<1>2. ASSUME NEW i \in Instances, Instance(i) PROVE Owners'
  <2>1. CASE PreStop(i)
    BY <2>1 DEF PreStop
  <2>2. CASE NoPeers(i)
    BY <2>2 DEF NoPeers
  <2>3. CASE Kill(i)
    BY <2>3 DEF Kill, Dies, On
  <2>4. CASE Exit(i)
    BY <2>4 DEF Exit, Dies, On
  <2>5. CASE Restart(i)
    BY <2>5 DEF Restart
  <2> QED
    BY <1>2, <2>1, <2>2, <2>3, <2>4, <2>5 DEF Instance
<1>3. CASE Tick
  BY <1>3 DEF Tick, Quiet, Rests, Less
<1> QED
  BY <1>1, <1>2, <1>3 DEF Next

\* A peer that is up is in its instance's room.
LEMMA PlacesNext == ASSUME IInv, Next PROVE Places'
<1> USE FleetAssumption
    DEF IInv, TypeOK, MainStages, HandlerStages, GoMain, GoHandler, Works, RedisFails,
        Faulted, redisVars, localVars, handlerVars, sessionVars,
        Stages, Adding, Removing, Places, Name
<1>1. ASSUME NEW s \in Sessions, MainTask(s) \/ Called(s) \/ StateTask(s) PROVE Places'
  <2>1. CASE Ask(s)
    BY <2>1 DEF Ask, Over, Comes
  <2>2. CASE Start(s)
    BY <2>2 DEF Start, Enter, Claims, Strays
  <2>3. CASE Answer(s)
    BY <2>3 DEF Answer, Strays
  <2>4. CASE Wait(s)
    BY <2>4 DEF Wait
  <2>5. CASE Expire(s)
    BY <2>5 DEF Expire, Strays
  <2>6. CASE Close(s)
    BY <2>6 DEF Close, Depart, Stays, Claims, Strays
  <2>7. CASE HandleUp(s)
    BY <2>7 DEF HandleUp, Begun
  <2>8. ASSUME NEW d \in Downs(s), HandleDown(s, d) PROVE Places'
    BY <2>8 DEF HandleDown, Notify, Downs, Begun
  <2>9. CASE Ignore(s)
    BY <2>9 DEF Ignore, Over
  <2>10. CASE AddToRedis(s)
    BY <2>10 DEF AddToRedis, Fails, Listing
  <2>11. CASE TouchAdded(s)
    BY <2>11 DEF TouchAdded, Fails, Touch, Enter, Claims
  <2>12. CASE RemoveFromRedis(s)
    BY <2>12 DEF RemoveFromRedis, Fails, Delisting
  <2>13. CASE TouchRemoved(s)
    BY <2>13 DEF TouchRemoved, Fails, Touch, Depart, Stays, Claims
  <2> QED
    BY <1>1, <2>1, <2>2, <2>3, <2>4, <2>5, <2>6, <2>7, <2>8, <2>9, <2>10, <2>11, <2>12, <2>13
    DEF MainTask, Called, StateTask
<1>2. ASSUME NEW i \in Instances, Instance(i) PROVE Places'
  <2>1. CASE PreStop(i)
    BY <2>1 DEF PreStop
  <2>2. CASE NoPeers(i)
    BY <2>2 DEF NoPeers
  <2>3. CASE Kill(i)
    BY <2>3 DEF Kill, Dies, On
  <2>4. CASE Exit(i)
    BY <2>4 DEF Exit, Dies, On
  <2>5. CASE Restart(i)
    BY <2>5 DEF Restart
  <2> QED
    BY <1>2, <2>1, <2>2, <2>3, <2>4, <2>5 DEF Instance
<1>3. CASE Tick
  BY <1>3 DEF Tick, Quiet, Rests, Less
<1> QED
  BY <1>1, <1>2, <1>3 DEF Next

\* A listed name keeps its connection, or becomes a ghost.
LEMMA ListedNext == ASSUME IInv, Next PROVE ListedIsThere'
<1> USE FleetAssumption
    DEF IInv, TypeOK, MainStages, HandlerStages, GoMain, GoHandler, Works, RedisFails,
        Faulted, redisVars, localVars, handlerVars, sessionVars,
        Stages, Adding, Removing, Owners,
        ListedIsThere, Name
<1>1. ASSUME NEW s \in Sessions, MainTask(s) \/ Called(s) \/ StateTask(s) PROVE ListedIsThere'
  <2>1. CASE Ask(s)
    <3>1. Name(s) \notin listed
      BY <2>1 DEF Ask
    <3>2. UNCHANGED <<listed, ghosts, handler, failures>>
      BY <2>1 DEF Ask
    <3>3. \A t \in Sessions \ {s} : link'[t] = link[t] /\ (revived'[t] <=> revived[t])
      BY <2>1 DEF Ask, Comes
    <3> QED
      BY <3>1, <3>2, <3>3
  <2>2. CASE Start(s)
    BY <2>2 DEF Start, Enter, Claims, Strays
  <2>3. CASE Answer(s)
    BY <2>3 DEF Answer, Strays
  <2>4. CASE Wait(s)
    BY <2>4 DEF Wait
  <2>5. CASE Expire(s)
    BY <2>5 DEF Expire, Strays
  <2>6. CASE Close(s)
    BY <2>6 DEF Close, Depart, Claims, Strays
  <2>7. CASE HandleUp(s)
    BY <2>7 DEF HandleUp, Begun
  <2>8. ASSUME NEW d \in Downs(s), HandleDown(s, d) PROVE ListedIsThere'
    BY <2>8 DEF HandleDown, Notify, Downs, Begun
  <2>9. CASE Ignore(s)
    BY <2>9 DEF Ignore, Over
  <2>10. CASE AddToRedis(s)
    BY <2>10 DEF AddToRedis, Fails, Listing
  <2>11. CASE TouchAdded(s)
    BY <2>11 DEF TouchAdded, Fails, Touch, Enter, Claims
  <2>12. CASE RemoveFromRedis(s)
    <3>1. CASE Works /\ Delisting(s) /\ GoHandler(s, "rexpire")
      <4>1. listed' = listed \ {Name(s)} /\ ghosts' = ghosts \ {Name(s)}
        BY <3>1 DEF Delisting
      <4>2. \A t \in Sessions \ {s} : handler'[t] = handler[t]
        BY <3>1
      <4>3. UNCHANGED <<link, revived, failures>>
        BY <2>12, <3>1 DEF RemoveFromRedis
      <4> QED
        BY <4>1, <4>2, <4>3
    <3>2. CASE Fails(Delisting(s))
      BY <3>2 DEF Fails
    <3> QED
      BY <2>12, <3>1, <3>2 DEF RemoveFromRedis
  <2>13. CASE TouchRemoved(s)
    BY <2>13 DEF TouchRemoved, Fails, Touch, Depart, Claims
  <2> QED
    BY <1>1, <2>1, <2>2, <2>3, <2>4, <2>5, <2>6, <2>7, <2>8, <2>9, <2>10, <2>11, <2>12, <2>13
    DEF MainTask, Called, StateTask
<1>2. ASSUME NEW i \in Instances, Instance(i) PROVE ListedIsThere'
  <2>1. CASE PreStop(i)
    BY <2>1 DEF PreStop
  <2>2. CASE NoPeers(i)
    BY <2>2 DEF NoPeers
  <2>3. CASE Kill(i)
    BY <2>3 DEF Kill, Dies, On
  <2>4. CASE Exit(i)
    BY <2>4 DEF Exit, Dies, On
  <2>5. CASE Restart(i)
    BY <2>5 DEF Restart
  <2> QED
    BY <1>2, <2>1, <2>2, <2>3, <2>4, <2>5 DEF Instance
<1>3. CASE Tick
  BY <1>3 DEF Tick, Quiet, Rests, Less
<1> QED
  BY <1>1, <1>2, <1>3 DEF Next

\* Who was about to give a list its time to live leaves a ghost in it.
LEMMA ExpireDies ==
    ASSUME IInv, NEW i \in Instances, Dies(i)
    PROVE  ListsExpireUnless'
<1> USE FleetAssumption DEF IInv, TypeOK, Faulted, redisVars, ListsExpireUnless, Name
<1>1. ghosts' = ghosts \union ({Name(t) : t \in On(i)} \intersect listed)
      /\ UNCHANGED <<listTtl, failures>>
  BY DEF Dies
<1> SUFFICES ASSUME NEW k \in Kinds, listTtl[k] = Forever, ~Faulted
             PROVE  \/ \E s \in Sessions : Kind[s] = k /\ handler'[s] = "sexpire"
                    \/ \E n \in ghosts' : n[1] = k
  BY <1>1
<1>2. CASE \E n \in ghosts : n[1] = k
  BY <1>1, <1>2
<1>3. ASSUME NEW s \in Sessions, Kind[s] = k, handler[s] = "sexpire"
      PROVE  \/ \E t \in Sessions : Kind[t] = k /\ handler'[t] = "sexpire"
             \/ \E n \in ghosts' : n[1] = k
  <2>1. CASE s \in On(i)
    <3>1. Name(s) \in listed
      BY <1>3 DEF Lists
    <3> QED
      BY <1>1, <1>3, <2>1, <3>1
  <2>2. CASE s \notin On(i)
    BY <1>3, <2>2 DEF Dies
  <2> QED
    BY <2>1, <2>2
<1> QED
  BY <1>2, <1>3

\* A list without a time to live is about to get one, or has a ghost.
LEMMA ExpireNext == ASSUME IInv, Next PROVE ListsExpireUnless'
<1> USE FleetAssumption
    DEF IInv, TypeOK, MainStages, HandlerStages, GoMain, GoHandler, Works, RedisFails,
        Faulted, redisVars, localVars, handlerVars, sessionVars,
        ListsExpireUnless, Stages, Adding, Removing, Owners, Name, Names, Kinds, Forever
<1>1. ASSUME NEW s \in Sessions, MainTask(s) \/ Called(s) \/ StateTask(s) PROVE ListsExpireUnless'
  <2>1. CASE Ask(s)
    BY <2>1 DEF Ask, Over, Comes
  <2>2. CASE Start(s)
    BY <2>2 DEF Start, Enter, Claims, Strays
  <2>3. CASE Answer(s)
    BY <2>3 DEF Answer, Strays
  <2>4. CASE Wait(s)
    BY <2>4 DEF Wait
  <2>5. CASE Expire(s)
    BY <2>5 DEF Expire, Strays
  <2>6. CASE Close(s)
    BY <2>6 DEF Close, Depart, Claims, Strays
  <2>7. CASE HandleUp(s)
    BY <2>7 DEF HandleUp, Begun
  <2>8. ASSUME NEW d \in Downs(s), HandleDown(s, d) PROVE ListsExpireUnless'
    BY <2>8 DEF HandleDown, Notify, Downs, Begun
  <2>9. CASE Ignore(s)
    BY <2>9 DEF Ignore, Over
  <2>10. CASE AddToRedis(s)
    BY <2>10 DEF AddToRedis, Fails, Listing
  <2>11. CASE TouchAdded(s)
    BY <2>11 DEF TouchAdded, Fails, Touch, Enter, Claims
  <2>12. CASE RemoveFromRedis(s)
    <3>1. CASE Works /\ Delisting(s) /\ GoHandler(s, "rexpire")
      <4> SUFFICES ASSUME NEW k \in Kinds, listTtl'[k] = Forever, ~Faulted
                   PROVE  \/ \E t \in Sessions : Kind[t] = k /\ handler'[t] = "sexpire"
                          \/ \E n \in ghosts' : n[1] = k
        BY <3>1
      <4>1. listTtl[k] = Forever
        BY <3>1 DEF Delisting
      <4>2. \A t \in Sessions : handler[t] = "sexpire" => handler'[t] = "sexpire"
        BY <2>12, <3>1 DEF RemoveFromRedis
      <4>3. Name(s) \notin ghosts /\ ghosts' = ghosts
        BY <2>12, <3>1 DEF RemoveFromRedis, Delisting
      <4> QED
        BY <4>1, <4>2, <4>3
    <3>2. CASE Fails(Delisting(s))
      BY <3>2 DEF Fails
    <3> QED
      BY <2>12, <3>1, <3>2 DEF RemoveFromRedis
  <2>13. CASE TouchRemoved(s)
    BY <2>13 DEF TouchRemoved, Fails, Touch, Depart, Claims
  <2> QED
    BY <1>1, <2>1, <2>2, <2>3, <2>4, <2>5, <2>6, <2>7, <2>8, <2>9, <2>10, <2>11, <2>12, <2>13
    DEF MainTask, Called, StateTask
<1>2. ASSUME NEW i \in Instances, Instance(i) PROVE ListsExpireUnless'
  <2>1. CASE PreStop(i)
    BY <2>1 DEF PreStop
  <2>2. CASE NoPeers(i)
    BY <2>2 DEF NoPeers
  <2>3. CASE Kill(i)
    BY <2>3, ExpireDies DEF Kill
  <2>4. CASE Exit(i)
    BY <2>4, ExpireDies DEF Exit
  <2>5. CASE Restart(i)
    BY <2>5 DEF Restart
  <2> QED
    BY <1>2, <2>1, <2>2, <2>3, <2>4, <2>5 DEF Instance
<1>3. CASE Tick
  BY <1>3 DEF Tick, Quiet, Rests, Less
<1> QED
  BY <1>1, <1>2, <1>3 DEF Next

\* The inductive invariant holds in every behaviour.
THEOREM Invariant == Spec => []IInv
<1>1. Init => IInv
  <2> SUFFICES ASSUME Init PROVE IInv
    OBVIOUS
  <2>1. TypeOK
    BY TypeInit
  <2>2. Stages /\ Lists /\ Owners /\ Places
    BY FleetAssumption
    DEF Init, Stages, Adding, Removing, Lists, Owners, Places
  <2>3. ListedIsThere /\ ListsExpireUnless
    BY FleetAssumption DEF Init, ListedIsThere, ListsExpireUnless, Forever, Kinds
  <2> QED
    BY <2>1, <2>2, <2>3 DEF IInv
<1>2. IInv /\ [Next]_vars => IInv'
  <2> SUFFICES ASSUME IInv, [Next]_vars PROVE IInv'
    OBVIOUS
  <2>1. CASE Next
    BY <2>1, TypeNext, StagesNext, ListsNext, OwnersNext, PlacesNext, ListedNext, ExpireNext
    DEF IInv
  <2>2. CASE UNCHANGED vars
    <3> USE <2>2
        DEF vars, redisVars, localVars, handlerVars, sessionVars, Faulted, IInv
    <3>1. TypeOK' /\ Stages'
      BY DEF TypeOK, Stages
    <3>2. Lists' /\ Owners' /\ Places'
      BY DEF Lists, Outlasts, Owners, Places
    <3>3. ListedIsThere' /\ ListsExpireUnless'
      BY DEF ListedIsThere, ListsExpireUnless
    <3> QED
      BY <3>1, <3>2, <3>3
  <2> QED
    BY <2>1, <2>2
<1> QED
  BY <1>1, <1>2, PTL DEF Spec

-----------------------------------------------------------------------------
(* Who is in the rooms of an instance *)

\* The session is in its instance's room, or on its way into it or out of it.
Present(s) ==
    \/ Kind[s] = "sub" /\ main[s] \in {"negotiating", "answered", "waiting", "closing"}
    \/ Kind[s] = "pub" /\ (link[s] = "up" \/ handler[s] \in Removing \/ revived[s])

\* Why a room that is kept has a peer at work, or one that came back: a session does not
\* end, nor go to another instance, before it has left the room, or left its name behind.
Homes ==
    \A i \in Instances :
        /\ rooms[i] => local[i] # {}
        /\ \A n \in local[i] :
              \/ \E s \in Sessions : Name(s) = n /\ at[s] = i /\ Present(s)
              \/ <<i, n>> \in strays \/ Faulted

\* A step that moves nobody between instances, empties no room and lets nobody go keeps
\* the rooms' peers.
LEMMA HomesKept ==
    ASSUME IInv, Homes, UNCHANGED <<rooms, local, at>>,
           strays \subseteq strays', Faulted => Faulted',
           \A s \in Sessions : Present(s) => Present(s)' \/ <<at[s], Name(s)>> \in strays' \/ Faulted'
    PROVE  Homes'
<1> SUFFICES ASSUME NEW i \in Instances, NEW n \in local[i]
             PROVE  \/ \E s \in Sessions : Name(s) = n /\ at[s] = i /\ Present(s)'
                    \/ <<i, n>> \in strays' \/ Faulted'
  BY DEF Homes, Name
<1>1. CASE <<i, n>> \in strays \/ Faulted
  BY <1>1
<1>2. ASSUME NEW s \in Sessions, Name(s) = n, at[s] = i, Present(s)
      PROVE  \/ \E r \in Sessions : Name(r) = n /\ at[r] = i /\ Present(r)'
             \/ <<i, n>> \in strays' \/ Faulted'
  BY <1>2
<1> QED
  BY <1>1, <1>2 DEF Homes

\* A session that enters the room is present, or leaves its name there.
LEMMA HomesEnter ==
    ASSUME IInv, Homes, NEW s \in Sessions, Enter(s), UNCHANGED at,
           strays \ {<<at[s], Name(s)>>} \subseteq strays', Faulted => Faulted',
           Present(s)' \/ <<at[s], Name(s)>> \in strays',
           \A r \in Sessions \ {s} : Present(r) => Present(r)'
    PROVE  Homes'
<1> USE FleetAssumption
<1>1. at[s] \in Instances /\ local \in [Instances -> SUBSET Names] /\ rooms \in [Instances -> BOOLEAN]
  BY DEF IInv, TypeOK
<1>2. \A i \in Instances :
          local'[i] = IF i = at[s] THEN local[i] \union {Name(s)} ELSE local[i]
  BY <1>1 DEF Enter
<1>3. ASSUME NEW i \in Instances, rooms'[i] PROVE local'[i] # {}
  BY <1>1, <1>2, <1>3 DEF Enter, Homes
<1>4. ASSUME NEW i \in Instances, NEW n \in local'[i]
      PROVE  \/ \E r \in Sessions : Name(r) = n /\ at[r] = i /\ Present(r)'
             \/ <<i, n>> \in strays' \/ Faulted'
  <2>1. CASE i = at[s] /\ n = Name(s)
    BY <2>1
  <2>2. CASE ~(i = at[s] /\ n = Name(s))
    <3>1. n \in local[i]
      BY <1>2, <1>4, <2>2
    <3>2. CASE <<i, n>> \in strays \/ Faulted
      BY <2>2, <3>2
    <3>3. ASSUME NEW r \in Sessions, Name(r) = n, at[r] = i, Present(r)
          PROVE  \E q \in Sessions : Name(q) = n /\ at[q] = i /\ Present(q)'
      BY <2>2, <3>3
    <3> QED
      BY <3>1, <3>2, <3>3 DEF Homes
  <2> QED
    BY <2>1, <2>2
<1> QED
  BY <1>3, <1>4 DEF Homes, Name

\* A session that departs takes its name with it.
LEMMA HomesDepart ==
    ASSUME IInv, Homes, NEW s \in Sessions, Depart(s), UNCHANGED at, Faulted => Faulted',
           \A r \in Sessions \ {s} : Present(r) => Present(r)'
    PROVE  Homes'
<1> USE FleetAssumption
<1> DEFINE rest == local[at[s]] \ {Name(s)}
<1>1. at[s] \in Instances /\ local \in [Instances -> SUBSET Names] /\ rooms \in [Instances -> BOOLEAN]
  BY DEF IInv, TypeOK
<1>2. \A i \in Instances : local'[i] = IF i = at[s] THEN rest ELSE local[i]
  BY <1>1 DEF Depart, Stays
<1>3. \A i \in Instances : rooms'[i] <=> IF i = at[s] THEN rest # {} ELSE rooms[i]
  BY <1>1 DEF Depart, Stays
<1>4. ASSUME NEW i \in Instances, rooms'[i] PROVE local'[i] # {}
  BY <1>2, <1>3, <1>4 DEF Homes
<1>5. ASSUME NEW i \in Instances, NEW n \in local'[i]
      PROVE  \/ \E r \in Sessions : Name(r) = n /\ at[r] = i /\ Present(r)'
             \/ <<i, n>> \in strays' \/ Faulted'
  <2>1. n \in local[i] /\ ~(i = at[s] /\ n = Name(s))
    BY <1>2, <1>5
  <2>2. CASE <<i, n>> \in strays
    BY <2>1, <2>2 DEF Depart, Claims
  <2>3. ASSUME NEW r \in Sessions, Name(r) = n, at[r] = i, Present(r)
        PROVE  \E q \in Sessions : Name(q) = n /\ at[q] = i /\ Present(q)'
    BY <2>1, <2>3
  <2> QED
    BY <2>1, <2>2, <2>3 DEF Homes
<1> QED
  BY <1>4, <1>5 DEF Homes, Name

\* A session that comes again to an instance, the same or another, was present where it
\* was only if its connection came back, and its name is a stray there now.
LEMMA HomesAsk ==
    ASSUME IInv, Homes, NEW s \in Sessions, Ask(s)
    PROVE  Homes'
<1> USE FleetAssumption DEF IInv, TypeOK, Ask
<1>1. UNCHANGED <<rooms, local, failures>> /\ strays \subseteq strays'
  BY DEF Comes
<1>2. revived[s] => <<at[s], Name(s)>> \in strays'
  BY DEF Comes
<1>3. Present(s) => revived[s]
  BY DEF Over, Present, Stages, Removing
<1>4. \A r \in Sessions \ {s} : (Present(r)' <=> Present(r)) /\ at'[r] = at[r]
  BY DEF Comes, GoMain, Present
<1>5. ASSUME NEW i \in Instances, NEW n \in local[i]
      PROVE  \/ \E r \in Sessions : Name(r) = n /\ at'[r] = i /\ Present(r)'
             \/ <<i, n>> \in strays' \/ Faulted
  <2>1. ASSUME NEW r \in Sessions, Name(r) = n, at[r] = i, Present(r)
        PROVE  \/ \E q \in Sessions : Name(q) = n /\ at'[q] = i /\ Present(q)'
               \/ <<i, n>> \in strays'
    <3>1. CASE r = s
      BY <1>2, <1>3, <2>1, <3>1
    <3>2. CASE r # s
      BY <1>4, <2>1, <3>2
    <3> QED
      BY <3>1, <3>2
  <2> QED
    BY <1>1, <2>1 DEF Homes
<1> QED
  BY <1>1, <1>5 DEF Homes, Name, Faulted

\* With an instance go its rooms and its sessions, and nobody else.
LEMMA HomesDies ==
    ASSUME IInv, Homes, NEW i \in Instances, Dies(i)
    PROVE  Homes'
<1> USE FleetAssumption DEF IInv, TypeOK
<1>1. /\ local'[i] = {} /\ ~rooms'[i]
      /\ \A j \in Instances \ {i} : local'[j] = local[j] /\ (rooms'[j] <=> rooms[j])
      /\ UNCHANGED <<at, failures>>
  BY DEF Dies
<1>2. \A s \in Sessions : at[s] # i => (Present(s)' <=> Present(s))
  BY DEF Dies, On, Present
<1>3. ASSUME NEW j \in Instances, NEW n \in local'[j]
      PROVE  \/ \E s \in Sessions : Name(s) = n /\ at[s] = j /\ Present(s)'
             \/ <<j, n>> \in strays' \/ Faulted
  <2>1. j # i /\ n \in local[j]
    BY <1>1, <1>3
  <2>2. CASE <<j, n>> \in strays
    BY <2>1, <2>2 DEF Dies
  <2>3. ASSUME NEW s \in Sessions, Name(s) = n, at[s] = j, Present(s)
        PROVE  \E r \in Sessions : Name(r) = n /\ at[r] = j /\ Present(r)'
    BY <1>2, <2>1, <2>3
  <2> QED
    BY <2>1, <2>2, <2>3 DEF Homes
<1> QED
  BY <1>1, <1>3 DEF Homes, Name, Faulted

\* No step leaves a room to nobody.
LEMMA HomesNext == ASSUME IInv, Homes, Next PROVE Homes'
<1> USE FleetAssumption
    DEF GoMain, GoHandler, Works, RedisFails, redisVars, localVars, handlerVars, sessionVars
<1>t. /\ main \in [Sessions -> MainStages]
      /\ link \in [Sessions -> {"new", "up", "lost", "failed", "closed"}]
      /\ handler \in [Sessions -> HandlerStages]
      /\ isClosed \in [Sessions -> BOOLEAN] /\ revived \in [Sessions -> BOOLEAN]
      /\ at \in [Sessions -> Instances]
      /\ failures \in Nat
  BY DEF IInv, TypeOK
<1>k. Kinds = {"pub", "sub"} /\ \A s \in Sessions : Kind[s] \in Kinds
  BY DEF Kinds
<1>s. Stages
  BY DEF IInv
<1>1. ASSUME NEW s \in Sessions, MainTask(s) \/ Called(s) \/ StateTask(s) PROVE Homes'
  <2>1. CASE Ask(s)
    BY <2>1, HomesAsk
  <2>2. CASE Start(s)
    <3>1. \A r \in Sessions : Present(r) => Present(r)'
      BY <2>2, <1>t DEF Start, Present
    <3>2. UNCHANGED <<at, failures>>
      BY <2>2 DEF Start
    <3>3. CASE UNCHANGED localVars
      BY <3>1, <3>2, <3>3, HomesKept DEF Faulted
    <3>4. CASE Enter(s) /\ GoMain(s, "negotiating") /\ Kind[s] = "sub" /\ Claims(s)
      <4>1. Present(s)'
        BY <3>4, <1>t DEF Present
      <4> QED
        BY <3>1, <3>2, <3>4, <4>1, HomesEnter DEF Claims, Faulted
    <3>5. CASE Enter(s) /\ Kind[s] = "sub" /\ Strays(s)
      <4>1. strays' = strays \union {<<at[s], Name(s)>>}
        BY <3>5 DEF Strays
      <4> QED
        BY <3>1, <3>2, <3>5, <4>1, HomesEnter DEF Faulted
    <3> QED
      BY <2>2, <3>3, <3>4, <3>5 DEF Start
  <2>3. CASE Answer(s)
    <3>1. \A r \in Sessions \ {s} : Present(r) => Present(r)'
      BY <2>3, <1>t DEF Answer, Present
    <3>2. Present(s) => Present(s)' \/ <<at[s], Name(s)>> \in strays'
      BY <2>3, <1>t, <1>k DEF Answer, Strays, Present
    <3>3. strays \subseteq strays'
      BY <2>3 DEF Answer, Strays
    <3> QED
      BY <2>3, <3>1, <3>2, <3>3, HomesKept DEF Answer, Faulted
  <2>4. CASE Wait(s)
    <3>1. \A r \in Sessions : Present(r) => Present(r)'
      BY <2>4, <1>t DEF Wait, Present
    <3> QED
      BY <2>4, <3>1, HomesKept DEF Wait, Faulted
  <2>5. CASE Expire(s)
    <3>1. \A r \in Sessions \ {s} : Present(r) => Present(r)'
      BY <2>5, <1>t DEF Expire, Present
    <3>2. Present(s) => Present(s)' \/ <<at[s], Name(s)>> \in strays'
      BY <2>5, <1>t, <1>k DEF Expire, Strays, Present
    <3>3. strays \subseteq strays'
      BY <2>5 DEF Expire, Strays
    <3> QED
      BY <2>5, <3>1, <3>2, <3>3, HomesKept DEF Expire, Faulted
  <2>6. CASE Close(s)
    <3>1. \A r \in Sessions \ {s} : Present(r) => Present(r)'
      BY <2>6, <1>t DEF Close, Present
    <3>2. UNCHANGED <<at, failures>>
      BY <2>6 DEF Close
    <3>3. CASE Kind[s] = "pub" /\ UNCHANGED localVars
      <4>1. Present(s) => Present(s)'
        BY <2>6, <3>3, <1>t DEF Close, Present
      <4> QED
        BY <3>1, <3>2, <3>3, <4>1, HomesKept DEF Faulted
    <3>4. CASE Kind[s] = "sub" /\ Depart(s)
      BY <3>1, <3>2, <3>4, HomesDepart DEF Faulted
    <3>5. CASE Kind[s] = "sub" /\ Strays(s) /\ UNCHANGED <<rooms, local>>
      <4>1. strays' = strays \union {<<at[s], Name(s)>>}
        BY <3>5 DEF Strays
      <4> QED
        BY <3>1, <3>2, <3>5, <4>1, HomesKept DEF Faulted
    <3> QED
      BY <2>6, <3>3, <3>4, <3>5 DEF Close
  <2>7. CASE HandleUp(s)
    <3>1. \A r \in Sessions : Present(r) => Present(r)'
      BY <2>7, <1>t DEF HandleUp, Present, Removing
    <3> QED
      BY <2>7, <3>1, HomesKept DEF HandleUp, Faulted
  <2>8. ASSUME NEW d \in Downs(s), HandleDown(s, d) PROVE Homes'
    <3>1. \A r \in Sessions \ {s} : Present(r) => Present(r)'
      BY <2>8, <1>t DEF HandleDown, Notify, Present
    <3>2. Present(s) => Present(s)'
      BY <2>8, <1>t, <1>s DEF HandleDown, Notify, Present, Removing, Stages
    <3> QED
      BY <2>8, <3>1, <3>2, HomesKept DEF HandleDown, Faulted
  <2>9. CASE Ignore(s)
    <3>1. \A r \in Sessions : Present(r) => Present(r)'
      BY <2>9, <1>t DEF Ignore, Present
    <3> QED
      BY <2>9, <3>1, HomesKept DEF Ignore, Faulted
  <2>10. CASE AddToRedis(s)
    <3>1. \A r \in Sessions : Present(r) => Present(r)'
      BY <2>10, <1>t DEF AddToRedis, Fails, Present, Removing
    <3>2. UNCHANGED <<at, localVars>> /\ (Faulted => Faulted')
      BY <2>10, <1>t DEF AddToRedis, Fails, Faulted
    <3> QED
      BY <3>1, <3>2, HomesKept
  <2>11. CASE TouchAdded(s)
    <3>1. \A r \in Sessions : Present(r) => Present(r)'
      BY <2>11, <1>t DEF TouchAdded, Fails, Present, Removing
    <3>2. UNCHANGED at /\ (Faulted => Faulted')
      BY <2>11, <1>t DEF TouchAdded, Fails, Faulted
    <3>3. CASE UNCHANGED localVars
      BY <3>1, <3>2, <3>3, HomesKept
    <3>4. CASE Kind[s] = "pub" /\ Enter(s) /\ Claims(s)
      <4>1. Present(s)'
        BY <2>11, <3>4, <1>t, <1>s DEF TouchAdded, Present, Stages, Adding
      <4> QED
        BY <3>1, <3>2, <3>4, <4>1, HomesEnter DEF Claims
    <3> QED
      BY <2>11, <3>3, <3>4 DEF TouchAdded
  <2>12. CASE RemoveFromRedis(s)
    <3>1. \A r \in Sessions : Present(r) => Present(r)' \/ Faulted'
      BY <2>12, <1>t DEF RemoveFromRedis, Fails, Present, Removing, Faulted
    <3>2. UNCHANGED <<at, localVars>> /\ (Faulted => Faulted')
      BY <2>12, <1>t DEF RemoveFromRedis, Fails, Faulted
    <3> QED
      BY <3>1, <3>2, HomesKept
  <2>13. CASE TouchRemoved(s)
    <3>1. \A r \in Sessions \ {s} : Present(r) => Present(r)'
      BY <2>13, <1>t DEF TouchRemoved, Present
    <3>2. UNCHANGED at /\ (Faulted => Faulted')
      BY <2>13, <1>t DEF TouchRemoved, Fails, Faulted
    <3>3. CASE Kind[s] = "pub" /\ Depart(s)
      BY <3>1, <3>2, <3>3, HomesDepart
    <3>4. CASE (Kind[s] = "sub" \/ Faulted') /\ UNCHANGED localVars
      <4>1. Present(s) => Present(s)' \/ Faulted'
        BY <2>13, <3>4 DEF TouchRemoved, Present
      <4> QED
        BY <3>1, <3>2, <3>4, <4>1, HomesKept
    <3>5. Fails(Touch(s)) => Faulted'
      BY <1>t DEF Fails, Faulted
    <3> QED
      BY <2>13, <3>3, <3>4, <3>5 DEF TouchRemoved
  <2> QED
    BY <1>1, <2>1, <2>2, <2>3, <2>4, <2>5, <2>6, <2>7, <2>8, <2>9, <2>10, <2>11, <2>12, <2>13
    DEF MainTask, Called, StateTask
<1>2. ASSUME UNCHANGED <<rooms, local, at, strays, failures, main, link, handler, revived>>
      PROVE  Homes'
  <2>1. \A r \in Sessions : Present(r) => Present(r)'
    BY <1>2 DEF Present
  <2> QED
    BY <1>2, <2>1, HomesKept DEF Faulted
<1>3. ASSUME NEW i \in Instances, Instance(i) PROVE Homes'
  <2>1. CASE PreStop(i) \/ NoPeers(i) \/ Restart(i)
    BY <1>2, <2>1 DEF PreStop, NoPeers, Restart
  <2>2. CASE Kill(i) \/ Exit(i)
    BY <2>2, HomesDies DEF Kill, Exit
  <2> QED
    BY <1>3, <2>1, <2>2 DEF Instance
<1>4. CASE Tick
  BY <1>2, <1>4 DEF Tick
<1> QED
  BY <1>1, <1>3, <1>4 DEF Next

-----------------------------------------------------------------------------
(* The properties of Fleet *)

\* Fleet keeps its types.
THEOREM TypeCorrect == Spec => []TypeOK
<1>1. IInv => TypeOK
  BY DEF IInv
<1> QED
  BY <1>1, Invariant, PTL

\* A peer that is up stays in the room's list for the whole of its 24 hours, however long
\* the others of the fleet stay, unless a call of Redis fails.
THEOREM PeersStayListed == Spec => []StillListed
<1>1. IInv => StillListed
  BY FleetAssumption DEF IInv, TypeOK, Lists, Outlasts, StillListed
<1> QED
  BY <1>1, Invariant, PTL

\* A listed full id has a connection that is up or a state handler at work behind it, but
\* for what an instance or a subscriber's main task that ended left in the list, for a
\* publisher whose connection came back after it was closed, and for failing calls.
THEOREM ListedAreThere == Spec => []ListedIsThere
<1>1. IInv => ListedIsThere
  BY DEF IInv
<1> QED
  BY <1>1, Invariant, PTL

\* A list has a time to live, except for the named interruptions.
THEOREM ListsExpire == Spec => []ListsExpireUnless
<1>1. IInv => ListsExpireUnless
  BY DEF IInv
<1> QED
  BY <1>1, Invariant, PTL

\* Whatever sessions came back where, each room that an instance keeps has a session of
\* that instance at work in it; preStop waits for nobody else, but for a subscriber that
\* left its registration behind, a publisher whose connection came back after it was
\* closed (for these it waits for ever), and what a failing call of Redis left.
THEOREM RoomsAlwaysHavePeers == Spec => []RoomsHavePeers
<1>1. Init => Homes
  <2> SUFFICES ASSUME Init PROVE Homes
    OBVIOUS
  <2>1. \A i \in Instances : ~rooms[i] /\ local[i] = {}
    BY DEF Init
  <2> QED
    BY <2>1 DEF Homes
<1>2. IInv /\ Homes /\ [Next]_vars => Homes'
  <2>1. ASSUME Homes, UNCHANGED vars PROVE Homes'
    BY <2>1 DEF Homes, Present, Name, Faulted, vars, localVars, handlerVars, sessionVars
  <2> QED
    BY <2>1, HomesNext
<1>3. IInv /\ Homes => RoomsHavePeers
  <2> SUFFICES ASSUME IInv, Homes PROVE RoomsHavePeers
    OBVIOUS
  <2>1. \A s \in Sessions : Present(s) => AtWork(s) \/ revived[s]
    BY DEF Present, AtWork, Removing
  <2>2. ASSUME NEW i \in Instances, NEW n \in local[i], <<i, n>> \notin strays, ~Faulted
        PROVE  \E s \in Sessions : Name(s) = n /\ at[s] = i /\ (AtWork(s) \/ revived[s])
    <3>1. PICK s \in Sessions : Name(s) = n /\ at[s] = i /\ Present(s)
      BY <2>2 DEF Homes
    <3> QED
      BY <2>1, <3>1
  <2>3. \A i \in Instances : rooms[i] => local[i] # {}
    BY DEF Homes
  <2> QED
    BY <2>2, <2>3, Zenon DEF RoomsHavePeers
<1> QED
  BY <1>1, <1>2, <1>3, Invariant, PTL DEF Spec

\* preStop stops no instance with a peer that is up, but for publishers that are not in
\* the local state yet or were kept from it by a failing call.
THEOREM DrainsSparePeers == Spec => DrainSparesPeers
<1> DEFINE Spares ==
      \A s \in Sessions :
          proc[at[s]] = "draining" /\ proc'[at[s]] = "stopping" /\ Up(s) =>
              Kind[s] = "pub" /\ (handler[s] # "idle" \/ Faulted)
<1>1. IInv /\ [Next]_vars => [Spares]_vars
  <2> SUFFICES ASSUME IInv, Next,
                      NEW s \in Sessions,
                      proc[at[s]] = "draining", proc'[at[s]] = "stopping", Up(s)
               PROVE  Kind[s] = "pub" /\ (handler[s] # "idle" \/ Faulted)
    OBVIOUS
  <2>1. at[s] \in Instances /\ proc \in [Instances -> {"up", "draining", "stopping", "down"}]
    BY DEF IInv, TypeOK
  <2>2. PICK i \in Instances : NoPeers(i) /\ at[s] = i
    BY <2>1
    DEF Next, MainTask, Called, StateTask, Instance, Ask, Start, Answer, Wait, Expire, Close,
        HandleUp, HandleDown, Ignore, AddToRedis, TouchAdded, RemoveFromRedis, TouchRemoved,
        PreStop, NoPeers, Kill, Exit, Dies, Restart, Tick
  <2>3. local[at[s]] = {}
    BY <2>2 DEF NoPeers, IInv, Places
  <2>4. link[s] = "up" /\ main[s] \in {"answered", "waiting", "closing", "expired"}
    BY DEF Up, IInv, TypeOK, MainStages, Stages
  <2>5. Kind[s] = "pub" \/ Kind[s] = "sub"
    BY FleetAssumption DEF Kinds
  <2> QED
    BY <2>3, <2>4, <2>5 DEF IInv, Places
<1> QED
  BY <1>1, Invariant, PTL DEF Spec, DrainSparesPeers
=============================================================================
