-------------------------------- MODULE Fleet --------------------------------
(***************************************************************************)
(* The instances of the service and the Redis they share: the HTTP API       *)
(* (admission, preStop), the lists of a room's peers with their times to     *)
(* live, each instance's own rooms, and instances that are killed, drained   *)
(* and started again.  Time passes in parts of a day.                        *)
(*                                                                         *)
(* A session is a publisher or a subscriber from its request on; when it is  *)
(* over, the browser may ask again with the same full id, and come to        *)
(* another instance.  Publisher and Subscriber have each in full, with two   *)
(* sessions of one full id at once; here a session is what calls             *)
(* SharedState, in their order, and the two tasks (main, state handler) that *)
(* call it.                                                                  *)
(*                                                                         *)
(* Of its peer connection only the state is kept that the state handler was  *)
(* last called with.  The calls come in order and may be late, so that the   *)
(* connection itself may be further on; a connection may be lost and come    *)
(* back any number of times.                                                 *)
(***************************************************************************)
EXTENDS Integers

CONSTANTS
    Instances,
    Sessions,
    FullIds,
    Kind,       \* of each session, "pub" or "sub"
    Id,         \* the full id of each session
    Day,        \* parts of a day
    MaxFailures,    \* bound: calls of Redis that fail
    Faults      \* the other operations that may fail

Kinds == {"pub", "sub"}

\* SharedState keeps peers by kind and full id.
Names   == Kinds \X FullIds
Name(s) == <<Kind[s], Id[s]>>

ASSUME FleetAssumption ==
    /\ Kind \in [Sessions -> Kinds]
    /\ Id \in [Sessions -> FullIds]
    /\ \A r, s \in Sessions : r # s => Name(r) # Name(s)
    /\ Day \in Nat \ {0}
    /\ MaxFailures \in Nat
    /\ Faults \subseteq {"setup", "close"}

VARIABLES
    \* Redis
    listed,     \* the members of room#R#pub_list and room#R#sub_list
    listTtl,    \* their times to live; 0 when there is no key
    \* per instance
    proc,       \* its process
    rooms,      \* is the room in SHARED_STATE.rooms?
    local,      \* the room's pubs and subs
    \* per session
    at,         \* its instance
    main,       \* the request, then the main task
    age,        \* how long the main task has waited
    link,       \* the state the state handler was last called with
    handler,    \* where the state handler is
    isClosed,   \* a publisher's is_closed
    \* bound and history
    failures,   \* calls of Redis that have failed
    revived,    \* per session: the connection came back after is_closed was set
    ghosts,     \* names left in Redis by a session that is gone
    strays      \* names left in an instance by a session that is gone

redisVars    == <<listed, listTtl>>
localVars    == <<rooms, local, strays>>
handlerVars  == <<link, handler, isClosed, revived>>
sessionVars  == <<at, main, age, handlerVars>>
vars == <<redisVars, ghosts, proc, localVars, sessionVars, failures>>

\* The time to live of a key that has none.
Forever == Day + 1

MainStages ==
    {"idle", "spawned", "negotiating", "answered", "waiting", "closing", "ended",
     "failed", "expired"}
HandlerStages == {"idle", "sadd", "sexpire", "srem", "rexpire"}

TypeOK ==
    /\ listed \subseteq Names
    /\ listTtl \in [Kinds -> 0 .. Forever]
    /\ proc \in [Instances -> {"up", "draining", "stopping", "down"}]
    /\ rooms \in [Instances -> BOOLEAN]
    /\ local \in [Instances -> SUBSET Names]
    /\ at \in [Sessions -> Instances]
    /\ main \in [Sessions -> MainStages]
    /\ age \in [Sessions -> 0 .. Day]
    /\ link \in [Sessions -> {"new", "up", "lost", "failed", "closed"}]
    /\ handler \in [Sessions -> HandlerStages]
    /\ isClosed \in [Sessions -> BOOLEAN]
    /\ revived \in [Sessions -> BOOLEAN]
    /\ failures \in 0 .. MaxFailures
    /\ ghosts \subseteq listed
    /\ strays \subseteq Instances \X Names

Init ==
    /\ listed = {} /\ listTtl = [k \in Kinds |-> 0]
    /\ proc = [i \in Instances |-> "up"]
    /\ rooms = [i \in Instances |-> FALSE]
    /\ local = [i \in Instances |-> {}]
    /\ at \in [Sessions -> Instances]
    /\ main = [s \in Sessions |-> "idle"]
    /\ age = [s \in Sessions |-> 0]
    /\ link = [s \in Sessions |-> "new"]
    /\ handler = [s \in Sessions |-> "idle"]
    /\ isClosed = [s \in Sessions |-> FALSE]
    /\ revived = [s \in Sessions |-> FALSE]
    /\ failures = 0
    /\ ghosts = {} /\ strays = {}

GoMain(s, stage)    == main' = [main EXCEPT ![s] = stage]
GoHandler(s, stage) == handler' = [handler EXCEPT ![s] = stage]

Works      == UNCHANGED failures
RedisFails == failures < MaxFailures /\ failures' = failures + 1
Faulted    == failures > 0

\* The session has a connection, or a task with something left to do.
AtWork(s) ==
    \/ main[s] \in {"spawned", "negotiating", "answered", "waiting", "closing"}
    \/ handler[s] # "idle" \/ link[s] = "up"

-----------------------------------------------------------------------------
(* The local state *)

Enter(s) ==
    /\ local' = [local EXCEPT ![at[s]] = @ \union {Name(s)}]
    /\ rooms' = [rooms EXCEPT ![at[s]] = TRUE]

\* The entry, if one was left behind, is the session's now.
Claims(s) == strays' = strays \ {<<at[s], Name(s)>>}

\* Fault seeded in Stays: the room goes with its last pub or its last sub.
Stays_Both(peers) == \A k \in Kinds : \E n \in peers : n[1] = k

\* Fault seeded in Stays: nobody removes the room.
Stays_Always(peers) == TRUE

\* "if there is no clients for this room clean up the up layer hashmap too"
Stays(peers) == peers # {}

Depart(s) ==
    LET rest == local[at[s]] \ {Name(s)}
    IN  /\ rooms' = [rooms EXCEPT ![at[s]] = Stays(rest)]
        /\ local' = [local EXCEPT ![at[s]] = IF Stays(rest) THEN rest ELSE {}]
        /\ Claims(s)

\* The main task returns without deregistering.
Strays(s) ==
    strays' = IF Kind[s] = "sub" THEN strays \union {<<at[s], Name(s)>>} ELSE strays

-----------------------------------------------------------------------------
(* publish and subscribe *)

\* No call of the state handler is to come: the browser may ask again.
Over(s) ==
    /\ handler[s] = "idle"
    /\ \/ main[s] = "idle"
       \/ main[s] = "ended" /\ link[s] = "closed"
       \/ main[s] \in {"expired", "failed"} /\ link[s] \in {"failed", "closed"}

\* The request comes to an instance, draining or not.  What the session before it added
\* to the local state when it came back, nobody will remove.
Comes(s) ==
    /\ \E i \in Instances : proc[i] \in {"up", "draining"} /\ at' = [at EXCEPT ![s] = i]
    /\ link' = [link EXCEPT ![s] = "new"]
    /\ isClosed' = [isClosed EXCEPT ![s] = FALSE]
    /\ revived' = [revived EXCEPT ![s] = FALSE]
    /\ strays' = strays \union (IF revived[s] THEN {<<at[s], Name(s)>>} ELSE {})

\* Fault seeded in Ask: the check also sets the list's time to live.
Ask_Touches(s) ==
    /\ Over(s)
    /\ \/ Name(s) \notin listed /\ Comes(s) /\ GoMain(s, "spawned")
       \/ Name(s) \in listed /\ UNCHANGED <<at, link, isClosed, revived, strays, main>>
    /\ listTtl' = [listTtl EXCEPT ![Kind[s]] = IF @ = 0 THEN 0 ELSE Day]
    /\ UNCHANGED <<listed, ghosts, proc, rooms, local, age, handler, failures>>

\* A name that is listed (exist_publisher, exist_subscriber), one that is not valid, and
\* a token other than the one in Redis are refused, which leaves all as it was; otherwise
\* the main task is spawned.
Ask(s) ==
    /\ Over(s)
    /\ Name(s) \notin listed
    /\ Comes(s) /\ GoMain(s, "spawned")
    /\ UNCHANGED <<redisVars, ghosts, proc, rooms, local, age, handler, failures>>

-----------------------------------------------------------------------------
(* The main task *)

\* The peer connection is made, a subscriber registers, and from set_local_description
\* on the connection is at work.  `?' gives up before that, without deregistering.
Start(s) ==
    /\ main[s] = "spawned"
    /\ \/ "setup" \in Faults /\ GoMain(s, "idle") /\ UNCHANGED localVars
       \/ Kind[s] = "pub" /\ GoMain(s, "negotiating") /\ UNCHANGED localVars
       \/ Kind[s] = "sub" /\ GoMain(s, "negotiating") /\ Enter(s) /\ Claims(s)
       \/ Kind[s] = "sub" /\ "setup" \in Faults /\ GoMain(s, "idle") /\ Enter(s) /\ Strays(s)
    /\ UNCHANGED <<redisVars, ghosts, proc, at, age, handlerVars, failures>>

\* answer_tx.send fails when the request is gone; ICE is at work already.
Answer(s) ==
    /\ main[s] = "negotiating"
    /\ \/ GoMain(s, "answered") /\ UNCHANGED strays
       \/ "setup" \in Faults /\ GoMain(s, "failed") /\ Strays(s)
    /\ UNCHANGED <<redisVars, ghosts, proc, rooms, local, at, age, handlerVars, failures>>

\* notify_close.notified(): only from now on is a notification seen.
Wait(s) ==
    /\ main[s] = "answered"
    /\ GoMain(s, "waiting")
    /\ UNCHANGED <<redisVars, ghosts, proc, localVars, at, age, handlerVars, failures>>

\* 24 hours have passed: timeout(..).await? returns the error.
Expire(s) ==
    /\ main[s] = "waiting" /\ age[s] = Day
    /\ GoMain(s, "expired")
    /\ age' = [age EXCEPT ![s] = 0]
    /\ Strays(s)
    /\ UNCHANGED <<redisVars, ghosts, proc, rooms, local, at, handlerVars, failures>>

\* The connection is closed, failing or not, and a subscriber deregisters if it did not
\* fail.
Close(s) ==
    /\ main[s] = "closing"
    /\ GoMain(s, "ended")
    /\ \/ Kind[s] = "pub" /\ UNCHANGED localVars
       \/ Kind[s] = "sub" /\ Depart(s)
       \/ Kind[s] = "sub" /\ "close" \in Faults /\ Strays(s) /\ UNCHANGED <<rooms, local>>
    /\ UNCHANGED <<redisVars, ghosts, proc, at, age, handlerVars, failures>>

-----------------------------------------------------------------------------
(* The peer connection and its state handler *)

\* The main task has closed the connection, and the call with that state is to come.
Closing(s) == main[s] = "ended" /\ link[s] # "closed"

\* The states that the handler may be called with next, but for "up": the connection
\* is lost, fails, or was closed by STOP or by the main task.
Downs(s) ==
    {d \in {"lost", "failed", "closed"} :
        \/ d = "lost" /\ link[s] = "up"
        \/ d = "failed" /\ link[s] \in {"new", "lost"}
        \/ d = "closed" /\ (link[s] = "up" \/ Closing(s))}

\* The connection is at work from set_local_description on.
Begun(s) == main[s] \notin {"idle", "spawned"}

\* Connected, which takes the browser to have the answer.  add_publisher and
\* add_subscriber are called each time, is_closed or not.
HandleUp(s) ==
    /\ handler[s] = "idle"
    /\ Begun(s) /\ main[s] \notin {"negotiating", "failed"}
    /\ link[s] \in {"new", "lost"}
    /\ link' = [link EXCEPT ![s] = "up"]
    /\ GoHandler(s, "sadd")
    /\ revived' = [revived EXCEPT ![s] = @ \/ isClosed[s]]
    /\ UNCHANGED <<redisVars, ghosts, proc, localVars, at, main, age, isClosed, failures>>

\* notify_waiters: it wakes the main task only if that is waiting already.
Notify(s) ==
    /\ main' = [main EXCEPT ![s] = IF @ = "waiting" THEN "closing" ELSE @]
    /\ age' = [age EXCEPT ![s] = 0]

\* Disconnected, Failed or Closed.  A publisher's handler does this once, and a
\* subscriber's every time, unless its weak reference is dead.
HandleDown(s, d) ==
    /\ handler[s] = "idle"
    /\ Begun(s) /\ d \in Downs(s)
    /\ Kind[s] = "pub" \/ main[s] # "failed"
    /\ link' = [link EXCEPT ![s] = d]
    /\ \/ isClosed[s] /\ UNCHANGED <<main, age, handler, isClosed>>
       \/ /\ ~isClosed[s]
          /\ isClosed' = [isClosed EXCEPT ![s] = (Kind[s] = "pub")]
          /\ Notify(s)
          /\ GoHandler(s, "srem")
    /\ UNCHANGED <<redisVars, ghosts, proc, localVars, at, revived, failures>>

\* A subscriber whose main task has returned may ignore a call, whichever it is, and
\* then ignores all that follow, as its weak reference is dead: the session is over, and
\* its name is left in Redis.
Ignore(s) ==
    /\ Kind[s] = "sub" /\ main[s] \in {"ended", "expired", "failed"}
    /\ handler[s] = "idle" /\ ~Over(s)
    /\ GoMain(s, "idle")
    /\ link' = [link EXCEPT ![s] = "new"]
    /\ ghosts' = ghosts \union ({Name(s)} \intersect listed)
    /\ UNCHANGED <<redisVars, proc, localVars, at, age, handler, isClosed, revived, failures>>

\* SADD; Redis makes a key for its first member, without a time to live.
Listing(s) ==
    /\ listed' = listed \union {Name(s)}
    /\ listTtl' = [listTtl EXCEPT ![Kind[s]] = IF @ = 0 THEN Forever ELSE @]
    /\ UNCHANGED ghosts

\* SREM; Redis removes a key with its last member.
Delisting(s) ==
    /\ listed' = listed \ {Name(s)}
    /\ listTtl' = [listTtl EXCEPT ![Kind[s]] =
                     IF \E n \in listed' : n[1] = Kind[s] THEN @ ELSE 0]
    /\ ghosts' = ghosts \ {Name(s)}

\* Fault seeded in Touch: the time to live is shorter than a session may last.
Touch_Short(s) ==
    /\ listTtl' = [listTtl EXCEPT ![Kind[s]] = IF @ = 0 THEN 0 ELSE Day - 1]
    /\ UNCHANGED <<listed, ghosts>>

\* Fault seeded in Touch: a list that has a member has no time to live.
Touch_Persist(s) ==
    /\ listTtl' = [listTtl EXCEPT ![Kind[s]] = IF @ = 0 THEN 0 ELSE Forever]
    /\ UNCHANGED <<listed, ghosts>>

\* EXPIRE, for the whole list.
Touch(s) ==
    /\ listTtl' = [listTtl EXCEPT ![Kind[s]] = IF @ = 0 THEN 0 ELSE Day]
    /\ UNCHANGED <<listed, ghosts>>

\* A call of Redis; its error ends the handler, and the call may have been carried out
\* or not.
Fails(Call) == RedisFails /\ (Call \/ UNCHANGED <<redisVars, ghosts>>)

AddToRedis(s) ==
    /\ handler[s] = "sadd"
    /\ \/ Works /\ Listing(s) /\ GoHandler(s, "sexpire")
       \/ Fails(Listing(s)) /\ GoHandler(s, "idle")
    /\ UNCHANGED <<proc, localVars, at, main, age, link, isClosed, revived>>

\* EXPIRE, and a publisher is inserted in the local state: one step, as it makes no
\* difference to anybody what happens in between.
TouchAdded(s) ==
    /\ handler[s] = "sexpire"
    /\ GoHandler(s, "idle")
    /\ \/ Works /\ Touch(s) /\ Kind[s] = "pub" /\ Enter(s) /\ Claims(s)
       \/ Works /\ Touch(s) /\ Kind[s] = "sub" /\ UNCHANGED localVars
       \/ Fails(Touch(s)) /\ UNCHANGED localVars
    /\ UNCHANGED <<proc, at, main, age, link, isClosed, revived>>

\* Fault seeded in RemoveFromRedis: the entry is left to its time to live.
RemoveFromRedis_Later(s) ==
    /\ handler[s] = "srem"
    /\ Works /\ UNCHANGED <<redisVars, ghosts>> /\ GoHandler(s, "rexpire")
    /\ UNCHANGED <<proc, localVars, at, main, age, link, isClosed, revived>>

RemoveFromRedis(s) ==
    /\ handler[s] = "srem"
    /\ \/ Works /\ Delisting(s) /\ GoHandler(s, "rexpire")
       \/ Fails(Delisting(s)) /\ GoHandler(s, "idle")
    /\ UNCHANGED <<proc, localVars, at, main, age, link, isClosed, revived>>

\* EXPIRE, and a publisher is removed from the local state.
TouchRemoved(s) ==
    /\ handler[s] = "rexpire"
    /\ GoHandler(s, "idle")
    /\ \/ Works /\ Touch(s) /\ Kind[s] = "pub" /\ Depart(s)
       \/ Works /\ Touch(s) /\ Kind[s] = "sub" /\ UNCHANGED localVars
       \/ Fails(Touch(s)) /\ UNCHANGED localVars
    /\ UNCHANGED <<proc, at, main, age, link, isClosed, revived>>

-----------------------------------------------------------------------------
(* Instances *)

PreStop(i) ==
    /\ proc[i] = "up"
    /\ proc' = [proc EXCEPT ![i] = "draining"]
    /\ UNCHANGED <<redisVars, ghosts, localVars, sessionVars, failures>>

\* has_peers is false: the servers stop.
NoPeers(i) ==
    /\ proc[i] = "draining"
    /\ ~rooms[i]
    /\ proc' = [proc EXCEPT ![i] = "stopping"]
    /\ UNCHANGED <<redisVars, ghosts, localVars, sessionVars, failures>>

\* The sessions that end with the process of i.
On(i) == {s \in Sessions : at[s] = i /\ (main[s] # "idle" \/ handler[s] # "idle")}

\* The process ends, with all its tasks and its local state.
Dies(i) ==
    /\ proc' = [proc EXCEPT ![i] = "down"]
    /\ rooms' = [rooms EXCEPT ![i] = FALSE]
    /\ local' = [local EXCEPT ![i] = {}]
    /\ strays' = {x \in strays : x[1] # i}
    /\ main' = [s \in Sessions |-> IF s \in On(i) THEN "idle" ELSE main[s]]
    /\ age' = [s \in Sessions |-> IF s \in On(i) THEN 0 ELSE age[s]]
    /\ link' = [s \in Sessions |-> IF s \in On(i) THEN "new" ELSE link[s]]
    /\ handler' = [s \in Sessions |-> IF s \in On(i) THEN "idle" ELSE handler[s]]
    /\ isClosed' = [s \in Sessions |-> s \notin On(i) /\ isClosed[s]]
    /\ revived' = [s \in Sessions |-> s \notin On(i) /\ revived[s]]
    /\ ghosts' = ghosts \union ({Name(s) : s \in On(i)} \intersect listed)
    /\ UNCHANGED <<redisVars, at, failures>>

Kill(i) ==
    /\ proc[i] # "down"
    /\ Dies(i)

Exit(i) ==
    /\ proc[i] = "stopping"
    /\ Dies(i)

Restart(i) ==
    /\ proc[i] = "down"
    /\ proc' = [proc EXCEPT ![i] = "up"]
    /\ UNCHANGED <<redisVars, ghosts, localVars, sessionVars, failures>>

-----------------------------------------------------------------------------
(* Time *)

\* The main task and the state handler of s have nothing to do at once.
Rests(s) ==
    /\ main[s] \notin {"spawned", "negotiating", "answered", "closing"}
    /\ handler[s] = "idle" /\ ~Closing(s)

\* Fault seeded in Quiet: the main task waits without a timeout.
Quiet_Untimed == \A s \in Sessions : Rests(s)

\* Calls are short and timeouts prompt: a part of a day passes only between them.
Quiet == \A s \in Sessions : Rests(s) /\ (main[s] = "waiting" => age[s] < Day)

Less(ttl) == IF ttl \in 1 .. Day THEN ttl - 1 ELSE ttl

\* Redis removes a key when its time to live is over.
Tick ==
    /\ Quiet
    /\ listTtl' = [k \in Kinds |-> Less(listTtl[k])]
    /\ listed' = {n \in listed : listTtl'[n[1]] > 0}
    /\ ghosts' = ghosts \intersect listed'
    /\ age' = [s \in Sessions |-> IF main[s] = "waiting" THEN age[s] + 1 ELSE age[s]]
    /\ UNCHANGED <<proc, localVars, at, main, handlerVars, failures>>

-----------------------------------------------------------------------------
MainTask(s) ==
    Ask(s) \/ Start(s) \/ Answer(s) \/ Wait(s) \/ Expire(s) \/ Close(s)

Called(s) == HandleUp(s) \/ (\E d \in Downs(s) : HandleDown(s, d)) \/ Ignore(s)

StateTask(s) ==
    AddToRedis(s) \/ TouchAdded(s) \/ RemoveFromRedis(s) \/ TouchRemoved(s)

Instance(i) == PreStop(i) \/ NoPeers(i) \/ Exit(i) \/ Kill(i) \/ Restart(i)

Next ==
    \/ \E s \in Sessions : MainTask(s) \/ Called(s) \/ StateTask(s)
    \/ \E i \in Instances : Instance(i)
    \/ Tick

(***************************************************************************)
(* tokio runs every task that can go on, preStop asks again every three      *)
(* seconds, and time passes, whatever happens meanwhile.  The call with the   *)
(* state "closed" comes when the main task has closed the connection, as     *)
(* finitely many calls are before it.  Requests, the network, the operator   *)
(* and the cluster need not do anything.                                     *)
(***************************************************************************)
Fairness ==
    /\ SF_vars(Tick)
    /\ \A s \in Sessions :
          /\ WF_vars(Start(s) \/ Answer(s) \/ Wait(s) \/ Expire(s) \/ Close(s))
          /\ WF_vars(StateTask(s))
          /\ SF_vars(Closing(s) /\ (HandleDown(s, "closed") \/ Ignore(s)))
    /\ \A i \in Instances : WF_vars(NoPeers(i) \/ Exit(i))

Spec     == Init /\ [][Next]_vars
FairSpec == Spec /\ Fairness

-----------------------------------------------------------------------------
(* Properties *)

(***************************************************************************)
(* A peer that is up stays in the room's list for the whole of its 24 hours,  *)
(* although the list has a time to live of its own, and whoever else of the  *)
(* fleet comes, goes or is killed, unless a call of Redis fails.             *)
(***************************************************************************)
StillListed ==
    \A s \in Sessions :
        main[s] = "waiting" /\ age[s] < Day /\ link[s] = "up" /\ handler[s] = "idle"
            /\ ~Faulted =>
            Name(s) \in listed

(***************************************************************************)
(* A full id that is listed, and so refused, has a connection behind it that  *)
(* is up or a state handler at work, unless its instance ended with it, a    *)
(* subscriber's main task was over before its connection, a publisher's      *)
(* connection came back after it was closed, or Redis failed.                *)
(***************************************************************************)
ListedIsThere ==
    \A n \in listed :
        \/ \E s \in Sessions :
              Name(s) = n /\ (link[s] = "up" \/ handler[s] # "idle" \/ revived[s])
        \/ n \in ghosts \/ Faulted

(***************************************************************************)
(* "set Redis key TTL to 1 day": a list has a time to live but between SADD   *)
(* and EXPIRE, or when what came between them was the end of an instance, or  *)
(* a call of Redis failed.                                                   *)
(***************************************************************************)
ListsExpireUnless ==
    \A k \in Kinds :
        listTtl[k] = Forever =>
            \/ \E s \in Sessions : Kind[s] = k /\ handler[s] = "sexpire"
            \/ \E n \in ghosts : n[1] = k
            \/ Faulted

\* A peer that is up, and was not closed.
Up(s) == link[s] = "up" /\ main[s] # "ended"

(***************************************************************************)
(* "wait for existing peers, so we won't break existing streams": when        *)
(* preStop stops the servers no peer of the instance is up, but for a         *)
(* publisher whose state handler has not got to the local state yet, or did   *)
(* not because a call of Redis failed.                                       *)
(***************************************************************************)
DrainSparesPeers ==
    [][\A s \in Sessions :
          proc[at[s]] = "draining" /\ proc'[at[s]] = "stopping" /\ Up(s) =>
              Kind[s] = "pub" /\ (handler[s] # "idle" \/ Faulted)]_vars

\* No session of i is at work.
Idle(i) == \A s \in Sessions : at[s] = i => ~AtWork(s)

\* A subscriber of i did not deregister, a publisher of i came back after it was closed
\* (the session that did so, or one before it), or a call of Redis has failed.
Stale(i) ==
    \/ \E x \in strays : x[1] = i
    \/ \E s \in Sessions : at[s] = i /\ revived[s]
    \/ Faulted

(***************************************************************************)
(* has_peers is true of an instance for its peers only: a room that is kept  *)
(* has somebody in it, and each of them is a session of that instance with   *)
(* something left to do, wherever the sessions come back to; but for a       *)
(* subscriber that left its registration behind, a publisher that came back   *)
(* after it was closed, and failing calls of Redis.                          *)
(***************************************************************************)
RoomsHavePeers ==
    \A i \in Instances :
        /\ rooms[i] => local[i] # {}
        /\ \A n \in local[i] :
              \/ \E s \in Sessions : Name(s) = n /\ at[s] = i /\ (AtWork(s) \/ revived[s])
              \/ <<i, n>> \in strays \/ Faulted

\* preStop does not wait for ever for an instance without peers, unless one of them
\* left an entry behind that nobody removes.
DrainEndsUnless ==
    \A i \in Instances : []<>~(proc[i] = "draining" /\ Idle(i) /\ ~Stale(i))

\* Nobody of kind k is at work.
Deserted(k) == \A s \in Sessions : Kind[s] = k => ~AtWork(s)

(***************************************************************************)
(* What a killed instance, or a publisher that came back, leaves in a list is *)
(* gone within a day of quiet: when no session of the room is at work any     *)
(* more, requests for its full id or not, it goes, unless the list never got  *)
(* its time to live.                                                         *)
(***************************************************************************)
GhostsFade ==
    \A k \in Kinds :
        []<>(Deserted(k) => (\A n \in listed : n[1] # k) \/ listTtl[k] = Forever)
=============================================================================
