------------------------------ MODULE Commands ------------------------------
(***************************************************************************)
(* The commands PubJoin and PubLeft (state.rs): from a publisher over NATS  *)
(* to every instance, and there by a task of its own for each message to    *)
(* the bounded channels of the room's subscribers, one after the other.     *)
(*                                                                         *)
(* A command stands for the change of the room's media that its publisher   *)
(* makes in Redis before it sends it.  What a publisher goes through        *)
(* otherwise is Publisher's business; what a subscriber's loop does with a  *)
(* command is Renegotiation's.                                              *)
(***************************************************************************)
EXTENDS Integers, Sequences

CONSTANTS
    Instances,
    Subs,       \* subscriber sessions
    Pubs,       \* publisher sessions
    Home,       \* the instance of each subscriber
    RoomOf,     \* the room of each session
    ChanCap,    \* capacity of a subscriber's command channel (10 in the code)
    TooLong,    \* publishers whose full id does not fit the command's buffer
    Faults      \* what may fail

ASSUME CommandsAssumption ==
    /\ Home \in [Subs -> Instances]
    /\ ChanCap \in Nat \ {0}
    /\ TooLong \subseteq Pubs
    /\ Faults \subseteq {"redis", "nats"}

\* PubJoin and PubLeft of each publisher.
Command == Pubs \X {"join", "left"}

Nobody == "nobody"

ASSUME NobodyAssumption == Nobody \notin Subs

VARIABLES
    \* publishers
    stage,      \* where each is
    changed,    \* changes that are in Redis
    sent,       \* commands handed to NATS, or given up
    \* NATS and the instances
    wire,       \* messages that NATS has for each instance
    listening,  \* is the loop of listen_on_commands at work?
    todo, at,   \* each task of forward_to_all_subs: senders left, the one it is at
    \* subscribers
    main,       \* where the main task is
    loop,       \* where the loop over the data channel is
    inbox,      \* number of commands in the channel
    \* history
    got,        \* commands put into the channel
    saw,        \* changes that the first look at the room found
    blind,      \* subscribers whose first look failed
    lost        \* commands that an instance was not handed

pubVars  == <<stage, changed, sent>>
natsVars == <<wire, listening, lost>>
taskVars == <<todo, at>>
chanVars == <<inbox, got>>
lookVars == <<saw, blind>>
vars == <<pubVars, natsVars, taskVars, main, loop, chanVars, lookVars>>

TypeOK ==
    /\ stage \in [Pubs -> {"out", "up", "closing", "gone"}]
    /\ changed \subseteq Command
    /\ sent \subseteq Command
    /\ wire \in [Instances -> SUBSET Command]
    /\ listening \in [Instances -> BOOLEAN]
    /\ todo \in [Instances -> [Command -> SUBSET Subs]]
    /\ at \in [Instances -> [Command -> Subs \union {Nobody}]]
    /\ main \in [Subs -> {"out", "setup", "in", "gone"}]
    /\ loop \in [Subs -> {"none", "open", "stuck", "left"}]
    /\ inbox \in [Subs -> 0 .. ChanCap]
    /\ got \in [Subs -> Seq(Command)]
    /\ saw \in [Subs -> SUBSET Command]
    /\ blind \subseteq Subs
    /\ lost \in [Instances -> SUBSET Command]

Init ==
    /\ stage = [p \in Pubs |-> "out"]
    /\ changed = {} /\ sent = {}
    /\ wire = [i \in Instances |-> {}]
    /\ listening = [i \in Instances |-> TRUE]
    /\ todo = [i \in Instances |-> [c \in Command |-> {}]]
    /\ at = [i \in Instances |-> [c \in Command |-> Nobody]]
    /\ main = [s \in Subs |-> "out"]
    /\ loop = [s \in Subs |-> "none"]
    /\ inbox = [s \in Subs |-> 0]
    /\ got = [s \in Subs |-> <<>>]
    /\ saw = [s \in Subs |-> {}]
    /\ blind = {}
    /\ lost = [i \in Instances |-> {}]

GoPub(p, to)  == stage' = [stage EXCEPT ![p] = to]
GoMain(s, to) == main' = [main EXCEPT ![s] = to]
GoLoop(s, to) == loop' = [loop EXCEPT ![s] = to]

-----------------------------------------------------------------------------
(* The publishers. *)

Connect(p) ==
    /\ stage[p] = "out"
    /\ GoPub(p, "up")
    /\ UNCHANGED <<changed, sent, natsVars, taskVars, main, loop, chanVars, lookVars>>

\* on_track, which does not ask whether the publisher has left.
CountTracks(p) ==
    /\ stage[p] # "out"
    /\ <<p, "join">> \notin changed
    /\ changed' = changed \union {<<p, "join">>}
    /\ UNCHANGED <<stage, sent, natsVars, taskVars, main, loop, chanVars, lookVars>>

\* notify_subs_for_leave: the media go first,
RemoveMedia(p) ==
    /\ stage[p] = "up"
    /\ GoPub(p, "closing")
    /\ changed' = changed \union {<<p, "left">>}
    /\ UNCHANGED <<sent, natsVars, taskVars, main, loop, chanVars, lookVars>>

(***************************************************************************)
(* send_command.  A command that does not fit the buffer, or that NATS does *)
(* not take, is only logged.  NATS hands a message to every instance that   *)
(* listens.                                                                 *)
(***************************************************************************)
Handed(c) ==
    /\ c[1] \notin TooLong
    /\ wire' = [i \in Instances |-> wire[i] \union (IF listening[i] THEN {c} ELSE {})]
    /\ lost' = [i \in Instances |-> lost[i] \union (IF listening[i] THEN {} ELSE {c})]

GivenUp(c) ==
    /\ c[1] \in TooLong \/ "nats" \in Faults
    /\ lost' = [i \in Instances |-> lost[i] \union {c}]
    /\ UNCHANGED wire

SendCommand(c) ==
    /\ sent' = sent \union {c}
    /\ Handed(c) \/ GivenUp(c)
    /\ UNCHANGED listening

\* Fault seeded in SendJoin: the command may go before the count is in Redis.
SendJoin_Early(p) ==
    /\ stage[p] # "out" /\ <<p, "join">> \notin sent
    /\ SendCommand(<<p, "join">>)
    /\ UNCHANGED <<stage, changed, taskVars, main, loop, chanVars, lookVars>>

\* notify_subs_for_join
SendJoin(p) ==
    /\ <<p, "join">> \in changed \ sent
    /\ SendCommand(<<p, "join">>)
    /\ UNCHANGED <<stage, changed, taskVars, main, loop, chanVars, lookVars>>

\* and then the command.
SendLeft(p) ==
    /\ stage[p] = "closing"
    /\ SendCommand(<<p, "left">>)
    /\ GoPub(p, "gone")
    /\ UNCHANGED <<changed, taskVars, main, loop, chanVars, lookVars>>

-----------------------------------------------------------------------------
(* listen_on_commands and forward_to_all_subs *)

\* The senders that the task clones: those registered for the room.
Senders(i, c) ==
    {s \in Subs : main[s] = "in" /\ Home[s] = i /\ RoomOf[s] = RoomOf[c[1]]}

\* The task goes on to one of the senders that are left, in HashMap's order.
Serve(i, c, rest) ==
    \/ /\ rest = {}
       /\ at' = [at EXCEPT ![i][c] = Nobody]
       /\ todo' = [todo EXCEPT ![i][c] = {}]
    \/ \E s \in rest :
          /\ at' = [at EXCEPT ![i][c] = s]
          /\ todo' = [todo EXCEPT ![i][c] = rest \ {s}]

\* The task that the listener spawned for a message begins; tasks do so in any
\* order.
Receive(i, c) ==
    /\ listening[i]
    /\ c \in wire[i]
    /\ wire' = [wire EXCEPT ![i] = @ \ {c}]
    /\ Serve(i, c, Senders(i, c))
    /\ UNCHANGED <<pubVars, listening, lost, main, loop, chanVars, lookVars>>

\* The receiver is with the loop, or in the subscriber until the loop takes it.
ReceiverGone(s) == loop[s] = "left" \/ (loop[s] = "none" /\ main[s] = "gone")

Send(s, c) ==
    /\ inbox' = [inbox EXCEPT ![s] = @ + 1]
    /\ got' = [got EXCEPT ![s] = Append(@, c)]

\* Fault seeded in Put: the channel has no bound.
Put_Unbounded(i, c) ==
    LET s == at[i][c]
    IN  /\ s # Nobody
        /\ IF ReceiverGone(s) THEN UNCHANGED chanVars ELSE Send(s, c)
        /\ Serve(i, c, todo[i][c])
        /\ UNCHANGED <<pubVars, natsVars, main, loop, lookVars>>

\* Fault seeded in Put: the task waits for a receiver that is gone.
Put_Waits(i, c) ==
    LET s == at[i][c]
    IN  /\ s # Nobody
        /\ ~ReceiverGone(s) /\ inbox[s] < ChanCap /\ Send(s, c)
        /\ Serve(i, c, todo[i][c])
        /\ UNCHANGED <<pubVars, natsVars, main, loop, lookVars>>

\* Fault seeded in Put: the task ends at the first receiver that is gone.
Put_Stops(i, c) ==
    LET s == at[i][c]
    IN  /\ s # Nobody
        /\ \/ ReceiverGone(s) /\ UNCHANGED chanVars /\ Serve(i, c, {})
           \/ ~ReceiverGone(s) /\ inbox[s] < ChanCap /\ Send(s, c) /\ Serve(i, c, todo[i][c])
        /\ UNCHANGED <<pubVars, natsVars, main, loop, lookVars>>

\* sender.send(cmd).await: it waits while the channel is full, and fails once the
\* receiver is gone; either way the task goes on to the next.
Put(i, c) ==
    LET s == at[i][c]
    IN  /\ s # Nobody
        /\ \/ ReceiverGone(s) /\ UNCHANGED chanVars
           \/ ~ReceiverGone(s) /\ inbox[s] < ChanCap /\ Send(s, c)
        /\ Serve(i, c, todo[i][c])
        /\ UNCHANGED <<pubVars, natsVars, main, loop, lookVars>>

\* "TODO: will we exit this loop when disconnect?": once the connection to NATS is
\* closed, nobody listens any more.
ListenerEnds(i) ==
    /\ "nats" \in Faults
    /\ listening[i]
    /\ listening' = [listening EXCEPT ![i] = FALSE]
    /\ lost' = [lost EXCEPT ![i] = @ \union wire[i]]
    /\ wire' = [wire EXCEPT ![i] = {}]
    /\ UNCHANGED <<pubVars, taskVars, main, loop, chanVars, lookVars>>

-----------------------------------------------------------------------------
(* A subscriber. *)

\* subscribe (web.rs) spawns the main task.
Admit(s) ==
    /\ main[s] = "out"
    /\ GoMain(s, "setup")
    /\ UNCHANGED <<pubVars, natsVars, taskVars, loop, chanVars, lookVars>>

\* register_notify_message
Register(s) ==
    /\ main[s] = "setup"
    /\ GoMain(s, "in")
    /\ UNCHANGED <<pubVars, natsVars, taskVars, loop, chanVars, lookVars>>

\* Fault seeded in Open: the first look may come before the registration.
Open_Early(s) ==
    /\ main[s] \in {"setup", "in"} /\ loop[s] = "none"
    /\ GoLoop(s, "open")
    /\ saw' = [saw EXCEPT ![s] = changed] /\ UNCHANGED blind
    /\ UNCHANGED <<pubVars, natsVars, taskVars, main, chanVars>>

\* The data channel opens: the loop begins with a look at the room.
Open(s) ==
    /\ main[s] = "in" /\ loop[s] = "none"
    /\ GoLoop(s, "open")
    /\ \/ saw' = [saw EXCEPT ![s] = changed] /\ UNCHANGED blind
       \/ "redis" \in Faults /\ blind' = blind \union {s} /\ UNCHANGED saw
    /\ UNCHANGED <<pubVars, natsVars, taskVars, main, chanVars>>

Take(s) ==
    /\ loop[s] = "open" /\ inbox[s] > 0
    /\ inbox' = [inbox EXCEPT ![s] = @ - 1]
    /\ UNCHANGED <<pubVars, natsVars, taskVars, main, loop, got, lookVars>>

\* The loop waits for a mutex whose holder waits for the loop's (LockCycle of
\* Renegotiation).
Stick(s) ==
    /\ loop[s] = "open"
    /\ GoLoop(s, "stuck")
    /\ UNCHANGED <<pubVars, natsVars, taskVars, main, chanVars, lookVars>>

\* The loop ends and drops the receiver.
Leave(s) ==
    /\ loop[s] = "open"
    /\ GoLoop(s, "left")
    /\ inbox' = [inbox EXCEPT ![s] = 0]
    /\ UNCHANGED <<pubVars, natsVars, taskVars, main, got, lookVars>>

\* deregister_notify_message, when the connection is closed.
Deregister(s) ==
    /\ main[s] = "in"
    /\ GoMain(s, "gone")
    /\ UNCHANGED <<pubVars, natsVars, taskVars, loop, chanVars, lookVars>>

-----------------------------------------------------------------------------
Publisher(p) ==
    Connect(p) \/ CountTracks(p) \/ RemoveMedia(p) \/ SendJoin(p) \/ SendLeft(p)

Forward(i, c) == Receive(i, c) \/ Put(i, c)

Subscriber(s) ==
    \/ Admit(s) \/ Register(s) \/ Open(s) \/ Take(s)
    \/ Stick(s) \/ Leave(s) \/ Deregister(s)

Next ==
    \/ \E p \in Pubs : Publisher(p)
    \/ \E i \in Instances : ListenerEnds(i) \/ \E c \in Command : Forward(i, c)
    \/ \E s \in Subs : Subscriber(s)

(***************************************************************************)
(* tokio runs the forwarding tasks and the loops.  Sessions need not come,  *)
(* nor end; a data channel need not open.                                   *)
(***************************************************************************)
Fairness ==
    /\ \A i \in Instances : \A c \in Command : WF_vars(Forward(i, c))
    /\ \A s \in Subs : WF_vars(Take(s))

Spec     == Init /\ [][Next]_vars
FairSpec == Spec /\ Fairness

-----------------------------------------------------------------------------
(* Properties *)

\* The commands of s's room.
Concerns(c, s) == RoomOf[c[1]] = RoomOf[s]

Told(s, c)    == \E n \in DOMAIN got[s] : got[s][n] = c
Running(i, c) == at[i][c] # Nobody

(***************************************************************************)
(* No gap between a subscriber's first look at the room and the commands it *)
(* is told: whatever the order in which it is admitted, is registered and   *)
(* looks, and a publisher changes Redis and sends its command, once the     *)
(* command is through on its instance it was told of it, or its first look  *)
(* had found the change.  This rests on registering before the data channel *)
(* can open, and on sending after the change.                               *)
(***************************************************************************)
NoGap ==
    \A s \in Subs : \A c \in sent :
        LET i == Home[s]
        IN  /\ main[s] = "in" /\ loop[s] = "open" /\ Concerns(c, s)
            /\ c \notin wire[i] /\ ~Running(i, c)
            => Told(s, c) \/ c \in saw[s] \/ c \in lost[i] \/ s \in blind

\* The commands are the announcements of Broadcast: each told once at the most,
\* only to the subscribers of its room, and after the change was made.
Announcements == INSTANCE Broadcast WITH
    Changes   <- Command,
    Reach     <- [s \in Subs |-> {c \in Command : Concerns(c, s)}],
    made      <- changed,
    announced <- sent,
    heard     <- got,
    found     <- saw

ImplementsBroadcast == Announcements!Spec

\* A subscriber that is registered, and whose loop runs, has a claim to be told of
\* each command of its room that is on its way.
Claim(s, c) ==
    main[s] = "in" /\ loop[s] = "open" /\ Concerns(c, s) /\ c \in wire[Home[s]]

Settled(s, c) ==
    Told(s, c) \/ main[s] # "in" \/ loop[s] # "open" \/ c \in lost[Home[s]]

\* The task is at a subscriber whose channel is full and that does not take.
Jammed(i, c) ==
    /\ Running(i, c)
    /\ inbox[at[i][c]] = ChanCap
    /\ loop[at[i][c]] \in {"none", "stuck"}

(***************************************************************************)
(* Nothing more is on its way: no listener has a message to begin with, no  *)
(* task that waits can send, no loop has a command to take.                 *)
(***************************************************************************)
AtRest ==
    /\ \A i \in Instances : listening[i] => wire[i] = {}
    /\ \A i \in Instances : \A c \in Command : Running(i, c) =>
           ~ReceiverGone(at[i][c]) /\ inbox[at[i][c]] = ChanCap
    /\ \A s \in Subs : loop[s] = "open" => inbox[s] = 0

(***************************************************************************)
(* When all has come to rest, a subscriber that is registered and whose     *)
(* loop runs has been told of every command of its room, or had found the   *)
(* change itself, unless the command did not reach its instance, its first  *)
(* look failed, or the command's task is jammed: at another subscriber of   *)
(* the same room and instance, never by what happens in other rooms.        *)
(***************************************************************************)
ToldAtRest ==
    AtRest =>
        \A s \in Subs : \A c \in sent :
            LET i == Home[s]
            IN  main[s] = "in" /\ loop[s] = "open" /\ Concerns(c, s) =>
                    \/ Told(s, c) \/ c \in saw[s] \/ c \in lost[i] \/ s \in blind
                    \/ /\ Jammed(i, c)
                       /\ Home[at[i][c]] = i /\ RoomOf[at[i][c]] = RoomOf[s]

(***************************************************************************)
(* Every such claim is met ("When a publisher join or leave, server will    *)
(* trigger WebRTC Renegotiation for subscribers"), unless a task is jammed   *)
(* for good: it sends to one subscriber after the other, and waits for one   *)
(* that does not take.  Nothing else keeps a command back: not the order of  *)
(* the tasks, nor subscribers that come and go meanwhile.                    *)
(***************************************************************************)
ToldUnlessJammed ==
    \A s \in Subs : \A c \in Command :
        [](Claim(s, c) => <>Settled(s, c) \/ <>[]Jammed(Home[s], c))
=============================================================================
