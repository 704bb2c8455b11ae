--------------------------- MODULE CommandsProofs ---------------------------
(***************************************************************************)
(* Theorems about Commands, for every set of instances and sessions, every  *)
(* capacity of the channels and everything that may fail.                   *)
(***************************************************************************)
EXTENDS Commands, TLAPS

\* The subscribers that a task has still to serve.
Left(i, c) == (todo[i][c] \union {at[i][c]}) \ {Nobody}

\* A publisher sends after the change, and each command once.
OrderInv ==
    /\ sent \subseteq changed
    /\ \A p \in Pubs :
          /\ stage[p] = "closing" => <<p, "left">> \in changed
          /\ <<p, "left">> \in sent => stage[p] = "gone"

\* A command is with NATS, then with the instance's task, then through.
TaskInv ==
    \A i \in Instances : \A c \in Command :
        /\ c \in wire[i] => c \in sent
        /\ Running(i, c) => c \in sent /\ c \notin wire[i]
        /\ at[i][c] = Nobody => todo[i][c] = {}
        /\ at[i][c] \notin todo[i][c]

\* A task serves the subscribers of its instance and room, and each once.
ServedInv ==
    \A s \in Subs : \A c \in Command :
        /\ \A i \in Instances : s \in Left(i, c) =>
               Home[s] = i /\ Concerns(c, s) /\ ~Told(s, c)
        /\ Told(s, c) => c \in sent /\ c \notin wire[Home[s]]

\* The data channel opens after the registration.
LookInv ==
    \A s \in Subs :
        /\ loop[s] = "none" => saw[s] = {}
        /\ main[s] \in {"out", "setup"} => loop[s] = "none"

\* A command of the room that the first look missed is on its way, or told.
GapInv ==
    \A s \in Subs : \A c \in sent :
        main[s] = "in" /\ loop[s] = "open" /\ Concerns(c, s) =>
            \/ c \in wire[Home[s]] \/ s \in Left(Home[s], c)
            \/ Told(s, c) \/ c \in saw[s] \/ c \in lost[Home[s]] \/ s \in blind

IInv == OrderInv /\ TaskInv /\ ServedInv /\ LookInv /\ GapInv

-----------------------------------------------------------------------------
(* Lemmas about the operators *)

\* What is in a sequence after one more element.
LEMMA Appended ==
    ASSUME NEW S, NEW q \in Seq(S), NEW c \in S, NEW d
    PROVE  (\E n \in DOMAIN Append(q, c) : Append(q, c)[n] = d)
               <=> (\E n \in DOMAIN q : q[n] = d) \/ d = c
<1>1. DOMAIN q = 1 .. Len(q) /\ DOMAIN Append(q, c) = 1 .. Len(q) + 1 /\ Len(q) \in Nat
  OBVIOUS
<1>2. \A n \in 1 .. Len(q) : Append(q, c)[n] = q[n]
  OBVIOUS
<1>3. Append(q, c)[Len(q) + 1] = c
  OBVIOUS
<1>4. \A n \in 1 .. Len(q) + 1 : n \in 1 .. Len(q) \/ n = Len(q) + 1
  BY <1>1
<1>5. 1 .. Len(q) \subseteq 1 .. Len(q) + 1 /\ Len(q) + 1 \in 1 .. Len(q) + 1
  BY <1>1
<1> QED
  BY <1>1, <1>2, <1>3, <1>4, <1>5

\* The commands of a publisher are commands.
LEMMA CommandOf == \A p \in Pubs : <<p, "join">> \in Command /\ <<p, "left">> \in Command
BY DEF Command

\* A task goes on to the rest, and nothing happens to the other tasks.
LEMMA ServeRest ==
    ASSUME TypeOK, NEW i \in Instances, NEW c \in Command, NEW rest \in SUBSET Subs,
           Serve(i, c, rest)
    PROVE  /\ todo' \in [Instances -> [Command -> SUBSET Subs]]
           /\ at' \in [Instances -> [Command -> Subs \union {Nobody}]]
           /\ Left(i, c)' = rest
           /\ at'[i][c] = Nobody <=> rest = {}
           /\ at'[i][c] = Nobody => todo'[i][c] = {}
           /\ at'[i][c] \notin todo'[i][c]
           /\ \A j \in Instances : \A d \in Command : j # i \/ d # c =>
                  at'[j][d] = at[j][d] /\ todo'[j][d] = todo[j][d]
<1> USE NobodyAssumption
<1>1. /\ todo \in [Instances -> [Command -> SUBSET Subs]]
      /\ at \in [Instances -> [Command -> Subs \union {Nobody}]]
  BY DEF TypeOK
<1>2. CASE /\ rest = {}
           /\ at' = [at EXCEPT ![i][c] = Nobody]
           /\ todo' = [todo EXCEPT ![i][c] = {}]
  <2>1. at'[i][c] = Nobody /\ todo'[i][c] = {}
    BY <1>1, <1>2
  <2> QED
    BY <1>1, <1>2, <2>1 DEF Left
<1>3. ASSUME NEW s \in rest,
             at' = [at EXCEPT ![i][c] = s], todo' = [todo EXCEPT ![i][c] = rest \ {s}]
      PROVE  /\ todo' \in [Instances -> [Command -> SUBSET Subs]]
             /\ at' \in [Instances -> [Command -> Subs \union {Nobody}]]
             /\ Left(i, c)' = rest
             /\ at'[i][c] = Nobody <=> rest = {}
             /\ at'[i][c] = Nobody => todo'[i][c] = {}
             /\ at'[i][c] \notin todo'[i][c]
             /\ \A j \in Instances : \A d \in Command : j # i \/ d # c =>
                    at'[j][d] = at[j][d] /\ todo'[j][d] = todo[j][d]
  <2>1. at'[i][c] = s /\ todo'[i][c] = rest \ {s} /\ s # Nobody /\ Nobody \notin rest
    BY <1>1, <1>3
  <2> QED
    BY <1>1, <1>3, <2>1 DEF Left
<1> QED
  BY <1>2, <1>3 DEF Serve

\* What is left of a task that has just served the subscriber it was at.
LEMMA TodoIsRest ==
    ASSUME TypeOK, NEW i \in Instances, NEW c \in Command
    PROVE  todo[i][c] \in SUBSET Subs /\ Senders(i, c) \in SUBSET Subs
BY DEF TypeOK, Senders

\* The number of commands in a channel.
LEMMA Counts ==
    ASSUME TypeOK, NEW s \in Subs
    PROVE  /\ inbox \in [Subs -> 0 .. ChanCap]
           /\ inbox[s] < ChanCap => [inbox EXCEPT ![s] = @ + 1] \in [Subs -> 0 .. ChanCap]
           /\ inbox[s] > 0 => [inbox EXCEPT ![s] = @ - 1] \in [Subs -> 0 .. ChanCap]
           /\ [inbox EXCEPT ![s] = 0] \in [Subs -> 0 .. ChanCap]
<1>1. inbox \in [Subs -> 0 .. ChanCap] /\ ChanCap \in Nat
  BY CommandsAssumption DEF TypeOK
<1>2. inbox[s] \in 0 .. ChanCap
  BY <1>1
<1>3. inbox[s] < ChanCap => inbox[s] + 1 \in 0 .. ChanCap
  BY <1>1, <1>2
<1>4. inbox[s] > 0 => inbox[s] - 1 \in 0 .. ChanCap
  BY <1>1, <1>2
<1>5. 0 \in 0 .. ChanCap
  BY <1>1
<1> QED
  BY <1>1, <1>3, <1>4, <1>5

-----------------------------------------------------------------------------
(* Type correctness *)

LEMMA TypeInit == Init => TypeOK
<1> SUFFICES ASSUME Init PROVE TypeOK
  OBVIOUS
<1>1. got \in [Subs -> Seq(Command)] /\ inbox \in [Subs -> 0 .. ChanCap]
  BY CommandsAssumption DEF Init
<1>2. wire \in [Instances -> SUBSET Command] /\ lost \in [Instances -> SUBSET Command]
  BY DEF Init
<1>3. /\ todo \in [Instances -> [Command -> SUBSET Subs]]
      /\ at \in [Instances -> [Command -> Subs \union {Nobody}]]
  BY DEF Init
<1> QED
  BY <1>1, <1>2, <1>3 DEF Init, TypeOK

\* The publishers keep the types,
LEMMA TypePublisher ==
    ASSUME TypeOK, NEW p \in Pubs, Publisher(p)
    PROVE  TypeOK'
<1> USE CommandOf DEF TypeOK, GoPub
<1>1. CASE Connect(p) \/ CountTracks(p) \/ RemoveMedia(p)
  BY <1>1 DEF Connect, CountTracks, RemoveMedia, natsVars, taskVars, chanVars, lookVars
<1>2. ASSUME NEW c \in Command, SendCommand(c)
      PROVE  /\ sent' \subseteq Command /\ UNCHANGED listening
             /\ wire' \in [Instances -> SUBSET Command]
             /\ lost' \in [Instances -> SUBSET Command]
  BY <1>2 DEF SendCommand, Handed, GivenUp
<1>3. CASE SendJoin(p)
  BY <1>2, <1>3 DEF SendJoin, taskVars, chanVars, lookVars
<1>4. CASE SendLeft(p)
  <2>1. SendCommand(<<p, "left">>)
    BY <1>4 DEF SendLeft
  <2> QED
    BY <1>2, <1>4, <2>1 DEF SendLeft, taskVars, chanVars, lookVars
<1> QED
  BY <1>1, <1>3, <1>4 DEF Publisher

\* the forwarding tasks too, which put no more into a channel than it holds,
LEMMA TypeForward ==
    ASSUME TypeOK, NEW i \in Instances, NEW c \in Command, Forward(i, c)
    PROVE  TypeOK'
<1>1. CASE Receive(i, c)
  BY <1>1, ServeRest, TodoIsRest
  DEF Receive, TypeOK, pubVars, chanVars, lookVars
<1>2. CASE Put(i, c)
  <2> DEFINE s == at[i][c]
  <2>1. s \in Subs
    BY <1>2 DEF Put, TypeOK
  <2>2. inbox' \in [Subs -> 0 .. ChanCap]
    <3>1. \/ inbox' = inbox
          \/ inbox[s] < ChanCap /\ inbox' = [inbox EXCEPT ![s] = @ + 1]
      BY <1>2 DEF Put, Send, chanVars
    <3> QED
      BY <2>1, <3>1, Counts
  <2>3. got' \in [Subs -> Seq(Command)]
    <3>1. CASE got' = got
      BY <3>1 DEF TypeOK
    <3>2. CASE got' = [got EXCEPT ![s] = Append(@, c)]
      <4>1. got \in [Subs -> Seq(Command)]
        BY DEF TypeOK
      <4>2. Append(got[s], c) \in Seq(Command)
        BY <2>1, <4>1
      <4> QED
        BY <3>2, <4>1, <4>2
    <3> QED
      BY <1>2, <3>1, <3>2 DEF Put, Send, chanVars
  <2>4. Serve(i, c, todo[i][c])
    BY <1>2 DEF Put
  <2>5. /\ todo' \in [Instances -> [Command -> SUBSET Subs]]
        /\ at' \in [Instances -> [Command -> Subs \union {Nobody}]]
    BY <2>4, ServeRest, TodoIsRest
  <2> QED
    BY <1>2, <2>2, <2>3, <2>5 DEF Put, TypeOK, pubVars, natsVars, lookVars
<1> QED
  BY <1>1, <1>2 DEF Forward

\* and the subscribers.
LEMMA TypeSubscriber ==
    ASSUME TypeOK, NEW s \in Subs, Subscriber(s)
    PROVE  TypeOK'
<1> USE DEF TypeOK, GoMain, GoLoop, pubVars, natsVars, taskVars, chanVars, lookVars
<1>1. CASE Admit(s) \/ Register(s) \/ Deregister(s)
  BY <1>1 DEF Admit, Register, Deregister
<1>2. CASE Open(s) \/ Stick(s)
  BY <1>2 DEF Open, Stick
<1>3. CASE Take(s) \/ Leave(s)
  <2>1. \/ inbox[s] > 0 /\ inbox' = [inbox EXCEPT ![s] = @ - 1]
        \/ inbox' = [inbox EXCEPT ![s] = 0]
    BY <1>3 DEF Take, Leave
  <2>2. inbox' \in [Subs -> 0 .. ChanCap]
    BY <2>1, Counts
  <2> QED
    BY <1>3, <2>2 DEF Take, Leave
<1> QED
  BY <1>1, <1>2, <1>3 DEF Subscriber

LEMMA TypeNext == TypeOK /\ [Next]_vars => TypeOK'
<1>1. TypeOK /\ UNCHANGED vars => TypeOK'
  BY DEF TypeOK, vars, pubVars, natsVars, taskVars, chanVars, lookVars
<1>2. TypeOK /\ (\E i \in Instances : ListenerEnds(i)) => TypeOK'
  BY DEF ListenerEnds, TypeOK, pubVars, taskVars, chanVars, lookVars
<1> QED
  BY <1>1, <1>2, TypePublisher, TypeForward, TypeSubscriber DEF Next

\* The state keeps its types; in particular a channel never holds more commands
\* than its capacity, however many tasks send to it.
THEOREM TypeCorrect == Spec => []TypeOK
BY TypeInit, TypeNext, PTL DEF Spec

-----------------------------------------------------------------------------
(* The inductive invariant.  One lemma for each part of the system; within a  *)
(* lemma, one step for each part of the invariant.                            *)

LEMMA InvInit == Init => IInv
<1> SUFFICES ASSUME Init PROVE IInv
  OBVIOUS
<1>1. \A s \in Subs : got[s] = <<>> /\ saw[s] = {} /\ loop[s] = "none"
  BY DEF Init
<1>2. \A s \in Subs : \A c \in Command : ~Told(s, c)
  BY <1>1 DEF Told
<1>3. \A i \in Instances : \A c \in Command :
          at[i][c] = Nobody /\ todo[i][c] = {} /\ wire[i] = {}
  BY DEF Init
<1>4. OrderInv /\ TaskInv
  BY <1>3 DEF Init, OrderInv, TaskInv, Running
<1>5. ServedInv
  BY <1>2, <1>3, NobodyAssumption DEF ServedInv, Left
<1> QED
  BY <1>1, <1>4, <1>5 DEF Init, IInv, LookInv, GapInv

\* A publisher's own steps: they touch the order of changes and commands only.
LEMMA InvChange ==
    ASSUME TypeOK, IInv, NEW p \in Pubs, Connect(p) \/ CountTracks(p) \/ RemoveMedia(p)
    PROVE  IInv'
<1>1. UNCHANGED <<sent, natsVars, taskVars, main, loop, chanVars, lookVars>>
  BY DEF Connect, CountTracks, RemoveMedia
<1>2. OrderInv'
  <2>1. changed \subseteq changed' /\ sent' = sent
    BY DEF Connect, CountTracks, RemoveMedia
  <2>2. ASSUME NEW q \in Pubs, stage'[q] = "closing" PROVE <<q, "left">> \in changed'
    BY <2>2, <2>1 DEF Connect, CountTracks, RemoveMedia, GoPub, IInv, OrderInv, TypeOK
  <2>3. ASSUME NEW q \in Pubs, <<q, "left">> \in sent PROVE stage'[q] = "gone"
    BY <2>3 DEF Connect, CountTracks, RemoveMedia, GoPub, IInv, OrderInv, TypeOK
  <2> QED
    BY <2>1, <2>2, <2>3 DEF IInv, OrderInv
<1>3. TaskInv' /\ ServedInv' /\ LookInv' /\ GapInv'
  BY <1>1 DEF IInv, TaskInv, ServedInv, LookInv, GapInv, Running, Left, Told,
              natsVars, taskVars, chanVars, lookVars
<1> QED
  BY <1>2, <1>3 DEF IInv

\* A command that is sent is not yet known to any instance; afterwards each has it,
\* or has lost it.
LEMMA InvSend ==
    ASSUME TypeOK, IInv, NEW c \in Command, c \in changed \ sent, SendCommand(c),
           UNCHANGED <<changed, taskVars, main, loop, chanVars, lookVars>>
    PROVE  TaskInv' /\ ServedInv' /\ LookInv' /\ GapInv'
<1>1. sent' = sent \union {c}
  BY DEF SendCommand
<1>2. \A i \in Instances :
          /\ wire[i] \subseteq wire'[i] /\ wire'[i] \subseteq wire[i] \union {c}
          /\ lost[i] \subseteq lost'[i]
          /\ c \in wire'[i] \/ c \in lost'[i]
  BY DEF SendCommand, Handed, GivenUp, TypeOK
<1>3. \A i \in Instances : at[i][c] = Nobody /\ todo[i][c] = {}
  BY DEF IInv, TaskInv, Running
<1>4. \A s \in Subs : ~Told(s, c)
  BY DEF IInv, ServedInv
<1>5. /\ \A s \in Subs, d \in Command : Told(s, d)' <=> Told(s, d)
      /\ \A i \in Instances, d \in Command : Left(i, d)' = Left(i, d)
      /\ \A i \in Instances, d \in Command : Running(i, d)' <=> Running(i, d)
  BY DEF Told, Left, Running, chanVars, taskVars
<1>6. TaskInv'
  BY <1>1, <1>2, <1>3, <1>5 DEF IInv, TaskInv, Running, taskVars
<1>7. ServedInv'
  BY <1>1, <1>2, <1>4, <1>5, CommandsAssumption DEF IInv, ServedInv
<1>8. LookInv'
  BY DEF IInv, LookInv, lookVars
<1>9. GapInv'
  <2> SUFFICES ASSUME NEW s \in Subs, NEW d \in sent',
                      main[s] = "in", loop[s] = "open", Concerns(d, s)
               PROVE  \/ d \in wire'[Home[s]] \/ s \in Left(Home[s], d)'
                      \/ Told(s, d)' \/ d \in saw'[s] \/ d \in lost'[Home[s]]
                      \/ s \in blind'
    BY DEF GapInv
  <2>1. Home[s] \in Instances
    BY CommandsAssumption
  <2>2. CASE d = c
    BY <1>2, <2>1, <2>2
  <2>3. CASE d \in sent
    <3>1. d \in Command
      BY <2>3 DEF TypeOK
    <3> QED
      BY <1>2, <1>5, <2>1, <2>3, <3>1 DEF IInv, GapInv, lookVars
  <2> QED
    BY <1>1, <2>2, <2>3
<1> QED
  BY <1>6, <1>7, <1>8, <1>9

\* A publisher sends a command that is not yet sent, and whose change is made.
LEMMA Sends ==
    ASSUME TypeOK, IInv, NEW p \in Pubs, NEW c \in Command,
           \/ c = <<p, "join">> /\ SendJoin(p)
           \/ c = <<p, "left">> /\ SendLeft(p)
    PROVE  /\ c \in changed \ sent /\ SendCommand(c)
           /\ UNCHANGED <<changed, taskVars, main, loop, chanVars, lookVars>>
BY DEF SendJoin, SendLeft, IInv, OrderInv

\* A publisher keeps the invariant.
LEMMA InvPublisher ==
    ASSUME TypeOK, IInv, NEW p \in Pubs, Publisher(p)
    PROVE  IInv'
<1>1. ASSUME SendJoin(p) \/ SendLeft(p) PROVE IInv'
  <2>1. TaskInv' /\ ServedInv' /\ LookInv' /\ GapInv'
    BY <1>1, CommandOf, Sends, InvSend
  <2>2. OrderInv'
    <3>1. changed' = changed /\ sent' \subseteq changed
      BY <1>1, CommandOf, Sends DEF SendCommand, IInv, OrderInv
    <3>2. ASSUME NEW q \in Pubs, stage'[q] = "closing" PROVE <<q, "left">> \in changed'
      BY <1>1, <3>1, <3>2 DEF SendJoin, SendLeft, GoPub, IInv, OrderInv, TypeOK
    <3>3. ASSUME NEW q \in Pubs, <<q, "left">> \in sent' PROVE stage'[q] = "gone"
      <4>1. CASE SendJoin(p)
        BY <3>3, <4>1 DEF SendJoin, SendCommand, IInv, OrderInv
      <4>2. CASE SendLeft(p)
        BY <3>3, <4>2 DEF SendLeft, SendCommand, GoPub, IInv, OrderInv, TypeOK
      <4> QED
        BY <1>1, <4>1, <4>2
    <3> QED
      BY <3>1, <3>2, <3>3 DEF OrderInv
  <2> QED
    BY <2>1, <2>2 DEF IInv
<1> QED
  BY <1>1, InvChange DEF Publisher

\* A task that begins has all the registered subscribers of the room to serve.
LEMMA InvReceive ==
    ASSUME TypeOK, IInv, NEW i \in Instances, NEW c \in Command, Receive(i, c)
    PROVE  IInv'
<1>1. /\ UNCHANGED <<pubVars, listening, lost, main, loop, chanVars, lookVars>>
      /\ Serve(i, c, Senders(i, c)) /\ c \in wire[i]
  BY DEF Receive
<1>2. /\ c \notin wire'[i]
      /\ \A j \in Instances : wire'[j] \subseteq wire[j]
      /\ \A j \in Instances, d \in Command : j # i \/ d # c =>
             (d \in wire'[j] <=> d \in wire[j])
  BY DEF Receive, TypeOK
<1>3. /\ Left(i, c)' = Senders(i, c)
      /\ at'[i][c] = Nobody => todo'[i][c] = {}
      /\ at'[i][c] \notin todo'[i][c]
      /\ \A j \in Instances, d \in Command : j # i \/ d # c =>
             at'[j][d] = at[j][d] /\ todo'[j][d] = todo[j][d] /\ Left(j, d)' = Left(j, d)
  BY <1>1, ServeRest, TodoIsRest DEF Left
<1>4. \A s \in Subs, d \in Command : Told(s, d)' <=> Told(s, d)
  BY <1>1 DEF Told, chanVars
<1>5. c \in sent
  BY <1>1 DEF IInv, TaskInv
<1>6. OrderInv' /\ LookInv'
  BY <1>1 DEF IInv, OrderInv, LookInv, pubVars, lookVars
<1>7. TaskInv'
  <2> SUFFICES ASSUME NEW j \in Instances, NEW d \in Command
               PROVE  /\ d \in wire'[j] => d \in sent'
                      /\ at'[j][d] # Nobody => d \in sent' /\ d \notin wire'[j]
                      /\ at'[j][d] = Nobody => todo'[j][d] = {}
                      /\ at'[j][d] \notin todo'[j][d]
    BY DEF TaskInv, Running
  <2>1. CASE j = i /\ d = c
    BY <1>1, <1>2, <1>3, <1>5, <2>1 DEF pubVars
  <2>2. CASE j # i \/ d # c
    BY <1>1, <1>2, <1>3, <2>2 DEF IInv, TaskInv, Running, pubVars
  <2> QED
    BY <2>1, <2>2
<1>8. ServedInv'
  <2> SUFFICES ASSUME NEW s \in Subs, NEW d \in Command
               PROVE  /\ \A j \in Instances : s \in Left(j, d)' =>
                             Home[s] = j /\ Concerns(d, s) /\ ~Told(s, d)'
                      /\ Told(s, d)' => d \in sent' /\ d \notin wire'[Home[s]]
    BY DEF ServedInv
  <2>1. Home[s] \in Instances
    BY CommandsAssumption
  <2>2. Told(s, d)' => d \in sent' /\ d \notin wire'[Home[s]]
    BY <1>1, <1>2, <1>4, <2>1 DEF IInv, ServedInv, pubVars
  <2>3. ASSUME NEW j \in Instances, s \in Left(j, d)'
        PROVE  Home[s] = j /\ Concerns(d, s) /\ ~Told(s, d)'
    <3>1. CASE j = i /\ d = c
      <4>1. s \in Senders(i, c)
        BY <1>3, <2>3, <3>1
      <4>2. Home[s] = i /\ Concerns(c, s)
        BY <4>1 DEF Senders, Concerns
      <4>3. ~Told(s, c)
        BY <1>1, <4>2 DEF IInv, ServedInv
      <4> QED
        BY <1>4, <3>1, <4>2, <4>3
    <3>2. CASE j # i \/ d # c
      BY <1>3, <1>4, <2>3, <3>2 DEF IInv, ServedInv
    <3> QED
      BY <3>1, <3>2
  <2> QED
    BY <2>2, <2>3
<1>9. GapInv'
  <2> SUFFICES ASSUME NEW s \in Subs, NEW d \in sent,
                      main[s] = "in", loop[s] = "open", Concerns(d, s)
               PROVE  \/ d \in wire'[Home[s]] \/ s \in Left(Home[s], d)'
                      \/ Told(s, d)' \/ d \in saw[s] \/ d \in lost[Home[s]] \/ s \in blind
    BY <1>1 DEF GapInv, pubVars, lookVars
  <2>1. Home[s] \in Instances /\ d \in Command
    BY CommandsAssumption DEF TypeOK
  <2>2. CASE Home[s] = i /\ d = c
    <3>1. s \in Senders(i, c)
      BY <2>2 DEF Senders, Concerns
    <3> QED
      BY <1>3, <2>2, <3>1
  <2>3. CASE Home[s] # i \/ d # c
    BY <1>2, <1>3, <1>4, <2>1, <2>3 DEF IInv, GapInv
  <2> QED
    BY <2>2, <2>3
<1> QED
  BY <1>6, <1>7, <1>8, <1>9 DEF IInv

\* A subscriber that is served has the command in its channel, or has dropped the
\* receiver.
LEMMA InvPut ==
    ASSUME TypeOK, IInv, NEW i \in Instances, NEW c \in Command, Put(i, c)
    PROVE  IInv'
<1> DEFINE s == at[i][c]
<1>1. /\ UNCHANGED <<pubVars, natsVars, main, loop, lookVars>>
      /\ Serve(i, c, todo[i][c]) /\ s \in Subs
  BY DEF Put, TypeOK
<1>2. /\ Left(i, c)' = todo[i][c]
      /\ at'[i][c] = Nobody => todo'[i][c] = {}
      /\ at'[i][c] \notin todo'[i][c]
      /\ \A j \in Instances, d \in Command : j # i \/ d # c =>
             at'[j][d] = at[j][d] /\ todo'[j][d] = todo[j][d] /\ Left(j, d)' = Left(j, d)
  BY <1>1, ServeRest, TodoIsRest DEF Left
<1>3. /\ s \notin todo[i][c] /\ s # Nobody /\ Running(i, c)
      /\ Left(i, c) = todo[i][c] \union {s}
  <2>1. todo[i][c] \subseteq Subs
    BY TodoIsRest
  <2> QED
    BY <1>1, <2>1, NobodyAssumption DEF IInv, TaskInv, Left, Running
<1>4. Home[s] = i /\ Concerns(c, s) /\ ~Told(s, c) /\ c \in sent /\ c \notin wire[i]
  BY <1>1, <1>3 DEF IInv, ServedInv, TaskInv
<1>5. \A r \in Subs, d \in Command :
          Told(r, d)' <=> Told(r, d) \/ (r = s /\ d = c /\ ~ReceiverGone(s))
  <2>1. CASE ReceiverGone(s) /\ got' = got
    BY <2>1 DEF Told
  <2>2. CASE ~ReceiverGone(s) /\ got' = [got EXCEPT ![s] = Append(@, c)]
    <3> SUFFICES ASSUME NEW r \in Subs, NEW d \in Command
                 PROVE  Told(r, d)' <=> Told(r, d) \/ (r = s /\ d = c)
      BY <2>2
    <3>1. CASE r = s
      <4>1. got'[s] = Append(got[s], c) /\ got[s] \in Seq(Command)
        BY <1>1, <2>2 DEF TypeOK
      <4>2. (\E n \in DOMAIN got'[s] : got'[s][n] = d)
                <=> (\E n \in DOMAIN got[s] : got[s][n] = d) \/ d = c
        BY <4>1, Appended
      <4> QED
        BY <3>1, <4>2 DEF Told
    <3>2. CASE r # s
      BY <1>1, <2>2, <3>2 DEF Told, TypeOK
    <3> QED
      BY <3>1, <3>2
  <2> QED
    BY <2>1, <2>2 DEF Put, Send, chanVars
<1>6. OrderInv' /\ LookInv'
  BY <1>1 DEF IInv, OrderInv, LookInv, pubVars, lookVars
<1>7. TaskInv'
  <2> SUFFICES ASSUME NEW j \in Instances, NEW d \in Command
               PROVE  /\ d \in wire[j] => d \in sent
                      /\ at'[j][d] # Nobody => d \in sent /\ d \notin wire[j]
                      /\ at'[j][d] = Nobody => todo'[j][d] = {}
                      /\ at'[j][d] \notin todo'[j][d]
    BY <1>1 DEF TaskInv, Running, pubVars, natsVars
  <2>1. CASE j = i /\ d = c
    BY <1>2, <1>4, <2>1
  <2>2. CASE j # i \/ d # c
    BY <1>2, <2>2 DEF IInv, TaskInv, Running
  <2> QED
    BY <2>1, <2>2
<1>8. ServedInv'
  <2> SUFFICES ASSUME NEW r \in Subs, NEW d \in Command
               PROVE  /\ \A j \in Instances : r \in Left(j, d)' =>
                             Home[r] = j /\ Concerns(d, r) /\ ~Told(r, d)'
                      /\ Told(r, d)' => d \in sent /\ d \notin wire[Home[r]]
    BY <1>1 DEF ServedInv, pubVars, natsVars
  <2>1. Told(r, d)' => d \in sent /\ d \notin wire[Home[r]]
    BY <1>4, <1>5 DEF IInv, ServedInv
  <2>2. ASSUME NEW j \in Instances, r \in Left(j, d)'
        PROVE  Home[r] = j /\ Concerns(d, r) /\ ~Told(r, d)'
    <3>1. r \in Left(j, d)
      BY <1>2, <1>3, <2>2
    <3>2. Home[r] = j /\ Concerns(d, r) /\ ~Told(r, d)
      BY <3>1 DEF IInv, ServedInv
    <3>3. ~(r = s /\ d = c)
      BY <1>2, <1>3, <1>4, <2>2, <3>2
    <3> QED
      BY <1>5, <3>2, <3>3
  <2> QED
    BY <2>1, <2>2
<1>9. GapInv'
  <2> SUFFICES ASSUME NEW r \in Subs, NEW d \in sent,
                      main[r] = "in", loop[r] = "open", Concerns(d, r)
               PROVE  \/ d \in wire[Home[r]] \/ r \in Left(Home[r], d)'
                      \/ Told(r, d)' \/ d \in saw[r] \/ d \in lost[Home[r]] \/ r \in blind
    BY <1>1 DEF GapInv, pubVars, natsVars, lookVars
  <2>1. Home[r] \in Instances /\ d \in Command
    BY CommandsAssumption DEF TypeOK
  <2>2. CASE r = s /\ d = c
    BY <1>5, <2>2 DEF ReceiverGone
  <2>3. CASE ~(r = s /\ d = c)
    BY <1>2, <1>3, <1>5, <2>1, <2>3 DEF IInv, GapInv
  <2> QED
    BY <2>2, <2>3
<1> QED
  BY <1>6, <1>7, <1>8, <1>9 DEF IInv

\* A listener that ends loses what it has not begun with.
LEMMA InvListener ==
    ASSUME TypeOK, IInv, NEW i \in Instances, ListenerEnds(i)
    PROVE  IInv'
<1>1. UNCHANGED <<pubVars, taskVars, main, loop, chanVars, lookVars>>
  BY DEF ListenerEnds
<1>2. \A j \in Instances :
          /\ wire'[j] \subseteq wire[j] /\ lost[j] \subseteq lost'[j]
          /\ wire[j] \subseteq wire'[j] \union lost'[j]
  BY DEF ListenerEnds, TypeOK
<1>3. OrderInv' /\ LookInv' /\ TaskInv'
  BY <1>1, <1>2 DEF IInv, OrderInv, LookInv, TaskInv, Running, pubVars, taskVars, lookVars
<1>4. ServedInv'
  BY <1>1, <1>2, CommandsAssumption
  DEF IInv, ServedInv, Left, Told, pubVars, taskVars, chanVars
<1>5. GapInv'
  BY <1>1, <1>2, CommandsAssumption
  DEF IInv, GapInv, Left, Told, pubVars, taskVars, chanVars, lookVars
<1> QED
  BY <1>3, <1>4, <1>5 DEF IInv

\* A subscriber that looks at the room finds every change whose command was sent.
LEMMA InvSubscriber ==
    ASSUME TypeOK, IInv, NEW s \in Subs, Subscriber(s)
    PROVE  IInv'
<1>1. UNCHANGED <<pubVars, natsVars, taskVars, got>>
  BY DEF Subscriber, Admit, Register, Open, Take, Stick, Leave, Deregister, chanVars
<1>2. OrderInv' /\ TaskInv'
  BY <1>1 DEF IInv, OrderInv, TaskInv, Running, pubVars, natsVars, taskVars
<1>3. ServedInv'
  BY <1>1 DEF IInv, ServedInv, Left, Told, pubVars, natsVars, taskVars
<1>4. LookInv' /\ GapInv'
  <2>1. CASE Open(s)
    <3>1. /\ loop' = [loop EXCEPT ![s] = "open"] /\ UNCHANGED main
          /\ \/ saw' = [saw EXCEPT ![s] = changed] /\ UNCHANGED blind
             \/ blind' = blind \union {s} /\ UNCHANGED saw
          /\ main[s] = "in"
      BY <2>1 DEF Open, GoLoop
    <3>2. LookInv'
      BY <3>1 DEF IInv, LookInv, TypeOK
    <3>3. sent \subseteq changed
      BY DEF IInv, OrderInv
    <3>4. GapInv'
      BY <1>1, <3>1, <3>3
      DEF IInv, GapInv, TypeOK, Left, Told, pubVars, natsVars, taskVars
    <3> QED
      BY <3>2, <3>4
  <2>2. CASE ~Open(s)
    <3>1. /\ UNCHANGED lookVars
          /\ \A r \in Subs : loop'[r] = loop[r] \/ loop'[r] \in {"stuck", "left"}
          /\ \A r \in Subs : \/ main'[r] = main[r]
                            \/ main'[r] = "setup"
                            \/ main[r] = "setup"
                            \/ main'[r] = "gone"
      BY <2>2 DEF Subscriber, Admit, Register, Take, Stick, Leave, Deregister,
                  GoMain, GoLoop, TypeOK, lookVars
    <3>2. \A r \in Subs : main'[r] = "setup" /\ main[r] # "setup" =>
              main[r] = "out" /\ loop' = loop
      BY <2>2 DEF Subscriber, Admit, Register, Take, Stick, Leave, Deregister,
                  GoMain, GoLoop, TypeOK
    <3>3. \A r \in Subs : main'[r] = "out" => main[r] = "out" /\ loop'[r] = loop[r]
      BY <2>2 DEF Subscriber, Admit, Register, Take, Stick, Leave, Deregister,
                  GoMain, GoLoop, TypeOK, IInv, LookInv
    <3>4. \A r \in Subs : main[r] = "setup" => loop'[r] = "none"
      BY <2>2 DEF Subscriber, Admit, Register, Take, Stick, Leave, Deregister,
                  GoMain, GoLoop, TypeOK, IInv, LookInv
    <3>5. LookInv'
      BY <3>1, <3>2, <3>3, <3>4 DEF IInv, LookInv, lookVars
    <3>6. \A r \in Subs : main'[r] = "in" /\ loop'[r] = "open" =>
              main[r] = "in" /\ loop[r] = "open"
      BY <3>1, <3>4
    <3>7. GapInv'
      BY <1>1, <3>1, <3>6
      DEF IInv, GapInv, Left, Told, pubVars, natsVars, taskVars, lookVars
    <3> QED
      BY <3>5, <3>7
  <2> QED
    BY <2>1, <2>2
<1> QED
  BY <1>2, <1>3, <1>4 DEF IInv

LEMMA InvNext == TypeOK /\ IInv /\ [Next]_vars => IInv'
<1>1. ASSUME TypeOK, IInv, UNCHANGED vars PROVE IInv'
  BY <1>1 DEF IInv, OrderInv, TaskInv, ServedInv, LookInv, GapInv, Running, Left, Told,
              vars, pubVars, natsVars, taskVars, chanVars, lookVars
<1> QED
  BY <1>1, InvPublisher, InvReceive, InvPut, InvListener, InvSubscriber DEF Next, Forward

THEOREM Invariant == Spec => [](TypeOK /\ IInv)
BY InvInit, InvNext, TypeInit, TypeNext, PTL DEF Spec

\* Between a subscriber's first look at the room and the commands it is told there
\* is no gap, whatever the number of instances, publishers and subscribers, and
\* whatever order the tasks run in.
THEOREM NothingBetween == Spec => []NoGap
<1>1. TypeOK /\ IInv => NoGap
  <2> SUFFICES ASSUME TypeOK, IInv, NEW s \in Subs, NEW c \in sent,
                      main[s] = "in", loop[s] = "open", Concerns(c, s),
                      c \notin wire[Home[s]], ~Running(Home[s], c)
               PROVE  Told(s, c) \/ c \in saw[s] \/ c \in lost[Home[s]] \/ s \in blind
    BY DEF NoGap
  <2>1. Home[s] \in Instances /\ c \in Command
    BY CommandsAssumption DEF TypeOK
  <2>2. Left(Home[s], c) = {}
    BY <2>1 DEF IInv, TaskInv, Running, Left
  <2> QED
    BY <2>2 DEF IInv, GapInv
<1> QED
  BY <1>1, Invariant, PTL

-----------------------------------------------------------------------------
(* What is left when nothing more is on its way. *)

\* NATS has messages for an instance only while somebody listens there.
WireInv == \A i \in Instances : ~listening[i] => wire[i] = {}

\* A listener that has ended is handed nothing more.
LEMMA WireNext == TypeOK /\ WireInv /\ [Next]_vars => WireInv'
<1> SUFFICES ASSUME TypeOK, WireInv, [Next]_vars PROVE WireInv'
  OBVIOUS
<1>1. ASSUME NEW c \in Command, SendCommand(c) PROVE WireInv'
  BY <1>1 DEF SendCommand, Handed, GivenUp, WireInv, TypeOK
<1>2. ASSUME NEW i \in Instances, NEW c \in Command, Receive(i, c) PROVE WireInv'
  BY <1>2 DEF Receive, WireInv, TypeOK
<1>3. ASSUME NEW i \in Instances, ListenerEnds(i) PROVE WireInv'
  BY <1>3 DEF ListenerEnds, WireInv, TypeOK
<1>4. ASSUME UNCHANGED natsVars PROVE WireInv'
  BY <1>4 DEF natsVars, WireInv
<1>5. ASSUME NEW p \in Pubs, Publisher(p) PROVE WireInv'
  <2>1. CASE SendJoin(p) \/ SendLeft(p)
    BY <1>1, <2>1, CommandOf DEF SendJoin, SendLeft
  <2>2. CASE Connect(p) \/ CountTracks(p) \/ RemoveMedia(p)
    BY <1>4, <2>2 DEF Connect, CountTracks, RemoveMedia
  <2> QED
    BY <1>5, <2>1, <2>2 DEF Publisher
<1>6. ASSUME NEW i \in Instances, NEW c \in Command, Put(i, c) PROVE WireInv'
  BY <1>4, <1>6 DEF Put
<1>7. ASSUME NEW s \in Subs, Subscriber(s) PROVE WireInv'
  BY <1>4, <1>7 DEF Subscriber, Admit, Register, Open, Take, Stick, Leave, Deregister
<1>8. CASE UNCHANGED vars
  BY <1>4, <1>8 DEF vars
<1> QED
  BY <1>2, <1>3, <1>5, <1>6, <1>7, <1>8 DEF Next, Forward

\* When nothing more is on its way, only a subscriber that does not take, of the same
\* room and on the same instance, can have kept a command from one that does; for
\* any number of rooms, instances and sessions.
THEOREM OnlyNeighboursJam == Spec => []ToldAtRest
<1>1. Init => WireInv
  BY DEF Init, WireInv
<1>2. TypeOK /\ IInv /\ WireInv => ToldAtRest
  <2> SUFFICES ASSUME TypeOK, IInv, WireInv, AtRest,
                      NEW s \in Subs, NEW c \in sent,
                      main[s] = "in", loop[s] = "open", Concerns(c, s),
                      ~Told(s, c), c \notin saw[s], c \notin lost[Home[s]], s \notin blind
               PROVE  /\ Jammed(Home[s], c)
                      /\ Home[at[Home[s]][c]] = Home[s]
                      /\ RoomOf[at[Home[s]][c]] = RoomOf[s]
    BY DEF ToldAtRest
  <2> DEFINE i == Home[s]
             r == at[i][c]
  <2>1. i \in Instances /\ c \in Command
    BY CommandsAssumption DEF TypeOK
  <2>2. wire[i] = {}
    BY <2>1 DEF AtRest, WireInv
  <2>3. s \in Left(i, c)
    BY <2>2 DEF IInv, GapInv
  <2>4. Running(i, c) /\ r \in Subs
    BY <2>1, <2>3 DEF IInv, TaskInv, Running, Left, TypeOK
  <2>5. ~ReceiverGone(r) /\ inbox[r] = ChanCap
    BY <2>1, <2>4 DEF AtRest
  <2>6. loop[r] \in {"none", "stuck"}
    <3>1. ChanCap # 0
      BY CommandsAssumption
    <3>2. loop[r] # "open"
      BY <2>4, <2>5, <3>1 DEF AtRest
    <3> QED
      BY <2>4, <2>5, <3>2 DEF ReceiverGone, TypeOK
  <2>7. Home[r] = i /\ Concerns(c, r)
    <3>1. r \in Left(i, c)
      BY <2>4, NobodyAssumption DEF Left
    <3> QED
      BY <2>1, <2>4, <3>1 DEF IInv, ServedInv
  <2> QED
    BY <2>4, <2>5, <2>6, <2>7 DEF Jammed, Concerns
<1> QED
  BY <1>1, <1>2, WireNext, Invariant, PTL DEF Spec

-----------------------------------------------------------------------------
(* Commands implements Broadcast: every step is a step of it, or none. *)

\* What the refinement mapping makes of the reach.
LEMMA Reaches ==
    ASSUME NEW s \in Subs, NEW c \in Command, Concerns(c, s)
    PROVE  c \in [r \in Subs |-> {d \in Command : Concerns(d, r)}][s]
OBVIOUS

LEMMA BroadcastNext ==
    ASSUME TypeOK, IInv, [Next]_vars
    PROVE  [Announcements!Next]_(Announcements!vars)
<1> USE DEF Announcements!vars
<1>1. CASE UNCHANGED vars
  BY <1>1 DEF vars, pubVars, chanVars, lookVars
<1>2. ASSUME NEW p \in Pubs, Connect(p) \/ CountTracks(p) \/ RemoveMedia(p)
      PROVE  [Announcements!Next]_(Announcements!vars)
  <2>1. UNCHANGED <<sent, got, saw>>
    BY <1>2 DEF Connect, CountTracks, RemoveMedia, chanVars, lookVars
  <2>2. changed' = changed \/ \E c \in Command : changed' = changed \union {c}
    BY <1>2, CommandOf DEF Connect, CountTracks, RemoveMedia
  <2> QED
    BY <2>1, <2>2 DEF Announcements!Next, Announcements!Make
<1>3. ASSUME NEW p \in Pubs, SendJoin(p) \/ SendLeft(p)
      PROVE  [Announcements!Next]_(Announcements!vars)
  <2>1. PICK c \in Command : /\ c \in changed \ sent /\ SendCommand(c)
                             /\ UNCHANGED <<changed, chanVars, lookVars>>
    BY <1>3, CommandOf, Sends
  <2>2. Announcements!Announce(c)
    BY <2>1 DEF Announcements!Announce, SendCommand, chanVars, lookVars
  <2> QED
    BY <2>2 DEF Announcements!Next
<1>4. ASSUME NEW i \in Instances, NEW c \in Command, Receive(i, c) \/ ListenerEnds(i)
      PROVE  [Announcements!Next]_(Announcements!vars)
  BY <1>4 DEF Receive, ListenerEnds, pubVars, chanVars, lookVars
<1>5. ASSUME NEW i \in Instances, NEW c \in Command, Put(i, c)
      PROVE  [Announcements!Next]_(Announcements!vars)
  <2> DEFINE s == at[i][c]
  <2>1. s \in Subs /\ s \in Left(i, c) /\ Running(i, c) /\ UNCHANGED <<changed, sent, saw>>
    BY <1>5 DEF Put, TypeOK, Left, Running, pubVars, lookVars
  <2>2. c \in sent /\ Concerns(c, s) /\ ~Told(s, c)
    BY <2>1 DEF IInv, TaskInv, ServedInv
  <2>3. got' = got \/ got' = [got EXCEPT ![s] = Append(@, c)]
    BY <1>5 DEF Put, Send, chanVars
  <2>4. CASE got' = [got EXCEPT ![s] = Append(@, c)]
    <3>1. Announcements!Hear(s, c)
      BY <2>1, <2>2, <2>4, Reaches DEF Announcements!Hear, Told
    <3> QED
      BY <2>1, <3>1 DEF Announcements!Next
  <2> QED
    BY <2>1, <2>3, <2>4
<1>6. ASSUME NEW s \in Subs, Subscriber(s)
      PROVE  [Announcements!Next]_(Announcements!vars)
  <2>1. UNCHANGED <<changed, sent, got>>
    BY <1>6 DEF Subscriber, Admit, Register, Open, Take, Stick, Leave, Deregister,
                pubVars, chanVars
  <2>2. CASE saw' = saw
    BY <2>1, <2>2
  <2>3. CASE Open(s) /\ saw' = [saw EXCEPT ![s] = changed]
    <3>1. saw[s] = {}
      BY <2>3 DEF Open, IInv, LookInv
    <3>2. Announcements!Look(s)
      BY <2>1, <2>3, <3>1 DEF Announcements!Look
    <3> QED
      BY <3>2 DEF Announcements!Next
  <2> QED
    BY <1>6, <2>2, <2>3 DEF Subscriber, Admit, Register, Open, Take, Stick, Leave,
                            Deregister, lookVars
<1>7. CASE \E i \in Instances : ListenerEnds(i)
  BY <1>7 DEF ListenerEnds, pubVars, chanVars, lookVars
<1> QED
  BY <1>1, <1>2, <1>3, <1>4, <1>5, <1>6, <1>7 DEF Next, Publisher, Forward

\* Every behaviour of the commands, whatever may fail, is one of Broadcast: a
\* subscriber is told of a change of its own room only, after the change was made
\* and announced, and once at the most.
THEOREM BroadcastImplemented == Spec => ImplementsBroadcast
<1>1. Init => Announcements!Init
  BY DEF Init, Announcements!Init
<1>2. QED
  BY <1>1, BroadcastNext, Invariant, PTL DEF Spec, ImplementsBroadcast, Announcements!Spec
=============================================================================
