------------------------- MODULE RenegotiationProofs -------------------------
(***************************************************************************)
(* Theorems about Renegotiation, for every value of its constants.          *)
(***************************************************************************)
EXTENDS Renegotiation, SequenceTheorems, TLAPS

-----------------------------------------------------------------------------
(* Lemmas about the operators of Tracks. *)

\* A track is one of a stream of another user, and its index is below the bound.
LEMMA TrackType ==
    ASSUME NEW t \in Track
    PROVE  /\ StreamOf(t) \in Stream
           /\ t[1] \in Users \ Own
           /\ t[3] \in 0 .. MaxCount - 1
BY DEF Track, StreamOf, Stream

\* What the update function leaves in its maps are tracks again.
LEMMA UpdateDoneType ==
    ASSUME NEW ts \in SUBSET Track, NEW sn \in SUBSET Track,
           NEW ca \in SUBSET Track, NEW m
    PROVE  /\ UpdateDone(ts, sn, ca, m).tracks \subseteq Track
           /\ UpdateDone(ts, sn, ca, m).senders \subseteq Track
           /\ UpdateDone(ts, sn, ca, m).carried \subseteq Track
BY DEF UpdateDone, Updated, Gone, ToAdd, Missing

\* Nor does an update that fails in places put anything but tracks in the maps.
LEMMA UpdateBrokenType ==
    ASSUME NEW ts \in SUBSET Track, NEW sn \in SUBSET Track,
           NEW ca \in SUBSET Track, NEW m,
           NEW maps \in UpdateBroken(ts, sn, ca, m)
    PROVE  /\ maps.tracks \subseteq Track
           /\ maps.senders \subseteq Track
           /\ maps.carried \subseteq Track
<1> DEFINE todo == ToAdd(ts, sn, m)
<1>1. todo \subseteq Track
  BY DEF ToAdd, Missing
<1>2. PICK c \in [stuck  : SUBSET Gone(sn, m), added  : SUBSET todo,
                  failed : {{}} \union {{t} : t \in todo},
                  wired  : {{}} \union {{t} : t \in todo}] :
          maps = Updated(ts, sn, ca, m, c.stuck, c.added, c.failed, c.wired)
  BY DEF UpdateBroken
<1>3. c.added \subseteq Track /\ c.failed \subseteq Track /\ c.wired \subseteq Track
  BY <1>1, <1>2
<1> QED
  BY <1>2, <1>3 DEF Updated

-----------------------------------------------------------------------------
(* Type correctness. *)

\* What Append, Head and Tail make of a sequence over S.
LEMMA SeqType ==
    ASSUME NEW S, NEW s \in Seq(S)
    PROVE  /\ <<>> \in Seq(S)
           /\ \A x \in S : Append(s, x) \in Seq(S)
           /\ s # <<>> => Head(s) \in S /\ Tail(s) \in Seq(S)
OBVIOUS

\* The connection starts with values of the right types,
LEMMA TypeInit == Init => TypeOK
<1> SUFFICES ASSUME Init PROVE TypeOK
  OBVIOUS
<1>1. NoMedia \in Media
  BY TracksAssumption DEF NoMedia, Media
<1>2. pc \in [Tasks -> LoopStages \union HandlerStages]
  BY DEF Init, Tasks, LoopStages, HandlerStages
<1>3. pc["loop"] = "start" /\ pc["handler"] = "idle"
  BY DEF Init, Tasks
<1>4. pubs \in [Users -> {"out", "joining", "live", "leaving"}]
  BY DEF Init
<1>5. sessions \in [Users -> Nat] /\ inflight \in [Users -> Nat]
  BY DEF Init
<1>6. chan \in Seq(Users) /\ toClient \in Seq(SUBSET Track)
  BY DEF Init
<1>7. snap \in [Tasks -> Media]
  BY <1>1 DEF Init
<1>8. media \in Media
  BY <1>1 DEF Init
<1> QED
  BY <1>2, <1>3, <1>4, <1>5, <1>6, <1>7, <1>8
  DEF Init, TypeOK, LoopStages, HandlerStages

\* and every step of a task, a publisher or the browser keeps them.
LEMMA TypeNext == TypeOK /\ [Next]_vars => TypeOK'
<1> SUFFICES ASSUME TypeOK, [Next]_vars PROVE TypeOK'
  OBVIOUS
<1> USE DEF TypeOK
<1>1. ASSUME NEW u \in Users, NEW k \in Kinds, AddTrack(u, k) PROVE TypeOK'
  <2>1. media' \in Media
    BY <1>1, TracksAssumption DEF AddTrack, Media, Stream
  <2>2. sessions' \in [Users -> Nat]
    BY <1>1 DEF AddTrack
  <2> QED
    BY <1>1, <2>1, <2>2
    DEF AddTrack, cmdVars, mapVars, flagVars, lockVars, dcVars
<1>2. ASSUME NEW u \in Users, NEW from, NEW to \in {"live", "out"}, Announce(u, from, to)
      PROVE  TypeOK'
  BY <1>2 DEF Announce, mapVars, flagVars, lockVars, dcVars
<1>3. ASSUME NEW u \in Users, NEW k \in Kinds, RemoveMedia(u, k) PROVE TypeOK'
  <2>1. media' \in Media
    BY <1>3, TracksAssumption DEF RemoveMedia, Media, Stream
  <2> QED
    BY <1>3, <2>1 DEF RemoveMedia, cmdVars, mapVars, flagVars, lockVars, dcVars
<1>4. ASSUME NEW u \in Users, Deliver(u) PROVE TypeOK'
  <2>1. chan' = chan \/ chan' = Append(chan, u)
    BY <1>4 DEF Deliver
  <2>3. chan' \in Seq(Users)
    <3> HIDE DEF TypeOK
    <3>1. chan \in Seq(Users)
      BY DEF TypeOK
    <3> QED
      BY <2>1, <3>1, SeqType
  <2>2. inflight' \in [Users -> Nat]
    BY <1>4 DEF Deliver
  <2> QED
    BY <1>4, <2>2, <2>3 DEF Deliver, pubVars, mapVars, flagVars, lockVars, dcVars
<1>5. CASE Open
  BY <1>5 DEF Open, Goto, Tasks, LoopStages, HandlerStages,
              pubVars, cmdVars, mapVars, dcVars
<1>6. CASE Recv
  <2>1. chan' \in Seq(Users)
    BY <1>6 DEF Recv
  <2> QED
    BY <1>6, <2>1 DEF Recv, Goto, Tasks, LoopStages, HandlerStages,
                      pubVars, mapVars, flagVars, lockVars, dcVars
<1>7. CASE SendNotice
  BY <1>7 DEF SendNotice, Fails, Goto, Tasks, LoopStages, HandlerStages,
              pubVars, cmdVars, mapVars, flagVars, lockVars, dcVars
<1>8. CASE LockDoing
  BY <1>8 DEF LockDoing, Goto, Tasks, LoopStages, HandlerStages,
              pubVars, cmdVars, mapVars, dcVars
<1>9. CASE MarkNeed
  <2>1. chan' \in Seq(Users)
    BY <1>9, SeqType DEF MarkNeed, LeaveBlock
  <2>2. pc' \in [Tasks -> LoopStages \union HandlerStages]
    BY <1>9 DEF MarkNeed, LeaveBlock, Goto, Tasks, LoopStages, HandlerStages
  <2>3. pc'["loop"] \in LoopStages /\ pc'["handler"] \in HandlerStages
    BY <1>9 DEF MarkNeed, LeaveBlock, Goto, Tasks, LoopStages, HandlerStages
  <2> QED
    BY <1>9, <2>1, <2>2, <2>3 DEF MarkNeed, LeaveBlock, pubVars, mapVars, dcVars
<1>10. CASE SetRemote
  <2>1. pc' \in [Tasks -> LoopStages \union HandlerStages]
    BY <1>10 DEF SetRemote, Goto, Tasks, LoopStages, HandlerStages
  <2>2. pc'["loop"] \in LoopStages /\ pc'["handler"] \in HandlerStages
    BY <1>10 DEF SetRemote, Goto, Tasks, LoopStages, HandlerStages
  <2>3. toServer' \in Nat
    BY <1>10 DEF SetRemote
  <2>4. faulted' \in BOOLEAN
    BY <1>10 DEF SetRemote, Fails
  <2> QED
    BY <1>10, <2>1, <2>2, <2>3, <2>4
    DEF SetRemote, pubVars, cmdVars, mapVars, flagVars, lockVars
<1>11. CASE LockNeed
  BY <1>11 DEF LockNeed, Goto, Tasks, LoopStages, HandlerStages,
               pubVars, cmdVars, mapVars, flagVars, dcVars
<1>12. CASE MarkDone
  BY <1>12 DEF MarkDone, Goto, Tasks, LoopStages, HandlerStages,
               pubVars, cmdVars, mapVars, dcVars
<1>13. CASE Answer
  <2>1. toClient' \in Seq(SUBSET Track) /\ shown' \subseteq Track
    BY <1>13 DEF Answer
  <2> QED
    BY <1>13, <2>1 DEF Answer, pubVars, cmdVars, mapVars, flagVars, lockVars
<1>14. CASE AnswerFails
  <2>1. toClient' \in Seq(SUBSET Track)
    BY <1>14 DEF AnswerFails
  <2> QED
    BY <1>14, <2>1 DEF AnswerFails, Fails, pubVars, cmdVars, mapVars, flagVars, lockVars
<1>15. ASSUME NEW t \in Tasks, Fetch(t) PROVE TypeOK'
  <2>1. snap' \in [Tasks -> Media]
    BY <1>15 DEF Fetch
  <2> QED
    BY <1>15, <2>1 DEF Fetch, Goto, Tasks, LoopStages, HandlerStages,
                       pubVars, cmdVars, mapVars, flagVars, lockVars, dcVars
<1>16. ASSUME NEW t \in Tasks, FetchFails(t) PROVE TypeOK'
  BY <1>16 DEF FetchFails, Fails, AfterUpdate, Goto, Tasks, LoopStages, HandlerStages,
               pubVars, cmdVars, mapVars, lockVars, dcVars
<1>17. ASSUME NEW t \in Tasks, Apply(t) PROVE TypeOK'
  <2>1. tracks' \subseteq Track /\ senders' \subseteq Track /\ carried' \subseteq Track
    BY <1>17, UpdateDoneType DEF Apply, Install
  <2>2. pc' \in [Tasks -> LoopStages \union HandlerStages]
    BY <1>17 DEF Apply, Goto, Tasks, LoopStages, HandlerStages
  <2>3. pc'["loop"] \in LoopStages /\ pc'["handler"] \in HandlerStages
    BY <1>17 DEF Apply, Goto, Tasks, LoopStages, HandlerStages
  <2>4. need' \in BOOLEAN /\ faulted' \in BOOLEAN
    BY <1>17 DEF Apply, AfterUpdate
  <2> QED
    BY <1>17, <2>1, <2>2, <2>3, <2>4
    DEF Apply, pubVars, cmdVars, lockVars, dcVars
<1>18. ASSUME NEW t \in Tasks, ApplyFails(t) PROVE TypeOK'
  <2>1. tracks' \subseteq Track /\ senders' \subseteq Track /\ carried' \subseteq Track
    BY <1>18, UpdateBrokenType DEF ApplyFails, Install
  <2>2. pc' \in [Tasks -> LoopStages \union HandlerStages]
    BY <1>18 DEF ApplyFails, Goto, Tasks, LoopStages, HandlerStages
  <2>3. pc'["loop"] \in LoopStages /\ pc'["handler"] \in HandlerStages
    BY <1>18 DEF ApplyFails, Goto, Tasks, LoopStages, HandlerStages
  <2>4. need' \in BOOLEAN /\ faulted' \in BOOLEAN
    BY <1>18 DEF ApplyFails, Fails, AfterUpdate
  <2> QED
    BY <1>18, <2>1, <2>2, <2>3, <2>4
    DEF ApplyFails, pubVars, cmdVars, lockVars, dcVars
<1>19. ASSUME NEW t \in Tasks, SendOffer(t) PROVE TypeOK'
  <2>1. chan' \in Seq(Users)
    BY <1>19, SeqType DEF SendOffer, LeaveBlock
  <2>2. toClient' \in Seq(SUBSET Track)
    BY <1>19, SeqType DEF SendOffer
  <2> QED
    BY <1>19, <2>1, <2>2 DEF SendOffer, LeaveBlock, Goto, Tasks, LoopStages, HandlerStages,
                       pubVars, mapVars, flagVars
<1>20. ASSUME NEW t \in Tasks, SendOfferFails(t) PROVE TypeOK'
  <2>1. chan' \in Seq(Users)
    BY <1>20, SeqType DEF SendOfferFails, LeaveBlock
  <2> QED
    BY <1>20, <2>1 DEF SendOfferFails, Fails, LeaveBlock, Goto, Tasks, LoopStages,
                       HandlerStages, pubVars, mapVars, flagVars, dcVars
<1>21. CASE UNCHANGED vars
  BY <1>21 DEF vars, pubVars, cmdVars, mapVars, flagVars, lockVars, dcVars
<1>22. ASSUME NEW t \in Tasks, Update(t) PROVE TypeOK'
  BY <1>15, <1>16, <1>17, <1>18, <1>19, <1>20, <1>22 DEF Update
<1> QED
  <2>1. CASE Publishers
    BY <2>1, <1>1, <1>2, <1>3 DEF Publishers, AnnounceJoin, AnnounceLeave
  <2>2. CASE Commands
    BY <2>2, <1>4 DEF Commands
  <2>3. CASE Loop
    BY <2>3, <1>5, <1>6, <1>7, <1>8, <1>9, <1>22 DEF Loop, Tasks
  <2>4. CASE Handler
    BY <2>4, <1>10, <1>11, <1>12, <1>22 DEF Handler, Tasks
  <2>5. CASE Browser
    BY <2>5, <1>13, <1>14 DEF Browser
  <2> QED
    BY <2>1, <2>2, <2>3, <2>4, <2>5, <1>21 DEF Next

\* The fields of the subscriber and its peers always have the types the code
\* gives them, and the two tasks are where their code can be.
THEOREM TypeCorrect == Spec => []TypeOK
  BY TypeInit, TypeNext, PTL DEF Spec

-----------------------------------------------------------------------------
(* One round at a time, whatever fails. *)

PcType ==
    /\ pc \in [Tasks -> LoopStages \union HandlerStages]
    /\ pc["loop"] \in LoopStages
    /\ pc["handler"] \in HandlerStages

\* No step breaks the account of who holds doing and need.
LEMMA LockNext ==
    ASSUME PcType, LockInv, [Next]_vars
    PROVE  LockInv'
<1> USE DEF LockInv, PcType, Tasks, Free
<1>1. ASSUME NEW u \in Users, NEW k \in Kinds, AddTrack(u, k) PROVE LockInv'
  BY <1>1 DEF AddTrack, cmdVars, mapVars, flagVars, lockVars, dcVars
<1>2. ASSUME NEW u \in Users, NEW from, NEW to, Announce(u, from, to) PROVE LockInv'
  BY <1>2 DEF Announce, mapVars, flagVars, lockVars, dcVars
<1>3. ASSUME NEW u \in Users, NEW k \in Kinds, RemoveMedia(u, k) PROVE LockInv'
  BY <1>3 DEF RemoveMedia, cmdVars, mapVars, flagVars, lockVars, dcVars
<1>4. ASSUME NEW u \in Users, Deliver(u) PROVE LockInv'
  BY <1>4 DEF Deliver, pubVars, mapVars, flagVars, lockVars, dcVars
<1>5. CASE Open
  BY <1>5 DEF Open, Goto, pubVars, cmdVars, mapVars, flagVars, lockVars, dcVars
<1>6. CASE Recv
  BY <1>6 DEF Recv, Goto, pubVars, cmdVars, mapVars, flagVars, lockVars, dcVars
<1>7. CASE SendNotice
  BY <1>7 DEF SendNotice, Fails, Goto, pubVars, cmdVars, mapVars, flagVars, lockVars, dcVars
<1>8. CASE LockDoing
  BY <1>8 DEF LockDoing, Goto, pubVars, cmdVars, mapVars, flagVars, lockVars, dcVars
<1>9. CASE MarkNeed
  BY <1>9 DEF MarkNeed, LeaveBlock, Goto, pubVars, cmdVars, mapVars, flagVars, lockVars, dcVars
<1>10. CASE SetRemote
  BY <1>10 DEF SetRemote, Fails, Goto, pubVars, cmdVars, mapVars, flagVars, lockVars, dcVars
<1>11. CASE LockNeed
  BY <1>11 DEF LockNeed, Goto, pubVars, cmdVars, mapVars, flagVars, lockVars, dcVars
<1>12. CASE MarkDone
  BY <1>12 DEF MarkDone, Goto, pubVars, cmdVars, mapVars, flagVars, lockVars, dcVars
<1>13. CASE Answer
  BY <1>13 DEF Answer, Goto, pubVars, cmdVars, mapVars, flagVars, lockVars, dcVars
<1>14. CASE AnswerFails
  BY <1>14 DEF AnswerFails, Fails, Goto, pubVars, cmdVars, mapVars, flagVars, lockVars, dcVars
<1>15. ASSUME NEW t \in Tasks, Fetch(t) PROVE LockInv'
  BY <1>15 DEF Fetch, Goto, pubVars, cmdVars, mapVars, flagVars, lockVars, dcVars
<1>16. ASSUME NEW t \in Tasks, FetchFails(t) PROVE LockInv'
  BY <1>16 DEF FetchFails, Fails, AfterUpdate, Goto, pubVars, cmdVars, mapVars, flagVars, lockVars, dcVars
<1>17. ASSUME NEW t \in Tasks, Apply(t) PROVE LockInv'
  BY <1>17 DEF Apply, Install, AfterUpdate, Goto, pubVars, cmdVars, mapVars, flagVars, lockVars, dcVars
<1>18. ASSUME NEW t \in Tasks, ApplyFails(t) PROVE LockInv'
  BY <1>18 DEF ApplyFails, Fails, Install, AfterUpdate, Goto, pubVars, cmdVars, mapVars, flagVars, lockVars, dcVars
<1>19. ASSUME NEW t \in Tasks, SendOffer(t) PROVE LockInv'
  BY <1>19 DEF SendOffer, LeaveBlock, Goto, pubVars, cmdVars, mapVars, flagVars, lockVars, dcVars
<1>20. ASSUME NEW t \in Tasks, SendOfferFails(t) PROVE LockInv'
  BY <1>20 DEF SendOfferFails, Fails, LeaveBlock, Goto, pubVars, cmdVars, mapVars, flagVars, lockVars, dcVars
<1>21. CASE UNCHANGED vars
  BY <1>21 DEF vars, pubVars, cmdVars, mapVars, flagVars, lockVars, dcVars
<1>22. ASSUME NEW t \in Tasks, Update(t) PROVE LockInv'
  BY <1>15, <1>16, <1>17, <1>18, <1>19, <1>20, <1>22 DEF Update
<1> QED
  <2>1. CASE Publishers
    BY <2>1, <1>1, <1>2, <1>3 DEF Publishers, AnnounceJoin, AnnounceLeave
  <2>2. CASE Commands
    BY <2>2, <1>4 DEF Commands
  <2>3. CASE Loop
    BY <2>3, <1>5, <1>6, <1>7, <1>8, <1>9, <1>22 DEF Loop, Tasks
  <2>4. CASE Handler
    BY <2>4, <1>10, <1>11, <1>12, <1>22 DEF Handler, Tasks
  <2>5. CASE Browser
    BY <2>5, <1>13, <1>14 DEF Browser
  <2> QED
    BY <2>1, <2>2, <2>3, <2>4, <2>5, <1>21 DEF Next

\* Sequences of one element.
LEMMA OneElement ==
    ASSUME NEW x
    PROVE  /\ Append(<<>>, x) = <<x>> /\ <<x>> # <<>>
           /\ Head(<<x>>) = x /\ Tail(<<x>>) = <<>>
           /\ Len(<<x>>) = 1 /\ Len(<<>>) = 0
OBVIOUS

\* No step breaks the account of where the one offer or answer is.
LEMMA RoundNext ==
    ASSUME PcType, toServer \in Nat, LockInv, RoundInv, [Next]_vars
    PROVE  RoundInv'
<1> USE DEF RoundInv, LockInv, PcType, Tasks, Free, Updating
<1>1. ASSUME NEW u \in Users, NEW k \in Kinds, AddTrack(u, k) PROVE RoundInv'
  BY <1>1 DEF AddTrack, cmdVars, mapVars, flagVars, lockVars, dcVars
<1>2. ASSUME NEW u \in Users, NEW from, NEW to, Announce(u, from, to) PROVE RoundInv'
  BY <1>2 DEF Announce, mapVars, flagVars, lockVars, dcVars
<1>3. ASSUME NEW u \in Users, NEW k \in Kinds, RemoveMedia(u, k) PROVE RoundInv'
  BY <1>3 DEF RemoveMedia, cmdVars, mapVars, flagVars, lockVars, dcVars
<1>4. ASSUME NEW u \in Users, Deliver(u) PROVE RoundInv'
  BY <1>4 DEF Deliver, pubVars, mapVars, flagVars, lockVars, dcVars
<1>5. CASE Open
  BY <1>5 DEF Open, Goto, pubVars, cmdVars, mapVars, flagVars, lockVars, dcVars
<1>6. CASE Recv
  BY <1>6 DEF Recv, Goto, pubVars, cmdVars, mapVars, flagVars, lockVars, dcVars
<1>7. CASE SendNotice
  BY <1>7 DEF SendNotice, Fails, Goto, pubVars, cmdVars, mapVars, flagVars, lockVars, dcVars
<1>8. CASE LockDoing
  BY <1>8 DEF LockDoing, Goto, pubVars, cmdVars, mapVars, flagVars, lockVars, dcVars
<1>9. CASE MarkNeed
  BY <1>9 DEF MarkNeed, LeaveBlock, Goto, pubVars, cmdVars, mapVars, flagVars, lockVars, dcVars
<1>10. CASE SetRemote
  BY <1>10 DEF SetRemote, Fails, Goto, pubVars, cmdVars, mapVars, flagVars, lockVars, dcVars
<1>11. CASE LockNeed
  BY <1>11 DEF LockNeed, Goto, pubVars, cmdVars, mapVars, flagVars, lockVars, dcVars
<1>12. CASE MarkDone
  BY <1>12 DEF MarkDone, Goto, pubVars, cmdVars, mapVars, flagVars, lockVars, dcVars
<1>13. CASE Answer
  <2>1. toClient = <<carried>> /\ toServer = 0 /\ doing /\ pc["handler"] = "idle"
    BY <1>13 DEF Answer
  <2>2. toClient' = <<>> /\ toServer' = 1
    BY <1>13, <2>1, OneElement DEF Answer
  <2>3. UNCHANGED <<carried, doing, pc>>
    BY <1>13 DEF Answer, mapVars, flagVars
  <2> QED
    BY <2>1, <2>2, <2>3
<1>14. CASE AnswerFails
  BY <1>14, OneElement DEF AnswerFails, Fails, Goto, pubVars, cmdVars, mapVars, flagVars, lockVars, dcVars
<1>15. ASSUME NEW t \in Tasks, Fetch(t) PROVE RoundInv'
  BY <1>15 DEF Fetch, Goto, pubVars, cmdVars, mapVars, flagVars, lockVars, dcVars
<1>16. ASSUME NEW t \in Tasks, FetchFails(t) PROVE RoundInv'
  BY <1>16 DEF FetchFails, Fails, AfterUpdate, Goto, pubVars, cmdVars, mapVars, flagVars, lockVars, dcVars
<1>17. ASSUME NEW t \in Tasks, Apply(t) PROVE RoundInv'
  BY <1>17 DEF Apply, Install, AfterUpdate, Goto, pubVars, cmdVars, mapVars, flagVars, lockVars, dcVars
<1>18. ASSUME NEW t \in Tasks, ApplyFails(t) PROVE RoundInv'
  BY <1>18 DEF ApplyFails, Fails, Install, AfterUpdate, Goto, pubVars, cmdVars, mapVars, flagVars, lockVars, dcVars
<1>19. ASSUME NEW t \in Tasks, SendOffer(t) PROVE RoundInv'
  <2>1. toClient = <<>> /\ toServer = 0 /\ doing
    BY <1>19 DEF SendOffer
  <2>2. toClient' = <<carried>> /\ toServer' = 0
    BY <1>19, <2>1, OneElement DEF SendOffer
  <2>3. carried' = carried /\ doing' = doing
    BY <1>19 DEF SendOffer, mapVars, flagVars
  <2>4. CASE t = "loop"
    <3>1. pc["handler"] = "idle" /\ pc'["handler"] = "idle"
      BY <1>19, <2>4 DEF SendOffer, LeaveBlock, Goto
    <3>2. pc'["loop"] \in {"select", "left"}
      BY <1>19, <2>4 DEF SendOffer, LeaveBlock, Goto
    <3> QED
      BY <2>1, <2>2, <2>3, <3>1, <3>2
  <2>5. CASE t = "handler"
    <3>1. pc'["handler"] = "idle" /\ pc'["loop"] = pc["loop"]
      BY <1>19, <2>5 DEF SendOffer, LeaveBlock, Goto
    <3>2. ~Updating("loop") /\ pc["loop"] # "start"
      BY <1>19, <2>1, <2>5 DEF SendOffer
    <3> QED
      BY <2>1, <2>2, <2>3, <3>1, <3>2
  <2> QED
    BY <2>4, <2>5
<1>20. ASSUME NEW t \in Tasks, SendOfferFails(t) PROVE RoundInv'
  BY <1>20 DEF SendOfferFails, Fails, LeaveBlock, Goto, pubVars, cmdVars, mapVars, flagVars, lockVars, dcVars
<1>21. CASE UNCHANGED vars
  BY <1>21 DEF vars, pubVars, cmdVars, mapVars, flagVars, lockVars, dcVars
<1>22. ASSUME NEW t \in Tasks, Update(t) PROVE RoundInv'
  BY <1>15, <1>16, <1>17, <1>18, <1>19, <1>20, <1>22 DEF Update
<1> QED
  <2>1. CASE Publishers
    BY <2>1, <1>1, <1>2, <1>3 DEF Publishers, AnnounceJoin, AnnounceLeave
  <2>2. CASE Commands
    BY <2>2, <1>4 DEF Commands
  <2>3. CASE Loop
    BY <2>3, <1>5, <1>6, <1>7, <1>8, <1>9, <1>22 DEF Loop, Tasks
  <2>4. CASE Handler
    BY <2>4, <1>10, <1>11, <1>12, <1>22 DEF Handler, Tasks
  <2>5. CASE Browser
    BY <2>5, <1>13, <1>14 DEF Browser
  <2> QED
    BY <2>1, <2>2, <2>3, <2>4, <2>5, <1>21 DEF Next

CoreInv == TypeOK /\ LockInv /\ RoundInv

\* The types and the two accounts hold at the start,
LEMMA CoreInit == Init => CoreInv
<1> SUFFICES ASSUME Init PROVE CoreInv
  OBVIOUS
<1>1. TypeOK
  BY TypeInit
<1>2. pc["loop"] = "start" /\ pc["handler"] = "idle"
  BY DEF Init, Tasks
<1> QED
  BY <1>1, <1>2 DEF Init, CoreInv, LockInv, RoundInv, Free, Updating

\* and every step keeps the three of them together.
LEMMA CoreNext == CoreInv /\ [Next]_vars => CoreInv'
<1> SUFFICES ASSUME CoreInv, [Next]_vars PROVE CoreInv'
  OBVIOUS
<1>1. TypeOK /\ LockInv /\ RoundInv
  BY DEF CoreInv
<1>2. PcType /\ toServer \in Nat
  BY <1>1 DEF TypeOK, PcType
<1> QED
  BY <1>1, <1>2, TypeNext, LockNext, RoundNext DEF CoreInv

\* The flags, the data channel and the two tasks agree in every behaviour on whose
\* turn it is: the part of the invariant the other theorems rest on.
THEOREM CoreInvariant == Spec => []CoreInv
  BY CoreInit, CoreNext, PTL DEF Spec

\* Whatever fails, and for any number of publishers, the two tasks are never
\* both in an update, and never is there more than one offer or answer.
THEOREM RoundsNeverOverlap == Spec => []OneRound
<1>1. CoreInv => OneRound
  <2> SUFFICES ASSUME CoreInv PROVE OneRound
    OBVIOUS
  <2>1. RoundInv /\ toServer \in Nat /\ toClient \in Seq(SUBSET Track)
    BY DEF CoreInv, TypeOK
  <2>2. ~(Updating("loop") /\ Updating("handler"))
    BY <2>1 DEF RoundInv, Updating
  <2>3. CASE toClient # <<>>
    <3>1. Len(toClient) = 1 /\ toServer = 0 /\ doing /\ pc["handler"] = "idle"
      BY <2>1, <2>3, OneElement DEF RoundInv
    <3>2. ~Updating("loop")
      BY <2>1, <2>3 DEF RoundInv
    <3> QED
      BY <2>2, <3>1, <3>2 DEF OneRound
  <2>4. CASE toClient = <<>>
    <3>1. Len(toClient) = 0
      BY <2>4, OneElement
    <3>2. toServer \in {0, 1}
      BY <2>1 DEF RoundInv
    <3>3. toServer = 1 => doing /\ pc["handler"] = "idle" /\ ~Updating("loop")
      BY <2>1 DEF RoundInv
    <3> QED
      BY <2>2, <3>1, <3>2, <3>3 DEF OneRound
  <2> QED
    BY <2>3, <2>4
<1> QED
  BY <1>1, CoreInvariant, PTL

-----------------------------------------------------------------------------
(* Nothing is lost as long as nothing fails. *)

\* An update in which nothing fails leaves the two maps and the connection equal.
LEMMA UpdateAgrees ==
    ASSUME NEW ts, NEW m
    PROVE  LET done == UpdateDone(ts, ts, ts, m)
           IN  done.tracks = done.senders /\ done.senders = done.carried
BY DEF UpdateDone, Updated

\* No step makes the maps disagree while nothing has failed.
LEMMA NoFaultNext ==
    ASSUME TypeOK, LockInv, RoundInv, NoFaultInv, [Next]_vars
    PROVE  NoFaultInv'
<1> PcType /\ toServer \in Nat
  BY DEF TypeOK, PcType
<1> USE DEF NoFaultInv, RoundInv, LockInv, PcType, Tasks, Free, Updating, RoundOut
<1>1. ASSUME NEW u \in Users, NEW k \in Kinds, AddTrack(u, k) PROVE NoFaultInv'
  BY <1>1 DEF AddTrack, cmdVars, mapVars, flagVars, lockVars, dcVars
<1>2. ASSUME NEW u \in Users, NEW from, NEW to, Announce(u, from, to) PROVE NoFaultInv'
  BY <1>2 DEF Announce, mapVars, flagVars, lockVars, dcVars
<1>3. ASSUME NEW u \in Users, NEW k \in Kinds, RemoveMedia(u, k) PROVE NoFaultInv'
  BY <1>3 DEF RemoveMedia, cmdVars, mapVars, flagVars, lockVars, dcVars
<1>4. ASSUME NEW u \in Users, Deliver(u) PROVE NoFaultInv'
  BY <1>4 DEF Deliver, pubVars, mapVars, flagVars, lockVars, dcVars
<1>5. CASE Open
  BY <1>5 DEF Open, Goto, pubVars, cmdVars, mapVars, flagVars, lockVars, dcVars
<1>6. CASE Recv
  BY <1>6 DEF Recv, Goto, pubVars, cmdVars, mapVars, flagVars, lockVars, dcVars
<1>7. CASE SendNotice
  BY <1>7 DEF SendNotice, Fails, Goto, pubVars, cmdVars, mapVars, flagVars, lockVars, dcVars
<1>8. CASE LockDoing
  BY <1>8 DEF LockDoing, Goto, pubVars, cmdVars, mapVars, flagVars, lockVars, dcVars
<1>9. CASE MarkNeed
  BY <1>9 DEF MarkNeed, LeaveBlock, Goto, pubVars, cmdVars, mapVars, flagVars, lockVars, dcVars
<1>10. CASE SetRemote
  BY <1>10 DEF SetRemote, Fails, Goto, pubVars, cmdVars, mapVars, flagVars, lockVars, dcVars
<1>11. CASE LockNeed
  BY <1>11 DEF LockNeed, Goto, pubVars, cmdVars, mapVars, flagVars, lockVars, dcVars
<1>12. CASE MarkDone
  BY <1>12 DEF MarkDone, Goto, pubVars, cmdVars, mapVars, flagVars, lockVars, dcVars
<1>13. CASE Answer
  BY <1>13, OneElement DEF Answer, Goto, pubVars, cmdVars, mapVars, flagVars, lockVars, dcVars
<1>14. CASE AnswerFails
  BY <1>14, OneElement DEF AnswerFails, Fails, Goto, pubVars, cmdVars, mapVars, flagVars, lockVars, dcVars
<1>15. ASSUME NEW t \in Tasks, Fetch(t) PROVE NoFaultInv'
  BY <1>15 DEF Fetch, Goto, pubVars, cmdVars, mapVars, flagVars, lockVars, dcVars
<1>16. ASSUME NEW t \in Tasks, FetchFails(t) PROVE NoFaultInv'
  BY <1>16 DEF FetchFails, Fails, AfterUpdate, Goto, pubVars, cmdVars, mapVars, flagVars, lockVars, dcVars
<1>17. ASSUME NEW t \in Tasks, Apply(t) PROVE NoFaultInv'
  BY <1>17, UpdateAgrees DEF Apply, Install, AfterUpdate, Goto, pubVars, cmdVars, mapVars, flagVars, lockVars, dcVars
<1>18. ASSUME NEW t \in Tasks, ApplyFails(t) PROVE NoFaultInv'
  BY <1>18 DEF ApplyFails, Fails, Install, AfterUpdate, Goto, pubVars, cmdVars, mapVars, flagVars, lockVars, dcVars
<1>19. ASSUME NEW t \in Tasks, SendOffer(t) PROVE NoFaultInv'
  BY <1>19, OneElement DEF SendOffer, LeaveBlock, Goto, pubVars, cmdVars, mapVars, flagVars, lockVars, dcVars
<1>20. ASSUME NEW t \in Tasks, SendOfferFails(t) PROVE NoFaultInv'
  BY <1>20 DEF SendOfferFails, Fails, LeaveBlock, Goto, pubVars, cmdVars, mapVars, flagVars, lockVars, dcVars
<1>21. CASE UNCHANGED vars
  BY <1>21 DEF vars, pubVars, cmdVars, mapVars, flagVars, lockVars, dcVars
<1>22. ASSUME NEW t \in Tasks, Update(t) PROVE NoFaultInv'
  BY <1>15, <1>16, <1>17, <1>18, <1>19, <1>20, <1>22 DEF Update
<1> QED
  <2>1. CASE Publishers
    BY <2>1, <1>1, <1>2, <1>3 DEF Publishers, AnnounceJoin, AnnounceLeave
  <2>2. CASE Commands
    BY <2>2, <1>4 DEF Commands
  <2>3. CASE Loop
    BY <2>3, <1>5, <1>6, <1>7, <1>8, <1>9, <1>22 DEF Loop, Tasks
  <2>4. CASE Handler
    BY <2>4, <1>10, <1>11, <1>12, <1>22 DEF Handler, Tasks
  <2>5. CASE Browser
    BY <2>5, <1>13, <1>14 DEF Browser
  <2> QED
    BY <2>1, <2>2, <2>3, <2>4, <2>5, <1>21 DEF Next

\* After an undisturbed update the connection serves every other user.
LEMMA UpdateServes ==
    ASSUME NEW ts \in SUBSET Track, NEW m \in Media, NEW u \in Users \ Own
    PROVE  Serves(UpdateDone(ts, ts, ts, m).carried, m, u)
<1> DEFINE gone == Gone(ts, m)
           done == UpdateDone(ts, ts, ts, m).carried
<1>1. done = (ts \ gone) \union Missing(ts \ gone, m)
  BY DEF UpdateDone, Updated, ToAdd
<1>2. ASSUME NEW t \in Track, t[1] = u, t[3] < m[StreamOf(t)] PROVE t \in done
  BY <1>1, <1>2 DEF Missing
<1>3. ASSUME NEW t \in Track, t[1] = u, t \in done PROVE m[StreamOf(t)] > 0
  <2>1. m[StreamOf(t)] \in Nat
    BY TrackType, TracksAssumption DEF Media
  <2>2. t[3] \in Nat
    BY TrackType
  <2>3. CASE t \in ts \ gone
    BY <2>1, <2>3 DEF Gone
  <2>4. CASE t \in Missing(ts \ gone, m)
    BY <2>1, <2>2, <2>4 DEF Missing
  <2> QED
    BY <1>1, <1>3, <2>3, <2>4
<1> QED
  BY <1>2, <1>3 DEF Serves

\* Where the maps agree, an undisturbed update leaves the tracks the room has and, of those
\* it had, the ones of a kind that their user still publishes, fewer of ("case4: (not cover
\* yet)"); doing it again for the same room, as when several commands tell of one change,
\* does nothing.
THEOREM UpdateIsExact ==
    ASSUME NEW ts \in SUBSET Track, NEW m \in Media
    PROVE  LET done == UpdateDone(ts, ts, ts, m)
           IN  /\ done.carried =
                   {t \in Track : t[3] < m[StreamOf(t)] \/ (t \in ts /\ m[StreamOf(t)] > 0)}
               /\ UpdateDone(done.tracks, done.senders, done.carried, m) = done
<1> DEFINE has(t)  == t[3] < m[StreamOf(t)]
           after   == {t \in Track : has(t) \/ (t \in ts /\ m[StreamOf(t)] > 0)}
<1>1. \A t \in Track : m[StreamOf(t)] \in Nat /\ t[3] \in Nat /\ (has(t) => m[StreamOf(t)] > 0)
  <2> SUFFICES ASSUME NEW t \in Track
               PROVE  m[StreamOf(t)] \in Nat /\ t[3] \in Nat /\ (has(t) => m[StreamOf(t)] > 0)
    OBVIOUS
  <2>1. m[StreamOf(t)] \in Nat /\ t[3] \in Nat
    BY TrackType, TracksAssumption DEF Media
  <2> QED
    BY <2>1
<1>2. \A s \in SUBSET Track :
          (s \ Gone(s, m)) \union ToAdd(s, s, m) =
              {t \in Track : has(t) \/ (t \in s /\ m[StreamOf(t)] > 0)}
  <2> SUFFICES ASSUME NEW s \in SUBSET Track, NEW t \in Track
               PROVE  t \in (s \ Gone(s, m)) \union ToAdd(s, s, m) <=>
                          has(t) \/ (t \in s /\ m[StreamOf(t)] > 0)
    BY DEF ToAdd, Missing
  <2> QED
    BY <1>1 DEF Gone, ToAdd, Missing
<1>3. \A s \in SUBSET Track :
          UpdateDone(s, s, s, m) =
              LET new == (s \ Gone(s, m)) \union ToAdd(s, s, m)
              IN  [tracks |-> new, senders |-> new, carried |-> new]
  BY DEF UpdateDone, Updated
<1>4. UpdateDone(ts, ts, ts, m) = [tracks |-> after, senders |-> after, carried |-> after]
  BY <1>2, <1>3
<1>5. UpdateDone(after, after, after, m) = [tracks |-> after, senders |-> after, carried |-> after]
  <2>1. {t \in Track : has(t) \/ (t \in after /\ m[StreamOf(t)] > 0)} = after
    BY <1>1
  <2>2. after \in SUBSET Track
    OBVIOUS
  <2> QED
    BY <1>2, <1>3, <2>1, <2>2
<1> QED
  BY <1>4, <1>5

\* Whether a user is served depends on that user's streams only.
LEMMA ServesLocal ==
    ASSUME NEW ts, NEW m1, NEW m2, NEW u,
           \A k \in Kinds : m1[<<u, k>>] = m2[<<u, k>>],
           Serves(ts, m1, u)
    PROVE  Serves(ts, m2, u)
<1>1. ASSUME NEW t \in Track, t[1] = u PROVE m1[StreamOf(t)] = m2[StreamOf(t)]
  BY <1>1 DEF Track, StreamOf
<1> QED
  BY <1>1 DEF Serves

\* A look finds the room as it is.
LEMMA FetchLooks ==
    ASSUME CoreInv, NoFaultInv, ~faulted, NEW t \in Tasks, Fetch(t)
    PROVE  /\ ~faulted' /\ media' = media /\ pubs' = pubs
           /\ RefreshDue
           /\ Prospect' = UpdateDone(carried, carried, carried, media).carried
<1> TypeOK /\ RoundInv /\ PcType
  BY DEF CoreInv, TypeOK, PcType
<1>1. tracks = senders /\ senders = carried
  BY DEF NoFaultInv
<1>2. UNCHANGED <<carried, tracks, senders, media, pubs, faulted>>
  BY DEF Fetch, mapVars, pubVars
<1>3. snap'[t] = media /\ pc[t] = "fetch" /\ pc'[t] = "apply"
  BY DEF Fetch, Goto, TypeOK
<1>4. t = "handler" => pc'["loop"] # "apply"
  BY DEF Fetch, Goto, PcType, RoundInv, Updating, Tasks
<1>5. Prospect' = UpdateDone(carried, carried, carried, media).carried
  BY <1>1, <1>2, <1>3, <1>4 DEF Prospect, Tasks
<1>6. RefreshDue
  BY <1>3 DEF RefreshDue, Tasks
<1> QED
  BY <1>2, <1>5, <1>6

\* Apart from a look, no step of the commands, the tasks or the browser changes what
\* the subscriber is about to have, or forgets that a look is due.
LEMMA QuietStep ==
    ASSUME CoreInv, NoFaultInv, ~faulted',
           Commands \/ Loop \/ Handler \/ Browser \/ UNCHANGED vars,
           \A t \in Tasks : ~Fetch(t)
    PROVE  /\ ~faulted /\ pubs' = pubs /\ media' = media
           /\ Prospect' = Prospect
           /\ RefreshDue => RefreshDue'
<1> DEFINE Goal == /\ ~faulted /\ pubs' = pubs /\ media' = media
                   /\ Prospect' = Prospect
                   /\ RefreshDue => RefreshDue'
<1> TypeOK /\ LockInv /\ RoundInv /\ PcType
  BY DEF CoreInv, TypeOK, PcType
<1>1. ASSUME NEW u \in Users, Deliver(u) PROVE Goal
  <2>1. ~faulted /\ pubs' = pubs /\ media' = media /\ Prospect' = Prospect
    BY <1>1 DEF Deliver, Prospect, pubVars, mapVars
  <2>2. chan' = Append(chan, u)
    BY <1>1, <2>1 DEF Deliver, NoFaultInv
  <2>3. chan \in Seq(Users)
    BY DEF TypeOK
  <2>4. /\ Len(chan') = Len(chan) + 1
        /\ chan'[Len(chan) + 1] = u
        /\ \A i \in 1 .. Len(chan) : chan'[i] = chan[i]
    BY <2>2, <2>3
  <2>5. CASE u \notin Muted
    <3>1. Len(chan) + 1 \in 1 .. Len(chan')
      BY <2>3, <2>4
    <3>2. RefreshDue'
      BY <2>4, <2>5, <3>1 DEF RefreshDue
    <3> QED
      BY <2>1, <3>2
  <2>6. CASE u \in Muted
    <3>1. \A v \in Users \ Muted : inflight'[v] = inflight[v]
      BY <1>1, <2>6 DEF Deliver, TypeOK
    <3>2. \A i \in 1 .. Len(chan) : i \in 1 .. Len(chan')
      BY <2>3, <2>4
    <3>3. RefreshDue => RefreshDue'
      BY <1>1, <2>4, <3>1, <3>2 DEF Deliver, RefreshDue, flagVars
    <3> QED
      BY <2>1, <3>3
  <2> QED
    BY <2>5, <2>6
<1>2. CASE Open \/ SendNotice \/ LockDoing
  <2>1. ~faulted /\ UNCHANGED <<pubs, media, mapVars, snap>>
    BY <1>2 DEF Open, SendNotice, LockDoing, Fails, pubVars, mapVars
  <2>2. /\ pc'["handler"] = pc["handler"] /\ pc["loop"] # "apply"
        /\ pc'["loop"] \in {"fetch", "lock_doing", "lock_need"}
    BY <1>2 DEF Open, SendNotice, LockDoing, Goto, PcType, Tasks
  <2> QED
    BY <2>1, <2>2 DEF Prospect, RefreshDue, mapVars
<1>3. CASE Recv
  <2>1. ~faulted /\ pubs' = pubs /\ media' = media
    BY <1>3 DEF Recv, pubVars
  <2>2. /\ UNCHANGED <<mapVars, snap>> /\ pc["loop"] # "apply" /\ pc'["loop"] # "apply"
        /\ pc'["handler"] = pc["handler"]
    BY <1>3 DEF Recv, Goto, PcType, Tasks
  <2>3. Prospect' = Prospect
    BY <2>2 DEF Prospect, mapVars
  <2>4. CASE Head(chan) \notin Muted
    <3>1. RefreshDue'
      BY <1>3, <2>4 DEF Recv, Goto, RefreshDue, PcType, Tasks
    <3> QED
      BY <2>1, <2>3, <3>1
  <2>5. CASE Head(chan) \in Muted
    <3>1. pc' = pc
      BY <1>3, <2>5 DEF Recv, Goto, PcType, Tasks
    <3>2. chan \in Seq(Users) /\ chan # <<>> /\ chan' = Tail(chan) /\ chan[1] \in Muted
      BY <1>3, <2>5 DEF Recv, TypeOK
    <3>3. ASSUME NEW i \in 1 .. Len(chan), chan[i] \notin Muted
          PROVE  i - 1 \in 1 .. Len(chan') /\ chan'[i - 1] = chan[i]
      <4>1. i # 1
        BY <3>2, <3>3
      <4> QED
        BY <3>2, <3>3, <4>1
    <3>4. RefreshDue => RefreshDue'
      BY <1>3, <3>1, <3>3 DEF Recv, RefreshDue, flagVars
    <3> QED
      BY <2>1, <2>3, <3>4
  <2> QED
    BY <2>4, <2>5
<1>4. CASE MarkNeed
  <2>1. /\ need' /\ pc'["handler"] = pc["handler"] /\ needLock = Free
        /\ pc["loop"] # "apply" /\ pc'["loop"] # "apply"
    BY <1>4 DEF MarkNeed, LeaveBlock, Goto, PcType, Tasks
  <2>2. pc["handler"] # "apply"
    BY <2>1 DEF LockInv, Free
  <2>3. ~faulted /\ UNCHANGED <<pubs, media, mapVars, snap>>
    BY <1>4 DEF MarkNeed, pubVars, mapVars
  <2> QED
    BY <2>1, <2>2, <2>3 DEF RefreshDue, Prospect, mapVars
<1>5. CASE SetRemote \/ LockNeed \/ MarkDone
  <2>1. ~faulted /\ UNCHANGED <<pubVars, cmdVars, mapVars, snap, need>>
    BY <1>5 DEF SetRemote, LockNeed, MarkDone, Fails, flagVars
  <2>2. /\ pc'["loop"] = pc["loop"]
        /\ pc'["handler"] # "apply" /\ pc["handler"] \notin {"apply", "fetch"}
    BY <1>5 DEF SetRemote, LockNeed, MarkDone, Goto, PcType, Tasks
  <2> QED
    BY <2>1, <2>2 DEF Prospect, RefreshDue, pubVars, cmdVars, mapVars
<1>6. CASE Answer \/ UNCHANGED vars
  <2>1. UNCHANGED <<pubVars, cmdVars, mapVars, snap, flagVars, pc, faulted>>
    BY <1>6 DEF Answer, vars
  <2> QED
    BY <2>1 DEF Prospect, RefreshDue, pubVars, mapVars, cmdVars, flagVars
<1>7. ASSUME NEW t \in Tasks, Apply(t) PROVE Goal
  <2>1. carried' = UpdateDone(tracks, senders, carried, snap[t]).carried
    BY <1>7 DEF Apply, Install
  <2>2. t = "handler" => pc["loop"] # "apply"
    BY <1>7 DEF Apply, PcType, RoundInv, Updating
  <2>3. t = "loop" => pc["handler"] = "idle"
    BY <1>7 DEF Apply, RoundInv, Updating
  <2>4. pc'["loop"] # "apply" /\ pc'["handler"] # "apply"
    BY <1>7, <2>2, <2>3 DEF Apply, Goto, PcType, Tasks
  <2>5. Prospect' = Prospect
    BY <1>7, <2>1, <2>2, <2>4 DEF Apply, Prospect, Tasks
  <2>6. RefreshDue => RefreshDue'
    BY <1>7, <2>2, <2>3 DEF Apply, AfterUpdate, Goto, RefreshDue, PcType, Tasks, cmdVars
  <2> QED
    BY <1>7, <2>5, <2>6 DEF Apply, pubVars
<1>8. ASSUME NEW t \in Tasks, SendOffer(t) PROVE Goal
  <2>1. ~faulted /\ ~sendErr
    BY <1>8 DEF SendOffer, NoFaultInv
  <2>2. UNCHANGED <<chan, inflight, need, tracks, senders, carried, snap, pubs, media>>
    BY <1>8, <2>1 DEF SendOffer, LeaveBlock, flagVars, mapVars, pubVars
  <2>3. t = "loop" => pc["handler"] = "idle"
    BY <1>8 DEF SendOffer, RoundInv, Updating
  <2>4. Prospect' = Prospect
    BY <1>8, <2>2 DEF SendOffer, LeaveBlock, Goto, Prospect, PcType, Tasks
  <2>5. RefreshDue => RefreshDue'
    BY <1>8, <2>1, <2>2, <2>3 DEF SendOffer, LeaveBlock, Goto, RefreshDue, PcType, Tasks
  <2> QED
    BY <2>1, <2>2, <2>4, <2>5
<1>9. ASSUME NEW t \in Tasks, Update(t) PROVE Goal
  <2>1. ~FetchFails(t) /\ ~ApplyFails(t) /\ ~SendOfferFails(t)
    BY DEF FetchFails, ApplyFails, SendOfferFails, Fails
  <2> QED
    BY <1>7, <1>8, <1>9, <2>1 DEF Update
<1>10. ~AnswerFails
  BY DEF AnswerFails, Fails
<1> HIDE DEF Goal
<1>11. Goal
  <2>1. CASE Commands
    BY <2>1, <1>1 DEF Commands, Goal
  <2>2. CASE Loop
    BY <2>2, <1>2, <1>3, <1>4, <1>9 DEF Loop, Tasks, Goal
  <2>3. CASE Handler
    BY <2>3, <1>5, <1>9 DEF Handler, Tasks, Goal
  <2>4. CASE Browser
    BY <2>4, <1>6, <1>10 DEF Browser, Goal
  <2> QED
    BY <2>1, <2>2, <2>3, <2>4, <1>6 DEF Goal
<1> QED
  BY <1>11 DEF Goal

\* A publisher's steps change nothing of the subscriber; an announcement makes a
\* look due.
LEMMA PublisherStep ==
    ASSUME CoreInv, NEW u \in Users,
           \/ \E k \in Kinds : AddTrack(u, k) \/ RemoveMedia(u, k)
           \/ AnnounceJoin(u) \/ AnnounceLeave(u)
    PROVE  /\ faulted' = faulted /\ Prospect' = Prospect
           /\ RefreshDue => RefreshDue'
           /\ \A w \in Users \ {u} : pubs'[w] = pubs[w]
           /\ \A w \in Users \ {u}, k \in Kinds : media'[<<w, k>>] = media[<<w, k>>]
           /\ \/ pubs'[u] \in {"joining", "leaving"}
              \/ /\ media' = media
                 /\ u \notin Muted => RefreshDue'
<1> TypeOK
  BY DEF CoreInv
<1>1. ASSUME NEW k \in Kinds, AddTrack(u, k) \/ RemoveMedia(u, k)
      PROVE  /\ faulted' = faulted /\ Prospect' = Prospect
             /\ RefreshDue => RefreshDue'
             /\ \A w \in Users \ {u} : pubs'[w] = pubs[w]
             /\ \A w \in Users \ {u}, j \in Kinds : media'[<<w, j>>] = media[<<w, j>>]
             /\ pubs'[u] \in {"joining", "leaving"}
  <2>1. /\ \A w \in Users \ {u} : pubs'[w] = pubs[w]
        /\ pubs'[u] \in {"joining", "leaving"}
    BY <1>1 DEF AddTrack, RemoveMedia, TypeOK
  <2>2. \A w \in Users \ {u}, j \in Kinds : media'[<<w, j>>] = media[<<w, j>>]
    BY <1>1 DEF AddTrack, RemoveMedia, TypeOK, Media, Stream
  <2>3. faulted' = faulted /\ Prospect' = Prospect
    BY <1>1 DEF AddTrack, RemoveMedia, Prospect, mapVars
  <2>4. RefreshDue => RefreshDue'
    BY <1>1 DEF AddTrack, RemoveMedia, RefreshDue, cmdVars, flagVars
  <2> QED
    BY <2>1, <2>2, <2>3, <2>4
<1>2. ASSUME NEW from, NEW to, Announce(u, from, to)
      PROVE  /\ faulted' = faulted /\ Prospect' = Prospect
             /\ RefreshDue => RefreshDue'
             /\ \A w \in Users \ {u} : pubs'[w] = pubs[w]
             /\ media' = media
             /\ u \notin Muted => RefreshDue'
  <2>1. \A w \in Users \ {u} : pubs'[w] = pubs[w]
    BY <1>2 DEF Announce, TypeOK
  <2>2. faulted' = faulted /\ Prospect' = Prospect /\ media' = media
    BY <1>2 DEF Announce, Prospect, mapVars
  <2>3. \A v \in Users : inflight[v] > 0 => inflight'[v] > 0
    BY <1>2 DEF Announce, TypeOK
  <2>4. inflight'[u] > 0
    BY <1>2 DEF Announce, TypeOK
  <2>5. (RefreshDue => RefreshDue') /\ (u \notin Muted => RefreshDue')
    BY <1>2, <2>3, <2>4 DEF Announce, RefreshDue, flagVars
  <2> QED
    BY <2>1, <2>2, <2>5
<1> QED
  BY <1>1, <1>2 DEF AnnounceJoin, AnnounceLeave

\* What a publisher changes in Redis tells the subscriber nothing yet.
LEMMA ChangeIsSilent ==
    ASSUME CoreInv, NEW u \in Users, pubs'[u] \in {"joining", "leaving"},
           \/ \E k \in Kinds : AddTrack(u, k) \/ RemoveMedia(u, k)
           \/ AnnounceJoin(u) \/ AnnounceLeave(u)
    PROVE  RefreshDue' = RefreshDue
<1>1. UNCHANGED <<cmdVars, flagVars, pc>>
  <2>1. ~AnnounceJoin(u) /\ ~AnnounceLeave(u)
    BY DEF AnnounceJoin, AnnounceLeave, Announce, CoreInv, TypeOK
  <2> QED
    BY <2>1 DEF AddTrack, RemoveMedia
<1> QED
  BY <1>1 DEF RefreshDue, cmdVars, flagVars

\* No step loses an announced change of the room.
LEMMA NoLostNext ==
    ASSUME CoreInv, NoFaultInv, NoLostUpdate, [Next]_vars
    PROVE  NoLostUpdate'
<1> SUFFICES ASSUME ~faulted', NEW w \in Users \ Own, pubs'[w] \in {"out", "live"}
             PROVE  Serves(Prospect', media', w) \/ RefreshDue'
  BY DEF NoLostUpdate
<1>1. w \notin Muted
  BY RenegotiationAssumption
<1>2. ASSUME ~faulted, pubs'[w] = pubs[w], RefreshDue => RefreshDue',
             Prospect' = Prospect, \A k \in Kinds : media'[<<w, k>>] = media[<<w, k>>]
      PROVE  Serves(Prospect', media', w) \/ RefreshDue'
  <2>1. CASE RefreshDue
    BY <1>2, <2>1
  <2>2. CASE Serves(Prospect, media, w)
    BY <1>2, <2>2, ServesLocal
  <2> QED
    BY <1>2, <2>1, <2>2 DEF NoLostUpdate
<1>3. CASE Publishers
  <2>1. PICK u \in Users : \/ \E k \in Kinds : AddTrack(u, k) \/ RemoveMedia(u, k)
                           \/ AnnounceJoin(u) \/ AnnounceLeave(u)
    BY <1>3 DEF Publishers
  <2>2. CASE u = w
    BY <1>1, <2>1, <2>2, PublisherStep
  <2>3. CASE u # w
    BY <1>2, <2>1, <2>3, PublisherStep
  <2> QED
    BY <2>2, <2>3
<1>4. ASSUME NEW t \in Tasks, Fetch(t)
      PROVE  Serves(Prospect', media', w) \/ RefreshDue'
  <2>1. ~faulted
    BY <1>4 DEF Fetch
  <2>2. carried \in SUBSET Track /\ media \in Media
    BY DEF CoreInv, TypeOK
  <2> QED
    BY <1>4, <2>1, <2>2, FetchLooks, UpdateServes
<1>5. CASE ~Publishers /\ \A t \in Tasks : ~Fetch(t)
  BY <1>2, <1>5, QuietStep DEF Next
<1> QED
  BY <1>3, <1>4, <1>5

-----------------------------------------------------------------------------
(* The whole invariant, and what follows from it. *)

\* The whole invariant is inductive.
LEMMA Inductive == (Init => IInv) /\ (IInv /\ [Next]_vars => IInv')
<1>1. Init => IInv
  <2> SUFFICES ASSUME Init PROVE IInv
    OBVIOUS
  <2>1. CoreInv
    BY CoreInit
  <2>2. pc["loop"] = "start"
    BY DEF Init, Tasks
  <2>3. NoFaultInv
    BY <2>2 DEF Init, NoFaultInv
  <2>4. NoLostUpdate
    BY <2>2 DEF NoLostUpdate, RefreshDue
  <2> QED
    BY <2>1, <2>3, <2>4 DEF IInv, CoreInv
<1>2. IInv /\ [Next]_vars => IInv'
  BY CoreNext, NoFaultNext, NoLostNext DEF IInv, CoreInv
<1> QED
  BY <1>1, <1>2

\* The invariant holds in every behaviour.
THEOREM Invariant == Spec => []IInv
  BY Inductive, PTL DEF Spec

\* Whatever the publishers do meanwhile, a change that was announced is either
\* in the connection already or still bound to be looked at.
THEOREM NoUpdateIsLost == Spec => []NoLostUpdate
<1>1. IInv => NoLostUpdate
  BY DEF IInv
<1> QED
  BY <1>1, Invariant, PTL

\* A round on hold always has an answer to wait for.
THEOREM HeldRoundsAreAwaited == Spec => []HeldRoundIsAwaited
<1>1. IInv => HeldRoundIsAwaited
  <2> SUFFICES ASSUME IInv, ~faulted
               PROVE  /\ need => RoundOut /\ pc["handler"] # "lock_doing"
                      /\ pc["loop"] = "lock_need" => RoundOut
    BY DEF HeldRoundIsAwaited
  <2>1. pc["loop"] = "lock_need" => doing /\ ~Updating("loop")
    BY DEF IInv, RoundInv, Updating
  <2> QED
    BY <2>1 DEF IInv, NoFaultInv
<1> QED
  BY <1>1, Invariant, PTL

\* Without failures the maps of tracks and the peer connection never differ.
THEOREM MapsAlwaysAgree == Spec => []MapsAgree
<1>1. IInv => MapsAgree
  BY DEF IInv, NoFaultInv, MapsAgree
<1> QED
  BY <1>1, Invariant, PTL

-----------------------------------------------------------------------------
(* What the maps become of one another, whatever fails. *)

\* A track that got into rtp_tracks and not into rtp_senders stays so.
HalfAddedStay == [][tracks \ senders \subseteq tracks' \ senders']_vars

\* An update forgets only tracks that have senders, and adds only tracks it did not know.
LEMMA UpdateNests ==
    ASSUME NEW m, NEW stuck, NEW added \in SUBSET ToAdd(tracks, senders, m), NEW failed, NEW wired,
           Install(Updated(tracks, senders, carried, m, stuck, added, failed, wired))
    PROVE  /\ tracks \ senders \subseteq tracks' \ senders'
           /\ senders \subseteq tracks => senders' \subseteq tracks'
BY DEF Install, Updated, ToAdd, Missing, Gone

\* Only updates touch the maps.
LEMMA OthersKeepMaps ==
    ASSUME [Next]_vars, \A t \in Tasks : ~Apply(t) /\ ~ApplyFails(t)
    PROVE  UNCHANGED <<tracks, senders>>
<1>1. CASE Publishers
  BY <1>1 DEF Publishers, AddTrack, RemoveMedia, AnnounceJoin, AnnounceLeave, Announce, mapVars
<1>2. CASE Commands
  BY <1>2 DEF Commands, Deliver, mapVars
<1>3. CASE Open \/ Recv \/ SendNotice \/ LockDoing \/ MarkNeed
  BY <1>3 DEF Open, Recv, SendNotice, LockDoing, MarkNeed, mapVars
<1>4. CASE SetRemote \/ LockNeed \/ MarkDone
  BY <1>4 DEF SetRemote, LockNeed, MarkDone, mapVars
<1>5. ASSUME NEW t \in Tasks, Update(t)
      PROVE  UNCHANGED <<tracks, senders>>
  BY <1>5 DEF Update, Fetch, FetchFails, SendOffer, SendOfferFails, mapVars
<1>6. CASE Browser
  BY <1>6 DEF Browser, Answer, AnswerFails, mapVars
<1>7. CASE UNCHANGED vars
  BY <1>7 DEF vars, mapVars
<1> QED
  BY <1>1, <1>2, <1>3, <1>4, <1>5, <1>6, <1>7 DEF Next, Loop, Handler, Tasks

\* However an update goes, the maps stay nested.
LEMMA MapsNest ==
    ASSUME [Next]_vars
    PROVE  /\ tracks \ senders \subseteq tracks' \ senders'
           /\ senders \subseteq tracks => senders' \subseteq tracks'
<1>1. ASSUME NEW t \in Tasks, Apply(t)
      PROVE  /\ tracks \ senders \subseteq tracks' \ senders'
             /\ senders \subseteq tracks => senders' \subseteq tracks'
  BY <1>1, UpdateNests DEF Apply, UpdateDone
<1>2. ASSUME NEW t \in Tasks, ApplyFails(t)
      PROVE  /\ tracks \ senders \subseteq tracks' \ senders'
             /\ senders \subseteq tracks => senders' \subseteq tracks'
  <2>1. PICK maps \in UpdateBroken(tracks, senders, carried, snap[t]) : Install(maps)
    BY <1>2 DEF ApplyFails
  <2>2. \E added \in SUBSET ToAdd(tracks, senders, snap[t]) : \E stuck, failed, wired :
            maps = Updated(tracks, senders, carried, snap[t], stuck, added, failed, wired)
    BY DEF UpdateBroken
  <2> QED
    BY <2>1, <2>2, UpdateNests
<1>3. CASE \A t \in Tasks : ~Apply(t) /\ ~ApplyFails(t)
  BY <1>3, OthersKeepMaps
<1> QED
  BY <1>1, <1>2, <1>3

\* A track that an update failed to add, once rtp_tracks held its key, is never taken up by
\* a later update and never removed by one: neither the commands that follow nor the end of
\* its user's session bring it back to the subscriber (subscriber.rs, case 1 of
\* update_transceivers_based_on_room returns with `?' between the two insertions).
THEOREM HalfAddedForGood == Spec => HalfAddedStay
<1>1. [Next]_vars => [tracks \ senders \subseteq tracks' \ senders']_vars
  BY MapsNest
<1> QED
  BY <1>1, PTL DEF Spec, HalfAddedStay

\* What rtp_senders holds rtp_tracks does too, whatever fails, so that no update adds a
\* track for which there is a sender.
THEOREM SendersAreKnown == Spec => [](senders \subseteq tracks)
<1>1. Init => senders \subseteq tracks
  BY DEF Init
<1>2. senders \subseteq tracks /\ [Next]_vars => (senders \subseteq tracks)'
  BY MapsNest
<1> QED
  BY <1>1, <1>2, PTL DEF Spec

-----------------------------------------------------------------------------
(* What is left when the subscriber comes to rest. *)

\* A round is only put on hold behind one that is going on, and the handler does
\* not end that one without having looked; whatever fails.
NeedInv == need => doing /\ pc["handler"] # "lock_doing"

\* Between two offers the browser shows what the connection carries.
ShownInv ==
    ~faulted /\ toClient = <<>> /\ (\A t \in Tasks : pc[t] # "offer") =>
        shown = carried

\* No step loses track of a round that is on hold, or of what the browser was shown.
LEMMA RestNext ==
    ASSUME CoreInv, NeedInv, ShownInv, [Next]_vars
    PROVE  NeedInv' /\ ShownInv'
<1> PcType /\ LockInv /\ RoundInv
  BY DEF CoreInv, TypeOK, PcType
<1> DEFINE Goal == NeedInv' /\ ShownInv'
<1> USE DEF NeedInv, ShownInv, LockInv, PcType, Tasks, Free
<1>1. CASE Publishers \/ Commands \/ UNCHANGED vars
  <2>1. UNCHANGED <<need, doing, pc, shown, carried, toClient, faulted>>
    BY <1>1 DEF Publishers, AddTrack, AnnounceJoin, AnnounceLeave, Announce, RemoveMedia,
                Commands, Deliver, vars, mapVars, flagVars, dcVars
  <2> QED
    BY <2>1
<1>2. CASE Open
  BY <1>2 DEF Open, Goto, mapVars, dcVars
<1>3. CASE Recv
  BY <1>3 DEF Recv, Goto, mapVars, flagVars, dcVars
<1>4. CASE SendNotice
  BY <1>4 DEF SendNotice, Fails, Goto, mapVars, flagVars, dcVars
<1>5. CASE LockDoing
  BY <1>5 DEF LockDoing, Goto, mapVars, dcVars
<1>6. CASE MarkNeed
  BY <1>6 DEF MarkNeed, LeaveBlock, Goto, mapVars, dcVars, RoundInv
<1>7. CASE SetRemote
  BY <1>7 DEF SetRemote, Fails, Goto, mapVars, flagVars
<1>8. CASE LockNeed
  BY <1>8 DEF LockNeed, Goto, mapVars, flagVars, dcVars
<1>9. CASE MarkDone
  BY <1>9 DEF MarkDone, Goto, mapVars, dcVars
<1>10. CASE Answer
  <2>1. shown' = carried /\ UNCHANGED <<need, doing, pc, carried>>
    BY <1>10, OneElement DEF Answer, RoundInv, mapVars, flagVars
  <2> QED
    BY <2>1
<1>11. CASE AnswerFails
  BY <1>11 DEF AnswerFails, Fails, flagVars
<1>12. ASSUME NEW t \in Tasks, Fetch(t) PROVE Goal
  BY <1>12 DEF Fetch, Goto, mapVars, flagVars, dcVars
<1>13. ASSUME NEW t \in Tasks, FetchFails(t) PROVE Goal
  BY <1>13 DEF FetchFails, Fails, AfterUpdate, Goto
<1>14. ASSUME NEW t \in Tasks, Apply(t) PROVE Goal
  BY <1>14 DEF Apply, AfterUpdate, Goto
<1>15. ASSUME NEW t \in Tasks, ApplyFails(t) PROVE Goal
  BY <1>15 DEF ApplyFails, Fails, AfterUpdate, Goto
<1>16. ASSUME NEW t \in Tasks, SendOffer(t) PROVE Goal
  <2>1. toClient' # <<>>
    <3>1. toClient = <<>> /\ toClient' = Append(toClient, carried)
      BY <1>16 DEF SendOffer, RoundInv, Updating
    <3> QED
      BY <3>1, OneElement
  <2> QED
    BY <1>16, <2>1 DEF SendOffer, LeaveBlock, Goto, flagVars
<1>17. ASSUME NEW t \in Tasks, SendOfferFails(t) PROVE Goal
  BY <1>17 DEF SendOfferFails, Fails, LeaveBlock, Goto, flagVars
<1>18. ASSUME NEW t \in Tasks, Update(t) PROVE Goal
  BY <1>12, <1>13, <1>14, <1>15, <1>16, <1>17, <1>18 DEF Update
<1> QED
  <2>1. CASE Loop
    BY <2>1, <1>2, <1>3, <1>4, <1>5, <1>6, <1>18 DEF Loop
  <2>2. CASE Handler
    BY <2>2, <1>7, <1>8, <1>9, <1>18 DEF Handler
  <2>3. CASE Browser
    BY <2>3, <1>10, <1>11 DEF Browser
  <2> QED
    BY <2>1, <2>2, <2>3, <1>1 DEF Next

\* Where the two tasks can be when neither can go on: at their inputs, or at the
\* mutexes, each with the one the other asks for.
LEMMA RestPlaces ==
    ASSUME doingLock \in Tasks \union {Free}, needLock \in Tasks \union {Free},
           LockInv, RoundInv, AtRest, ~LockCycle
    PROVE  /\ pc["handler"] = "idle" /\ toServer = 0 /\ toClient = <<>>
           /\ \/ pc["loop"] = "select" /\ chan = <<>>
              \/ pc["loop"] = "left"
<1> USE DEF AtRest, LoopWaits, HandlerWaits, LockCycle, LockInv, RoundInv, Tasks, Free
<1>1. pc["handler"] # "lock_need"
  OBVIOUS
<1>2. pc["handler"] # "lock_doing"
  <2> SUFFICES ASSUME pc["handler"] = "lock_doing" PROVE FALSE
    OBVIOUS
  <2>1. doingLock = "loop" /\ pc["loop"] \in {"fetch", "apply", "offer", "lock_need"}
    OBVIOUS
  <2>2. pc["loop"] = "lock_need"
    BY <2>1
  <2> QED
    BY <2>1, <2>2
<1>3. pc["handler"] = "idle" /\ toServer = 0
  BY <1>1, <1>2
<1> QED
  BY <1>3

\* However commands, looks, offers and answers were interleaved, a subscriber at
\* which nothing more can happen has nothing left to do: unless its tasks wait for
\* each other or a round has failed, no round is marked, and without failures the
\* browser shows the room as it is.
THEOREM NothingIsLeftAtRest == Spec => []RestIsUpToDate
<1>1. Init => NeedInv /\ ShownInv
  BY DEF Init, NeedInv, ShownInv
<1>2. IInv /\ NeedInv /\ ShownInv => RestIsUpToDate
  <2> SUFFICES ASSUME IInv, NeedInv, ShownInv, AtRest, ~LockCycle,
                      ~(faulted /\ (Orphaned \/ pc["loop"] = "left"))
               PROVE  /\ ~doing /\ ~need
                      /\ ~faulted => \A u \in Users \ Own :
                            pubs[u] \in {"out", "live"} => Serves(shown, media, u)
    BY DEF RestIsUpToDate
  <2>1. /\ pc["handler"] = "idle" /\ toServer = 0 /\ toClient = <<>>
        /\ \/ pc["loop"] = "select" /\ chan = <<>>
           \/ pc["loop"] = "left"
    BY RestPlaces DEF IInv, TypeOK
  <2>2. ~RoundOut /\ ~Updating("loop") /\ ~Updating("handler")
    BY <2>1 DEF RoundOut, Updating
  <2>3. doing => Orphaned
    BY <2>2 DEF Orphaned
  <2>4. ~faulted => ~doing
    BY <2>2 DEF IInv, NoFaultInv
  <2>5. ~doing /\ ~need
    BY <2>3, <2>4 DEF NeedInv
  <2>6. ASSUME ~faulted, NEW u \in Users \ Own, pubs[u] \in {"out", "live"}
        PROVE  Serves(shown, media, u)
    <3>1. pc["loop"] = "select" /\ chan = <<>>
      BY <2>1, <2>6 DEF IInv, NoFaultInv
    <3>2. \A v \in Users : ~(inflight[v] > 0)
      <4>1. Len(chan) = 0 /\ ChanCap # 0
        BY <3>1, OneElement, RenegotiationAssumption
      <4> QED
        BY <4>1 DEF AtRest
    <3>3. ~RefreshDue
      <4>1. ~(\E i \in 1 .. Len(chan) : chan[i] \notin Muted)
        BY <3>1, OneElement
      <4> QED
        BY <2>1, <2>5, <3>1, <3>2, <4>1 DEF RefreshDue
    <3>4. shown = carried /\ Prospect = carried
      BY <2>1, <2>6, <3>1 DEF ShownInv, Prospect, Tasks
    <3> QED
      BY <2>6, <3>3, <3>4 DEF IInv, NoLostUpdate
  <2> QED
    BY <2>5, <2>6
<1>3. IInv => CoreInv
  BY DEF IInv, CoreInv
<1> QED
  BY <1>1, <1>2, <1>3, RestNext, Inductive, PTL DEF Spec

-----------------------------------------------------------------------------
(* Renegotiation implements OfferAnswer. *)

\* An undisturbed update leaves the streams of the room, and no other.
LEMMA UpdateStreams ==
    ASSUME NEW ts \in SUBSET Track, NEW m \in Media
    PROVE  StreamsOf(UpdateDone(ts, ts, ts, m).carried) = Wanted(m)
<1> DEFINE gone == Gone(ts, m)
           done == UpdateDone(ts, ts, ts, m).carried
<1>1. done = (ts \ gone) \union Missing(ts \ gone, m)
  BY DEF UpdateDone, Updated, ToAdd
<1>2. \A s \in Stream : m[s] \in Nat
  BY TracksAssumption DEF Media
<1>3. ASSUME NEW t \in done PROVE StreamOf(t) \in Wanted(m)
  <2>1. t \in Track
    BY <1>1 DEF Missing
  <2>2. StreamOf(t) \in Stream /\ StreamOf(t)[1] \notin Own /\ t[3] \in Nat
    BY <2>1, TrackType DEF StreamOf
  <2>3. m[StreamOf(t)] > 0
    <3>1. m[StreamOf(t)] \in Nat
      BY <1>2, <2>2
    <3>2. CASE t \in ts \ gone
      BY <3>1, <3>2 DEF Gone
    <3>3. CASE t \in Missing(ts \ gone, m)
      BY <2>2, <3>1, <3>3 DEF Missing
    <3> QED
      BY <1>1, <1>3, <3>2, <3>3
  <2> QED
    BY <2>2, <2>3 DEF Wanted
<1>4. ASSUME NEW s \in Wanted(m) PROVE \E t \in done : StreamOf(t) = s
  <2> DEFINE t == <<s[1], s[2], 0>>
  <2>1. s \in Stream /\ s[1] \notin Own /\ m[s] > 0
    BY DEF Wanted
  <2>2. t \in Track /\ StreamOf(t) = s /\ t[3] = 0
    BY <2>1, TracksAssumption DEF Track, Stream, StreamOf
  <2>3. t \in done
    BY <1>1, <2>1, <2>2 DEF Missing
  <2> QED
    BY <2>2, <2>3
<1> QED
  BY <1>3, <1>4 DEF StreamsOf

\* An update, disturbed or not, brings no stream that the room does not have.
LEMMA UpdatedStreams ==
    ASSUME NEW ts \in SUBSET Track, NEW sn \in SUBSET Track,
           NEW ca \in SUBSET Track, NEW m \in Media,
           NEW stuck, NEW added \in SUBSET ToAdd(ts, sn, m), NEW failed,
           NEW wired \in SUBSET ToAdd(ts, sn, m)
    PROVE  StreamsOf(Updated(ts, sn, ca, m, stuck, added, failed, wired).carried)
               \subseteq Wanted(m) \union StreamsOf(ca)
<1> DEFINE new == Updated(ts, sn, ca, m, stuck, added, failed, wired).carried
<1>1. new \subseteq ca \union ToAdd(ts, sn, m)
  BY DEF Updated
<1>2. ASSUME NEW t \in ToAdd(ts, sn, m) PROVE StreamOf(t) \in Wanted(m)
  <2>1. t \in Track /\ t[3] < m[StreamOf(t)]
    BY DEF ToAdd, Missing
  <2>2. StreamOf(t) \in Stream /\ StreamOf(t)[1] \notin Own /\ t[3] \in Nat
    BY <2>1, TrackType DEF StreamOf
  <2>3. m[StreamOf(t)] \in Nat
    BY <2>2, TracksAssumption DEF Media
  <2> QED
    BY <2>1, <2>2, <2>3 DEF Wanted
<1> QED
  BY <1>1, <1>2 DEF StreamsOf

\* The same of an update that fails in places.
LEMMA BrokenStreams ==
    ASSUME NEW ts \in SUBSET Track, NEW sn \in SUBSET Track,
           NEW ca \in SUBSET Track, NEW m \in Media,
           NEW maps \in UpdateBroken(ts, sn, ca, m)
    PROVE  StreamsOf(maps.carried) \subseteq Wanted(m) \union StreamsOf(ca)
<1> DEFINE todo == ToAdd(ts, sn, m)
<1>1. PICK c \in [stuck  : SUBSET Gone(sn, m), added  : SUBSET todo,
                  failed : {{}} \union {{t} : t \in todo},
                  wired  : {{}} \union {{t} : t \in todo}] :
          maps = Updated(ts, sn, ca, m, c.stuck, c.added, c.failed, c.wired)
  BY DEF UpdateBroken
<1>2. c.added \in SUBSET todo /\ c.wired \in SUBSET todo
  OBVIOUS
<1> QED
  BY <1>1, <1>2, UpdatedStreams

\* Only an instance in which operations may fail has a failed one.
FaultInv == faulted => Faults # {}

\* An operation fails only if the constants let it.
LEMMA FaultNext == FaultInv /\ [Next]_vars => FaultInv'
<1> SUFFICES ASSUME FaultInv, [Next]_vars, faulted', ~faulted PROVE Faults # {}
  BY DEF FaultInv
<1>1. \E f : Fails(f)
  <2>1. ASSUME NEW t \in Tasks, Update(t) PROVE \E f : Fails(f)
    BY <2>1 DEF Update, Fetch, FetchFails, Apply, ApplyFails, SendOffer, SendOfferFails
  <2>2. CASE Publishers \/ Commands \/ UNCHANGED vars
    BY <2>2 DEF Publishers, AddTrack, AnnounceJoin, AnnounceLeave, Announce, RemoveMedia,
                Commands, Deliver, vars
  <2>3. CASE Loop
    BY <2>1, <2>3 DEF Loop, Open, Recv, SendNotice, LockDoing, MarkNeed, Tasks
  <2>4. CASE Handler
    BY <2>1, <2>4 DEF Handler, SetRemote, LockNeed, MarkDone, Tasks
  <2>5. CASE Browser
    BY <2>5 DEF Browser, Answer, AnswerFails
  <2> QED
    BY <2>2, <2>3, <2>4, <2>5 DEF Next
<1> QED
  BY <1>1 DEF Fails

SameStages ==
    \A t \in Tasks : /\ pc'[t] = "apply" <=> pc[t] = "apply"
                     /\ pc'[t] = "offer" <=> pc[t] = "offer"

\* Every step is a step of OfferAnswer or leaves its variables alone.
LEMMA RoundStep ==
    ASSUME IInv, FaultInv, FaultInv', [Next]_vars
    PROVE  [Rounds!Next]_(Rounds!vars)
<1> DEFINE Goal == [Rounds!Next]_(Rounds!vars)
<1> TypeOK /\ LockInv /\ RoundInv /\ NoFaultInv /\ PcType
  BY DEF IInv, TypeOK, PcType
<1>a. ASSUME SameStages, UNCHANGED <<snap, carried, toClient, shown>>
      PROVE  UNCHANGED <<AbsPhase, AbsDraft, StreamsOf(carried), StreamsOf(shown)>>
  BY <1>a DEF SameStages, AbsPhase, AbsDraft, Tasks
<1>b. ASSUME SameStages, UNCHANGED <<media, snap, carried, toClient, shown>>
      PROVE  Goal
  BY <1>a, <1>b DEF Rounds!vars
<1>c. ASSUME UNCHANGED <<pc, snap, carried, toClient, shown>> PROVE Goal
  <2>1. UNCHANGED <<AbsPhase, AbsDraft, StreamsOf(carried), StreamsOf(shown)>>
    BY <1>a, <1>c DEF SameStages
  <2>2. Wanted(media') \in SUBSET Stream
    BY DEF Wanted
  <2> QED
    BY <2>1, <2>2 DEF Rounds!Next, Rounds!RoomChange
<1>1. CASE Publishers \/ Commands \/ UNCHANGED vars
  <2>1. UNCHANGED <<pc, snap, carried, toClient, shown>>
    BY <1>1 DEF Publishers, AddTrack, AnnounceJoin, AnnounceLeave, Announce, RemoveMedia,
                Commands, Deliver, vars, mapVars, dcVars
  <2> QED
    BY <1>c, <2>1
<1>2. CASE Open \/ Recv \/ SendNotice \/ LockDoing
  <2>1. UNCHANGED <<media, snap, carried, toClient, shown>>
    BY <1>2 DEF Open, Recv, SendNotice, LockDoing, pubVars, mapVars, dcVars
  <2>2. SameStages
    BY <1>2 DEF Open, Recv, SendNotice, LockDoing, Goto, SameStages, PcType, Tasks
  <2> QED
    BY <1>b, <2>1, <2>2
<1>3. CASE MarkNeed
  <2>1. UNCHANGED <<media, snap, carried, toClient, shown>>
    BY <1>3 DEF MarkNeed, pubVars, mapVars, dcVars
  <2>2. SameStages
    BY <1>3 DEF MarkNeed, LeaveBlock, Goto, SameStages, PcType, Tasks
  <2> QED
    BY <1>b, <2>1, <2>2
<1>4. CASE SetRemote \/ LockNeed \/ MarkDone
  <2>1. UNCHANGED <<media, snap, carried, toClient, shown>>
    BY <1>4 DEF SetRemote, LockNeed, MarkDone, pubVars, mapVars, dcVars
  <2>2. SameStages
    BY <1>4 DEF SetRemote, LockNeed, MarkDone, Goto, SameStages, PcType, Tasks
  <2> QED
    BY <1>b, <2>1, <2>2
<1>d. ASSUME toClient # <<>> PROVE AbsPhase = "offered" /\ AbsDraft = {}
  <2>1. \A t \in Tasks : pc[t] # "apply" /\ pc[t] # "offer"
    BY <1>d DEF RoundInv, Updating, Tasks
  <2> QED
    BY <1>d, <2>1 DEF AbsPhase, AbsDraft, Tasks
<1>5. CASE Answer
  <2>1. toClient = <<carried>>
    BY <1>5 DEF Answer, RoundInv
  <2>2. shown' = carried /\ toClient' = <<>> /\ UNCHANGED <<media, pc, snap, carried>>
    BY <1>5, <2>1, OneElement DEF Answer, pubVars, mapVars
  <2>3. AbsPhase = "offered" /\ AbsDraft = {}
    BY <1>5, <1>d DEF Answer
  <2>4. AbsPhase' = "open" /\ AbsDraft' = {}
    <3>1. \A t \in Tasks : pc[t] # "apply" /\ pc[t] # "offer"
      BY <1>5 DEF Answer, RoundInv, Updating, Tasks
    <3> QED
      BY <2>2, <3>1 DEF AbsPhase, AbsDraft, Tasks
  <2> QED
    BY <2>2, <2>3, <2>4 DEF Rounds!Next, Rounds!Accept
<1>6. CASE AnswerFails
  <2>1. toClient' = <<>> /\ UNCHANGED <<media, pc, snap, carried, shown>>
    BY <1>6, OneElement DEF AnswerFails, RoundInv, pubVars, mapVars
  <2>2. AbsPhase = "offered" /\ AbsDraft = {}
    BY <1>6, <1>d DEF AnswerFails
  <2>3. AbsPhase' = "open" /\ AbsDraft' = {}
    <3>1. \A t \in Tasks : pc[t] # "apply" /\ pc[t] # "offer"
      BY <1>6 DEF AnswerFails, RoundInv, Updating, Tasks
    <3> QED
      BY <2>1, <3>1 DEF AbsPhase, AbsDraft, Tasks
  <2>4. Faults # {}
    BY <1>6 DEF AnswerFails, Fails
  <2> QED
    BY <2>1, <2>2, <2>3, <2>4 DEF Rounds!Next, Rounds!Abandon
\* An update or an offer: the other task is in no such step, and none is out.
<1>e. ASSUME NEW t \in Tasks, Update(t)
      PROVE  /\ toClient = <<>>
             /\ \A r \in Tasks \ {t} : pc[r] \notin {"fetch", "apply", "offer"}
             /\ \A r \in Tasks \ {t} : pc'[r] = pc[r]
             /\ pc'[t] \in {"apply", "offer", "idle", "select", "left"}
  <2>1. pc[t] \in {"fetch", "apply", "offer"}
    BY <1>e DEF Update, Fetch, FetchFails, Apply, ApplyFails, SendOffer, SendOfferFails
  <2>2. /\ \A r \in Tasks \ {t} : pc'[r] = pc[r]
        /\ pc'[t] \in {"apply", "offer", "idle", "select", "left"}
    BY <1>e DEF Update, Fetch, FetchFails, Apply, ApplyFails, SendOffer, SendOfferFails,
                LeaveBlock, Goto, PcType, Tasks
  <2> QED
    BY <2>1, <2>2 DEF RoundInv, Updating, Tasks
<1>7. ASSUME NEW t \in Tasks, Fetch(t) PROVE Goal
  <2>1. Update(t)
    BY <1>7 DEF Update
  <2>2. UNCHANGED <<media, carried, toClient, shown>> /\ snap'[t] = media
    BY <1>7 DEF Fetch, pubVars, mapVars, dcVars, TypeOK
  <2>3. pc[t] = "fetch" /\ pc'[t] = "apply"
    BY <1>7 DEF Fetch, Goto, PcType
  <2>4. AbsPhase = "open"
    BY <1>e, <2>1, <2>3 DEF AbsPhase
  <2>5. AbsPhase' = "draft" /\ AbsDraft' = Wanted(media)
    BY <1>e, <2>1, <2>2, <2>3 DEF AbsPhase, AbsDraft, Tasks
  <2> QED
    BY <2>2, <2>4, <2>5 DEF Rounds!Next, Rounds!Begin
<1>8. ASSUME NEW t \in Tasks, FetchFails(t) PROVE Goal
  <2>1. Update(t)
    BY <1>8 DEF Update
  <2>2. UNCHANGED <<media, carried, toClient, shown>> /\ Faults # {}
    BY <1>8 DEF FetchFails, Fails, pubVars, mapVars, dcVars
  <2>3. pc[t] = "fetch" /\ pc'[t] = "offer"
    BY <1>8 DEF FetchFails, Goto, PcType
  <2>4. AbsPhase = "open" /\ AbsDraft = {}
    BY <1>e, <2>1, <2>3 DEF AbsPhase, AbsDraft, Tasks
  <2>5. AbsPhase' = "built" /\ AbsDraft' = {}
    BY <1>e, <2>1, <2>3 DEF AbsPhase, AbsDraft, Tasks
  <2> QED
    BY <2>2, <2>4, <2>5 DEF Rounds!Next, Rounds!BeginBlind
<1>9. ASSUME NEW t \in Tasks, Apply(t) \/ ApplyFails(t) PROVE Goal
  <2>1. Update(t)
    BY <1>9 DEF Update
  <2>2. UNCHANGED <<media, toClient, shown>>
    BY <1>9 DEF Apply, ApplyFails, pubVars, dcVars
  <2>3. pc[t] = "apply" /\ pc'[t] = "offer"
    BY <1>9 DEF Apply, ApplyFails, Goto, PcType
  <2>4. AbsPhase = "draft" /\ AbsDraft = Wanted(snap[t])
    BY <1>e, <2>1, <2>3 DEF AbsPhase, AbsDraft, Tasks
  <2>5. AbsPhase' = "built" /\ AbsDraft' = {}
    BY <1>e, <2>1, <2>3 DEF AbsPhase, AbsDraft, Tasks
  <2>6. snap[t] \in Media
    BY DEF TypeOK
  <2>7. \/ StreamsOf(carried') = Wanted(snap[t])
        \/ /\ Faults # {}
           /\ StreamsOf(carried') \in SUBSET (Wanted(snap[t]) \union StreamsOf(carried))
    <3>1. CASE Apply(t) /\ ~faulted
      <4>1. tracks = senders /\ senders = carried /\ carried \in SUBSET Track
        BY <3>1 DEF NoFaultInv, TypeOK
      <4>2. carried' = UpdateDone(carried, carried, carried, snap[t]).carried
        BY <3>1, <4>1 DEF Apply, Install
      <4> QED
        BY <2>6, <4>1, <4>2, UpdateStreams
    <3>2. CASE Apply(t) /\ faulted
      <4>1. carried' = UpdateDone(tracks, senders, carried, snap[t]).carried
        BY <3>2 DEF Apply, Install
      <4>2. StreamsOf(carried') \subseteq Wanted(snap[t]) \union StreamsOf(carried)
        BY <2>6, <4>1, UpdatedStreams DEF UpdateDone, TypeOK
      <4> QED
        BY <3>2, <4>2 DEF FaultInv
    <3>3. CASE ApplyFails(t)
      <4>1. PICK maps \in UpdateBroken(tracks, senders, carried, snap[t]) :
              carried' = maps.carried
        BY <3>3 DEF ApplyFails, Install
      <4>2. StreamsOf(carried') \subseteq Wanted(snap[t]) \union StreamsOf(carried)
        BY <2>6, <4>1, BrokenStreams DEF TypeOK
      <4> QED
        BY <3>3, <4>2 DEF ApplyFails, Fails
    <3> QED
      BY <1>9, <3>1, <3>2, <3>3
  <2> QED
    BY <2>2, <2>4, <2>5, <2>7 DEF Rounds!Next, Rounds!Build
<1>10. ASSUME NEW t \in Tasks, SendOffer(t) PROVE Goal
  <2>1. Update(t)
    BY <1>10 DEF Update
  <2>2. UNCHANGED <<media, carried, shown>> /\ toClient' # <<>>
    <3>1. toClient = <<>> /\ toClient' = Append(toClient, carried)
      BY <1>10, <1>e, <2>1 DEF SendOffer
    <3> QED
      BY <1>10, <3>1, OneElement DEF SendOffer, pubVars, mapVars
  <2>3. pc[t] = "offer" /\ pc'[t] \in {"idle", "select", "left"}
    BY <1>10 DEF SendOffer, LeaveBlock, Goto, PcType
  <2>4. AbsPhase = "built" /\ AbsDraft = {}
    BY <1>e, <2>1, <2>3 DEF AbsPhase, AbsDraft, Tasks
  <2>5. AbsPhase' = "offered" /\ AbsDraft' = {}
    BY <1>e, <2>1, <2>2, <2>3 DEF AbsPhase, AbsDraft, Tasks
  <2> QED
    BY <2>2, <2>4, <2>5 DEF Rounds!Next, Rounds!Offer
<1>11. ASSUME NEW t \in Tasks, SendOfferFails(t) PROVE Goal
  <2>1. Update(t)
    BY <1>11 DEF Update
  <2>2. UNCHANGED <<media, carried, toClient, shown>> /\ Faults # {}
    BY <1>11 DEF SendOfferFails, Fails, pubVars, mapVars, dcVars
  <2>3. pc[t] = "offer" /\ pc'[t] \in {"idle", "select", "left"}
    BY <1>11 DEF SendOfferFails, LeaveBlock, Goto, PcType
  <2>4. AbsPhase = "built" /\ AbsDraft = {}
    BY <1>e, <2>1, <2>3 DEF AbsPhase, AbsDraft, Tasks
  <2>5. AbsPhase' = "open" /\ AbsDraft' = {}
    BY <1>e, <2>1, <2>2, <2>3 DEF AbsPhase, AbsDraft, Tasks
  <2> QED
    BY <2>2, <2>4, <2>5 DEF Rounds!Next, Rounds!Abandon
<1>12. ASSUME NEW t \in Tasks, Update(t) PROVE Goal
  BY <1>7, <1>8, <1>9, <1>10, <1>11, <1>12 DEF Update
<1> HIDE DEF Goal
<1> QED
  <2>1. CASE Loop
    BY <2>1, <1>2, <1>3, <1>12 DEF Loop, Tasks, Goal
  <2>2. CASE Handler
    BY <2>2, <1>4, <1>12 DEF Handler, Tasks, Goal
  <2>3. CASE Browser
    BY <2>3, <1>5, <1>6 DEF Browser
  <2> QED
    BY <2>1, <2>2, <2>3, <1>1 DEF Next

\* The code's two tasks, two flags and two mutexes give the browser one round
\* after the other, each showing the room as one reading of Redis found it.
THEOREM RoundsAreImplemented == Spec => ImplementsRounds
<1>1. Init => Rounds!Init
  <2> SUFFICES ASSUME Init PROVE Rounds!Init
    OBVIOUS
  <2>1. pc["loop"] = "start" /\ pc["handler"] = "idle" /\ toClient = <<>>
    BY DEF Init, Tasks
  <2>2. AbsPhase = "open" /\ AbsDraft = {}
    BY <2>1 DEF AbsPhase, AbsDraft, Tasks
  <2>3. Wanted(media) = {} /\ StreamsOf(carried) = {} /\ StreamsOf(shown) = {}
    BY DEF Init, NoMedia, Wanted, StreamsOf
  <2> QED
    BY <2>2, <2>3 DEF Rounds!Init
<1>2. Init => FaultInv
  BY DEF Init, FaultInv
<1>3. IInv /\ FaultInv /\ FaultInv' /\ [Next]_vars => [Rounds!Next]_(Rounds!vars)
  BY RoundStep
<1> QED
  BY <1>1, <1>2, <1>3, Inductive, FaultNext, PTL
  DEF Spec, ImplementsRounds, Rounds!Spec

-----------------------------------------------------------------------------
(* Renegotiation implements Follower. *)

\* The streams of one user among those the subscriber wants.
LEMMA WantedOf ==
    ASSUME NEW m1, NEW m2, NEW u,
           \A k \in Kinds : m1[<<u, k>>] = m2[<<u, k>>]
    PROVE  Subscriber!Of(Wanted(m1), u) = Subscriber!Of(Wanted(m2), u)
<1>1. ASSUME NEW s \in Stream, s[1] = u PROVE m1[s] = m2[s]
  <2>1. s = <<u, s[2]>> /\ s[2] \in Kinds
    BY <1>1 DEF Stream
  <2> QED
    BY <2>1
<1> QED
  BY <1>1 DEF Subscriber!Of, Wanted

\* Every step is a step of Follower or leaves its variables alone.
LEMMA FollowerStep ==
    ASSUME IInv, [Next]_vars
    PROVE  [Subscriber!Next]_(Subscriber!vars)
<1> CoreInv /\ NoFaultInv /\ TypeOK
  BY DEF IInv, CoreInv
<1> DEFINE Goal == [Subscriber!Next]_(Subscriber!vars)
           open == {u \in Users \ Own : pubs[u] \in {"joining", "leaving"}}
<1>1. CASE faulted'
  <2>1. faulted' = TRUE
    BY <1>1, TypeNext DEF TypeOK
  <2> QED
    BY <2>1 DEF Subscriber!Next, Subscriber!Fail
<1>2. (RefreshDue <=> (RefreshDue = TRUE)) /\ (RefreshDue' <=> (RefreshDue' = TRUE))
  BY DEF RefreshDue
<1>3. ASSUME UNCHANGED <<Wanted(media), open, StreamsOf(Prospect), faulted>>,
             RefreshDue => RefreshDue'
      PROVE  Goal
  <2>1. CASE RefreshDue'
    BY <1>2, <1>3, <2>1 DEF Subscriber!Next, Subscriber!Stir
  <2>2. CASE ~RefreshDue' /\ ~RefreshDue
    <3>1. RefreshDue' = RefreshDue
      BY <2>2 DEF RefreshDue
    <3> QED
      BY <1>3, <3>1 DEF Subscriber!vars
  <2> QED
    BY <1>3, <2>1, <2>2
<1>4. ASSUME NEW u \in Users, ~faulted',
             \/ \E k \in Kinds : AddTrack(u, k) \/ RemoveMedia(u, k)
             \/ AnnounceJoin(u) \/ AnnounceLeave(u)
      PROVE  Goal
  <2>1. /\ faulted' = faulted /\ Prospect' = Prospect
        /\ RefreshDue => RefreshDue'
        /\ \A w \in Users \ {u} : pubs'[w] = pubs[w]
        /\ \A w \in Users \ {u}, k \in Kinds : media'[<<w, k>>] = media[<<w, k>>]
        /\ \/ pubs'[u] \in {"joining", "leaving"}
           \/ /\ media' = media
              /\ u \notin Muted => RefreshDue'
    BY <1>4, PublisherStep
  <2>2. StreamsOf(Prospect)' = StreamsOf(Prospect)
    BY <2>1
  <2>3. CASE u \in Own
    <3>1. open' = open
      BY <2>1, <2>3
    <3>2. Wanted(media)' = Wanted(media)
      <4>1. \A s \in Stream : s[1] \notin Own => media'[s] = media[s]
        BY <2>1, <2>3 DEF Stream
      <4> QED
        BY <4>1 DEF Wanted
    <3> QED
      BY <1>3, <2>1, <2>2, <3>1, <3>2
  <2>4. CASE u \notin Own /\ pubs'[u] \in {"joining", "leaving"}
    <3>1. open' = open \union {u}
      BY <2>1, <2>4
    <3>2. \A q \in (Users \ Own) \ {u} :
              Subscriber!Of(Wanted(media)', q) = Subscriber!Of(Wanted(media), q)
      BY <2>1, WantedOf
    <3>3. Wanted(media)' \in SUBSET ((Users \ Own) \X Kinds)
      BY DEF Wanted, Stream
    <3>4. CASE RefreshDue' = RefreshDue
      <4>1. Subscriber!Change(u)
        BY <2>1, <2>2, <3>1, <3>2, <3>3, <3>4 DEF Subscriber!Change, Subscriber!Stream
      <4> QED
        BY <2>4, <4>1 DEF Subscriber!Next
    <3>5. RefreshDue' = RefreshDue
      BY <1>4, <2>4, ChangeIsSilent
    <3> QED
      BY <3>4, <3>5
  <2>5. CASE u \notin Own /\ pubs'[u] \notin {"joining", "leaving"}
    <3>1. open' = open \ {u} /\ Wanted(media)' = Wanted(media) /\ u \notin Muted
      BY <2>1, <2>5, RenegotiationAssumption
    <3>2. Subscriber!Announce(u)
      BY <1>2, <2>1, <2>2, <2>5, <3>1 DEF Subscriber!Announce
    <3> QED
      BY <2>5, <3>2 DEF Subscriber!Next
  <2> QED
    BY <2>3, <2>4, <2>5
<1>5. ASSUME NEW t \in Tasks, Fetch(t), ~faulted' PROVE Goal
  <2>1. ~faulted /\ faulted' = faulted
    BY <1>5 DEF Fetch
  <2>2. /\ media' = media /\ pubs' = pubs /\ RefreshDue
        /\ Prospect' = UpdateDone(carried, carried, carried, media).carried
    BY <1>5, <2>1, FetchLooks
  <2>3. StreamsOf(Prospect)' = Wanted(media)
    BY <2>2, UpdateStreams DEF TypeOK
  <2>4. RefreshDue' \in BOOLEAN
    BY DEF RefreshDue
  <2>5. Subscriber!Look
    BY <2>1, <2>2, <2>3, <2>4 DEF Subscriber!Look
  <2> QED
    BY <2>5 DEF Subscriber!Next
<1>6. CASE ~faulted' /\ ~Publishers /\ \A t \in Tasks : ~Fetch(t)
  <2>1. /\ ~faulted /\ pubs' = pubs /\ media' = media
        /\ Prospect' = Prospect
        /\ RefreshDue => RefreshDue'
    BY <1>6, QuietStep DEF Next
  <2>2. faulted' = faulted
    BY <1>6, <2>1, TypeNext DEF TypeOK
  <2> QED
    BY <1>3, <2>1, <2>2
<1> QED
  BY <1>1, <1>4, <1>5, <1>6 DEF Publishers

\* To the publishers of a room, whatever their sessions, the commands, the flags and
\* the mutexes do, a subscriber is one that looks at the room once a change was
\* announced.
THEOREM RoomIsFollowed == Spec => ImplementsFollower
<1>1. Init => Subscriber!Init
  <2> SUFFICES ASSUME Init PROVE Subscriber!Init
    OBVIOUS
  <2>1. pc["loop"] = "start" /\ pc["handler"] = "idle"
    BY DEF Init, Tasks
  <2>2. Prospect = {} /\ RefreshDue
    BY <2>1 DEF Init, Prospect, RefreshDue
  <2>3. Wanted(media) = {} /\ StreamsOf(Prospect) = {}
    BY <2>2 DEF Init, NoMedia, Wanted, StreamsOf
  <2>4. RefreshDue = TRUE
    BY <2>2 DEF RefreshDue
  <2>5. {u \in Users \ Own : pubs[u] \in {"joining", "leaving"}} = {} /\ faulted = FALSE
    BY DEF Init
  <2> QED
    BY <2>3, <2>4, <2>5 DEF Subscriber!Init
<1>2. IInv /\ [Next]_vars => [Subscriber!Next]_(Subscriber!vars)
  BY FollowerStep
<1> QED
  BY <1>1, <1>2, Inductive, PTL DEF Spec, ImplementsFollower, Subscriber!Spec
-----------------------------------------------------------------------------
(* What the browser is shown. *)

\* History: the rooms there have been.
VARIABLE past

Recorded ==
    Spec /\ past = {Wanted(media)} /\ [][past' = past \union {Wanted(media)'}]_<<vars, past>>

Abstract == INSTANCE AbstractProofs WITH
    Pubs        <- Users \ Own,
    Streams     <- Stream,
    MayFail     <- Faults # {},
    room        <- Wanted(media),
    unannounced <- {u \in Users \ Own : pubs[u] \in {"joining", "leaving"}},
    seen        <- StreamsOf(Prospect),
    due         <- RefreshDue,
    failed      <- faulted,
    phase       <- AbsPhase,
    draft       <- AbsDraft,
    carried     <- StreamsOf(carried),
    shown       <- StreamsOf(shown)

\* What the browser was last offered is a room there was; if operations may fail, it is
\* nothing that never was in the room.
ShownIsARoom ==
    /\ Faults = {} => StreamsOf(shown) \in past
    /\ StreamsOf(shown) \subseteq UNION past

\* A browser is shown the room as it was at one moment, however publishers come and go
\* during rounds, and never a mixture: what OfferAnswer promises of its rounds.
THEOREM BrowserShowsOneRoom == Recorded => []ShownIsARoom
<1> USE DEF Rounds!vars, Abstract!Rounds!vars
<1>1. Rounds!Init => Abstract!Rounds!Init
  BY DEF Rounds!Init, Abstract!Rounds!Init
<1>2. [Rounds!Next]_(Rounds!vars) => [Abstract!Rounds!Next]_(Abstract!Rounds!vars)
  <2> SUFFICES ASSUME Rounds!Next
               PROVE  Abstract!Rounds!Next
    OBVIOUS
  <2> USE DEF Abstract!Rounds!Next
  <2>1. CASE Rounds!RoomChange
    BY <2>1 DEF Rounds!RoomChange, Abstract!Rounds!RoomChange
  <2>2. CASE Rounds!Begin \/ Rounds!BeginBlind
    BY <2>2 DEF Rounds!Begin, Rounds!BeginBlind, Abstract!Rounds!Begin, Abstract!Rounds!BeginBlind
  <2>3. CASE Rounds!Build
    BY <2>3 DEF Rounds!Build, Abstract!Rounds!Build
  <2>4. CASE Rounds!Offer \/ Rounds!Accept \/ Rounds!Abandon
    BY <2>4 DEF Rounds!Offer, Rounds!Accept, Rounds!Abandon,
                Abstract!Rounds!Offer, Abstract!Rounds!Accept, Abstract!Rounds!Abandon
  <2> QED
    BY <2>1, <2>2, <2>3, <2>4 DEF Rounds!Next
<1>3. [past' = past \union {Wanted(media)'}]_<<vars, past>> =>
          [Abstract!Record]_<<Abstract!Rounds!vars, past>>
  <2>1. UNCHANGED vars => UNCHANGED Abstract!Rounds!vars
    BY DEF vars, pubVars, cmdVars, mapVars, flagVars, lockVars, dcVars, AbsPhase, AbsDraft
  <2> QED
    BY <2>1 DEF Abstract!Record
<1>4. Abstract!ShowsARoom /\ Abstract!ShowsTheRoom => ShownIsARoom
  BY DEF Abstract!ShowsARoom, Abstract!ShowsTheRoom, ShownIsARoom
<1>5. Recorded => Abstract!Rounds!Spec
  BY <1>1, <1>2, RoundsAreImplemented, PTL
  DEF Recorded, ImplementsRounds, Rounds!Spec, Abstract!Rounds!Spec
<1>6. Recorded => Abstract!Recorded
  BY <1>3, <1>5, PTL DEF Recorded, Abstract!Recorded
<1> QED
  BY <1>4, <1>6, Abstract!ShowsOneRoom, PTL
=============================================================================
