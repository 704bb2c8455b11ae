--------------------------- MODULE AbstractProofs ---------------------------
(***************************************************************************)
(* What the abstract specifications promise, and so every module that       *)
(* implements them: Follower of a room whose publishers come and go,        *)
(* OfferAnswer of the rounds of one connection.                             *)
(***************************************************************************)
EXTENDS TLAPS

CONSTANTS Pubs, Kinds, Streams, MayFail

VARIABLES
    room,                           \* of both
    unannounced, seen, due, failed, \* of Follower
    phase, draft, carried, shown,   \* of OfferAnswer
    past                            \* history: the rooms there have been

Subscriber == INSTANCE Follower
Rounds     == INSTANCE OfferAnswer

-----------------------------------------------------------------------------
(* Follower *)

\* A subscriber that has no look to come sees each publisher of the room as it was
\* when it last announced something, which is as it is.
THEOREM AlwaysFollows == Subscriber!Spec => []Subscriber!Follows
<1> USE DEF Subscriber!Follows, Subscriber!vars
<1>1. Subscriber!Init => Subscriber!Follows
  BY DEF Subscriber!Init
<1>2. Subscriber!Follows /\ [Subscriber!Next]_Subscriber!vars => Subscriber!Follows'
  <2> SUFFICES ASSUME Subscriber!Follows, [Subscriber!Next]_Subscriber!vars,
                      NEW p \in Pubs \ unannounced', ~due', ~failed'
               PROVE  Subscriber!Of(seen', p) = Subscriber!Of(room', p)
    OBVIOUS
  <2>1. CASE UNCHANGED Subscriber!vars
    BY <2>1
  <2>2. ASSUME NEW q \in Pubs, Subscriber!Change(q)
        PROVE  Subscriber!Of(seen', p) = Subscriber!Of(room', p)
    BY <2>2 DEF Subscriber!Change
  <2>3. ASSUME NEW q \in Pubs, Subscriber!Announce(q) PROVE FALSE
    BY <2>3 DEF Subscriber!Announce
  <2>4. CASE Subscriber!Look
    BY <2>4 DEF Subscriber!Look
  <2>5. CASE Subscriber!Stir \/ Subscriber!Fail
    BY <2>5 DEF Subscriber!Stir, Subscriber!Fail
  <2> QED
    BY <2>1, <2>2, <2>3, <2>4, <2>5 DEF Subscriber!Next
<1> QED
  BY <1>1, <1>2, PTL DEF Subscriber!Spec

-----------------------------------------------------------------------------
(* OfferAnswer *)

\* The rounds, with a record of the rooms there have been.
Record == past' = past \union {room'}

Recorded == Rounds!Spec /\ past = {room} /\ [][Record]_<<Rounds!vars, past>>

\* What is shown is a room there was, whole.
ShowsARoom == ~MayFail => shown \in past

\* Nothing is shown that never was in the room.
ShowsTheRoom == shown \subseteq UNION past

\* What a round has in hand is a room there was, or with failures a part of several.
PastInv ==
    /\ room \in past
    /\ phase = "draft" => draft \in past
    /\ ~MayFail => carried \in past /\ shown \in past
    /\ carried \subseteq UNION past /\ shown \subseteq UNION past

\* A round drafts the room as it is, and hands on what it has.
LEMMA PastNext ==
    PastInv /\ [Rounds!Next]_(Rounds!vars) /\ [Record]_<<Rounds!vars, past>> => PastInv'
<1> SUFFICES ASSUME PastInv, [Rounds!Next]_(Rounds!vars), [Record]_<<Rounds!vars, past>>
             PROVE  PastInv'
  OBVIOUS
<1> USE DEF PastInv
<1>1. /\ room = room' => past \subseteq past'
      /\ UNCHANGED <<Rounds!vars, past>> \/ Record
      /\ UNCHANGED Rounds!vars => UNCHANGED <<room, phase, draft, carried, shown>>
  BY DEF Rounds!vars, Record
<1>2. room' \in past' /\ UNION past \subseteq UNION past' /\ past \subseteq past'
  BY <1>1 DEF Record
<1>3. CASE UNCHANGED Rounds!vars
  BY <1>1, <1>2, <1>3
<1>4. CASE Rounds!RoomChange \/ Rounds!Begin \/ Rounds!BeginBlind
  BY <1>2, <1>4 DEF Rounds!RoomChange, Rounds!Begin, Rounds!BeginBlind
<1>5. CASE Rounds!Build
  <2>1. draft \in past /\ draft \subseteq UNION past /\ phase' # "draft" /\ shown' = shown
    BY <1>5 DEF Rounds!Build
  <2>2. carried' \subseteq UNION past /\ (~MayFail => carried' \in past)
    BY <1>5, <2>1 DEF Rounds!Build
  <2> QED
    BY <1>2, <2>1, <2>2
<1>6. CASE Rounds!Offer \/ Rounds!Accept \/ Rounds!Abandon
  BY <1>2, <1>6 DEF Rounds!Offer, Rounds!Accept, Rounds!Abandon
<1> QED
  BY <1>3, <1>4, <1>5, <1>6 DEF Rounds!Next

\* However the room changes while rounds are under way, the browser is shown the room as
\* it was at one moment, never a mixture; and with failures still nothing that never was
\* in the room.
THEOREM ShowsOneRoom == Recorded => [](ShowsARoom /\ ShowsTheRoom)
<1>1. Rounds!Init /\ past = {room} => PastInv
  BY DEF Rounds!Init, PastInv
<1>2. PastInv => ShowsARoom /\ ShowsTheRoom
  BY DEF PastInv, ShowsARoom, ShowsTheRoom
<1> QED
  BY <1>1, <1>2, PastNext, PTL DEF Recorded, Rounds!Spec
=============================================================================
