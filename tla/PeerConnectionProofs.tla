------------------------ MODULE PeerConnectionProofs ------------------------
(***************************************************************************)
(* Lemmas about PeerConnection, for those about Publisher and Subscriber.   *)
(***************************************************************************)
EXTENDS PeerConnection, TLAPS

\* What Append, Head and Tail make of a session's pending states.
LEMMA SeqType ==
    ASSUME NEW S, NEW q \in Seq(S)
    PROVE  /\ <<>> \in Seq(S)
           /\ \A x \in S : Append(q, x) \in Seq(S)
           /\ q # <<>> => Head(q) \in S /\ Tail(q) \in Seq(S)
OBVIOUS

\* Every change of a connection keeps its types.
LEMMA LinkTypeNext ==
    ASSUME LinkType, NEW s \in Sessions,
           \/ LinkUp(s) \/ LinkLost(s) \/ LinkFails(s) \/ LinkCloses(s)
           \/ \E state : Called(s, state)
    PROVE  LinkType'
<1> USE DEF LinkType
<1>1. ASSUME NEW state \in LinkStates, Goes(s, state)
      PROVE  link' \in [Sessions -> LinkStates] /\ events' \in [Sessions -> Seq(LinkStates)]
  <2>1. Append(events[s], state) \in Seq(LinkStates)
    BY SeqType
  <2> QED
    BY <1>1, <2>1 DEF Goes
<1>2. CASE LinkUp(s)
  BY <1>1, <1>2 DEF LinkUp, LinkStates
<1>3. CASE LinkLost(s)
  <2>1. drops' \in [Sessions -> 0 .. MaxDrops]
    BY <1>3, PeerConnectionAssumption DEF LinkLost
  <2> QED
    BY <1>1, <1>3, <2>1 DEF LinkLost, LinkStates
<1>4. CASE LinkFails(s)
  BY <1>1, <1>4 DEF LinkFails, LinkStates
<1>5. CASE LinkCloses(s)
  BY <1>1, <1>5 DEF LinkCloses, LinkStates
<1>6. CASE \E state : Called(s, state)
  <2>1. events[s] # <<>> => Tail(events[s]) \in Seq(LinkStates)
    BY SeqType
  <2> QED
    BY <1>6, <2>1 DEF Called
<1> QED
  BY <1>2, <1>3, <1>4, <1>5, <1>6

\* The last state that the handler has yet to be called with is the present one.
UpToDate == \A s \in Sessions : events[s] # <<>> => events[s][Len(events[s])] = link[s]

\* Every change of a connection is appended to the handler's calls, and calls
\* are taken from the front.
LEMMA UpToDateNext ==
    ASSUME LinkType, UpToDate, NEW s \in Sessions,
           \/ LinkUp(s) \/ LinkLost(s) \/ LinkFails(s) \/ LinkCloses(s)
           \/ \E state : Called(s, state)
    PROVE  UpToDate'
<1> SUFFICES ASSUME NEW r \in Sessions, events'[r] # <<>>
             PROVE  events'[r][Len(events'[r])] = link'[r]
  BY DEF UpToDate
<1>1. /\ events \in [Sessions -> Seq(LinkStates)] /\ link \in [Sessions -> LinkStates]
      /\ events[r] # <<>> => events[r][Len(events[r])] = link[r]
  BY DEF LinkType, UpToDate
<1>2. ASSUME NEW state \in LinkStates, Goes(s, state)
      PROVE  events'[r][Len(events'[r])] = link'[r]
  <2>1. CASE r = s
    <3>1. events'[r] = Append(events[r], state) /\ link'[r] = state
      BY <1>1, <1>2, <2>1 DEF Goes
    <3>2. events[r] \in Seq(LinkStates)
      BY <1>1
    <3> QED
      BY <3>1, <3>2
  <2>2. CASE r # s
    <3>1. events'[r] = events[r] /\ link'[r] = link[r]
      BY <1>1, <1>2, <2>2 DEF Goes
    <3> QED
      BY <1>1, <3>1
  <2> QED
    BY <2>1, <2>2
<1>3. CASE \E state : Called(s, state)
  <2>1. events' = [events EXCEPT ![s] = Tail(@)] /\ link' = link /\ events[s] # <<>>
    BY <1>3 DEF Called
  <2>2. CASE r = s
    <3>1. events'[r] = Tail(events[r]) /\ events[r] \in Seq(LinkStates) /\ events[r] # <<>>
      BY <1>1, <2>1, <2>2
    <3>2. Tail(events[r])[Len(Tail(events[r]))] = events[r][Len(events[r])]
      BY <3>1
    <3> QED
      BY <1>1, <2>1, <3>1, <3>2
  <2>3. CASE r # s
    BY <1>1, <2>1, <2>3
  <2> QED
    BY <2>2, <2>3
<1>4. CASE UNCHANGED <<link, events>>
  BY <1>1, <1>4
<1> QED
  BY <1>2, <1>3, <1>4 DEF LinkUp, LinkLost, LinkFails, LinkCloses, LinkStates

\* A sequence without a tail has one element.
LEMMA Singleton ==
    ASSUME NEW S, NEW q \in Seq(S), q # <<>>, Tail(q) = <<>>
    PROVE  Len(q) = 1
<1>1. Tail(q) \in Seq(S) /\ Len(Tail(q)) = Len(q) - 1
  OBVIOUS
<1>2. Tail(q) = <<>> => Len(Tail(q)) = 0
  BY <1>1
<1> QED
  BY <1>1, <1>2

\* When the handler is called with the last state, that is the present one.
LEMMA LastCall ==
    ASSUME LinkType, UpToDate, NEW s \in Sessions, NEW state, Called(s, state),
           events'[s] = <<>>
    PROVE  link[s] = state
<1>1. events[s] \in Seq(LinkStates) /\ events[s] # <<>> /\ Head(events[s]) = state
  BY DEF LinkType, Called
<1>2. Tail(events[s]) = <<>>
  BY DEF LinkType, Called
<1>3. Len(events[s]) = 1
  BY <1>1, <1>2, Singleton
<1> QED
  BY <1>1, <1>3 DEF UpToDate
=============================================================================
