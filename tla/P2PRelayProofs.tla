-------------------------- MODULE P2PRelayProofs ---------------------------
(***************************************************************************)
(* TLAPS proofs about P2PRelay, for any number of connections, users and   *)
(* meetings.                                                               *)
(***************************************************************************)
EXTENDS P2PRelay, SequenceTheorems, TLAPS

-----------------------------------------------------------------------------
(* Lists of connections.                                                   *)

LEMMA RemoveAtProperties ==
    ASSUME NEW S, NEW q \in Seq(S), NEW i \in 1..Len(q)
    PROVE  /\ RemoveAt(q, i) \in Seq(S)
           /\ Len(RemoveAt(q, i)) = Len(q) - 1
           /\ \A k \in 1..Len(q) - 1 :
                 RemoveAt(q, i)[k] = IF k < i THEN q[k] ELSE q[k + 1]
<1> DEFINE a == SubSeq(q, 1, i - 1)
           b == SubSeq(q, i + 1, Len(q))
<1>1. /\ a \in Seq(S) /\ Len(a) = i - 1
      /\ \A k \in 1..i - 1 : a[k] = q[k]
    OBVIOUS
<1>2. /\ b \in Seq(S) /\ Len(b) = Len(q) - i
      /\ \A k \in 1..Len(q) - i : b[k] = q[i + k]
    OBVIOUS
<1> HIDE DEF a, b
<1>3. /\ a \o b \in Seq(S)
      /\ Len(a \o b) = Len(a) + Len(b)
      /\ \A k \in 1..Len(a) + Len(b) :
            (a \o b)[k] = IF k <= Len(a) THEN a[k] ELSE b[k - Len(a)]
  <2>1. a \in Seq(S) /\ b \in Seq(S)
    BY <1>1, <1>2
  <2> QED
    BY <2>1, ConcatProperties, Zenon
<1>5. Len(a) + Len(b) = Len(q) - 1
    BY <1>1, <1>2
<1>4. ASSUME NEW k \in 1..Len(q) - 1
      PROVE  (a \o b)[k] = IF k < i THEN q[k] ELSE q[k + 1]
  <2>1. CASE k < i
    BY <1>1, <1>3, <1>5, <2>1
  <2>2. CASE ~(k < i)
    <3>1. k - (i - 1) \in 1..Len(q) - i /\ i + (k - (i - 1)) = k + 1
      BY <2>2
    <3> QED
      BY <1>1, <1>2, <1>3, <1>5, <2>2, <3>1
  <2> QED
    BY <2>1, <2>2
<1> QED
    BY <1>3, <1>4, <1>5 DEF RemoveAt, a, b

LEMMA RemoveAtRange ==
    ASSUME NEW S, NEW q \in Seq(S), NEW i \in 1..Len(q)
    PROVE  Range(RemoveAt(q, i)) \subseteq Range(q)
<1>1. /\ RemoveAt(q, i) \in Seq(S)
      /\ Len(RemoveAt(q, i)) = Len(q) - 1
      /\ \A k \in 1..Len(q) - 1 :
            RemoveAt(q, i)[k] = IF k < i THEN q[k] ELSE q[k + 1]
  BY RemoveAtProperties, Zenon
<1>2. ASSUME NEW k \in 1..Len(q) - 1
      PROVE  RemoveAt(q, i)[k] \in Range(q)
  <2>1. k \in DOMAIN q /\ k + 1 \in DOMAIN q
    OBVIOUS
  <2> QED
    BY <1>1, <2>1 DEF Range
<1>3. DOMAIN RemoveAt(q, i) = 1..Len(q) - 1
  BY <1>1
<1> QED
  BY <1>2, <1>3 DEF Range

\* The place Evict picks is one of those it picks from.
LEMMA EvictIndex ==
    ASSUME NEW same \in SUBSET (1..2), same # {}
    PROVE  (CHOOSE i \in same : \A k \in same : i <= k) \in same
<1>1. \E n \in same : \A k \in same : n <= k
    <2>1. CASE 1 \in same
        BY <2>1
    <2>2. CASE 1 \notin same
        <3>1. \A k \in same : k = 2
            BY <2>2
        <3>2. PICK n \in same : TRUE
            OBVIOUS
        <3> QED
            BY <3>1, <3>2
    <2> QED
        BY <2>1, <2>2
<1> QED
    BY <1>1, Zenon

-----------------------------------------------------------------------------
(* Type correctness.                                                       *)

LEMMA MsgTypes ==
    /\ \A t \in Types : Msg(t) \in Msgs
    /\ \A t \in Types, c \in Conns : MsgAbout(t, c) \in Msgs
BY DEF Msg, MsgAbout, Msgs

LEMMA WriteType ==
    ASSUME TypeOK, NEW D, NEW m \in Msgs, Write(D, m)
    PROVE  toPage' \in [Conns -> Seq(Msgs)]
BY DEF TypeOK, Write

LEMMA SendType ==
    ASSUME TypeOK, NEW c \in Conns, NEW m \in Msgs, Send(c, <<m>>)
    PROVE  toServer' \in [Conns -> Seq(Msgs)]
BY DEF TypeOK, Send

LEMMA HeldMeet ==
    ASSUME TypeOK, MeetHeld, NEW c \in Conns,
           pc[c] \notin {"idle", "scan", "done"}
    PROVE  meet[c] \in Conns /\ peers[meet[c]] \in Seq(Conns)
BY DEF TypeOK, MeetHeld

LEMMA MeetForType ==
    ASSUME TypeOK, NEW c \in Conns PROVE MeetFor(c) \in Conns
BY MeetOfAssumption DEF TypeOK, MeetFor

LEMMA TypeInit == Init => TypeOK
<1> SUFFICES ASSUME Init PROVE TypeOK
    OBVIOUS
<1> USE IsHostAssumption DEF Init
<1>1. /\ peers \in [Conns -> Seq(Conns)]
      /\ toServer \in [Conns -> Seq(Msgs)]
      /\ toPage \in [Conns -> Seq(Msgs)]
    OBVIOUS
<1> QED
    BY <1>1 DEF TypeOK, PCs, Screens

LEMMA TypeStep == TypeOK /\ MeetHeld /\ TwoSeats /\ [Next]_vars => TypeOK'
<1> SUFFICES ASSUME TypeOK, MeetHeld, TwoSeats, [Next]_vars PROVE TypeOK'
    OBVIOUS
<1> USE DEF TypeOK, PCs, Screens, Goto, Screen, server, page
<1>1. ASSUME NEW c \in Conns, LookUp(c) PROVE TypeOK'
  <2>1. MeetFor(c) \in Conns /\ meetOf[c] \in Meets
    BY MeetForType, MeetOfAssumption
  <2>2. toPage' \in [Conns -> Seq(Msgs)]
    BY <1>1, WriteType, MsgTypes DEF LookUp, Types
  <2>3. /\ meets' \in [Meets -> Conns \cup {None}]
        /\ meet' \in [Conns -> Conns \cup {None}]
        /\ pc' \in [Conns -> PCs]
    BY <1>1, <2>1 DEF LookUp
  <2> QED
    BY <1>1, <2>2, <2>3 DEF LookUp
<1>2. ASSUME NEW c \in Conns, ReadDuplicate(c) PROVE TypeOK'
  <2>1. toServer' \in [Conns -> Seq(Msgs)]
    BY <1>2 DEF ReadDuplicate
  <2>2. pc' = pc \/ pc' = [pc EXCEPT ![c] = "evict"]
    BY <1>2, Zenon DEF ReadDuplicate
  <2>3. UNCHANGED <<meets, peers, meet, peerIndex, open, toPage, tab, screen,
                    knocker>>
    BY <1>2 DEF ReadDuplicate
  <2> QED
    BY <2>1, <2>2, <2>3
<1>3. ASSUME NEW c \in Conns, LeaveDuplicate(c) PROVE TypeOK'
    BY <1>3 DEF LeaveDuplicate
<1>4. ASSUME NEW c \in Conns, Evict(c) PROVE TypeOK'
  <2> DEFINE q == peers[meet[c]]
             same == {i \in DOMAIN q : userOf[q[i]] = userOf[c]}
             j == CHOOSE i \in same : \A k \in same : i <= k
  <2>1. meet[c] \in Conns /\ q \in Seq(Conns) /\ Len(q) <= 2
    BY <1>4, HeldMeet DEF Evict, TwoSeats
  <2>2. /\ pc' = [pc EXCEPT ![c] = "add"]
        /\ UNCHANGED <<meets, meet, peerIndex, toServer, tab, screen, knocker>>
    BY <1>4 DEF Evict
  <2>3. CASE same = {}
    BY <1>4, <2>2, <2>3 DEF Evict
  <2>4. CASE same # {}
    <3>6. same \in SUBSET (1..2) /\ same \subseteq 1..Len(q)
      <4> HIDE DEF TypeOK, q
      <4>1. DOMAIN q = 1..Len(q) /\ Len(q) \in Nat
        BY <2>1
      <4> QED
        BY <2>1, <4>1
    <3>1. j \in same
      BY <2>4, <3>6, EvictIndex, Zenon
    <3>2. j \in 1..Len(q)
      BY <3>6, <3>1, Zenon
    <3>3. /\ Write({q[j]}, Msg("replaced"))
          /\ open' = [open EXCEPT ![q[j]] = FALSE]
          /\ peers' = [peers EXCEPT ![meet[c]] = RemoveAt(q, j)]
      BY <1>4, <2>4 DEF Evict
    <3> HIDE DEF j, q
    <3>4. peers' \in [Conns -> Seq(Conns)]
      BY <2>1, <3>2, <3>3, RemoveAtProperties
    <3>5. toPage' \in [Conns -> Seq(Msgs)]
      BY <3>3, WriteType, MsgTypes DEF Types
    <3> QED
      BY <2>2, <3>3, <3>4, <3>5
  <2> QED
    BY <2>3, <2>4
<1>5. ASSUME NEW c \in Conns, Add(c) PROVE TypeOK'
  <2> DEFINE q == peers[meet[c]]
  <2>1. meet[c] \in Conns /\ q \in Seq(Conns)
    BY <1>5, HeldMeet DEF Add
  <2>2. UNCHANGED <<meets, meet, toServer, tab, screen, knocker>>
    BY <1>5 DEF Add
  <2>3. CASE Len(q) >= 2
    <3>1. /\ Write({c}, Msg("full"))
          /\ open' = [open EXCEPT ![c] = FALSE]
          /\ pc' = [pc EXCEPT ![c] = "done"]
          /\ UNCHANGED <<peers, peerIndex>>
      BY <1>5, <2>3 DEF Add
    <3>2. toPage' \in [Conns -> Seq(Msgs)]
      BY <3>1, WriteType, MsgTypes DEF Types
    <3> QED
      BY <2>2, <3>1, <3>2
  <2>4. CASE ~(Len(q) >= 2)
    <3>1. /\ peers' = [peers EXCEPT ![meet[c]] = Append(q, c)]
          /\ peerIndex' = [peerIndex EXCEPT ![c] = Len(q)]
          /\ pc' = [pc EXCEPT ![c] = "relay"]
          /\ UNCHANGED <<open, toPage>>
      BY <1>5, <2>4 DEF Add
    <3> HIDE DEF q
    <3>2. Len(q) \in 0..1 /\ Append(q, c) \in Seq(Conns)
      <4>1. Len(q) \in Nat /\ Append(q, c) \in Seq(Conns)
        BY <2>1
      <4>2. \A n \in Nat : ~(n >= 2) => n \in 0..1
        OBVIOUS
      <4>3. Len(q) \in 0..1
        BY <2>4, <4>1, <4>2, Zenon
      <4> QED
        BY <4>1, <4>3
    <3> QED
      BY <2>1, <2>2, <3>1, <3>2
  <2> QED
    BY <2>3, <2>4
<1>6. ASSUME NEW c \in Conns, Relay(c) PROVE TypeOK'
  <2>1. Head(toServer[c]) \in Msgs /\ Tail(toServer[c]) \in Seq(Msgs)
    BY <1>6 DEF Relay
  <2>2. toServer' \in [Conns -> Seq(Msgs)]
    BY <1>6, <2>1 DEF Relay
  <2>3. toPage' \in [Conns -> Seq(Msgs)]
    BY <1>6, <2>1, WriteType DEF Relay
  <2> QED
    BY <1>6, <2>2, <2>3 DEF Relay
<1>7. ASSUME NEW c \in Conns, ReadFails(c) PROVE TypeOK'
    BY <1>7 DEF ReadFails
<1>8. ASSUME NEW c \in Conns, Cleanup(c) PROVE TypeOK'
  <2> DEFINE q == peers[meet[c]]
             i == CHOOSE k \in DOMAIN q : q[k] = c
             rest == RemoveAt(q, i)
  <2>1. meet[c] \in Conns /\ q \in Seq(Conns)
    BY <1>8, HeldMeet DEF Cleanup
  <2>2. /\ pc' = [pc EXCEPT ![c] = "done"]
        /\ UNCHANGED <<meet, peerIndex, open, toServer, tab, screen, knocker>>
    BY <1>8 DEF Cleanup
  <2>3. CASE c \notin Range(q)
    BY <1>8, <2>2, <2>3 DEF Cleanup
  <2>4. CASE c \in Range(q)
    <3>1. i \in 1..Len(q)
      BY <2>1, <2>4 DEF Range
    <3>2. rest \in Seq(Conns)
      BY <2>1, <3>1, RemoveAtProperties
    <3>3. peers' = [peers EXCEPT ![meet[c]] = rest]
      BY <1>8, <2>4 DEF Cleanup
    <3>4. toPage' \in [Conns -> Seq(Msgs)]
      BY <1>8, <2>4, WriteType, MsgTypes DEF Cleanup, Types
    <3>5. meets' \in [Meets -> Conns \cup {None}]
      BY <1>8, <2>4 DEF Cleanup
    <3> HIDE DEF rest
    <3> QED
      BY <2>2, <3>2, <3>3, <3>4, <3>5
  <2> QED
    BY <2>3, <2>4
<1>9. ASSUME NEW c \in Conns, Connect(c) PROVE TypeOK'
  <2>1. Msg("force-join") \in Msgs /\ MsgAbout("knock", c) \in Msgs
    BY MsgTypes DEF Types
  <2>2. toServer' \in [Conns -> Seq(Msgs)]
    BY <1>9, <2>1 DEF Connect
  <2> QED
    BY <1>9, <2>2, IsHostAssumption DEF Connect
<1>10. ASSUME NEW c \in Conns, Refuse(c) PROVE TypeOK'
    BY <1>10 DEF Refuse
<1>11. ASSUME NEW c \in Conns, PageReceives(c) PROVE TypeOK'
  <2>1. Head(toPage[c]) \in Msgs
    BY <1>11 DEF PageReceives
  <2>2. toPage' \in [Conns -> Seq(Msgs)]
    BY <1>11 DEF PageReceives
  <2>3. toServer' \in [Conns -> Seq(Msgs)]
    BY <1>11, SendType, MsgTypes DEF PageReceives, Types
  <2>4. knocker' \in [Conns -> Conns \cup {None}]
    BY <1>11, <2>1 DEF PageReceives, Knocker, Msgs
  <2>5. /\ tab' \in [Conns -> BOOLEAN]
        /\ screen' \in [Conns -> Screens]
    BY <1>11 DEF PageReceives, Close, Screen
  <2> QED
    BY <1>11, <2>2, <2>3, <2>4, <2>5 DEF PageReceives
<1>12. ASSUME NEW c \in Conns, AnswerKnock(c) PROVE TypeOK'
  <2>1. toServer' \in [Conns -> Seq(Msgs)]
    BY <1>12, SendType, MsgTypes DEF AnswerKnock, Types
  <2> QED
    BY <1>12, <2>1 DEF AnswerKnock, Knocker
<1>13. ASSUME NEW c \in Conns, CloseTab(c) PROVE TypeOK'
    BY <1>13 DEF CloseTab, Close
<1>14. ASSUME NEW c \in Conns, CheckUserInMeet(c) PROVE TypeOK'
    BY <1>14 DEF CheckUserInMeet
<1>15. CASE UNCHANGED vars
    BY <1>15 DEF vars
<1> QED
    BY <1>1, <1>2, <1>3, <1>4, <1>5, <1>6, <1>7, <1>8, <1>9, <1>10, <1>11,
       <1>12, <1>13, <1>14, <1>15 DEF Next, Handler, Page

-----------------------------------------------------------------------------
(* The safety invariants: SeatsOK is what of IInv is not TypeOK.           *)

SeatsOK == MeetHeld /\ TwoSeats /\ SeatIsServed /\ NoMeetLeak

Outside == {"idle", "scan", "done"}
Seated  == {"relay", "cleanup"}

\* A handler that only moves on, without a change to the meetings: it does not
\* take a Meet it does not hold, nor leave a seat, nor give up an entry.
LEMMA QuietStep ==
    ASSUME TypeOK, SeatsOK, NEW c \in Conns, NEW label \in PCs,
           UNCHANGED <<meets, peers, meet>>,
           pc' = [pc EXCEPT ![c] = label],
           pc[c] # "add",
           label \notin Outside => pc[c] \notin Outside,
           pc[c] \in Seated => label \in Seated
    PROVE  SeatsOK'
<1>1. /\ pc'[c] = label
      /\ \A d \in Conns : d # c => pc'[d] = pc[d]
  BY DEF TypeOK
<1>2. MeetHeld'
  BY <1>1 DEF SeatsOK, MeetHeld, Outside
<1>3. TwoSeats'
  BY DEF SeatsOK, TwoSeats
<1>4. SeatIsServed'
  <2> SUFFICES ASSUME NEW o \in Conns, NEW d \in Range(peers[o])
               PROVE  meet[d] = o /\ pc'[d] \in Seated
    BY DEF SeatIsServed, Seated
  <2>1. d \in Conns
    BY DEF TypeOK, Range
  <2>2. meet[d] = o /\ pc[d] \in Seated
    BY DEF SeatsOK, SeatIsServed, Seated
  <2> QED
    BY <1>1, <2>1, <2>2
<1>5. NoMeetLeak'
  <2> SUFFICES ASSUME NEW m \in Meets,
                      meets[m] # None, peers[meets[m]] = <<>>
               PROVE  \E d \in Conns : pc'[d] = "add" /\ meet[d] = meets[m]
    BY DEF NoMeetLeak
  <2>1. PICK d \in Conns : pc[d] = "add" /\ meet[d] = meets[m]
    BY DEF SeatsOK, NoMeetLeak
  <2> QED
    BY <1>1, <2>1
<1> QED
  BY <1>2, <1>3, <1>4, <1>5 DEF SeatsOK

\* Nothing the invariants speak of changes.
LEMMA StillStep ==
    ASSUME SeatsOK, UNCHANGED <<meets, peers, meet, pc>>
    PROVE  SeatsOK'
BY DEF SeatsOK, MeetHeld, TwoSeats, SeatIsServed, NoMeetLeak

LEMMA LookUpStep ==
    ASSUME TypeOK, SeatsOK, NEW c \in Conns, LookUp(c)
    PROVE  SeatsOK'
<1> DEFINE M == MeetFor(c)
<1>1. M \in Conns /\ meetOf[c] \in Meets /\ meetOf[M] = meetOf[c]
  <2>1. meetOf[c] \in Meets
    BY MeetOfAssumption
  <2>2. meets[meetOf[c]] # None => meetOf[meets[meetOf[c]]] = meetOf[c]
    BY <2>1 DEF SeatsOK, MeetHeld
  <2> QED
    BY <2>1, <2>2, MeetForType DEF MeetFor
<1>2. /\ pc[c] = "scan"
      /\ meets' = [meets EXCEPT ![meetOf[c]] = M]
      /\ meet' = [meet EXCEPT ![c] = M]
      /\ peers' = peers
  BY DEF LookUp
<1>3. /\ IsDuplicate(c) => pc' = [pc EXCEPT ![c] = "dup"]
      /\ ~IsDuplicate(c) => pc' = [pc EXCEPT ![c] = "add"]
  BY DEF LookUp, Goto
<1> HIDE DEF M
<1>4. /\ meet'[c] = M
      /\ meets'[meetOf[c]] = M
      /\ pc'[c] \in {"dup", "add"}
      /\ \A d \in Conns : d # c => pc'[d] = pc[d] /\ meet'[d] = meet[d]
      /\ \A m \in Meets : m # meetOf[c] => meets'[m] = meets[m]
  BY <1>1, <1>2, <1>3 DEF TypeOK
<1>5. MeetHeld'
  <2>1. ASSUME NEW d \in Conns
        PROVE  /\ pc'[d] \notin Outside => meet'[d] # None
               /\ meet'[d] # None => meetOf[meet'[d]] = meetOf[d]
    <3>1. CASE d = c
      BY <1>1, <1>4, <3>1, NoneAssumption
    <3>2. CASE d # c
      BY <1>4, <3>2 DEF SeatsOK, MeetHeld, Outside
    <3> QED
      BY <3>1, <3>2
  <2>2. ASSUME NEW m \in Meets, meets'[m] # None
        PROVE  meetOf[meets'[m]] = m
    BY <1>1, <1>4, <2>2 DEF SeatsOK, MeetHeld
  <2> QED
    BY <2>1, <2>2 DEF MeetHeld, Outside
<1>6. TwoSeats'
  BY <1>2 DEF SeatsOK, TwoSeats
<1>7. SeatIsServed'
  <2> SUFFICES ASSUME NEW o \in Conns, NEW d \in Range(peers[o])
               PROVE  meet'[d] = o /\ pc'[d] \in Seated
    BY <1>2 DEF SeatIsServed, Seated
  <2>1. d \in Conns
    BY DEF TypeOK, Range
  <2>2. meet[d] = o /\ pc[d] \in Seated
    BY DEF SeatsOK, SeatIsServed, Seated
  <2>3. d # c
    BY <1>2, <2>2 DEF Seated
  <2> QED
    BY <1>4, <2>1, <2>2, <2>3
<1>8. NoMeetLeak'
  <2> SUFFICES ASSUME NEW m \in Meets,
                      meets'[m] # None, peers[meets'[m]] = <<>>
               PROVE  \E d \in Conns : pc'[d] = "add" /\ meet'[d] = meets'[m]
    BY <1>2 DEF NoMeetLeak
  <2>1. CASE m = meetOf[c]
    <3>1. ~IsDuplicate(c)
      BY <1>4, <2>1 DEF IsDuplicate, Range, M
    <3>2. pc'[c] = "add"
      BY <1>3, <3>1 DEF TypeOK
    <3> QED
      BY <1>4, <2>1, <3>2
  <2>2. CASE m # meetOf[c]
    <3>1. PICK d \in Conns : pc[d] = "add" /\ meet[d] = meets[m]
      BY <1>4, <2>2 DEF SeatsOK, NoMeetLeak
    <3> QED
      BY <1>2, <1>4, <2>2, <3>1
  <2> QED
    BY <2>1, <2>2
<1> QED
  BY <1>5, <1>6, <1>7, <1>8 DEF SeatsOK

\* A list without one of its places keeps TwoSeats.
LEMMA TwoSeatsRemoveAt ==
    ASSUME NEW q \in Seq(Conns), NEW i \in 1..Len(q), Len(q) <= 2,
           \A k, l \in DOMAIN q : q[k] = q[l] => k = l
    PROVE  /\ Len(RemoveAt(q, i)) <= 2
           /\ \A k, l \in DOMAIN RemoveAt(q, i) :
                 RemoveAt(q, i)[k] = RemoveAt(q, i)[l] => k = l
           /\ q[i] \notin Range(RemoveAt(q, i))
<1> DEFINE r == RemoveAt(q, i)
<1>1. /\ r \in Seq(Conns)
      /\ Len(r) = Len(q) - 1
      /\ \A k \in 1..Len(q) - 1 : r[k] = IF k < i THEN q[k] ELSE q[k + 1]
  BY RemoveAtProperties, Zenon
<1> HIDE DEF r
<1>2. DOMAIN r = 1..Len(q) - 1 /\ DOMAIN q = 1..Len(q) /\ Len(q) \in Nat
  BY <1>1
<1>3. Len(r) <= 2
  BY <1>1, <1>2
<1>4. ASSUME NEW k \in DOMAIN r, NEW l \in DOMAIN r, r[k] = r[l]
      PROVE  k = l
  BY <1>1, <1>2, <1>4
<1>5. ASSUME NEW k \in DOMAIN r PROVE r[k] # q[i]
  BY <1>1, <1>2
<1>6. q[i] \notin Range(r)
  BY <1>5 DEF Range
<1> QED
  BY <1>3, <1>4, <1>6 DEF r

\* What Evict does to the lists.
LEMMA EvictEffect ==
    ASSUME TypeOK, SeatsOK, NEW c \in Conns, Evict(c)
    PROVE  \/ peers' = peers
           \/ \E j \in 1..Len(peers[meet[c]]) :
                 peers' = [peers EXCEPT ![meet[c]] =
                                            RemoveAt(peers[meet[c]], j)]
<1> DEFINE q == peers[meet[c]]
           same == {i \in DOMAIN q : userOf[q[i]] = userOf[c]}
           j == CHOOSE i \in same : \A k \in same : i <= k
<1>1. q \in Seq(Conns) /\ Len(q) <= 2
  BY HeldMeet DEF SeatsOK, Evict, TwoSeats
<1>2. CASE same = {}
  BY <1>2 DEF Evict
<1>3. CASE same # {}
  <2>1. peers' = [peers EXCEPT ![meet[c]] = RemoveAt(q, j)]
    BY <1>3 DEF Evict
  <2>2. same \in SUBSET (1..2) /\ same \subseteq 1..Len(q)
    <3>1. DOMAIN q = 1..Len(q) /\ Len(q) \in Nat
      BY <1>1
    <3> HIDE DEF q
    <3> QED
      BY <1>1, <3>1
  <2>3. j \in same
    BY <1>3, <2>2, EvictIndex, Zenon
  <2>4. j \in 1..Len(q)
    BY <2>2, <2>3, Zenon
  <2> HIDE DEF j
  <2> QED
    BY <2>1, <2>4
<1> QED
  BY <1>2, <1>3

LEMMA EvictStep ==
    ASSUME TypeOK, SeatsOK, NEW c \in Conns, Evict(c)
    PROVE  SeatsOK'
<1>1. /\ pc[c] = "evict" /\ pc' = [pc EXCEPT ![c] = "add"]
      /\ UNCHANGED <<meets, meet>>
  BY DEF Evict, Goto
<1>2. /\ pc'[c] = "add"
      /\ \A d \in Conns : d # c => pc'[d] = pc[d]
  BY <1>1 DEF TypeOK
<1>3. meet[c] \in Conns /\ peers[meet[c]] \in Seq(Conns)
  BY <1>1, HeldMeet DEF SeatsOK
<1> DEFINE Shrunk(o) ==
             /\ Len(peers'[o]) <= 2
             /\ \A k, l \in DOMAIN peers'[o] :
                   peers'[o][k] = peers'[o][l] => k = l
             /\ Range(peers'[o]) \subseteq Range(peers[o])
             /\ o # meet[c] => peers'[o] = peers[o]
<1>4. ASSUME NEW o \in Conns PROVE Shrunk(o)
  <2>1. CASE peers'[o] = peers[o]
    BY <2>1 DEF SeatsOK, TwoSeats
  <2>2. CASE peers'[o] # peers[o]
    <3>1. PICK j \in 1..Len(peers[meet[c]]) :
             peers' = [peers EXCEPT ![meet[c]] = RemoveAt(peers[meet[c]], j)]
      BY <2>2, EvictEffect
    <3>2. o = meet[c] /\ peers'[o] = RemoveAt(peers[o], j)
      BY <1>3, <2>2, <3>1 DEF TypeOK
    <3>3. /\ Len(peers'[o]) <= 2
          /\ \A k, l \in DOMAIN peers'[o] :
                peers'[o][k] = peers'[o][l] => k = l
      BY <1>3, <3>2, TwoSeatsRemoveAt DEF SeatsOK, TwoSeats
    <3>4. Range(peers'[o]) \subseteq Range(peers[o])
      BY <1>3, <3>2, RemoveAtRange
    <3> QED
      BY <3>2, <3>3, <3>4
  <2> QED
    BY <2>1, <2>2
<1>5. MeetHeld'
  BY <1>1, <1>2 DEF SeatsOK, MeetHeld
<1>6. TwoSeats'
  BY <1>4 DEF TwoSeats
<1>7. SeatIsServed'
  <2> SUFFICES ASSUME NEW o \in Conns, NEW d \in Range(peers'[o])
               PROVE  meet[d] = o /\ pc'[d] \in Seated
    BY <1>1 DEF SeatIsServed, Seated
  <2>1. d \in Range(peers[o])
    BY <1>4
  <2>2. d \in Conns
    BY <2>1 DEF TypeOK, Range
  <2>3. meet[d] = o /\ pc[d] \in Seated
    BY <2>1 DEF SeatsOK, SeatIsServed, Seated
  <2>4. d # c
    BY <1>1, <2>3 DEF Seated
  <2> QED
    BY <1>2, <2>2, <2>3, <2>4
<1>8. NoMeetLeak'
  <2> SUFFICES ASSUME NEW m \in Meets,
                      meets[m] # None, peers'[meets[m]] = <<>>
               PROVE  \E d \in Conns : pc'[d] = "add" /\ meet[d] = meets[m]
    BY <1>1 DEF NoMeetLeak
  <2>1. CASE meets[m] = meet[c]
    BY <1>2, <2>1
  <2>2. CASE meets[m] # meet[c]
    <3>1. meets[m] \in Conns
      BY DEF TypeOK
    <3>2. PICK d \in Conns : pc[d] = "add" /\ meet[d] = meets[m]
      BY <1>4, <2>2, <3>1 DEF SeatsOK, NoMeetLeak
    <3> QED
      BY <1>1, <1>2, <3>2
  <2> QED
    BY <2>1, <2>2
<1> QED
  BY <1>5, <1>6, <1>7, <1>8 DEF SeatsOK

LEMMA AddStep ==
    ASSUME TypeOK, SeatsOK, NEW c \in Conns, Add(c)
    PROVE  SeatsOK'
<1> DEFINE q == peers[meet[c]]
<1>1. pc[c] = "add" /\ UNCHANGED <<meets, meet>>
  BY DEF Add
<1>2. meet[c] \in Conns /\ q \in Seq(Conns) /\ Len(q) \in Nat
  BY <1>1, HeldMeet DEF SeatsOK
<1>3. \A o \in Conns : c \notin Range(peers[o])
  BY <1>1 DEF SeatsOK, SeatIsServed
<1>4. CASE Len(q) >= 2
  <2>1. pc' = [pc EXCEPT ![c] = "done"] /\ peers' = peers
    BY <1>4 DEF Add, Goto
  <2>2. /\ pc'[c] = "done"
        /\ \A d \in Conns : d # c => pc'[d] = pc[d]
    BY <2>1 DEF TypeOK
  <2>3. q # <<>>
    BY <1>2, <1>4
  <2> HIDE DEF q
  <2>4. MeetHeld'
    BY <1>1, <2>2 DEF SeatsOK, MeetHeld
  <2>5. TwoSeats'
    BY <2>1 DEF SeatsOK, TwoSeats
  <2>6. SeatIsServed'
    <3> SUFFICES ASSUME NEW o \in Conns, NEW d \in Range(peers[o])
                 PROVE  meet[d] = o /\ pc'[d] \in Seated
      BY <1>1, <2>1 DEF SeatIsServed, Seated
    <3>1. d \in Conns
      BY DEF TypeOK, Range
    <3>2. meet[d] = o /\ pc[d] \in Seated
      BY DEF SeatsOK, SeatIsServed, Seated
    <3> QED
      BY <1>3, <2>2, <3>1, <3>2
  <2>7. NoMeetLeak'
    <3> SUFFICES ASSUME NEW m \in Meets,
                        meets[m] # None, peers[meets[m]] = <<>>
                 PROVE  \E d \in Conns : pc'[d] = "add" /\ meet[d] = meets[m]
      BY <1>1, <2>1 DEF NoMeetLeak
    <3>1. PICK d \in Conns : pc[d] = "add" /\ meet[d] = meets[m]
      BY DEF SeatsOK, NoMeetLeak
    <3> QED
      BY <2>2, <2>3, <3>1 DEF q
  <2> QED
    BY <2>4, <2>5, <2>6, <2>7 DEF SeatsOK
<1>5. CASE ~(Len(q) >= 2)
  <2>1. /\ pc' = [pc EXCEPT ![c] = "relay"]
        /\ peers' = [peers EXCEPT ![meet[c]] = Append(q, c)]
    BY <1>5 DEF Add, Goto
  <2>2. /\ pc'[c] = "relay"
        /\ \A d \in Conns : d # c => pc'[d] = pc[d]
    BY <2>1 DEF TypeOK
  <2>3. /\ peers'[meet[c]] = Append(q, c)
        /\ \A o \in Conns : o # meet[c] => peers'[o] = peers[o]
    BY <1>2, <2>1 DEF TypeOK
  <2>4. /\ Len(Append(q, c)) = Len(q) + 1
        /\ DOMAIN Append(q, c) = 1..Len(q) + 1
        /\ \A k \in 1..Len(q) : Append(q, c)[k] = q[k]
        /\ Append(q, c)[Len(q) + 1] = c
        /\ DOMAIN q = 1..Len(q)
    BY <1>2
  <2>5. \A k \in DOMAIN q : q[k] # c
    BY <1>2, <1>3 DEF Range
  <2>6. \A k, l \in DOMAIN q : q[k] = q[l] => k = l
    BY <1>2 DEF SeatsOK, TwoSeats
  <2> DEFINE p == Append(q, c)
  <2> HIDE DEF q, p
  <2>7. MeetHeld'
    BY <1>1, <2>2 DEF SeatsOK, MeetHeld
  <2>8. TwoSeats'
    <3>1. Len(p) <= 2
      BY <1>2, <1>5, <2>4 DEF p
    <3>2. ASSUME NEW k \in DOMAIN p, NEW l \in DOMAIN p, p[k] = p[l]
          PROVE  k = l
      BY <1>2, <2>4, <2>5, <2>6, <3>2 DEF p
    <3> QED
      BY <2>3, <3>1, <3>2 DEF SeatsOK, TwoSeats, p
  <2>9. SeatIsServed'
    <3> SUFFICES ASSUME NEW o \in Conns, NEW d \in Range(peers'[o])
                 PROVE  meet[d] = o /\ pc'[d] \in Seated
      BY <1>1 DEF SeatIsServed, Seated
    <3>1. d \in Range(peers[o]) \/ (d = c /\ o = meet[c])
      <4>1. CASE o # meet[c]
        BY <2>3, <4>1
      <4>2. CASE o = meet[c]
        <5>1. PICK k \in DOMAIN p : d = p[k]
          BY <2>3, <4>2 DEF Range, p
        <5>2. CASE k = Len(q) + 1
          BY <2>4, <4>2, <5>1, <5>2 DEF p
        <5>3. CASE k # Len(q) + 1
          <6>1. k \in DOMAIN q /\ d = q[k]
            BY <1>2, <2>4, <5>1, <5>3 DEF p
          <6> QED
            BY <4>2, <6>1 DEF Range, q
        <5> QED
          BY <5>2, <5>3
      <4> QED
        BY <4>1, <4>2
    <3>2. CASE d = c /\ o = meet[c]
      BY <2>2, <3>2 DEF Seated
    <3>3. CASE d \in Range(peers[o])
      <4>1. d \in Conns
        BY <3>3 DEF TypeOK, Range
      <4>2. meet[d] = o /\ pc[d] \in Seated
        BY <3>3 DEF SeatsOK, SeatIsServed, Seated
      <4> QED
        BY <1>3, <2>2, <3>3, <4>1, <4>2
    <3> QED
      BY <3>1, <3>2, <3>3
  <2>10. NoMeetLeak'
    <3> SUFFICES ASSUME NEW m \in Meets,
                        meets[m] # None, peers'[meets[m]] = <<>>
                 PROVE  \E d \in Conns : pc'[d] = "add" /\ meet[d] = meets[m]
      BY <1>1 DEF NoMeetLeak
    <3>1. meets[m] \in Conns
      BY DEF TypeOK
    <3>2. Append(q, c) # <<>>
      BY <1>2, <2>4
    <3>3. meets[m] # meet[c]
      BY <2>3, <3>2
    <3>4. PICK d \in Conns : pc[d] = "add" /\ meet[d] = meets[m]
      BY <2>3, <3>1, <3>3 DEF SeatsOK, NoMeetLeak
    <3> QED
      BY <2>2, <3>3, <3>4
  <2> QED
    BY <2>7, <2>8, <2>9, <2>10 DEF SeatsOK
<1> QED
  BY <1>4, <1>5

\* What Cleanup does to the lists and to the map.
LEMMA CleanupEffect ==
    ASSUME TypeOK, SeatsOK, NEW c \in Conns, Cleanup(c)
    PROVE  \/ /\ \A o \in Conns : c \notin Range(peers[o])
              /\ UNCHANGED <<meets, peers>>
           \/ \E i \in 1..Len(peers[meet[c]]) :
                LET rest == RemoveAt(peers[meet[c]], i)
                IN  /\ peers[meet[c]][i] = c
                    /\ peers' = [peers EXCEPT ![meet[c]] = rest]
                    /\ rest # <<>> => meets' = meets
                    /\ rest = <<>> => meets' = [meets EXCEPT ![meetOf[c]] = None]
<1> DEFINE q == peers[meet[c]]
           i == CHOOSE k \in DOMAIN q : q[k] = c
           rest == RemoveAt(q, i)
<1>1. meet[c] \in Conns /\ q \in Seq(Conns)
  BY HeldMeet DEF SeatsOK, Cleanup
<1>2. CASE c \notin Range(q)
  <2>1. \A o \in Conns : c \in Range(peers[o]) => o = meet[c]
    BY DEF SeatsOK, SeatIsServed
  <2> QED
    BY <1>2, <2>1 DEF Cleanup
<1>3. CASE c \in Range(q)
  <2>1. i \in DOMAIN q /\ q[i] = c
    BY <1>3 DEF Range
  <2>2. i \in 1..Len(q)
    BY <1>1, <2>1
  <2>3. /\ peers' = [peers EXCEPT ![meet[c]] = rest]
        /\ rest # <<>> => meets' = meets
        /\ rest = <<>> => meets' = [meets EXCEPT ![meetOf[c]] = None]
    BY <1>3 DEF Cleanup
  <2> HIDE DEF i
  <2> QED
    BY <2>1, <2>2, <2>3
<1> QED
  BY <1>2, <1>3

LEMMA CleanupStep ==
    ASSUME TypeOK, SeatsOK, NEW c \in Conns, Cleanup(c)
    PROVE  SeatsOK'
<1>1. /\ pc[c] = "cleanup" /\ pc' = [pc EXCEPT ![c] = "done"]
      /\ meet' = meet
  BY DEF Cleanup, Goto
<1>2. /\ pc'[c] = "done"
      /\ \A d \in Conns : d # c => pc'[d] = pc[d]
  BY <1>1 DEF TypeOK
<1>3. /\ meet[c] \in Conns /\ peers[meet[c]] \in Seq(Conns)
      /\ meetOf[meet[c]] = meetOf[c] /\ meetOf[c] \in Meets
  BY <1>1, HeldMeet, MeetOfAssumption, NoneAssumption DEF SeatsOK, MeetHeld
<1>4. \/ /\ \A o \in Conns : c \notin Range(peers[o])
         /\ UNCHANGED <<meets, peers>>
      \/ \E i \in 1..Len(peers[meet[c]]) :
           /\ peers[meet[c]][i] = c
           /\ peers' = [peers EXCEPT ![meet[c]] = RemoveAt(peers[meet[c]], i)]
           /\ RemoveAt(peers[meet[c]], i) # <<>> => meets' = meets
           /\ RemoveAt(peers[meet[c]], i) = <<>> =>
                 meets' = [meets EXCEPT ![meetOf[c]] = None]
  BY CleanupEffect
<1> DEFINE Shrunk(o) ==
             /\ Len(peers'[o]) <= 2
             /\ \A k, l \in DOMAIN peers'[o] :
                   peers'[o][k] = peers'[o][l] => k = l
             /\ Range(peers'[o]) \subseteq Range(peers[o]) \ {c}
             /\ o # meet[c] => peers'[o] = peers[o]
<1>5. ASSUME NEW o \in Conns PROVE Shrunk(o)
  <2>1. CASE c \notin Range(peers[o]) /\ peers'[o] = peers[o]
    BY <2>1 DEF SeatsOK, TwoSeats
  <2>2. CASE ~(c \notin Range(peers[o]) /\ peers'[o] = peers[o])
    <3>1. PICK i \in 1..Len(peers[meet[c]]) :
            /\ peers[meet[c]][i] = c
            /\ peers' = [peers EXCEPT ![meet[c]] = RemoveAt(peers[meet[c]], i)]
      BY <1>4, <2>2
    <3>2. o = meet[c]
      BY <1>3, <2>2, <3>1 DEF TypeOK, SeatsOK, SeatIsServed
    <3>3. peers'[o] = RemoveAt(peers[o], i) /\ peers[o][i] = c
      BY <1>3, <3>1, <3>2 DEF TypeOK
    <3>4. /\ Len(peers'[o]) <= 2
          /\ \A k, l \in DOMAIN peers'[o] :
                peers'[o][k] = peers'[o][l] => k = l
          /\ c \notin Range(peers'[o])
      BY <1>3, <3>2, <3>3, TwoSeatsRemoveAt DEF SeatsOK, TwoSeats
    <3>5. Range(peers'[o]) \subseteq Range(peers[o])
      BY <1>3, <3>2, <3>3, RemoveAtRange
    <3> QED
      BY <3>2, <3>4, <3>5
  <2> QED
    BY <2>1, <2>2
<1>6. ASSUME NEW m \in Meets
      PROVE  /\ meets'[m] = meets[m] \/ meets'[m] = None
             /\ meets'[m] # None /\ meets'[m] = meet[c] =>
                   peers'[meet[c]] # <<>> \/ peers' = peers
  <2>1. CASE meets' = meets /\ peers' = peers
    BY <2>1
  <2>2. CASE ~(meets' = meets /\ peers' = peers)
    <3>1. PICK i \in 1..Len(peers[meet[c]]) :
           /\ peers' = [peers EXCEPT ![meet[c]] = RemoveAt(peers[meet[c]], i)]
           /\ RemoveAt(peers[meet[c]], i) # <<>> => meets' = meets
           /\ RemoveAt(peers[meet[c]], i) = <<>> =>
                 meets' = [meets EXCEPT ![meetOf[c]] = None]
      BY <1>4, <2>2
    <3>2. peers'[meet[c]] = RemoveAt(peers[meet[c]], i)
      BY <1>3, <3>1 DEF TypeOK
    <3>3. CASE RemoveAt(peers[meet[c]], i) # <<>>
      BY <3>1, <3>2, <3>3
    <3>4. CASE RemoveAt(peers[meet[c]], i) = <<>>
      <4>1. /\ meets'[meetOf[c]] = None
            /\ m # meetOf[c] => meets'[m] = meets[m]
        BY <1>3, <3>1, <3>4 DEF TypeOK
      <4>2. m # meetOf[c] => meets[m] # meet[c] \/ meets[m] = None
        BY <1>3 DEF SeatsOK, MeetHeld
      <4> QED
        BY <4>1, <4>2
    <3> QED
      BY <3>3, <3>4
  <2> QED
    BY <2>1, <2>2
<1>7. MeetHeld'
  BY <1>1, <1>2, <1>6 DEF SeatsOK, MeetHeld
<1>8. TwoSeats'
  BY <1>5 DEF TwoSeats
<1>9. SeatIsServed'
  <2> SUFFICES ASSUME NEW o \in Conns, NEW d \in Range(peers'[o])
               PROVE  meet[d] = o /\ pc'[d] \in Seated
    BY <1>1 DEF SeatIsServed, Seated
  <2>1. d \in Range(peers[o]) /\ d # c
    BY <1>5
  <2>2. d \in Conns
    BY <2>1 DEF TypeOK, Range
  <2>3. meet[d] = o /\ pc[d] \in Seated
    BY <2>1 DEF SeatsOK, SeatIsServed, Seated
  <2> QED
    BY <1>2, <2>1, <2>2, <2>3
<1>10. NoMeetLeak'
  <2> SUFFICES ASSUME NEW m \in Meets,
                      meets'[m] # None, peers'[meets'[m]] = <<>>
               PROVE  \E d \in Conns : pc'[d] = "add" /\ meet[d] = meets'[m]
    BY <1>1 DEF NoMeetLeak
  <2>1. meets'[m] = meets[m] /\ meets[m] \in Conns
    BY <1>6 DEF TypeOK
  <2>2. peers'[meets[m]] = peers[meets[m]]
    BY <1>5, <1>6, <2>1
  <2>3. PICK d \in Conns : pc[d] = "add" /\ meet[d] = meets[m]
    BY <2>1, <2>2 DEF SeatsOK, NoMeetLeak
  <2> QED
    BY <1>1, <1>2, <2>1, <2>3
<1> QED
  BY <1>7, <1>8, <1>9, <1>10 DEF SeatsOK

-----------------------------------------------------------------------------
(* Who is let in.                                                          *)

\* Of the ways in which a sequence of messages changes, only appending an
\* "admit" puts one there.
LEMMA HoldsTail ==
    ASSUME NEW q \in Seq(Msgs), q # <<>>
    PROVE  /\ Holds(Tail(q)) => Holds(q)
           /\ Head(q).type = "admit" => Holds(q)
<1>1. /\ Len(Tail(q)) = Len(q) - 1
      /\ \A i \in 1..Len(q) - 1 : Tail(q)[i] = q[i + 1]
      /\ Head(q) = q[1] /\ 1 \in DOMAIN q
  OBVIOUS
<1>2. ASSUME NEW i \in DOMAIN Tail(q)
      PROVE  i + 1 \in DOMAIN q /\ Tail(q)[i] = q[i + 1]
  <2>1. i \in 1..Len(q) - 1
    BY <1>1
  <2> QED
    BY <1>1, <2>1
<1> QED
  BY <1>1, <1>2 DEF Holds

LEMMA HoldsAppend ==
    ASSUME NEW q \in Seq(Msgs), NEW m \in Msgs, Holds(Append(q, m))
    PROVE  Holds(q) \/ m.type = "admit"
<1>1. PICK i \in DOMAIN Append(q, m) : Append(q, m)[i].type = "admit"
  BY DEF Holds
<1>2. i \in 1..Len(q) + 1
  BY <1>1
<1>3. CASE i = Len(q) + 1
  BY <1>1, <1>3
<1>4. CASE i # Len(q) + 1
  <2>1. i \in DOMAIN q /\ Append(q, m)[i] = q[i]
    BY <1>2, <1>4
  <2> QED
    BY <1>1, <2>1 DEF Holds
<1> QED
  BY <1>3, <1>4

LEMMA HoldsWrite ==
    ASSUME TypeOK, NEW D, NEW m \in Msgs, Write(D, m), NEW c \in Conns,
           Holds(toPage'[c])
    PROVE  Holds(toPage[c]) \/ (c \in D /\ m.type = "admit")
<1>1. toPage[c] \in Seq(Msgs)
  BY DEF TypeOK
<1>2. \/ toPage'[c] = toPage[c]
      \/ c \in D /\ toPage'[c] = Append(toPage[c], m)
  BY DEF Write
<1> QED
  BY <1>1, <1>2, HoldsAppend

LEMMA HoldsSend ==
    ASSUME TypeOK, NEW c \in Conns, NEW m \in Msgs, Send(c, <<m>>),
           NEW d \in Conns, Holds(toServer'[d])
    PROVE  Holds(toServer[d]) \/ (d = c /\ m.type = "admit")
<1>1. toServer[c] \in Seq(Msgs) /\ toServer[c] \o <<m>> = Append(toServer[c], m)
  BY DEF TypeOK
<1>2. /\ toServer'[c] = toServer[c] \o <<m>>
      /\ \A x \in Conns : x # c => toServer'[x] = toServer[x]
  BY DEF Send, TypeOK
<1>3. CASE d = c
  BY <1>1, <1>2, <1>3, HoldsAppend
<1>4. CASE d # c
  BY <1>2, <1>4
<1> QED
  BY <1>3, <1>4

LEMMA HoldsKnock ==
    /\ ~Holds(<<>>)
    /\ \A t \in Types : t # "admit" => ~Holds(<<Msg(t)>>)
    /\ \A c \in Conns : /\ ~Holds(<<>> \o <<>>)
                        /\ ~Holds(<<>> \o <<MsgAbout("knock", c)>>)
                        /\ ~Holds(<<Msg("force-join")>> \o <<>>)
                        /\ ~Holds(<<Msg("force-join")>> \o <<MsgAbout("knock", c)>>)
<1>1. \A t : Msg(t).type = t /\ \A c : MsgAbout(t, c).type = t
  BY DEF Msg, MsgAbout
<1> HIDE DEF Msg, MsgAbout
<1>2. ~Holds(<<>>) /\ ~Holds(<<>> \o <<>>)
  BY DEF Holds
<1>3. \A m : m.type # "admit" => ~Holds(<<m>>) /\ ~Holds(<<>> \o <<m>>) /\ ~Holds(<<m>> \o <<>>)
  BY DEF Holds
<1>4. \A m, n \in Msgs :
         m.type # "admit" /\ n.type # "admit" => ~Holds(<<m>> \o <<n>>)
  <2> SUFFICES ASSUME NEW m \in Msgs, NEW n \in Msgs,
                      m.type # "admit", n.type # "admit"
               PROVE  ~Holds(<<m>> \o <<n>>)
    OBVIOUS
  <2>1. <<m>> \in Seq(Msgs) /\ <<m>> \o <<n>> = Append(<<m>>, n)
    OBVIOUS
  <2> QED
    BY <1>3, <2>1, HoldsAppend
<1> QED
  BY <1>1, <1>2, <1>3, <1>4, MsgTypes DEF Types

\* A host who was in the meeting once was in it.
LEMMA HostStays ==
    ASSUME TypeOK, NEW m, HostCame(m),
           \A h \in Conns : screen[h] \in {"meeting", "over"}
                               => screen'[h] \in {"meeting", "over"}
    PROVE  HostCame(m)'
BY DEF HostCame

\* A step that puts no "admit" anywhere and lets nobody in.
LEMMA NoAdmitStep ==
    ASSUME TypeOK, AdmitsFromInside,
           \A h \in Conns : screen[h] \in {"meeting", "over"}
                               => screen'[h] \in {"meeting", "over"},
           \A c \in Conns :
              /\ Holds(toServer'[c]) => Holds(toServer[c]) \/ HostCame(meetOf[c])'
              /\ Holds(toPage'[c]) => Holds(toPage[c]) \/ HostCame(meetOf[c])'
              /\ screen'[c] = "meeting" => screen[c] = "meeting" \/ HostCame(meetOf[c])'
    PROVE  AdmitsFromInside'
<1> SUFFICES ASSUME NEW c \in Conns,
                    Holds(toServer'[c]) \/ Holds(toPage'[c]) \/ screen'[c] = "meeting"
             PROVE  HostCame(meetOf[c])'
  BY DEF AdmitsFromInside
<1>1. HostCame(meetOf[c])' \/ HostCame(meetOf[c])
  BY DEF AdmitsFromInside
<1> QED
  BY <1>1, HostStays

LEMMA AdmitsStep ==
    ASSUME TypeOK, SeatsOK, AdmitsFromInside, [Next]_vars
    PROVE  AdmitsFromInside'
<1>1. ASSUME NEW c \in Conns,
             \/ LookUp(c) \/ Evict(c) \/ Add(c) \/ Cleanup(c)
      PROVE  AdmitsFromInside'
  <2>1. UNCHANGED <<toServer, screen>>
    BY <1>1 DEF LookUp, Evict, Add, Cleanup
  <2>2. \/ UNCHANGED toPage
        \/ \E D : \E t \in Types \ {"admit"} : Write(D, Msg(t))
    <3>1. CASE LookUp(c)
      BY <3>1 DEF LookUp, Types
    <3>2. CASE Evict(c)
      BY <3>2 DEF Evict, Types
    <3>3. CASE Add(c)
      BY <3>3 DEF Add, Types
    <3>4. CASE Cleanup(c)
      <4>1. {"ended", "left"} \subseteq Types \ {"admit"}
        BY DEF Types
      <4>2. \/ UNCHANGED toPage
            \/ \E D : Write(D, Msg(IF peerIndex[c] = 0 THEN "ended" ELSE "left"))
        BY <3>4 DEF Cleanup
      <4> QED
        BY <4>1, <4>2
    <3> QED
      BY <1>1, <3>1, <3>2, <3>3, <3>4
  <2>3. \A d \in Conns : Holds(toPage'[d]) => Holds(toPage[d])
    <3>1. \A t \in Types : Msg(t) \in Msgs /\ Msg(t).type = t
      BY MsgTypes DEF Msg
    <3> QED
      BY <2>2, <3>1, HoldsWrite
  <2> QED
    BY <2>1, <2>3, NoAdmitStep
<1>2. ASSUME NEW c \in Conns,
             \/ ReadDuplicate(c) \/ LeaveDuplicate(c) \/ ReadFails(c)
             \/ Refuse(c) \/ CloseTab(c)
      PROVE  AdmitsFromInside'
  <2>1. UNCHANGED <<toPage, screen>>
    BY <1>2 DEF ReadDuplicate, LeaveDuplicate, ReadFails, Refuse, CloseTab, page
  <2>2. \/ UNCHANGED toServer
        \/ /\ toServer[c] # <<>>
           /\ toServer' = [toServer EXCEPT ![c] = Tail(@)]
    BY <1>2 DEF ReadDuplicate, LeaveDuplicate, ReadFails, Refuse, CloseTab, page
  <2>3. \A d \in Conns : Holds(toServer'[d]) => Holds(toServer[d])
    <3>1. CASE UNCHANGED toServer
      BY <3>1
    <3>2. CASE toServer[c] # <<>> /\ toServer' = [toServer EXCEPT ![c] = Tail(@)]
      BY <3>2, HoldsTail DEF TypeOK
    <3> QED
      BY <2>2, <3>1, <3>2
  <2> QED
    BY <2>1, <2>3, NoAdmitStep
<1>3. ASSUME NEW c \in Conns, Relay(c) PROVE AdmitsFromInside'
  <2> DEFINE q == peers[meet[c]]
             msg == Head(toServer[c])
             D == {q[i] : i \in {k \in DOMAIN q : k # peerIndex[c] + 1}}
  <2>1. /\ toServer[c] # <<>> /\ toServer[c] \in Seq(Msgs) /\ msg \in Msgs
        /\ toServer' = [toServer EXCEPT ![c] = Tail(@)]
        /\ Write(D, msg) /\ screen' = screen
        /\ pc[c] = "relay"
    BY <1>3 DEF Relay, TypeOK
  <2>2. \A d \in Conns : Holds(toServer'[d]) => Holds(toServer[d])
    BY <2>1, HoldsTail DEF TypeOK
  <2>3. meet[c] \in Conns /\ q \in Seq(Conns) /\ meetOf[meet[c]] = meetOf[c]
    BY <2>1, HeldMeet, NoneAssumption DEF SeatsOK, MeetHeld
  <2>4. ASSUME NEW d \in D PROVE meetOf[d] = meetOf[c]
    <3>1. d \in Range(q) /\ d \in Conns
      BY <2>3 DEF Range
    <3>2. meet[d] = meet[c]
      BY <2>3, <3>1 DEF SeatsOK, SeatIsServed
    <3> QED
      BY <2>3, <3>1, <3>2, NoneAssumption DEF SeatsOK, MeetHeld
  <2>5. msg.type = "admit" => HostCame(meetOf[c])'
    BY <2>1, HoldsTail, HostStays DEF AdmitsFromInside
  <2> HIDE DEF D, msg, q
  <2>6. \A d \in Conns : Holds(toPage'[d]) => Holds(toPage[d]) \/ HostCame(meetOf[d])'
    BY <2>1, <2>4, <2>5, HoldsWrite
  <2> QED
    BY <2>1, <2>2, <2>6, NoAdmitStep
<1>4. ASSUME NEW c \in Conns, Connect(c) PROVE AdmitsFromInside'
  <2>1. /\ UNCHANGED toPage
        /\ screen[c] \in {"entry", "clear", "warned"}
        /\ screen'[c] = IF isHost[c] THEN "meeting" ELSE "waiting"
        /\ \A d \in Conns : d # c => screen'[d] = screen[d]
    BY <1>4 DEF Connect, Screen, TypeOK
  <2>2. \A d \in Conns : Holds(toServer'[d]) => Holds(toServer[d])
    <3>1. PICK q : q \in { (IF force THEN <<Msg("force-join")>> ELSE <<>>)
                           \o (IF isHost[c] THEN <<>> ELSE <<MsgAbout("knock", c)>>)
                           : force \in BOOLEAN }
                   /\ toServer' = [toServer EXCEPT ![c] = q]
      BY <1>4 DEF Connect
    <3>2. ~Holds(q)
      BY <3>1, HoldsKnock
    <3> QED
      BY <3>1, <3>2 DEF TypeOK
  <2>3. isHost[c] => HostCame(meetOf[c])'
    BY <2>1 DEF HostCame
  <2> QED
    BY <2>1, <2>2, <2>3, NoAdmitStep
<1>5. ASSUME NEW c \in Conns, CheckUserInMeet(c) PROVE AdmitsFromInside'
  <2>1. /\ UNCHANGED <<toServer, toPage>>
        /\ screen[c] = "entry" /\ screen'[c] \in {"warned", "clear"}
        /\ \A d \in Conns : d # c => screen'[d] = screen[d]
    BY <1>5 DEF CheckUserInMeet, Screen, TypeOK
  <2> QED
    BY <2>1, NoAdmitStep
<1>6. ASSUME NEW c \in Conns, PageReceives(c) PROVE AdmitsFromInside'
  <2> DEFINE msg == Head(toPage[c])
  <2>1. /\ toPage[c] # <<>> /\ toPage[c] \in Seq(Msgs)
        /\ toPage' = [toPage EXCEPT ![c] = Tail(@)]
    BY <1>6 DEF PageReceives, TypeOK
  <2>2. \A d \in Conns : Holds(toPage'[d]) => Holds(toPage[d])
    BY <2>1, HoldsTail DEF TypeOK
  <2>3. /\ \A h \in Conns : screen[h] \in {"meeting", "over"}
                               => screen'[h] \in {"meeting", "over"}
        /\ \A d \in Conns : screen'[d] = "meeting" =>
              screen[d] = "meeting" \/ (d = c /\ msg.type = "admit")
    BY <1>6 DEF PageReceives, Screen, TypeOK
  <2>4. \/ toServer' = toServer
        \/ \E t \in Types \ {"admit"} : Send(c, <<Msg(t)>>)
    BY <1>6 DEF PageReceives, Types
  <2>5. \A d \in Conns : Holds(toServer'[d]) => Holds(toServer[d])
    <3>1. \A t \in Types : Msg(t) \in Msgs /\ Msg(t).type = t
      BY MsgTypes DEF Msg
    <3> QED
      BY <2>4, <3>1, HoldsSend
  <2>6. msg.type = "admit" => HostCame(meetOf[c])'
    BY <2>1, <2>3, HoldsTail, HostStays DEF AdmitsFromInside
  <2> QED
    BY <2>2, <2>3, <2>5, <2>6, NoAdmitStep
<1>7. ASSUME NEW c \in Conns, AnswerKnock(c) PROVE AdmitsFromInside'
  <2>1. /\ screen[c] = "meeting" /\ UNCHANGED <<toPage, screen>>
        /\ \E t \in {"admit", "deny"} : Send(c, <<Msg(t)>>)
    BY <1>7 DEF AnswerKnock
  <2>2. HostCame(meetOf[c])'
    BY <2>1, HostStays DEF AdmitsFromInside
  <2>3. \A d \in Conns : Holds(toServer'[d]) => Holds(toServer[d]) \/ d = c
    BY <2>1, HoldsSend, MsgTypes DEF Types
  <2> QED
    BY <2>1, <2>2, <2>3, NoAdmitStep
<1>8. CASE UNCHANGED vars
  BY <1>8, NoAdmitStep DEF vars, page
<1> QED
  BY <1>1, <1>2, <1>3, <1>4, <1>5, <1>6, <1>7, <1>8 DEF Next, Handler, Page

-----------------------------------------------------------------------------
(* The inductive invariant and the theorems.                               *)

LEMMA InvInit == Init => IInv
<1> SUFFICES ASSUME Init PROVE IInv
  OBVIOUS
<1>1. MeetHeld /\ TwoSeats /\ SeatIsServed /\ NoMeetLeak
  BY DEF Init, MeetHeld, TwoSeats, SeatIsServed, NoMeetLeak, Range
<1>2. AdmitsFromInside
  BY HoldsKnock DEF Init, AdmitsFromInside
<1> QED
  BY <1>1, <1>2, TypeInit DEF IInv

LEMMA InvStep == IInv /\ [Next]_vars => IInv'
<1> SUFFICES ASSUME IInv, [Next]_vars PROVE IInv'
  OBVIOUS
<1>1. TypeOK /\ SeatsOK
  BY DEF IInv, SeatsOK
<1>2. TypeOK'
  BY <1>1, TypeStep DEF SeatsOK
<1> USE <1>1
<1>3. ASSUME NEW c \in Conns,
             \/ Connect(c) \/ Refuse(c) \/ ReadDuplicate(c)
             \/ LeaveDuplicate(c) \/ ReadFails(c)
      PROVE  SeatsOK'
  <2>1. UNCHANGED <<meets, peers, meet>>
    BY <1>3 DEF Connect, Refuse, ReadDuplicate, LeaveDuplicate, ReadFails
  <2>2. CASE Connect(c)
    BY <2>1, <2>2, QuietStep DEF Connect, Goto, PCs, Outside, Seated
  <2>3. CASE Refuse(c)
    BY <2>1, <2>3, QuietStep DEF Refuse, Goto, PCs, Outside, Seated
  <2>4. CASE ReadDuplicate(c)
    <3>1. pc[c] = "dup" /\ (pc' = pc \/ pc' = [pc EXCEPT ![c] = "evict"])
      BY <2>4 DEF ReadDuplicate, Goto
    <3> QED
      BY <2>1, <3>1, QuietStep, StillStep DEF PCs, Outside, Seated
  <2>5. CASE LeaveDuplicate(c)
    BY <2>1, <2>5, QuietStep DEF LeaveDuplicate, Goto, PCs, Outside, Seated
  <2>6. CASE ReadFails(c)
    BY <2>1, <2>6, QuietStep DEF ReadFails, Goto, PCs, Outside, Seated
  <2> QED
    BY <1>3, <2>2, <2>3, <2>4, <2>5, <2>6
<1>4. ASSUME NEW c \in Conns,
             \/ CheckUserInMeet(c) \/ Relay(c) \/ PageReceives(c)
             \/ AnswerKnock(c) \/ CloseTab(c)
      PROVE  SeatsOK'
  BY <1>4, StillStep
     DEF CheckUserInMeet, Relay, PageReceives, AnswerKnock, CloseTab, server
<1>5. ASSUME UNCHANGED vars PROVE SeatsOK'
  <2>1. UNCHANGED <<meets, peers, meet, pc>>
    BY <1>5 DEF vars, server
  <2> QED
    BY <2>1, StillStep
<1>6. SeatsOK'
  <2>1. CASE UNCHANGED vars
    BY <1>5, <2>1
  <2>2. ASSUME NEW c \in Conns, Handler(c) PROVE SeatsOK'
    BY <1>3, <1>4, <2>2, LookUpStep, EvictStep, AddStep, CleanupStep
       DEF Handler
  <2>3. ASSUME NEW c \in Conns, Page(c) PROVE SeatsOK'
    BY <1>3, <1>4, <2>3 DEF Page
  <2> QED
    BY <2>1, <2>2, <2>3 DEF Next
<1>7. AdmitsFromInside'
  BY AdmitsStep DEF IInv
<1> QED
  BY <1>2, <1>6, <1>7 DEF IInv, SeatsOK

\* IInv, the conjunction of the type invariant, the ownership of the Meets and
\* the three safety invariants, holds in every reachable state of HandleWS:
\* none of its parts can be proved without the others.
THEOREM Inductive == Spec => []IInv
<1>1. Init => IInv
  BY InvInit
<1>2. IInv /\ [Next]_vars => IInv'
  BY InvStep
<1> QED
  BY <1>1, <1>2, PTL DEF Spec

\* Every variable keeps its type; in particular a connection's peerIndex, taken
\* from the length of the list under mu, is 0 or 1.
THEOREM TypeCorrect == Spec => []TypeOK
<1>1. IInv => TypeOK
  BY DEF IInv
<1> QED
  BY <1>1, Inductive, PTL

\* However many connections race for a meeting, it seats at most two, none of
\* them twice, although duplicates are looked for, evicted and counted in three
\* critical sections.
THEOREM NeverThreeSeats == Spec => []TwoSeats
<1>1. IInv => TwoSeats
  BY DEF IInv
<1> QED
  BY <1>1, Inductive, PTL

\* Every seat belongs to a running handler that holds that meeting: eviction,
\* refusal and return leave no dead connection in a list.
THEOREM SeatsAreServed == Spec => []SeatIsServed
<1>1. IInv => SeatIsServed
  BY DEF IInv
<1> QED
  BY <1>1, Inductive, PTL

\* The global map keeps no meeting that everybody has left.
THEOREM MeetsNeverLeak == Spec => []NoMeetLeak
<1>1. IInv => NoMeetLeak
  BY DEF IInv
<1> QED
  BY <1>1, Inductive, PTL

\* No guest's page is ever in a meeting that no host has come to: however the
\* relay's indexes go stale, an "admit" stays among the connections of one
\* meeting, and the first one to send it was a host.
THEOREM GuestsAreAdmitted == Spec => []AdmittedByHost
<1>1. IInv => AdmittedByHost
  BY DEF IInv, AdmittedByHost, AdmitsFromInside
<1> QED
  BY <1>1, Inductive, PTL
=============================================================================
