------------------------ MODULE RenegotiationProofs ------------------------
(***************************************************************************)
(* Proofs about Renegotiation: its type invariant, that answers match the  *)
(* outstanding offer and that no added track is forgotten, for any number  *)
(* of tracks.                                                              *)
(***************************************************************************)
EXTENDS Renegotiation, TLAPS

-----------------------------------------------------------------------------
(* Messages.                                                               *)

LEMMA MsgsMade ==
    ASSUME NEW c \in Calls \cup {None}
    PROVE  /\ Offer(c) \in Msgs /\ Offer(c).type = "offer" /\ Offer(c).call = c
           /\ Answer(c) \in Msgs /\ Answer(c).type = "answer" /\ Answer(c).call = c
BY DEF Offer, Answer, Msgs

\* What is left after the first message is read.
LEMMA TailFacts ==
    ASSUME NEW s \in Seq(Msgs), s # <<>>
    PROVE  /\ Tail(s) \in Seq(Msgs)
           /\ Head(s) \in Msgs
           /\ 1 \in DOMAIN s
           /\ Head(s) = s[1]
           /\ \A i \in DOMAIN Tail(s) : /\ i \in Nat \ {0}
                                        /\ i + 1 \in DOMAIN s
                                        /\ Tail(s)[i] = s[i + 1]
OBVIOUS

LEMMA AppendFacts ==
    ASSUME NEW s \in Seq(Msgs), NEW m \in Msgs
    PROVE  /\ Append(s, m) \in Seq(Msgs)
           /\ Len(s) + 1 \notin DOMAIN s
           /\ DOMAIN Append(s, m) = DOMAIN s \cup {Len(s) + 1}
           /\ \A i \in DOMAIN s : Append(s, m)[i] = s[i]
           /\ Append(s, m)[Len(s) + 1] = m
OBVIOUS

LEMMA PrefixFacts ==
    ASSUME NEW s \in Seq(Msgs), NEW n \in 0..Len(s)
    PROVE  /\ SubSeq(s, 1, n) \in Seq(Msgs)
           /\ \A i \in DOMAIN SubSeq(s, 1, n) : /\ i \in DOMAIN s
                                                /\ SubSeq(s, 1, n)[i] = s[i]
OBVIOUS

LEMMA TypeStep ==
    TypeOK /\ [Next]_vars => TypeOK'
<1> SUFFICES ASSUME TypeOK, [Next]_vars PROVE TypeOK'
    OBVIOUS
<1> USE ExistingAssumption, NoneAssumption DEF TypeOK, Calls, Goto, Closed, SignalingStates,
        pion, peer, pageVars
<1>1. ASSUME NEW t \in Tracks, OnTrackAdd(t) PROVE TypeOK'
    BY <1>1 DEF OnTrackAdd
<1>2. ASSUME NEW t \in Tracks, ScheduleRenegotiate(t) PROVE TypeOK'
    BY <1>2 DEF ScheduleRenegotiate
<1>3. ASSUME NEW t \in Tracks, TimerFires(t) PROVE TypeOK'
    BY <1>3 DEF TimerFires
<1>4. ASSUME NEW t \in Tracks, ClearTimer(t) PROVE TypeOK'
    BY <1>4 DEF ClearTimer
<1>5. CASE AddExistingTracks
    BY <1>5 DEF AddExistingTracks
<1>6. ASSUME NEW c \in Calls, CreateOffer(c) PROVE TypeOK'
    BY <1>6 DEF CreateOffer
<1>7. ASSUME NEW c \in Calls, SetOffer(c) PROVE TypeOK'
  <2>1. CASE ~Closed /\ signaling = "stable" /\ lastOffer = c
    BY <1>7, <2>1 DEF SetOffer
  <2>2. CASE ~(~Closed /\ signaling = "stable" /\ lastOffer = c)
    BY <1>7, <2>2 DEF SetOffer
  <2> QED
    BY <2>1, <2>2
<1>8. ASSUME NEW c \in Calls, SendOffer(c) PROVE TypeOK'
    BY <1>8, AppendFacts, MsgsMade DEF SendOffer, SendPage
<1>9. CASE HandleOffer
    BY <1>9, TailFacts DEF HandleOffer, Reads
<1>10. CASE AnswerOffer
    BY <1>10 DEF AnswerOffer
<1>11. CASE ReplyAnswer
    BY <1>11, AppendFacts, MsgsMade DEF ReplyAnswer, SendPage
<1>12. CASE HandleAnswer
    BY <1>12, TailFacts DEF HandleAnswer, Reads
<1>13. CASE HandleClosed
    BY <1>13 DEF HandleClosed
<1>14. CASE PageNewPC
    BY <1>14 DEF PageNewPC
<1>15. CASE PageCreateOffer
    BY <1>15 DEF PageCreateOffer
<1>16. CASE PageSetOffer
    BY <1>16 DEF PageSetOffer
<1>17. CASE PageSendOffer
    BY <1>17, AppendFacts, MsgsMade DEF PageSendOffer
<1>18. CASE PageTakesAnswer
    BY <1>18, TailFacts DEF PageTakesAnswer, Dequeues
<1>19. CASE PageDropsOffer
    BY <1>19, TailFacts DEF PageDropsOffer, Dequeues
<1>20. CASE PageTakesOffer
  <2>1. Head(toPage).call \in Calls \cup {None} /\ toPage' \in Seq(Msgs)
    BY <1>20, TailFacts DEF PageTakesOffer, Dequeues, Msgs
  <2> QED
    BY <1>20, <2>1 DEF PageTakesOffer
<1>21. CASE PageAnswers
    BY <1>21, AppendFacts, MsgsMade DEF PageAnswers
<1>22. CASE CloseTab
  <2>1. PICK n \in 0..Len(toServer) : toServer' = SubSeq(toServer, 1, n)
    BY <1>22 DEF CloseTab
  <2>2. toServer' \in Seq(Msgs)
    BY <2>1, PrefixFacts
  <2>3. tab' = FALSE /\ UNCHANGED <<pion, peer, handler, toPage, page, pageSignaling, pageTask>>
    BY <1>22 DEF CloseTab
  <2>4. tab' \in BOOLEAN
    BY <2>3
  <2> QED
    BY <2>2, <2>3, <2>4
<1>23. CASE UNCHANGED vars
    BY <1>23 DEF vars
<1> QED
    BY <1>1, <1>2, <1>3, <1>4, <1>5, <1>6, <1>7, <1>8, <1>9, <1>10, <1>11, <1>12, <1>13, <1>14, <1>15, <1>16, <1>17, <1>18, <1>19, <1>20, <1>21, <1>22, <1>23
       DEF Next, Timer, Renegotiate, Handler, CreatesOffer, Queue

-----------------------------------------------------------------------------
(* Where the messages of one type are in a sequence.                       *)

OfType(s, type) == {i \in DOMAIN s : s[i].type = type}

LEMMA OfTypeAppend ==
    ASSUME NEW s \in Seq(Msgs), NEW m \in Msgs, NEW type
    PROVE  /\ OfType(Append(s, m), type) =
                  IF m.type = type THEN OfType(s, type) \cup {Len(s) + 1}
                                   ELSE OfType(s, type)
           /\ \A i \in OfType(s, type) : Append(s, m)[i] = s[i]
           /\ Append(s, m)[Len(s) + 1] = m
<1> DEFINE q == Append(s, m)
<1>1. /\ Len(s) + 1 \notin DOMAIN s
      /\ DOMAIN q = DOMAIN s \cup {Len(s) + 1}
      /\ \A i \in DOMAIN s : q[i] = s[i]
      /\ q[Len(s) + 1] = m
    BY AppendFacts
<1> HIDE DEF q
<1>2. OfType(q, type) = IF m.type = type THEN OfType(s, type) \cup {Len(s) + 1}
                                         ELSE OfType(s, type)
    BY <1>1 DEF OfType
<1>3. \A i \in OfType(s, type) : q[i] = s[i]
    BY <1>1 DEF OfType
<1> QED
    BY <1>1, <1>2, <1>3 DEF q

\* A message of another type leaves them where they are.
LEMMA AppendOther ==
    ASSUME NEW s \in Seq(Msgs), NEW m \in Msgs, NEW type, m.type # type
    PROVE  /\ OfType(Append(s, m), type) = OfType(s, type)
           /\ \A i \in OfType(s, type) : Append(s, m)[i] = s[i]
<1> DEFINE q == Append(s, m)
<1>1. /\ DOMAIN q = DOMAIN s \cup {Len(s) + 1}
      /\ \A i \in DOMAIN s : q[i] = s[i]
      /\ q[Len(s) + 1] = m
    BY AppendFacts
<1> HIDE DEF q
<1>2. OfType(q, type) = OfType(s, type) /\ \A i \in OfType(s, type) : q[i] = s[i]
    BY <1>1 DEF OfType
<1> QED
    BY <1>2 DEF q

LEMMA OfTypeTail ==
    ASSUME NEW s \in Seq(Msgs), s # <<>>, NEW type
    PROVE  /\ \A i \in OfType(Tail(s), type) :
                 i \in Nat \ {0} /\ i + 1 \in OfType(s, type) /\ Tail(s)[i] = s[i + 1]
           /\ Head(s).type = type => 1 \in OfType(s, type)
BY TailFacts DEF OfType

\* If there is one message of the type at most, there still is, and none if it was
\* the first.
LEMMA OneOfTail ==
    ASSUME NEW s \in Seq(Msgs), s # <<>>, NEW type,
           \A i \in OfType(s, type) : OfType(s, type) = {i}
    PROVE  /\ \A i \in OfType(Tail(s), type) : OfType(Tail(s), type) = {i}
           /\ Head(s).type = type => OfType(Tail(s), type) = {}
<1>1. \A i, j \in OfType(s, type) : i = j
    OBVIOUS
<1>2. \A i, j \in OfType(Tail(s), type) : i = j
  <2> TAKE i, j \in OfType(Tail(s), type)
  <2>1. i \in Nat /\ j \in Nat /\ i + 1 = j + 1
    BY <1>1, OfTypeTail
  <2> QED
    BY <2>1
<1>3. ASSUME Head(s).type = type, NEW i \in OfType(Tail(s), type) PROVE FALSE
  <2>1. i \in Nat \ {0} /\ i + 1 = 1
    BY <1>1, <1>3, OfTypeTail
  <2> QED
    BY <2>1
<1> QED
    BY <1>2, <1>3

LEMMA OfTypePrefix ==
    ASSUME NEW s \in Seq(Msgs), NEW n \in 0..Len(s), NEW type
    PROVE  \A i \in OfType(SubSeq(s, 1, n), type) :
               i \in OfType(s, type) /\ SubSeq(s, 1, n)[i] = s[i]
BY PrefixFacts DEF OfType

LEMMA Places ==
    /\ Offers = OfType(toPage, "offer")
    /\ Answers = OfType(toServer, "answer")
    /\ OwnOffers = OfType(toServer, "offer")
BY DEF Offers, Answers, OwnOffers, OfType

LEMMA FlightStep ==
    TypeOK /\ OneInFlight /\ AnswerMatches /\ [Next]_vars => (OneInFlight /\ AnswerMatches)'
<1> SUFFICES ASSUME TypeOK, OneInFlight, AnswerMatches, [Next]_vars PROVE (OneInFlight /\ AnswerMatches)'
    OBVIOUS
<1> USE NoneAssumption DEF TypeOK, OneInFlight, AnswerMatches, Goto, Calls, pion, peer, pageVars
<1>1. ASSUME NEW t \in Tracks, OnTrackAdd(t) PROVE (OneInFlight /\ AnswerMatches)'
    BY <1>1 DEF OnTrackAdd, Offers, Answers
<1>2. ASSUME NEW t \in Tracks, ScheduleRenegotiate(t) PROVE (OneInFlight /\ AnswerMatches)'
    BY <1>2 DEF ScheduleRenegotiate, Offers, Answers
<1>3. ASSUME NEW t \in Tracks, TimerFires(t) PROVE (OneInFlight /\ AnswerMatches)'
    BY <1>3 DEF TimerFires, Offers, Answers
<1>4. ASSUME NEW t \in Tracks, ClearTimer(t) PROVE (OneInFlight /\ AnswerMatches)'
    BY <1>4 DEF ClearTimer, Offers, Answers
<1>5. CASE AddExistingTracks
    BY <1>5 DEF AddExistingTracks, Offers, Answers
<1>6. ASSUME NEW c \in Calls, CreateOffer(c) PROVE (OneInFlight /\ AnswerMatches)'
    BY <1>6 DEF CreateOffer, Offers, Answers
<1>7. ASSUME NEW c \in Calls, SetOffer(c) PROVE (OneInFlight /\ AnswerMatches)'
  <2>1. CASE ~Closed /\ signaling = "stable" /\ lastOffer = c
    <3>0. Answers = {}
      BY <2>1 DEF Answers
    <3>1. outstanding = None /\ pageTask = None /\ Offers = {} /\ Answers = {}
      BY <2>1, <3>0
    <3>2. \A d \in Calls : call[d] # "send"
      BY <2>1
    <3> QED
      BY <1>7, <2>1, <3>1, <3>2 DEF SetOffer, Offers, Answers
  <2>2. CASE ~(~Closed /\ signaling = "stable" /\ lastOffer = c)
    BY <1>7, <2>2 DEF SetOffer, Offers, Answers
  <2> QED
    BY <2>1, <2>2
<1>8. ASSUME NEW c \in Calls, SendOffer(c) PROVE (OneInFlight /\ AnswerMatches)'
  <2>1. /\ outstanding = c /\ pageTask = None /\ Offers = {} /\ Answers = {}
        /\ call' = [call EXCEPT ![c] = "sent"]
        /\ UNCHANGED <<signaling, outstanding, handler, pageTask, toServer>>
    BY <1>8 DEF SendOffer
  <2>2. Answers' = {}
    BY <2>1 DEF Answers
  <2>3. \A d \in Calls : call'[d] # "send"
    BY <2>1
  <2>4. \A i \in Offers' : Offers' = {i} /\ toPage'[i].call = c
    <3>1. CASE tab
      <4>1. toPage' = Append(toPage, Offer(c))
        BY <1>8, <3>1 DEF SendOffer, SendPage
      <4>2. Offer(c) \in Msgs /\ Offer(c).type = "offer" /\ Offer(c).call = c
        BY MsgsMade
      <4>3. OfType(toPage', "offer") = {Len(toPage) + 1} /\ toPage'[Len(toPage) + 1] = Offer(c)
        BY <2>1, <4>1, <4>2, OfTypeAppend, Places
      <4> QED
        BY <4>2, <4>3 DEF Offers, OfType
    <3>2. CASE ~tab
      BY <1>8, <2>1, <3>2 DEF SendOffer, SendPage, Offers
    <3> QED
      BY <3>1, <3>2
  <2> QED
    BY <2>1, <2>2, <2>3, <2>4 DEF Answers
<1>9. CASE HandleOffer
  <2>1. /\ toServer # <<>> /\ toServer' = Tail(toServer)
        /\ handler = "loop"
        /\ UNCHANGED <<outstanding, call, toPage, pageTask>>
    BY <1>9 DEF HandleOffer, Reads
  <2>2. \A i \in Answers' : i + 1 \in Answers /\ toServer'[i] = toServer[i + 1] /\ Answers' = {i}
    BY <2>1, OfTypeTail, OneOfTail, Places DEF Answers, OfType
  <2>3. Answers = {} => Answers' = {}
    BY <2>2
  <2>4. Offers' = Offers
    BY <2>1 DEF Offers
  <2>5. CASE signaling = "stable"
    <3>1. Answers = {} /\ signaling' = "have-remote-offer" /\ handler' = "answer"
      BY <1>9, <2>5 DEF HandleOffer, Answers
    <3> QED
      BY <2>1, <2>2, <2>3, <2>4, <2>5, <3>1 DEF Answers
  <2>6. CASE signaling # "stable"
    <3>1. UNCHANGED <<signaling, handler>>
      BY <1>9, <2>6 DEF HandleOffer
    <3>2. OneInFlight'
      BY <2>1, <2>2, <2>3, <2>4, <3>1
    <3>3. AnswerMatches'
      BY <2>1, <2>2, <3>1 DEF Answers
    <3> QED
      BY <3>2, <3>3
  <2> QED
    BY <2>5, <2>6
<1>10. CASE AnswerOffer
    BY <1>10 DEF AnswerOffer, Offers, Answers
<1>11. CASE ReplyAnswer
  <2>1. /\ call' = [call EXCEPT ![Existing] = "collect"]
        /\ handler = "reply" /\ handler' = "loop"
        /\ UNCHANGED <<signaling, outstanding, toServer, pageTask>>
    BY <1>11 DEF ReplyAnswer
  <2>2. Offers' = Offers /\ \A i \in Offers : toPage'[i] = toPage[i]
    <3>1. CASE tab
      <4>1. toPage' = Append(toPage, Answer(None))
        BY <1>11, <3>1 DEF ReplyAnswer, SendPage
      <4>2. Answer(None) \in Msgs /\ Answer(None).type = "answer"
        BY MsgsMade
      <4>3. /\ OfType(toPage', "offer") = OfType(toPage, "offer")
            /\ \A i \in OfType(toPage, "offer") : toPage'[i] = toPage[i]
        <5>1. toPage \in Seq(Msgs) /\ Answer(None).type # "offer"
          BY <4>2
        <5> HIDE DEF TypeOK, OneInFlight, AnswerMatches
        <5>2. /\ OfType(Append(toPage, Answer(None)), "offer") = OfType(toPage, "offer")
              /\ \A i \in OfType(toPage, "offer") :
                    Append(toPage, Answer(None))[i] = toPage[i]
          BY <4>2, <5>1, AppendOther
        <5> QED
          BY <4>1, <5>2
      <4>4. Offers' = OfType(toPage', "offer") /\ Offers = OfType(toPage, "offer")
        BY DEF Offers, OfType
      <4> QED
        BY <4>3, <4>4
    <3>2. CASE ~tab
      BY <1>11, <3>2 DEF ReplyAnswer, SendPage, Offers
    <3> QED
      BY <3>1, <3>2
  <2>3. Answers' = Answers
    BY <2>1 DEF Answers
  <2> QED
    BY <2>1, <2>2, <2>3
<1>12. CASE HandleAnswer
  <2>1. /\ toServer # <<>> /\ toServer' = Tail(toServer)
        /\ Head(toServer).type = "answer"
        /\ UNCHANGED <<call, toPage, pageTask, handler>>
    BY <1>12 DEF HandleAnswer, Reads
  <2>2. 1 \in Answers
    BY <2>1, OfTypeTail, Places
  <2>3. Answers' = {}
    BY <2>1, OneOfTail, Places DEF Answers, OfType
  <2>4. signaling = "have-local-offer" /\ outstanding # None
    BY <2>2 DEF Answers
  <2>5. signaling' = "stable" /\ outstanding' = None
    BY <1>12, <2>4 DEF HandleAnswer
  <2>6. Offers = {} /\ pageTask = None /\ \A d \in Calls : call[d] # "send"
    BY <2>2
  <2>7. Offers' = {}
    BY <2>1, <2>6 DEF Offers
  <2> QED
    BY <2>1, <2>3, <2>4, <2>5, <2>6, <2>7 DEF Answers
<1>13. CASE HandleClosed
    BY <1>13 DEF HandleClosed, Offers, Answers
<1>14. CASE PageNewPC
    BY <1>14 DEF PageNewPC, Offers, Answers
<1>15. CASE PageCreateOffer
    BY <1>15 DEF PageCreateOffer, Offers, Answers
<1>16. CASE PageSetOffer
    BY <1>16 DEF PageSetOffer, Offers, Answers
<1>17. CASE PageSendOffer
  <2>1. /\ toServer' = Append(toServer, Offer(None))
        /\ UNCHANGED <<signaling, outstanding, call, handler, toPage, pageTask>>
    BY <1>17 DEF PageSendOffer
  <2>2. Offer(None) \in Msgs /\ Offer(None).type = "offer"
    BY MsgsMade
  <2>3. Answers' = Answers /\ \A i \in Answers : toServer'[i] = toServer[i]
    BY <2>1, <2>2, OfTypeAppend DEF Answers, OfType
  <2>4. Offers' = Offers
    BY <2>1 DEF Offers
  <2>5. AnswerMatches'
    <3> SUFFICES ASSUME NEW i \in Answers'
                 PROVE  signaling' = "have-local-offer" /\ outstanding' = toServer'[i].call
      BY DEF Answers
    <3> QED
      BY <2>1, <2>3 DEF Answers
  <2>6. OneInFlight'
    BY <2>1, <2>3, <2>4
  <2> QED
    BY <2>5, <2>6
<1>18. CASE PageTakesAnswer
  <2>1. /\ toPage # <<>> /\ toPage' = Tail(toPage)
        /\ pageTask = None
        /\ UNCHANGED <<signaling, outstanding, call, handler, toServer>>
    BY <1>18 DEF PageTakesAnswer, Dequeues
  <2>2. \A i \in Offers' : i + 1 \in Offers /\ toPage'[i] = toPage[i + 1] /\ Offers' = {i}
    BY <2>1, OfTypeTail, OneOfTail, Places DEF Offers, OfType
  <2>3. Answers' = Answers
    BY <2>1 DEF Answers
  <2>4. pageTask' = pageTask
    BY <1>18 DEF PageTakesAnswer
  <2>5. AnswerMatches'
    BY <2>1
  <2>6. \A i \in Offers' :
           /\ outstanding = toPage'[i].call /\ toPage'[i].call # None
           /\ Offers' = {i} /\ Answers = {}
    BY <2>2
  <2>7. Offers = {} => Offers' = {}
    BY <2>2
  <2>8. OneInFlight'
    BY <2>1, <2>3, <2>4, <2>6, <2>7
  <2> QED
    BY <2>5, <2>8
<1>19. CASE PageDropsOffer
  <2>1. /\ toPage # <<>> /\ toPage' = Tail(toPage)
        /\ pageTask = None
        /\ UNCHANGED <<signaling, outstanding, call, handler, toServer>>
    BY <1>19 DEF PageDropsOffer, Dequeues
  <2>2. \A i \in Offers' : i + 1 \in Offers /\ toPage'[i] = toPage[i + 1] /\ Offers' = {i}
    BY <2>1, OfTypeTail, OneOfTail, Places DEF Offers, OfType
  <2>3. Answers' = Answers
    BY <2>1 DEF Answers
  <2>4. pageTask' = pageTask
    BY <1>19 DEF PageDropsOffer
  <2>5. AnswerMatches'
    BY <2>1
  <2>6. \A i \in Offers' :
           /\ outstanding = toPage'[i].call /\ toPage'[i].call # None
           /\ Offers' = {i} /\ Answers = {}
    BY <2>2
  <2>7. Offers = {} => Offers' = {}
    BY <2>2
  <2>8. OneInFlight'
    BY <2>1, <2>3, <2>4, <2>6, <2>7
  <2> QED
    BY <2>5, <2>8
<1>20. CASE PageTakesOffer
  <2>1. /\ toPage # <<>> /\ toPage' = Tail(toPage)
        /\ pageTask = None
        /\ UNCHANGED <<signaling, outstanding, call, handler, toServer>>
    BY <1>20 DEF PageTakesOffer, Dequeues
  <2>2. \A i \in Offers' : i + 1 \in Offers /\ toPage'[i] = toPage[i + 1] /\ Offers' = {i}
    BY <2>1, OfTypeTail, OneOfTail, Places DEF Offers, OfType
  <2>3. Answers' = Answers
    BY <2>1 DEF Answers
  <2>4. Head(toPage).type = "offer" /\ pageTask' = Head(toPage).call
    BY <1>20 DEF PageTakesOffer, Dequeues
  <2>5. 1 \in Offers /\ Offers' = {} /\ toPage[1] = Head(toPage)
    BY <2>1, <2>4, OfTypeTail, OneOfTail, TailFacts, Places DEF Offers, OfType
  <2>6. outstanding = pageTask' /\ pageTask' # None /\ Answers = {}
    BY <2>4, <2>5
  <2>7. \A d \in Calls : call[d] # "send"
    BY <2>5
  <2>8. AnswerMatches'
    BY <2>1
  <2>9. OneInFlight'
    BY <2>1, <2>3, <2>5, <2>6, <2>7
  <2> QED
    BY <2>8, <2>9
<1>21. CASE PageAnswers
  <2>1. /\ pageTask # None /\ pageTask' = None
        /\ toServer' = Append(toServer, Answer(pageTask))
        /\ UNCHANGED <<signaling, outstanding, call, handler, toPage>>
    BY <1>21 DEF PageAnswers
  <2>2. /\ Answer(pageTask) \in Msgs /\ Answer(pageTask).type = "answer"
        /\ Answer(pageTask).call = pageTask
    BY MsgsMade
  <2>3. outstanding = pageTask /\ Answers = {} /\ Offers = {}
    BY <2>1
  <2>4. \A d \in Calls : call[d] # "send"
    BY <2>1
  <2>5. /\ Answers' = {Len(toServer) + 1}
        /\ toServer'[Len(toServer) + 1] = Answer(pageTask)
    <3>1. OfType(toServer', "answer") = {Len(toServer) + 1}
      BY <2>1, <2>2, <2>3, OfTypeAppend, Places
    <3> QED
      BY <2>1, <2>2, <3>1, OfTypeAppend DEF Answers, OfType
  <2>6. Offers' = {}
    BY <2>1, <2>3 DEF Offers
  <2>7. signaling = "have-local-offer"
    BY <2>1, <2>3
  <2>8. AnswerMatches'
    BY <2>1, <2>2, <2>3, <2>5, <2>7 DEF Answers
  <2>9. OneInFlight'
    BY <2>1, <2>2, <2>3, <2>4, <2>5, <2>6, <2>7
  <2> QED
    BY <2>8, <2>9
<1>22. CASE CloseTab
  <2>1. PICK n \in 0..Len(toServer) : toServer' = SubSeq(toServer, 1, n)
    BY <1>22 DEF CloseTab
  <2>2. UNCHANGED <<signaling, outstanding, call, handler, toPage, pageTask>>
    BY <1>22 DEF CloseTab
  <2>3. \A i \in Answers' : i \in Answers /\ toServer'[i] = toServer[i]
    BY <2>1, OfTypePrefix DEF Answers, OfType
  <2>4. \A i \in Answers' : Answers' = {i}
    BY <2>3
  <2>5. Offers' = Offers
    BY <2>2 DEF Offers
  <2>6. AnswerMatches'
    BY <2>2, <2>3 DEF Answers
  <2>7. OneInFlight'
    BY <2>2, <2>3, <2>4, <2>5
  <2> QED
    BY <2>6, <2>7
<1>23. CASE UNCHANGED vars
    BY <1>23 DEF vars, Offers, Answers
<1> QED
    BY <1>1, <1>2, <1>3, <1>4, <1>5, <1>6, <1>7, <1>8, <1>9, <1>10, <1>11, <1>12, <1>13, <1>14, <1>15, <1>16, <1>17, <1>18, <1>19, <1>20, <1>21, <1>22, <1>23
       DEF Next, Timer, Renegotiate, Handler, CreatesOffer, Queue

\* The page's own offer.
LEMMA OwnStep ==
    TypeOK /\ OneOwnOffer /\ [Next]_vars => OneOwnOffer'
<1> SUFFICES ASSUME TypeOK, OneOwnOffer, [Next]_vars
             PROVE  OneOwnOffer'
    OBVIOUS
<1> USE NoneAssumption, ExistingAssumption DEF TypeOK, OneOwnOffer, Goto, Calls, pion, peer, pageVars
<1>1. ASSUME NEW t \in Tracks, OnTrackAdd(t) PROVE OneOwnOffer'
    BY <1>1 DEF OnTrackAdd, OwnOffers
<1>2. ASSUME NEW t \in Tracks, ScheduleRenegotiate(t) PROVE OneOwnOffer'
    BY <1>2 DEF ScheduleRenegotiate, OwnOffers
<1>3. ASSUME NEW t \in Tracks, TimerFires(t) PROVE OneOwnOffer'
    BY <1>3 DEF TimerFires, OwnOffers
<1>4. ASSUME NEW t \in Tracks, ClearTimer(t) PROVE OneOwnOffer'
    BY <1>4 DEF ClearTimer, OwnOffers
<1>5. CASE AddExistingTracks
    BY <1>5 DEF AddExistingTracks, OwnOffers
<1>6. ASSUME NEW c \in Calls, CreateOffer(c) PROVE OneOwnOffer'
    BY <1>6 DEF CreateOffer, OwnOffers
<1>7. ASSUME NEW c \in Calls, SetOffer(c) PROVE OneOwnOffer'
    BY <1>7 DEF SetOffer, OwnOffers
<1>8. ASSUME NEW c \in Calls, SendOffer(c) PROVE OneOwnOffer'
    BY <1>8 DEF SendOffer, OwnOffers
<1>9. CASE HandleOffer
  <2>1. /\ toServer # <<>> /\ toServer' = Tail(toServer)
        /\ Head(toServer).type = "offer"
        /\ handler = "loop" /\ handler' \in {"loop", "answer"}
        /\ UNCHANGED <<call, page>>
    BY <1>9 DEF HandleOffer, Reads
  <2>2. 1 \in OwnOffers
    BY <2>1, OfTypeTail, Places
  <2>3. OwnOffers' = {}
    BY <2>1, OneOfTail, Places DEF OwnOffers, OfType
  <2>4. page = "sent" /\ call[Existing] = "idle"
    BY <2>2
  <2> QED
    BY <2>1, <2>3, <2>4
<1>10. CASE AnswerOffer
    BY <1>10 DEF AnswerOffer, OwnOffers
<1>11. CASE ReplyAnswer
  <2>1. /\ handler = "reply" /\ handler' = "loop"
        /\ UNCHANGED <<page, toServer>>
    BY <1>11 DEF ReplyAnswer
  <2>2. page = "sent" /\ OwnOffers = {}
    BY <2>1
  <2>3. OwnOffers' = {}
    BY <2>1, <2>2 DEF OwnOffers
  <2> QED
    BY <2>1, <2>2, <2>3
<1>12. CASE HandleAnswer
  <2>1. /\ toServer # <<>> /\ toServer' = Tail(toServer)
        /\ UNCHANGED <<call, handler, page>>
    BY <1>12 DEF HandleAnswer, Reads
  <2>2. \A i \in OwnOffers' : i + 1 \in OwnOffers /\ OwnOffers' = {i}
    BY <2>1, OfTypeTail, OneOfTail, Places DEF OwnOffers, OfType
  <2>3. OwnOffers = {} => OwnOffers' = {}
    BY <2>2
  <2> QED
    BY <2>1, <2>2, <2>3
<1>13. CASE HandleClosed
    BY <1>13 DEF HandleClosed, OwnOffers
<1>14. CASE PageNewPC
    BY <1>14 DEF PageNewPC, OwnOffers
<1>15. CASE PageCreateOffer
    BY <1>15 DEF PageCreateOffer, OwnOffers
<1>16. CASE PageSetOffer
    BY <1>16 DEF PageSetOffer, OwnOffers
<1>17. CASE PageSendOffer
  <2>1. /\ page = "set" /\ page' = "sent"
        /\ toServer' = Append(toServer, Offer(None))
        /\ UNCHANGED <<call, handler>>
    BY <1>17 DEF PageSendOffer
  <2>2. OwnOffers = {} /\ handler \in {"loop", "done"} /\ call[Existing] = "idle"
    BY <2>1
  <2>3. Offer(None) \in Msgs /\ Offer(None).type = "offer"
    BY MsgsMade
  <2>4. OwnOffers' = {Len(toServer) + 1}
    <3>1. OfType(toServer', "offer") = {Len(toServer) + 1}
      BY <2>1, <2>2, <2>3, OfTypeAppend, Places
    <3> QED
      BY <3>1 DEF OwnOffers, OfType
  <2> QED
    BY <2>1, <2>2, <2>4
<1>18. CASE PageTakesAnswer
    BY <1>18 DEF PageTakesAnswer, OwnOffers
<1>19. CASE PageDropsOffer
    BY <1>19 DEF PageDropsOffer, OwnOffers
<1>20. CASE PageTakesOffer
    BY <1>20 DEF PageTakesOffer, OwnOffers
<1>21. CASE PageAnswers
  <2>1. /\ toServer' = Append(toServer, Answer(pageTask))
        /\ UNCHANGED <<call, handler, page>>
    BY <1>21 DEF PageAnswers
  <2>2. Answer(pageTask) \in Msgs /\ Answer(pageTask).type # "offer"
    BY MsgsMade
  <2>3. OwnOffers' = OwnOffers
    <3> HIDE DEF TypeOK, OneOwnOffer
    <3>1. toServer \in Seq(Msgs)
      BY DEF TypeOK
    <3>2. OfType(Append(toServer, Answer(pageTask)), "offer")
             = OfType(toServer, "offer")
      BY <2>2, <3>1, AppendOther
    <3> QED
      BY <2>1, <3>2 DEF OwnOffers, OfType
  <2> QED
    BY <2>1, <2>3
<1>22. CASE CloseTab
  <2>1. PICK n \in 0..Len(toServer) : toServer' = SubSeq(toServer, 1, n)
    BY <1>22 DEF CloseTab
  <2>2. UNCHANGED <<call, handler, page>>
    BY <1>22 DEF CloseTab
  <2>3. OwnOffers' \subseteq OwnOffers
    BY <2>1, OfTypePrefix DEF OwnOffers, OfType
  <2>4. \A i \in OwnOffers' : OwnOffers' = {i}
    BY <2>3
  <2> QED
    BY <2>2, <2>3, <2>4
<1>23. CASE UNCHANGED vars
    BY <1>23 DEF vars, OwnOffers
<1> QED
    BY <1>1, <1>2, <1>3, <1>4, <1>5, <1>6, <1>7, <1>8, <1>9, <1>10, <1>11,
       <1>12, <1>13, <1>14, <1>15, <1>16, <1>17, <1>18, <1>19, <1>20,
       <1>21, <1>22, <1>23
       DEF Next, Timer, Renegotiate, Handler, CreatesOffer, Queue

\* OnTrack calls Renegotiate for its track once, and whoever created the last offer
\* sets it and sends it or has it refused.
LEMMA CalledStep ==
    TypeOK /\ OneOwnOffer /\ CalledOnce /\ [Next]_vars => CalledOnce'
<1> SUFFICES ASSUME TypeOK, OneOwnOffer, CalledOnce, [Next]_vars
             PROVE  CalledOnce'
    OBVIOUS
<1> USE NoneAssumption, ExistingAssumption
         DEF TypeOK, CalledOnce, Closed, Goto, Calls, pion, peer, pageVars
<1>1. ASSUME NEW t \in Tracks, OnTrackAdd(t) PROVE CalledOnce'
    BY <1>1 DEF OnTrackAdd
<1>2. ASSUME NEW t \in Tracks, ScheduleRenegotiate(t) PROVE CalledOnce'
  <2>1. /\ call[t] = "idle"
        /\ onTrack' = [onTrack EXCEPT ![t] = "done"]
        /\ \A c \in Calls : \/ call'[c] = call[c]
                            \/ c = t
                            \/ call[c] = "armed" /\ call'[c] = "done"
        /\ UNCHANGED <<lastOffer, handler>>
    BY <1>2 DEF ScheduleRenegotiate
  <2>2. \A u \in Tracks : onTrack'[u] # "done" => call'[u] = "idle"
    BY <2>1
  <2> QED
    BY <2>1, <2>2
<1>3. ASSUME NEW t \in Tracks, TimerFires(t) PROVE CalledOnce'
    BY <1>3 DEF TimerFires
<1>4. ASSUME NEW t \in Tracks, ClearTimer(t) PROVE CalledOnce'
    BY <1>4 DEF ClearTimer
<1>5. CASE AddExistingTracks
    BY <1>5 DEF AddExistingTracks
<1>6. ASSUME NEW c \in Calls, CreateOffer(c) PROVE CalledOnce'
    BY <1>6 DEF CreateOffer
<1>7. ASSUME NEW c \in Calls, SetOffer(c) PROVE CalledOnce'
  <2>1. CASE ~Closed /\ lastOffer = c
    <3>1. /\ call[c] = "set"
          /\ call' = [call EXCEPT ![c] = "send"] \/ call' = [call EXCEPT ![c] = "refused"]
          /\ UNCHANGED <<lastOffer, onTrack, handler>>
      BY <1>7, <2>1 DEF SetOffer
    <3> QED
      BY <2>1, <3>1
  <2>2. CASE Closed \/ lastOffer # c
    <3>1. /\ call[c] = "set" /\ call' = [call EXCEPT ![c] = "done"]
          /\ UNCHANGED <<lastOffer, onTrack, handler>>
      BY <1>7, <2>2 DEF SetOffer
    <3> QED
      BY <2>2, <3>1
  <2> QED
    BY <2>1, <2>2
<1>8. ASSUME NEW c \in Calls, SendOffer(c) PROVE CalledOnce'
    BY <1>8 DEF SendOffer
<1>9. CASE HandleOffer \/ AnswerOffer \/ HandleAnswer \/ HandleClosed
    BY <1>9 DEF HandleOffer, Reads, AnswerOffer, HandleAnswer, HandleClosed
<1>10. CASE ReplyAnswer
  <2>1. call[Existing] = "idle" /\ handler # "done"
    BY <1>10 DEF ReplyAnswer, OneOwnOffer
  <2>2. /\ call' = [call EXCEPT ![Existing] = "collect"]
        /\ UNCHANGED <<lastOffer, onTrack>>
    BY <1>10 DEF ReplyAnswer
  <2> QED
    BY <2>1, <2>2
<1>11. CASE PageNewPC \/ CreatesOffer
    BY <1>11 DEF PageNewPC, CreatesOffer, PageCreateOffer, PageSetOffer, PageSendOffer
<1>12. CASE Queue
    BY <1>12 DEF Queue, PageTakesAnswer, PageDropsOffer, PageTakesOffer, PageAnswers
<1>13. CASE CloseTab \/ UNCHANGED vars
    BY <1>13 DEF CloseTab, vars
<1> QED
    BY <1>1, <1>2, <1>3, <1>4, <1>5, <1>6, <1>7, <1>8, <1>9, <1>10, <1>11,
       <1>12, <1>13
       DEF Next, Timer, Renegotiate, Handler

\* A step that takes a call out of "armed", "callback" or "create" puts one there or
\* creates an offer with all that was added.
LEMMA LastOfferStep ==
    TypeOK /\ OneOwnOffer /\ InLastOffer /\ [Next]_vars => InLastOffer'
<1> SUFFICES ASSUME TypeOK, OneOwnOffer, InLastOffer, [Next]_vars
             PROVE  InLastOffer'
    OBVIOUS
<1> USE NoneAssumption, ExistingAssumption
         DEF TypeOK, InLastOffer, Closed, Goto, Calls, pion, peer, pageVars
<1>1. ASSUME NEW t \in Tracks, OnTrackAdd(t) PROVE InLastOffer'
    BY <1>1 DEF OnTrackAdd
<1>2. ASSUME NEW t \in Tracks, ScheduleRenegotiate(t) PROVE InLastOffer'
  <2>1. t \in Calls /\ call'[t] = "armed"
    BY <1>2 DEF ScheduleRenegotiate
  <2> QED
    BY <2>1
<1>3. ASSUME NEW t \in Tracks, TimerFires(t) PROVE InLastOffer'
  <2>1. t \in Calls /\ call'[t] = "callback"
    BY <1>3 DEF TimerFires
  <2> QED
    BY <2>1
<1>4. ASSUME NEW t \in Tracks, ClearTimer(t) PROVE InLastOffer'
  <2>1. t \in Calls /\ call'[t] = "create"
    BY <1>4 DEF ClearTimer
  <2> QED
    BY <2>1
<1>5. CASE AddExistingTracks
  <2>1. CASE call'[Existing] = "create"
    BY <2>1
  <2>2. CASE call'[Existing] # "create"
    <3>1. added' = added
      BY <1>5, <2>2 DEF AddExistingTracks
    <3>2. \A c \in Calls : c # Existing => call'[c] = call[c]
      BY <1>5 DEF AddExistingTracks
    <3>3. call[Existing] = "collect" /\ UNCHANGED <<lastOffer, offer, onTrack, handler>>
      BY <1>5 DEF AddExistingTracks
    <3> QED
      BY <3>1, <3>2, <3>3
  <2> QED
    BY <2>1, <2>2
<1>6. ASSUME NEW c \in Calls, CreateOffer(c) PROVE InLastOffer'
  <2>1. CASE Closed
    BY <1>6, <2>1 DEF CreateOffer
  <2>2. CASE ~Closed
    <3>1. lastOffer' = c /\ offer'[c] = added /\ added' = added /\ c # None
      BY <1>6, <2>2 DEF CreateOffer
    <3> QED
      BY <3>1
  <2> QED
    BY <2>1, <2>2
<1>7. ASSUME NEW c \in Calls, SetOffer(c) PROVE InLastOffer'
  <2>1. /\ call[c] = "set"
        /\ \A d \in Calls : d # c => call'[d] = call[d]
        /\ UNCHANGED <<added, lastOffer, offer, onTrack, handler>>
    BY <1>7 DEF SetOffer
  <2> QED
    BY <2>1
<1>8. ASSUME NEW c \in Calls, SendOffer(c) PROVE InLastOffer'
  <2>1. /\ call[c] = "send"
        /\ \A d \in Calls : d # c => call'[d] = call[d]
        /\ UNCHANGED <<added, lastOffer, offer, onTrack, handler>>
    BY <1>8 DEF SendOffer
  <2> QED
    BY <2>1
<1>9. CASE HandleOffer
    BY <1>9 DEF HandleOffer, Reads
<1>10. CASE AnswerOffer
    BY <1>10 DEF AnswerOffer
<1>11. CASE ReplyAnswer
  <2>1. call[Existing] = "idle"
    BY <1>11 DEF ReplyAnswer, OneOwnOffer
  <2>2. /\ \A c \in Calls : c # Existing => call'[c] = call[c]
        /\ UNCHANGED <<added, lastOffer, offer, onTrack>>
        /\ handler # "done"
    BY <1>11 DEF ReplyAnswer
  <2> QED
    BY <2>1, <2>2
<1>12. CASE HandleAnswer
    BY <1>12 DEF HandleAnswer
<1>13. CASE HandleClosed
    BY <1>13 DEF HandleClosed
<1>14. CASE PageNewPC
    BY <1>14 DEF PageNewPC
<1>15. CASE PageCreateOffer
    BY <1>15 DEF PageCreateOffer
<1>16. CASE PageSetOffer
    BY <1>16 DEF PageSetOffer
<1>17. CASE PageSendOffer
    BY <1>17 DEF PageSendOffer
<1>18. CASE PageTakesAnswer
    BY <1>18 DEF PageTakesAnswer
<1>19. CASE PageDropsOffer
    BY <1>19 DEF PageDropsOffer
<1>20. CASE PageTakesOffer
    BY <1>20 DEF PageTakesOffer
<1>21. CASE PageAnswers
    BY <1>21 DEF PageAnswers
<1>22. CASE CloseTab
    BY <1>22 DEF CloseTab
<1>23. CASE UNCHANGED vars
    BY <1>23 DEF vars
<1> QED
    BY <1>1, <1>2, <1>3, <1>4, <1>5, <1>6, <1>7, <1>8, <1>9, <1>10, <1>11,
       <1>12, <1>13, <1>14, <1>15, <1>16, <1>17, <1>18, <1>19, <1>20,
       <1>21, <1>22, <1>23
       DEF Next, Timer, Renegotiate, Handler, CreatesOffer, Queue

-----------------------------------------------------------------------------
(* What is in the offers.                                                  *)

\* Only CreateOffer makes an offer, of all that was added so far.
LEMMA LargestStep ==
    TypeOK /\ LastIsLargest /\ [Next]_vars => LastIsLargest'
<1> SUFFICES ASSUME TypeOK, LastIsLargest, [Next]_vars
             PROVE  LastIsLargest'
    OBVIOUS
<1>1. ASSUME UNCHANGED <<offer, lastOffer>>, added \subseteq added'
      PROVE  LastIsLargest'
    BY <1>1 DEF LastIsLargest
<1>2. ASSUME NEW c \in Calls, CreateOffer(c) PROVE LastIsLargest'
  <2>1. CASE Closed
    BY <1>1, <1>2, <2>1 DEF CreateOffer
  <2>2. CASE ~Closed
    <3>1. /\ lastOffer' = c /\ c # None /\ added' = added
          /\ offer'[c] = added
          /\ \A d \in Calls : d # c => offer'[d] = offer[d]
      BY <1>2, <2>2, NoneAssumption DEF CreateOffer, TypeOK, Calls
    <3> QED
      BY <3>1 DEF LastIsLargest
  <2> QED
    BY <2>1, <2>2
<1>3. ASSUME NEW t \in Tracks, OnTrackAdd(t) \/ Timer(t) PROVE LastIsLargest'
  <2>1. UNCHANGED <<offer, lastOffer>> /\ added \subseteq added'
    BY <1>3 DEF OnTrackAdd, Timer, ScheduleRenegotiate, TimerFires, ClearTimer, pion
  <2> QED
    BY <1>1, <2>1
<1>4. CASE AddExistingTracks
  <2>1. UNCHANGED <<offer, lastOffer>> /\ added \subseteq added'
    BY <1>4 DEF AddExistingTracks
  <2> QED
    BY <1>1, <2>1
<1>5. ASSUME NEW c \in Calls, SetOffer(c) \/ SendOffer(c) PROVE LastIsLargest'
    BY <1>1, <1>5 DEF SetOffer, SendOffer, pion
<1>6. CASE Handler
    BY <1>1, <1>6 DEF Handler, HandleOffer, AnswerOffer, ReplyAnswer, HandleAnswer,
                      HandleClosed, pion, peer
<1>7. CASE PageNewPC \/ CreatesOffer \/ Queue \/ CloseTab
    BY <1>1, <1>7 DEF PageNewPC, CreatesOffer, PageCreateOffer, PageSetOffer,
                      PageSendOffer, Queue, PageTakesAnswer, PageDropsOffer,
                      PageTakesOffer, PageAnswers, CloseTab, pion, peer
<1>8. CASE UNCHANGED vars
    BY <1>1, <1>8 DEF vars, pion, peer
<1> QED
    BY <1>2, <1>3, <1>4, <1>5, <1>6, <1>7, <1>8 DEF Next, Renegotiate

\* SetLocalDescription takes the last offer only.
LEMMA SetsLast ==
    ASSUME TypeOK, LastIsLargest, [Next]_vars,
           outstanding' # outstanding, outstanding' # None
    PROVE  \A c \in Calls : offer[c] \subseteq offer[outstanding']
<1>1. PICK c \in Calls : SetOffer(c)
  <2>1. ASSUME NEW t \in Tracks, OnTrackAdd(t) \/ Timer(t) PROVE FALSE
    BY <2>1 DEF OnTrackAdd, Timer, ScheduleRenegotiate, TimerFires, ClearTimer, pion
  <2>2. ASSUME NEW c \in Calls, CreateOffer(c) \/ SendOffer(c) PROVE FALSE
    BY <2>2 DEF CreateOffer, SendOffer, pion
  <2>3. CASE AddExistingTracks \/ Handler
    BY <2>3 DEF AddExistingTracks, Handler, HandleOffer, AnswerOffer, ReplyAnswer,
                HandleAnswer, HandleClosed, pion, peer
  <2>4. CASE PageNewPC \/ CreatesOffer \/ Queue \/ CloseTab \/ UNCHANGED vars
    BY <2>4 DEF PageNewPC, CreatesOffer, PageCreateOffer, PageSetOffer,
                PageSendOffer, Queue, PageTakesAnswer, PageDropsOffer,
                PageTakesOffer, PageAnswers, CloseTab, vars, pion
  <2> QED
    BY <2>1, <2>2, <2>3, <2>4 DEF Next, Renegotiate
<1>2. outstanding' = c /\ lastOffer = c
  BY <1>1 DEF SetOffer
<1> QED
  BY <1>2 DEF LastIsLargest

-----------------------------------------------------------------------------
(* The theorems.                                                           *)

LEMMA InvInit == Init => IInv
BY NoneAssumption
   DEF Init, IInv, TypeOK, LastIsLargest, OneInFlight, OneOwnOffer, AnswerMatches,
       CalledOnce, InLastOffer, SignalingStates, Offers, Answers, OwnOffers, Calls

LEMMA InvStep == IInv /\ [Next]_vars => IInv'
BY TypeStep, FlightStep, OwnStep, CalledStep, LastOfferStep, LargestStep DEF IInv

\* The inductive invariant holds of every run of the offer machinery.
THEOREM Inductive == Spec => []IInv
BY InvInit, InvStep, PTL DEF Spec

\* Every variable of one peer's negotiation keeps its type: the signaling states are
\* those of the standard, each call of Renegotiate is at one of its lines, and the
\* two connections carry offers and answers only (peer.go:16-105, sfu.go:158-202).
THEOREM TypeCorrect == Spec => []TypeOK
<1>1. IInv => TypeOK
    BY DEF IInv
<1> QED
    BY <1>1, Inductive, PTL

\* For any number of tracks, the server reads no answer to another offer than the
\* one that it waits for (peer.go:90-105, handlers/sfu.go:169-202, app.js:729-741).
THEOREM AnswersMatch == Spec => []AnswerMatches
<1>1. IInv => AnswerMatches
    BY DEF IInv
<1> QED
    BY <1>1, Inductive, PTL

\* For any number of tracks, one that was added was sent to the page in an offer, or
\* refused in the last one, or a timer, a callback or a call of Renegotiate is still
\* to send one with it, until the peer goes (peer.go:74-105, handlers/sfu.go:192-196).
THEOREM NothingIsForgotten == Spec => []NothingForgotten
<1>1. IInv => NothingForgotten
  <2> SUFFICES ASSUME IInv, NEW t \in added, ~Closed, onTrack[t] # "schedule",
                      ~ \E c \in Calls : call[c] \in {"armed", "callback", "create"}
               PROVE  \/ Sent(t) \/ Refused(t)
                      \/ \E c \in Calls : call[c] \in {"set", "send"} /\ t \in offer[c]
    BY DEF NothingForgotten
  <2>1. lastOffer # None /\ t \in offer[lastOffer]
    BY DEF IInv, InLastOffer
  <2>2. lastOffer \in Calls /\ call[lastOffer] \in {"set", "send", "sent", "refused"}
    BY <2>1 DEF IInv, TypeOK, CalledOnce
  <2> QED
    BY <2>1, <2>2 DEF Sent, Refused
<1> QED
    BY <1>1, Inductive, PTL

\* For any number of tracks and of overlapping calls of Renegotiate, an offer that
\* the server sets has every track of every offer that was created before it
\* (peer.go:91-105).
THEOREM NothingIsTakenBack == Spec => NothingTakenBack
<1>1. IInv /\ [Next]_vars =>
        [outstanding' # outstanding /\ outstanding' # None
           => \A c \in Calls : offer[c] \subseteq offer[outstanding']]_vars
    BY SetsLast DEF IInv
<1> QED
    BY <1>1, Inductive, PTL DEF Spec, NothingTakenBack
=============================================================================
