-------------------------- MODULE MsgChannelProofs ---------------------------
(***************************************************************************)
(* Proofs about MsgChannel, for a channel of any capacity and a page that  *)
(* sends any number of messages: the wait loop throws nothing away that    *)
(* was sent to the message loop, and reader, channel and handler together  *)
(* are the one queue of Inbox.                                             *)
(***************************************************************************)
EXTENDS MsgChannel, TLAPS

USE CapacityAssumption, BoundAssumption

LEMMA InitHolds == Init => IInv
<1> SUFFICES ASSUME Init PROVE IInv
  OBVIOUS
<1>1. TypeOK
  BY DEF Init, TypeOK, PCs
<1>2. Stages
  BY DEF Init, Stages
<1>3. ClosedLast /\ OfferKept
  BY DEF Init, ClosedLast, OfferKept
<1> QED
  BY <1>1, <1>2, <1>3 DEF IInv

\* What the page and the connection do.
LEMMA PageKeeps == IInv /\ Page => IInv'
<1> SUFFICES ASSUME IInv, Page PROVE IInv'
  OBVIOUS
<1> USE DEF IInv, TypeOK, Stages, ClosedLast, OfferKept, PCs, goroutine,
            handler, page
<1>1. CASE Send
  BY <1>1 DEF Send
<1>2. CASE SendLeave
  BY <1>2 DEF SendLeave
<1>3. CASE Break
  BY <1>3 DEF Break
<1>4. CASE Hear
  BY <1>4 DEF Hear, connection
<1> QED
  BY <1>1, <1>2, <1>3, <1>4 DEF Page

\* What the goroutine that reads does.
LEMMA ReaderKeeps == IInv /\ Reader => IInv'
<1> SUFFICES ASSUME IInv, Reader PROVE IInv'
  OBVIOUS
<1> USE DEF IInv, TypeOK, Stages, ClosedLast, OfferKept, PCs, connection,
            handler, page
<1>1. CASE ReadMessage
  BY <1>1 DEF ReadMessage
<1>2. CASE ReadFails
  BY <1>2 DEF ReadFails
<1>3. CASE Put
  BY <1>3 DEF Put
<1> QED
  BY <1>1, <1>2, <1>3 DEF Reader

\* What the handler does.
LEMMA HandlerKeeps == IInv /\ Handler => IInv'
<1> SUFFICES ASSUME IInv, Handler PROVE IInv'
  OBVIOUS
<1> USE DEF IInv, TypeOK, Stages, ClosedLast, OfferKept, PCs, connection,
            goroutine, page, Return
<1>1. CASE Arrive
  BY <1>1 DEF Arrive
<1>2. CASE Forget
  BY <1>2 DEF Forget
<1>3. CASE Answer
  BY <1>3 DEF Answer
<1>4. CASE Admitted
  BY <1>4 DEF Admitted
<1>5. CASE Drained
  BY <1>5 DEF Drained
<1>6. CASE Handle
  BY <1>6 DEF Handle
<1>7. CASE Close
  BY <1>7 DEF Close
<1> QED
  BY <1>1, <1>2, <1>3, <1>4, <1>5, <1>6, <1>7 DEF Handler

LEMMA StutterKeeps == IInv /\ UNCHANGED vars => IInv'
  BY DEF IInv, TypeOK, Stages, ClosedLast, OfferKept, vars, connection,
         goroutine, handler, page

\* The inductive invariant of the channel (handlers/sfu.go:78-165).
THEOREM Inductive == Spec => []IInv
<1>1. Init => IInv
  BY InitHolds
<1>2. IInv /\ [Next]_vars => IInv'
  BY PageKeeps, ReaderKeeps, HandlerKeeps, StutterKeeps DEF Next
<1> QED
  BY <1>1, <1>2, PTL DEF Spec

\* What a page sends after it was admitted is never thrown away
\* (handlers/sfu.go:103-128).
THEOREM OffersAreKept == Spec => []OfferKept
  BY Inductive, PTL DEF IInv

-----------------------------------------------------------------------------
(* MsgChannel implements Inbox.                                            *)

USE DEF Gone, unreadBar, leaveBar, phaseBar

LEMMA InitIsQueue == Init => Queue!Init
  BY DEF Init, Queue!Init

\* Of the messages up to s, those up to n with r <= n are kept; t were taken.
LEMMA Shrinks ==
    \A s, n, r, t \in Nat :
        t <= r /\ r <= n /\ n <= s => n - t \in 0 .. (s - t)
  OBVIOUS

LEMMA PageIsQueue == IInv /\ Page => [Queue!Next]_Queue!vars
<1> SUFFICES ASSUME IInv, Page PROVE [Queue!Next]_Queue!vars
  OBVIOUS
<1> USE DEF IInv, TypeOK, Stages, ClosedLast, PCs, goroutine, handler, page,
            Queue!Next, Queue!vars, Queue!inbox
<1>1. CASE Send
  BY <1>1 DEF Send, Queue!Arrive
<1>2. CASE SendLeave
  <2>1. UNCHANGED <<pc, taken>> /\ leaveAt' # 0
    BY <1>2 DEF SendLeave
  <2>2. Gone' = Gone /\ phaseBar' = phaseBar
    BY ONLY <2>1, Zenon DEF Gone, phaseBar
  <2>3. leaveBar' = (phaseBar # "gone")
    <3>1. leaveBar' <=> ~Gone
      BY ONLY <2>1, <2>2 DEF leaveBar
    <3>2. phaseBar # "gone" <=> ~Gone
      BY ONLY TRUE DEF phaseBar
    <3> QED
      BY ONLY <3>1, <3>2, Zenon DEF leaveBar
  <2>4. unreadBar' = IF phaseBar = "gone" THEN unreadBar ELSE unreadBar + 1
    BY <1>2, <2>2 DEF SendLeave
  <2> QED
    BY ONLY <1>2, <2>2, <2>3, <2>4 DEF SendLeave, Queue!ArriveLeave, Queue!Next
<1>3. CASE Break
  <2>1. UNCHANGED <<pc, leaveAt, taken>> /\ sent' \in read .. sent
    BY <1>3 DEF Break
  <2>2. Gone' = Gone /\ phaseBar' = phaseBar /\ leaveBar' = leaveBar
    BY ONLY <2>1, Zenon DEF Gone, phaseBar, leaveBar
  <2>3. unreadBar' \in 0 .. unreadBar
    <3>1. CASE Gone
      BY ONLY <3>1, <2>2 DEF unreadBar
    <3>2. CASE ~Gone
      <4>1. taken \in Nat /\ read \in Nat /\ sent \in Nat /\ taken <= read
        BY ONLY IInv DEF IInv, TypeOK, Stages
      <4>2. sent' \in Nat /\ read <= sent' /\ sent' <= sent
        BY ONLY <2>1, <4>1
      <4>3. sent' - taken \in 0 .. (sent - taken)
        BY ONLY <4>1, <4>2, Shrinks
      <4> QED
        BY ONLY <3>2, <2>1, <2>2, <4>3
    <3> QED
      BY <3>1, <3>2
  <2> QED
    BY ONLY <1>3, <2>2, <2>3 DEF Break, Queue!End, Queue!Next
<1>4. CASE Hear
  BY <1>4 DEF Hear, connection
<1> QED
  BY <1>1, <1>2, <1>3, <1>4 DEF Page

LEMMA ReaderIsQueue == IInv /\ Reader => [Queue!Next]_Queue!vars
  BY DEF Reader, ReadMessage, ReadFails, Put, connection, handler, page,
         Queue!vars, Queue!inbox

LEMMA HandlerIsQueue == IInv /\ Handler => [Queue!Next]_Queue!vars
<1> SUFFICES ASSUME IInv, Handler PROVE [Queue!Next]_Queue!vars
  OBVIOUS
<1> USE DEF IInv, TypeOK, Stages, ClosedLast, PCs, connection, goroutine, page,
            Return, Queue!Next, Queue!vars, Queue!inbox
<1>1. CASE Arrive
  BY <1>1 DEF Arrive, Queue!Enter
<1>2. CASE Forget
  BY <1>2 DEF Forget, Queue!Forget
<1>3. CASE Answer
  BY <1>3 DEF Answer, Queue!Enter, Queue!Refused, Queue!Go
<1>4. CASE Admitted
  BY <1>4 DEF Admitted
<1>5. CASE Drained
  BY <1>5 DEF Drained, Queue!Drained, Queue!Go
<1>6. CASE Handle
  BY <1>6 DEF Handle, Queue!Handle, Queue!Leave, Queue!Go
<1>7. CASE Close
  BY <1>7 DEF Close
<1> QED
  BY <1>1, <1>2, <1>3, <1>4, <1>5, <1>6, <1>7 DEF Handler

\* Every step of the connection, of the reader and of the handler is a step of
\* Inbox or none (handlers/sfu.go:78-165).
THEOREM ChannelIsQueue == Spec => Queue!Init /\ [][Queue!Next]_Queue!vars
<1>1. IInv /\ [Next]_vars => [Queue!Next]_Queue!vars
  <2>1. IInv /\ UNCHANGED vars => UNCHANGED Queue!vars
    BY DEF vars, connection, goroutine, handler, page, Queue!vars, Queue!inbox
  <2> QED
    BY <2>1, PageIsQueue, ReaderIsQueue, HandlerIsQueue DEF Next
<1> QED
  BY <1>1, InitIsQueue, Inductive, PTL DEF Spec
=============================================================================
