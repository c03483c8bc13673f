----------------------------- MODULE MsgChannel ------------------------------
(***************************************************************************)
(* How the messages of a page get to its handler (handlers/sfu.go,         *)
(* HandleSFU): over the connection, through the one goroutine that reads   *)
(* it, and through msgCh, a channel of bounded capacity, which the wait    *)
(* loop and the message loop receive from.  SfuRoom and Renegotiation have *)
(* one queue in its place; MsgChannel implements Inbox, which is that      *)
(* queue.                                                                  *)
(*                                                                         *)
(* One connection.  It and msgCh are first in, first out, so a message is  *)
(* its number and each stage is how far it is.                             *)
(***************************************************************************)
EXTENDS Naturals

CONSTANTS
    Capacity,   \* of msgCh: 32
    MaxSent     \* bound: the messages of a page

ASSUME CapacityAssumption == Capacity \in Nat \ {0}
ASSUME BoundAssumption    == MaxSent \in Nat

VARIABLES
    \* ---- the connection
    sent,       \* messages that the page sent and that will arrive
    leaveAt,    \* the number of "leave", which is the last; 0 if there is none
    broken,     \* closed by the page, or broken
    closed,     \* conn.Close, by the handler
    \* ---- the reader goroutine and msgCh
    reader,     \* "reading", "putting" or "returned"
    read,       \* messages that ReadMessage returned
    put,        \* messages that were sent on msgCh
    chClosed,   \* close(msgCh)
    \* ---- the handler
    pc,
    told,       \* it has sent "admitted"
    taken,      \* messages that were received from msgCh
    forgotten,  \* history: the last that the wait loop received; 0 if none
    \* ---- the page
    heard,      \* it has seen "admitted"
    before      \* history: what it had sent by then

connection == <<sent, leaveAt, broken>>
goroutine  == <<reader, read, put, chClosed>>
handler    == <<closed, pc, told, taken, forgotten>>
page       == <<heard, before>>
vars       == <<connection, goroutine, handler, page>>

PCs == {"setup", "waiting", "admitted", "loop", "returning", "done"}

TypeOK ==
    /\ sent \in Nat /\ leaveAt \in Nat
    /\ read \in Nat /\ put \in Nat
    /\ taken \in Nat /\ forgotten \in Nat /\ before \in Nat
    /\ broken \in BOOLEAN /\ closed \in BOOLEAN
    /\ chClosed \in BOOLEAN /\ heard \in BOOLEAN /\ told \in BOOLEAN
    /\ reader \in {"reading", "putting", "returned"}
    /\ pc \in PCs

Init ==
    /\ sent = 0 /\ leaveAt = 0
    /\ read = 0 /\ put = 0
    /\ taken = 0 /\ forgotten = 0 /\ before = 0
    /\ broken = FALSE /\ closed = FALSE
    /\ chClosed = FALSE /\ heard = FALSE /\ told = FALSE
    /\ reader = "reading"
    /\ pc = "setup"

-----------------------------------------------------------------------------
(* The page and the connection.                                            *)

Send ==
    /\ ~broken
    /\ sent < MaxSent
    /\ sent' = sent + 1
    /\ UNCHANGED <<leaveAt, broken, goroutine, handler, page>>

\* leaveMeeting: "leave", and the socket is closed.
SendLeave ==
    /\ heard
    /\ ~broken
    /\ sent' = sent + 1
    /\ leaveAt' = sent + 1
    /\ broken' = TRUE
    /\ UNCHANGED <<goroutine, handler, page>>

\* The tab or the connection goes, with what has not arrived.
Break ==
    /\ ~broken
    /\ broken' = TRUE
    /\ sent' \in read .. sent
    /\ UNCHANGED <<leaveAt, goroutine, handler, page>>

\* Mutant: AdmitKnocker says "admitted", before the wait loop has ended.
HearAtOnce ==
    /\ told \/ pc = "waiting"
    /\ ~heard /\ ~broken
    /\ heard' = TRUE
    /\ before' = sent
    /\ UNCHANGED <<connection, goroutine, handler>>

\* onSFUMessage, "admitted".
Hear ==
    /\ told
    /\ ~heard /\ ~broken
    /\ heard' = TRUE
    /\ before' = sent
    /\ UNCHANGED <<connection, goroutine, handler>>

-----------------------------------------------------------------------------
(* The goroutine that reads.                                               *)

\* conn.ReadMessage returns a message; also one that was buffered before
\* conn.Close.
ReadMessage ==
    /\ reader = "reading"
    /\ read < sent
    /\ read' = read + 1
    /\ reader' = "putting"
    /\ UNCHANGED <<connection, put, chClosed, handler, page>>

\* ... or an error: return, and the deferred close(msgCh).
ReadFails ==
    /\ reader = "reading"
    /\ closed \/ (broken /\ read = sent)
    /\ reader' = "returned"
    /\ chClosed' = TRUE
    /\ UNCHANGED <<connection, read, put, handler, page>>

\* msgCh <- raw
Put ==
    /\ reader = "putting"
    /\ put - taken < Capacity
    /\ put' = put + 1
    /\ reader' = "reading"
    /\ UNCHANGED <<connection, read, chClosed, handler, page>>

-----------------------------------------------------------------------------
(* The handler.                                                            *)

Return(label) ==
    /\ pc' = label
    /\ UNCHANGED <<closed, connection, goroutine, page>>

\* GetOrCreate, IsEmpty and Knock: the wait loop, or straight in.
Arrive ==
    /\ pc = "setup"
    /\ \E label \in {"waiting", "admitted"} : Return(label)
    /\ UNCHANGED <<told, taken, forgotten>>

\* case _, open := <-msgCh, with open: ignored.
Forget ==
    /\ pc = "waiting"
    /\ taken < put
    /\ taken' = taken + 1
    /\ forgotten' = taken + 1
    /\ Return(pc)
    /\ UNCHANGED told

\* case ok := <-admitCh; select takes either case if both are ready.
Answer ==
    /\ pc = "waiting"
    /\ \E label \in {"admitted", "returning"} : Return(label)
    /\ UNCHANGED <<told, taken, forgotten>>

\* SendJSON "admitted", and Join up to the message loop.
Admitted ==
    /\ pc = "admitted"
    /\ Return("loop")
    /\ told' = TRUE
    /\ UNCHANGED <<taken, forgotten>>

\* Mutant: the message loop watches the connection and not its channel.
DrainedEarly ==
    /\ pc \in {"waiting", "loop"}
    /\ broken
    /\ Return("returning")
    /\ UNCHANGED <<told, taken, forgotten>>

\* msgCh is closed and empty: !open in the wait loop, the end of range msgCh.
Drained ==
    /\ pc \in {"waiting", "loop"}
    /\ chClosed /\ taken = put
    /\ Return("returning")
    /\ UNCHANGED <<told, taken, forgotten>>

\* A message, and "leave", which returns.
Handle ==
    /\ pc = "loop"
    /\ taken < put
    /\ taken' = taken + 1
    /\ Return(IF taken + 1 = leaveAt THEN "returning" ELSE "loop")
    /\ UNCHANGED <<told, forgotten>>

\* Mutant: the connection is left to the page.
CloseOpen ==
    /\ pc = "returning"
    /\ pc' = "done"
    /\ UNCHANGED <<closed, told, taken, forgotten, connection, goroutine, page>>

\* The last deferred call: conn.Close.
Close ==
    /\ pc = "returning"
    /\ pc' = "done"
    /\ closed' = TRUE
    /\ UNCHANGED <<told, taken, forgotten, connection, goroutine, page>>

Page    == Send \/ SendLeave \/ Break \/ Hear
Reader  == ReadMessage \/ ReadFails \/ Put
Handler == Arrive \/ Forget \/ Answer \/ Admitted \/ Drained \/ Handle \/ Close

Next == Page \/ Reader \/ Handler

Spec == Init /\ [][Next]_vars

\* Both goroutines run whenever they can; an answer to the knock may never come.
FairSpec ==
    /\ Spec
    /\ WF_vars(Reader)
    /\ WF_vars(Arrive \/ Forget \/ Admitted \/ Drained \/ Handle \/ Close)

-----------------------------------------------------------------------------
(* Properties.                                                             *)

\* What a page sends after it has seen "admitted" is not for the wait loop to
\* throw away, although that reads the same channel and its select may prefer
\* msgCh to the answer: the offer that a page makes when it is admitted is not
\* lost (handlers/sfu.go:103-128, app.js:682-684).
OfferKept == heard => forgotten <= before

\* The reader goroutine ends when its handler has returned: it is left behind,
\* for ever, only if 32 messages were in msgCh and it held one more, which nobody
\* will take (handlers/sfu.go:80-92).
ReaderReturns ==
    pc = "done" ~> \/ reader = "returned"
                   \/ reader = "putting" /\ put - taken = Capacity

-----------------------------------------------------------------------------
(* The inductive invariant behind OfferKept.                               *)

\* A message passes the stages in order, and msgCh holds no more than it can.
Stages ==
    /\ forgotten <= taken /\ taken <= put /\ put <= read /\ read <= sent
    /\ put - taken <= Capacity
    /\ read = IF reader = "putting" THEN put + 1 ELSE put
    /\ before <= sent \/ broken
    /\ leaveAt # 0 => leaveAt = sent /\ broken /\ heard

\* msgCh is closed when its reader has returned, and until the handler has, only
\* once everything that arrives has been put there.
ClosedLast ==
    /\ chClosed <=> reader = "returned"
    /\ chClosed /\ pc # "done" => broken /\ put = sent
    /\ closed <=> pc = "done"
    /\ heard => told
    /\ told => pc \in {"loop", "returning", "done"}
    /\ pc \in {"setup", "waiting", "admitted", "loop"} /\ leaveAt # 0 =>
            taken < leaveAt

IInv == TypeOK /\ Stages /\ ClosedLast /\ OfferKept

-----------------------------------------------------------------------------
(* The queue that SfuRoom has in place of all this: Inbox, under this      *)
(* mapping.                                                                *)

Gone == pc \in {"returning", "done"}

unreadBar == IF Gone THEN 0 ELSE sent - taken
leaveBar  == ~Gone /\ leaveAt # 0
phaseBar  == IF Gone THEN "gone"
             ELSE IF pc \in {"setup", "waiting"} THEN "waiting" ELSE "call"

Queue == INSTANCE Inbox WITH unread <- unreadBar, leave <- leaveBar,
                             closed <- broken, phase <- phaseBar

\* MsgChannel implements Inbox, fairness included.
QueueSpec == Queue!Spec
=============================================================================
