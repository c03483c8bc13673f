-------------------------------- MODULE Inbox --------------------------------
(***************************************************************************)
(* What the handler of a group connection may take for granted: its page   *)
(* leaves it messages, unread in the order they were sent; a connection    *)
(* that ends may take the last of them along.  While the handler waits for *)
(* an answer to its knock it reads messages and forgets them; from the     *)
(* moment it is admitted it reads all that are left, and goes when a       *)
(* message tells it to or when the connection has ended and nothing is     *)
(* left.  SfuRoom's inbox and closed are of this kind.                     *)
(***************************************************************************)
EXTENDS Naturals

VARIABLES
    unread,     \* how many messages the handler has not read
    leave,      \* the last of them is "leave"
    closed,     \* the connection has ended: nothing comes after them
    phase       \* "waiting", "call" or "gone"

inbox == <<unread, leave, closed>>
vars  == <<inbox, phase>>

Init ==
    /\ unread = 0
    /\ leave = FALSE
    /\ closed = FALSE
    /\ phase = "waiting"

Arrive ==
    /\ ~closed
    /\ phase # "gone"
    /\ unread' = unread + 1
    /\ UNCHANGED <<leave, closed, phase>>

\* "leave" is the last message of a page, which then closes the connection.
ArriveLeave ==
    /\ ~closed
    /\ unread' = IF phase = "gone" THEN unread ELSE unread + 1
    /\ leave' = (phase # "gone")
    /\ closed' = TRUE
    /\ UNCHANGED phase

End ==
    /\ ~closed
    /\ closed' = TRUE
    /\ unread' \in 0 .. unread
    /\ UNCHANGED <<leave, phase>>

Forget ==
    /\ phase = "waiting"
    /\ unread > 0
    /\ unread' = unread - 1
    /\ UNCHANGED <<leave, closed, phase>>

Enter ==
    /\ phase = "waiting"
    /\ phase' = "call"
    /\ UNCHANGED inbox

Handle ==
    /\ phase = "call"
    /\ unread > 1 \/ (unread = 1 /\ ~leave)
    /\ unread' = unread - 1
    /\ UNCHANGED <<leave, closed, phase>>

Go ==
    /\ unread' = 0
    /\ leave' = FALSE
    /\ phase' = "gone"
    /\ UNCHANGED closed

\* Told to go, by the answer to the knock or by the page.
Refused == phase = "waiting" /\ Go
Leave   == phase = "call" /\ unread = 1 /\ leave /\ Go

\* The connection has ended, and everything was read.
Drained == phase # "gone" /\ closed /\ unread = 0 /\ Go

Next ==
    Arrive \/ ArriveLeave \/ End \/ Forget \/ Enter \/ Handle
        \/ Refused \/ Leave \/ Drained

\* What is left is read, and the end is noticed.
Spec == Init /\ [][Next]_vars /\ WF_vars(Handle \/ Leave \/ Drained)
=============================================================================
