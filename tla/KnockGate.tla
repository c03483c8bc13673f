----------------------------- MODULE KnockGate -----------------------------
(***************************************************************************)
(* What the knock-and-admit flow of a group meeting promises, without      *)
(* rooms, channels or messages: one ticket per connection.                 *)
(*                                                                         *)
(* A connection walks in, or asks if somebody is inside the meeting; an    *)
(* answer to it is given once and never revised, by a connection that is   *)
(* inside the same meeting, or it is refused with another tab of its user  *)
(* that hangs up; an asker goes in only if it was admitted, and one with   *)
(* an answer does not stay where it is.  Anyone may go away at any time,   *)
(* and never comes back.  Who may walk in, the gate does not say: that is  *)
(* decided by what the room was a moment before (OnlyFirstWalksIn).        *)
(***************************************************************************)
CONSTANTS Sessions, Meets, meetOf, userOf

VARIABLE ticket

Tickets == {"outside", "asking", "yes", "no", "inside", "gone"}

TypeOK == ticket \in [Sessions -> Tickets]

Init == ticket = [s \in Sessions |-> "outside"]

Move(s, from, to) == ticket[s] \in from /\ ticket' = [ticket EXCEPT ![s] = to]

\* Also while somebody is inside.
WalkIn(s) == Move(s, {"outside"}, "inside")

\* Somebody is there to answer.
Ask(s) ==
    /\ \E h \in Sessions : ticket[h] = "inside" /\ meetOf[h] = meetOf[s]
    /\ Move(s, {"outside"}, "asking")

\* h, inside the meeting, admits or denies s.
Decide(h, s) ==
    /\ ticket[h] = "inside"
    /\ meetOf[h] = meetOf[s]
    /\ Move(s, {"asking"}, "yes") \/ Move(s, {"asking"}, "no")

Enter(s) == Move(s, {"yes"}, "inside")

Quit(s) == Move(s, Tickets \ {"gone"}, "gone")

\* s no longer wants to know; its withdrawal is by user, and refuses k, another
\* tab of that user that asks, in its place.
HangUp(s, k) ==
    /\ ticket[s] \in {"asking", "yes", "no"} /\ ticket[k] = "asking" /\ s # k
    /\ userOf[k] = userOf[s] /\ meetOf[k] = meetOf[s]
    /\ ticket' = [ticket EXCEPT ![s] = "gone", ![k] = "no"]

\* An answer takes effect: entry, refusal, or the asker has hung up.
Settle(s) == ticket[s] \in {"yes", "no"} /\ (Enter(s) \/ Quit(s))

Next ==
    \E s \in Sessions :
        \/ WalkIn(s)
        \/ Ask(s)
        \/ \E h \in Sessions : Decide(h, s) \/ HangUp(h, s)
        \/ Enter(s)
        \/ Quit(s)

Spec == Init /\ [][Next]_ticket /\ \A s \in Sessions : WF_ticket(Settle(s))
=============================================================================
