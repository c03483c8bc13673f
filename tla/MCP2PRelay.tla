---------------------------- MODULE MCP2PRelay -----------------------------
(* P2PRelay on small instances: one meeting, three connections.            *)
EXTENDS P2PRelay, TLC

CONSTANTS c1, c2, c3, u1, u2, u3, m1

MCConns  == {c1, c2, c3}
MCUsers  == {u1, u2, u3}
MCMeets  == {m1}
MCMeetOf == [c \in Conns |-> m1]

\* A host, who reloads the page, and a guest.
ReloadUsers == c1 :> u1 @@ c2 :> u1 @@ c3 :> u2
ReloadHost  == c1 :> TRUE @@ c2 :> TRUE @@ c3 :> FALSE

\* A host and two guests.
GuestsUsers == c1 :> u1 @@ c2 :> u2 @@ c3 :> u3
GuestsHost  == c1 :> TRUE @@ c2 :> FALSE @@ c3 :> FALSE

=============================================================================
