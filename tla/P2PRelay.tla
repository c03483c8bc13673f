------------------------------ MODULE P2PRelay ------------------------------
(***************************************************************************)
(* The signalling relay of a 1-to-1 meeting: handlers/ws.go (HandleWS and  *)
(* the global map meets), with the browser's side of the knock             *)
(* (static/app.js, connectWebSocket and onMessage).                        *)
(*                                                                         *)
(* One process per WebSocket connection: the goroutine that runs HandleWS. *)
(* One global mutex, mu, guards every Meet; a step is one critical section *)
(* of mu or one message read.  A Meet is named after the connection that   *)
(* allocated it.  Its slices peers, peerUsers and userIDs are parallel     *)
(* (every append and every removal does all three), so peers stands for    *)
(* them and userOf gives userIDs[i].                                       *)
(***************************************************************************)
EXTENDS Naturals, Sequences, SequencesExt

CONSTANTS
    Conns,      \* WebSocket connections to /ws
    Users,      \* account IDs
    Meets,      \* meetID strings
    userOf,     \* the account a connection authenticated as
    meetOf,     \* the meetID a connection asks for
    isHost,     \* the page's state.isHost (a flag in sessionStorage)
    None        \* nil and absence

ASSUME UserOfAssumption == userOf \in [Conns -> Users]
ASSUME MeetOfAssumption == meetOf \in [Conns -> Meets]
ASSUME IsHostAssumption == isHost \in [Conns -> BOOLEAN]
ASSUME NoneAssumption   == None \notin Conns

VARIABLES
    \* ---- server: shared state, under mu
    meets,      \* the global map: meetID -> Meet
    peers,      \* Meet.peers
    \* ---- server: locals of one HandleWS goroutine
    pc,         \* where the goroutine is
    meet,       \* the *Meet it holds
    peerIndex,  \* its index in peers when it was added
    open,       \* its conn has not been closed by the server
    \* ---- the connection and the page
    toServer,   \* messages sent and not yet read by the handler
    toPage,     \* messages written and not yet handled by the page
    tab,        \* the page still has the socket open
    screen,     \* one of Screens
    knocker     \* state.knocker: the knock the page shows

server == <<meets, peers, pc, meet, peerIndex, open>>
page   == <<toServer, toPage, tab, screen, knocker>>
vars   == <<server, page>>

PCs == {"idle", "scan", "dup", "evict", "add", "relay", "cleanup", "done"}

\* Before the socket, what the page has been told: nothing, that its user is not
\* in the meeting, or that it is, which it warns of.
Screens == {"entry", "clear", "warned", "waiting", "meeting", "over"}

\* A message is its type and, for a knock, the connection it came from.  An
\* admit or deny says nobody's name.
Types == {"force-join", "knock", "admit", "deny", "offer", "answer", "already",
          "replaced", "full", "ended", "left"}
Msgs == [type: Types, about: Conns \cup {None}]
Msg(type) == [type |-> type, about |-> None]
MsgAbout(type, c) == [type |-> type, about |-> c]

TypeOK ==
    /\ meets     \in [Meets -> Conns \cup {None}]
    /\ peers     \in [Conns -> Seq(Conns)]
    /\ pc        \in [Conns -> PCs]
    /\ meet      \in [Conns -> Conns \cup {None}]
    /\ peerIndex \in [Conns -> 0..1]
    /\ open      \in [Conns -> BOOLEAN]
    /\ toServer  \in [Conns -> Seq(Msgs)]
    /\ toPage    \in [Conns -> Seq(Msgs)]
    /\ tab       \in [Conns -> BOOLEAN]
    /\ screen    \in [Conns -> Screens]
    /\ knocker   \in [Conns -> Conns \cup {None}]

Init ==
    /\ meets     = [m \in Meets |-> None]
    /\ peers     = [o \in Conns |-> <<>>]
    /\ pc        = [c \in Conns |-> "idle"]
    /\ meet      = [c \in Conns |-> None]
    /\ peerIndex = [c \in Conns |-> 0]
    /\ open      = [c \in Conns |-> TRUE]
    /\ toServer  = [c \in Conns |-> <<>>]
    /\ toPage    = [c \in Conns |-> <<>>]
    /\ tab       = [c \in Conns |-> FALSE]
    /\ screen    = [c \in Conns |-> "entry"]
    /\ knocker   = [c \in Conns |-> None]

Goto(c, label) == pc' = [pc EXCEPT ![c] = label]
Screen(c, s) == screen' = [screen EXCEPT ![c] = s]

\* A write to a connection that either side has closed is lost.
Reachable(c) == open[c] /\ tab[c]

\* WriteMessage(msg) to every connection of D.
Write(D, msg) ==
    toPage' = [c \in Conns |-> IF c \in D /\ Reachable(c)
                               THEN Append(toPage[c], msg) ELSE toPage[c]]

-----------------------------------------------------------------------------
(* The page asks whether its user is in the meeting, and opens the socket. *)

\* The Meet that meetID names now, or the one c would allocate.
MeetFor(c) == IF meets[meetOf[c]] = None THEN c ELSE meets[meetOf[c]]

IsDuplicate(c) == \E d \in Range(peers[MeetFor(c)]) : userOf[d] = userOf[c]

\* GET /api/meet/check, in enterMeetingAsHost and askToJoin.  If the request
\* fails, the page takes it for a no.
CheckUserInMeet(c) ==
    /\ pc[c] = "idle"
    /\ screen[c] = "entry"
    /\ \/ IsDuplicate(c) /\ Screen(c, "warned")
       \/ Screen(c, "clear")
    /\ UNCHANGED <<server, toServer, toPage, tab, knocker>>

\* The page of c has another socket, d, on which it was told "already".
ToldBy(d, c) ==
    /\ userOf[d] = userOf[c] /\ isHost[d] = isHost[c]
    /\ pc[d] = "dup" /\ tab[d] /\ toPage[d] = <<>>

\* connectWebSocket; forceJoin if the page was warned, by the check or on the
\* socket it had before.  A guest knocks, once, in onopen.
Connect(c) ==
    /\ pc[c] = "idle"
    /\ \E force \in BOOLEAN :
          /\ IF force
             THEN \/ screen[c] = "warned"
                  \/ screen[c] = "entry" /\ \E d \in Conns : ToldBy(d, c)
             ELSE screen[c] = "clear"
          /\ toServer' = [toServer EXCEPT ![c] =
                 (IF force THEN <<Msg("force-join")>> ELSE <<>>)
                 \o (IF isHost[c] THEN <<>> ELSE <<MsgAbout("knock", c)>>)]
    /\ tab' = [tab EXCEPT ![c] = TRUE]
    /\ Screen(c, IF isHost[c] THEN "meeting" ELSE "waiting")
    /\ Goto(c, "scan")
    /\ UNCHANGED <<meets, peers, meet, peerIndex, open, toPage, knocker>>

\* The user lookup or the upgrade fails: the handler returns.
Refuse(c) ==
    /\ pc[c] = "idle"
    /\ Goto(c, "done")
    /\ UNCHANGED <<meets, peers, meet, peerIndex, open, page>>

-----------------------------------------------------------------------------
(* Entering the meeting: three critical sections.                          *)

\* Look the meeting up, or create it, and look for the same user in it.
LookUp(c) ==
    /\ pc[c] = "scan"
    /\ meets' = [meets EXCEPT ![meetOf[c]] = MeetFor(c)]
    /\ meet' = [meet EXCEPT ![c] = MeetFor(c)]
    /\ IF IsDuplicate(c)
       THEN Goto(c, "dup") /\ Write({c}, Msg("already"))
       ELSE Goto(c, "add") /\ UNCHANGED toPage
    /\ UNCHANGED <<peers, peerIndex, open, toServer, tab, screen, knocker>>

\* The duplicate waits for force-join and ignores everything else.
ReadDuplicate(c) ==
    /\ pc[c] = "dup"
    /\ toServer[c] # <<>>
    /\ toServer' = [toServer EXCEPT ![c] = Tail(@)]
    /\ IF Head(toServer[c]).type = "force-join"
       THEN Goto(c, "evict") ELSE UNCHANGED pc
    /\ UNCHANGED <<meets, peers, meet, peerIndex, open, toPage, tab, screen, knocker>>

\* Mutant: a read error in the duplicate's loop is ignored.
LeaveDuplicateIgnored(c) ==
    /\ pc[c] = "dup"
    /\ toServer[c] = <<>>
    /\ ~tab[c]
    /\ UNCHANGED vars

LeaveDuplicate(c) ==
    /\ pc[c] = "dup"
    /\ toServer[c] = <<>>
    /\ ~tab[c]
    /\ Goto(c, "done")
    /\ UNCHANGED <<meets, peers, meet, peerIndex, open, page>>

\* Replace the first connection of the same user, in the Meet c has held since
\* LookUp, registered or not.
Evict(c) ==
    /\ pc[c] = "evict"
    /\ LET q == peers[meet[c]]
           same == {i \in DOMAIN q : userOf[q[i]] = userOf[c]}
       IN  IF same = {}
           THEN UNCHANGED <<peers, open, toPage>>
           ELSE LET j == CHOOSE i \in same : \A k \in same : i <= k
                IN  /\ Write({q[j]}, Msg("replaced"))
                    /\ open' = [open EXCEPT ![q[j]] = FALSE]
                    /\ peers' = [peers EXCEPT ![meet[c]] = RemoveAt(q, j)]
    /\ Goto(c, "add")
    /\ UNCHANGED <<meets, meet, peerIndex, toServer, tab, screen, knocker>>

\* Mutant: the capacity is checked with the wrong comparison.
AddOverfull(c) ==
    /\ pc[c] = "add"
    /\ LET q == peers[meet[c]]
       IN  IF Len(q) > 2
           THEN /\ Write({c}, Msg("full"))
                /\ open' = [open EXCEPT ![c] = FALSE]
                /\ Goto(c, "done")
                /\ UNCHANGED <<peers, peerIndex>>
           ELSE /\ peers' = [peers EXCEPT ![meet[c]] = Append(q, c)]
                /\ peerIndex' = [peerIndex EXCEPT ![c] = Len(q)]
                /\ Goto(c, "relay")
                /\ UNCHANGED <<open, toPage>>
    /\ UNCHANGED <<meets, meet, toServer, tab, screen, knocker>>

\* Check the capacity, then add the connection.  peerIndex counts from 0 and is
\* never updated again.
Add(c) ==
    /\ pc[c] = "add"
    /\ LET q == peers[meet[c]]
       IN  IF Len(q) >= 2
           THEN /\ Write({c}, Msg("full"))
                /\ open' = [open EXCEPT ![c] = FALSE]
                /\ Goto(c, "done")
                /\ UNCHANGED <<peers, peerIndex>>
           ELSE /\ peers' = [peers EXCEPT ![meet[c]] = Append(q, c)]
                /\ peerIndex' = [peerIndex EXCEPT ![c] = Len(q)]
                /\ Goto(c, "relay")
                /\ UNCHANGED <<open, toPage>>
    /\ UNCHANGED <<meets, meet, toServer, tab, screen, knocker>>

-----------------------------------------------------------------------------
(* In the meeting.                                                         *)

\* One iteration of the relay loop: to everyone in the list but the index the
\* connection was given when it was added.  What was read before the server
\* closed the connection is still relayed: reading happens outside mu.
Relay(c) ==
    /\ pc[c] = "relay"
    /\ toServer[c] # <<>>
    /\ toServer' = [toServer EXCEPT ![c] = Tail(@)]
    /\ LET q == peers[meet[c]]
           others == {i \in DOMAIN q : i # peerIndex[c] + 1}
       IN  Write({q[i] : i \in others}, Head(toServer[c]))
    /\ UNCHANGED <<server, tab, screen, knocker>>

\* Mutant: the handler returns without the cleanup.
ReadFailsReturns(c) ==
    /\ pc[c] = "relay"
    /\ ~open[c] \/ (~tab[c] /\ toServer[c] = <<>>)
    /\ Goto(c, "done")
    /\ UNCHANGED <<meets, peers, meet, peerIndex, open, page>>

\* ReadMessage fails: the server closed the connection, or the page did and
\* everything it sent has been read.
ReadFails(c) ==
    /\ pc[c] = "relay"
    /\ ~open[c] \/ (~tab[c] /\ toServer[c] = <<>>)
    /\ Goto(c, "cleanup")
    /\ UNCHANGED <<meets, peers, meet, peerIndex, open, page>>

\* Mutant: the meeting is deleted only when the host was the last to leave.
CleanupByHost(c) ==
    /\ pc[c] = "cleanup"
    /\ LET q == peers[meet[c]]
           currentIdx == CHOOSE i \in DOMAIN q : q[i] = c
           rest == RemoveAt(q, currentIdx)
       IN  IF c \notin Range(q)
           THEN UNCHANGED <<meets, peers, toPage>>
           ELSE /\ peers' = [peers EXCEPT ![meet[c]] = rest]
                /\ IF rest # <<>>
                   THEN /\ Write({rest[1]}, Msg(IF peerIndex[c] = 0
                                                THEN "ended" ELSE "left"))
                        /\ UNCHANGED meets
                   ELSE /\ meets' = IF peerIndex[c] = 0
                                    THEN [meets EXCEPT ![meetOf[c]] = None]
                                    ELSE meets
                        /\ UNCHANGED toPage
    /\ Goto(c, "done")
    /\ UNCHANGED <<meet, peerIndex, open, toServer, tab, screen, knocker>>

\* Take the connection out of its Meet, if it is still there; tell who is left,
\* or delete whatever Meet is registered under the meetID.
Cleanup(c) ==
    /\ pc[c] = "cleanup"
    /\ LET q == peers[meet[c]]
           currentIdx == CHOOSE i \in DOMAIN q : q[i] = c
           rest == RemoveAt(q, currentIdx)
       IN  IF c \notin Range(q)
           THEN UNCHANGED <<meets, peers, toPage>>
           ELSE /\ peers' = [peers EXCEPT ![meet[c]] = rest]
                /\ IF rest # <<>>
                   THEN /\ Write({rest[1]}, Msg(IF peerIndex[c] = 0
                                                THEN "ended" ELSE "left"))
                        /\ UNCHANGED meets
                   ELSE /\ meets' = [meets EXCEPT ![meetOf[c]] = None]
                        /\ UNCHANGED toPage
    /\ Goto(c, "done")
    /\ UNCHANGED <<meet, peerIndex, open, toServer, tab, screen, knocker>>

-----------------------------------------------------------------------------
(* The page.                                                               *)

Send(c, msgs) == toServer' = [toServer EXCEPT ![c] = @ \o msgs]
Close(c) == tab' = [tab EXCEPT ![c] = FALSE]
Knocker(c, k) == knocker' = [knocker EXCEPT ![c] = k]

\* onMessage.
PageReceives(c) ==
    /\ tab[c]
    /\ toPage[c] # <<>>
    /\ toPage' = [toPage EXCEPT ![c] = Tail(@)]
    /\ LET msg == Head(toPage[c])
       IN  \/ /\ msg.type \in {"already", "answer", "force-join"}
              /\ UNCHANGED <<toServer, tab, screen, knocker>>
           \/ /\ msg.type = "knock"
              /\ Knocker(c, msg.about)
              /\ UNCHANGED <<toServer, tab, screen>>
           \/ /\ msg.type = "admit"
              /\ Screen(c, "meeting")
              /\ Send(c, <<Msg("offer")>>)
              /\ UNCHANGED <<tab, knocker>>
           \/ /\ msg.type = "offer"
              /\ Send(c, <<Msg("answer")>>)
              /\ UNCHANGED <<tab, screen, knocker>>
           \/ /\ msg.type = "left"
              /\ Knocker(c, None)
              /\ UNCHANGED <<toServer, tab, screen>>
           \/ /\ msg.type \in {"deny", "replaced", "ended"}
              /\ Close(c)
              /\ Screen(c, "over")
              /\ UNCHANGED <<toServer, knocker>>
           \/ /\ msg.type = "full"
              /\ Screen(c, "over")
              /\ UNCHANGED <<toServer, tab, knocker>>
    /\ UNCHANGED server

\* admitKnocker and denyKnocker, on the popup of the meeting screen.
AnswerKnock(c) ==
    /\ tab[c]
    /\ screen[c] = "meeting"
    /\ knocker[c] # None
    /\ \E type \in {"admit", "deny"} : Send(c, <<Msg(type)>>)
    /\ Knocker(c, None)
    /\ UNCHANGED <<server, toPage, tab, screen>>

\* Leaving, cancelling, reloading or losing the page.
CloseTab(c) ==
    /\ tab[c]
    /\ Close(c)
    /\ UNCHANGED <<server, toServer, toPage, screen, knocker>>

-----------------------------------------------------------------------------
Handler(c) ==
    \/ LookUp(c)
    \/ ReadDuplicate(c)
    \/ LeaveDuplicate(c)
    \/ Evict(c)
    \/ Add(c)
    \/ Relay(c)
    \/ ReadFails(c)
    \/ Cleanup(c)

Page(c) ==
    \/ CheckUserInMeet(c)
    \/ Connect(c)
    \/ Refuse(c)
    \/ PageReceives(c)
    \/ AnswerKnock(c)
    \/ CloseTab(c)

Next == \E c \in Conns : Handler(c) \/ Page(c)

Spec == Init /\ [][Next]_vars

\* The Go scheduler runs every handler that can run; nothing is asked of pages.
FairSpec == Spec /\ \A c \in Conns : WF_vars(Handler(c))

-----------------------------------------------------------------------------
(* Properties.                                                             *)

\* A meeting never has more than two connections and never one twice, although
\* the duplicate check, the eviction and the capacity check are three critical
\* sections (ws.go:77-144).
TwoSeats ==
    \A o \in Conns :
        /\ Len(peers[o]) <= 2
        /\ \A i, j \in DOMAIN peers[o] : peers[o][i] = peers[o][j] => i = j

\* A connection in a meeting's list has a handler that is relaying for that
\* very meeting, or about to clean up: an evicted or refused connection, and
\* one whose handler has returned, is in no list (ws.go:115-127, 169-198).
SeatIsServed ==
    \A o \in Conns : \A c \in Range(peers[o]) :
        meet[c] = o /\ pc[c] \in {"relay", "cleanup"}

\* An empty meeting that is registered has a connection about to take a seat in
\* it: the map never keeps a dead meeting, although it is emptied by eviction
\* and by cleanup and filled in another critical section (ws.go:78-82, 194-197).
NoMeetLeak ==
    \A m \in Meets :
        meets[m] # None /\ peers[meets[m]] = <<>> =>
            \E c \in Conns : pc[c] = "add" /\ meet[c] = meets[m]

\* A host's page has been in the meeting m.
HostCame(m) ==
    \E h \in Conns :
        isHost[h] /\ meetOf[h] = m /\ screen[h] \in {"meeting", "over"}

\* Nobody is let into a meeting that no host has come to, although the server
\* relays "admit" from anybody and looks at none, and may send a message back to
\* its sender or after an eviction (app.js:480-500, 849, ws.go:148-165).
AdmittedByHost ==
    \A c \in Conns : screen[c] = "meeting" /\ ~isHost[c] => HostCame(meetOf[c])

\* A closed connection is always cleaned up after: its handler returns,
\* whatever it was waiting for (ws.go:99-112, 149-200).
ClosedHandlerReturns ==
    \A c \in Conns :
        (~tab[c] /\ pc[c] # "idle") ~> (pc[c] = "done")

\* ws.go:148: the relay loop forwards every message to the other peer.
RelayReachesOther ==
    [][\A c, d \in Conns :
          /\ pc[c] = "relay" /\ toServer[c] # <<>>
          /\ toServer'[c] = Tail(toServer[c])
          /\ d \in Range(peers[meet[c]]) \ {c} /\ Reachable(d)
          => toPage'[d] = Append(toPage[d], Head(toServer[c]))]_vars

-----------------------------------------------------------------------------
(* The inductive invariant behind TwoSeats, SeatIsServed and NoMeetLeak.   *)

\* A handler holds a Meet from LookUp on; a Meet belongs to the meetID of the
\* connection that allocated it and is registered, if at all, under it.
MeetHeld ==
    /\ \A c \in Conns :
          /\ pc[c] \notin {"idle", "scan", "done"} => meet[c] # None
          /\ meet[c] # None => meetOf[meet[c]] = meetOf[c]
    /\ \A m \in Meets : meets[m] # None => meetOf[meets[m]] = m

\* An "admit" is on its way, or was taken, only where a host has come.
Holds(q) == \E i \in DOMAIN q : q[i].type = "admit"

AdmitsFromInside ==
    \A c \in Conns :
        Holds(toServer[c]) \/ Holds(toPage[c]) \/ screen[c] = "meeting"
            => HostCame(meetOf[c])

IInv ==
    /\ TypeOK
    /\ MeetHeld
    /\ TwoSeats
    /\ SeatIsServed
    /\ NoMeetLeak
    /\ AdmitsFromInside
=============================================================================
