------------------------------ MODULE SfuRoom ------------------------------
(***************************************************************************)
(* Admission to a group meeting: the registry of rooms (sfu/manager.go),   *)
(* the life of a Room (sfu/room.go: Join, Knock, AdmitKnocker,             *)
(* DenyKnocker, Leave) and the WebSocket handler that drives them          *)
(* (handlers/sfu.go, HandleSFU), with the browser that answers knocks      *)
(* (static/app.js).                                                        *)
(*                                                                         *)
(* One process per WebSocket connection ("session"): the goroutine that    *)
(* runs HandleSFU.  A step is the code between two points where another    *)
(* goroutine can interfere: one critical section of roomsMu, Room.mu or    *)
(* Room.knockMu, one channel operation, or one message to a browser.       *)
(*                                                                         *)
(* Every connection calls GetOrCreate and Knock at most once, so the Room  *)
(* it allocates and the channel it makes are named after it.               *)
(***************************************************************************)
EXTENDS Naturals, Sequences

CONSTANTS
    Sessions,   \* WebSocket connections to /sfu
    Users,      \* account IDs: Peer.ID, the key of Room.peers and pendingKnocks
    Meets,      \* meetID strings
    userOf,     \* the account a connection authenticated as
    meetOf,     \* the meetID a connection asks for
    None        \* nil, "", and the absence of a map entry

ASSUME UserOfAssumption == userOf \in [Sessions -> Users]
ASSUME MeetOfAssumption == meetOf \in [Sessions -> Meets]
ASSUME NoneAssumption   == None \notin Sessions \cup Users \cup {"admit", "deny"}

VARIABLES
    \* ---- server: shared state
    registry,   \* the global map rooms: meetID -> Room (roomsMu)
    hostID,     \* Room.hostID (Room.mu)
    peers,      \* Room.peers: userID -> Peer, here its connection (Room.mu)
    pending,    \* Room.pendingKnocks: userID -> channel (Room.knockMu)
    admitCh,    \* the one-slot buffer of each knock channel
    \* ---- server: locals of one HandleSFU goroutine
    pc,         \* where the goroutine is
    room,       \* the *Room it holds
    verdict,    \* the value it received from its own knock channel
    notifyTo,   \* Knock's local host: read under Room.mu, used after it
    outCh,      \* AdmitKnocker/DenyKnocker's local ch, taken but not yet sent on
    outVal,     \* ... and the value to send
    \* ---- browser and connection
    popup,      \* state.sfuKnocker: the one knock the page shows
    inbox,      \* messages the browser sent that the handler has not read
    closed      \* the connection is closed: msgCh closes once it is drained

shared  == <<registry, hostID, peers, pending, admitCh>>
locals  == <<pc, room, verdict, notifyTo, outCh, outVal>>
browser == <<popup, inbox, closed>>
vars    == <<shared, locals, browser>>

PCs == {"idle", "enter", "check", "knock", "lookup", "notify", "waiting",
        "withdrawing", "admitted", "call", "answering", "leaving", "destroy",
        "done"}

Decisions == {"admit", "deny"}

\* The signalling messages that admission is about.
Msgs == [type: Decisions, userID: Users] \cup [type: {"leave"}, userID: {None}]

TypeOK ==
    /\ registry \in [Meets -> Sessions \cup {None}]
    /\ hostID   \in [Sessions -> Users \cup {None}]
    /\ peers    \in [Sessions -> [Users -> Sessions \cup {None}]]
    /\ pending  \in [Sessions -> [Users -> Sessions \cup {None}]]
    /\ admitCh  \in [Sessions -> Decisions \cup {"empty"}]
    /\ pc       \in [Sessions -> PCs]
    /\ room     \in [Sessions -> Sessions \cup {None}]
    /\ verdict  \in [Sessions -> Decisions \cup {None}]
    /\ notifyTo \in [Sessions -> Sessions \cup {None}]
    /\ outCh    \in [Sessions -> Sessions \cup {None}]
    /\ outVal   \in [Sessions -> Decisions \cup {None}]
    /\ popup    \in [Sessions -> Users \cup {None}]
    /\ inbox    \in [Sessions -> Seq(Msgs)]
    /\ closed   \in [Sessions -> BOOLEAN]

Init ==
    /\ registry = [m \in Meets |-> None]
    /\ hostID   = [r \in Sessions |-> None]
    /\ peers    = [r \in Sessions |-> [u \in Users |-> None]]
    /\ pending  = [r \in Sessions |-> [u \in Users |-> None]]
    /\ admitCh  = [c \in Sessions |-> "empty"]
    /\ pc       = [s \in Sessions |-> "idle"]
    /\ room     = [s \in Sessions |-> None]
    /\ verdict  = [s \in Sessions |-> None]
    /\ notifyTo = [s \in Sessions |-> None]
    /\ outCh    = [s \in Sessions |-> None]
    /\ outVal   = [s \in Sessions |-> None]
    /\ popup    = [s \in Sessions |-> None]
    /\ inbox    = [s \in Sessions |-> <<>>]
    /\ closed   = [s \in Sessions |-> FALSE]

Goto(s, label) == pc' = [pc EXCEPT ![s] = label]

-----------------------------------------------------------------------------
(* Entering: HandleSFU up to the knock decision.                           *)

\* The request arrives; the user lookup, the upgrade or NewPeerConnection may
\* fail, and then the handler returns.
Connect(s) ==
    /\ pc[s] = "idle"
    /\ \E label \in {"enter", "done"} : Goto(s, label)
    /\ UNCHANGED <<shared, room, verdict, notifyTo, outCh, outVal, browser>>

GetOrCreate(s) ==
    /\ pc[s] = "enter"
    /\ Goto(s, "check")
    /\ IF registry[meetOf[s]] = None
       THEN /\ registry' = [registry EXCEPT ![meetOf[s]] = s]
            /\ room' = [room EXCEPT ![s] = s]
       ELSE /\ room' = [room EXCEPT ![s] = registry[meetOf[s]]]
            /\ UNCHANGED registry
    /\ UNCHANGED <<hostID, peers, pending, admitCh, verdict, notifyTo,
                   outCh, outVal, browser>>

IsEmpty(r) == \A u \in Users : peers[r][u] = None

\* if !room.IsEmpty(): the answer is used after Room.mu is released.
CheckEmpty(s) ==
    /\ pc[s] = "check"
    /\ Goto(s, IF IsEmpty(room[s]) THEN "admitted" ELSE "knock")
    /\ UNCHANGED <<shared, room, verdict, notifyTo, outCh, outVal, browser>>

-----------------------------------------------------------------------------
(* Knocking: Room.Knock, then the wait loop.                               *)

\* Mutant: the channel is made but never registered.
RegisterKnockForgotten(s) ==
    /\ pc[s] = "knock"
    /\ Goto(s, "lookup")
    /\ UNCHANGED <<shared, room, verdict, notifyTo, outCh, outVal, browser>>

RegisterKnock(s) ==
    /\ pc[s] = "knock"
    /\ pending' = [pending EXCEPT ![room[s]][userOf[s]] = s]
    /\ Goto(s, "lookup")
    /\ UNCHANGED <<registry, hostID, peers, admitCh, room, verdict, notifyTo,
                   outCh, outVal, browser>>

\* Mutant: the host's ID is used without looking the peer up.
FindHostUnresolved(s) ==
    /\ pc[s] = "lookup"
    /\ notifyTo' = [notifyTo EXCEPT ![s] = hostID[room[s]]]
    /\ Goto(s, "notify")
    /\ UNCHANGED <<shared, room, verdict, outCh, outVal, browser>>

\* host, ok := r.peers[r.hostID]; None when the host is no longer a peer.
FindHost(s) ==
    /\ pc[s] = "lookup"
    /\ LET h == hostID[room[s]]
       IN  notifyTo' = [notifyTo EXCEPT ![s] =
                            IF h = None THEN None ELSE peers[room[s]][h]]
    /\ Goto(s, "notify")
    /\ UNCHANGED <<shared, room, verdict, outCh, outVal, browser>>

\* host.SendJSON, and the page's handler: one slot, a later knock replaces an
\* unanswered one.  A message to a closed connection is lost.
NotifyHost(s) ==
    /\ pc[s] = "notify"
    /\ LET h == notifyTo[s]
       IN  IF h # None /\ ~closed[h]
           THEN popup' = [popup EXCEPT ![h] = userOf[s]]
           ELSE UNCHANGED popup
    /\ Goto(s, "waiting")
    /\ UNCHANGED <<shared, room, verdict, notifyTo, outCh, outVal,
                   inbox, closed>>

\* Mutant: the value received is not looked at.
ReceiveAnswerIgnored(s) ==
    /\ pc[s] = "waiting"
    /\ admitCh[s] # "empty"
    /\ verdict' = [verdict EXCEPT ![s] = admitCh[s]]
    /\ admitCh' = [admitCh EXCEPT ![s] = "empty"]
    /\ Goto(s, "admitted")
    /\ UNCHANGED <<registry, hostID, peers, pending, room, notifyTo,
                   outCh, outVal, browser>>

\* case ok := <-admitCh
ReceiveAnswer(s) ==
    /\ pc[s] = "waiting"
    /\ admitCh[s] # "empty"
    /\ verdict' = [verdict EXCEPT ![s] = admitCh[s]]
    /\ admitCh' = [admitCh EXCEPT ![s] = "empty"]
    /\ Goto(s, IF admitCh[s] = "admit" THEN "admitted" ELSE "done")
    /\ UNCHANGED <<registry, hostID, peers, pending, room, notifyTo,
                   outCh, outVal, browser>>

\* Mutant: the entry is read but not deleted.
TakeKnockKept(s, u, decision, sending, after) ==
    LET ch == pending[room[s]][u]
    IN  /\ pending' = pending
        /\ outCh' = [outCh EXCEPT ![s] = ch]
        /\ outVal' = [outVal EXCEPT ![s] = IF ch = None THEN None
                                                       ELSE decision]
        /\ Goto(s, IF ch = None THEN after ELSE sending)

\* The critical section of AdmitKnocker and DenyKnocker, run by s for the
\* knock registered under u: take the channel and delete the entry.
TakeKnock(s, u, decision, sending, after) ==
    LET ch == pending[room[s]][u]
    IN  /\ pending' = [pending EXCEPT ![room[s]][u] = None]
        /\ outCh' = [outCh EXCEPT ![s] = ch]
        /\ outVal' = [outVal EXCEPT ![s] = IF ch = None THEN None
                                                       ELSE decision]
        /\ Goto(s, IF ch = None THEN after ELSE sending)

\* Mutant: the wait loop does not watch msgCh.
WithdrawKnockUnwatched(s) ==
    /\ pc[s] = "waiting"
    /\ closed[s]
    /\ UNCHANGED vars

\* case _, open := <-msgCh with !open: DenyKnocker(userID), by user, not by
\* channel.  The page sends nothing while it waits, so msgCh is drained.
WithdrawKnock(s) ==
    /\ pc[s] = "waiting"
    /\ closed[s]
    /\ TakeKnock(s, userOf[s], "deny", "withdrawing", "done")
    /\ UNCHANGED <<registry, hostID, peers, admitCh, room, verdict, notifyTo,
                   browser>>

\* ch <- true or ch <- false, after knockMu is released.  It blocks while the
\* one-slot buffer is full.
SendAnswer(s) ==
    /\ pc[s] \in {"answering", "withdrawing"}
    /\ admitCh[outCh[s]] = "empty"
    /\ admitCh' = [admitCh EXCEPT ![outCh[s]] = outVal[s]]
    /\ outCh' = [outCh EXCEPT ![s] = None]
    /\ outVal' = [outVal EXCEPT ![s] = None]
    /\ Goto(s, IF pc[s] = "answering" THEN "call" ELSE "done")
    /\ UNCHANGED <<registry, hostID, peers, pending, room, verdict, notifyTo,
                   browser>>

-----------------------------------------------------------------------------
(* In the call: Room.Join, the message loop, Room.Leave, destroyIfEmpty.   *)

Join(s) ==
    /\ pc[s] = "admitted"
    /\ hostID' = [hostID EXCEPT ![room[s]] = IF @ = None THEN userOf[s] ELSE @]
    /\ peers' = [peers EXCEPT ![room[s]][userOf[s]] = s]
    /\ Goto(s, "call")
    /\ UNCHANGED <<registry, pending, admitCh, room, verdict, notifyTo,
                   outCh, outVal, browser>>

\* case "admit" and case "deny": any peer may send them; the server asks only
\* for a userID.
HandleDecision(s) ==
    /\ pc[s] = "call"
    /\ inbox[s] # <<>>
    /\ Head(inbox[s]).type \in Decisions
    /\ inbox' = [inbox EXCEPT ![s] = Tail(@)]
    /\ TakeKnock(s, Head(inbox[s]).userID, Head(inbox[s]).type,
                 "answering", "call")
    /\ UNCHANGED <<registry, hostID, peers, admitCh, room, verdict, notifyTo,
                   popup, closed>>

\* Mutant: the handler returns without the deferred room.Leave.
HandleLeaveUndeferred(s) ==
    /\ pc[s] = "call"
    /\ inbox[s] # <<>>
    /\ Head(inbox[s]).type = "leave"
    /\ inbox' = [inbox EXCEPT ![s] = <<>>]
    /\ Goto(s, "done")
    /\ UNCHANGED <<shared, room, verdict, notifyTo, outCh, outVal,
                   popup, closed>>

\* case "leave": return; what is left in msgCh is never read.
HandleLeave(s) ==
    /\ pc[s] = "call"
    /\ inbox[s] # <<>>
    /\ Head(inbox[s]).type = "leave"
    /\ inbox' = [inbox EXCEPT ![s] = <<>>]
    /\ Goto(s, "leaving")
    /\ UNCHANGED <<shared, room, verdict, notifyTo, outCh, outVal,
                   popup, closed>>

\* for raw := range msgCh ends: drained and closed.
HandleClosed(s) ==
    /\ pc[s] = "call"
    /\ inbox[s] = <<>>
    /\ closed[s]
    /\ Goto(s, "leaving")
    /\ UNCHANGED <<shared, room, verdict, notifyTo, outCh, outVal, browser>>

\* Mutant: remaining is computed before the delete.
LeaveCountedEarly(s) ==
    /\ pc[s] = "leaving"
    /\ peers' = [peers EXCEPT ![room[s]][userOf[s]] = None]
    /\ Goto(s, IF IsEmpty(room[s]) THEN "destroy" ELSE "done")
    /\ UNCHANGED <<registry, hostID, pending, admitCh, room, verdict, notifyTo,
                   outCh, outVal, browser>>

\* Mutant: the room ends when its host leaves.
LeaveEndsRoom(s) ==
    /\ pc[s] = "leaving"
    /\ peers' = [peers EXCEPT ![room[s]] =
                    IF hostID[room[s]] = userOf[s]
                    THEN [u \in Users |-> None] ELSE [@ EXCEPT ![userOf[s]] = None]]
    /\ Goto(s, IF \A u \in Users \ {userOf[s]} : peers[room[s]][u] = None
               THEN "destroy" ELSE "done")
    /\ UNCHANGED <<registry, hostID, pending, admitCh, room, verdict, notifyTo,
                   outCh, outVal, browser>>

\* Room.Leave under Room.mu: delete(r.peers, userID), whichever connection
\* the entry belongs to, and remaining := len(r.peers).
Leave(s) ==
    /\ pc[s] = "leaving"
    /\ peers' = [peers EXCEPT ![room[s]][userOf[s]] = None]
    /\ Goto(s, IF \A u \in Users \ {userOf[s]} : peers[room[s]][u] = None
               THEN "destroy" ELSE "done")
    /\ UNCHANGED <<registry, hostID, pending, admitCh, room, verdict, notifyTo,
                   outCh, outVal, browser>>

\* By meetID: the room that is registered now, not the one s held.  roomsMu is
\* held throughout and only Join adds a peer, so one step is enough.
DestroyIfEmpty(s) ==
    /\ pc[s] = "destroy"
    /\ LET r == registry[meetOf[s]]
       IN  IF r # None /\ IsEmpty(r)
           THEN registry' = [registry EXCEPT ![meetOf[s]] = None]
           ELSE UNCHANGED registry
    /\ Goto(s, "done")
    /\ UNCHANGED <<hostID, peers, pending, admitCh, room, verdict, notifyTo,
                   outCh, outVal, browser>>

-----------------------------------------------------------------------------
(* The browser.                                                            *)

\* sfuAdmitKnocker and sfuDenyKnocker.
AnswerPopup(s) ==
    /\ popup[s] # None
    /\ ~closed[s]
    /\ \E d \in Decisions :
          inbox' = [inbox EXCEPT ![s] =
                        Append(@, [type |-> d, userID |-> popup[s]])]
    /\ popup' = [popup EXCEPT ![s] = None]
    /\ UNCHANGED <<shared, locals, closed>>

\* leaveMeeting: the message, then the socket is closed and the page is left.
LeaveMeeting(s) ==
    /\ pc[s] \in {"admitted", "call", "answering"}
    /\ ~closed[s]
    /\ inbox' = [inbox EXCEPT ![s] =
                     Append(@, [type |-> "leave", userID |-> None])]
    /\ popup' = [popup EXCEPT ![s] = None]
    /\ closed' = [closed EXCEPT ![s] = TRUE]
    /\ UNCHANGED <<shared, locals>>

\* cancelWaiting, a closed tab, or a broken connection, at any moment; the
\* last messages sent may be lost with it.
Disconnect(s) ==
    /\ pc[s] \notin {"idle", "done"}
    /\ ~closed[s]
    /\ \E n \in 0..Len(inbox[s]) :
          inbox' = [inbox EXCEPT ![s] = SubSeq(@, 1, n)]
    /\ popup' = [popup EXCEPT ![s] = None]
    /\ closed' = [closed EXCEPT ![s] = TRUE]
    /\ UNCHANGED <<shared, locals>>

-----------------------------------------------------------------------------
\* The goroutine of one HandleSFU call, once the request has arrived.
Handler(s) ==
    \/ GetOrCreate(s)
    \/ CheckEmpty(s)
    \/ RegisterKnock(s)
    \/ FindHost(s)
    \/ NotifyHost(s)
    \/ ReceiveAnswer(s)
    \/ WithdrawKnock(s)
    \/ SendAnswer(s)
    \/ Join(s)
    \/ HandleDecision(s)
    \/ HandleLeave(s)
    \/ HandleClosed(s)
    \/ Leave(s)
    \/ DestroyIfEmpty(s)

Browser(s) ==
    \/ Connect(s)
    \/ AnswerPopup(s)
    \/ LeaveMeeting(s)
    \/ Disconnect(s)

Next == \E s \in Sessions : Handler(s) \/ Browser(s)

Spec == Init /\ [][Next]_vars

\* The Go scheduler runs every goroutine that can run.
HandlerFairness == \A s \in Sessions : WF_vars(Handler(s))

\* A host who sees the popup of a knock eventually clicks one of its buttons.
HostFairness == \A s \in Sessions : WF_vars(AnswerPopup(s))

FairSpec == Spec /\ HandlerFairness

-----------------------------------------------------------------------------
(* Properties.                                                             *)

\* A channel carries one answer and its sender never blocks: whoever has taken
\* a channel out of pendingKnocks and not sent on it yet is alone, finds the
\* buffer empty, and nobody can take the channel again.  AdmitKnocker and
\* DenyKnocker send outside knockMu, so two answers to one knock would leave a
\* handler stuck for ever (room.go:78-97).
AnswerNeverBlocks ==
    \A s \in Sessions :
        outCh[s] # None =>
            /\ admitCh[outCh[s]] = "empty"
            /\ \A t \in Sessions \ {s} : outCh[t] # outCh[s]
            /\ \A r \in Sessions, u \in Users : pending[r][u] # outCh[s]

\* The connection that will empty the registry again, or put a peer in room r.
Responsible(s, r, m) ==
    \/ pc[s] \in {"check", "admitted"} /\ room[s] = r
    \/ pc[s] = "destroy" /\ meetOf[s] = m

\* A registered room without peers is about to be joined or destroyed: rooms
\* are never leaked, whatever the order of GetOrCreate, IsEmpty, Join, Leave and
\* destroyIfEmpty, none of which holds both locks for long (manager.go:36-51).
NoRoomLeak ==
    \A m \in Meets :
        registry[m] # None /\ IsEmpty(registry[m]) =>
            \E s \in Sessions : Responsible(s, registry[m], m)

\* A peer listed in a room is a connection whose handler is still in the call,
\* in that room and under that user: no exit of HandleSFU leaves one behind.
NoGhostPeer ==
    \A r \in Sessions, u \in Users :
        LET s == peers[r][u]
        IN  s # None =>
              /\ userOf[s] = u
              /\ room[s] = r
              /\ pc[s] \in {"call", "answering", "leaving"}

\* Another connection of the user of s, in the same room.
Twin(s, t) == t # s /\ userOf[t] = userOf[s] /\ room[t] = room[s]

\* t has registered a knock; t has joined, or has at least returned.
HasKnocked(t) ==
    \/ pc[t] \in {"lookup", "notify", "waiting", "withdrawing", "done"}
    \/ pc[t] \notin {"idle", "enter", "check", "knock"} /\ verdict[t] # None
HasJoined(t) == pc[t] \in {"call", "answering", "leaving", "destroy", "done"}

\* A knock is never lost inside the server: until its handler stops waiting,
\* the channel is in pendingKnocks, or an answer to it is being sent or received,
\* whatever others do, in this meeting or another, unless a twin has knocked too
\* and may have taken its place in pendingKnocks (room.go:53-97).
KnockNotLost ==
    \A s \in Sessions :
        pc[s] \in {"lookup", "notify", "waiting"} =>
            \/ pending[room[s]][userOf[s]] = s
            \/ \E h \in Sessions : outCh[h] = s
            \/ admitCh[s] # "empty"
            \/ \E t \in Sessions : Twin(s, t) /\ HasKnocked(t)

\* A connection in the call is listed as itself in its room: no other's Leave or
\* Join takes its entry, unless a twin has been in the room (room.go:40-49,
\* 163-187).
MemberListed ==
    \A s \in Sessions :
        pc[s] \in {"call", "answering"} =>
            \/ peers[room[s]][userOf[s]] = s
            \/ \E t \in Sessions : Twin(s, t) /\ HasJoined(t)

\* Every connection that closes is cleaned up after: its handler returns,
\* wherever the close found it (handlers/sfu.go:103-123, 160, 211-214).
ClosedHandlerReturns ==
    \A s \in Sessions : closed[s] ~> (pc[s] = "done")

\* README.md:22, static/app.js:579-580: the first is admitted instantly, others
\* wait for the host.  A handler that joins without an answer to its knock
\* finds no peer in the room.
OnlyFirstWalksIn ==
    [][\A s \in Sessions :
          /\ pc[s] = "admitted" /\ pc'[s] = "call"
          /\ verdict[s] = None
          => IsEmpty(room[s])]_vars

\* With a host who answers what the page shows, a knock that is shown is answered
\* and its handler moves on, unless the host goes or another knock takes its place
\* on the page; the answer passes the page, msgCh, pendingKnocks and the channel
\* (README.md:22, room.go:53-97, handlers/sfu.go:103-123, 216-224).
HostOf(r) == IF hostID[r] = None THEN None ELSE peers[r][hostID[r]]
HostPresent(r) == HostOf(r) # None /\ ~closed[HostOf(r)]
Shown(s) == HostPresent(room[s]) /\ popup[HostOf(room[s])] = userOf[s]
OtherKnock(s) == \E t \in Sessions \ {s} : pc[t] = "waiting" /\ room[t] = room[s]

KnockAnswered ==
    HostFairness =>
        \A s \in Sessions :
            (pc[s] = "waiting" /\ Shown(s))
                ~> (pc[s] # "waiting" \/ ~HostPresent(room[s]) \/ OtherKnock(s))

-----------------------------------------------------------------------------
(* The inductive invariant behind the safety properties.                   *)

\* The locals of a handler are set where its code uses them: it holds a room
\* from GetOrCreate on, and a channel exactly while it is about to send on it.
LocalsSet ==
    \A s \in Sessions :
        /\ pc[s] \notin {"idle", "enter", "done"} => room[s] # None
        /\ IF pc[s] \in {"answering", "withdrawing"}
           THEN outCh[s] # None /\ outVal[s] # None
           ELSE outCh[s] = None

\* A room belongs to the meeting of the connection that allocated it, and it is
\* registered, if at all, under that meeting.
RoomOfMeet ==
    /\ \A s \in Sessions : room[s] # None => meetOf[room[s]] = meetOf[s]
    /\ \A m \in Meets : registry[m] # None => meetOf[registry[m]] = m

\* A channel in pendingKnocks is where its knocker put it, the knocker still
\* waits for it, and its buffer is empty.
PendingIsWaiting ==
    \A r \in Sessions, u \in Users :
        LET c == pending[r][u]
        IN  c # None =>
              /\ room[c] = r
              /\ userOf[c] = u
              /\ pc[c] \in {"lookup", "notify", "waiting"}
              /\ admitCh[c] = "empty"

\* A channel is taken and answered only after it was registered.
RegisteredFirst ==
    \A s \in Sessions :
        pc[s] \in {"idle", "enter", "check", "knock"} =>
            /\ admitCh[s] = "empty"
            /\ \A h \in Sessions : outCh[h] # s

IInv ==
    /\ TypeOK
    /\ LocalsSet
    /\ RoomOfMeet
    /\ PendingIsWaiting
    /\ RegisteredFirst
    /\ AnswerNeverBlocks
    /\ NoGhostPeer
    /\ NoRoomLeak
    /\ KnockNotLost
    /\ MemberListed

-----------------------------------------------------------------------------
(* What admission promises: KnockGate, under this mapping.                 *)

AnswerTo(s, d) ==
    \/ admitCh[s] = d
    \/ \E h \in Sessions : outCh[h] = s /\ outVal[h] = d

Asking == {"knock", "lookup", "notify", "waiting"}
Inside == {"admitted", "call", "answering", "leaving"}

Ticket(s) ==
    IF pc[s] \in {"idle", "enter", "check"} THEN "outside"
    ELSE IF pc[s] \in Inside THEN "inside"
    ELSE IF pc[s] \notin Asking THEN "gone"
    ELSE IF AnswerTo(s, "admit") THEN "yes"
    ELSE IF AnswerTo(s, "deny") THEN "no" ELSE "asking"

ticketBar == [s \in Sessions |-> Ticket(s)]

Gate == INSTANCE KnockGate WITH ticket <- ticketBar

\* SfuRoom implements KnockGate, fairness included.
GateSpec == Gate!Spec
=============================================================================
