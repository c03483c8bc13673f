----------------------------- MODULE RosterSync -----------------------------
(***************************************************************************)
(* Who is in a group meeting, and whose microphone is on, as the pages are *)
(* told (sfu/room.go: BroadcastRoomState, BroadcastToOthers,               *)
(* SendMediaStateTo; handlers/sfu.go, HandleSFU; static/app.js,            *)
(* onSFUMessage).                                                          *)
(*                                                                         *)
(* One process per connection that is admitted (SfuRoom), the goroutine of *)
(* HandleSFU, and one for every `go p.SendJSON`: nothing orders these, so  *)
(* what is still to be written to a page is a set.  A page is written to   *)
(* one message at a time (wsMu) and handles them in that order, so writing *)
(* and handling a message is one step.                                     *)
(*                                                                         *)
(* Microphone and camera go the same way; the microphone stands for both.  *)
(***************************************************************************)
EXTENDS Naturals, FiniteSets

CONSTANTS
    Sessions,   \* connections
    Users,      \* account IDs, the keys of Room.peers
    userOf,     \* the account of a connection
    Leavers,    \* bound: the connections that end
    MaxToggles, \* bound: how often each page toggles its microphone
    None        \* no entry

ASSUME UserOfAssumption == userOf \in [Sessions -> Users]
ASSUME BoundAssumption  == /\ Leavers \subseteq Sessions
                          /\ MaxToggles \in [Sessions -> Nat]
ASSUME NoneAssumption   == None \notin Sessions \cup BOOLEAN

VARIABLES
    \* ---- server
    peers,      \* Room.peers: the connection of each user (Room.mu)
    micOn,      \* Peer.MicOn
    pc,         \* where each handler is
    states,     \* the local of SendMediaStateTo: what it has still to send
    sending,    \* goroutines in `go p.SendJSON`, by connection, each its message
    \* ---- pages
    roster,     \* state.sfuRoomPeers
    media,      \* state.sfuPeerMedia[u].micOn
    \* ---- history
    version,    \* how often Room.peers changed
    toggles,    \* how often each connection's MicOn changed
    newest,     \* the latest version whose list each page has handled
    heard       \* the latest toggle of each other that each page has handled

server  == <<peers, micOn, pc, states, sending>>
page    == <<roster, media>>
counts  == <<version, toggles>>
reached == <<newest, heard>>
vars    == <<server, page, counts, reached>>

PCs == {"admitted", "joined", "told", "telling", "loop", "toggled", "left",
        "done"}

RoomStates == [type: {"room-state"}, from: Sessions, version: Nat,
               peers: SUBSET Users]
MicStates  == [type: {"peer-mic-state"}, from: Sessions, n: Nat, on: BOOLEAN]

TypeOK ==
    /\ peers   \in [Users -> Sessions \cup {None}]
    /\ micOn   \in [Sessions -> BOOLEAN]
    /\ pc      \in [Sessions -> PCs]
    /\ states  \in [Sessions -> SUBSET MicStates]
    /\ sending \in [Sessions -> SUBSET (RoomStates \cup MicStates)]
    /\ roster  \in [Sessions -> SUBSET Users]
    /\ media   \in [Sessions -> [Users -> BOOLEAN \cup {None}]]
    /\ version \in Nat
    /\ toggles \in [Sessions -> Nat]
    /\ newest  \in [Sessions -> Nat]
    /\ heard   \in [Sessions -> [Sessions -> Nat]]

Init ==
    /\ peers   = [u \in Users |-> None]
    /\ micOn   = [s \in Sessions |-> TRUE]
    /\ pc      = [s \in Sessions |-> "admitted"]
    /\ states  = [s \in Sessions |-> {}]
    /\ sending = [s \in Sessions |-> {}]
    /\ roster  = [s \in Sessions |-> {}]
    /\ media   = [s \in Sessions |-> [u \in Users |-> None]]
    /\ version = 0
    /\ toggles = [s \in Sessions |-> 0]
    /\ newest  = [s \in Sessions |-> 0]
    /\ heard   = [s \in Sessions |-> [t \in Sessions |-> 0]]

Goto(s, label) == pc' = [pc EXCEPT ![s] = label]

Present   == {u \in Users : peers[u] # None}
Listed(s) == peers[userOf[s]] = s
Others(s) == {t \in Sessions : Listed(t) /\ userOf[t] # userOf[s]}

RoomState(s) == [type |-> "room-state", from |-> s, version |-> version,
                 peers |-> Present]
MicState(s)  == [type |-> "peer-mic-state", from |-> s, n |-> toggles[s],
                 on |-> micOn[s]]

\* go p.SendJSON(m), for each p of targets.
GoSend(targets, m) ==
    sending' = [t \in Sessions |-> IF t \in targets THEN sending[t] \cup {m}
                                                    ELSE sending[t]]

-----------------------------------------------------------------------------
(* Coming and going.                                                       *)

Join(s) ==
    /\ pc[s] = "admitted"
    /\ peers' = [peers EXCEPT ![userOf[s]] = s]
    /\ version' = version + 1
    /\ Goto(s, "joined")
    /\ UNCHANGED <<micOn, states, sending, page, toggles, reached>>

\* Mutant: as BroadcastToOthers, the list is not sent to the newcomer.
BroadcastRoomStateOthers(s) ==
    /\ pc[s] \in {"joined", "left"}
    /\ GoSend(Others(s), RoomState(s))
    /\ Goto(s, IF pc[s] = "joined" THEN "told" ELSE "done")
    /\ UNCHANGED <<peers, micOn, states, page, counts, reached>>

\* BroadcastRoomState, after Join and, deferred, after Leave; the list and those
\* it is for are read in one critical section of Room.mu.
BroadcastRoomState(s) ==
    /\ pc[s] \in {"joined", "left"}
    /\ GoSend({t \in Sessions : Listed(t)}, RoomState(s))
    /\ Goto(s, IF pc[s] = "joined" THEN "told" ELSE "done")
    /\ UNCHANGED <<peers, micOn, states, page, counts, reached>>

\* Mutant: the deferred calls in the other order.
LeaveUntold(s) ==
    /\ pc[s] = "loop"
    /\ s \in Leavers
    /\ peers' = [peers EXCEPT ![userOf[s]] = None]
    /\ version' = version + 1
    /\ GoSend({t \in Sessions : Listed(t)}, RoomState(s))
    /\ Goto(s, "done")
    /\ UNCHANGED <<micOn, states, page, toggles, reached>>

\* The message loop ends and room.Leave is called.
Leave(s) ==
    /\ pc[s] = "loop"
    /\ s \in Leavers
    /\ peers' = [peers EXCEPT ![userOf[s]] = None]
    /\ version' = version + 1
    /\ Goto(s, "left")
    /\ UNCHANGED <<micOn, states, sending, page, toggles, reached>>

-----------------------------------------------------------------------------
(* Microphones.                                                            *)

\* The critical section of SendMediaStateTo.
SendMediaStateTo(s) ==
    /\ pc[s] = "told"
    /\ states' = [states EXCEPT ![s] = {MicState(t) : t \in Others(s)}]
    /\ Goto(s, "telling")
    /\ UNCHANGED <<peers, micOn, sending, page, counts, reached>>

\* A message is written to the page of s, and the page handles it.
PageTakes(s, m) ==
    \/ /\ m.type = "room-state"
       /\ roster' = [roster EXCEPT ![s] = m.peers]
       /\ newest' = [newest EXCEPT ![s] = IF @ > m.version THEN @
                                                           ELSE m.version]
       /\ UNCHANGED <<media, heard>>
    \/ /\ m.type = "peer-mic-state"
       /\ media' = [media EXCEPT ![s][userOf[m.from]] = m.on]
       /\ heard' = [heard EXCEPT ![s][m.from] = IF @ > m.n THEN @ ELSE m.n]
       /\ UNCHANGED <<roster, newest>>

\* Its loop, in the order of a Go map; the handler itself writes.
TellMediaState(s) ==
    /\ pc[s] = "telling"
    /\ \E m \in states[s] :
          /\ PageTakes(s, m)
          /\ states' = [states EXCEPT ![s] = @ \ {m}]
    /\ UNCHANGED <<peers, micOn, pc, sending, counts>>

EnterLoop(s) ==
    /\ pc[s] = "telling"
    /\ states[s] = {}
    /\ Goto(s, "loop")
    /\ UNCHANGED <<peers, micOn, states, sending, page, counts, reached>>

\* case "mic-state": peer.MicOn = msg.On, without a lock.  A page alternates.
HandleMicState(s) ==
    /\ pc[s] = "loop"
    /\ toggles[s] < MaxToggles[s]
    /\ micOn' = [micOn EXCEPT ![s] = ~@]
    /\ toggles' = [toggles EXCEPT ![s] = @ + 1]
    /\ Goto(s, "toggled")
    /\ UNCHANGED <<peers, states, sending, page, version, reached>>

\* Mutant: for those that the page of s shows, not for those in the room.
BroadcastToOthersShown(s) ==
    /\ pc[s] = "toggled"
    /\ GoSend({t \in Others(s) : userOf[t] \in roster[s]}, MicState(s))
    /\ Goto(s, "loop")
    /\ UNCHANGED <<peers, micOn, states, page, counts, reached>>

BroadcastToOthers(s) ==
    /\ pc[s] = "toggled"
    /\ GoSend(Others(s), MicState(s))
    /\ Goto(s, "loop")
    /\ UNCHANGED <<peers, micOn, states, page, counts, reached>>

-----------------------------------------------------------------------------
\* One of the goroutines gets wsMu.
SendJSON(s) ==
    /\ \E m \in sending[s] :
          /\ PageTakes(s, m)
          /\ sending' = [sending EXCEPT ![s] = @ \ {m}]
    /\ pc[s] # "done"
    /\ UNCHANGED <<peers, micOn, pc, states, counts>>

\* When the handler has returned, the connection is closed and every write
\* fails.
SendFails(s) ==
    /\ pc[s] = "done"
    /\ sending[s] # {}
    /\ sending' = [sending EXCEPT ![s] = {}]
    /\ UNCHANGED <<peers, micOn, pc, states, page, counts, reached>>

Handler(s) ==
    \/ BroadcastRoomState(s)
    \/ SendMediaStateTo(s)
    \/ TellMediaState(s)
    \/ EnterLoop(s)
    \/ BroadcastToOthers(s)

Goroutine(s) == SendJSON(s) \/ SendFails(s)

Environment(s) ==
    \/ Join(s)
    \/ Leave(s)
    \/ HandleMicState(s)

Next == \E s \in Sessions : Handler(s) \/ Goroutine(s) \/ Environment(s)

Spec == Init /\ [][Next]_vars

\* Handlers run, and every goroutine gets the lock it waits for.
FairSpec ==
    /\ Spec
    /\ \A s \in Sessions : WF_vars(Handler(s)) /\ WF_vars(Goroutine(s))
-----------------------------------------------------------------------------
(* Properties.                                                             *)

\* Whoever is in the room has been sent the list that is true now, unless
\* somebody is about to send it: of the handlers that change the room and then
\* read it, each in a critical section of its own, the last to read comes after
\* the last to change (room.go:237-257, handlers/sfu.go:130-136).
RosterTold ==
    \A s \in Sessions :
        Listed(s) =>
            \/ \E t \in Sessions : pc[t] \in {"joined", "left"}
            \/ newest[s] >= version
            \/ \E m \in sending[s] : /\ m.type = "room-state"
                                     /\ m.version = version
                                     /\ m.peers = Present

\* A toggle reaches a newcomer whichever comes first, the toggle or the Join:
\* MicOn is stored before the room is read, and a newcomer is in the room before
\* it reads MicOn, so one of the two sees the other (handlers/sfu.go:130-139,
\* 226-232, room.go:197-233).
MicTold ==
    \A s, t \in Sessions :
        Listed(s) /\ Listed(t) /\ s # t =>
            \/ pc[t] = "toggled"
            \/ pc[s] \in {"joined", "told"}
            \/ heard[s][t] >= toggles[t]
            \/ MicState(t) \in states[s] \cup sending[s]

\* Every change of the room gets to every page that stays, in a list of that
\* version or of a later one (README.md:25, handlers/sfu.go:130-136).
RosterReaches ==
    \A s \in Sessions, v \in 1 .. 2 * Cardinality(Sessions) :
        (Listed(s) /\ version = v) ~> (newest[s] >= v \/ ~Listed(s))

\* Nothing is on its way to a page.
Quiet ==
    \A s \in Sessions :
        pc[s] \in {"admitted", "loop", "done"} /\ sending[s] = {}

\* README.md:24: real-time mute indicators.  When all is said, a page shows a
\* microphone as muted if and only if it is (index.html:622).
MicShown ==
    Quiet =>
        \A s, t \in Sessions :
            Listed(s) /\ Listed(t) /\ s # t =>
                (media[s][userOf[t]] # FALSE) = micOn[t]

-----------------------------------------------------------------------------
(* The inductive invariant behind RosterTold and MicTold.                  *)

\* An entry of the room is of a handler that is in the call, and a microphone is
\* toggled only in the call.
ListedInCall ==
    \A s \in Sessions :
        /\ Listed(s) => pc[s] \notin {"admitted", "left", "done"}
        /\ pc[s] = "admitted" => toggles[s] = 0

IInv == TypeOK /\ ListedInCall /\ RosterTold /\ MicTold
=============================================================================
