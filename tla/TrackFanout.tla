---------------------------- MODULE TrackFanout ----------------------------
(***************************************************************************)
(* Who receives whose media in a group meeting: the broadcasters of a Room *)
(* (sfu/room.go: OnTrack, AddExistingTracksTo, Leave; sfu/broadcaster.go;  *)
(* sfu/peer.go, AddSenderTrack) and the parts of handlers/sfu.go that      *)
(* drive them.                                                             *)
(*                                                                         *)
(* Processes: the goroutine of HandleSFU of each session, the goroutine it *)
(* starts for an offer, and, for each track a browser publishes, the       *)
(* goroutine in which Pion calls OnTrack and the one that runs the         *)
(* broadcaster.  A step is one critical section of Room.mu, Room.bcMu or   *)
(* TrackBroadcaster.mu, or one call of a PeerConnection.  Both OnTrack and *)
(* AddExistingTracksTo give a track to a peer in two steps, AddSenderTrack *)
(* and AddSink; the second holds bcMu for reading throughout, so others    *)
(* may do the same meanwhile but nobody registers or sweeps.               *)
(*                                                                         *)
(* Admission is SfuRoom's; here a session joins when it likes.  A track is *)
(* named after its session and kind, and so is its TrackBroadcaster.       *)
(***************************************************************************)
EXTENDS Naturals

CONSTANTS
    Sessions,   \* WebSocket connections to /sfu that are admitted
    Users,      \* account IDs: Peer.ID
    Kinds,      \* track kinds: audio, video
    Tracks,     \* <<session, kind>>: the tracks that the browsers may publish
    userOf,     \* the account a session authenticated as
    None        \* nil, and the absence of a map entry

ASSUME UserOfAssumption == userOf \in [Sessions -> Users]
ASSUME TracksAssumption == Tracks \subseteq Sessions \X Kinds
ASSUME NoneAssumption   == None \notin Sessions \cup Tracks

VARIABLES
    peers,          \* Room.peers: userID -> Peer (Room.mu)
    broadcasters,   \* Room.broadcasters: <<userID, kind>> -> the session whose
                    \* track of that kind the TrackBroadcaster reads (bcMu)
    sinks,          \* TrackBroadcaster.sinks: userID -> the session whose
                    \* PeerConnection the local track was added to
    senders,        \* how often a track was added to a PeerConnection
    pc,             \* where HandleSFU is
    \* ---- the goroutine of the offer
    wiring,         \* where it is
    existing,       \* the broadcasters that its range has not come to yet
    bc,             \* the broadcaster whose track it added and not yet its sink
    \* ---- OnTrack
    onTrack,        \* where the call is
    targets,        \* its local targets: those it has not come to yet
    target,         \* the target it added the track to and not yet the sink
    \* ---- the program
    crashed,        \* a panic that nobody recovers: every goroutine is gone
    \* ---- history
    twice,          \* the users of whom a session joined while another lingered
    late            \* <<s, b>>: when s joined, a goroutine had added b to
                    \* another session of the user of s, and not yet the sink

room    == <<peers, broadcasters>>
media   == <<sinks, senders>>
offer   == <<wiring, existing, bc>>
track   == <<onTrack, targets, target>>
history == <<twice, late>>
vars    == <<room, media, pc, offer, track, crashed, history>>

TypeOK ==
    /\ peers        \in [Users -> Sessions \cup {None}]
    /\ broadcasters \in [Users \X Kinds -> Sessions \cup {None}]
    /\ sinks        \in [Tracks -> [Users -> Sessions \cup {None}]]
    /\ senders      \in [Sessions -> [Tracks -> 0..2]]
    /\ pc           \in [Sessions -> {"idle", "call", "sweep", "return", "done"}]
    /\ wiring       \in [Sessions -> {"idle", "started", "adding", "done"}]
    /\ existing     \in [Sessions -> SUBSET Tracks]
    /\ bc           \in [Sessions -> Tracks \cup {None}]
    /\ onTrack      \in [Tracks -> {"idle", "start", "collect", "wire", "run", "done"}]
    /\ targets      \in [Tracks -> SUBSET Sessions]
    /\ target       \in [Tracks -> Sessions \cup {None}]
    /\ crashed      \in BOOLEAN
    /\ twice        \in SUBSET Users
    /\ late         \in SUBSET (Sessions \X Tracks)

Init ==
    /\ peers        = [u \in Users |-> None]
    /\ broadcasters = [key \in Users \X Kinds |-> None]
    /\ sinks        = [b \in Tracks |-> [u \in Users |-> None]]
    /\ senders      = [s \in Sessions |-> [b \in Tracks |-> 0]]
    /\ pc           = [s \in Sessions |-> "idle"]
    /\ wiring       = [s \in Sessions |-> "idle"]
    /\ existing     = [s \in Sessions |-> {}]
    /\ bc           = [s \in Sessions |-> None]
    /\ onTrack      = [b \in Tracks |-> "idle"]
    /\ targets      = [b \in Tracks |-> {}]
    /\ target       = [b \in Tracks |-> None]
    /\ crashed      = FALSE
    /\ twice        = {}
    /\ late         = {}

Owner(b) == b[1]

\* broadcasterKey(senderPeer.ID, kind).
Key(b) == <<userOf[b[1]], b[2]>>

\* AddTrack fails on a PeerConnection that was closed; HandleSFU closes it last.
Open(s) == pc[s] # "done"

\* From Join until HandleSFU returns.
InCall(s) == pc[s] \in {"call", "sweep", "return"}

\* It is in the call, or an OnTrack of its PeerConnection is still to register.
Lingers(s) == InCall(s) \/ \E b \in Tracks : Owner(b) = s /\ onTrack[b] = "start"

\* PC.AddTrack, and TrackBroadcaster.AddSink, which writes under the user's ID.
AddTrack(s, b) == senders' = [senders EXCEPT ![s][b] = @ + 1]
AddSink(b, s)  == sinks' = [sinks EXCEPT ![b][userOf[s]] = s]

\* The sessions that b was added to and whose sink is still to be written.
Unsunk(b) == {x \in Sessions : target[b] = x \/ bc[x] = b}

\* OnTrack has registered its broadcaster.
Published(b) == onTrack[b] \notin {"idle", "start"}

\* The tracks that the map broadcasters leads to.
Registered == {b \in Tracks : broadcasters[Key(b)] = Owner(b)}

\* bcMu is held for reading.
Ranging == \E s \in Sessions : wiring[s] = "adding"

-----------------------------------------------------------------------------
(* The handler's goroutine, and the one it starts for the offer.           *)

Join(s) ==
    /\ ~crashed
    /\ pc[s] = "idle"
    /\ pc' = [pc EXCEPT ![s] = "call"]
    /\ peers' = [peers EXCEPT ![userOf[s]] = s]
    /\ twice' = twice \cup {u \in Users : \E t \in Sessions \ {s} :
                                 userOf[t] = u /\ userOf[s] = u /\ Lingers(t)}
    /\ late' = late \cup {e \in {s} \X Tracks : \E x \in Unsunk(e[2]) :
                                                   userOf[x] = userOf[s]}
    /\ UNCHANGED <<broadcasters, media, offer, track, crashed>>

\* Mutant: every offer is wired, whether or not one was before.
HandleOfferAgain(s) ==
    /\ ~crashed
    /\ pc[s] = "call"
    /\ wiring' = [wiring EXCEPT ![s] = "started"]
    /\ UNCHANGED <<room, media, pc, existing, bc, track, crashed, history>>

\* case "offer", once per page (sfuCreateOffer): answer it, then go func().
HandleOffer(s) ==
    /\ ~crashed
    /\ pc[s] = "call"
    /\ wiring[s] = "idle"
    /\ wiring' = [wiring EXCEPT ![s] = "started"]
    /\ UNCHANGED <<room, media, pc, existing, bc, track, crashed, history>>

\* On to the next broadcaster, or bcMu.RUnlock.  (Renegotiate is Renegotiation's.)
GoesOn(s, rest) ==
    wiring' = [wiring EXCEPT ![s] = IF rest = {} THEN "done" ELSE "adding"]

\* Mutant: only broadcasters that are already forwarding are wired.
AddExistingRunning(s) ==
    /\ ~crashed
    /\ wiring[s] = "started"
    /\ LET forwarding == {b \in Registered : onTrack[b] \in {"run", "done"}}
       IN  /\ existing' = [existing EXCEPT ![s] = forwarding]
           /\ GoesOn(s, forwarding)
    /\ UNCHANGED <<room, media, pc, bc, track, crashed, history>>

\* bcMu.RLock; every registered broadcaster, the peer's own included.  It may
\* run after the peer has left.
AddExistingTracksTo(s) ==
    /\ ~crashed
    /\ wiring[s] = "started"
    /\ existing' = [existing EXCEPT ![s] = Registered]
    /\ GoesOn(s, Registered)
    /\ UNCHANGED <<room, media, pc, bc, track, crashed, history>>

\* newPeer.AddSenderTrack, in the map's order.
AddExistingTrack(s) ==
    /\ ~crashed
    /\ wiring[s] = "adding"
    /\ bc[s] = None
    /\ Open(s)
    /\ \E b \in existing[s] :
          /\ existing' = [existing EXCEPT ![s] = @ \ {b}]
          /\ AddTrack(s, b)
          /\ bc' = [bc EXCEPT ![s] = b]
    /\ UNCHANGED <<room, sinks, pc, wiring, track, crashed, history>>

\* It fails on a PeerConnection that was closed: continue, to the end.
AddExistingFails(s) ==
    /\ ~crashed
    /\ wiring[s] = "adding"
    /\ bc[s] = None
    /\ ~Open(s)
    /\ existing' = [existing EXCEPT ![s] = {}]
    /\ GoesOn(s, {})
    /\ UNCHANGED <<room, media, pc, bc, track, crashed, history>>

\* bc.AddSink(newPeer.ID, lt).
AddExistingSink(s) ==
    /\ ~crashed
    /\ bc[s] # None
    /\ AddSink(bc[s], s)
    /\ bc' = [bc EXCEPT ![s] = None]
    /\ GoesOn(s, existing[s])
    /\ UNCHANGED <<room, senders, pc, existing, track, crashed, history>>

-----------------------------------------------------------------------------
(* The goroutine of OnTrack.                                               *)

\* The browser's media arrives, and Pion starts a goroutine that calls OnTrack; it
\* does so until the PeerConnection is closed, so also while Leave runs.
OnTrackStart(b) ==
    /\ ~crashed
    /\ onTrack[b] = "idle"
    /\ wiring[Owner(b)] # "idle"
    /\ Open(Owner(b))
    /\ onTrack' = [onTrack EXCEPT ![b] = "start"]
    /\ UNCHANGED <<room, media, pc, offer, targets, target, crashed, history>>

\* r.broadcasters[key] = bc, whether or not the sender is still there.
OnTrackRegister(b) ==
    /\ ~crashed
    /\ onTrack[b] = "start"
    /\ ~Ranging
    /\ broadcasters' = [broadcasters EXCEPT ![Key(b)] = Owner(b)]
    /\ onTrack' = [onTrack EXCEPT ![b] = "collect"]
    /\ UNCHANGED <<peers, media, pc, offer, targets, target, crashed, history>>

\* Mutant: only peers that have not been wired yet are collected.
OnTrackCollectUnwired(b) ==
    /\ ~crashed
    /\ onTrack[b] = "collect"
    /\ \E u \in Users : peers[u] # None
    /\ targets' = [targets EXCEPT ![b] =
                      {t \in Sessions : \E u \in Users \ {userOf[Owner(b)]} : peers[u] = t /\ wiring[t] # "done"}]
    /\ onTrack' = [onTrack EXCEPT ![b] = "wire"]
    /\ UNCHANGED <<room, media, pc, offer, target, crashed, history>>

\* The peers of the room but the sender, by user.
OnTrackCollect(b) ==
    /\ ~crashed
    /\ onTrack[b] = "collect"
    /\ \E u \in Users : peers[u] # None
    /\ targets' = [targets EXCEPT ![b] =
                      {t \in Sessions : \E u \in Users \ {userOf[Owner(b)]} : peers[u] = t}]
    /\ onTrack' = [onTrack EXCEPT ![b] = "wire"]
    /\ UNCHANGED <<room, media, pc, offer, target, crashed, history>>

\* make([]*Peer, 0, len(r.peers)-1) of an empty room: the capacity is negative,
\* and the panic ends the server.
OnTrackPanics(b) ==
    /\ ~crashed
    /\ onTrack[b] = "collect"
    /\ \A u \in Users : peers[u] = None
    /\ crashed' = TRUE
    /\ UNCHANGED <<room, media, pc, offer, track, history>>

\* One iteration over targets, in the map's order: target.AddSenderTrack, and on
\* to the next one if it fails.
OnTrackAdd(b) ==
    /\ ~crashed
    /\ onTrack[b] = "wire"
    /\ target[b] = None
    /\ \E t \in targets[b] :
          /\ targets' = [targets EXCEPT ![b] = @ \ {t}]
          /\ \/ Open(t) /\ AddTrack(t, b) /\ target' = [target EXCEPT ![b] = t]
             \/ ~Open(t) /\ UNCHANGED <<senders, target>>
    /\ UNCHANGED <<room, sinks, pc, offer, onTrack, crashed, history>>

\* bc.AddSink(target.ID, lt).  (ScheduleRenegotiate then starts the target's
\* timer, which is the Peer's own affair.)
OnTrackSink(b) ==
    /\ ~crashed
    /\ target[b] # None
    /\ AddSink(b, target[b])
    /\ target' = [target EXCEPT ![b] = None]
    /\ UNCHANGED <<room, senders, pc, offer, onTrack, targets, crashed, history>>

\* go bc.Run().
OnTrackRun(b) ==
    /\ ~crashed
    /\ onTrack[b] = "wire"
    /\ target[b] = None
    /\ targets[b] = {}
    /\ onTrack' = [onTrack EXCEPT ![b] = "run"]
    /\ UNCHANGED <<room, media, pc, offer, targets, target, crashed, history>>

\* Mutant: a failed read is tried again.
RunEndsRetries(b) ==
    /\ ~crashed
    /\ onTrack[b] = "run"
    /\ ~Open(Owner(b))
    /\ UNCHANGED vars

\* Run: ReadRTP fails once the source's PeerConnection is closed.
RunEnds(b) ==
    /\ ~crashed
    /\ onTrack[b] = "run"
    /\ ~Open(Owner(b))
    /\ onTrack' = [onTrack EXCEPT ![b] = "done"]
    /\ UNCHANGED <<room, media, pc, offer, targets, target, crashed, history>>

-----------------------------------------------------------------------------
(* Leaving: the deferred room.Leave, then the deferred pc.Close.           *)

LeavePeers(s) ==
    /\ ~crashed
    /\ pc[s] = "call"
    /\ pc' = [pc EXCEPT ![s] = "sweep"]
    /\ peers' = [peers EXCEPT ![userOf[s]] = None]
    /\ UNCHANGED <<broadcasters, media, offer, track, crashed, history>>

\* Under bcMu: the peer's sinks in the registered broadcasters, then the
\* broadcasters it publishes; both by user.
LeaveBroadcasters(s) ==
    /\ ~crashed
    /\ pc[s] = "sweep"
    /\ ~Ranging
    /\ pc' = [pc EXCEPT ![s] = "return"]
    /\ sinks' = [b \in Tracks |-> IF b \in Registered
                                  THEN [sinks[b] EXCEPT ![userOf[s]] = None]
                                  ELSE sinks[b]]
    /\ broadcasters' = [key \in Users \X Kinds |->
                           IF key[1] = userOf[s] THEN None ELSE broadcasters[key]]
    /\ UNCHANGED <<peers, senders, offer, track, crashed, history>>

\* The senders end with the PeerConnection; the sinks do not.
ClosePC(s) ==
    /\ ~crashed
    /\ pc[s] = "return"
    /\ pc' = [pc EXCEPT ![s] = "done"]
    /\ senders' = [senders EXCEPT ![s] = [b \in Tracks |-> 0]]
    /\ UNCHANGED <<room, sinks, offer, track, crashed, history>>

-----------------------------------------------------------------------------
Leave(s) == LeaveBroadcasters(s) \/ ClosePC(s)

Wiring(s) ==
    \/ AddExistingTracksTo(s)
    \/ AddExistingTrack(s)
    \/ AddExistingFails(s)
    \/ AddExistingSink(s)

Track(b) ==
    \/ OnTrackRegister(b)
    \/ OnTrackCollect(b)
    \/ OnTrackPanics(b)
    \/ OnTrackAdd(b)
    \/ OnTrackSink(b)
    \/ OnTrackRun(b)
    \/ RunEnds(b)

Next ==
    \/ \E s \in Sessions : \/ Join(s)
                           \/ HandleOffer(s)
                           \/ LeavePeers(s)
                           \/ Leave(s)
                           \/ Wiring(s)
    \/ \E b \in Tracks : OnTrackStart(b) \/ Track(b)

Spec == Init /\ [][Next]_vars

Goroutine ==
    \/ \E s \in Sessions : Leave(s) \/ Wiring(s)
    \/ \E b \in Tracks : Track(b)

\* The Go scheduler runs goroutines as long as some can run.  That is enough: all
\* of them end.  Browsers need not join, publish or leave.
FairSpec == Spec /\ WF_vars(Goroutine)

-----------------------------------------------------------------------------
(* Properties.                                                             *)

\* Who reloads the page after the old connection was cleaned up, and what it
\* published was registered or never came, is sole.
Sole(s) == userOf[s] \notin twice

Receives(t, b) == sinks[b][userOf[t]] = t

\* Two peers in the call miss nothing of each other, in whatever order one
\* publishes and the other joins and is wired: OnTrack registers the broadcaster
\* before it collects the peers, and a peer is in the room before
\* AddExistingTracksTo reads the broadcasters (room.go:105-160).  So once both
\* have run, the track is forwarded to the peer.  It is so for every two users
\* of whom no session joined while another lingered, whatever others did; and
\* unless the peer joined while a goroutine had added the very track to the
\* user's previous PeerConnection and not yet its sink, which then takes the
\* place of the new one (room.go:111-116, 146-151).
NoMissedTrack ==
    \A b \in Tracks, t \in Sessions :
        /\ pc[Owner(b)] = "call" /\ onTrack[b] \in {"run", "done"}
        /\ pc[t] = "call" /\ wiring[t] = "done" /\ t # Owner(b)
        /\ Sole(Owner(b)) /\ Sole(t)
        => Receives(t, b) \/ <<t, b>> \in late

\* The same as progress: a published track reaches every peer whose offer was
\* handled, unless one of the two leaves (room.go:105-160).
TrackArrives ==
    \A b \in Tracks : \A t \in Sessions \ {Owner(b)} :
        (/\ pc[Owner(b)] = "call" /\ onTrack[b] # "idle"
         /\ pc[t] = "call" /\ wiring[t] # "idle")
            ~> (\/ Receives(t, b) \/ <<t, b>> \in late
                \/ pc[Owner(b)] # "call" \/ pc[t] # "call"
                \/ ~Sole(Owner(b)) \/ ~Sole(t))

\* A broadcaster does not outlive its source: once the publisher's connection
\* is closed its Run returns, even if OnTrack started it after that
\* (broadcaster.go:42-53).
BroadcasterStops ==
    \A b \in Tracks :
        (pc[Owner(b)] = "done" /\ onTrack[b] # "idle")
            ~> (onTrack[b] = "done" \/ crashed)

-----------------------------------------------------------------------------
(* The inductive invariant behind NoMissedTrack.                           *)

\* Two sessions of one user linger only if that was seen.
OverlapSeen ==
    \A s, t \in Sessions :
        Lingers(s) /\ Lingers(t) /\ userOf[s] = userOf[t] /\ Sole(s) => s = t

\* Each publisher's and each member's entry is there while it is in the call.
EntriesPresent ==
    \A s \in Sessions :
        pc[s] = "call" /\ Sole(s) =>
            /\ peers[userOf[s]] = s
            /\ \A b \in Tracks : Owner(b) = s /\ Published(b) =>
                                    broadcasters[Key(b)] = s

\* A session is listed, collected and wired only after it joined, and publishes
\* after its offer.
WiredAfterJoin ==
    /\ \A u \in Users : peers[u] # None => pc[peers[u]] # "idle"
    /\ \A b \in Tracks : \A t \in targets[b] \cup Unsunk(b) : pc[t] # "idle"
    /\ \A s \in Sessions : pc[s] = "idle" => wiring[s] = "idle"
    /\ \A b \in Tracks : wiring[Owner(b)] = "idle" => onTrack[b] = "idle"

\* The offer's goroutine has come to the track b, or will not.
Passed(t, b) ==
    \/ wiring[t] = "done"
    \/ wiring[t] = "adding" /\ b \notin existing[t]

\* A sink that is still to be written for another session of a user whose new
\* session is in the call was seen when that joined.
LateSeen ==
    \A b \in Tracks, t \in Sessions : \A x \in Unsunk(b) \ {t} :
        InCall(t) /\ userOf[x] = userOf[t] /\ Sole(t) => <<t, b>> \in late

\* A peer that is wired receives a registered track, or OnTrack is still to
\* collect it, or has collected it, or one of the two is about to add the sink.
ReceivesOrWill ==
    \A b \in Tracks, t \in Sessions :
        /\ pc[Owner(b)] = "call" /\ Published(b)
        /\ pc[t] = "call" /\ Passed(t, b) /\ t # Owner(b)
        /\ Sole(Owner(b)) /\ Sole(t)
        => \/ Receives(t, b) \/ <<t, b>> \in late
           \/ onTrack[b] = "collect"
           \/ onTrack[b] = "wire" /\ t \in targets[b]
           \/ t \in Unsunk(b)

\* A track is added to a PeerConnection once by OnTrack and once for the offer.
SendersCounted ==
    \A s \in Sessions, b \in Tracks :
        senders[s][b] <=
            (IF Passed(s, b) THEN 1 ELSE 0)
            + (IF \/ onTrack[b] \in {"idle", "start", "collect"}
                  \/ onTrack[b] = "wire" /\ s \in targets[b] THEN 0 ELSE 1)

\* Sinks are written by whoever is still at it.
UnsunkBusy ==
    /\ \A s \in Sessions : bc[s] # None => wiring[s] = "adding"
    /\ \A b \in Tracks : target[b] # None => onTrack[b] = "wire"

\* The panic needs an empty room: it takes no call away from users of whom no two
\* sessions overlapped, though it does from every other room.
CrashedEmpty ==
    crashed => \A s \in Sessions : pc[s] = "call" => ~Sole(s)

IInv ==
    /\ TypeOK
    /\ SendersCounted
    /\ UnsunkBusy
    /\ WiredAfterJoin
    /\ OverlapSeen
    /\ EntriesPresent
    /\ LateSeen
    /\ ReceivesOrWill
    /\ CrashedEmpty
=============================================================================
