# OpenMeet in TLA+

A verification project for the server of OpenMeet (`src/`, Go) and the parts of
its page (`src/static/app.js`) that take part in a protocol. The modules are
written from the code; the line numbers in the comments and in `PROJECT.json`
are those of `src/`.

TLC model-checks small instances, TLAPS proves the safety invariants for every
number of users, connections and meetings.

    tlc -config SfuRoom_gate.cfg MCSfuRoom.tla          # one run
    tlapm SfuRoomProofs.tla                             # one module of proofs

## 1. The system

OpenMeet serves two kinds of meeting. In a **1-to-1 meeting** the server only
relays JSON between two browsers (`handlers/ws.go`). In a **group meeting** it is
a selective forwarding unit: every browser has one PeerConnection to the server,
which forwards each track to all others (`sfu/`, `handlers/sfu.go`). Both ask the
host before a guest gets in.

| Component | State it keeps | Operations | Interacts through |
|---|---|---|---|
| Room registry, `sfu/manager.go` | `rooms` (lock `roomsMu`) | `GetOrCreate`, `RoomExists`, `destroyIfEmpty` | called by the group handler and by `Leave` |
| Group admission, `sfu/room.go`, `handlers/sfu.go` | `Room.peers`, `hostID` (`Room.mu`), `pendingKnocks` (`knockMu`), a one-slot channel per knock | `IsEmpty`, `Join`, `Knock`, `AdmitKnocker`, `DenyKnocker`, `Leave`, the wait loop, the message loop | channels between handlers; JSON to and from browsers |
| Track fan-out, `sfu/room.go`, `sfu/broadcaster.go`, `sfu/peer.go` | `Room.broadcasters` (`bcMu`), `TrackBroadcaster.sinks`, the senders of each PeerConnection | `OnTrack`, `AddExistingTracksTo`, `AddSenderTrack`, `Run`, `Leave` | Pion calls `OnTrack` on a goroutine of its own; the offer starts another |
| Renegotiation, `sfu/peer.go`, `handlers/sfu.go`, `app.js` | one timer per peer, the signalling state of two PeerConnections, the page's `sfuSignalingQueue` | `ScheduleRenegotiate`, `Renegotiate`, offer, answer, candidates | timers, WebSocket |
| Roster and media state, `sfu/room.go`, `app.js` | `MicOn`, `CameraOn`, the page's participant list | `BroadcastRoomState`, `BroadcastToOthers`, `SendMediaStateTo` | one goroutine per message sent |
| 1-to-1 relay, `handlers/ws.go`, `app.js` | `meets`, `Meet.peers` (one global `mu`), each handler's `meet` and `peerIndex` | `CheckUserInMeet`, duplicate check, `force-join`, eviction, add, relay, cleanup | relayed JSON |
| Accounts, `handlers/auth.go`, `models/`, `db/` | one MongoDB document per user | `Register`, `VerifyEmail`, `Login`, `ForgotPassword`, `ResetPassword`, `Me` | HTTP, MongoDB |
| JWT middleware, `middleware/auth.go` | none | check of one request | gives the handlers the account |
| Meeting info, `handlers/meet_info.go` | none | tells a page which kind of meeting an ID is | reads the room registry |
| Email, `email/smtp.go` | none | one mail with a link | called by the accounts; may fail |
| Configuration, start-up, markup, media devices | none that a protocol depends on | | |

What is hard in this code, and a test would hardly reach:

* **critical sections that do not span a decision**: `IsEmpty` then `Join`; the
  duplicate check, the eviction and the add of the relay; finding the host, then
  writing to it; taking a knock, then sending on its channel; collecting the
  targets of a track, then adding it to each and writing its sink;
* **pointers and indexes used after the lock**: the `*Room` and `*Meet` a handler
  holds after they left the map; `peerIndex` after the list was shortened;
* **keys by user where there may be several connections**: `peers`,
  `pendingKnocks` and `broadcasters` of a Room;
* **goroutines whose order nobody controls**: `OnTrack`, the goroutine of an
  offer, `Leave`, the renegotiation timer, a goroutine per room-state;
* **connections that end anywhere**: while a knock is pending, being answered,
  answered; with messages unread;
* **waiting without a limit**: for an answer, for `force-join`, for a page that
  does not read, for room in a channel;
* **answers that are old when they are used**: the type of a meeting, which is
  whether it has a room now; whether a user is in a meeting already; the states a
  newcomer is told.

What makes each component correct:

* registry: no room is leaked, none is destroyed under a peer, one room per
  meeting;
* admission: an answer is given once and from inside, only the admitted and the
  first get in, no knock is lost, every handler returns, no peer is left behind;
* fan-out: nobody in the call misses a track, nor gets it twice, nor gets their
  own; nothing is left of a peer that is gone;
* relay: two seats, one per user; a message reaches the other peer and nobody
  else; the map keeps no dead meeting;
* renegotiation: every track that was added is sent to the page in an offer;
* roster: whoever is in the room is sent the list that is true, and every toggle;
* the way in: rooms exist for group meetings only;
* messages: what a page sends once it is admitted is read, in order;
* accounts: one account per email; only the verified sign in; a password changes
  only through a link of its account; a link that was used is spent.

`PROJECT.json` lists the hazards one by one, at their lines, with the properties
that cover them.

## 2. The plan

Each step is a module with its runs, then its proofs. All are done; 10 is what is
left.

1. `SfuRoom` (registry and group admission), `KnockGate` (what admission
   promises), `SfuRoomProofs`.
2. `P2PRelay`, `P2PRelayProofs`.
3. `TrackFanout`, `TrackFanoutProofs`.
4. `Renegotiation`, `RenegotiationProofs`.
5. `Accounts`, `AccountsProofs`, with the JWT middleware and the mails.
6. `RosterSync`, `RosterSyncProofs`: `go SendJSON` of room-state and media state,
   unordered; who is told what.
7. `MeetEntry`, `MeetEntryProofs`: the composition of `SfuRoom` with the meeting
   info and the pages that ask it for the way in.
8. `MsgChannel`, `Inbox`, `MsgChannelProofs`: the reader goroutine and `msgCh`,
   and the queue that `SfuRoom` has in their place; `KnockGate` proved of
   `SfuRoom`, for users with several connections too.
9. `AccountBook`, what the accounts promise, proved of `Accounts`; `TrackFanout`
   proved for users who open the page again, with a track's two steps to a peer
   apart; who may let a guest in (`AdmittedByHost`, a theorem only), that offers
   only grow (`NothingTakenBack`), and what keeps a track from being sent
   (`AddedIsSent`).
10. Left: `SfuRoom` with `TrackFanout` (a room that is destroyed while it has
   tracks); the relay as two mailboxes without a list of peers.

Abstract specifications: `KnockGate`, which `SfuRoom` implements; `AccountBook`,
which `Accounts` implements; `Inbox`, which `MsgChannel` implements; and `SfuRoom`
itself, which `MeetEntry` implements.

## 3. The modules

### SfuRoom

One process per WebSocket connection ("session"), the goroutine in `HandleSFU`.
A step is the code between two points where another goroutine can interfere: one
critical section of `roomsMu`, `Room.mu` or `knockMu`, one channel operation, one
message to a browser.

| TLA+ | Code |
|---|---|
| `registry`, `hostID`, `peers`, `pending`, `admitCh` | `rooms`, the fields of `Room`, the buffer of a knock's channel |
| `pc`, `room`, `verdict` | where `HandleSFU` is; its `room`; what it received |
| `notifyTo` | `Knock`'s `host`, read under `Room.mu` and used after it |
| `outCh`, `outVal` | `AdmitKnocker`'s `ch` after `knockMu` is released |
| `popup` | the page's `state.sfuKnocker` |
| `inbox`, `closed` | `msgCh` with the reader goroutine |

A Room, and a knock's channel, is named after the connection that allocates it,
which does so at most once. A session ends; a page that reconnects is a new one.
`inbox` joins the socket, the reader goroutine and `msgCh`: what the browser sent
and the handler has not read; `MsgChannel` shows that this is right. `destroyIfEmpty` is one step because it holds
`roomsMu` throughout and what it reads of the room changes only in `Join` and
`Leave`.

`KnockGate` is the abstract specification: one ticket per connection, without
rooms, locks or channels. Who asks does so while somebody is inside the meeting,
and an answer comes from inside. `WalkIn` has no guard: what a connection that
walks in knows is that a room was empty a moment before, which says nothing of the
meeting (`sfu_walkin` shows two that walk in together). `SfuRoom!GateSpec` maps a connection's ticket from its
`pc` and from the channel, or the local of another handler, that holds its
answer. `HangUp` is what is left of `DenyKnocker` when it is called by user: a tab
that no longer waits refuses another tab of its user in its place.

A `Twin` of a connection is another of its user in the same room. `Room.peers` and
`pendingKnocks` have one entry for both, and `KnockNotLost` and `MemberListed` say
that nobody but a twin takes it.

### MeetEntry

`SfuRoom` with the pages that have not connected yet. `meetType` is the page's
`state.meetType`: `ReadType` is `newMeeting`'s session storage in the creator's
tab, `HandleMeetInfo` the request to the server, `FetchFails` its failure. Only a
page that was told "group" opens a connection (`EnterGroupMeeting` is
`SfuRoom!Connect`); all else is `SfuRoom` unchanged (`InRoom`). A page of the
relay stays `"idle"` here. `typeOf` is what the creator chose, which the server is
never told. A guest's page may ask again by reloading: that is another session.

### MsgChannel and Inbox

One connection and the three that pass its messages on: the page, the reader
goroutine, the handler. The socket and `msgCh` keep their order, so a message is
its number and a stage is how far it is: `sent`, `read`, `put`, `taken`. What is
between `put` and `taken` is in `msgCh`, at most `Capacity`. `told` is the handler's
`admitted` on its way, `Hear` the page's; `forgotten` and `before` are history, and say what the wait loop threw
away and what the page had sent when it heard. `Inbox` is one queue with a
counter. `QueueSpec` maps `unread` to `sent - taken` until the handler returns,
and to nothing from then on.

### RosterSync

The admitted connections, and a goroutine for every `go p.SendJSON`. Nothing
orders those, so what is still to be written to a page is a set, `sending`;
`states` is the local of `SendMediaStateTo`, which its handler writes itself.
Writing to a page and the page's handling of it are one step, since `wsMu` and the
socket keep the order from there on. `BroadcastRoomState` reads the list and whom
it is for in one critical section, but not in that of `Join` or `Leave`: between
the two, others come and go. `version`, `toggles`, `newest` and `heard` are
history: they number the changes and say which of them a page has handled.
`MicOn` is written without a lock while others read it; a reader gets the old or
the new value, which the two orders of the steps are.

### P2PRelay

One process per WebSocket connection, and its page. The three critical sections
between upgrade and relay loop are `LookUp`, `Evict` and `Add`; reading
`force-join` happens between them, without the lock, for as long as the user
takes. The relay loop and the cleanup are one critical section per iteration.
The page's side is there because the protocol cannot be understood without it:
the server relays `knock`, `admit` and `deny` without looking at them.

Before it connects, a page asks whether its user is in the meeting already
(`CheckUserInMeet`), and warns; `screen` is `"clear"` or `"warned"` until it does.
`HandleWS` checks again, and must: the answer may be old.

A `Meet` is named after the connection that allocates it. `open` is the server's
end of a connection (`conn.Close`), `tab` the page's. A message is its type; a
knock also carries the knocker, whom the host's page shows and never names again.

### TrackFanout

A session is admitted when it likes, handles one offer and leaves. Four goroutines
take part: the handler, the one that the offer starts (`AddExistingTracksTo`),
Pion's call of `OnTrack` for each track, and the broadcaster's `Run`.

| TLA+ | Code |
|---|---|
| `peers`, `broadcasters`, `sinks[b][u]` | the maps of `Room` and of `TrackBroadcaster`; a sink is the session whose PeerConnection the track was added to, under user `u` |
| `senders` | how often a track was added to a PeerConnection; it ends with the connection |
| `pc`, `wiring`, `onTrack` | where the handler, the offer's goroutine and `OnTrack` are |
| `existing`, `bc` | what `AddExistingTracksTo` has still to range over, and the broadcaster whose track it has added and whose sink it has not |
| `targets`, `target` | the same of `OnTrack`'s loop |
| `crashed` | a panic ended the server |

Giving a track to a peer is two steps in both, `AddSenderTrack` on the
PeerConnection and `AddSink` on the broadcaster, with no lock over the two; others
leave, close and join in between. `AddExistingTracksTo` holds `bcMu` for reading
from its first step to its last (`Ranging`), so nobody registers a broadcaster or
sweeps meanwhile; `OnTrack` holds nothing. It is a step for Pion to start it, one to
register, one to collect the targets, two for each target, one to start `Run`.
Pion is external: it is assumed to start `OnTrack` only after the peer's offer was
handled and until its PeerConnection is closed (the goroutine may run later), to
refuse `AddTrack` on a closed one, and to fail `ReadRTP` after that.

Two things are history. `twice` has the users of whom a session joined while
another was in the call, or had an `OnTrack` that was still to register. Their
sessions share every entry of the room, and the properties promise nothing to them;
a user who leaves and opens the page again is not one of them. `late` has the
sessions that joined while one of the goroutines had added a track to another
session of the user and not yet written its sink. That sink may be written last:
`late` names the one track that such a session may miss.

### Renegotiation

One peer that has joined the room, and its page, while tracks of others are added
to the peer's PeerConnection. Several goroutines may be in `Renegotiate` at once,
with no lock: the goroutine of the page's offer, and the callback of every timer
that fired. A call is named after what started it, and a timer's callback after
the track whose `ScheduleRenegotiate` armed the timer last.

| TLA+ | Code |
|---|---|
| `added`, `signaling`, `outstanding`, `lastOffer` | `Peer.PC`: its senders, signalling state, local offer and the last offer created |
| `renegotiateTimer`, `call = "armed"`, `"callback"` | `Peer.renegotiateTimer`; the timer's callback before it has `renegotiateMu` |
| `call`, `offer` | where each call of `Renegotiate` is, and the tracks in its `offer` |
| `onTrack`, `handler` | where `Room.OnTrack` is with this peer; where the message loop is |
| `toServer`, `toPage` | the WebSocket, with `msgCh` at one end and `sfuSignalingQueue` at the other |
| `page`, `pageSignaling`, `pageTask` | where `sfuCreateOffer` is between its awaits; the page's PeerConnection; the queue's running task |

Two PeerConnections are external, and modelled by the signalling states of the
WebRTC standard as far as the code meets them. Pion's refuses a local offer
unless it is stable and the offer is the last one created, and refuses a remote
offer while its own is outstanding. A call is then `"refused"` if its offer was the
last one created, and `"done"` if a later call has one; `"sent"` is after `SendJSON`. The browser's gives way: given an offer while
it has its own, it rolls its own back; an offer created and not yet set by then
can not be set any more. Both give errors that the code logs.

### Accounts

One process per HTTP request, and the documents of the users. A step is one call
of the database, with the checks that follow it on the copy that was read; bcrypt
runs between two steps and takes its time. A request draws at most one token,
chooses at most one password and inserts at most one document, so all three are
named after it. MongoDB and the mail server are external: a call fails, or a write
is done and its reply is lost; a mail arrives or does not (`SendMail`,
`email/smtp.go`). `Register` takes any error of its lookup for a free address. Only tokens that were mailed are presented. `Subject` is the JWT
middleware: the account that a JWT was issued for, unless it has expired; `Me`
reads that account and sends it.

`AccountBook` is the abstract specification, without requests, tokens or documents:
accounts with a holder, a password, the links that were mailed to them, and
sessions. `bookBar` maps a mailed token to the account whose request drew it
(`LinkOf`), and the account of a session to the JWT, or to the document that `Me`
served.

## 4. The runs

All runs with `CHECK_DEADLOCK FALSE`: the connections of an instance are finitely
many, each is made once, and when all are over nothing happens any more. That no
handler is stuck before that is what `ClosedHandlerReturns` and `ReaderReturns`
say.

The names `s1`.. `u1`.. `c1`.. are model values. Symmetry is used in `Accounts`
alone, where requests are alike, and so are addresses, and no liveness is checked;
`AccountBook` and the mapping to it name no request and no address either, so a
step's being a step of the book does not depend on the names. Elsewhere the instances give connections different roles, and several
runs check liveness.

| Run | Instance | Shows |
|---|---|---|
| `sfu_gate` | 3 users, one connection each, fair handlers | the inductive invariant; a knock that an attentive host sees is answered |
| `meet_entry` | a group's creator, a guest with two tabs, a guest of a 1-to-1 meeting; fair handlers | rooms exist for groups only, though every page acts on an old answer; with two tabs that share all keys, no answer blocks, no room leaks, no ghost peer, no knock or entry is lost but to a twin; admission implements `KnockGate`, fairness included; every closed connection's handler returns |
| `channel` | `Capacity` 2, at most 5 messages before "leave", fair reader and handler | nothing sent after `admitted` is thrown away; the reader ends, or is left behind with a full channel; the inductive invariant; the whole implements `Inbox` |
| `roster_told` | 2 members who join, toggle once and leave, fair | who is in the room has been sent, or is about to be, the list that is true and every last toggle; the inductive invariant; every list gets to the pages that stay |
| `p2p_reload` | a host with two connections, a guest, fair handlers | at most two seats, each served; no dead meeting; the inductive invariant; every closed connection's handler returns |
| `fan_wired` | one track, its publisher, a user with two sessions, fair | nobody misses it, unless both sessions overlapped or the second joined between the two steps that gave it to the first; the inductive invariant (which bounds how often it is added); it arrives, with the same exceptions; its broadcaster stops |
| `reneg_offers` | two tracks besides the page's own offer, fair | answers match, no track forgotten or taken back, the inductive invariant; every added track is sent in an offer, unless that is refused while another exchange is under way; an offer that finds the page is answered |
| `accounts_tokens` | 4 requests, 2 addresses, the unique index | the handlers implement `AccountBook`; nobody is signed in, or served, unverified; passwords change only through their account's link; used tokens are gone; the inductive invariant |

Each component's `TypeOK` is a part of its inductive invariant.

Why these bounds are enough. Every hazard of admission is between at most three
parties: one inside who answers, and two that race to enter, to knock or to
leave (two knocks, two answers, two tabs, a leaver and two arrivals). A meeting
of the relay has two seats, so three connections include the one too many, and
each of them may be the one that was evicted, is waiting or has left. In the
fan-out a publisher, one that is wired and one that comes or goes are three; the
last two are of one user, who may open the page again, or twice;
tracks of different publishers and kinds touch each other's state only through
`Leave`, whose part for the publisher's own tracks and whose part for the leaver's
sinks the three sessions reach. The publisher has one session there; that two
sessions of one user publish is covered by the proof alone. In the renegotiation three calls can overlap, the
offer's goroutine and two timers, one armed while the other's callback waits for
the lock; every pair of glare, a refused offer and a rollback is among them. Of the four
requests on accounts, one registers, and three others verify, sign in, ask for a
link or use it, in any order and half done: two that use one link, or a link that
is replaced while it is used, or two that register one address. The roster's
messages are of one writer to one reader; a second member is enough for a toggle
or a departure to meet a newcomer at any point, and `Leavers` and `MaxToggles`
bound how often. In the channel a capacity of two is met empty, in between and
full, with the reader holding one more; 32 adds nothing else, and five messages
fill it twice. In `MeetEntry` two tabs of one user meet a host, and the fourth
connection has the link of another kind of meeting. The proofs then remove the
bounds for safety.

Each property of a passing run has a mutant of the code that breaks it
(`PROJECT.json`, `mutants`; the mutated operators stand next to the originals).

### Where the code departs from what it says

Each of these runs checks one sentence of the repository, and TLC finds a
behaviour of the code that contradicts it.

| Run | The sentence | What happens |
|---|---|---|
| `sfu_walkin` | the first is admitted, others wait for the host (`app.js:579`) | two that arrive together both see an empty room |
| `p2p_relay` | every message is forwarded to the other peer (`ws.go:148`) | a stale `peerIndex` sends it back instead |
| `reneg_answered` | a clean answer first, then a re-offer (`README.md:162`) | an offer of the timer's comes first, and the page's own offer is refused and never answered |
| `roster_muted` | real-time mute indicators (`README.md:24`); newcomers see them at once (`sfu.go:137`) | what a newcomer is told was read before a toggle and is written after it |

`reneg_answered` is the one a user is likeliest to meet. A peer is in the room as
soon as it is admitted, and its page still asks for the camera. A track that
arrives then is offered 150 ms later; the page has no PeerConnection and drops
the offer, the server keeps waiting for its answer, and refuses the page's own
offer when it comes.

The models also reach the following, which no run keeps.

*Admission.* A connection holds the room of `GetOrCreate` while the last peer leaves
and `destroyIfEmpty` removes it; the next one gets another, and two members of one
meeting are in two rooms (`sfu.go:95`, `manager.go:36`). A second knock takes the
place of the first on the host's page, and the first is never mentioned again; nor
is one that comes when the first joiner has left (`app.js:700`, `room.go:43`): these
are the exceptions of `KnockAnswered`. When one of a user's two group connections
leaves, the other disappears from `Room.peers`; a tab that stops waiting denies its
user's other tab (`room.go:165`, `sfu.go:117`).

*The way in.* A guest who follows a group's link before its room exists is told
"1to1" and knocks on the relay, where nobody is; one who was told "group" may find
the room gone, and walks into a new one as its host (`meet_info.go:21`).

*Roster.* Two lists, or two toggles, may overtake each other, and the older one
stays on the page (`room.go:207`, `255`; `README.md:25` calls the roster live). Who
mutes, leaves and comes back is shown as muted: pages never forget a state, and a
newcomer's is told to nobody (`app.js:707`). A track that arrives after the list
without its sender puts the tile back (`app.js:652`; not in the model).

*Relay.* Two connections of one user that arrive together both pass the duplicate
check; one that waited as a duplicate may be seated in a `Meet` that is no longer in
the map, apart from everybody else; the meeting is said to end when whoever
connected first leaves; a guest who is there before the host knocks to nobody; an
admit carries no name, so it lets in whoever has the seat by then, also one the host
did not look at (`ws.go:92`, `116`, `184`, `app.js:460`, `849`). `onopen` resets
`forceJoining` before any message arrives, so the page that joins by force is always
warned again, against its comment (`app.js:487`); a second click, which the model
leaves out, evicts the connection that the first one made.

*Fan-out.* A track may be added twice, or a peer's own (`room.go:146`, `110`). A
target that `OnTrack` collected may leave, be swept and closed after its
`AddSenderTrack`, and its user come back and be wired; `AddSink` then writes the dead
track over the new session's, which never receives the publisher (`room.go:146` to
`151`; the same between `111` and `116`). `OnTrack` may register a broadcaster after
`Leave` has swept, also in the place of the one of the user's next session
(`room.go:132`); if everybody has left by then, `make` is given the capacity -1 and
panics, in a goroutine of Pion's that recovers nothing, and the server is down with
all its rooms (`room.go:137`; `crashed`). The old connection of a user who reloaded the page,
when it ends, removes the broadcasters of the new one (`room.go:176`).

*Renegotiation.* An offer that is refused because another exchange is under way is
logged and forgotten: a track in it stays unsent until some other track comes
(`peer.go:96`).

*Accounts.* Two requests with one verification token that overlap both go through,
although tokens are said to be single-use (`auth.go:110`, `README.md:101`). A JWT
serves for 30 days, also after a password reset. Two requests may reset a password
through one link, and a reset removes a newer reset token than the one it checked
(`auth.go:213`, `228`).

## 5. Fairness

* A goroutine that can run does: weak fairness of each handler as a whole
  (`Handler`). This is what the Go scheduler gives; a handler has at most one step at a time, except
  in `select`, where either may be taken. There a choice is never repeated, so
  weak fairness of the disjunction suffices.
* In `TrackFanout`, some goroutine runs as long as one can (`Goroutine`): each is a
  finite loop, so all come to their end, and none can be kept waiting for `bcMu` for
  ever. No fairness is needed between them.
* Locks are not modelled as waiting: a critical section is one step. None of them
  blocks inside, except that the relay writes to sockets under `mu` and
  `AddExistingTracksTo`, the one with several steps under a lock, calls Pion under
  `bcMu`; these calls are assumed to return (see section 7).
* `HostFairness`, that a host who sees a popup answers it, is no part of a
  specification but the premise of `KnockAnswered`.
* Whoever waits for `wsMu` gets it: weak fairness of each page's writers in
  `RosterSync` as a whole. That some writer goes on is enough, since those who wait
  are finitely many.
* In `MsgChannel`, the reader and the handler run whenever they can; an answer to
  the knock may never come, and nothing is assumed of the page.
* The page's promises are settled (`CreatesOffer` and `Queue` in `Renegotiation`):
  a browser runs the microtasks of a page that is open. They share one thread,
  but `sfuCreateOffer` and the queue wait for different promises, so each has a
  fairness of its own. Timers fire, and each `Renegotiate` runs.
* No fairness is put on connecting, publishing, the camera, leaving or
  disconnecting, nor on what the pages of the relay do.

## 6. What is proved

From the assumptions on the constants alone (connections have a user and a
meeting; `None` is none of them), for any number of connections, users and
meetings:

**SfuRoomProofs**: `TypeCorrect`, `AnswersNeverBlock`, `RoomsNeverLeak`,
`GhostsNeverStay`, `KnocksNeverLost`, `MembersListed`. The inductive invariant
`IInv` adds to these properties:

* `LocalsSet`: a handler holds a room from `GetOrCreate` on and a channel exactly
  while it is to send on it; without it, `Leave` could be of no room;
* `RoomOfMeet`: a registered room belongs to the meeting it is registered under;
  needed because `destroyIfEmpty` works by meeting, not by room;
* `PendingIsWaiting`: a registered channel's knocker still waits for it and its
  buffer is empty; this is why the send cannot block;
* `RegisteredFirst`: a channel is taken only after it was registered; otherwise a
  fresh knock might find an old answer.

`KnocksNeverLost` and `MembersListed` need a lemma of their own, `TwinStays`: a
connection keeps its room for good, so whoever may have taken an entry can be named
for ever after.

`AdmissionIsGate`: every behaviour of `SfuRoom` is one of `KnockGate`, its fairness
apart, also with several connections of one user. A ticket depends on where its handler is
and on what is on the way to its channel; a handler that takes a channel changes
what is on the way to one connection, which by `PendingIsWaiting` and
`AnswerNeverBlocks` still asks and has no answer, and by `RoomOfMeet` asks for the
meeting of the one that decides. Who asks found somebody listed, and by `NoGhostPeer`
whoever is listed is inside. A knocker that hangs up withdraws by user; by
`PendingIsWaiting` the channel it finds is its own or a twin's, which is `HangUp`.

**MeetEntryProofs**: `EntryIsSfuRoom` (every step is a step of `SfuRoom` or none, so
all of the above holds), `RoomsAreGroups`. `EntryInv` adds `SentToGroup`: whoever
has a connection was sent there, and only where a group is. The creator starts it,
and everybody else was told so because a room was there.

**MsgChannelProofs**: `OffersAreKept`, `ChannelIsQueue`. `IInv` adds `Stages`, that
a message passes the stages in order and `msgCh` holds no more than it can, and
`ClosedLast`: `msgCh` is closed only when everything that arrives has been put
there, unless the handler has returned. So the end of `range msgCh` is the end of
the queue.

**RosterSyncProofs**: `RosterIsTold`, `MicIsTold`. `IInv` adds `ListedInCall`: an
entry of the room is of a handler in the call. The argument for the list: whoever
changes the room reads it later, so the last to read sees the last change. For a
toggle: `MicOn` is stored before the room is read, and a newcomer is in the room
before it reads `MicOn`, so one of the two sees the other.

**P2PRelayProofs**: `TypeCorrect`, `NeverThreeSeats`, `SeatsAreServed`,
`MeetsNeverLeak`, and `GuestsAreAdmitted` (`AdmittedByHost`), which no run checks: it
takes more connections than TLC can have before the host's. `IInv` adds `MeetHeld`: a handler holds a `Meet` from the
lookup on, and it is registered, if at all, under its own ID. The three
properties need each other: that a connection is not seated twice follows from
`SeatIsServed` (one that is adding itself has no seat), and that the map keeps no
dead meeting rests on every seat having a handler that will clean up.
`AdmitsFromInside` says where an `admit` may be, on the way to the server, on the
way to a page, or acted on: only at connections of a meeting that a host has come
to. The server relays it without a look, to whoever has an index that is not the
sender's; it is the `Meet` in the handler's local, by `MeetHeld` of the sender's own
ID, that keeps it among them.

**TrackFanoutProofs**: `TypeCorrect`, `NothingIsMissed`. `IInv` adds:

* `SendersCounted`: a track is added once by `OnTrack` and once for the offer;
* `UnsunkBusy`: a sink is still to be written only by a loop that goes on;
* `OverlapSeen`: two sessions of a user that are in the call at once, or of which one
  has an `OnTrack` still to register, have put the user in `twice`;
* `WiredAfterJoin`, `EntriesPresent`: while a session of any other user is in the
  call, its entries in both maps are there: an earlier session's `Leave`, which
  goes by user, is over before the new one joins, and so is its `OnTrack`'s
  registration;
* `LateSeen`: a sink that is still to be written for an earlier session of a user
  whose next one is in the call was so when that joined, hence is in `late`. No
  such sink comes up later: `AddTrack` succeeds only on a PeerConnection that is
  open, whose session is still in the call;
* `ReceivesOrWill`: whoever is wired receives a registered track, or `OnTrack` is
  about to collect or has collected it, or one of the two has added the track and is
  about to write the sink. This is the argument in a sentence: `OnTrack` registers
  before it collects, a peer joins before it reads the broadcasters, so one of the
  two sees the other; and a sink that is there is taken away only by a `Leave` of its
  own user or by a late `AddSink`;
* `CrashedEmpty`: the panic takes no call away from users of whom no two sessions
  overlapped, in that room.

**RenegotiationProofs**: `AnswersMatch`, `NothingIsForgotten`, and the action
property `NothingIsTakenBack`. `IInv` adds:

* `OneInFlight`: while the server has a local offer, it is in one place at most:
  with the `Renegotiate` that set it, on its way to the page, with the page's
  queue, or on its way back as an answer. So no second answer can arrive, and the
  one that does finds the server waiting for it. It rests on `SetLocalDescription`
  being refused unless the state is stable;
* `OneOwnOffer`: the page makes one offer, so the goroutine it starts is started
  once;
* `CalledOnce`, `InLastOffer`: whoever created the last offer goes on until that is
  sent or refused, and a track that was added is in the last offer, or somebody is
  still to create one. Together they are `NothingForgotten`;
* `LastIsLargest`: no offer that was created has a track that the last one created
  lacks. Pion sets only the last one created, hence `NothingTakenBack`, however
  calls overlap between `CreateOffer` and `SetLocalDescription`.

**AccountsProofs**: `OneAccount`, `SignedInAreVerified`, `PasswordsByOwner`,
`SpentStaysSpent`. A handler acts on what an earlier call of the database found;
`IInv` says what is left of it:

* `TokensDrawn`: only a request that is over has its token in a mailbox, so a token
  that is presented is never drawn again; the token of a registration belongs to no
  other document, and a verified address has opened its link;
* `ResetTokenOfUser`: a document has a reset token only of a request that found
  that document; so whatever an update by `_id` removes or sets, it is the right
  account's;
* `TokenOfUser`: between its two calls, a request holds the document its token
  belongs to;
* `DocumentsStay`: whatever a request holds is a document that is there.

`AccountsAreBook`: every behaviour of `Accounts` is one of `AccountBook`, by the one
step that changes the book in each handler: `RegisterInsert` opens an account,
`SendMail` delivers a link, `VerifyUpdate` confirms, `Login` and `Me` begin a session,
`ResetUpdate` chooses a password. The four invariants above are what the guard of
each of these steps in the book needs; all other steps leave the book alone.

Each of these invariants is also an invariant of a run.

Only model-checked: the liveness properties and the fairness of `KnockGate` and of
`Inbox` (beyond the prover); everything in section 4's second table, which are
counterexamples.

## 7. What is not modelled

* **A room that is destroyed while it has tracks**: `SfuRoom` and `TrackFanout` are
  not composed; each has the part of `Leave` that concerns it.
* **A second click on the relay's warning**: a page that opens another socket is
  another connection, but once it was let in it does not force its way in again.
* **The network's backpressure**: a write is a step that completes. The relay
  writes under its global lock and `SendJSON` has no deadline; a page that does
  not read would stall them. Listed as hazards without a property.
* **What an offer leads to in the page** (`ontrack`, the tiles), and a
  camera that is refused: the page's side ends with its answer.
* **The fields of a form**, bcrypt, the signature of a JWT, the dialogue of SMTP.
* **The camera's state**, which goes the way of the microphone's.
* **RTP, codecs, ICE, DTLS**: Pion's, outside `src/`.
* **Configuration, start-up, markup, audio levels, layout**: no state that
  a protocol depends on.
