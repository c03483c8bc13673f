--------------------------- MODULE Renegotiation ---------------------------
(***************************************************************************)
(* How the tracks added to one peer of a group meeting are offered to its  *)
(* page: ScheduleRenegotiate and Renegotiate (sfu/peer.go), the offers and *)
(* answers of the message loop (handlers/sfu.go), and the page's side with *)
(* its sfuSignalingQueue (static/app.js).                                  *)
(*                                                                         *)
(* It begins when the peer has joined the room and the page was told so.   *)
(* Processes: the handler; one OnTrack per track that another peer         *)
(* publishes meanwhile; each call of Renegotiate, which is the goroutine   *)
(* of the page's offer or the callback of the timer; and the page.  A      *)
(* timer callback is named after the track whose ScheduleRenegotiate last  *)
(* armed the timer for it.                                                 *)
(*                                                                         *)
(* Two PeerConnections are external: Pion's on the server and the          *)
(* browser's.  Both are signaling state machines of the WebRTC standard;   *)
(* the browser's rolls its own offer back when it is given another.        *)
(***************************************************************************)
EXTENDS Naturals, Sequences

CONSTANTS
    Tracks,     \* tracks of other peers
    Existing,   \* the goroutine of the page's offer
    None        \* nil

ASSUME ExistingAssumption == Existing \notin Tracks
ASSUME NoneAssumption     == None \notin Tracks \cup {Existing}

\* Whoever calls Renegotiate.
Calls == Tracks \cup {Existing}

VARIABLES
    \* ---- the server's PeerConnection
    added,          \* the tracks that AddTrack added to it
    signaling,      \* its signaling state
    outstanding,    \* whose offer is its local description
    lastOffer,      \* who created an offer last
    \* ---- the server's goroutines
    renegotiateTimer, \* Peer.renegotiateTimer: the callback it is armed for
    call,           \* where each call of Renegotiate is
    offer,          \* the tracks in the offer that it created
    onTrack,        \* where OnTrack is with this peer
    handler,        \* where HandleSFU is
    \* ---- the connection and the page
    toPage,         \* messages the page has not handled, its queue included
    toServer,       \* messages the handler has not read
    tab,            \* the page is there
    page,           \* how far sfuCreateOffer is
    pageSignaling,  \* the signaling state of the page's PeerConnection
    pageTask        \* whose offer the queue's running task is answering

pion  == <<added, signaling, outstanding, lastOffer>>
peer  == <<renegotiateTimer, call, offer, onTrack>>
pageVars == <<tab, page, pageSignaling, pageTask>>
vars  == <<pion, peer, handler, toPage, toServer, pageVars>>

SignalingStates == {"stable", "have-local-offer", "have-remote-offer"}

\* An offer or an answer; the server's offers, and the page's answers to them,
\* say whose call of Renegotiate made the offer.
Msgs == [type: {"offer", "answer"}, call: Calls \cup {None}]
Offer(c)  == [type |-> "offer", call |-> c]
Answer(c) == [type |-> "answer", call |-> c]

TypeOK ==
    /\ added            \in SUBSET Tracks
    /\ signaling        \in SignalingStates
    /\ outstanding      \in Calls \cup {None}
    /\ lastOffer        \in Calls \cup {None}
    /\ renegotiateTimer \in Tracks \cup {None}
    /\ call             \in [Calls -> {"idle", "armed", "callback", "collect",
                                       "create", "set", "send", "sent", "refused",
                                       "done"}]
    /\ offer            \in [Calls -> SUBSET Tracks]
    /\ onTrack          \in [Tracks -> {"idle", "schedule", "done"}]
    /\ handler          \in {"loop", "answer", "reply", "done"}
    /\ toPage           \in Seq(Msgs)
    /\ toServer         \in Seq(Msgs)
    /\ tab              \in BOOLEAN
    /\ page             \in {"starting", "pc", "created", "set", "sent", "failed"}
    /\ pageSignaling    \in SignalingStates
    /\ pageTask         \in Calls \cup {None}

Init ==
    /\ added            = {}
    /\ signaling        = "stable"
    /\ outstanding      = None
    /\ lastOffer        = None
    /\ renegotiateTimer = None
    /\ call             = [c \in Calls |-> "idle"]
    /\ offer            = [c \in Calls |-> {}]
    /\ onTrack          = [t \in Tracks |-> "idle"]
    /\ handler          = "loop"
    /\ toPage           = <<>>
    /\ toServer         = <<>>
    /\ tab              = TRUE
    /\ page             = "starting"
    /\ pageSignaling    = "stable"
    /\ pageTask         = None

Goto(c, label) == call' = [call EXCEPT ![c] = label]

\* HandleSFU closes the PeerConnection when it returns.
Closed == handler = "done"

\* SendJSON: lost when the page is gone.
SendPage(msg) == toPage' = IF tab THEN Append(toPage, msg) ELSE toPage

-----------------------------------------------------------------------------
(* A track is added, and the timer.                                        *)

\* OnTrack of another peer's track, AddSenderTrack; it fails, and the target is
\* passed over, when the PeerConnection was closed.
OnTrackAdd(t) ==
    /\ onTrack[t] = "idle"
    /\ onTrack' = [onTrack EXCEPT ![t] = IF Closed THEN "done" ELSE "schedule"]
    /\ added' = IF Closed THEN added ELSE added \cup {t}
    /\ UNCHANGED <<signaling, outstanding, lastOffer, renegotiateTimer, call,
                   offer, handler, toPage, toServer, pageVars>>

\* Under renegotiateMu.  Reset of a timer that is armed moves it; Reset of one
\* whose callback already waits for the lock arms it for a second callback.
ScheduleRenegotiate(t) ==
    /\ onTrack[t] = "schedule"
    /\ onTrack' = [onTrack EXCEPT ![t] = "done"]
    /\ renegotiateTimer' = t
    /\ call' = [c \in Calls |->
                   IF c = t THEN "armed"
                   ELSE IF c = renegotiateTimer /\ call[c] = "armed" THEN "done"
                   ELSE call[c]]
    /\ UNCHANGED <<pion, offer, handler, toPage, toServer, pageVars>>

\* 150 ms later the runtime starts the callback.
TimerFires(t) ==
    /\ call[t] = "armed"
    /\ Goto(t, "callback")
    /\ UNCHANGED <<pion, renegotiateTimer, offer, onTrack, handler, toPage,
                   toServer, pageVars>>

\* The callback, under renegotiateMu: whichever timer the field holds by now.
ClearTimer(t) ==
    /\ call[t] = "callback"
    /\ Goto(t, "create")
    /\ renegotiateTimer' = None
    /\ UNCHANGED <<pion, offer, onTrack, handler, toPage, toServer, pageVars>>

\* Mutant: one track is not worth a renegotiation.
AddExistingTracksOne ==
    /\ call[Existing] = "collect"
    /\ \E B \in SUBSET Tracks :
          LET n == IF Closed THEN {} ELSE B
          IN  /\ added' = added \cup n
              /\ Goto(Existing, IF \E t, u \in n : t # u THEN "create" ELSE "done")
    /\ UNCHANGED <<signaling, outstanding, lastOffer, renegotiateTimer, offer,
                   onTrack, handler, toPage, toServer, pageVars>>

\* The goroutine of the page's offer: AddExistingTracksTo adds what the room has,
\* which tracks that OnTrack added may be among.
AddExistingTracks ==
    /\ call[Existing] = "collect"
    /\ \E B \in SUBSET Tracks :
          LET n == IF Closed THEN {} ELSE B
          IN  /\ added' = added \cup n
              /\ Goto(Existing, IF n # {} THEN "create" ELSE "done")
    /\ UNCHANGED <<signaling, outstanding, lastOffer, renegotiateTimer, offer,
                   onTrack, handler, toPage, toServer, pageVars>>

-----------------------------------------------------------------------------
(* Renegotiate: three calls, with no lock held.                            *)

\* Mutant: nothing is offered unless the state is stable.
CreateOfferStable(c) ==
    /\ call[c] = "create"
    /\ IF Closed \/ signaling # "stable"
       THEN /\ Goto(c, "done")
            /\ UNCHANGED <<offer, lastOffer>>
       ELSE /\ Goto(c, "set")
            /\ offer' = [offer EXCEPT ![c] = added]
            /\ lastOffer' = c
    /\ UNCHANGED <<added, signaling, outstanding, renegotiateTimer, onTrack,
                   handler, toPage, toServer, pageVars>>

\* PC.CreateOffer, in any signaling state; it fails on a closed PC.
CreateOffer(c) ==
    /\ call[c] = "create"
    /\ IF Closed
       THEN /\ Goto(c, "done")
            /\ UNCHANGED <<offer, lastOffer>>
       ELSE /\ Goto(c, "set")
            /\ offer' = [offer EXCEPT ![c] = added]
            /\ lastOffer' = c
    /\ UNCHANGED <<added, signaling, outstanding, renegotiateTimer, onTrack,
                   handler, toPage, toServer, pageVars>>

\* Mutant: an offer replaces the one that is outstanding.
SetOfferAlways(c) ==
    /\ call[c] = "set"
    /\ IF ~Closed /\ lastOffer = c
       THEN /\ signaling' = "have-local-offer"
            /\ outstanding' = c
            /\ Goto(c, "send")
       ELSE /\ Goto(c, "done")
            /\ UNCHANGED <<signaling, outstanding>>
    /\ UNCHANGED <<added, lastOffer, renegotiateTimer, offer, onTrack, handler,
                   toPage, toServer, pageVars>>

\* Mutant: the offer need not be the last one created.
SetOfferStale(c) ==
    /\ call[c] = "set"
    /\ IF ~Closed /\ signaling = "stable"
       THEN /\ signaling' = "have-local-offer"
            /\ outstanding' = c
            /\ Goto(c, "send")
       ELSE /\ Goto(c, "done")
            /\ UNCHANGED <<signaling, outstanding>>
    /\ UNCHANGED <<added, lastOffer, renegotiateTimer, offer, onTrack, handler,
                   toPage, toServer, pageVars>>

\* PC.SetLocalDescription: refused if another offer was created since ("done") and
\* while another exchange is under way ("refused").  The error is logged and that
\* is all.
SetOffer(c) ==
    /\ call[c] = "set"
    /\ IF ~Closed /\ signaling = "stable" /\ lastOffer = c
       THEN /\ signaling' = "have-local-offer"
            /\ outstanding' = c
            /\ Goto(c, "send")
       ELSE /\ Goto(c, IF ~Closed /\ lastOffer = c THEN "refused" ELSE "done")
            /\ UNCHANGED <<signaling, outstanding>>
    /\ UNCHANGED <<added, lastOffer, renegotiateTimer, offer, onTrack, handler,
                   toPage, toServer, pageVars>>

SendOffer(c) ==
    /\ call[c] = "send"
    /\ SendPage(Offer(c))
    /\ Goto(c, "sent")
    /\ UNCHANGED <<pion, renegotiateTimer, offer, onTrack, handler, toServer,
                   pageVars>>

-----------------------------------------------------------------------------
(* The handler's message loop.                                             *)

Reads(type) ==
    /\ handler = "loop"
    /\ toServer # <<>>
    /\ Head(toServer).type = type
    /\ toServer' = Tail(toServer)

\* case "offer": SetRemoteDescription; an error skips the rest.
HandleOffer ==
    /\ Reads("offer")
    /\ IF signaling = "stable"
       THEN signaling' = "have-remote-offer" /\ handler' = "answer"
       ELSE UNCHANGED <<signaling, handler>>
    /\ UNCHANGED <<added, outstanding, lastOffer, peer, toPage, pageVars>>

\* CreateAnswer and SetLocalDescription.
AnswerOffer ==
    /\ handler = "answer"
    /\ signaling' = "stable"
    /\ handler' = "reply"
    /\ UNCHANGED <<added, outstanding, lastOffer, peer, toPage, toServer,
                   pageVars>>

\* SendJSON, then go func().
ReplyAnswer ==
    /\ handler = "reply"
    /\ SendPage(Answer(None))
    /\ Goto(Existing, "collect")
    /\ handler' = "loop"
    /\ UNCHANGED <<pion, renegotiateTimer, offer, onTrack, toServer, pageVars>>

\* case "answer": SetRemoteDescription; an error is logged.
HandleAnswer ==
    /\ Reads("answer")
    /\ IF signaling = "have-local-offer"
       THEN signaling' = "stable" /\ outstanding' = None
       ELSE UNCHANGED <<signaling, outstanding>>
    /\ UNCHANGED <<added, lastOffer, peer, handler, toPage, pageVars>>

\* The loop ends and the deferred pc.Close runs.
HandleClosed ==
    /\ handler = "loop"
    /\ toServer = <<>>
    /\ ~tab
    /\ handler' = "done"
    /\ UNCHANGED <<pion, peer, toPage, toServer, pageVars>>

-----------------------------------------------------------------------------
(* The page: sfuCreateOffer, between whose awaits the queue goes on.       *)

\* startCamera is over; new RTCPeerConnection.
PageNewPC ==
    /\ tab
    /\ page = "starting"
    /\ page' = "pc"
    /\ UNCHANGED <<pion, peer, handler, toPage, toServer, tab, pageSignaling,
                   pageTask>>

\* createOffer, refused while an offer of the server's is being answered.
PageCreateOffer ==
    /\ tab
    /\ page = "pc"
    /\ page' = IF pageSignaling = "stable" THEN "created" ELSE "failed"
    /\ UNCHANGED <<pion, peer, handler, toPage, toServer, tab, pageSignaling,
                   pageTask>>

PageSetOffer ==
    /\ tab
    /\ page = "created"
    /\ page' = "set"
    /\ pageSignaling' = "have-local-offer"
    /\ UNCHANGED <<pion, peer, handler, toPage, toServer, tab, pageTask>>

PageSendOffer ==
    /\ tab
    /\ page = "set"
    /\ page' = "sent"
    /\ toServer' = Append(toServer, Offer(None))
    /\ UNCHANGED <<pion, peer, handler, toPage, tab, pageSignaling, pageTask>>

\* The next task of sfuSignalingQueue.
Dequeues(type) ==
    /\ tab
    /\ pageTask = None
    /\ toPage # <<>>
    /\ Head(toPage).type = type
    /\ toPage' = Tail(toPage)

\* An answer that comes when the page has no offer any more is an error.
PageTakesAnswer ==
    /\ Dequeues("answer")
    /\ pageSignaling' = IF pageSignaling = "have-local-offer" THEN "stable"
                                                              ELSE pageSignaling
    /\ UNCHANGED <<pion, peer, handler, toServer, tab, page, pageTask>>

\* if (!pc) return.
PageDropsOffer ==
    /\ Dequeues("offer")
    /\ page = "starting"
    /\ UNCHANGED <<pion, peer, handler, toServer, pageVars>>

\* Mutant: the page does not give way when it has an offer of its own.
PageTakesOfferImpolite ==
    /\ Dequeues("offer")
    /\ page # "starting"
    /\ IF pageSignaling = "have-local-offer"
       THEN UNCHANGED <<pageTask, pageSignaling, page>>
       ELSE /\ pageTask' = Head(toPage).call
            /\ pageSignaling' = "have-remote-offer"
            /\ page' = IF page = "created" THEN "failed" ELSE page
    /\ UNCHANGED <<pion, peer, handler, toServer, tab>>

\* setRemoteDescription: the page's own offer is rolled back, or, if it was only
\* created, can not be set any more.
PageTakesOffer ==
    /\ Dequeues("offer")
    /\ page # "starting"
    /\ pageTask' = Head(toPage).call
    /\ pageSignaling' = "have-remote-offer"
    /\ page' = IF page = "created" THEN "failed" ELSE page
    /\ UNCHANGED <<pion, peer, handler, toServer, tab>>

\* createAnswer, setLocalDescription, wsSend.
PageAnswers ==
    /\ tab
    /\ pageTask # None
    /\ pageSignaling' = "stable"
    /\ toServer' = Append(toServer, Answer(pageTask))
    /\ pageTask' = None
    /\ UNCHANGED <<pion, peer, handler, toPage, tab, page>>

\* Leaving, reloading or losing the page; its last messages may be lost.
CloseTab ==
    /\ tab
    /\ tab' = FALSE
    /\ \E n \in 0..Len(toServer) : toServer' = SubSeq(toServer, 1, n)
    /\ UNCHANGED <<pion, peer, handler, toPage, page, pageSignaling, pageTask>>

-----------------------------------------------------------------------------
Timer(t) == ScheduleRenegotiate(t) \/ TimerFires(t) \/ ClearTimer(t)

Renegotiate(c) == CreateOffer(c) \/ SetOffer(c) \/ SendOffer(c)

Handler ==
    \/ HandleOffer
    \/ AnswerOffer
    \/ ReplyAnswer
    \/ HandleAnswer
    \/ HandleClosed

CreatesOffer == PageCreateOffer \/ PageSetOffer \/ PageSendOffer

Queue == PageTakesAnswer \/ PageDropsOffer \/ PageTakesOffer \/ PageAnswers

Next ==
    \/ \E t \in Tracks : OnTrackAdd(t) \/ Timer(t)
    \/ AddExistingTracks
    \/ \E c \in Calls : Renegotiate(c)
    \/ Handler
    \/ PageNewPC
    \/ CreatesOffer
    \/ Queue
    \/ CloseTab

Spec == Init /\ [][Next]_vars

\* Goroutines and timers run, and so do the page's promises.  Other peers need
\* not publish, the camera need not start and the page need not go.
FairSpec ==
    /\ Spec
    /\ \A t \in Tracks : WF_vars(Timer(t))
    /\ WF_vars(AddExistingTracks)
    /\ \A c \in Calls : WF_vars(Renegotiate(c))
    /\ WF_vars(Handler)
    /\ WF_vars(CreatesOffer)
    /\ WF_vars(Queue)

-----------------------------------------------------------------------------
(* Properties.                                                             *)

\* The server never gets an answer to another offer than the one it waits for,
\* although calls of Renegotiate, the page's own offer and rollbacks overlap
\* (peer.go:90-105, handlers/sfu.go:169-202, app.js:729-741).
AnswerMatches ==
    \A i \in DOMAIN toServer :
        toServer[i].type = "answer" =>
            signaling = "have-local-offer" /\ outstanding = toServer[i].call

\* An offer with the track was sent to the page; one that was the last was refused
\* because another exchange was under way.
Sent(t)    == \E c \in Calls : call[c] = "sent" /\ t \in offer[c]
Refused(t) == \E c \in Calls : call[c] = "refused" /\ t \in offer[c]

\* A track that was added was sent in an offer, or refused in one, or somebody is
\* still to create, set or send one with it: the coalescing timer, its Reset, its
\* callbacks and calls that overtake each other between CreateOffer and
\* SetLocalDescription forget nothing (peer.go:74-105, handlers/sfu.go:192-196).
NothingForgotten ==
    \A t \in added :
        \/ Sent(t) \/ Refused(t)
        \/ Closed
        \/ onTrack[t] = "schedule"
        \/ \E c \in Calls : \/ call[c] \in {"armed", "callback", "create"}
                            \/ call[c] \in {"set", "send"} /\ t \in offer[c]

\* README.md:93, peer.go:89: a track that is added is sent to the page in an offer.
\* So it is unless the peer goes, or the offer with it is made while another
\* exchange is under way: SetLocalDescription refuses that one, and Renegotiate
\* neither waits nor tries again (peer.go:96-99).  Nothing else keeps it back, in
\* particular no other call of Renegotiate.
AddedIsSent == \A t \in Tracks : t \in added ~> Sent(t) \/ Refused(t) \/ Closed

\* An offer that the server sets has every track of every offer created before,
\* set or refused, although calls of Renegotiate overlap between CreateOffer and
\* SetLocalDescription: no offer takes a track back (peer.go:91-105).
NothingTakenBack ==
    [][outstanding' # outstanding /\ outstanding' # None
         => \A c \in Calls : offer[c] \subseteq offer[outstanding']]_vars

\* An offer of the server's that finds the page's PeerConnection, or will, is
\* answered, whatever the page's own offer is doing; the server does not wait
\* for ever (app.js:729-741).
WaitEnds ==
    \A c \in Calls :
        (call[c] = "send" /\ page # "starting" /\ tab)
            ~> (outstanding # c \/ ~tab)

\* README.md:162: the server sends a clean answer first, and only then its own
\* offer.  A page that has sent its offer is answered, or it is gone.
OfferIsAnswered == (page = "sent" /\ tab) ~> (call[Existing] # "idle" \/ ~tab)

-----------------------------------------------------------------------------
(* The inductive invariant behind AnswerMatches and NothingForgotten.      *)

Offers    == {i \in DOMAIN toPage : toPage[i].type = "offer"}
Answers   == {i \in DOMAIN toServer : toServer[i].type = "answer"}
OwnOffers == {i \in DOMAIN toServer : toServer[i].type = "offer"}

\* The outstanding offer is in one place at most: with its Renegotiate, on its
\* way to the page, with the page, or on its way back as an answer.
OneInFlight ==
    /\ signaling = "have-local-offer" <=> outstanding # None
    /\ signaling = "have-remote-offer" <=> handler = "answer"
    /\ \A c \in Calls :
          call[c] = "send" =>
              outstanding = c /\ pageTask = None /\ Offers = {} /\ Answers = {}
    /\ \A i \in Offers :
          /\ outstanding = toPage[i].call
          /\ toPage[i].call # None
          /\ pageTask = None /\ Offers = {i} /\ Answers = {}
    /\ pageTask # None => outstanding = pageTask /\ Answers = {}
    /\ \A i \in Answers :
          toServer[i].call # None /\ Answers = {i}

\* The page sends one offer, and the goroutine it starts is started once.
OneOwnOffer ==
    /\ page # "sent" =>
          OwnOffers = {} /\ handler \in {"loop", "done"} /\ call[Existing] = "idle"
    /\ \A i \in OwnOffers :
          /\ OwnOffers = {i}
          /\ handler \in {"loop", "done"}
          /\ call[Existing] = "idle"
    /\ handler \in {"answer", "reply"} => call[Existing] = "idle"

\* The last offer created has what every offer has.
LastIsLargest ==
    \A c \in Calls :
        /\ offer[c] \subseteq added
        /\ offer[c] # {} => lastOffer # None /\ offer[c] \subseteq offer[lastOffer]

\* A call of Renegotiate is made once, and the last one that created an offer goes
\* on until that is sent or refused.
CalledOnce ==
    /\ \A t \in Tracks : onTrack[t] # "done" => call[t] = "idle"
    /\ lastOffer # None =>
          Closed \/ call[lastOffer] \in {"set", "send", "sent", "refused"}

\* What was added is in the last offer, or will be in one.
InLastOffer ==
    \A t \in added :
        \/ lastOffer # None /\ t \in offer[lastOffer]
        \/ Closed
        \/ onTrack[t] = "schedule"
        \/ \E c \in Calls : call[c] \in {"armed", "callback", "create"}

IInv ==
    /\ TypeOK
    /\ OneInFlight
    /\ OneOwnOffer
    /\ AnswerMatches
    /\ LastIsLargest
    /\ CalledOnce
    /\ InLastOffer
=============================================================================
