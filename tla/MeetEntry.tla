----------------------------- MODULE MeetEntry ------------------------------
(***************************************************************************)
(* Which way a page goes into a meeting: to the SFU (SfuRoom) or to the    *)
(* 1-to-1 relay (P2PRelay).  The tab that created the meeting knows its    *)
(* type; every other page asks the server, which looks whether there is a  *)
(* room (handlers/meet_info.go; static/app.js, newMeeting and afterLogin). *)
(*                                                                         *)
(* The rooms are those of SfuRoom, whose connections are opened only by    *)
(* pages that went this way.  A page that went the other way stays "idle"  *)
(* here.                                                                   *)
(***************************************************************************)
EXTENDS SfuRoom

CONSTANTS
    MeetTypes,  \* "group" and "1to1"
    typeOf,     \* what a meeting was created as
    Creators    \* connections of the tab that created their meeting

ASSUME TypeAssumption ==
    /\ MeetTypes = {"group", "1to1"}
    /\ typeOf \in [Meets -> MeetTypes]
    /\ Creators \subseteq Sessions
    /\ None \notin MeetTypes

VARIABLE meetType   \* state.meetType; None before afterLogin has found it

entryVars == <<vars, meetType>>

EntryTypeOK == TypeOK /\ meetType \in [Sessions -> MeetTypes \cup {None}]

EntryInit == Init /\ meetType = [s \in Sessions |-> None]

RoomExists(m) == registry[m] # None

\* sessionStorage.getItem(`type_${mid}`), set by newMeeting in this tab.
ReadType(s) ==
    /\ meetType[s] = None
    /\ s \in Creators
    /\ meetType' = [meetType EXCEPT ![s] = typeOf[meetOf[s]]]
    /\ UNCHANGED vars

\* Mutant: the defaults are the other way round.
HandleMeetInfoGroup(s) ==
    /\ meetType[s] = None
    /\ s \notin Creators
    /\ meetType' = [meetType EXCEPT ![s] =
                        IF RoomExists(meetOf[s]) THEN "1to1" ELSE "group"]
    /\ UNCHANGED vars

\* GET /api/meet-info; the page keeps the answer, whatever becomes of the room.
HandleMeetInfo(s) ==
    /\ meetType[s] = None
    /\ s \notin Creators
    /\ meetType' = [meetType EXCEPT ![s] =
                        IF RoomExists(meetOf[s]) THEN "group" ELSE "1to1"]
    /\ UNCHANGED vars

\* The request fails, or its answer does not parse.
FetchFails(s) ==
    /\ meetType[s] = None
    /\ s \notin Creators
    /\ meetType' = [meetType EXCEPT ![s] = "1to1"]
    /\ UNCHANGED vars

\* enterGroupMeeting: connectSFU.
EnterGroupMeeting(s) ==
    /\ meetType[s] = "group"
    /\ Connect(s)
    /\ UNCHANGED meetType

\* Everything that happens once there is a connection.
InRoom(s) ==
    /\ Handler(s) \/ AnswerPopup(s) \/ LeaveMeeting(s) \/ Disconnect(s)
    /\ UNCHANGED meetType

EntryNext ==
    \E s \in Sessions :
        \/ ReadType(s)
        \/ HandleMeetInfo(s)
        \/ FetchFails(s)
        \/ EnterGroupMeeting(s)
        \/ InRoom(s)

EntrySpec == EntryInit /\ [][EntryNext]_entryVars
EntryFairSpec == EntrySpec /\ HandlerFairness

-----------------------------------------------------------------------------
(* Properties.                                                             *)

\* There is a room only for a meeting that was created as a group.  The server
\* opens one for whoever comes to /sfu, and tells whoever asks to come there if
\* there is one; a page acts on an answer that may be out of date.  Still nobody
\* is sent there first who should not be (meet_info.go:20-23, sfu.go:95,
\* app.js:240-254).
OnlyGroupRooms == \A m \in Meets : RoomExists(m) => typeOf[m] = "group"

-----------------------------------------------------------------------------
(* The inductive invariant behind OnlyGroupRooms.                          *)

\* Whoever has a connection was sent to the SFU, and is only where a group is.
SentToGroup ==
    \A s \in Sessions :
        /\ pc[s] # "idle" => meetType[s] = "group"
        /\ meetType[s] = "group" => typeOf[meetOf[s]] = "group"

EntryInv == EntryTypeOK /\ SentToGroup /\ OnlyGroupRooms
=============================================================================
