-------------------------- MODULE MeetEntryProofs ---------------------------
(***************************************************************************)
(* TLAPS proofs about MeetEntry, for any number of connections, users and  *)
(* meetings.                                                               *)
(***************************************************************************)
EXTENDS MeetEntry, SfuRoomProofs

\* What happens to the rooms is what happens in SfuRoom.
LEMMA EntryStep == [EntryNext]_entryVars => [Next]_vars
BY DEF EntryNext, entryVars, ReadType, HandleMeetInfo, FetchFails,
       EnterGroupMeeting, InRoom, Next, Browser

\* A connection is opened by Connect alone, and a room by GetOrCreate alone.
LEMMA RegistryStep ==
    ASSUME TypeOK, NEW s \in Sessions,
           Handler(s) \/ AnswerPopup(s) \/ LeaveMeeting(s) \/ Disconnect(s)
    PROVE  /\ \A t \in Sessions : pc[t] = "idle" => pc'[t] = "idle"
           /\ \A m \in Meets :
                 registry'[m] # None =>
                    registry[m] # None \/ (pc[s] = "enter" /\ m = meetOf[s])
<1> USE DEF TypeOK, Goto
<1>1. CASE GetOrCreate(s)
  BY <1>1 DEF GetOrCreate
<1>2. CASE DestroyIfEmpty(s)
  BY <1>2 DEF DestroyIfEmpty
<1>3. CASE \/ CheckEmpty(s) \/ RegisterKnock(s) \/ FindHost(s) \/ NotifyHost(s)
           \/ ReceiveAnswer(s) \/ SendAnswer(s) \/ Join(s)
  BY <1>3 DEF CheckEmpty, RegisterKnock, FindHost, NotifyHost, ReceiveAnswer,
              SendAnswer, Join, shared
<1>4. CASE WithdrawKnock(s) \/ HandleDecision(s)
  BY <1>4 DEF WithdrawKnock, HandleDecision, TakeKnock
<1>5. CASE HandleLeave(s) \/ HandleClosed(s) \/ Leave(s)
  BY <1>5 DEF HandleLeave, HandleClosed, Leave, shared
<1>6. CASE AnswerPopup(s) \/ LeaveMeeting(s) \/ Disconnect(s)
  BY <1>6 DEF AnswerPopup, LeaveMeeting, Disconnect, shared, locals
<1> QED
  BY <1>1, <1>2, <1>3, <1>4, <1>5, <1>6 DEF Handler

\* A page that has no connection yet learns a type that is right if it is "group".
LEMMA LearnStep ==
    ASSUME EntryTypeOK, SentToGroup, NEW s \in Sessions, meetType[s] = None,
           NEW type, type = "group" => typeOf[meetOf[s]] = "group",
           meetType' = [meetType EXCEPT ![s] = type], UNCHANGED vars
    PROVE  SentToGroup'
<1>1. /\ UNCHANGED pc
      /\ meetType'[s] = type
      /\ \A t \in Sessions : t # s => meetType'[t] = meetType[t]
  BY DEF EntryTypeOK, vars, locals
<1>2. pc[s] = "idle"
  BY TypeAssumption DEF SentToGroup
<1> QED
  BY <1>1, <1>2 DEF SentToGroup

LEMMA SentStep ==
    ASSUME EntryTypeOK, SentToGroup, OnlyGroupRooms, [EntryNext]_entryVars
    PROVE  SentToGroup' /\ OnlyGroupRooms'
<1>0. ASSUME UNCHANGED vars PROVE OnlyGroupRooms'
  BY <1>0 DEF OnlyGroupRooms, RoomExists, vars, shared
<1>1. ASSUME NEW s \in Sessions, ReadType(s)
      PROVE  SentToGroup' /\ OnlyGroupRooms'
  BY <1>0, <1>1, LearnStep DEF ReadType
<1>2. ASSUME NEW s \in Sessions, HandleMeetInfo(s)
      PROVE  SentToGroup' /\ OnlyGroupRooms'
  <2> DEFINE type == IF RoomExists(meetOf[s]) THEN "group" ELSE "1to1"
  <2>1. type = "group" => typeOf[meetOf[s]] = "group"
    BY MeetOfAssumption DEF OnlyGroupRooms
  <2>2. meetType[s] = None /\ meetType' = [meetType EXCEPT ![s] = type]
        /\ UNCHANGED vars
    BY <1>2 DEF HandleMeetInfo
  <2> HIDE DEF type
  <2> QED
    BY <1>0, <2>1, <2>2, LearnStep
<1>3. ASSUME NEW s \in Sessions, FetchFails(s)
      PROVE  SentToGroup' /\ OnlyGroupRooms'
  BY <1>0, <1>3, LearnStep DEF FetchFails
<1> USE DEF EntryTypeOK, SentToGroup, OnlyGroupRooms, RoomExists
<1>4. ASSUME NEW s \in Sessions, EnterGroupMeeting(s)
      PROVE  SentToGroup' /\ OnlyGroupRooms'
  BY <1>4 DEF EnterGroupMeeting, Connect, Goto, TypeOK, shared
<1>5. ASSUME NEW s \in Sessions, InRoom(s)
      PROVE  SentToGroup' /\ OnlyGroupRooms'
  <2>1. /\ meetType' = meetType
        /\ \A t \in Sessions : pc[t] = "idle" => pc'[t] = "idle"
        /\ \A m \in Meets :
              registry'[m] # None =>
                 registry[m] # None \/ (pc[s] = "enter" /\ m = meetOf[s])
    BY <1>5, RegistryStep DEF InRoom
  <2> QED
    BY <2>1
<1>6. CASE UNCHANGED entryVars
  BY <1>6 DEF entryVars, vars, shared, locals
<1> QED
  BY <1>1, <1>2, <1>3, <1>4, <1>5, <1>6 DEF EntryNext

LEMMA MeetTypeStep ==
    ASSUME EntryTypeOK, [EntryNext]_entryVars
    PROVE  meetType' \in [Sessions -> MeetTypes \cup {None}]
BY TypeAssumption, MeetOfAssumption
   DEF EntryTypeOK, EntryNext, entryVars, ReadType, HandleMeetInfo, FetchFails,
       EnterGroupMeeting, InRoom

-----------------------------------------------------------------------------
(* The theorems.                                                           *)

\* MeetEntry implements SfuRoom: which way the pages take adds nothing to what
\* happens in the rooms.
THEOREM EntryIsSfuRoom == EntrySpec => Spec
<1>1. EntryInit => Init
  BY DEF EntryInit
<1> QED
  BY <1>1, EntryStep, PTL DEF EntrySpec, Spec

\* EntryInv holds in every reachable state: the types, that only pages sent to
\* the SFU have a connection there, and that they were sent there rightly.
THEOREM EntryInductive == EntrySpec => []EntryInv
<1>1. EntryInit => EntryInv
  BY TypeInit, TypeAssumption
     DEF EntryInit, EntryInv, EntryTypeOK, SentToGroup, OnlyGroupRooms,
         RoomExists, Init
<1>2. IInv /\ IInv' /\ EntryInv /\ [EntryNext]_entryVars => EntryInv'
  <2> SUFFICES ASSUME IInv', EntryInv, [EntryNext]_entryVars PROVE EntryInv'
    OBVIOUS
  <2>1. TypeOK'
    BY DEF IInv
  <2> QED
    BY <2>1, SentStep, MeetTypeStep DEF EntryInv, EntryTypeOK
<1>3. EntrySpec => []IInv
  BY EntryIsSfuRoom, Inductive, PTL
<1> QED
  BY <1>1, <1>2, <1>3, PTL DEF EntrySpec

\* There is a room only for a meeting that was created as a group.
THEOREM RoomsAreGroups == EntrySpec => []OnlyGroupRooms
<1>1. EntryInv => OnlyGroupRooms
  BY DEF EntryInv
<1> QED
  BY <1>1, EntryInductive, PTL
=============================================================================
