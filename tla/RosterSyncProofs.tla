-------------------------- MODULE RosterSyncProofs --------------------------
(***************************************************************************)
(* TLAPS proofs about RosterSync, for any number of connections and users  *)
(* and any number of toggles.                                              *)
(***************************************************************************)
EXTENDS RosterSync, TLAPS

-----------------------------------------------------------------------------
(* Types.                                                                  *)

LEMMA MessageTypes ==
    ASSUME TypeOK, NEW s \in Sessions
    PROVE  RoomState(s) \in RoomStates /\ MicState(s) \in MicStates
BY DEF TypeOK, RoomState, MicState, RoomStates, MicStates, Present

\* What the page's handling of a message leaves of the types.
LEMMA PageTakesType ==
    ASSUME TypeOK, NEW s \in Sessions, NEW m \in RoomStates \cup MicStates,
           PageTakes(s, m)
    PROVE  /\ roster' \in [Sessions -> SUBSET Users]
           /\ media'  \in [Sessions -> [Users -> BOOLEAN \cup {None}]]
           /\ newest' \in [Sessions -> Nat]
           /\ heard'  \in [Sessions -> [Sessions -> Nat]]
<1>1. CASE m.type = "room-state"
  <2>1. m \in RoomStates
    BY <1>1 DEF MicStates
  <2>2. m.version \in Nat /\ m.peers \in SUBSET Users
    BY <2>1 DEF RoomStates
  <2>3. /\ roster' = [roster EXCEPT ![s] = m.peers]
        /\ newest' = [newest EXCEPT ![s] = IF @ > m.version THEN @
                                                           ELSE m.version]
        /\ UNCHANGED <<media, heard>>
    BY <1>1 DEF PageTakes
  <2> QED
    BY <2>2, <2>3 DEF TypeOK
<1>2. CASE m.type = "peer-mic-state"
  <2>1. m \in MicStates
    BY <1>2 DEF RoomStates
  <2>2. m.from \in Sessions /\ m.n \in Nat /\ m.on \in BOOLEAN
    BY <2>1 DEF MicStates
  <2>3. /\ media' = [media EXCEPT ![s][userOf[m.from]] = m.on]
        /\ heard' = [heard EXCEPT ![s][m.from] = IF @ > m.n THEN @ ELSE m.n]
        /\ UNCHANGED <<roster, newest>>
    BY <1>2 DEF PageTakes
  <2> QED
    BY <2>2, <2>3, UserOfAssumption DEF TypeOK
<1> QED
  BY <1>1, <1>2 DEF PageTakes

LEMMA TypeStep == ASSUME TypeOK, [Next]_vars PROVE TypeOK'
<1> USE DEF TypeOK, Goto
<1>1. ASSUME NEW s \in Sessions, Join(s) \/ Leave(s) \/ EnterLoop(s)
      PROVE  TypeOK'
  <2>1. CASE Join(s)
    <3>0. peers' = [peers EXCEPT ![userOf[s]] = s] /\ version' = version + 1
      BY <2>1 DEF Join
    <3>1. peers' \in [Users -> Sessions \cup {None}] /\ version' \in Nat
      BY <3>0, UserOfAssumption
    <3>2. pc' \in [Sessions -> PCs]
      BY <2>1 DEF Join, PCs
    <3> QED
      BY <2>1, <3>1, <3>2 DEF Join, page, reached
  <2>2. CASE Leave(s)
    <3>0. peers' = [peers EXCEPT ![userOf[s]] = None] /\ version' = version + 1
      BY <2>2 DEF Leave
    <3>1. peers' \in [Users -> Sessions \cup {None}] /\ version' \in Nat
      BY <3>0, UserOfAssumption
    <3>2. pc' \in [Sessions -> PCs]
      BY <2>2 DEF Leave, PCs
    <3> QED
      BY <2>2, <3>1, <3>2 DEF Leave, page, reached
  <2>3. CASE EnterLoop(s)
    BY <1>1, <2>3 DEF EnterLoop, PCs, page, counts, reached
  <2> QED
    BY <1>1, <2>1, <2>2, <2>3
<1>2. ASSUME NEW s \in Sessions, BroadcastRoomState(s) PROVE TypeOK'
  BY <1>2, MessageTypes
     DEF BroadcastRoomState, GoSend, PCs, page, counts, reached
<1>3. ASSUME NEW s \in Sessions, BroadcastToOthers(s) PROVE TypeOK'
  BY <1>3, MessageTypes
     DEF BroadcastToOthers, GoSend, PCs, page, counts, reached
<1>4. ASSUME NEW s \in Sessions, SendMediaStateTo(s) PROVE TypeOK'
  <2>1. {MicState(t) : t \in Others(s)} \in SUBSET MicStates
    BY MessageTypes DEF Others
  <2> QED
    BY <1>4, <2>1 DEF SendMediaStateTo, PCs, page, counts, reached
<1>5. ASSUME NEW s \in Sessions, TellMediaState(s) PROVE TypeOK'
  BY <1>5, PageTakesType DEF TellMediaState, counts
<1>6. ASSUME NEW s \in Sessions, HandleMicState(s) PROVE TypeOK'
  BY <1>6 DEF HandleMicState, PCs, page, reached
<1>7. ASSUME NEW s \in Sessions, SendJSON(s) PROVE TypeOK'
  BY <1>7, PageTakesType DEF SendJSON, counts
<1>8. ASSUME NEW s \in Sessions, SendFails(s) PROVE TypeOK'
  BY <1>8 DEF SendFails, page, counts, reached
<1>9. CASE UNCHANGED vars
  BY <1>9 DEF vars, server, page, counts, reached
<1> QED
  BY <1>1, <1>2, <1>3, <1>4, <1>5, <1>6, <1>7, <1>8, <1>9
     DEF Next, Handler, Goroutine, Environment

-----------------------------------------------------------------------------
(* What the steps do to the room.                                          *)

\* A page's messages change nothing that the room's entries are about.
LEMMA ListedStep ==
    ASSUME TypeOK, ListedInCall, [Next]_vars
    PROVE  ListedInCall'
<1> USE UserOfAssumption, NoneAssumption
    DEF TypeOK, ListedInCall, Listed, Goto
<1>1. ASSUME NEW s \in Sessions, Join(s) \/ Leave(s) PROVE ListedInCall'
  BY <1>1 DEF Join, Leave
<1>2. ASSUME NEW s \in Sessions, BroadcastRoomState(s) PROVE ListedInCall'
  BY <1>2 DEF BroadcastRoomState, counts
<1>3. ASSUME NEW s \in Sessions,
             \/ SendMediaStateTo(s) \/ EnterLoop(s) \/ HandleMicState(s)
             \/ BroadcastToOthers(s)
      PROVE  ListedInCall'
  BY <1>3 DEF SendMediaStateTo, EnterLoop, HandleMicState, BroadcastToOthers,
              counts
<1>4. ASSUME NEW s \in Sessions,
             TellMediaState(s) \/ SendJSON(s) \/ SendFails(s)
      PROVE  ListedInCall'
  BY <1>4 DEF TellMediaState, SendJSON, SendFails, counts
<1>5. CASE UNCHANGED vars
  BY <1>5 DEF vars, server, counts
<1> QED
  BY <1>1, <1>2, <1>3, <1>4, <1>5 DEF Next, Handler, Goroutine, Environment

\* Handling a message forgets nothing that was handled before, and takes note of
\* that message.
LEMMA PageTakesEffect ==
    ASSUME TypeOK, NEW s \in Sessions, NEW m \in RoomStates \cup MicStates,
           PageTakes(s, m)
    PROVE  /\ \A t \in Sessions : newest'[t] >= newest[t]
           /\ \A t, x \in Sessions : heard'[t][x] >= heard[t][x]
           /\ m \in RoomStates => newest'[s] >= m.version
           /\ m \in MicStates => heard'[s][m.from] >= m.n
<1>1. CASE m.type = "room-state"
  <2>1. m \in RoomStates /\ m \notin MicStates /\ m.version \in Nat
    BY <1>1 DEF RoomStates, MicStates
  <2>2. /\ newest' = [newest EXCEPT ![s] = IF @ > m.version THEN @
                                                           ELSE m.version]
        /\ heard' = heard
    BY <1>1 DEF PageTakes
  <2> QED
    BY <2>1, <2>2 DEF TypeOK
<1>2. CASE m.type = "peer-mic-state"
  <2>1. m \in MicStates /\ m \notin RoomStates /\ m.from \in Sessions /\ m.n \in Nat
    BY <1>2 DEF RoomStates, MicStates
  <2>2. /\ heard' = [heard EXCEPT ![s][m.from] = IF @ > m.n THEN @ ELSE m.n]
        /\ newest' = newest
    BY <1>2 DEF PageTakes
  <2> QED
    BY <2>1, <2>2 DEF TypeOK
<1> QED
  BY <1>1, <1>2 DEF PageTakes

\* The two steps in which a page takes a message: it is the only one that is not
\* waiting any more.
LEMMA TakesStep ==
    ASSUME TypeOK, NEW s \in Sessions, TellMediaState(s) \/ SendJSON(s)
    PROVE  \E m \in RoomStates \cup MicStates :
              /\ PageTakes(s, m)
              /\ UNCHANGED <<peers, pc, micOn, version, toggles>>
              /\ \A t \in Sessions :
                    /\ states[t] \ {m} \subseteq states'[t]
                    /\ sending[t] \ {m} \subseteq sending'[t]
                    /\ t # s => states'[t] = states[t] /\ sending'[t] = sending[t]
<1>1. CASE TellMediaState(s)
  <2>1. PICK m \in states[s] : /\ PageTakes(s, m)
                              /\ states' = [states EXCEPT ![s] = @ \ {m}]
    BY <1>1 DEF TellMediaState
  <2>2. m \in MicStates /\ UNCHANGED <<peers, pc, micOn, version, toggles, sending>>
    BY <1>1 DEF TypeOK, TellMediaState, counts
  <2> QED
    BY <2>1, <2>2 DEF TypeOK
<1>2. CASE SendJSON(s)
  <2>1. PICK m \in sending[s] : /\ PageTakes(s, m)
                               /\ sending' = [sending EXCEPT ![s] = @ \ {m}]
    BY <1>2 DEF SendJSON
  <2>2. /\ m \in RoomStates \cup MicStates
        /\ UNCHANGED <<peers, pc, micOn, version, toggles, states>>
    BY <1>2 DEF TypeOK, SendJSON, counts
  <2> QED
    BY <2>1, <2>2 DEF TypeOK
<1> QED
  BY <1>1, <1>2

-----------------------------------------------------------------------------
(* The list.                                                               *)

LEMMA RosterStep ==
    ASSUME TypeOK, ListedInCall, RosterTold, [Next]_vars
    PROVE  RosterTold'
<1> DEFINE Changing == \E t \in Sessions : pc[t] \in {"joined", "left"}
           Current(s, m) == /\ m.type = "room-state" /\ m.version = version
                            /\ m.peers = Present
           Told(s) == newest[s] >= version \/ \E m \in sending[s] : Current(s, m)
<1>0. \A s \in Sessions : Listed(s) => Changing \/ Told(s)
  BY DEF RosterTold
<1>1. ASSUME NEW s \in Sessions, Join(s) \/ Leave(s) PROVE RosterTold'
  BY <1>1 DEF TypeOK, Join, Leave, Goto, RosterTold
<1>2. ASSUME NEW s \in Sessions, BroadcastRoomState(s) PROVE RosterTold'
  <2>1. /\ UNCHANGED <<peers, version, newest>>
        /\ \A t \in Sessions : Listed(t) => RoomState(s) \in sending'[t]
    BY <1>2 DEF BroadcastRoomState, GoSend, counts, reached
  <2>2. Current(s, RoomState(s)) /\ Present' = Present
    BY <2>1 DEF RoomState, Present
  <2> QED
    BY <2>1, <2>2 DEF RosterTold, Listed
<1>3. ASSUME NEW s \in Sessions,
             \/ SendMediaStateTo(s) \/ EnterLoop(s) \/ HandleMicState(s)
             \/ BroadcastToOthers(s)
      PROVE  RosterTold'
  <2>1. /\ UNCHANGED <<peers, version, newest>>
        /\ \A t \in Sessions : sending[t] \subseteq sending'[t]
        /\ pc[s] \notin {"joined", "left"}
        /\ \A t \in Sessions : t # s => pc'[t] = pc[t]
    BY <1>3 DEF TypeOK, SendMediaStateTo, EnterLoop, HandleMicState,
                BroadcastToOthers, GoSend, Goto, counts, reached
  <2>2. Present' = Present /\ (Changing => Changing')
    BY <2>1 DEF Present
  <2> QED
    BY <1>0, <2>1, <2>2 DEF RosterTold, Listed
<1>4. ASSUME NEW s \in Sessions, TellMediaState(s) \/ SendJSON(s)
      PROVE  RosterTold'
  <2>1. PICK m \in RoomStates \cup MicStates :
          /\ PageTakes(s, m)
          /\ UNCHANGED <<peers, version, pc>>
          /\ \A t \in Sessions : \A n \in sending[t] :
                n \in sending'[t] \/ (t = s /\ n = m)
    BY <1>4, TakesStep
  <2>2. Present' = Present /\ (Changing => Changing')
    BY <2>1 DEF Present
  <2>3. \A t \in Sessions : newest'[t] >= newest[t]
    BY <2>1, PageTakesEffect
  <2>4. Current(s, m) => newest'[s] >= version
    <3>1. Current(s, m) => m \in RoomStates
      BY DEF MicStates
    <3> QED
      BY <2>1, <3>1, PageTakesEffect
  <2>5. /\ \A t \in Sessions : newest[t] \in Nat /\ newest'[t] \in Nat
        /\ version \in Nat
    BY <2>1, PageTakesType DEF TypeOK
  <2> SUFFICES ASSUME NEW t \in Sessions, Listed(t)', ~Changing'
               PROVE  Told(t)'
    BY DEF RosterTold
  <2>6. Told(t)
    BY <1>0, <2>1, <2>2 DEF Listed
  <2> QED
    BY <2>1, <2>2, <2>3, <2>4, <2>5, <2>6
<1>5. ASSUME NEW s \in Sessions, SendFails(s) PROVE RosterTold'
  <2>1. /\ UNCHANGED <<peers, version, pc, newest>>
        /\ ~Listed(s)
        /\ \A t \in Sessions : t # s => sending'[t] = sending[t]
    BY <1>5 DEF TypeOK, ListedInCall, SendFails, counts, reached
  <2>2. Present' = Present /\ (Changing => Changing')
    BY <2>1 DEF Present
  <2> QED
    BY <1>0, <2>1, <2>2 DEF RosterTold, Listed
<1>6. CASE UNCHANGED vars
  BY <1>6 DEF vars, server, counts, reached, RosterTold, Listed, Present
<1> QED
  BY <1>1, <1>2, <1>3, <1>4, <1>5, <1>6 DEF Next, Handler, Goroutine, Environment

-----------------------------------------------------------------------------
(* The microphones.                                                        *)

LEMMA MicStep ==
    ASSUME TypeOK, ListedInCall, MicTold, [Next]_vars
    PROVE  MicTold'
<1> DEFINE Reaches(s, t) == \/ heard[s][t] >= toggles[t]
                            \/ MicState(t) \in states[s] \cup sending[s]
           Told(s, t) == \/ pc[t] = "toggled"
                         \/ pc[s] \in {"joined", "told"}
                         \/ Reaches(s, t)
           Both(s, t) == Listed(s) /\ Listed(t) /\ s # t
<1>0. MicTold <=> \A s, t \in Sessions : Both(s, t) => Told(s, t)
  BY DEF MicTold
<1>a. MicTold' <=> \A s, t \in Sessions : Both(s, t)' => Told(s, t)'
  BY DEF MicTold
<1>1. ASSUME NEW x \in Sessions, Join(x) PROVE MicTold'
  <2>1. /\ UNCHANGED <<states, sending, heard, toggles, micOn>>
        /\ \A s \in Sessions : s # x => pc'[s] = pc[s]
        /\ pc[x] = "admitted" /\ pc'[x] = "joined"
        /\ \A s \in Sessions : Listed(s)' => s = x \/ Listed(s)
    BY <1>1, UserOfAssumption DEF TypeOK, Join, Goto, Listed, reached
  <2>2. toggles[x] = 0 /\ \A s \in Sessions : heard[s][x] \in Nat
    BY <2>1 DEF TypeOK, ListedInCall
  <2>3. \A t \in Sessions : MicState(t)' = MicState(t)
    BY <2>1 DEF MicState
  <2> SUFFICES ASSUME NEW s \in Sessions, NEW t \in Sessions, Both(s, t)'
               PROVE  Told(s, t)'
    BY <1>a
  <2>4. CASE s = x
    BY <2>1, <2>4
  <2>5. CASE t = x
    BY <2>1, <2>2, <2>5
  <2>6. CASE s # x /\ t # x
    BY <1>0, <2>1, <2>3, <2>6
  <2> QED
    BY <2>4, <2>5, <2>6
<1>2. ASSUME NEW x \in Sessions, Leave(x) PROVE MicTold'
  <2>1. /\ UNCHANGED <<states, sending, heard, toggles, micOn>>
        /\ \A s \in Sessions : s # x => pc'[s] = pc[s]
        /\ pc[x] = "loop"
        /\ \A s \in Sessions : Listed(s)' => Listed(s)
    BY <1>2, UserOfAssumption, NoneAssumption
       DEF TypeOK, Leave, Goto, Listed, reached
  <2>2. \A t \in Sessions : MicState(t)' = MicState(t)
    BY <2>1 DEF MicState
  <2> SUFFICES ASSUME NEW s \in Sessions, NEW t \in Sessions, Both(s, t)'
               PROVE  Told(s, t)'
    BY <1>a
  <2>3. Told(s, t)
    BY <1>0, <2>1
  <2> QED
    BY <2>1, <2>2, <2>3
<1>3. ASSUME NEW x \in Sessions,
             BroadcastRoomState(x) \/ BroadcastToOthers(x) \/ EnterLoop(x)
      PROVE  MicTold'
  <2>1. /\ UNCHANGED <<peers, states, heard, toggles, micOn>>
        /\ \A s \in Sessions : s # x => pc'[s] = pc[s]
        /\ \A s \in Sessions : sending[s] \subseteq sending'[s]
        /\ pc[x] \in {"joined", "left", "toggled", "telling"}
        /\ pc[x] = "joined" => pc'[x] = "told"
        /\ pc[x] = "toggled" =>
              \A s \in Sessions : s \in Others(x) => MicState(x) \in sending'[s]
    <3> USE DEF TypeOK, Goto, counts, reached
    <3>1. CASE BroadcastRoomState(x)
      BY <3>1 DEF BroadcastRoomState, GoSend
    <3>2. CASE BroadcastToOthers(x)
      BY <3>2 DEF BroadcastToOthers, GoSend
    <3>3. CASE EnterLoop(x)
      BY <3>3 DEF EnterLoop
    <3> QED
      BY <1>3, <3>1, <3>2, <3>3
  <2>2. \A t \in Sessions : MicState(t)' = MicState(t)
    BY <2>1 DEF MicState
  <2> SUFFICES ASSUME NEW s \in Sessions, NEW t \in Sessions, Both(s, t)'
               PROVE  Told(s, t)'
    BY <1>a
  <2>3. Both(s, t) /\ Told(s, t)
    BY <1>0, <2>1 DEF Listed
  <2>4. CASE t = x /\ pc[x] = "toggled"
    <3>1. s \in Others(x)
      BY <2>3, <2>4 DEF Others, Listed
    <3> QED
      BY <2>1, <2>2, <2>4, <3>1
  <2>5. CASE ~(t = x /\ pc[x] = "toggled")
    BY <2>1, <2>2, <2>3, <2>5 DEF ListedInCall
  <2> QED
    BY <2>4, <2>5
<1>4. ASSUME NEW x \in Sessions, SendMediaStateTo(x) PROVE MicTold'
  <2>1. /\ UNCHANGED <<peers, sending, heard, toggles, micOn>>
        /\ \A s \in Sessions : s # x => pc'[s] = pc[s] /\ states'[s] = states[s]
        /\ pc[x] = "told"
        /\ states'[x] = {MicState(t) : t \in Others(x)}
    BY <1>4 DEF TypeOK, SendMediaStateTo, Goto, counts, reached
  <2>2. \A t \in Sessions : MicState(t)' = MicState(t)
    BY <2>1 DEF MicState
  <2> SUFFICES ASSUME NEW s \in Sessions, NEW t \in Sessions, Both(s, t)'
               PROVE  Told(s, t)'
    BY <1>a
  <2>3. Both(s, t) /\ Told(s, t)
    BY <1>0, <2>1 DEF Listed
  <2>4. CASE s = x
    <3>1. t \in Others(x)
      BY <2>3, <2>4 DEF Others, Listed
    <3> QED
      BY <2>1, <2>2, <2>4, <3>1
  <2>5. CASE s # x
    BY <2>1, <2>2, <2>3, <2>5
  <2> QED
    BY <2>4, <2>5
<1>5. ASSUME NEW x \in Sessions, HandleMicState(x) PROVE MicTold'
  <2>1. /\ UNCHANGED <<peers, states, sending, heard>>
        /\ \A s \in Sessions : s # x => /\ pc'[s] = pc[s]
                                        /\ toggles'[s] = toggles[s]
                                        /\ micOn'[s] = micOn[s]
        /\ pc[x] = "loop" /\ pc'[x] = "toggled"
    BY <1>5 DEF TypeOK, HandleMicState, Goto, reached
  <2>2. \A t \in Sessions : t # x => MicState(t)' = MicState(t)
    BY <2>1 DEF MicState
  <2> SUFFICES ASSUME NEW s \in Sessions, NEW t \in Sessions, Both(s, t)'
               PROVE  Told(s, t)'
    BY <1>a
  <2>3. Told(s, t)
    BY <1>0, <2>1 DEF Listed
  <2> QED
    BY <2>1, <2>2, <2>3
<1>6. ASSUME NEW x \in Sessions, TellMediaState(x) \/ SendJSON(x)
      PROVE  MicTold'
  <2>1. PICK m \in RoomStates \cup MicStates :
          /\ PageTakes(x, m)
          /\ UNCHANGED <<peers, pc, toggles, micOn>>
          /\ \A t \in Sessions : \A n \in states[t] \cup sending[t] :
                n \in states'[t] \cup sending'[t] \/ (t = x /\ n = m)
    BY <1>6, TakesStep
  <2>2. \A t \in Sessions : MicState(t)' = MicState(t)
    BY <2>1 DEF MicState
  <2>3. \A s, t \in Sessions : heard'[s][t] >= heard[s][t]
    BY <2>1, PageTakesEffect
  <2>4. \A t \in Sessions : m = MicState(t) => heard'[x][t] >= toggles[t]
    <3> SUFFICES ASSUME NEW t \in Sessions, m = MicState(t)
                 PROVE  heard'[x][t] >= toggles[t]
      OBVIOUS
    <3>1. m \in MicStates /\ m.from = t /\ m.n = toggles[t]
      BY MessageTypes DEF MicState
    <3> QED
      BY <2>1, <3>1, PageTakesEffect
  <2>5. \A s, t \in Sessions : /\ heard[s][t] \in Nat /\ heard'[s][t] \in Nat
                               /\ toggles[t] \in Nat
    BY <2>1, PageTakesType DEF TypeOK
  <2> SUFFICES ASSUME NEW s \in Sessions, NEW t \in Sessions, Both(s, t)'
               PROVE  Told(s, t)'
    BY <1>a
  <2>6. Told(s, t)
    BY <1>0, <2>1 DEF Listed
  <2>7. Reaches(s, t) => Reaches(s, t)'
    BY <2>1, <2>2, <2>3, <2>4, <2>5
  <2> QED
    BY <2>1, <2>6, <2>7
<1>7. ASSUME NEW x \in Sessions, SendFails(x) PROVE MicTold'
  <2>1. /\ UNCHANGED <<peers, pc, toggles, micOn, states, heard>>
        /\ ~Listed(x)
        /\ \A t \in Sessions : t # x => sending'[t] = sending[t]
    BY <1>7 DEF TypeOK, ListedInCall, SendFails, counts, reached
  <2>2. \A t \in Sessions : MicState(t)' = MicState(t)
    BY <2>1 DEF MicState
  <2> SUFFICES ASSUME NEW s \in Sessions, NEW t \in Sessions, Both(s, t)'
               PROVE  Told(s, t)'
    BY <1>a
  <2>3. s # x /\ Told(s, t)
    BY <1>0, <2>1 DEF Listed
  <2> QED
    BY <2>1, <2>2, <2>3
<1>8. CASE UNCHANGED vars
  BY <1>8 DEF vars, server, counts, reached, MicTold, Listed, MicState
<1> QED
  BY <1>1, <1>2, <1>3, <1>4, <1>5, <1>6, <1>7, <1>8
     DEF Next, Handler, Goroutine, Environment

-----------------------------------------------------------------------------
(* The theorems.                                                           *)

LEMMA InvInit == Init => IInv
BY UserOfAssumption, NoneAssumption
   DEF Init, IInv, TypeOK, ListedInCall, RosterTold, MicTold, Listed, PCs

LEMMA InvStep == IInv /\ [Next]_vars => IInv'
BY TypeStep, ListedStep, RosterStep, MicStep DEF IInv

\* IInv holds in every reachable state: the types, that whoever is listed is in
\* the call, and the two properties below.
THEOREM Inductive == Spec => []IInv
BY InvInit, InvStep, PTL DEF Spec

\* Whoever is in the room has been sent the list that is true now, unless
\* somebody is about to send it, however many join and leave at once.
THEOREM RosterIsTold == Spec => []RosterTold
<1>1. IInv => RosterTold
  BY DEF IInv
<1> QED
  BY <1>1, Inductive, PTL

\* A toggle and a Join never miss each other: the newcomer is sent the state
\* after the toggle, by the one or by the other.
THEOREM MicIsTold == Spec => []MicTold
<1>1. IInv => MicTold
  BY DEF IInv
<1> QED
  BY <1>1, Inductive, PTL
=============================================================================
