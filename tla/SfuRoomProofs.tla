--------------------------- MODULE SfuRoomProofs ---------------------------
(***************************************************************************)
(* TLAPS proofs about SfuRoom, for any number of connections, users and    *)
(* meetings and any assignment of users and meetings to connections.       *)
(***************************************************************************)
EXTENDS SfuRoom, TLAPS

-----------------------------------------------------------------------------
(* Type correctness.  TypeOK is not inductive alone: a step that reads       *)
(* peers[room[s]] or sends on outCh[s] keeps the types only because the     *)
(* locals it uses are set.                                                  *)

LEMMA TypeInit == Init => TypeOK /\ LocalsSet
<1> SUFFICES ASSUME Init PROVE TypeOK /\ LocalsSet
    OBVIOUS
<1> USE DEF Init
<1>1. inbox \in [Sessions -> Seq(Msgs)]
    OBVIOUS
<1> QED
    BY <1>1 DEF TypeOK, LocalsSet, PCs, Decisions

LEMMA RoomHeld ==
    ASSUME TypeOK, LocalsSet, NEW s \in Sessions,
           pc[s] \notin {"idle", "enter", "done"}
    PROVE  room[s] \in Sessions
BY DEF TypeOK, LocalsSet

\* The decision a handler reads names a user.
LEMMA HandledUser ==
    ASSUME TypeOK, NEW s \in Sessions, HandleDecision(s)
    PROVE  /\ Head(inbox[s]).userID \in Users
           /\ Head(inbox[s]).type \in Decisions
<1>1. inbox[s] \in Seq(Msgs) /\ inbox[s] # <<>>
    BY DEF TypeOK, HandleDecision
<1>2. Head(inbox[s]) \in Msgs
    BY <1>1
<1> QED
    BY <1>2 DEF HandleDecision, Msgs, Decisions

LEMMA TypeStep == TypeOK /\ LocalsSet /\ [Next]_vars => TypeOK'
<1> SUFFICES ASSUME TypeOK, LocalsSet, [Next]_vars PROVE TypeOK'
    OBVIOUS
<1> USE UserOfAssumption, MeetOfAssumption
        DEF TypeOK, LocalsSet, PCs, Decisions, Goto, shared, locals, browser
<1>1. ASSUME NEW s \in Sessions, Connect(s) PROVE TypeOK'
    BY <1>1 DEF Connect
<1>2. ASSUME NEW s \in Sessions, GetOrCreate(s) PROVE TypeOK'
    BY <1>2 DEF GetOrCreate
<1>3. ASSUME NEW s \in Sessions, CheckEmpty(s) PROVE TypeOK'
    BY <1>3 DEF CheckEmpty
<1>4. ASSUME NEW s \in Sessions, RegisterKnock(s) PROVE TypeOK'
    BY <1>4 DEF RegisterKnock
<1>5. ASSUME NEW s \in Sessions, FindHost(s) PROVE TypeOK'
  <2>1. room[s] \in Sessions
    BY <1>5 DEF FindHost
  <2>2. notifyTo' \in [Sessions -> Sessions \cup {None}]
    BY <1>5, <2>1 DEF FindHost
  <2> QED
    BY <1>5, <2>2 DEF FindHost
<1>6. ASSUME NEW s \in Sessions, NotifyHost(s) PROVE TypeOK'
  <2>1. popup' \in [Sessions -> Users \cup {None}]
    BY <1>6 DEF NotifyHost
  <2> QED
    BY <1>6, <2>1 DEF NotifyHost
<1>7. ASSUME NEW s \in Sessions, ReceiveAnswer(s) PROVE TypeOK'
    BY <1>7 DEF ReceiveAnswer
<1>8. ASSUME NEW s \in Sessions, WithdrawKnock(s) PROVE TypeOK'
  <2>1. room[s] \in Sessions /\ userOf[s] \in Users
    BY <1>8 DEF WithdrawKnock
  <2>2. pending[room[s]][userOf[s]] \in Sessions \cup {None}
    BY <2>1
  <2>3. pending' \in [Sessions -> [Users -> Sessions \cup {None}]]
    BY <1>8, <2>1 DEF WithdrawKnock, TakeKnock
  <2>4. pc' \in [Sessions -> PCs]
    BY <1>8 DEF WithdrawKnock, TakeKnock
  <2>5. outCh' \in [Sessions -> Sessions \cup {None}]
    BY <1>8, <2>2 DEF WithdrawKnock, TakeKnock
  <2>6. outVal' \in [Sessions -> Decisions \cup {None}]
    BY <1>8 DEF WithdrawKnock, TakeKnock
  <2> QED
    BY <1>8, <2>3, <2>4, <2>5, <2>6 DEF WithdrawKnock
<1>9. ASSUME NEW s \in Sessions, SendAnswer(s) PROVE TypeOK'
    BY <1>9 DEF SendAnswer
<1>10. ASSUME NEW s \in Sessions, Join(s) PROVE TypeOK'
    BY <1>10 DEF Join
<1>11. ASSUME NEW s \in Sessions, HandleDecision(s) PROVE TypeOK'
  <2> DEFINE u == Head(inbox[s]).userID
             d == Head(inbox[s]).type
  <2>1. room[s] \in Sessions
    BY <1>11 DEF HandleDecision
  <2>2. Head(inbox[s]) \in Msgs /\ Tail(inbox[s]) \in Seq(Msgs)
    BY <1>11 DEF HandleDecision
  <2>3. u \in Users /\ d \in Decisions
    BY <1>11, <2>2 DEF HandleDecision, Msgs
  <2>4. pending[room[s]][u] \in Sessions \cup {None}
    BY <2>1, <2>3
  <2>5. pending' \in [Sessions -> [Users -> Sessions \cup {None}]]
    BY <1>11, <2>1, <2>3 DEF HandleDecision, TakeKnock
  <2>6. inbox' \in [Sessions -> Seq(Msgs)]
    BY <1>11, <2>2 DEF HandleDecision
  <2>7. pc' \in [Sessions -> PCs]
    BY <1>11 DEF HandleDecision, TakeKnock
  <2>8. outCh' \in [Sessions -> Sessions \cup {None}]
    BY <1>11, <2>4 DEF HandleDecision, TakeKnock
  <2>9. outVal' \in [Sessions -> Decisions \cup {None}]
    BY <1>11, <2>3 DEF HandleDecision, TakeKnock
  <2> QED
    BY <1>11, <2>5, <2>6, <2>7, <2>8, <2>9 DEF HandleDecision
<1>12. ASSUME NEW s \in Sessions, HandleLeave(s) PROVE TypeOK'
    BY <1>12 DEF HandleLeave
<1>13. ASSUME NEW s \in Sessions, HandleClosed(s) PROVE TypeOK'
    BY <1>13 DEF HandleClosed
<1>14. ASSUME NEW s \in Sessions, Leave(s) PROVE TypeOK'
    BY <1>14 DEF Leave
<1>15. ASSUME NEW s \in Sessions, DestroyIfEmpty(s) PROVE TypeOK'
    BY <1>15 DEF DestroyIfEmpty
<1>16. ASSUME NEW s \in Sessions, AnswerPopup(s) PROVE TypeOK'
    BY <1>16 DEF AnswerPopup, Msgs
<1>17. ASSUME NEW s \in Sessions, LeaveMeeting(s) PROVE TypeOK'
    BY <1>17 DEF LeaveMeeting, Msgs
<1>18. ASSUME NEW s \in Sessions, Disconnect(s) PROVE TypeOK'
    BY <1>18 DEF Disconnect
<1>19. CASE UNCHANGED vars
    BY <1>19 DEF vars
<1> QED
    BY <1>1, <1>2, <1>3, <1>4, <1>5, <1>6, <1>7, <1>8, <1>9, <1>10,
       <1>11, <1>12, <1>13, <1>14, <1>15, <1>16, <1>17, <1>18, <1>19
       DEF Next, Handler, Browser

LEMMA LocalsStep == TypeOK /\ LocalsSet /\ [Next]_vars => LocalsSet'
<1> SUFFICES ASSUME TypeOK, LocalsSet, [Next]_vars PROVE LocalsSet'
    OBVIOUS
<1> USE NoneAssumption
        DEF TypeOK, LocalsSet, PCs, Decisions, Goto, shared, locals, browser
<1>1. ASSUME NEW s \in Sessions, Connect(s) PROVE LocalsSet'
    BY <1>1 DEF Connect
<1>2. ASSUME NEW s \in Sessions, GetOrCreate(s) PROVE LocalsSet'
    BY <1>2 DEF GetOrCreate
<1>3. ASSUME NEW s \in Sessions, CheckEmpty(s) PROVE LocalsSet'
    BY <1>3 DEF CheckEmpty
<1>4. ASSUME NEW s \in Sessions, RegisterKnock(s) PROVE LocalsSet'
    BY <1>4 DEF RegisterKnock
<1>5. ASSUME NEW s \in Sessions, FindHost(s) PROVE LocalsSet'
    BY <1>5 DEF FindHost
<1>6. ASSUME NEW s \in Sessions, NotifyHost(s) PROVE LocalsSet'
    BY <1>6 DEF NotifyHost
<1>7. ASSUME NEW s \in Sessions, ReceiveAnswer(s) PROVE LocalsSet'
    BY <1>7 DEF ReceiveAnswer
<1>8. ASSUME NEW s \in Sessions, WithdrawKnock(s) PROVE LocalsSet'
    BY <1>8 DEF WithdrawKnock, TakeKnock
<1>9. ASSUME NEW s \in Sessions, SendAnswer(s) PROVE LocalsSet'
    BY <1>9 DEF SendAnswer
<1>10. ASSUME NEW s \in Sessions, Join(s) PROVE LocalsSet'
    BY <1>10 DEF Join
<1>11. ASSUME NEW s \in Sessions, HandleDecision(s) PROVE LocalsSet'
    BY <1>11 DEF HandleDecision, TakeKnock
<1>12. ASSUME NEW s \in Sessions, HandleLeave(s) PROVE LocalsSet'
    BY <1>12 DEF HandleLeave
<1>13. ASSUME NEW s \in Sessions, HandleClosed(s) PROVE LocalsSet'
    BY <1>13 DEF HandleClosed
<1>14. ASSUME NEW s \in Sessions, Leave(s) PROVE LocalsSet'
    BY <1>14 DEF Leave
<1>15. ASSUME NEW s \in Sessions, DestroyIfEmpty(s) PROVE LocalsSet'
    BY <1>15 DEF DestroyIfEmpty
<1>16. ASSUME NEW s \in Sessions, AnswerPopup(s) PROVE LocalsSet'
    BY <1>16 DEF AnswerPopup, Msgs
<1>17. ASSUME NEW s \in Sessions, LeaveMeeting(s) PROVE LocalsSet'
    BY <1>17 DEF LeaveMeeting, Msgs
<1>18. ASSUME NEW s \in Sessions, Disconnect(s) PROVE LocalsSet'
    BY <1>18 DEF Disconnect
<1>19. CASE UNCHANGED vars
    BY <1>19 DEF vars
<1> QED
    BY <1>1, <1>2, <1>3, <1>4, <1>5, <1>6, <1>7, <1>8, <1>9, <1>10,
       <1>11, <1>12, <1>13, <1>14, <1>15, <1>16, <1>17, <1>18, <1>19
       DEF Next, Handler, Browser

-----------------------------------------------------------------------------
(* The channels.                                                           *)

LEMMA RoomStep == TypeOK /\ LocalsSet /\ RoomOfMeet /\ [Next]_vars => RoomOfMeet'
<1> SUFFICES ASSUME TypeOK, LocalsSet, RoomOfMeet, [Next]_vars PROVE RoomOfMeet'
    OBVIOUS
<1> USE MeetOfAssumption, NoneAssumption
        DEF TypeOK, LocalsSet, RoomOfMeet, PCs, Decisions, Goto, shared, locals,
            browser
<1>1. ASSUME NEW s \in Sessions, Connect(s) PROVE RoomOfMeet'
    BY <1>1 DEF Connect
<1>2. ASSUME NEW s \in Sessions, GetOrCreate(s) PROVE RoomOfMeet'
  <2>1. CASE registry[meetOf[s]] = None
    <3>1. /\ registry' = [registry EXCEPT ![meetOf[s]] = s]
          /\ room' = [room EXCEPT ![s] = s]
      BY <1>2, <2>1 DEF GetOrCreate
    <3>2. \A t \in Sessions :
             room'[t] # None => meetOf[room'[t]] = meetOf[t]
      BY <3>1
    <3>3. \A m \in Meets : registry'[m] # None => meetOf[registry'[m]] = m
      BY <3>1
    <3> QED
      BY <3>2, <3>3
  <2>2. CASE registry[meetOf[s]] # None
    BY <1>2, <2>2 DEF GetOrCreate
  <2> QED
    BY <2>1, <2>2
<1>3. ASSUME NEW s \in Sessions, CheckEmpty(s) PROVE RoomOfMeet'
    BY <1>3 DEF CheckEmpty
<1>4. ASSUME NEW s \in Sessions, RegisterKnock(s) PROVE RoomOfMeet'
    BY <1>4 DEF RegisterKnock
<1>5. ASSUME NEW s \in Sessions, FindHost(s) PROVE RoomOfMeet'
    BY <1>5 DEF FindHost
<1>6. ASSUME NEW s \in Sessions, NotifyHost(s) PROVE RoomOfMeet'
    BY <1>6 DEF NotifyHost
<1>7. ASSUME NEW s \in Sessions, ReceiveAnswer(s) PROVE RoomOfMeet'
    BY <1>7 DEF ReceiveAnswer
<1>8. ASSUME NEW s \in Sessions, WithdrawKnock(s) PROVE RoomOfMeet'
    BY <1>8 DEF WithdrawKnock, TakeKnock
<1>9. ASSUME NEW s \in Sessions, SendAnswer(s) PROVE RoomOfMeet'
    BY <1>9 DEF SendAnswer
<1>10. ASSUME NEW s \in Sessions, Join(s) PROVE RoomOfMeet'
    BY <1>10 DEF Join
<1>11. ASSUME NEW s \in Sessions, HandleDecision(s) PROVE RoomOfMeet'
    BY <1>11 DEF HandleDecision, TakeKnock, Msgs
<1>12. ASSUME NEW s \in Sessions, HandleLeave(s) PROVE RoomOfMeet'
    BY <1>12 DEF HandleLeave
<1>13. ASSUME NEW s \in Sessions, HandleClosed(s) PROVE RoomOfMeet'
    BY <1>13 DEF HandleClosed
<1>14. ASSUME NEW s \in Sessions, Leave(s) PROVE RoomOfMeet'
    BY <1>14 DEF Leave
<1>15. ASSUME NEW s \in Sessions, DestroyIfEmpty(s) PROVE RoomOfMeet'
    BY <1>15 DEF DestroyIfEmpty
<1>16. ASSUME NEW s \in Sessions, AnswerPopup(s) PROVE RoomOfMeet'
    BY <1>16 DEF AnswerPopup, Msgs
<1>17. ASSUME NEW s \in Sessions, LeaveMeeting(s) PROVE RoomOfMeet'
    BY <1>17 DEF LeaveMeeting, Msgs
<1>18. ASSUME NEW s \in Sessions, Disconnect(s) PROVE RoomOfMeet'
    BY <1>18 DEF Disconnect
<1>19. CASE UNCHANGED vars
    BY <1>19 DEF vars
<1> QED
    BY <1>1, <1>2, <1>3, <1>4, <1>5, <1>6, <1>7, <1>8, <1>9, <1>10,
       <1>11, <1>12, <1>13, <1>14, <1>15, <1>16, <1>17, <1>18, <1>19
       DEF Next, Handler, Browser

LEMMA PendingStep == TypeOK /\ LocalsSet /\ PendingIsWaiting /\ RegisteredFirst /\ AnswerNeverBlocks /\ [Next]_vars => PendingIsWaiting'
<1> SUFFICES ASSUME TypeOK, LocalsSet, PendingIsWaiting, RegisteredFirst, AnswerNeverBlocks, [Next]_vars PROVE PendingIsWaiting'
    OBVIOUS
<1> USE UserOfAssumption, NoneAssumption
        DEF TypeOK, LocalsSet, PendingIsWaiting, RegisteredFirst, AnswerNeverBlocks, PCs, Decisions, Goto, shared, locals,
            browser
<1>1. ASSUME NEW s \in Sessions, Connect(s) PROVE PendingIsWaiting'
    BY <1>1 DEF Connect
<1>2. ASSUME NEW s \in Sessions, GetOrCreate(s) PROVE PendingIsWaiting'
    BY <1>2 DEF GetOrCreate
<1>3. ASSUME NEW s \in Sessions, CheckEmpty(s) PROVE PendingIsWaiting'
    BY <1>3 DEF CheckEmpty
<1>4. ASSUME NEW s \in Sessions, RegisterKnock(s) PROVE PendingIsWaiting'
    BY <1>4 DEF RegisterKnock
<1>5. ASSUME NEW s \in Sessions, FindHost(s) PROVE PendingIsWaiting'
    BY <1>5 DEF FindHost
<1>6. ASSUME NEW s \in Sessions, NotifyHost(s) PROVE PendingIsWaiting'
    BY <1>6 DEF NotifyHost
<1>7. ASSUME NEW s \in Sessions, ReceiveAnswer(s) PROVE PendingIsWaiting'
    BY <1>7 DEF ReceiveAnswer
<1>8. ASSUME NEW s \in Sessions, WithdrawKnock(s) PROVE PendingIsWaiting'
    BY <1>8 DEF WithdrawKnock, TakeKnock
<1>9. ASSUME NEW s \in Sessions, SendAnswer(s) PROVE PendingIsWaiting'
    BY <1>9 DEF SendAnswer
<1>10. ASSUME NEW s \in Sessions, Join(s) PROVE PendingIsWaiting'
    BY <1>10 DEF Join
<1>11. ASSUME NEW s \in Sessions, HandleDecision(s) PROVE PendingIsWaiting'
    BY <1>11 DEF HandleDecision, TakeKnock, Msgs
<1>12. ASSUME NEW s \in Sessions, HandleLeave(s) PROVE PendingIsWaiting'
    BY <1>12 DEF HandleLeave
<1>13. ASSUME NEW s \in Sessions, HandleClosed(s) PROVE PendingIsWaiting'
    BY <1>13 DEF HandleClosed
<1>14. ASSUME NEW s \in Sessions, Leave(s) PROVE PendingIsWaiting'
    BY <1>14 DEF Leave
<1>15. ASSUME NEW s \in Sessions, DestroyIfEmpty(s) PROVE PendingIsWaiting'
    BY <1>15 DEF DestroyIfEmpty
<1>16. ASSUME NEW s \in Sessions, AnswerPopup(s) PROVE PendingIsWaiting'
    BY <1>16 DEF AnswerPopup, Msgs
<1>17. ASSUME NEW s \in Sessions, LeaveMeeting(s) PROVE PendingIsWaiting'
    BY <1>17 DEF LeaveMeeting, Msgs
<1>18. ASSUME NEW s \in Sessions, Disconnect(s) PROVE PendingIsWaiting'
    BY <1>18 DEF Disconnect
<1>19. CASE UNCHANGED vars
    BY <1>19 DEF vars
<1> QED
    BY <1>1, <1>2, <1>3, <1>4, <1>5, <1>6, <1>7, <1>8, <1>9, <1>10,
       <1>11, <1>12, <1>13, <1>14, <1>15, <1>16, <1>17, <1>18, <1>19
       DEF Next, Handler, Browser

LEMMA RegisteredStep == TypeOK /\ LocalsSet /\ PendingIsWaiting /\ RegisteredFirst /\ [Next]_vars => RegisteredFirst'
<1> SUFFICES ASSUME TypeOK, LocalsSet, PendingIsWaiting, RegisteredFirst, [Next]_vars PROVE RegisteredFirst'
    OBVIOUS
<1> USE NoneAssumption
        DEF TypeOK, LocalsSet, PendingIsWaiting, RegisteredFirst, PCs, Decisions, Goto, shared, locals,
            browser
<1>1. ASSUME NEW s \in Sessions, Connect(s) PROVE RegisteredFirst'
    BY <1>1 DEF Connect
<1>2. ASSUME NEW s \in Sessions, GetOrCreate(s) PROVE RegisteredFirst'
    BY <1>2 DEF GetOrCreate
<1>3. ASSUME NEW s \in Sessions, CheckEmpty(s) PROVE RegisteredFirst'
    BY <1>3 DEF CheckEmpty
<1>4. ASSUME NEW s \in Sessions, RegisterKnock(s) PROVE RegisteredFirst'
    BY <1>4 DEF RegisterKnock
<1>5. ASSUME NEW s \in Sessions, FindHost(s) PROVE RegisteredFirst'
    BY <1>5 DEF FindHost
<1>6. ASSUME NEW s \in Sessions, NotifyHost(s) PROVE RegisteredFirst'
    BY <1>6 DEF NotifyHost
<1>7. ASSUME NEW s \in Sessions, ReceiveAnswer(s) PROVE RegisteredFirst'
    BY <1>7 DEF ReceiveAnswer
<1>8. ASSUME NEW s \in Sessions, WithdrawKnock(s) PROVE RegisteredFirst'
  <2> DEFINE ch == pending[room[s]][userOf[s]]
  <2>1. room[s] \in Sessions /\ userOf[s] \in Users
    <3>1. pc[s] = "waiting"
      BY <1>8 DEF WithdrawKnock
    <3> QED
      BY <3>1, UserOfAssumption, RoomHeld
  <2>2. ch \in Sessions \cup {None}
    BY <2>1
  <2>3. ch # None =>
          /\ pc[ch] \in {"lookup", "notify", "waiting"}
          /\ admitCh[ch] = "empty"
          /\ room[ch] = room[s] /\ userOf[ch] = userOf[s]
    BY <2>1
  <2>4. /\ pending' = [pending EXCEPT ![room[s]][userOf[s]] = None]
        /\ outCh' = [outCh EXCEPT ![s] = ch]
        /\ pc' = [pc EXCEPT ![s] = IF ch = None THEN "done" ELSE "withdrawing"]
        /\ admitCh' = admitCh
    BY <1>8 DEF WithdrawKnock, TakeKnock
  <2> HIDE DEF ch
  <2> QED
    BY <1>8, <2>1, <2>2, <2>3, <2>4 DEF WithdrawKnock, ch
<1>9. ASSUME NEW s \in Sessions, SendAnswer(s) PROVE RegisteredFirst'
    BY <1>9 DEF SendAnswer
<1>10. ASSUME NEW s \in Sessions, Join(s) PROVE RegisteredFirst'
    BY <1>10 DEF Join
<1>11. ASSUME NEW s \in Sessions, HandleDecision(s) PROVE RegisteredFirst'
  <2> DEFINE u == Head(inbox[s]).userID
             ch == pending[room[s]][u]
  <2>1. room[s] \in Sessions /\ u \in Users
    <3>1. pc[s] = "call"
      BY <1>11 DEF HandleDecision
    <3> QED
      BY <1>11, <3>1, HandledUser, RoomHeld
  <2>2. ch \in Sessions \cup {None}
    BY <2>1
  <2>3. ch # None =>
          /\ pc[ch] \in {"lookup", "notify", "waiting"}
          /\ admitCh[ch] = "empty"
          /\ room[ch] = room[s] /\ userOf[ch] = u
    BY <2>1
  <2>4. /\ pending' = [pending EXCEPT ![room[s]][u] = None]
        /\ outCh' = [outCh EXCEPT ![s] = ch]
        /\ pc' = [pc EXCEPT ![s] = IF ch = None THEN "call" ELSE "answering"]
        /\ admitCh' = admitCh
        /\ pc[s] = "call"
    BY <1>11 DEF HandleDecision, TakeKnock
  <2> HIDE DEF u
  <2> QED
    BY <2>1, <2>2, <2>3, <2>4
<1>12. ASSUME NEW s \in Sessions, HandleLeave(s) PROVE RegisteredFirst'
    BY <1>12 DEF HandleLeave
<1>13. ASSUME NEW s \in Sessions, HandleClosed(s) PROVE RegisteredFirst'
    BY <1>13 DEF HandleClosed
<1>14. ASSUME NEW s \in Sessions, Leave(s) PROVE RegisteredFirst'
    BY <1>14 DEF Leave
<1>15. ASSUME NEW s \in Sessions, DestroyIfEmpty(s) PROVE RegisteredFirst'
    BY <1>15 DEF DestroyIfEmpty
<1>16. ASSUME NEW s \in Sessions, AnswerPopup(s) PROVE RegisteredFirst'
    BY <1>16 DEF AnswerPopup, Msgs
<1>17. ASSUME NEW s \in Sessions, LeaveMeeting(s) PROVE RegisteredFirst'
    BY <1>17 DEF LeaveMeeting, Msgs
<1>18. ASSUME NEW s \in Sessions, Disconnect(s) PROVE RegisteredFirst'
    BY <1>18 DEF Disconnect
<1>19. CASE UNCHANGED vars
    BY <1>19 DEF vars
<1> QED
    BY <1>1, <1>2, <1>3, <1>4, <1>5, <1>6, <1>7, <1>8, <1>9, <1>10,
       <1>11, <1>12, <1>13, <1>14, <1>15, <1>16, <1>17, <1>18, <1>19
       DEF Next, Handler, Browser

LEMMA AnswerStep == TypeOK /\ LocalsSet /\ PendingIsWaiting /\ RegisteredFirst /\ AnswerNeverBlocks /\ [Next]_vars => AnswerNeverBlocks'
<1> SUFFICES ASSUME TypeOK, LocalsSet, PendingIsWaiting, RegisteredFirst, AnswerNeverBlocks, [Next]_vars PROVE AnswerNeverBlocks'
    OBVIOUS
<1> USE NoneAssumption
        DEF TypeOK, LocalsSet, PendingIsWaiting, RegisteredFirst, AnswerNeverBlocks, PCs, Decisions, Goto, shared, locals,
            browser
<1>1. ASSUME NEW s \in Sessions, Connect(s) PROVE AnswerNeverBlocks'
    BY <1>1 DEF Connect
<1>2. ASSUME NEW s \in Sessions, GetOrCreate(s) PROVE AnswerNeverBlocks'
    BY <1>2 DEF GetOrCreate
<1>3. ASSUME NEW s \in Sessions, CheckEmpty(s) PROVE AnswerNeverBlocks'
    BY <1>3 DEF CheckEmpty
<1>4. ASSUME NEW s \in Sessions, RegisterKnock(s) PROVE AnswerNeverBlocks'
    BY <1>4 DEF RegisterKnock
<1>5. ASSUME NEW s \in Sessions, FindHost(s) PROVE AnswerNeverBlocks'
    BY <1>5 DEF FindHost
<1>6. ASSUME NEW s \in Sessions, NotifyHost(s) PROVE AnswerNeverBlocks'
    BY <1>6 DEF NotifyHost
<1>7. ASSUME NEW s \in Sessions, ReceiveAnswer(s) PROVE AnswerNeverBlocks'
    BY <1>7 DEF ReceiveAnswer
<1>8. ASSUME NEW s \in Sessions, WithdrawKnock(s) PROVE AnswerNeverBlocks'
  <2> DEFINE ch == pending[room[s]][userOf[s]]
  <2>1. room[s] \in Sessions /\ userOf[s] \in Users
    <3>1. pc[s] = "waiting"
      BY <1>8 DEF WithdrawKnock
    <3> QED
      BY <3>1, UserOfAssumption, RoomHeld
  <2>2. ch \in Sessions \cup {None}
    BY <2>1
  <2>3. ch # None =>
          /\ pc[ch] \in {"lookup", "notify", "waiting"}
          /\ admitCh[ch] = "empty"
          /\ room[ch] = room[s] /\ userOf[ch] = userOf[s]
    BY <2>1
  <2>4. /\ pending' = [pending EXCEPT ![room[s]][userOf[s]] = None]
        /\ outCh' = [outCh EXCEPT ![s] = ch]
        /\ pc' = [pc EXCEPT ![s] = IF ch = None THEN "done" ELSE "withdrawing"]
        /\ admitCh' = admitCh
    BY <1>8 DEF WithdrawKnock, TakeKnock
  <2> HIDE DEF ch
  <2> QED
    BY <1>8, <2>1, <2>2, <2>3, <2>4 DEF WithdrawKnock, ch
<1>9. ASSUME NEW s \in Sessions, SendAnswer(s) PROVE AnswerNeverBlocks'
    BY <1>9 DEF SendAnswer
<1>10. ASSUME NEW s \in Sessions, Join(s) PROVE AnswerNeverBlocks'
    BY <1>10 DEF Join
<1>11. ASSUME NEW s \in Sessions, HandleDecision(s) PROVE AnswerNeverBlocks'
  <2> DEFINE u == Head(inbox[s]).userID
             ch == pending[room[s]][u]
  <2>1. room[s] \in Sessions /\ u \in Users
    <3>1. pc[s] = "call"
      BY <1>11 DEF HandleDecision
    <3> QED
      BY <1>11, <3>1, HandledUser, RoomHeld
  <2>2. ch \in Sessions \cup {None}
    BY <2>1
  <2>3. ch # None =>
          /\ pc[ch] \in {"lookup", "notify", "waiting"}
          /\ admitCh[ch] = "empty"
          /\ room[ch] = room[s] /\ userOf[ch] = u
    BY <2>1
  <2>4. /\ pending' = [pending EXCEPT ![room[s]][u] = None]
        /\ outCh' = [outCh EXCEPT ![s] = ch]
        /\ pc' = [pc EXCEPT ![s] = IF ch = None THEN "call" ELSE "answering"]
        /\ admitCh' = admitCh
        /\ pc[s] = "call"
    BY <1>11 DEF HandleDecision, TakeKnock
  <2> HIDE DEF u
  <2> QED
    BY <2>1, <2>2, <2>3, <2>4
<1>12. ASSUME NEW s \in Sessions, HandleLeave(s) PROVE AnswerNeverBlocks'
    BY <1>12 DEF HandleLeave
<1>13. ASSUME NEW s \in Sessions, HandleClosed(s) PROVE AnswerNeverBlocks'
    BY <1>13 DEF HandleClosed
<1>14. ASSUME NEW s \in Sessions, Leave(s) PROVE AnswerNeverBlocks'
    BY <1>14 DEF Leave
<1>15. ASSUME NEW s \in Sessions, DestroyIfEmpty(s) PROVE AnswerNeverBlocks'
    BY <1>15 DEF DestroyIfEmpty
<1>16. ASSUME NEW s \in Sessions, AnswerPopup(s) PROVE AnswerNeverBlocks'
    BY <1>16 DEF AnswerPopup, Msgs
<1>17. ASSUME NEW s \in Sessions, LeaveMeeting(s) PROVE AnswerNeverBlocks'
    BY <1>17 DEF LeaveMeeting, Msgs
<1>18. ASSUME NEW s \in Sessions, Disconnect(s) PROVE AnswerNeverBlocks'
    BY <1>18 DEF Disconnect
<1>19. CASE UNCHANGED vars
    BY <1>19 DEF vars
<1> QED
    BY <1>1, <1>2, <1>3, <1>4, <1>5, <1>6, <1>7, <1>8, <1>9, <1>10,
       <1>11, <1>12, <1>13, <1>14, <1>15, <1>16, <1>17, <1>18, <1>19
       DEF Next, Handler, Browser

LEMMA GhostStep == TypeOK /\ LocalsSet /\ NoGhostPeer /\ [Next]_vars => NoGhostPeer'
<1> SUFFICES ASSUME TypeOK, LocalsSet, NoGhostPeer, [Next]_vars PROVE NoGhostPeer'
    OBVIOUS
<1> USE UserOfAssumption, NoneAssumption
        DEF TypeOK, LocalsSet, NoGhostPeer, PCs, Decisions, Goto, shared, locals,
            browser
<1>1. ASSUME NEW s \in Sessions, Connect(s) PROVE NoGhostPeer'
    BY <1>1 DEF Connect
<1>2. ASSUME NEW s \in Sessions, GetOrCreate(s) PROVE NoGhostPeer'
    BY <1>2 DEF GetOrCreate
<1>3. ASSUME NEW s \in Sessions, CheckEmpty(s) PROVE NoGhostPeer'
    BY <1>3 DEF CheckEmpty
<1>4. ASSUME NEW s \in Sessions, RegisterKnock(s) PROVE NoGhostPeer'
    BY <1>4 DEF RegisterKnock
<1>5. ASSUME NEW s \in Sessions, FindHost(s) PROVE NoGhostPeer'
    BY <1>5 DEF FindHost
<1>6. ASSUME NEW s \in Sessions, NotifyHost(s) PROVE NoGhostPeer'
    BY <1>6 DEF NotifyHost
<1>7. ASSUME NEW s \in Sessions, ReceiveAnswer(s) PROVE NoGhostPeer'
    BY <1>7 DEF ReceiveAnswer
<1>8. ASSUME NEW s \in Sessions, WithdrawKnock(s) PROVE NoGhostPeer'
    BY <1>8 DEF WithdrawKnock, TakeKnock
<1>9. ASSUME NEW s \in Sessions, SendAnswer(s) PROVE NoGhostPeer'
    BY <1>9 DEF SendAnswer
<1>10. ASSUME NEW s \in Sessions, Join(s) PROVE NoGhostPeer'
    BY <1>10 DEF Join
<1>11. ASSUME NEW s \in Sessions, HandleDecision(s) PROVE NoGhostPeer'
    BY <1>11 DEF HandleDecision, TakeKnock, Msgs
<1>12. ASSUME NEW s \in Sessions, HandleLeave(s) PROVE NoGhostPeer'
    BY <1>12 DEF HandleLeave
<1>13. ASSUME NEW s \in Sessions, HandleClosed(s) PROVE NoGhostPeer'
    BY <1>13 DEF HandleClosed
<1>14. ASSUME NEW s \in Sessions, Leave(s) PROVE NoGhostPeer'
    BY <1>14 DEF Leave
<1>15. ASSUME NEW s \in Sessions, DestroyIfEmpty(s) PROVE NoGhostPeer'
    BY <1>15 DEF DestroyIfEmpty
<1>16. ASSUME NEW s \in Sessions, AnswerPopup(s) PROVE NoGhostPeer'
    BY <1>16 DEF AnswerPopup, Msgs
<1>17. ASSUME NEW s \in Sessions, LeaveMeeting(s) PROVE NoGhostPeer'
    BY <1>17 DEF LeaveMeeting, Msgs
<1>18. ASSUME NEW s \in Sessions, Disconnect(s) PROVE NoGhostPeer'
    BY <1>18 DEF Disconnect
<1>19. CASE UNCHANGED vars
    BY <1>19 DEF vars
<1> QED
    BY <1>1, <1>2, <1>3, <1>4, <1>5, <1>6, <1>7, <1>8, <1>9, <1>10,
       <1>11, <1>12, <1>13, <1>14, <1>15, <1>16, <1>17, <1>18, <1>19
       DEF Next, Handler, Browser

-----------------------------------------------------------------------------
(* Rooms.                                                                  *)

\* A step that moves one handler, which was not Responsible, and touches
\* neither the registry nor a room keeps every Responsible connection.
LEMMA LeakFrame ==
    ASSUME TypeOK, NoRoomLeak, NEW s \in Sessions,
           \/ pc' = pc
           \/ /\ pc[s] \notin {"check", "admitted", "destroy"}
              /\ \E label \in PCs : pc' = [pc EXCEPT ![s] = label],
           registry' = registry, peers' = peers, room' = room
    PROVE  NoRoomLeak'
<1> USE DEF NoRoomLeak, IsEmpty
<1> SUFFICES ASSUME NEW m \in Meets, registry[m] # None, IsEmpty(registry[m])
             PROVE  \E t \in Sessions : Responsible(t, registry[m], m)'
    OBVIOUS
<1>1. PICK t \in Sessions : Responsible(t, registry[m], m)
    OBVIOUS
<1>2. pc'[t] = pc[t]
    BY <1>1 DEF Responsible, TypeOK
<1> QED
    BY <1>1, <1>2 DEF Responsible

LEMMA LeakStep ==
    TypeOK /\ LocalsSet /\ RoomOfMeet /\ NoRoomLeak /\ [Next]_vars => NoRoomLeak'
<1> SUFFICES ASSUME TypeOK, LocalsSet, RoomOfMeet, NoRoomLeak, [Next]_vars
             PROVE  NoRoomLeak'
    OBVIOUS
<1> USE DEF Goto, PCs, shared, locals, browser
<1>1. ASSUME NEW s \in Sessions, Connect(s) PROVE NoRoomLeak'
    BY <1>1, LeakFrame DEF Connect
<1>2. ASSUME NEW s \in Sessions, GetOrCreate(s) PROVE NoRoomLeak'
  <2> SUFFICES ASSUME NEW m \in Meets, registry'[m] # None,
                      IsEmpty(registry[m])'
               PROVE  \E t \in Sessions : Responsible(t, registry[m], m)'
    BY DEF NoRoomLeak
  <2>1. /\ pc' = [pc EXCEPT ![s] = "check"]
        /\ peers' = peers
        /\ \A t \in Sessions \ {s} : room'[t] = room[t]
        /\ pc[s] = "enter"
    BY <1>2 DEF GetOrCreate, TypeOK
  <2>2. CASE registry'[m] = registry[m]
    <3>1. PICK t \in Sessions : Responsible(t, registry[m], m)
      BY <2>1, <2>2 DEF NoRoomLeak, IsEmpty
    <3>2. t # s /\ pc'[t] = pc[t] /\ room'[t] = room[t]
      BY <2>1, <3>1 DEF Responsible, TypeOK
    <3> QED
      BY <2>2, <3>1, <3>2 DEF Responsible
  <2>3. CASE registry'[m] # registry[m]
    <3>1. registry'[m] = s /\ room'[s] = s /\ pc'[s] = "check"
      BY <1>2, <2>3 DEF GetOrCreate, TypeOK
    <3> QED
      BY <3>1 DEF Responsible
  <2> QED
    BY <2>2, <2>3
<1>3. ASSUME NEW s \in Sessions, CheckEmpty(s) PROVE NoRoomLeak'
  <2> SUFFICES ASSUME NEW m \in Meets, registry[m] # None,
                      IsEmpty(registry[m])
               PROVE  \E t \in Sessions : Responsible(t, registry[m], m)'
    BY <1>3 DEF NoRoomLeak, CheckEmpty, IsEmpty
  <2>1. PICK t \in Sessions : Responsible(t, registry[m], m)
    BY DEF NoRoomLeak
  <2>2. CASE t = s
    <3>1. /\ room[s] = registry[m] /\ pc'[s] = "admitted"
          /\ room' = room /\ registry' = registry
      BY <1>3, <2>1, <2>2 DEF CheckEmpty, Responsible, TypeOK
    <3> QED
      BY <3>1 DEF Responsible
  <2>3. CASE t # s
    <3>1. pc'[t] = pc[t] /\ room' = room /\ registry' = registry
      BY <1>3, <2>3 DEF CheckEmpty, TypeOK
    <3> QED
      BY <2>1, <3>1 DEF Responsible
  <2> QED
    BY <2>2, <2>3
<1>4. ASSUME NEW s \in Sessions, RegisterKnock(s) PROVE NoRoomLeak'
    BY <1>4, LeakFrame DEF RegisterKnock
<1>5. ASSUME NEW s \in Sessions, FindHost(s) PROVE NoRoomLeak'
    BY <1>5, LeakFrame DEF FindHost
<1>6. ASSUME NEW s \in Sessions, NotifyHost(s) PROVE NoRoomLeak'
    BY <1>6, LeakFrame DEF NotifyHost
<1>7. ASSUME NEW s \in Sessions, ReceiveAnswer(s) PROVE NoRoomLeak'
    BY <1>7, LeakFrame DEF ReceiveAnswer
<1>8. ASSUME NEW s \in Sessions, WithdrawKnock(s) PROVE NoRoomLeak'
    BY <1>8, LeakFrame DEF WithdrawKnock, TakeKnock
<1>9. ASSUME NEW s \in Sessions, SendAnswer(s) PROVE NoRoomLeak'
    BY <1>9, LeakFrame DEF SendAnswer
<1>10. ASSUME NEW s \in Sessions, Join(s) PROVE NoRoomLeak'
  <2> SUFFICES ASSUME NEW m \in Meets, registry[m] # None,
                      IsEmpty(registry[m])'
               PROVE  \E t \in Sessions : Responsible(t, registry[m], m)'
    BY <1>10 DEF NoRoomLeak, Join, IsEmpty
  <2>1. room[s] \in Sessions /\ userOf[s] \in Users
    BY <1>10, RoomHeld, UserOfAssumption DEF Join
  <2>2. peers'[room[s]][userOf[s]] = s
    BY <1>10, <2>1 DEF Join, TypeOK
  <2>3. registry[m] # room[s]
    BY <1>10, <2>1, <2>2, NoneAssumption DEF Join, IsEmpty
  <2>4. IsEmpty(registry[m])
    BY <1>10, <2>1, <2>3 DEF Join, IsEmpty, TypeOK
  <2>5. PICK t \in Sessions : Responsible(t, registry[m], m)
    BY <2>4 DEF NoRoomLeak
  <2>6. t # s
    BY <1>10, <2>3, <2>5 DEF Join, Responsible
  <2>7. pc'[t] = pc[t] /\ room' = room /\ registry' = registry
    BY <1>10, <2>6 DEF Join, TypeOK
  <2> QED
    BY <2>5, <2>7 DEF Responsible
<1>11. ASSUME NEW s \in Sessions, HandleDecision(s) PROVE NoRoomLeak'
    BY <1>11, LeakFrame DEF HandleDecision, TakeKnock
<1>12. ASSUME NEW s \in Sessions, HandleLeave(s) PROVE NoRoomLeak'
    BY <1>12, LeakFrame DEF HandleLeave
<1>13. ASSUME NEW s \in Sessions, HandleClosed(s) PROVE NoRoomLeak'
    BY <1>13, LeakFrame DEF HandleClosed
<1>14. ASSUME NEW s \in Sessions, Leave(s) PROVE NoRoomLeak'
  <2> SUFFICES ASSUME NEW m \in Meets, registry[m] # None,
                      IsEmpty(registry[m])'
               PROVE  \E t \in Sessions : Responsible(t, registry[m], m)'
    BY <1>14 DEF NoRoomLeak, Leave, IsEmpty
  <2>1. room[s] \in Sessions /\ userOf[s] \in Users
    BY <1>14, RoomHeld, UserOfAssumption DEF Leave
  <2>2. CASE registry[m] = room[s]
    <3>1. \A u \in Users \ {userOf[s]} : peers[room[s]][u] = None
      BY <1>14, <2>1, <2>2 DEF Leave, IsEmpty, TypeOK
    <3>2. pc'[s] = "destroy"
      BY <1>14, <3>1 DEF Leave, TypeOK
    <3>3. meetOf[s] = m
      BY <2>1, <2>2, NoneAssumption DEF RoomOfMeet
    <3> QED
      BY <3>2, <3>3 DEF Responsible
  <2>3. CASE registry[m] # room[s]
    <3>1. IsEmpty(registry[m])
      BY <1>14, <2>1, <2>3 DEF Leave, IsEmpty, TypeOK
    <3>2. PICK t \in Sessions : Responsible(t, registry[m], m)
      BY <3>1 DEF NoRoomLeak
    <3>3. pc'[t] = pc[t] /\ room' = room /\ registry' = registry
      BY <1>14, <3>2 DEF Leave, Responsible, TypeOK
    <3> QED
      BY <3>2, <3>3 DEF Responsible
  <2> QED
    BY <2>2, <2>3
<1>15. ASSUME NEW s \in Sessions, DestroyIfEmpty(s) PROVE NoRoomLeak'
  <2> SUFFICES ASSUME NEW m \in Meets, registry'[m] # None,
                      IsEmpty(registry[m])'
               PROVE  \E t \in Sessions : Responsible(t, registry[m], m)'
    BY DEF NoRoomLeak
  <2>1. registry'[m] = registry[m] /\ peers' = peers /\ room' = room
    BY <1>15 DEF DestroyIfEmpty, TypeOK
  <2>2. meetOf[s] # m
    BY <1>15, <2>1, MeetOfAssumption DEF DestroyIfEmpty, IsEmpty, TypeOK
  <2>3. PICK t \in Sessions : Responsible(t, registry[m], m)
    BY <2>1 DEF NoRoomLeak, IsEmpty
  <2>4. t # s
    BY <1>15, <2>2, <2>3 DEF DestroyIfEmpty, Responsible
  <2>5. pc'[t] = pc[t]
    BY <1>15, <2>4 DEF DestroyIfEmpty, TypeOK
  <2> QED
    BY <2>1, <2>3, <2>5 DEF Responsible
<1>16. ASSUME NEW s \in Sessions, AnswerPopup(s) PROVE NoRoomLeak'
    BY <1>16, LeakFrame DEF AnswerPopup
<1>17. ASSUME NEW s \in Sessions, LeaveMeeting(s) PROVE NoRoomLeak'
    BY <1>17, LeakFrame DEF LeaveMeeting
<1>18. ASSUME NEW s \in Sessions, Disconnect(s) PROVE NoRoomLeak'
    BY <1>18, LeakFrame DEF Disconnect
<1>19. CASE UNCHANGED vars
    BY <1>19 DEF vars, NoRoomLeak, IsEmpty, Responsible
<1> QED
    BY <1>1, <1>2, <1>3, <1>4, <1>5, <1>6, <1>7, <1>8, <1>9, <1>10,
       <1>11, <1>12, <1>13, <1>14, <1>15, <1>16, <1>17, <1>18, <1>19
       DEF Next, Handler, Browser

-----------------------------------------------------------------------------
(* Knocks.                                                                 *)

\* A room is held for good, and a twin that has knocked, or joined, stays one.
LEMMA TwinStays ==
    ASSUME TypeOK, LocalsSet, [Next]_vars, NEW s \in Sessions,
           pc[s] \notin {"idle", "enter", "done"}, NEW t \in Sessions, Twin(s, t)
    PROVE  /\ HasKnocked(t) => (Twin(s, t) /\ HasKnocked(t))'
           /\ HasJoined(t) => (Twin(s, t) /\ HasJoined(t))'
<1> USE NoneAssumption
        DEF TypeOK, LocalsSet, PCs, Decisions, Goto, Twin, HasKnocked, HasJoined,
            shared, locals, browser
<1> DEFINE Kept == /\ HasKnocked(t) => (Twin(s, t) /\ HasKnocked(t))'
                   /\ HasJoined(t) => (Twin(s, t) /\ HasJoined(t))'
<1>1. ASSUME NEW q \in Sessions, Connect(q) PROVE Kept
    BY <1>1 DEF Connect
<1>2. ASSUME NEW q \in Sessions, GetOrCreate(q) PROVE Kept
    BY <1>2 DEF GetOrCreate
<1>3. ASSUME NEW q \in Sessions,
             CheckEmpty(q) \/ RegisterKnock(q) \/ FindHost(q) \/ NotifyHost(q)
      PROVE  Kept
    BY <1>3 DEF CheckEmpty, RegisterKnock, FindHost, NotifyHost
<1>4. ASSUME NEW q \in Sessions, ReceiveAnswer(q) \/ SendAnswer(q) PROVE Kept
    BY <1>4 DEF ReceiveAnswer, SendAnswer
<1>5. ASSUME NEW q \in Sessions, WithdrawKnock(q) PROVE Kept
    BY <1>5 DEF WithdrawKnock, TakeKnock
<1>6. ASSUME NEW q \in Sessions, HandleDecision(q) PROVE Kept
    BY <1>6 DEF HandleDecision, TakeKnock
<1>7. ASSUME NEW q \in Sessions,
             Join(q) \/ HandleLeave(q) \/ HandleClosed(q) \/ Leave(q)
                \/ DestroyIfEmpty(q)
      PROVE  Kept
    BY <1>7 DEF Join, HandleLeave, HandleClosed, Leave, DestroyIfEmpty
<1>8. ASSUME NEW q \in Sessions,
             AnswerPopup(q) \/ LeaveMeeting(q) \/ Disconnect(q)
      PROVE  Kept
    BY <1>8 DEF AnswerPopup, LeaveMeeting, Disconnect
<1>9. CASE UNCHANGED vars
    BY <1>9 DEF vars
<1> QED
    BY <1>1, <1>2, <1>3, <1>4, <1>5, <1>6, <1>7, <1>8, <1>9
    DEF Next, Handler, Browser

LEMMA LostStep == TypeOK /\ LocalsSet /\ KnockNotLost /\ [Next]_vars => KnockNotLost'
<1> DEFINE Safe(t) == \/ pending[room[t]][userOf[t]] = t
                      \/ \E h \in Sessions : outCh[h] = t
                      \/ admitCh[t] # "empty"
           Knocks(t) == pc[t] \in {"lookup", "notify", "waiting"}
<1> SUFFICES ASSUME TypeOK, LocalsSet, KnockNotLost, [Next]_vars,
                    NEW t \in Sessions, Knocks(t)',
                    \A o \in Sessions : ~(Twin(t, o) /\ HasKnocked(o))'
             PROVE  Safe(t)'
    BY DEF KnockNotLost
<1> USE UserOfAssumption, NoneAssumption
        DEF TypeOK, LocalsSet, PCs, Decisions, Goto, shared, locals, browser
<1>1. ASSUME NEW s \in Sessions, RegisterKnock(s), s = t PROVE Safe(t)'
  <2>1. room[t] \in Sessions /\ userOf[t] \in Users
    BY <1>1, RoomHeld DEF RegisterKnock
  <2> QED
    BY <1>1, <2>1 DEF RegisterKnock
<1>2. CASE Knocks(t)
  <2>1. /\ Safe(t)
        /\ \A o \in Sessions : ~(Twin(t, o) /\ HasKnocked(o))
    BY <1>2, TwinStays DEF KnockNotLost
  <2>2. room[t] \in Sessions /\ userOf[t] \in Users
    BY <1>2, RoomHeld
  <2>3. ASSUME NEW s \in Sessions, RegisterKnock(s) PROVE Safe(t)'
    <3>1. room[s] \in Sessions /\ userOf[s] \in Users /\ s # t
      BY <1>2, <2>3, RoomHeld DEF RegisterKnock
    <3>2. (Twin(t, s) /\ HasKnocked(s))' <=> Twin(t, s)
      BY <2>3 DEF RegisterKnock, Twin, HasKnocked
    <3>3. room[s] # room[t] \/ userOf[s] # userOf[t]
      BY <3>1, <3>2 DEF Twin
    <3>4. pending'[room[t]][userOf[t]] = pending[room[t]][userOf[t]]
      BY <2>2, <2>3, <3>1, <3>3 DEF RegisterKnock
    <3> QED
      BY <2>1, <2>3, <3>4 DEF RegisterKnock
  <2>4. ASSUME NEW s \in Sessions, WithdrawKnock(s) PROVE Safe(t)'
    <3>1. room[s] \in Sessions /\ userOf[s] \in Users /\ s # t
      BY <2>4, RoomHeld DEF WithdrawKnock, TakeKnock
    <3>2. room[s] # room[t] \/ userOf[s] # userOf[t]
      BY <2>1, <2>4, <3>1 DEF WithdrawKnock, Twin, HasKnocked
    <3>3. pending'[room[t]][userOf[t]] = pending[room[t]][userOf[t]]
      BY <2>2, <2>4, <3>1, <3>2 DEF WithdrawKnock, TakeKnock
    <3>4. ASSUME NEW h \in Sessions, outCh[h] = t PROVE outCh'[h] = t
      BY <2>4, <3>4 DEF WithdrawKnock, TakeKnock
    <3>5. room' = room /\ admitCh' = admitCh
      BY <2>4 DEF WithdrawKnock
    <3> QED
      BY <2>1, <3>3, <3>4, <3>5
  <2>5. ASSUME NEW s \in Sessions, HandleDecision(s) PROVE Safe(t)'
    BY <1>2, <2>1, <2>2, <2>5 DEF HandleDecision, TakeKnock, Msgs
  <2>6. ASSUME NEW s \in Sessions, Connect(s) \/ CheckEmpty(s) \/ FindHost(s)
                                      \/ NotifyHost(s)
        PROVE  Safe(t)'
    BY <2>1, <2>6 DEF Connect, CheckEmpty, FindHost, NotifyHost
  <2>7. ASSUME NEW s \in Sessions, GetOrCreate(s) PROVE Safe(t)'
    BY <1>2, <2>1, <2>7 DEF GetOrCreate
  <2>8. ASSUME NEW s \in Sessions, ReceiveAnswer(s) PROVE Safe(t)'
    BY <1>2, <2>1, <2>8 DEF ReceiveAnswer
  <2>9. ASSUME NEW s \in Sessions, SendAnswer(s) PROVE Safe(t)'
    BY <2>1, <2>9 DEF SendAnswer
  <2>10. ASSUME NEW s \in Sessions, Join(s) \/ HandleLeave(s) \/ HandleClosed(s)
                                       \/ Leave(s) \/ DestroyIfEmpty(s)
         PROVE  Safe(t)'
    BY <2>1, <2>10 DEF Join, HandleLeave, HandleClosed, Leave, DestroyIfEmpty
  <2>11. ASSUME NEW s \in Sessions, AnswerPopup(s) \/ LeaveMeeting(s)
                                       \/ Disconnect(s)
         PROVE  Safe(t)'
    BY <2>1, <2>11 DEF AnswerPopup, LeaveMeeting, Disconnect
  <2>12. CASE UNCHANGED vars
    BY <2>1, <2>12 DEF vars
  <2> QED
    BY <2>3, <2>4, <2>5, <2>6, <2>7, <2>8, <2>9, <2>10, <2>11, <2>12
    DEF Next, Handler, Browser
<1>3. CASE ~Knocks(t)
  <2>1. ASSUME NEW s \in Sessions,
               \/ AnswerPopup(s) \/ LeaveMeeting(s) \/ Disconnect(s)
        PROVE  FALSE
    BY <1>3, <2>1 DEF AnswerPopup, LeaveMeeting, Disconnect
  <2>2. ASSUME NEW s \in Sessions,
               \/ Connect(s) \/ GetOrCreate(s) \/ CheckEmpty(s)
               \/ FindHost(s) \/ NotifyHost(s)
        PROVE  FALSE
    BY <1>3, <2>2 DEF Connect, GetOrCreate, CheckEmpty, FindHost, NotifyHost
  <2>3. ASSUME NEW s \in Sessions, WithdrawKnock(s) \/ HandleDecision(s)
        PROVE  FALSE
    BY <1>3, <2>3 DEF WithdrawKnock, HandleDecision, TakeKnock
  <2>4. ASSUME NEW s \in Sessions,
               \/ ReceiveAnswer(s) \/ SendAnswer(s) \/ HandleLeave(s)
               \/ HandleClosed(s) \/ Join(s) \/ Leave(s) \/ DestroyIfEmpty(s)
        PROVE  FALSE
    BY <1>3, <2>4 DEF ReceiveAnswer, SendAnswer, HandleLeave, HandleClosed,
                      Join, Leave, DestroyIfEmpty
  <2>5. ASSUME NEW s \in Sessions, RegisterKnock(s) PROVE s = t
    BY <1>3, <2>5 DEF RegisterKnock
  <2>6. CASE UNCHANGED vars
    BY <1>3, <2>6 DEF vars
  <2> QED
    BY <1>1, <2>1, <2>2, <2>3, <2>4, <2>5, <2>6 DEF Next, Handler, Browser
<1> QED
    BY <1>2, <1>3

-----------------------------------------------------------------------------
(* Members.                                                                *)

LEMMA ListedStep == TypeOK /\ LocalsSet /\ MemberListed /\ [Next]_vars => MemberListed'
<1> DEFINE Listed(t) == peers[room[t]][userOf[t]] = t
           InCall(t) == pc[t] \in {"call", "answering"}
<1> SUFFICES ASSUME TypeOK, LocalsSet, MemberListed, [Next]_vars,
                    NEW t \in Sessions, InCall(t)',
                    \A o \in Sessions : ~(Twin(t, o) /\ HasJoined(o))'
             PROVE  Listed(t)'
    BY DEF MemberListed
<1> USE UserOfAssumption
        DEF TypeOK, LocalsSet, PCs, Goto, shared, locals, browser
<1>1. ASSUME NEW s \in Sessions, Join(s), s = t PROVE Listed(t)'
  <2>1. room[t] \in Sessions /\ userOf[t] \in Users
    BY <1>1, RoomHeld DEF Join
  <2> QED
    BY <1>1, <2>1 DEF Join
<1>2. CASE InCall(t)
  <2>1. /\ Listed(t)
        /\ \A o \in Sessions : ~(Twin(t, o) /\ HasJoined(o))
    BY <1>2, TwinStays DEF MemberListed
  <2>2. room[t] \in Sessions /\ userOf[t] \in Users
    BY <1>2, RoomHeld
  <2>3. ASSUME NEW s \in Sessions, Join(s) PROVE Listed(t)'
    <3>1. room[s] \in Sessions /\ userOf[s] \in Users /\ s # t
      BY <1>2, <2>3, RoomHeld DEF Join
    <3>2. (Twin(t, s) /\ HasJoined(s))' <=> Twin(t, s)
      BY <2>3 DEF Join, Twin, HasJoined
    <3>3. room[s] # room[t] \/ userOf[s] # userOf[t]
      BY <3>1, <3>2 DEF Twin
    <3>4. peers'[room[t]][userOf[t]] = peers[room[t]][userOf[t]]
      BY <2>2, <2>3, <3>1, <3>3 DEF Join
    <3> QED
      BY <2>1, <2>3, <3>4 DEF Join
  <2>4. ASSUME NEW s \in Sessions, Leave(s) PROVE Listed(t)'
    <3>1. room[s] \in Sessions /\ userOf[s] \in Users /\ s # t
      BY <1>2, <2>4, RoomHeld DEF Leave
    <3>2. room[s] # room[t] \/ userOf[s] # userOf[t]
      BY <2>1, <2>4, <3>1 DEF Leave, Twin, HasJoined
    <3>3. peers'[room[t]][userOf[t]] = peers[room[t]][userOf[t]]
      BY <2>2, <2>4, <3>1, <3>2 DEF Leave
    <3> QED
      BY <2>1, <2>4, <3>3 DEF Leave
  <2>5. ASSUME NEW s \in Sessions, GetOrCreate(s) PROVE Listed(t)'
    BY <1>2, <2>1, <2>5 DEF GetOrCreate
  <2>6. ASSUME NEW s \in Sessions,
               \/ Connect(s) \/ CheckEmpty(s) \/ RegisterKnock(s) \/ FindHost(s)
               \/ NotifyHost(s) \/ ReceiveAnswer(s) \/ WithdrawKnock(s)
               \/ SendAnswer(s) \/ HandleDecision(s) \/ HandleLeave(s)
               \/ HandleClosed(s) \/ DestroyIfEmpty(s) \/ AnswerPopup(s)
               \/ LeaveMeeting(s) \/ Disconnect(s)
        PROVE  Listed(t)'
    <3>1. room' = room /\ peers' = peers
      BY <2>6
      DEF Connect, CheckEmpty, RegisterKnock, FindHost, NotifyHost,
          ReceiveAnswer, WithdrawKnock, SendAnswer, HandleDecision, HandleLeave,
          HandleClosed, DestroyIfEmpty, AnswerPopup, LeaveMeeting, Disconnect
    <3> QED
      BY <2>1, <3>1
  <2>7. CASE UNCHANGED vars
    BY <2>1, <2>7 DEF vars
  <2> QED
    BY <2>3, <2>4, <2>5, <2>6, <2>7 DEF Next, Handler, Browser
<1>3. CASE ~InCall(t)
  <2>1. ASSUME NEW s \in Sessions,
               \/ AnswerPopup(s) \/ LeaveMeeting(s) \/ Disconnect(s)
        PROVE  FALSE
    BY <1>3, <2>1 DEF AnswerPopup, LeaveMeeting, Disconnect
  <2>2. ASSUME NEW s \in Sessions,
               \/ Connect(s) \/ GetOrCreate(s) \/ CheckEmpty(s)
               \/ RegisterKnock(s) \/ FindHost(s) \/ NotifyHost(s)
        PROVE  FALSE
    BY <1>3, <2>2 DEF Connect, GetOrCreate, CheckEmpty, RegisterKnock, FindHost,
                      NotifyHost
  <2>3. ASSUME NEW s \in Sessions, WithdrawKnock(s) \/ HandleDecision(s)
        PROVE  FALSE
    BY <1>3, <2>3 DEF WithdrawKnock, HandleDecision, TakeKnock
  <2>4. ASSUME NEW s \in Sessions,
               \/ ReceiveAnswer(s) \/ SendAnswer(s) \/ HandleLeave(s)
               \/ HandleClosed(s) \/ Leave(s) \/ DestroyIfEmpty(s)
        PROVE  FALSE
    BY <1>3, <2>4 DEF ReceiveAnswer, SendAnswer, HandleLeave, HandleClosed,
                      Leave, DestroyIfEmpty
  <2>5. ASSUME NEW s \in Sessions, Join(s) PROVE s = t
    BY <1>3, <2>5 DEF Join
  <2>6. CASE UNCHANGED vars
    BY <1>3, <2>6 DEF vars
  <2> QED
    BY <1>1, <2>1, <2>2, <2>3, <2>4, <2>5, <2>6 DEF Next, Handler, Browser
<1> QED
    BY <1>2, <1>3

\* Every action of HandleSFU and of the page keeps IInv: the step from which all
\* the theorems below follow.
LEMMA InvInit == Init => IInv
<1> SUFFICES ASSUME Init PROVE IInv
    OBVIOUS
<1>1. TypeOK /\ LocalsSet
    BY TypeInit
<1>2. RoomOfMeet /\ NoRoomLeak
    BY DEF Init, RoomOfMeet, NoRoomLeak
<1>3. PendingIsWaiting /\ NoGhostPeer
    BY DEF Init, PendingIsWaiting, NoGhostPeer
<1>4. RegisteredFirst /\ AnswerNeverBlocks /\ KnockNotLost /\ MemberListed
    BY NoneAssumption
       DEF Init, RegisteredFirst, AnswerNeverBlocks, KnockNotLost, MemberListed
<1> QED
    BY <1>1, <1>2, <1>3, <1>4 DEF IInv

LEMMA InvStep == IInv /\ [Next]_vars => IInv'
BY TypeStep, LocalsStep, RoomStep, PendingStep, RegisteredStep, AnswerStep,
   GhostStep, LeakStep, LostStep, ListedStep DEF IInv

\* IInv, the conjunction of the type invariant, of what the locals and the maps of
\* HandleSFU and Room have to do with each other and of the four safety
\* invariants, holds in every reachable state: no part is inductive alone.
THEOREM Inductive == Spec => []IInv
BY InvInit, InvStep, PTL DEF Spec

\* Every variable of the admission protocol keeps its type: the handlers never use
\* a room, a host or a channel they do not have (handlers/sfu.go:95-140).
THEOREM TypeCorrect == Spec => []TypeOK
<1>1. IInv => TypeOK
    BY DEF IInv
<1> QED
    BY Inductive, <1>1, PTL

\* A knock channel is sent on at most once, with room in its buffer, by one
\* handler: AdmitKnocker and DenyKnocker never block (sfu/room.go:78-97).
THEOREM AnswersNeverBlock == Spec => []AnswerNeverBlocks
<1>1. IInv => AnswerNeverBlocks
    BY DEF IInv
<1> QED
    BY Inductive, <1>1, PTL

\* An empty room that stays registered has a connection about to join it or to
\* destroy it (sfu/manager.go:36-51, sfu/room.go:163-187).
THEOREM RoomsNeverLeak == Spec => []NoRoomLeak
<1>1. IInv => NoRoomLeak
    BY DEF IInv
<1> QED
    BY Inductive, <1>1, PTL

\* A peer in a room has a live handler, in that room, that will call Leave
\* (handlers/sfu.go:130-134).
THEOREM GhostsNeverStay == Spec => []NoGhostPeer
<1>1. IInv => NoGhostPeer
    BY DEF IInv
<1> QED
    BY Inductive, <1>1, PTL

\* A waiting knock can always still be answered or has been, unless a twin has
\* knocked too (sfu/room.go:53-97).
THEOREM KnocksNeverLost == Spec => []KnockNotLost
<1>1. IInv => KnockNotLost
    BY DEF IInv
<1> QED
    BY Inductive, <1>1, PTL

\* A member of the call is in the room's list until its own Leave, unless a twin
\* has been in the room (sfu/room.go:40-49, 163-187).
THEOREM MembersListed == Spec => []MemberListed
<1>1. IInv => MemberListed
    BY DEF IInv
<1> QED
    BY Inductive, <1>1, PTL

-----------------------------------------------------------------------------
(* SfuRoom implements KnockGate.                                           *)

\* A connection's ticket is decided by where its handler is and by the answer
\* that is on its way to it.
LEMMA TicketSame ==
    ASSUME NEW t \in Sessions, pc'[t] = pc[t],
           \A d \in Decisions : AnswerTo(t, d)' <=> AnswerTo(t, d)
    PROVE  Ticket(t)' = Ticket(t)
<1> HIDE DEF AnswerTo
<1> QED
    BY DEF Ticket, Decisions

\* What one connection may do to its own ticket.
LEMMA GateMove ==
    ASSUME NEW s \in Sessions,
           \A t \in Sessions \ {s} : Ticket(t)' = Ticket(t),
           \/ Ticket(s)' = Ticket(s)
           \/ Ticket(s)' = "gone"
           \/ Ticket(s) = "outside" /\ Ticket(s)' = "inside"
           \/ /\ Ticket(s) = "outside" /\ Ticket(s)' = "asking"
              /\ \E h \in Sessions : Ticket(h) = "inside" /\ meetOf[h] = meetOf[s]
           \/ Ticket(s) = "yes" /\ Ticket(s)' = "inside"
    PROVE  [Gate!Next]_ticketBar
<1>1. ticketBar' = [ticketBar EXCEPT ![s] = Ticket(s)']
    BY DEF ticketBar
<1>2. ticketBar[s] = Ticket(s)
    BY DEF ticketBar
<1>3. Ticket(s) \in Gate!Tickets
    BY DEF Ticket, Gate!Tickets
<1>4. CASE Ticket(s)' = Ticket(s)
    BY <1>1, <1>2, <1>4 DEF ticketBar
<1>5. CASE Ticket(s) # "gone" /\ Ticket(s)' = "gone"
    BY <1>1, <1>2, <1>3, <1>5 DEF Gate!Next, Gate!Quit, Gate!Move
<1>6. CASE /\ Ticket(s) = "outside" /\ Ticket(s)' = "asking"
           /\ \E h \in Sessions : Ticket(h) = "inside" /\ meetOf[h] = meetOf[s]
  <2>1. \E h \in Sessions : ticketBar[h] = "inside" /\ meetOf[h] = meetOf[s]
    BY <1>6 DEF ticketBar
  <2> QED
    BY <1>1, <1>2, <1>6, <2>1 DEF Gate!Next, Gate!Ask, Gate!Move
<1>7. CASE Ticket(s) = "outside" /\ Ticket(s)' = "inside"
    BY <1>1, <1>2, <1>7 DEF Gate!Next, Gate!WalkIn, Gate!Move
<1>8. CASE Ticket(s) = "yes" /\ Ticket(s)' = "inside"
    BY <1>1, <1>2, <1>8 DEF Gate!Next, Gate!Enter, Gate!Move
<1> QED
    BY <1>4, <1>5, <1>6, <1>7, <1>8

\* A step that gives no answer changes the ticket of its own connection only.
LEMMA OthersSame ==
    ASSUME TypeOK, NEW s \in Sessions, NEW label,
           pc' = [pc EXCEPT ![s] = label], UNCHANGED <<admitCh, outCh, outVal>>
    PROVE  /\ \A t \in Sessions \ {s} : Ticket(t)' = Ticket(t)
           /\ \A d \in Decisions : AnswerTo(s, d)' <=> AnswerTo(s, d)
<1>1. \A t \in Sessions, d \in Decisions : AnswerTo(t, d)' <=> AnswerTo(t, d)
    BY DEF AnswerTo
<1>2. \A t \in Sessions \ {s} : pc'[t] = pc[t]
    BY DEF TypeOK
<1> QED
    BY <1>1, <1>2, TicketSame

\* Steps that give no answer.
LEMMA PlainStep ==
    ASSUME IInv, NEW s \in Sessions,
           \/ Connect(s) \/ GetOrCreate(s) \/ CheckEmpty(s) \/ RegisterKnock(s)
           \/ FindHost(s) \/ NotifyHost(s) \/ Join(s) \/ HandleLeave(s)
           \/ HandleClosed(s) \/ Leave(s) \/ DestroyIfEmpty(s)
    PROVE  [Gate!Next]_ticketBar
<1> USE DEF Goto, IInv
<1>1. PICK label \in PCs :
            /\ pc' = [pc EXCEPT ![s] = label]
            /\ UNCHANGED <<admitCh, outCh, outVal>>
            /\ \/ pc[s] = "idle" /\ label \in {"enter", "done"}
               \/ pc[s] = "enter" /\ label = "check"
               \/ pc[s] = "check" /\ label \in {"admitted", "knock"}
               \/ pc[s] = "knock" /\ label = "lookup"
               \/ pc[s] = "lookup" /\ label = "notify"
               \/ pc[s] = "notify" /\ label = "waiting"
               \/ pc[s] = "admitted" /\ label = "call"
               \/ pc[s] = "call" /\ label = "leaving"
               \/ pc[s] = "leaving" /\ label \in {"destroy", "done"}
               \/ pc[s] = "destroy" /\ label = "done"
    BY DEF Connect, GetOrCreate, CheckEmpty, RegisterKnock, FindHost,
           NotifyHost, Join, HandleLeave, HandleClosed, Leave, DestroyIfEmpty,
           PCs, shared
<1>2. pc'[s] = label
    BY <1>1 DEF TypeOK
<1>3. pc[s] = "check" => \A d \in Decisions : ~AnswerTo(s, d)
    BY DEF RegisteredFirst, AnswerTo, Decisions
<1>4. /\ \A t \in Sessions \ {s} : Ticket(t)' = Ticket(t)
      /\ \A d \in Decisions : AnswerTo(s, d)' <=> AnswerTo(s, d)
    BY <1>1, OthersSame
<1>5. \/ Ticket(s)' = Ticket(s)
      \/ Ticket(s)' = "gone"
      \/ Ticket(s) = "outside" /\ Ticket(s)' = "inside"
      \/ pc[s] = "check" /\ label = "knock" /\ Ticket(s) = "outside" /\ Ticket(s)' = "asking"
    <2> HIDE DEF AnswerTo
    <2> QED
        BY <1>1, <1>2, <1>3, <1>4 DEF Ticket, Asking, Inside, Decisions
\* A room that is not empty has a peer, who is inside.
<1>6. ASSUME pc[s] = "check", label = "knock"
      PROVE  \E h \in Sessions : Ticket(h) = "inside" /\ meetOf[h] = meetOf[s]
  <2>1. CheckEmpty(s)
    BY <1>2, <1>6
       DEF Connect, GetOrCreate, CheckEmpty, RegisterKnock, FindHost, NotifyHost,
           Join, HandleLeave, HandleClosed, Leave, DestroyIfEmpty
  <2>2. ~IsEmpty(room[s])
    BY <1>2, <1>6, <2>1 DEF CheckEmpty, TypeOK
  <2>3. PICK u \in Users : peers[room[s]][u] # None
    BY <2>2 DEF IsEmpty
  <2>4. room[s] \in Sessions
    BY <1>6 DEF LocalsSet, TypeOK
  <2>5. PICK h \in Sessions : h = peers[room[s]][u]
    BY <2>3, <2>4 DEF TypeOK
  <2>6. room[h] = room[s] /\ pc[h] \in {"call", "answering", "leaving"}
    BY <2>3, <2>4, <2>5 DEF NoGhostPeer
  <2>7. meetOf[h] = meetOf[s]
    BY <2>4, <2>6, NoneAssumption DEF RoomOfMeet
  <2>8. Ticket(h) = "inside"
    BY <2>6 DEF Ticket, Inside
  <2> QED
    BY <2>7, <2>8
<1> QED
    BY <1>4, <1>5, <1>6, GateMove

\* The answer received is the answer that was on its way, and there is no other.
LEMMA ReceiveStep ==
    ASSUME IInv, NEW s \in Sessions, ReceiveAnswer(s)
    PROVE  [Gate!Next]_ticketBar
<1> USE DEF IInv
<1>1. /\ pc[s] = "waiting" /\ admitCh[s] \in Decisions
      /\ pc'[s] = IF admitCh[s] = "admit" THEN "admitted" ELSE "done"
      /\ \A t \in Sessions \ {s} : pc'[t] = pc[t] /\ admitCh'[t] = admitCh[t]
      /\ UNCHANGED <<outCh, outVal>>
    BY DEF ReceiveAnswer, Goto, TypeOK
<1>2. \A h \in Sessions : outCh[h] # s
    BY <1>1, NoneAssumption DEF AnswerNeverBlocks, Decisions
<1>3. \A t \in Sessions \ {s} : Ticket(t)' = Ticket(t)
    <2>1. ASSUME NEW t \in Sessions \ {s}, NEW d \in Decisions
          PROVE  AnswerTo(t, d)' <=> AnswerTo(t, d)
        BY <1>1 DEF AnswerTo
    <2> QED
        BY <1>1, <2>1, TicketSame
<1>4. AnswerTo(s, "admit") <=> admitCh[s] = "admit"
    BY <1>2 DEF AnswerTo
<1>5. \/ Ticket(s) = "yes" /\ Ticket(s)' = "inside"
      \/ Ticket(s)' = "gone"
    <2> HIDE DEF AnswerTo
    <2> QED
        BY <1>1, <1>4 DEF Ticket, Asking, Inside, Decisions
<1> QED
    BY <1>3, <1>5, GateMove

\* Sending an answer changes where it is, not what it is.
LEMMA SendStep ==
    ASSUME IInv, NEW s \in Sessions, SendAnswer(s)
    PROVE  [Gate!Next]_ticketBar
<1> USE DEF IInv
<1> DEFINE c == outCh[s]
<1>1. /\ pc[s] \in {"answering", "withdrawing"}
      /\ c \in Sessions /\ admitCh[c] = "empty" /\ outVal[s] \in Decisions
    BY DEF SendAnswer, LocalsSet, TypeOK
<1>2. /\ admitCh' = [admitCh EXCEPT ![c] = outVal[s]]
      /\ outCh' = [outCh EXCEPT ![s] = None]
      /\ outVal' = [outVal EXCEPT ![s] = None]
    BY DEF SendAnswer
<1>3. \A t \in Sessions \ {s} : outCh[t] # c
    BY <1>1, NoneAssumption DEF AnswerNeverBlocks
<1>4. ASSUME NEW t \in Sessions, NEW d \in Decisions
      PROVE  AnswerTo(t, d)' <=> AnswerTo(t, d)
    <2>1. CASE t = c
        <3>1. AnswerTo(t, d)' <=> outVal[s] = d
            BY <1>1, <1>2, <1>3, <2>1, NoneAssumption
               DEF AnswerTo, TypeOK
        <3>2. AnswerTo(t, d) <=> outVal[s] = d
            BY <1>1, <1>3, <2>1 DEF AnswerTo, Decisions
        <3> QED
            BY <3>1, <3>2
    <2>2. CASE t # c
        BY <1>1, <1>2, <2>2, NoneAssumption DEF AnswerTo, TypeOK
    <2> QED
        BY <2>1, <2>2
<1>5. \A t \in Sessions \ {s} : pc'[t] = pc[t]
    BY DEF SendAnswer, Goto, TypeOK
<1>6. \A t \in Sessions \ {s} : Ticket(t)' = Ticket(t)
    BY <1>4, <1>5, TicketSame
<1>7. Ticket(s)' = Ticket(s)
    <2>1. pc'[s] = IF pc[s] = "answering" THEN "call" ELSE "done"
        BY DEF SendAnswer, Goto, TypeOK
    <2> QED
        BY <1>1, <2>1 DEF Ticket, Asking, Inside
<1> QED
    BY <1>6, <1>7, GateMove

\* A handler that takes a channel, or finds none, changes what is on its way to
\* that channel's connection only.
LEMMA TakenStep ==
    ASSUME NEW s \in Sessions, NEW c \in Sessions \cup {None},
           NEW decision \in Decisions,
           outCh[s] = None, outCh'[s] = c, c # None => outVal'[s] = decision,
           \A h \in Sessions \ {s} :
               outCh'[h] = outCh[h] /\ outVal'[h] = outVal[h],
           admitCh' = admitCh
    PROVE  \A t \in Sessions, d \in Decisions :
               AnswerTo(t, d)' <=> AnswerTo(t, d) \/ (t = c /\ d = decision)
<1> SUFFICES ASSUME NEW t \in Sessions, NEW d \in Decisions
             PROVE  AnswerTo(t, d)' <=> AnswerTo(t, d) \/ (t = c /\ d = decision)
    OBVIOUS
<1> QED
    BY NoneAssumption DEF AnswerTo

\* A knocker that withdraws finds its own channel, none, or the one of another
\* tab of its user, which still asks and is refused in its place.
LEMMA WithdrawStep ==
    ASSUME IInv, NEW s \in Sessions, WithdrawKnock(s)
    PROVE  [Gate!Next]_ticketBar
<1>1. PICK c : c = pending[room[s]][userOf[s]]
    OBVIOUS
<1>2. /\ pc[s] = "waiting" /\ room[s] \in Sessions /\ userOf[s] \in Users
      /\ outCh[s] = None /\ outCh' = [outCh EXCEPT ![s] = c]
      /\ outVal' = [outVal EXCEPT ![s] = IF c = None THEN None ELSE "deny"]
      /\ pc' = [pc EXCEPT ![s] = IF c = None THEN "done" ELSE "withdrawing"]
      /\ admitCh' = admitCh
    BY <1>1, UserOfAssumption
       DEF WithdrawKnock, TakeKnock, Goto, IInv, LocalsSet, TypeOK
<1>3. c \in Sessions \cup {None}
    BY <1>1, <1>2 DEF IInv, TypeOK
<1>4. /\ outCh'[s] = c
      /\ c # None => outVal'[s] = "deny"
      /\ pc'[s] \in {"done", "withdrawing"}
      /\ \A t \in Sessions \ {s} :
            outCh'[t] = outCh[t] /\ outVal'[t] = outVal[t] /\ pc'[t] = pc[t]
    BY <1>2 DEF IInv, TypeOK
<1>5. \A t \in Sessions, d \in Decisions :
          AnswerTo(t, d)' <=> AnswerTo(t, d) \/ (t = c /\ d = "deny")
    BY <1>2, <1>3, <1>4, TakenStep DEF Decisions
<1>6. \A t \in Sessions \ {s, c} : Ticket(t)' = Ticket(t)
    <2> HIDE DEF AnswerTo
    <2>1. \A t \in Sessions \ {s, c}, d \in Decisions :
              AnswerTo(t, d)' <=> AnswerTo(t, d)
        BY <1>5
    <2> QED
        BY <1>4, <2>1, TicketSame
<1>7. Ticket(s) \in {"asking", "yes", "no"} /\ Ticket(s)' = "gone"
    BY <1>2, <1>4 DEF Ticket, Asking, Inside
<1>8. CASE c = None \/ c = s
    <2>1. \A t \in Sessions \ {s} : Ticket(t)' = Ticket(t)
        BY <1>6, <1>8, NoneAssumption
    <2> QED
        BY <1>7, <2>1, GateMove
<1>9. CASE c # None /\ c # s
    <2>1. /\ c \in Sessions /\ room[c] = room[s] /\ userOf[c] = userOf[s]
          /\ pc[c] \in Asking /\ admitCh[c] = "empty"
        BY <1>1, <1>2, <1>3, <1>9 DEF IInv, PendingIsWaiting, Asking
    <2>2. \A d \in Decisions : ~AnswerTo(c, d)
        <3>1. \A h \in Sessions : outCh[h] # c
            BY <1>1, <1>2, <1>9 DEF IInv, AnswerNeverBlocks
        <3> QED
            BY <2>1, <3>1 DEF AnswerTo, Decisions
    <2>3. Ticket(c) = "asking"
        <3> HIDE DEF AnswerTo
        <3> QED
            BY <2>1, <2>2 DEF Ticket, Asking, Inside, Decisions
    <2>4. Ticket(c)' = "no"
        <3>1. \A d \in Decisions : AnswerTo(c, d)' <=> d = "deny"
            BY <1>5, <2>1, <2>2
        <3> HIDE DEF AnswerTo
        <3> QED
            BY <1>4, <1>9, <2>1, <3>1 DEF Ticket, Asking, Inside, Decisions
    <2>5. meetOf[c] = meetOf[s]
        BY <1>2, <2>1, NoneAssumption DEF IInv, RoomOfMeet
    <2>6. ticketBar' = [ticketBar EXCEPT ![s] = "gone", ![c] = "no"]
        BY <1>6, <1>7, <1>9, <2>1, <2>4 DEF ticketBar
    <2>7. ticketBar[s] \in {"asking", "yes", "no"} /\ ticketBar[c] = "asking"
        BY <1>7, <2>1, <2>3 DEF ticketBar
    <2>8. Gate!HangUp(s, c)
        BY <1>9, <2>1, <2>5, <2>6, <2>7 DEF Gate!HangUp
    <2> QED
        BY <2>1, <2>8 DEF Gate!Next
<1> QED
    BY <1>8, <1>9

\* A peer that takes a channel is inside the meeting its knocker asks for, and
\* the knocker has no answer yet.
LEMMA DecisionStep ==
    ASSUME IInv, NEW s \in Sessions, HandleDecision(s)
    PROVE  [Gate!Next]_ticketBar
<1>1. PICK u, decision :
            u = Head(inbox[s]).userID /\ decision = Head(inbox[s]).type
    OBVIOUS
<1>2. decision \in Decisions /\ u \in Users
    <2>1. Head(inbox[s]) \in Msgs
        BY DEF HandleDecision, IInv, TypeOK
    <2> QED
        BY <1>1, <2>1 DEF HandleDecision, Msgs, Decisions
<1>3. PICK c : c = pending[room[s]][u]
    OBVIOUS
<1>4. /\ pc[s] = "call" /\ room[s] \in Sessions /\ admitCh' = admitCh
      /\ outCh[s] = None /\ outCh' = [outCh EXCEPT ![s] = c]
      /\ outVal' = [outVal EXCEPT ![s] = IF c = None THEN None ELSE decision]
      /\ pc' = [pc EXCEPT ![s] = IF c = None THEN "call" ELSE "answering"]
    BY <1>1, <1>3
       DEF HandleDecision, TakeKnock, Goto, IInv, LocalsSet, TypeOK
<1>5. c \in Sessions \cup {None}
    BY <1>2, <1>3, <1>4 DEF IInv, TypeOK
<1>6. /\ outCh'[s] = c
      /\ c # None => outVal'[s] = decision
      /\ pc[s] \in Inside /\ pc'[s] \in Inside
      /\ \A t \in Sessions \ {s} :
            outCh'[t] = outCh[t] /\ outVal'[t] = outVal[t] /\ pc'[t] = pc[t]
    BY <1>4 DEF IInv, TypeOK, Inside
<1>7. \A t \in Sessions, d \in Decisions :
          AnswerTo(t, d)' <=> AnswerTo(t, d) \/ (t = c /\ d = decision)
    BY <1>2, <1>4, <1>5, <1>6, TakenStep
<1>8. Ticket(s) = "inside" /\ Ticket(s)' = "inside"
    BY <1>6 DEF Ticket, Inside
<1>9. \A t \in Sessions \ {s, c} : Ticket(t)' = Ticket(t)
    <2> HIDE DEF AnswerTo
    <2>1. \A t \in Sessions \ {s, c}, d \in Decisions :
              AnswerTo(t, d)' <=> AnswerTo(t, d)
        BY <1>7
    <2> QED
        BY <1>6, <2>1, TicketSame
<1>10. CASE c = None
    <2>1. \A t \in Sessions \ {s} : Ticket(t)' = Ticket(t)
        BY <1>9, <1>10, NoneAssumption
    <2> QED
        BY <1>8, <2>1, GateMove
<1>11. CASE c # None
    <2>1. /\ c \in Sessions /\ room[c] = room[s] /\ pc[c] \in Asking
          /\ admitCh[c] = "empty"
        BY <1>2, <1>3, <1>4, <1>5, <1>11 DEF IInv, PendingIsWaiting, Asking
    <2>2. \A h \in Sessions : outCh[h] # c
        BY <1>2, <1>3, <1>4, <1>11 DEF IInv, AnswerNeverBlocks
    <2>3. \A d \in Decisions : ~AnswerTo(c, d)
        BY <2>1, <2>2 DEF AnswerTo, Decisions
    <2>4. c # s /\ pc'[c] = pc[c]
        BY <1>4, <1>6, <2>1 DEF Asking
    <2>5. Ticket(c) = "asking"
        <3> HIDE DEF AnswerTo
        <3> QED
            BY <2>1, <2>3 DEF Ticket, Asking, Inside, Decisions
    <2>6. Ticket(c)' \in {"yes", "no"}
        <3>1. \A d \in Decisions : AnswerTo(c, d)' <=> d = decision
            BY <1>7, <2>1, <2>3
        <3> HIDE DEF AnswerTo
        <3> QED
            BY <1>2, <2>1, <2>4, <3>1 DEF Ticket, Asking, Inside, Decisions
    <2>7. meetOf[s] = meetOf[c]
        BY <1>4, <2>1, NoneAssumption DEF IInv, RoomOfMeet
    <2>8. ticketBar' = [ticketBar EXCEPT ![c] = Ticket(c)']
        BY <1>8, <1>9, <2>1 DEF ticketBar
    <2>9. ticketBar[s] = "inside" /\ ticketBar[c] = "asking"
        BY <1>8, <2>1, <2>5 DEF ticketBar
    <2>10. Gate!Decide(s, c)
        BY <2>6, <2>7, <2>8, <2>9 DEF Gate!Decide, Gate!Move
    <2> QED
        BY <2>1, <2>10 DEF Gate!Next
<1> QED
    BY <1>10, <1>11

\* What the browser does, and what nobody does, changes no ticket.
LEMMA QuietStep ==
    ASSUME UNCHANGED <<pc, admitCh, outCh, outVal>>
    PROVE  [Gate!Next]_ticketBar
<1> QED
    BY DEF ticketBar, Ticket, AnswerTo

\* Admission is KnockGate, for every number of connections, users and meetings,
\* and of tabs per user: a connection asks only while somebody is inside the meeting,
\* and then goes in only with one answer, given once by a connection inside the same
\* meeting; only a tab of its own user that hangs up may refuse it instead; and it
\* never comes back from "gone".  Walking in without asking is not restricted
\* (handlers/sfu.go:97-140, room.go:53-97).
THEOREM AdmissionIsGate == Spec => Gate!Init /\ [][Gate!Next]_ticketBar
<1>1. Init => Gate!Init
    BY DEF Init, Gate!Init, ticketBar, Ticket
<1>2. IInv /\ [Next]_vars => [Gate!Next]_ticketBar
    <2> SUFFICES ASSUME IInv, [Next]_vars
                 PROVE  [Gate!Next]_ticketBar
        OBVIOUS
    <2>1. ASSUME NEW s \in Sessions, Handler(s)
          PROVE  [Gate!Next]_ticketBar
        BY <2>1, PlainStep, ReceiveStep, SendStep, WithdrawStep, DecisionStep
           DEF Handler
    <2>2. ASSUME NEW s \in Sessions, Browser(s)
          PROVE  [Gate!Next]_ticketBar
        <3>1. CASE Connect(s)
            BY <3>1, PlainStep
        <3>2. CASE AnswerPopup(s) \/ LeaveMeeting(s) \/ Disconnect(s)
            BY <3>2, QuietStep
               DEF AnswerPopup, LeaveMeeting, Disconnect, shared, locals
        <3> QED
            BY <2>2, <3>1, <3>2 DEF Browser
    <2>3. CASE UNCHANGED vars
        BY <2>3, QuietStep DEF vars, shared, locals
    <2> QED
        BY <2>1, <2>2, <2>3 DEF Next
<1> QED
    BY <1>1, <1>2, Inductive, PTL DEF Spec
=============================================================================
