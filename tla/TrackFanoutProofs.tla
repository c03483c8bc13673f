------------------------- MODULE TrackFanoutProofs -------------------------
(***************************************************************************)
(* TLAPS proofs about TrackFanout, for any number of sessions, users and   *)
(* kinds.                                                                  *)
(***************************************************************************)
EXTENDS TrackFanout, TLAPS

\* The tuples that the UNCHANGED conjuncts name.
USE DEF room, media, offer, track, history

LEMMA OwnerKey ==
    ASSUME NEW b \in Tracks
    PROVE  /\ Owner(b) \in Sessions /\ Key(b) \in Users \X Kinds
           /\ userOf[Owner(b)] \in Users
           /\ Key(b) = <<userOf[Owner(b)], b[2]>>
BY TracksAssumption, UserOfAssumption DEF Owner, Key

-----------------------------------------------------------------------------
(* The two steps of giving a track to a peer.                              *)

LEMMA AddTrackEffect ==
    ASSUME TypeOK, NEW s \in Sessions, NEW b \in Tracks, AddTrack(s, b),
           senders[s][b] <= 1
    PROVE  /\ senders'[s][b] = senders[s][b] + 1
           /\ \A x \in Sessions, d \in Tracks :
                 ~(x = s /\ d = b) => senders'[x][d] = senders[x][d]
           /\ senders' \in [Sessions -> [Tracks -> 0..2]]
<1>0. senders[s] \in [Tracks -> 0..2]
  BY DEF TypeOK
<1>1. senders[s] \in [Tracks -> 0..2] /\ senders[s][b] + 1 \in 0..2
  <2>1. senders[s][b] \in 0..2
    BY <1>0
  <2> QED
    BY <1>0, <2>1
<1> DEFINE row == [senders[s] EXCEPT ![b] = senders[s][b] + 1]
<1>2. row \in [Tracks -> 0..2]
  BY <1>1
<1>3. senders' = [senders EXCEPT ![s] = row]
  BY DEF AddTrack
<1>4. row[b] = senders[s][b] + 1 /\ \A d \in Tracks : d # b => row[d] = senders[s][d]
  BY <1>1
<1> HIDE DEF row
<1>5. senders'[s] = row /\ \A x \in Sessions : x # s => senders'[x] = senders[x]
  BY <1>3 DEF TypeOK
<1>6. senders' \in [Sessions -> [Tracks -> 0..2]]
  BY <1>2, <1>3 DEF TypeOK
<1> QED
  BY <1>4, <1>5, <1>6

LEMMA AddSinkEffect ==
    ASSUME TypeOK, NEW s \in Sessions, NEW b \in Tracks, AddSink(b, s)
    PROVE  /\ sinks'[b][userOf[s]] = s
           /\ \A u \in Users : u # userOf[s] => sinks'[b][u] = sinks[b][u]
           /\ \A d \in Tracks : d # b => sinks'[d] = sinks[d]
           /\ sinks' \in [Tracks -> [Users -> Sessions \cup {None}]]
<1>1. userOf[s] \in Users /\ sinks[b] \in [Users -> Sessions \cup {None}]
  BY UserOfAssumption DEF TypeOK
<1> DEFINE row == [sinks[b] EXCEPT ![userOf[s]] = s]
<1>2. row \in [Users -> Sessions \cup {None}]
  BY <1>1
<1>3. sinks' = [sinks EXCEPT ![b] = row]
  BY DEF AddSink
<1>4. row[userOf[s]] = s /\ \A u \in Users : u # userOf[s] => row[u] = sinks[b][u]
  BY <1>1
<1> HIDE DEF row
<1>5. sinks'[b] = row /\ \A d \in Tracks : d # b => sinks'[d] = sinks[d]
  BY <1>3 DEF TypeOK
<1>6. sinks' \in [Tracks -> [Users -> Sessions \cup {None}]]
  BY <1>2, <1>3 DEF TypeOK
<1> QED
  BY <1>4, <1>5, <1>6

\* There is room for one more while one of the two has not added the track.
LEMMA RoomForOne ==
    ASSUME TypeOK, SendersCounted, NEW s \in Sessions, NEW b \in Tracks,
           \/ ~Passed(s, b)
           \/ onTrack[b] = "wire" /\ s \in targets[b]
    PROVE  senders[s][b] <= 1
<1>1. senders[s][b] \in 0..2
  BY DEF TypeOK
<1>2. senders[s][b] <=
        (IF Passed(s, b) THEN 1 ELSE 0)
        + (IF \/ onTrack[b] \in {"idle", "start", "collect"}
              \/ onTrack[b] = "wire" /\ s \in targets[b] THEN 0 ELSE 1)
  BY DEF SendersCounted
<1> QED
  BY <1>1, <1>2

\* The iteration of either loop that adds a track.
LEMMA ExistingAdds ==
    ASSUME TypeOK, SendersCounted, NEW s \in Sessions, AddExistingTrack(s)
    PROVE  \E b \in existing[s] :
              /\ b \in Tracks
              /\ existing' = [existing EXCEPT ![s] = @ \ {b}]
              /\ bc' = [bc EXCEPT ![s] = b]
              /\ AddTrack(s, b)
              /\ senders[s][b] <= 1
<1>1. PICK b \in existing[s] : /\ existing' = [existing EXCEPT ![s] = @ \ {b}]
                               /\ AddTrack(s, b)
                               /\ bc' = [bc EXCEPT ![s] = b]
  BY DEF AddExistingTrack
<1>2. b \in Tracks /\ ~Passed(s, b)
  BY <1>1 DEF TypeOK, AddExistingTrack, Passed
<1> QED
  BY <1>1, <1>2, RoomForOne

LEMMA TargetAdds ==
    ASSUME TypeOK, SendersCounted, NEW b \in Tracks, OnTrackAdd(b)
    PROVE  \E t \in targets[b] :
              /\ t \in Sessions
              /\ targets' = [targets EXCEPT ![b] = @ \ {t}]
              /\ \/ /\ Open(t)
                    /\ AddTrack(t, b)
                    /\ target' = [target EXCEPT ![b] = t]
                 \/ ~Open(t) /\ UNCHANGED <<senders, target>>
              /\ senders[t][b] <= 1
<1>1. PICK t \in targets[b] :
          /\ targets' = [targets EXCEPT ![b] = @ \ {t}]
          /\ \/ Open(t) /\ AddTrack(t, b) /\ target' = [target EXCEPT ![b] = t]
             \/ ~Open(t) /\ UNCHANGED <<senders, target>>
  BY DEF OnTrackAdd
<1>2. t \in Sessions /\ onTrack[b] = "wire"
  BY <1>1 DEF TypeOK, OnTrackAdd
<1> QED
  BY <1>1, <1>2, RoomForOne

-----------------------------------------------------------------------------
(* Type correctness, with the count of the senders it rests on.            *)

LEMMA TypeInit == Init => TypeOK /\ SendersCounted
<1> SUFFICES ASSUME Init PROVE TypeOK /\ SendersCounted
  OBVIOUS
<1>1. senders \in [Sessions -> [Tracks -> 0..2]]
  BY DEF Init
<1>2. TypeOK
  BY <1>1 DEF Init, TypeOK
<1>3. SendersCounted
  BY DEF Init, SendersCounted
<1> QED
  BY <1>2, <1>3

LEMMA TypeStep ==
    ASSUME TypeOK, SendersCounted, [Next]_vars
    PROVE  TypeOK'
<1>1. ASSUME NEW s \in Sessions, Join(s) PROVE TypeOK'
  <2>1. peers' \in [Users -> Sessions \cup {None}]
    BY <1>1 DEF TypeOK, Join
  <2>2. twice' \in SUBSET Users
    BY <1>1 DEF TypeOK, Join
  <2>3. late' \in SUBSET (Sessions \X Tracks)
    BY <1>1 DEF TypeOK, Join
  <2>4. pc' \in [Sessions -> {"idle", "call", "sweep", "return", "done"}]
    BY <1>1 DEF TypeOK, Join
  <2> QED
    BY <1>1, <2>1, <2>2, <2>3, <2>4 DEF TypeOK, Join
<1>2. ASSUME NEW s \in Sessions, LeavePeers(s) \/ HandleOffer(s)
      PROVE  TypeOK'
  BY <1>2 DEF TypeOK, LeavePeers, HandleOffer
<1>3. ASSUME NEW s \in Sessions, ClosePC(s) PROVE TypeOK'
  <2>1. senders' \in [Sessions -> [Tracks -> 0..2]]
    BY <1>3 DEF TypeOK, ClosePC
  <2> QED
    BY <1>3, <2>1 DEF TypeOK, ClosePC
<1>4. ASSUME NEW s \in Sessions, LeaveBroadcasters(s) PROVE TypeOK'
  <2>1. sinks' \in [Tracks -> [Users -> Sessions \cup {None}]]
    BY <1>4 DEF TypeOK, LeaveBroadcasters
  <2>2. broadcasters' \in [Users \X Kinds -> Sessions \cup {None}]
    BY <1>4 DEF TypeOK, LeaveBroadcasters
  <2> QED
    BY <1>4, <2>1, <2>2 DEF TypeOK, LeaveBroadcasters
<1>5. ASSUME NEW s \in Sessions, AddExistingTracksTo(s) \/ AddExistingFails(s)
      PROVE  TypeOK'
  <2>1. Registered \in SUBSET Tracks
    BY DEF Registered
  <2> QED
    BY <1>5, <2>1 DEF TypeOK, AddExistingTracksTo, AddExistingFails, GoesOn
<1>6. ASSUME NEW s \in Sessions, AddExistingTrack(s) PROVE TypeOK'
  <2>1. PICK b \in existing[s] :
              /\ b \in Tracks
              /\ existing' = [existing EXCEPT ![s] = @ \ {b}]
              /\ bc' = [bc EXCEPT ![s] = b]
              /\ AddTrack(s, b)
              /\ senders[s][b] <= 1
    BY <1>6, ExistingAdds
  <2>2. senders' \in [Sessions -> [Tracks -> 0..2]]
    BY <2>1, AddTrackEffect
  <2>3. bc' \in [Sessions -> Tracks \cup {None}]
    BY <2>1 DEF TypeOK
  <2>4. existing' \in [Sessions -> SUBSET Tracks]
    BY <2>1 DEF TypeOK
  <2> QED
    BY <1>6, <2>2, <2>3, <2>4 DEF TypeOK, AddExistingTrack
<1>7. ASSUME NEW s \in Sessions, AddExistingSink(s) PROVE TypeOK'
  <2>1. bc[s] \in Tracks /\ AddSink(bc[s], s)
    BY <1>7 DEF TypeOK, AddExistingSink
  <2>2. sinks' \in [Tracks -> [Users -> Sessions \cup {None}]]
    BY <2>1, AddSinkEffect
  <2> QED
    BY <1>7, <2>2 DEF TypeOK, AddExistingSink, GoesOn
<1>8. ASSUME NEW b \in Tracks, OnTrackStart(b) \/ OnTrackRegister(b) PROVE TypeOK'
  <2>1. CASE OnTrackStart(b)
    BY <2>1 DEF TypeOK, OnTrackStart
  <2>2. CASE OnTrackRegister(b)
    BY <2>2, OwnerKey DEF TypeOK, OnTrackRegister
  <2> QED
    BY <1>8, <2>1, <2>2
<1>9. ASSUME NEW b \in Tracks,
             OnTrackCollect(b) \/ OnTrackPanics(b) \/ OnTrackRun(b) \/ RunEnds(b)
      PROVE  TypeOK'
  <2>1. CASE OnTrackCollect(b)
    <3>1. targets' \in [Tracks -> SUBSET Sessions]
      BY <2>1 DEF TypeOK, OnTrackCollect
    <3> QED
      BY <2>1, <3>1 DEF TypeOK, OnTrackCollect
  <2>2. CASE OnTrackPanics(b)
    BY <2>2 DEF TypeOK, OnTrackPanics
  <2>3. CASE OnTrackRun(b) \/ RunEnds(b)
    BY <2>3 DEF TypeOK, OnTrackRun, RunEnds
  <2> QED
    BY <1>9, <2>1, <2>2, <2>3
<1>10. ASSUME NEW b \in Tracks, OnTrackAdd(b) PROVE TypeOK'
  <2>1. PICK t \in targets[b] :
              /\ t \in Sessions
              /\ targets' = [targets EXCEPT ![b] = @ \ {t}]
              /\ \/ /\ Open(t)
                    /\ AddTrack(t, b)
                    /\ target' = [target EXCEPT ![b] = t]
                 \/ ~Open(t) /\ UNCHANGED <<senders, target>>
              /\ senders[t][b] <= 1
    BY <1>10, TargetAdds
  <2>2. senders' \in [Sessions -> [Tracks -> 0..2]]
    BY <2>1, AddTrackEffect DEF TypeOK
  <2>3. target' \in [Tracks -> Sessions \cup {None}]
    BY <2>1 DEF TypeOK
  <2>4. targets' \in [Tracks -> SUBSET Sessions]
    BY <2>1 DEF TypeOK
  <2> QED
    BY <1>10, <2>2, <2>3, <2>4 DEF TypeOK, OnTrackAdd
<1>11. ASSUME NEW b \in Tracks, OnTrackSink(b) PROVE TypeOK'
  <2>1. target[b] \in Sessions /\ AddSink(b, target[b])
    BY <1>11 DEF TypeOK, OnTrackSink
  <2>2. sinks' \in [Tracks -> [Users -> Sessions \cup {None}]]
    BY <2>1, AddSinkEffect
  <2> QED
    BY <1>11, <2>2 DEF TypeOK, OnTrackSink
<1>12. CASE UNCHANGED vars
  BY <1>12 DEF TypeOK, vars
<1> QED
  BY <1>1, <1>2, <1>3, <1>4, <1>5, <1>6, <1>7, <1>8, <1>9, <1>10, <1>11, <1>12
     DEF Next, Leave, Wiring, Track

LEMMA CountStep ==
    ASSUME TypeOK, SendersCounted, UnsunkBusy, [Next]_vars
    PROVE  SendersCounted'
<1>0. \A x \in Sessions, d \in Tracks :
         senders[x][d] \in 0..2 /\ senders'[x][d] \in 0..2
  BY TypeStep DEF TypeOK
<1>1. ASSUME UNCHANGED <<senders, wiring, existing, onTrack, targets>>
      PROVE  SendersCounted'
  BY <1>1 DEF SendersCounted, Passed
<1>2. ASSUME UNCHANGED <<senders, onTrack, targets>>,
             \A x \in Sessions, d \in Tracks : Passed(x, d) => Passed(x, d)'
      PROVE  SendersCounted'
  BY <1>0, <1>2 DEF SendersCounted
<1>3. ASSUME NEW s \in Sessions, HandleOffer(s) \/ AddExistingTracksTo(s) \/ AddExistingFails(s)
      PROVE  SendersCounted'
  <2>1. \A x \in Sessions, d \in Tracks : Passed(x, d) => Passed(x, d)'
    BY <1>3 DEF TypeOK, HandleOffer, AddExistingTracksTo, AddExistingFails,
                Passed, GoesOn
  <2> QED
    BY <1>2, <1>3, <2>1 DEF HandleOffer, AddExistingTracksTo, AddExistingFails
<1>4. ASSUME NEW s \in Sessions, AddExistingSink(s) PROVE SendersCounted'
  <2>1. wiring[s] = "adding"
    BY <1>4 DEF UnsunkBusy, AddExistingSink
  <2>2. \A x \in Sessions, d \in Tracks : Passed(x, d) => Passed(x, d)'
    BY <1>4, <2>1 DEF TypeOK, AddExistingSink, Passed, GoesOn
  <2> QED
    BY <1>2, <1>4, <2>2 DEF AddExistingSink
<1>5. ASSUME NEW s \in Sessions, AddExistingTrack(s) PROVE SendersCounted'
  <2>1. PICK b \in existing[s] :
              /\ b \in Tracks
              /\ existing' = [existing EXCEPT ![s] = @ \ {b}]
              /\ bc' = [bc EXCEPT ![s] = b]
              /\ AddTrack(s, b)
              /\ senders[s][b] <= 1
    BY <1>5, ExistingAdds
  <2>2. /\ wiring[s] = "adding" /\ UNCHANGED <<wiring, onTrack, targets>>
        /\ existing'[s] = existing[s] \ {b}
        /\ \A x \in Sessions : x # s => existing'[x] = existing[x]
    BY <1>5, <2>1 DEF TypeOK, AddExistingTrack
  <2>3. /\ senders'[s][b] = senders[s][b] + 1
        /\ \A x \in Sessions, d \in Tracks :
              ~(x = s /\ d = b) => senders'[x][d] = senders[x][d]
    BY <2>1, AddTrackEffect
  <2>4. /\ ~Passed(s, b) /\ Passed(s, b)'
        /\ \A x \in Sessions, d \in Tracks : Passed(x, d) => Passed(x, d)'
    BY <2>1, <2>2 DEF Passed
  <2> SUFFICES ASSUME NEW x \in Sessions, NEW d \in Tracks
               PROVE  senders'[x][d] <=
                 (IF Passed(x, d)' THEN 1 ELSE 0)
                 + (IF \/ onTrack'[d] \in {"idle", "start", "collect"}
                       \/ onTrack'[d] = "wire" /\ x \in targets'[d] THEN 0 ELSE 1)
    BY DEF SendersCounted
  <2>5. senders[x][d] <=
          (IF Passed(x, d) THEN 1 ELSE 0)
          + (IF \/ onTrack[d] \in {"idle", "start", "collect"}
                \/ onTrack[d] = "wire" /\ x \in targets[d] THEN 0 ELSE 1)
    BY DEF SendersCounted
  <2> QED
    BY <1>0, <2>2, <2>3, <2>4, <2>5
<1>6. ASSUME NEW b \in Tracks, OnTrackAdd(b) PROVE SendersCounted'
  <2>1. PICK t \in targets[b] :
              /\ t \in Sessions
              /\ targets' = [targets EXCEPT ![b] = @ \ {t}]
              /\ \/ /\ Open(t)
                    /\ AddTrack(t, b)
                    /\ target' = [target EXCEPT ![b] = t]
                 \/ ~Open(t) /\ UNCHANGED <<senders, target>>
              /\ senders[t][b] <= 1
    BY <1>6, TargetAdds
  <2>2. /\ onTrack[b] = "wire" /\ UNCHANGED <<onTrack, wiring, existing>>
        /\ targets'[b] = targets[b] \ {t}
        /\ \A d \in Tracks : d # b => targets'[d] = targets[d]
    BY <1>6, <2>1 DEF TypeOK, OnTrackAdd
  <2>3. \A x \in Sessions, d \in Tracks :
           /\ senders'[x][d] <= senders[x][d] + 1
           /\ ~(x = t /\ d = b) => senders'[x][d] = senders[x][d]
    BY <1>0, <2>1, AddTrackEffect
  <2> SUFFICES ASSUME NEW x \in Sessions, NEW d \in Tracks
               PROVE  senders'[x][d] <=
                 (IF Passed(x, d) THEN 1 ELSE 0)
                 + (IF \/ onTrack[d] \in {"idle", "start", "collect"}
                       \/ onTrack[d] = "wire" /\ x \in targets'[d] THEN 0 ELSE 1)
    BY <2>2 DEF SendersCounted, Passed
  <2>4. senders[x][d] <=
          (IF Passed(x, d) THEN 1 ELSE 0)
          + (IF \/ onTrack[d] \in {"idle", "start", "collect"}
                \/ onTrack[d] = "wire" /\ x \in targets[d] THEN 0 ELSE 1)
    BY DEF SendersCounted
  <2> QED
    BY <1>0, <2>1, <2>2, <2>3, <2>4
<1>7. ASSUME NEW b \in Tracks,
             \/ OnTrackStart(b) \/ OnTrackRegister(b) \/ OnTrackCollect(b)
             \/ OnTrackRun(b) \/ RunEnds(b)
      PROVE  SendersCounted'
  <2>1. /\ UNCHANGED <<senders, wiring, existing>>
        /\ \A d \in Tracks : d # b => onTrack'[d] = onTrack[d] /\ targets'[d] = targets[d]
    BY <1>7 DEF TypeOK, OnTrackStart, OnTrackRegister, OnTrackCollect, OnTrackRun, RunEnds
  <2>2. \/ onTrack[b] = "idle" /\ onTrack'[b] = "start"
        \/ onTrack[b] = "start" /\ onTrack'[b] = "collect"
        \/ onTrack[b] = "collect" /\ onTrack'[b] = "wire"
        \/ onTrack[b] = "wire" /\ targets[b] = {} /\ onTrack'[b] = "run"
        \/ onTrack[b] = "run" /\ onTrack'[b] = "done"
    BY <1>7 DEF TypeOK, OnTrackStart, OnTrackRegister, OnTrackCollect, OnTrackRun, RunEnds
  <2> QED
    BY <1>0, <2>1, <2>2 DEF SendersCounted, Passed
<1>8. ASSUME NEW s \in Sessions, ClosePC(s) PROVE SendersCounted'
  <2>1. /\ UNCHANGED <<wiring, existing, onTrack, targets>>
        /\ \A x \in Sessions, d \in Tracks : senders'[x][d] \in {0, senders[x][d]}
    BY <1>8 DEF TypeOK, ClosePC
  <2> QED
    BY <1>0, <2>1 DEF SendersCounted, Passed
<1>9. ASSUME \/ UNCHANGED vars
             \/ \E s \in Sessions : Join(s) \/ LeavePeers(s) \/ LeaveBroadcasters(s)
             \/ \E b \in Tracks : OnTrackPanics(b) \/ OnTrackSink(b)
      PROVE  SendersCounted'
  BY <1>1, <1>9 DEF vars, Join, LeavePeers, LeaveBroadcasters, OnTrackPanics, OnTrackSink
<1> QED
  BY <1>2, <1>3, <1>4, <1>5, <1>6, <1>7, <1>8, <1>9 DEF Next, Leave, Wiring, Track

-----------------------------------------------------------------------------
(* Whoever is to write a sink, and whom it was seen to be late for.        *)

LEMMA BusyStep ==
    ASSUME TypeOK, UnsunkBusy, [Next]_vars
    PROVE  UnsunkBusy'
<1>1. ASSUME UNCHANGED <<bc, wiring, onTrack, target>> PROVE UnsunkBusy'
  BY <1>1 DEF UnsunkBusy
<1>2. ASSUME NEW s \in Sessions, HandleOffer(s) \/ Wiring(s) PROVE UnsunkBusy'
  <2>1. UNCHANGED <<onTrack, target>>
    BY <1>2 DEF HandleOffer, Wiring, AddExistingTracksTo, AddExistingTrack,
                AddExistingFails, AddExistingSink
  <2>2. \A x \in Sessions : x # s => bc'[x] = bc[x] /\ wiring'[x] = wiring[x]
    BY <1>2 DEF TypeOK, HandleOffer, Wiring, AddExistingTracksTo, AddExistingTrack,
                AddExistingFails, AddExistingSink, GoesOn
  <2>3. bc'[s] # None => wiring'[s] = "adding"
    BY <1>2 DEF TypeOK, UnsunkBusy, HandleOffer, Wiring, AddExistingTracksTo,
                AddExistingTrack, AddExistingFails, AddExistingSink, GoesOn
  <2> QED
    BY <2>1, <2>2, <2>3 DEF UnsunkBusy
<1>3. ASSUME NEW b \in Tracks, OnTrackStart(b) \/ Track(b) PROVE UnsunkBusy'
  <2>1. UNCHANGED <<bc, wiring>>
    BY <1>3 DEF OnTrackStart, OnTrackRegister, Track, OnTrackCollect, OnTrackPanics, OnTrackAdd,
                OnTrackSink, OnTrackRun, RunEnds
  <2>2. \A d \in Tracks : d # b => onTrack'[d] = onTrack[d] /\ target'[d] = target[d]
    BY <1>3 DEF TypeOK, OnTrackStart, OnTrackRegister, Track, OnTrackCollect, OnTrackPanics,
                OnTrackAdd, OnTrackSink, OnTrackRun, RunEnds
  <2>3. target'[b] # None => onTrack'[b] = "wire"
    BY <1>3 DEF TypeOK, UnsunkBusy, OnTrackStart, OnTrackRegister, Track, OnTrackCollect,
                OnTrackPanics, OnTrackAdd, OnTrackSink, OnTrackRun, RunEnds
  <2> QED
    BY <2>1, <2>2, <2>3 DEF UnsunkBusy
<1>4. ASSUME \/ UNCHANGED vars
             \/ \E s \in Sessions : Join(s) \/ LeavePeers(s) \/ Leave(s)
      PROVE  UnsunkBusy'
  BY <1>1, <1>4 DEF vars, Join, LeavePeers, Leave, LeaveBroadcasters, ClosePC
<1> QED
  BY <1>2, <1>3, <1>4 DEF Next

\* A step makes at most one session wait for one sink, and one that is open.
LEMMA UnsunkGrows ==
    ASSUME TypeOK, [Next]_vars, NEW b \in Tracks, NEW x \in Unsunk(b)', x \notin Unsunk(b)
    PROVE  /\ x \in Sessions /\ Open(x)
           /\ UNCHANGED <<pc, twice, late>>
           /\ wiring[x] # "idle" \/ x \in targets[b]
<1>1. CASE \E s \in Sessions : AddExistingTrack(s)
  BY <1>1 DEF TypeOK, AddExistingTrack, Unsunk
<1>2. CASE \E d \in Tracks : OnTrackAdd(d)
  BY <1>2 DEF TypeOK, OnTrackAdd, Unsunk
<1>3. CASE \/ UNCHANGED <<bc, target>>
           \/ \E s \in Sessions : AddExistingSink(s)
           \/ \E d \in Tracks : OnTrackSink(d)
  BY <1>3, NoneAssumption DEF TypeOK, Unsunk, AddExistingSink, OnTrackSink
<1>4. \/ \E s \in Sessions : AddExistingTrack(s)
      \/ \E d \in Tracks : OnTrackAdd(d)
      \/ \E s \in Sessions : AddExistingSink(s)
      \/ \E d \in Tracks : OnTrackSink(d)
      \/ UNCHANGED <<bc, target>>
  BY DEF Next, Leave, Wiring, Track, vars, Join, HandleOffer, LeavePeers,
         LeaveBroadcasters, ClosePC, AddExistingTracksTo, AddExistingFails,
         OnTrackStart, OnTrackRegister, OnTrackCollect, OnTrackPanics, OnTrackRun, RunEnds
<1> QED
  BY <1>1, <1>2, <1>3, <1>4

-----------------------------------------------------------------------------
(* Who is in the call, in the maps and in the sets of OnTrack.             *)

LEMMA WiredStep ==
    ASSUME TypeOK, WiredAfterJoin, [Next]_vars
    PROVE  WiredAfterJoin'
<1>0. \A t \in Sessions : pc'[t] = "idle" => pc[t] = "idle"
  BY DEF TypeOK, Next, Leave, Wiring, Track, vars, Join, HandleOffer, LeavePeers,
         LeaveBroadcasters, ClosePC, AddExistingTracksTo, AddExistingTrack,
         AddExistingFails, AddExistingSink, OnTrackStart, OnTrackRegister, OnTrackCollect,
         OnTrackPanics, OnTrackAdd, OnTrackSink, OnTrackRun, RunEnds
<1>1. \A b \in Tracks : \A t \in Unsunk(b)' : pc'[t] # "idle"
  <2> SUFFICES ASSUME NEW b \in Tracks, NEW t \in Unsunk(b)'
               PROVE  pc'[t] # "idle"
    OBVIOUS
  <2>1. t \in Sessions
    BY DEF Unsunk
  <2>2. CASE t \in Unsunk(b)
    BY <1>0, <2>1, <2>2 DEF WiredAfterJoin
  <2>3. CASE t \notin Unsunk(b)
    BY <2>1, <2>3, UnsunkGrows DEF WiredAfterJoin
  <2> QED
    BY <2>2, <2>3
<1>2. ASSUME NEW s \in Sessions,
             \/ Join(s) \/ LeavePeers(s) \/ LeaveBroadcasters(s) \/ ClosePC(s)
      PROVE  WiredAfterJoin'
  <2>1. /\ UNCHANGED <<wiring, onTrack, targets>>
        /\ pc'[s] # "idle"
        /\ \A u \in Users : peers'[u] \in {peers[u], None, s}
    BY <1>2, UserOfAssumption
       DEF TypeOK, Join, LeavePeers, LeaveBroadcasters, ClosePC
  <2>2. ASSUME NEW u \in Users, peers'[u] # None
        PROVE  pc'[peers'[u]] # "idle"
    <3>1. CASE peers'[u] = s
      BY <2>1, <3>1
    <3>2. CASE peers'[u] = peers[u]
      <4>1. peers[u] \in Sessions /\ pc[peers[u]] # "idle"
        BY <2>2, <3>2 DEF WiredAfterJoin, TypeOK
      <4> QED
        BY <1>0, <3>2, <4>1
    <3> QED
      BY <2>1, <2>2, <3>1, <3>2
  <2>3. \A b \in Tracks : \A t \in targets'[b] : pc'[t] # "idle"
    BY <1>0, <2>1 DEF WiredAfterJoin, TypeOK
  <2> QED
    BY <1>0, <1>1, <2>1, <2>2, <2>3 DEF WiredAfterJoin
<1>3. ASSUME NEW s \in Sessions, HandleOffer(s) \/ Wiring(s)
      PROVE  WiredAfterJoin'
  <2>1. UNCHANGED <<pc, onTrack, peers, targets>>
    BY <1>3 DEF HandleOffer, Wiring, AddExistingTracksTo, AddExistingTrack,
                AddExistingFails, AddExistingSink
  <2>2. \A t \in Sessions : t # s => wiring'[t] = wiring[t]
    BY <1>3 DEF TypeOK, HandleOffer, Wiring, AddExistingTracksTo, AddExistingTrack,
                AddExistingFails, AddExistingSink, GoesOn
  <2>3. CASE AddExistingTrack(s)
    BY <1>1, <2>1, <2>3 DEF WiredAfterJoin, AddExistingTrack
  <2>4. CASE AddExistingSink(s)
    <3>1. wiring'[s] # "idle"
      BY <2>4 DEF TypeOK, AddExistingSink, GoesOn
    <3>2. s \in Unsunk(bc[s]) /\ bc[s] \in Tracks
      BY <2>4 DEF TypeOK, AddExistingSink, Unsunk
    <3> QED
      BY <1>1, <2>1, <2>2, <3>1, <3>2, OwnerKey DEF WiredAfterJoin
  <2>5. CASE HandleOffer(s) \/ AddExistingTracksTo(s) \/ AddExistingFails(s)
    <3>1. (pc[s] # "idle" \/ wiring[s] # "idle") /\ wiring'[s] # "idle"
      BY <2>5 DEF TypeOK, HandleOffer, AddExistingTracksTo, AddExistingFails, GoesOn
    <3> QED
      BY <1>1, <2>1, <2>2, <3>1, OwnerKey DEF WiredAfterJoin
  <2> QED
    BY <1>3, <2>3, <2>4, <2>5 DEF Wiring
<1>4. ASSUME NEW b \in Tracks, OnTrackStart(b) \/ Track(b)
      PROVE  WiredAfterJoin'
  <2>1. UNCHANGED <<pc, wiring, peers>>
    BY <1>4 DEF OnTrackStart, OnTrackRegister, Track, OnTrackCollect, OnTrackPanics, OnTrackAdd,
                OnTrackSink, OnTrackRun, RunEnds
  <2>2. \A d \in Tracks : d # b => onTrack'[d] = onTrack[d]
    BY <1>4 DEF TypeOK, OnTrackStart, OnTrackRegister, Track, OnTrackCollect, OnTrackPanics,
                OnTrackAdd, OnTrackSink, OnTrackRun, RunEnds
  <2>3. wiring[Owner(b)] = "idle" => onTrack'[b] = "idle"
    <3>1. CASE OnTrackStart(b)
      BY <3>1 DEF OnTrackStart
    <3>2. CASE Track(b)
      <4>1. onTrack[b] # "idle" \/ onTrack'[b] = onTrack[b]
        BY <3>2 DEF Track, OnTrackRegister, OnTrackCollect, OnTrackPanics,
                    OnTrackAdd, OnTrackSink, OnTrackRun, RunEnds
      <4> QED
        BY <4>1 DEF WiredAfterJoin
    <3> QED
      BY <1>4, <3>1, <3>2
  <2>4. \A d \in Tracks : \A t \in targets'[d] :
           t \in targets[d] \/ \E u \in Users : peers[u] = t /\ t \in Sessions
    <3>1. CASE OnTrackCollect(b)
      BY <3>1 DEF TypeOK, OnTrackCollect
    <3>2. CASE OnTrackAdd(b)
      BY <3>2 DEF TypeOK, OnTrackAdd
    <3>3. CASE \/ OnTrackStart(b) \/ OnTrackRegister(b) \/ OnTrackPanics(b)
               \/ OnTrackSink(b) \/ OnTrackRun(b) \/ RunEnds(b)
      <4>1. targets' = targets
        BY <3>3 DEF OnTrackStart, OnTrackRegister, OnTrackPanics, OnTrackSink, OnTrackRun, RunEnds
      <4> QED
        BY <4>1
    <3> QED
      BY <1>4, <3>1, <3>2, <3>3 DEF Track
  <2>5. \A d \in Tracks : \A t \in targets'[d] : pc'[t] # "idle"
    BY <2>1, <2>4, NoneAssumption DEF WiredAfterJoin
  <2> QED
    BY <1>1, <2>1, <2>2, <2>3, <2>5 DEF WiredAfterJoin
<1>5. CASE UNCHANGED vars
  BY <1>5 DEF WiredAfterJoin, Unsunk, vars
<1> QED
  BY <1>2, <1>3, <1>4, <1>5 DEF Next, Leave

\* A session that is not closed and is past joining is in the call.
LEMMA OpenInCall ==
    ASSUME TypeOK, NEW s \in Sessions, Open(s), pc[s] # "idle"
    PROVE  InCall(s)
BY DEF TypeOK, Open, InCall

\* Nobody leaves the history, and a session comes to linger by Join only: Pion
\* starts OnTrack while it is in the call.
LEMMA OverlapStep ==
    ASSUME TypeOK, WiredAfterJoin, OverlapSeen, [Next]_vars
    PROVE  /\ OverlapSeen'
           /\ \A s \in Sessions : Sole(s)' => Sole(s)
<1>1. ASSUME NEW x \in Sessions, Join(x)
      PROVE  /\ OverlapSeen'
             /\ \A s \in Sessions : Sole(s)' => Sole(s)
  <2>1. /\ \A t \in Sessions : t # x => (Lingers(t)' <=> Lingers(t))
        /\ \A s \in Sessions : Sole(s)' => Sole(s)
    BY <1>1 DEF TypeOK, Join, InCall, Lingers, Sole
  <2>2. \A t \in Sessions : t # x /\ Lingers(t) /\ userOf[t] = userOf[x] => ~Sole(x)'
    BY <1>1, UserOfAssumption DEF Join, Sole
  <2> QED
    BY <2>1, <2>2 DEF OverlapSeen, Sole
<1>2. ASSUME twice' = twice,
             \A s \in Sessions : Lingers(s)' => Lingers(s)
      PROVE  /\ OverlapSeen'
             /\ \A s \in Sessions : Sole(s)' => Sole(s)
  BY <1>2 DEF OverlapSeen, Sole
<1>3. ASSUME NEW x \in Sessions, LeavePeers(x) \/ Leave(x)
      PROVE  /\ twice' = twice
             /\ \A s \in Sessions : Lingers(s)' => Lingers(s)
  <2>1. /\ UNCHANGED <<twice, onTrack>>
        /\ \A s \in Sessions : InCall(s)' => InCall(s)
    BY <1>3 DEF TypeOK, LeavePeers, Leave, LeaveBroadcasters, ClosePC, InCall
  <2> QED
    BY <2>1 DEF Lingers
<1>4. ASSUME NEW b \in Tracks, OnTrackStart(b)
      PROVE  /\ twice' = twice
             /\ \A s \in Sessions : Lingers(s)' => Lingers(s)
  <2>1. /\ UNCHANGED <<pc, twice>>
        /\ \A d \in Tracks : d # b => onTrack'[d] = onTrack[d]
    BY <1>4 DEF TypeOK, OnTrackStart
  <2>2. InCall(Owner(b))
    BY <1>4, OwnerKey, OpenInCall DEF OnTrackStart, WiredAfterJoin
  <2> QED
    BY <2>1, <2>2 DEF Lingers, InCall
<1>5. ASSUME \/ UNCHANGED vars
             \/ \E s \in Sessions : HandleOffer(s) \/ Wiring(s)
             \/ \E b \in Tracks : Track(b)
      PROVE  /\ twice' = twice
             /\ \A s \in Sessions : Lingers(s)' => Lingers(s)
  <2>1. UNCHANGED <<pc, twice>>
    BY <1>5 DEF HandleOffer, Wiring, AddExistingTracksTo, AddExistingTrack,
                AddExistingFails, AddExistingSink, OnTrackRegister, Track,
                OnTrackCollect, OnTrackPanics, OnTrackAdd, OnTrackSink, OnTrackRun,
                RunEnds, vars
  <2>2. \A b \in Tracks : onTrack'[b] = "start" => onTrack[b] = "start"
    <3>1. ASSUME NEW b \in Tracks, Track(b)
          PROVE  \A d \in Tracks : onTrack'[d] = "start" => onTrack[d] = "start"
      BY <3>1 DEF TypeOK, Track, OnTrackRegister, OnTrackCollect, OnTrackPanics,
                  OnTrackAdd, OnTrackSink, OnTrackRun, RunEnds
    <3>2. ASSUME \/ UNCHANGED vars
                 \/ \E s \in Sessions : HandleOffer(s) \/ Wiring(s)
          PROVE  onTrack' = onTrack
      BY <3>2 DEF HandleOffer, Wiring, AddExistingTracksTo, AddExistingTrack,
                  AddExistingFails, AddExistingSink, vars
    <3> QED
      BY <1>5, <3>1, <3>2
  <2> QED
    BY <2>1, <2>2 DEF Lingers, InCall
<1> QED
  BY <1>1, <1>2, <1>3, <1>4, <1>5 DEF Next

LEMMA LateStep ==
    ASSUME TypeOK, WiredAfterJoin, OverlapSeen, LateSeen, [Next]_vars
    PROVE  LateSeen'
<1>1. \A s \in Sessions : Sole(s)' => Sole(s)
  BY OverlapStep
<1>2. late \subseteq late'
  BY DEF Next, Leave, Wiring, Track, vars, Join, HandleOffer, LeavePeers,
         LeaveBroadcasters, ClosePC, AddExistingTracksTo, AddExistingTrack,
         AddExistingFails, AddExistingSink, OnTrackStart, OnTrackRegister, OnTrackCollect,
         OnTrackPanics, OnTrackAdd, OnTrackSink, OnTrackRun, RunEnds
<1>3. \A t \in Sessions : InCall(t)' => InCall(t) \/ Join(t)
  <2>1. ASSUME NEW s \in Sessions, Join(s) \/ LeavePeers(s) \/ Leave(s)
        PROVE  \A t \in Sessions : InCall(t)' => InCall(t) \/ Join(t)
    <3>1. CASE Join(s)
      <4>1. \A t \in Sessions : t # s => pc'[t] = pc[t]
        BY <3>1 DEF TypeOK, Join
      <4> QED
        BY <3>1, <4>1 DEF InCall
    <3>2. CASE LeavePeers(s) \/ Leave(s)
      BY <3>2 DEF TypeOK, LeavePeers, Leave, LeaveBroadcasters, ClosePC, InCall
    <3> QED
      BY <2>1, <3>1, <3>2
  <2>2. ASSUME \/ UNCHANGED vars
               \/ \E s \in Sessions : HandleOffer(s) \/ Wiring(s)
               \/ \E b \in Tracks : OnTrackStart(b) \/ Track(b)
        PROVE  pc' = pc
    <3>1. ASSUME NEW b \in Tracks, OnTrackStart(b) \/ Track(b) PROVE pc' = pc
      BY <3>1 DEF OnTrackStart, Track, OnTrackRegister, OnTrackCollect, OnTrackPanics,
                  OnTrackAdd, OnTrackSink, OnTrackRun, RunEnds
    <3>2. ASSUME NEW s \in Sessions, HandleOffer(s) \/ Wiring(s) PROVE pc' = pc
      BY <3>2 DEF HandleOffer, Wiring, AddExistingTracksTo, AddExistingTrack,
                  AddExistingFails, AddExistingSink
    <3> QED
      BY <2>2, <3>1, <3>2 DEF vars
  <2> QED
    BY <2>1, <2>2 DEF Next, InCall
<1> SUFFICES ASSUME NEW b \in Tracks, NEW t \in Sessions, NEW x \in Unsunk(b)',
                    x # t, InCall(t)', userOf[x] = userOf[t], Sole(t)'
             PROVE  <<t, b>> \in late'
  BY DEF LateSeen
<1>4. x \in Sessions
  BY DEF Unsunk
<1>5. CASE x \in Unsunk(b) /\ InCall(t)
  BY <1>1, <1>2, <1>5 DEF LateSeen
<1>6. CASE x \in Unsunk(b) /\ Join(t)
  BY <1>6 DEF Join
<1>7. CASE x \notin Unsunk(b)
  <2>1. /\ x \in Sessions /\ Open(x)
        /\ UNCHANGED pc
        /\ wiring[x] # "idle" \/ x \in targets[b]
    BY <1>7, UnsunkGrows
  <2>2. InCall(x)
    BY <2>1, OpenInCall DEF WiredAfterJoin
  <2>3. InCall(t)
    BY <2>1 DEF InCall
  <2> QED
    BY <1>1, <1>4, <2>2, <2>3 DEF OverlapSeen, Lingers
<1> QED
  BY <1>3, <1>5, <1>6, <1>7

\* A step of one session leaves the entries alone of whoever is in the call and
\* whose user was never there twice.
LEMMA EntriesStep ==
    ASSUME TypeOK, WiredAfterJoin, OverlapSeen, EntriesPresent, [Next]_vars
    PROVE  EntriesPresent'
<1>0. OverlapSeen' /\ \A s \in Sessions : Sole(s)' => Sole(s)
  BY OverlapStep
<1>1. ASSUME NEW s \in Sessions, Join(s) PROVE EntriesPresent'
  <2>1. /\ pc[s] = "idle" /\ pc'[s] = "call" /\ peers'[userOf[s]] = s
        /\ \A t \in Sessions : t # s => pc'[t] = pc[t]
        /\ \A u \in Users : u # userOf[s] => peers'[u] = peers[u]
        /\ UNCHANGED <<broadcasters, onTrack>>
    BY <1>1, UserOfAssumption DEF TypeOK, Join
  <2>2. \A b \in Tracks : Owner(b) = s => onTrack[b] = "idle"
    BY <2>1 DEF WiredAfterJoin
  <2>3. \A t \in Sessions : t # s /\ pc[t] = "call" /\ Sole(t)' => userOf[t] # userOf[s]
    BY <1>0, <2>1 DEF OverlapSeen, Lingers, InCall
  <2> QED
    BY <1>0, <2>1, <2>2, <2>3, UserOfAssumption DEF EntriesPresent, Published
<1>2. ASSUME NEW s \in Sessions, LeavePeers(s) PROVE EntriesPresent'
  <2>1. /\ pc[s] = "call" /\ pc'[s] # "call"
        /\ \A t \in Sessions : t # s => pc'[t] = pc[t]
        /\ \A u \in Users : u # userOf[s] => peers'[u] = peers[u]
        /\ UNCHANGED <<broadcasters, onTrack>>
    BY <1>2, UserOfAssumption DEF TypeOK, LeavePeers
  <2>2. \A t \in Sessions : t # s /\ pc[t] = "call" /\ Sole(t) => userOf[t] # userOf[s]
    BY <2>1 DEF OverlapSeen, Lingers, InCall
  <2> QED
    BY <1>0, <2>1, <2>2, UserOfAssumption DEF EntriesPresent, Published
<1>3. ASSUME NEW s \in Sessions, LeaveBroadcasters(s) PROVE EntriesPresent'
  <2>1. /\ pc[s] = "sweep" /\ pc'[s] # "call"
        /\ \A t \in Sessions : t # s => pc'[t] = pc[t]
        /\ UNCHANGED <<peers, onTrack>>
    BY <1>3 DEF TypeOK, LeaveBroadcasters
  <2>2. \A b \in Tracks : userOf[Owner(b)] # userOf[s]
                            => broadcasters'[Key(b)] = broadcasters[Key(b)]
    <3> SUFFICES ASSUME NEW b \in Tracks, userOf[Owner(b)] # userOf[s]
                 PROVE  broadcasters'[Key(b)] = broadcasters[Key(b)]
      OBVIOUS
    <3>1. Key(b) \in Users \X Kinds /\ Key(b)[1] # userOf[s]
      BY OwnerKey
    <3> QED
      BY <1>3, <3>1 DEF LeaveBroadcasters
  <2>3. \A t \in Sessions : t # s /\ pc[t] = "call" /\ Sole(t) => userOf[t] # userOf[s]
    BY <2>1 DEF OverlapSeen, Lingers, InCall
  <2> QED
    BY <1>0, <2>1, <2>2, <2>3 DEF EntriesPresent, Published
<1>4. ASSUME NEW b \in Tracks, OnTrackRegister(b) PROVE EntriesPresent'
  <2>1. /\ pc' = pc /\ peers' = peers
        /\ broadcasters' = [broadcasters EXCEPT ![Key(b)] = Owner(b)]
        /\ \A d \in Tracks : d # b => onTrack'[d] = onTrack[d]
    BY <1>4 DEF TypeOK, OnTrackRegister
  <2>2. Lingers(Owner(b)) /\ Owner(b) \in Sessions
    BY <1>4, OwnerKey DEF OnTrackRegister, Lingers
  <2>3. ASSUME NEW d \in Tracks, pc[Owner(d)] = "call", Sole(Owner(d)),
               Published(d)'
        PROVE  broadcasters'[Key(d)] = Owner(d)
    <3>1. CASE Key(d) = Key(b)
      <4>1. userOf[Owner(d)] = userOf[Owner(b)]
        BY <3>1, OwnerKey
      <4>2. Owner(d) = Owner(b)
        BY <2>2, <2>3, <4>1, OwnerKey DEF OverlapSeen, Lingers, InCall
      <4> QED
        BY <2>1, <3>1, <4>2, OwnerKey DEF TypeOK
    <3>2. CASE Key(d) # Key(b)
      <4>1. broadcasters'[Key(d)] = broadcasters[Key(d)]
        BY <2>1, <3>2, OwnerKey DEF TypeOK
      <4>2. Published(d)
        BY <2>1, <2>3, <3>2 DEF Published
      <4> QED
        BY <2>3, <4>1, <4>2, OwnerKey DEF EntriesPresent
    <3> QED
      BY <3>1, <3>2
  <2> QED
    BY <1>0, <2>1, <2>3 DEF EntriesPresent
<1>5. ASSUME UNCHANGED <<peers, broadcasters, pc>>,
             \A b \in Tracks : Published(b)' => Published(b)
      PROVE  EntriesPresent'
  BY <1>0, <1>5 DEF EntriesPresent
<1>6. ASSUME NEW s \in Sessions, HandleOffer(s) \/ Wiring(s)
      PROVE  EntriesPresent'
  <2>1. UNCHANGED <<peers, broadcasters, pc, onTrack>>
    BY <1>6 DEF HandleOffer, Wiring, AddExistingTracksTo, AddExistingTrack,
                AddExistingFails, AddExistingSink
  <2> QED
    BY <1>5, <2>1 DEF Published
<1>7. ASSUME NEW s \in Sessions, ClosePC(s) PROVE EntriesPresent'
  BY <1>0, <1>7 DEF TypeOK, EntriesPresent, ClosePC, Published
<1>8. ASSUME NEW b \in Tracks,
             OnTrackStart(b) \/ (Track(b) /\ ~OnTrackRegister(b))
      PROVE  EntriesPresent'
  <2>1. UNCHANGED <<peers, broadcasters, pc>>
    BY <1>8 DEF OnTrackStart, Track, OnTrackCollect, OnTrackPanics, OnTrackAdd,
                OnTrackSink, OnTrackRun, RunEnds
  <2>2. \A d \in Tracks : Published(d)' => Published(d)
    BY <1>8 DEF TypeOK, Published, OnTrackStart, Track, OnTrackCollect,
                OnTrackPanics, OnTrackAdd, OnTrackSink, OnTrackRun, RunEnds
  <2> QED
    BY <1>5, <2>1, <2>2
<1>9. CASE UNCHANGED vars
  BY <1>5, <1>9 DEF vars, Published
<1> QED
  BY <1>1, <1>2, <1>3, <1>4, <1>6, <1>7, <1>8, <1>9 DEF Next, Leave, Track

\* The room that OnTrack finds empty has nobody of a user who was there once.
LEMMA CrashedStep ==
    ASSUME EntriesPresent, CrashedEmpty, [Next]_vars
    PROVE  CrashedEmpty'
<1>1. ASSUME NEW b \in Tracks, OnTrackPanics(b) PROVE CrashedEmpty'
  <2>1. \A s \in Sessions : pc[s] = "call" => ~Sole(s)
    <3> SUFFICES ASSUME NEW s \in Sessions, pc[s] = "call", Sole(s) PROVE FALSE
      OBVIOUS
    <3>1. peers[userOf[s]] = s /\ userOf[s] \in Users
      BY UserOfAssumption DEF EntriesPresent
    <3> QED
      BY <1>1, <3>1, NoneAssumption DEF OnTrackPanics
  <2> QED
    BY <1>1, <2>1 DEF OnTrackPanics, CrashedEmpty, Sole
<1>3. CASE UNCHANGED vars
  BY <1>3 DEF vars, CrashedEmpty, Sole
<1>4. \/ \E b \in Tracks : OnTrackPanics(b)
      \/ ~crashed /\ UNCHANGED crashed
      \/ UNCHANGED vars
  BY DEF Next, Leave, Wiring, Track, vars, Join, HandleOffer, LeavePeers,
         LeaveBroadcasters, ClosePC, AddExistingTracksTo, AddExistingTrack,
         AddExistingFails, AddExistingSink, OnTrackStart, OnTrackRegister, OnTrackCollect,
         OnTrackAdd, OnTrackSink, OnTrackRun, RunEnds
<1>5. CASE ~crashed /\ UNCHANGED crashed
  BY <1>5 DEF CrashedEmpty
<1> QED
  BY <1>1, <1>3, <1>4, <1>5

-----------------------------------------------------------------------------
(* Nothing is missed.                                                      *)

\* The sink that is written for one session takes the place of no other's, unless
\* that was seen.
LEMMA SinkStays ==
    ASSUME TypeOK, LateSeen, NEW x \in Sessions, NEW d \in Tracks, x \in Unsunk(d),
           AddSink(d, x), NEW b \in Tracks, NEW t \in Sessions,
           InCall(t), Sole(t), Receives(t, b) \/ <<t, b>> \in late
    PROVE  sinks'[b][userOf[t]] = t \/ <<t, b>> \in late
<1>1. CASE d = b /\ userOf[x] = userOf[t]
  <2>1. CASE x = t
    BY <1>1, <2>1, AddSinkEffect
  <2>2. CASE x # t
    BY <1>1, <2>2 DEF LateSeen
  <2> QED
    BY <2>1, <2>2
<1>2. CASE ~(d = b /\ userOf[x] = userOf[t])
  <2>1. userOf[t] \in Users
    BY UserOfAssumption
  <2> QED
    BY <1>2, <2>1, AddSinkEffect DEF Receives
<1> QED
  BY <1>1, <1>2

\* A wired peer goes on receiving, or waiting for, a track it did.
LEMMA ReceivesStep ==
    ASSUME TypeOK, SendersCounted, UnsunkBusy, WiredAfterJoin, OverlapSeen,
           EntriesPresent, LateSeen, ReceivesOrWill, [Next]_vars
    PROVE  ReceivesOrWill'
<1>9. \A s \in Sessions : Sole(s)' => Sole(s)
  BY OverlapStep
<1> DEFINE Pre(b, t) == /\ pc[Owner(b)] = "call" /\ Published(b)
                        /\ pc[t] = "call" /\ Passed(t, b) /\ t # Owner(b)
                        /\ Sole(Owner(b)) /\ Sole(t)
           Post(b, t) == \/ Receives(t, b) \/ <<t, b>> \in late
                         \/ onTrack[b] = "collect"
                         \/ onTrack[b] = "wire" /\ t \in targets[b]
                         \/ t \in Unsunk(b)
<1>0. /\ ReceivesOrWill = \A b \in Tracks, t \in Sessions : Pre(b, t) => Post(b, t)
      /\ ReceivesOrWill' = \A b \in Tracks, t \in Sessions : Pre(b, t)' => Post(b, t)'
  BY DEF ReceivesOrWill
<1>1. ASSUME NEW s \in Sessions,
             \/ Join(s) \/ LeavePeers(s) \/ ClosePC(s) \/ HandleOffer(s)
      PROVE  ReceivesOrWill'
  <2>1. /\ UNCHANGED <<sinks, onTrack, targets, target, bc, existing>>
        /\ late \subseteq late'
    BY <1>1 DEF Join, LeavePeers, ClosePC, HandleOffer
  <2>2. \A b \in Tracks, t \in Sessions : Pre(b, t)' => Pre(b, t)
    <3>1. \A t \in Sessions :
             pc'[t] = "call" => pc[t] = "call" \/ (wiring[t] = "idle" /\ wiring'[t] = "idle" /\ t = s)
      BY <1>1 DEF TypeOK, WiredAfterJoin, Join, LeavePeers, ClosePC, HandleOffer
    <3>2. \A t \in Sessions : wiring'[t] \in {"adding", "done"} => wiring[t] = wiring'[t]
      BY <1>1 DEF TypeOK, Join, LeavePeers, ClosePC, HandleOffer
    <3> QED
      BY <1>9, <2>1, <3>1, <3>2, OwnerKey DEF WiredAfterJoin, Passed, Published
  <2> QED
    BY <1>0, <2>1, <2>2 DEF Receives, Unsunk
<1>2. ASSUME NEW s \in Sessions, LeaveBroadcasters(s) PROVE ReceivesOrWill'
  <2>1. /\ UNCHANGED <<wiring, existing, bc, onTrack, targets, target, twice, late>>
        /\ pc[s] = "sweep"
        /\ \A t \in Sessions : pc'[t] = "call" => pc[t] = "call" /\ t # s
    BY <1>2 DEF TypeOK, LeaveBroadcasters
  <2>2. \A b \in Tracks, t \in Sessions :
           userOf[t] # userOf[s] => sinks'[b][userOf[t]] = sinks[b][userOf[t]]
    BY <1>2, UserOfAssumption DEF TypeOK, LeaveBroadcasters
  <2> SUFFICES ASSUME NEW b \in Tracks, NEW t \in Sessions, Pre(b, t)'
               PROVE  Post(b, t)'
    BY <1>0
  <2>3. Pre(b, t) /\ userOf[t] # userOf[s]
    BY <2>1, OwnerKey DEF Sole, OverlapSeen, Lingers, InCall, Passed, Published
  <2> QED
    BY <1>0, <2>1, <2>2, <2>3 DEF Receives, Unsunk
<1>3. ASSUME NEW s \in Sessions, AddExistingTracksTo(s) PROVE ReceivesOrWill'
  <2>1. /\ UNCHANGED <<pc, sinks, bc, onTrack, targets, target, broadcasters, twice, late>>
        /\ existing'[s] = Registered
        /\ wiring'[s] = IF Registered = {} THEN "done" ELSE "adding"
        /\ \A t \in Sessions : t # s => wiring'[t] = wiring[t] /\ existing'[t] = existing[t]
    BY <1>3 DEF TypeOK, AddExistingTracksTo, GoesOn
  <2> SUFFICES ASSUME NEW b \in Tracks, NEW t \in Sessions, Pre(b, t)'
               PROVE  Post(b, t)'
    BY <1>0
  <2>2. t # s
    <3> SUFFICES ASSUME t = s PROVE FALSE
      OBVIOUS
    <3>1. b \in Registered
      BY <2>1, OwnerKey DEF EntriesPresent, Registered, Sole, Published
    <3> QED
      BY <2>1, <3>1 DEF Passed
  <2>3. Pre(b, t)
    BY <2>1, <2>2 DEF Sole, Passed, Published
  <2> QED
    BY <1>0, <2>1, <2>3 DEF Receives, Unsunk
<1>4. ASSUME NEW s \in Sessions, AddExistingTrack(s) PROVE ReceivesOrWill'
  <2>1. PICK d \in existing[s] :
              /\ d \in Tracks
              /\ existing' = [existing EXCEPT ![s] = @ \ {d}]
              /\ bc' = [bc EXCEPT ![s] = d]
    BY <1>4, ExistingAdds
  <2>2. /\ UNCHANGED <<pc, sinks, wiring, onTrack, targets, target, twice, late>>
        /\ bc[s] = None /\ bc'[s] = d /\ existing'[s] = existing[s] \ {d}
        /\ \A t \in Sessions : t # s => bc'[t] = bc[t] /\ existing'[t] = existing[t]
    BY <1>4, <2>1 DEF TypeOK, AddExistingTrack
  <2> SUFFICES ASSUME NEW b \in Tracks, NEW t \in Sessions, Pre(b, t)'
               PROVE  Post(b, t)'
    BY <1>0
  <2>3. CASE t = s /\ b = d
    BY <2>2, <2>3 DEF Unsunk
  <2>4. CASE ~(t = s /\ b = d)
    <3>1. Pre(b, t)
      BY <2>2, <2>4 DEF Sole, Passed, Published
    <3>2. t \in Unsunk(b) => t \in Unsunk(b)'
      BY <2>2, NoneAssumption DEF Unsunk
    <3> QED
      BY <1>0, <2>2, <3>1, <3>2 DEF Receives
  <2> QED
    BY <2>3, <2>4
<1>5. ASSUME NEW s \in Sessions, AddExistingFails(s) PROVE ReceivesOrWill'
  <2>1. /\ UNCHANGED <<pc, sinks, bc, onTrack, targets, target, twice, late>>
        /\ pc[s] = "done"
        /\ \A t \in Sessions : t # s => wiring'[t] = wiring[t] /\ existing'[t] = existing[t]
    BY <1>5 DEF TypeOK, AddExistingFails, GoesOn, Open
  <2>2. \A b \in Tracks, t \in Sessions : Pre(b, t)' => Pre(b, t)
    BY <2>1 DEF Sole, Passed, Published
  <2> QED
    BY <1>0, <2>1, <2>2 DEF Receives, Unsunk
<1>6. ASSUME NEW s \in Sessions, AddExistingSink(s) PROVE ReceivesOrWill'
  <2>1. /\ bc[s] \in Tracks /\ s \in Unsunk(bc[s]) /\ AddSink(bc[s], s)
        /\ wiring[s] = "adding"
    BY <1>6 DEF TypeOK, UnsunkBusy, AddExistingSink, Unsunk
  <2>2. /\ UNCHANGED <<pc, existing, onTrack, targets, target, twice, late>>
        /\ bc' = [bc EXCEPT ![s] = None]
        /\ wiring'[s] = IF existing[s] = {} THEN "done" ELSE "adding"
        /\ \A t \in Sessions : t # s => wiring'[t] = wiring[t]
    BY <1>6 DEF TypeOK, AddExistingSink, GoesOn
  <2> SUFFICES ASSUME NEW b \in Tracks, NEW t \in Sessions, Pre(b, t)'
               PROVE  Post(b, t)'
    BY <1>0
  <2>3. Pre(b, t) /\ Post(b, t) /\ InCall(t)
    <3>1. Pre(b, t)
      BY <2>1, <2>2 DEF Sole, Passed, Published
    <3> QED
      BY <1>0, <3>1 DEF InCall
  <2>4. CASE Receives(t, b) \/ <<t, b>> \in late
    BY <2>1, <2>2, <2>3, <2>4, SinkStays DEF Receives
  <2>5. CASE t \in Unsunk(b)
    <3>1. CASE t \in Unsunk(b)'
      BY <3>1
    <3>2. CASE t \notin Unsunk(b)'
      <4>1. t = s /\ b = bc[s]
        BY <2>2, <2>5, <3>2 DEF TypeOK, Unsunk
      <4>2. sinks'[b][userOf[t]] = t
        BY <2>1, <4>1, AddSinkEffect
      <4> QED
        BY <4>2 DEF Receives
    <3> QED
      BY <3>1, <3>2
  <2> QED
    BY <2>2, <2>3, <2>4, <2>5
<1>7. ASSUME NEW d \in Tracks, OnTrackRegister(d) PROVE ReceivesOrWill'
  <2>1. /\ UNCHANGED <<pc, wiring, existing, bc, sinks, targets, target, twice, late>>
        /\ onTrack'[d] = "collect"
        /\ \A b \in Tracks : b # d => onTrack'[b] = onTrack[b]
    BY <1>7 DEF TypeOK, OnTrackRegister
  <2> QED
    BY <1>0, <2>1 DEF Receives, Sole, Passed, Unsunk, Published
<1>8. ASSUME NEW d \in Tracks, OnTrackCollect(d) PROVE ReceivesOrWill'
  <2>1. /\ UNCHANGED <<pc, wiring, existing, bc, sinks, target, twice, late>>
        /\ onTrack'[d] = "wire"
        /\ targets'[d] = {t \in Sessions :
                            \E u \in Users \ {userOf[Owner(d)]} : peers[u] = t}
        /\ \A b \in Tracks : b # d => onTrack'[b] = onTrack[b] /\ targets'[b] = targets[b]
    BY <1>8 DEF TypeOK, OnTrackCollect
  <2>2. \A t \in Sessions :
           pc[t] = "call" /\ Sole(t) /\ pc[Owner(d)] = "call" /\ t # Owner(d)
             => t \in targets'[d]
    BY <2>1, OwnerKey, UserOfAssumption DEF EntriesPresent, OverlapSeen, Lingers, InCall
  <2> SUFFICES ASSUME NEW b \in Tracks, NEW t \in Sessions, Pre(b, t)'
               PROVE  Post(b, t)'
    BY <1>0
  <2>3. CASE b = d
    <3>1. onTrack'[b] = "wire" /\ t \in targets'[b]
      BY <2>1, <2>2, <2>3 DEF Sole
    <3> QED
      BY <3>1
  <2>4. CASE b # d
    BY <1>0, <2>1, <2>4 DEF Receives, Sole, Passed, Unsunk, Published
  <2> QED
    BY <2>3, <2>4
<1>10. ASSUME NEW d \in Tracks, OnTrackAdd(d) PROVE ReceivesOrWill'
  <2>1. PICK x \in targets[d] :
          /\ x \in Sessions
          /\ targets' = [targets EXCEPT ![d] = @ \ {x}]
          /\ \/ Open(x) /\ target' = [target EXCEPT ![d] = x]
             \/ ~Open(x) /\ UNCHANGED target
    BY <1>10, TargetAdds
  <2>2. /\ UNCHANGED <<pc, wiring, existing, bc, sinks, onTrack, twice, late>>
        /\ target[d] = None
        /\ targets'[d] = targets[d] \ {x}
        /\ \A b \in Tracks : b # d => targets'[b] = targets[b] /\ target'[b] = target[b]
        /\ Open(x) => target'[d] = x
    BY <1>10, <2>1 DEF TypeOK, OnTrackAdd
  <2> SUFFICES ASSUME NEW b \in Tracks, NEW t \in Sessions, Pre(b, t)'
               PROVE  Post(b, t)'
    BY <1>0
  <2>3. Post(b, t) /\ pc[t] = "call"
    BY <1>0, <2>2 DEF Sole, Passed, Published
  <2>4. CASE b = d /\ t = x
    BY <2>2, <2>3, <2>4 DEF Open, Unsunk
  <2>5. CASE ~(b = d /\ t = x)
    <3>1. t \in Unsunk(b) => t \in Unsunk(b)'
      BY <2>2, NoneAssumption DEF Unsunk
    <3> QED
      BY <2>2, <2>3, <2>5, <3>1 DEF Receives
  <2> QED
    BY <2>4, <2>5
<1>11. ASSUME NEW d \in Tracks, OnTrackSink(d) PROVE ReceivesOrWill'
  <2> DEFINE x == target[d]
  <2>1. x \in Sessions /\ x \in Unsunk(d) /\ AddSink(d, x)
    BY <1>11 DEF TypeOK, OnTrackSink, Unsunk
  <2>2. /\ UNCHANGED <<pc, wiring, existing, bc, onTrack, targets, twice, late>>
        /\ target' = [target EXCEPT ![d] = None]
    BY <1>11 DEF OnTrackSink
  <2> SUFFICES ASSUME NEW b \in Tracks, NEW t \in Sessions, Pre(b, t)'
               PROVE  Post(b, t)'
    BY <1>0
  <2>3. Post(b, t) /\ InCall(t) /\ Sole(t)
    BY <1>0, <2>2 DEF Sole, Passed, InCall, Published
  <2>4. CASE Receives(t, b) \/ <<t, b>> \in late
    <3>1. sinks'[b][userOf[t]] = t \/ <<t, b>> \in late
      BY <2>1, <2>3, <2>4, SinkStays
    <3> QED
      BY <2>2, <3>1 DEF Receives
  <2>5. CASE t \in Unsunk(b)
    <3>1. CASE t \in Unsunk(b)'
      BY <3>1
    <3>2. CASE t \notin Unsunk(b)'
      <4>1. t = x /\ b = d
        BY <2>2, <2>5, <3>2 DEF TypeOK, Unsunk
      <4>2. sinks'[b][userOf[t]] = t
        BY <2>1, <4>1, AddSinkEffect
      <4> QED
        BY <4>2 DEF Receives
    <3> QED
      BY <3>1, <3>2
  <2> QED
    BY <2>2, <2>3, <2>4, <2>5
<1>12. ASSUME NEW d \in Tracks, OnTrackRun(d) \/ RunEnds(d) PROVE ReceivesOrWill'
  <2>1. /\ UNCHANGED <<pc, wiring, existing, bc, sinks, targets, target, twice, late>>
        /\ (onTrack[d] = "wire" /\ targets[d] = {}) \/ onTrack[d] = "run"
        /\ \A b \in Tracks : b # d => onTrack'[b] = onTrack[b]
    BY <1>12 DEF TypeOK, OnTrackRun, RunEnds
  <2> SUFFICES ASSUME NEW b \in Tracks, NEW t \in Sessions, Pre(b, t)'
               PROVE  Post(b, t)'
    BY <1>0
  <2>2. Pre(b, t)
    BY <2>1 DEF Sole, Passed, Published
  <2>3. ~(onTrack[b] = "wire" /\ t \in targets[b] /\ b = d)
    BY <2>1
  <2>4. Post(b, t)
    BY <1>0, <2>2
  <2> QED
    BY <2>1, <2>3, <2>4 DEF Receives, Unsunk
<1>14. ASSUME NEW d \in Tracks, OnTrackStart(d) PROVE ReceivesOrWill'
  <2>1. /\ UNCHANGED <<pc, wiring, existing, bc, sinks, targets, target, twice, late>>
        /\ onTrack'[d] = "start"
        /\ \A b \in Tracks : b # d => onTrack'[b] = onTrack[b]
    BY <1>14 DEF TypeOK, OnTrackStart
  <2> QED
    BY <1>0, <2>1 DEF Receives, Sole, Passed, Unsunk, Published
<1>13. ASSUME \/ UNCHANGED vars
              \/ \E b \in Tracks : OnTrackPanics(b)
       PROVE  ReceivesOrWill'
  <2>1. UNCHANGED <<pc, offer, sinks, track, history>>
    BY <1>13 DEF OnTrackPanics, vars
  <2> QED
    BY <1>0, <2>1 DEF Receives, Sole, Passed, Unsunk, Published
<1> QED
  BY <1>1, <1>2, <1>3, <1>4, <1>5, <1>6, <1>7, <1>8, <1>10, <1>11, <1>12, <1>13,
     <1>14      DEF Next, Leave, Wiring, Track

-----------------------------------------------------------------------------
(* The theorems.                                                           *)

LEMMA InvInit == Init => IInv
<1> SUFFICES ASSUME Init PROVE IInv
  OBVIOUS
<1>1. WiredAfterJoin
  BY NoneAssumption DEF Init, WiredAfterJoin, Unsunk
<1>2. EntriesPresent /\ OverlapSeen /\ LateSeen
  BY DEF Init, EntriesPresent, OverlapSeen, LateSeen, Lingers, InCall
<1>3. ReceivesOrWill
  BY OwnerKey DEF Init, ReceivesOrWill, Published
<1>4. UnsunkBusy /\ CrashedEmpty
  BY DEF Init, UnsunkBusy, CrashedEmpty
<1> QED
  BY <1>1, <1>2, <1>3, <1>4, TypeInit DEF IInv

LEMMA InvStep == IInv /\ [Next]_vars => IInv'
BY TypeStep, CountStep, BusyStep, WiredStep, OverlapStep, EntriesStep, LateStep,
   ReceivesStep, CrashedStep DEF IInv

\* IInv holds in every reachable state: the types, the count of what is added to
\* a PeerConnection, and that whoever is in the call, and whose user has had no two
\* sessions that overlapped, is in the maps and receives each track or is still to
\* be given it, unless a goroutine was between AddSenderTrack and AddSink of that
\* track for the user's previous session when this one joined.
THEOREM Inductive == Spec => []IInv
BY InvInit, InvStep, PTL DEF Spec

\* Every variable keeps its type; in particular no track is added to one
\* PeerConnection more than twice (room.go:105-160).
THEOREM TypeCorrect == Spec => []TypeOK
<1>1. IInv => TypeOK
  BY DEF IInv
<1> QED
  BY <1>1, Inductive, PTL

\* Two peers in the call that have been wired receive each other's tracks, in
\* whatever order the steps of OnTrack, Join, the offer and Leave of all the peers
\* are interleaved, AddSenderTrack and AddSink being two steps; unless a
\* session of one of the two users joined while another was in the call or its
\* OnTrack yet to register, or the peer joined while a goroutine was between those
\* two steps for the user's previous session and this very track (room.go:105-160).
THEOREM NothingIsMissed == Spec => []NoMissedTrack
<1>1. IInv => NoMissedTrack
  <2> SUFFICES ASSUME IInv, NEW b \in Tracks, NEW t \in Sessions,
                      pc[Owner(b)] = "call", onTrack[b] \in {"run", "done"},
                      pc[t] = "call", wiring[t] = "done", t # Owner(b),
                      Sole(Owner(b)), Sole(t)
               PROVE  Receives(t, b) \/ <<t, b>> \in late
    BY DEF NoMissedTrack
  <2>1. t \notin Unsunk(b)
    BY NoneAssumption DEF IInv, UnsunkBusy, Unsunk
  <2>2. Passed(t, b) /\ Published(b)
    BY DEF Passed, Published
  <2> QED
    BY <2>1, <2>2 DEF IInv, ReceivesOrWill
<1> QED
  BY <1>1, Inductive, PTL
=============================================================================
