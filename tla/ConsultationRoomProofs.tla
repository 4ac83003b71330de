----------------------- MODULE ConsultationRoomProofs -----------------------
(***************************************************************************)
(* Proofs about ConsultationRoom, for any number of rooms, owners and      *)
(* requests, whatever order the webhooks arrive in.                        *)
(***************************************************************************)
EXTENDS ConsultationRoom, TLAPS

-----------------------------------------------------------------------------
(* The inductive invariant.                                                *)

\* A request about to write its row has a room of its own, which has no row yet.
RoomsInHand ==
  \A q \in RoomRequest :
    /\ starts[q].stage = "insert" => starts[q].room # NoRoom
    /\ starts[q].room # NoRoom =>
         /\ session[starts[q].room] = "none" /\ atLivekit[starts[q].room] # "none"
         /\ \A p \in RoomRequest \ {q} : starts[p].room # starts[q].room

\* A row is written, and links are handed out, after the room was created.
RowsHaveRooms ==
  \A x \in Room : atLivekit[x] = "none" => session[x] = "none" /\ x \notin linked

\* The partial unique index.
OneOpenRow == \A x, y \in Room : Open(x) /\ Open(y) /\ owner[x] = owner[y] => x = y

\* A room that has ended, even if somebody has come back to it since.
Over(x) == atLivekit[x] = "gone" \/ x \in rejoined

\* LiveKit reports the end of rooms that have ended, and a row ends by that
\* report or by the sweep.
EndsAreReal ==
  /\ \A h \in hooks : h.event = "room_finished" => Over(h.room)
  /\ \A x \in Room : session[x] = "ended" => Over(x) \/ x \in halfHour

\* An entry is due, written or missing for want of an order only once the row has
\* ended.
LoggedIfEnded ==
  \A x \in Room : session[x] # "ended" => endLogged[x] = NoEntries

RoomInv ==
  /\ RoomTypeOK /\ RoomsInHand /\ RowsHaveRooms /\ OneOpenRow
  /\ EndsAreReal /\ LoggedIfEnded /\ EndIsLoggedOnce

-----------------------------------------------------------------------------
(* What the steps do.                                                      *)

LEMMA StartFields ==
  \A s \in Start :
    /\ s.stage \in StartStage /\ s.owner \in Owner \cup {NoOwner}
    /\ s.room \in Room \cup {NoRoom}
BY DEF Start

LEMMA StartIdleType == StartIdle \in Start
BY DEF StartIdle, Start, StartStage

\* A request that moves on without a new room.
LEMMA StartMoves ==
  ASSUME RoomTypeOK, NEW q \in RoomRequest, NEW stage \in StartStage,
         StartGoto(q, stage) \/ StartRespond(q)
  PROVE  /\ starts' \in [RoomRequest -> Start]
         /\ \A p \in RoomRequest \ {q} : starts'[p] = starts[p]
         /\ StartGoto(q, stage) => starts'[q].stage = stage /\ starts'[q].room = starts[q].room
         /\ StartRespond(q) => starts'[q].stage = "idle" /\ starts'[q].room = NoRoom
<1> USE DEF RoomTypeOK
<1>1. CASE StartGoto(q, stage)
  <2>1. [starts[q] EXCEPT !.stage = stage] \in Start
    BY DEF Start
  <2>2. [starts[q] EXCEPT !.stage = stage].stage = stage
        /\ [starts[q] EXCEPT !.stage = stage].room = starts[q].room
    BY DEF Start
  <2>3. starts' = [starts EXCEPT ![q] = [starts[q] EXCEPT !.stage = stage]]
    BY <1>1 DEF StartGoto
  <2>4. StartRespond(q) => starts'[q] = StartIdle
    BY DEF StartRespond
  <2>5. QED
    BY <2>1, <2>2, <2>3, <2>4 DEF StartIdle
<1>2. CASE StartRespond(q) /\ ~StartGoto(q, stage)
  BY <1>2, StartIdleType DEF StartRespond, StartIdle
<1>3. QED
  BY <1>1, <1>2

\* The entries of a room whose end has just been recorded.
Due == [due |-> 1, written |-> 0, missing |-> 0]
Undue == [due |-> 0, written |-> 0, missing |-> 1]

LEMMA EntryValues ==
  /\ NoEntries \in Entries /\ Ends(NoEntries) = 0
  /\ Due \in Entries /\ Ends(Due) = 1
  /\ Undue \in Entries /\ Ends(Undue) = 1
  /\ [NoEntries EXCEPT !.due = NoEntries.due + 1] = Due
  /\ [NoEntries EXCEPT !.missing = NoEntries.missing + 1] = Undue
BY DEF NoEntries, Entries, Due, Undue, Ends

\* What a delivery does to the row, in any state of it.
LEMMA Deliveries ==
  ASSUME RoomTypeOK, EndsAreReal, LoggedIfEnded, NEW h \in hooks, Handle(h)
  PROVE  /\ session' \in [Room -> SessionStatus] /\ endLogged' \in [Room -> Entries]
         /\ \A x \in Room :
              \/ session'[x] = session[x] /\ endLogged'[x] = endLogged[x]
              \/ /\ session[x] = "waiting" /\ session'[x] = "active"
                 /\ endLogged'[x] = endLogged[x]
              \/ /\ Open(x) /\ session'[x] = "ended" /\ Over(x)
                 /\ endLogged'[x] \in {Due, Undue}
<1> USE DEF RoomTypeOK
<1> DEFINE k == h.room
<1>1. k \in Room
  BY DEF Hook
<1>2. CASE UNCHANGED <<session, endLogged>>
  BY <1>2
<1>3. CASE ParticipantJoined(k)
  <2>1. /\ session' = [session EXCEPT ![k] = MarkActive(session[k])] /\ endLogged' = endLogged
        /\ MarkActive(session[k]) \in SessionStatus
    BY <1>1, <1>3 DEF ParticipantJoined, MarkActive, SessionStatus
  <2>2. QED
    BY <1>1, <2>1 DEF MarkActive
<1>4. CASE h.event = "room_finished" /\ RoomFinished(k)
  <2>1. Over(k)
    BY <1>4 DEF EndsAreReal
  <2>2. session' = [session EXCEPT ![k] = "ended"] /\ session[k] # "none"
    BY <1>4 DEF RoomFinished
  <2>3. CASE Open(k)
    <3>1. endLogged[k] = NoEntries
      BY <1>1, <2>3 DEF LoggedIfEnded, Open
    <3>2. \/ endLogged' = [endLogged EXCEPT ![k].due = endLogged[k].due + 1]
          \/ endLogged' = [endLogged EXCEPT ![k].missing = endLogged[k].missing + 1]
      BY <1>4, <2>3 DEF RoomFinished
    <3>3. \/ endLogged' = [endLogged EXCEPT ![k] = Due]
          \/ endLogged' = [endLogged EXCEPT ![k] = Undue]
      BY <1>1, <3>1, <3>2, EntryValues
    <3>4. "ended" \in SessionStatus
      BY DEF SessionStatus
    <3> HIDE DEF k
    <3>5. QED
      BY <1>1, <2>1, <2>2, <2>3, <3>3, <3>4, EntryValues
  <2>4. CASE ~Open(k)
    <3>1. session[k] = "ended"
      BY <1>1, <2>2, <2>4 DEF Open, SessionStatus
    <3>2. session' = session /\ endLogged' = endLogged
      BY <1>1, <1>4, <2>2, <2>4, <3>1 DEF RoomFinished
    <3>3. QED
      BY <3>2
  <2>5. QED
    BY <2>3, <2>4
<1>5. QED
  BY <1>2, <1>3, <1>4 DEF Handle

-----------------------------------------------------------------------------
(* The invariant is inductive.                                             *)

\* Whatever leaves the rows, the rooms and the webhooks alone, and hands no room
\* to a request.
LEMMA KeptByStarts ==
  ASSUME RoomInv, NEW q \in RoomRequest,
         UNCHANGED <<session, owner, atLivekit, halfHour, linked, hooks, givenUp, rejoined, endLogged>>,
         starts' \in [RoomRequest -> Start],
         \A p \in RoomRequest \ {q} : starts'[p] = starts[p],
         starts'[q].stage # "insert", starts'[q].room \in {NoRoom, starts[q].room}
  PROVE  RoomInv'
<1>1. RoomTypeOK'
  BY DEF RoomInv, RoomTypeOK
<1>2. RoomsInHand'
  BY DEF RoomInv, RoomsInHand
<1>3. RowsHaveRooms' /\ OneOpenRow' /\ EndsAreReal' /\ LoggedIfEnded' /\ EndIsLoggedOnce'
  BY DEF RoomInv, RowsHaveRooms, OneOpenRow, EndsAreReal, Over, LoggedIfEnded, EndIsLoggedOnce, Open
<1>4. QED
  BY <1>1, <1>2, <1>3 DEF RoomInv

\* A request that begins has no room.
LEMMA KeptByBeginning ==
  ASSUME RoomInv, NEW q \in RoomRequest, NEW u \in Owner, NEW stage \in {"sweep", "create"},
         starts' = [starts EXCEPT ![q] = [StartIdle EXCEPT !.stage = stage, !.owner = u]],
         UNCHANGED <<session, owner, atLivekit, halfHour, linked, hooks, givenUp, rejoined, endLogged>>
  PROVE  RoomInv'
<1> DEFINE new == [StartIdle EXCEPT !.stage = stage, !.owner = u]
<1>1. new \in Start /\ new.stage = stage /\ new.room = NoRoom
  BY DEF StartIdle, Start, StartStage
<1>2. starts \in [RoomRequest -> Start]
  BY DEF RoomInv, RoomTypeOK
<1>3. starts' = [starts EXCEPT ![q] = new]
  OBVIOUS
<1> HIDE DEF new
<1>4. QED
  BY <1>1, <1>2, <1>3, KeptByStarts

LEMMA KeptByMoving ==
  ASSUME RoomInv, NEW q \in RoomRequest, NEW stage \in StartStage \ {"insert"},
         StartGoto(q, stage) \/ StartRespond(q),
         UNCHANGED <<session, owner, atLivekit, halfHour, linked, hooks, givenUp, rejoined, endLogged>>
  PROVE  RoomInv'
<1>1. RoomTypeOK
  BY DEF RoomInv
<1>2. QED
  BY <1>1, StartMoves, KeptByStarts

LEMMA KeptByCreateRoom ==
  ASSUME RoomInv, NEW q \in RoomRequest, NEW x \in Room, CreateRoom(q, x)
  PROVE  RoomInv'
<1> USE DEF RoomInv, RoomTypeOK
<1>0. atLivekit' = [atLivekit EXCEPT ![x] = "empty"] /\ atLivekit[x] = "none"
      /\ UNCHANGED <<session, owner, halfHour, linked, hooks, givenUp, rejoined, endLogged>>
  BY DEF CreateRoom
<1>1. \A p \in RoomRequest : starts[p].room # x
  BY <1>0, RoomAssumption DEF RoomsInHand
<1>2. /\ starts' \in [RoomRequest -> Start]
      /\ \A p \in RoomRequest \ {q} : starts'[p] = starts[p]
      /\ \/ starts'[q].room = x
         \/ starts'[q].stage # "insert" /\ starts'[q].room = NoRoom
  <2>1. CASE StartRespond(q)
    BY <2>1, StartMoves DEF StartStage
  <2>2. CASE starts' = [starts EXCEPT ![q].stage = "insert", ![q].room = x]
    <3>1. [starts[q] EXCEPT !.stage = "insert", !.room = x] \in Start
          /\ [starts[q] EXCEPT !.stage = "insert", !.room = x].room = x
      BY DEF Start, StartStage
    <3>2. starts' = [starts EXCEPT ![q] = [starts[q] EXCEPT !.stage = "insert", !.room = x]]
      BY <2>2
    <3>3. QED
      BY <3>1, <3>2
  <2>3. QED
    BY <2>1, <2>2 DEF CreateRoom
<1>3. atLivekit' \in [Room -> {"none", "empty", "busy", "gone"}]
  BY <1>0
<1>4. session[x] = "none"
  BY <1>0 DEF RowsHaveRooms
<1>5. RoomsInHand'
  <2> SUFFICES ASSUME NEW p \in RoomRequest
               PROVE  /\ starts'[p].stage = "insert" => starts'[p].room # NoRoom
                      /\ starts'[p].room # NoRoom =>
                           /\ session'[starts'[p].room] = "none"
                           /\ atLivekit'[starts'[p].room] # "none"
                           /\ \A r \in RoomRequest \ {p} : starts'[r].room # starts'[p].room
    BY DEF RoomsInHand
  <2>1. CASE p = q
    BY <1>0, <1>1, <1>2, <1>4, <2>1, RoomAssumption
  <2>2. CASE p # q
    <3>1. starts'[p] = starts[p] /\ starts[p] \in Start
      BY <1>2, <2>2
    <3>2. starts[p].room # NoRoom => atLivekit'[starts[p].room] # "none"
      BY <1>0, <3>1, StartFields DEF RoomsInHand
    <3>3. starts[p].room # NoRoom => starts'[q].room # starts[p].room
      BY <1>1, <1>2
    <3>4. QED
      BY <1>0, <1>2, <3>1, <3>2, <3>3 DEF RoomsInHand
  <2>3. QED
    BY <2>1, <2>2
<1>6. RowsHaveRooms' /\ OneOpenRow'
  BY <1>0 DEF RowsHaveRooms, OneOpenRow, Open
<1>7. EndsAreReal' /\ LoggedIfEnded' /\ EndIsLoggedOnce'
  BY <1>0 DEF EndsAreReal, Over, LoggedIfEnded, EndIsLoggedOnce, Hook
<1>8. QED
  BY <1>0, <1>2, <1>3, <1>5, <1>6, <1>7

LEMMA KeptBySweep ==
  ASSUME RoomInv, NEW q \in RoomRequest, Sweep(q)
  PROVE  RoomInv'
<1> USE DEF RoomInv, RoomTypeOK
<1>1. /\ starts' \in [RoomRequest -> Start]
      /\ \A p \in RoomRequest \ {q} : starts'[p] = starts[p]
      /\ starts'[q].stage = "list" /\ starts'[q].room = starts[q].room
  BY StartMoves DEF Sweep, StartStage
<1>2. /\ session' \in [Room -> SessionStatus]
      /\ \A x \in Room : \/ session'[x] = session[x]
                         \/ Open(x) /\ x \in halfHour /\ session'[x] = "ended"
      /\ UNCHANGED <<owner, atLivekit, halfHour, linked, hooks, givenUp, rejoined, endLogged>>
  BY DEF Sweep, Stale, SessionStatus
<1>3. RoomsInHand'
  <2>1. \A p \in RoomRequest : starts'[p].room = starts[p].room
    BY <1>1
  <2>2. \A p \in RoomRequest :
          starts[p].room # NoRoom => session'[starts[p].room] = session[starts[p].room]
    BY <1>2, StartFields DEF RoomsInHand, Open
  <2>3. QED
    BY <1>1, <1>2, <2>1, <2>2 DEF RoomsInHand
<1>4. RowsHaveRooms' /\ OneOpenRow' /\ EndsAreReal'
  BY <1>2 DEF RowsHaveRooms, OneOpenRow, EndsAreReal, Over, Open
<1>5. LoggedIfEnded' /\ EndIsLoggedOnce'
  BY <1>2 DEF LoggedIfEnded, EndIsLoggedOnce, Open
<1>6. QED
  BY <1>1, <1>2, <1>3, <1>4, <1>5

LEMMA KeptByCreateSession ==
  ASSUME RoomInv, NEW q \in RoomRequest, CreateSession(q)
  PROVE  RoomInv'
<1> USE DEF RoomInv, RoomTypeOK
<1> DEFINE x == starts[q].room
<1>0. UNCHANGED <<atLivekit, halfHour, hooks, givenUp, rejoined, endLogged>> /\ StartRespond(q)
  BY DEF CreateSession
<1>1. /\ starts' \in [RoomRequest -> Start]
      /\ \A p \in RoomRequest \ {q} : starts'[p] = starts[p]
      /\ starts'[q].stage = "idle" /\ starts'[q].room = NoRoom
  BY <1>0, StartMoves DEF StartStage
<1>2. starts[q] \in Start /\ starts[q].stage = "insert"
  BY DEF CreateSession
<1>3. x \in Room /\ session[x] = "none" /\ atLivekit[x] # "none"
      /\ \A p \in RoomRequest \ {q} : starts[p].room # x
  BY <1>2, StartFields DEF RoomsInHand
<1>4. starts[q].owner \in Owner \cup {NoOwner}
  BY <1>2, StartFields
<1>5. linked' \subseteq Room /\ linked' \subseteq linked \cup {x}
  BY <1>3 DEF CreateSession
<1>6. CASE UNCHANGED <<session, owner>>
  <2>1. RoomsInHand'
    BY <1>0, <1>1, <1>6 DEF RoomsInHand
  <2>2. RowsHaveRooms' /\ OneOpenRow' /\ EndsAreReal' /\ LoggedIfEnded' /\ EndIsLoggedOnce'
    BY <1>0, <1>3, <1>5, <1>6
       DEF RowsHaveRooms, OneOpenRow, EndsAreReal, Over, LoggedIfEnded, EndIsLoggedOnce, Open
  <2>3. QED
    BY <1>0, <1>1, <1>5, <1>6, <2>1, <2>2
<1>7. CASE /\ ~\E y \in Room : Open(y) /\ owner[y] = starts[q].owner
           /\ session' = [session EXCEPT ![x] = "waiting"]
           /\ owner' = [owner EXCEPT ![x] = starts[q].owner]
  <2>1. session' \in [Room -> SessionStatus] /\ owner' \in [Room -> Owner \cup {NoOwner}]
    BY <1>3, <1>4, <1>7 DEF SessionStatus
  <2>2. RoomsInHand'
    <3> SUFFICES ASSUME NEW p \in RoomRequest
                 PROVE  /\ starts'[p].stage = "insert" => starts'[p].room # NoRoom
                        /\ starts'[p].room # NoRoom =>
                             /\ session'[starts'[p].room] = "none"
                             /\ atLivekit'[starts'[p].room] # "none"
                             /\ \A r \in RoomRequest \ {p} : starts'[r].room # starts'[p].room
      BY DEF RoomsInHand
    <3>1. CASE p = q
      BY <1>1, <3>1
    <3>2. CASE p # q
      <4>1. starts'[p] = starts[p] /\ starts[p] \in Start /\ starts[p].room # x
        BY <1>1, <1>3, <3>2
      <4>2. starts[p].room # NoRoom => session'[starts[p].room] = "none"
        BY <1>7, <4>1, StartFields DEF RoomsInHand
      <4>3. QED
        BY <1>0, <1>1, <4>1, <4>2 DEF RoomsInHand
    <3>3. QED
      BY <3>1, <3>2
  <2>3. RowsHaveRooms' /\ EndsAreReal'
    BY <1>0, <1>3, <1>5, <1>7 DEF RowsHaveRooms, EndsAreReal, Over
  <2>4. OneOpenRow'
    <3> SUFFICES ASSUME NEW y \in Room, NEW z \in Room, Open(y)', Open(z)', owner'[y] = owner'[z]
                 PROVE  y = z
      BY DEF OneOpenRow
    <3>1. \A w \in Room : w # x => (Open(w)' => Open(w)) /\ owner'[w] = owner[w]
      BY <1>7 DEF Open
    <3>2. owner'[x] = starts[q].owner
      BY <1>3, <1>7
    <3> HIDE DEF x
    <3>3. QED
      BY <1>7, <3>1, <3>2 DEF OneOpenRow
  <2>5. LoggedIfEnded' /\ EndIsLoggedOnce'
    BY <1>0, <1>3, <1>7, EntryValues DEF LoggedIfEnded, EndIsLoggedOnce, Open
  <2>6. QED
    BY <1>0, <1>1, <1>5, <2>1, <2>2, <2>3, <2>4, <2>5
<1>8. QED
  BY <1>6, <1>7 DEF CreateSession

\* LiveKit closes a room, by itself or because it is told to.
LEMMA KeptByFinish ==
  ASSUME RoomInv, NEW x \in Room, atLivekit[x] # "none", Finish(x),
         UNCHANGED <<session, owner, halfHour, linked, givenUp, rejoined, endLogged, starts>>
  PROVE  RoomInv'
<1> USE DEF RoomInv, RoomTypeOK
<1> DEFINE report == [room |-> x, event |-> "room_finished"]
<1>1. atLivekit' = [atLivekit EXCEPT ![x] = "gone"] /\ hooks' = hooks \cup {report}
  BY DEF Finish
<1>2. report \in Hook /\ report.room = x
  BY DEF Hook
<1> HIDE DEF report
<1>3. atLivekit' \in [Room -> {"none", "empty", "busy", "gone"}] /\ hooks' \subseteq Hook
  BY <1>1, <1>2
<1>4. RoomsInHand'
  <2>1. \A p \in RoomRequest :
          starts[p].room # NoRoom => atLivekit'[starts[p].room] # "none"
    BY <1>1, StartFields DEF RoomsInHand
  <2>2. QED
    BY <2>1 DEF RoomsInHand
<1>5. RowsHaveRooms' /\ OneOpenRow' /\ LoggedIfEnded' /\ EndIsLoggedOnce'
  BY <1>1 DEF RowsHaveRooms, OneOpenRow, LoggedIfEnded, EndIsLoggedOnce, Open
<1>6. EndsAreReal'
  <2>1. \A h \in hooks : h.room \in Room
    BY DEF Hook
  <2>2. QED
    BY <1>1, <1>2, <2>1 DEF EndsAreReal, Over
<1>7. QED
  BY <1>3, <1>4, <1>5, <1>6

\* Somebody comes or goes.
LEMMA KeptByVisitors ==
  ASSUME RoomInv, NEW x \in Room, JoinRoom(x) \/ LeaveRoom(x)
  PROVE  RoomInv'
<1> USE DEF RoomInv, RoomTypeOK
<1> DEFINE report == [room |-> x, event |-> "participant_joined"]
<1>1. /\ \/ atLivekit' = [atLivekit EXCEPT ![x] = "busy"]
         \/ atLivekit' = [atLivekit EXCEPT ![x] = "empty"]
      /\ atLivekit[x] # "none"
      /\ rejoined \subseteq rejoined' /\ rejoined' \subseteq Room
      /\ atLivekit[x] = "gone" => x \in rejoined'
      /\ hooks' \subseteq hooks \cup {report}
      /\ UNCHANGED <<session, owner, halfHour, givenUp, linked, endLogged, starts>>
  BY DEF JoinRoom, LeaveRoom, RowsHaveRooms
<1>2. report \in Hook /\ report.event # "room_finished"
  BY DEF Hook
<1> HIDE DEF report
<1>3. atLivekit' \in [Room -> {"none", "empty", "busy", "gone"}] /\ hooks' \subseteq Hook
      /\ \A y \in Room : /\ atLivekit'[y] = "none" <=> atLivekit[y] = "none"
                         /\ Over(y) => Over(y)'
  BY <1>1, <1>2 DEF Over
<1>4. RoomsInHand'
  <2>1. \A p \in RoomRequest : starts[p].room \in Room \cup {NoRoom}
    BY StartFields
  <2>2. QED
    BY <1>1, <1>3, <2>1 DEF RoomsInHand
<1>5. RowsHaveRooms' /\ OneOpenRow' /\ LoggedIfEnded' /\ EndIsLoggedOnce'
  BY <1>1, <1>3 DEF RowsHaveRooms, OneOpenRow, LoggedIfEnded, EndIsLoggedOnce, Open
<1>6. EndsAreReal'
  <2>1. \A h \in hooks : h.room \in Room
    BY DEF Hook
  <2>2. QED
    BY <1>1, <1>2, <1>3, <2>1 DEF EndsAreReal
<1>7. QED
  BY <1>1, <1>3, <1>4, <1>5, <1>6

LEMMA KeptByDelivery ==
  ASSUME RoomInv, NEW h \in Hook, Webhook(h) \/ WebhookRepeated(h)
  PROVE  RoomInv'
<1> USE DEF RoomInv, RoomTypeOK
<1>1. h \in hooks /\ Handle(h) /\ hooks' \subseteq hooks
      /\ UNCHANGED <<owner, atLivekit, halfHour, linked, givenUp, rejoined, starts>>
  BY DEF Webhook, WebhookRepeated
<1>2. /\ session' \in [Room -> SessionStatus] /\ endLogged' \in [Room -> Entries]
      /\ \A x \in Room :
           \/ session'[x] = session[x] /\ endLogged'[x] = endLogged[x]
           \/ /\ session[x] = "waiting" /\ session'[x] = "active"
              /\ endLogged'[x] = endLogged[x]
           \/ /\ Open(x) /\ session'[x] = "ended" /\ Over(x)
              /\ endLogged'[x] \in {Due, Undue}
  BY <1>1, Deliveries
<1>3. \A x \in Room : session[x] = "none" => session'[x] = "none"
  BY <1>2 DEF Open
<1>4. RoomsInHand'
  <2>1. \A p \in RoomRequest : starts[p].room \in Room \cup {NoRoom}
    BY StartFields
  <2>2. QED
    BY <1>1, <1>3, <2>1 DEF RoomsInHand
<1>5. RowsHaveRooms' /\ EndsAreReal'
  BY <1>1, <1>2, <1>3 DEF RowsHaveRooms, EndsAreReal, Over
<1>6. \A x \in Room : Open(x)' => Open(x)
  BY <1>2 DEF Open
<1>7. OneOpenRow'
  BY <1>1, <1>6 DEF OneOpenRow
<1>8. LoggedIfEnded' /\ EndIsLoggedOnce'
  BY <1>1, <1>2, EntryValues DEF LoggedIfEnded, EndIsLoggedOnce, Open
<1>9. QED
  BY <1>1, <1>2, <1>4, <1>5, <1>7, <1>8

\* Nothing but time, or a webhook that is given up.
LEMMA KeptByTime ==
  ASSUME RoomInv,
         \/ \E x \in Room : HalfHourPasses(x)
         \/ \E h \in Hook : WebhookLost(h)
         \/ UNCHANGED roomVars
  PROVE  RoomInv'
<1> USE DEF RoomInv, RoomTypeOK
<1>1. /\ halfHour \subseteq halfHour' /\ halfHour' \subseteq Room
      /\ hooks' \subseteq hooks /\ givenUp' \subseteq Room
      /\ UNCHANGED <<session, owner, atLivekit, linked, rejoined, endLogged, starts>>
  <2>1. /\ \A x \in Room : HalfHourPasses(x) => halfHour' = halfHour \cup {x}
        /\ (\E x \in Room : HalfHourPasses(x)) =>
             UNCHANGED <<session, owner, atLivekit, linked, hooks, givenUp, rejoined, endLogged,
                         starts>>
    BY DEF HalfHourPasses
  <2>2. ASSUME NEW h \in Hook, WebhookLost(h)
        PROVE  /\ givenUp' \subseteq Room /\ hooks' \subseteq hooks
               /\ UNCHANGED <<session, owner, atLivekit, halfHour, linked, rejoined, endLogged,
                              starts>>
    BY <2>2 DEF WebhookLost, Hook
  <2>3. CASE \E x \in Room : HalfHourPasses(x)
    BY <2>1, <2>3
  <2>4. CASE \E h \in Hook : WebhookLost(h)
    BY <2>2, <2>4
  <2>5. CASE UNCHANGED roomVars
    BY <2>5 DEF roomVars
  <2>6. QED
    BY <2>3, <2>4, <2>5
<1>2. RoomsInHand' /\ RowsHaveRooms' /\ OneOpenRow'
  BY <1>1 DEF RoomsInHand, RowsHaveRooms, OneOpenRow, Open
<1>3. EndsAreReal' /\ LoggedIfEnded' /\ EndIsLoggedOnce'
  BY <1>1 DEF EndsAreReal, Over, LoggedIfEnded, EndIsLoggedOnce
<1>4. QED
  BY <1>1, <1>2, <1>3

\* The detached write of an entry.
LEMMA KeptByEntry ==
  ASSUME RoomInv, NEW x \in Room, WriteEntry(x) \/ EntryFails(x)
  PROVE  RoomInv'
<1> USE DEF RoomInv, RoomTypeOK
<1> DEFINE e == endLogged[x]
<1>1. /\ e.due > 0
      /\ \/ endLogged' = [endLogged EXCEPT ![x].due = e.due - 1, ![x].written = e.written + 1]
         \/ endLogged' = [endLogged EXCEPT ![x].due = e.due - 1, ![x].missing = e.missing + 1]
      /\ UNCHANGED <<session, owner, atLivekit, halfHour, linked, hooks, givenUp, rejoined, starts>>
  BY DEF WriteEntry, EntryFails
<1>2. /\ e \in Entries /\ e.due \in Nat /\ e.written \in Nat /\ e.missing \in Nat
      /\ Ends(e) = 1
  <2>1. e \in Entries
    OBVIOUS
  <2>2. e.due \in Nat /\ e.written \in Nat /\ e.missing \in Nat /\ Ends(e) <= 1
    BY <2>1 DEF Entries, EndIsLoggedOnce
  <2> HIDE DEF e
  <2>3. QED
    BY <1>1, <2>1, <2>2 DEF Ends
<1>3. session[x] = "ended"
  BY <1>2 DEF EndIsLoggedOnce
<1>4. PICK new \in Entries : Ends(new) = 1 /\ endLogged' = [endLogged EXCEPT ![x] = new]
  <2>1. [e EXCEPT !.due = e.due - 1, !.written = e.written + 1] \in Entries
        /\ Ends([e EXCEPT !.due = e.due - 1, !.written = e.written + 1]) = 1
    BY <1>1, <1>2 DEF Entries, Ends
  <2>2. [e EXCEPT !.due = e.due - 1, !.missing = e.missing + 1] \in Entries
        /\ Ends([e EXCEPT !.due = e.due - 1, !.missing = e.missing + 1]) = 1
    BY <1>1, <1>2 DEF Entries, Ends
  <2>3. \/ endLogged' = [endLogged EXCEPT ![x] =
                           [e EXCEPT !.due = e.due - 1, !.written = e.written + 1]]
        \/ endLogged' = [endLogged EXCEPT ![x] =
                           [e EXCEPT !.due = e.due - 1, !.missing = e.missing + 1]]
    BY <1>1
  <2>4. QED
    BY <2>1, <2>2, <2>3
<1>5. endLogged' \in [Room -> Entries]
  BY <1>4
<1>6. LoggedIfEnded' /\ EndIsLoggedOnce'
  BY <1>1, <1>3, <1>4 DEF LoggedIfEnded, EndIsLoggedOnce
<1>7. RoomsInHand' /\ RowsHaveRooms' /\ OneOpenRow' /\ EndsAreReal'
  BY <1>1 DEF RoomsInHand, RowsHaveRooms, OneOpenRow, EndsAreReal, Over, Open
<1>8. QED
  BY <1>1, <1>5, <1>6, <1>7

LEMMA RoomInvInit == RoomInit => RoomInv
<1> SUFFICES ASSUME RoomInit PROVE RoomInv
  OBVIOUS
<1>1. RoomTypeOK
  BY StartIdleType, EntryValues DEF RoomInit, RoomTypeOK, SessionStatus
<1>2. \A q \in RoomRequest : starts[q].stage = "idle" /\ starts[q].room = NoRoom
  BY DEF RoomInit, StartIdle
<1>3. /\ RoomsInHand /\ RowsHaveRooms /\ OneOpenRow
      /\ EndsAreReal /\ LoggedIfEnded /\ EndIsLoggedOnce
  BY <1>2, EntryValues
     DEF RoomInit, RoomsInHand, RowsHaveRooms, OneOpenRow, EndsAreReal, LoggedIfEnded,
         EndIsLoggedOnce, Open
<1>4. QED
  BY <1>1, <1>3 DEF RoomInv

LEMMA RoomInvStep == RoomInv /\ [RoomNext]_roomVars => RoomInv'
<1> SUFFICES ASSUME RoomInv, [RoomNext]_roomVars PROVE RoomInv'
  OBVIOUS
<1>1. ASSUME NEW q \in RoomRequest, NEW u \in Seller, StartPublisher(q, u)
      PROVE  RoomInv'
  BY <1>1, KeptByBeginning DEF StartPublisher, Owner
<1>2. ASSUME NEW q \in RoomRequest, NEW a \in Agent, StartFromChatwoot(q, a)
      PROVE  RoomInv'
  BY <1>2, KeptByBeginning DEF StartFromChatwoot, Owner
<1>3. ASSUME NEW q \in RoomRequest, ListSessions(q) \/ ListFails(q) \/ CreateRoomFails(q)
      PROVE  RoomInv'
  <2>1. /\ StartGoto(q, "create") \/ StartRespond(q)
        /\ UNCHANGED <<session, owner, atLivekit, halfHour, linked, hooks, givenUp, rejoined, endLogged>>
    BY <1>3 DEF ListSessions, ListFails, CreateRoomFails
  <2>2. "create" \in StartStage \ {"insert"}
    BY DEF StartStage
  <2>3. QED
    BY <2>1, <2>2, KeptByMoving
<1>4. ASSUME NEW q \in RoomRequest, StartStep(q)
      PROVE  RoomInv'
  BY <1>3, <1>4, KeptBySweep, KeptByCreateRoom, KeptByCreateSession DEF StartStep
<1>5. ASSUME NEW x \in Room, EndRoom(x) \/ RoomTimesOut(x)
      PROVE  RoomInv'
  BY <1>5, KeptByFinish DEF EndRoom, RoomTimesOut
<1>6. ASSUME NEW x \in Room, JoinRoom(x) \/ LeaveRoom(x) \/ HalfHourPasses(x)
      PROVE  RoomInv'
  BY <1>6, KeptByVisitors, KeptByTime
<1>7. ASSUME NEW h \in Hook, Webhook(h) \/ WebhookRepeated(h) \/ WebhookLost(h)
      PROVE  RoomInv'
  BY <1>7, KeptByDelivery, KeptByTime
<1>8. CASE UNCHANGED roomVars
  BY <1>8, KeptByTime
<1>9. ASSUME NEW x \in Room, WriteEntry(x) \/ EntryFails(x)
      PROVE  RoomInv'
  BY <1>9, KeptByEntry
<1>10. QED
  BY <1>1, <1>2, <1>4, <1>5, <1>6, <1>7, <1>8, <1>9 DEF RoomNext

LEMMA RoomInvAlways == RoomSpec => []RoomInv
BY RoomInvInit, RoomInvStep, PTL DEF RoomSpec

-----------------------------------------------------------------------------
(* The theorems.                                                           *)

\* Type correctness of the rows, the rooms and the requests.
THEOREM RoomTypeCorrect == RoomSpec => []RoomTypeOK
<1>1. RoomInv => RoomTypeOK
  BY DEF RoomInv
<1>2. QED
  BY <1>1, RoomInvAlways, PTL

\* A consultation is logged as ended at most once, however often its end is
\* delivered; the history lacks an ended one only if the sweep may have ended its
\* row, if the row names no order, or while the write is due or after it failed.
THEOREM EndsAreLoggedOnce == RoomSpec => []EndIsLoggedOnce
<1>1. RoomInv => EndIsLoggedOnce
  BY DEF RoomInv
<1>2. QED
  BY <1>1, RoomInvAlways, PTL

\* Two rooms of one owner are in use together only if one has no row, was old
\* enough for the sweep, or had ended and was joined again: the index keeps the
\* open rows apart, and a row that is not swept ends after its room.
THEOREM SecondRoomsAreLeftovers == RoomSpec => []SecondRoomIsALeftover
<1>1. RoomInv => SecondRoomIsALeftover
  <2> SUFFICES ASSUME RoomInv, NEW x \in linked, NEW y \in linked, x # y, owner[x] = owner[y],
                      {atLivekit[x], atLivekit[y]} \subseteq {"empty", "busy"}
               PROVE  \E z \in {x, y} : \/ session[z] = "none"
                                        \/ session[z] = "ended" /\ z \in halfHour \cup rejoined
    BY DEF SecondRoomIsALeftover
  <2>1. x \in Room /\ y \in Room
    BY DEF RoomInv, RoomTypeOK
  <2>2. ~Open(x) \/ ~Open(y)
    BY <2>1 DEF RoomInv, OneOpenRow
  <2>3. PICK z \in {x, y} : ~Open(z)
    BY <2>2
  <2>4. session[z] = "none" \/ session[z] = "ended"
    BY <2>1, <2>3 DEF RoomInv, RoomTypeOK, SessionStatus, Open
  <2>5. atLivekit[z] # "gone"
    OBVIOUS
  <2>6. session[z] = "ended" => z \in halfHour \cup rejoined
    BY <2>1, <2>5 DEF RoomInv, EndsAreReal, Over
  <2>7. QED
    BY <2>4, <2>6
<1>2. QED
  BY <1>1, RoomInvAlways, PTL

\* Every step of the rooms is a step of the life cycle of a session, or none.
THEOREM RowsMoveForward == RoomSpec => RowsOnlyMoveForward
<1> USE DEF Lifecycle!LifecycleNext, Lifecycle!Moves
<1>1. RoomInit => Lifecycle!LifecycleInit
  BY DEF RoomInit, Lifecycle!LifecycleInit
<1>2. RoomInv /\ [RoomNext]_roomVars => [Lifecycle!LifecycleNext]_session
  <2> SUFFICES ASSUME RoomInv, RoomNext, session' # session
               PROVE  Lifecycle!LifecycleNext
    BY DEF roomVars
  <2> USE DEF RoomInv, RoomTypeOK
  <2>1. ASSUME NEW q \in RoomRequest, Sweep(q)
        PROVE  Lifecycle!LifecycleNext
    BY <2>1 DEF Sweep, Stale, Open
  <2>2. ASSUME NEW q \in RoomRequest, CreateSession(q)
        PROVE  Lifecycle!LifecycleNext
    <3>1. starts[q] \in Start /\ starts[q].stage = "insert"
      BY <2>2 DEF CreateSession
    <3>2. session[starts[q].room] = "none" /\ starts[q].room \in Room
      BY <3>1, StartFields DEF RoomsInHand
    <3>3. session' = [session EXCEPT ![starts[q].room] = "waiting"]
      BY <2>2 DEF CreateSession
    <3>4. QED
      BY <3>2, <3>3
  <2>3. ASSUME NEW h \in hooks, Handle(h)
        PROVE  Lifecycle!LifecycleNext
    BY <2>3, Deliveries DEF Open
  <2>4. QED
    BY <2>1, <2>2, <2>3
       DEF RoomNext, StartStep, StartPublisher, StartFromChatwoot, ListSessions, ListFails,
           CreateRoom, CreateRoomFails, EndRoom, JoinRoom, LeaveRoom, RoomTimesOut,
           HalfHourPasses, Webhook, WebhookRepeated, WebhookLost, WriteEntry, EntryFails
<1>3. QED
  BY <1>1, <1>2, RoomInvAlways, PTL DEF RoomSpec, RowsOnlyMoveForward, Lifecycle!LifecycleSpec
=============================================================================
