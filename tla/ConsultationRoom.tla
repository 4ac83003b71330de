-------------------------- MODULE ConsultationRoom --------------------------
(***************************************************************************)
(* Video consultations: the rows of mp_livekit_sessions                    *)
(* (lib/livekit-rooms.ts), the handlers that start and end a room, and the *)
(* webhook by which LiveKit reports what became of it.  A room is created  *)
(* at LiveKit first and recorded afterwards; its end is decided at LiveKit *)
(* and recorded when the webhook arrives, which may be late, repeated, out *)
(* of order, or never.                                                     *)
(***************************************************************************)
EXTENDS Naturals, FiniteSets

CONSTANTS
  RoomRequest,    \* requests that can be in flight at the same time
  Room,           \* rooms that can be created
  Seller,         \* users of the panel, who own at most one open session
  Agent,          \* conversations of Chatwoot, likewise
  NoRoom, NoOwner,
  MaxRejoins,     \* bound: rooms that somebody comes back to after their end
  RoomFailures    \* LiveKit or the database may fail a call

ASSUME RoomAssumption ==
  /\ Seller \cap Agent = {}
  /\ NoRoom \notin Room
  /\ NoOwner \notin Seller \cup Agent
  /\ MaxRejoins \in Nat
  /\ RoomFailures \in BOOLEAN

VARIABLES
  session,    \* session[x]: status of the row of room x, "none" before it exists
  owner,      \* owner[x]: requested_by_email of that row
  atLivekit,  \* atLivekit[x]: what LiveKit has of the room
  halfHour,   \* rooms whose row was created more than 30 minutes ago
  linked,     \* rooms whose links have been handed out
  hooks,      \* webhooks on their way
  givenUp,    \* rooms whose room_finished LiveKit gave up with their row still open
  rejoined,   \* rooms that LiveKit has created anew for somebody who came back
  endLogged,  \* endLogged[x]: the entries live_view_ended of the room, see Entries
  starts      \* starts[q]: local state of the handler of request q

roomVars ==
  <<session, owner, atLivekit, halfHour, linked, hooks, givenUp, rejoined, endLogged, starts>>

Owner == Seller \cup Agent
SessionStatus == {"none", "waiting", "active", "ended"}
Hook == [room : Room, event : {"participant_joined", "room_finished"}]
\* On their way to the history, in it, and those that it will never get.
Entries == [due : Nat, written : Nat, missing : Nat]
NoEntries == [due |-> 0, written |-> 0, missing |-> 0]
Ends(e) == e.due + e.written + e.missing
StartStage == {"idle", "sweep", "list", "create", "insert"}
Start == [stage : StartStage, owner : Owner \cup {NoOwner}, room : Room \cup {NoRoom}]
StartIdle == [stage |-> "idle", owner |-> NoOwner, room |-> NoRoom]

RoomTypeOK ==
  /\ session \in [Room -> SessionStatus]
  /\ owner \in [Room -> Owner \cup {NoOwner}]
  /\ atLivekit \in [Room -> {"none", "empty", "busy", "gone"}]
  /\ halfHour \subseteq Room /\ linked \subseteq Room
  /\ givenUp \subseteq Room /\ rejoined \subseteq Room
  /\ hooks \subseteq Hook
  /\ endLogged \in [Room -> Entries]
  /\ starts \in [RoomRequest -> Start]

RoomInit ==
  /\ session = [x \in Room |-> "none"]
  /\ owner = [x \in Room |-> NoOwner]
  /\ atLivekit = [x \in Room |-> "none"]
  /\ halfHour = {} /\ linked = {} /\ givenUp = {} /\ rejoined = {}
  /\ hooks = {}
  /\ endLogged = [x \in Room |-> NoEntries]
  /\ starts = [q \in RoomRequest |-> StartIdle]

Open(x) == session[x] \in {"waiting", "active"}

StartGoto(q, stage) == starts' = [starts EXCEPT ![q].stage = stage]
StartRespond(q) == starts' = [starts EXCEPT ![q] = StartIdle]

-----------------------------------------------------------------------------
(* POST livekit/start-publisher and livekit/start-from-chatwoot-agent.     *)

\* Only the panel looks for an open session before it starts a room.
StartPublisher(q, u) ==
  /\ starts[q] = StartIdle
  /\ starts' = [starts EXCEPT ![q] = [StartIdle EXCEPT !.stage = "sweep", !.owner = u]]
  /\ UNCHANGED <<session, owner, atLivekit, halfHour, linked, hooks, givenUp, rejoined, endLogged>>

StartFromChatwoot(q, a) ==
  /\ starts[q] = StartIdle
  /\ starts' = [starts EXCEPT ![q] = [StartIdle EXCEPT !.stage = "create", !.owner = a]]
  /\ UNCHANGED <<session, owner, atLivekit, halfHour, linked, hooks, givenUp, rejoined, endLogged>>

\* Slips: the sweep forgets the age of the rows, or the rows that are active.
SweepYoung(x) == Open(x)
SweepWaiting(x) == session[x] = "waiting" /\ x \in halfHour

Stale(x) == Open(x) /\ x \in halfHour

\* listActiveSessionsByUser first ends every open row that is half an hour old,
\* whoever owns it; nothing is written to the history.
Sweep(q) ==
  /\ starts[q].stage = "sweep"
  /\ session' = [x \in Room |-> IF Stale(x) THEN "ended" ELSE session[x]]
  /\ StartGoto(q, "list")
  /\ UNCHANGED <<owner, atLivekit, halfHour, linked, hooks, givenUp, rejoined, endLogged>>

ListSessions(q) ==
  /\ starts[q].stage = "list"
  /\ IF \E x \in Room : Open(x) /\ owner[x] = starts[q].owner
       THEN StartRespond(q)                       \* 429
       ELSE StartGoto(q, "create")
  /\ UNCHANGED <<session, owner, atLivekit, halfHour, linked, hooks, givenUp, rejoined, endLogged>>

\* A failure of either statement is logged and the start goes on.
ListFails(q) ==
  /\ RoomFailures
  /\ starts[q].stage \in {"sweep", "list"}
  /\ StartGoto(q, "create")
  /\ UNCHANGED <<session, owner, atLivekit, halfHour, linked, hooks, givenUp, rejoined, endLogged>>

\* A token or the QR code may fail after the room was created: it is orphaned.
CreateRoom(q, x) ==
  /\ starts[q].stage = "create"
  /\ atLivekit[x] = "none"
  /\ atLivekit' = [atLivekit EXCEPT ![x] = "empty"]
  /\ \/ starts' = [starts EXCEPT ![q].stage = "insert", ![q].room = x]
     \/ RoomFailures /\ StartRespond(q)
  /\ UNCHANGED <<session, owner, halfHour, linked, hooks, givenUp, rejoined, endLogged>>

\* LiveKit refuses; bound: no more than Room rooms are ever created.
CreateRoomFails(q) ==
  /\ starts[q].stage = "create"
  /\ RoomFailures \/ \A x \in Room : atLivekit[x] # "none"
  /\ StartRespond(q)
  /\ UNCHANGED <<session, owner, atLivekit, halfHour, linked, hooks, givenUp, rejoined, endLogged>>

\* The partial unique index: one open session per owner.  A conflict is a 429
\* that leaves the room at LiveKit; any other failure is logged and the links
\* are handed out for a room without a row.
CreateSession(q) ==
  LET x == starts[q].room
      taken == \E y \in Room : Open(y) /\ owner[y] = starts[q].owner
  IN /\ starts[q].stage = "insert"
     /\ \/ /\ ~taken
           /\ session' = [session EXCEPT ![x] = "waiting"]
           /\ owner' = [owner EXCEPT ![x] = starts[q].owner]
           /\ linked' = linked \cup {x}
        \/ /\ taken
           /\ UNCHANGED <<session, owner, linked>>
        \/ /\ RoomFailures
           /\ linked' = linked \cup {x}
           /\ UNCHANGED <<session, owner>>
     /\ StartRespond(q)
     /\ UNCHANGED <<atLivekit, halfHour, hooks, givenUp, rejoined, endLogged>>

-----------------------------------------------------------------------------
(* The end of a room, and the webhook.                                     *)

\* What LiveKit does when a room is over.
Finish(x) ==
  /\ atLivekit' = [atLivekit EXCEPT ![x] = "gone"]
  /\ hooks' = hooks \cup {[room |-> x, event |-> "room_finished"]}

\* POST livekit/end-room by its owner, or by any seller when an agent started
\* it, and admin/livekit/end-room: any room that has a row, the swept ones too.
\* The row is left to the webhook.
EndRoom(x) ==
  /\ session[x] # "none"
  /\ atLivekit[x] \in {"empty", "busy"}
  /\ Finish(x)
  /\ UNCHANGED <<session, owner, halfHour, linked, givenUp, rejoined, endLogged, starts>>

\* Slip: a late participant_joined revives an ended session.
MarkActiveAlways(s) == "active"

\* markSessionActive and endSession are conditional updates.
MarkActive(s) == IF s = "waiting" THEN "active" ELSE s

ParticipantJoined(x) ==
  /\ session[x] # "none"                           \* unknown rooms are ignored
  /\ session' = [session EXCEPT ![x] = MarkActive(@)]
  /\ UNCHANGED endLogged

\* Slip: a repeated delivery is logged again.
RoomFinishedAgain(x) ==
  /\ session[x] # "none"
  /\ session' = [session EXCEPT ![x] = "ended"]
  /\ endLogged' = [endLogged EXCEPT ![x].due = @ + 1]

\* Slip: only a session somebody has joined is ended.
RoomFinishedIfActive(x) ==
  /\ session[x] # "none"
  /\ session' = [session EXCEPT ![x] = IF @ = "active" THEN "ended" ELSE @]
  /\ endLogged' = [endLogged EXCEPT ![x].due = IF session[x] = "active" THEN @ + 1 ELSE @]

\* The UPDATE.  If it was this delivery that ended the row (justEnded), a write to
\* the history is started and not awaited, unless the row names no order.
RoomFinished(x) ==
  /\ session[x] # "none"
  /\ session' = [session EXCEPT ![x] = "ended"]
  /\ \/ Open(x) /\ endLogged' = [endLogged EXCEPT ![x].due = @ + 1]
     \/ Open(x) /\ endLogged' = [endLogged EXCEPT ![x].missing = @ + 1]
     \/ ~Open(x) /\ UNCHANGED endLogged

Handle(h) ==
  \/ h.event = "participant_joined" /\ ParticipantJoined(h.room)
  \/ h.event = "room_finished" /\ RoomFinished(h.room)
  \/ session[h.room] = "none" /\ UNCHANGED <<session, endLogged>>

Webhook(h) ==
  /\ h \in hooks
  /\ Handle(h)
  /\ hooks' = hooks \ {h}
  /\ UNCHANGED <<owner, atLivekit, halfHour, linked, givenUp, rejoined, starts>>

\* Handled, but the answer is lost: LiveKit will deliver it once more.
WebhookRepeated(h) ==
  /\ h \in hooks
  /\ Handle(h)
  /\ UNCHANGED <<owner, atLivekit, halfHour, linked, hooks, givenUp, rejoined, starts>>

\* logServiceAction; its failure is logged and swallowed.
WriteEntry(x) ==
  /\ endLogged[x].due > 0
  /\ endLogged' = [endLogged EXCEPT ![x].due = @ - 1, ![x].written = @ + 1]
  /\ UNCHANGED <<session, owner, atLivekit, halfHour, linked, hooks, givenUp, rejoined, starts>>

EntryFails(x) ==
  /\ RoomFailures
  /\ endLogged[x].due > 0
  /\ endLogged' = [endLogged EXCEPT ![x].due = @ - 1, ![x].missing = @ + 1]
  /\ UNCHANGED <<session, owner, atLivekit, halfHour, linked, hooks, givenUp, rejoined, starts>>

\* LiveKit stops trying.
WebhookLost(h) ==
  /\ h \in hooks
  /\ hooks' = hooks \ {h}
  /\ givenUp' = IF h.event = "room_finished" /\ Open(h.room)
                THEN givenUp \cup {h.room} ELSE givenUp
  /\ UNCHANGED <<session, owner, atLivekit, halfHour, linked, rejoined, endLogged, starts>>

-----------------------------------------------------------------------------
(* The customer, LiveKit and the clock.                                    *)

\* By a link.  LiveKit creates a room that it no longer has on the first join
\* ("will be auto-created on first join"), and the links outlive the room:
\* GET livekit/join-token does not ask whether the session has ended.
JoinRoom(x) ==
  /\ x \in linked
  /\ atLivekit[x] # "busy"
  /\ atLivekit' = [atLivekit EXCEPT ![x] = "busy"]
  /\ rejoined' = IF atLivekit[x] = "gone" THEN rejoined \cup {x} ELSE rejoined
  /\ Cardinality(rejoined') <= MaxRejoins
  /\ hooks' = hooks \cup {[room |-> x, event |-> "participant_joined"]}
  /\ UNCHANGED <<session, owner, halfHour, linked, givenUp, endLogged, starts>>

LeaveRoom(x) ==
  /\ atLivekit[x] = "busy"
  /\ atLivekit' = [atLivekit EXCEPT ![x] = "empty"]
  /\ UNCHANGED <<session, owner, halfHour, linked, hooks, givenUp, rejoined, endLogged, starts>>

\* LiveKit closes a room that has stayed empty; its half hour is longer than
\* any request.
RoomTimesOut(x) ==
  /\ atLivekit[x] = "empty"
  /\ \A q \in RoomRequest : starts[q].room # x
  /\ Finish(x)
  /\ UNCHANGED <<session, owner, halfHour, linked, givenUp, rejoined, endLogged, starts>>

HalfHourPasses(x) ==
  /\ session[x] # "none"
  /\ x \notin halfHour
  /\ halfHour' = halfHour \cup {x}
  /\ UNCHANGED <<session, owner, atLivekit, linked, hooks, givenUp, rejoined, endLogged, starts>>

\* What a handler that has started does next.
StartStep(q) ==
  \/ Sweep(q) \/ ListSessions(q) \/ ListFails(q)
  \/ (\E x \in Room : CreateRoom(q, x)) \/ CreateRoomFails(q)
  \/ CreateSession(q)

RoomNext ==
  \/ \E q \in RoomRequest :
       \/ \E u \in Seller : StartPublisher(q, u)
       \/ \E a \in Agent : StartFromChatwoot(q, a)
       \/ StartStep(q)
  \/ \E x \in Room :
       \/ EndRoom(x) \/ JoinRoom(x) \/ LeaveRoom(x) \/ RoomTimesOut(x) \/ HalfHourPasses(x)
       \/ WriteEntry(x) \/ EntryFails(x)
  \/ \E h \in Hook : Webhook(h) \/ WebhookRepeated(h) \/ WebhookLost(h)

RoomSpec == RoomInit /\ [][RoomNext]_roomVars

\* Handlers run to their end, a webhook is delivered until it is acknowledged or
\* given up, and time passes.
RoomFairness ==
  /\ \A q \in RoomRequest : WF_roomVars(StartStep(q))
  /\ \A h \in Hook : WF_roomVars(Webhook(h))
  /\ \A x \in Room : WF_roomVars(HalfHourPasses(x))

-----------------------------------------------------------------------------
(* What the code promises.                                                 *)

Lifecycle == INSTANCE SessionLifecycle WITH Session <- Room, status <- session

\* The row of a room only moves forward, whatever the order and the number of
\* the deliveries and whenever the sweep comes.
RowsOnlyMoveForward == Lifecycle!LifecycleSpec

\* "max 1 active session per user": two rooms of one owner are open at LiveKit
\* at the same time only if one of them has no row, or has an ended row because
\* the row was old enough for the sweep or because somebody came back to a room
\* that was over.
SecondRoomIsALeftover ==
  \A x, y \in linked :
    /\ x # y /\ owner[x] = owner[y]
    /\ {atLivekit[x], atLivekit[y]} \subseteq {"empty", "busy"}
    => \E z \in {x, y} : \/ session[z] = "none"
                         \/ session[z] = "ended" /\ z \in halfHour \cup rejoined

\* However often LiveKit reports the end of a consultation, and whatever becomes of
\* the detached write, the history gets one entry at most, of a row that has ended.
\* An ended row without an entry, written or due, is one that the sweep may have
\* ended (halfHour), that names no order or whose write has failed (missing).
EndIsLoggedOnce ==
  \A x \in Room :
    /\ Ends(endLogged[x]) <= 1
    /\ Ends(endLogged[x]) = 1 => session[x] = "ended"
    /\ session[x] = "ended" => Ends(endLogged[x]) = 1 \/ x \in halfHour

\* The owner's slot comes back: the session of a room that LiveKit has closed is
\* ended, unless its webhook was given up.
ClosedRoomEndsSession ==
  \A x \in Room :
    Open(x) /\ atLivekit[x] = "gone" ~> session[x] = "ended" \/ x \in givenUp

\* And then too, as long as somebody at the panel keeps starting consultations.
SweepEndsTheRest ==
  []<><<\E q \in RoomRequest : Sweep(q)>>_roomVars =>
    \A x \in Room : [](Open(x) => <>(session[x] = "ended"))
=============================================================================
