--------------------------- MODULE CameraControl ---------------------------
(***************************************************************************)
(* aca.camera: the simulator publishes a motion event of each camera, the  *)
(* camera-control service hands every event to the camera's actor, and the *)
(* actor keeps when the camera was last seen and a 120 s reminder that logs *)
(* "is offline". Time stamps are the numbers of the events.                *)
(***************************************************************************)
EXTENDS DaprRuntime, Integers

CONSTANTS
    MaxMotions    \* bound: motions a camera detects

ASSUME CameraAssumption == MaxMotions \in Nat \ {0}

VARIABLES
    sim,          \* the next motion of each simulated camera
    turn,         \* the turn of each camera's actor
    store,        \* saved CameraState.LastSeenAt of each actor, or NeverSeen
    published,    \* history: events that reached the topic
    missed,       \* history: events answered 200 and not recorded
    reported,     \* history: "is offline" was logged since the saved motion
    lapsed,       \* history: a turn failed for good and left no reminder
    credit        \* history: reminders registered minus offline lines logged

vars == <<topic, reminder, firing, faults, ordered, sim, turn, store,
          published, missed, reported, lapsed, credit>>

Cameras == Actors
Motions == 1 .. MaxMotions
NeverSeen == 0

CameraMotionDetected == [camera : Cameras, at : Motions]

Deliverable(m) ==
    /\ m \in topic
    /\ ordered => \A n \in topic : n.camera = m.camera => m.at <= n.at

Idle == [op |-> "idle"]
Turns ==
    {Idle}
      \union [op : {"RegisterMotion"}, msg : CameraMotionDetected,
              step : {"unregister", "register", "save"}]
      \union [op : {"ReceiveReminder"}, step : {"unregister", "log"}]

At(c, op, step) == turn[c].op = op /\ turn[c].step = step

Init ==
    /\ RuntimeInit
    /\ sim = [c \in Cameras |-> 1]
    /\ turn = [c \in Cameras |-> Idle]
    /\ store = [c \in Cameras |-> NeverSeen]
    /\ published = {}
    /\ missed = {}
    /\ reported = [c \in Cameras |-> FALSE]
    /\ lapsed = [c \in Cameras |-> FALSE]
    /\ credit = [c \in Cameras |-> 0]

-----------------------------------------------------------------------------
(* The simulator: Camera.Start publishes a motion, waits and starts again;  *)
(* an exception only cuts the wait short.                                   *)

\* Mutant: the event is published without its time stamp.
UntimedMotion(c) == [camera |-> c, at |-> NeverSeen]

MotionEvent(c) == [camera |-> c, at |-> sim[c]]

PublishMotion(c) ==
    /\ sim[c] <= MaxMotions
    /\ \/ /\ Publish(MotionEvent(c))
          /\ published' = published \union {MotionEvent(c)}
          /\ NoFault \/ Fault("publish")
       \/ /\ UNCHANGED <<topic, published>>
          /\ Fault("publish")
    /\ sim' = [sim EXCEPT ![c] = @ + 1]
    /\ UNCHANGED <<reminder, firing, turn, store, missed, reported, lapsed,
                   credit>>

-----------------------------------------------------------------------------
(* The /camera-control subscription: RegisterMotionAsync in a turn of the   *)
(* camera's actor.                                                          *)

Dispatch(c, m) ==
    /\ turn[c] = Idle
    /\ m.camera = c
    /\ Deliverable(m)
    /\ turn' = [turn EXCEPT ![c] = [op |-> "RegisterMotion", msg |-> m,
                                    step |-> "unregister"]]
    /\ NoFault
    /\ UNCHANGED <<topic, reminder, firing, sim, store, published, missed,
                   reported, lapsed, credit>>

EndTurn(c) == turn' = [turn EXCEPT ![c] = Idle]

GoTo(c, step) == turn' = [turn EXCEPT ![c].step = step]

\* The turn failed for good (nothing will retry it): the camera has lapsed when
\* no reminder is left behind.
Lapse(c) == lapsed' = [lapsed EXCEPT ![c] = @ \/ c \notin reminder']

UnregisterOnMotion(c) ==
    /\ At(c, "RegisterMotion", "unregister")
    /\ UnregisterReminder(c)
    /\ GoTo(c, "register")
    /\ NoFault
    /\ UNCHANGED <<topic, firing, sim, store, published, missed, reported,
                   lapsed, credit>>

\* The catch: the motion is logged as an error and answered 200.
UnregisterOnMotionFails(c) ==
    /\ At(c, "RegisterMotion", "unregister")
    /\ MaybeUnregisterReminder(c)
    /\ Fault("unregister")
    /\ EndTurn(c)
    /\ topic' = topic \ {turn[c].msg}
    /\ missed' = missed \union {turn[c].msg}
    /\ Lapse(c)
    /\ UNCHANGED <<firing, sim, store, published, reported, credit>>

\* Mutant: RegisterMotionAsync does not register the reminder again.
MotionWithoutReminder(c) ==
    /\ At(c, "RegisterMotion", "register")
    /\ GoTo(c, "save")
    /\ NoFault
    /\ UNCHANGED <<topic, reminder, firing, sim, store, published, missed,
                   reported, lapsed, credit>>

\* The state is set before the reminder is registered, so that a registration
\* that throws does not keep it from being saved.
RegisterOnMotion(c) ==
    /\ At(c, "RegisterMotion", "register")
    /\ GoTo(c, "save")
    /\ \/ /\ RegisterReminder(c)
          /\ NoFault
          /\ lapsed' = [lapsed EXCEPT ![c] = FALSE]
          /\ credit' = [credit EXCEPT ![c] = @ + 1]
       \/ /\ RegisterReminder(c)
          /\ Fault("register")
          /\ UNCHANGED lapsed
          /\ credit' = [credit EXCEPT ![c] = @ + 1]
       \/ /\ UNCHANGED <<reminder, credit>>
          /\ Fault("register")
          /\ Lapse(c)
    /\ UNCHANGED <<topic, firing, sim, store, published, missed, reported>>

\* Mutant: a save that fails is answered 200.
SaveFailureAnswersOk(c) ==
    /\ At(c, "RegisterMotion", "save")
    /\ EndTurn(c)
    /\ LET seen == turn[c].msg.at IN
          /\ \/ store' = [store EXCEPT ![c] = seen] /\ Ack(turn[c].msg)
             \/ /\ UNCHANGED store
                /\ Fault("save")
                /\ topic' = topic \ {turn[c].msg}
          /\ reported' = [reported EXCEPT ![c] = @ /\ store'[c] # seen]
    /\ UNCHANGED <<reminder, firing, sim, published, missed, lapsed, credit>>

\* The state manager saves when the method returns; a save that throws makes the
\* subscription answer 500, and may have reached the state store.
SaveMotion(c) ==
    /\ At(c, "RegisterMotion", "save")
    /\ EndTurn(c)
    /\ LET seen == turn[c].msg.at IN
          /\ \/ store' = [store EXCEPT ![c] = seen] /\ Ack(turn[c].msg)
             \/ /\ store' \in {store, [store EXCEPT ![c] = seen]}
                /\ Fault("save")
                /\ UNCHANGED topic
          /\ reported' = [reported EXCEPT ![c] = @ /\ store'[c] # seen]
    /\ UNCHANGED <<reminder, firing, sim, published, missed, lapsed, credit>>

-----------------------------------------------------------------------------
(* ReceiveReminderAsync: no catch; a failure is only logged by the runtime. *)

ReminderDue(c) ==
    /\ Fire(c, turn[c].op = "ReceiveReminder")
    /\ NoFault
    /\ UNCHANGED <<topic, reminder, sim, turn, store, published, missed,
                   reported, lapsed, credit>>

ReceiveReminder(c) ==
    /\ turn[c] = Idle
    /\ c \in firing
    /\ firing' = firing \ {c}
    /\ turn' = [turn EXCEPT ![c] = [op |-> "ReceiveReminder",
                                    step |-> "unregister"]]
    /\ NoFault
    /\ UNCHANGED <<topic, reminder, sim, store, published, missed, reported,
                   lapsed, credit>>

\* Mutant: ReceiveReminderAsync does not unregister the periodic reminder.
ReminderStays(c) ==
    /\ At(c, "ReceiveReminder", "unregister")
    /\ GoTo(c, "log")
    /\ NoFault
    /\ UNCHANGED <<topic, reminder, firing, sim, store, published, missed,
                   reported, lapsed, credit>>

UnregisterOnReminder(c) ==
    /\ At(c, "ReceiveReminder", "unregister")
    /\ \/ UnregisterReminder(c) /\ GoTo(c, "log") /\ NoFault /\ UNCHANGED lapsed
       \/ /\ MaybeUnregisterReminder(c)
          /\ Fault("unregister")
          /\ EndTurn(c)
          /\ Lapse(c)
    /\ UNCHANGED <<topic, firing, sim, store, published, missed, reported,
                   credit>>

\* Mutant: the state of a camera is removed when the camera is reported.
LogAndForget(c) ==
    /\ At(c, "ReceiveReminder", "log")
    /\ store[c] # NeverSeen
    /\ store' = [store EXCEPT ![c] = NeverSeen]
    /\ reported' = [reported EXCEPT ![c] = TRUE]
    /\ credit' = [credit EXCEPT ![c] = @ - 1]
    /\ EndTurn(c)
    /\ NoFault
    /\ UNCHANGED <<topic, reminder, firing, sim, published, missed, lapsed>>

LogOffline(c) ==
    /\ At(c, "ReceiveReminder", "log")
    /\ store[c] # NeverSeen
    /\ reported' = [reported EXCEPT ![c] = TRUE]
    /\ credit' = [credit EXCEPT ![c] = @ - 1]
    /\ EndTurn(c)
    /\ NoFault
    /\ UNCHANGED <<topic, reminder, firing, sim, store, published, missed,
                   lapsed>>

GetStateOnReminderFails(c) ==
    /\ At(c, "ReceiveReminder", "log")
    /\ \/ store[c] = NeverSeen /\ NoFault
       \/ Fault("read")
    /\ EndTurn(c)
    /\ UNCHANGED reminder
    /\ Lapse(c)
    /\ UNCHANGED <<topic, firing, sim, store, published, missed, reported,
                   credit>>

\* The camera-control replica stops in the middle of a turn.
Crash(c) ==
    /\ turn[c] # Idle
    /\ Fault("crash")
    /\ EndTurn(c)
    /\ UNCHANGED reminder
    /\ IF turn[c].op = "ReceiveReminder" THEN Lapse(c) ELSE UNCHANGED lapsed
    /\ UNCHANGED <<topic, firing, sim, store, published, missed, reported,
                   credit>>

TurnStep(c) ==
    \/ UnregisterOnMotion(c)
    \/ UnregisterOnMotionFails(c)
    \/ RegisterOnMotion(c)
    \/ SaveMotion(c)
    \/ UnregisterOnReminder(c)
    \/ LogOffline(c)
    \/ GetStateOnReminderFails(c)

Deliver(c) == \E m \in topic : Dispatch(c, m)

\* Every bounded motion was published, every event settled, no reminder left.
Finished ==
    /\ \A c \in Cameras : sim[c] > MaxMotions /\ turn[c] = Idle
    /\ topic = {} /\ reminder = {} /\ firing = {}
    /\ UNCHANGED vars

Next ==
    \/ \E c \in Cameras :
          \/ PublishMotion(c)
          \/ Deliver(c)
          \/ TurnStep(c)
          \/ ReminderDue(c)
          \/ ReceiveReminder(c)
          \/ Crash(c)
    \/ Finished

Spec == Init /\ [][Next]_vars

\* The sidecar delivers, reminders come due, turns that began are run.
Fairness ==
    \A c \in Cameras :
        /\ WF_vars(Deliver(c))
        /\ WF_vars(TurnStep(c))
        /\ WF_vars(ReminderDue(c))
        /\ WF_vars(ReceiveReminder(c))

FairSpec == Spec /\ Fairness

-----------------------------------------------------------------------------
(* Properties.                                                             *)

\* Every variable has its type: a turn is at one of the calls of CameraActor.cs.
TypeOK ==
    /\ topic \subseteq CameraMotionDetected
    /\ published \subseteq CameraMotionDetected
    /\ missed \subseteq CameraMotionDetected
    /\ reminder \subseteq Cameras
    /\ firing \subseteq Cameras
    /\ faults \in 0 .. MaxFaults
    /\ ordered \in BOOLEAN
    /\ sim \in [Cameras -> 1 .. MaxMotions + 1]
    /\ turn \in [Cameras -> Turns]
    /\ store \in [Cameras -> Motions \union {NeverSeen}]
    /\ reported \in [Cameras -> BOOLEAN]
    /\ lapsed \in [Cameras -> BOOLEAN]
    /\ credit \in [Cameras -> Int]

WatchedCamera(c) ==
    store[c] # NeverSeen =>
        \/ c \in reminder \union firing
        \/ turn[c].op = "ReceiveReminder"
        \/ reported[c]
        \/ \E m \in topic : m.camera = c
        \/ lapsed[c]

\* A camera that was ever seen stays watched although its reminder is taken away
\* and registered again at every motion: it is registered, due or being served,
\* or the camera was logged as offline, or a motion is still to be handled.
\* The one exception is a failed call nobody retries (lapsed).
Watched == \A c \in Cameras : WatchedCamera(c)

\* However often the periodic reminder comes due, is replaced by a motion or
\* fails half way, at most one offline line is logged per registration.
OneReportPerMotion == \A c \in Cameras : credit[c] >= 0

\* With ordered delivery LastSeenAt never goes back, through redeliveries, saves
\* that fail after reaching the store, and crashes.
LastSeenMonotone ==
    [][ordered => \A c \in Cameras : store'[c] >= store[c]]_vars

\* With ordered delivery an idle camera with nothing in the topic was last seen
\* at the latest published motion that was not missed.
LatestMotionRecorded ==
    \A c \in Cameras :
        ordered /\ turn[c] = Idle /\ (\A m \in topic : m.camera # c) =>
            \A n \in published \ missed : n.camera = c => n.at <= store[c]

\* A camera that was seen is eventually seen again, logged as offline, or has
\* lapsed: silence never lasts.
Resolved ==
    \A c \in Cameras : \A k \in Motions :
        store[c] = k ~> store[c] # k \/ reported[c] \/ lapsed[c]

-----------------------------------------------------------------------------
(* The inductive invariant behind Watched, OneReportPerMotion,              *)
(* LastSeenMonotone and LatestMotionRecorded.                               *)

\* A turn handles an event of its own camera that is still in the topic, and a
\* motion is saved after its reminder is registered, or the camera has lapsed;
\* no reminder comes due while one is being served.
TurnInv(c) ==
    /\ turn[c].op = "RegisterMotion" =>
          turn[c].msg \in topic /\ turn[c].msg.camera = c
    /\ turn[c].op = "ReceiveReminder" =>
          c \notin firing /\ (turn[c].step = "log" => c \notin reminder)
    /\ At(c, "RegisterMotion", "save") => c \in reminder \/ lapsed[c]

\* A reminder that is registered, due or being served has its line to log.
CreditInv(c) ==
    /\ credit[c] >= 0
    /\ c \in reminder \union firing \/ turn[c].op = "ReceiveReminder" =>
          credit[c] >= 1

\* The motions of an ordered topic are handled from the earliest on: what was
\* saved is not later than any motion still to come, and every published motion
\* is still to come, was saved or overtaken, or was missed.
OrderInv(c) ==
    /\ store[c] < sim[c]
    /\ \A m \in topic : m.camera = c => m.at < sim[c]
    /\ ordered =>
          /\ \A m \in topic : m.camera = c => store[c] <= m.at
          /\ turn[c].op = "RegisterMotion" =>
                \A m \in topic : m.camera = c => turn[c].msg.at <= m.at
          /\ \A n \in published \ missed :
                n.camera = c => n \in topic \/ n.at <= store[c]

CameraInv(c) == TurnInv(c) /\ WatchedCamera(c) /\ CreditInv(c) /\ OrderInv(c)

IInv == TypeOK /\ \A c \in Cameras : CameraInv(c)
=============================================================================
