------------------------ MODULE CameraControlProofs ------------------------
(***************************************************************************)
(* Theorems about CameraControl for every set of cameras, every number of  *)
(* motions, every choice of the calls that fail, ordered delivery or not.  *)
(***************************************************************************)
EXTENDS CameraControl, TLAPS

Step(c) ==
    PublishMotion(c) \/ Deliver(c) \/ TurnStep(c) \/ ReminderDue(c)
      \/ ReceiveReminder(c) \/ Crash(c)

\* The initial state of the cameras has the declared types.
LEMMA InitTypeOK == Init => TypeOK
  <1> SUFFICES ASSUME Init PROVE TypeOK
    OBVIOUS
  <1>1. QED
    BY CameraAssumption, RuntimeAssumption
       DEF Init, RuntimeInit, TypeOK, Turns, Cameras, NeverSeen

\* No step takes more than one failure from the budget, or changes the topic's
\* kind of delivery.
LEMMA FaultsBounded ==
    ASSUME TypeOK, NEW c \in Cameras, Step(c)
    PROVE  faults' \in 0 .. MaxFaults /\ ordered' = ordered
  <1>1. NoFault \/ \E kind \in FaultKinds : Fault(kind)
    <2>1. CASE PublishMotion(c) \/ Deliver(c) \/ ReminderDue(c) \/ ReceiveReminder(c)
               \/ Crash(c)
      BY <2>1 DEF PublishMotion, Deliver, Dispatch, ReminderDue, ReceiveReminder, Crash,
                  Fault
    <2>2. CASE TurnStep(c)
      BY <2>2 DEF TurnStep, UnregisterOnMotion, UnregisterOnMotionFails,
                  RegisterOnMotion, SaveMotion, UnregisterOnReminder, LogOffline,
                  GetStateOnReminderFails, Ack, Fault
    <2>3. QED
      BY <2>1, <2>2 DEF Step
  <1>2. QED
    BY <1>1, RuntimeAssumption DEF NoFault, Fault, TypeOK

\* A turn is one of its three kinds: idle, a motion or a reminder.
LEMMA TurnKinds ==
    ASSUME TypeOK, NEW c \in Cameras
    PROVE  /\ turn[c].op \in {"idle", "RegisterMotion", "ReceiveReminder"}
           /\ turn[c] = Idle <=> turn[c].op = "idle"
           /\ turn[c].op = "RegisterMotion" =>
                turn[c] \in [op : {"RegisterMotion"}, msg : CameraMotionDetected,
                             step : {"unregister", "register", "save"}]
           /\ turn[c].op = "ReceiveReminder" =>
                turn[c] \in [op : {"ReceiveReminder"}, step : {"unregister", "log"}]
  BY DEF TypeOK, Turns, Idle

\* What is left of a turn that ends.
LEMMA TurnEnds ==
    ASSUME TypeOK, NEW c \in Cameras, EndTurn(c)
    PROVE  turn' \in [Cameras -> Turns] /\ turn'[c].op = "idle"
  BY DEF TypeOK, EndTurn, Turns, Idle

\* What is left of a motion's turn that goes on to its next call.
LEMMA MotionGoesOn ==
    ASSUME TypeOK, NEW c \in Cameras, turn[c].op = "RegisterMotion",
           NEW step \in {"register", "save"}, GoTo(c, step)
    PROVE  /\ turn' \in [Cameras -> Turns]
           /\ turn'[c].op = "RegisterMotion" /\ turn'[c].step = step
           /\ turn'[c].msg = turn[c].msg
  <1>1. turn[c] \in [op : {"RegisterMotion"}, msg : CameraMotionDetected,
                     step : {"unregister", "register", "save"}]
    BY TurnKinds
  <1>2. /\ [turn[c] EXCEPT !.step = step] \in Turns
        /\ [turn[c] EXCEPT !.step = step].op = "RegisterMotion"
        /\ [turn[c] EXCEPT !.step = step].step = step
        /\ [turn[c] EXCEPT !.step = step].msg = turn[c].msg
    BY <1>1 DEF Turns
  <1>3. QED
    BY <1>2 DEF GoTo, TypeOK

\* What is left of a reminder's turn that goes on to its log line.
LEMMA ReminderGoesOn ==
    ASSUME TypeOK, NEW c \in Cameras, turn[c].op = "ReceiveReminder", GoTo(c, "log")
    PROVE  turn' \in [Cameras -> Turns] /\ turn'[c].op = "ReceiveReminder"
  <1>1. turn[c] \in [op : {"ReceiveReminder"}, step : {"unregister", "log"}]
    BY TurnKinds
  <1>2. /\ [turn[c] EXCEPT !.step = "log"] \in Turns
        /\ [turn[c] EXCEPT !.step = "log"].op = "ReceiveReminder"
    BY <1>1 DEF Turns
  <1>3. QED
    BY <1>2 DEF GoTo, TypeOK

\* Every step keeps the types.
LEMMA NextTypeOK == TypeOK /\ [Next]_vars => TypeOK'
  <1> SUFFICES ASSUME TypeOK, [Next]_vars PROVE TypeOK'
    OBVIOUS
  <1> DEFINE RuntimeTypes == faults' \in 0 .. MaxFaults /\ ordered' \in BOOLEAN
  <1>1. ASSUME NEW c \in Cameras, Step(c) PROVE RuntimeTypes
    BY <1>1, FaultsBounded DEF TypeOK
  <1> HIDE DEF RuntimeTypes
  <1>2. ASSUME NEW c \in Cameras, PublishMotion(c) PROVE TypeOK'
    <2>1. MotionEvent(c) \in CameraMotionDetected /\ sim[c] + 1 \in 1 .. MaxMotions + 1
      BY <1>2, CameraAssumption
         DEF PublishMotion, TypeOK, MotionEvent, CameraMotionDetected, Motions
    <2>2. RuntimeTypes
      BY <1>1, <1>2 DEF Step
    <2>3. QED
      BY <1>2, <2>1, <2>2 DEF TypeOK, PublishMotion, Publish, RuntimeTypes
  <1>3. ASSUME NEW c \in Cameras, NEW m \in topic, Dispatch(c, m) PROVE TypeOK'
    <2>1. [op |-> "RegisterMotion", msg |-> m, step |-> "unregister"] \in Turns
      BY DEF TypeOK, Turns
    <2>2. QED
      BY <1>3, <2>1 DEF TypeOK, Dispatch, NoFault
  <1>4. ASSUME NEW c \in Cameras, TurnStep(c) PROVE TypeOK'
    <2>1. RuntimeTypes
      BY <1>1, <1>4 DEF Step
    <2>2. ASSUME UnregisterOnMotion(c) PROVE TypeOK'
      <3>1. turn' \in [Cameras -> Turns]
        BY <2>2, MotionGoesOn DEF UnregisterOnMotion, At
      <3>2. QED
        BY <2>1, <2>2, <3>1
           DEF TypeOK, UnregisterOnMotion, UnregisterReminder, RuntimeTypes
    <2>3. ASSUME UnregisterOnMotionFails(c) PROVE TypeOK'
      <3>1. turn' \in [Cameras -> Turns] /\ turn[c].msg \in CameraMotionDetected
        BY <2>3, TurnEnds, TurnKinds DEF UnregisterOnMotionFails, At
      <3>2. lapsed' \in [Cameras -> BOOLEAN]
        BY <2>3 DEF UnregisterOnMotionFails, Lapse, TypeOK
      <3>3. QED
        BY <2>1, <2>3, <3>1, <3>2
           DEF TypeOK, UnregisterOnMotionFails, MaybeUnregisterReminder,
               UnregisterReminder, RuntimeTypes
    <2>4. ASSUME RegisterOnMotion(c) PROVE TypeOK'
      <3>1. turn' \in [Cameras -> Turns]
        BY <2>4, MotionGoesOn DEF RegisterOnMotion, At
      <3>2. lapsed' \in [Cameras -> BOOLEAN]
        BY <2>4 DEF RegisterOnMotion, Lapse, TypeOK
      <3>3. credit' \in [Cameras -> Int]
        BY <2>4 DEF RegisterOnMotion, TypeOK
      <3>4. reminder' \subseteq Cameras
        BY <2>4 DEF RegisterOnMotion, RegisterReminder, TypeOK
      <3>5. QED
        BY <2>1, <2>4, <3>1, <3>2, <3>3, <3>4 DEF TypeOK, RegisterOnMotion, RuntimeTypes
    <2>5. ASSUME SaveMotion(c) PROVE TypeOK'
      <3>1. turn' \in [Cameras -> Turns] /\ turn[c].msg.at \in Motions
        BY <2>5, TurnEnds, TurnKinds DEF SaveMotion, At, CameraMotionDetected
      <3>2. /\ store' \in [Cameras -> Motions \union {NeverSeen}]
            /\ topic' \subseteq CameraMotionDetected
        BY <2>5, <3>1 DEF SaveMotion, Ack, TypeOK
      <3>3. reported' \in [Cameras -> BOOLEAN]
        BY <2>5 DEF SaveMotion, TypeOK
      <3>4. QED
        BY <2>1, <2>5, <3>1, <3>2, <3>3 DEF TypeOK, SaveMotion, RuntimeTypes
    <2>6. ASSUME UnregisterOnReminder(c) PROVE TypeOK'
      <3>1. turn' \in [Cameras -> Turns]
        BY <2>6, TurnEnds, ReminderGoesOn DEF UnregisterOnReminder, At
      <3>2. lapsed' \in [Cameras -> BOOLEAN] /\ reminder' \subseteq Cameras
        BY <2>6 DEF UnregisterOnReminder, Lapse, TypeOK, MaybeUnregisterReminder,
                    UnregisterReminder
      <3>3. QED
        BY <2>1, <2>6, <3>1, <3>2 DEF TypeOK, UnregisterOnReminder, RuntimeTypes
    <2>7. ASSUME LogOffline(c) PROVE TypeOK'
      <3>1. turn' \in [Cameras -> Turns]
        BY <2>7, TurnEnds DEF LogOffline
      <3>2. credit' \in [Cameras -> Int] /\ reported' \in [Cameras -> BOOLEAN]
        BY <2>7 DEF LogOffline, TypeOK
      <3>3. QED
        BY <2>1, <2>7, <3>1, <3>2 DEF TypeOK, LogOffline, RuntimeTypes
    <2>8. ASSUME GetStateOnReminderFails(c) PROVE TypeOK'
      <3>1. turn' \in [Cameras -> Turns] /\ lapsed' \in [Cameras -> BOOLEAN]
        BY <2>8, TurnEnds DEF GetStateOnReminderFails, Lapse, TypeOK
      <3>2. QED
        BY <2>1, <2>8, <3>1 DEF TypeOK, GetStateOnReminderFails, RuntimeTypes
    <2>9. QED
      BY <1>4, <2>2, <2>3, <2>4, <2>5, <2>6, <2>7, <2>8 DEF TurnStep
  <1>5. ASSUME NEW c \in Cameras, ReminderDue(c) \/ ReceiveReminder(c) PROVE TypeOK'
    <2>1. [op |-> "ReceiveReminder", step |-> "unregister"] \in Turns
      BY DEF Turns
    <2>2. QED
      BY <1>5, <2>1 DEF TypeOK, ReminderDue, Fire, ReceiveReminder, NoFault
  <1>6. ASSUME NEW c \in Cameras, Crash(c) PROVE TypeOK'
    <2>1. turn' \in [Cameras -> Turns] /\ lapsed' \in [Cameras -> BOOLEAN]
      BY <1>6, TurnEnds DEF Crash, Lapse, TypeOK
    <2>2. RuntimeTypes
      BY <1>1, <1>6 DEF Step
    <2>3. QED
      BY <1>6, <2>1, <2>2 DEF TypeOK, Crash, RuntimeTypes
  <1>7. CASE UNCHANGED vars
    BY <1>7 DEF TypeOK, vars
  <1>8. QED
    BY <1>2, <1>3, <1>4, <1>5, <1>6, <1>7 DEF Next, Deliver, Finished

\* Type correctness of the cameras for every instance.
THEOREM TypeCorrect == Spec => []TypeOK
  BY InitTypeOK, NextTypeOK, PTL DEF Spec

-----------------------------------------------------------------------------
(* The inductive invariant. A step of one camera leaves the others alone     *)
(* (Elsewhere), so that only the invariant of the camera itself is at stake. *)

\* No motion of the camera was published, settled or missed.
SameMotions(q) ==
    \A m \in CameraMotionDetected : m.camera = q =>
        /\ m \in topic' <=> m \in topic
        /\ m \in published' <=> m \in published
        /\ m \in missed' <=> m \in missed

Untouched(q) ==
    /\ turn'[q] = turn[q]
    /\ sim'[q] = sim[q]
    /\ store'[q] = store[q]
    /\ reported'[q] = reported[q]
    /\ lapsed'[q] = lapsed[q]
    /\ credit'[q] = credit[q]
    /\ q \in reminder' <=> q \in reminder
    /\ q \in firing' <=> q \in firing
    /\ ordered' = ordered
    /\ SameMotions(q)

\* A camera a step does not touch keeps its invariant.
LEMMA UntouchedKeeps ==
    ASSUME TypeOK, TypeOK', NEW q, CameraInv(q), Untouched(q)
    PROVE  CameraInv(q)'
  <1>1. \A m : m.camera = q => (m \in topic' <=> m \in topic)
    BY DEF Untouched, SameMotions, TypeOK
  <1>2. TurnInv(q)'
    BY <1>1 DEF CameraInv, TurnInv, Untouched, At
  <1>3. WatchedCamera(q)'
    BY <1>1 DEF CameraInv, WatchedCamera, Untouched
  <1>4. CreditInv(q)'
    BY DEF CameraInv, CreditInv, Untouched
  <1>5. \A n \in (published \ missed)' : n.camera = q => n \in published \ missed
    BY DEF Untouched, SameMotions, TypeOK
  <1>6. OrderInv(q)'
    <2>1. (store[q] < sim[q])' /\ (\A m \in topic : m.camera = q => m.at < sim[q])'
      BY <1>1 DEF CameraInv, OrderInv, Untouched
    <2>2. ASSUME ordered'
          PROVE  /\ \A m \in topic' : m.camera = q => store'[q] <= m.at
                 /\ turn'[q].op = "RegisterMotion" =>
                      \A m \in topic' : m.camera = q => turn'[q].msg.at <= m.at
                 /\ \A n \in (published \ missed)' :
                      n.camera = q => n \in topic' \/ n.at <= store'[q]
      BY <2>2, <1>1, <1>5 DEF CameraInv, OrderInv, Untouched
    <2>3. QED
      BY <2>1, <2>2 DEF OrderInv
  <1>7. QED
    BY <1>2, <1>3, <1>4, <1>6 DEF CameraInv

\* A step of the simulator, the actor or the reminder of one camera touches no
\* other camera: a turn settles and misses only its own motion.
LEMMA Elsewhere ==
    ASSUME TypeOK, NEW c \in Cameras, NEW q \in Cameras, q # c,
           TurnInv(c), Step(c)
    PROVE  Untouched(q)
  <1>1. ordered' = ordered
    BY FaultsBounded
  <1>2. CASE PublishMotion(c)
    <2>1. SameMotions(q)
      BY <1>2 DEF PublishMotion, Publish, MotionEvent, SameMotions
    <2>2. QED
      BY <1>1, <1>2, <2>1 DEF PublishMotion, Untouched, TypeOK
  <1>3. CASE Deliver(c)
    BY <1>1, <1>3 DEF Deliver, Dispatch, Untouched, SameMotions, TypeOK
  <1>4. CASE TurnStep(c)
    <2>1. /\ turn'[q] = turn[q] /\ sim' = sim /\ store'[q] = store[q]
          /\ reported'[q] = reported[q] /\ lapsed'[q] = lapsed[q]
          /\ credit'[q] = credit[q]
          /\ q \in reminder' <=> q \in reminder
          /\ q \in firing' <=> q \in firing
      BY <1>4
         DEF TurnStep, TypeOK, UnregisterOnMotion, UnregisterOnMotionFails,
             RegisterOnMotion, SaveMotion, UnregisterOnReminder, LogOffline,
             GetStateOnReminderFails, EndTurn, GoTo, Lapse, RegisterReminder,
             UnregisterReminder, MaybeUnregisterReminder
    <2>2. SameMotions(q)
      <3>1. /\ published' = published
            /\ \/ topic' = topic /\ missed' = missed
               \/ /\ turn[c].op = "RegisterMotion"
                  /\ topic' = topic \/ topic' = topic \ {turn[c].msg}
                  /\ missed' = missed \/ missed' = missed \union {turn[c].msg}
        BY <1>4
           DEF TurnStep, UnregisterOnMotion, UnregisterOnMotionFails,
               RegisterOnMotion, SaveMotion, UnregisterOnReminder, LogOffline,
               GetStateOnReminderFails, Ack, At
      <3>2. QED
        BY <3>1 DEF TurnInv, SameMotions
    <2>3. QED
      BY <1>1, <2>1, <2>2 DEF Untouched
  <1>5. CASE ReminderDue(c)
    BY <1>1, <1>5 DEF ReminderDue, Fire, Untouched, SameMotions
  <1>6. CASE ReceiveReminder(c)
    BY <1>1, <1>6 DEF ReceiveReminder, Untouched, SameMotions, TypeOK
  <1>7. CASE Crash(c)
    BY <1>1, <1>7 DEF Crash, EndTurn, Lapse, Untouched, SameMotions, TypeOK
  <1>8. QED
    BY <1>2, <1>3, <1>4, <1>5, <1>6, <1>7 DEF Step

\* Initially no camera was seen.
LEMMA InitIInv == Init => IInv
  <1> SUFFICES ASSUME Init, NEW c \in Cameras PROVE CameraInv(c)
    BY InitTypeOK DEF IInv
  <1>1. /\ turn[c] = Idle /\ store[c] = NeverSeen /\ credit[c] = 0 /\ sim[c] = 1
        /\ reminder = {} /\ firing = {} /\ topic = {} /\ published = {}
    BY DEF Init, RuntimeInit
  <1>2. TurnInv(c)
    BY <1>1 DEF TurnInv, At, Idle
  <1>3. WatchedCamera(c) /\ CreditInv(c)
    BY <1>1 DEF WatchedCamera, CreditInv, Idle
  <1>4. OrderInv(c)
    BY <1>1 DEF OrderInv, NeverSeen
  <1>5. QED
    BY <1>2, <1>3, <1>4 DEF CameraInv

\* Order is kept by a step that publishes, settles and saves no motion, and takes
\* none up.
LEMMA OrderStays ==
    ASSUME TypeOK, NEW c \in Cameras, OrderInv(c), ordered' = ordered,
           UNCHANGED <<topic, published, missed, sim, store>>,
           turn'[c].op = "RegisterMotion" =>
             turn[c].op = "RegisterMotion" /\ turn'[c].msg = turn[c].msg
    PROVE  OrderInv(c)'
  BY DEF OrderInv

\* A published motion is the camera's latest, and only adds to the topic.
LEMMA PublishMotionKeeps ==
    ASSUME TypeOK, NEW c \in Cameras, CameraInv(c), PublishMotion(c)
    PROVE  CameraInv(c)'
  <1> DEFINE e == MotionEvent(c)
  <1>1. /\ e.camera = c /\ e.at = sim[c] /\ sim[c] \in Nat /\ store[c] \in Nat
        /\ sim'[c] = sim[c] + 1
        /\ UNCHANGED <<reminder, firing, turn, store, missed, reported, lapsed, credit>>
        /\ topic' = topic \/ topic' = topic \union {e}
        /\ published' = published \/ (published' = published \union {e} /\ e \in topic')
        /\ topic \subseteq topic'
    BY CameraAssumption
       DEF PublishMotion, Publish, MotionEvent, TypeOK, Motions, NeverSeen
  <1> HIDE DEF e
  <1>2. ordered' = ordered
    BY FaultsBounded DEF Step
  <1>3. TurnInv(c)'
    BY <1>1 DEF CameraInv, TurnInv, At
  <1>4. WatchedCamera(c)' /\ CreditInv(c)'
    BY <1>1 DEF CameraInv, WatchedCamera, CreditInv
  <1>5. \A m \in topic : m.at \in Nat
    BY DEF TypeOK, CameraMotionDetected, Motions
  <1>6. (store[c] < sim[c])' /\ (\A m \in topic : m.camera = c => m.at < sim[c])'
    BY <1>1, <1>5 DEF CameraInv, OrderInv
  <1>7. ASSUME ordered
        PROVE  /\ \A m \in topic' : m.camera = c => store[c] <= m.at
               /\ turn[c].op = "RegisterMotion" =>
                    \A m \in topic' : m.camera = c => turn[c].msg.at <= m.at
               /\ \A n \in (published \ missed)' :
                    n.camera = c => n \in topic' \/ n.at <= store[c]
    <2>1. store[c] <= e.at
      BY <1>1 DEF CameraInv, OrderInv
    <2>2. turn[c].op = "RegisterMotion" => turn[c].msg.at <= e.at
      <3>1. turn[c].op = "RegisterMotion" => turn[c].msg.at < sim[c] /\ turn[c].msg.at \in Nat
        BY <1>5 DEF CameraInv, OrderInv, TurnInv
      <3>2. QED
        BY <1>1, <3>1
    <2>3. QED
      BY <1>1, <1>7, <2>1, <2>2 DEF CameraInv, OrderInv
  <1>8. OrderInv(c)'
    BY <1>1, <1>2, <1>6, <1>7 DEF OrderInv
  <1>9. QED
    BY <1>3, <1>4, <1>8 DEF CameraInv

\* A turn begins with a motion of its camera, the earliest of an ordered topic.
LEMMA DispatchKeeps ==
    ASSUME TypeOK, NEW c \in Cameras, CameraInv(c), NEW m \in topic, Dispatch(c, m)
    PROVE  CameraInv(c)'
  <1>1. /\ turn'[c] = [op |-> "RegisterMotion", msg |-> m, step |-> "unregister"]
        /\ m.camera = c /\ turn[c].op = "idle" /\ ordered' = ordered
        /\ UNCHANGED <<topic, reminder, firing, sim, store, published, missed, reported,
                       lapsed, credit>>
    BY DEF Dispatch, Idle, TypeOK, NoFault
  <1>2. TurnInv(c)'
    BY <1>1 DEF TurnInv, At
  <1>3. WatchedCamera(c)' /\ CreditInv(c)'
    BY <1>1 DEF CameraInv, WatchedCamera, CreditInv
  <1>4. ordered => \A n \in topic : n.camera = c => m.at <= n.at
    BY <1>1 DEF Dispatch, Deliverable
  <1>5. OrderInv(c)'
    BY <1>1, <1>4 DEF CameraInv, OrderInv
  <1>6. QED
    BY <1>2, <1>3, <1>5 DEF CameraInv

\* Between the two reminder calls of a motion its event is still in the topic.
LEMMA UnregisterOnMotionKeeps ==
    ASSUME TypeOK, NEW c \in Cameras, CameraInv(c), UnregisterOnMotion(c)
    PROVE  CameraInv(c)'
  <1>1. /\ turn[c].op = "RegisterMotion" /\ reminder' = reminder \ {c}
        /\ ordered' = ordered
        /\ UNCHANGED <<topic, firing, sim, store, published, missed, reported, lapsed,
                       credit>>
    BY DEF UnregisterOnMotion, UnregisterReminder, At, NoFault
  <1>2. /\ turn'[c].op = "RegisterMotion" /\ turn'[c].step = "register"
        /\ turn'[c].msg = turn[c].msg
    BY <1>1, MotionGoesOn DEF UnregisterOnMotion
  <1>3. TurnInv(c)'
    BY <1>1, <1>2 DEF CameraInv, TurnInv, At
  <1>4. WatchedCamera(c)'
    BY <1>1 DEF CameraInv, TurnInv, WatchedCamera
  <1>5. CreditInv(c)'
    BY <1>1, <1>2 DEF CameraInv, CreditInv
  <1>6. OrderInv(c)'
    BY <1>1, <1>2, OrderStays DEF CameraInv
  <1>7. QED
    BY <1>3, <1>4, <1>5, <1>6 DEF CameraInv

\* After the second reminder call the camera is watched, or has lapsed.
LEMMA RegisterOnMotionKeeps ==
    ASSUME TypeOK, NEW c \in Cameras, CameraInv(c), RegisterOnMotion(c)
    PROVE  CameraInv(c)'
  <1>1. /\ turn[c].op = "RegisterMotion"
        /\ UNCHANGED <<topic, firing, sim, store, published, missed, reported>>
    BY DEF RegisterOnMotion, At
  <1>2. ordered' = ordered
    BY FaultsBounded DEF Step, TurnStep
  <1>3. /\ turn'[c].op = "RegisterMotion" /\ turn'[c].msg = turn[c].msg
    BY <1>1, MotionGoesOn DEF RegisterOnMotion
  <1>4. \/ c \in reminder' /\ credit' = [credit EXCEPT ![c] = @ + 1]
        \/ UNCHANGED <<reminder, credit>> /\ Lapse(c)
    BY DEF RegisterOnMotion, RegisterReminder
  <1>5. c \in reminder' \/ lapsed'[c]
    BY <1>4 DEF Lapse, TypeOK
  <1>6. TurnInv(c)'
    BY <1>1, <1>3, <1>5 DEF CameraInv, TurnInv, At
  <1>7. WatchedCamera(c)'
    BY <1>5 DEF WatchedCamera
  <1>8. CreditInv(c)'
    <2>1. CASE UNCHANGED <<reminder, credit>>
      BY <2>1, <1>1, <1>3 DEF CameraInv, CreditInv
    <2>2. CASE credit' = [credit EXCEPT ![c] = @ + 1]
      <3>1. credit[c] \in Int /\ credit'[c] = credit[c] + 1
        BY <2>2 DEF TypeOK
      <3>2. QED
        BY <3>1 DEF CameraInv, CreditInv
    <2>3. QED
      BY <1>4, <2>1, <2>2
  <1>9. OrderInv(c)'
    BY <1>1, <1>2, <1>3, OrderStays DEF CameraInv
  <1>10. QED
    BY <1>6, <1>7, <1>8, <1>9 DEF CameraInv

\* The motion saved is the earliest of an ordered topic, whether the save reached
\* the store or not and whether its event was settled or will come again.
LEMMA SaveMotionKeeps ==
    ASSUME TypeOK, NEW c \in Cameras, CameraInv(c), SaveMotion(c)
    PROVE  CameraInv(c)'
  <1> DEFINE m == turn[c].msg
  <1>1. /\ At(c, "RegisterMotion", "save")
        /\ UNCHANGED <<reminder, firing, sim, published, missed, lapsed, credit>>
        /\ turn'[c].op = "idle"
    BY TurnEnds DEF SaveMotion
  <1>2. m \in topic /\ m.camera = c /\ m.at \in Nat /\ (c \in reminder \/ lapsed[c])
    BY <1>1, TurnKinds DEF CameraInv, TurnInv, At, CameraMotionDetected, Motions
  <1>3. \/ store'[c] = m.at /\ (topic' = topic \/ topic' = topic \ {m})
        \/ store'[c] = store[c] /\ topic' = topic
    BY <1>2 DEF SaveMotion, Ack, TypeOK
  <1>4. ordered' = ordered
    BY FaultsBounded DEF Step, TurnStep
  <1> HIDE DEF m
  <1>5. TurnInv(c)'
    BY <1>1 DEF TurnInv, At
  <1>6. WatchedCamera(c)'
    BY <1>1, <1>2 DEF WatchedCamera
  <1>7. CreditInv(c)'
    BY <1>1 DEF CameraInv, CreditInv
  <1>8. /\ sim[c] \in Nat /\ store[c] \in Nat
        /\ \A n \in topic \union published : n.at \in Nat
    BY DEF TypeOK, CameraMotionDetected, Motions, NeverSeen
  <1>9. OrderInv(c)'
    <2>1. (store[c] < sim[c])' /\ (\A n \in topic : n.camera = c => n.at < sim[c])'
      BY <1>1, <1>2, <1>3 DEF CameraInv, OrderInv
    <2>2. ASSUME ordered
          PROVE  /\ \A n \in topic' : n.camera = c => store'[c] <= n.at
                 /\ \A n \in published \ missed :
                      n.camera = c => n \in topic' \/ n.at <= store'[c]
      <3>1. store[c] <= m.at /\ \A n \in topic : n.camera = c => m.at <= n.at
        BY <1>1, <1>2, <2>2 DEF CameraInv, OrderInv, At, m
      <3>2. \A n \in topic : n.camera = c => store[c] <= n.at
        BY <2>2 DEF CameraInv, OrderInv
      <3>3. \A n \in published \ missed : n.camera = c => n \in topic \/ n.at <= store[c]
        BY <2>2 DEF CameraInv, OrderInv
      <3>4. CASE store'[c] = store[c] /\ topic' = topic
        BY <3>2, <3>3, <3>4
      <3>5. CASE store'[c] = m.at /\ (topic' = topic \/ topic' = topic \ {m})
        BY <3>1, <3>3, <3>5, <1>2, <1>8
      <3>6. QED
        BY <1>3, <3>4, <3>5
    <2>3. QED
      BY <1>1, <1>4, <2>1, <2>2 DEF OrderInv
  <1>10. QED
    BY <1>5, <1>6, <1>7, <1>9 DEF CameraInv

\* A turn that fails for good with its reminder gone makes the camera lapse.
LEMMA LapseKeeps ==
    ASSUME TypeOK, NEW c \in Cameras, CameraInv(c),
           EndTurn(c), Lapse(c), UNCHANGED <<firing, store, reported, credit>>,
           reminder' = reminder \/ reminder' = reminder \ {c}, OrderInv(c)'
    PROVE  CameraInv(c)'
  <1>1. turn'[c].op = "idle" /\ (c \in reminder' \/ lapsed'[c])
    BY TurnEnds DEF Lapse, TypeOK
  <1>2. TurnInv(c)'
    BY <1>1 DEF TurnInv, At
  <1>3. WatchedCamera(c)'
    BY <1>1 DEF WatchedCamera
  <1>4. CreditInv(c)'
    BY <1>1 DEF CameraInv, CreditInv
  <1>5. QED
    BY <1>2, <1>3, <1>4 DEF CameraInv

\* The catch of RegisterMotionAsync settles a motion that was not saved.
LEMMA UnregisterOnMotionFailsKeeps ==
    ASSUME TypeOK, NEW c \in Cameras, CameraInv(c), UnregisterOnMotionFails(c)
    PROVE  CameraInv(c)'
  <1>1. /\ EndTurn(c) /\ Lapse(c) /\ turn'[c].op = "idle"
        /\ UNCHANGED <<firing, sim, store, published, reported, credit>>
        /\ reminder' = reminder \/ reminder' = reminder \ {c}
        /\ topic' = topic \ {turn[c].msg} /\ missed' = missed \union {turn[c].msg}
    BY TurnEnds DEF UnregisterOnMotionFails, MaybeUnregisterReminder, UnregisterReminder
  <1>2. ordered' = ordered
    BY FaultsBounded DEF Step, TurnStep
  <1>3. OrderInv(c)'
    BY <1>1, <1>2 DEF CameraInv, OrderInv
  <1>4. QED
    BY <1>1, <1>3, LapseKeeps

\* ReceiveReminderAsync: taking the reminder's turn, unregistering, logging, and
\* the failures of its calls.
LEMMA ReminderKeeps ==
    ASSUME TypeOK, NEW c \in Cameras, CameraInv(c),
           \/ ReminderDue(c) \/ ReceiveReminder(c) \/ UnregisterOnReminder(c)
           \/ LogOffline(c) \/ GetStateOnReminderFails(c)
    PROVE  CameraInv(c)'
  <1>1. ordered' = ordered
    BY FaultsBounded DEF Step, TurnStep
  <1>2. CASE ReminderDue(c)
    <2>1. /\ c \in reminder /\ turn[c].op # "ReceiveReminder"
          /\ c \in firing'
          /\ UNCHANGED <<topic, reminder, sim, turn, store, published, missed, reported,
                         lapsed, credit>>
      BY <1>2 DEF ReminderDue, Fire
    <2>2. TurnInv(c)' /\ WatchedCamera(c)' /\ CreditInv(c)'
      BY <2>1 DEF CameraInv, TurnInv, WatchedCamera, CreditInv, At
    <2>3. OrderInv(c)'
      BY <1>1, <2>1, OrderStays DEF CameraInv
    <2>4. QED
      BY <2>2, <2>3 DEF CameraInv
  <1>3. CASE ReceiveReminder(c)
    <2>1. /\ turn'[c] = [op |-> "ReceiveReminder", step |-> "unregister"]
          /\ c \in firing /\ c \notin firing'
          /\ UNCHANGED <<topic, reminder, sim, store, published, missed, reported,
                         lapsed, credit>>
      BY <1>3 DEF ReceiveReminder, TypeOK
    <2>2. TurnInv(c)' /\ WatchedCamera(c)' /\ CreditInv(c)'
      BY <2>1 DEF CameraInv, TurnInv, WatchedCamera, CreditInv, At
    <2>3. OrderInv(c)'
      BY <1>1, <2>1, OrderStays DEF CameraInv
    <2>4. QED
      BY <2>2, <2>3 DEF CameraInv
  <1>4. CASE UnregisterOnReminder(c)
    <2>1. /\ turn[c].op = "ReceiveReminder"
          /\ reminder' = reminder \/ reminder' = reminder \ {c}
          /\ UNCHANGED <<topic, firing, sim, store, published, missed, reported, credit>>
      BY <1>4 DEF UnregisterOnReminder, UnregisterReminder, MaybeUnregisterReminder, At
    <2>2. CASE UnregisterReminder(c) /\ GoTo(c, "log") /\ UNCHANGED lapsed
      <3>1. turn'[c].op = "ReceiveReminder" /\ c \notin reminder'
        BY <2>1, <2>2, ReminderGoesOn DEF UnregisterReminder
      <3>2. TurnInv(c)' /\ WatchedCamera(c)' /\ CreditInv(c)'
        BY <2>1, <2>2, <3>1 DEF CameraInv, TurnInv, WatchedCamera, CreditInv, At
      <3>3. OrderInv(c)'
        BY <1>1, <2>1, <3>1, OrderStays DEF CameraInv
      <3>4. QED
        BY <3>2, <3>3 DEF CameraInv
    <2>3. CASE EndTurn(c) /\ Lapse(c)
      <3>1. OrderInv(c)'
        BY <1>1, <2>1, <2>3, TurnEnds, OrderStays DEF CameraInv
      <3>2. QED
        BY <2>1, <2>3, <3>1, LapseKeeps
    <2>4. QED
      BY <1>4, <2>2, <2>3 DEF UnregisterOnReminder
  <1>5. CASE LogOffline(c)
    <2>1. /\ turn[c].op = "ReceiveReminder" /\ turn'[c].op = "idle"
          /\ c \notin reminder /\ c \notin firing
          /\ UNCHANGED <<topic, reminder, firing, sim, store, published, missed, lapsed>>
      BY <1>5, TurnEnds DEF LogOffline, At, CameraInv, TurnInv
    <2>2. reported'[c] /\ credit'[c] = credit[c] - 1 /\ credit[c] \in Int
      BY <1>5 DEF LogOffline, TypeOK
    <2>3. TurnInv(c)' /\ WatchedCamera(c)' /\ CreditInv(c)'
      BY <2>1, <2>2 DEF CameraInv, TurnInv, WatchedCamera, CreditInv, At
    <2>4. OrderInv(c)'
      BY <1>1, <2>1, OrderStays DEF CameraInv
    <2>5. QED
      BY <2>3, <2>4 DEF CameraInv
  <1>6. CASE GetStateOnReminderFails(c)
    <2>1. /\ EndTurn(c) /\ Lapse(c) /\ turn'[c].op = "idle"
          /\ UNCHANGED <<topic, reminder, firing, sim, store, published, missed,
                         reported, credit>>
      BY <1>6, TurnEnds DEF GetStateOnReminderFails
    <2>2. OrderInv(c)'
      BY <1>1, <2>1, OrderStays DEF CameraInv
    <2>3. QED
      BY <2>1, <2>2, LapseKeeps
  <1>7. QED
    BY <1>2, <1>3, <1>4, <1>5, <1>6

\* A crash leaves the motion of its turn in the topic; the reminder it was serving
\* is still registered, or the camera lapses.
LEMMA CrashKeeps ==
    ASSUME TypeOK, NEW c \in Cameras, CameraInv(c), Crash(c)
    PROVE  CameraInv(c)'
  <1>1. /\ EndTurn(c) /\ turn'[c].op = "idle"
        /\ UNCHANGED <<topic, reminder, firing, sim, store, published, missed, reported,
                       credit>>
    BY TurnEnds DEF Crash
  <1>2. OrderInv(c)'
    BY <1>1, FaultsBounded, OrderStays DEF Step, CameraInv
  <1>3. CASE turn[c].op = "ReceiveReminder"
    BY <1>1, <1>2, <1>3, LapseKeeps DEF Crash
  <1>4. CASE turn[c].op # "ReceiveReminder"
    <2>1. UNCHANGED lapsed
      BY <1>4 DEF Crash
    <2>2. TurnInv(c)' /\ WatchedCamera(c)' /\ CreditInv(c)'
      BY <1>1, <1>4, <2>1 DEF CameraInv, TurnInv, WatchedCamera, CreditInv, At
    <2>3. QED
      BY <1>2, <2>2 DEF CameraInv
  <1>5. QED
    BY <1>3, <1>4

\* Every step keeps the inductive invariant.
LEMMA NextIInv == IInv /\ [Next]_vars => IInv'
  <1> SUFFICES ASSUME IInv, [Next]_vars PROVE IInv'
    OBVIOUS
  <1>1. TypeOK /\ TypeOK'
    BY NextTypeOK DEF IInv
  <1>2. ASSUME NEW c \in Cameras, Step(c), NEW q \in Cameras PROVE CameraInv(q)'
    <2>1. CameraInv(c) /\ CameraInv(q)
      BY DEF IInv
    <2>2. CASE q = c
      <3>1. CameraInv(c)'
        BY <1>1, <1>2, <2>1, PublishMotionKeeps, DispatchKeeps, UnregisterOnMotionKeeps,
           UnregisterOnMotionFailsKeeps, RegisterOnMotionKeeps, SaveMotionKeeps,
           ReminderKeeps, CrashKeeps
           DEF Step, Deliver, TurnStep
      <3>2. QED
        BY <2>2, <3>1
    <2>3. CASE q # c
      BY <1>1, <1>2, <2>1, <2>3, Elsewhere, UntouchedKeeps DEF CameraInv
    <2>4. QED
      BY <2>2, <2>3
  <1>3. ASSUME UNCHANGED vars, NEW q \in Cameras PROVE CameraInv(q)'
    <2>1. Untouched(q)
      BY <1>3 DEF vars, Untouched, SameMotions
    <2>2. QED
      BY <1>1, <2>1, UntouchedKeeps DEF IInv
  <1>4. QED
    BY <1>1, <1>2, <1>3 DEF IInv, Next, Step, Finished

\* The inductive invariant holds in every reachable state.
THEOREM Invariance == Spec => []IInv
  BY InitIInv, NextIInv, PTL DEF Spec

\* No camera that was seen is ever forgotten: its reminder is registered, due or
\* being served, it was logged as offline, a motion is still to come, or it lapsed.
THEOREM NoCameraForgotten == Spec => []Watched
  <1>1. IInv => Watched
    BY DEF IInv, CameraInv, Watched
  <1>2. QED
    BY <1>1, Invariance, PTL

\* Never more "is offline" lines than registered reminders.
THEOREM AtMostOneReport == Spec => []OneReportPerMotion
  <1>1. IInv => OneReportPerMotion
    BY DEF IInv, CameraInv, OneReportPerMotion, CreditInv
  <1>2. QED
    BY <1>1, Invariance, PTL

\* With ordered delivery an idle camera with nothing in the topic was last seen at
\* the latest of its motions that were not missed.
THEOREM LatestRecorded == Spec => []LatestMotionRecorded
  <1>1. IInv => LatestMotionRecorded
    BY DEF IInv, CameraInv, OrderInv, LatestMotionRecorded
  <1>2. QED
    BY <1>1, Invariance, PTL

\* A step of a camera saves nothing but its earliest motion in an ordered topic.
LEMMA SavesForward ==
    ASSUME IInv, ordered, NEW c \in Cameras, Step(c)
    PROVE  store'[c] >= store[c]
  <1>1. store[c] \in Nat
    BY DEF IInv, TypeOK, Motions, NeverSeen
  <1>2. CASE SaveMotion(c)
    <2>1. turn[c].msg \in topic /\ turn[c].msg.camera = c
      BY <1>2 DEF SaveMotion, At, IInv, CameraInv, TurnInv
    <2>2. store[c] <= turn[c].msg.at
      BY <2>1 DEF IInv, CameraInv, OrderInv
    <2>3. store'[c] = store[c] \/ store'[c] = turn[c].msg.at
      BY <1>2 DEF SaveMotion, IInv, TypeOK
    <2>4. turn[c].msg.at \in Nat
      BY <2>1 DEF IInv, TypeOK, CameraMotionDetected, Motions
    <2>5. QED
      BY <1>1, <2>2, <2>3, <2>4
  <1>3. CASE ~ SaveMotion(c)
    <2>1. store' = store
      BY <1>3 DEF Step, PublishMotion, Deliver, Dispatch, TurnStep, UnregisterOnMotion,
                  UnregisterOnMotionFails, RegisterOnMotion, UnregisterOnReminder,
                  LogOffline, GetStateOnReminderFails, ReminderDue, ReceiveReminder, Crash
    <2>2. QED
      BY <1>1, <2>1
  <1>4. QED
    BY <1>2, <1>3

\* With ordered delivery LastSeenAt never goes back, through redeliveries, saves
\* that fail after reaching the store, and crashes.
THEOREM LastSeenNeverBack == Spec => LastSeenMonotone
  <1> DEFINE Forward == ordered => \A c \in Cameras : store'[c] >= store[c]
  <1>1. IInv /\ [Next]_vars => [Forward]_vars
    <2> SUFFICES ASSUME IInv, Next, ordered, NEW q \in Cameras
                 PROVE  store'[q] >= store[q]
      OBVIOUS
    <2>1. store[q] \in Nat
      BY DEF IInv, TypeOK, Motions, NeverSeen
    <2>2. ASSUME NEW c \in Cameras, Step(c) PROVE store'[q] >= store[q]
      <3>1. CASE q = c
        BY <2>2, <3>1, SavesForward
      <3>2. CASE q # c
        <4>1. TypeOK /\ TurnInv(c)
          BY DEF IInv, CameraInv
        <4>2. store'[q] = store[q]
          BY <2>2, <3>2, <4>1, Elsewhere DEF Untouched
        <4>3. QED
          BY <2>1, <4>2
      <3>3. QED
        BY <3>1, <3>2
    <2>3. CASE UNCHANGED vars
      BY <2>1, <2>3 DEF vars
    <2>4. QED
      BY <2>2, <2>3 DEF Next, Step, Finished
  <1>2. QED
    BY <1>1, Invariance, PTL DEF Spec, LastSeenMonotone
=============================================================================
