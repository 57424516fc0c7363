------------------------- MODULE RaceControlProofs -------------------------
(***************************************************************************)
(* Theorems about RaceControl for every set of runners, every bound, every *)
(* choice of the calls that fail, ordered delivery or not.                 *)
(***************************************************************************)
EXTENDS RaceControl, TLAPS

\* The initial state of the race has the declared types.
LEMMA InitTypeOK == Init => TypeOK
  <1> SUFFICES ASSUME Init PROVE TypeOK
    OBVIOUS
  <1>1. [race |-> 1, next |-> "Start"] \in [race : 1 .. MaxRaces + 1, next : CheckPoint]
    BY RaceAssumption DEF CheckPoint
  <1>2. QED
    BY <1>1, RuntimeAssumption
       DEF Init, RuntimeInit, TypeOK, Turns, Runners

\* A call that succeeds or fails keeps the number of failures in its bounds.
LEMMA FaultsBounded ==
    ASSUME faults \in 0 .. MaxFaults, NEW kind, NoFault \/ Fault(kind)
    PROVE  faults' \in 0 .. MaxFaults /\ ordered' = ordered
  BY RuntimeAssumption DEF NoFault, Fault

\* A turn is one of its three kinds: idle, a registration or a reminder.
LEMMA TurnKinds ==
    ASSUME TypeOK, NEW r \in Runners
    PROVE  /\ turn[r].op \in {"idle", "ReceiveReminder"} \union Methods
           /\ turn[r] = Idle <=> turn[r].op = "idle"
           /\ turn[r].op \in Methods =>
                turn[r] \in [op : Methods, msg : RunnerRegistered,
                             at : {"reminder", "state"}]
           /\ turn[r].op = "ReceiveReminder" =>
                turn[r] \in [op : {"ReceiveReminder"}, at : {"reminder", "state"}]
  BY DEF TypeOK, Turns, Idle, Methods

\* Going on to the state of a turn, or ending it, leaves well typed turns.
LEMMA TurnSteps ==
    ASSUME TypeOK, NEW r \in Runners
    PROVE  /\ EndTurn(r) => turn' \in [Runners -> Turns]
           /\ turn[r] # Idle /\ ToState(r) => turn' \in [Runners -> Turns]
  <1>1. EndTurn(r) => turn' \in [Runners -> Turns]
    BY DEF TypeOK, EndTurn, Turns
  <1>2. ASSUME turn[r] # Idle, ToState(r) PROVE turn' \in [Runners -> Turns]
    <2>1. [turn[r] EXCEPT !.at = "state"] \in Turns
      BY <1>2, TurnKinds DEF Turns, Methods
    <2>2. QED
      BY <1>2, <2>1 DEF TypeOK, ToState
  <1>3. QED
    BY <1>1, <1>2

\* The next event of a runner and the next position of its loop are well typed.
LEMMA PublishTyped ==
    ASSUME TypeOK, NEW r \in Runners, sim[r].race <= MaxRaces
    PROVE  /\ CheckPointEvent(r) \in RunnerRegistered
           /\ NextRace(r) \in [race : 1 .. MaxRaces + 1, next : CheckPoint]
           /\ AfterCheckPoint(r) \in [race : 1 .. MaxRaces + 1, next : CheckPoint]
  <1>1. /\ sim[r] \in [race : 1 .. MaxRaces + 1, next : CheckPoint]
        /\ sim[r].race \in Races
    BY RaceAssumption DEF TypeOK, Races
  <1>2. NextRace(r) \in [race : 1 .. MaxRaces + 1, next : CheckPoint]
    BY <1>1, RaceAssumption DEF NextRace, CheckPoint, Races
  <1>3. QED
    BY <1>1, <1>2 DEF CheckPointEvent, AfterCheckPoint, RunnerRegistered, CheckPoint

\* A state is saved, or not, and the turn ends: the types are kept.
LEMMA SaveStateTyped ==
    ASSUME TypeOK, NEW r \in Runners, NEW s \in RunnerState, SaveState(r, s)
    PROVE  /\ turn' \in [Runners -> Turns]
           /\ store' \in [Runners -> RunnerState \union {NoState}]
           /\ topic' \subseteq RunnerRegistered
           /\ faults' \in 0 .. MaxFaults /\ ordered' = ordered
  <1>1. turn' \in [Runners -> Turns]
    BY TurnSteps DEF SaveState
  <1>2. /\ store' \in [Runners -> RunnerState \union {NoState}]
        /\ topic' \subseteq RunnerRegistered
    BY DEF SaveState, TypeOK, Ack
  <1>3. faults' \in 0 .. MaxFaults /\ ordered' = ordered
    <2>1. NoFault \/ Fault("redeliver") \/ Fault("save")
      BY DEF SaveState, Ack
    <2>2. QED
      BY <2>1, FaultsBounded DEF TypeOK
  <1>4. QED
    BY <1>1, <1>2, <1>3

\* Every step keeps the types.
LEMMA NextTypeOK == TypeOK /\ [Next]_vars => TypeOK'
  <1> SUFFICES ASSUME TypeOK, [Next]_vars PROVE TypeOK'
    OBVIOUS
  <1> USE DEF Runners
  <1>1. ASSUME NEW r \in Runners, PublishCheckPoint(r) PROVE TypeOK'
    BY <1>1, PublishTyped DEF TypeOK, PublishCheckPoint, Publish, NoFault
  <1>2. ASSUME NEW r \in Runners, PublishFails(r) PROVE TypeOK'
    <2>1. faults' \in 0 .. MaxFaults /\ ordered' = ordered
      BY <1>2, FaultsBounded DEF PublishFails, TypeOK
    <2>2. QED
      BY <1>2, <2>1, PublishTyped DEF TypeOK, PublishFails, Publish
  <1>3. ASSUME NEW r \in Runners, NEW m \in topic, Dispatch(r, m) PROVE TypeOK'
    <2>1. [op |-> MethodOf(m.checkPoint), msg |-> m, at |-> FirstStep(m.checkPoint)]
            \in Turns
      BY DEF TypeOK, MethodOf, FirstStep, Turns
    <2>2. QED
      BY <1>3, <2>1 DEF TypeOK, Dispatch, NoFault
  <1>4. ASSUME NEW r \in Runners, RegisterStartReminder(r) PROVE TypeOK'
    <2>1. turn' \in [Runners -> Turns]
      BY <1>4, TurnSteps DEF RegisterStartReminder, At, Idle
    <2>2. faults' \in 0 .. MaxFaults /\ ordered' = ordered
      BY <1>4, FaultsBounded DEF RegisterStartReminder, TypeOK
    <2>3. credit' \in [Runners -> Int]
      BY <1>4 DEF RegisterStartReminder, TypeOK
    <2>4. lapsed' \in [Runners -> BOOLEAN]
      BY <1>4 DEF RegisterStartReminder, Lapse, TypeOK
    <2>5. QED
      BY <1>4, <2>1, <2>2, <2>3, <2>4
         DEF TypeOK, RegisterStartReminder, RegisterReminder
  <1>5. ASSUME NEW r \in Runners, RegisterStartSave(r) PROVE TypeOK'
    <2>1. NewRunnerState(turn[r].msg.race) \in RunnerState
      BY <1>5, TurnKinds
         DEF RegisterStartSave, At, Methods, RunnerRegistered, NewRunnerState, RunnerState
    <2>2. SaveState(r, NewRunnerState(turn[r].msg.race))
      BY <1>5 DEF RegisterStartSave
    <2>3. reported' \in [Runners -> BOOLEAN]
      BY <1>5 DEF RegisterStartSave, TypeOK
    <2>4. QED
      BY <1>5, <2>1, <2>2, <2>3, SaveStateTyped DEF TypeOK, RegisterStartSave
  <1>6. ASSUME NEW r \in Runners, RegisterHalf(r) PROVE TypeOK'
    <2>1. /\ store[r] \in RunnerState
          /\ turn[r].msg.race \in Races
      BY <1>6, TurnKinds DEF RegisterHalf, At, Methods, RunnerRegistered, TypeOK
    <2>2. [store[r] EXCEPT !.half = turn[r].msg.race] \in RunnerState
      BY <2>1 DEF RunnerState
    <2>3. SaveState(r, [store[r] EXCEPT !.half = turn[r].msg.race])
      BY <1>6 DEF RegisterHalf
    <2>4. QED
      BY <1>6, <2>2, <2>3, SaveStateTyped DEF TypeOK, RegisterHalf
  <1>7. ASSUME NEW r \in Runners, UnregisterOnFinish(r) PROVE TypeOK'
    <2>1. turn' \in [Runners -> Turns]
      BY <1>7, TurnSteps DEF UnregisterOnFinish, At, Idle
    <2>2. QED
      BY <1>7, <2>1 DEF TypeOK, UnregisterOnFinish, UnregisterReminder, NoFault
  <1>8. ASSUME NEW r \in Runners, UnregisterOnFinishFails(r) PROVE TypeOK'
    <2>1. turn' \in [Runners -> Turns] /\ turn[r].msg \in RunnerRegistered
      BY <1>8, TurnSteps, TurnKinds
         DEF UnregisterOnFinishFails, Swallow, At, Methods
    <2>2. faults' \in 0 .. MaxFaults /\ ordered' = ordered
      BY <1>8, FaultsBounded DEF UnregisterOnFinishFails, TypeOK
    <2>3. lapsed' \in [Runners -> BOOLEAN]
      BY <1>8 DEF UnregisterOnFinishFails, Swallow, Lapse, TypeOK
    <2>4. QED
      BY <1>8, <2>1, <2>2, <2>3
         DEF TypeOK, UnregisterOnFinishFails, Swallow, MaybeUnregisterReminder,
             UnregisterReminder
  <1>9. ASSUME NEW r \in Runners, RegisterFinisher(r) PROVE TypeOK'
    <2>1. /\ store[r] \in RunnerState
          /\ turn[r].msg.race \in Races
      BY <1>9, TurnKinds DEF RegisterFinisher, At, Methods, RunnerRegistered, TypeOK
    <2>2. [store[r] EXCEPT !.finish = turn[r].msg.race] \in RunnerState
      BY <2>1 DEF RunnerState
    <2>3. SaveState(r, [store[r] EXCEPT !.finish = turn[r].msg.race])
      BY <1>9 DEF RegisterFinisher
    <2>4. QED
      BY <1>9, <2>2, <2>3, SaveStateTyped DEF TypeOK, RegisterFinisher
  <1>10. ASSUME NEW r \in Runners, GetStateFails(r) PROVE TypeOK'
    <2>1. turn' \in [Runners -> Turns] /\ turn[r].msg \in RunnerRegistered
      BY <1>10, TurnSteps, TurnKinds DEF GetStateFails, Swallow, At, Methods
    <2>2. faults' \in 0 .. MaxFaults /\ ordered' = ordered
      BY <1>10, FaultsBounded DEF GetStateFails, TypeOK
    <2>3. lapsed' \in [Runners -> BOOLEAN]
      BY <1>10 DEF GetStateFails, Swallow, Lapse, TypeOK
    <2>4. QED
      BY <1>10, <2>1, <2>2, <2>3 DEF TypeOK, GetStateFails, Swallow
  <1>11. ASSUME NEW r \in Runners, UnregisterOnReminder(r) PROVE TypeOK'
    <2>1. turn' \in [Runners -> Turns]
      BY <1>11, TurnSteps DEF UnregisterOnReminder, At, Idle
    <2>2. QED
      BY <1>11, <2>1 DEF TypeOK, UnregisterOnReminder, UnregisterReminder, NoFault
  <1>12. ASSUME NEW r \in Runners, UnregisterOnReminderFails(r) PROVE TypeOK'
    <2>1. turn' \in [Runners -> Turns]
      BY <1>12, TurnSteps DEF UnregisterOnReminderFails
    <2>2. faults' \in 0 .. MaxFaults /\ ordered' = ordered
      BY <1>12, FaultsBounded DEF UnregisterOnReminderFails, TypeOK
    <2>3. lapsed' \in [Runners -> BOOLEAN]
      BY <1>12 DEF UnregisterOnReminderFails, Lapse, TypeOK
    <2>4. QED
      BY <1>12, <2>1, <2>2, <2>3
         DEF TypeOK, UnregisterOnReminderFails, MaybeUnregisterReminder,
             UnregisterReminder
  <1>13. ASSUME NEW r \in Runners, LogDidNotFinish(r) PROVE TypeOK'
    <2>1. turn' \in [Runners -> Turns]
      BY <1>13, TurnSteps DEF LogDidNotFinish
    <2>2. credit' \in [Runners -> Int]
      BY <1>13 DEF LogDidNotFinish, TypeOK
    <2>3. QED
      BY <1>13, <2>1, <2>2 DEF TypeOK, LogDidNotFinish, NoFault
  <1>14. ASSUME NEW r \in Runners, GetStateOnReminderFails(r) PROVE TypeOK'
    <2>1. turn' \in [Runners -> Turns]
      BY <1>14, TurnSteps DEF GetStateOnReminderFails
    <2>2. faults' \in 0 .. MaxFaults /\ ordered' = ordered
      BY <1>14, FaultsBounded DEF GetStateOnReminderFails, TypeOK
    <2>3. lapsed' \in [Runners -> BOOLEAN]
      BY <1>14 DEF GetStateOnReminderFails, Lapse, TypeOK
    <2>4. QED
      BY <1>14, <2>1, <2>2, <2>3 DEF TypeOK, GetStateOnReminderFails
  <1>15. ASSUME NEW r \in Runners, ReminderDue(r) PROVE TypeOK'
    BY <1>15 DEF TypeOK, ReminderDue, Fire, NoFault
  <1>16. ASSUME NEW r \in Runners, ReceiveReminder(r) PROVE TypeOK'
    <2>1. [op |-> "ReceiveReminder", at |-> "reminder"] \in Turns
      BY DEF Turns
    <2>2. QED
      BY <1>16, <2>1 DEF TypeOK, ReceiveReminder, NoFault
  <1>17. ASSUME NEW r \in Runners, Crash(r) PROVE TypeOK'
    <2>1. turn' \in [Runners -> Turns]
      BY <1>17, TurnSteps DEF Crash
    <2>2. faults' \in 0 .. MaxFaults /\ ordered' = ordered
      BY <1>17, FaultsBounded DEF Crash, TypeOK
    <2>3. lapsed' \in [Runners -> BOOLEAN]
      BY <1>17 DEF Crash, Lapse, TypeOK
    <2>4. QED
      BY <1>17, <2>1, <2>2, <2>3 DEF TypeOK, Crash
  <1>18. CASE UNCHANGED vars
    BY <1>18 DEF TypeOK, vars
  <1>19. QED
    BY <1>1, <1>2, <1>3, <1>4, <1>5, <1>6, <1>7, <1>8, <1>9, <1>10, <1>11,
       <1>12, <1>13, <1>14, <1>15, <1>16, <1>17, <1>18
       DEF Next, Simulator, Deliver, TurnStep, Finished

\* Type correctness of the race for every instance.
THEOREM TypeCorrect == Spec => []TypeOK
  BY InitTypeOK, NextTypeOK, PTL DEF Spec

-----------------------------------------------------------------------------
(* The inductive invariant. A step of one runner leaves the others alone    *)
(* (Elsewhere), so that only the invariant of the runner itself is at stake. *)

Untouched(q) ==
    /\ turn'[q] = turn[q]
    /\ store'[q] = store[q]
    /\ reported'[q] = reported[q]
    /\ lapsed'[q] = lapsed[q]
    /\ credit'[q] = credit[q]
    /\ q \in reminder' <=> q \in reminder
    /\ q \in firing' <=> q \in firing
    /\ \A m \in topic : m.bib = q => m \in topic'

\* A runner a step does not touch keeps its invariant.
LEMMA UntouchedKeeps ==
    ASSUME NEW q, RunnerInv(q), Untouched(q)
    PROVE  RunnerInv(q)'
  <1>1. \A cp : Pending(q, cp) => Pending(q, cp)'
    BY DEF Pending, Untouched
  <1>2. TurnInv(q)'
    BY DEF RunnerInv, TurnInv, Untouched, At
  <1>3. WatchedRunner(q)'
    BY <1>1 DEF RunnerInv, WatchedRunner, Untouched, Unfinished
  <1>4. DisarmedRunner(q)'
    BY <1>1 DEF RunnerInv, DisarmedRunner, Untouched
  <1>5. CreditInv(q)'
    BY DEF RunnerInv, CreditInv, Untouched
  <1>6. QED
    BY <1>2, <1>3, <1>4, <1>5 DEF RunnerInv

Step(r) ==
    Simulator(r) \/ Deliver(r) \/ TurnStep(r) \/ ReminderDue(r)
      \/ ReceiveReminder(r) \/ Crash(r)

\* A step of the simulator, the actor or the reminder of one runner touches no
\* other runner: a turn settles only its own event.
LEMMA Elsewhere ==
    ASSUME TypeOK, NEW r \in Runners, NEW q \in Runners, q # r,
           TurnInv(r), Step(r)
    PROVE  Untouched(q)
  <1> USE DEF Runners
  <1> DEFINE Rest == /\ turn'[q] = turn[q]
                     /\ store'[q] = store[q]
                     /\ reported'[q] = reported[q]
                     /\ lapsed'[q] = lapsed[q]
                     /\ credit'[q] = credit[q]
                     /\ q \in reminder' <=> q \in reminder
                     /\ q \in firing' <=> q \in firing
             Topic == \A m \in topic : m.bib = q => m \in topic'
  <1>1. CASE Simulator(r)
    BY <1>1 DEF Simulator, PublishCheckPoint, PublishFails, Publish, Untouched
  <1>2. CASE Deliver(r)
    BY <1>2 DEF Deliver, Dispatch, Untouched, TypeOK
  <1>3. CASE TurnStep(r)
    <2>1. Rest
      BY <1>3
         DEF TurnStep, TypeOK, RegisterStartReminder, RegisterStartSave, RegisterHalf,
             UnregisterOnFinish, UnregisterOnFinishFails, RegisterFinisher,
             GetStateFails, UnregisterOnReminder, UnregisterOnReminderFails,
             LogDidNotFinish, GetStateOnReminderFails, SaveState, Swallow, Lapse,
             EndTurn, ToState, RegisterReminder, UnregisterReminder,
             MaybeUnregisterReminder
    <2>2. Topic
      <3>1. topic' = topic \/ (topic' = topic \ {turn[r].msg} /\ turn[r].op \in Methods)
        BY <1>3
           DEF TurnStep, RegisterStartReminder, RegisterStartSave, RegisterHalf,
               UnregisterOnFinish, UnregisterOnFinishFails, RegisterFinisher,
               GetStateFails, UnregisterOnReminder, UnregisterOnReminderFails,
               LogDidNotFinish, GetStateOnReminderFails, SaveState, Swallow, Ack,
               At, Methods
      <3>2. QED
        BY <3>1 DEF TurnInv
    <2>3. QED
      BY <2>1, <2>2 DEF Untouched
  <1>4. CASE ReminderDue(r)
    BY <1>4 DEF ReminderDue, Fire, Untouched
  <1>5. CASE ReceiveReminder(r)
    BY <1>5 DEF ReceiveReminder, Untouched, TypeOK
  <1>6. CASE Crash(r)
    BY <1>6 DEF Crash, EndTurn, Lapse, Untouched, TypeOK
  <1>7. QED
    BY <1>1, <1>2, <1>3, <1>4, <1>5, <1>6 DEF Step

\* Initially no runner has started.
LEMMA InitIInv == Init => IInv
  <1> SUFFICES ASSUME Init, NEW r \in Runners PROVE RunnerInv(r)
    BY InitTypeOK DEF IInv
  <1>1. /\ turn[r] = Idle /\ store[r] = NoState /\ credit[r] = 0
        /\ reminder = {} /\ firing = {}
    BY DEF Init, RuntimeInit
  <1>2. TurnInv(r)
    BY <1>1 DEF TurnInv, At, Idle, Methods
  <1>3. WatchedRunner(r) /\ DisarmedRunner(r)
    BY <1>1 DEF WatchedRunner, DisarmedRunner, Unfinished
  <1>4. CreditInv(r)
    BY <1>1 DEF CreditInv, Idle
  <1>5. QED
    BY <1>2, <1>3, <1>4 DEF RunnerInv

\* Publishing only adds events.
LEMMA SimulatorKeeps ==
    ASSUME TypeOK, NEW r \in Runners, RunnerInv(r), Simulator(r)
    PROVE  RunnerInv(r)'
  <1>1. Untouched(r)
    BY DEF Simulator, PublishCheckPoint, PublishFails, Publish, Untouched
  <1>2. QED
    BY <1>1, UntouchedKeeps

\* A turn begins with an event of its runner.
LEMMA DispatchKeeps ==
    ASSUME TypeOK, NEW r \in Runners, RunnerInv(r), NEW m \in topic, Dispatch(r, m)
    PROVE  RunnerInv(r)'
  <1> DEFINE new == [op |-> MethodOf(m.checkPoint), msg |-> m,
                     at |-> FirstStep(m.checkPoint)]
  <1>1. /\ turn'[r] = new /\ m.bib = r /\ turn[r].op = "idle"
        /\ UNCHANGED <<topic, reminder, firing, store, reported, lapsed, credit>>
    BY DEF Dispatch, Runners, TypeOK, Idle
  <1>2. new.op \in Methods /\ new.op # "ReceiveReminder" /\ new.op = MethodOf(new.msg.checkPoint)
    BY DEF MethodOf, Methods
  <1>3. ~ (new.op = "RegisterFinisher" /\ new.at = "state")
        /\ ~ (new.op = "RegisterStart" /\ new.at = "state")
    BY DEF MethodOf, FirstStep
  <1>4. TurnInv(r)'
    BY <1>1, <1>2, <1>3 DEF TurnInv, At
  <1>5. WatchedRunner(r)' /\ DisarmedRunner(r)'
    BY <1>1 DEF RunnerInv, WatchedRunner, DisarmedRunner, Unfinished, Pending
  <1>6. CreditInv(r)'
    BY <1>1, <1>2 DEF RunnerInv, CreditInv
  <1>7. QED
    BY <1>4, <1>5, <1>6 DEF RunnerInv

\* The shape of the two ways a step leaves the turn.
LEMMA TurnOutcome ==
    ASSUME TypeOK, NEW r \in Runners
    PROVE  /\ EndTurn(r) => turn'[r].op = "idle"
           /\ ToState(r) /\ turn[r] # Idle =>
                /\ turn'[r].op = turn[r].op
                /\ turn'[r].at = "state"
                /\ turn[r].op \in Methods => turn'[r].msg = turn[r].msg
  <1>1. EndTurn(r) => turn'[r].op = "idle"
    BY DEF EndTurn, Idle, TypeOK, Runners
  <1>2. ASSUME ToState(r), turn[r] # Idle
        PROVE  /\ turn'[r].op = turn[r].op
               /\ turn'[r].at = "state"
               /\ turn[r].op \in Methods => turn'[r].msg = turn[r].msg
    <2>1. turn'[r] = [turn[r] EXCEPT !.at = "state"]
      BY <1>2 DEF ToState, TypeOK, Runners
    <2>2. CASE turn[r].op \in Methods
      <3>1. turn[r] \in [op : Methods, msg : RunnerRegistered, at : {"reminder", "state"}]
        BY <2>2, TurnKinds
      <3>2. QED
        BY <2>1, <3>1
    <2>3. CASE turn[r].op \notin Methods
      <3>1. turn[r] \in [op : {"ReceiveReminder"}, at : {"reminder", "state"}]
        BY <1>2, <2>3, TurnKinds
      <3>2. QED
        BY <2>1, <2>3, <3>1
    <2>4. QED
      BY <2>2, <2>3
  <1>3. QED
    BY <1>1, <1>2

\* RegisterStartAsync registers the reminder of an event still in the topic.
LEMMA RegisterStartReminderKeeps ==
    ASSUME TypeOK, NEW r \in Runners, RunnerInv(r), RegisterStartReminder(r)
    PROVE  RunnerInv(r)'
  <1>1. /\ turn[r].op = "RegisterStart" /\ turn[r].op \in Methods /\ turn[r] # Idle
        /\ UNCHANGED <<topic, firing, store, reported>>
    BY DEF RegisterStartReminder, At, Idle, Methods
  <1>2. /\ turn'[r].op = "RegisterStart" /\ turn'[r].at = "state"
        /\ turn'[r].msg = turn[r].msg
    BY <1>1, TurnOutcome DEF RegisterStartReminder
  <1>3. \/ r \in reminder' /\ lapsed' = [lapsed EXCEPT ![r] = FALSE]
             /\ credit' = [credit EXCEPT ![r] = @ + 1]
        \/ r \in reminder' /\ UNCHANGED lapsed /\ credit' = [credit EXCEPT ![r] = @ + 1]
        \/ /\ UNCHANGED <<reminder, credit>>
           /\ lapsed' = [lapsed EXCEPT ![r] = @ \/ r \notin reminder']
    BY DEF RegisterStartReminder, RegisterReminder, Lapse
  <1>4. r \in reminder' \/ lapsed'[r]
    BY <1>3 DEF TypeOK, Runners
  <1>5. Pending(r, "Start")'
    <2>1. /\ turn[r].msg \in topic /\ turn[r].msg.bib = r
          /\ turn[r].op = MethodOf(turn[r].msg.checkPoint)
      BY <1>1 DEF RunnerInv, TurnInv
    <2>2. turn[r].msg.checkPoint = "Start"
      BY <2>1, <1>1 DEF MethodOf
    <2>3. QED
      BY <2>1, <2>2, <1>1 DEF Pending
  <1>6. TurnInv(r)'
    BY <1>1, <1>2, <1>4 DEF RunnerInv, TurnInv, At
  <1>7. WatchedRunner(r)'
    BY <1>4 DEF WatchedRunner
  <1>8. DisarmedRunner(r)'
    BY <1>5 DEF DisarmedRunner
  <1>9. CreditInv(r)'
    <2>1. CASE UNCHANGED <<reminder, credit>>
      BY <2>1, <1>1, <1>2 DEF RunnerInv, CreditInv
    <2>2. CASE credit' = [credit EXCEPT ![r] = @ + 1]
      <3>1. credit[r] \in Int /\ credit'[r] = credit[r] + 1
        BY <2>2 DEF TypeOK, Runners
      <3>2. QED
        BY <3>1 DEF RunnerInv, CreditInv
    <2>3. QED
      BY <1>3, <2>1, <2>2
  <1>10. QED
    BY <1>6, <1>7, <1>8, <1>9 DEF RunnerInv

\* Saving a state ends a registration; the reminders and histories other than
\* reported are left alone. Events other than the one handled stay.
LEMMA SaveFacts ==
    ASSUME TypeOK, NEW r \in Runners, NEW s \in RunnerState, SaveState(r, s)
    PROVE  /\ turn'[r].op = "idle"
           /\ \/ store'[r] = s
              \/ store'[r] = store[r] /\ UNCHANGED topic
           /\ \A m \in topic : m # turn[r].msg => m \in topic'
  BY TurnOutcome DEF SaveState, Ack, TypeOK, Runners

\* The new state of RegisterStartAsync is unfinished, and watched.
LEMMA RegisterStartSaveKeeps ==
    ASSUME TypeOK, NEW r \in Runners, RunnerInv(r), RegisterStartSave(r)
    PROVE  RunnerInv(r)'
  <1> DEFINE s == NewRunnerState(turn[r].msg.race)
  <1>1. /\ turn[r].op = "RegisterStart" /\ turn[r].op \in Methods
        /\ UNCHANGED <<reminder, firing, lapsed, credit>>
        /\ SaveState(r, s)
    BY DEF RegisterStartSave, At, Methods
  <1>2. s \in RunnerState /\ s.finish = NoRace
    BY <1>1, TurnKinds DEF RunnerRegistered, NewRunnerState, RunnerState
  <1>3. r \in reminder \/ lapsed[r]
    BY DEF RegisterStartSave, RunnerInv, TurnInv
  <1>4. TurnInv(r)'
    BY <1>1, <1>2, SaveFacts DEF TurnInv, At, Methods
  <1>5. WatchedRunner(r)'
    BY <1>1, <1>3 DEF WatchedRunner
  <1>6. DisarmedRunner(r)'
    <2>1. CASE store'[r] = s
      BY <2>1, <1>2 DEF DisarmedRunner
    <2>2. CASE store'[r] = store[r] /\ UNCHANGED topic
      BY <2>2, <1>1 DEF RunnerInv, DisarmedRunner, Pending
    <2>3. QED
      BY <1>1, <1>2, <2>1, <2>2, SaveFacts
  <1>7. CreditInv(r)'
    BY <1>1, <1>2, SaveFacts DEF RunnerInv, CreditInv
  <1>8. QED
    BY <1>4, <1>5, <1>6, <1>7 DEF RunnerInv

\* RegisterHalfAsync changes neither the reminder nor the finish.
LEMMA RegisterHalfKeeps ==
    ASSUME TypeOK, NEW r \in Runners, RunnerInv(r), RegisterHalf(r)
    PROVE  RunnerInv(r)'
  <1> DEFINE s == [store[r] EXCEPT !.half = turn[r].msg.race]
  <1>1. /\ turn[r].op = "RegisterHalf" /\ turn[r].op \in Methods
        /\ UNCHANGED <<reminder, firing, reported, lapsed, credit>>
        /\ store[r] # NoState
        /\ SaveState(r, s)
    BY DEF RegisterHalf, At, Methods
  <1>2. /\ store[r] \in RunnerState /\ turn[r].msg.race \in Races
    BY <1>1, TurnKinds DEF RunnerRegistered, TypeOK
  <1>3. s \in RunnerState /\ s.finish = store[r].finish
    BY <1>2 DEF RunnerState
  <1>4. /\ turn'[r].op = "idle" /\ store'[r].finish = store[r].finish
    BY <1>1, <1>3, SaveFacts
  <1>5. ASSUME NEW cp \in {"Start", "Marathon"}, Pending(r, cp) PROVE Pending(r, cp)'
    <2>1. turn[r].msg.checkPoint = "HalfMarathon"
      BY <1>1, TurnKinds DEF RunnerInv, TurnInv, MethodOf, RunnerRegistered, CheckPoint
    <2>2. \A m \in topic : m # turn[r].msg => m \in topic'
      BY <1>1, <1>3, SaveFacts
    <2>3. QED
      BY <1>5, <2>1, <2>2 DEF Pending
  <1>6. TurnInv(r)'
    BY <1>4 DEF TurnInv, At, Methods
  <1>7. WatchedRunner(r)'
    BY <1>1, <1>4, <1>5 DEF RunnerInv, WatchedRunner, Unfinished
  <1>8. DisarmedRunner(r)'
    BY <1>1, <1>4, <1>5 DEF RunnerInv, DisarmedRunner
  <1>9. CreditInv(r)'
    BY <1>1, <1>4 DEF RunnerInv, CreditInv
  <1>10. QED
    BY <1>6, <1>7, <1>8, <1>9 DEF RunnerInv

\* A finisher without its reminder still has its event in the topic.
LEMMA UnregisterOnFinishKeeps ==
    ASSUME TypeOK, NEW r \in Runners, RunnerInv(r), UnregisterOnFinish(r)
    PROVE  RunnerInv(r)'
  <1>1. /\ turn[r].op = "RegisterFinisher" /\ turn[r].op \in Methods /\ turn[r] # Idle
        /\ UNCHANGED <<topic, firing, store, reported, lapsed, credit>>
        /\ reminder' = reminder \ {r}
    BY DEF UnregisterOnFinish, UnregisterReminder, At, Idle, Methods
  <1>2. /\ turn'[r].op = "RegisterFinisher" /\ turn'[r].msg = turn[r].msg
    BY <1>1, TurnOutcome DEF UnregisterOnFinish
  <1>3. /\ turn[r].msg \in topic /\ turn[r].msg.bib = r
        /\ turn[r].op = MethodOf(turn[r].msg.checkPoint)
    BY <1>1 DEF RunnerInv, TurnInv
  <1>4. turn[r].msg.checkPoint = "Marathon"
    BY <1>1, <1>3, TurnKinds DEF MethodOf, RunnerRegistered, CheckPoint
  <1>5. WatchedRunner(r)'
    BY <1>1, <1>3, <1>4 DEF WatchedRunner, Pending
  <1>6. TurnInv(r)'
    BY <1>1, <1>2, <1>3 DEF TurnInv, At, Methods
  <1>7. DisarmedRunner(r)' /\ CreditInv(r)'
    BY <1>1, <1>2 DEF DisarmedRunner, CreditInv, RunnerInv
  <1>8. QED
    BY <1>5, <1>6, <1>7 DEF RunnerInv

\* Saving the finish comes after the reminder is gone.
LEMMA RegisterFinisherKeeps ==
    ASSUME TypeOK, NEW r \in Runners, RunnerInv(r), RegisterFinisher(r)
    PROVE  RunnerInv(r)'
  <1> DEFINE s == [store[r] EXCEPT !.finish = turn[r].msg.race]
  <1>1. /\ turn[r].op = "RegisterFinisher" /\ turn[r].op \in Methods
        /\ UNCHANGED <<reminder, firing, reported, lapsed, credit>>
        /\ store[r] # NoState
        /\ SaveState(r, s)
    BY DEF RegisterFinisher, At, Methods
  <1>2. /\ store[r] \in RunnerState /\ turn[r].msg.race \in Races
    BY <1>1, TurnKinds DEF RunnerRegistered, TypeOK
  <1>3. s \in RunnerState /\ s.finish # NoRace
    BY <1>2, RaceAssumption DEF RunnerState, Races, NoRace
  <1>4. /\ turn'[r].op = "idle"
        /\ store'[r] = s \/ (store'[r] = store[r] /\ UNCHANGED topic)
    BY <1>1, <1>3, SaveFacts
  <1>5. r \notin reminder
    BY DEF RegisterFinisher, RunnerInv, TurnInv
  <1>6. TurnInv(r)'
    BY <1>4 DEF TurnInv, At, Methods
  <1>7. WatchedRunner(r)'
    BY <1>1, <1>3, <1>4 DEF RunnerInv, WatchedRunner, Unfinished, Pending
  <1>8. DisarmedRunner(r)'
    BY <1>1, <1>5 DEF DisarmedRunner
  <1>9. CreditInv(r)'
    BY <1>1, <1>4 DEF RunnerInv, CreditInv
  <1>10. QED
    BY <1>6, <1>7, <1>8, <1>9 DEF RunnerInv

\* A turn that fails for good with its reminder gone makes the runner lapse.
LEMMA LapseKeeps ==
    ASSUME TypeOK, NEW r \in Runners, RunnerInv(r),
           EndTurn(r), Lapse(r), UNCHANGED <<firing, store, reported, credit>>,
           reminder' = reminder \/ reminder' = reminder \ {r},
           Pending(r, "Start") => Pending(r, "Start")'
    PROVE  RunnerInv(r)'
  <1>1. turn'[r].op = "idle" /\ (r \in reminder' \/ lapsed'[r])
    BY TurnOutcome DEF Lapse, TypeOK, Runners
  <1>2. TurnInv(r)'
    BY <1>1 DEF TurnInv, At, Methods
  <1>3. WatchedRunner(r)'
    BY <1>1 DEF WatchedRunner
  <1>4. DisarmedRunner(r)'
    BY DEF RunnerInv, DisarmedRunner
  <1>5. CreditInv(r)'
    BY <1>1 DEF RunnerInv, CreditInv
  <1>6. QED
    BY <1>2, <1>3, <1>4, <1>5 DEF RunnerInv

\* The catch of RegisterHalfAsync and RegisterFinisherAsync.
LEMMA SwallowKeeps ==
    ASSUME TypeOK, NEW r \in Runners, RunnerInv(r),
           UnregisterOnFinishFails(r) \/ GetStateFails(r)
    PROVE  RunnerInv(r)'
  <1>1. /\ Swallow(r) /\ turn[r].op \in {"RegisterHalf", "RegisterFinisher"}
        /\ UNCHANGED <<firing, store, reported, credit>>
        /\ reminder' = reminder \/ reminder' = reminder \ {r}
    BY DEF UnregisterOnFinishFails, GetStateFails, At, MaybeUnregisterReminder,
           UnregisterReminder
  <1>2. turn[r].msg.checkPoint # "Start"
    BY <1>1 DEF RunnerInv, TurnInv, Methods, MethodOf
  <1>3. Pending(r, "Start") => Pending(r, "Start")'
    BY <1>1, <1>2 DEF Swallow, Pending
  <1>4. QED
    BY <1>1, <1>3, LapseKeeps DEF Swallow

\* ReceiveReminderAsync: taking the reminder's turn, unregistering, logging, and
\* the failures of its calls.
LEMMA ReminderKeeps ==
    ASSUME TypeOK, NEW r \in Runners, RunnerInv(r),
           \/ ReminderDue(r) \/ ReceiveReminder(r) \/ UnregisterOnReminder(r)
           \/ UnregisterOnReminderFails(r) \/ LogDidNotFinish(r)
           \/ GetStateOnReminderFails(r)
    PROVE  RunnerInv(r)'
  <1>1. CASE ReminderDue(r)
    <2>1. /\ r \in reminder /\ turn[r].op # "ReceiveReminder"
          /\ r \in firing'
          /\ UNCHANGED <<topic, reminder, turn, store, reported, lapsed, credit>>
      BY <1>1 DEF ReminderDue, Fire
    <2>2. QED
      BY <2>1 DEF RunnerInv, TurnInv, WatchedRunner, DisarmedRunner, CreditInv, At,
                  Unfinished, Pending
  <1>2. CASE ReceiveReminder(r)
    <2>1. /\ turn'[r] = [op |-> "ReceiveReminder", at |-> "reminder"]
          /\ r \in firing /\ r \notin firing'
          /\ UNCHANGED <<topic, reminder, store, reported, lapsed, credit>>
      BY <1>2 DEF ReceiveReminder, TypeOK, Runners
    <2>2. QED
      BY <2>1 DEF RunnerInv, TurnInv, WatchedRunner, DisarmedRunner, CreditInv, At,
                  Unfinished, Pending, Methods
  <1>3. CASE UnregisterOnReminder(r)
    <2>1. /\ turn[r].op = "ReceiveReminder" /\ turn[r] # Idle
          /\ reminder' = reminder \ {r}
          /\ UNCHANGED <<topic, firing, store, reported, lapsed, credit>>
      BY <1>3 DEF UnregisterOnReminder, UnregisterReminder, At, Idle
    <2>2. turn'[r].op = "ReceiveReminder"
      BY <1>3, <2>1, TurnOutcome DEF UnregisterOnReminder
    <2>3. QED
      BY <2>1, <2>2 DEF RunnerInv, TurnInv, WatchedRunner, DisarmedRunner, CreditInv,
                        At, Methods
  <1>4. CASE UnregisterOnReminderFails(r)
    <2>1. /\ EndTurn(r) /\ Lapse(r) /\ UNCHANGED <<firing, store, reported, credit>>
          /\ reminder' = reminder \/ reminder' = reminder \ {r}
          /\ UNCHANGED topic
      BY <1>4 DEF UnregisterOnReminderFails, MaybeUnregisterReminder, UnregisterReminder
    <2>2. QED
      BY <2>1, LapseKeeps DEF Pending
  <1>5. CASE LogDidNotFinish(r)
    <2>1. /\ turn[r].op = "ReceiveReminder" /\ turn'[r].op = "idle"
          /\ r \notin reminder /\ r \notin firing
          /\ UNCHANGED <<topic, reminder, firing, store, lapsed>>
      BY <1>5, TurnOutcome DEF LogDidNotFinish, At, RunnerInv, TurnInv
    <2>2. reported'[r] /\ credit'[r] = credit[r] - 1 /\ credit[r] \in Int
      BY <1>5 DEF LogDidNotFinish, TypeOK, Runners
    <2>3. QED
      BY <2>1, <2>2 DEF RunnerInv, TurnInv, WatchedRunner, DisarmedRunner, CreditInv,
                        At, Methods
  <1>6. CASE GetStateOnReminderFails(r)
    <2>1. /\ EndTurn(r) /\ Lapse(r) /\ UNCHANGED <<firing, store, reported, credit>>
          /\ UNCHANGED <<reminder, topic>>
      BY <1>6 DEF GetStateOnReminderFails
    <2>2. QED
      BY <2>1, LapseKeeps DEF Pending
  <1>7. QED
    BY <1>1, <1>2, <1>3, <1>4, <1>5, <1>6

\* A crash leaves the event of its turn in the topic; the reminder it was serving
\* is still registered, or the runner lapses.
LEMMA CrashKeeps ==
    ASSUME TypeOK, NEW r \in Runners, RunnerInv(r), Crash(r)
    PROVE  RunnerInv(r)'
  <1>1. /\ EndTurn(r) /\ turn'[r].op = "idle"
        /\ UNCHANGED <<topic, reminder, firing, store, reported, credit>>
    BY TurnOutcome DEF Crash
  <1>2. CASE turn[r].op = "ReceiveReminder"
    BY <1>1, <1>2, LapseKeeps DEF Crash, Pending
  <1>3. CASE turn[r].op # "ReceiveReminder"
    <2>1. UNCHANGED lapsed
      BY <1>3 DEF Crash
    <2>2. QED
      BY <1>1, <1>3, <2>1 DEF RunnerInv, TurnInv, WatchedRunner, DisarmedRunner,
                              CreditInv, At, Methods, Unfinished, Pending
  <1>4. QED
    BY <1>2, <1>3

\* Every step keeps the inductive invariant.
LEMMA NextIInv == IInv /\ [Next]_vars => IInv'
  <1> SUFFICES ASSUME IInv, [Next]_vars PROVE IInv'
    OBVIOUS
  <1>1. TypeOK'
    BY NextTypeOK DEF IInv
  <1>2. ASSUME NEW r \in Runners, Step(r), NEW q \in Runners PROVE RunnerInv(q)'
    <2>1. TypeOK /\ RunnerInv(r) /\ RunnerInv(q)
      BY DEF IInv
    <2>2. CASE q = r
      <3>1. RunnerInv(r)'
        BY <1>2, <2>1, SimulatorKeeps, DispatchKeeps, RegisterStartReminderKeeps,
           RegisterStartSaveKeeps, RegisterHalfKeeps, UnregisterOnFinishKeeps,
           RegisterFinisherKeeps, SwallowKeeps, ReminderKeeps, CrashKeeps
           DEF Step, Deliver, TurnStep
      <3>2. QED
        BY <2>2, <3>1
    <2>3. CASE q # r
      BY <1>2, <2>1, <2>3, Elsewhere, UntouchedKeeps DEF RunnerInv
    <2>4. QED
      BY <2>2, <2>3
  <1>3. ASSUME UNCHANGED vars, NEW q \in Runners PROVE RunnerInv(q)'
    <2>1. Untouched(q)
      BY <1>3 DEF vars, Untouched
    <2>2. QED
      BY <2>1, UntouchedKeeps DEF IInv
  <1>4. QED
    BY <1>1, <1>2, <1>3 DEF IInv, Next, Step, Finished

\* The inductive invariant holds in every reachable state.
THEOREM Invariance == Spec => []IInv
  BY InitIInv, NextIInv, PTL DEF Spec

\* No started runner is ever forgotten: registered, due, being served, logged,
\* about to finish, or lapsed by a failure nobody retries.
THEOREM NoRunnerForgotten == Spec => []Watched
  <1>1. IInv => Watched
    BY DEF IInv, RunnerInv, Watched
  <1>2. QED
    BY <1>1, Invariance, PTL

\* A saved finish means the reminder is gone, but for an unsettled Start event.
THEOREM FinisherDisarmed == Spec => []FinishedIsDisarmed
  <1>1. IInv => FinishedIsDisarmed
    BY DEF IInv, RunnerInv, FinishedIsDisarmed
  <1>2. QED
    BY <1>1, Invariance, PTL

\* Never more "did not finish" lines than registered reminders.
THEOREM AtMostOneReport == Spec => []OneReportPerStart
  <1>1. IInv => OneReportPerStart
    BY DEF IInv, RunnerInv, OneReportPerStart, CreditInv
  <1>2. QED
    BY <1>1, Invariance, PTL

----------------------------------------------------------------------------
\* Order.  With ordered delivery the saved state of a runner is that of one
\* race, and ends as what was published.

\* The ranks of the check points.
LEMMA Ranks ==
    /\ Rank("Start") = 1 /\ Rank("HalfMarathon") = 2 /\ Rank("Marathon") = 3
    /\ \A cp \in CheckPoint : Rank(cp) \in 1 .. 3
  BY DEF Rank, CheckPoint

\* An event is what its fields say.
LEMMA EventFields ==
    ASSUME NEW m \in RunnerRegistered, NEW r, m.bib = r
    PROVE  m = [bib |-> r, race |-> m.race, checkPoint |-> m.checkPoint]
  BY DEF RunnerRegistered

\* Nothing of the events, the saved state and the simulator of q changed.
SameEvents(q) ==
    /\ \A m \in RunnerRegistered : m.bib = q =>
          /\ m \in topic' <=> m \in topic
          /\ m \in published' <=> m \in published
          /\ m \in missed' <=> m \in missed
    /\ sim'[q] = sim[q] /\ store'[q] = store[q] /\ ordered' = ordered

\* Which events were published is seen from the events of the runner.
LEMMA SameReached ==
    ASSUME TypeOK, TypeOK', NEW q \in Runners, SameEvents(q)
    PROVE  \A k, cp : Reached(q, k, cp) <=> Reached(q, k, cp)'
  <1> SUFFICES ASSUME NEW k, NEW cp
               PROVE  Reached(q, k, cp) <=> Reached(q, k, cp)'
    OBVIOUS
  <1> DEFINE e == [bib |-> q, race |-> k, checkPoint |-> cp]
  <1>1. e.bib = q
    OBVIOUS
  <1>2. e \in published \/ e \in published' => e \in RunnerRegistered
    BY DEF TypeOK
  <1> HIDE DEF e
  <1>3. e \in published <=> e \in published'
    BY <1>1, <1>2 DEF SameEvents
  <1>4. QED
    BY <1>3 DEF Reached, e

\* Order is kept by a step that leaves the events of a runner alone and takes none
\* up.
LEMMA OrderKept ==
    ASSUME TypeOK, TypeOK', NEW q \in Runners, OrderInv(q), SameEvents(q),
           turn'[q].op \in Methods =>
             turn[q].op \in Methods /\ turn'[q].msg = turn[q].msg,
           turn[q].op \in Methods => turn[q].msg.bib = q
    PROVE  OrderInv(q)'
  <1>1. /\ \A m : m \in topic \/ m \in topic' \/ m \in published \/ m \in published'
              => m \in RunnerRegistered
    BY DEF TypeOK
  <1>2. \A m : m.bib = q => /\ m \in topic' <=> m \in topic
                            /\ m \in published' <=> m \in published
    BY <1>1 DEF SameEvents
  <1>3. \A m \in RunnerRegistered : m.bib = q => (m \in missed' <=> m \in missed)
    BY DEF SameEvents
  <1>4. sim'[q] = sim[q] /\ store'[q] = store[q] /\ ordered' = ordered
    BY DEF SameEvents
  <1>5. PublishedInv(q)'
    BY <1>2, <1>4, SameReached DEF OrderInv, PublishedInv
  <1>6. ASSUME ordered' PROVE SuffixInv(q)'
    <2>1. SuffixInv(q)
      BY <1>4, <1>6 DEF OrderInv
    <2>2. ASSUME NEW m \in topic', NEW n \in published', m.bib = q, Before(m, n)
          PROVE  n \in topic'
      BY <1>2, <2>1, <2>2 DEF SuffixInv, Before
    <2>3. ASSUME turn'[q].op \in Methods, NEW n \in topic', Before(n, turn'[q].msg)
          PROVE  FALSE
      <3>1. n.bib = q
        BY <2>3 DEF Before
      <3>2. n \in topic /\ Before(n, turn[q].msg) /\ turn[q].op \in Methods
        BY <1>2, <2>3, <3>1
      <3>3. QED
        BY <2>1, <3>2 DEF SuffixInv
    <2>4. QED
      BY <2>2, <2>3 DEF SuffixInv, Before
  <1>7. ASSUME ordered' PROVE StoredInv(q)'
    <2>1. StoredInv(q)
      BY <1>4, <1>7 DEF OrderInv
    <2>2. ASSUME NEW m \in topic', m.bib = q PROVE store'[q].start <= m.race
      BY <1>2, <1>4, <2>1, <2>2 DEF StoredInv
    <2>3. ASSUME NEW m \in published', m.bib = q, m \notin topic'
          PROVE  /\ m.checkPoint = "Start" => m.race <= store'[q].start
                 /\ m.race = store'[q].start /\ m \notin missed' =>
                      /\ m.checkPoint = "HalfMarathon" => store'[q].half # NoRace
                      /\ m.checkPoint = "Marathon" => store'[q].finish # NoRace
      BY <1>1, <1>2, <1>3, <1>4, <2>1, <2>3 DEF StoredInv
    <2>4. QED
      BY <1>4, <2>1, <2>2, <2>3, SameReached DEF StoredInv
  <1>8. QED
    BY <1>5, <1>6, <1>7 DEF OrderInv

\* A step of one runner leaves the events of the others alone.
LEMMA EventsElsewhere ==
    ASSUME TypeOK, TypeOK', NEW r \in Runners, NEW q \in Runners, q # r,
           TurnInv(r), Step(r)
    PROVE  SameEvents(q)
  <1> USE DEF Runners
  <1>1. store'[q] = store[q]
    BY Elsewhere DEF Untouched
  <1>2. ordered' = ordered
    BY DEF Step, Simulator, PublishCheckPoint, PublishFails, Deliver, Dispatch, TurnStep,
           RegisterStartReminder, RegisterStartSave, RegisterHalf, UnregisterOnFinish,
           UnregisterOnFinishFails, RegisterFinisher, GetStateFails,
           UnregisterOnReminder, UnregisterOnReminderFails, LogDidNotFinish,
           GetStateOnReminderFails, SaveState, ReminderDue, ReceiveReminder, Crash, Ack,
           NoFault, Fault
  <1>3. CASE Simulator(r)
    <2>1. /\ missed' = missed /\ sim'[q] = sim[q]
          /\ topic' = topic \/ topic' = topic \union {CheckPointEvent(r)}
          /\ published' = published \/ published' = published \union {CheckPointEvent(r)}
          /\ CheckPointEvent(r).bib = r
      BY <1>3 DEF Simulator, PublishCheckPoint, PublishFails, Publish, CheckPointEvent,
                  TypeOK
    <2>2. QED
      BY <1>1, <1>2, <2>1 DEF SameEvents
  <1>4. CASE ~ Simulator(r)
    <2>1. /\ sim' = sim /\ published' = published
          /\ \/ topic' = topic /\ missed' = missed
             \/ /\ turn[r].op \in Methods
                /\ topic' = topic \/ topic' = topic \ {turn[r].msg}
                /\ missed' = missed \/ missed' = missed \union {turn[r].msg}
      BY <1>4
         DEF Step, Deliver, Dispatch, TurnStep,
           RegisterStartReminder, RegisterStartSave, RegisterHalf, UnregisterOnFinish,
           UnregisterOnFinishFails, RegisterFinisher, GetStateFails,
           UnregisterOnReminder, UnregisterOnReminderFails, LogDidNotFinish,
           GetStateOnReminderFails, SaveState, ReminderDue, ReceiveReminder, Crash, Ack,
           Swallow, At, Methods
    <2>2. QED
      BY <1>1, <1>2, <2>1 DEF SameEvents, TurnInv
  <1>5. QED
    BY <1>3, <1>4

\* An event that is published is the runner's latest.
LEMMA PublishKeepsOrder ==
    ASSUME TypeOK, TypeOK', NEW r \in Runners, TurnInv(r), OrderInv(r), Simulator(r)
    PROVE  OrderInv(r)'
  <1> DEFINE e == CheckPointEvent(r)
  <1>1. /\ e = [bib |-> r, race |-> sim[r].race, checkPoint |-> sim[r].next]
        /\ sim[r].race \in Races /\ sim[r].next \in CheckPoint
        /\ UNCHANGED <<turn, store, missed, ordered>>
        /\ \/ topic' = topic /\ published' = published
           \/ topic' = topic \union {e} /\ published' = published \union {e}
        /\ \/ sim'[r] = AfterCheckPoint(r) /\ e \in published'
           \/ sim'[r] = NextRace(r)
    BY RaceAssumption
       DEF Simulator, PublishCheckPoint, PublishFails, Publish, CheckPointEvent, TypeOK,
           NoFault, Fault, Runners, Races
  <1>2. e \in RunnerRegistered /\ e.bib = r /\ e.race = sim[r].race
          /\ e.checkPoint = sim[r].next
    BY <1>1 DEF RunnerRegistered
  <1> HIDE DEF e
  <1>3. \A n \in RunnerRegistered :
          /\ n.race \in Nat /\ n.checkPoint \in CheckPoint /\ Rank(n.checkPoint) \in 1 .. 3
          /\ n.race \in Races
    BY Ranks DEF RunnerRegistered, Races
  <1>4. /\ \A n \in topic : n \in RunnerRegistered
        /\ \A n \in published : n \in RunnerRegistered
        /\ sim[r].race \in Nat /\ Rank(sim[r].next) \in 1 .. 3
    BY <1>1, Ranks DEF TypeOK, Races
  <1>5. \A n \in published : n.bib = r => Before(n, e) /\ ~ Before(e, n) /\ n # e
    BY <1>2, <1>3, <1>4 DEF OrderInv, PublishedInv, Before
  <1>6. /\ \A n \in topic : n.bib = r => n \in published
        /\ \A n \in published : n.bib = r => Reached(r, n.race, "Start")
        /\ sim[r].next # "Start" => Reached(r, sim[r].race, "Start")
    BY DEF OrderInv, PublishedInv
  <1>7. \A k, cp : Reached(r, k, cp) => Reached(r, k, cp)'
    BY <1>1 DEF Reached
  <1>8. e \in published' =>
          [bib |-> r, race |-> sim[r].race, checkPoint |-> "Start"] \in published'
    <2>1. CASE sim[r].next = "Start"
      BY <1>1, <2>1
    <2>2. CASE sim[r].next # "Start"
      BY <2>2, <1>1, <1>6 DEF Reached
    <2>3. QED
      BY <2>1, <2>2
  <1>9. PublishedInv(r)'
    <2>1. \A n \in topic' : n.bib = r => n \in published'
      BY <1>1, <1>6
    <2>2. ASSUME NEW n \in published', n.bib = r PROVE Reached(r, n.race, "Start")'
      <3>1. CASE n \in published
        BY <1>6, <1>7, <2>2, <3>1
      <3>2. CASE n = e
        BY <1>2, <1>8, <3>2 DEF Reached
      <3>3. QED
        BY <1>1, <3>1, <3>2
    <2>3. /\ \/ sim'[r].race = sim[r].race + 1
             \/ sim'[r].race = sim[r].race /\ Rank(sim[r].next) < Rank(sim'[r].next)
                  /\ e \in published'
          /\ sim'[r].next # "Start" => sim'[r].race = sim[r].race
      <3>1. CASE sim'[r] = NextRace(r)
        BY <3>1 DEF NextRace
      <3>2. CASE sim[r].next = "Start" /\ sim'[r] = AfterCheckPoint(r) /\ e \in published'
        <4>1. sim'[r] = [sim[r] EXCEPT !.next = "HalfMarathon"]
          BY <3>2 DEF AfterCheckPoint
        <4>2. sim[r] \in [race : 1 .. MaxRaces + 1, next : CheckPoint]
          BY DEF TypeOK
        <4>3. sim'[r].race = sim[r].race /\ sim'[r].next = "HalfMarathon"
          BY <4>1, <4>2
        <4>4. QED
          BY <3>2, <4>3, Ranks
      <3>3. CASE sim[r].next = "HalfMarathon" /\ sim'[r] = AfterCheckPoint(r)
                   /\ e \in published'
        <4>1. sim'[r] = [sim[r] EXCEPT !.next = "Marathon"]
          BY <3>3 DEF AfterCheckPoint
        <4>2. sim[r] \in [race : 1 .. MaxRaces + 1, next : CheckPoint]
          BY DEF TypeOK
        <4>3. sim'[r].race = sim[r].race /\ sim'[r].next = "Marathon"
          BY <4>1, <4>2
        <4>4. QED
          BY <3>3, <4>3, Ranks
      <3>4. CASE sim[r].next = "Marathon" /\ sim'[r] = AfterCheckPoint(r)
        BY <3>4 DEF AfterCheckPoint, NextRace
      <3>5. QED
        BY <1>1, <3>1, <3>2, <3>3, <3>4 DEF CheckPoint
    <2>4. Rank(sim'[r].next) \in 1 .. 3
      BY Ranks DEF TypeOK
    <2>5. ASSUME NEW n \in published', n.bib = r
          PROVE  \/ n.race < sim'[r].race
                 \/ n.race = sim'[r].race /\ Rank(n.checkPoint) < Rank(sim'[r].next)
      <3>1. CASE n \in published
        <4>1. \/ n.race < sim[r].race
              \/ n.race = sim[r].race /\ Rank(n.checkPoint) < Rank(sim[r].next)
          BY <2>5, <3>1 DEF OrderInv, PublishedInv
        <4>2. n.race \in Nat /\ Rank(n.checkPoint) \in 1 .. 3
          BY <1>3, <1>4, <3>1
        <4>3. QED
          BY <1>4, <2>3, <2>4, <4>1, <4>2
      <3>2. CASE n = e
        BY <1>2, <1>4, <2>3, <2>4, <3>2
      <3>3. QED
        BY <1>1, <3>1, <3>2
    <2>6. sim'[r].next # "Start" =>
            [bib |-> r, race |-> sim'[r].race, checkPoint |-> "Start"] \in published'
      <3>1. CASE sim'[r] = NextRace(r)
        BY <3>1 DEF NextRace
      <3>2. CASE sim'[r] = AfterCheckPoint(r) /\ e \in published'
        <4>1. sim'[r].next # "Start" => sim'[r].race = sim[r].race
          BY <2>3
        <4>2. [bib |-> r, race |-> sim[r].race, checkPoint |-> "Start"] \in published'
          BY <1>8, <3>2
        <4>3. QED
          BY <4>1, <4>2
      <3>3. QED
        BY <1>1, <3>1, <3>2
    <2>7. QED
      <3>1. \A n \in published' : n.bib = r =>
              [bib |-> r, race |-> n.race, checkPoint |-> "Start"] \in published'
        BY <2>2 DEF Reached
      <3>2. QED
        BY <2>1, <2>5, <2>6, <3>1 DEF PublishedInv, Reached
  <1>10. ASSUME ordered' PROVE SuffixInv(r)'
    <2>1. SuffixInv(r)
      BY <1>1, <1>10 DEF OrderInv
    <2>2. ASSUME NEW m \in topic', NEW n \in published', m.bib = r, Before(m, n)
          PROVE  n \in topic'
      <3>1. n.bib = r
        BY <2>2 DEF Before
      <3>2. CASE n = e
        BY <1>1, <1>5, <1>6, <2>2, <3>2
      <3>3. CASE n # e
        <4>1. n \in published /\ m # e
          BY <1>1, <1>5, <2>2, <3>1, <3>3
        <4>2. n \in topic
          BY <1>1, <2>1, <2>2, <4>1 DEF SuffixInv
        <4>3. QED
          BY <1>1, <4>2
      <3>4. QED
        BY <3>2, <3>3
    <2>3. ASSUME turn'[r].op \in Methods, NEW n \in topic', Before(n, turn'[r].msg)
          PROVE  FALSE
      <3>1. /\ turn[r].msg \in topic /\ turn[r].msg.bib = r /\ turn[r].op \in Methods
            /\ turn' = turn
        BY <1>1, <2>3 DEF TurnInv
      <3>2. n # e
        BY <1>5, <1>6, <2>3, <3>1
      <3>3. n \in topic
        BY <1>1, <3>2
      <3>4. QED
        BY <2>1, <2>3, <3>1, <3>3 DEF SuffixInv
    <2>4. QED
      BY <2>2, <2>3 DEF SuffixInv
  <1>11. ASSUME ordered' PROVE StoredInv(r)'
    <2>1. StoredInv(r)
      BY <1>1, <1>11 DEF OrderInv
    <2>2. store'[r] = store[r] /\ store[r].start \in Nat
      BY <1>1, RaceAssumption DEF TypeOK, RunnerState, NoState, Races, NoRace
    <2>3. ASSUME NEW m \in topic', m.bib = r PROVE store'[r].start <= m.race
      <3>1. CASE m \in topic
        BY <2>1, <2>2, <2>3, <3>1 DEF StoredInv
      <3>2. CASE m = e
        <4>1. CASE store[r].start = NoRace
          BY <1>2, <1>4, <2>2, <3>2, <4>1 DEF NoRace
        <4>2. CASE store[r].start # NoRace
          <5>1. Reached(r, store[r].start, "Start")
            BY <2>1, <4>2 DEF StoredInv
          <5>2. store[r].start <= sim[r].race
            <6>1. \/ store[r].start < sim[r].race
                  \/ store[r].start = sim[r].race
              BY <5>1 DEF OrderInv, PublishedInv, Reached
            <6>2. QED
              BY <1>4, <2>2, <6>1
          <5>3. QED
            BY <1>2, <2>2, <3>2, <5>2
        <4>3. QED
          BY <4>1, <4>2
      <3>3. QED
        BY <1>1, <3>1, <3>2
    <2>4. ASSUME NEW m \in published', m.bib = r, m \notin topic'
          PROVE  /\ m.checkPoint = "Start" => m.race <= store'[r].start
                 /\ m.race = store'[r].start /\ m \notin missed' =>
                      /\ m.checkPoint = "HalfMarathon" => store'[r].half # NoRace
                      /\ m.checkPoint = "Marathon" => store'[r].finish # NoRace
      <3>1. m \in published /\ m \notin topic /\ missed' = missed
        BY <1>1, <2>4
      <3>2. QED
        BY <2>1, <2>2, <2>4, <3>1 DEF StoredInv
    <2>5. QED
      BY <1>7, <2>1, <2>2, <2>3, <2>4 DEF StoredInv
  <1>12. QED
    BY <1>9, <1>10, <1>11 DEF OrderInv

\* A turn takes up the first event of an ordered topic.
LEMMA DispatchKeepsOrder ==
    ASSUME TypeOK, NEW r \in Runners, OrderInv(r), NEW m \in topic, Dispatch(r, m)
    PROVE  OrderInv(r)'
  <1>1. /\ UNCHANGED <<topic, sim, store, published, missed, ordered>>
        /\ turn'[r].msg = m
        /\ ordered => \A n \in topic : ~ Before(n, m)
    BY DEF Dispatch, Deliverable, NoFault, TypeOK, Runners
  <1>2. PublishedInv(r)'
    BY <1>1 DEF OrderInv, PublishedInv, Reached
  <1>3. ASSUME ordered' PROVE SuffixInv(r)' /\ StoredInv(r)'
    BY <1>1, <1>3 DEF OrderInv, SuffixInv, StoredInv, Reached
  <1>4. QED
    BY <1>2, <1>3 DEF OrderInv

\* Settling the event of a turn takes the first event from an ordered topic.
LEMMA SettleKeepsOrder ==
    ASSUME TypeOK, NEW r \in Runners, TurnInv(r), OrderInv(r), turn[r].op \in Methods,
           topic' = topic \/ topic' = topic \ {turn[r].msg}, turn'[r].op = "idle",
           UNCHANGED <<sim, published, ordered>>, ordered => StoredInv(r)'
    PROVE  OrderInv(r)'
  <1>1. PublishedInv(r)'
    BY DEF OrderInv, PublishedInv, Reached
  <1>2. turn[r].msg.bib = r /\ "idle" \notin Methods
    BY DEF TurnInv, Methods
  <1>3. ASSUME ordered, NEW m \in topic', NEW n \in published, m.bib = r, Before(m, n)
        PROVE  n \in topic'
    <2>1. m \in topic /\ n \in topic
      BY <1>3 DEF OrderInv, SuffixInv
    <2>2. n # turn[r].msg
      BY <1>3, <2>1 DEF OrderInv, SuffixInv
    <2>3. QED
      BY <2>1, <2>2
  <1>4. ordered => SuffixInv(r)'
    BY <1>2, <1>3 DEF SuffixInv
  <1>5. QED
    BY <1>1, <1>4 DEF OrderInv

\* The event a turn handles: in an ordered topic it is the first of its runner, and
\* unless it is a start, its race is the one that is saved.
LEMMA FirstOfTopic ==
    ASSUME TypeOK, NEW r \in Runners, TurnInv(r), OrderInv(r), ordered,
           turn[r].op \in Methods
    PROVE  /\ turn[r].msg \in topic /\ turn[r].msg \in published
           /\ turn[r].msg \in RunnerRegistered /\ turn[r].msg.bib = r
           /\ turn[r].op = MethodOf(turn[r].msg.checkPoint)
           /\ store[r].start <= turn[r].msg.race
           /\ \A n \in topic : n.bib = r => turn[r].msg.race <= n.race
           /\ turn[r].msg.checkPoint # "Start" => turn[r].msg.race = store[r].start
  <1> DEFINE e == turn[r].msg
  <1>1. /\ e \in topic /\ e \in published /\ e \in RunnerRegistered /\ e.bib = r
        /\ turn[r].op = MethodOf(e.checkPoint)
    BY DEF TurnInv, OrderInv, PublishedInv, TypeOK
  <1>2. store[r].start <= e.race
    BY <1>1 DEF OrderInv, StoredInv
  <1>3. e.race \in Nat /\ store[r].start \in Nat
    BY <1>1, RaceAssumption DEF TypeOK, RunnerState, NoState, Races, NoRace, RunnerRegistered
  <1>4. \A n \in topic : ~ Before(n, e)
    BY DEF OrderInv, SuffixInv
  <1>5. ASSUME NEW n \in topic, n.bib = r PROVE e.race <= n.race
    <2>1. n.race \in Nat
      BY DEF TypeOK, RunnerRegistered, Races
    <2>2. QED
      BY <1>1, <1>3, <1>4, <1>5, <2>1 DEF Before
  <1>6. ASSUME e.checkPoint # "Start" PROVE e.race = store[r].start
    <2> DEFINE first == [bib |-> r, race |-> e.race, checkPoint |-> "Start"]
    <2>1. first \in published
      BY <1>1 DEF OrderInv, PublishedInv, Reached
    <2>2. Rank("Start") < Rank(e.checkPoint)
      BY <1>1, <1>6, Ranks DEF RunnerRegistered, CheckPoint
    <2>3. Before(first, e)
      BY <1>1, <2>2 DEF Before
    <2>4. first \notin topic /\ first.bib = r /\ first.race = e.race
            /\ first.checkPoint = "Start"
      BY <1>4, <2>3
    <2> HIDE DEF first
    <2>5. e.race <= store[r].start
      BY <2>1, <2>4 DEF OrderInv, StoredInv
    <2>6. QED
      BY <1>2, <1>3, <2>5
  <1>7. QED
    BY <1>1, <1>2, <1>5, <1>6

\* What a save can do: it reaches the store, and its event may be settled, or not.
LEMMA SaveOutcome ==
    ASSUME TypeOK, NEW r \in Runners, NEW s \in RunnerState, SaveState(r, s)
    PROVE  /\ turn'[r].op = "idle" /\ ordered' = ordered
           /\ \/ store'[r] = s /\ (topic' = topic \/ topic' = topic \ {turn[r].msg})
              \/ store'[r] = store[r] /\ topic' = topic
  <1>1. turn'[r].op = "idle"
    BY SaveFacts
  <1>2. QED
    BY <1>1 DEF SaveState, Ack, NoFault, Fault, TypeOK, Runners

\* The saved start of a race: everything settled is older, and the rest of the race
\* is still in the topic.
LEMMA StartKeepsOrder ==
    ASSUME TypeOK, NEW r \in Runners, TurnInv(r), OrderInv(r), RegisterStartSave(r)
    PROVE  OrderInv(r)'
  <1> DEFINE e == turn[r].msg
             s == NewRunnerState(e.race)
  <1>1. /\ SaveState(r, s) /\ turn[r].op = "RegisterStart" /\ turn[r].op \in Methods
        /\ UNCHANGED <<sim, published, missed>>
    BY DEF RegisterStartSave, At, Methods
  <1>2. e \in RunnerRegistered /\ e \in topic /\ e.bib = r /\ e.checkPoint = "Start"
    BY <1>1 DEF TurnInv, TypeOK, MethodOf, RunnerRegistered, CheckPoint
  <1>3. /\ s \in RunnerState /\ s.start = e.race /\ s.half = NoRace /\ s.finish = NoRace
        /\ e.race \in Nat
    BY <1>2 DEF NewRunnerState, RunnerState, RunnerRegistered, Races
  <1> HIDE DEF s
  <1>4. ordered' = ordered /\ turn'[r].op = "idle"
        /\ (topic' = topic \/ topic' = topic \ {e})
    BY <1>1, <1>3, SaveOutcome
  <1>5. ASSUME ordered PROVE StoredInv(r)'
    <2>1. CASE store'[r] = store[r] /\ topic' = topic
      BY <1>1, <1>5, <2>1 DEF OrderInv, StoredInv, Reached
    <2>2. CASE store'[r] = s
      <3>1. /\ e \in published /\ store[r].start <= e.race
            /\ \A n \in topic : n.bib = r => e.race <= n.race
        BY <1>1, <1>5, FirstOfTopic
      <3>2. [bib |-> r, race |-> s.start, checkPoint |-> "Start"] \in published
        BY <1>2, <1>3, <3>1, EventFields
      <3>3. ASSUME NEW n \in published, n.bib = r, n \notin topic'
            PROVE  /\ n.checkPoint = "Start" => n.race <= s.start
                   /\ n.race = s.start => n.checkPoint = "Start"
        <4>1. n \in RunnerRegistered /\ n.race \in Nat /\ store[r].start \in Nat
          BY RaceAssumption
             DEF TypeOK, RunnerRegistered, Races, RunnerState, NoState, NoRace
        <4>2. ASSUME n.checkPoint = "Start", n # e PROVE n.race <= s.start
          <5>1. n \notin topic
            BY <1>4, <3>3, <4>2
          <5>2. n.race <= store[r].start
            BY <1>5, <3>3, <4>2, <5>1 DEF OrderInv, StoredInv
          <5>3. QED
            BY <1>3, <3>1, <4>1, <5>2
        <4>3. ASSUME n.race = s.start, n.checkPoint # "Start" PROVE FALSE
          <5>1. Rank("Start") < Rank(n.checkPoint)
            BY <4>1, <4>3, Ranks DEF RunnerRegistered, CheckPoint
          <5>2. Before(e, n)
            BY <1>2, <1>3, <3>3, <4>3, <5>1 DEF Before
          <5>3. n \in topic
            BY <1>2, <1>5, <5>2 DEF OrderInv, SuffixInv
          <5>4. QED
            BY <1>2, <1>4, <3>3, <4>3, <5>3
        <4>4. QED
          BY <1>3, <4>1, <4>2, <4>3
      <3>4. \A n \in topic' : n.bib = r => s.start <= n.race
        BY <1>3, <1>4, <3>1
      <3>5. QED
        BY <1>1, <1>3, <2>2, <3>2, <3>3, <3>4 DEF StoredInv, Reached
    <2>3. QED
      BY <1>1, <1>3, <2>1, <2>2, SaveOutcome
  <1>6. QED
    BY <1>1, <1>4, <1>5, SettleKeepsOrder

\* The half and the finish are saved into the race they belong to.
LEMMA CheckPointKeepsOrder ==
    ASSUME TypeOK, NEW r \in Runners, TurnInv(r), OrderInv(r),
           RegisterHalf(r) \/ RegisterFinisher(r)
    PROVE  OrderInv(r)'
  <1> DEFINE e == turn[r].msg
             s == IF RegisterHalf(r) THEN [store[r] EXCEPT !.half = e.race]
                                     ELSE [store[r] EXCEPT !.finish = e.race]
  <1>1. /\ SaveState(r, s) /\ store[r] # NoState
        /\ turn[r].op = IF RegisterHalf(r) THEN "RegisterHalf" ELSE "RegisterFinisher"
        /\ turn[r].op \in Methods
        /\ UNCHANGED <<sim, published, missed>>
    BY DEF RegisterHalf, RegisterFinisher, At, Methods
  <1>2. /\ e \in RunnerRegistered /\ e \in topic /\ e.bib = r
        /\ e.checkPoint = IF RegisterHalf(r) THEN "HalfMarathon" ELSE "Marathon"
    BY <1>1 DEF TurnInv, TypeOK, MethodOf, RunnerRegistered, CheckPoint
  <1>3. /\ store[r] \in RunnerState /\ e.race \in Races
    BY <1>1, <1>2 DEF TypeOK, RunnerRegistered
  <1>4. /\ s \in RunnerState /\ s.start = store[r].start
        /\ s.half = IF RegisterHalf(r) THEN e.race ELSE store[r].half
        /\ s.finish = IF RegisterHalf(r) THEN store[r].finish ELSE e.race
    BY <1>3 DEF RunnerState
  <1>5. e.race # NoRace
    BY <1>3, RaceAssumption DEF Races, NoRace
  <1> HIDE DEF s
  <1>6. ordered' = ordered /\ turn'[r].op = "idle"
        /\ (topic' = topic \/ topic' = topic \ {e})
    BY <1>1, <1>4, SaveOutcome
  <1>7. ASSUME ordered PROVE StoredInv(r)'
    <2>1. CASE store'[r] = store[r] /\ topic' = topic
      BY <1>1, <1>7, <2>1 DEF OrderInv, StoredInv, Reached
    <2>2. CASE store'[r] = s
      <3>1. e \in published /\ e.race = store[r].start
        BY <1>1, <1>2, <1>7, FirstOfTopic
      <3>2. StoredInv(r)
        BY <1>7 DEF OrderInv
      <3>3. [bib |-> r, race |-> e.race, checkPoint |-> e.checkPoint] \in published
        BY <1>2, <3>1, EventFields
      <3>4. ASSUME NEW n \in published, n.bib = r, n \notin topic'
            PROVE  /\ n.checkPoint = "Start" => n.race <= s.start
                   /\ n.race = s.start /\ n \notin missed =>
                        /\ n.checkPoint = "HalfMarathon" => s.half # NoRace
                        /\ n.checkPoint = "Marathon" => s.finish # NoRace
        <4>1. CASE n = e
          BY <1>2, <1>4, <1>5, <4>1
        <4>2. CASE n # e
          <5>1. n \notin topic
            BY <1>6, <3>4, <4>2
          <5>2. QED
            BY <1>4, <1>5, <3>2, <3>4, <5>1 DEF StoredInv
        <4>3. QED
          BY <4>1, <4>2
      <3>5. /\ s.half \in {NoRace, s.start} /\ s.finish \in {NoRace, s.start}
        BY <1>4, <3>1, <3>2 DEF StoredInv
      <3>6. /\ s.half # NoRace =>
                 [bib |-> r, race |-> s.half, checkPoint |-> "HalfMarathon"] \in published
            /\ s.finish # NoRace =>
                 [bib |-> r, race |-> s.finish, checkPoint |-> "Marathon"] \in published
        BY <1>2, <1>4, <3>2, <3>3 DEF StoredInv, Reached
      <3>7. /\ s.start # NoRace =>
                 [bib |-> r, race |-> s.start, checkPoint |-> "Start"] \in published
            /\ \A n \in topic' : n.bib = r => s.start <= n.race
        BY <1>4, <1>6, <3>2 DEF StoredInv, Reached
      <3>8. QED
        BY <1>1, <2>2, <3>4, <3>5, <3>6, <3>7 DEF StoredInv, Reached
    <2>3. QED
      BY <1>1, <1>4, <2>1, <2>2, SaveOutcome
  <1>8. QED
    BY <1>1, <1>6, <1>7, SettleKeepsOrder

\* An event that is given up is missed; it is never a start.
LEMMA SwallowKeepsOrder ==
    ASSUME TypeOK, NEW r \in Runners, TurnInv(r), OrderInv(r),
           UnregisterOnFinishFails(r) \/ GetStateFails(r)
    PROVE  OrderInv(r)'
  <1> DEFINE e == turn[r].msg
  <1>1. /\ turn[r].op \in {"RegisterHalf", "RegisterFinisher"} /\ turn[r].op \in Methods
        /\ UNCHANGED <<sim, store, published, ordered>>
        /\ Swallow(r)
    BY DEF UnregisterOnFinishFails, GetStateFails, At, Methods, NoFault, Fault
  <1>2. topic' = topic \ {e} /\ missed' = missed \union {e} /\ turn'[r].op = "idle"
    BY <1>1, TurnOutcome DEF Swallow
  <1>3. e.checkPoint # "Start"
    BY <1>1 DEF TurnInv, MethodOf
  <1>4. ASSUME ordered PROVE StoredInv(r)'
    BY <1>1, <1>2, <1>3, <1>4 DEF OrderInv, StoredInv, Reached
  <1>5. QED
    BY <1>1, <1>2, <1>4, SettleKeepsOrder

\* The other steps of a runner neither publish, settle nor save.
LEMMA RestKeepsOrder ==
    ASSUME TypeOK, TypeOK', NEW r \in Runners, TurnInv(r), OrderInv(r),
           \/ RegisterStartReminder(r) \/ UnregisterOnFinish(r)
           \/ UnregisterOnReminder(r) \/ UnregisterOnReminderFails(r)
           \/ LogDidNotFinish(r) \/ GetStateOnReminderFails(r)
           \/ ReminderDue(r) \/ ReceiveReminder(r) \/ Crash(r)
    PROVE  OrderInv(r)'
  <1>1. UNCHANGED <<topic, sim, store, published, missed, ordered>>
    BY DEF RegisterStartReminder, UnregisterOnFinish, UnregisterOnReminder,
           UnregisterOnReminderFails, LogDidNotFinish, GetStateOnReminderFails,
           ReminderDue, ReceiveReminder, Crash, NoFault, Fault
  <1>2. turn'[r].op \in Methods => turn[r].op \in Methods /\ turn'[r].msg = turn[r].msg
    <2>1. CASE EndTurn(r)
      BY <2>1, TurnOutcome DEF Methods
    <2>2. CASE ToState(r) /\ turn[r] # Idle
      BY <2>2, TurnOutcome
    <2>3. CASE turn' = turn
      BY <2>3
    <2>4. CASE ReceiveReminder(r)
      <3>1. turn'[r].op = "ReceiveReminder"
        BY <2>4 DEF ReceiveReminder, TypeOK, Runners
      <3>2. QED
        BY <3>1 DEF Methods
    <2>5. QED
      BY <2>1, <2>2, <2>3, <2>4
         DEF RegisterStartReminder, UnregisterOnFinish, UnregisterOnReminder,
             UnregisterOnReminderFails, LogDidNotFinish, GetStateOnReminderFails,
             ReminderDue, Crash, At, Idle
  <1>3. SameEvents(r)
    BY <1>1 DEF SameEvents
  <1>4. QED
    BY <1>2, <1>3, OrderKept DEF TurnInv

\* Initially nothing is published or saved.
LEMMA InitOrdered == Init => OrderedIInv
  <1> SUFFICES ASSUME Init, NEW r \in Runners PROVE OrderInv(r)
    BY InitIInv DEF OrderedIInv
  <1>1. /\ topic = {} /\ published = {} /\ store[r] = NoState /\ turn[r] = Idle
        /\ sim[r].next = "Start"
    BY DEF Init, RuntimeInit
  <1>2. PublishedInv(r)
    BY <1>1 DEF PublishedInv
  <1>3. SuffixInv(r)
    BY <1>1 DEF SuffixInv, Idle, Methods
  <1>4. StoredInv(r)
    BY <1>1 DEF StoredInv, NoState
  <1>5. QED
    BY <1>2, <1>3, <1>4 DEF OrderInv

\* Every step keeps the order of what is published, settled and saved.
LEMMA NextOrdered == OrderedIInv /\ [Next]_vars => OrderedIInv'
  <1> SUFFICES ASSUME OrderedIInv, [Next]_vars PROVE OrderedIInv'
    OBVIOUS
  <1>1. IInv' /\ TypeOK /\ TypeOK'
    BY NextIInv DEF OrderedIInv, IInv
  <1>2. ASSUME NEW r \in Runners, Step(r), NEW q \in Runners PROVE OrderInv(q)'
    <2>1. TurnInv(r) /\ TurnInv(q) /\ OrderInv(r) /\ OrderInv(q)
      BY DEF OrderedIInv, IInv, RunnerInv
    <2>2. CASE q = r
      <3>1. OrderInv(r)'
        BY <1>1, <1>2, <2>1, PublishKeepsOrder, DispatchKeepsOrder, StartKeepsOrder,
           CheckPointKeepsOrder, SwallowKeepsOrder, RestKeepsOrder
           DEF Step, Deliver, TurnStep
      <3>2. QED
        BY <2>2, <3>1
    <2>3. CASE q # r
      <3>1. SameEvents(q)
        BY <1>1, <1>2, <2>1, <2>3, EventsElsewhere
      <3>2. turn'[q] = turn[q]
        BY <1>1, <1>2, <2>1, <2>3, Elsewhere DEF Untouched
      <3>3. QED
        BY <1>1, <2>1, <3>1, <3>2, OrderKept DEF TurnInv
    <2>4. QED
      BY <2>2, <2>3
  <1>3. ASSUME UNCHANGED vars, NEW q \in Runners PROVE OrderInv(q)'
    <2>1. SameEvents(q) /\ turn' = turn
      BY <1>3 DEF vars, SameEvents
    <2>2. TurnInv(q) /\ OrderInv(q)
      BY DEF OrderedIInv, IInv, RunnerInv
    <2>3. QED
      BY <1>1, <2>1, <2>2, OrderKept DEF TurnInv
  <1>4. QED
    BY <1>1, <1>2, <1>3 DEF OrderedIInv, Next, Step, Finished

\* The invariant of order holds in every reachable state.
THEOREM OrderInvariant == Spec => []OrderedIInv
  BY InitOrdered, NextOrdered, PTL DEF Spec

\* With ordered delivery the saved times are those of one race, whatever is
\* delivered again, crashes or fails half way.
THEOREM RacesNeverMix == Spec => []NoMixedRaces
  <1>1. OrderedIInv => NoMixedRaces
    BY DEF OrderedIInv, OrderInv, StoredInv, NoMixedRaces
  <1>2. QED
    BY <1>1, OrderInvariant, PTL

\* With ordered delivery an idle runner with nothing in the topic has saved the last
\* race whose start was published, with what was published for it and not missed.
THEOREM AccurateWhenQuiet == Spec => []QuiescentAccuracy
  <1>1. OrderedIInv => QuiescentAccuracy
    <2> SUFFICES ASSUME OrderedIInv, NEW r \in Runners, ordered,
                        \A m \in topic : m.bib # r
                 PROVE  /\ \A k \in Races : Reached(r, k, "Start") => k <= store[r].start
                        /\ store[r].start # NoRace => Reached(r, store[r].start, "Start")
                        /\ store[r].half # NoRace =>
                             Reached(r, store[r].half, "HalfMarathon")
                        /\ store[r].finish # NoRace =>
                             Reached(r, store[r].finish, "Marathon")
                        /\ \/ store[r].half # NoRace
                           \/ Missed(r, store[r].start, "HalfMarathon")
                           \/ ~ Reached(r, store[r].start, "HalfMarathon")
                        /\ \/ store[r].finish # NoRace
                           \/ Missed(r, store[r].start, "Marathon")
                           \/ ~ Reached(r, store[r].start, "Marathon")
      BY DEF QuiescentAccuracy
    <2>1. StoredInv(r)
      BY DEF OrderedIInv, OrderInv
    <2>2. \A k, cp : Reached(r, k, cp) =>
            LET e == [bib |-> r, race |-> k, checkPoint |-> cp] IN
            e \in published /\ e.bib = r /\ e \notin topic
      BY DEF Reached
    <2>3. QED
      BY <2>1, <2>2 DEF StoredInv, Reached, Missed
  <1>2. QED
    BY <1>1, OrderInvariant, PTL

-----------------------------------------------------------------------------
(* Refinement of the watchdog: what a step does to the status of its runner, *)
(* its announced starts, its due reminder and the count of failures.         *)

Starting(r) == Pending(r, "Start")

MayFail == faults' \in {faults, faults + 1}

Announces(r) ==
    /\ Starting(r)'
    /\ RunnerStatus(r)' = RunnerStatus(r)
    /\ ServingReminder(r)' <=> ServingReminder(r)
    /\ MayFail

Starts(r) ==
    /\ Starting(r)
    /\ RunnerStatus(r)' \in {"watched", "lapsed"}
    /\ ServingReminder(r)' <=> ServingReminder(r)
    /\ MayFail

ComesDue(r) ==
    /\ RunnerStatus(r) \in Watch!Over => Starting(r)
    /\ ServingReminder(r)'
    /\ RunnerStatus(r)' = RunnerStatus(r)
    /\ Starting(r)' <=> Starting(r)
    /\ faults' = faults

Reports(r) ==
    /\ ServingReminder(r) /\ ~ ServingReminder(r)'
    /\ \/ /\ RunnerStatus(r) \in {"watched", "lapsed", "reported"}
          /\ RunnerStatus(r)' = "reported"
       \/ RunnerStatus(r) \in Watch!Over /\ RunnerStatus(r)' = "disputed"
    /\ Starting(r)' <=> Starting(r)
    /\ faults' = faults

Ignores(r) ==
    /\ RunnerStatus(r) = "idle" /\ RunnerStatus(r)' = "idle"
    /\ ~ ServingReminder(r)'
    /\ Starting(r)' <=> Starting(r)
    /\ faults' = faults

Finishes(r) ==
    /\ \/ /\ RunnerStatus(r) \in {"watched", "lapsed"}
          /\ RunnerStatus(r)' = "finished"
       \/ RunnerStatus(r) = "reported" /\ RunnerStatus(r)' = "disputed"
    /\ Starting(r)' <=> Starting(r)
    /\ ServingReminder(r)' <=> ServingReminder(r)
    /\ MayFail

FailsFor(r) ==
    /\ faults' = faults + 1
    /\ \/ RunnerStatus(r)' = RunnerStatus(r)
       \/ RunnerStatus(r) = "watched" /\ RunnerStatus(r)' = "lapsed"
    /\ ServingReminder(r)' => ServingReminder(r)
    /\ Starting(r)' <=> Starting(r)

Stutters(r) ==
    /\ RunnerStatus(r)' = RunnerStatus(r)
    /\ Starting(r)' <=> Starting(r)
    /\ ServingReminder(r)' <=> ServingReminder(r)
    /\ faults' = faults

Moved(r) ==
    \/ Announces(r) \/ Starts(r) \/ ComesDue(r) \/ Reports(r) \/ Ignores(r)
    \/ Finishes(r) \/ FailsFor(r) \/ Stutters(r)

\* A turn that settles, or not, an event other than a start leaves the starts
\* still to be settled.
LEMMA StartsKept ==
    ASSUME NEW r \in Runners, TurnInv(r), turn[r].op \in Methods \ {"RegisterStart"},
           topic' = topic \/ topic' = topic \ {turn[r].msg}
    PROVE  Starting(r)' <=> Starting(r)
  BY DEF TurnInv, MethodOf, Starting, Pending

\* A registration that ends leaves a due reminder waiting as it was.
LEMMA WaitingKept ==
    ASSUME TypeOK, NEW r \in Runners, turn[r].op \in Methods, turn'[r].op = "idle",
           UNCHANGED firing
    PROVE  ServingReminder(r)' <=> ServingReminder(r)
  BY DEF ServingReminder, Methods

\* A save succeeds or fails; one that does not reach the state store has failed
\* and settles nothing.
LEMMA SaveOutcomes ==
    ASSUME TypeOK, NEW r \in Runners, NEW s \in RunnerState, SaveState(r, s)
    PROVE  /\ turn'[r].op = "idle"
           /\ MayFail
           /\ topic' = topic \/ topic' = topic \ {turn[r].msg}
           /\ \/ store'[r] = s
              \/ store'[r] = store[r] /\ topic' = topic /\ faults' = faults + 1
  BY TurnOutcome
     DEF SaveState, Ack, NoFault, Fault, MayFail, TypeOK, Runners

\* RegisterStartAsync starts the runner, or fails.
LEMMA StartMoves ==
    ASSUME IInv, NEW r \in Runners, RegisterStartReminder(r) \/ RegisterStartSave(r)
    PROVE  Moved(r)
  <1>1. /\ TypeOK /\ turn[r].op \in Methods /\ turn[r].op = "RegisterStart" /\ TurnInv(r)
    BY DEF IInv, RunnerInv, RegisterStartReminder, RegisterStartSave, At, Methods
  <1>2. Starting(r)
    BY <1>1 DEF TurnInv, MethodOf, Starting, Pending, TypeOK, RunnerRegistered, CheckPoint
  <1>3. CASE RegisterStartReminder(r)
    <2>1. /\ UNCHANGED <<topic, firing, store, reported>>
          /\ turn'[r].op = "RegisterStart"
      BY <1>1, <1>3, TurnOutcome DEF RegisterStartReminder, Idle, Methods
    <2>2. (Starting(r)' <=> Starting(r)) /\ (ServingReminder(r)' <=> ServingReminder(r))
      BY <1>1, <2>1 DEF Starting, Pending, ServingReminder
    <2>3. /\ lapsed'[r] \in BOOLEAN
          /\ \/ ~ lapsed'[r] /\ MayFail
             \/ lapsed'[r] = lapsed[r] /\ faults' = faults + 1
             \/ lapsed'[r] /\ faults' = faults + 1
      BY <1>1, <1>3 DEF RegisterStartReminder, Lapse, NoFault, Fault, MayFail, TypeOK, Runners
    <2>4. /\ RunnerStatus(r) \in {"watched", "lapsed"} => RunnerStatus(r)' \in {"watched", "lapsed"}
          /\ RunnerStatus(r) \notin {"watched", "lapsed"} => RunnerStatus(r)' = RunnerStatus(r)
          /\ lapsed'[r] = lapsed[r] => RunnerStatus(r)' = RunnerStatus(r)
      BY <2>1, <2>3 DEF RunnerStatus, Unfinished
    <2>5. MayFail
      BY <2>3 DEF MayFail
    <2>6. CASE RunnerStatus(r)' \in {"watched", "lapsed"}
      BY <1>2, <2>2, <2>5, <2>6 DEF Moved, Starts
    <2>7. CASE RunnerStatus(r)' = RunnerStatus(r)
      BY <1>2, <2>2, <2>5, <2>7 DEF Moved, Stutters, FailsFor, MayFail
    <2>8. QED
      BY <2>4, <2>6, <2>7
  <1>4. CASE RegisterStartSave(r)
    <2> DEFINE s == NewRunnerState(turn[r].msg.race)
    <2>1. /\ SaveState(r, s) /\ UNCHANGED <<lapsed, firing>>
          /\ reported' = [reported EXCEPT ![r] = @ /\ store'[r] # s]
      BY <1>4 DEF RegisterStartSave
    <2>2. s \in RunnerState /\ s.finish = NoRace /\ s # NoState
      BY <1>1, TurnKinds, RaceAssumption
         DEF RunnerRegistered, NewRunnerState, RunnerState, NoState, Races, NoRace
    <2>3. /\ turn'[r].op = "idle" /\ MayFail
          /\ \/ store'[r] = s
             \/ store'[r] = store[r] /\ topic' = topic /\ faults' = faults + 1
      BY <1>1, <2>1, <2>2, SaveOutcomes
    <2>4. ServingReminder(r)' <=> ServingReminder(r)
      BY <1>1, <2>1, <2>3, WaitingKept
    <2>5. CASE store'[r] = s
      <3>1. ~ reported'[r]
        BY <1>1, <2>1, <2>5 DEF TypeOK, Runners
      <3>2. RunnerStatus(r)' \in {"watched", "lapsed"}
        BY <2>2, <2>5, <3>1 DEF RunnerStatus, Unfinished
      <3>3. QED
        BY <1>2, <2>3, <2>4, <3>2 DEF Moved, Starts
    <2>6. CASE store'[r] # s
      <3>1. reported'[r] = reported[r]
        BY <1>1, <2>1, <2>6 DEF TypeOK, Runners
      <3>2. RunnerStatus(r)' = RunnerStatus(r)
        BY <2>1, <2>3, <2>6, <3>1 DEF RunnerStatus, Unfinished
      <3>3. Starting(r)' <=> Starting(r)
        BY <2>3, <2>6 DEF Starting, Pending
      <3>4. QED
        BY <2>3, <2>4, <2>6, <3>2, <3>3 DEF Moved, FailsFor
    <2>7. QED
      BY <2>5, <2>6
  <1>5. QED
    BY <1>3, <1>4

\* A half or a finish is saved, is given up for a failed call, or finds no state.
LEMMA CheckPointMoves ==
    ASSUME IInv, NEW r \in Runners,
           \/ RegisterHalf(r) \/ RegisterFinisher(r) \/ UnregisterOnFinish(r)
           \/ UnregisterOnFinishFails(r) \/ GetStateFails(r)
    PROVE  Moved(r)
  <1>1. /\ TypeOK /\ turn[r].op \in Methods \ {"RegisterStart"} /\ TurnInv(r)
        /\ turn[r].op \in Methods /\ turn[r] # Idle
    BY DEF IInv, RunnerInv, RegisterHalf, RegisterFinisher, UnregisterOnFinish,
           UnregisterOnFinishFails, GetStateFails, At, Methods, Idle
  <1>2. ASSUME NEW s \in RunnerState, SaveState(r, s), UNCHANGED firing
        PROVE  /\ Starting(r)' <=> Starting(r)
               /\ ServingReminder(r)' <=> ServingReminder(r)
               /\ MayFail
               /\ \/ store'[r] = s
                  \/ store'[r] = store[r] /\ faults' = faults + 1
    BY <1>1, <1>2, SaveOutcomes, StartsKept, WaitingKept
  <1>3. CASE RegisterHalf(r)
    <2> DEFINE s == [store[r] EXCEPT !.half = turn[r].msg.race]
    <2>1. /\ SaveState(r, s) /\ UNCHANGED <<reported, lapsed, firing>>
          /\ store[r] # NoState
      BY <1>3 DEF RegisterHalf
    <2>2. store[r] \in RunnerState /\ turn[r].msg.race \in Races
      BY <1>1, <2>1, TurnKinds DEF RunnerRegistered, TypeOK
    <2>3. s \in RunnerState /\ s.finish = store[r].finish /\ s # NoState
      <3>1. s \in RunnerState /\ s.finish = store[r].finish /\ s.start \in Races
        BY <2>2 DEF RunnerState
      <3>2. QED
        BY <3>1, RaceAssumption DEF NoState, Races, NoRace
    <2>4. RunnerStatus(r)' = RunnerStatus(r)
      BY <1>2, <2>1, <2>3 DEF RunnerStatus, Unfinished
    <2>5. QED
      BY <1>2, <2>1, <2>3, <2>4 DEF Moved, Stutters, FailsFor, MayFail
  <1>4. CASE RegisterFinisher(r)
    <2> DEFINE s == [store[r] EXCEPT !.finish = turn[r].msg.race]
    <2>1. /\ SaveState(r, s) /\ UNCHANGED <<reported, lapsed, firing>>
          /\ store[r] # NoState
      BY <1>4 DEF RegisterFinisher
    <2>2. store[r] \in RunnerState /\ turn[r].msg.race \in Races
      BY <1>1, <2>1, TurnKinds DEF RunnerRegistered, TypeOK
    <2>3. s \in RunnerState /\ s.finish # NoRace /\ s # NoState
      <3>1. s \in RunnerState /\ s.finish \in Races
        BY <2>2 DEF RunnerState
      <3>2. QED
        BY <3>1, RaceAssumption DEF NoState, Races, NoRace
    <2> HIDE DEF s
    <2>4. CASE store'[r] = s
      <3>1. RunnerStatus(r)' = IF reported[r] THEN "disputed" ELSE "finished"
        BY <2>1, <2>3, <2>4 DEF RunnerStatus
      <3>2. \/ ~ reported[r] /\ RunnerStatus(r) \in {"watched", "lapsed", "finished"}
            \/ reported[r] /\ RunnerStatus(r) \in {"reported", "disputed"}
        BY <2>1 DEF RunnerStatus, Unfinished
      <3>3. QED
        BY <1>2, <2>1, <2>3, <3>1, <3>2
           DEF Moved, Finishes, Stutters, FailsFor, MayFail
    <2>5. CASE store'[r] = store[r] /\ faults' = faults + 1
      <3>1. RunnerStatus(r)' = RunnerStatus(r)
        BY <2>1, <2>5 DEF RunnerStatus, Unfinished
      <3>2. QED
        BY <1>2, <2>1, <2>3, <2>5, <3>1 DEF Moved, FailsFor
    <2>6. QED
      BY <1>2, <2>1, <2>3, <2>4, <2>5
  <1>5. CASE UnregisterOnFinish(r)
    <2>1. /\ UNCHANGED <<topic, firing, store, reported, lapsed, faults>>
          /\ turn'[r].op = turn[r].op
      BY <1>1, <1>5, TurnOutcome DEF UnregisterOnFinish, NoFault
    <2>2. QED
      BY <2>1 DEF Moved, Stutters, RunnerStatus, Unfinished, Starting, Pending,
                  ServingReminder
  <1>6. CASE UnregisterOnFinishFails(r) \/ GetStateFails(r)
    <2>1. /\ Swallow(r) /\ UNCHANGED <<firing, store, reported>>
          /\ \/ faults' = faults + 1
             \/ faults' = faults /\ store[r] = NoState
      BY <1>6 DEF UnregisterOnFinishFails, GetStateFails, NoFault, Fault
    <2>2. /\ turn'[r].op = "idle" /\ topic' = topic \ {turn[r].msg}
          /\ lapsed'[r] = lapsed[r] \/ lapsed'[r]
      BY <1>1, <2>1, TurnOutcome DEF Swallow, Lapse, TypeOK, Runners
    <2>3. /\ Starting(r)' <=> Starting(r)
          /\ ServingReminder(r)' <=> ServingReminder(r)
      BY <1>1, <2>1, <2>2, StartsKept, WaitingKept
    <2>4. \/ RunnerStatus(r)' = RunnerStatus(r)
          \/ /\ RunnerStatus(r) = "watched" /\ RunnerStatus(r)' = "lapsed"
             /\ store[r] # NoState
      BY <2>1, <2>2 DEF RunnerStatus, Unfinished
    <2>5. QED
      BY <2>1, <2>3, <2>4 DEF Moved, Stutters, FailsFor
  <1>7. QED
    BY <1>3, <1>4, <1>5, <1>6

\* The reminder comes due, begins its turn, is served, or is given up for a failed
\* call. Once the finish is saved it comes due for an unsettled start only.
LEMMA ReminderMoves ==
    ASSUME IInv, NEW r \in Runners,
           \/ ReminderDue(r) \/ ReceiveReminder(r) \/ UnregisterOnReminder(r)
           \/ UnregisterOnReminderFails(r) \/ LogDidNotFinish(r)
           \/ GetStateOnReminderFails(r) \/ Crash(r)
    PROVE  Moved(r)
  <1>1. TypeOK /\ TurnInv(r) /\ DisarmedRunner(r)
    BY DEF IInv, RunnerInv
  <1>2. topic' = topic /\ UNCHANGED store
    BY DEF ReminderDue, ReceiveReminder, UnregisterOnReminder,
           UnregisterOnReminderFails, LogDidNotFinish, GetStateOnReminderFails, Crash
  <1>3. Starting(r)' <=> Starting(r)
    BY <1>2 DEF Starting, Pending
  <1>4. CASE ReminderDue(r)
    <2>1. /\ r \in reminder /\ firing' = firing \union {r} /\ faults' = faults
          /\ UNCHANGED <<turn, reported, lapsed>>
      BY <1>4 DEF ReminderDue, Fire, NoFault
    <2>2. RunnerStatus(r)' = RunnerStatus(r)
      BY <1>2, <2>1 DEF RunnerStatus, Unfinished
    <2>3. RunnerStatus(r) \in Watch!Over => Starting(r)
      BY <1>1, <2>1 DEF RunnerStatus, Unfinished, DisarmedRunner, Starting, Watch!Over
    <2>4. QED
      BY <1>3, <2>1, <2>2, <2>3 DEF Moved, ComesDue, ServingReminder
  <1>5. CASE ReceiveReminder(r) \/ UnregisterOnReminder(r)
    <2>1. /\ ServingReminder(r) /\ turn'[r].op = "ReceiveReminder"
          /\ UNCHANGED <<reported, lapsed, faults>>
      BY <1>1, <1>5, TurnOutcome
         DEF ReceiveReminder, UnregisterOnReminder, ServingReminder, At, Idle, NoFault,
             TypeOK, Runners
    <2>2. RunnerStatus(r)' = RunnerStatus(r) /\ ServingReminder(r)'
      BY <1>2, <2>1 DEF RunnerStatus, Unfinished, ServingReminder
    <2>3. QED
      BY <1>3, <2>1, <2>2 DEF Moved, Stutters
  <1>6. CASE UnregisterOnReminderFails(r) \/ LogDidNotFinish(r)
             \/ GetStateOnReminderFails(r)
    <2>1. /\ turn[r].op = "ReceiveReminder" /\ turn'[r].op = "idle"
          /\ UNCHANGED firing
      BY <1>1, <1>6, TurnOutcome
         DEF UnregisterOnReminderFails, LogDidNotFinish, GetStateOnReminderFails, At
    <2>2. ServingReminder(r) /\ ~ ServingReminder(r)'
      BY <1>1, <2>1 DEF ServingReminder, TurnInv
    <2>3. CASE LogDidNotFinish(r)
      <3>1. reported'[r] /\ UNCHANGED <<lapsed, faults>> /\ store[r] # NoState
        BY <1>1, <2>3 DEF LogDidNotFinish, NoFault, TypeOK, Runners
      <3>2. \/ /\ RunnerStatus(r) \in {"watched", "lapsed", "reported"}
               /\ RunnerStatus(r)' = "reported"
            \/ RunnerStatus(r) \in Watch!Over /\ RunnerStatus(r)' = "disputed"
        BY <1>2, <3>1 DEF RunnerStatus, Unfinished, Watch!Over
      <3>3. QED
        BY <1>3, <2>2, <3>1, <3>2 DEF Moved, Reports
    <2>4. CASE UnregisterOnReminderFails(r) \/ GetStateOnReminderFails(r)
      <3>1. /\ UNCHANGED reported
            /\ lapsed'[r] = lapsed[r] \/ lapsed'[r]
            /\ faults' = faults + 1 \/ (faults' = faults /\ store[r] = NoState)
        BY <1>1, <2>4
           DEF UnregisterOnReminderFails, GetStateOnReminderFails, Lapse, NoFault,
               Fault, TypeOK, Runners
      <3>2. /\ \/ RunnerStatus(r)' = RunnerStatus(r)
               \/ RunnerStatus(r) = "watched" /\ RunnerStatus(r)' = "lapsed"
            /\ store[r] = NoState =>
                 RunnerStatus(r) = "idle" /\ RunnerStatus(r)' = "idle"
        <4>1. CASE store[r] = NoState
          BY <1>2, <4>1 DEF RunnerStatus
        <4>2. CASE store[r] # NoState
          BY <1>2, <3>1, <4>2 DEF RunnerStatus
        <4>3. QED
          BY <4>1, <4>2
      <3>3. QED
        BY <1>3, <2>2, <3>1, <3>2 DEF Moved, FailsFor, Ignores
    <2>5. QED
      BY <1>6, <2>3, <2>4
  <1>7. CASE Crash(r)
    <2>1. /\ turn'[r].op = "idle" /\ UNCHANGED <<firing, reported>>
          /\ faults' = faults + 1 /\ (lapsed'[r] = lapsed[r] \/ lapsed'[r])
      BY <1>1, <1>7, TurnOutcome DEF Crash, Fault, Lapse, TypeOK, Runners
    <2>2. ServingReminder(r)' => ServingReminder(r)
      BY <2>1 DEF ServingReminder
    <2>3. \/ RunnerStatus(r)' = RunnerStatus(r)
          \/ RunnerStatus(r) = "watched" /\ RunnerStatus(r)' = "lapsed"
      BY <1>2, <2>1 DEF RunnerStatus, Unfinished
    <2>4. QED
      BY <1>3, <2>1, <2>2, <2>3 DEF Moved, FailsFor
  <1>8. QED
    BY <1>4, <1>5, <1>6, <1>7

\* Publishing announces a start, or an event that is none; a turn that begins
\* changes nothing.
LEMMA TopicMoves ==
    ASSUME IInv, NEW r \in Runners, Simulator(r) \/ Deliver(r)
    PROVE  Moved(r)
  <1>1. TypeOK
    BY DEF IInv
  <1>2. UNCHANGED <<firing, store, reported, lapsed>>
    BY DEF Simulator, PublishCheckPoint, PublishFails, Deliver, Dispatch
  <1>3. RunnerStatus(r)' = RunnerStatus(r)
    BY <1>2 DEF RunnerStatus, Unfinished
  <1>4. CASE Simulator(r)
    <2>1. /\ turn' = turn /\ MayFail
          /\ topic' = topic \/ topic' = topic \union {CheckPointEvent(r)}
      BY <1>4 DEF Simulator, PublishCheckPoint, PublishFails, Publish, NoFault, Fault,
                  MayFail
    <2>2. ServingReminder(r)' <=> ServingReminder(r)
      BY <1>2, <2>1 DEF ServingReminder
    <2>3. Starting(r) => Starting(r)'
      BY <2>1 DEF Starting, Pending
    <2>4. QED
      BY <1>3, <2>1, <2>2, <2>3 DEF Moved, Announces, Stutters, FailsFor, MayFail
  <1>5. CASE Deliver(r)
    <2>1. UNCHANGED <<topic, faults>> /\ turn[r] = Idle
          /\ turn'[r].op # "ReceiveReminder"
      BY <1>1, <1>5 DEF Deliver, Dispatch, NoFault, MethodOf, TypeOK, Runners
    <2>2. QED
      BY <1>2, <1>3, <2>1
         DEF Moved, Stutters, ServingReminder, Idle, Starting, Pending
  <1>6. QED
    BY <1>4, <1>5

\* The others keep their status, their announced starts and their due reminders.
LEMMA OthersStay ==
    ASSUME IInv, IInv', NEW r \in Runners, NEW q \in Runners, q # r, Step(r)
    PROVE  /\ RunnerStatus(q)' = RunnerStatus(q)
           /\ Starting(q)' <=> Starting(q)
           /\ ServingReminder(q)' <=> ServingReminder(q)
  <1>1. TypeOK /\ TypeOK' /\ TurnInv(r)
    BY DEF IInv, RunnerInv
  <1>2. Untouched(q) /\ SameEvents(q)
    BY <1>1, Elsewhere, EventsElsewhere
  <1>3. RunnerStatus(q)' = RunnerStatus(q) /\ (ServingReminder(q)' <=> ServingReminder(q))
    BY <1>2 DEF Untouched, RunnerStatus, Unfinished, ServingReminder
  <1>4. topic \subseteq RunnerRegistered /\ topic' \subseteq RunnerRegistered
    BY <1>1 DEF TypeOK
  <1>5. Starting(q)' <=> Starting(q)
    BY <1>2, <1>4 DEF SameEvents, Starting, Pending
  <1>6. QED
    BY <1>3, <1>5

\* The race implements the watchdog: initial states map to initial states and
\* every step to a step of the watchdog or a stutter.
THEOREM RefinesWatchdog == Spec => ImplementsWatchdog
  <1> DEFINE state == <<Statuses, StartPending, ReminderServed, faults>>
  <1>1. Init => Watch!Init
    <2> SUFFICES ASSUME Init PROVE Watch!Init
      OBVIOUS
    <2>1. /\ topic = {} /\ firing = {} /\ faults = 0
          /\ \A r \in Runners : turn[r] = Idle /\ store[r] = NoState
      BY DEF Init, RuntimeInit
    <2>2. StartPending = {} /\ ReminderServed = {}
      BY <2>1 DEF Pending, ServingReminder, Idle, StartPending, ReminderServed
    <2>3. Statuses = [r \in Actors |-> "idle"]
      BY <2>1 DEF RunnerStatus, Runners, Statuses
    <2>4. QED
      BY <2>1, <2>2, <2>3 DEF Watch!Init
  <1>2. IInv /\ [Next]_vars => [Watch!Next]_state
    <2> SUFFICES ASSUME IInv, [Next]_vars PROVE [Watch!Next]_state
      OBVIOUS
    <2>1. IInv'
      BY NextIInv
    <2>2. ASSUME NEW r \in Runners, Step(r) PROVE [Watch!Next]_state
      <3>1. Moved(r)
        BY <2>2, StartMoves, CheckPointMoves, ReminderMoves, TopicMoves
           DEF Step, TurnStep
      <3>2. \A q \in Runners : q # r =>
              /\ RunnerStatus(q)' = RunnerStatus(q)
              /\ Starting(q)' <=> Starting(q)
              /\ ServingReminder(q)' <=> ServingReminder(q)
        BY <2>1, <2>2, OthersStay
      <3>3. /\ Statuses' = [Statuses EXCEPT ![r] = RunnerStatus(r)']
            /\ Statuses[r] = RunnerStatus(r) /\ r \in Actors
        BY <3>2 DEF Runners, Statuses
      <3>4. /\ r \in StartPending <=> Starting(r)
            /\ StartPending' = IF Starting(r)' THEN StartPending \union {r} ELSE StartPending \ {r}
        BY <3>2 DEF Starting, StartPending
      <3>5. /\ r \in ReminderServed <=> ServingReminder(r)
            /\ ReminderServed' =
                 IF ServingReminder(r)' THEN ReminderServed \union {r}
                                        ELSE ReminderServed \ {r}
        BY <3>2 DEF ReminderServed
      <3>6. /\ RunnerStatus(r)' = RunnerStatus(r) => Statuses' = Statuses
            /\ (Starting(r)' <=> Starting(r)) => StartPending' = StartPending
            /\ (ServingReminder(r)' <=> ServingReminder(r)) =>
                 ReminderServed' = ReminderServed
            /\ Statuses[r] \in Watch!Status
        <4>1. RunnerStatus(r) \in Watch!Status
          BY DEF RunnerStatus, Watch!Status
        <4>2. RunnerStatus(r)' = RunnerStatus(r) => Statuses' = Statuses
          <5>1. Statuses = [Statuses EXCEPT ![r] = Statuses[r]]
            BY DEF Statuses
          <5>2. QED
            BY <3>3, <5>1
        <4>3. QED
          BY <3>3, <3>4, <3>5, <4>1, <4>2
      <3>7. CASE Announces(r)
        <4>1. Watch!Announce(r)
          BY <3>4, <3>6, <3>7
             DEF Announces, Watch!Announce, Watch!Succeeds, Watch!Fails, MayFail
        <4>2. QED
          BY <3>3, <4>1 DEF Watch!Next
      <3>8. CASE Starts(r)
        <4>1. Watch!Start(r)
          BY <3>3, <3>4, <3>6, <3>8
             DEF Starts, Watch!Start, Watch!Moves, Watch!Succeeds, Watch!Fails, MayFail
        <4>2. QED
          BY <3>3, <4>1 DEF Watch!Next
      <3>9. CASE ComesDue(r)
        <4>1. Watch!ComeDue(r)
          BY <3>3, <3>4, <3>5, <3>6, <3>9 DEF ComesDue, Watch!ComeDue, Watch!Succeeds
        <4>2. QED
          BY <3>3, <4>1 DEF Watch!Next
      <3>10. CASE Reports(r)
        <4>1. Watch!Report(r)
          BY <3>3, <3>5, <3>6, <3>10
             DEF Reports, Watch!Report, Watch!Moves, Watch!Succeeds
        <4>2. QED
          BY <3>3, <4>1 DEF Watch!Next
      <3>11. CASE Ignores(r)
        <4>1. Watch!Ignore(r)
          BY <3>3, <3>5, <3>6, <3>11 DEF Ignores, Watch!Ignore, Watch!Succeeds
        <4>2. QED
          BY <3>3, <4>1 DEF Watch!Next
      <3>12. CASE Finishes(r)
        <4>1. Watch!Finish(r)
          BY <3>3, <3>6, <3>12
             DEF Finishes, Watch!Finish, Watch!Moves, Watch!Succeeds, Watch!Fails, MayFail
        <4>2. QED
          BY <3>3, <4>1 DEF Watch!Next
      <3>13. CASE FailsFor(r)
        <4>1. Watch!Fail(r)
          BY <3>3, <3>5, <3>6, <3>13 DEF FailsFor, Watch!Fail, Watch!Moves, Watch!Fails
        <4>2. QED
          BY <3>3, <4>1 DEF Watch!Next
      <3>14. CASE Stutters(r)
        BY <3>6, <3>14 DEF Stutters
      <3>15. QED
        BY <3>1, <3>7, <3>8, <3>9, <3>10, <3>11, <3>12, <3>13, <3>14 DEF Moved
    <2>3. CASE UNCHANGED vars
      BY <2>3 DEF vars, RunnerStatus, Unfinished, Pending, ServingReminder, Statuses,
                  StartPending, ReminderServed
    <2>4. QED
      BY <2>2, <2>3 DEF Next, Step, Finished
  <1>3. QED
    BY <1>1, <1>2, Invariance, PTL
       DEF Spec, ImplementsWatchdog, Watch!Spec, Watch!wvars
=============================================================================
