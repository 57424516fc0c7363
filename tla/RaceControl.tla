---------------------------- MODULE RaceControl ----------------------------
(***************************************************************************)
(* aca.race: the race simulator publishes the check points of each runner, *)
(* the race-control service hands every event to the runner's actor, and   *)
(* the actor keeps the runner's times and a 120 s reminder that logs "did  *)
(* not finish the race".                                                   *)
(*                                                                         *)
(* A time stamp is abstracted to the number of the race (iteration of the  *)
(* simulator's loop) it was taken in.                                      *)
(***************************************************************************)
EXTENDS DaprRuntime, Integers

CONSTANTS
    MaxRaces      \* bound: races a simulated runner starts

ASSUME RaceAssumption == MaxRaces \in Nat \ {0}

VARIABLES
    sim,          \* the loop of each simulated runner: race and next check point
    turn,         \* the turn of each runner's actor
    store,        \* saved RunnerState of each actor, or NoState
    published,    \* history: events that reached the topic
    missed,       \* history: events answered 200 and not recorded
    reported,     \* history: "did not finish" was logged since the saved start
    lapsed,       \* history: a turn failed for good and left no reminder
    credit        \* history: reminders registered minus DNF lines logged

vars == <<topic, reminder, firing, faults, ordered, sim, turn, store,
          published, missed, reported, lapsed, credit>>

Runners == Actors
Races == 1 .. MaxRaces
NoRace == 0
CheckPoint == {"Start", "HalfMarathon", "Marathon"}

RunnerRegistered == [bib : Runners, race : Races, checkPoint : CheckPoint]

Rank(cp) == CASE cp = "Start" -> 1 [] cp = "HalfMarathon" -> 2 [] OTHER -> 3

\* m was published before n by the same runner.
Before(m, n) ==
    /\ m.bib = n.bib
    /\ \/ m.race < n.race
       \/ m.race = n.race /\ Rank(m.checkPoint) < Rank(n.checkPoint)

Deliverable(m) ==
    /\ m \in topic
    /\ ordered => \A n \in topic : ~ Before(n, m)

RunnerState == [start : Races, half : Races \union {NoRace},
                finish : Races \union {NoRace}]
NoState == [start |-> NoRace, half |-> NoRace, finish |-> NoRace]
NewRunnerState(race) == [start |-> race, half |-> NoRace, finish |-> NoRace]

Idle == [op |-> "idle"]
Turns ==
    {Idle}
      \union [op : {"RegisterStart", "RegisterHalf", "RegisterFinisher"},
              msg : RunnerRegistered, at : {"reminder", "state"}]
      \union [op : {"ReceiveReminder"}, at : {"reminder", "state"}]

At(r, op, step) == turn[r].op = op /\ turn[r].at = step

Init ==
    /\ RuntimeInit
    /\ sim = [r \in Runners |-> [race |-> 1, next |-> "Start"]]
    /\ turn = [r \in Runners |-> Idle]
    /\ store = [r \in Runners |-> NoState]
    /\ published = {}
    /\ missed = {}
    /\ reported = [r \in Runners |-> FALSE]
    /\ lapsed = [r \in Runners |-> FALSE]
    /\ credit = [r \in Runners |-> 0]

-----------------------------------------------------------------------------
(* The simulator: Runner.Start.                                            *)

NextRace(r) == [race |-> sim[r].race + 1, next |-> "Start"]

AfterCheckPoint(r) ==
    CASE sim[r].next = "Start" -> [sim[r] EXCEPT !.next = "HalfMarathon"]
      [] sim[r].next = "HalfMarathon" -> [sim[r] EXCEPT !.next = "Marathon"]
      [] OTHER -> NextRace(r)

CheckPointEvent(r) ==
    [bib |-> r, race |-> sim[r].race, checkPoint |-> sim[r].next]

PublishCheckPoint(r) ==
    /\ sim[r].race <= MaxRaces
    /\ Publish(CheckPointEvent(r))
    /\ published' = published \union {CheckPointEvent(r)}
    /\ sim' = [sim EXCEPT ![r] = AfterCheckPoint(r)]
    /\ NoFault
    /\ UNCHANGED <<reminder, firing, turn, store, missed, reported, lapsed,
                   credit>>

\* PublishEventAsync throws: the catch starts the runner's next race. The
\* event may have reached the topic all the same.
PublishFails(r) ==
    /\ sim[r].race <= MaxRaces
    /\ Fault("publish")
    /\ \/ UNCHANGED <<topic, published>>
       \/ /\ Publish(CheckPointEvent(r))
          /\ published' = published \union {CheckPointEvent(r)}
    /\ sim' = [sim EXCEPT ![r] = NextRace(r)]
    /\ UNCHANGED <<reminder, firing, turn, store, missed, reported, lapsed,
                   credit>>

-----------------------------------------------------------------------------
(* The /race-control subscription: one turn of the runner's actor.         *)

MethodOf(cp) ==
    CASE cp = "Start" -> "RegisterStart"
      [] cp = "HalfMarathon" -> "RegisterHalf"
      [] OTHER -> "RegisterFinisher"

FirstStep(cp) == IF cp = "HalfMarathon" THEN "state" ELSE "reminder"

Dispatch(r, m) ==
    /\ turn[r] = Idle
    /\ m.bib = r
    /\ Deliverable(m)
    /\ turn' = [turn EXCEPT ![r] = [op |-> MethodOf(m.checkPoint), msg |-> m,
                                    at |-> FirstStep(m.checkPoint)]]
    /\ NoFault
    /\ UNCHANGED <<topic, reminder, firing, sim, store, published, missed,
                   reported, lapsed, credit>>

EndTurn(r) == turn' = [turn EXCEPT ![r] = Idle]

ToState(r) == turn' = [turn EXCEPT ![r].at = "state"]

\* The turn failed for good (nothing will retry it): the runner has lapsed
\* when no reminder is left behind.
Lapse(r) == lapsed' = [lapsed EXCEPT ![r] = @ \/ r \notin reminder']

\* The catch of the actor method: the exception is logged, the method returns
\* and the subscription answers 200 for an event it did not record. (Losing
\* that answer too leaves the same state as a crash before the failure.)
Swallow(r) ==
    /\ EndTurn(r)
    /\ topic' = topic \ {turn[r].msg}
    /\ missed' = missed \union {turn[r].msg}
    /\ Lapse(r)

\* Mutant: the catch of the subscription answers 200 as well.
AnswerOkAlways(r, s) ==
    /\ EndTurn(r)
    /\ \/ /\ store' = [store EXCEPT ![r] = s]
          /\ Ack(turn[r].msg)
       \/ /\ store' \in {store, [store EXCEPT ![r] = s]}
          /\ Fault("save")
          /\ topic' = topic \ {turn[r].msg}

\* The state manager saves what the method set and the event is answered 200;
\* or the save fails, the actor call throws and the answer is 500. A save that
\* throws may have reached the state store.
SaveState(r, s) ==
    /\ EndTurn(r)
    /\ \/ /\ store' = [store EXCEPT ![r] = s]
          /\ Ack(turn[r].msg)
       \/ /\ store' \in {store, [store EXCEPT ![r] = s]}
          /\ Fault("save")
          /\ UNCHANGED topic

-----------------------------------------------------------------------------
(* RegisterStartAsync: the new state is set first, so it is saved even when *)
(* the registration of the reminder throws.                                 *)

\* Mutant: RegisterStartAsync registers no reminder.
StartWithoutReminder(r) ==
    /\ At(r, "RegisterStart", "reminder")
    /\ ToState(r)
    /\ NoFault
    /\ UNCHANGED <<topic, reminder, firing, sim, store, published, missed,
                   reported, lapsed, credit>>

RegisterStartReminder(r) ==
    /\ At(r, "RegisterStart", "reminder")
    /\ ToState(r)
    /\ \/ /\ RegisterReminder(r)
          /\ NoFault
          /\ lapsed' = [lapsed EXCEPT ![r] = FALSE]
          /\ credit' = [credit EXCEPT ![r] = @ + 1]
       \/ /\ RegisterReminder(r)
          /\ Fault("register")
          /\ UNCHANGED lapsed
          /\ credit' = [credit EXCEPT ![r] = @ + 1]
       \/ /\ UNCHANGED <<reminder, credit>>
          /\ Fault("register")
          /\ Lapse(r)
    /\ UNCHANGED <<topic, firing, sim, store, published, missed, reported>>

\* Mutant: RegisterStartAsync keeps the check points of the previous race.
StartKeepsOldTimes(r) ==
    /\ At(r, "RegisterStart", "state")
    /\ LET new == [store[r] EXCEPT !.start = turn[r].msg.race] IN
          /\ SaveState(r, new)
          /\ reported' = [reported EXCEPT ![r] = @ /\ store'[r] # new]
    /\ UNCHANGED <<reminder, firing, sim, published, missed, lapsed, credit>>

RegisterStartSave(r) ==
    /\ At(r, "RegisterStart", "state")
    /\ LET new == NewRunnerState(turn[r].msg.race) IN
          /\ SaveState(r, new)
          /\ reported' = [reported EXCEPT ![r] = @ /\ store'[r] # new]
    /\ UNCHANGED <<reminder, firing, sim, published, missed, lapsed, credit>>

(* RegisterHalfAsync: GetStateAsync throws when there is no state.         *)

\* Mutant: a half without a saved state starts from an empty RunnerState.
HalfOfAnyone(r) ==
    /\ At(r, "RegisterHalf", "state")
    /\ SaveState(r, [store[r] EXCEPT !.half = turn[r].msg.race])
    /\ UNCHANGED <<reminder, firing, sim, published, missed, reported, lapsed,
                   credit>>

RegisterHalf(r) ==
    /\ At(r, "RegisterHalf", "state")
    /\ store[r] # NoState
    /\ SaveState(r, [store[r] EXCEPT !.half = turn[r].msg.race])
    /\ UNCHANGED <<reminder, firing, sim, published, missed, reported, lapsed,
                   credit>>

(* RegisterFinisherAsync: the reminder goes first, then the state.         *)

\* Mutant: RegisterFinisherAsync does not unregister the reminder.
FinishKeepsReminder(r) ==
    /\ At(r, "RegisterFinisher", "reminder")
    /\ ToState(r)
    /\ NoFault
    /\ UNCHANGED <<topic, reminder, firing, sim, store, published, missed,
                   reported, lapsed, credit>>

UnregisterOnFinish(r) ==
    /\ At(r, "RegisterFinisher", "reminder")
    /\ ToState(r)
    /\ UnregisterReminder(r)
    /\ NoFault
    /\ UNCHANGED <<topic, firing, sim, store, published, missed, reported,
                   lapsed, credit>>

UnregisterOnFinishFails(r) ==
    /\ At(r, "RegisterFinisher", "reminder")
    /\ MaybeUnregisterReminder(r)
    /\ Fault("unregister")
    /\ Swallow(r)
    /\ UNCHANGED <<firing, sim, store, published, reported, credit>>

RegisterFinisher(r) ==
    /\ At(r, "RegisterFinisher", "state")
    /\ store[r] # NoState
    /\ SaveState(r, [store[r] EXCEPT !.finish = turn[r].msg.race])
    /\ UNCHANGED <<reminder, firing, sim, published, missed, reported, lapsed,
                   credit>>

\* GetStateAsync throws in RegisterHalfAsync or RegisterFinisherAsync, because
\* the runner never started or because the read failed.
GetStateFails(r) ==
    /\ At(r, "RegisterHalf", "state") \/ At(r, "RegisterFinisher", "state")
    /\ \/ store[r] = NoState /\ NoFault
       \/ Fault("read")
    /\ UNCHANGED reminder
    /\ Swallow(r)
    /\ UNCHANGED <<firing, sim, store, published, reported, credit>>

-----------------------------------------------------------------------------
(* ReceiveReminderAsync: no catch; a failure is only logged by the runtime. *)

ReminderDue(r) ==
    /\ Fire(r, turn[r].op = "ReceiveReminder")
    /\ NoFault
    /\ UNCHANGED <<topic, reminder, sim, turn, store, published, missed,
                   reported, lapsed, credit>>

ReceiveReminder(r) ==
    /\ turn[r] = Idle
    /\ r \in firing
    /\ firing' = firing \ {r}
    /\ turn' = [turn EXCEPT ![r] = [op |-> "ReceiveReminder", at |-> "reminder"]]
    /\ NoFault
    /\ UNCHANGED <<topic, reminder, sim, store, published, missed, reported,
                   lapsed, credit>>

\* Mutant: ReceiveReminderAsync does not unregister the periodic reminder.
ReminderStays(r) ==
    /\ At(r, "ReceiveReminder", "reminder")
    /\ ToState(r)
    /\ NoFault
    /\ UNCHANGED <<topic, reminder, firing, sim, store, published, missed,
                   reported, lapsed, credit>>

UnregisterOnReminder(r) ==
    /\ At(r, "ReceiveReminder", "reminder")
    /\ UnregisterReminder(r)
    /\ ToState(r)
    /\ NoFault
    /\ UNCHANGED <<topic, firing, sim, store, published, missed, reported,
                   lapsed, credit>>

UnregisterOnReminderFails(r) ==
    /\ At(r, "ReceiveReminder", "reminder")
    /\ MaybeUnregisterReminder(r)
    /\ Fault("unregister")
    /\ EndTurn(r)
    /\ Lapse(r)
    /\ UNCHANGED <<topic, firing, sim, store, published, missed, reported,
                   credit>>

LogDidNotFinish(r) ==
    /\ At(r, "ReceiveReminder", "state")
    /\ store[r] # NoState
    /\ reported' = [reported EXCEPT ![r] = TRUE]
    /\ credit' = [credit EXCEPT ![r] = @ - 1]
    /\ EndTurn(r)
    /\ NoFault
    /\ UNCHANGED <<topic, reminder, firing, sim, store, published, missed,
                   lapsed>>

GetStateOnReminderFails(r) ==
    /\ At(r, "ReceiveReminder", "state")
    /\ \/ store[r] = NoState /\ NoFault
       \/ Fault("read")
    /\ EndTurn(r)
    /\ UNCHANGED reminder
    /\ Lapse(r)
    /\ UNCHANGED <<topic, firing, sim, store, published, missed, reported,
                   credit>>

-----------------------------------------------------------------------------
\* The race-control replica stops in the middle of a turn: what the turn set is
\* dropped, its event is not settled, a reminder it was running is over.
Crash(r) ==
    /\ turn[r] # Idle
    /\ Fault("crash")
    /\ EndTurn(r)
    /\ UNCHANGED reminder
    /\ IF turn[r].op = "ReceiveReminder" THEN Lapse(r) ELSE UNCHANGED lapsed
    /\ UNCHANGED <<topic, firing, sim, store, published, missed, reported,
                   credit>>

Simulator(r) == PublishCheckPoint(r) \/ PublishFails(r)

\* Steps inside a turn.
TurnStep(r) ==
    \/ RegisterStartReminder(r)
    \/ RegisterStartSave(r)
    \/ RegisterHalf(r)
    \/ UnregisterOnFinish(r)
    \/ UnregisterOnFinishFails(r)
    \/ RegisterFinisher(r)
    \/ GetStateFails(r)
    \/ UnregisterOnReminder(r)
    \/ UnregisterOnReminderFails(r)
    \/ LogDidNotFinish(r)
    \/ GetStateOnReminderFails(r)

Deliver(r) == \E m \in topic : Dispatch(r, m)

\* Every bounded race was run, every event settled, every reminder served.
Finished ==
    /\ \A r \in Runners : sim[r].race > MaxRaces /\ turn[r] = Idle
    /\ topic = {} /\ reminder = {} /\ firing = {}
    /\ UNCHANGED vars

Next ==
    \/ \E r \in Runners :
          \/ Simulator(r)
          \/ Deliver(r)
          \/ TurnStep(r)
          \/ ReminderDue(r)
          \/ ReceiveReminder(r)
          \/ Crash(r)
    \/ Finished

Spec == Init /\ [][Next]_vars

\* The sidecar delivers what is in the topic, reminders come due, the actor
\* runtime runs the turns it begins. The simulator owes nothing.
Fairness ==
    \A r \in Runners :
        /\ WF_vars(Deliver(r))
        /\ WF_vars(TurnStep(r))
        /\ WF_vars(ReminderDue(r))
        /\ WF_vars(ReceiveReminder(r))

FairSpec == Spec /\ Fairness

-----------------------------------------------------------------------------
(* Properties.                                                             *)

\* Every variable has its type: the saved state is a RunnerState or absent, a
\* turn is one of the four actor methods of RunnerActor.cs at one of its calls.
TypeOK ==
    /\ topic \subseteq RunnerRegistered
    /\ published \subseteq RunnerRegistered
    /\ missed \subseteq RunnerRegistered
    /\ reminder \subseteq Runners
    /\ firing \subseteq Runners
    /\ faults \in 0 .. MaxFaults
    /\ ordered \in BOOLEAN
    /\ sim \in [Runners -> [race : 1 .. MaxRaces + 1, next : CheckPoint]]
    /\ turn \in [Runners -> Turns]
    /\ store \in [Runners -> RunnerState \union {NoState}]
    /\ reported \in [Runners -> BOOLEAN]
    /\ lapsed \in [Runners -> BOOLEAN]
    /\ credit \in [Runners -> Int]

Unfinished(r) == store[r] # NoState /\ store[r].finish = NoRace

Pending(r, cp) == \E m \in topic : m.bib = r /\ m.checkPoint = cp

WatchedRunner(r) ==
    Unfinished(r) =>
        \/ r \in reminder \union firing
        \/ turn[r].op = "ReceiveReminder"
        \/ reported[r]
        \/ Pending(r, "Marathon")
        \/ lapsed[r]

\* A runner who started and did not finish is never forgotten: the reminder is
\* registered, due or being served, or the race was logged as not finished, or
\* a finish is still to be recorded. The one exception is a failed call whose
\* exception nobody retries while no reminder is registered (lapsed).
Watched == \A r \in Runners : WatchedRunner(r)

DisarmedRunner(r) ==
    store[r].finish # NoRace /\ r \in reminder => Pending(r, "Start")

\* Once a finish is saved the reminder of the runner is gone, whatever crashed
\* or failed between the two calls of RegisterFinisherAsync; it can only be
\* registered again by a Start event, which is then still unsettled.
FinishedIsDisarmed == \A r \in Runners : DisarmedRunner(r)

\* A registered reminder logs at most one "did not finish" line, although it is
\* periodic and its turn may fail and be run again: never more lines than
\* registrations.
OneReportPerStart == \A r \in Runners : credit[r] >= 0

\* With ordered delivery the times of two races never mix in one saved state,
\* through redeliveries, crashes and half done turns.
NoMixedRaces ==
    ordered =>
        \A r \in Runners :
            /\ store[r].half \in {NoRace, store[r].start}
            /\ store[r].finish \in {NoRace, store[r].start}

Reached(r, race, cp) ==
    [bib |-> r, race |-> race, checkPoint |-> cp] \in published

Missed(r, race, cp) == [bib |-> r, race |-> race, checkPoint |-> cp] \in missed

\* With ordered delivery, when the topic holds nothing of a runner whose actor is
\* idle, the saved state is that of the last race whose start was published,
\* with exactly the check points published for it and not missed.
QuiescentAccuracy ==
    \A r \in Runners :
        ordered /\ turn[r] = Idle /\ (\A m \in topic : m.bib # r) =>
            LET s == store[r] IN
            /\ \A k \in Races : Reached(r, k, "Start") => k <= s.start
            /\ s.start # NoRace => Reached(r, s.start, "Start")
            /\ s.half # NoRace => Reached(r, s.half, "HalfMarathon")
            /\ s.finish # NoRace => Reached(r, s.finish, "Marathon")
            /\ \/ s.half # NoRace
               \/ Missed(r, s.start, "HalfMarathon")
               \/ ~ Reached(r, s.start, "HalfMarathon")
            /\ \/ s.finish # NoRace
               \/ Missed(r, s.start, "Marathon")
               \/ ~ Reached(r, s.start, "Marathon")

\* Every started race is resolved: the runner finishes, starts again, is logged
\* as not finished, or has lapsed.
Resolved ==
    \A r \in Runners : \A k \in Races :
        store[r].start = k /\ store[r].finish = NoRace ~>
            \/ store[r].start # k
            \/ store[r].finish # NoRace
            \/ reported[r]
            \/ lapsed[r]

-----------------------------------------------------------------------------
(* The inductive invariant behind Watched, FinishedIsDisarmed and           *)
(* OneReportPerStart: what each of them needs to know of a turn half done.  *)

Methods == {"RegisterStart", "RegisterHalf", "RegisterFinisher"}

\* A turn handles an event of its own runner that is still in the topic; a
\* finish saves after its reminder is gone, a start after its reminder is
\* registered (or the runner has lapsed), and no reminder comes due while one
\* is being served.
TurnInv(r) ==
    /\ turn[r].op \in Methods =>
          /\ turn[r].msg \in topic
          /\ turn[r].msg.bib = r
          /\ turn[r].op = MethodOf(turn[r].msg.checkPoint)
    /\ turn[r].op = "ReceiveReminder" =>
          r \notin firing /\ (turn[r].at = "state" => r \notin reminder)
    /\ At(r, "RegisterFinisher", "state") => r \notin reminder
    /\ At(r, "RegisterStart", "state") => r \in reminder \/ lapsed[r]

\* A reminder that is registered, due or being served has its line to log.
CreditInv(r) ==
    /\ credit[r] >= 0
    /\ r \in reminder \union firing \/ turn[r].op = "ReceiveReminder" =>
          credit[r] >= 1

RunnerInv(r) ==
    TurnInv(r) /\ WatchedRunner(r) /\ DisarmedRunner(r) /\ CreditInv(r)

IInv == TypeOK /\ \A r \in Runners : RunnerInv(r)

-----------------------------------------------------------------------------
(* The inductive invariant behind NoMixedRaces and QuiescentAccuracy.       *)

\* What was published is behind the simulator, race by race, each from its start.
PublishedInv(r) ==
    /\ \A m \in topic : m.bib = r => m \in published
    /\ \A m \in published : m.bib = r =>
          /\ \/ m.race < sim[r].race
             \/ m.race = sim[r].race /\ Rank(m.checkPoint) < Rank(sim[r].next)
          /\ Reached(r, m.race, "Start")
    /\ sim[r].next # "Start" => Reached(r, sim[r].race, "Start")

\* What an ordered topic still holds comes after all that was settled, and a turn
\* handles the first of it.
SuffixInv(r) ==
    /\ \A m \in topic : \A n \in published :
          m.bib = r /\ Before(m, n) => n \in topic
    /\ turn[r].op \in Methods => \A n \in topic : ~ Before(n, turn[r].msg)

\* The saved state is that of one race, published, not later than anything in the
\* topic, and nothing settled is newer or lost but what was missed.
StoredInv(r) ==
    /\ store[r].half \in {NoRace, store[r].start}
    /\ store[r].finish \in {NoRace, store[r].start}
    /\ store[r].start # NoRace => Reached(r, store[r].start, "Start")
    /\ store[r].half # NoRace => Reached(r, store[r].half, "HalfMarathon")
    /\ store[r].finish # NoRace => Reached(r, store[r].finish, "Marathon")
    /\ \A m \in topic : m.bib = r => store[r].start <= m.race
    /\ \A m \in published : m.bib = r /\ m \notin topic =>
          /\ m.checkPoint = "Start" => m.race <= store[r].start
          /\ m.race = store[r].start /\ m \notin missed =>
                /\ m.checkPoint = "HalfMarathon" => store[r].half # NoRace
                /\ m.checkPoint = "Marathon" => store[r].finish # NoRace

OrderInv(r) == PublishedInv(r) /\ (ordered => SuffixInv(r) /\ StoredInv(r))

OrderedIInv == IInv /\ \A r \in Runners : OrderInv(r)

-----------------------------------------------------------------------------
(* Refinement.                                                             *)

\* A finish that is saved and a "did not finish" line contradict each other.
RunnerStatus(r) ==
    IF store[r] = NoState THEN "idle"
    ELSE IF store[r].finish # NoRace
         THEN IF reported[r] THEN "disputed" ELSE "finished"
    ELSE IF reported[r] THEN "reported"
    ELSE IF lapsed[r] THEN "lapsed"
    ELSE "watched"

ServingReminder(r) == r \in firing \/ turn[r].op = "ReceiveReminder"

Statuses == [r \in Runners |-> RunnerStatus(r)]
StartPending == {r \in Runners : Pending(r, "Start")}
ReminderServed == {r \in Runners : ServingReminder(r)}

Watch == INSTANCE Watchdog WITH
    status <- Statuses, starting <- StartPending, due <- ReminderServed,
    failures <- faults

\* The actor implements the watchdog of its runner. "Did not finish" is logged
\* only by a reminder that came due, and once the finish is saved none comes due
\* but for a Start event still in the topic: a finisher is logged as not
\* finished only by a reminder that was waiting for the turn of the Finisher
\* event, or by such a Start. A started runner is left unwatched, and a due
\* reminder without its line, only by a call that fails.
ImplementsWatchdog == Watch!Spec
=============================================================================
