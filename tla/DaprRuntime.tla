---------------------------- MODULE DaprRuntime ----------------------------
(***************************************************************************)
(* The part of the Dapr sidecar the actor samples (aca.race, aca.camera)   *)
(* rely on; it is not in the repository and is modelled from its use.      *)
(*                                                                         *)
(*   - pub/sub: a published event stays in the topic until its delivery    *)
(*     was answered 200 and the answer arrived: delivery is at-least-once. *)
(*     When ordered is FALSE any event of the topic may come next (Redis   *)
(*     streams and Event Hubs partitions redeliver out of order).          *)
(*   - actors run one turn at a time; the state set during a turn is saved *)
(*     when the turn's method returns, and dropped when it throws.         *)
(*   - reminders are registered and unregistered at once, and a due        *)
(*     reminder whose actor is busy waits for the end of the turn.         *)
(*                                                                         *)
(* Every call to the sidecar may fail: Fault(kind) spends one unit of the  *)
(* budget MaxFaults, so that a behaviour meets finitely many failures.     *)
(***************************************************************************)
EXTENDS Naturals, FiniteSets

CONSTANTS
    Actors,       \* actor ids: bib numbers or camera ids
    FaultKinds,   \* the calls that may fail
    MaxFaults     \* bound: the number of failures in a behaviour

ASSUME RuntimeAssumption == MaxFaults \in Nat

VARIABLES
    topic,        \* events published and not yet settled
    reminder,     \* actors with a registered reminder
    firing,       \* actors with a due reminder waiting for its turn
    faults,       \* failures so far
    ordered       \* TRUE: this topic delivers the events of an actor in order

RuntimeInit ==
    /\ topic = {}
    /\ reminder = {}
    /\ firing = {}
    /\ faults = 0
    /\ ordered \in BOOLEAN

\* The calls of a step succeed. The kind of the topic never changes.
NoFault == UNCHANGED <<faults, ordered>>

\* A call of the given kind fails.
Fault(kind) ==
    /\ kind \in FaultKinds
    /\ faults < MaxFaults
    /\ faults' = faults + 1
    /\ UNCHANGED ordered

Publish(m) == topic' = topic \union {m}

\* The subscriber answered 200: the event leaves the topic, unless the answer
\* is lost and the event will be delivered again.
Ack(m) ==
    \/ /\ topic' = topic \ {m}
       /\ NoFault
    \/ /\ UNCHANGED topic
       /\ Fault("redeliver")

RegisterReminder(a) == reminder' = reminder \union {a}

UnregisterReminder(a) == reminder' = reminder \ {a}

\* A call that throws may have reached the sidecar before the failure.
MaybeRegisterReminder(a) == RegisterReminder(a) \/ UNCHANGED reminder

MaybeUnregisterReminder(a) == UnregisterReminder(a) \/ UNCHANGED reminder

\* A registered reminder is due. The next period of a reminder is not counted
\* while an earlier one is being delivered (busy).
Fire(a, busy) ==
    /\ a \in reminder
    /\ a \notin firing
    /\ ~ busy
    /\ firing' = firing \union {a}
=============================================================================
