----------------------------- MODULE Watchdog ------------------------------
(***************************************************************************)
(* What the runner actor (aca.race) promises with its 120 s alarm:         *)
(*                                                                         *)
(*   - a runner who started is watched until it finishes or is reported;   *)
(*     the watch lapses only in a step whose call fails;                   *)
(*   - an alarm that came due is served: it is dropped in silence only     *)
(*     when a call fails;                                                  *)
(*   - once the finish is saved no alarm comes due any more, unless a      *)
(*     start that was announced and is not settled yet set one.            *)
(*                                                                         *)
(* It does NOT promise that a finisher is never reported: an alarm that    *)
(* was already due when the finish was saved is served all the same. Such  *)
(* a runner has both lines and is "disputed".                              *)
(***************************************************************************)
EXTENDS Naturals

CONSTANT Actors

VARIABLES
    status,       \* the life cycle of each actor
    starting,     \* actors with a start announced and not settled
    due,          \* actors whose alarm came due and is not served
    failures      \* calls that failed so far

wvars == <<status, starting, due, failures>>

Status == {"idle", "watched", "lapsed", "reported", "finished", "disputed"}

Over == {"finished", "disputed"}

Init ==
    /\ status = [a \in Actors |-> "idle"]
    /\ starting = {}
    /\ due = {}
    /\ failures = 0

Moves(a, from, to) ==
    /\ status[a] \in from
    /\ status' = [status EXCEPT ![a] = to]

\* A step whose calls succeed, and one in which a call fails.
Succeeds == UNCHANGED failures
Fails == failures' = failures + 1

Announce(a) ==
    /\ starting' = starting \union {a}
    /\ Succeeds \/ Fails
    /\ UNCHANGED <<status, due>>

\* The new start is saved, or its alarm is set after a lapse; the announcement
\* stays when its answer is lost or another one follows.
Start(a) ==
    /\ a \in starting
    /\ Moves(a, Status, "watched") \/ Moves(a, Status, "lapsed")
    /\ starting' \in {starting, starting \ {a}}
    /\ Succeeds \/ Fails
    /\ UNCHANGED due

\* The alarm of a runner whose finish is saved is that of an unsettled start.
ComeDue(a) ==
    /\ status[a] \in Over => a \in starting
    /\ due' = due \union {a}
    /\ Succeeds
    /\ UNCHANGED <<status, starting>>

Report(a) ==
    /\ a \in due
    /\ due' = due \ {a}
    /\ \/ Moves(a, {"watched", "lapsed", "reported"}, "reported")
       \/ Moves(a, Over, "disputed")
    /\ Succeeds
    /\ UNCHANGED starting

\* Nobody to report: the alarm of an actor without a saved start.
Ignore(a) ==
    /\ status[a] = "idle"
    /\ due' = due \ {a}
    /\ Succeeds
    /\ UNCHANGED <<status, starting>>

Finish(a) ==
    /\ \/ Moves(a, {"watched", "lapsed"}, "finished")
       \/ Moves(a, {"reported"}, "disputed")
    /\ Succeeds \/ Fails
    /\ UNCHANGED <<starting, due>>

\* A call fails: an alarm being served is given up, the watch may lapse.
Fail(a) ==
    /\ Fails
    /\ UNCHANGED status \/ Moves(a, {"watched"}, "lapsed")
    /\ due' \in {due, due \ {a}}
    /\ UNCHANGED starting

Next ==
    \E a \in Actors :
        \/ Announce(a) \/ Start(a) \/ ComeDue(a) \/ Report(a) \/ Ignore(a)
        \/ Finish(a) \/ Fail(a)

Spec == Init /\ [][Next]_wvars
=============================================================================
