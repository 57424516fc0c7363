----------------------------- MODULE AgentChat -----------------------------
(***************************************************************************)
(* ai_foundry_agents: a Chainlit application that serves every chat        *)
(* session from the module globals agents, agent_id and thread. The        *)
(* handlers of the sessions run on one event loop and interleave at their  *)
(* awaits; the agents, threads and runs live in the agent service and      *)
(* outlive the application. An agent or a thread is named by the session   *)
(* whose start created it.                                                 *)
(***************************************************************************)
EXTENDS Integers, FiniteSets, FiniteSetsExt, SequencesExt

CONSTANTS
    Sessions,     \* chat sessions
    NoSession,    \* the value of a global no start has bound yet
    MaxMessages,  \* bound: messages the users send, all sessions together
    MaxFaults     \* bound: calls to the service that fail

ASSUME ChatAssumption ==
    /\ NoSession \notin Sessions
    /\ MaxMessages \in Nat \ {0}
    /\ MaxFaults \in Nat

VARIABLES
    agents,       \* global: the session whose children the list holds
    agent_id,     \* global: the session whose orchestrator it names
    thread,       \* global: the session whose thread it names
    alive,        \* service: the agents that exist
    log,          \* service: the messages of each thread
    busy,         \* service: the threads with a run that has not ended
    handler,      \* where the handler of each session stands
    polls,        \* the thread of the run a session waits for
    sent,         \* messages the user of each session sent
    shown,        \* the answer the chat of each session shows
    server,       \* where the application stands in its life
    doomed,       \* stop: the list of children it deletes
    stopFailed,   \* history: stop ended with an exception
    calm,         \* history: no start failed or met another start or stop
    faults        \* calls that failed

globals == <<agents, agent_id, thread>>
service == <<alive, log, busy>>
chat == <<sent, shown>>
life == <<server, doomed, stopFailed>>
vars == <<globals, service, handler, polls, chat, life, calm, faults>>

Children == {"schedule", "student", "notifications"}
Agents == [of : Sessions, kind : Children \union {"orchestrator"}]
SomeSession == Sessions \union {NoSession}

StartSteps == Children \union {"orchestrator", "thread"}
MainSteps == {"message", "run", "poll", "list"}

Messages == [from : SomeSession, n : 0 .. MaxMessages, role : {"user", "assistant"}]
NoText == [from |-> NoSession, n |-> 0, role |-> "nobody"]

Init ==
    /\ agents = NoSession /\ agent_id = NoSession /\ thread = NoSession
    /\ alive = {}
    /\ log = [t \in Sessions |-> <<>>]
    /\ busy = {}
    /\ handler = [s \in Sessions |-> "absent"]
    /\ polls = [s \in Sessions |-> NoSession]
    /\ sent = [s \in Sessions |-> 0]
    /\ shown = [s \in Sessions |-> NoText]
    /\ server = "up" /\ doomed = NoSession /\ stopFailed = FALSE
    /\ calm = TRUE
    /\ faults = 0

NoFault == UNCHANGED faults
Fault == faults < MaxFaults /\ faults' = faults + 1

GoTo(s, step) == handler' = [handler EXCEPT ![s] = step]
At(s, step) == server # "down" /\ handler[s] = step

-----------------------------------------------------------------------------
(* start: one run of on_chat_start per session.                            *)

Starting == {s \in Sessions : handler[s] \in StartSteps}

Connect(s) ==
    /\ server = "up"
    /\ handler[s] = "absent"
    /\ GoTo(s, "schedule")
    /\ calm' = (calm /\ Starting = {})
    /\ NoFault
    /\ UNCHANGED <<globals, service, polls, chat, life>>

AgentOf(s, kind) == [of |-> s, kind |-> kind]

\* A create call that raises ends the handler; the agent may exist all the same.
CreateFails(s, kind) ==
    /\ At(s, kind)
    /\ alive' \in {alive, alive \union {AgentOf(s, kind)}}
    /\ Fault
    /\ GoTo(s, "idle")
    /\ calm' = FALSE
    /\ UNCHANGED <<globals, log, busy, polls, chat, life>>

Create(s, kind, next) ==
    /\ At(s, kind)
    /\ alive' = alive \union {AgentOf(s, kind)}
    /\ GoTo(s, next)
    /\ NoFault
    /\ UNCHANGED <<thread, log, busy, polls, chat, life, calm>>

CreateSchedule(s) == Create(s, "schedule", "student") /\ UNCHANGED <<agents, agent_id>>
CreateStudent(s) ==
    Create(s, "student", "notifications") /\ UNCHANGED <<agents, agent_id>>

\* The list of children is assigned before the next await.
CreateNotifications(s) ==
    /\ Create(s, "notifications", "orchestrator")
    /\ agents' = s
    /\ UNCHANGED agent_id

\* Mutant: the orchestrator's id is kept from the first start.
KeepFirstOrchestrator(s) ==
    /\ Create(s, "orchestrator", "thread")
    /\ agent_id' = IF agent_id = NoSession THEN s ELSE agent_id
    /\ UNCHANGED agents

CreateOrchestrator(s) ==
    /\ Create(s, "orchestrator", "thread")
    /\ agent_id' = s
    /\ UNCHANGED agents

CreateThread(s) ==
    /\ At(s, "thread")
    /\ \/ thread' = s /\ NoFault /\ UNCHANGED calm
       \/ UNCHANGED thread /\ Fault /\ calm' = FALSE
    /\ GoTo(s, "idle")
    /\ UNCHANGED <<agents, agent_id, service, polls, chat, life>>

-----------------------------------------------------------------------------
(* main: one run of on_message per message of the user. Every call reads    *)
(* the globals again.                                                       *)

Send(s) ==
    /\ server = "up"
    /\ handler[s] = "idle"
    /\ MapThenSumSet(LAMBDA q : sent[q], Sessions) < MaxMessages
    /\ sent' = [sent EXCEPT ![s] = @ + 1]
    /\ shown' = [shown EXCEPT ![s] = NoText]
    /\ GoTo(s, "message")
    /\ NoFault
    /\ UNCHANGED <<globals, service, polls, life, calm>>

Add(t, m) == log' = [log EXCEPT ![t] = Append(@, m)]

\* The service takes no message and starts no run while a run of the thread has
\* not ended, and the name thread may be unbound.
Refused == thread = NoSession \/ thread \in busy

CreateMessage(s) ==
    /\ At(s, "message")
    /\ LET m == [from |-> s, n |-> sent[s], role |-> "user"] IN
       \/ ~ Refused /\ Add(thread, m) /\ GoTo(s, "run") /\ NoFault
       \/ ~ Refused /\ (Add(thread, m) \/ UNCHANGED log) /\ GoTo(s, "idle") /\ Fault
       \/ Refused /\ UNCHANGED log /\ GoTo(s, "idle") /\ NoFault
    /\ UNCHANGED <<globals, alive, busy, polls, chat, life, calm>>

CreateRun(s) ==
    /\ At(s, "run")
    /\ \/ /\ ~ Refused
          /\ AgentOf(agent_id, "orchestrator") \in alive
          /\ busy' = busy \union {thread}
          /\ polls' = [polls EXCEPT ![s] = thread]
          /\ GoTo(s, "poll")
          /\ NoFault
       \/ /\ Refused \/ AgentOf(agent_id, "orchestrator") \notin alive
          /\ GoTo(s, "idle")
          /\ NoFault
          /\ UNCHANGED <<busy, polls>>
       \/ /\ ~ Refused
          /\ busy' \in {busy, busy \union {thread}}
          /\ GoTo(s, "idle")
          /\ Fault
          /\ UNCHANGED polls
    /\ UNCHANGED <<globals, alive, log, chat, life, calm>>

Questions(t) == {i \in DOMAIN log[t] : log[t][i].role = "user"}

\* What the orchestrator answers: the latest question of the thread.
Answer(t) ==
    IF Questions(t) = {} THEN [NoText EXCEPT !.role = "assistant"]
    ELSE [log[t][Max(Questions(t))] EXCEPT !.role = "assistant"]

\* Whoever polls the thread goes on to list its messages.
Polled(t) ==
    LET pollers == {s \in Sessions : handler[s] = "poll" /\ polls[s] = t} IN
    /\ handler' = [s \in Sessions |-> IF s \in pollers THEN "list" ELSE handler[s]]
    /\ polls' = [s \in Sessions |-> IF s \in pollers THEN NoSession ELSE polls[s]]

\* Mutant: create_and_process keeps polling a run that failed.
WaitForSuccess(t) ==
    /\ t \in busy
    /\ server # "down"
    /\ busy' = busy \ {t}
    /\ \/ Add(t, Answer(t)) /\ NoFault /\ Polled(t)
       \/ UNCHANGED <<log, handler, polls>> /\ Fault
    /\ UNCHANGED <<globals, alive, chat, life, calm>>

\* A run ends with an answer, or it fails: create_and_process returns either way
\* and main does not look at run.status.
RunEnds(t) ==
    /\ t \in busy
    /\ server # "down"
    /\ busy' = busy \ {t}
    /\ \/ Add(t, Answer(t)) /\ NoFault
       \/ UNCHANGED log /\ Fault
    /\ Polled(t)
    /\ UNCHANGED <<globals, alive, chat, life, calm>>

\* A poll raises, or the user presses stop: the run goes on in the service.
PollFails(s) ==
    /\ At(s, "poll")
    /\ polls' = [polls EXCEPT ![s] = NoSession]
    /\ GoTo(s, "idle")
    /\ Fault
    /\ UNCHANGED <<globals, service, chat, life, calm>>

Show(s, m) == shown' = [shown EXCEPT ![s] = m]

\* Mutant: the messages are listed in descending order.
ListDescending(s) ==
    /\ At(s, "list")
    /\ IF log[thread] # <<>> THEN Show(s, Head(log[thread])) ELSE UNCHANGED shown
    /\ NoFault
    /\ GoTo(s, "idle")
    /\ UNCHANGED <<globals, service, polls, sent, life, calm>>

\* The last message of the thread is shown, whoever wrote it.
ListMessages(s) ==
    /\ At(s, "list")
    /\ \/ log[thread] # <<>> /\ Show(s, Last(log[thread])) /\ NoFault
       \/ log[thread] = <<>> /\ UNCHANGED shown /\ NoFault
       \/ UNCHANGED shown /\ Fault
    /\ GoTo(s, "idle")
    /\ UNCHANGED <<globals, service, polls, sent, life, calm>>

-----------------------------------------------------------------------------
(* stop: on_app_shutdown. Handlers under way go on until it returns.        *)

Stop ==
    /\ server = "up"
    /\ server' = "orchestrator"
    /\ calm' = (calm /\ Starting = {})
    /\ NoFault
    /\ UNCHANGED <<globals, service, handler, polls, chat, doomed, stopFailed>>

\* Deletes an agent and goes on, or raises and ends.
Delete(a, next) ==
    \/ alive' = alive \ {a} /\ server' = next /\ NoFault /\ UNCHANGED stopFailed
    \/ /\ alive' \in {alive, alive \ {a}}
       /\ server' = "down"
       /\ Fault
       /\ stopFailed' = TRUE

\* The list of children is read when the first delete has returned.
StopOrchestrator ==
    /\ server = "orchestrator"
    /\ \/ /\ agent_id = NoSession
          /\ server' = "down" /\ stopFailed' = TRUE
          /\ NoFault
          /\ UNCHANGED alive
       \/ agent_id # NoSession /\ Delete(AgentOf(agent_id, "orchestrator"), "children")
    /\ UNCHANGED <<globals, log, busy, handler, polls, chat, doomed, calm>>

StopList ==
    /\ server = "children"
    /\ doomed' = agents
    /\ server' = "schedule"
    /\ NoFault
    /\ UNCHANGED <<globals, service, handler, polls, chat, stopFailed, calm>>

\* Mutant: stop deletes the orchestrator and the first two children only.
SkipLastChild ==
    /\ \/ server = "schedule" /\ Delete(AgentOf(doomed, "schedule"), "student")
       \/ server = "student" /\ Delete(AgentOf(doomed, "student"), "down")
    /\ UNCHANGED <<globals, log, busy, handler, polls, chat, doomed, calm>>

StopChild ==
    /\ \/ server = "schedule" /\ Delete(AgentOf(doomed, "schedule"), "student")
       \/ server = "student" /\ Delete(AgentOf(doomed, "student"), "notifications")
       \/ server = "notifications" /\ Delete(AgentOf(doomed, "notifications"), "down")
    /\ UNCHANGED <<globals, log, busy, handler, polls, chat, doomed, calm>>

Down == server = "down" /\ UNCHANGED vars

StartStep(s) ==
    \/ CreateSchedule(s) \/ CreateStudent(s) \/ CreateNotifications(s)
    \/ CreateOrchestrator(s) \/ CreateThread(s)
    \/ \E kind \in Children \union {"orchestrator"} : CreateFails(s, kind)

MainStep(s) == CreateMessage(s) \/ CreateRun(s) \/ PollFails(s) \/ ListMessages(s)

StopStep == StopOrchestrator \/ StopList \/ StopChild

Next ==
    \/ \E s \in Sessions : Connect(s) \/ StartStep(s) \/ Send(s) \/ MainStep(s)
    \/ \E t \in Sessions : RunEnds(t)
    \/ Stop
    \/ StopStep
    \/ Down

Spec == Init /\ [][Next]_vars

\* The event loop resumes what awaited; the service answers and ends its runs.
Fairness ==
    /\ \A s \in Sessions : WF_vars(StartStep(s)) /\ WF_vars(MainStep(s))
    /\ \A t \in Sessions : WF_vars(RunEnds(t))
    /\ WF_vars(StopStep)

FairSpec == Spec /\ Fairness

-----------------------------------------------------------------------------
(* Properties.                                                             *)

\* Every variable has its type: a handler stands at one of the awaits of main.py.
TypeOK ==
    /\ agents \in SomeSession /\ agent_id \in SomeSession /\ thread \in SomeSession
    /\ alive \subseteq Agents
    /\ \A t \in Sessions : \A i \in DOMAIN log[t] : log[t][i] \in Messages
    /\ busy \subseteq Sessions
    /\ handler \in [Sessions -> {"absent", "idle"} \union StartSteps \union MainSteps]
    /\ polls \in [Sessions -> SomeSession]
    /\ sent \in [Sessions -> 0 .. MaxMessages]
    /\ shown \in [Sessions -> Messages \union {NoText}]
    /\ server \in {"up", "orchestrator", "children", "down"} \union Children
    /\ doomed \in SomeSession
    /\ stopFailed \in BOOLEAN /\ calm \in BOOLEAN
    /\ faults \in 0 .. MaxFaults

\* While no start fails or meets another start or stop, an orchestrator that
\* exists has all its connected agents, also half way through stop: a run never
\* reaches for a connected agent that is gone.
WholeAgents ==
    calm =>
        \A s \in Sessions : AgentOf(s, "orchestrator") \in alive =>
            \A kind \in Children : AgentOf(s, kind) \in alive

\* A stop that ended well deletes every agent the globals name, and leaves
\* exactly the agents of the sessions that started before the last one.
StopLeavesEarlierSessions ==
    server = "down" /\ calm /\ ~ stopFailed =>
        {a.of : a \in alive} =
            {s \in Sessions : handler[s] # "absent"} \ {agent_id}

Alone(s) == \A t \in Sessions \ {s} : handler[t] = "absent"

\* While one session has the application to itself, through failing calls, failed
\* runs and runs whose poll was abandoned, the chat never shows an older message
\* than the question it answers: its answer or, when the run failed, the question.
AloneNeverStale ==
    \A s \in Sessions :
        Alone(s) /\ shown[s] # NoText => shown[s].from = s /\ shown[s].n = sent[s]

\* Every message that is sent is dealt with: shared threads and agents deleted
\* under it never leave a handler waiting.
HandlersEnd ==
    \A s \in Sessions :
        handler[s] \in MainSteps ~> handler[s] = "idle" \/ server = "down"

-----------------------------------------------------------------------------
\* The inductive invariant of WholeAgents and StopLeavesEarlierSessions: while no
\* start failed or met another one, exactly those agents exist that some start has
\* made by now and stop has not deleted.

\* The agents that the start of s has made.
Made(s, kind) ==
    handler[s] \notin {"absent", "schedule"} \union
        (CASE kind = "schedule" -> {}
           [] kind = "student" -> {"student"}
           [] kind = "notifications" -> {"student", "notifications"}
           [] OTHER -> {"student", "notifications", "orchestrator"})

\* The agents that stop has deleted.
Gone(s, kind) ==
    /\ s = agent_id
    /\ server \in {"down"} \union
        (CASE kind = "orchestrator" -> Children \union {"children"}
           [] kind = "schedule" -> {"student", "notifications"}
           [] kind = "student" -> {"notifications"}
           [] OTHER -> {})

ControlOK ==
    /\ handler \in [Sessions -> {"absent", "idle"} \union StartSteps \union MainSteps]
    /\ alive \subseteq Agents
    /\ agents \in SomeSession /\ agent_id \in SomeSession
    /\ server \in {"up", "orchestrator", "children", "down"} \union Children
    /\ calm \in BOOLEAN /\ stopFailed \in BOOLEAN

\* The starts of a calm application come one after the other, and none while it
\* stops; the two globals name the same start but for a moment in it.
OneStart ==
    calm =>
        /\ \A s, t \in Starting : s = t
        /\ server # "up" => Starting = {}
        /\ \A s \in Sessions : handler[s] = "orchestrator" => agents = s
        /\ (\A s \in Sessions : handler[s] # "orchestrator") => agents = agent_id
        /\ server \in Children => doomed = agents

ExactlyMade ==
    calm /\ ~ stopFailed =>
        \A s \in Sessions : \A kind \in Children \union {"orchestrator"} :
            AgentOf(s, kind) \in alive <=> Made(s, kind) /\ ~ Gone(s, kind)

IInv ==
    /\ ControlOK /\ OneStart /\ ExactlyMade /\ WholeAgents
    /\ stopFailed => server = "down"

-----------------------------------------------------------------------------
\* The inductive invariant of AloneNeverStale.

Shapes ==
    /\ handler \in [Sessions -> {"absent", "idle"} \union StartSteps \union MainSteps]
    /\ DOMAIN log = Sessions
    /\ \A t \in Sessions : log[t] \in Seq({log[t][i] : i \in DOMAIN log[t]})
    /\ DOMAIN sent = Sessions
    /\ DOMAIN shown = Sessions

\* The thread holds the question of s, and after it nothing but its answers.
Asked(s) ==
    LET of(role) == [from |-> s, n |-> sent[s], role |-> role] IN
    \E i \in DOMAIN log[s] :
        /\ log[s][i] = of("user")
        /\ \A j \in DOMAIN log[s] : j > i => log[s][j] = of("assistant")

\* A session that is alone talks to its own thread, where from its run until it
\* lists the messages nothing but answers to its question follow the question.
OwnThread ==
    \A s \in Sessions : Alone(s) =>
        /\ thread \in {NoSession, s}
        /\ handler[s] \in {"run", "poll", "list"} => thread = s /\ Asked(s)

AloneIInv == Shapes /\ OwnThread /\ AloneNeverStale
=============================================================================
