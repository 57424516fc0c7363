-------------------------- MODULE AgentChatProofs --------------------------
(* Proofs about AgentChat: which agents exist while no start fails or meets    *)
(* another start or stop, what stop leaves of them, and what the chat of a    *)
(* session that is alone shows.                                               *)
EXTENDS AgentChat, TLAPS

Kinds == Children \union {"orchestrator"}
Serving == {"idle"} \union MainSteps

LEMMA AgentsDiffer ==
    ASSUME NEW s, NEW t, NEW j, NEW k
    PROVE  AgentOf(s, j) = AgentOf(t, k) <=> s = t /\ j = k
    BY DEF AgentOf

LEMMA AgentType == ASSUME NEW s \in Sessions, NEW k \in Kinds PROVE AgentOf(s, k) \in Agents
    BY DEF AgentOf, Agents, Kinds

(* What the handlers of on_message do is of no matter to the agents.           *)
LEMMA MainKeeps ==
    ASSUME IInv,
           UNCHANGED <<agents, agent_id, alive, life, calm>>,
           handler' \in [Sessions -> {"absent", "idle"} \union StartSteps \union MainSteps],
           \A s \in Sessions : \/ handler'[s] = handler[s]
                               \/ handler[s] \in Serving /\ handler'[s] \in Serving
    PROVE  IInv'
    <1>1. ControlOK'
        BY DEF IInv, ControlOK, life
    <1>2. \A s \in Sessions : handler'[s] = handler[s] \/
              {handler[s], handler'[s]} \cap (StartSteps \union {"absent"}) = {}
        BY DEF Serving, MainSteps, StartSteps, Children
    <1>3. Starting' = Starting
        BY <1>2 DEF Starting
    <1>4. \A s \in Sessions : handler'[s] = "orchestrator" <=> handler[s] = "orchestrator"
        BY <1>2 DEF StartSteps
    <1>5. OneStart'
        BY <1>3, <1>4 DEF IInv, OneStart, life
    <1>6. \A s \in Sessions, kind \in Kinds : Made(s, kind)' <=> Made(s, kind)
        BY <1>2 DEF Made, StartSteps, Children, Kinds
    <1>7. \A s \in Sessions, kind \in Kinds : Gone(s, kind)' <=> Gone(s, kind)
        BY DEF Gone, life
    <1>8. ExactlyMade'
        BY <1>6, <1>7 DEF IInv, ExactlyMade, Kinds, life
    <1>9. QED
        BY <1>1, <1>5, <1>8 DEF IInv, WholeAgents, life

(* Nothing is said of an application that is not calm. *)
LEMMA NotCalm ==
    ASSUME ControlOK', ~ calm', stopFailed' => server' = "down"
    PROVE  IInv'
    BY DEF IInv, OneStart, ExactlyMade, WholeAgents

(* All connected agents of an orchestrator exist when exactly those exist that  *)
(* were made and not deleted: an orchestrator is made last and deleted first.   *)
LEMMA ExactIsWhole ==
    ASSUME ExactlyMade, ControlOK, ~ stopFailed
    PROVE  WholeAgents
    <1> SUFFICES ASSUME calm, NEW s \in Sessions, AgentOf(s, "orchestrator") \in alive,
                        NEW kind \in Children
                 PROVE  AgentOf(s, kind) \in alive
        BY DEF WholeAgents
    <1>1. Made(s, "orchestrator") /\ ~ Gone(s, "orchestrator")
        BY DEF ExactlyMade, ControlOK
    <1>2. Made(s, kind) /\ ~ Gone(s, kind)
        BY <1>1 DEF Made, Gone, Children
    <1>3. QED
        BY <1>2 DEF ExactlyMade, ControlOK

LEMMA ChatInit == Init => IInv
    <1> SUFFICES ASSUME Init
                 PROVE  IInv
        OBVIOUS
    <1>1. ControlOK
        BY DEF Init, ControlOK, SomeSession
    <1>2. OneStart
        BY DEF Init, OneStart, Starting, StartSteps, Children
    <1>3. ExactlyMade
        BY DEF Init, ExactlyMade, Made
    <1>4. WholeAgents
        BY DEF Init, WholeAgents
    <1>5. QED
        BY <1>1, <1>2, <1>3, <1>4 DEF Init, IInv

-----------------------------------------------------------------------------
(* A step of a start makes one agent. *)
LEMMA ConnectInv ==
    ASSUME IInv, NEW s \in Sessions, Connect(s)
    PROVE  IInv'
    <1>1. /\ ControlOK /\ OneStart /\ ExactlyMade /\ server = "up" /\ handler[s] = "absent"
          /\ handler' = [handler EXCEPT ![s] = "schedule"]
          /\ UNCHANGED <<agents, agent_id, alive, server, doomed, stopFailed>>
          /\ calm' = (calm /\ Starting = {})
          /\ ~ stopFailed
        BY DEF IInv, Connect, GoTo, globals, service, life
    <1>2. /\ handler' \in [Sessions -> {"absent", "idle"} \union StartSteps \union MainSteps]
          /\ handler'[s] = "schedule"
          /\ \A t \in Sessions \ {s} : handler'[t] = handler[t]
        BY <1>1 DEF ControlOK, StartSteps, Children
    <1>3. ControlOK'
        BY <1>1, <1>2 DEF ControlOK
    <1>4. CASE ~ calm'
        BY <1>1, <1>3, <1>4, NotCalm
    <1>5. CASE calm'
        <2>1. calm /\ Starting = {}
            BY <1>1, <1>5
        <2>2. Starting' = {s}
            BY <1>2, <2>1 DEF Starting, StartSteps, Children
        <2>3. \A t \in Sessions : handler'[t] = "orchestrator" <=> handler[t] = "orchestrator"
            BY <1>1, <1>2
        <2>4. OneStart'
            BY <1>1, <2>1, <2>2, <2>3 DEF OneStart, Children
        <2>5. \A t \in Sessions, kind \in Kinds : Made(t, kind)' <=> Made(t, kind)
            BY <1>1, <1>2 DEF Made
        <2>6. ExactlyMade'
            BY <1>1, <2>1, <2>5 DEF ExactlyMade, Gone, Kinds
        <2>7. QED
            BY <1>1, <1>3, <2>4, <2>6, ExactIsWhole DEF IInv, ExactlyMade, ControlOK, WholeAgents
    <1>6. QED
        BY <1>4, <1>5

StartGoes ==
    {<<"schedule", "student">>, <<"student", "notifications">>,
     <<"notifications", "orchestrator">>, <<"orchestrator", "thread">>}

LEMMA CreateInv ==
    ASSUME IInv, NEW s \in Sessions, NEW kind, NEW next, <<kind, next>> \in StartGoes,
           Create(s, kind, next),
           agents' = IF kind = "notifications" THEN s ELSE agents,
           agent_id' = IF kind = "orchestrator" THEN s ELSE agent_id
    PROVE  IInv'
    <1>1. /\ ControlOK /\ OneStart /\ ExactlyMade
          /\ (stopFailed => server = "down") /\ server # "down"
          /\ handler[s] = kind /\ handler' = [handler EXCEPT ![s] = next]
          /\ alive' = alive \union {AgentOf(s, kind)}
          /\ UNCHANGED <<server, doomed, stopFailed, calm>>
          /\ ~ stopFailed
        BY DEF IInv, Create, At, GoTo, life
    <1>2. /\ kind \in Kinds /\ kind \in StartSteps /\ next \in StartSteps
          /\ kind = "schedule" => next = "student"
          /\ kind = "student" => next = "notifications"
          /\ kind = "notifications" => next = "orchestrator"
          /\ kind = "orchestrator" => next = "thread"
        BY DEF StartGoes, Kinds, Children, StartSteps
    <1>3. /\ handler' \in [Sessions -> {"absent", "idle"} \union StartSteps \union MainSteps]
          /\ handler'[s] = next
          /\ \A t \in Sessions \ {s} : handler'[t] = handler[t]
        BY <1>1, <1>2 DEF ControlOK
    <1>4. ControlOK'
        <2>1. alive' \subseteq Agents
            BY <1>1, <1>2, AgentType DEF ControlOK
        <2>2. agents' \in SomeSession /\ agent_id' \in SomeSession
            BY <1>1 DEF ControlOK, SomeSession
        <2>3. QED
            BY <1>1, <1>3, <2>1, <2>2 DEF ControlOK
    <1>5. CASE ~ calm'
        BY <1>1, <1>4, <1>5, NotCalm
    <1>6. CASE calm'
        <2>1. calm /\ s \in Starting
            BY <1>1, <1>2, <1>6 DEF Starting
        <2>2. Starting = {s} /\ server = "up"
            BY <1>1, <2>1 DEF OneStart
        <2>3. Starting' = {s}
            BY <1>2, <1>3, <2>2 DEF Starting
        <2>4. OneStart'
            <3>1. \A t \in Sessions : handler'[t] = "orchestrator" => t = s /\ kind = "notifications"
                BY <1>2, <1>3, <2>2 DEF Starting, StartSteps, StartGoes
            <3>2. ASSUME \A t \in Sessions : handler'[t] # "orchestrator"
                  PROVE  agents' = agent_id'
                <4>1. kind # "notifications"
                    BY <1>2, <1>3, <3>2
                <4>2. CASE kind = "orchestrator"
                    BY <1>1, <2>1, <4>2 DEF OneStart
                <4>3. CASE kind # "orchestrator"
                    <5>1. \A t \in Sessions : handler[t] # "orchestrator"
                        BY <1>1, <1>3, <3>2, <4>3
                    <5>2. QED
                        BY <1>1, <2>1, <4>1, <4>3, <5>1 DEF OneStart
                <4>4. QED
                    BY <4>2, <4>3
            <3>3. QED
                BY <1>1, <2>2, <2>3, <3>1, <3>2 DEF OneStart, Children
        <2>5. ExactlyMade'
            <3> SUFFICES ASSUME NEW t \in Sessions, NEW k \in Kinds
                         PROVE  AgentOf(t, k) \in alive' <=> Made(t, k)' /\ ~ Gone(t, k)'
                BY DEF ExactlyMade, Kinds
            <3>1. ~ Gone(t, k)' /\ ~ Gone(t, k)
                BY <1>1, <2>2 DEF Gone, Children
            <3>2. AgentOf(t, k) \in alive <=> Made(t, k)
                BY <1>1, <2>1, <3>1 DEF ExactlyMade, Kinds
            <3>3. AgentOf(t, k) \in alive' <=> AgentOf(t, k) \in alive \/ (t = s /\ k = kind)
                BY <1>1, AgentsDiffer
            <3>4. CASE t # s
                BY <1>3, <3>1, <3>2, <3>3, <3>4 DEF Made
            <3>5. CASE t = s
                <4>1. Made(s, k)' <=> Made(s, k) \/ k = kind
                    BY <1>1, <1>2, <1>3 DEF Made, StartGoes, Kinds, Children
                <4>2. QED
                    BY <3>1, <3>2, <3>3, <3>5, <4>1
            <3>6. QED
                BY <3>4, <3>5
        <2>6. WholeAgents'
            <3>1. (ExactlyMade /\ ControlOK /\ ~ stopFailed => WholeAgents)'
                BY ExactIsWhole, PTL
            <3>2. QED
                BY <1>1, <1>4, <2>5, <3>1
        <2>7. QED
            BY <1>1, <1>4, <2>4, <2>5, <2>6 DEF IInv
    <1>7. QED
        BY <1>5, <1>6

LEMMA CreateFailsInv ==
    ASSUME IInv, NEW s \in Sessions, NEW kind \in Kinds, CreateFails(s, kind)
    PROVE  IInv'
    <1>1. /\ ControlOK /\ (stopFailed => server = "down")
          /\ alive' \in {alive, alive \union {AgentOf(s, kind)}}
          /\ handler' = [handler EXCEPT ![s] = "idle"]
          /\ calm' = FALSE
          /\ UNCHANGED <<agents, agent_id, server, stopFailed>>
        BY DEF IInv, CreateFails, GoTo, globals, life
    <1>2. handler' \in [Sessions -> {"absent", "idle"} \union StartSteps \union MainSteps]
        BY <1>1 DEF ControlOK
    <1>3. alive' \subseteq Agents
        BY <1>1, AgentType DEF ControlOK
    <1>4. ControlOK'
        BY <1>1, <1>2, <1>3 DEF ControlOK
    <1>5. QED
        BY <1>1, <1>4, NotCalm

(* The thread is made last: the start is over. *)
LEMMA CreateThreadInv ==
    ASSUME IInv, NEW s \in Sessions, CreateThread(s)
    PROVE  IInv'
    <1>1. /\ ControlOK /\ OneStart /\ ExactlyMade /\ WholeAgents
          /\ (stopFailed => server = "down")
          /\ handler[s] = "thread" /\ handler' = [handler EXCEPT ![s] = "idle"]
          /\ calm' = calm \/ calm' = FALSE
          /\ UNCHANGED <<agents, agent_id, alive, server, doomed, stopFailed>>
        BY DEF IInv, CreateThread, At, GoTo, service, life
    <1>2. /\ handler' \in [Sessions -> {"absent", "idle"} \union StartSteps \union MainSteps]
          /\ handler'[s] = "idle"
          /\ \A t \in Sessions \ {s} : handler'[t] = handler[t]
        BY <1>1 DEF ControlOK
    <1>3. ControlOK'
        BY <1>1, <1>2 DEF ControlOK
    <1>4. CASE ~ calm'
        BY <1>1, <1>3, <1>4, NotCalm
    <1>5. CASE calm'
        <2>1. calm
            BY <1>1, <1>5
        <2>2. Starting' \subseteq Starting
            BY <1>2 DEF Starting, StartSteps, Children, MainSteps
        <2>3. \A t \in Sessions : handler'[t] = "orchestrator" <=> handler[t] = "orchestrator"
            BY <1>1, <1>2
        <2>4. OneStart'
            BY <1>1, <2>1, <2>2, <2>3 DEF OneStart
        <2>5. \A t \in Sessions, kind \in Kinds : Made(t, kind)' <=> Made(t, kind)
            BY <1>1, <1>2 DEF Made
        <2>6. ExactlyMade'
            BY <1>1, <2>1, <2>5 DEF ExactlyMade, Gone, Kinds
        <2>7. QED
            BY <1>1, <1>3, <2>4, <2>6 DEF IInv, WholeAgents
    <1>6. QED
        BY <1>4, <1>5

-----------------------------------------------------------------------------
(* Messages and runs. *)
LEMMA MainInv ==
    ASSUME IInv, NEW s \in Sessions, Send(s) \/ MainStep(s)
    PROVE  IInv'
    <1>1. /\ UNCHANGED <<agents, agent_id, alive, life, calm>>
          /\ handler[s] \in Serving
          /\ \/ handler' = [handler EXCEPT ![s] = "idle"]
             \/ handler' = [handler EXCEPT ![s] = "message"]
             \/ handler' = [handler EXCEPT ![s] = "run"]
             \/ handler' = [handler EXCEPT ![s] = "poll"]
        BY DEF Send, MainStep, CreateMessage, CreateRun, PollFails, ListMessages, GoTo, At,
               globals, service, Serving, MainSteps
    <1>2. PICK x \in Serving : handler' = [handler EXCEPT ![s] = x]
        BY <1>1 DEF Serving, MainSteps
    <1>3. handler \in [Sessions -> {"absent", "idle"} \union StartSteps \union MainSteps]
        BY DEF IInv, ControlOK
    <1>4. handler' \in [Sessions -> {"absent", "idle"} \union StartSteps \union MainSteps]
        BY <1>2, <1>3 DEF Serving
    <1>5. \A t \in Sessions : \/ handler'[t] = handler[t]
                              \/ handler[t] \in Serving /\ handler'[t] \in Serving
        BY <1>1, <1>2, <1>3
    <1>6. QED
        BY <1>1, <1>4, <1>5, MainKeeps

LEMMA RunEndsInv ==
    ASSUME IInv, NEW t \in Sessions, RunEnds(t)
    PROVE  IInv'
    <1>1. /\ UNCHANGED <<agents, agent_id, alive, life, calm>>
          /\ Polled(t)
        BY DEF RunEnds, globals
    <1>2. handler \in [Sessions -> {"absent", "idle"} \union StartSteps \union MainSteps]
        BY DEF IInv, ControlOK
    <1>3. \A s \in Sessions : \/ handler'[s] = handler[s]
                              \/ handler[s] \in Serving /\ handler'[s] \in Serving
        BY <1>1, <1>2 DEF Polled, Serving, MainSteps
    <1>4. handler' \in [Sessions -> {"absent", "idle"} \union StartSteps \union MainSteps]
        BY <1>1, <1>2 DEF Polled, MainSteps
    <1>5. QED
        BY <1>1, <1>3, <1>4, MainKeeps

-----------------------------------------------------------------------------
(* stop. *)
LEMMA StopInv == IInv /\ Stop => IInv'
    <1> SUFFICES ASSUME IInv, Stop
                 PROVE  IInv'
        OBVIOUS
    <1>1. /\ ControlOK /\ OneStart /\ ExactlyMade /\ WholeAgents /\ ~ stopFailed
          /\ server = "up" /\ server' = "orchestrator" /\ calm' = (calm /\ Starting = {})
          /\ UNCHANGED <<agents, agent_id, alive, handler, doomed, stopFailed>>
        BY DEF IInv, Stop, globals, service
    <1>2. ControlOK'
        BY <1>1 DEF ControlOK
    <1>3. CASE ~ calm'
        BY <1>1, <1>2, <1>3, NotCalm
    <1>4. CASE calm'
        <2>1. calm /\ Starting = {} /\ Starting' = {}
            BY <1>1, <1>4 DEF Starting
        <2>2. OneStart'
            BY <1>1, <2>1 DEF OneStart, Children
        <2>3. \A s \in Sessions, kind \in Kinds : ~ Gone(s, kind) /\ ~ Gone(s, kind)'
            BY <1>1 DEF Gone, Kinds, Children
        <2>4. \A s \in Sessions, kind \in Kinds : Made(s, kind)' <=> Made(s, kind)
            BY <1>1 DEF Made
        <2>5. ExactlyMade'
            BY <1>1, <2>1, <2>3, <2>4 DEF ExactlyMade, Kinds
        <2>6. QED
            BY <1>1, <1>2, <2>1, <2>2, <2>5 DEF IInv, WholeAgents
    <1>5. QED
        BY <1>3, <1>4

(* A delete of agent a by stop, which goes on or fails. *)
LEMMA DeleteInv ==
    ASSUME IInv, NEW kind \in Kinds, NEW next,
           <<server, kind, next>> \in {<<"orchestrator", "orchestrator", "children">>,
                                       <<"schedule", "schedule", "student">>,
                                       <<"student", "student", "notifications">>,
                                       <<"notifications", "notifications", "down">>},
           NEW of, of = IF kind = "orchestrator" THEN agent_id ELSE doomed,
           Delete(AgentOf(of, kind), next),
           UNCHANGED <<agents, agent_id, handler, doomed, calm>>
    PROVE  IInv'
    <1>1. /\ ControlOK /\ OneStart /\ ExactlyMade /\ WholeAgents /\ ~ stopFailed
          /\ server \in {"orchestrator", "schedule", "student", "notifications"}
          /\ kind = server
          /\ kind = "orchestrator" => next = "children"
          /\ kind = "schedule" => next = "student"
          /\ kind = "student" => next = "notifications"
          /\ kind = "notifications" => next = "down"
        BY DEF IInv
    <1>2. /\ server' \in {next, "down"}
          /\ alive' \subseteq alive
          /\ alive \ alive' \subseteq {AgentOf(of, kind)}
          /\ \/ stopFailed' = TRUE /\ server' = "down"
             \/ stopFailed' = stopFailed /\ server' = next /\ alive' = alive \ {AgentOf(of, kind)}
        BY DEF Delete
    <1>3. ControlOK'
        BY <1>1, <1>2 DEF ControlOK, Children
    <1>4. CASE ~ calm
        BY <1>1, <1>2, <1>3, <1>4, NotCalm
    <1>5. CASE calm
        <2>1. /\ Starting = {} /\ agents = agent_id /\ of = agent_id
              /\ Starting' = {}
            <3>1. Starting = {} /\ Starting' = {}
                BY <1>1, <1>5 DEF OneStart, Starting
            <3>2. \A s \in Sessions : handler[s] # "orchestrator"
                BY <3>1 DEF Starting, StartSteps
            <3>3. agents = agent_id
                BY <1>1, <1>5, <3>2 DEF OneStart
            <3>4. kind # "orchestrator" => doomed = agents
                BY <1>1, <1>5 DEF OneStart, Children
            <3>5. QED
                BY <3>1, <3>3, <3>4
        <2>2. OneStart'
            <3>1. server' \in Children => server \in Children
                BY <1>1, <1>2 DEF Children
            <3>2. QED
                BY <1>1, <1>5, <2>1, <3>1 DEF OneStart
        <2>3. \A s \in Sessions, k \in Kinds : Made(s, k)' <=> Made(s, k)
            BY DEF Made
        <2>4. ExactlyMade'
            <3> SUFFICES ASSUME ~ stopFailed', NEW s \in Sessions, NEW k \in Kinds
                         PROVE  AgentOf(s, k) \in alive' <=> Made(s, k)' /\ ~ Gone(s, k)'
                BY DEF ExactlyMade, Kinds
            <3>1. AgentOf(s, k) \in alive <=> Made(s, k) /\ ~ Gone(s, k)
                BY <1>1, <1>5 DEF ExactlyMade, Kinds
            <3>2. /\ server' = next /\ alive' = alive \ {AgentOf(agent_id, kind)}
                BY <1>1, <1>2, <2>1
            <3>3. AgentOf(s, k) \in alive' <=> AgentOf(s, k) \in alive /\ ~ (s = agent_id /\ k = kind)
                BY <3>2, AgentsDiffer
            <3>4. Gone(s, k)' <=> Gone(s, k) \/ (s = agent_id /\ k = kind)
                BY <1>1, <3>2 DEF Gone, Kinds, Children
            <3>5. QED
                BY <2>3, <3>1, <3>3, <3>4
        <2>5. WholeAgents'
            <3> SUFFICES ASSUME NEW s \in Sessions, AgentOf(s, "orchestrator") \in alive',
                                NEW k \in Children
                         PROVE  AgentOf(s, k) \in alive'
                BY DEF WholeAgents
            <3>1. AgentOf(s, "orchestrator") \in alive /\ AgentOf(s, k) \in alive
                BY <1>1, <1>2, <1>5 DEF WholeAgents
            <3>2. CASE kind = "orchestrator"
                BY <1>2, <3>1, <3>2, AgentsDiffer DEF Children
            <3>3. CASE kind # "orchestrator"
                <4>1. s # agent_id
                    <5>1. ~ Gone(s, "orchestrator")
                        BY <1>1, <1>5, <3>1 DEF ExactlyMade
                    <5>2. QED
                        BY <1>1, <3>3, <5>1 DEF Gone, Children
                <4>2. QED
                    BY <1>2, <2>1, <3>1, <4>1, AgentsDiffer
            <3>4. QED
                BY <3>2, <3>3
        <2>6. QED
            BY <1>1, <1>2, <1>3, <2>2, <2>4, <2>5 DEF IInv
    <1>6. QED
        BY <1>4, <1>5

(* stop finds no start to undo. *)
LEMMA StopUnboundInv ==
    ASSUME IInv, server = "orchestrator", agent_id = NoSession, server' = "down",
           stopFailed' = TRUE,
           UNCHANGED <<agents, agent_id, alive, handler, doomed, calm>>
    PROVE  IInv'
    <1>1. ControlOK'
        BY DEF IInv, ControlOK
    <1>2. OneStart'
        BY DEF IInv, OneStart, Starting, Children
    <1>3. QED
        BY <1>1, <1>2 DEF IInv, ExactlyMade, WholeAgents

LEMMA StopListInv == IInv /\ StopList => IInv'
    <1> SUFFICES ASSUME IInv, StopList
                 PROVE  IInv'
        OBVIOUS
    <1>1. /\ ControlOK /\ OneStart /\ ExactlyMade /\ WholeAgents /\ ~ stopFailed
          /\ server = "children" /\ server' = "schedule" /\ doomed' = agents
          /\ UNCHANGED <<agents, agent_id, alive, handler, stopFailed, calm>>
        BY DEF IInv, StopList, globals, service
    <1>2. ControlOK'
        BY <1>1 DEF ControlOK, Children
    <1>3. OneStart'
        BY <1>1 DEF OneStart, Starting
    <1>4. \A s \in Sessions, kind \in Kinds : Gone(s, kind)' <=> Gone(s, kind)
        BY <1>1 DEF Gone, Kinds, Children
    <1>5. ExactlyMade'
        BY <1>1, <1>4 DEF ExactlyMade, Made, Kinds
    <1>6. QED
        BY <1>1, <1>2, <1>3, <1>5 DEF IInv, WholeAgents

LEMMA StopStepInv == IInv /\ StopStep => IInv'
    <1> SUFFICES ASSUME IInv, StopStep
                 PROVE  IInv'
        OBVIOUS
    <1>1. CASE StopOrchestrator
        <2>1. CASE agent_id = NoSession /\ server' = "down" /\ stopFailed' = TRUE /\ UNCHANGED alive
            BY <1>1, <2>1, StopUnboundInv DEF StopOrchestrator, globals
        <2>2. CASE Delete(AgentOf(agent_id, "orchestrator"), "children")
            <3>1. "orchestrator" \in Kinds
                BY DEF Kinds
            <3>2. QED
                BY <1>1, <2>2, <3>1, DeleteInv DEF StopOrchestrator, globals
        <2>3. QED
            BY <1>1, <2>1, <2>2 DEF StopOrchestrator
    <1>2. CASE StopList
        BY <1>2, StopListInv
    <1>3. CASE StopChild
        <2>1. UNCHANGED <<agents, agent_id, handler, doomed, calm>>
            BY <1>3 DEF StopChild, globals
        <2>2. /\ "schedule" \in Kinds /\ "student" \in Kinds /\ "notifications" \in Kinds
            BY DEF Kinds, Children
        <2>3. CASE server = "schedule" /\ Delete(AgentOf(doomed, "schedule"), "student")
            BY <2>1, <2>2, <2>3, DeleteInv
        <2>4. CASE server = "student" /\ Delete(AgentOf(doomed, "student"), "notifications")
            BY <2>1, <2>2, <2>4, DeleteInv
        <2>5. CASE server = "notifications" /\ Delete(AgentOf(doomed, "notifications"), "down")
            BY <2>1, <2>2, <2>5, DeleteInv
        <2>6. QED
            BY <1>3, <2>3, <2>4, <2>5 DEF StopChild
    <1>4. QED
        BY <1>1, <1>2, <1>3 DEF StopStep

-----------------------------------------------------------------------------
LEMMA StartStepInv ==
    ASSUME IInv, NEW s \in Sessions, StartStep(s)
    PROVE  IInv'
    <1>1. /\ <<"schedule", "student">> \in StartGoes
          /\ <<"student", "notifications">> \in StartGoes
          /\ <<"notifications", "orchestrator">> \in StartGoes
          /\ <<"orchestrator", "thread">> \in StartGoes
        BY DEF StartGoes
    <1>2. CASE CreateSchedule(s)
        BY <1>1, <1>2, CreateInv DEF CreateSchedule
    <1>3. CASE CreateStudent(s)
        BY <1>1, <1>3, CreateInv DEF CreateStudent
    <1>4. CASE CreateNotifications(s)
        BY <1>1, <1>4, CreateInv DEF CreateNotifications
    <1>5. CASE CreateOrchestrator(s)
        BY <1>1, <1>5, CreateInv DEF CreateOrchestrator
    <1>6. CASE CreateThread(s)
        BY <1>6, CreateThreadInv
    <1>7. CASE \E kind \in Kinds : CreateFails(s, kind)
        BY <1>7, CreateFailsInv
    <1>8. QED
        BY <1>2, <1>3, <1>4, <1>5, <1>6, <1>7 DEF StartStep, Kinds

LEMMA ChatNext == IInv /\ [Next]_vars => IInv'
    <1> SUFFICES ASSUME IInv, [Next]_vars
                 PROVE  IInv'
        OBVIOUS
    <1>1. ASSUME NEW s \in Sessions, Connect(s) \/ StartStep(s) \/ Send(s) \/ MainStep(s)
          PROVE  IInv'
        BY <1>1, ConnectInv, StartStepInv, MainInv
    <1>2. ASSUME NEW t \in Sessions, RunEnds(t)
          PROVE  IInv'
        BY <1>2, RunEndsInv
    <1>3. CASE Stop \/ StopStep
        BY <1>3, StopInv, StopStepInv
    <1>4. CASE UNCHANGED vars
        BY <1>4 DEF vars, globals, service, life, IInv, ControlOK, OneStart, Starting,
                    ExactlyMade, Made, Gone, WholeAgents
    <1>5. QED
        BY <1>1, <1>2, <1>3, <1>4 DEF Next, Down

-----------------------------------------------------------------------------
(* Exactly the agents exist that some start has made and stop has not deleted,  *)
(* while no start failed or met another.                                      *)
THEOREM AgentsInvariant == Spec => []IInv
    BY ChatInit, ChatNext, PTL DEF Spec

(* For any number of sessions, messages and failing calls, an orchestrator that *)
(* exists has all its connected agents.                                       *)
THEOREM AgentsAreWhole == Spec => []WholeAgents
    <1>1. IInv => WholeAgents
        BY DEF IInv
    <1>2. QED
        BY <1>1, AgentsInvariant, PTL

(* What stop leaves, for any number of sessions: the agents of every start but   *)
(* the last.                                                                  *)
THEOREM StopLeavesTheRest == Spec => []StopLeavesEarlierSessions
    <1>1. IInv => StopLeavesEarlierSessions
        <2> SUFFICES ASSUME IInv, server = "down", calm, ~ stopFailed
                     PROVE  {a.of : a \in alive} =
                                {s \in Sessions : handler[s] # "absent"} \ {agent_id}
            BY DEF StopLeavesEarlierSessions
        <2>1. /\ ControlOK /\ Starting = {}
              /\ \A s \in Sessions, k \in Kinds :
                     AgentOf(s, k) \in alive <=> Made(s, k) /\ ~ Gone(s, k)
            BY DEF IInv, OneStart, ExactlyMade, Kinds
        <2>2. \A s \in Sessions, k \in Kinds : Gone(s, k) <=> s = agent_id
            BY DEF Gone
        <2>3. \A s \in Sessions, k \in Kinds : Made(s, k) <=> handler[s] # "absent"
            BY <2>1 DEF Made, Starting, StartSteps, Children, Kinds
        <2>4. ASSUME NEW a \in alive
              PROVE  a.of \in {s \in Sessions : handler[s] # "absent"} \ {agent_id}
            <3>1. a.of \in Sessions /\ a.kind \in Kinds /\ a = AgentOf(a.of, a.kind)
                BY <2>1 DEF ControlOK, Agents, AgentOf, Kinds
            <3>2. QED
                BY <2>1, <2>2, <2>3, <3>1
        <2>5. ASSUME NEW s \in Sessions, handler[s] # "absent", s # agent_id
              PROVE  s \in {a.of : a \in alive}
            <3>1. "orchestrator" \in Kinds
                BY DEF Kinds
            <3>2. AgentOf(s, "orchestrator") \in alive
                BY <2>1, <2>2, <2>3, <2>5, <3>1
            <3>3. AgentOf(s, "orchestrator").of = s
                BY DEF AgentOf
            <3>4. QED
                BY <3>2, <3>3
        <2>6. QED
            BY <2>4, <2>5
    <1>2. QED
        BY <1>1, AgentsInvariant, PTL
-----------------------------------------------------------------------------
(* A session that is alone. A session that was alone after a step was before:   *)
(* no handler goes back to absent.                                            *)

Steps == {"absent", "idle"} \union StartSteps \union MainSteps
Asking == {"run", "poll", "list"}
NoneLeaves == \A t \in Sessions : handler'[t] = "absent" => handler[t] = "absent"

LEMMA WasAlone ==
    ASSUME NoneLeaves, NEW s \in Sessions, Alone(s)'
    PROVE  Alone(s)
    BY DEF NoneLeaves, Alone

LEMMA AloneInit == Init => AloneIInv
    <1> SUFFICES ASSUME Init
                 PROVE  AloneIInv
        OBVIOUS
    <1>1. \A t \in Sessions : log[t] \in Seq({log[t][i] : i \in DOMAIN log[t]})
        BY DEF Init
    <1>2. Shapes
        BY <1>1 DEF Init, Shapes
    <1>3. OwnThread /\ AloneNeverStale
        BY DEF Init, OwnThread, AloneNeverStale
    <1>4. QED
        BY <1>2, <1>3 DEF AloneIInv

(* A step that leaves thread, log, sent and shown alone, and brings no session   *)
(* to its run.                                                                *)
LEMMA HandlerKeeps ==
    ASSUME AloneIInv, UNCHANGED <<thread, log, sent, shown>>,
           handler' \in [Sessions -> Steps], NoneLeaves,
           \A t \in Sessions : handler'[t] \in Asking => handler[t] \in Asking
    PROVE  AloneIInv'
    <1>1. Shapes'
        BY DEF AloneIInv, Shapes, Steps
    <1>2. ASSUME NEW s \in Sessions, Alone(s)'
          PROVE  /\ thread' \in {NoSession, s}
                 /\ handler'[s] \in {"run", "poll", "list"} => thread' = s /\ Asked(s)'
                 /\ shown'[s] # NoText => shown'[s].from = s /\ shown'[s].n = sent'[s]
        BY <1>2, WasAlone DEF AloneIInv, OwnThread, AloneNeverStale, Asked, Asking
    <1>3. QED
        BY <1>1, <1>2 DEF AloneIInv, OwnThread, AloneNeverStale

(* One handler takes one step. *)
LEMMA StepOf ==
    ASSUME Shapes, NEW s \in Sessions, NEW x \in Steps, GoTo(s, x)
    PROVE  /\ handler' \in [Sessions -> Steps]
           /\ handler'[s] = x
           /\ \A t \in Sessions \ {s} : handler'[t] = handler[t]
           /\ x # "absent" => NoneLeaves
    BY DEF Shapes, GoTo, NoneLeaves, Steps

LEMMA StepKeeps ==
    ASSUME AloneIInv, UNCHANGED <<thread, log, sent, shown>>,
           NEW s \in Sessions, NEW x \in Steps \ {"absent"}, GoTo(s, x),
           x \in Asking => handler[s] \in Asking
    PROVE  AloneIInv'
    <1>1. Shapes
        BY DEF AloneIInv
    <1>2. /\ handler' \in [Sessions -> Steps] /\ handler'[s] = x /\ NoneLeaves
          /\ \A t \in Sessions \ {s} : handler'[t] = handler[t]
        BY <1>1, StepOf
    <1>3. QED
        BY <1>2, HandlerKeeps

(* What a message more does to a thread. *)
LEMMA AddShape ==
    ASSUME Shapes, NEW t \in Sessions, NEW m, Add(t, m)
    PROVE  /\ DOMAIN log' = Sessions
           /\ \A u \in Sessions : log'[u] \in Seq({log'[u][i] : i \in DOMAIN log'[u]})
           /\ \A u \in Sessions \ {t} : log'[u] = log[u]
           /\ Len(log[t]) \in Nat
           /\ DOMAIN log[t] = 1 .. Len(log[t])
           /\ DOMAIN log'[t] = 1 .. Len(log[t]) + 1
           /\ \A i \in DOMAIN log[t] : log'[t][i] = log[t][i]
           /\ log'[t][Len(log[t]) + 1] = m
    <1> DEFINE X == {log[t][i] : i \in DOMAIN log[t]}
               q == Append(log[t], m)
               Y == X \union {m}
    <1>1. /\ DOMAIN log' = Sessions /\ log'[t] = q
          /\ \A u \in Sessions \ {t} : log'[u] = log[u]
        BY DEF Shapes, Add
    <1>2. log[t] \in Seq(X)
        BY DEF Shapes
    <1>3. log[t] \in Seq(Y)
        <2> HIDE DEF X
        <2>1. QED
            BY <1>2
    <1>4. m \in Y
        OBVIOUS
    <1>5. /\ Len(log[t]) \in Nat /\ DOMAIN log[t] = 1 .. Len(log[t])
          /\ q \in Seq(Y) /\ Len(q) = Len(log[t]) + 1
          /\ DOMAIN q = 1 .. Len(log[t]) + 1
          /\ \A i \in DOMAIN log[t] : q[i] = log[t][i]
          /\ q[Len(log[t]) + 1] = m
        <2> HIDE DEF Y
        <2>1. QED
            BY <1>3, <1>4
    <1>6. q \in Seq({q[i] : i \in DOMAIN q})
        <2> HIDE DEF q, Y
        <2>1. q \in [1 .. Len(q) -> {q[i] : i \in DOMAIN q}]
            BY <1>5
        <2>2. Len(q) \in Nat
            BY <1>5
        <2>3. QED
            BY <2>1, <2>2
    <1>7. \A u \in Sessions : log'[u] \in Seq({log'[u][i] : i \in DOMAIN log'[u]})
        <2> SUFFICES ASSUME NEW u \in Sessions
                     PROVE  log'[u] \in Seq({log'[u][i] : i \in DOMAIN log'[u]})
            OBVIOUS
        <2>1. CASE u = t
            BY <1>1, <1>6, <2>1
        <2>2. CASE u # t
            BY <1>1, <2>2 DEF Shapes
        <2>3. QED
            BY <2>1, <2>2
    <1>8. QED
        BY <1>1, <1>5, <1>7

LEMMA CreateThreadAlone ==
    ASSUME AloneIInv, NEW s \in Sessions, CreateThread(s)
    PROVE  AloneIInv'
    <1>1. /\ handler[s] = "thread" /\ GoTo(s, "idle") /\ thread' \in {thread, s}
          /\ UNCHANGED <<log, sent, shown>>
          /\ Shapes /\ OwnThread /\ AloneNeverStale
        BY DEF CreateThread, At, service, chat, AloneIInv
    <1>2. /\ handler' \in [Sessions -> Steps] /\ handler'[s] = "idle" /\ NoneLeaves
          /\ \A t \in Sessions \ {s} : handler'[t] = handler[t]
        BY <1>1, StepOf DEF Steps
    <1>3. Shapes'
        BY <1>1, <1>2 DEF Shapes, Steps
    <1>4. ASSUME NEW u \in Sessions, Alone(u)'
          PROVE  /\ thread' \in {NoSession, u}
                 /\ handler'[u] \notin Asking
                 /\ shown'[u] # NoText => shown'[u].from = u /\ shown'[u].n = sent'[u]
        <2>1. u = s
            BY <1>2, <1>4 DEF Alone
        <2>2. Alone(u)
            BY <1>2, <1>4, WasAlone
        <2>3. QED
            BY <1>1, <1>2, <2>1, <2>2 DEF OwnThread, AloneNeverStale, Asking
    <1>5. QED
        BY <1>3, <1>4 DEF AloneIInv, OwnThread, AloneNeverStale, Asking

LEMMA SendAlone ==
    ASSUME AloneIInv, NEW s \in Sessions, Send(s)
    PROVE  AloneIInv'
    <1>1. /\ handler[s] = "idle" /\ GoTo(s, "message") /\ UNCHANGED <<thread, log>>
          /\ sent' = [sent EXCEPT ![s] = @ + 1]
          /\ shown' = [shown EXCEPT ![s] = NoText]
          /\ Shapes /\ OwnThread /\ AloneNeverStale
        BY DEF Send, globals, service, AloneIInv
    <1>2. /\ handler' \in [Sessions -> Steps] /\ handler'[s] = "message" /\ NoneLeaves
          /\ \A t \in Sessions \ {s} : handler'[t] = handler[t]
        BY <1>1, StepOf DEF Steps, MainSteps
    <1>3. Shapes'
        BY <1>1, <1>2 DEF Shapes, Steps
    <1>4. ASSUME NEW u \in Sessions, Alone(u)'
          PROVE  /\ thread' \in {NoSession, u}
                 /\ handler'[u] \notin Asking
                 /\ shown'[u] # NoText => shown'[u].from = u /\ shown'[u].n = sent'[u]
        <2>1. u = s
            BY <1>2, <1>4 DEF Alone
        <2>2. Alone(u)
            BY <1>2, <1>4, WasAlone
        <2>3. shown'[u] = NoText
            BY <1>1, <2>1 DEF Shapes
        <2>4. QED
            BY <1>1, <1>2, <2>1, <2>2, <2>3 DEF OwnThread, Asking
    <1>5. QED
        BY <1>3, <1>4 DEF AloneIInv, OwnThread, AloneNeverStale, Asking

(* A session that is alone asks in its own thread, and its question comes last. *)
LEMMA CreateMessageAlone ==
    ASSUME AloneIInv, NEW s \in Sessions, CreateMessage(s)
    PROVE  AloneIInv'
    <1> DEFINE m == [from |-> s, n |-> sent[s], role |-> "user"]
    <1>1. /\ handler[s] = "message" /\ UNCHANGED <<thread, sent, shown>>
          /\ Shapes /\ OwnThread /\ AloneNeverStale
          /\ \/ ~ Refused /\ Add(thread, m) /\ GoTo(s, "run")
             \/ ~ Refused /\ Add(thread, m) /\ GoTo(s, "idle")
             \/ UNCHANGED log /\ GoTo(s, "idle")
        BY DEF CreateMessage, At, globals, chat, AloneIInv
    <1>2. CASE UNCHANGED log /\ GoTo(s, "idle")
        BY <1>1, <1>2, StepKeeps DEF Steps, Asking
    <1>3. CASE ~ Refused /\ Add(thread, m) /\ (GoTo(s, "run") \/ GoTo(s, "idle"))
        <2>1. /\ handler' \in [Sessions -> Steps] /\ handler'[s] # "absent" /\ NoneLeaves
              /\ \A t \in Sessions \ {s} : handler'[t] = handler[t]
            BY <1>1, <1>3, StepOf DEF Steps, MainSteps
        <2>2. DOMAIN log' = Sessions /\ \A u \in Sessions :
                  log'[u] \in Seq({log'[u][i] : i \in DOMAIN log'[u]})
            <3>1. CASE thread \in Sessions
                BY <1>1, <1>3, <3>1, AddShape
            <3>2. CASE thread \notin Sessions
                <4>1. DOMAIN log' = DOMAIN log /\ \A u \in Sessions : log'[u] = log[u]
                    <5> HIDE DEF m
                    <5>1. QED
                        BY <1>1, <1>3, <3>2 DEF Add, Shapes
                <4>2. QED
                    BY <1>1, <4>1 DEF Shapes
            <3>3. QED
                BY <3>1, <3>2
        <2>3. Shapes'
            BY <1>1, <2>1, <2>2 DEF Shapes, Steps
        <2>4. ASSUME NEW u \in Sessions, Alone(u)'
              PROVE  /\ thread' \in {NoSession, u}
                     /\ handler'[u] \in Asking => thread' = u /\ Asked(u)'
                     /\ shown'[u] # NoText => shown'[u].from = u /\ shown'[u].n = sent'[u]
            <3>1. u = s
                BY <1>1, <2>1, <2>4 DEF Alone
            <3>2. Alone(s)
                BY <2>1, <2>4, <3>1, WasAlone
            <3>3. thread = s
                BY <1>1, <1>3, <3>2 DEF OwnThread, Refused
            <3>4. /\ Len(log[s]) \in Nat
                  /\ DOMAIN log'[s] = 1 .. Len(log[s]) + 1
                  /\ log'[s][Len(log[s]) + 1] = m
                BY <1>1, <1>3, <3>3, AddShape
            <3>5. Asked(s)'
                <4>1. Len(log[s]) + 1 \in DOMAIN log'[s]
                    BY <3>4
                <4>2. \A j \in DOMAIN log'[s] : ~ j > Len(log[s]) + 1
                    BY <3>4
                <4>3. sent'[s] = sent[s]
                    BY <1>1
                <4>4. QED
                    BY <3>4, <4>1, <4>2, <4>3 DEF Asked
            <3>6. QED
                BY <1>1, <3>1, <3>2, <3>3, <3>5 DEF AloneNeverStale
        <2>5. QED
            BY <2>3, <2>4 DEF AloneIInv, OwnThread, AloneNeverStale, Asking
    <1>4. QED
        BY <1>1, <1>2, <1>3

(* The orchestrator answers the latest question: what it adds is one more answer *)
(* to the question of a session that is alone.                                *)
LEMMA AnswerKeepsAsked ==
    ASSUME Shapes, NEW t \in Sessions, Add(t, Answer(t)), UNCHANGED sent,
           NEW s \in Sessions, Asked(s)
    PROVE  Asked(s)'
    <1>1. CASE t # s
        <2>1. log'[s] = log[s] /\ sent'[s] = sent[s]
            BY <1>1, AddShape
        <2>2. QED
            BY <2>1 DEF Asked
    <1>2. CASE t = s
        <2> DEFINE of(role) == [from |-> s, n |-> sent[s], role |-> role]
        <2>1. PICK i \in DOMAIN log[s] :
                  /\ log[s][i] = of("user")
                  /\ \A j \in DOMAIN log[s] : j > i => log[s][j] = of("assistant")
            BY DEF Asked
        <2>2. /\ Len(log[s]) \in Nat
              /\ DOMAIN log[s] = 1 .. Len(log[s])
              /\ DOMAIN log'[s] = 1 .. Len(log[s]) + 1
              /\ \A k \in DOMAIN log[s] : log'[s][k] = log[s][k]
              /\ log'[s][Len(log[s]) + 1] = Answer(s)
            BY <1>2, AddShape
        <2>3. i \in Questions(s)
            BY <2>1 DEF Questions
        <2>4. \A j \in Questions(s) : i >= j
            <3> SUFFICES ASSUME NEW j \in DOMAIN log[s], log[s][j].role = "user", j > i
                         PROVE  FALSE
                BY <2>2 DEF Questions
            <3>1. log[s][j].role = "assistant"
                BY <2>1
            <3>2. QED
                BY <3>1
        <2>5. Max(Questions(s)) = i
            <3>1. \A j \in Questions(s) : (\A k \in Questions(s) : j >= k) => j = i
                BY <2>2, <2>3, <2>4 DEF Questions
            <3>2. QED
                BY <2>3, <2>4, <3>1 DEF Max
        <2>6. Answer(s) = of("assistant")
            BY <2>1, <2>3, <2>5 DEF Answer
        <2>7. /\ i \in DOMAIN log'[s] /\ log'[s][i] = of("user")
              /\ \A j \in DOMAIN log'[s] : j > i => log'[s][j] = of("assistant")
            <3> HIDE DEF of
            <3>1. i \in DOMAIN log'[s] /\ log'[s][i] = of("user")
                BY <2>1, <2>2
            <3>2. ASSUME NEW j \in DOMAIN log'[s], j > i
                  PROVE  log'[s][j] = of("assistant")
                <4>1. CASE j \in DOMAIN log[s]
                    BY <2>1, <2>2, <3>2, <4>1
                <4>2. CASE j = Len(log[s]) + 1
                    BY <2>2, <2>6, <4>2
                <4>3. QED
                    BY <2>2, <4>1, <4>2
            <3>3. QED
                BY <3>1, <3>2
        <2>8. QED
            BY <2>7 DEF Asked
    <1>3. QED
        BY <1>1, <1>2

LEMMA RunEndsAlone ==
    ASSUME AloneIInv, NEW t \in Sessions, RunEnds(t)
    PROVE  AloneIInv'
    <1>1. /\ UNCHANGED <<thread, sent, shown>> /\ Polled(t)
          /\ Add(t, Answer(t)) \/ UNCHANGED log
          /\ Shapes /\ OwnThread /\ AloneNeverStale
        BY DEF RunEnds, globals, chat, AloneIInv
    <1>2. /\ handler' \in [Sessions -> Steps] /\ NoneLeaves
          /\ \A s \in Sessions : handler'[s] \in Asking => handler[s] \in Asking
        BY <1>1 DEF Shapes, Polled, NoneLeaves, Asking, Steps, MainSteps
    <1>3. CASE UNCHANGED log
        BY <1>1, <1>2, <1>3, HandlerKeeps
    <1>4. CASE Add(t, Answer(t))
        <2>1. Shapes'
            BY <1>1, <1>2, <1>4, AddShape DEF Shapes, Steps
        <2>2. ASSUME NEW s \in Sessions, Alone(s)'
              PROVE  /\ thread' \in {NoSession, s}
                     /\ handler'[s] \in Asking => thread' = s /\ Asked(s)'
                     /\ shown'[s] # NoText => shown'[s].from = s /\ shown'[s].n = sent'[s]
            <3>1. Alone(s)
                BY <1>2, <2>2, WasAlone
            <3>2. handler'[s] \in Asking => thread' = s /\ Asked(s)
                BY <1>1, <1>2, <3>1 DEF OwnThread, Asking
            <3>3. QED
                BY <1>1, <1>4, <3>1, <3>2, AnswerKeepsAsked DEF OwnThread, AloneNeverStale
        <2>3. QED
            BY <2>1, <2>2 DEF AloneIInv, OwnThread, AloneNeverStale, Asking
    <1>5. QED
        BY <1>1, <1>3, <1>4

(* What a session that is alone is shown is its question or an answer to it. *)
LEMMA ListMessagesAlone ==
    ASSUME AloneIInv, NEW s \in Sessions, ListMessages(s)
    PROVE  AloneIInv'
    <1>1. /\ handler[s] = "list" /\ GoTo(s, "idle") /\ UNCHANGED <<thread, log, sent>>
          /\ UNCHANGED shown \/ Show(s, Last(log[thread]))
          /\ Shapes /\ OwnThread /\ AloneNeverStale
        BY DEF ListMessages, At, globals, service, AloneIInv
    <1>2. CASE UNCHANGED shown
        BY <1>1, <1>2, StepKeeps DEF Steps, Asking
    <1>3. CASE Show(s, Last(log[thread]))
        <2>1. /\ handler' \in [Sessions -> Steps] /\ handler'[s] = "idle" /\ NoneLeaves
              /\ \A t \in Sessions \ {s} : handler'[t] = handler[t]
            BY <1>1, StepOf DEF Steps
        <2>2. Shapes'
            <3>1. DOMAIN shown' = DOMAIN shown
                BY <1>3 DEF Show
            <3>2. QED
                BY <1>1, <2>1, <3>1 DEF Shapes, Steps
        <2>3. ASSUME NEW u \in Sessions, Alone(u)'
              PROVE  /\ thread' \in {NoSession, u}
                     /\ handler'[u] \notin Asking
                     /\ shown'[u].from = u /\ shown'[u].n = sent'[u]
            <3>1. u = s
                BY <1>1, <2>1, <2>3 DEF Alone
            <3>2. Alone(s)
                BY <2>1, <2>3, <3>1, WasAlone
            <3>3. thread = s /\ Asked(s)
                BY <1>1, <3>2 DEF OwnThread
            <3>4. PICK i \in DOMAIN log[s] :
                      /\ log[s][i] = [from |-> s, n |-> sent[s], role |-> "user"]
                      /\ \A j \in DOMAIN log[s] :
                             j > i => log[s][j] = [from |-> s, n |-> sent[s], role |-> "assistant"]
                BY <3>3 DEF Asked
            <3>5. Len(log[s]) \in Nat /\ DOMAIN log[s] = 1 .. Len(log[s])
                BY <1>1 DEF Shapes
            <3>6. Len(log[s]) = i \/ (Len(log[s]) > i /\ Len(log[s]) \in DOMAIN log[s])
                BY <3>4, <3>5
            <3>7. log[s][Len(log[s])].from = s /\ log[s][Len(log[s])].n = sent[s]
                BY <3>4, <3>6
            <3>8. shown'[s] = log[s][Len(log[s])]
                BY <1>1, <1>3, <3>3 DEF Show, Last, Shapes
            <3>9. QED
                BY <1>1, <2>1, <3>1, <3>3, <3>7, <3>8 DEF Asking
        <2>4. QED
            BY <2>2, <2>3 DEF AloneIInv, OwnThread, AloneNeverStale, Asking
    <1>4. QED
        BY <1>1, <1>2, <1>3

LEMMA AloneNext == AloneIInv /\ [Next]_vars => AloneIInv'
    <1> SUFFICES ASSUME AloneIInv, [Next]_vars
                 PROVE  AloneIInv'
        OBVIOUS
    <1>1. ASSUME NEW s \in Sessions, Connect(s)
          PROVE  AloneIInv'
        BY <1>1, StepKeeps DEF Connect, globals, service, chat, Steps, StartSteps, Children, Asking
    <1>2. ASSUME NEW s \in Sessions, StartStep(s)
          PROVE  AloneIInv'
        <2>1. CASE CreateThread(s)
            BY <2>1, CreateThreadAlone
        <2>2. ASSUME NEW x \in StartSteps \union {"idle"}, GoTo(s, x),
                     UNCHANGED <<thread, log, chat>>
              PROVE  AloneIInv'
            <3>1. x \in Steps \ {"absent"} /\ x \notin Asking
                BY DEF Steps, StartSteps, Children, Asking
            <3>2. QED
                BY <2>2, <3>1, StepKeeps DEF chat
        <2>3. CASE \/ CreateSchedule(s) \/ CreateStudent(s) \/ CreateNotifications(s)
                   \/ CreateOrchestrator(s)
            BY <2>2, <2>3 DEF CreateSchedule, CreateStudent, CreateNotifications,
                              CreateOrchestrator, Create, StartSteps, Children
        <2>4. ASSUME NEW kind, CreateFails(s, kind)
              PROVE  AloneIInv'
            BY <2>2, <2>4 DEF CreateFails, globals
        <2>5. QED
            BY <1>2, <2>1, <2>3, <2>4 DEF StartStep
    <1>3. ASSUME NEW s \in Sessions, MainStep(s)
          PROVE  AloneIInv'
        <2>1. CASE CreateRun(s)
            <3>1. /\ handler[s] = "run" /\ UNCHANGED <<thread, log, sent, shown>>
                  /\ GoTo(s, "poll") \/ GoTo(s, "idle")
                BY <2>1 DEF CreateRun, At, globals, chat
            <3>2. QED
                BY <3>1, StepKeeps DEF Steps, MainSteps, Asking
        <2>2. CASE PollFails(s)
            BY <2>2, StepKeeps DEF PollFails, globals, service, chat, Steps, Asking
        <2>3. QED
            BY <1>3, <2>1, <2>2, CreateMessageAlone, ListMessagesAlone DEF MainStep
    <1>4. ASSUME NEW t \in Sessions, RunEnds(t)
          PROVE  AloneIInv'
        BY <1>4, RunEndsAlone
    <1>5. ASSUME UNCHANGED <<thread, log, sent, shown, handler>>
          PROVE  AloneIInv'
        BY <1>5, HandlerKeeps DEF AloneIInv, Shapes, NoneLeaves, Steps
    <1>6. CASE Stop \/ StopStep \/ UNCHANGED vars
        BY <1>5, <1>6 DEF Stop, StopStep, StopOrchestrator, StopList, StopChild, vars, globals,
                          service, chat
    <1>7. QED
        BY <1>1, <1>2, <1>3, <1>4, <1>6, SendAlone DEF Next, Down

(* For any number of sessions, messages, failing calls and abandoned polls, the  *)
(* chat of a session that is alone never shows an older message than its question. *)
THEOREM NeverStaleAlone == Spec => []AloneNeverStale
    <1>1. AloneIInv => AloneNeverStale
        BY DEF AloneIInv
    <1>2. QED
        BY <1>1, AloneInit, AloneNext, PTL DEF Spec
=============================================================================
