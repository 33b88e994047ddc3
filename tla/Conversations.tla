---------------------------- MODULE Conversations ----------------------------
(***************************************************************************)
(* One conversation of one user (intelligence/routers/conversations.py):   *)
(* the request dispatches the supervisor graph as a background task of     *)
(* the process, the client polls a status in Redis and may resume a failed *)
(* run from its last checkpoint.  Agents fail, processes are killed.       *)
(***************************************************************************)
EXTENDS Orchestration

CONSTANTS
    Tasks,           \* background tasks and resume requests, at most so many at a time
    Fleet,           \* the agents the model chooses from
    TargetChoices,   \* the target sets it may name
    MayFindNothing,  \* agents that may finish without an output
    Requests,        \* what clients ask: intent, requested agent, replan targets
    Keyword,         \* heuristic_route of each intent
    Checkpointing,   \* LANGGRAPH_CHECKPOINTING_ENABLED
    RecursionLimit,  \* supersteps of one run
    RouteCacheMax,
    MaxFailures, MaxKills   \* bounds of the model

\* What an agent requires, its producer never leaves out (d_forecaster_node always
\* returns a forecast).
ASSUME FleetAssumption ==
    /\ Fleet \subseteq Agents /\ TargetChoices \subseteq SUBSET Agents
    /\ \A request \in Requests : request.replan \subseteq Agents
    /\ \A a \in Agents : AGENT_REGISTRY[a].required \cap MayFindNothing = {}

VARIABLES
    task_status, \* task_status:<session> in Redis
    thread,     \* the thread's last checkpoint with its pending writes
    task,       \* per task: what it does, its graph state, supersteps, last label shown
    cache,      \* _INITIAL_ROUTE_CACHE of the process, oldest first
    answer,     \* the final state the status was completed with
    worked,     \* per agent: executions that finished
    asked,      \* the conversation was begun
    stale,      \* a resume acted on a status that had changed since it was read
    failures, kills

conversationVars ==
    <<task_status, thread, task, cache, answer, worked, asked, stale, failures, kills>>

NoGraph == [at |-> "none"]
Idle == [phase |-> "idle", g |-> NoGraph, steps |-> 0, shown |-> ""]

ConversationInit ==
    /\ task_status = "none" /\ thread = NoGraph /\ answer = NoGraph
    /\ task = [t \in Tasks |-> Idle]
    /\ cache \in {<<>>} \cup {<< <<i, "G">> >> : i \in {j \in DOMAIN Keyword : Keyword[j] = "none"}}
    /\ worked = [a \in Fleet |-> 0]
    /\ asked = FALSE /\ stale = FALSE /\ failures = 0 /\ kills = 0

CacheGet(intent) ==
    LET hits == {i \in DOMAIN cache : cache[i][1] = intent}
    IN IF hits = {} THEN "none" ELSE cache[CHOOSE i \in hits : TRUE][2]

\* The newest last; the oldest leaves when there are too many.
CachePut(intent, node) ==
    LET others == SelectSeq(cache, LAMBDA entry : entry[1] # intent)
        all == Append(others, <<intent, node>>)
    IN IF Len(all) > RouteCacheMax THEN Tail(all) ELSE all

\* Tasks have no identity: a request takes whichever is idle.
FirstIdle(t) == task[t] = Idle /\ t = CHOOSE u \in Tasks : task[u] = Idle

\* refresh: the session is new; pending before the task is queued.
Dispatch(t, request) ==
    /\ FirstIdle(t) /\ ~asked /\ asked' = TRUE
    /\ task_status' = "pending"
    /\ task' = [task EXCEPT ![t] = [Idle EXCEPT !.phase = "queued", !.g = Fresh(request)]]
    /\ UNCHANGED <<thread, cache, answer, worked, stale, failures, kills>>

\* Mutant: any known session may be resumed.
AnyStatus(found) == found # "none"

\* conversation_resume: failed and, checkpoints being on, resumable
Resumable(found) == found = "failed" /\ Checkpointing

\* The status is read ...
ResumeRead(t) ==
    /\ FirstIdle(t) /\ Resumable(task_status)
    /\ task' = [task EXCEPT ![t].phase = "resuming", ![t].shown = task_status]
    /\ UNCHANGED <<task_status, thread, cache, answer, worked, asked, stale, failures, kills>>

\* ... and pending written, whatever it is by now; the task gets no state of its own.
ResumeWrite(t) ==
    /\ task[t].phase = "resuming"
    /\ task_status' = "pending"
    /\ task' = [task EXCEPT ![t].phase = "queued"]
    /\ stale' = (stale \/ task_status # task[t].shown)
    /\ UNCHANGED <<thread, cache, answer, worked, asked, failures, kills>>

-----------------------------------------------------------------------------
(* _graph_background_task *)

Save(g) == thread' = IF Checkpointing THEN g ELSE thread

\* The label changes with the supervisor's choice; the fast path does not stream.
Show(t, g) ==
    /\ task' = [task EXCEPT ![t].g = g, ![t].steps = @ + 1,
                            ![t].shown = IF g.fast THEN @ ELSE g.next]
    /\ task_status' = IF g.fast \/ g.next = task[t].shown THEN task_status ELSE "running"

\* Mutant: a resumed run starts over.
StartsOver(t) == IF thread = NoGraph THEN NoGraph ELSE Fresh([intent |-> thread.intent,
    requested |-> thread.requested, replan |-> thread.replan])

\* A resumed run continues from the checkpoint, in the full graph.
Loaded(t) == IF thread = NoGraph THEN NoGraph ELSE [thread EXCEPT !.fast = FALSE]

Begin(t) ==
    LET given == task[t].g
        g == IF given = NoGraph THEN Loaded(t)
             ELSE IF FastPath(given, Keyword[given.intent]) THEN Fast(given, Keyword[given.intent])
             ELSE given
    IN /\ task[t].phase = "queued" /\ g # NoGraph
       /\ task' = [task EXCEPT ![t] = [phase |-> "running", g |-> g, steps |-> 0,
                                       shown |-> IF g.fast THEN "" ELSE g.next]]
       /\ task_status' = IF g.fast THEN task_status ELSE "running"
       /\ Save(g)
       /\ UNCHANGED <<cache, answer, worked, asked, stale, failures, kills>>

At(t, node) ==
    task[t].phase = "running" /\ task[t].g.at = node /\ task[t].steps < RecursionLimit

\* A known route, or the model's decision; the keyword's route is cached as well.
Supervise(t, next, targets) ==
    LET g == task[t].g
        known == Shortcut(g, CacheGet(g.intent), Keyword[g.intent])
    IN /\ At(t, "supervisor")
       /\ known # "none" => next = "FINISH"     \* the model is not asked
       /\ \E g2 \in {IF known # "none" THEN Route(g, known) ELSE Decided(g, next, targets)} :
            /\ cache' = IF Memorable(g, g2) /\ g.requested = "none"
                        THEN CachePut(g.intent, g2.origin) ELSE cache
            /\ Show(t, g2) /\ Save(g2)
       /\ UNCHANGED <<answer, worked, asked, stale, failures, kills>>

Plan(t) ==
    /\ At(t, "planner")
    /\ \E g1 \in {Planned(task[t].g)} : \E g2 \in {Dispatched(g1)} : Show(t, g2) /\ Save(g2)
    /\ UNCHANGED <<cache, answer, worked, asked, stale, failures, kills>>

\* One agent of the batch finishes: what it wrote is saved though others still run.
Work(t, a, produced) ==
    /\ At(t, "agents") /\ a \in task[t].g.batch
    /\ produced \/ a \in MayFindNothing
    /\ worked' = [worked EXCEPT ![a] = @ + 1]
    /\ \E g2 \in {AgentDone(task[t].g, a, produced)} :
        /\ task' = [task EXCEPT ![t].g = g2, ![t].steps = IF g2.at = "hub" THEN @ + 1 ELSE @]
        /\ Save(g2)
    /\ UNCHANGED <<task_status, cache, answer, asked, stale, failures, kills>>

WriteHub(t) ==
    /\ At(t, "hub")
    /\ \E g2 \in {HubStep(task[t].g)} : Show(t, g2) /\ Save(g2)
    /\ UNCHANGED <<cache, answer, worked, asked, stale, failures, kills>>

\* Mutant: the error is only logged.
LeavesStatus(was) == was

FailedStatus(was) == "failed"

\* An agent raises (the others of its batch are cancelled), or the ceiling is reached.
Fail(t) ==
    /\ task[t].phase = "running"
    /\ \/ task[t].g.at = "agents" /\ failures < MaxFailures /\ failures' = failures + 1
       \/ task[t].steps >= RecursionLimit /\ task[t].g.at # "end" /\ failures' = failures
    /\ task_status' = FailedStatus(task_status)
    /\ task' = [task EXCEPT ![t] = Idle]
    /\ UNCHANGED <<thread, cache, answer, worked, asked, stale, kills>>

Complete(t) ==
    /\ task[t].phase = "running" /\ task[t].g.at = "end"
    /\ task_status' = "completed"
    /\ answer' = task[t].g
    /\ task' = [task EXCEPT ![t] = Idle]
    /\ UNCHANGED <<thread, cache, worked, asked, stale, failures, kills>>

-----------------------------------------------------------------------------
\* The process dies with its tasks; Redis and the checkpoints stay.
Kill ==
    /\ kills < MaxKills /\ \E t \in Tasks : task[t] # Idle
    /\ kills' = kills + 1
    /\ task' = [t \in Tasks |-> Idle]
    /\ cache' = <<>>
    /\ UNCHANGED <<task_status, thread, answer, worked, asked, stale, failures>>

\* _TASK_STATUS_TTL after the last write
Expire ==
    /\ task_status # "none" /\ \A t \in Tasks : task[t] = Idle
    /\ task_status' = "none"
    /\ UNCHANGED <<thread, task, cache, answer, worked, asked, stale, failures, kills>>

\* _run_checkpoint_retention_async: days later, the whole thread.
Retain ==
    /\ task_status = "none" /\ thread # NoGraph /\ \A t \in Tasks : task[t] = Idle
    /\ thread' = NoGraph
    /\ UNCHANGED <<task_status, task, cache, answer, worked, asked, stale, failures, kills>>

TaskStep(t) ==
    \/ ResumeWrite(t) \/ Begin(t) \/ Plan(t) \/ WriteHub(t) \/ Fail(t) \/ Complete(t)
    \/ \E next \in Fleet \cup {"FINISH"}, targets \in TargetChoices :
            Supervise(t, next, targets)
    \/ \E a \in Fleet, produced \in BOOLEAN : Work(t, a, produced)

ConversationNext ==
    \/ \E t \in Tasks, request \in Requests : Dispatch(t, request)
    \/ \E t \in Tasks : ResumeRead(t) \/ TaskStep(t)
    \/ Kill \/ Expire \/ Retain

ConversationFairness == \A t \in Tasks : WF_conversationVars(TaskStep(t))

ConversationSpec ==
    ConversationInit /\ [][ConversationNext]_conversationVars /\ ConversationFairness

-----------------------------------------------------------------------------
(* Properties *)

\* A completed conversation is whole: whatever failed and was resumed on the way, each
\* agent that the plan needs has run, and each output was handed off exactly once
\* (planner_node, _insight_step, _graph_background_task).
AnswerIsWhole ==
    answer # NoGraph =>
        /\ answer.plan # <<>> => Needed(answer.targets) \cup {"J"} \subseteq answer.spoke
        /\ {answer.handoffs[i] : i \in DOMAIN answer.handoffs} = answer.outputs
        /\ Len(answer.handoffs) = Cardinality(answer.outputs)

\* The executive summary of a planned conversation was distilled from every other
\* output, unless the plan was rebuilt (build_full_plan: "so the executive summary
\* always runs last, over every produced output").
SummaryCoversAll ==
    (answer # NoGraph /\ answer.plan # <<>> /\ answer.used = 0) =>
        answer.outputs \ {"J"} \subseteq answer.covered

\* A resumed run does not repeat an agent that had finished, unless the model was asked
\* for another route after it (the resumed fast path) or two resumes collided.
NoRework ==
    (thread # NoGraph /\ ~thread.rerouted /\ ~stale) =>
        \A a \in Fleet \ MayFindNothing : worked[a] <= 1

\* Once completed, always completed until it expires, unless a resume acted on the
\* status it had read before.
CompletedIsFinal ==
    [][task_status = "completed" => task_status' \in {"completed", "none"} \/ stale']_conversationVars

\* A client that polls gets an answer or an error, unless the process was killed.
EventuallyAnswered ==
    task_status = "pending" ~> task_status \in {"completed", "failed", "none"} \/ kills > 0
=============================================================================
