---------------------------- MODULE Orchestration ----------------------------
(***************************************************************************)
(* The supervisor graph as a transition function on its own state          *)
(* (orchestrator.py, agents/supervisor.py, agents/planner.py,              *)
(* agents/hub_writer.py): supervisor -> agent(s) -> hub_writer -> planner  *)
(* or supervisor.  What the model decides is a parameter of each step.     *)
(***************************************************************************)
EXTENDS Integers, FiniteSets, Sequences, Registry

CONSTANTS
    PlannerEnabled,   \* A2A_PLANNER_ENABLED
    MaxReplans        \* A2A_MAX_REPLANS

ASSUME SettingsAssumption == PlannerEnabled \in BOOLEAN /\ MaxReplans \in Nat

MaxStalledRepeats == 2      \* _MAX_STALLED_REPEATS

\* The state of a new run: what it asks for, and the context the client sent.
Fresh(request) ==
    [at |-> "supervisor", next |-> "supervisor", intent |-> request.intent,
     requested |-> request.requested, replan |-> request.replan,
     batch |-> {},      \* agents of the current superstep that have not finished
     spoke |-> {},      \* agents with a message
     outputs |-> {},    \* agents whose key is in the context
     covered |-> {},    \* what the executive summary was distilled from
     history |-> <<>>, origin |-> "none",
     targets |-> {}, plan |-> <<>>, stage |-> 0, used |-> 0,
     handoffs |-> <<>>, fast |-> FALSE, rerouted |-> FALSE]

\* try_fast_path: a clear intent of an agent that never writes skips the supervisor.
FastPath(g, keyword) == g.requested = "none" /\ read_only_route(keyword) # "none"

Fast(g, keyword) == [g EXCEPT !.at = "agents", !.batch = {read_only_route(keyword)}, !.fast = TRUE]

-----------------------------------------------------------------------------
(* supervisor_node *)

IsInitialCall(g) == g.spoke = {}

\* _progress_signature
Progress(g) == <<g.spoke, g.outputs>>

\* The same route twice in a row with nothing new since.
Stalled(g, node) ==
    /\ Len(g.history) >= MaxStalledRepeats
    /\ \A i \in Len(g.history) - MaxStalledRepeats + 1 .. Len(g.history) :
            g.history[i] = <<node, Progress(g)>>

\* _route, and the conditional edge it decides
Route(g, node) ==
    IF node = "FINISH" \/ Stalled(g, node)
    THEN [g EXCEPT !.at = "end", !.next = "FINISH"]
    ELSE [g EXCEPT !.at = IF node = "planner" THEN "planner" ELSE "agents",
                   !.next = node, !.origin = node,
                   !.batch = IF node = "planner" THEN {} ELSE {node},
                   !.history = Append(@, <<node, Progress(g)>>)]

\* The decisions taken without the model: "none" when it is asked.
Shortcut(g, cached, keyword) ==
    IF IsInitialCall(g)
    THEN IF g.requested # "none" THEN g.requested
         ELSE IF cached # "none" THEN cached ELSE keyword
    ELSE IF g.origin \in g.spoke THEN "FINISH" ELSE "none"

\* The model names an agent, FINISH (also: anything it may not name, or an error), or
\* several targets for the planner.
Decided(g, next, targets) ==
    LET asked == [g EXCEPT !.rerouted = ~IsInitialCall(g)] IN
    IF PlannerEnabled /\ next # "FINISH" /\ Cardinality(targets) >= 2
    THEN Route([asked EXCEPT !.targets = targets], "planner")
    ELSE Route(asked, next)

\* Only a first decision for one agent is remembered.
Memorable(g, g2) == IsInitialCall(g) /\ g2.at = "agents"

-----------------------------------------------------------------------------
(* planner_node *)

\* Mutant: the summary takes part in the dependency order.
SummaryInOrder(targets) == build_plan(targets \cup {"J"})

build_full_plan(targets) == Append(build_plan(targets \ {"J"}), {"J"})

\* resolve_stage: not what is produced already, nor what lacks an input
resolve_stage(stage, outputs) ==
    {a \in stage \ outputs : AGENT_REGISTRY[a].required \subseteq outputs}

\* _advance_to_next_runnable: the first stage with something to run, or the end.
Advance(plan, stage, outputs) ==
    LET runnable == {n \in stage..Len(plan) : resolve_stage(plan[n], outputs) # {}}
    IN IF runnable = {} THEN Len(plan) + 1 ELSE CHOOSE n \in runnable : \A m \in runnable : n <= m

\* Mutant: a stage is passed over.
SkipsAStage(g) == g.stage + 2

NextStage(g) == g.stage + 1

\* The plan of this visit: the first one, a rebuilt one when the old is drained and
\* somebody asked for more, else the old one.
Planned(g) ==
    LET merged == g.targets \cup g.replan IN
    IF g.plan = <<>>
    THEN [g EXCEPT !.plan = build_full_plan(g.targets), !.stage = 1]
    ELSE IF NextStage(g) > Len(g.plan) /\ g.replan # {} /\ g.used < MaxReplans
    THEN [g EXCEPT !.plan = build_full_plan(merged), !.stage = 1, !.targets = merged,
                   !.used = @ + 1, !.replan = {}]
    ELSE [g EXCEPT !.stage = NextStage(g)]

\* planner_dispatch: one Send per agent of the stage, or the end.
Dispatched(g) ==
    LET stage == Advance(g.plan, g.stage, g.outputs) IN
    IF stage > Len(g.plan) THEN [g EXCEPT !.stage = stage, !.at = "end"]
    ELSE [g EXCEPT !.stage = stage, !.at = "agents",
                   !.batch = resolve_stage(g.plan[stage], g.outputs)]

-----------------------------------------------------------------------------
(* The agents and hub_writer_node *)

\* An agent always leaves a message; an extraction that failed leaves no output.  The
\* superstep ends, and the hub writer runs once, when the whole batch has finished.
AgentDone(g, a, produced) ==
    [g EXCEPT !.spoke = @ \cup {a}, !.batch = @ \ {a},
              !.outputs = IF produced THEN @ \cup {a} ELSE @,
              !.covered = IF a = "J" THEN g.outputs \ {"J"} ELSE @,
              !.at = IF g.batch = {a} THEN "hub" ELSE @]

\* Mutant: the edge always leads back to the supervisor.
BackToSupervisor(g) == "supervisor"

\* after_hub_writer; the graph of the fast path ends here.
AfterHub(g) ==
    IF g.fast THEN "end" ELSE IF g.plan # <<>> THEN "planner" ELSE "supervisor"

\* Mutant: a handoff for whatever is there.
AllOutputs(g) == g.outputs

\* _handed_off: outputs whose handoff is still to be emitted
NewHandoffs(g) == g.outputs \ {g.handoffs[i] : i \in DOMAIN g.handoffs}

\* _insight_step: one handoff per output, the highest priority first.  (That the database
\* took the artifact is only logged.)
HubStep(g) ==
    [g EXCEPT !.handoffs = @ \o resolve_artifacts(NewHandoffs(g)),
              !.at = AfterHub(g)]
=============================================================================
