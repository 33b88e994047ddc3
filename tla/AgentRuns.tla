----------------------------- MODULE AgentRuns -----------------------------
(***************************************************************************)
(* One run of an analytic agent: a request with all that it will read, the *)
(* report that comes back, and what the run changed outside on the way.    *)
(* The modules that EXTEND this one add the agents.                        *)
(***************************************************************************)
EXTENDS Registry

VARIABLES
    request,     \* what is asked, and the rows and settings it will meet
    report,      \* what the agent answered, or NoReport
    effects      \* what it changed: agent, kind of mutation, mode of the conversation

runVars == <<request, report, effects>>

NoReport == [kind |-> "none"]
Modes == {"insights", "actions"}

\* A call of the model: its answer, both providers out of reach, or an answer that
\* does not fit the schema.
ModelAnswers == {"answer", "unavailable", "malformed"}

Effect(agent, kind) == [agent |-> agent, kind |-> kind, mode |-> request.mode]

\* An agent's run ends with its report; whatever fails on the way is in the report.
Report(r, changed) ==
    /\ report = NoReport
    /\ report' = r /\ effects' = changed
    /\ UNCHANGED request

Reported(kind) == report # NoReport /\ report.kind = kind

-----------------------------------------------------------------------------
(* Properties *)

\* An agent changes something only in a conversation that acts, and only what the registry
\* says it may.  The exception is the stock keeper, which does not look at the mode: it
\* queues a proposal, which the registry grants it, or books a routine movement, which the
\* registry does not know, in any conversation, but only for a movement that was asked
\* for, and books one only when the operator confirmed it.
EffectsAreGranted ==
    \A e \in effects :
        \/ e.mode = "actions" /\ e.kind \in mutation_kinds(e.agent)
        \/ /\ e.agent = "K" /\ request.action.type # "none"
           /\ \/ e.kind = "proposal" /\ "proposal" \in mutation_kinds("K")
              \/ e.kind = "stock_movement" /\ request.confirmed
=============================================================================
