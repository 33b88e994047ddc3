------------------------------ MODULE Registry ------------------------------
(***************************************************************************)
(* The agents, what each consumes and may do, and the plans built from     *)
(* that (domains/intelligence/agent_registry.py): data and pure functions, *)
(* the single source the supervisor, the planner and the tools share.      *)
(***************************************************************************)
EXTENDS Integers, FiniteSets, Sequences, SequencesExt, FiniteSetsExt

\* AgentDescriptor: priority in the hub, hard and soft inputs (Dependency), the other
\* context keys an agent writes, whether it never writes, what it may change.
Descriptor(priority, required, optional, aux, readOnly, mutations) ==
    [priority |-> priority, required |-> required, optional |-> optional,
     aux |-> aux, readOnly |-> readOnly, mutations |-> mutations]

\* Inputs are named by the agent that produces them, aux keys are abbreviated.
AGENT_REGISTRY ==
    [J |-> Descriptor(10, {}, {}, {"bullets"}, FALSE, {}),
     H |-> Descriptor(9, {}, {"D", "F"}, {"crm_profile"}, FALSE, {}),
     G |-> Descriptor(8, {"D"}, {"F"}, {"credit_forecast", "pdf", "xlsx"}, FALSE, {}),
     F |-> Descriptor(7, {}, {}, {}, TRUE, {}),
     D |-> Descriptor(6, {}, {}, {"sql_result"}, TRUE, {}),
     E |-> Descriptor(5, {}, {}, {"budget_watchdog_result"}, FALSE, {"event", "direct_write"}),
     C |-> Descriptor(4, {}, {}, {}, FALSE, {"direct_write", "proposal"}),
     I |-> Descriptor(3, {}, {}, {}, FALSE, {}),
     A |-> Descriptor(2, {}, {}, {}, FALSE, {}),
     B |-> Descriptor(1, {}, {}, {}, FALSE, {"direct_write"}),
     K |-> Descriptor(0, {}, {"D"}, {}, FALSE, {"proposal"})]

Agents == DOMAIN AGENT_REGISTRY

mutation_kinds(a) == IF a \in Agents THEN AGENT_REGISTRY[a].mutations ELSE {}

\* An output is named by the agent whose context key it is.
write_keys(a) == {a} \cup AGENT_REGISTRY[a].aux

\* TOOL_GRANTS: nothing unless granted
TOOL_GRANTS ==
    [D |-> [sql |-> {"ledger_entries", "invoices", "budgets", "expenses"}, http |-> {}, events |-> {}],
     K |-> [sql |-> {"products", "stock_levels", "stock_movements"}, http |-> {}, events |-> {}],
     E |-> [sql |-> {"ledger_entries", "invoices"}, http |-> {}, events |-> {"finguard.intelligence"}],
     I |-> [sql |-> {}, http |-> {"fx", "safaricom", "metropol", "kra"}, events |-> {}]]

Granted(a, tool) == IF a \in DOMAIN TOOL_GRANTS THEN TOOL_GRANTS[a][tool] ELSE {}

\* heuristic_route: the agent whose keywords strictly win, or none; score is how many
\* keywords of each agent the text contains.
heuristic_route(score) ==
    LET winners == {a \in DOMAIN score : score[a] > 0
                        /\ \A b \in DOMAIN score \ {a} : score[b] < score[a]}
    IN IF winners = {} THEN "none" ELSE CHOOSE a \in winners : TRUE

\* Of the winner, only if it never writes.
read_only_route(keyword) ==
    IF keyword \in Agents /\ AGENT_REGISTRY[keyword].readOnly THEN keyword ELSE "none"

\* resolve_artifacts: every output present, the highest priority first
resolve_artifacts(outputs) ==
    CHOOSE s \in [1..Cardinality(outputs) -> outputs] : \A i, j \in DOMAIN s :
        i < j => AGENT_REGISTRY[s[i]].priority > AGENT_REGISTRY[s[j]].priority

\* Mutant: the targets without what they need.
TargetsOnly(targets) == targets

\* The targets and all that they need, directly or not.
Needed(targets) ==
    LET reach[n \in 0..Cardinality(Agents)] ==
            IF n = 0 THEN targets
            ELSE UNION {{a} \cup AGENT_REGISTRY[a].required : a \in reach[n - 1]}
    IN reach[Cardinality(Agents)]

\* build_plan: Kahn's levels, an agent one after the last that it requires.
build_plan(targets) ==
    LET level[a \in Agents] == 1 + Max({0} \cup {level[b] : b \in AGENT_REGISTRY[a].required})
        needed == Needed(targets)
    IN [n \in 1..Max({0} \cup {level[a] : a \in needed}) |-> {a \in needed : level[a] = n}]
=============================================================================
