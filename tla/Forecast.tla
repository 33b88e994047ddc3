------------------------------ MODULE Forecast ------------------------------
(***************************************************************************)
(* Agent D (services/forecast_service.py, agents/d_forecaster.py,          *)
(* tools/sql_executor.py): a cash-flow forecast with the open invoices     *)
(* laid over it, and, when asked, a question answered by a query that one  *)
(* model drafts, another audits, and a parser must find harmless.          *)
(***************************************************************************)
EXTENDS AgentRuns

CONSTANTS
    Drafts,          \* queries that a model may draft, see below
    Confidences,     \* of an audit, in hundredths
    MaxRows          \* _MAX_ROWS

\* A query: its first word, its statements, whether any node of it writes, the names in
\* table position, the names that it gives its common table expressions, the tables it
\* reads in the end, and its limit: the rows it allows and the first literal in it.  A
\* name that is not a table expression's is a table; one that is may stand for either.
ASSUME DraftsAssumption ==
    \A q \in Drafts : q.reads \subseteq q.tables /\ q.tables \ q.ctes \subseteq q.reads

SumUpTo(flows, d) == FoldSeq(LAMBDA x, sum : x + sum, 0, SubSeq(flows, 1, d))

-----------------------------------------------------------------------------
(* The forecast *)

\* _fit_holtwinters: under three days the last one goes on; else the fit, or a straight
\* line when the fit fails.  No day at all is a forecast of nothing.
RawForecasts(flows, horizon, fits) ==
    LET n == Len(flows)
        flat == [d \in 1..horizon |-> IF n = 0 THEN 0 ELSE Last(flows)]
        line == [d \in 1..horizon |-> Last(flows) + ((Last(flows) - Head(flows)) * d) \div n]
    IN IF n < 3 THEN {flat} ELSE fits \cup {line}

\* The amount due on each of the next days is taken off as a payment; today's is not.
Projected(balance, flows, due) ==
    LET paid(d) == FoldSeq(LAMBDA x, sum : x + sum, 0, [i \in 1..d |-> due[i]])
    IN [d \in DOMAIN flows |-> balance + SumUpTo(flows, d) - paid(d)]

\* _estimate_runway: the first day the balance is gone, else at the mean of the flows;
\* "beyond" is the answer ">30 Days".
EstimateRunway(balance, flows) ==
    LET n == Len(flows)
        dry == {d \in 1..n : balance + SumUpTo(flows, d) <= 0}
        total == SumUpTo(flows, n)
    IN IF dry # {} THEN [days |-> Min(dry), beyond |-> FALSE]
       ELSE IF total >= 0 THEN [days |-> n, beyond |-> TRUE]
       ELSE [days |-> n + ((balance + total) * n) \div (-total), beyond |-> FALSE]

-----------------------------------------------------------------------------
(* The question *)

\* _assert_allowed_tables looks at names: one that the query gives to a table expression
\* is passed over wherever it stands.
AllowedTables(query, allowed) == query.tables \ query.ctes \subseteq allowed

\* _ast_validate and _validate, which the keywords pre-filter
Validates(query, allowed) ==
    /\ query.statements = 1 /\ query.root = "select" /\ ~query.writes
    /\ AllowedTables(query, allowed)

\* _enforce_limit reads the first literal of the limit.
EnforceLimit(query) ==
    IF query.limit.literal <= MaxRows THEN query.limit.rows ELSE MaxRows

\* execute_readonly_sql on a database that answers
ExecuteReadonly(query, agent, rowsFound) ==
    IF Validates(query, Granted(agent, "sql"))
    THEN {Min({rowsFound, EnforceLimit(query)})} ELSE {}

\* Mutant: an audit that finds the intent preserved is enough.
ApprovedByIntent(draft, verify, audit) ==
    (verify => audit.intent) /\ draft.first \in {"select", "with"}

\* The audit, unless it is switched off, and then the gate that no audit opens.
Approved(draft, verify, audit) ==
    /\ verify => audit.intent /\ audit.confidence >= 70
    /\ draft.first \in {"select", "with"}

NoSql == [asked |-> FALSE]

\* _cove_text_to_sql: what the answer may be; an execution that fails leaves no rows and
\* an audit that passed, a model that is silent leaves no answer at all.
CoVe(verify) ==
    {NoSql} \cup
    {[asked |-> TRUE, draft |-> d, audit |-> a, passed |-> Approved(d, verify, a),
      rows |-> IF Approved(d, verify, a) /\ up THEN ExecuteReadonly(d, "D", found) ELSE {}] :
        d \in Drafts, a \in [intent : BOOLEAN, confidence : Confidences],
        up \in BOOLEAN, found \in {1, MaxRows + 1}}

\* d_forecaster_node and compute_forecast: the inputs under one session, then the fit,
\* the overlay, the regime (a failure is "Normal", half certain) and the question.
ForecastCash ==
    /\ request.kind = "forecast"
    /\ \E raw \in RawForecasts(request.flows, request.horizon, request.fits),
          regime \in ModelAnswers,
          sql \in IF request.question THEN CoVe(request.verify) ELSE {NoSql} :
        Report([kind |-> "forecast", flows |-> raw,
                points |-> Projected(request.balance, raw, request.due),
                runway |-> EstimateRunway(request.balance, raw),
                regime |-> IF regime = "answer" THEN "detected" ELSE "Normal",
                sql |-> sql], {})

-----------------------------------------------------------------------------
(* Properties *)

\* Rows reach the user only from one statement that only reads, and that the audit, where
\* it is on, found faithful with enough confidence.  A table that it reads is granted to
\* the agent, except one that a table expression of the same query is named after.
RowsOnlyIfVerified ==
    Reported("forecast") /\ report.sql.asked /\ report.sql.rows # {} =>
        LET sql == report.sql IN
        /\ sql.draft.statements = 1 /\ ~sql.draft.writes
        /\ \A table \in sql.draft.reads :
                table \in TOOL_GRANTS.D.sql \/ table \in sql.draft.ctes
        /\ request.verify => sql.audit.intent /\ sql.audit.confidence >= 70
        /\ sql.passed
=============================================================================
