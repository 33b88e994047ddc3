------------------------------ MODULE Anomaly ------------------------------
(***************************************************************************)
(* Agent E's analysis (services/anomaly_service.py, agents/e_watchdog.py): *)
(* daily spending against a budget, decoded by a hidden Markov model, an   *)
(* outlier score, a search for duplicates; then, in actions mode, a        *)
(* credential, an event and a background fit.  Ratios and probabilities    *)
(* are in hundredths, logarithms in tenths.                                *)
(***************************************************************************)
EXTENDS AgentRuns

CONSTANTS
    Hmm,          \* the watchdog section of the tuning in force
    Log(_),       \* natural logarithm, and a very low value at 0
    Period        \* days looked back

HiddenStates == 1..3      \* HEALTHY, STABLE, CRITICAL

\* What validation leaves of the section: whole numbers here, and a deviation above 0.
ASSUME HmmAssumption ==
    /\ Period \in Nat
    /\ \A s \in HiddenStates :
        /\ Hmm.emission_params[s][1] \in Int /\ Hmm.emission_params[s][2] \in Nat \ {0}
        /\ Log(Hmm.emission_params[s][2]) \in Int /\ Log(Hmm.initial_pi[s]) \in Int
        /\ \A r \in HiddenStates : Log(Hmm.transition[r][s]) \in Int

\* _gaussian_log_prob, up to a constant
LogDensity(s, x) ==
    LET mean == Hmm.emission_params[s][1]
        sd == Hmm.emission_params[s][2]
    IN - ((10 * (x - mean) * (x - mean)) \div (2 * sd * sd)) - Log(sd)

\* np.argmax: the first of the best
FirstBest(f) == Min({s \in DOMAIN f : \A r \in DOMAIN f : f[r] <= f[s]})

\* Row t of the table: the best log-probability of a path that ends in each state.
Best(obs) ==
    LET row[t \in 1..Len(obs)] ==
            IF t = 1
            THEN [s \in HiddenStates |-> Log(Hmm.initial_pi[s]) + LogDensity(s, obs[1])]
            ELSE LET before == row[t - 1] IN
                 [s \in HiddenStates |-> LogDensity(s, obs[t]) +
                    Max({before[r] + Log(Hmm.transition[r][s]) : r \in HiddenStates})]
    IN row

\* Mutant: every day its own best state, without looking back.
Greedy(obs) == [t \in DOMAIN obs |-> FirstBest(Best(obs)[t])]

\* _viterbi: the best end, followed back.
Viterbi(obs) ==
    LET best == Best(obs)
        back(t, s) == FirstBest([r \in HiddenStates |-> best[t - 1][r] + Log(Hmm.transition[r][s])])
        path[t \in DOMAIN obs] ==
            IF t = Len(obs) THEN FirstBest(best[t]) ELSE back(t + 1, path[t + 1])
    IN [t \in DOMAIN obs |-> path[t]]

\* _weighted_anomaly_score as a fraction: a day weighs a tenth more than the one before.
WeightedScore(path) ==
    LET n == Len(path)
        weight(i) == 11 ^ (i - 1) * 10 ^ (n - i)
        sum(f(_)) == FoldSeq(LAMBDA i, acc : acc + f(i), 0, [i \in 1..n |-> i])
    IN [num |-> sum(LAMBDA i : weight(i) * (path[i] - 1)), den |-> 2 * sum(weight)]

\* _fetch_spending_ratios: a day's debits over the daily share of some active budget;
\* 1 when there is none, and half a budget when there is no spending.
SpendingRatios(spent, budget) ==
    IF spent = <<>> THEN <<50>>
    ELSE [d \in DOMAIN spent |-> (100 * spent[d] * (IF budget = 0 THEN 1 ELSE Period))
                                 \div (IF budget = 0 THEN 1 ELSE budget)]

\* The verdict of the isolation forest: the customer's persisted model judges the
\* candidate, else the oldest recent debit; without a model the recent debits, newest
\* first, are fitted on the spot and the last of them is judged.
Isolation(r) ==
    LET oldest == IF r.amounts = <<>> THEN 0 ELSE Last(r.amounts)
        candidate == IF r.candidate = 0 THEN oldest ELSE r.candidate
    IN IF r.customer = "fitted"
       THEN [model |-> "persisted", scored |-> candidate, anomaly |-> candidate \in r.outliers]
       ELSE [model |-> "on_the_fly", scored |-> oldest,
             anomaly |-> Len(r.amounts) >= Hmm.isolation_min_samples /\ oldest \in r.outliers]

\* Up to the duplicates: what the analysis holds before its first await.
Analysis(r, budget) ==
    LET ratios == SpendingRatios(r.spent, budget)
        path == Viterbi(ratios)
    IN [kind |-> "watchdog", ratios |-> ratios, path |-> path, state |-> Last(path),
        critical |-> Last(path) = 3, score |-> WeightedScore(path), isolation |-> Isolation(r),
        duplicate |-> \E likeness \in r.likenesses : likeness >= Hmm.duplicate_threshold]

Anomalous(a) == a.critical \/ a.isolation.anomaly

\* Mutant: an anomaly is published whatever the mode.
PublishesAlways(a, mode) == Anomalous(a)

\* An anomaly is published in actions mode only.
Publishes(a, mode) == Anomalous(a) /\ mode = "actions"

\* A known customer without a model is fitted in the background.
FitsLater(r, a) ==
    r.customer = "new" /\ r.mode = "actions" /\ "direct_write" \in mutation_kinds("E")

\* run_watchdog_analysis: a failing credential, a failing publication, a broker that
\* refuses the fit and a silent model change nothing but what is reported of them.
Watch ==
    /\ request.kind = "watchdog"
    /\ \E budget \in IF request.budgets = {} THEN {0} ELSE request.budgets,
          credential, taskCredential, broker \in BOOLEAN, model \in ModelAnswers :
        LET a == Analysis(request, budget)
            published == /\ Publishes(a, request.mode) /\ taskCredential /\ broker
                         /\ "finguard.intelligence" \in Granted("E", "events")
            fits == FitsLater(request, a) /\ broker
        IN Report([kind |-> "watchdog", analysis |-> a,
                   vc |-> request.mode = "actions" /\ credential,
                   published |-> published,
                   narrative |-> IF model = "answer" THEN "model" ELSE "template"],
                  (IF published THEN {Effect("E", "event")} ELSE {})
                  \cup (IF fits THEN {Effect("E", "direct_write")} ELSE {}))

-----------------------------------------------------------------------------
(* Properties *)

\* The reference: the log-probability of a path with what was observed.
PathLog(path, obs) ==
    LET upTo[t \in 1..Len(obs)] ==
            LogDensity(path[t], obs[t]) +
            IF t = 1 THEN Log(Hmm.initial_pi[path[1]])
            ELSE upTo[t - 1] + Log(Hmm.transition[path[t - 1]][path[t]])
    IN upTo[Len(obs)]

\* The states reported are as likely as any sequence of states: the budget state that
\* raises the alarm is not an artefact of the decoding.
DecodedPathIsBest ==
    Reported("watchdog") =>
        LET a == report.analysis IN
        \A path \in [DOMAIN a.ratios -> HiddenStates] :
            PathLog(path, a.ratios) <= PathLog(a.path, a.ratios)
=============================================================================
