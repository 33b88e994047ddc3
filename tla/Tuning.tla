------------------------------- MODULE Tuning -------------------------------
(***************************************************************************)
(* Run-time tuning of the agents (domains/intelligence/tuning.py,          *)
(* db_tuning.py, routers/admin_tuning.py).  A section's values come from   *)
(* the environment, else from the process's overlay of the agent_config    *)
(* table, else from the code; every process refreshes its overlay on its   *)
(* own, at most once a minute, and caches the merged view.  Tax rates are  *)
(* rows with the day they take effect.  Ratios are in hundredths.          *)
(***************************************************************************)
EXTENDS TuningDefaults, Integers, Sequences, SequencesExt

CONSTANTS
    Sections,        \* the sections in play, among those of AgentTuning
    Payloads(_),     \* what an operator may store for a section
    Environment,     \* section -> payload, for those AGENT_TUNING_JSON sets
    Processes, Refreshers,
    RateKeys, Days, Rates,
    MaxWrites        \* bound on the rows written to the two tables

\* The types of AuditorTuning
AuditorFields ==
    [vat_rate : Int, vat_threshold_annual_kes : Int, cit_rate : Int, tot_rate : Int,
     aml_reporting_threshold_kes : Int]

ASSUME TuningAssumption ==
    /\ "auditor" \in Sections
    /\ \A payload \in Payloads("auditor") :
            payload.keys = "known" /\ payload.types = "right" => payload.values \in AuditorFields
    /\ "auditor" \in DOMAIN Environment => Environment.auditor \in AuditorFields
    /\ RateKeys \subseteq DOMAIN AgentTuning.auditor
    /\ Days \subseteq Int /\ IsFiniteSet(Days) /\ Rates \subseteq Nat

VARIABLES
    tables,      \* every state of agent_config so far, the current one last
    overlay,     \* per process: section -> payload, for those installed
    view,        \* per process: the cached merged tuning, or <<>> when cleared
    refresh,     \* per refresher: where it runs and what it has read
    fresh,       \* processes whose time to live has not run out
    raised,      \* processes in which a refresh raised into its agent
    schedule     \* tax_rate_schedule: (key, day) -> rate

tuningVars == <<tables, overlay, view, refresh, fresh, raised, schedule>>

Nothing == <<>>
Idle == [process |-> "none", read |-> Nothing]
Table == Last(tables)

-----------------------------------------------------------------------------
(* What a section may hold *)

Between(v, low, high) == low <= v /\ v <= high

ReconcilerSane(t) ==
    /\ t.txn_batch > 0 /\ t.inv_limit > 0 /\ t.pass2_candidate_cap > 0
    /\ \A ratio \in {t.fuzzy_threshold, t.semantic_threshold, t.fuzzy_match_boundary} :
            Between(ratio, 0, 100)
    /\ t.amount_tolerance_kes >= 0 /\ t.date_window_days >= 0

SumsToOne(weights) == FoldSeq(LAMBDA w, sum : w + sum, 0, weights) = 100

\* An emission is a mean and a deviation; transition is a matrix by rows.
WatchdogSane(t) ==
    LET n == Len(t.emission_params) IN
    /\ n = 3 /\ \A i \in 1..n : t.emission_params[i][2] > 0
    /\ Len(t.initial_pi) = n /\ SumsToOne(t.initial_pi)
    /\ Len(t.transition) = n
    /\ \A i \in 1..n : Len(t.transition[i]) = n /\ SumsToOne(t.transition[i])
    /\ Between(t.duplicate_threshold, 0, 100) /\ t.isolation_min_samples >= 1

AuditorSane(t) ==
    /\ \A rate \in {t.vat_rate, t.cit_rate, t.tot_rate} : Between(rate, 0, 100)
    /\ t.vat_threshold_annual_kes >= 0 /\ t.aml_reporting_threshold_kes >= 0

BankabilitySane(t) ==
    /\ t.tier_low_min > t.tier_medium_min
    /\ \A best \in {t.trend_max, t.ratio_max, t.consistency_max, t.solvency_max} : best >= 0
    /\ t.ratio_bands # <<>>
    /\ \A i \in 1..(Len(t.ratio_bands) - 1) : t.ratio_bands[i][1] < t.ratio_bands[i + 1][1]

ClassifierSane(t) == t.batch_size > 0 /\ t.drain_max_batches >= 1

ReceiptSane(t) == "other" \in t.categories /\ Between(t.ocr_min_confidence, 0, 100)

Sane(section, t) ==
    CASE section = "reconciler" -> ReconcilerSane(t)
      [] section = "watchdog" -> WatchdogSane(t)
      [] section = "auditor" -> AuditorSane(t)
      [] section = "bankability" -> BankabilitySane(t)
      [] section = "classifier" -> ClassifierSane(t)
      [] section = "receipt" -> ReceiptSane(t)

\* A stored payload names fields of the section, and each has the field's type.
Coerces(section, payload) == payload.keys = "known"

\* Comparing a value of another type raises, in the validation itself.
Comparable(payload) == payload.types = "right"

\* Mutant: a row that coerces is installed.
CoercedRow(section, payload) == Coerces(section, payload)

\* coerce_section and _validate_section: the sections that a refresh installs
Accepted(section, payload) ==
    Coerces(section, payload) /\ Comparable(payload) /\ Sane(section, payload.values)

\* validate_agent_tuning, on import: the environment's sections, where they coerce
BootsWith(environment) ==
    \A s \in DOMAIN environment : Sane(s, environment[s])

-----------------------------------------------------------------------------
(* The merged view *)

Installed(table) ==
    [s \in {x \in DOMAIN table : Accepted(x, table[x])} |-> table[s].values]

Merged(over) ==
    [s \in Sections |-> IF s \in DOMAIN Environment THEN Environment[s]
                        ELSE IF s \in DOMAIN over THEN over[s] ELSE AgentTuning[s]]

TuningInit ==
    /\ BootsWith(Environment)
    /\ tables = <<Nothing>>
    /\ overlay = [p \in Processes |-> Nothing] /\ view = [p \in Processes |-> Nothing]
    /\ refresh = [r \in Refreshers |-> Idle]
    /\ fresh = {} /\ raised = {} /\ schedule = Nothing

\* get_agent_tuning rebuilds the view only after the cache was cleared.
ReadTuning(p) ==
    /\ view[p] = Nothing
    /\ view' = [view EXCEPT ![p] = Merged(overlay[p])]
    /\ UNCHANGED <<tables, overlay, refresh, fresh, raised, schedule>>

\* refresh_agent_tuning_from_db: nothing within the time to live, unless forced; the
\* rows are read in a session of its own ...
RefreshRead(r, p, force) ==
    /\ refresh[r] = Idle /\ (force \/ p \notin fresh)
    /\ refresh' = [refresh EXCEPT ![r] =
            [process |-> p, read |-> Table]]
    /\ UNCHANGED <<tables, overlay, view, fresh, raised, schedule>>

\* ... a failing read keeps the overlay ...
RefreshFails(r) ==
    /\ refresh[r] # Idle
    /\ refresh' = [refresh EXCEPT ![r] = Idle]
    /\ UNCHANGED <<tables, overlay, view, fresh, raised, schedule>>

\* set_db_overlay replaces the overlay and clears the cache.
SetOverlay(p, sections) ==
    /\ overlay' = [overlay EXCEPT ![p] = sections]
    /\ view' = [view EXCEPT ![p] = Nothing]

\* ... and the rows that are valid become the overlay.  A value that cannot be
\* compared raises out of the refresh.
RefreshInstall(r) ==
    LET p == refresh[r].process
        rows == refresh[r].read
        incomparable == {s \in DOMAIN rows : Coerces(s, rows[s]) /\ ~Comparable(rows[s])}
    IN /\ refresh[r] # Idle
       /\ refresh' = [refresh EXCEPT ![r] = Idle]
       /\ IF incomparable # {}
          THEN raised' = raised \cup {p} /\ UNCHANGED <<overlay, view, fresh>>
          ELSE /\ SetOverlay(p, Installed(rows))
               /\ fresh' = fresh \cup {p} /\ UNCHANGED raised
       /\ UNCHANGED <<tables, schedule>>

TimeToLiveEnds(p) ==
    /\ p \in fresh /\ fresh' = fresh \ {p}
    /\ UNCHANGED <<tables, overlay, view, refresh, raised, schedule>>

Store(table, section, payload) ==
    [s \in DOMAIN table \cup {section} |-> IF s = section THEN payload ELSE table[s]]

\* update_agent_tuning: an unknown section is 404, an invalid payload 422; the row is
\* committed and the process that served the request refreshes at once.
UpdateTuning(r, p, section, payload) ==
    /\ Len(tables) <= MaxWrites /\ refresh[r] = Idle
    /\ Accepted(section, payload)
    /\ tables' = Append(tables, Store(Table, section, payload))
    /\ refresh' = [refresh EXCEPT ![r] =
            [process |-> p, read |-> Last(tables')]]
    /\ UNCHANGED <<overlay, view, fresh, raised, schedule>>

\* A row that an operator writes to the table itself is checked by nobody.
WriteRow(section, payload) ==
    /\ Len(tables) <= MaxWrites
    /\ tables' = Append(tables, Store(Table, section, payload))
    /\ UNCHANGED <<overlay, view, refresh, fresh, raised, schedule>>

-----------------------------------------------------------------------------
(* Tax rates *)

\* set_tax_rate inserts or replaces the row of its key and day.
SetTaxRate(key, day, rate) ==
    /\ Cardinality(DOMAIN schedule) < MaxWrites \/ <<key, day>> \in DOMAIN schedule
    /\ schedule' = Store(schedule, <<key, day>>, rate)
    /\ UNCHANGED <<tables, overlay, view, refresh, fresh, raised>>

\* Mutant: the row that takes effect last.
LastRate(rows, key, asOf, base) ==
    LET days == {d \in Days : <<key, d>> \in DOMAIN rows}
    IN IF days = {} THEN base ELSE rows[<<key, Max(days)>>]

\* Of the rows in effect on a day, the latest; none leaves the tuned rate.
EffectiveRate(rows, key, asOf, base) ==
    LET days == {d \in Days : d <= asOf /\ <<key, d>> \in DOMAIN rows}
    IN IF days = {} THEN base ELSE rows[<<key, Max(days)>>]

\* get_effective_auditor_tuning: the auditor's section as the process has it, with the
\* rates of a day; as it is when the schedule cannot be read.  The section is read before
\* the schedule, and nothing else reads both.
EffectiveTuning(p, asOf, scheduled) ==
    LET base == view[p].auditor IN
    IF scheduled THEN [key \in DOMAIN base |-> EffectiveRate(schedule, key, asOf, base[key])]
    ELSE base

RefreshNext ==
    \/ \E p \in Processes : ReadTuning(p) \/ TimeToLiveEnds(p)
    \/ \E r \in Refreshers : RefreshFails(r) \/ RefreshInstall(r)
    \/ \E r \in Refreshers, p \in Processes, force \in BOOLEAN : RefreshRead(r, p, force)

StoreNext(s) ==
    \E payload \in Payloads(s) :
        \/ WriteRow(s, payload)
        \/ \E r \in Refreshers, p \in Processes : UpdateTuning(r, p, s, payload)

TuningNext == RefreshNext \/ \E s \in Sections : StoreNext(s)

RatesNext ==
    \E key \in RateKeys, day \in Days, rate \in Rates : SetTaxRate(key, day, rate)

-----------------------------------------------------------------------------
(* Properties *)

\* An agent never runs on a mixture: what it reads is the environment over the valid
\* rows of one state that the table has had, and no row that fails validation.
InForceIsOneTable ==
    \A p \in Processes :
        /\ view[p] # Nothing => view[p] = Merged(overlay[p])
        /\ \A s \in DOMAIN overlay[p] : Sane(s, overlay[p][s])
        /\ \E t \in ToSet(tables) :
            /\ \A s \in DOMAIN overlay[p] : s \in DOMAIN t /\ overlay[p][s] = t[s].values
            /\ \A s \in DOMAIN t \ DOMAIN overlay[p] : ~(Coerces(s, t[s]) /\ Sane(s, t[s].values))
=============================================================================
