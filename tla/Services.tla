------------------------------ MODULE Services ------------------------------
(***************************************************************************)
(* Services that share no state, side by side: the agents' tuning, the     *)
(* accounts, the calls of a language model, one run of an agent, an audit  *)
(* after operators set the auditor's tuning and the tax rates, and the     *)
(* periodic tasks.  A behaviour is about one part; the others rest.        *)
(***************************************************************************)
EXTENDS Accounts, Tuning, Providers, Anomaly, Credit, Forecast, Sources, Steward, Advice, Jobs

CONSTANTS
    Requests     \* what the analytic agents may be asked

\* What the rows and settings of a request are, as far as figures rest on it.
ASSUME RequestsAssumption ==
    \A r \in Requests :
        /\ r.kind = "watchdog" => r.spent \in Seq(Nat) /\ r.budgets \subseteq Nat
        /\ r.kind = "credit" =>
            /\ r.given \in Seq(Nat \X Nat) /\ r.ledger \in Seq(Nat \X Nat)
            /\ \A f \in r.fits : f \in [1..Horizon -> Int]
        /\ r.kind = "audit" =>
            /\ r.asOf \in Int
            /\ r.totals \in [revenue : Nat, opex : Nat, largest : Nat, days : Nat, regime : STRING]
        /\ r.kind = "sources" => r.production \in BOOLEAN
        /\ r.kind = "rules" => r.distances \in Seq(Nat)

VARIABLES
    part         \* the part that a behaviour is about

vars == <<part, accountVars, tuningVars, providerVars, runVars, jobVars>>

Parts == {"accounts", "tuning", "providers", "agents", "classifier", "fits", "purge"}

Resting == [kind |-> "resting"]

\* An audit in a process: its refresh of the overlay has run, or failed, or was not due,
\* and the schedule of the rates may be out of reach.
AuditInForce ==
    \E p \in Processes, scheduled \in BOOLEAN :
        /\ view[p] # Nothing
        /\ Audit(EffectiveTuning(p, request.asOf, scheduled), scheduled)

Init ==
    /\ part \in Parts
    /\ AccountsInit /\ TuningInit /\ ProvidersInit
    /\ part # "providers" => keys = {"fireworks"} /\ pricing = PriceTable(NoPrices)
    /\ request \in IF part = "agents" THEN Requests ELSE {Resting}
    /\ report = NoReport /\ effects = {}
    /\ JobsInit
    /\ part # "fits" => debits = [c \in Customers |-> MinSamples]

Next ==
    \/ /\ part = "accounts" /\ AccountsNext
       /\ UNCHANGED <<part, tuningVars, providerVars, runVars, jobVars>>
    \/ /\ part = "tuning" /\ TuningNext
       /\ UNCHANGED <<part, accountVars, providerVars, runVars, jobVars>>
    \/ /\ part = "providers" /\ ProvidersNext
       /\ UNCHANGED <<part, accountVars, tuningVars, runVars, jobVars>>
    \/ /\ part = "agents"
       /\ \/ Watch \/ Strategise \/ ForecastCash \/ Integrate \/ Keep \/ AdviceStep
          \/ AuditInForce
       /\ UNCHANGED <<part, accountVars, tuningVars, providerVars, jobVars>>
    \/ /\ part = "agents" /\ request.kind = "audit" /\ report = NoReport
       /\ RatesNext \/ RefreshNext \/ StoreNext("auditor")
       /\ UNCHANGED <<part, accountVars, providerVars, runVars, jobVars>>
    \/ /\ part = "classifier" /\ BatchNext
       /\ UNCHANGED <<part, accountVars, tuningVars, providerVars, runVars, modelVars, threadVars>>
    \/ /\ part = "fits" /\ ModelNext
       /\ UNCHANGED <<part, accountVars, tuningVars, providerVars, runVars, batchVars, threadVars>>
    \/ /\ part = "purge" /\ ThreadNext
       /\ UNCHANGED <<part, accountVars, tuningVars, providerVars, runVars, batchVars, modelVars>>

Spec == Init /\ [][Next]_vars

-----------------------------------------------------------------------------
(* Properties *)

\* The settings of an audit are the tuning of one process and, over it, the schedule: no
\* row between the one used and the day asked about, none that takes effect later.  Only
\* an audit that could not read the schedule rests on the tuning alone; it says nothing
\* of that, and a rate that is in force on its day may be missing.
RatesArePeriodCorrect ==
    Reported("audit") =>
        \E p \in Processes :
            LET base == Merged(overlay[p]).auditor IN
            \A key \in DOMAIN base :
                LET past == {d \in Days : d <= request.asOf /\ <<key, d>> \in DOMAIN schedule} IN
                /\ ~report.scheduled \/ past = {} => report.rates[key] = base[key]
                /\ report.scheduled =>
                    \A d \in past :
                        (\A e \in past : e <= d) => report.rates[key] = schedule[<<key, d>>]

\* What a report says is what the data say: the budget's state is not an artefact of the
\* decoding, the documents agree, no model keeps a fact of the ledger out of the audit, an
\* audit that reads the schedule uses the rates of its day, no outside figure passes for
\* what it is not unless the operator labelled it, and what people read keeps its figures
\* and its warnings.
FiguresStand ==
    DecodedPathIsBest /\ AuditStandsOnFigures /\ DocumentsAgree
    /\ RatesArePeriodCorrect /\ SourcesAreHonest /\ AdviceIsGrounded

\* What an agent read or changed, it was allowed to, with the exceptions that the three
\* parts name: by its grants, by the registry and the mode of the conversation, by the
\* audit of its query, by the operator's authority.
AgentsAreLicensed == EffectsAreGranted /\ RowsOnlyIfVerified /\ MovementsAreLicensed
=============================================================================
