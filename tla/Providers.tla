----------------------------- MODULE Providers -----------------------------
(***************************************************************************)
(* A call of a language model (domains/intelligence/llm_client.py and      *)
(* llm/): a primary provider with retries, a backup for the time it is out *)
(* of reach, and one provider only for embeddings.                         *)
(***************************************************************************)
EXTENDS Integers, Sequences, SequencesExt

CONSTANTS
    MaxAttempts,       \* stop_after_attempt
    PricingEntries     \* what LLM_PRICING_JSON may hold

ASSUME ProvidersAssumption == MaxAttempts \in Nat \ {0}

VARIABLES
    keys,       \* providers whose API key is configured
    pricing,    \* model -> price of a token, as read once
    call,       \* the call in progress
    asked,      \* every attempt of it: provider, model asked for, outcome
    metered     \* model -> attempts metered, tokens read

providerVars == <<keys, pricing, call, asked, metered>>

Capabilities == {"structured", "text", "vision", "vision-text", "chat", "embed"}

\* ProviderSpec: the models a provider serves, and whether it embeds.
ProviderSpec(name) ==
    CASE name = "fireworks" -> [model |-> "gemma", serves |-> {"gemma", "gemma-large", "nomic"}, embeds |-> TRUE]
      [] name = "gemini" -> [model |-> "gemini", serves |-> {"gemini"}, embeds |-> FALSE]
      [] name = "featherless" -> [model |-> "gemma-community", serves |-> {"gemma-community"}, embeds |-> FALSE]

\* _build_client: Gemini comes first where it has a key.
Primary == IF "gemini" \in keys THEN "gemini" ELSE "fireworks"
Backup == IF "featherless" \in keys THEN "featherless" ELSE "none"
EmbeddingClient == "fireworks"

\* active_model_id, which agent cards quote
ActiveModel == IF "gemini" \in keys THEN "gemini" ELSE "gemma"

-----------------------------------------------------------------------------
(* One attempt *)

\* What an attempt comes to.  A rate limit, a server error, a lost connection; a
\* deployment that is scaling up; any other API error; the 30 seconds of wait_for; an
\* answer that does not fit the schema.
Outcomes == {"ok", "malformed", "transient", "scaling_up", "rejected", "timeout"}

\* is_scaling_up
ScalingUp(outcome) == outcome = "scaling_up"

\* is_retryable_error
Retryable(outcome) == outcome = "transient" /\ ~ScalingUp(outcome)

\* The model an attempt asks for: an override goes to whichever provider is asked.
ModelAsked(provider, c) ==
    IF c.capability = "embed" THEN "nomic"
    ELSE IF c.override # "none" THEN c.override ELSE ProviderSpec(provider).model

\* A provider answers for its own models; a schema is parsed for two capabilities only.
Possible(provider, c, outcome) ==
    /\ outcome = "ok" => ModelAsked(provider, c) \in ProviderSpec(provider).serves
    /\ outcome = "malformed" =>
        /\ c.capability \in {"structured", "vision"}
        /\ ModelAsked(provider, c) \in ProviderSpec(provider).serves

\* _guard: what an outcome is to the caller of the provider.  A schema that does not fit
\* is no unavailability and goes straight up.
Guarded(outcome) ==
    CASE outcome = "ok" -> "answer"
      [] outcome = "malformed" -> "invalid"
      [] OTHER -> "unavailable"

\* _retrying: four attempts at what is worth retrying.
Retries(c, outcome) == Retryable(outcome) /\ c.attempts + 1 < MaxAttempts

\* Mutant: a timeout is the end of it.
BackupUnlessTimeout(c, outcome) ==
    IF c.capability # "embed" /\ c.provider = Primary /\ outcome # "timeout" THEN Backup ELSE "none"

\* _with_failover: the backup, once, and never for an embedding.
FailsOverTo(c, outcome) ==
    IF c.capability # "embed" /\ c.provider = Primary THEN Backup ELSE "none"

-----------------------------------------------------------------------------
(* Prices *)

NoPrices == [broken |-> FALSE, prices |-> <<>>]

\* _table: entries added to the defaults, or the defaults when one of them is not a price
PriceTable(entries) ==
    LET defaults == [m \in {"gemma-community"} |-> 0] IN
    IF entries.broken THEN defaults
    ELSE [m \in DOMAIN defaults \cup DOMAIN entries.prices |->
            IF m \in DOMAIN entries.prices THEN entries.prices[m] ELSE defaults[m]]

\* price_for: nothing for a model it does not know
PriceFor(table, model) == IF model \in DOMAIN table THEN table[model] ELSE 0

\* observe_llm_call: what was answered is metered, before it is parsed; embeddings never.
Observed(provider, c, outcome) ==
    IF outcome \notin {"ok", "malformed"} \/ c.capability = "embed" THEN metered
    ELSE LET model == ModelAsked(provider, c) IN
         [metered EXCEPT ![model] = [calls |-> @.calls + 1, cost |-> @.cost + PriceFor(pricing, model)]]

-----------------------------------------------------------------------------

NoCall == [status |-> "none"]
Models == UNION {ProviderSpec(p).serves : p \in {"fireworks", "gemini", "featherless"}}

\* Without any primary's key nothing answers; in production Gemini needs Fireworks too.
ProvidersInit ==
    /\ keys \in {k \in SUBSET {"fireworks", "gemini", "featherless"} : "fireworks" \in k}
    /\ \E entries \in PricingEntries : pricing = PriceTable(entries)
    /\ call = NoCall /\ asked = <<>>
    /\ metered = [m \in Models |-> [calls |-> 0, cost |-> 0]]

\* A helper of llm_client begins a call; only a vision call names a model.
Begin(capability, override) ==
    /\ call = NoCall
    /\ override # "none" => capability = "vision"
    /\ call' = [status |-> "running", capability |-> capability, override |-> override,
                provider |-> IF capability = "embed" THEN EmbeddingClient ELSE Primary,
                attempts |-> 0]
    /\ UNCHANGED <<keys, pricing, asked, metered>>

\* One attempt, and what follows from it.
Attempt(outcome) ==
    LET c == call
        backup == FailsOverTo(c, outcome)
    IN /\ c.status = "running" /\ Possible(c.provider, c, outcome)
       /\ asked' = Append(asked, [provider |-> c.provider, model |-> ModelAsked(c.provider, c),
                                  outcome |-> outcome])
       /\ metered' = Observed(c.provider, c, outcome)
       /\ call' = IF Retries(c, outcome) THEN [c EXCEPT !.attempts = @ + 1]
                  ELSE IF Guarded(outcome) = "unavailable" /\ backup # "none"
                  THEN [c EXCEPT !.provider = backup, !.attempts = 0]
                  ELSE [c EXCEPT !.status = Guarded(outcome)]
       /\ UNCHANGED <<keys, pricing>>

ProvidersNext ==
    \/ \E capability \in Capabilities, override \in {"none", "gemma-large"} : Begin(capability, override)
    \/ \E outcome \in Outcomes : Attempt(outcome)

-----------------------------------------------------------------------------
(* Properties *)

\* The attempts made at a provider, by their place among all.
Attempts(provider) == {i \in DOMAIN asked : asked[i].provider = provider}

\* A caller is told that no model is available only after each provider that could have
\* answered was tried to the end of its retries, in order; and nobody is asked again after
\* an answer.  Vectors only ever come from the one model that the index was built with.
UnavailableMeansAllFailed ==
    /\ call.status = "unavailable" =>
        \A p \in IF call.capability = "embed" THEN {EmbeddingClient} ELSE {Primary, Backup} \ {"none"} :
            LET tries == Attempts(p) IN
            /\ tries # {} /\ asked[Max(tries)].outcome \notin {"ok", "malformed"}
            /\ asked[Max(tries)].outcome = "transient" => Cardinality(tries) = MaxAttempts
    /\ \A i \in 1..(Len(asked) - 1) : asked[i].outcome \notin {"ok", "malformed"}
    /\ call.status # "none" /\ call.capability = "embed" =>
        \A i \in DOMAIN asked : asked[i].provider = "fireworks" /\ asked[i].model = "nomic"
=============================================================================
