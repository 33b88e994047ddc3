------------------------------ MODULE Sources ------------------------------
(***************************************************************************)
(* Agent I (services/integrator_service.py): four external sources, each   *)
(* labelled with where its figures come from, and each on its own: one     *)
(* that fails degrades and leaves the others alone.                        *)
(***************************************************************************)
EXTENDS AgentRuns

\* What a call comes to: an answer of the right shape, another status or shape, an
\* exception.
Calls == {"answer", "refused", "raises"}

Source(status, answered) == [status |-> status, answered |-> answered]
Unavailable == Source("unavailable", FALSE)

\* Mutant: an outage is covered up everywhere.
DegradedAlways(production) == Source("mock", FALSE)

\* _mpesa_degraded and _fx_degraded: an outage is told in production and covered by
\* flagged samples elsewhere.
Degraded(production) == IF production THEN Unavailable ELSE Source("mock", FALSE)

\* _fetch_fx, and what an exception in it becomes
FetchFx(r, call) ==
    IF r.configured /\ call = "answer" THEN Source("live", TRUE) ELSE Degraded(r.production)

\* _fetch_mpesa_ledger: the transactions that callbacks brought, when there are any and
\* they can be read.
LedgerFeed(r, readable) == readable /\ r.callbacks

\* _fetch_mpesa_data: the feed, else the sandbox's balance for a token.
FetchMpesa(r, readable, token, call) ==
    IF LedgerFeed(r, readable) \/ (r.configured /\ token /\ call = "answer")
    THEN Source("live", TRUE) ELSE Degraded(r.production)

\* What an operator typed in: a "status" of its own, whatever it is, replaces the label.
Labelled(manual) == manual \notin {"none", "plain"}
Typed(manual) == Source(IF Labelled(manual) THEN manual ELSE "manual", FALSE)

\* _fetch_metropol_score: never made up.  What was typed in wins.
FetchMetropol(r, call) ==
    IF r.manual.credit # "none" THEN Typed(r.manual.credit)
    ELSE IF r.configured /\ r.subject /\ call = "answer" THEN Source("live", TRUE)
    ELSE Unavailable

\* _fetch_kra_status, on the same pattern with the taxpayer's PIN
FetchKra(r, call) ==
    IF r.manual.kra # "none" THEN Typed(r.manual.kra)
    ELSE IF r.configured /\ r.subject /\ call = "answer" THEN Source("live", TRUE)
    ELSE Unavailable

\* _normalise_to_kes, in hundredths of the rate: without a rate the amount stays.
NormaliseToKes(amount, currency, fx) ==
    IF currency = "KES" \/ fx = 0 THEN amount ELSE (amount * fx) \div 100

\* fetch_external_data
Collected(fx, mpesa, credit, kra) ==
    LET status == {fx.status, mpesa.status, credit.status, kra.status} IN
    [kind |-> "sources", fx |-> fx, mpesa |-> mpesa, credit |-> credit, kra |-> kra,
     simulated |-> "mock" \in status,
     label |-> IF "mock" \in status THEN "mock_sandbox"
               ELSE IF "unavailable" \in status THEN "degraded" ELSE "live"]

\* i_integrator_node; what the conversation holds already is not fetched again.
Integrate ==
    /\ request.kind = "sources"
    /\ \/ request.held /\ Report([kind |-> "held"], {})
       \/ /\ ~request.held
          /\ \E fx, mpesa, credit, kra \in Calls, readable, token \in BOOLEAN :
                Report(Collected(FetchFx(request, fx), FetchMpesa(request, readable, token, mpesa),
                                 FetchMetropol(request, credit), FetchKra(request, kra)), {})

-----------------------------------------------------------------------------
(* Properties *)

\* No figure passes for what it is not, except under a label that the operator gave what
\* they typed in, which may be any: samples never reach a production system nor stand for a
\* credit score or a tax status, a "live" figure of an outside service was answered by it,
\* the whole is "live" only when every source is known, and samples are always told.
SourcesAreHonest ==
    Reported("sources") =>
        LET own == {"fx", "mpesa"}
                   \cup {s \in {"credit", "kra"} : ~Labelled(request.manual[s])}
        IN
        /\ \A s \in own :
            /\ request.production \/ s \in {"credit", "kra"} => report[s].status # "mock"
            /\ report[s].status = "live" => report[s].answered
            /\ report.label = "live" => report[s].status \in {"live", "manual"}
            /\ report[s].status = "mock" => report.label = "mock_sandbox"
        /\ report.simulated <=> report.label = "mock_sandbox"
=============================================================================
