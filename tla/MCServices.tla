----------------------------- MODULE MCServices -----------------------------
(* Small inputs for every part: the cases that the services tell apart. *)
EXTENDS Services, TLC

Symmetry ==
    Permutations(Emails) \cup Permutations(Registrations) \cup Permutations(Refreshers)

\* natural logarithms of the hundredths that the watchdog's tuning holds, in tenths
MCLog(v) ==
    CASE v = 0 -> -6900 [] v = 2 -> -39 [] v = 5 -> -30 [] v = 10 -> -23 [] v = 12 -> -21
      [] v = 13 -> -20 [] v = 15 -> -19 [] v = 20 -> -16 [] v = 22 -> -15 [] v = 75 -> -3
      [] v = 78 -> -2 [] v = 80 -> -2 [] v = 85 -> -2

MCHmm == AgentTuning.watchdog
MCBankability == AgentTuning.bankability
MCStockTuning == [lead |-> 7, safety |-> 3, lookback |-> 90, history |-> 3]

Stored(keys_, types, values) == [keys |-> keys_, types |-> types, values |-> values]

\* a section as it may be stored: another good one, a bad one, an unknown field, a text
\* where a number belongs
MCPayloads(section) ==
    LET other == CASE section = "classifier" -> [AgentTuning[section] EXCEPT !.batch_size = 20]
                   [] section = "receipt" -> [AgentTuning[section] EXCEPT !.ocr_min_confidence = 50]
                   [] section = "auditor" -> [AgentTuning[section] EXCEPT !.vat_rate = 20]
        bad == CASE section = "classifier" -> [AgentTuning[section] EXCEPT !.drain_max_batches = 0]
                 [] section = "receipt" -> [AgentTuning[section] EXCEPT !.categories = {"travel"}]
    IN IF section = "auditor" THEN {Stored("known", "right", other)}
       ELSE {Stored("known", "right", other), Stored("known", "right", bad),
             Stored("unknown", "right", other), Stored("known", "wrong", other)}

MCEnvironment == [s \in {} |-> {}]

MCPricingEntries ==
    {NoPrices, [broken |-> TRUE, prices |-> [m \in {"gemma"} |-> 7]],
     [broken |-> FALSE, prices |-> [m \in {"gemma"} |-> 7]]}

-----------------------------------------------------------------------------

WatchdogRequests ==
    [kind : {"watchdog"}, mode : Modes,
     spent : {<<>>, <<80, 90, 20>>, <<20, 40, 33>>, <<60, 38, 42>>}, budgets : {{}, {3000}, {900, 3000}},
     customer : {"fitted", "new", "none"}, candidate : {0, 9}, amounts : {<<>>, <<9, 1, 1, 1, 2>>},
     outliers : {{9}, {2}}, likenesses : {{}, {88}}]

CreditRequests ==
    [kind : {"credit"}, mode : {"insights"}, given : {<<>>, <<<<9, 4>>, <<9, 5>>, <<14, 5>>>>},
     ledger : {<<>>, <<<<10, 12>>, <<8, 9>>, <<11, 10>>, <<12, 6>>>>},
     fits : {{[m \in 1..12 |-> 8], [m \in 1..12 |-> m]}}, upstream : SUBSET {"D", "F"}]

\* a year's revenue above the threshold in a month, and below it in a year
Totals(revenue, largest, days, regime) ==
    [revenue |-> revenue, opex |-> 300000, largest |-> largest, days |-> days, regime |-> regime]

AuditRequests ==
    [kind : {"audit"}, mode : {"insights"}, asOf : {2}, given : {FALSE},
     totals : {Totals(0, 50000, 365, "VAT"), Totals(600000, 1000000, 30, "VAT"),
               Totals(600000, 50000, 30, "OTHER"), Totals(400000, 50000, 365, "CIT")}]
    \cup [kind : {"audit"}, mode : {"insights"}, asOf : {2}, given : {TRUE},
          totals : {Totals(600000, 1000000, 30, "CIT")}]

ForecastRequests ==
    [kind : {"forecast"}, mode : {"insights"}, flows : {<<>>, <<5, -10>>, <<5, -5, -10>>},
     balance : {0, 12}, due : {<<0, 0, 0>>, <<0, 6, 0>>}, horizon : {3},
     fits : {{<<-4, -4, -4>>, <<5, 5, 5>>}}, question : BOOLEAN, verify : BOOLEAN]

\* nothing typed in, figures without a status, and statuses an operator may give them
Manual == {"none", "plain", "live", "mock", "unavailable", "confirmed"}

SourcesRequests ==
    [kind : {"sources"}, mode : {"insights"}, production : BOOLEAN, configured : BOOLEAN,
     callbacks : BOOLEAN, manual : [credit : Manual, kra : {"none", "plain", "mock"}],
     subject : BOOLEAN, held : BOOLEAN]

Product(onHand, usage) ==
    [onHand |-> onHand, reorderLevel |-> 5, reorderQuantity |-> 0, usage |-> usage, moves |-> 3]

StockRequests ==
    [kind : {"stock"}, mode : Modes, contextRole : {"none", "accountant"},
     user : {"viewer", "manager"}, products : {<<Product(4, 0)>>, <<Product(7, 90)>>},
     action : [type : {"none", "unknown", "adjustment", "receipt", "issue"}, quantity : {-5, 0, 5},
               reason : BOOLEAN, cost : BOOLEAN],
     confirmed : BOOLEAN, verify : BOOLEAN, regime : {"none"}]

AdviceRequests ==
    [kind : {"advice"}, mode : {"insights"}, contextRole : {"none", "accountant", "owner"},
     user : {"none", "viewer", "manager"}, upstream : SUBSET {"D", "E", "F", "G"}, customer : BOOLEAN,
     override : {"none", "on", "off"}, gate : BOOLEAN]

\* the figures of a forecast that is not summarised when the model is silent: 5
SummaryRequests ==
    [kind : {"summary"}, mode : {"insights"}, locale : {"en", "sw"},
     sections : {[s \in {} |-> {}], [forecast |-> {5}],
                 [advice |-> {1}, audit_result |-> {1, 2}, forecast |-> {5}]}]

RulesRequests ==
    [kind : {"rules"}, mode : {"insights"},
     distances : {<<>>, <<0>>, <<0, 4, 16>>, <<4, 9, 9, 14>>, <<16, 20>>}]

ReadingRequests ==
    [kind : {"extraction"}, mode : {"insights"}, ocr : {"none", "invalid", "valid"}, confidence : {59, 60}]
    \cup [kind : {"classification"}, mode : Modes, unclassified : {0, 2, 60},
          distances : {<<>>, <<0, 12, 13>>}]

MCRequests ==
    AdviceRequests \cup SummaryRequests \cup RulesRequests \cup ReadingRequests \cup
    WatchdogRequests \cup CreditRequests \cup AuditRequests \cup ForecastRequests
    \cup SourcesRequests \cup StockRequests

Draft(first, statements, root, writes, tables_, ctes, reads, literal, rows) ==
    [first |-> first, statements |-> statements, root |-> root, writes |-> writes,
     tables |-> tables_, ctes |-> ctes, reads |-> reads, limit |-> [literal |-> literal, rows |-> rows]]

MCDrafts ==
    {Draft("select", 1, "select", FALSE, {"invoices"}, {}, {"invoices"}, 1, 1),
     Draft("with", 1, "select", FALSE, {"invoices", "t"}, {"t"}, {"invoices"}, 1, 3),
     Draft("with", 1, "select", FALSE, {"customers"}, {"customers"}, {"customers"}, 1, 1),
     Draft("with", 1, "select", TRUE, {"invoices"}, {}, {"invoices"}, 1, 1),
     Draft("select", 2, "select", FALSE, {"invoices"}, {}, {"invoices"}, 1, 1),
     Draft("select", 1, "select", FALSE, {"users"}, {}, {"users"}, 1, 1),
     Draft("update", 1, "other", TRUE, {"invoices"}, {}, {"invoices"}, 1, 1)}
=============================================================================
