------------------------------- MODULE Credit -------------------------------
(***************************************************************************)
(* The credit strategist's score (services/bankability_service.py) and the *)
(* auditor's tax (agents/f_auditor.py): figures computed from the ledger,  *)
(* which a model may comment on but not change.  Money is in whole units,  *)
(* rates and ratios in hundredths.                                         *)
(***************************************************************************)
EXTENDS AgentRuns

CONSTANTS
    Bankability,    \* the bankability section in force
    Horizon         \* months forecast, four quarters

ASSUME HorizonAssumption == Horizon \in Nat /\ Horizon % 4 = 0

\* The sums of the first so many amounts
Sums(amounts) ==
    LET sum[n \in 0..Len(amounts)] == IF n = 0 THEN 0 ELSE sum[n - 1] + amounts[n] IN sum

Total(amounts) == Sums(amounts)[Len(amounts)]
Abs(x) == IF x < 0 THEN -x ELSE x

-----------------------------------------------------------------------------
(* Bankability *)

\* _forecast_series, in sixths: with fewer than four months the mean and the slope go
\* on; a fitted model may answer anything that is not negative.
ShortForecast(amounts) ==
    LET n == Len(amounts)
        mean == IF n = 0 THEN 0 ELSE (6 * Total(amounts)) \div n
        slope == IF n < 2 THEN 0 ELSE (6 * (Last(amounts) - Head(amounts))) \div (n - 1)
    IN [m \in 1..Horizon |-> Max({0, mean + slope * m})]

Forecasts(amounts, fits) ==
    IF Len(amounts) < 4 THEN {ShortForecast(amounts)} ELSE fits

\* A third month back is needed; 60 points for a doubling.
TrendScore(revenue) ==
    LET n == Len(revenue)
        before == revenue[n - 2]
    IN IF n < 3 THEN 10
       ELSE Min({Bankability.trend_max,
                 Max({0, (60 * (revenue[n] - before)) \div Max({before, 1})})})

\* The first band that expenses over revenue are below; no revenue counts as one.
RatioScore(revenue, opex) ==
    LET mean == IF Total(revenue) = 0 THEN Len(revenue) ELSE Total(revenue)
        reached == SelectSeq(Bankability.ratio_bands, LAMBDA band : 100 * Total(opex) < band[1] * mean)
    IN IF reached = <<>> THEN 0 ELSE Head(reached)[2]

\* The coefficient of variation costs 12 points for each unit: the most points k with
\* (max - k) * |mean| >= 12 * deviation, compared as squares.
ConsistencyScore(revenue, opex) ==
    LET n == Len(revenue)
        net == [i \in 1..n |-> revenue[i] - opex[i]]
        squares == Total([i \in 1..n |-> net[i] * net[i]])
        scale == Max({Abs(Total(net)), n})
        reached(k) == ((Bankability.consistency_max - k) * scale) ^ 2
                      >= 144 * (n * squares - Total(net) ^ 2)
    IN IF n < 2 THEN 8
       ELSE Max({0} \cup {k \in 0..Bankability.consistency_max : reached(k)})

\* The share of forecast months that pay for themselves.
SolvencyScore(revenue, opex) ==
    (Cardinality({m \in 1..Horizon : revenue[m] >= opex[m]}) * Bankability.solvency_max) \div Horizon

\* A loan tier: LOW is the risk.
Tier(score) ==
    IF score >= Bankability.tier_low_min THEN "LOW"
    ELSE IF score >= Bankability.tier_medium_min THEN "MEDIUM" ELSE "HIGH"

\* _compute_bankability_score; an empty ledger, or one that could not be read, counts as
\* one month of nothing.
Scored(months, revenueAhead, opexAhead) ==
    LET revenue == IF months = <<>> THEN <<0>> ELSE [i \in DOMAIN months |-> months[i][1]]
        opex == IF months = <<>> THEN <<0>> ELSE [i \in DOMAIN months |-> months[i][2]]
        best == Bankability.trend_max + Bankability.ratio_max
                + Bankability.consistency_max + Bankability.solvency_max
        sum == TrendScore(revenue) + RatioScore(revenue, opex)
               + ConsistencyScore(revenue, opex) + SolvencyScore(revenueAhead, opexAhead)
        score == Min({best, Max({0, sum})})
    IN [score |-> score, tier |-> Tier(score)]

\* The sums of each quarter of a forecast
Quarters(ahead) ==
    LET months == Horizon \div 4 IN
    [q \in 1..4 |-> Total(SubSeq(ahead, months * (q - 1) + 1, months * q))]

NoDocument == [rendered |-> FALSE]

\* _generate_pdf_report: the score, the tier and a line for each quarter with its net;
\* a failing library leaves no document.
PdfReport(figures, revenueAhead, opexAhead, works) ==
    IF works THEN [rendered |-> TRUE, figures |-> figures,
                   net |-> [q \in 1..4 |-> Quarters(revenueAhead)[q] - Quarters(opexAhead)[q]]]
    ELSE NoDocument

\* _generate_forecast_excel: a line for each month ahead, and one for each of the last
\* twelve on a second sheet, which is missing when there are none.
ForecastWorkbook(months, revenueAhead, opexAhead, works) ==
    LET last == SubSeq(months, Max({1, Len(months) - 11}), Len(months)) IN
    IF works THEN [rendered |-> TRUE,
                   net |-> [m \in 1..Horizon |-> revenueAhead[m] - opexAhead[m]],
                   history |-> [m \in DOMAIN last |-> last[m][1] - last[m][2]]]
    ELSE NoDocument

\* compute_credit_strategy and g_reporter_node: the ledger given, or fetched; the forecast and the audit of
\* other agents are quoted beside the score, never in it; no model, no document is needed.
Strategise ==
    /\ request.kind = "credit"
    /\ \E readable, pdf, excel \in BOOLEAN, model \in ModelAnswers :
        LET months == IF request.given # <<>> THEN request.given
                      ELSE IF readable THEN request.ledger ELSE <<>>
        IN \E revenueAhead \in Forecasts([i \in DOMAIN months |-> months[i][1]], request.fits),
              opexAhead \in Forecasts([i \in DOMAIN months |-> months[i][2]], request.fits) :
            LET figures == Scored(months, revenueAhead, opexAhead) IN
            Report([kind |-> "credit", months |-> months, figures |-> figures,
                    pdf |-> PdfReport(figures, revenueAhead, opexAhead, pdf),
                    workbook |-> ForecastWorkbook(months, revenueAhead, opexAhead, excel),
                    consumed |-> request.upstream,
                    narrative |-> IF model = "answer" THEN "model" ELSE "template"], {})

-----------------------------------------------------------------------------
(* Tax *)

\* A period's revenue, scaled to a year
AnnualRevenue(t) == (t.revenue * 365) \div Max({t.days, 1})

VatDue(t, rates) ==
    IF AnnualRevenue(t) >= rates.vat_threshold_annual_kes THEN t.revenue * rates.vat_rate ELSE 0

CitDue(t, rates) == Max({0, t.revenue - t.opex}) * rates.cit_rate

\* _calculate_tax_liability, in hundredths
TaxLiability(t, rates) ==
    CASE t.regime = "VAT" -> [type |-> "VAT", due |-> VatDue(t, rates)]
      [] t.regime \in {"CORPORATE_TAX", "CIT"} -> [type |-> "CORPORATE_TAX", due |-> CitDue(t, rates)]
      [] OTHER -> [type |-> "COMPREHENSIVE", due |-> VatDue(t, rates) + CitDue(t, rates)]

\* Mutant: what the model lists is what is reported.
FlagsOfTheModel(flags, t, rates, type) == flags

\* _inject_deterministic_flags
Flags(flags, t, rates, type) ==
    flags \cup (IF t.largest >= rates.aml_reporting_threshold_kes
                THEN {"AML_REPORTING_REQUIRED"} ELSE {})
          \cup (IF AnnualRevenue(t) >= rates.vat_threshold_annual_kes
                    /\ type \notin {"VAT", "COMPREHENSIVE"}
                THEN {"VAT_REGISTRATION_REQUIRED"} ELSE {})

\* The parts that the chart shows
Components(t, rates) ==
    CASE t.regime = "VAT" -> [vat |-> VatDue(t, rates), cit |-> 0]
      [] t.regime \in {"CORPORATE_TAX", "CIT"} -> [vat |-> 0, cit |-> CitDue(t, rates)]
      [] OTHER -> [vat |-> VatDue(t, rates), cit |-> CitDue(t, rates)]

\* f_auditor_node on the tuning in effect, whose rates are scheduled or not: the totals of
\* the request or of the last days; nothing when they cannot be read.
Audit(rates, scheduled) ==
    /\ request.kind = "audit"
    /\ \E readable \in BOOLEAN, model \in ModelAnswers, listed \in SUBSET {"FILING_RISK"} :
        LET t == IF request.given \/ readable THEN request.totals
                 ELSE [request.totals EXCEPT !.revenue = 0, !.opex = 0, !.largest = 0]
            tax == TaxLiability(t, rates)
            free == IF model = "answer" THEN listed
                    ELSE IF t.largest >= rates.aml_reporting_threshold_kes
                         THEN {"large transaction"} ELSE {}
        IN Report([kind |-> "audit", totals |-> t, rates |-> rates, scheduled |-> scheduled,
                   tax |-> tax, components |-> Components(t, rates),
                   flags |-> Flags(free, t, rates, tax.type)], {})

-----------------------------------------------------------------------------
(* Properties *)

\* The two documents of a score tell the same story: its figures, and months that add up
\* to the quarters.
DocumentsAgree ==
    Reported("credit") =>
        /\ report.pdf.rendered => report.pdf.figures = report.figures
        /\ report.pdf.rendered /\ report.workbook.rendered =>
            Total(report.pdf.net) = Total(report.workbook.net)

\* The model cannot keep a fact of the ledger out of the audit: a transaction at the
\* reporting threshold, or a year's revenue at the threshold of a tax that was not
\* assessed, is always flagged; and the chart's parts are the liability.
AuditStandsOnFigures ==
    Reported("audit") =>
        LET t == report.totals IN
        /\ t.largest >= report.rates.aml_reporting_threshold_kes
            => "AML_REPORTING_REQUIRED" \in report.flags
        /\ AnnualRevenue(t) >= report.rates.vat_threshold_annual_kes
            => report.components.vat > 0 \/ t.revenue = 0 \/ report.rates.vat_rate = 0
               \/ "VAT_REGISTRATION_REQUIRED" \in report.flags
        /\ report.components.vat + report.components.cit = report.tax.due
=============================================================================
