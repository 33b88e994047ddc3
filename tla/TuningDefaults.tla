--------------------------- MODULE TuningDefaults ---------------------------
(***************************************************************************)
(* The values that the agents run on when neither the environment nor an   *)
(* operator has said anything (domains/intelligence/tuning.py).  Ratios,   *)
(* probabilities and scores are in hundredths.                             *)
(***************************************************************************)

\* AgentTuning, section by section: an emission is the mean and the deviation of a
\* hidden state, a transition matrix is by rows, a band is its bound and its points.
AgentTuning ==
    [reconciler |->
        [txn_batch |-> 100, inv_limit |-> 500, fuzzy_threshold |-> 65, semantic_threshold |-> 60,
         fuzzy_match_boundary |-> 90, amount_tolerance_kes |-> 1, date_window_days |-> 2,
         pass2_candidate_cap |-> 50],
     watchdog |->
        [emission_params |-> <<<<55, 15>>, <<85, 12>>, <<120, 22>>>>,
         transition |-> <<<<85, 13, 2>>, <<10, 78, 12>>, <<5, 20, 75>>>>,
         initial_pi |-> <<80, 15, 5>>, duplicate_threshold |-> 88, isolation_min_samples |-> 5],
     auditor |->
        [vat_rate |-> 16, vat_threshold_annual_kes |-> 5000000, cit_rate |-> 30, tot_rate |-> 3,
         aml_reporting_threshold_kes |-> 1000000],
     bankability |->
        [trend_max |-> 30, ratio_max |-> 30, consistency_max |-> 20, solvency_max |-> 20,
         ratio_bands |-> <<<<50, 30>>, <<65, 24>>, <<80, 16>>, <<95, 8>>, <<100, 3>>>>,
         tier_low_min |-> 75, tier_medium_min |-> 45],
     classifier |-> [batch_size |-> 50, drain_max_batches |-> 1],
     receipt |->
        [categories |-> {"supplies", "services", "utilities", "travel", "other"},
         ocr_min_confidence |-> 60, hifi_retry_enabled |-> TRUE]]
=============================================================================
