------------------------------- MODULE Advice -------------------------------
(***************************************************************************)
(* The agents that write for people: the advisor (H), the summariser (J),  *)
(* the tax excerpts that the auditor quotes, the reading of an invoice (A) *)
(* and the classification shown in a conversation (B).  A text is the set  *)
(* of the figures in it and the notices around it; the model writes what   *)
(* it likes.                                                               *)
(***************************************************************************)
EXTENDS AgentRuns, Permissions

CONSTANTS
    OcrFloor,       \* _OCR_FASTPATH_MIN_CONFIDENCE, in hundredths
    ClassifierBatch \* ClassifierTuning.batch_size

-----------------------------------------------------------------------------
(* Agent H: who may be told what to do, and on how much evidence *)

ActionableRoles == {"manager", "admin", "owner"}

\* The role of the conversation, else of the account, else the least; what is given is
\* taken as it is.
AdvisedRole(r, readable) ==
    IF r.contextRole # "none" THEN r.contextRole
    ELSE IF readable /\ r.user # "none" THEN r.user ELSE "viewer"

\* How many of the four analyses came before.
Completeness(upstream) ==
    LET populated == Cardinality(upstream) IN
    IF populated >= 3 THEN "full" ELSE IF populated >= 1 THEN "partial" ELSE "none"

\* _review_gate_enabled: a request's own choice wins over the setting.
ReviewGate(r) == IF r.override = "none" THEN r.gate ELSE r.override = "on"

AllowedComponents == {"registered"}

\* What surrounds the model's text, from the outside in.  Mutant of the honesty gate:
\* the note is left to the model, which was asked for it.
NoticesFromTheModel(r, role) ==
    (IF role \in ActionableRoles THEN {"disclaimer"} ELSE {}) \cup
    (IF role \in ActionableRoles /\ ReviewGate(r) THEN {"pending_review"} ELSE {})

Notices(r, role) ==
    (IF role \in ActionableRoles THEN {"disclaimer"} ELSE {}) \cup
    (IF role \in ActionableRoles /\ ReviewGate(r) THEN {"pending_review"} ELSE {}) \cup
    (IF Completeness(r.upstream) = "none" THEN {"limited_data"} ELSE {})

\* build_advice: a silent model is replaced by a text about the budget alone.
Advise ==
    /\ request.kind = "advice"
    /\ \E readable, profile \in BOOLEAN, model \in ModelAnswers, widgets \in SUBSET {"registered", "invented"} :
        LET role == AdvisedRole(request, readable) IN
        Report([kind |-> "advice", role |-> role,
                tier |-> IF role \in ActionableRoles THEN "ACTIONABLE" ELSE "SUMMARY",
                completeness |-> Completeness(request.upstream),
                notices |-> Notices(request, role),
                review |-> role \in ActionableRoles /\ ReviewGate(request),
                profile |-> profile /\ request.customer,
                narrative |-> IF model = "answer" THEN "model" ELSE "template",
                widgets |-> IF model = "answer" THEN widgets \cap AllowedComponents ELSE {}],
               {})

-----------------------------------------------------------------------------
(* Agent J: bullets, a bullet being the figures in it *)

\* The sections whose bullet _fallback_bullets can write; a forecast has none.
FallbackSections == {"advice", "credit_strategy_result", "audit_result", "watchdog_analysis"}

FallbackFigures(sections) ==
    UNION {sections[s] : s \in DOMAIN sections \cap FallbackSections}

\* Mutant: any translation is taken.
KeepsFiguresAlways(source, translated) == TRUE

\* _translation_preserves_numbers: over the whole of the bullets, not one by one.
KeepsFigures(source, translated) == source \subseteq translated

\* j_summarizer_node: the figures of the sections, in the reader's language when the
\* translation keeps every one of them.
Summarise ==
    /\ request.kind = "summary"
    /\ \E model, translator \in ModelAnswers,
          written \in SUBSET (UNION {request.sections[s] : s \in DOMAIN request.sections} \cup {99}),
          translated \in SUBSET (UNION {request.sections[s] : s \in DOMAIN request.sections} \cup {99}) :
        LET source == IF model = "answer" THEN written ELSE FallbackFigures(request.sections)
            localised == /\ request.locale # "en" /\ translator = "answer"
                         /\ KeepsFigures(source, translated)
        IN Report([kind |-> "summary", source |-> source, localised |-> localised,
                   figures |-> IF localised THEN translated ELSE source,
                   narrative |-> IF model = "answer" THEN "model" ELSE "template"],
                  {})

-----------------------------------------------------------------------------
(* Excerpts of the tax knowledge base, and past corrections: the nearest   *)
(* ones, distances in tenths, nearest first                                *)

MAX_L2_DISTANCE == 15
MAX_FEEDBACK_DISTANCE == 12

\* A distance of nothing at all is false, and counts as 9.
Distance(d) == IF d = 0 THEN 90 ELSE d

\* The rows within reach, in their order; one without a text counts as out of reach.
Relevant(distances) ==
    LET upTo[n \in 0..Len(distances)] ==
            IF n = 0 THEN <<>>
            ELSE IF Distance(distances[n]) <= MAX_L2_DISTANCE THEN Append(upTo[n - 1], distances[n])
            ELSE upTo[n - 1]
    IN upTo[Len(distances)]

\* get_relevant_tax_rules, with two more fetched than asked for.  No embedding or no
\* answer of the table: nothing; nothing near enough: the standard rates.
Excerpts(distances, embedded, answered, limit) ==
    LET fetched == SubSeq(distances, 1, Min({limit + 2, Len(distances)}))
        near == Relevant(fetched)
        reached == embedded /\ answered
    IN [near |-> IF reached THEN SubSeq(near, 1, Min({limit, Len(near)})) ELSE <<>>,
        standard |-> reached /\ near = <<>>]

\* get_fewshot_examples: at most five are fetched, those near enough are shown.
FewShots(distances, embedded, answered) ==
    IF ~embedded \/ ~answered THEN <<>>
    ELSE SelectSeq(SubSeq(distances, 1, Min({5, Len(distances)})),
                   LAMBDA d : d <= MAX_FEEDBACK_DISTANCE)

\* _get_embedding: the cache (an entry of the wrong size is passed over), else the model,
\* whose vector must have the size of the column.  A cache that cannot be asked raises, and
\* fails the audit that asked for the excerpts.
Quote ==
    /\ request.kind = "rules"
    /\ \/ Report([kind |-> "failed"], {})
       \/ \E cache \in {"hit", "miss", "corrupt"}, model \in {"answer", "unavailable", "wrong_size"},
             answered \in BOOLEAN :
            LET embedded == cache = "hit" \/ model = "answer"
                found == Excerpts(request.distances, embedded, answered, 3)
            IN Report([kind |-> "rules", excerpts |-> found, reachable |-> embedded /\ answered], {})

-----------------------------------------------------------------------------
(* Agent A and Agent B *)

\* Mutant: what the scanner read is taken whatever its confidence.
ShortcutsAlways(r) == r.ocr = "valid"

\* The scanner's fields spare the model's pass when they fit the schema and are sure.
Shortcuts(r) == r.ocr = "valid" /\ r.confidence >= OcrFloor

ExtractInvoice ==
    /\ request.kind = "extraction"
    /\ \E model \in ModelAnswers :
        LET source == IF Shortcuts(request) THEN "ocr" ELSE IF model = "answer" THEN "model" ELSE "none" IN
        Report([kind |-> "extraction", source |-> source], {})

\* b_classifier_node reads without a lock and stores nothing; in actions mode it asks for
\* the batch task, which classifies anew, without the corrections shown to this one.
ClassifyShown ==
    /\ request.kind = "classification"
    /\ \E embedded, answered, broker \in BOOLEAN, model \in ModelAnswers :
        LET entries == Min({request.unclassified, ClassifierBatch})
            shown == entries > 0 /\ model = "answer"
            asks == /\ shown /\ broker /\ request.mode = "actions"
                    /\ "direct_write" \in mutation_kinds("B")
        IN Report([kind |-> "classification", entries |-> IF shown THEN entries ELSE 0,
                   examples |-> IF entries = 0 THEN <<>>
                                ELSE FewShots(request.distances, embedded, answered)],
                  IF asks THEN {Effect("B", "direct_write")} ELSE {})

AdviceStep == Advise \/ Summarise \/ Quote \/ ExtractInvoice \/ ClassifyShown

-----------------------------------------------------------------------------
(* Properties *)

\* What people read carries what it rests on: advice that names instruments and amounts
\* its disclaimer, advice without evidence its warning, a translation all the figures of
\* its source, an invoice nobody was sure of a second reading, a quoted rule a distance
\* that makes it relevant.
AdviceIsGrounded ==
    /\ Reported("advice") =>
        /\ report.tier = "ACTIONABLE" =>
            /\ "finance:approve" \in RolePermissions[report.role]
            /\ "disclaimer" \in report.notices
        /\ request.upstream = {} => "limited_data" \in report.notices
        /\ "invented" \notin report.widgets
    /\ Reported("summary") => report.source \subseteq report.figures
    /\ Reported("rules") =>
        /\ report.reachable => (report.excerpts.near = <<>> <=> report.excerpts.standard)
        /\ \A i \in DOMAIN report.excerpts.near : report.excerpts.near[i] <= MAX_L2_DISTANCE
    /\ Reported("extraction") =>
        (report.source = "ocr" => request.confidence >= OcrFloor)
=============================================================================
