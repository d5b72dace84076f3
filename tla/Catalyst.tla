------------------------------ MODULE Catalyst ------------------------------
(***************************************************************************)
(* The catalyst classifier (adapters/catalyst): five layers that each can  *)
(* only make the verdict worse, over sources that may fail.  A text is     *)
(* what the phrases find in it, an answer of the model its tag and its     *)
(* confidence in hundredths; a source that fails finds nothing, whatever   *)
(* it has on record.                                                       *)
(***************************************************************************)
EXTENDS Integers

CONSTANT CatalystCases  \* what the sources have: [secAnswers, filings, headlines, model]

FilingLookback == 30    \* days
Threshold70 == 70       \* confidence_threshold
NoHeadlines == {}       \* no key, no answer, no JSON, or none written

\* Filings are [form, age]; a date that does not parse has age -1.  The SEC finds
\* none of them when the ticker is unknown to it, and when its answer does not come
\* or does not parse, as a compressed one does not, which the default fetcher asks for.
HasRecentFiling(case, form) ==
    case.secAnswers /\ \E f \in case.filings : f.form = form /\ f.age \in 0 .. FilingLookback

\* reaction: the relative volume is at least 5 and the rise at least 10 %.
\* model: the answer, whose tag is "off" where the model is disabled.
ClassifyCatalyst(reaction, case) ==
    IF ~reaction THEN "UNVERIFIED"
    ELSE IF HasRecentFiling(case, "dilution") THEN "SKIP"
    ELSE IF case.headlines = NoHeadlines THEN "UNVERIFIED"
    ELSE IF \E h \in case.headlines : h.blocks THEN "SKIP"
    ELSE IF case.model.tag = "off" THEN "UNVERIFIED"
    ELSE IF case.model.tag = "skip" THEN "SKIP"
    ELSE IF case.model.tag = "accepted" /\ case.model.confidence >= Threshold70 THEN "VERIFIED"
    ELSE "UNVERIFIED"
=============================================================================
