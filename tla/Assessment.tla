----------------------------- MODULE Assessment ------------------------------
(***************************************************************************)
(* How a lead earns its score: a text is read until it is judged           *)
(* (process_document's gate), and what it says opens a dossier, to which   *)
(* later extractions of the same signal add fact by fact                   *)
(* (build_score_inputs, create_or_update_opportunity).  The step of one    *)
(* fact is the grain at which the rules on missing evidence are stated; an *)
(* extraction that says more is several of them.                           *)
(***************************************************************************)
EXTENDS Rating, Relevance, Sequences

CONSTANTS
  Texts,            \* texts before these hits are counted
  MaxHits,          \* bound on the hits of one vocabulary
  Leads,            \* dossiers of which nothing but the circumstances is known
  Figures,          \* per factor that is a number, what may come to be known of it
  MaxFacts          \* bound on the facts of a dossier

\* A lead: its signal, source, window and roster, and of the rest nothing.
Lead ==
  [known : {{}}, signal_strength : Score, source_tier : Score, source_confidence : Score,
   dated : BOOLEAN, extraction_confidence : Score, corroborating_sources : Nat \ {0},
   confirmed : BOOLEAN, official : BOOLEAN, window : Window, contact_quality : Score,
   company_size : {"UNKNOWN"}, attendee_band : {"UNKNOWN"},
   production_complexity : {"UNKNOWN"}, services : {0}, repeat_potential : {"UNKNOWN"},
   brand_value : {"UNKNOWN"}, commercial_estimate : {None},
   announcement_scale : {"UNKNOWN"}, has_event_history : {None},
   marketing_activity : {"UNKNOWN"}, comms_activity : {"UNKNOWN"},
   ecosystem_breadth : {"UNKNOWN"}, stakeholder_count : {None},
   executive_involvement : {None}, probability_estimate : {None}]

\* Figures come lowest first: any counts, of services at least one, and any estimates
\* on the scale of a hundred.  A dossier that recommends no service knows of none.
ASSUME AssessmentAssumption ==
  /\ Texts \subseteq Text /\ {MaxHits, MaxFacts} \subseteq Nat
  /\ Leads \subseteq Lead
  /\ DOMAIN Figures =
       {"services", "stakeholder_count", "commercial_estimate", "probability_estimate"}
  /\ \A f \in DOMAIN Figures :
       /\ Figures[f] \in Seq(Nat)
       /\ \A i, j \in DOMAIN Figures[f] : i < j => Figures[f][i] < Figures[f][j]
  /\ \A i \in DOMAIN Figures["services"] : Figures["services"][i] > 0
  /\ \A f \in {"commercial_estimate", "probability_estimate"} :
       \A i \in DOMAIN Figures[f] : Figures[f][i] \in Score

Levels == <<"LOW", "MEDIUM", "HIGH">>

\* The enumerations an extraction answers in, worst first.
Scales ==
  [company_size |-> <<"SMALL", "MEDIUM", "LARGE", "ENTERPRISE">>,
   attendee_band |-> <<"UNDER_50", "FROM_50_TO_200", "FROM_200_TO_500", "OVER_500">>,
   announcement_scale |-> <<"SMALL", "MEDIUM", "LARGE", "MAJOR">>,
   production_complexity |-> Levels, repeat_potential |-> Levels, brand_value |-> Levels,
   marketing_activity |-> Levels, comms_activity |-> Levels, ecosystem_breadth |-> Levels,
   has_event_history |-> <<FALSE, TRUE>>, executive_involvement |-> <<FALSE, TRUE>>]

\* What may come to be known of each factor.
Facts ==
  [f \in DOMAIN Scales \cup DOMAIN Figures |->
     IF f \in DOMAIN Scales THEN Scales[f] ELSE Figures[f]]

VARIABLES
  stage,            \* "reading", "dropped" or "rated"
  text,
  dossier

assess_vars == <<stage, text, dossier>>

NoText == [long |-> FALSE]
NoDossier == [known |-> {}]

AssessInit ==
  /\ stage = "reading"
  /\ text \in Texts
  /\ dossier = NoDossier

\* One more term of a vocabulary is found in the text.
Find(vocabulary) ==
  /\ stage = "reading"
  /\ text[vocabulary] < MaxHits
  /\ text' = [text EXCEPT ![vocabulary] = @ + 1]
  /\ UNCHANGED <<stage, dossier>>

\* The gate: an irrelevant text is dropped, and of another the first extraction
\* opens a dossier; the words have then done their part.
Judge(lead) ==
  /\ stage = "reading"
  /\ IF IsRelevant(text) THEN stage' = "rated" /\ dossier' = lead /\ text' = NoText
     ELSE stage' = "dropped" /\ UNCHANGED <<text, dossier>>

\* A further extraction knows one more factor, or thinks better of one.
Learn(factor, i) ==
  /\ stage = "rated"
  /\ factor \in dossier.known \/ Cardinality(dossier.known) < MaxFacts
  /\ factor \in dossier.known => \E j \in 1..(i - 1) : dossier[factor] = Facts[factor][j]
  /\ dossier' = [dossier EXCEPT ![factor] = Facts[factor][i], !.known = @ \cup {factor}]
  /\ UNCHANGED <<stage, text>>

AssessNext ==
  \/ \E v \in {"events", "business", "corporate", "noise"} : Find(v)
  \/ \E lead \in Leads : Judge(lead)
  \/ \E factor \in DOMAIN Facts : \E i \in DOMAIN Facts[factor] : Learn(factor, i)

AssessSpec == AssessInit /\ [][AssessNext]_assess_vars

-----------------------------------------------------------------------------
(***************************************************************************)
(* Properties.                                                             *)
(***************************************************************************)

\* No score of the lead falls.
NoScoreFalls ==
  /\ DossierScore(dossier') >= DossierScore(dossier)
  /\ CommercialValue(dossier') >= CommercialValue(dossier)
  /\ RawEventProbability(dossier') >= RawEventProbability(dossier)

\* The figures from which on an answer is worth no less than none.
Enough ==
  [services |-> 1, stakeholder_count |-> 2, commercial_estimate |-> 30,
   probability_estimate |-> 30]

\* The answers that may speak against a lead: the lowest of a scale, and estimates
\* below 30 and rosters of fewer than two stakeholders.
Adverse(factor, i) ==
  IF factor \in DOMAIN Scales THEN i = 1 ELSE Facts[factor][i] < Enough[factor]

\* "UNKNOWN scores below MEDIUM" (scoring/scales.py:3), through weights, transform, caps
\* and rounding: only an adverse answer may cost a lead what its being unknown gave
\* it, and a better word on a known factor never costs it anything.  That "missing
\* evidence must never help" (scales.py:4) holds no further: UNKNOWN is worth more than
\* an adverse answer, and a lead known to be small falls below one that is not.
OnlyAdverseFactsCost ==
  [][\A factor \in DOMAIN Facts : \A i \in DOMAIN Facts[factor] :
       Learn(factor, i) /\ (factor \in dossier.known \/ ~Adverse(factor, i)) =>
         NoScoreFalls]_assess_vars

\* A thin lead does not climb a ranking it has not earned (scoring/scales.py:4-6): with
\* at most one fact known of the company, the event and its scope, no signal,
\* source, timing or roster, however good, makes a lead qualify.
ThinLeadNeverQualifies ==
  stage = "rated" /\ Cardinality(dossier.known) =< 1 => ~IsQualified(DossierScore(dossier))

\* A confirmed event is not lost at the gate for want of a company in its text, nor
\* outweighed by its own vocabulary (the two regressions told at relevance.py:188-191
\* and 209-211): a text of four event terms and nothing noisy is never dropped.
AnnouncementsKept ==
  stage = "dropped" =>
    ~(text.long /\ text.events >= 4 /\ text.noise = 0 /\ text.weak = 0 /\ text.title_noise = 0)
=============================================================================
