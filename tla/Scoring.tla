------------------------------- MODULE Scoring -------------------------------
(***************************************************************************)
(* The scoring engine (backend/app/scoring): pure functions from evidence  *)
(* to a 0-100 score, its band, its decay and its commercial timing.        *)
(*                                                                         *)
(* Units.  Scores are integers 0..100.  A weight or a penalty is a whole   *)
(* percentage, a decay factor a whole number of thousandths (the column is *)
(* NUMERIC(4,3)), a date the number of days since an arbitrary epoch.      *)
(***************************************************************************)
EXTENDS Integers, FiniteSets, FiniteSetsExt

CONSTANTS
  WeightEventProbability, WeightCommercialValue, WeightContactQuality,
  WeightTiming, WeightEvidence,      \* percentages that sum to 100
  MinQualifyingScore,                \* the Top 50 floor
  EventProbabilityCapUnconfirmed,    \* cap of everything but a FACT
  EvidenceCapBase, EvidenceCapSlope, \* cap = base + slope% of the evidence
  ContactQualityFloor, ContactQualityWeakMultiplier,
  ContactCorroborationBonus, ContactCorroborationMaxBonus,
  DecayGraceDays,                    \* age up to which a signal is fresh
  DecayFloor,                        \* least decay factor, in thousandths
  MissedWindowPenalty, ThinEvidenceThreshold, ThinEvidencePenalty,
  TimingContractedLeadDays,          \* lead at which the work is contracted
  Horizon,                           \* last day of the calendar modelled
  AgeFactor,                         \* exponential ageing, per day of age
  None                               \* SQL NULL

Score == 0..100
Factor == 1..1000   \* of decay: thousandths
Day == 0..Horizon

Window == {"DAYS_0_14", "DAYS_15_30", "DAYS_30_60", "DAYS_60_90",
           "MONTHS_3_6", "MONTHS_6_12", "UNKNOWN"}
Classification == {"EXCEPTIONAL", "HOT", "VERY_HIGH", "HIGH", "QUALIFIED", "NOT_ELIGIBLE"}
Timing == {"IMMEDIATE", "FUTURE_ACCOUNT", "HISTORICAL"}
AssertionLevel == {"FACT", "INFERENCE", "PREDICTION"}

(***************************************************************************)
(* Settings._validate_weights: the weights sum to 1 (up to 0.001), the     *)
(* qualifying score is in 0..100, the decay floor in (0, 1].  The code     *)
(* validates no other setting: that they are what their names say is       *)
(* assumed.                                                                *)
(***************************************************************************)
ASSUME SettingsAssumption ==
  /\ {WeightEventProbability, WeightCommercialValue, WeightContactQuality,
      WeightTiming, WeightEvidence} \subseteq Nat
  /\ WeightEventProbability + WeightCommercialValue + WeightContactQuality
       + WeightTiming + WeightEvidence = 100
  /\ MinQualifyingScore \in Score
  /\ {EventProbabilityCapUnconfirmed, EvidenceCapBase, EvidenceCapSlope,
      ContactQualityFloor, ContactCorroborationBonus, ContactCorroborationMaxBonus,
      ThinEvidenceThreshold, TimingContractedLeadDays, DecayGraceDays, Horizon} \subseteq Nat
  /\ {MissedWindowPenalty, ThinEvidencePenalty, ContactQualityWeakMultiplier} \subseteq 0..100
  /\ DecayFloor \in 1..1000
  /\ None \notin Int

\* exp(-(age - grace) / tau), floored: 1 within the grace period, never rising.
ASSUME AgeFactorAssumption ==
  /\ AgeFactor \in [Day -> DecayFloor..1000]
  /\ \A age \in Day : age =< DecayGraceDays => AgeFactor[age] = 1000
  /\ \A a, b \in Day : a =< b => AgeFactor[b] =< AgeFactor[a]

-----------------------------------------------------------------------------
Clamp(low, high, n) == IF n < low THEN low ELSE IF n > high THEN high ELSE n

\* Python's round() of n/d: the nearest integer, ties to the even one.
Round(n, d) ==
  LET q == n \div d
      r == n % d
  IN  IF 2 * r > d \/ (2 * r = d /\ q % 2 = 1) THEN q + 1 ELSE q

(***************************************************************************)
(* scoring/timing.py and the lead-time table of scoring/event_timing.py.   *)
(***************************************************************************)
TimingScore == [DAYS_0_14 |-> 100, DAYS_15_30 |-> 90, DAYS_30_60 |-> 75, DAYS_60_90 |-> 60,
                MONTHS_3_6 |-> 45, MONTHS_6_12 |-> 25, UNKNOWN |-> 20]

\* 0 stands for None: an unknown window has no length.
WindowDays == [DAYS_0_14 |-> 14, DAYS_15_30 |-> 30, DAYS_30_60 |-> 60, DAYS_60_90 |-> 90,
               MONTHS_3_6 |-> 183, MONTHS_6_12 |-> 365, UNKNOWN |-> 0]

WindowEndDate(window, signal_date) ==
  IF window = "UNKNOWN" THEN None ELSE signal_date + WindowDays[window]

\* The verdict on a known lead time: close events are already contracted.
TimingOfLead(lead) ==
  IF lead =< TimingContractedLeadDays THEN "FUTURE_ACCOUNT" ELSE "IMMEDIATE"

(***************************************************************************)
(* Evidence strongest first: reported as past, a real date, the window's   *)
(* end.  A closed window is never HISTORICAL.  The fuzzy-window fallback   *)
(* of the code is reached only with no window end, that is for UNKNOWN.    *)
(***************************************************************************)
ClassifyTiming(event_date, already_occurred, window_ends_on, today) ==
  IF already_occurred THEN "HISTORICAL"
  ELSE IF event_date # None
       THEN IF event_date < today THEN "HISTORICAL" ELSE TimingOfLead(event_date - today)
  ELSE IF window_ends_on # None THEN TimingOfLead(window_ends_on - today)
  ELSE "FUTURE_ACCOUNT"

-----------------------------------------------------------------------------
\* services/opportunities.py: only an official announcement is a FACT.
AssertionFor(confirmed_signal, official_source) ==
  IF ~confirmed_signal THEN "PREDICTION"
  ELSE IF official_source THEN "FACT" ELSE "INFERENCE"

\* The caps of score_event_probability on an already transformed raw value.
EventProbability(raw, evidence, assertion) ==
  LET evidence_cap == 100 * EvidenceCapBase + EvidenceCapSlope * evidence
      by_evidence  == IF 100 * raw > evidence_cap THEN evidence_cap ELSE 100 * raw
      unconfirmed  == 100 * EventProbabilityCapUnconfirmed
      capped       == IF assertion # "FACT" /\ by_evidence > unconfirmed
                      THEN unconfirmed ELSE by_evidence
  IN  Round(Clamp(0, 10000, capped), 100)

(***************************************************************************)
(* The roll-up of the scores of a set of contacts: nobody is 0, a weak     *)
(* best contact is halved, each further good one earns a capped bonus.     *)
(***************************************************************************)
ContactQuality(contacts, score) ==
  LET best   == Max({score[k] : k \in contacts})
      others == Cardinality({k \in contacts : score[k] >= ContactQualityFloor}) - 1
      bonus  == IF ContactCorroborationBonus * others > ContactCorroborationMaxBonus
                THEN ContactCorroborationMaxBonus ELSE ContactCorroborationBonus * others
  IN  IF contacts = {} THEN 0
      ELSE IF best < ContactQualityFloor
           THEN Round(best * ContactQualityWeakMultiplier, 100)
           ELSE Clamp(0, 100, best + bonus)

\* Fault: the weighted sum is left in percent.
UnscaledBaseScore(event_probability, commercial_value, contact_quality, timing_score, evidence_score) ==
  Clamp(0, 10000,
        WeightEventProbability * event_probability
      + WeightCommercialValue * commercial_value
      + WeightContactQuality * contact_quality
      + WeightTiming * timing_score
      + WeightEvidence * evidence_score)

BaseScore(event_probability, commercial_value, contact_quality, timing_score, evidence_score) ==
  Round(Clamp(0, 10000,
              WeightEventProbability * event_probability
            + WeightCommercialValue * commercial_value
            + WeightContactQuality * contact_quality
            + WeightTiming * timing_score
            + WeightEvidence * evidence_score), 100)

\* scoring/decay.py: age, closed window and thin evidence, floored.
DecayFactor(signal_date, window_ends_on, evidence_score, today) ==
  LET age    == IF signal_date > today THEN 0 ELSE today - signal_date
      missed == window_ends_on # None /\ window_ends_on < today
      thin   == evidence_score < ThinEvidenceThreshold
      factor == AgeFactor[age] * (IF missed THEN MissedWindowPenalty ELSE 100)
                               * (IF thin THEN ThinEvidencePenalty ELSE 100)
  IN  Clamp(DecayFloor, 1000, Round(factor, 10000))

\* The published score: the base score times the decay factor.
Decayed(base_score, decay_factor) ==
  Round(Clamp(0, 100000, base_score * decay_factor), 1000)

\* scoring/classification.py: eligibility first, then the fixed bands.
Classify(score) ==
  IF score < MinQualifyingScore THEN "NOT_ELIGIBLE"
  ELSE IF score >= 95 THEN "EXCEPTIONAL"
  ELSE IF score >= 90 THEN "HOT"
  ELSE IF score >= 85 THEN "VERY_HIGH"
  ELSE IF score >= 80 THEN "HIGH" ELSE "QUALIFIED"

IsQualified(score) == score >= MinQualifyingScore
=============================================================================
