------------------------------- MODULE Rating --------------------------------
(***************************************************************************)
(* What single facts are worth (scoring/scales.py), and the component      *)
(* scores made of them: evidence, commercial value, event probability      *)
(* before its caps, and the quality of one contact.                        *)
(*                                                                         *)
(* A fact nobody has reported is UNKNOWN, or None where it is a number or  *)
(* a yes or no.  Every weighted mean is taken over the whole set of        *)
(* factors, whose weights sum to 100.                                      *)
(***************************************************************************)
EXTENDS Scoring

CONSTANT
  Transform         \* 100 * (raw / 100) ^ event_probability_exponent, by whole points

\* The transform keeps 0 and 100, pulls everything between them down, and its
\* order (for an exponent of at least one).
ASSUME TransformAssumption ==
  /\ Transform \in [Score -> Score]
  /\ Transform[0] = 0 /\ Transform[100] = 100
  /\ \A p \in Score : Transform[p] =< p
  /\ \A p, q \in Score : p =< q => Transform[p] =< Transform[q]

\* Fault: an unknown level is worth the middle of its scale.
MidpointLevelScores == [LOW |-> 25, MEDIUM |-> 55, HIGH |-> 85, UNKNOWN |-> 55]

LevelScores == [LOW |-> 25, MEDIUM |-> 55, HIGH |-> 85, UNKNOWN |-> 30]

\* Fault: an unknown size or head count is worth the middle of its scale.
MidpointBandScores == <<25, 50, 75, 100, 63>>

\* The four steps of SIZE_SCORES and ATTENDEE_SCORES, smallest first, and unknown.
BandScores == <<25, 50, 75, 100, 35>>

SizeScores ==
  [SMALL |-> BandScores[1], MEDIUM |-> BandScores[2], LARGE |-> BandScores[3],
   ENTERPRISE |-> BandScores[4], UNKNOWN |-> BandScores[5]]
AttendeeScores ==
  [UNDER_50 |-> BandScores[1], FROM_50_TO_200 |-> BandScores[2],
   FROM_200_TO_500 |-> BandScores[3], OVER_500 |-> BandScores[4], UNKNOWN |-> BandScores[5]]
ScaleScores == [SMALL |-> 25, MEDIUM |-> 50, LARGE |-> 75, MAJOR |-> 100, UNKNOWN |-> 30]

TriState(b) == IF b = None THEN 35 ELSE IF b THEN 88 ELSE 25

\* base + step * count, flattening out at 100.
CountScore(count, base, step) == IF count = None THEN 30 ELSE Clamp(0, 100, base + step * count)

\* An estimate nobody made is neither a zero nor a midpoint.
Estimate(ai) == IF ai = None THEN 30 ELSE ai

-----------------------------------------------------------------------------
(***************************************************************************)
(* The component scores of a dossier: what is known of one lead.           *)
(***************************************************************************)
EvidenceScore(d) ==
  Round(Clamp(0, 10000,
              45 * d.source_tier
            + 25 * d.source_confidence
            + 10 * (IF d.dated THEN 100 ELSE 30)
            + 10 * d.extraction_confidence
            + 10 * CountScore(d.corroborating_sources - 1, 40, 30)), 100)

\* A dossier that recommends no service says nothing of its scope.
CommercialValue(d) ==
  Round(Clamp(0, 10000,
              20 * SizeScores[d.company_size]
            + 18 * AttendeeScores[d.attendee_band]
            + 18 * LevelScores[d.production_complexity]
            + 14 * CountScore(IF d.services = 0 THEN None ELSE d.services, 25, 9)
            + 10 * LevelScores[d.repeat_potential]
            + 10 * LevelScores[d.brand_value]
            + 10 * Estimate(d.commercial_estimate)), 100)

\* raw_event_probability, to the whole point.
RawEventProbability(d) ==
  Round(Clamp(0, 10000,
              24 * d.signal_strength
            + 12 * ScaleScores[d.announcement_scale]
            + 11 * SizeScores[d.company_size]
            + 8 * TriState(d.has_event_history)
            + 7 * LevelScores[d.marketing_activity]
            + 5 * LevelScores[d.comms_activity]
            + 7 * LevelScores[d.ecosystem_breadth]
            + 5 * CountScore(d.stakeholder_count, 20, 8)
            + 6 * TriState(d.executive_involvement)
            + 5 * TimingScore[d.window]
            + 10 * Estimate(d.probability_estimate)), 100)

\* score_opportunity: the base score of a dossier, whose roster is rolled up already.
DossierScore(d) ==
  LET evidence == EvidenceScore(d)
  IN  BaseScore(EventProbability(Transform[RawEventProbability(d)], evidence,
                                 AssertionFor(d.confirmed, d.official)),
                CommercialValue(d), d.contact_quality, TimingScore[d.window], evidence)

-----------------------------------------------------------------------------
(***************************************************************************)
(* scoring/contact_quality.py: one contact.  A title is what its keywords  *)
(* are worth, for seniority and for the ownership of a budget.             *)
(***************************************************************************)
DepartmentRelevance(department) ==
  CASE department \in {"EVENTS", "MARKETING"} -> 100
    [] department = "CORPORATE_COMMUNICATIONS" -> 95
    [] department = "COMMUNICATIONS" -> 90
    [] department = "PR" -> 85
    [] department = "PROCUREMENT" -> 80
    [] department = "BUSINESS_DEVELOPMENT" -> 70
    [] department = "EXECUTIVE_OFFICE" -> 65
    [] department = "HR" -> 60
    [] department = "OTHER" -> 25
    [] department = "UNKNOWN" -> 20

EmailStatusScores == [VERIFIED |-> 100, PUBLIC |-> 80, INFERRED |-> 35, UNKNOWN |-> 20]

Title == [seniority : {20, 40, 50, 65, 78, 90, 100}, ownership : {30, 70, 85, 100}]
Untitled == [seniority |-> 20, ownership |-> 30]

\* A profile lifts weak evidence to 70 and strong evidence by ten.
EvidenceOfContact(email_status, has_linkedin) ==
  LET s == EmailStatusScores[email_status]
  IN  IF has_linkedin THEN Clamp(70, 100, s + 10) ELSE s

\* score_contact; the confidence of the source is a percentage.
ContactScore(job_title, department, email_status, has_linkedin, source_confidence) ==
  LET title == IF job_title = None THEN Untitled ELSE job_title
  IN  Round(10000 * (35 * title.seniority + 30 * DepartmentRelevance(department)
                       + 15 * title.ownership)
            + 20 * EvidenceOfContact(email_status, has_linkedin)
                 * (6000 + 40 * Clamp(0, 100, source_confidence)), 1000000)
=============================================================================
