SPECIFICATION Spec
CONSTANTS
  WeightEventProbability = 35
  WeightCommercialValue = 25
  WeightContactQuality = 20
  WeightTiming = 10
  WeightEvidence = 10
  MinQualifyingScore = 70
  EventProbabilityCapUnconfirmed = 95
  EvidenceCapBase = 55
  EvidenceCapSlope = 45
  ContactQualityFloor = 40
  ContactQualityWeakMultiplier = 50
  ContactCorroborationBonus = 3
  ContactCorroborationMaxBonus = 9
  DecayGraceDays = 14
  DecayFloor = 200
  MissedWindowPenalty = 60
  ThinEvidenceThreshold = 40
  ThinEvidencePenalty = 90
  TimingContractedLeadDays = 21
  Horizon <- MCHorizon
  AgeFactor <- MCAgeFactor
  None = None
  NoRow = NoRow
  o1 = o1
  c1 = c1
  Contacts = {k1}
  Opportunities = {o1}
  Companies = {c1}
  CompanyOf <- MCCompanyOf
  Confirmed = {o1}
  TestSourced = {}
  ContactCompany <- MCContactCompany
  ListedUnder <- ListedOnce
  ContactScores = {90}
  Extractions <- MCExtractions
  PublicationDays = {0}
  Days = {0, 20, 40}
  HumanStatuses = {"CONTACTED", "WON"}
  TopN = 1
INVARIANT NoPastEventRanked
CHECK_DEADLOCK FALSE
