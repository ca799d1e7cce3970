SPECIFICATION AssessSpec
CONSTANTS
  WeightEventProbability = 35
  WeightCommercialValue = 25
  WeightContactQuality = 20
  WeightTiming = 10
  WeightEvidence = 10
  MinQualifyingScore = 70
  EventProbabilityCapUnconfirmed = 95
  EvidenceCapBase = 55
  EvidenceCapSlope = 45
  ContactQualityFloor = 40
  ContactQualityWeakMultiplier = 50
  ContactCorroborationBonus = 3
  ContactCorroborationMaxBonus = 9
  DecayGraceDays = 14
  DecayFloor = 200
  MissedWindowPenalty = 60
  ThinEvidenceThreshold = 40
  ThinEvidencePenalty = 90
  TimingContractedLeadDays = 21
  Horizon <- MCHorizon
  AgeFactor <- MCAgeFactor
  None = None
  Transform <- MCTransform
  RelevanceMinScore = 20
  RelevanceMinBusinessHits = 3
  RelevanceNoiseHits = 3
  RelevanceNoiseOverrideHits = 4
  RelevanceWeightEvent = 6
  RelevanceWeightBusiness = 5
  RelevanceWeightCorporate = 3
  RelevanceEventSufficiencyHits = 2
  Texts <- MCTexts
  MaxHits = 4
  Leads <- MCLeads
  Figures <- MCFigures
  MaxFacts = 3
INVARIANT ThinLeadNeverQualifies
INVARIANT AnnouncementsKept
PROPERTY OnlyAdverseFactsCost
CHECK_DEADLOCK FALSE
