SPECIFICATION Spec
CONSTANTS
  WeightEventProbability = 35
  WeightCommercialValue = 25
  WeightContactQuality = 20
  WeightTiming = 10
  WeightEvidence = 10
  MinQualifyingScore = 70
  EventProbabilityCapUnconfirmed = 95
  EvidenceCapBase = 55
  EvidenceCapSlope = 45
  ContactQualityFloor = 40
  ContactQualityWeakMultiplier = 50
  ContactCorroborationBonus = 3
  ContactCorroborationMaxBonus = 9
  DecayGraceDays = 14
  DecayFloor = 200
  MissedWindowPenalty = 60
  ThinEvidenceThreshold = 40
  ThinEvidencePenalty = 90
  TimingContractedLeadDays = 21
  Horizon <- MCHorizon
  AgeFactor <- MCAgeFactor
  Transform <- MCTransform
  None = None
  c1 = c1
  ann = ann
  bob = bob
  mailA = mailA
  mailB = mailB
  inA = inA
  Payloads <- MCPayloads
  Sessions = {s1, s2}
  MaxContacts = 3
  Preference <- MCPreference
PROPERTY KnownStays
INVARIANT StatusIsOfTheAddress
INVARIANT ScoreIsOfTheContact
INVARIANT RereadFindsItsContact
PROPERTY FailsOnlyOnSplits
PROPERTY RouteNeverWorsens
