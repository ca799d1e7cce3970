-------------------------- MODULE Opportunity_proofs --------------------------
(***************************************************************************)
(* Facts about the scoring engine and the writes to rows, for all          *)
(* settings and all inputs: every number the engine returns is in range,   *)
(* publishing keeps the order of the decay factors, and a factor never     *)
(* rises as the days go by; each write gives a row of the table that adds  *)
(* up and carries a decay factor it has earned.                            *)
(***************************************************************************)
EXTENDS Store, FiniteSetTheorems, WellFoundedInduction, TLAPS

(***************************************************************************)
(* Rounding by the two divisors the engine uses.                           *)
(***************************************************************************)
\* Rounding to whole points keeps the order.
LEMMA Round1000Monotone ==
  ASSUME NEW m \in Nat, NEW n \in Nat, m =< n
  PROVE  Round(m, 1000) =< Round(n, 1000)
BY SMT DEF Round

\* Rounding to whole thousandths keeps the order.
LEMMA Round10000Monotone ==
  ASSUME NEW m \in Nat, NEW n \in Nat, m =< n
  PROVE  Round(m, 10000) =< Round(n, 10000)
BY SMT DEF Round

\* A product of a score in 0..100 and 1000 thousandths rounds to a score.
LEMMA Round1000Range ==
  ASSUME NEW n \in Nat, n =< 100000
  PROVE  Round(n, 1000) \in Score
<1>1. Round(0, 1000) = 0 /\ Round(100000, 1000) = 100
  BY SMT DEF Round
<1>2. Round(n, 1000) \in Int
  BY SMT DEF Round
<1>3. Round(0, 1000) =< Round(n, 1000)
  BY Round1000Monotone, SMT
<1>4. Round(n, 1000) =< Round(100000, 1000)
  BY Round1000Monotone, SMT
<1> QED BY <1>1, <1>2, <1>3, <1>4, SMT DEF Score

\* A percentage of at most 100 points rounds to a score.
LEMMA Round100Range ==
  ASSUME NEW n \in Nat, n =< 10000
  PROVE  Round(n, 100) \in Score
<1>1. Round(n, 100) \in Int /\ 0 =< Round(n, 100)
  BY SMT DEF Round
<1>2. Round(n, 100) =< 100
  BY SMT DEF Round
<1> QED BY <1>1, <1>2, SMT DEF Score

\* Rounding a natural number to thousandths gives a natural number.
LEMMA Round10000Type ==
  ASSUME NEW n \in Nat
  PROVE  Round(n, 10000) \in Nat
BY SMT DEF Round

(***************************************************************************)
(* Products.                                                               *)
(***************************************************************************)
\* Multiplying by a natural number keeps the order.
LEMMA ProductMonotone ==
  ASSUME NEW a \in Nat, NEW b \in Nat, NEW c \in Nat, a =< b
  PROVE  a * c \in Nat /\ b * c \in Nat /\ a * c =< b * c
<1>1. b * c - a * c = (b - a) * c
  BY SMT
<1>2. b - a \in Nat
  BY SMT
<1>3. \A m, n \in Nat : m * n \in Nat
  BY SMT
<1>4. (b - a) * c \in Nat /\ a * c \in Nat /\ b * c \in Nat
  BY <1>2, <1>3
<1> QED BY <1>1, <1>4, SMT

-----------------------------------------------------------------------------
(***************************************************************************)
(* The published score.                                                    *)
(***************************************************************************)
\* score_opportunity: the weighted total of components in range is a score.
LEMMA BaseScoreRange ==
  ASSUME NEW a \in Int, NEW b \in Int, NEW c \in Int, NEW d \in Int, NEW e \in Int
  PROVE  BaseScore(a, b, c, d, e) \in Score
<1> DEFINE total == WeightEventProbability * a + WeightCommercialValue * b
                  + WeightContactQuality * c + WeightTiming * d + WeightEvidence * e
<1>1. \A m, n \in Int : m * n \in Int
  BY SMT
<1>2. total \in Int
  BY <1>1, SettingsAssumption, SMT
<1>3. BaseScore(a, b, c, d, e) = Round(Clamp(0, 10000, total), 100)
  BY SMT DEF BaseScore
<1> HIDE DEF total
<1>4. Clamp(0, 10000, total) \in Nat /\ Clamp(0, 10000, total) =< 10000
  BY <1>2, SMT DEF Clamp
<1> QED BY <1>3, <1>4, Round100Range, SMT

\* A base score times a decay factor is a score.
LEMMA DecayedRange ==
  ASSUME NEW base \in Int, NEW factor \in Int
  PROVE  Decayed(base, factor) \in Score
<1>1. base * factor \in Int
  BY SMT
<1>2. \A n \in Int : Clamp(0, 100000, n) \in Nat /\ Clamp(0, 100000, n) =< 100000
  BY SMT DEF Clamp
<1> QED BY <1>1, <1>2, Round1000Range, SMT DEF Decayed

\* Publishing is monotone in the decay factor, rounding included.
LEMMA DecayedMonotone ==
  ASSUME NEW base \in Score, NEW low \in Factor, NEW high \in Factor, low =< high
  PROVE  Decayed(base, low) =< Decayed(base, high)
<1>1. base \in Nat /\ low \in Nat /\ high \in Nat
  BY SMT DEF Score, Factor
<1>2. /\ low * base \in Nat /\ high * base \in Nat /\ low * base =< high * base
      /\ base * low = low * base /\ base * high = high * base
  BY <1>1, ProductMonotone, SMT
<1>3. \A m, n \in Nat : m =< n => /\ Clamp(0, 100000, m) \in Nat
                                  /\ Clamp(0, 100000, n) \in Nat
                                  /\ Clamp(0, 100000, m) =< Clamp(0, 100000, n)
  BY SMT DEF Clamp
<1>4. \A m, n \in Nat : m =< n =>
        Round(Clamp(0, 100000, m), 1000) =< Round(Clamp(0, 100000, n), 1000)
  BY <1>3, Round1000Monotone
<1> QED BY <1>2, <1>4, SMT DEF Decayed

\* Every score has a band.
LEMMA ClassifyType ==
  ASSUME NEW score \in Score
  PROVE  Classify(score) \in Classification
BY Zenon DEF Classify, Classification

-----------------------------------------------------------------------------
(***************************************************************************)
(* Decay.  The factor before it is rounded and floored is a product of the *)
(* ageing and of two penalties; each of them can only fall with time.      *)
(***************************************************************************)
Age(signal_date, today) == IF signal_date > today THEN 0 ELSE today - signal_date

MissedPercent(window_ends_on, today) ==
  IF window_ends_on # None /\ window_ends_on < today THEN MissedWindowPenalty ELSE 100

ThinPercent(evidence_score) ==
  IF evidence_score < ThinEvidenceThreshold THEN ThinEvidencePenalty ELSE 100

Product(signal_date, window_ends_on, evidence_score, today) ==
  AgeFactor[Age(signal_date, today)] * MissedPercent(window_ends_on, today)
    * ThinPercent(evidence_score)

\* The factors of the product are natural numbers.
LEMMA DecayTypes ==
  ASSUME NEW signal_date \in Day, NEW window_ends_on \in Int \cup {None},
         NEW evidence_score \in Score, NEW today \in Day
  PROVE  /\ Age(signal_date, today) \in Day
         /\ AgeFactor[Age(signal_date, today)] \in Nat
         /\ MissedPercent(window_ends_on, today) \in Nat
         /\ ThinPercent(evidence_score) \in Nat
         /\ Product(signal_date, window_ends_on, evidence_score, today) \in Nat
<1>1. Age(signal_date, today) \in Day
  BY SettingsAssumption, SMT DEF Age, Day
<1>2. AgeFactor[Age(signal_date, today)] \in Nat
  BY <1>1, AgeFactorAssumption, SettingsAssumption, SMT
<1>3. MissedPercent(window_ends_on, today) \in Nat
  BY SettingsAssumption, SMT DEF MissedPercent
<1>4. ThinPercent(evidence_score) \in Nat
  BY SettingsAssumption, SMT DEF ThinPercent
<1>5. \A m, n \in Nat : m * n \in Nat
  BY SMT
<1> QED BY <1>1, <1>2, <1>3, <1>4, <1>5 DEF Product

\* The factor the engine returns is that product, rounded and floored.
LEMMA DecayFactorProduct ==
  ASSUME NEW signal_date, NEW window_ends_on, NEW evidence_score, NEW today
  PROVE  DecayFactor(signal_date, window_ends_on, evidence_score, today) =
           Clamp(DecayFloor, 1000,
                 Round(Product(signal_date, window_ends_on, evidence_score, today), 10000))
BY SMT DEF DecayFactor, Product, Age, MissedPercent, ThinPercent

\* compute_decay: the factor is positive and at most 1.
LEMMA DecayFactorRange ==
  ASSUME NEW signal_date \in Day, NEW window_ends_on \in Int \cup {None},
         NEW evidence_score \in Score, NEW today \in Day
  PROVE  DecayFactor(signal_date, window_ends_on, evidence_score, today) \in Factor
<1> DEFINE rounded == Round(Product(signal_date, window_ends_on, evidence_score, today), 10000)
<1>1. rounded \in Int
  BY DecayTypes, Round10000Type, SMT
<1> HIDE DEF rounded
<1>2. Clamp(DecayFloor, 1000, rounded) \in Factor
  BY <1>1, SettingsAssumption, SMT DEF Clamp, Factor
<1> QED BY <1>2, DecayFactorProduct DEF rounded

\* compute_decay: with the evidence as it is, time only lowers the factor.
LEMMA DecayFactorFalls ==
  ASSUME NEW signal_date \in Day, NEW window_ends_on \in Int \cup {None},
         NEW evidence_score \in Score, NEW early \in Day, NEW late \in Day, early =< late
  PROVE  DecayFactor(signal_date, window_ends_on, evidence_score, late) =<
           DecayFactor(signal_date, window_ends_on, evidence_score, early)
<1> DEFINE P(t) == Product(signal_date, window_ends_on, evidence_score, t)
           A(t) == AgeFactor[Age(signal_date, t)]
           M(t) == MissedPercent(window_ends_on, t)
           thin == ThinPercent(evidence_score)
<1>1. /\ A(late) \in Nat /\ M(late) \in Nat /\ A(early) \in Nat /\ M(early) \in Nat
      /\ thin \in Nat /\ P(late) \in Nat /\ P(early) \in Nat
  BY DecayTypes
<1>2. A(late) =< A(early)
  <2>1. Age(signal_date, early) =< Age(signal_date, late)
    BY SettingsAssumption, SMT DEF Age, Day
  <2> QED BY <2>1, DecayTypes, AgeFactorAssumption
<1>3. M(late) =< M(early)
  BY SettingsAssumption, SMT DEF MissedPercent, Day
<1>4. P(late) =< P(early)
  <2>1. A(late) * M(late) \in Nat /\ A(late) * M(late) =< A(early) * M(late)
    BY <1>1, <1>2, ProductMonotone
  <2>2. /\ A(early) * M(late) \in Nat /\ A(early) * M(early) \in Nat
        /\ A(early) * M(late) =< A(early) * M(early)
    <3>1. /\ M(late) * A(early) \in Nat /\ M(early) * A(early) \in Nat
          /\ M(late) * A(early) =< M(early) * A(early)
      BY <1>1, <1>3, ProductMonotone
    <3>2. \A m, n \in Nat : m * n = n * m
      BY SMT
    <3> QED BY <1>1, <3>1, <3>2
  <2>3. A(late) * M(late) =< A(early) * M(early)
    BY <2>1, <2>2, SMT
  <2>4. (A(late) * M(late)) * thin =< (A(early) * M(early)) * thin
    BY <1>1, <2>1, <2>2, <2>3, ProductMonotone
  <2> QED BY <2>4 DEF Product
<1>5. Round(P(late), 10000) =< Round(P(early), 10000)
  BY <1>1, <1>4, Round10000Monotone
<1>6. Round(P(late), 10000) \in Nat /\ Round(P(early), 10000) \in Nat
  BY <1>1, Round10000Type
<1>7. \A m, n \in Nat : m =< n => Clamp(DecayFloor, 1000, m) =< Clamp(DecayFloor, 1000, n)
  BY SettingsAssumption, SMT DEF Clamp
<1> QED BY <1>5, <1>6, <1>7, DecayFactorProduct

-----------------------------------------------------------------------------
(***************************************************************************)
(* The components.                                                         *)
(***************************************************************************)
\* There are finitely many scores.
LEMMA ScoreFinite == IsFiniteSet(Score)
<1>1. \A a, b \in Int : IsFiniteSet(a..b)
  BY FS_Interval, Zenon
<1>2. 0 \in Int /\ 100 \in Int
  BY SMT
<1> QED BY <1>1, <1>2, Zenon DEF Score

Above(n) == {m \in Score : n < m}

\* A set of scores has a greatest one: the one whose set of greater scores is
\* minimal for inclusion, which is well founded on finite sets.
LEMMA GreatestScore ==
  ASSUME NEW S \in SUBSET Score, S # {}
  PROVE  \E x \in S : \A y \in S : x >= y
<1> DEFINE T == {Above(s) : s \in S}
<1>1. \A s \in S : Above(s) \in SUBSET Score
  BY DEF Above
<1>2. T \subseteq FiniteSubsetsOf(Score) /\ T # {}
  <2>1. \A s \in S : IsFiniteSet(Above(s))
    BY <1>1, ScoreFinite, FS_Subset, Zenon
  <2> QED BY <1>1, <2>1, SMT DEF FiniteSubsetsOf
<1>3. \E t \in T : \A u \in T : <<u, t>> \notin StrictSubsetOrdering(Score)
  <2>1. IsWellFoundedOn(StrictSubsetOrdering(Score), FiniteSubsetsOf(Score))
    BY FS_StrictSubsetOrderingWellFounded, Zenon
  <2> HIDE DEF T
  <2> QED BY <1>2, <2>1, WFMin, Zenon
<1>4. PICK s \in S : \A u \in T : <<u, Above(s)>> \notin StrictSubsetOrdering(Score)
  BY <1>3, Zenon
<1>5. ASSUME NEW y \in S, s < y PROVE FALSE
  <2>1. Above(y) \subseteq Above(s)
    BY <1>5, SMT DEF Above, Score
  <2>2. y \in Above(s) /\ y \notin Above(y)
    BY <1>5, SMT DEF Above, Score
  <2>3. <<Above(y), Above(s)>> \in StrictSubsetOrdering(Score)
    BY <2>1, <2>2, <1>1, SMT DEF StrictSubsetOrdering
  <2> QED BY <2>3, <1>4, Zenon
<1> QED BY <1>5, SMT DEF Score

\* Max picks it.
LEMMA MaxScore ==
  ASSUME NEW S \in SUBSET Score, S # {}
  PROVE  Max(S) \in S
BY GreatestScore, Zenon DEF Max

\* score_opportunity's roll-up of any set of contacts is a score.
LEMMA ContactQualityRange ==
  ASSUME NEW contacts, IsFiniteSet(contacts), NEW score,
         \A k \in contacts : score[k] \in Score
  PROVE  ContactQuality(contacts, score) \in Score
<1> DEFINE best   == Max({score[k] : k \in contacts})
           others == Cardinality({k \in contacts : score[k] >= ContactQualityFloor}) - 1
           bonus  == IF ContactCorroborationBonus * others > ContactCorroborationMaxBonus
                     THEN ContactCorroborationMaxBonus ELSE ContactCorroborationBonus * others
<1>1. CASE contacts = {}
  <2>1. ContactQuality(contacts, score) = 0
    BY <1>1, Zenon DEF ContactQuality
  <2> QED BY <2>1, SMT DEF Score
<1>2. CASE contacts # {}
  <2>1. best \in Score
    <3>1. {score[k] : k \in contacts} \in SUBSET Score /\ {score[k] : k \in contacts} # {}
      BY <1>2, SMT
    <3> QED BY <3>1, MaxScore, Zenon
  <2>2. others \in Int
    <3>1. {k \in contacts : score[k] >= ContactQualityFloor} \in SUBSET contacts
      BY Zenon
    <3>2. Cardinality({k \in contacts : score[k] >= ContactQualityFloor}) \in Nat
      BY <3>1, FS_Subset, FS_CardinalityType, Zenon
    <3> QED BY <3>2, SMT
  <2> HIDE DEF others
  <2>3. bonus \in Int
    <3>1. \A m, n \in Int : m * n \in Int
      BY SMT
    <3>2. ContactCorroborationBonus * others \in Int
      BY <2>2, <3>1, SettingsAssumption, SMT
    <3> QED BY <3>2, SettingsAssumption, SMT
  <2> USE DEF others
  <2>4. ContactQuality(contacts, score) =
          IF best < ContactQualityFloor
          THEN Round(best * ContactQualityWeakMultiplier, 100)
          ELSE Clamp(0, 100, best + bonus)
    BY <1>2, Zenon DEF ContactQuality
  <2> HIDE DEF best, bonus, others
  <2>5. Round(best * ContactQualityWeakMultiplier, 100) \in Score
    <3>1. /\ best \in Nat /\ 100 \in Nat /\ ContactQualityWeakMultiplier \in Nat
          /\ best =< 100 /\ ContactQualityWeakMultiplier =< 100
      BY <2>1, SettingsAssumption, SMT DEF Score
    <3>2. /\ best * ContactQualityWeakMultiplier \in Nat
          /\ best * ContactQualityWeakMultiplier =< 100 * ContactQualityWeakMultiplier
      BY <3>1, ProductMonotone
    <3>3. best * ContactQualityWeakMultiplier =< 10000
      BY <3>1, <3>2, SMT
    <3> QED BY <3>2, <3>3, Round100Range
  <2>6. Clamp(0, 100, best + bonus) \in Score
    BY <2>1, <2>3, SMT DEF Clamp, Score
  <2> QED BY <2>4, <2>5, <2>6, Zenon
<1> QED BY <1>1, <1>2, Zenon

\* score_event_probability stays in range whatever the caps are set to.
LEMMA EventProbabilityRange ==
  ASSUME NEW raw \in Score, NEW evidence \in Score, NEW assertion
  PROVE  EventProbability(raw, evidence, assertion) \in Score
<1> DEFINE evidence_cap == 100 * EvidenceCapBase + EvidenceCapSlope * evidence
           by_evidence  == IF 100 * raw > evidence_cap THEN evidence_cap ELSE 100 * raw
           unconfirmed  == 100 * EventProbabilityCapUnconfirmed
           capped       == IF assertion # "FACT" /\ by_evidence > unconfirmed
                           THEN unconfirmed ELSE by_evidence
<1>1. evidence_cap \in Int
  <2>1. EvidenceCapSlope * evidence \in Int
    BY SettingsAssumption, SMT DEF Score
  <2> QED BY <2>1, SettingsAssumption, SMT
<1>2. capped \in Int
  <2> HIDE DEF evidence_cap
  <2> QED BY <1>1, SettingsAssumption, SMT DEF Score
<1>3. EventProbability(raw, evidence, assertion) = Round(Clamp(0, 10000, capped), 100)
  BY SMT DEF EventProbability
<1> HIDE DEF capped
<1>4. Clamp(0, 10000, capped) \in Nat /\ Clamp(0, 10000, capped) =< 10000
  BY <1>2, SMT DEF Clamp
<1> QED BY <1>3, <1>4, Round100Range

\* The window tables and the timing verdict are typed.
LEMMA TimingTypes ==
  ASSUME NEW window \in Window, NEW signal_date \in Int
  PROVE  /\ TimingScore[window] \in Score
         /\ WindowEndDate(window, signal_date) \in Int \cup {None}
         /\ \A event_date, occurred, ends, today :
              ClassifyTiming(event_date, occurred, ends, today) \in Timing
<1>1. TimingScore[window] \in Score
  BY SMT DEF TimingScore, Window, Score
<1>2. WindowDays[window] \in Int
  BY SMT DEF WindowDays, Window
<1>3. WindowEndDate(window, signal_date) \in Int \cup {None}
  BY <1>2, SMT DEF WindowEndDate
<1>4. \A event_date, occurred, ends, today :
        ClassifyTiming(event_date, occurred, ends, today) \in Timing
  BY Zenon DEF ClassifyTiming, TimingOfLead, Timing
<1> QED BY <1>1, <1>3, <1>4

-----------------------------------------------------------------------------
(***************************************************************************)
(* The writes to one row.                                                  *)
(***************************************************************************)
\* BestContact names one of the contacts it is given.
LEMMA BestContactType ==
  ASSUME NEW contacts, NEW score, \A k \in contacts : score[k] \in Score
  PROVE  BestContact(contacts, score) \in contacts \cup {None}
<1>1. CASE contacts = {}
  BY <1>1, Zenon DEF BestContact
<1>2. CASE contacts # {}
  <2>1. \E x \in {score[k] : k \in contacts} : \A y \in {score[k] : k \in contacts} : x >= y
    <3>1. {score[k] : k \in contacts} \in SUBSET Score /\ {score[k] : k \in contacts} # {}
      BY <1>2, SMT
    <3> QED BY <3>1, GreatestScore, Zenon
  <2>2. \E k \in contacts : \A other \in contacts : score[other] =< score[k]
    BY <2>1, SMT DEF Score
  <2> QED BY <1>2, <2>2, Zenon DEF BestContact
<1> QED BY <1>1, <1>2

\* The decay factor of a row lies in the column's range and only falls.
LEMMA DecayOfRow ==
  ASSUME NEW row \in OpportunityRow, NEW early \in Day, NEW late \in Day, early =< late
  PROVE  /\ DecayOf(row, late) \in Factor
         /\ DecayOf(row, early) \in Factor
         /\ DecayOf(row, late) =< DecayOf(row, early)
<1>1. /\ row.signal_date \in Day /\ row.window_ends_on \in Int \cup {None}
      /\ row.evidence_score \in Score
  BY Zenon DEF OpportunityRow
<1>2. DecayOf(row, late) \in Factor /\ DecayOf(row, early) \in Factor
  BY <1>1, DecayFactorRange, Zenon DEF DecayOf
<1>3. DecayOf(row, late) =< DecayOf(row, early)
  BY <1>1, DecayFactorFalls, Zenon DEF DecayOf
<1> QED BY <1>2, <1>3, Zenon

\* A decay factor earned by one day is still earned on a later one.
LEMMA EarnedLater ==
  ASSUME NEW row, NEW early \in Day, NEW late \in Day, early =< late, Earned(row, early)
  PROVE  Earned(row, late)
BY SMT DEF Earned, Day

-----------------------------------------------------------------------------
\* The columns that remember a movement keep their types.
LEMMA MovedType ==
  ASSUME NEW row \in OpportunityRow, NEW today \in Day
  PROVE  Moved(row, today) \in OpportunityRow
BY Zenon DEF OpportunityRow, Moved

\* The base score of a row's components is a score.
LEMMA BaseOfType ==
  ASSUME NEW row \in OpportunityRow
  PROVE  BaseOf(row) \in Score
<1>1. /\ row.event_probability \in Int /\ row.commercial_value \in Int
      /\ row.contact_quality \in Int /\ row.timing_score \in Int /\ row.evidence_score \in Int
  BY SMT DEF OpportunityRow, Score
<1> QED BY <1>1, BaseScoreRange, Zenon DEF BaseOf

\* A base score at a row's decay factor is a score.
LEMMA DecayedType ==
  ASSUME NEW row \in OpportunityRow, NEW base \in Score
  PROVE  Decayed(base, row.decay_factor) \in Score
<1>1. base \in Int /\ row.decay_factor \in Int
  BY SMT DEF OpportunityRow, Score, Factor
<1> QED BY <1>1, DecayedRange, Zenon

\* rescore_all leaves a row with today's decay factor, whose score follows from the
\* base stored beside it; a row that added up still does, and one that also carried
\* a factor it had earned is scored no higher than before.
LEMMA RescoredRow ==
  ASSUME NEW row \in OpportunityRow, NEW today \in Day
  PROVE  LET new == Rescored(row, today)
         IN  /\ new \in OpportunityRow
             /\ new.score = Decayed(new.base_score, new.decay_factor)
             /\ new.decay_factor = DecayOf(new, today)
             /\ Earned(new, today)
             /\ AddsUp(row) => AddsUp(new)
             /\ AddsUp(row) /\ Earned(row, today) => new.score =< row.score
<1> DEFINE decay == DecayOf(row, today)
           total == Decayed(row.base_score, decay)
           new   == [Moved(row, today) EXCEPT !.decay_factor = decay, !.score = total,
                                              !.classification = Classify(total)]
<1>1. today \in 0..today
  BY SMT DEF Day
<1>2. decay \in Factor
  BY DecayOfRow, SMT DEF Day
<1>3. row.base_score \in Score
  BY Zenon DEF OpportunityRow
<1>4. total \in Score
  <2>1. row.base_score \in Int /\ decay \in Int
    BY <1>2, <1>3, SMT DEF Score, Factor
  <2> QED BY <2>1, DecayedRange, Zenon
<1>5. Classify(total) \in Classification
  BY <1>4, ClassifyType
<1>6. AddsUp(row) /\ Earned(row, today) => total =< row.score
  <2>1. SUFFICES ASSUME AddsUp(row), Earned(row, today) PROVE total =< row.score
    OBVIOUS
  <2>2. PICK d \in 0..today : row.decay_factor = DecayOf(row, d)
    BY <2>1, Zenon DEF Earned
  <2>3. d \in Day /\ d =< today
    BY SettingsAssumption, SMT DEF Day
  <2>4. row.decay_factor \in Factor /\ decay =< row.decay_factor
    BY <2>2, <2>3, DecayOfRow
  <2>5. Decayed(row.base_score, decay) =< Decayed(row.base_score, row.decay_factor)
    <3> HIDE DEF decay
    <3> QED BY <1>2, <1>3, <2>4, DecayedMonotone
  <2> QED BY <2>1, <2>5, Zenon DEF AddsUp
<1>7. Rescored(row, today) =
        IF total = row.score /\ decay = row.decay_factor THEN row ELSE new
  BY Zenon DEF Rescored
<1>8. CASE total = row.score /\ decay = row.decay_factor
  <2>1. Rescored(row, today) = row
    BY <1>7, <1>8, Zenon
  <2>2. Earned(row, today)
    BY <1>1, <1>8, Zenon DEF Earned
  <2>3. row.score =< row.score
    BY SMT DEF OpportunityRow, Score
  <2> QED BY <1>8, <2>1, <2>2, <2>3, Zenon
<1>9. CASE ~(total = row.score /\ decay = row.decay_factor)
  <2>1. Rescored(row, today) = new
    BY <1>7, <1>9, Zenon
  <2> HIDE DEF decay, total
  <2>2. new \in OpportunityRow
    <3>1. Moved(row, today) \in OpportunityRow
      BY MovedType, Zenon
    <3> QED BY <1>2, <1>4, <1>5, <3>1, Zenon DEF OpportunityRow
  <2>3. /\ new.decay_factor = decay /\ new.score = total
        /\ new.classification = Classify(total)
        /\ new.base_score = row.base_score
        /\ new.previous_score = row.score /\ new.previous_classification = row.classification
        /\ new.event_probability = row.event_probability
        /\ new.commercial_value = row.commercial_value
        /\ new.contact_quality = row.contact_quality
        /\ new.timing_score = row.timing_score
        /\ new.evidence_score = row.evidence_score
        /\ new.signal_date = row.signal_date /\ new.window_ends_on = row.window_ends_on
    BY SMT DEF OpportunityRow, Moved
  <2> HIDE DEF new
  <2>4. BaseOf(new) = BaseOf(row) /\ DecayOf(new, today) = decay
    BY <2>3, Zenon DEF BaseOf, DecayOf, decay
  <2>5. row.score # None /\ row.classification # None
    BY SettingsAssumption, RowAssumption, SMT DEF OpportunityRow, Score
  <2>6. total = Decayed(row.base_score, decay)
    BY DEF total
  <2>7. AddsUp(row) => AddsUp(new)
    BY <2>3, <2>4, <2>5, <2>6, Zenon DEF AddsUp
  <2>8. Earned(new, today) /\ new.decay_factor = DecayOf(new, today)
    BY <1>1, <2>3, <2>4, Zenon DEF Earned
  <2> QED BY <1>6, <2>1, <2>2, <2>3, <2>6, <2>7, <2>8, Zenon
<1> QED BY <1>8, <1>9, Zenon

\* The columns a refresh leaves alone, and the one that says what it is for.
LEMMA RefreshedColumns ==
  ASSUME NEW row \in OpportunityRow, NEW contacts, NEW score, NEW today
  PROVE  LET new == Refreshed(row, contacts, score, today)
         IN  /\ new.contact_quality = ContactQuality(contacts, score)
             /\ new.status = row.status
             /\ new.event_probability = row.event_probability
             /\ new.created_at = row.created_at
             /\ new.decay_factor = row.decay_factor
             /\ \A d : DecayOf(new, d) = DecayOf(row, d)
BY SMT DEF Refreshed, MovedIf, Moved, DecayOf, OpportunityRow

\* The columns a decay pass leaves alone.
LEMMA RescoredColumns ==
  ASSUME NEW row \in OpportunityRow, NEW today
  PROVE  LET new == Rescored(row, today)
         IN  /\ new.contact_quality = row.contact_quality
             /\ new.status = row.status
             /\ new.event_probability = row.event_probability
             /\ new.created_at = row.created_at
BY SMT DEF Rescored, Moved, OpportunityRow

\* A refresh keeps the decay factor, and what it was earned by.
LEMMA RefreshedEarned ==
  ASSUME NEW row \in OpportunityRow, NEW contacts, NEW score, NEW today, Earned(row, today)
  PROVE  Earned(Refreshed(row, contacts, score, today), today)
<1> DEFINE new == Refreshed(row, contacts, score, today)
<1>1. new.decay_factor = row.decay_factor /\ \A d : DecayOf(new, d) = DecayOf(row, d)
  BY RefreshedColumns, SMT
<1> HIDE DEF new
<1>2. Earned(new, today)
  BY <1>1, Zenon DEF Earned
<1> QED BY <1>2 DEF new

\* refresh_contact_quality leaves a row at the decay factor it had; one that added
\* up still does.
LEMMA RefreshedRow ==
  ASSUME NEW row \in OpportunityRow, NEW contacts \in SUBSET Contacts, NEW score,
         \A k \in contacts : score[k] \in Score, NEW today \in Day
  PROVE  /\ Refreshed(row, contacts, score, today) \in OpportunityRow
         /\ AddsUp(row) => AddsUp(Refreshed(row, contacts, score, today))
         /\ Earned(row, today) => Earned(Refreshed(row, contacts, score, today), today)
<1> DEFINE quality == ContactQuality(contacts, score)
           base    == BaseOf([row EXCEPT !.contact_quality = quality])
           total   == Decayed(base, row.decay_factor)
           best    == BestContact(contacts, score)
           pointed == [row EXCEPT !.primary_contact = best]
           moved   == MovedIf(total # row.score, pointed, today)
           new     == [moved EXCEPT !.contact_quality = quality, !.base_score = base,
                                    !.score = total, !.classification = Classify(total)]
<1>1. best \in Contacts \cup {None}
  BY BestContactType, Zenon
<1>2. quality \in Score
  BY ContactQualityRange, RowAssumption, FS_Subset, Zenon
<1>3. base \in Score
  <2>1. [row EXCEPT !.contact_quality = quality] \in OpportunityRow
    BY <1>2, Zenon DEF OpportunityRow
  <2> QED BY <2>1, BaseOfType
<1>4. total \in Score
  BY <1>3, DecayedType
<1>5. Classify(total) \in Classification
  BY <1>4, ClassifyType
<1>6. pointed \in OpportunityRow
  BY <1>1, Zenon DEF OpportunityRow
<1>7. AddsUp(row) => AddsUp(pointed)
  <2> HIDE DEF best
  <2>1. /\ BaseOf(pointed) = BaseOf(row)
        /\ pointed.base_score = row.base_score /\ pointed.score = row.score
        /\ pointed.decay_factor = row.decay_factor
        /\ pointed.classification = row.classification
        /\ pointed.previous_score = row.previous_score
        /\ pointed.previous_classification = row.previous_classification
    BY SMT DEF OpportunityRow, BaseOf
  <2> HIDE DEF pointed
  <2> QED BY <2>1, Zenon DEF AddsUp
<1>8. CASE quality = row.contact_quality /\ base = row.base_score /\ total = row.score
  <2>1. Refreshed(row, contacts, score, today) = pointed
    BY <1>8, Zenon DEF Refreshed
  <2> QED BY <2>1, <1>6, <1>7, RefreshedEarned, Zenon
<1>9. CASE ~(quality = row.contact_quality /\ base = row.base_score /\ total = row.score)
  <2>1. Refreshed(row, contacts, score, today) = new
    BY <1>9, Zenon DEF Refreshed
  <2>2. moved \in OpportunityRow
    BY <1>6, MovedType, Zenon DEF MovedIf
  <2>3. new \in OpportunityRow
    <3> HIDE DEF moved, quality, base, total
    <3> QED BY <1>2, <1>3, <1>4, <1>5, <2>2, Zenon DEF OpportunityRow
  <2>4. AddsUp(row) => AddsUp(new)
    <3>1. base = BaseOf(new)
      <4> HIDE DEF quality, total, best
      <4> QED BY SMT DEF BaseOf, OpportunityRow, MovedIf, Moved
    <3>2. /\ new.base_score = base /\ new.score = total /\ new.decay_factor = row.decay_factor
          /\ new.classification = Classify(total)
      <4> HIDE DEF quality, total, best, base
      <4> QED BY SMT DEF OpportunityRow, MovedIf, Moved
    <3>3. \/ /\ new.previous_score = row.previous_score
             /\ new.previous_classification = row.previous_classification
          \/ /\ new.previous_score = row.score
             /\ new.previous_classification = row.classification
      <4> HIDE DEF quality, total, best, base
      <4> QED BY SMT DEF OpportunityRow, MovedIf, Moved
    <3>4. row.score # None /\ row.classification # None
      BY SettingsAssumption, RowAssumption, SMT DEF OpportunityRow, Score
    <3>5. total = Decayed(base, row.decay_factor)
      BY Zenon
    <3> HIDE DEF new
    <3> QED BY <3>1, <3>2, <3>3, <3>4, <3>5, Zenon DEF AddsUp
  <2> QED BY <2>1, <2>3, <2>4, RefreshedEarned, Zenon
<1> QED BY <1>8, <1>9, Zenon

-----------------------------------------------------------------------------
\* Scoring an extraction over a row of the table leaves its identity and status
\* alone and gives a row of the table, with today's decay factor, whose score
\* columns add up and whose memory is the old one or that of this movement.
LEMMA ScoredRow ==
  ASSUME NEW row \in OpportunityRow, NEW x \in Extraction, NEW confirmed,
         NEW contacts \in SUBSET Contacts, NEW score,
         \A k \in contacts : score[k] \in Score, NEW today \in Day
  PROVE  LET new == Scored(row, x, confirmed, contacts, score, today)
         IN  /\ new \in OpportunityRow
             /\ new.contact_quality = ContactQuality(contacts, score)
             /\ new.status = row.status
             /\ new.created_at = row.created_at
             /\ new.base_score = BaseOf(new)
             /\ new.score = Decayed(new.base_score, new.decay_factor)
             /\ new.classification = Classify(new.score)
             /\ new.decay_factor = DecayOf(new, today)
             /\ \/ /\ new.previous_score = row.previous_score
                   /\ new.previous_classification = row.previous_classification
                \/ /\ new.previous_score = row.score
                   /\ new.previous_classification = row.classification
<1> DEFINE assertion == AssertionFor(confirmed, x.official)
           probability == EventProbability(x.raw_probability, x.evidence_score, assertion)
           quality == ContactQuality(contacts, score)
           timing  == TimingScore[x.window]
           base    == BaseScore(probability, x.commercial_value, quality, timing, x.evidence_score)
           ends    == WindowEndDate(x.window, row.signal_date)
           decay   == DecayFactor(row.signal_date, ends, x.evidence_score, today)
           total   == Decayed(base, decay)
           best    == BestContact(contacts, score)
           verdict == ClassifyTiming(x.event_date, x.already_occurred, ends, today)
           moved   == MovedIf(row.score # total, row, today)
           new     == [moved EXCEPT
              !.event_probability = probability, !.commercial_value = x.commercial_value,
              !.contact_quality = quality, !.timing_score = timing,
              !.evidence_score = x.evidence_score, !.base_score = base,
              !.decay_factor = decay, !.score = total, !.classification = Classify(total),
              !.window_ends_on = ends, !.primary_contact = best, !.timing_class = verdict]
<1>1. /\ x.raw_probability \in Score /\ x.commercial_value \in Score
      /\ x.evidence_score \in Score /\ x.window \in Window
  BY Zenon DEF Extraction
<1>2. row.signal_date \in Day /\ row.signal_date \in Int
  BY SMT DEF OpportunityRow, Day
<1>3. probability \in Score
  BY <1>1, EventProbabilityRange, Zenon
<1>4. quality \in Score
  BY ContactQualityRange, RowAssumption, FS_Subset, Zenon
<1>5. timing \in Score /\ ends \in Int \cup {None} /\ verdict \in Timing
  BY <1>1, <1>2, TimingTypes, Zenon
<1>6. decay \in Factor
  BY <1>1, <1>2, <1>5, DecayFactorRange, Zenon
<1>7. base \in Score
  <2>1. Score \subseteq Int
    BY SMT DEF Score
  <2> QED BY <1>1, <1>3, <1>4, <1>5, <2>1, BaseScoreRange, Zenon
<1>8. total \in Score
  <2>1. base \in Int /\ decay \in Int
    BY <1>6, <1>7, SMT DEF Score, Factor
  <2> QED BY <2>1, DecayedRange, Zenon
<1>9. best \in Contacts \cup {None}
  BY BestContactType, Zenon
<1>10. moved \in OpportunityRow
  BY MovedType, Zenon DEF MovedIf
<1>11. Classify(total) \in Classification
  BY <1>8, ClassifyType
<1>12. Scored(row, x, confirmed, contacts, score, today) = new
  BY Zenon DEF Scored
<1> HIDE DEF probability, quality, timing, base, ends, decay, total, best, verdict
<1>13. new \in OpportunityRow
  <2> HIDE DEF moved
  <2> QED BY <1>1, <1>3, <1>4, <1>5, <1>6, <1>7, <1>8, <1>9, <1>10, <1>11, ZenonT(90)
       DEF OpportunityRow
<1>14. /\ new.event_probability = probability /\ new.commercial_value = x.commercial_value
       /\ new.contact_quality = quality /\ new.timing_score = timing
       /\ new.evidence_score = x.evidence_score /\ new.base_score = base
       /\ new.decay_factor = decay /\ new.score = total /\ new.classification = Classify(total)
       /\ new.window_ends_on = ends
  <2> HIDE DEF moved
  <2> QED BY <1>10, SMT DEF OpportunityRow
<1>15. /\ new.status = row.status /\ new.created_at = row.created_at
       /\ new.signal_date = row.signal_date
       /\ \/ /\ new.previous_score = row.previous_score
             /\ new.previous_classification = row.previous_classification
          \/ /\ new.previous_score = row.score
             /\ new.previous_classification = row.classification
  BY SMT DEF OpportunityRow, MovedIf, Moved
<1> HIDE DEF new
<1>16. BaseOf(new) = base /\ DecayOf(new, today) = decay /\ total = Decayed(base, decay)
  <2>1. /\ base = BaseScore(probability, x.commercial_value, quality, timing, x.evidence_score)
        /\ decay = DecayFactor(row.signal_date, ends, x.evidence_score, today)
        /\ total = Decayed(base, decay)
    BY DEF base, decay, total
  <2> QED BY <1>14, <1>15, <2>1, Zenon DEF BaseOf, DecayOf
<1> QED BY <1>12, <1>13, <1>14, <1>15, <1>16, Zenon DEF quality

\* create_or_update_opportunity, the row already there: it has today's decay factor,
\* adds up if it did, and its status moves only from NEW, to QUALIFIED, if it qualifies.
LEMMA UpdatedRow ==
  ASSUME NEW row \in OpportunityRow, NEW x \in Extraction, NEW confirmed,
         NEW contacts \in SUBSET Contacts, NEW score,
         \A k \in contacts : score[k] \in Score, NEW today \in Day
  PROVE  LET new == Updated(row, x, confirmed, contacts, score, today)
         IN  /\ new \in OpportunityRow
             /\ AddsUp(row) => AddsUp(new)
             /\ new.decay_factor = DecayOf(new, today)
             /\ new.contact_quality = ContactQuality(contacts, score)
             /\ new.created_at = row.created_at
             /\ \/ new.status = row.status
                \/ row.status = "NEW" /\ new.status = "QUALIFIED" /\ IsQualified(new.score)
<1> DEFINE scored == Scored(row, x, confirmed, contacts, score, today)
           date   == IF x.event_date # None THEN x.event_date ELSE row.event_date
           status == IF row.status = "NEW" /\ IsQualified(scored.score)
                     THEN "QUALIFIED" ELSE row.status
           new    == [scored EXCEPT !.event_date = date, !.status = status]
<1>1. /\ scored \in OpportunityRow
      /\ scored.contact_quality = ContactQuality(contacts, score)
      /\ scored.created_at = row.created_at
      /\ scored.base_score = BaseOf(scored)
      /\ scored.score = Decayed(scored.base_score, scored.decay_factor)
      /\ scored.classification = Classify(scored.score)
      /\ scored.decay_factor = DecayOf(scored, today)
      /\ \/ /\ scored.previous_score = row.previous_score
            /\ scored.previous_classification = row.previous_classification
         \/ /\ scored.previous_score = row.score
            /\ scored.previous_classification = row.classification
  BY ScoredRow, SMT
<1>2. Updated(row, x, confirmed, contacts, score, today) = new
  BY Zenon DEF Updated
<1> HIDE DEF scored
<1>3. date \in Int \cup {None}
  BY SMT DEF Extraction, OpportunityRow
<1>4. status \in Status
  BY SMT DEF OpportunityRow, Status
<1>5. new \in OpportunityRow
  <2> HIDE DEF date, status
  <2> QED BY <1>1, <1>3, <1>4, Zenon DEF OpportunityRow
<1>6. /\ new.contact_quality = scored.contact_quality /\ new.created_at = scored.created_at
      /\ new.base_score = scored.base_score /\ new.score = scored.score
      /\ new.decay_factor = scored.decay_factor /\ new.classification = scored.classification
      /\ new.previous_score = scored.previous_score
      /\ new.previous_classification = scored.previous_classification
      /\ new.status = status
      /\ BaseOf(new) = BaseOf(scored) /\ DecayOf(new, today) = DecayOf(scored, today)
  <2> HIDE DEF date, status
  <2> QED BY <1>1, SMT DEF OpportunityRow, BaseOf, DecayOf
<1> HIDE DEF new
<1>7. AddsUp(row) => AddsUp(new)
  <2>1. row.score # None /\ row.classification # None
    BY SettingsAssumption, RowAssumption, SMT DEF OpportunityRow, Score
  <2> QED BY <1>1, <1>6, <2>1, Zenon DEF AddsUp
<1>8. \/ new.status = row.status
      \/ row.status = "NEW" /\ new.status = "QUALIFIED" /\ IsQualified(new.score)
  BY <1>6, Zenon
<1>9. /\ new.decay_factor = DecayOf(new, today)
      /\ new.contact_quality = ContactQuality(contacts, score)
      /\ new.created_at = row.created_at
  BY <1>1, <1>6, Zenon
<1> QED BY <1>2, <1>5, <1>7, <1>8, <1>9, Zenon

\* create_or_update_opportunity, a new row: it adds up with today's decay factor.
LEMMA CreatedRow ==
  ASSUME NEW x \in Extraction, NEW confirmed,
         NEW contacts \in SUBSET Contacts, NEW score,
         \A k \in contacts : score[k] \in Score,
         NEW signal_date \in Day, NEW created_at \in Nat, NEW today \in Day
  PROVE  LET new == Created(x, confirmed, contacts, score, signal_date, created_at, today)
         IN  /\ new \in OpportunityRow
             /\ AddsUp(new)
             /\ new.decay_factor = DecayOf(new, today)
             /\ new.contact_quality = ContactQuality(contacts, score)
             /\ new.created_at = created_at
<1> DEFINE assertion == AssertionFor(confirmed, x.official)
           blank ==
        [status |-> "NEW", assertion_level |-> assertion,
         primary_contact |-> None, event_probability |-> 0, commercial_value |-> 0,
         contact_quality |-> 0, timing_score |-> 0, evidence_score |-> 0,
         base_score |-> 0, decay_factor |-> 1000, score |-> 0,
         classification |-> "NOT_ELIGIBLE", signal_date |-> signal_date,
         opportunity_window |-> x.window, window_ends_on |-> None,
         event_date |-> x.event_date, timing_class |-> "FUTURE_ACCOUNT",
         previous_score |-> None, previous_classification |-> None,
         score_changed_at |-> None, created_at |-> created_at]
           scored == Scored(blank, x, confirmed, contacts, score, today)
           status == IF IsQualified(scored.score) THEN "QUALIFIED" ELSE "NEW"
           new    == [scored EXCEPT !.previous_score = None, !.previous_classification = None,
                                    !.score_changed_at = None, !.status = status]
<1>1. blank \in OpportunityRow
  <2>1. x.window \in Window /\ x.event_date \in Int \cup {None}
    BY Zenon DEF Extraction
  <2>2. 0 \in Score /\ 1000 \in Factor
    BY SMT DEF Score, Factor
  <2>3. /\ "NEW" \in Status /\ "NOT_ELIGIBLE" \in Classification
        /\ "FUTURE_ACCOUNT" \in Timing
    BY Zenon DEF Status, Classification, Timing
  <2>4. assertion \in AssertionLevel
    BY Zenon DEF AssertionFor, AssertionLevel
  <2> HIDE DEF assertion
  <2> QED BY <2>1, <2>2, <2>3, <2>4, SMT DEF OpportunityRow
<1>2. blank.created_at = created_at
  BY Zenon
<1> HIDE DEF blank
<1>3. /\ scored \in OpportunityRow
      /\ scored.contact_quality = ContactQuality(contacts, score)
      /\ scored.created_at = blank.created_at
      /\ scored.base_score = BaseOf(scored)
      /\ scored.score = Decayed(scored.base_score, scored.decay_factor)
      /\ scored.classification = Classify(scored.score)
      /\ scored.decay_factor = DecayOf(scored, today)
  BY <1>1, ScoredRow, SMT
<1>4. Created(x, confirmed, contacts, score, signal_date, created_at, today) = new
  BY Zenon DEF Created, blank
<1> HIDE DEF scored
<1>5. status \in Status
  BY Zenon DEF Status
<1>6. new \in OpportunityRow
  <2> HIDE DEF status
  <2> QED BY <1>3, <1>5, Zenon DEF OpportunityRow
<1>7. /\ new.contact_quality = scored.contact_quality /\ new.created_at = scored.created_at
      /\ new.base_score = scored.base_score /\ new.score = scored.score
      /\ new.decay_factor = scored.decay_factor /\ new.classification = scored.classification
      /\ new.previous_score = None /\ new.previous_classification = None
      /\ BaseOf(new) = BaseOf(scored) /\ DecayOf(new, today) = DecayOf(scored, today)
  <2> HIDE DEF status
  <2> QED BY <1>3, SMT DEF OpportunityRow, BaseOf, DecayOf
<1> HIDE DEF new
<1>8. AddsUp(new)
  BY <1>3, <1>7, Zenon DEF AddsUp
<1>9. /\ new.decay_factor = DecayOf(new, today) /\ new.created_at = created_at
      /\ new.contact_quality = ContactQuality(contacts, score)
  BY <1>2, <1>3, <1>7, Zenon
<1> QED BY <1>4, <1>6, <1>8, <1>9, Zenon

-----------------------------------------------------------------------------
\* The columns that remember a movement are those of this one if the score moved on
\* the day, and otherwise what they were.
Remembers(old, new, day) ==
  IF new.score # old.score
  THEN new.previous_score = old.score /\ new.score_changed_at = day
  ELSE new.previous_score = old.previous_score /\ new.score_changed_at = old.score_changed_at

\* A refresh keeps the memory.
LEMMA RefreshedRemembers ==
  ASSUME NEW row \in OpportunityRow, NEW contacts, NEW score, NEW today
  PROVE  Remembers(row, Refreshed(row, contacts, score, today), today)
BY SMT DEF Refreshed, Remembers, MovedIf, Moved, OpportunityRow

\* A new extraction keeps the memory.
LEMMA UpdatedRemembers ==
  ASSUME NEW row \in OpportunityRow, NEW x, NEW confirmed, NEW contacts, NEW score, NEW today
  PROVE  Remembers(row, Updated(row, x, confirmed, contacts, score, today), today)
BY SMT DEF Updated, Scored, Remembers, MovedIf, Moved, OpportunityRow

\* The decay pass records a movement for a new factor as well as for a new score.
LEMMA RescoredRemembers ==
  ASSUME NEW row \in OpportunityRow, NEW today
  PROVE  LET new == Rescored(row, today)
         IN  \/ new = row
             \/ /\ new.score # row.score \/ new.decay_factor # row.decay_factor
                /\ new.previous_score = row.score /\ new.score_changed_at = today
BY SMT DEF Rescored, Moved, OpportunityRow

-----------------------------------------------------------------------------
(***************************************************************************)
(* The writes to the tables.                                               *)
(***************************************************************************)
\* A company's roster is a set of contacts with scores.
LEMMA RosterType ==
  ASSUME NEW c, NEW score, score \in ContactTable
  PROVE  /\ Roster(c, score) \in SUBSET Contacts
         /\ \A k \in Roster(c, score) : score[k] \in Score
BY SMT DEF Roster, ContactTable

\* note_event_potential keeps the companies typed.
LEMMA PotentialType ==
  ASSUME NEW potential \in PotentialTable, NEW c \in Companies, NEW probability \in Score
  PROVE  NotedPotential(potential, c, probability) \in PotentialTable
BY SMT DEF PotentialTable, NotedPotential
=============================================================================
