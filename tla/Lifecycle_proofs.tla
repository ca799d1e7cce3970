--------------------------- MODULE Lifecycle_proofs ---------------------------
(***************************************************************************)
(* Theorems of Lifecycle for every number of opportunities, companies and  *)
(* contacts, every setting and every calendar.                             *)
(*                                                                         *)
(* The inductive invariant says of each row that it is typed, adds up and  *)
(* carries a decay factor it earned; each of the three needs the others.   *)
(* Of Brief, whose days are those of Lifecycle: the report tells the day.  *)
(***************************************************************************)
EXTENDS Brief, Opportunity_proofs

\* What the invariant says of one opportunity.
Good(o) ==
  opportunity[o] # NoRow =>
    /\ opportunity[o] \in OpportunityRow
    /\ AddsUp(opportunity[o])
    /\ Earned(opportunity[o], today)
    /\ passed_on = today /\ o \notin skipped =>
         opportunity[o].decay_factor = DecayOf(opportunity[o], today)

PassIsPast == passed_on # None => passed_on =< today

Inv == TypeOK /\ (\A o \in Opportunities : Good(o)) /\ PassIsPast

\* The inductive invariant gives the invariants that the runs check.
LEMMA InvImplies ==
  Inv => TypeOK /\ RowsAddUp /\ DecayIsEarned
<1> SUFFICES ASSUME Inv PROVE RowsAddUp /\ DecayIsEarned
  BY Zenon DEF Inv
<1>1. RowsAddUp
  BY Zenon DEF Inv, Good, RowsAddUp, Recorded, RecordedIn, Present
<1>2. DecayIsEarned
  BY Zenon DEF Inv, Good, DecayIsEarned, Recorded, RecordedIn, Present
<1> QED BY <1>1, <1>2

\* The initial state satisfies the invariant.
LEMMA InvInit == Init => Inv
<1> SUFFICES ASSUME Init PROVE Inv
  OBVIOUS
<1>1. today \in Day
  BY SettingsAssumption, SMT DEF Init, Day
<1>2. TypeOK
  BY <1>1, SMT DEF Init, TypeOK, OpportunityTable, ContactTable, PotentialTable
<1>3. \A o \in Opportunities : Good(o)
  BY SMT DEF Init, Good
<1>4. PassIsPast
  BY SMT DEF Init, PassIsPast
<1> QED BY <1>2, <1>3, <1>4 DEF Inv

-----------------------------------------------------------------------------
\* Creating an opportunity keeps the invariant.
LEMMA CreateInv ==
  ASSUME Inv, NEW o \in Opportunities, NEW published \in PublicationDays,
         NEW x \in Extractions[o], Create(o, x, published)
  PROVE  Inv'
<1> DEFINE roster == Roster(CompanyOf[o], contact_score)
           confirmed == o \in Confirmed
           number == Cardinality(Recorded) + 1
           new == Created(x, confirmed, roster, contact_score, published, number, today)
<1> USE DEF Inv
<1>1. number \in Nat
  <2>1. Recorded \in SUBSET Opportunities
    BY DEF Recorded, RecordedIn
  <2>2. Cardinality(Recorded) \in Nat
    BY <2>1, StoreAssumption, FS_Subset, FS_CardinalityType, Zenon
  <2> QED BY <2>2, SMT
<1>2. x \in Extraction /\ published \in Day /\ today \in Day
  BY StoreAssumption, SMT DEF TypeOK, OpportunityTable, ContactTable, PotentialTable
<1>3. /\ roster \in SUBSET Contacts
      /\ \A k \in roster : contact_score[k] \in Score
  BY RosterType, Zenon DEF TypeOK
<1>4. /\ new \in OpportunityRow /\ AddsUp(new)
      /\ new.decay_factor = DecayOf(new, today)
  <2> HIDE DEF roster, confirmed, number
  <2> QED BY <1>1, <1>2, <1>3, CreatedRow, SMT
<1>5. /\ opportunity' = [opportunity EXCEPT ![o] = new]
      /\ event_potential' = NotedPotential(event_potential, CompanyOf[o], new.event_probability)
      /\ UNCHANGED <<today, contact_score, affected, behind, passed_on, skipped>>
  BY Zenon DEF Create, RowCreated, Recorded
<1> HIDE DEF new
<1>6. TypeOK'
  <2>1. new.event_probability \in Score
    BY <1>4, Zenon DEF OpportunityRow
  <2>2. event_potential' \in PotentialTable
    BY <1>5, <2>1, PotentialType, StoreAssumption, Zenon DEF TypeOK
  <2> QED BY <1>4, <1>5, <2>2, SMT DEF TypeOK, OpportunityTable, ContactTable, PotentialTable
<1>7. Earned(new, today)
  BY <1>2, <1>4, SMT DEF Earned, Day
<1>8. \A p \in Opportunities : Good(p)'
  BY <1>4, <1>5, <1>7, SMT DEF Good, TypeOK, OpportunityTable, ContactTable, PotentialTable
<1>9. PassIsPast'
  BY <1>5, Zenon DEF PassIsPast
<1> QED BY <1>6, <1>8, <1>9

\* Updating an opportunity from a new extraction keeps the invariant.
LEMMA UpdateInv ==
  ASSUME Inv, NEW o \in Opportunities, NEW x \in Extractions[o], Update(o, x)
  PROVE  Inv'
<1> DEFINE roster == Roster(CompanyOf[o], contact_score)
           confirmed == o \in Confirmed
           new == Updated(opportunity[o], x, confirmed, roster, contact_score, today)
<1> USE DEF Inv
<1>1. x \in Extraction /\ today \in Day
  BY StoreAssumption, SMT DEF TypeOK, OpportunityTable, ContactTable, PotentialTable
<1>2. /\ roster \in SUBSET Contacts
      /\ \A k \in roster : contact_score[k] \in Score
  BY RosterType, Zenon DEF TypeOK
<1>3. opportunity[o] \in OpportunityRow /\ AddsUp(opportunity[o])
  BY Zenon DEF Update, Present, Good
<1>4. /\ new \in OpportunityRow /\ AddsUp(new)
      /\ new.decay_factor = DecayOf(new, today)
  <2> HIDE DEF roster, confirmed
  <2> QED BY <1>1, <1>2, <1>3, UpdatedRow, SMT
<1>5. /\ opportunity' = [opportunity EXCEPT ![o] = new]
      /\ event_potential' = NotedPotential(event_potential, CompanyOf[o], new.event_probability)
      /\ skipped' = skipped \ {o} /\ behind' = behind \ {o}
      /\ UNCHANGED <<today, contact_score, affected, passed_on>>
  BY Zenon DEF Update, RowUpdated
<1> HIDE DEF new
<1>6. TypeOK'
  <2>1. new.event_probability \in Score
    BY <1>4, Zenon DEF OpportunityRow
  <2>2. event_potential' \in PotentialTable
    BY <1>5, <2>1, PotentialType, StoreAssumption, Zenon DEF TypeOK
  <2> QED BY <1>4, <1>5, <2>2, SMT DEF TypeOK, OpportunityTable, ContactTable, PotentialTable
<1>7. Earned(new, today)
  BY <1>1, <1>4, SMT DEF Earned, Day
<1>8. \A p \in Opportunities : Good(p)'
  BY <1>4, <1>5, <1>7, SMT DEF Good, TypeOK, OpportunityTable, ContactTable, PotentialTable
<1>9. PassIsPast'
  BY <1>5, Zenon DEF PassIsPast
<1> QED BY <1>6, <1>8, <1>9

\* Refreshing the open rows of a company keeps every row good.
LEMMA RefreshedRowsGood ==
  ASSUME Inv, NEW c \in Companies, NEW score \in ContactTable,
         opportunity' = RefreshedTable(opportunity, c, score, today), UNCHANGED <<today, passed_on, skipped>>
  PROVE  /\ opportunity' \in OpportunityTable
         /\ \A o \in Opportunities : Good(o)'
<1> DEFINE roster == Roster(c, score)
<1> USE DEF Inv
<1>1. today \in Day
  BY Zenon DEF TypeOK
<1>2. /\ roster \in SUBSET Contacts
      /\ \A k \in roster : score[k] \in Score
  BY RosterType, Zenon
<1>3. ASSUME NEW o \in Opportunities
      PROVE  Good(o)' /\ opportunity'[o] \in OpportunityRow \cup {NoRow}
  <2>1. CASE o \in Open /\ CompanyOf[o] = c
    <3> DEFINE new == Refreshed(opportunity[o], roster, score, today)
    <3>1. opportunity'[o] = new
      BY <2>1, Zenon DEF RefreshedTable, Open
    <3>2. /\ opportunity[o] \in OpportunityRow /\ AddsUp(opportunity[o])
          /\ Earned(opportunity[o], today)
      BY <2>1, Zenon DEF Open, OpenIn, IsOpen, Present, Good
    <3> HIDE DEF roster
    <3>3. new \in OpportunityRow /\ AddsUp(new) /\ Earned(new, today)
      BY <1>1, <1>2, <3>2, RefreshedRow, Zenon
    <3>4. /\ new.decay_factor = opportunity[o].decay_factor
          /\ DecayOf(new, today) = DecayOf(opportunity[o], today)
      BY <3>2, RefreshedColumns, SMT
    <3> HIDE DEF new
    <3>5. passed_on = today /\ o \notin skipped => new.decay_factor = DecayOf(new, today)
      BY <2>1, <3>2, <3>4, Zenon DEF Good, Open, OpenIn, IsOpen, Present
    <3> QED BY <3>1, <3>3, <3>5, Zenon DEF Good
  <2>2. CASE ~(o \in Open /\ CompanyOf[o] = c)
    <3>1. opportunity'[o] = opportunity[o]
      BY <2>2, Zenon DEF RefreshedTable, Open
    <3> QED BY <3>1, Zenon DEF Good, TypeOK
  <2> QED BY <2>1, <2>2
<1>4. DOMAIN opportunity' = Opportunities /\ opportunity' = [o \in Opportunities |-> opportunity'[o]]
  BY SMT DEF RefreshedTable, Open
<1> QED BY <1>3, <1>4, Zenon DEF OpportunityTable

\* Re-scoring one company affected by discovery keeps the invariant.
LEMMA RefreshAffectedInv ==
  ASSUME Inv, NEW c \in Companies, RefreshAffected(c)
  PROVE  Inv'
<1>1. /\ opportunity' = RefreshedTable(opportunity, c, contact_score, today)
      /\ affected' = affected \ {c} /\ behind' = BehindAfter(c)
      /\ UNCHANGED <<today, contact_score, event_potential, passed_on, skipped>>
  BY Zenon DEF RefreshAffected
<1>2. /\ opportunity' \in OpportunityTable
      /\ \A o \in Opportunities : Good(o)'
  BY <1>1, RefreshedRowsGood, Zenon DEF Inv, TypeOK
<1>3. TypeOK'
  BY <1>1, <1>2, SMT DEF Inv, TypeOK, OpportunityTable, ContactTable, PotentialTable,
       BehindAfter, RowsOf, Recorded, RecordedIn
<1>4. PassIsPast'
  BY <1>1, Zenon DEF Inv, PassIsPast
<1> QED BY <1>2, <1>3, <1>4 DEF Inv

\* A contact submitted through the API keeps the invariant.
LEMMA SubmitContactInv ==
  ASSUME Inv, NEW k \in Contacts, NEW s \in ContactScores, NEW c \in Companies,
         SubmitContact(k, s, c)
  PROVE  Inv'
<1> DEFINE score == [contact_score EXCEPT ![k] = s]
<1>1. /\ opportunity' = RefreshedTable(opportunity, c, score, today) /\ contact_score' = score
      /\ behind' = BehindAfter(c) \cup LeftBehind(k, c)
      /\ UNCHANGED <<today, event_potential, affected, passed_on, skipped>>
  BY Zenon DEF SubmitContact
<1>2. score \in ContactTable
  BY StoreAssumption, SMT DEF Inv, TypeOK, OpportunityTable, ContactTable, PotentialTable
<1>3. /\ opportunity' \in OpportunityTable
      /\ \A o \in Opportunities : Good(o)'
  <2> HIDE DEF score
  <2> QED BY <1>1, <1>2, RefreshedRowsGood, Zenon DEF Inv, TypeOK
<1>4. TypeOK'
  <2> HIDE DEF score
  <2> QED BY <1>1, <1>2, <1>3, SMT DEF Inv, TypeOK, OpportunityTable, ContactTable, PotentialTable,
       BehindAfter, LeftBehind, RowsOf, Recorded, RecordedIn
<1>5. PassIsPast'
  BY <1>1, Zenon DEF Inv, PassIsPast
<1> QED BY <1>3, <1>4, <1>5 DEF Inv

\* The decay pass keeps the invariant, and lowers no score that it should not.
LEMMA RescoreAllInv ==
  ASSUME Inv, RescoreAll
  PROVE  /\ Inv'
         /\ \A o \in Recorded : opportunity'[o].score =< opportunity[o].score
<1> USE DEF Inv
<1>1. /\ opportunity' = [o \in Opportunities |->
                           IF o \in Open THEN Rescored(opportunity[o], today) ELSE opportunity[o]]
      /\ passed_on' = today /\ skipped' = Recorded \ Open
      /\ UNCHANGED <<today, contact_score, event_potential, affected, behind>>
  BY Zenon DEF RescoreAll, RescoredTable, Open
<1>2. today \in Day
  BY Zenon DEF TypeOK
<1>3. ASSUME NEW o \in Opportunities
      PROVE  /\ Good(o)' /\ opportunity'[o] \in OpportunityRow \cup {NoRow}
             /\ o \in Recorded => opportunity'[o].score =< opportunity[o].score
  <2>1. CASE o \in Open
    <3> DEFINE new == Rescored(opportunity[o], today)
    <3>1. opportunity'[o] = new
      BY <1>1, <2>1, Zenon
    <3>2. /\ opportunity[o] \in OpportunityRow /\ AddsUp(opportunity[o])
          /\ Earned(opportunity[o], today)
      BY <2>1, Zenon DEF Open, OpenIn, IsOpen, Present, Good
    <3>3. /\ new \in OpportunityRow /\ AddsUp(new) /\ Earned(new, today)
          /\ new.decay_factor = DecayOf(new, today) /\ new.score =< opportunity[o].score
      BY <1>2, <3>2, RescoredRow, Zenon
    <3> HIDE DEF new
    <3> QED BY <1>1, <3>1, <3>3, Zenon DEF Good
  <2>2. CASE o \notin Open
    <3>1. opportunity'[o] = opportunity[o]
      BY <1>1, <2>2, Zenon
    <3>2. opportunity[o] # NoRow => o \in skipped'
      BY <1>1, <2>2, Zenon DEF Recorded, RecordedIn, Present
    <3>3. Good(o)' /\ opportunity'[o] \in OpportunityRow \cup {NoRow}
      BY <1>1, <3>1, <3>2, Zenon DEF Good, TypeOK
    <3>4. o \in Recorded => opportunity'[o].score =< opportunity[o].score
      BY <3>1, SMT DEF Recorded, RecordedIn, Present, Good, OpportunityRow, Score
    <3> QED BY <3>3, <3>4
  <2> QED BY <2>1, <2>2
<1>4. opportunity' \in OpportunityTable
  <2>1. opportunity' = [o \in Opportunities |-> opportunity'[o]]
    BY <1>1, SMT
  <2> QED BY <1>3, <2>1, Zenon DEF OpportunityTable
<1>5. TypeOK'
  BY <1>1, <1>4, SMT DEF TypeOK, OpportunityTable, ContactTable, PotentialTable, Recorded, RecordedIn
<1>6. PassIsPast'
  BY <1>1, <1>2, SMT DEF PassIsPast, Day
<1>7. \A o \in Recorded : opportunity'[o].score =< opportunity[o].score
  BY <1>3, Zenon DEF Recorded, RecordedIn
<1> QED BY <1>3, <1>5, <1>6, <1>7

\* A person moving the status keeps the invariant.
LEMMA UpdateStatusInv ==
  ASSUME Inv, NEW o \in Opportunities, NEW status \in HumanStatuses, UpdateStatus(o, status)
  PROVE  Inv'
<1> DEFINE row == opportunity[o]
           new == [row EXCEPT !.status = status]
<1> USE DEF Inv
<1>1. /\ opportunity' = [opportunity EXCEPT ![o] = new]
      /\ UNCHANGED <<today, contact_score, event_potential, affected, behind, passed_on, skipped>>
  BY SMT DEF UpdateStatus
<1>2. row \in OpportunityRow /\ AddsUp(row) /\ Earned(row, today)
  BY Zenon DEF UpdateStatus, Present, Good
<1>3. new \in OpportunityRow
  <2>1. status \in Status
    BY StoreAssumption, Zenon
  <2> QED BY <1>2, <2>1, Zenon DEF OpportunityRow
<1>4. /\ BaseOf(new) = BaseOf(row) /\ new.base_score = row.base_score
      /\ new.score = row.score /\ new.decay_factor = row.decay_factor
      /\ new.classification = row.classification
      /\ new.previous_score = row.previous_score
      /\ new.previous_classification = row.previous_classification
      /\ \A d : DecayOf(new, d) = DecayOf(row, d)
  BY <1>2, SMT DEF OpportunityRow, BaseOf, DecayOf
<1> HIDE DEF new
<1>5. AddsUp(new) /\ Earned(new, today)
  BY <1>2, <1>4, Zenon DEF AddsUp, Earned
<1>6. passed_on = today /\ o \notin skipped => new.decay_factor = DecayOf(new, today)
  BY <1>4, Zenon DEF UpdateStatus, Present, Good
<1>7. \A p \in Opportunities : Good(p)'
  BY <1>1, <1>3, <1>5, <1>6, SMT DEF Good, TypeOK, OpportunityTable, ContactTable, PotentialTable
<1>8. TypeOK'
  BY <1>1, <1>3, SMT DEF TypeOK, OpportunityTable, ContactTable, PotentialTable
<1>9. PassIsPast'
  BY <1>1, Zenon DEF PassIsPast
<1> QED BY <1>7, <1>8, <1>9

\* The calendar advancing keeps the invariant: factors earned stay earned, and the
\* last pass is no longer today's.
LEMMA NextDayInv ==
  ASSUME Inv, NEW d \in Days, NextDay(d)
  PROVE  Inv'
<1> USE DEF Inv
<1>1. /\ today \in Day /\ d \in Day /\ today =< d /\ today < d
      /\ today' = d
      /\ UNCHANGED <<opportunity, contact_score, event_potential, affected, behind,
                     passed_on, skipped>>
  BY StoreAssumption, SMT DEF NextDay, TypeOK, OpportunityTable, ContactTable, PotentialTable, Day
<1>2. ASSUME NEW o \in Opportunities PROVE Good(o)'
  <2>1. SUFFICES ASSUME opportunity[o] # NoRow PROVE Good(o)'
    BY <1>1, Zenon DEF Good
  <2>2. /\ opportunity[o] \in OpportunityRow /\ AddsUp(opportunity[o])
        /\ Earned(opportunity[o], today)
    BY <2>1, Zenon DEF Good
  <2>3. Earned(opportunity[o], d)
    BY <1>1, <2>2, EarnedLater, Zenon
  <2>4. passed_on # d
    BY <1>1, SettingsAssumption, SMT DEF PassIsPast, Day, TypeOK, OpportunityTable, ContactTable, PotentialTable
  <2> QED BY <1>1, <2>2, <2>3, <2>4, Zenon DEF Good
<1>3. TypeOK'
  BY <1>1, Zenon DEF TypeOK
<1>4. PassIsPast'
  BY <1>1, SMT DEF PassIsPast, TypeOK, OpportunityTable, ContactTable, PotentialTable, Day
<1> QED BY <1>2, <1>3, <1>4

\* Steps that leave every row, the calendar and the pass alone keep the invariant.
LEMMA OtherInv ==
  ASSUME Inv,
         \/ \E k \in Contacts, s \in ContactScores, c \in Companies : Discover(k, s, c)
         \/ \E c \in Companies : RefreshLost(c)
         \/ UNCHANGED vars
  PROVE  Inv'
<1>1. UNCHANGED <<today, opportunity, passed_on, skipped>>
  BY Zenon DEF Discover, RefreshLost, vars
<1>2. CASE \E k \in Contacts, s \in ContactScores, c \in Companies : Discover(k, s, c)
  <2>1. PICK k \in Contacts, s \in ContactScores, c \in Companies : Discover(k, s, c)
    BY <1>2
  <2>2. s \in Score
    BY StoreAssumption, SMT
  <2> QED BY <1>1, <2>1, <2>2, SMT DEF Inv, TypeOK, OpportunityTable, ContactTable, PotentialTable,
       Discover, LeftBehind, RowsOf, Recorded, RecordedIn, Good, PassIsPast
<1>3. CASE \E c \in Companies : RefreshLost(c)
  BY <1>1, <1>3, SMT DEF Inv, TypeOK, OpportunityTable, ContactTable, PotentialTable,
       RefreshLost, RowsOf, Recorded, RecordedIn, Good, PassIsPast
<1>4. CASE UNCHANGED vars
  BY <1>4, Zenon DEF vars, Inv, TypeOK, Good, PassIsPast
<1> QED BY <1>2, <1>3, <1>4

\* Every step keeps the invariant.
LEMMA InvNext == Inv /\ [Next]_vars => Inv'
<1> SUFFICES ASSUME Inv, [Next]_vars PROVE Inv'
  OBVIOUS
<1>1. CASE \E o \in Opportunities, published \in PublicationDays :
             \E x \in Extractions[o] : Create(o, x, published)
  BY <1>1, CreateInv
<1>2. CASE \E o \in Opportunities : \E x \in Extractions[o] : Update(o, x)
  BY <1>2, UpdateInv
<1>3. CASE \E k \in Contacts, s \in ContactScores, c \in Companies : Discover(k, s, c)
  BY <1>3, OtherInv
<1>4. CASE \E k \in Contacts, s \in ContactScores, c \in Companies : SubmitContact(k, s, c)
  BY <1>4, SubmitContactInv
<1>5. CASE \E c \in Companies : RefreshAffected(c)
  BY <1>5, RefreshAffectedInv
<1>6. CASE \E c \in Companies : RefreshLost(c)
  BY <1>6, OtherInv
<1>7. CASE RescoreAll
  BY <1>7, RescoreAllInv
<1>8. CASE \E o \in Opportunities, status \in HumanStatuses : UpdateStatus(o, status)
  BY <1>8, UpdateStatusInv
<1>9. CASE \E d \in Days : NextDay(d)
  BY <1>9, NextDayInv
<1>10. CASE UNCHANGED vars
  BY <1>10, OtherInv
<1> QED BY <1>1, <1>2, <1>3, <1>4, <1>5, <1>6, <1>7, <1>8, <1>9, <1>10 DEF Next

-----------------------------------------------------------------------------
\* The inductive invariant holds of every behaviour.
THEOREM Invariance == Spec => []Inv
BY InvInit, InvNext, PTL DEF Spec

\* Every column keeps its type: every score stays in 0..100, every decay factor
\* positive and at most 1, through every interleaving of the services.
THEOREM TypeCorrect == Spec => []TypeOK
<1>1. Inv => TypeOK
  BY InvImplies
<1> QED BY <1>1, Invariance, PTL

\* Whatever order the three services write a row in, it explains itself.
THEOREM RowsAlwaysAddUp == Spec => []RowsAddUp
<1>1. Inv => RowsAddUp
  BY InvImplies
<1> QED BY <1>1, Invariance, PTL

\* Decay never compounds: the stored factor is always one of the row's own age.
THEOREM DecayAlwaysEarned == Spec => []DecayIsEarned
<1>1. Inv => DecayIsEarned
  BY InvImplies
<1> QED BY <1>1, Invariance, PTL

\* No decay pass ever raises a score.
THEOREM NoPassRaises == Spec => PassNeverRaises
<1>1. Inv /\ [Next]_vars =>
        [RescoreAll => \A o \in Recorded : opportunity'[o].score =< opportunity[o].score]_vars
  BY RescoreAllInv
<1> QED BY <1>1, Invariance, PTL DEF Spec, PassNeverRaises

\* The list needs no second pass on one day (rescore_all, top50.py), whatever is
\* created, updated or refreshed after the first: a row that a person reopens is the
\* one exception.
THEOREM OnePassIsEnough == Spec => []PassCleansList
<1>1. RowsAddUp /\ DecayIsEarned => PassCleansList
  <2> SUFFICES ASSUME RowsAddUp, DecayIsEarned, passed_on = today, NEW o \in Top50, o \notin skipped
               PROVE  IsQualified(Decayed(opportunity[o].base_score, DecayOf(opportunity[o], today)))
    BY DEF PassCleansList
  <2>1. o \in Recorded /\ IsQualified(opportunity[o].score)
    BY Zenon DEF Top50, Rankable, Open, OpenIn, IsOpen, Recorded, RecordedIn
  <2>2. opportunity[o].score = Decayed(opportunity[o].base_score, opportunity[o].decay_factor)
    BY <2>1, Zenon DEF RowsAddUp, AddsUp
  <2>3. opportunity[o].decay_factor = DecayOf(opportunity[o], today)
    BY <2>1, Zenon DEF DecayIsEarned
  <2> QED BY <2>1, <2>2, <2>3, Zenon
<1> QED BY <1>1, RowsAlwaysAddUp, DecayAlwaysEarned, PTL

-----------------------------------------------------------------------------
(***************************************************************************)
(* What the services may do to a recorded row, and the properties of       *)
(* status, event potential, contact quality and ranking that follow.       *)
(***************************************************************************)
\* A row refreshed for its company's contacts, as some contacts table has them.
RowRefreshed(o) ==
  \E score \in ContactTable :
    opportunity'[o] = Refreshed(opportunity[o], Roster(CompanyOf[o], score), score, today)

\* A recorded row is what the invariant says of it.
LEMMA RecordedRow ==
  ASSUME Inv, NEW o \in Recorded
  PROVE  /\ o \in Opportunities /\ opportunity[o] # NoRow
         /\ opportunity[o] \in OpportunityRow /\ AddsUp(opportunity[o])
BY Zenon DEF Inv, Good, Recorded, RecordedIn, Present

\* A contact's new score keeps the contacts table typed.
LEMMA ScoredContact ==
  ASSUME Inv, NEW k \in Contacts, NEW s \in ContactScores
  PROVE  [contact_score EXCEPT ![k] = s] \in ContactTable
BY StoreAssumption, SMT DEF Inv, TypeOK, ContactTable

\* Refreshing a company's rows refreshes those that are open, and no other row.
LEMMA RefreshStep ==
  ASSUME NEW c \in Companies, NEW score \in ContactTable,
         opportunity' = RefreshedTable(opportunity, c, score, today), NEW o \in Opportunities
  PROVE  \/ opportunity'[o] = opportunity[o]
         \/ IsOpen(opportunity[o]) /\ RowRefreshed(o)
<1>1. CASE o \in OpenIn(opportunity) /\ CompanyOf[o] = c
  <2>1. opportunity'[o] = Refreshed(opportunity[o], Roster(CompanyOf[o], score), score, today)
    BY <1>1, Zenon DEF RefreshedTable
  <2> QED BY <1>1, <2>1, Zenon DEF OpenIn, RowRefreshed
<1>2. CASE ~(o \in OpenIn(opportunity) /\ CompanyOf[o] = c)
  BY <1>2, Zenon DEF RefreshedTable
<1> QED BY <1>1, <1>2

\* All that can happen to a recorded row in one step.
LEMMA RowStep ==
  ASSUME Inv, [Next]_vars, NEW o \in Recorded
  PROVE  \/ opportunity'[o] = opportunity[o]
         \/ \E x \in Extractions[o] : Update(o, x)
         \/ \E s \in HumanStatuses : UpdateStatus(o, s)
         \/ IsOpen(opportunity[o]) /\ RowRefreshed(o)
         \/ /\ RescoreAll /\ IsOpen(opportunity[o])
            /\ opportunity'[o] = Rescored(opportunity[o], today)
<1>0. o \in Opportunities /\ Present(opportunity[o]) /\ opportunity \in OpportunityTable
  BY Zenon DEF Recorded, RecordedIn, Inv, TypeOK
<1>1. CASE \E p \in Opportunities, published \in PublicationDays :
             \E x \in Extractions[p] : Create(p, x, published)
  BY <1>0, <1>1, SMT DEF Create, OpportunityTable
<1>2. CASE \E p \in Opportunities : \E x \in Extractions[p] : Update(p, x)
  <2>1. PICK p \in Opportunities : \E x \in Extractions[p] : Update(p, x)
    BY <1>2
  <2>2. CASE p = o
    BY <2>1, <2>2, Zenon
  <2>3. CASE p # o
    BY <1>0, <2>1, <2>3, SMT DEF Update, OpportunityTable
  <2> QED BY <2>2, <2>3
<1>3. CASE \E k \in Contacts, s \in ContactScores, c \in Companies : Discover(k, s, c)
  BY <1>3, Zenon DEF Discover
<1>4. CASE \E k \in Contacts, s \in ContactScores, c \in Companies : SubmitContact(k, s, c)
  <2>1. PICK k \in Contacts, s \in ContactScores, c \in Companies : SubmitContact(k, s, c)
    BY <1>4
  <2>2. opportunity' = RefreshedTable(opportunity, c, [contact_score EXCEPT ![k] = s], today)
    BY <2>1, Zenon DEF SubmitContact
  <2> QED BY <1>0, <2>2, ScoredContact, RefreshStep, Zenon
<1>5. CASE \E c \in Companies : RefreshAffected(c)
  <2>1. PICK c \in Companies : RefreshAffected(c)
    BY <1>5
  <2>2. opportunity' = RefreshedTable(opportunity, c, contact_score, today)
    BY <2>1, Zenon DEF RefreshAffected
  <2> QED BY <1>0, <2>2, RefreshStep, Zenon DEF Inv, TypeOK
<1>6. CASE \E c \in Companies : RefreshLost(c)
  BY <1>6, Zenon DEF RefreshLost
<1>7. CASE RescoreAll
  BY <1>0, <1>7, Zenon DEF RescoreAll, RescoredTable, OpenIn
<1>8. CASE \E p \in Opportunities, s \in HumanStatuses : UpdateStatus(p, s)
  <2>1. PICK p \in Opportunities, s \in HumanStatuses : UpdateStatus(p, s)
    BY <1>8
  <2>2. CASE p = o
    BY <2>1, <2>2, Zenon
  <2>3. CASE p # o
    BY <1>0, <2>1, <2>3, SMT DEF UpdateStatus, OpportunityTable
  <2> QED BY <2>2, <2>3
<1>9. CASE \E d \in Days : NextDay(d)
  BY <1>9, Zenon DEF NextDay
<1>10. CASE UNCHANGED vars
  BY <1>10, Zenon DEF vars
<1> QED BY <1>1, <1>2, <1>3, <1>4, <1>5, <1>6, <1>7, <1>8, <1>9, <1>10 DEF Next

\* What an update writes in the columns the other services keep.
LEMMA UpdateStep ==
  ASSUME Inv, NEW o \in Opportunities, NEW x \in Extractions[o], Update(o, x)
  PROVE  /\ opportunity'[o] \in OpportunityRow
         /\ opportunity'[o].created_at = opportunity[o].created_at
         /\ opportunity'[o].contact_quality =
              ContactQuality(Roster(CompanyOf[o], contact_score), contact_score)
         /\ \/ opportunity'[o].status = opportunity[o].status
            \/ /\ opportunity[o].status = "NEW" /\ opportunity'[o].status = "QUALIFIED"
               /\ IsQualified(opportunity'[o].score)
         /\ event_potential' =
              NotedPotential(event_potential, CompanyOf[o], opportunity'[o].event_probability)
<1> DEFINE roster == Roster(CompanyOf[o], contact_score)
           confirmed == o \in Confirmed
           new == Updated(opportunity[o], x, confirmed, roster, contact_score, today)
<1>1. x \in Extraction /\ today \in Day /\ contact_score \in ContactTable
  BY StoreAssumption, SMT DEF Inv, TypeOK
<1>2. /\ roster \in SUBSET Contacts
      /\ \A k \in roster : contact_score[k] \in Score
  BY <1>1, RosterType, Zenon
<1>3. opportunity[o] \in OpportunityRow /\ AddsUp(opportunity[o])
  BY Zenon DEF Inv, Update, Present, Good
<1>4. /\ opportunity'[o] = new
      /\ event_potential' = NotedPotential(event_potential, CompanyOf[o], new.event_probability)
  BY SMT DEF Inv, TypeOK, OpportunityTable, Update, RowUpdated
<1>5. /\ new \in OpportunityRow
      /\ new.contact_quality = ContactQuality(roster, contact_score)
      /\ new.created_at = opportunity[o].created_at
      /\ \/ new.status = opportunity[o].status
         \/ opportunity[o].status = "NEW" /\ new.status = "QUALIFIED" /\ IsQualified(new.score)
  <2> HIDE DEF roster, confirmed
  <2> QED BY <1>1, <1>2, <1>3, UpdatedRow, SMT
<1> HIDE DEF new
<1> QED BY <1>4, <1>5, Zenon

\* Refreshing and decaying a row keep its status, event probability and age.
LEMMA ServiceColumns ==
  ASSUME Inv, NEW o \in Recorded,
         RowRefreshed(o) \/ opportunity'[o] = Rescored(opportunity[o], today)
  PROVE  /\ opportunity'[o].status = opportunity[o].status
         /\ opportunity'[o].event_probability = opportunity[o].event_probability
         /\ opportunity'[o].created_at = opportunity[o].created_at
<1>1. opportunity[o] \in OpportunityRow
  BY RecordedRow
<1>2. CASE RowRefreshed(o)
  <2>1. PICK score \in ContactTable :
          opportunity'[o] = Refreshed(opportunity[o], Roster(CompanyOf[o], score), score, today)
    BY <1>2, Zenon DEF RowRefreshed
  <2> QED BY <1>1, <2>1, RefreshedColumns, SMT
<1>3. CASE opportunity'[o] = Rescored(opportunity[o], today)
  BY <1>1, <1>3, RescoredColumns, SMT
<1> QED BY <1>2, <1>3

-----------------------------------------------------------------------------
\* Statuses a person has moved on are never touched by a service.
THEOREM StatusStaysHuman == Spec => StatusIsHuman
<1> DEFINE Human == \E o \in Opportunities, s \in HumanStatuses : UpdateStatus(o, s)
           Kept(o) == opportunity'[o].status # opportunity[o].status =>
                        /\ opportunity[o].status = "NEW"
                        /\ opportunity'[o].status = "QUALIFIED"
                        /\ IsQualified(opportunity'[o].score)
<1>1. ASSUME Inv, [Next]_vars, ~Human, NEW o \in Recorded PROVE Kept(o)
  <2>1. o \in Opportunities
    BY <1>1, RecordedRow
  <2>2. CASE \E x \in Extractions[o] : Update(o, x)
    BY <1>1, <2>1, <2>2, UpdateStep, Zenon
  <2>3. CASE IsOpen(opportunity[o]) /\ RowRefreshed(o)
    BY <1>1, <2>3, ServiceColumns, Zenon
  <2>4. CASE opportunity'[o] = Rescored(opportunity[o], today)
    BY <1>1, <2>4, ServiceColumns, Zenon
  <2> QED BY <1>1, <2>1, <2>2, <2>3, <2>4, RowStep, Zenon
<1>2. Inv /\ [Next]_vars =>
        [(\A o \in Opportunities, s \in HumanStatuses : ~UpdateStatus(o, s)) =>
           \A o \in Recorded :
             opportunity'[o].status # opportunity[o].status =>
               /\ opportunity[o].status = "NEW"
               /\ opportunity'[o].status = "QUALIFIED"
               /\ IsQualified(opportunity'[o].score)]_vars
  BY <1>1, Zenon
<1> QED BY <1>2, Invariance, PTL DEF Spec, StatusIsHuman

\* A closed opportunity is touched by a new extraction or a person, and nothing else.
THEOREM ClosedStaysSettled == Spec => ClosedIsSettled
<1>1. ASSUME Inv, [Next]_vars, NEW o \in Recorded \ Open
      PROVE  \/ opportunity'[o] = opportunity[o]
             \/ \E x \in Extractions[o] : Update(o, x)
             \/ \E s \in HumanStatuses : UpdateStatus(o, s)
  BY <1>1, RowStep, RecordedRow, Zenon DEF Open, OpenIn
<1>2. Inv /\ [Next]_vars =>
        [\A o \in Recorded \ Open :
           \/ opportunity'[o] = opportunity[o]
           \/ \E x \in Extractions[o] : Update(o, x)
           \/ \E s \in HumanStatuses : UpdateStatus(o, s)]_vars
  BY <1>1, Zenon
<1> QED BY <1>2, Invariance, PTL DEF Spec, ClosedIsSettled

-----------------------------------------------------------------------------
\* note_event_potential raises a company's potential to the probability, lowers none.
LEMMA NotedCovers ==
  ASSUME NEW potential \in PotentialTable, NEW c \in Companies, NEW probability \in Score
  PROVE  LET noted == NotedPotential(potential, c, probability)
         IN  /\ noted[c] # None /\ probability =< noted[c]
             /\ \A d \in Companies :
                  potential[d] # None => noted[d] # None /\ potential[d] =< noted[d]
<1> DEFINE noted == NotedPotential(potential, c, probability)
<1>1. /\ probability \in Int /\ probability # None
      /\ \A d \in Companies : potential[d] # None => potential[d] \in Int
  BY SettingsAssumption, SMT DEF PotentialTable, Score
<1>2. \A d \in Companies :
        noted[d] = IF d # c THEN potential[d]
                   ELSE IF potential[c] = None THEN probability
                   ELSE IF probability > potential[c] THEN probability ELSE potential[c]
  BY SMT DEF NotedPotential, PotentialTable
<1> HIDE DEF noted
<1>3. /\ noted[c] # None /\ probability =< noted[c]
      /\ \A d \in Companies :
           potential[d] # None => noted[d] # None /\ potential[d] =< noted[d]
  BY <1>1, <1>2, SMT
<1> QED BY <1>3 DEF noted

\* What PotentialCovers says of one row.
Covered(o) ==
  /\ event_potential[CompanyOf[o]] # None
  /\ opportunity[o].event_probability =< event_potential[CompanyOf[o]]

\* A row whose probability a step leaves alone stays covered if potentials only rise.
LEMMA StaysCovered ==
  ASSUME Inv, NEW o \in Recorded, Covered(o),
         opportunity'[o].event_probability = opportunity[o].event_probability,
         event_potential' \in PotentialTable,
         \A d \in Companies : event_potential[d] # None =>
            event_potential'[d] # None /\ event_potential[d] =< event_potential'[d]
  PROVE  Covered(o)'
<1>1. CompanyOf[o] \in Companies
  BY RecordedRow, StoreAssumption, SMT
<1>2. /\ opportunity[o].event_probability \in Int
      /\ event_potential[CompanyOf[o]] \in Int
  <2>1. opportunity[o].event_probability \in Score
    BY RecordedRow, Zenon DEF OpportunityRow
  <2> QED BY <1>1, <2>1, SMT DEF Covered, Inv, TypeOK, PotentialTable, Score
<1>3. event_potential'[CompanyOf[o]] # None /\ event_potential'[CompanyOf[o]] \in Int
  BY <1>1, SMT DEF Covered, PotentialTable, Score
<1>4. event_potential[CompanyOf[o]] =< event_potential'[CompanyOf[o]]
  BY <1>1, Zenon DEF Covered
<1>5. opportunity'[o].event_probability =< event_potential'[CompanyOf[o]]
  <2>1. opportunity[o].event_probability =< event_potential[CompanyOf[o]]
    BY Zenon DEF Covered
  <2> QED BY <1>2, <1>3, <1>4, <2>1, SMT
<1> QED BY <1>3, <1>5, Zenon DEF Covered

\* A row just written is covered by the potential noted for it.
LEMMA WrittenCovered ==
  ASSUME Inv, NEW o \in Opportunities, opportunity'[o] \in OpportunityRow,
         event_potential' =
           NotedPotential(event_potential, CompanyOf[o], opportunity'[o].event_probability)
  PROVE  /\ Covered(o)'
         /\ \A d \in Companies : event_potential[d] # None =>
               event_potential'[d] # None /\ event_potential[d] =< event_potential'[d]
<1> DEFINE probability == opportunity'[o].event_probability
<1>1. /\ CompanyOf[o] \in Companies /\ event_potential \in PotentialTable
      /\ probability \in Score
  BY StoreAssumption, SMT DEF Inv, TypeOK, OpportunityRow
<1> HIDE DEF probability
<1>2. event_potential' = NotedPotential(event_potential, CompanyOf[o], probability)
  BY DEF probability
<1> QED BY <1>1, <1>2, NotedCovers, SMT DEF Covered, probability

\* What is inserted is the row of a new opportunity, numbered after all others.
LEMMA CreateStep ==
  ASSUME Inv, NEW o \in Opportunities, NEW published \in PublicationDays,
         NEW x \in Extractions[o], Create(o, x, published)
  PROVE  /\ opportunity'[o] \in OpportunityRow
         /\ opportunity'[o].created_at = Cardinality(Recorded) + 1
         /\ opportunity'[o].contact_quality =
              ContactQuality(Roster(CompanyOf[o], contact_score), contact_score)
         /\ event_potential' =
              NotedPotential(event_potential, CompanyOf[o], opportunity'[o].event_probability)
         /\ \A p \in Opportunities : p # o => opportunity'[p] = opportunity[p]
<1> DEFINE roster == Roster(CompanyOf[o], contact_score)
           confirmed == o \in Confirmed
           number == Cardinality(Recorded) + 1
           new == Created(x, confirmed, roster, contact_score, published, number, today)
<1>1. number \in Nat
  <2>1. Recorded \in SUBSET Opportunities
    BY DEF Recorded, RecordedIn
  <2>2. Cardinality(Recorded) \in Nat
    BY <2>1, StoreAssumption, FS_Subset, FS_CardinalityType, Zenon
  <2> QED BY <2>2, SMT
<1>2. /\ x \in Extraction /\ published \in Day /\ today \in Day
      /\ contact_score \in ContactTable /\ opportunity \in OpportunityTable
  BY StoreAssumption, SMT DEF Inv, TypeOK
<1>3. /\ roster \in SUBSET Contacts
      /\ \A k \in roster : contact_score[k] \in Score
  BY <1>2, RosterType, Zenon
<1>4. /\ opportunity' = [opportunity EXCEPT ![o] = new]
      /\ event_potential' = NotedPotential(event_potential, CompanyOf[o], new.event_probability)
  BY Zenon DEF Create, RowCreated, Recorded
<1>5. /\ new \in OpportunityRow
      /\ new.contact_quality = ContactQuality(roster, contact_score)
      /\ new.created_at = number
  <2> HIDE DEF roster, confirmed, number
  <2> QED BY <1>1, <1>2, <1>3, CreatedRow, SMT
<1> HIDE DEF new
<1>6. opportunity'[o] = new /\ \A p \in Opportunities : p # o => opportunity'[p] = opportunity[p]
  BY <1>2, <1>4, SMT DEF OpportunityTable
<1> QED BY <1>4, <1>5, <1>6, Zenon

\* No step deletes a row.
LEMMA StaysRecorded ==
  ASSUME Inv, [Next]_vars, NEW o \in Recorded
  PROVE  o \in Recorded'
<1>1. /\ o \in Opportunities /\ opportunity[o] \in OpportunityRow /\ AddsUp(opportunity[o])
      /\ Earned(opportunity[o], today) /\ today \in Day
  BY RecordedRow, Zenon DEF Inv, TypeOK, Good
<1>2. CASE opportunity'[o] = opportunity[o]
  BY <1>1, <1>2, RecordedRow, Zenon DEF Recorded, RecordedIn, Present
<1>3. CASE \E x \in Extractions[o] : Update(o, x)
  BY <1>1, <1>3, UpdateStep, StoreAssumption, Zenon DEF Recorded, RecordedIn, Present
<1>4. CASE \E s \in HumanStatuses : UpdateStatus(o, s)
  <2>1. PICK s \in HumanStatuses : UpdateStatus(o, s)
    BY <1>4
  <2>2. opportunity'[o] = [opportunity[o] EXCEPT !.status = s]
    BY <1>1, <2>1, SMT DEF UpdateStatus, Inv, TypeOK, OpportunityTable
  <2>3. s \in Status
    BY StoreAssumption, Zenon
  <2>4. [opportunity[o] EXCEPT !.status = s] \in OpportunityRow
    BY <1>1, <2>3, Zenon DEF OpportunityRow
  <2> QED BY <1>1, <2>2, <2>4, StoreAssumption, Zenon DEF Recorded, RecordedIn, Present
<1>5. CASE RowRefreshed(o)
  <2>1. PICK score \in ContactTable :
          opportunity'[o] = Refreshed(opportunity[o], Roster(CompanyOf[o], score), score, today)
    BY <1>5, Zenon DEF RowRefreshed
  <2>2. opportunity'[o] \in OpportunityRow
    BY <1>1, <2>1, RosterType, RefreshedRow, Zenon
  <2> QED BY <1>1, <2>2, StoreAssumption, Zenon DEF Recorded, RecordedIn, Present
<1>6. CASE opportunity'[o] = Rescored(opportunity[o], today)
  <2>1. opportunity'[o] \in OpportunityRow
    BY <1>1, <1>6, RescoredRow, Zenon
  <2> QED BY <1>1, <2>1, StoreAssumption, Zenon DEF Recorded, RecordedIn, Present
<1> QED BY <1>2, <1>3, <1>4, <1>5, <1>6, RowStep, Zenon

\* Only an insertion records a row, and only ingestion notes a potential.
LEMMA OtherSteps ==
  ASSUME Inv, [Next]_vars
  PROVE  \/ \E o \in Opportunities, published \in PublicationDays :
              \E x \in Extractions[o] : Create(o, x, published)
         \/ /\ Recorded' = Recorded
            /\ \/ event_potential' = event_potential
               \/ \E o \in Opportunities : \E x \in Extractions[o] : Update(o, x)
<1>1. Recorded \subseteq Recorded'
  BY StaysRecorded
<1>2. ASSUME NEW c \in Companies, NEW score, opportunity' = RefreshedTable(opportunity, c, score, today)
      PROVE  Recorded' \subseteq Recorded
  BY <1>2, Zenon DEF RefreshedTable, Recorded, RecordedIn, OpenIn, IsOpen
<1>3. CASE \E o \in Opportunities : \E x \in Extractions[o] : Update(o, x)
  <2>1. PICK o \in Opportunities : \E x \in Extractions[o] : Update(o, x)
    BY <1>3
  <2>2. Recorded' \subseteq Recorded
    BY <2>1, SMT DEF Update, Recorded, RecordedIn, Inv, TypeOK, OpportunityTable
  <2> QED BY <1>1, <1>3, <2>2
<1>4. CASE \E k \in Contacts, s \in ContactScores, c \in Companies : SubmitContact(k, s, c)
  <2>1. Recorded' \subseteq Recorded /\ event_potential' = event_potential
    BY <1>2, <1>4, Zenon DEF SubmitContact
  <2> QED BY <1>1, <2>1
<1>5. CASE \E c \in Companies : RefreshAffected(c)
  <2>1. Recorded' \subseteq Recorded /\ event_potential' = event_potential
    BY <1>2, <1>5, Zenon DEF RefreshAffected
  <2> QED BY <1>1, <2>1
<1>6. CASE RescoreAll
  <2>1. Recorded' \subseteq Recorded /\ event_potential' = event_potential
    BY <1>6, Zenon DEF RescoreAll, RescoredTable, Recorded, RecordedIn, OpenIn, IsOpen
  <2> QED BY <1>1, <2>1
<1>7. CASE \E o \in Opportunities, s \in HumanStatuses : UpdateStatus(o, s)
  <2>1. PICK o \in Opportunities, s \in HumanStatuses : UpdateStatus(o, s)
    BY <1>7
  <2>2. Recorded' \subseteq Recorded /\ event_potential' = event_potential
    BY <2>1, SMT DEF UpdateStatus, Recorded, RecordedIn, Inv, TypeOK, OpportunityTable
  <2> QED BY <1>1, <2>2
<1>8. CASE \/ \E k \in Contacts, s \in ContactScores, c \in Companies : Discover(k, s, c)
           \/ \E c \in Companies : RefreshLost(c)
           \/ \E d \in Days : NextDay(d)
           \/ UNCHANGED vars
  <2>1. UNCHANGED <<opportunity, event_potential>>
    BY <1>8, Zenon DEF Discover, RefreshLost, NextDay, vars
  <2> QED BY <2>1, Zenon DEF Recorded, RecordedIn
<1> QED BY <1>3, <1>4, <1>5, <1>6, <1>7, <1>8, Zenon DEF Next

\* Every step keeps the rows covered.
LEMMA PotentialNext ==
  ASSUME Inv, [Next]_vars, PotentialCovers, Inv'
  PROVE  PotentialCovers'
<1>1. SUFFICES ASSUME NEW p \in Recorded' PROVE Covered(p)'
  BY Zenon DEF PotentialCovers, Covered
<1>2. p \in Opportunities /\ event_potential' \in PotentialTable
  BY Zenon DEF Recorded, RecordedIn, Inv, TypeOK
<1>3. p \in Recorded => Covered(p)
  BY Zenon DEF PotentialCovers, Covered
<1>4. CASE \E o \in Opportunities, published \in PublicationDays :
             \E x \in Extractions[o] : Create(o, x, published)
  <2>0. PICK o \in Opportunities, published \in PublicationDays :
          \E x \in Extractions[o] : Create(o, x, published)
    BY <1>4
  <2>1. PICK x \in Extractions[o] : Create(o, x, published)
    BY <2>0
  <2>2. CASE p = o
    BY <2>1, <2>2, CreateStep, WrittenCovered, Zenon
  <2>3. CASE p # o
    <3>1. opportunity'[p] = opportunity[p]
      BY <1>2, <2>1, <2>3, CreateStep, Zenon
    <3>2. p \in Recorded
      BY <1>2, <3>1, Zenon DEF Recorded, RecordedIn
    <3>3. \A d \in Companies : event_potential[d] # None =>
             event_potential'[d] # None /\ event_potential[d] =< event_potential'[d]
      BY <2>1, CreateStep, WrittenCovered, Zenon
    <3> QED BY <1>2, <1>3, <3>1, <3>2, <3>3, StaysCovered
  <2> QED BY <2>2, <2>3
<1>5. CASE \E o \in Opportunities : \E x \in Extractions[o] : Update(o, x)
  <2>0. PICK o \in Opportunities : \E x \in Extractions[o] : Update(o, x)
    BY <1>5
  <2>1. PICK x \in Extractions[o] : Update(o, x)
    BY <2>0
  <2>2. CASE p = o
    BY <2>1, <2>2, UpdateStep, WrittenCovered, Zenon
  <2>3. CASE p # o
    <3>1. opportunity'[p] = opportunity[p]
      BY <1>2, <2>1, <2>3, SMT DEF Update, Inv, TypeOK, OpportunityTable
    <3>2. p \in Recorded
      BY <1>2, <3>1, Zenon DEF Recorded, RecordedIn
    <3>3. \A d \in Companies : event_potential[d] # None =>
             event_potential'[d] # None /\ event_potential[d] =< event_potential'[d]
      BY <2>1, UpdateStep, WrittenCovered, Zenon
    <3> QED BY <1>2, <1>3, <3>1, <3>2, <3>3, StaysCovered
  <2> QED BY <2>2, <2>3
<1>6. CASE Recorded' = Recorded /\ event_potential' = event_potential
  <2>1. p \in Recorded /\ p \in Opportunities
    BY <1>6, <1>2
  <2>2. \A d \in Companies : event_potential[d] # None =>
           event_potential'[d] # None /\ event_potential[d] =< event_potential'[d]
    BY <1>6, SMT DEF Inv, TypeOK, PotentialTable, Score
  <2>3. CASE \E x \in Extractions[p] : Update(p, x)
    BY <1>5, <2>1, <2>3, Zenon
  <2>4. CASE \E s \in HumanStatuses : UpdateStatus(p, s)
    <3>1. opportunity'[p].event_probability = opportunity[p].event_probability
      BY <2>1, <2>4, RecordedRow, SMT DEF UpdateStatus, Inv, TypeOK, OpportunityTable, OpportunityRow
    <3> QED BY <1>2, <1>3, <2>1, <2>2, <3>1, StaysCovered
  <2>5. CASE \/ opportunity'[p] = opportunity[p]
             \/ RowRefreshed(p) \/ opportunity'[p] = Rescored(opportunity[p], today)
    <3>1. opportunity'[p].event_probability = opportunity[p].event_probability
      BY <2>1, <2>5, ServiceColumns, Zenon
    <3> QED BY <1>2, <1>3, <2>1, <2>2, <3>1, StaysCovered
  <2> QED BY <2>1, <2>3, <2>4, <2>5, RowStep, Zenon
<1> QED BY <1>4, <1>5, <1>6, OtherSteps, Zenon

\* A company's event potential never falls short of what its rows say.
THEOREM PotentialAlwaysCovers == Spec => []PotentialCovers
<1>1. Init => PotentialCovers
  BY Zenon DEF Init, PotentialCovers, Recorded, RecordedIn, Present
<1>2. Inv /\ Inv' /\ PotentialCovers /\ [Next]_vars => PotentialCovers'
  BY PotentialNext
<1> QED BY <1>1, <1>2, Invariance, PTL DEF Spec

-----------------------------------------------------------------------------
\* What the contacts of a row's company are worth, with the given scores.
Level(o, score) == ContactQuality(Roster(CompanyOf[o], score), score)

\* What ContactQualityCurrent says of one row.
UpToDate(o) ==
  CompanyOf[o] \in affected \/ o \in behind \/ opportunity[o].contact_quality = Level(o, contact_score)

\* A contact's score matters to the rows of its own company, and to no other.
LEMMA LevelElsewhere ==
  ASSUME Inv, NEW k \in Contacts, NEW s \in ContactScores, NEW o \in Opportunities,
         CompanyOf[o] # ContactCompany[k]
  PROVE  Level(o, [contact_score EXCEPT ![k] = s]) = Level(o, contact_score)
<1> DEFINE score  == [contact_score EXCEPT ![k] = s]
           roster == Roster(CompanyOf[o], contact_score)
<1>1. \A j \in Contacts : j # k => score[j] = contact_score[j]
  BY SMT DEF Inv, TypeOK, ContactTable
<1> HIDE DEF score
<1>2. Roster(CompanyOf[o], score) = roster
  BY <1>1, Zenon DEF Roster
<1>3. \A j \in roster : score[j] = contact_score[j]
  BY <1>1, Zenon DEF Roster
<1> HIDE DEF roster
<1>4. /\ {score[j] : j \in roster} = {contact_score[j] : j \in roster}
      /\ {j \in roster : score[j] >= ContactQualityFloor}
           = {j \in roster : contact_score[j] >= ContactQualityFloor}
  BY <1>3, SMT
<1>5. ContactQuality(roster, score) = ContactQuality(roster, contact_score)
  BY <1>4, Zenon DEF ContactQuality
<1> QED BY <1>2, <1>5 DEF Level, score, roster

\* A row a step leaves alone stays up to date if its contacts do, and it is forgotten
\* by no list that excuses it.
LEMMA StaysUpToDate ==
  ASSUME NEW o \in Opportunities, UpToDate(o),
         opportunity'[o].contact_quality = opportunity[o].contact_quality,
         Level(o, contact_score') = Level(o, contact_score),
         CompanyOf[o] \in affected => CompanyOf[o] \in affected' \/ o \in behind',
         o \in behind => o \in behind'
  PROVE  UpToDate(o)'
<1>1. Level(o, contact_score)' = Level(o, contact_score')
  BY DEF Level
<1> QED BY <1>1, Zenon DEF UpToDate

\* Re-scoring company c with the given contacts brings its open rows up to date and
\* lists the closed ones; it neither touches nor forgets a row of another company.
LEMMA RefreshReaches ==
  ASSUME Inv, NEW c \in Companies, NEW score, NEW o \in Recorded,
         opportunity' = RefreshedTable(opportunity, c, score, today),
         contact_score' = score, BehindAfter(c) \subseteq behind'
  PROVE  /\ CompanyOf[o] = c => UpToDate(o)'
         /\ CompanyOf[o] # c =>
              opportunity'[o] = opportunity[o] /\ (o \in behind => o \in behind')
<1>1. o \in Opportunities /\ opportunity[o] \in OpportunityRow
  BY RecordedRow
<1>2. CASE CompanyOf[o] = c /\ o \in Open
  <2>1. opportunity'[o] = Refreshed(opportunity[o], Roster(c, score), score, today)
    BY <1>1, <1>2, Zenon DEF RefreshedTable, Open
  <2>2. opportunity'[o].contact_quality = ContactQuality(Roster(c, score), score)
    BY <1>1, <2>1, RefreshedColumns, SMT
  <2>3. opportunity'[o].contact_quality = Level(o, contact_score)'
    BY <1>2, <2>2, Zenon DEF Level
  <2> QED BY <1>2, <2>3, Zenon DEF UpToDate
<1>3. CASE CompanyOf[o] = c /\ o \notin Open
  <2>1. o \in behind'
    BY <1>3, Zenon DEF BehindAfter, RowsOf
  <2> QED BY <1>3, <2>1, Zenon DEF UpToDate
<1>4. CASE CompanyOf[o] # c
  BY <1>1, <1>4, Zenon DEF RefreshedTable, BehindAfter, RowsOf
<1> QED BY <1>2, <1>3, <1>4

\* A discovered contact leaves no row of its company behind unlisted.
LEMMA DiscoverUpToDate ==
  ASSUME Inv, NEW k \in Contacts, NEW s \in ContactScores, NEW c \in Companies,
         Discover(k, s, c), NEW o \in Recorded, UpToDate(o)
  PROVE  UpToDate(o)'
<1>1. o \in Opportunities
  BY RecordedRow
<1>2. /\ contact_score' = [contact_score EXCEPT ![k] = s]
      /\ affected' = affected \cup {c} /\ behind' = behind \cup LeftBehind(k, c)
      /\ opportunity' = opportunity
  BY Zenon DEF Discover
<1>3. CASE CompanyOf[o] = ContactCompany[k]
  <2>1. CompanyOf[o] \in affected' \/ o \in behind'
    BY <1>2, <1>3, Zenon DEF LeftBehind, RowsOf
  <2> QED BY <2>1, Zenon DEF UpToDate
<1>4. CASE CompanyOf[o] # ContactCompany[k]
  BY <1>1, <1>2, <1>4, LevelElsewhere, StaysUpToDate, Zenon
<1> QED BY <1>3, <1>4

\* Nor does a submitted one, whichever company it was submitted for.
LEMMA SubmitUpToDate ==
  ASSUME Inv, NEW k \in Contacts, NEW s \in ContactScores, NEW c \in Companies,
         SubmitContact(k, s, c), NEW o \in Recorded, UpToDate(o)
  PROVE  UpToDate(o)'
<1> DEFINE score == [contact_score EXCEPT ![k] = s]
<1>1. o \in Opportunities
  BY RecordedRow
<1>2. /\ contact_score' = score /\ affected' = affected
      /\ opportunity' = RefreshedTable(opportunity, c, score, today)
      /\ behind' = BehindAfter(c) \cup LeftBehind(k, c)
  BY Zenon DEF SubmitContact
<1>3. /\ CompanyOf[o] = c => UpToDate(o)'
      /\ CompanyOf[o] # c => opportunity'[o] = opportunity[o] /\ (o \in behind => o \in behind')
  BY <1>2, RefreshReaches, Zenon
<1>4. CASE CompanyOf[o] # c /\ CompanyOf[o] = ContactCompany[k]
  <2>1. o \in behind'
    BY <1>2, <1>4, Zenon DEF LeftBehind, RowsOf
  <2> QED BY <2>1, Zenon DEF UpToDate
<1>5. CASE CompanyOf[o] # c /\ CompanyOf[o] # ContactCompany[k]
  BY <1>1, <1>2, <1>3, <1>5, LevelElsewhere, StaysUpToDate, Zenon
<1> QED BY <1>3, <1>4, <1>5

\* Every step keeps the rows up to date, or lists those it leaves behind.
LEMMA QualityNext ==
  ASSUME Inv, [Next]_vars, ContactQualityCurrent
  PROVE  ContactQualityCurrent'
<1>1. SUFFICES ASSUME NEW p \in Recorded' PROVE UpToDate(p)'
  BY Zenon DEF ContactQualityCurrent, UpToDate, Level
<1>2. p \in Opportunities
  BY Zenon DEF Recorded, RecordedIn
<1>3. p \in Recorded => UpToDate(p)
  BY Zenon DEF ContactQualityCurrent, UpToDate, Level
<1>4. CASE \E o \in Opportunities, published \in PublicationDays :
             \E x \in Extractions[o] : Create(o, x, published)
  <2>0. PICK o \in Opportunities, published \in PublicationDays :
          \E x \in Extractions[o] : Create(o, x, published)
    BY <1>4
  <2>1. PICK x \in Extractions[o] : Create(o, x, published)
    BY <2>0
  <2>2. UNCHANGED <<contact_score, affected, behind>>
    BY <2>1, Zenon DEF Create
  <2>3. CASE p = o
    <3>1. opportunity'[p].contact_quality = Level(p, contact_score)
      BY <2>1, <2>3, CreateStep, Zenon DEF Level
    <3> QED BY <2>2, <3>1, Zenon DEF UpToDate, Level
  <2>4. CASE p # o
    <3>1. opportunity'[p] = opportunity[p]
      BY <1>2, <2>1, <2>4, CreateStep, Zenon
    <3>2. p \in Recorded
      BY <1>2, <3>1, Zenon DEF Recorded, RecordedIn
    <3> QED BY <1>2, <1>3, <2>2, <3>1, <3>2, StaysUpToDate, Zenon
  <2> QED BY <2>3, <2>4
<1>5. CASE \E o \in Opportunities : \E x \in Extractions[o] : Update(o, x)
  <2>0. PICK o \in Opportunities : \E x \in Extractions[o] : Update(o, x)
    BY <1>5
  <2>1. PICK x \in Extractions[o] : Update(o, x)
    BY <2>0
  <2>2. UNCHANGED <<contact_score, affected>> /\ behind' = behind \ {o}
    BY <2>1, Zenon DEF Update
  <2>3. CASE p = o
    <3>1. opportunity'[p].contact_quality = Level(p, contact_score)
      BY <2>1, <2>3, UpdateStep, Zenon DEF Level
    <3> QED BY <2>2, <3>1, Zenon DEF UpToDate, Level
  <2>4. CASE p # o
    <3>1. opportunity'[p] = opportunity[p]
      BY <1>2, <2>1, <2>4, SMT DEF Update, Inv, TypeOK, OpportunityTable
    <3>2. p \in Recorded
      BY <1>2, <3>1, Zenon DEF Recorded, RecordedIn
    <3>3. p \in behind => p \in behind'
      BY <2>2, <2>4, Zenon
    <3> QED BY <1>2, <1>3, <2>2, <3>1, <3>2, <3>3, StaysUpToDate, Zenon
  <2> QED BY <2>3, <2>4
<1>6. CASE Recorded' = Recorded
  <2>1. p \in Recorded /\ UpToDate(p)
    BY <1>3, <1>6
  <2>2. CASE \E k \in Contacts, s \in ContactScores, c \in Companies : Discover(k, s, c)
    BY <2>1, <2>2, DiscoverUpToDate
  <2>3. CASE \E k \in Contacts, s \in ContactScores, c \in Companies : SubmitContact(k, s, c)
    BY <2>1, <2>3, SubmitUpToDate
  <2>4. CASE \E c \in Companies : RefreshAffected(c)
    <3>1. PICK c \in Companies : RefreshAffected(c)
      BY <2>4
    <3>2. /\ opportunity' = RefreshedTable(opportunity, c, contact_score, today)
          /\ affected' = affected \ {c} /\ behind' = BehindAfter(c)
          /\ contact_score' = contact_score
      BY <3>1, Zenon DEF RefreshAffected
    <3>3. /\ CompanyOf[p] = c => UpToDate(p)'
          /\ CompanyOf[p] # c => opportunity'[p] = opportunity[p] /\ (p \in behind => p \in behind')
      BY <2>1, <3>2, RefreshReaches, Zenon
    <3>4. CASE CompanyOf[p] # c
      BY <1>2, <2>1, <3>2, <3>3, <3>4, StaysUpToDate, Zenon
    <3> QED BY <3>3, <3>4
  <2>5. CASE \E c \in Companies : RefreshLost(c)
    <3>1. PICK c \in Companies : RefreshLost(c)
      BY <2>5
    <3>2. /\ UNCHANGED <<opportunity, contact_score>>
          /\ affected' = affected \ {c} /\ behind' = behind \cup RowsOf(c)
      BY <3>1, Zenon DEF RefreshLost
    <3>3. CompanyOf[p] \in affected => CompanyOf[p] \in affected' \/ p \in behind'
      BY <2>1, <3>2, Zenon DEF RowsOf
    <3> QED BY <1>2, <2>1, <3>2, <3>3, StaysUpToDate, Zenon
  <2>6. CASE RescoreAll
    <3>1. UNCHANGED <<contact_score, affected, behind>>
      BY <2>6, Zenon DEF RescoreAll
    <3>2. opportunity'[p] = opportunity[p] \/ opportunity'[p] = Rescored(opportunity[p], today)
      BY <1>2, <2>6, Zenon DEF RescoreAll, RescoredTable
    <3>3. opportunity'[p].contact_quality = opportunity[p].contact_quality
      BY <2>1, <3>2, RecordedRow, RescoredColumns, SMT
    <3> QED BY <1>2, <2>1, <3>1, <3>3, StaysUpToDate, Zenon
  <2>7. CASE \E o \in Opportunities, s \in HumanStatuses : UpdateStatus(o, s)
    <3>1. PICK o \in Opportunities, s \in HumanStatuses : UpdateStatus(o, s)
      BY <2>7
    <3>2. UNCHANGED <<contact_score, affected, behind>>
      BY <3>1, Zenon DEF UpdateStatus
    <3>3. opportunity'[p].contact_quality = opportunity[p].contact_quality
      BY <2>1, <3>1, RecordedRow, SMT DEF UpdateStatus, Inv, TypeOK, OpportunityTable, OpportunityRow
    <3> QED BY <1>2, <2>1, <3>2, <3>3, StaysUpToDate, Zenon
  <2>8. CASE (\E d \in Days : NextDay(d)) \/ UNCHANGED vars
    <3>1. UNCHANGED <<opportunity, contact_score, affected, behind>>
      BY <2>8, Zenon DEF NextDay, vars
    <3> QED BY <1>2, <2>1, <3>1, StaysUpToDate, Zenon
  <2> QED BY <1>4, <1>5, <2>2, <2>3, <2>4, <2>5, <2>6, <2>7, <2>8, Zenon DEF Next
<1> QED BY <1>4, <1>5, <1>6, OtherSteps, Zenon

\* Contact quality is the roll-up of the company's contacts on every row, but for the
\* rows that a refresh is known to have left, or has still to reach.
THEOREM QualityAlwaysCurrent == Spec => []ContactQualityCurrent
<1>1. Init => ContactQualityCurrent
  BY Zenon DEF Init, ContactQualityCurrent, Recorded, RecordedIn, Present
<1>2. Inv /\ ContactQualityCurrent /\ [Next]_vars => ContactQualityCurrent'
  BY QualityNext
<1> QED BY <1>1, <1>2, Invariance, PTL DEF Spec

-----------------------------------------------------------------------------
\* Rows are numbered as they are inserted: none is numbered past their count.
Numbered == \A o \in Recorded : opportunity[o].created_at =< Cardinality(Recorded)

\* The rows recorded are finitely many.
LEMMA RecordedFinite ==
  ASSUME NEW S \in SUBSET Opportunities
  PROVE  IsFiniteSet(S) /\ Cardinality(S) \in Nat
BY StoreAssumption, FS_Subset, FS_CardinalityType, Zenon

\* An insertion records one row, and no other changes.
LEMMA CreateRecords ==
  ASSUME Inv, NEW n \in Opportunities, NEW published \in PublicationDays,
         NEW x \in Extractions[n], Create(n, x, published)
  PROVE  /\ n \notin Recorded /\ Recorded' = Recorded \cup {n}
         /\ Cardinality(Recorded') = Cardinality(Recorded) + 1
<1>1. n \notin Recorded
  BY Zenon DEF Create, Recorded, RecordedIn
<1>2. opportunity'[n] \in OpportunityRow /\ \A p \in Opportunities : p # n => opportunity'[p] = opportunity[p]
  BY CreateStep, Zenon
<1>3. Recorded' = Recorded \cup {n}
  BY <1>2, StoreAssumption, Zenon DEF Recorded, RecordedIn, Present
<1>4. IsFiniteSet(Recorded)
  BY RecordedFinite, Zenon DEF Recorded, RecordedIn
<1>5. Cardinality(Recorded \cup {n}) = Cardinality(Recorded) + 1
  BY <1>1, <1>4, FS_AddElement, Zenon
<1> QED BY <1>1, <1>3, <1>5

\* A row's number never changes.
LEMMA NumberKept ==
  ASSUME Inv, [Next]_vars, NEW o \in Recorded
  PROVE  opportunity'[o].created_at = opportunity[o].created_at
<1>1. o \in Opportunities /\ opportunity[o] \in OpportunityRow
  BY RecordedRow
<1>2. CASE \E x \in Extractions[o] : Update(o, x)
  BY <1>1, <1>2, UpdateStep, Zenon
<1>3. CASE \E s \in HumanStatuses : UpdateStatus(o, s)
  BY <1>1, <1>3, SMT DEF UpdateStatus, Inv, TypeOK, OpportunityTable, OpportunityRow
<1>4. CASE RowRefreshed(o) \/ opportunity'[o] = Rescored(opportunity[o], today)
  BY <1>4, ServiceColumns, Zenon
<1> QED BY <1>2, <1>3, <1>4, RowStep, Zenon

\* Every step keeps the numbers within the count.
LEMMA NumberedNext ==
  ASSUME Inv, [Next]_vars, Numbered
  PROVE  Numbered'
<1>1. SUFFICES ASSUME NEW p \in Recorded'
      PROVE  opportunity'[p].created_at =< Cardinality(Recorded')
  BY Zenon DEF Numbered
<1>2. Cardinality(Recorded) \in Nat /\ p \in Opportunities
  BY RecordedFinite, Zenon DEF Recorded, RecordedIn
<1>3. p \in Recorded =>
        opportunity'[p].created_at \in Nat /\ opportunity'[p].created_at =< Cardinality(Recorded)
  <2>1. SUFFICES ASSUME p \in Recorded
        PROVE  opportunity'[p].created_at \in Nat /\ opportunity'[p].created_at =< Cardinality(Recorded)
    OBVIOUS
  <2>2. opportunity[p] \in OpportunityRow /\ opportunity[p].created_at =< Cardinality(Recorded)
    BY <2>1, RecordedRow, Zenon DEF Numbered
  <2>3. opportunity[p].created_at \in Nat
    BY <2>2, Zenon DEF OpportunityRow
  <2> QED BY <2>1, <2>2, <2>3, NumberKept, Zenon
<1>4. CASE \E o \in Opportunities, published \in PublicationDays :
             \E x \in Extractions[o] : Create(o, x, published)
  <2>0. PICK o \in Opportunities, published \in PublicationDays :
          \E x \in Extractions[o] : Create(o, x, published)
    BY <1>4
  <2>1. PICK x \in Extractions[o] : Create(o, x, published)
    BY <2>0
  <2>2. /\ opportunity'[o].created_at = Cardinality(Recorded) + 1
        /\ Recorded' = Recorded \cup {o} /\ Cardinality(Recorded') = Cardinality(Recorded) + 1
    BY <2>1, CreateStep, CreateRecords, Zenon
  <2> HIDE DEF Recorded
  <2> QED BY <1>1, <1>2, <1>3, <2>2, SMT
<1>5. CASE Recorded' = Recorded
  BY <1>1, <1>3, <1>5, Zenon
<1> QED BY <1>4, <1>5, OtherSteps, Zenon

\* The rankable rows ahead of o.
Ahead(o) == {p \in Rankable : RanksAhead(opportunity[p], opportunity[o])}

\* A row that the insertion of n puts out of the list makes room for n, and is weaker.
LEMMA NewcomerStronger ==
  ASSUME Inv, Inv', Numbered, NEW n \in Opportunities, NEW published \in PublicationDays,
         NEW x \in Extractions[n], Create(n, x, published), NEW o \in Top50, o \notin Top50'
  PROVE  n \in Top50' /\ Stronger(opportunity'[n], opportunity'[o])
<1>1. /\ n \notin Recorded
      /\ \A p \in Opportunities : p # n => opportunity'[p] = opportunity[p]
      /\ opportunity'[n] \in OpportunityRow
      /\ opportunity'[n].created_at = Cardinality(Recorded) + 1
  BY CreateRecords, CreateStep, Zenon
<1>2. Rankable \in SUBSET Opportunities /\ Rankable \subseteq Recorded
  BY Zenon DEF Rankable, Open, OpenIn, IsOpen, Recorded, RecordedIn
<1>3. /\ o \in Rankable /\ o \in Opportunities /\ o # n
      /\ opportunity'[o] = opportunity[o] /\ Cardinality(Ahead(o)) < TopN
  BY <1>1, <1>2, Zenon DEF Top50, Ahead
<1>4. \A p \in Opportunities \ {n} : p \in Rankable' <=> p \in Rankable
  BY <1>1, Zenon DEF Rankable, Open, OpenIn
<1>5. Rankable' \in SUBSET Opportunities /\ o \in Rankable'
  BY <1>3, <1>4, Zenon DEF Rankable, Open, OpenIn
<1>6. /\ \A p \in Opportunities : Cardinality(Ahead(p)) \in Nat /\ IsFiniteSet(Ahead(p))
      /\ \A p \in Opportunities : Cardinality(Ahead(p)') \in Nat /\ IsFiniteSet(Ahead(p)')
  <2>1. \A p : Ahead(p) \in SUBSET Opportunities /\ Ahead(p)' \in SUBSET Opportunities
    BY <1>2, <1>5, Zenon DEF Ahead
  <2> QED BY <2>1, RecordedFinite, Zenon
<1>7. ~(Cardinality(Ahead(o)') < TopN)
  BY <1>5, Zenon DEF Top50, Ahead
<1>8. n \in Ahead(o)'
  <2>1. SUFFICES ASSUME n \notin Ahead(o)' PROVE FALSE
    OBVIOUS
  <2>2. Ahead(o)' \subseteq Ahead(o)
    BY <1>1, <1>3, <1>4, <1>5, <2>1, Zenon DEF Ahead
  <2>3. Cardinality(Ahead(o)') =< Cardinality(Ahead(o))
    BY <1>3, <1>6, <2>2, FS_Subset, Zenon
  <2> QED BY <1>3, <1>6, <1>7, <2>3, LifecycleAssumption, SMT
<1>9. n \in Rankable' /\ RanksAhead(opportunity'[n], opportunity'[o])
  BY <1>8, Zenon DEF Ahead
<1>10. \A p \in Recorded : /\ opportunity[p].score \in Int /\ opportunity[p].event_probability \in Int
                           /\ opportunity[p].created_at \in Nat
  BY RecordedRow, SMT DEF OpportunityRow, Score
<1>11. /\ opportunity'[n].score \in Int /\ opportunity'[n].event_probability \in Int
       /\ opportunity'[n].created_at \in Nat
  BY <1>1, SMT DEF OpportunityRow, Score
<1>12. Stronger(opportunity'[n], opportunity'[o])
  <2>1. o \in Recorded /\ Cardinality(Recorded) \in Nat
    BY <1>2, <1>3, RecordedFinite, Zenon DEF Recorded, RecordedIn
  <2>2. opportunity[o].created_at =< Cardinality(Recorded)
    BY <2>1, Zenon DEF Numbered
  <2>3. ~(opportunity'[n].created_at < opportunity'[o].created_at)
    BY <1>1, <1>3, <1>10, <2>1, <2>2, SMT
  <2> QED BY <1>9, <2>3, Zenon DEF RanksAhead
<1>13. Ahead(n)' \subseteq Ahead(o)
  <2>1. SUFFICES ASSUME NEW p \in Ahead(n)' PROVE p \in Ahead(o)
    OBVIOUS
  <2>2. p \in Rankable' /\ RanksAhead(opportunity'[p], opportunity'[n])
    BY <2>1, Zenon DEF Ahead
  <2>3. p # n
    BY <1>11, <2>2, SMT DEF RanksAhead, Stronger
  <2>4. p \in Opportunities /\ p \in Rankable /\ opportunity'[p] = opportunity[p]
    BY <1>1, <1>4, <1>5, <2>2, <2>3, Zenon
  <2>5. p \in Recorded /\ o \in Recorded
    BY <1>2, <1>3, <2>4
  <2>6. RanksAhead(opportunity[p], opportunity[o])
    BY <1>3, <1>10, <1>11, <1>12, <2>2, <2>4, <2>5, SMT DEF RanksAhead, Stronger
  <2> QED BY <2>4, <2>6, Zenon DEF Ahead
<1>14. Cardinality(Ahead(n)') < TopN
  <2>1. Cardinality(Ahead(n)') =< Cardinality(Ahead(o))
    BY <1>3, <1>6, <1>13, FS_Subset, Zenon
  <2> QED BY <1>3, <1>6, <2>1, LifecycleAssumption, SMT
<1> QED BY <1>9, <1>12, <1>14, Zenon DEF Top50, Ahead

\* A new opportunity puts another out of the Top 50 only by being stronger than it.
THEOREM NewcomersAlwaysEarn == Spec => NewcomersEarnTheirPlace
<1> DEFINE Earned50 == \A n \in Opportunities \ Recorded, o \in Top50 :
                         n \in Recorded' /\ o \notin Top50' =>
                           n \in Top50' /\ Stronger(opportunity'[n], opportunity'[o])
<1>1. Init => Numbered
  BY Zenon DEF Init, Numbered, Recorded, RecordedIn, Present
<1>2. Inv /\ Numbered /\ [Next]_vars => Numbered'
  BY NumberedNext
<1>3. ASSUME Inv, Inv', Numbered, [Next]_vars PROVE Earned50
  <2>1. SUFFICES ASSUME NEW n \in Opportunities \ Recorded, NEW o \in Top50,
                        n \in Recorded', o \notin Top50'
                 PROVE  n \in Top50' /\ Stronger(opportunity'[n], opportunity'[o])
    BY Zenon
  <2>2. PICK p \in Opportunities, published \in PublicationDays :
          \E x \in Extractions[p] : Create(p, x, published)
    BY <1>3, <2>1, OtherSteps, Zenon
  <2>3. PICK x \in Extractions[p] : Create(p, x, published)
    BY <2>2
  <2>4. p = n
    BY <1>3, <2>1, <2>3, CreateRecords, Zenon
  <2> QED BY <1>3, <2>1, <2>3, <2>4, NewcomerStronger, Zenon
<1>4. Inv /\ Inv' /\ Numbered /\ [Next]_vars =>
        [\A n \in Opportunities \ Recorded, o \in Top50 :
           n \in Recorded' /\ o \notin Top50' =>
             n \in Top50' /\ Stronger(opportunity'[n], opportunity'[o])]_vars
  BY <1>3, Zenon
<1> QED BY <1>1, <1>2, <1>4, Invariance, PTL DEF Spec, NewcomersEarnTheirPlace

-----------------------------------------------------------------------------
(***************************************************************************)
(* The list.  Counting who ranks ahead picks what ORDER BY ... LIMIT does, *)
(* because the order has no ties: no two rows were created together.       *)
(***************************************************************************)
Distinct ==
  \A p, q \in Recorded : p # q => opportunity[p].created_at # opportunity[q].created_at

\* A row inserted is numbered past all others, and numbers stay.
LEMMA DistinctNext ==
  ASSUME Inv, [Next]_vars, Numbered, Distinct
  PROVE  Distinct'
<1>1. \A p \in Recorded : /\ opportunity'[p].created_at = opportunity[p].created_at
                          /\ opportunity[p].created_at \in Nat
                          /\ opportunity[p].created_at =< Cardinality(Recorded)
  <2>1. SUFFICES ASSUME NEW p \in Recorded
        PROVE  /\ opportunity'[p].created_at = opportunity[p].created_at
               /\ opportunity[p].created_at \in Nat
               /\ opportunity[p].created_at =< Cardinality(Recorded)
    BY Zenon
  <2>2. opportunity[p] \in OpportunityRow
    BY <2>1, RecordedRow
  <2>3. opportunity[p].created_at \in Nat
    BY <2>2, Zenon DEF OpportunityRow
  <2> QED BY <2>1, <2>3, NumberKept, Zenon DEF Numbered
<1>2. CASE \E o \in Opportunities, published \in PublicationDays :
             \E x \in Extractions[o] : Create(o, x, published)
  <2>1. PICK o \in Opportunities, published \in PublicationDays :
          \E x \in Extractions[o] : Create(o, x, published)
    BY <1>2
  <2>2. PICK x \in Extractions[o] : Create(o, x, published)
    BY <2>1
  <2>3. /\ opportunity'[o].created_at = Cardinality(Recorded) + 1
        /\ Recorded' = Recorded \cup {o}
    BY <2>2, CreateStep, CreateRecords, Zenon
  <2>4. Cardinality(Recorded) \in Nat
    BY RecordedFinite, Zenon DEF Recorded, RecordedIn
  <2>5. ASSUME NEW p \in Recorded', NEW q \in Recorded', p # q
        PROVE  opportunity'[p].created_at # opportunity'[q].created_at
    <3> HIDE DEF Recorded
    <3>1. CASE p = o
      BY <1>1, <2>3, <2>4, <2>5, <3>1, SMT
    <3>2. CASE q = o
      BY <1>1, <2>3, <2>4, <2>5, <3>2, SMT
    <3>3. CASE p # o /\ q # o
      BY <1>1, <2>3, <2>5, <3>3, SMT DEF Distinct
    <3> QED BY <3>1, <3>2, <3>3
  <2> QED BY <2>5, Zenon DEF Distinct
<1>3. CASE Recorded' = Recorded
  <2>1. ASSUME NEW p \in Recorded', NEW q \in Recorded', p # q
        PROVE  opportunity'[p].created_at # opportunity'[q].created_at
    <3>1. p \in Recorded /\ q \in Recorded
      BY <1>3, <2>1
    <3>2. opportunity[p].created_at # opportunity[q].created_at
      BY <2>1, <3>1, Zenon DEF Distinct
    <3> QED BY <1>1, <3>1, <3>2, Zenon
  <2> QED BY <2>1, Zenon DEF Distinct
<1> QED BY <1>2, <1>3, OtherSteps, Zenon

\* Of two rankable rows one ranks ahead, and then whatever ranks ahead of it ranks
\* ahead of the other as well, which is one row more.
LEMMA RankingIsTotal ==
  ASSUME Inv, Distinct, NEW p \in Rankable, NEW q \in Rankable, p # q
  PROVE  /\ RanksAhead(opportunity[p], opportunity[q]) \/ RanksAhead(opportunity[q], opportunity[p])
         /\ p \in Ahead(q) =>
              /\ Ahead(p) \subseteq Ahead(q) /\ p \notin Ahead(p)
              /\ Cardinality(Ahead(p)) < Cardinality(Ahead(q))
<1>1. Rankable \in SUBSET Opportunities /\ Rankable \subseteq Recorded
  BY Zenon DEF Rankable, Open, OpenIn, IsOpen, Recorded, RecordedIn
<1>2. \A r \in Rankable : /\ opportunity[r].score \in Int
                          /\ opportunity[r].event_probability \in Int
                          /\ opportunity[r].created_at \in Int
  BY <1>1, RecordedRow, SMT DEF OpportunityRow, Score
<1>3. opportunity[p].created_at # opportunity[q].created_at
  BY <1>1, Zenon DEF Distinct
<1>4. RanksAhead(opportunity[p], opportunity[q]) \/ RanksAhead(opportunity[q], opportunity[p])
  BY <1>2, <1>3, SMT DEF RanksAhead, Stronger
<1>5. ASSUME p \in Ahead(q)
      PROVE  /\ Ahead(p) \subseteq Ahead(q) /\ p \notin Ahead(p)
             /\ Cardinality(Ahead(p)) < Cardinality(Ahead(q))
  <2>1. RanksAhead(opportunity[p], opportunity[q])
    BY <1>5, Zenon DEF Ahead
  <2>2. Ahead(p) \subseteq Ahead(q)
    <3>1. SUFFICES ASSUME NEW r \in Rankable, RanksAhead(opportunity[r], opportunity[p])
                   PROVE  RanksAhead(opportunity[r], opportunity[q])
      BY Zenon DEF Ahead
    <3> QED BY <1>2, <2>1, <3>1, SMT DEF RanksAhead, Stronger
  <2>3. p \notin Ahead(p)
    <3>1. ~RanksAhead(opportunity[p], opportunity[p])
      BY <1>2, SMT DEF RanksAhead, Stronger
    <3> QED BY <3>1, Zenon DEF Ahead
  <2>4. Ahead(p) \in SUBSET Opportunities /\ Ahead(q) \in SUBSET Opportunities
    BY <1>1, Zenon DEF Ahead
  <2>5. /\ IsFiniteSet(Ahead(p)) /\ Cardinality(Ahead(p)) \in Nat
        /\ IsFiniteSet(Ahead(q)) /\ Cardinality(Ahead(q)) \in Nat
    BY <2>4, RecordedFinite
  <2>6. Ahead(p) # Ahead(q)
    BY <1>5, <2>3
  <2>7. Cardinality(Ahead(p)) =< Cardinality(Ahead(q))
        /\ Cardinality(Ahead(p)) # Cardinality(Ahead(q))
    BY <2>2, <2>5, <2>6, FS_Subset, Zenon
  <2> QED BY <2>2, <2>3, <2>5, <2>7, SMT
<1> QED BY <1>4, <1>5

\* No more rows than the limit have fewer than that many ahead of them.
LEMMA ListFits ==
  ASSUME Inv, Distinct
  PROVE  Cardinality(Top50) =< TopN
<1> DEFINE places == 0..(TopN - 1)
           place  == [o \in Top50 |-> Cardinality(Ahead(o))]
<1>1. Rankable \in SUBSET Opportunities /\ Top50 \subseteq Rankable
  BY Zenon DEF Top50, Rankable, Open, OpenIn
<1>2. \A o \in Top50 : Cardinality(Ahead(o)) < TopN /\ Cardinality(Ahead(o)) \in Nat
  <2>1. \A o : Ahead(o) \in SUBSET Opportunities
    BY <1>1, Zenon DEF Ahead
  <2> QED BY <2>1, RecordedFinite, Zenon DEF Top50, Ahead
<1>3. place \in [Top50 -> places]
  <2>1. \A o \in Top50 : Cardinality(Ahead(o)) \in places
    BY <1>2, LifecycleAssumption, SMT
  <2> HIDE DEF places
  <2> QED BY <2>1, Zenon
<1>4. IsFiniteSet(places) /\ Cardinality(places) = TopN
  <2>1. 0 \in Int /\ TopN - 1 \in Int /\ TopN \in Int /\ ~(0 > TopN - 1)
    BY LifecycleAssumption, SMT
  <2>2. /\ IsFiniteSet(0..(TopN - 1))
        /\ Cardinality(0..(TopN - 1)) = IF 0 > TopN - 1 THEN 0 ELSE (TopN - 1) - 0 + 1
    BY <2>1, FS_Interval, Zenon
  <2>3. Cardinality(0..(TopN - 1)) = (TopN - 1) - 0 + 1
    BY <2>1, <2>2, Zenon
  <2>4. (TopN - 1) - 0 + 1 = TopN
    BY <2>1, SMT
  <2> QED BY <2>2, <2>3, <2>4, Zenon
<1>5. IsFiniteSet(Top50) /\ Cardinality(Top50) \in Nat
  BY <1>1, RecordedFinite, Zenon
<1>6. \A p, q \in Top50 : p # q => place[p] # place[q]
  <2>1. SUFFICES ASSUME NEW p \in Top50, NEW q \in Top50, p # q
                 PROVE  Cardinality(Ahead(p)) # Cardinality(Ahead(q))
    BY Zenon
  <2>2. p \in Ahead(q) \/ q \in Ahead(p)
    BY <1>1, <2>1, RankingIsTotal, Zenon DEF Ahead
  <2>3. Cardinality(Ahead(p)) < Cardinality(Ahead(q)) \/ Cardinality(Ahead(q)) < Cardinality(Ahead(p))
    BY <1>1, <2>1, <2>2, RankingIsTotal, Zenon
  <2> QED BY <1>2, <2>1, <2>3, SMT
<1> HIDE DEF places, place
<1>7. ~(Cardinality(places) < Cardinality(Top50))
  BY <1>3, <1>4, <1>5, <1>6, FS_PigeonHole, Zenon
<1> QED BY <1>4, <1>5, <1>7, LifecycleAssumption, SMT

\* If a rankable row is not listed, the limit is reached: ahead of the first such row
\* there are none but listed ones.
LEMMA ListIsFull ==
  ASSUME Inv, Distinct, NEW out \in Rankable \ Top50
  PROVE  TopN =< Cardinality(Top50)
<1> DEFINE T == {Ahead(p) : p \in Rankable \ Top50}
           R == StrictSubsetOrdering(Opportunities)
<1>1. Rankable \in SUBSET Opportunities /\ Top50 \subseteq Rankable
  BY Zenon DEF Top50, Rankable, Open, OpenIn
<1>2. \A p : Ahead(p) \in SUBSET Opportunities /\ Ahead(p) \subseteq Rankable /\ IsFiniteSet(Ahead(p))
  <2>1. \A p : Ahead(p) \in SUBSET Opportunities /\ Ahead(p) \subseteq Rankable
    BY <1>1, Zenon DEF Ahead
  <2> QED BY <2>1, RecordedFinite, Zenon
<1>3. T \subseteq FiniteSubsetsOf(Opportunities) /\ T # {}
  BY <1>2, SMT DEF FiniteSubsetsOf
<1>4. \E t \in T : \A u \in T : <<u, t>> \notin R
  <2>1. IsWellFoundedOn(R, FiniteSubsetsOf(Opportunities))
    BY FS_StrictSubsetOrderingWellFounded, Zenon
  <2> HIDE DEF T, R
  <2> QED BY <1>3, <2>1, WFMin, Zenon
<1>5. PICK p \in Rankable \ Top50 : \A u \in T : <<u, Ahead(p)>> \notin R
  BY <1>4, Zenon
<1>6. Ahead(p) \subseteq Top50
  <2>1. SUFFICES ASSUME NEW q \in Ahead(p), q \notin Top50 PROVE FALSE
    BY Zenon
  <2>2. q \in Rankable \ Top50
    BY <1>2, <2>1, Zenon
  <2>3. q # p
    <3>1. /\ opportunity[p].score \in Int /\ opportunity[p].event_probability \in Int
          /\ opportunity[p].created_at \in Int
      <4>1. p \in Recorded
        BY <1>5, Zenon DEF Rankable, Open, OpenIn, IsOpen, Recorded, RecordedIn
      <4> QED BY <4>1, RecordedRow, SMT DEF OpportunityRow, Score
    <3>2. ~RanksAhead(opportunity[p], opportunity[p])
      BY <3>1, SMT DEF RanksAhead, Stronger
    <3> QED BY <2>1, <3>2, Zenon DEF Ahead
  <2>4. Ahead(q) \subseteq Ahead(p) /\ q \notin Ahead(q)
    BY <1>5, <2>1, <2>2, <2>3, RankingIsTotal, Zenon
  <2>5. <<Ahead(q), Ahead(p)>> \in R
    BY <1>2, <2>1, <2>4, SMT DEF StrictSubsetOrdering
  <2> QED BY <1>5, <2>2, <2>5, Zenon
<1>7. IsFiniteSet(Top50) /\ Cardinality(Top50) \in Nat
      /\ IsFiniteSet(Ahead(p)) /\ Cardinality(Ahead(p)) \in Nat
  BY <1>1, <1>2, RecordedFinite, Zenon
<1>8. ~(Cardinality(Ahead(p)) < TopN)
  BY <1>5, Zenon DEF Top50, Ahead
<1>9. Cardinality(Ahead(p)) =< Cardinality(Top50)
  BY <1>6, <1>7, FS_Subset, Zenon
<1> QED BY <1>7, <1>8, <1>9, LifecycleAssumption, SMT

\* The list holds at most as many rows as it has places, every listed row ranks ahead
\* of every other one that qualifies, and if one is left out no place is free: it is
\* what "ORDER BY ... LIMIT" selects (services/top50.py).
ListIsExact ==
  /\ Cardinality(Top50) =< TopN
  /\ \A o \in Top50, p \in Rankable \ Top50 : RanksAhead(opportunity[o], opportunity[p])
  /\ Rankable = Top50 \/ Cardinality(Top50) = TopN

\* In every state the list is the query's answer: the best that qualify, as many as
\* there are places.
THEOREM ListAlwaysExact == Spec => []ListIsExact
<1>1. Init => Numbered /\ Distinct
  BY Zenon DEF Init, Numbered, Distinct, Recorded, RecordedIn, Present
<1>2. Inv /\ Numbered /\ Distinct /\ [Next]_vars => Numbered' /\ Distinct'
  BY NumberedNext, DistinctNext
<1>3. Inv /\ Distinct => ListIsExact
  <2> SUFFICES ASSUME Inv, Distinct PROVE ListIsExact
    OBVIOUS
  <2>1. Top50 \subseteq Rankable
    BY Zenon DEF Top50
  <2>2. ASSUME NEW o \in Top50, NEW p \in Rankable \ Top50
        PROVE  RanksAhead(opportunity[o], opportunity[p])
    <3>1. SUFFICES ASSUME ~RanksAhead(opportunity[o], opportunity[p]) PROVE FALSE
      OBVIOUS
    <3>2. p \in Ahead(o)
      BY <2>1, <2>2, <3>1, RankingIsTotal, Zenon DEF Ahead
    <3>3. Cardinality(Ahead(p)) < Cardinality(Ahead(o))
      BY <2>1, <2>2, <3>2, RankingIsTotal, Zenon
    <3>4. /\ Cardinality(Ahead(o)) < TopN /\ ~(Cardinality(Ahead(p)) < TopN)
      BY <2>2, Zenon DEF Top50, Ahead
    <3>5. Cardinality(Ahead(o)) \in Nat /\ Cardinality(Ahead(p)) \in Nat
      <4>1. \A r : Ahead(r) \in SUBSET Opportunities
        BY Zenon DEF Ahead, Rankable, Open, OpenIn
      <4> QED BY <4>1, RecordedFinite
    <3> QED BY <3>3, <3>4, <3>5, LifecycleAssumption, SMT
  <2>3. Cardinality(Top50) =< TopN
    BY ListFits
  <2>4. Rankable = Top50 \/ Cardinality(Top50) = TopN
    <3>1. Cardinality(Top50) \in Nat
      <4>1. Top50 \in SUBSET Opportunities
        BY Zenon DEF Top50, Rankable, Open, OpenIn
      <4> QED BY <4>1, RecordedFinite
    <3>2. ASSUME NEW out \in Rankable \ Top50 PROVE Cardinality(Top50) = TopN
      <4>1. TopN =< Cardinality(Top50)
        BY <3>2, ListIsFull
      <4> QED BY <2>3, <3>1, <4>1, LifecycleAssumption, SMT
    <3> QED BY <2>1, <3>2
  <2> QED BY <2>2, <2>3, <2>4, Zenon DEF ListIsExact
<1> QED BY <1>1, <1>2, <1>3, Invariance, PTL DEF Spec

-----------------------------------------------------------------------------
(***************************************************************************)
(* The brief.  Rows remember one movement, and the chronicle counts them:  *)
(* a row unmoved in the window says as much, one moved once knows from     *)
(* where.                                                                  *)
(***************************************************************************)
\* No movement lies in the future, and only rows that were there have an opening.
Dated ==
  \A o \in Recorded :
    opportunity[o].score_changed_at = None \/ opportunity[o].score_changed_at =< today
OpenedRecorded == \A o \in Opportunities : opening[o] # None => o \in Recorded

\* What a row remembers of the window, as far as the chronicle counts.
Chronicled(o) ==
  opening[o] # None =>
    /\ writes[o] = 0 =>
         /\ opportunity[o].score = opening[o]
         /\ opportunity[o].previous_score = None \/ opportunity[o].score_changed_at # today
    /\ writes[o] = 1 =>
         /\ opportunity[o].previous_score = opening[o]
         /\ opportunity[o].score_changed_at = today

BriefInv ==
  /\ opening \in [Opportunities -> Score \cup {None}]
  /\ writes \in [Opportunities -> 0..2]
  /\ Dated /\ OpenedRecorded
  /\ \A o \in Recorded : Chronicled(o)

\* A row inserted has no movement to remember.
LEMMA CreateForgets ==
  ASSUME NEW o \in Opportunities, NEW published, NEW x, Create(o, x, published)
  PROVE  /\ o \notin Recorded
         /\ \E contacts, number :
              LET row == Created(x, o \in Confirmed, contacts, contact_score, published, number, today)
              IN  opportunity' = [opportunity EXCEPT ![o] = row]
         /\ today' = today
BY Zenon DEF Create, RowCreated, Recorded, RecordedIn

\* A row just created has no memory of a movement.
LEMMA CreatedForgets ==
  ASSUME NEW x, NEW confirmed, NEW contacts, NEW score, NEW published, NEW number, NEW day
  PROVE  Created(x, confirmed, contacts, score, published, number, day).score_changed_at = None
BY SMT DEF Created, Scored, MovedIf, Moved

\* In every step of a service a recorded row keeps its memory; in the pass it may
\* also record that only its factor moved.
LEMMA StepRemembers ==
  ASSUME Inv, [Next]_vars, NEW o \in Recorded
  PROVE  /\ ~RescoreAll => Remembers(opportunity[o], opportunity'[o], today)
         /\ RescoreAll =>
              \/ opportunity'[o] = opportunity[o]
              \/ /\ \/ opportunity'[o].score # opportunity[o].score
                    \/ opportunity'[o].decay_factor # opportunity[o].decay_factor
                 /\ opportunity'[o].previous_score = opportunity[o].score
                 /\ opportunity'[o].score_changed_at = today
<1>1. o \in Opportunities /\ opportunity[o] \in OpportunityRow
  BY RecordedRow
<1>2. ASSUME RescoreAll
      PROVE  opportunity'[o] = opportunity[o] \/ opportunity'[o] = Rescored(opportunity[o], today)
  BY <1>1, <1>2, Zenon DEF RescoreAll, RescoredTable
<1>3. ASSUME RescoreAll
      PROVE  \/ opportunity'[o] = opportunity[o]
             \/ /\ \/ opportunity'[o].score # opportunity[o].score
                   \/ opportunity'[o].decay_factor # opportunity[o].decay_factor
                /\ opportunity'[o].previous_score = opportunity[o].score
                /\ opportunity'[o].score_changed_at = today
  <2>1. CASE opportunity'[o] = Rescored(opportunity[o], today)
    BY <1>1, <2>1, RescoredRemembers, SMT
  <2> QED BY <1>2, <1>3, <2>1
<1>4. ASSUME ~RescoreAll PROVE Remembers(opportunity[o], opportunity'[o], today)
  <2>1. CASE opportunity'[o] = opportunity[o]
    BY <2>1, Zenon DEF Remembers
  <2>2. CASE \E x \in Extractions[o] : Update(o, x)
    <3>1. PICK x \in Extractions[o] : Update(o, x)
      BY <2>2
    <3>2. opportunity'[o] = Updated(opportunity[o], x, o \in Confirmed,
                                    Roster(CompanyOf[o], contact_score), contact_score, today)
      BY <1>1, <3>1, SMT DEF Inv, TypeOK, OpportunityTable, Update, RowUpdated
    <3> DEFINE confirmed == o \in Confirmed
               roster == Roster(CompanyOf[o], contact_score)
    <3>3. opportunity'[o] = Updated(opportunity[o], x, confirmed, roster, contact_score, today)
      BY <3>2
    <3> HIDE DEF confirmed, roster
    <3> QED BY <1>1, <3>3, UpdatedRemembers, Zenon
  <2>3. CASE \E s \in HumanStatuses : UpdateStatus(o, s)
    <3>1. PICK s \in HumanStatuses : UpdateStatus(o, s)
      BY <2>3
    <3>2. opportunity'[o] = [opportunity[o] EXCEPT !.status = s]
      BY <1>1, <3>1, SMT DEF UpdateStatus, Inv, TypeOK, OpportunityTable
    <3> QED BY <1>1, <3>2, SMT DEF Remembers, OpportunityRow
  <2>4. CASE RowRefreshed(o)
    <3>1. PICK score \in ContactTable :
            opportunity'[o] = Refreshed(opportunity[o], Roster(CompanyOf[o], score), score, today)
      BY <2>4, Zenon DEF RowRefreshed
    <3> QED BY <1>1, <3>1, RefreshedRemembers, Zenon
  <2> QED BY <1>4, <2>1, <2>2, <2>3, <2>4, RowStep, Zenon
<1> QED BY <1>3, <1>4, Zenon

\* Only the calendar moves the day, onwards, and it moves nothing else.
LEMMA DayMoves ==
  ASSUME Inv, [Next]_vars, today' # today
  PROVE  opportunity' = opportunity /\ today \in Int /\ today' \in Int /\ today < today'
<1>1. \E d \in Days : NextDay(d)
  BY Zenon DEF Next, vars, Create, Update, Discover, SubmitContact, RefreshAffected, RefreshLost,
       RescoreAll, UpdateStatus
<1>2. PICK d \in Days : NextDay(d)
  BY <1>1
<1>3. today \in Int /\ d \in Int
  BY <1>2, StoreAssumption, SMT DEF Inv, TypeOK, Day
<1> QED BY <1>2, <1>3, SMT DEF NextDay

\* A movement within the window is counted, and remembered if it is the first.
LEMMA ChronicleKeeps ==
  ASSUME Inv, Inv', [Next]_vars, Chronicle, BriefInv, today' = today, NEW o \in Recorded
  PROVE  /\ Chronicled(o)'
         /\ opportunity'[o].score_changed_at = None \/ opportunity'[o].score_changed_at =< today
<1>1. /\ o \in Opportunities /\ opportunity[o] \in OpportunityRow /\ opportunity[o] # NoRow
      /\ opening[o] \in Score \cup {None} /\ writes[o] \in 0..2
      /\ Chronicled(o)
      /\ opportunity[o].score_changed_at = None \/ opportunity[o].score_changed_at =< today
  BY RecordedRow, Zenon DEF BriefInv, Dated
<1>2. /\ opening'[o] = opening[o]
      /\ writes'[o] = IF Records(o) /\ writes[o] < 2 THEN writes[o] + 1 ELSE writes[o]
  BY <1>1, Zenon DEF Chronicle
<1>3. today \in Int
  BY SMT DEF Inv, TypeOK, Day
<1>4. CASE Records(o)
  <2>1. opportunity'[o].previous_score = opportunity[o].score /\ opportunity'[o].score_changed_at = today
    BY <1>1, <1>4, StepRemembers, Zenon DEF Records, Remembers
  <2> QED BY <1>1, <1>2, <1>3, <1>4, <2>1, SMT DEF Chronicled
<1>5. CASE ~Records(o)
  <2>1. /\ opportunity'[o].score = opportunity[o].score
        /\ opportunity'[o].previous_score = opportunity[o].previous_score
        /\ opportunity'[o].score_changed_at = opportunity[o].score_changed_at
    BY <1>1, <1>5, StepRemembers, Zenon DEF Records, Remembers, Present
  <2> QED BY <1>1, <1>2, <1>5, <2>1, Zenon DEF Chronicled
<1> QED BY <1>4, <1>5

\* Every step keeps the chronicle and the rows' memories in agreement.
LEMMA BriefNextInv ==
  ASSUME Inv, Inv', [Next]_vars, Chronicle, BriefInv
  PROVE  BriefInv'
<1>1. CASE today' # today
  <2>1. opportunity' = opportunity /\ today \in Int /\ today' \in Int /\ today < today'
    BY <1>1, DayMoves
  <2>2. /\ opening' = [o \in Opportunities |->
             IF Present(opportunity[o]) THEN opportunity[o].score ELSE None]
        /\ writes' = [o \in Opportunities |-> 0]
    BY <1>1, Zenon DEF Chronicle
  <2>3. Recorded' = Recorded
    BY <2>1, Zenon DEF Recorded, RecordedIn
  <2>4. \A o \in Recorded : o \in Opportunities /\ opportunity[o] \in OpportunityRow
    BY RecordedRow
  <2>5. opening' \in [Opportunities -> Score \cup {None}]
    <3>1. ASSUME NEW o \in Opportunities, Present(opportunity[o]) PROVE opportunity[o].score \in Score
      <4>1. opportunity[o] \in OpportunityRow
        BY <3>1, RecordedRow, Zenon DEF Recorded, RecordedIn
      <4> QED BY <4>1, Zenon DEF OpportunityRow
    <3> QED BY <2>2, <3>1, Zenon
  <2>6. writes' \in [Opportunities -> 0..2]
    BY <2>2, SMT
  <2>7. OpenedRecorded'
    BY <2>2, <2>3, Zenon DEF OpenedRecorded, Recorded, RecordedIn
  <2>8. ASSUME NEW o \in Recorded
        PROVE  /\ opportunity[o].score_changed_at = None \/ opportunity[o].score_changed_at < today'
               /\ opportunity[o].score_changed_at # today'
    <3>1. opportunity[o].score_changed_at \in Int \cup {None}
      BY <2>4, SMT DEF OpportunityRow, Day
    <3> QED BY <2>1, <3>1, SettingsAssumption, SMT DEF BriefInv, Dated
  <2>9. Dated'
    <3>1. \A o \in Recorded : opportunity[o].score_changed_at \in Int \cup {None}
      BY <2>4, SMT DEF OpportunityRow, Day
    <3> QED BY <2>1, <2>3, <2>8, <3>1, SMT DEF Dated
  <2>10. \A o \in Recorded' : Chronicled(o)'
    <3>1. ASSUME NEW o \in Recorded PROVE Chronicled(o)'
      <4>1. opening'[o] = opportunity[o].score /\ writes'[o] = 0
        BY <2>2, <2>4, RecordedRow, Zenon DEF Present
      <4> QED BY <2>1, <2>8, <4>1, SMT DEF Chronicled
    <3> QED BY <2>3, <3>1, Zenon
  <2> QED BY <2>5, <2>6, <2>7, <2>9, <2>10, Zenon DEF BriefInv
<1>2. CASE today' = today
  <2>1. /\ opening' = opening
        /\ writes' = [o \in Opportunities |->
             IF Records(o) /\ writes[o] < 2 THEN writes[o] + 1 ELSE writes[o]]
    BY <1>2, Zenon DEF Chronicle
  <2>2. writes' \in [Opportunities -> 0..2]
    <3>1. ASSUME NEW o \in Opportunities
          PROVE  (IF Records(o) /\ writes[o] < 2 THEN writes[o] + 1 ELSE writes[o]) \in 0..2
      <4>1. writes[o] \in 0..2
        BY Zenon DEF BriefInv
      <4> QED BY <4>1, SMT
    <3> QED BY <2>1, <3>1, Zenon
  <2>3. OpenedRecorded'
    BY <2>1, StaysRecorded, Zenon DEF BriefInv, OpenedRecorded
  <2>4. ASSUME NEW o \in Recorded', o \notin Recorded
        PROVE  opening'[o] = None /\ opportunity'[o].score_changed_at = None
    <3>1. o \in Opportunities /\ opening'[o] = None
      BY <2>1, <2>4, Zenon DEF BriefInv, OpenedRecorded, Recorded, RecordedIn
    <3>2. PICK p \in Opportunities, published \in PublicationDays :
            \E x \in Extractions[p] : Create(p, x, published)
      BY <2>4, OtherSteps, Zenon
    <3>3. PICK x \in Extractions[p] : Create(p, x, published)
      BY <3>2
    <3>4. p = o
      BY <2>4, <3>3, CreateRecords, Zenon
    <3>5. PICK contacts, number :
            opportunity' = [opportunity EXCEPT ![o] =
              Created(x, o \in Confirmed, contacts, contact_score, published, number, today)]
      BY <3>3, <3>4, CreateForgets, Zenon
    <3>6. opportunity'[o] = Created(x, o \in Confirmed, contacts, contact_score, published, number, today)
      BY <3>1, <3>5, Zenon DEF Inv, TypeOK, OpportunityTable
    <3> QED BY <3>1, <3>6, CreatedForgets, Zenon
  <2>5. Dated'
    <3>1. ASSUME NEW o \in Recorded'
          PROVE  opportunity'[o].score_changed_at = None \/ opportunity'[o].score_changed_at =< today'
      BY <1>2, <2>4, ChronicleKeeps, Zenon
    <3> QED BY <3>1, Zenon DEF Dated
  <2>6. \A o \in Recorded' : Chronicled(o)'
    <3>1. ASSUME NEW o \in Recorded' PROVE Chronicled(o)'
      <4>1. CASE o \in Recorded
        BY <1>2, <4>1, ChronicleKeeps, Zenon
      <4>2. CASE o \notin Recorded
        BY <2>4, <4>2, Zenon DEF Chronicled
      <4> QED BY <4>1, <4>2
    <3> QED BY <3>1, Zenon
  <2> QED BY <2>1, <2>2, <2>3, <2>5, <2>6, Zenon DEF BriefInv
<1> QED BY <1>1, <1>2

\* What the brief says of a row is what became of it since the window opened: the
\* services that move a score all keep the columns it is derived from
\* (build_daily_brief; create_or_update_opportunity, refresh_contact_quality,
\* rescore_all).
THEOREM BriefTellsTheTruth == BriefSpec => []BriefTellsTheDay
<1>1. BriefInit => BriefInv
  <2> SUFFICES ASSUME BriefInit PROVE BriefInv
    OBVIOUS
  <2>1. Recorded = {}
    BY Zenon DEF BriefInit, Init, Recorded, RecordedIn, Present
  <2>2. opening \in [Opportunities -> Score \cup {None}] /\ writes \in [Opportunities -> 0..2]
    BY SMT DEF BriefInit
  <2>3. OpenedRecorded
    BY Zenon DEF BriefInit, OpenedRecorded
  <2> QED BY <2>1, <2>2, <2>3, Zenon DEF BriefInv, Dated
<1>2. Inv /\ Inv' /\ BriefInv /\ [BriefNext]_brief_vars => BriefInv'
  <2> SUFFICES ASSUME Inv, Inv', BriefInv, [BriefNext]_brief_vars PROVE BriefInv'
    OBVIOUS
  <2>1. CASE BriefNext
    BY <2>1, BriefNextInv, Zenon DEF BriefNext
  <2>2. CASE UNCHANGED brief_vars
    BY <2>2, Zenon DEF brief_vars, vars, BriefInv, Dated, OpenedRecorded, Chronicled, Recorded, RecordedIn
  <2> QED BY <2>1, <2>2
<1>3. BriefInit => Init
  BY DEF BriefInit
<1>4. [BriefNext]_brief_vars => [Next]_vars
  BY DEF BriefNext, brief_vars
<1>5. Inv /\ BriefInv => BriefTellsTheDay
  <2> SUFFICES ASSUME Inv, BriefInv, NEW o \in Recorded, opening[o] # None, writes[o] =< 1
               PROVE  Reported(o) = ChangeBetween(opening[o], opportunity[o].score)
    BY DEF BriefTellsTheDay
  <2>1. /\ o \in Opportunities /\ opportunity[o] \in OpportunityRow /\ opportunity[o] # NoRow
        /\ writes[o] \in 0..2 /\ opening[o] \in Score /\ Chronicled(o)
    BY RecordedRow, Zenon DEF BriefInv
  <2>2. CASE writes[o] = 0
    <3>1. opportunity[o].score = opening[o] /\ o \notin MovedInWindow
      BY <2>1, <2>2, Zenon DEF Chronicled, MovedInWindow
    <3>2. opening[o] \in Int
      BY <2>1, SMT DEF Score
    <3>3. ChangeBetween(opening[o], opening[o]) = "NONE"
      BY <3>2, SMT DEF ChangeBetween
    <3> QED BY <3>1, <3>3, Zenon DEF Reported
  <2>3. CASE writes[o] = 1
    <3>1. opportunity[o].previous_score = opening[o] /\ opportunity[o].score_changed_at = today
      BY <2>1, <2>3, Zenon DEF Chronicled
    <3>2. o \in MovedInWindow
      BY <3>1, Zenon DEF MovedInWindow, BornInWindow
    <3> QED BY <3>1, <3>2, Zenon DEF Reported
  <2> QED BY <2>1, <2>2, <2>3, SMT
<1> QED BY <1>1, <1>2, <1>3, <1>4, <1>5, InvInit, InvNext, PTL DEF BriefSpec
=============================================================================
