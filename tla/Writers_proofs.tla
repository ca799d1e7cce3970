---------------------------- MODULE Writers_proofs ----------------------------
(***************************************************************************)
(* Theorems of Writers for every number of sessions, opportunities,        *)
(* companies and contacts: what overlap cannot break.                      *)
(*                                                                         *)
(* The inductive invariant speaks of transactions in flight as well as of  *)
(* the committed tables: of each row a session is about to write, what the *)
(* service that computed it guarantees relative to the row it loaded.      *)
(***************************************************************************)
EXTENDS Writers, Opportunity_proofs

Passes == {"rescore", "refresh", "submit"}

\* What a service guarantees of a row it writes over the one it loaded, if any.
Guaranteed(work, seen, wrote) ==
  /\ seen \in OpportunityRow \cup {NoRow} /\ wrote \in OpportunityRow
  /\ (Present(seen) => AddsUp(seen)) => AddsUp(wrote)
  /\ work \in Passes => Present(seen) /\ wrote.status = seen.status
  /\ work = "rescore" => wrote.score = Decayed(wrote.base_score, wrote.decay_factor)
  /\ work # "status" /\ Present(seen) => wrote.status = seen.status \/ wrote.status # "NEW"

\* What the invariant says of one session: its writes are guaranteed, and no row it
\* has seen has been deleted since.
Sound(w) ==
  session[w] # Idle =>
    \A o \in Written(w) :
      /\ Guaranteed(session[w].work, session[w].seen[o], session[w].wrote[o])
      /\ Present(session[w].seen[o]) => Present(opportunity[o])

Inv == TypeOK /\ (\A w \in Sessions : Sound(w)) /\ UnmixedRowsAddUp

-----------------------------------------------------------------------------
\* Merging a written row into the current one gives a row; it gives the written row
\* itself if the current one is as it was loaded, and each session keeps the status
\* that it did not change.
LEMMA MergedRowType ==
  ASSUME NEW seen \in OpportunityRow \cup {NoRow}, NEW wrote \in OpportunityRow,
         NEW current \in OpportunityRow \cup {NoRow}, Present(seen) => Present(current)
  PROVE  /\ MergedRow(seen, wrote, current) \in OpportunityRow
         /\ seen = current => MergedRow(seen, wrote, current) = wrote
         /\ Present(seen) =>
              MergedRow(seen, wrote, current).status =
                Merged(seen.status, wrote.status, current.status)
<1> DEFINE new == MergedRow(seen, wrote, current)
<1>1. CASE ~Present(seen)
  BY <1>1, Zenon DEF MergedRow
<1>2. CASE Present(seen)
  <2>1. seen \in OpportunityRow /\ current \in OpportunityRow
    BY <1>2, Zenon DEF Present
  <2>2. new = [column \in DOMAIN current |->
                 Merged(seen[column], wrote[column], current[column])]
    BY <1>2, Zenon DEF MergedRow
  <2>3. new.status = Merged(seen.status, wrote.status, current.status)
    BY <2>1, <2>2, SMT DEF OpportunityRow
  <2>4. new \in OpportunityRow
    BY <2>1, <2>2, SMT DEF OpportunityRow, Merged
  <2>5. seen = current => new = wrote
    BY <2>1, <2>2, SMT DEF OpportunityRow, Merged
  <2> QED BY <2>3, <2>4, <2>5
<1> QED BY <1>1, <1>2

\* The initial state satisfies the invariant.
LEMMA InvInit == Init => Inv
<1> SUFFICES ASSUME Init PROVE Inv
  OBVIOUS
<1>1. today \in Day
  BY SettingsAssumption, SMT DEF Init, Day
<1>2. TypeOK
  BY <1>1, SMT DEF Init, TypeOK, OpportunityTable, ContactTable, PotentialTable
<1>3. \A w \in Sessions : Sound(w)
  BY SMT DEF Init, Sound
<1>4. UnmixedRowsAddUp
  BY SMT DEF Init, UnmixedRowsAddUp, Recorded, RecordedIn, Present
<1> QED BY <1>2, <1>3, <1>4 DEF Inv

\* A step that only loads and computes keeps the invariant, if what it means to write
\* is typed and guaranteed.
LEMMA BeginInv ==
  ASSUME Inv, NEW w \in Sessions, NEW work \in Work, NEW rows \in OpportunityTable,
         NEW contacts \in ContactTable, NEW potential \in PotentialTable,
         \A o \in Opportunities :
            rows[o] # opportunity[o] => Guaranteed(work, opportunity[o], rows[o]),
         \A k \in Contacts : contacts[k] # contact_score[k] => contacts[k] \in Score,
         \A c \in Companies : potential[c] # event_potential[c] => potential[c] \in Score,
         Begin(w, work, rows, contacts, potential), affected' \in SUBSET Companies,
         UNCHANGED <<today, opportunity, contact_score, event_potential, mixed>>
  PROVE  Inv'
<1> DEFINE wrote == Changed(opportunity, rows)
           seen  == [o \in DOMAIN wrote |-> opportunity[o]]
           said  == Changed(contact_score, contacts)
           noted == Changed(event_potential, potential)
           tx    == [work |-> work, seen |-> seen, wrote |-> wrote,
                     contacts |-> said, potential |-> noted]
<1>1. session' = [session EXCEPT ![w] = tx]
  BY Zenon DEF Begin
<1>2. /\ DOMAIN wrote = {o \in Opportunities : rows[o] # opportunity[o]}
      /\ \A o \in DOMAIN wrote : wrote[o] = rows[o] /\ seen[o] = opportunity[o]
      /\ DOMAIN seen = DOMAIN wrote
  BY SMT DEF Changed, OpportunityTable
<1>3. \A o \in DOMAIN wrote : Guaranteed(work, seen[o], wrote[o])
  BY <1>2, Zenon
<1>4. IsPart(said, Contacts, Score)
  BY SMT DEF Changed, ContactTable, IsPart
<1>5. IsPart(noted, Companies, Score)
  BY SMT DEF Changed, PotentialTable, IsPart
<1> HIDE DEF wrote, seen, said, noted
<1>6. /\ IsPart(seen, Opportunities, OpportunityRow \cup {NoRow})
      /\ IsPart(wrote, Opportunities, OpportunityRow)
  BY <1>2, <1>3, Zenon DEF IsPart, Guaranteed
<1>7. /\ DOMAIN tx = {"work", "seen", "wrote", "contacts", "potential"}
      /\ tx.work = work /\ tx.seen = seen /\ tx.wrote = wrote
      /\ tx.contacts = said /\ tx.potential = noted
  BY SMT
<1> HIDE DEF tx
<1>8. IsTransaction(tx)
  BY <1>2, <1>4, <1>5, <1>6, <1>7, Zenon DEF IsTransaction
<1>9. /\ DOMAIN session' = Sessions /\ session'[w] = tx
      /\ \A v \in Sessions : v # w => session'[v] = session[v]
  BY <1>1, SMT DEF Inv, TypeOK
<1>10. TypeOK'
  BY <1>8, <1>9, Zenon DEF Inv, TypeOK
<1>11. ASSUME NEW v \in Sessions PROVE Sound(v)'
  <2>1. CASE v = w
    <3>1. \A o \in Written(v)' : o \in DOMAIN wrote
      BY <1>7, <1>9, <2>1, Zenon DEF Written
    <3>2. /\ session'[v].work = work
          /\ session'[v].seen = seen /\ session'[v].wrote = wrote
      BY <1>7, <1>9, <2>1, Zenon
    <3>3. \A o \in DOMAIN wrote : Present(seen[o]) => Present(opportunity'[o])
      BY <1>2, Zenon
    <3> QED BY <1>3, <3>1, <3>2, <3>3, Zenon DEF Sound
  <2>2. CASE v # w
    BY <1>9, <2>2, Zenon DEF Sound, Written, Inv
  <2> QED BY <2>1, <2>2
<1>12. UnmixedRowsAddUp'
  BY Zenon DEF Inv, UnmixedRowsAddUp, Recorded, RecordedIn
<1> QED BY <1>10, <1>11, <1>12 DEF Inv

-----------------------------------------------------------------------------
\* What create_or_update_opportunity writes is guaranteed.
LEMMA IngestInv ==
  ASSUME Inv, NEW w \in Sessions, NEW o \in Opportunities, NEW published \in PublicationDays,
         NEW x \in Extractions[o], Ingest(w, o, x, published)
  PROVE  Inv'
<1> DEFINE roster == Roster(CompanyOf[o], contact_score)
           confirmed == o \in Confirmed
           number == Cardinality(Recorded) + 1
           row == IF Present(opportunity[o])
                  THEN RowUpdated(opportunity, o, x, contact_score, today)
                  ELSE RowCreated(opportunity, o, x, contact_score, published, today)
           rows == [opportunity EXCEPT ![o] = row]
           potential == NotedPotential(event_potential, CompanyOf[o], row.event_probability)
<1>0. /\ Begin(w, "ingest", rows, contact_score, potential)
      /\ UNCHANGED <<today, opportunity, contact_score, event_potential, affected, mixed>>
  BY Zenon DEF Ingest
<1>1. number \in Nat
  <2>1. Recorded \in SUBSET Opportunities
    BY DEF Recorded, RecordedIn
  <2>2. Cardinality(Recorded) \in Nat
    BY <2>1, StoreAssumption, FS_Subset, FS_CardinalityType, Zenon
  <2> QED BY <2>2, SMT
<1>2. /\ x \in Extraction /\ published \in Day /\ today \in Day /\ CompanyOf[o] \in Companies
      /\ contact_score \in ContactTable /\ opportunity \in OpportunityTable
      /\ event_potential \in PotentialTable /\ affected \in SUBSET Companies
  BY StoreAssumption, SMT DEF Inv, TypeOK
<1>3. /\ roster \in SUBSET Contacts
      /\ \A k \in roster : contact_score[k] \in Score
  BY <1>2, RosterType, Zenon
<1>4. opportunity[o] \in OpportunityRow \cup {NoRow}
  BY <1>2, SMT DEF OpportunityTable
<1>5. Guaranteed("ingest", opportunity[o], row)
  <2>1. CASE Present(opportunity[o])
    <3>1. row = Updated(opportunity[o], x, confirmed, roster, contact_score, today)
      BY <2>1, Zenon DEF RowUpdated
    <3>2. opportunity[o] \in OpportunityRow
      BY <1>4, <2>1, Zenon DEF Present
    <3> HIDE DEF roster, confirmed, row
    <3>3. /\ row \in OpportunityRow
          /\ AddsUp(opportunity[o]) => AddsUp(row)
          /\ row.status = opportunity[o].status \/ row.status # "NEW"
      BY <1>2, <1>3, <3>1, <3>2, UpdatedRow, SMT
    <3>4. "ingest" # "rescore" /\ "ingest" \notin Passes
      BY Zenon DEF Passes
    <3> QED BY <1>4, <2>1, <3>3, <3>4, Zenon DEF Guaranteed
  <2>2. CASE ~Present(opportunity[o])
    <3>1. row = Created(x, confirmed, roster, contact_score, published, number, today)
      BY <2>2, Zenon DEF RowCreated, Recorded
    <3> HIDE DEF roster, confirmed, number, row
    <3>2. row \in OpportunityRow /\ AddsUp(row)
      BY <1>1, <1>2, <1>3, <3>1, CreatedRow, SMT
    <3>3. "ingest" # "rescore" /\ "ingest" \notin Passes
      BY Zenon DEF Passes
    <3> QED BY <1>4, <2>2, <3>2, <3>3, Zenon DEF Guaranteed
  <2> QED BY <2>1, <2>2
<1> HIDE DEF row, roster
<1>6. row \in OpportunityRow /\ row.event_probability \in Score
  BY <1>5, Zenon DEF Guaranteed, OpportunityRow
<1>7. /\ rows \in OpportunityTable
      /\ \A p \in Opportunities : rows[p] # opportunity[p] => p = o /\ rows[p] = row
  BY <1>2, <1>6, SMT DEF OpportunityTable
<1>8. /\ potential \in PotentialTable
      /\ \A c \in Companies : potential[c] # event_potential[c] => potential[c] \in Score
  <2>1. potential \in PotentialTable
    BY <1>2, <1>6, PotentialType, Zenon
  <2>2. \A c \in Companies : potential[c] # event_potential[c] => potential[c] = row.event_probability
    BY <1>2, <1>6, SMT DEF NotedPotential, PotentialTable
  <2> QED BY <1>6, <2>1, <2>2, Zenon
<1>9. \A p \in Opportunities :
        rows[p] # opportunity[p] => Guaranteed("ingest", opportunity[p], rows[p])
  <2> HIDE DEF rows
  <2> QED BY <1>5, <1>7, Zenon
<1>10. "ingest" \in Work /\ affected' \in SUBSET Companies
  BY <1>0, <1>2, Zenon DEF Work
<1> HIDE DEF rows, potential
<1> QED BY <1>0, <1>2, <1>7, <1>8, <1>9, <1>10, BeginInv, Zenon

\* What refresh_contact_quality writes is guaranteed, whatever contacts it sees.
LEMMA RefreshGuaranteed ==
  ASSUME Inv, NEW c \in Companies, NEW score \in ContactTable, NEW work \in {"refresh", "submit"}
  PROVE  LET rows == RefreshedTable(opportunity, c, score, today)
         IN  /\ rows \in OpportunityTable
             /\ \A o \in Opportunities :
                  rows[o] # opportunity[o] => Guaranteed(work, opportunity[o], rows[o])
<1> DEFINE rows == RefreshedTable(opportunity, c, score, today)
           roster == Roster(c, score)
<1>1. /\ today \in Day /\ opportunity \in OpportunityTable
      /\ work # "rescore"
  BY Zenon DEF Inv, TypeOK
<1>2. /\ roster \in SUBSET Contacts
      /\ \A k \in roster : score[k] \in Score
  BY RosterType, Zenon
<1>3. ASSUME NEW o \in Opportunities
      PROVE  rows[o] # opportunity[o] => Guaranteed(work, opportunity[o], rows[o])
  <2>1. SUFFICES ASSUME rows[o] # opportunity[o]
                 PROVE  Guaranteed(work, opportunity[o], rows[o])
    OBVIOUS
  <2>2. /\ rows[o] = Refreshed(opportunity[o], roster, score, today)
        /\ Present(opportunity[o])
    BY <2>1, Zenon DEF RefreshedTable, OpenIn, IsOpen
  <2>3. opportunity[o] \in OpportunityRow
    BY <1>1, <2>2, SMT DEF OpportunityTable, Present
  <2> HIDE DEF rows, roster
  <2>4. /\ rows[o] \in OpportunityRow
        /\ AddsUp(opportunity[o]) => AddsUp(rows[o])
    BY <1>1, <1>2, <2>2, <2>3, RefreshedRow, Zenon
  <2>5. rows[o].status = opportunity[o].status
    BY <2>2, <2>3, RefreshedColumns, SMT
  <2> QED BY <1>1, <2>2, <2>3, <2>4, <2>5, Zenon DEF Guaranteed
<1>4. rows \in OpportunityTable
  <2>1. rows = [o \in Opportunities |-> rows[o]]
    BY SMT DEF RefreshedTable
  <2>2. \A o \in Opportunities : rows[o] \in OpportunityRow \cup {NoRow}
    <3>1. \A o \in Opportunities : opportunity[o] \in OpportunityRow \cup {NoRow}
      BY <1>1, SMT DEF OpportunityTable
    <3> HIDE DEF rows
    <3> QED BY <1>3, <3>1, Zenon DEF Guaranteed
  <2> HIDE DEF rows
  <2> QED BY <2>1, <2>2, Zenon DEF OpportunityTable
<1> QED BY <1>3, <1>4, Zenon

\* The discovery run's refresh of one company keeps the invariant.
LEMMA RefreshInv ==
  ASSUME Inv, NEW w \in Sessions, NEW c \in Companies, Refresh(w, c)
  PROVE  Inv'
<1> DEFINE rows == RefreshedTable(opportunity, c, contact_score, today)
<1>1. /\ Begin(w, "refresh", rows, contact_score, event_potential)
      /\ affected' = affected \ {c}
      /\ UNCHANGED <<today, opportunity, contact_score, event_potential, mixed>>
  BY Zenon DEF Refresh
<1>2. /\ contact_score \in ContactTable /\ event_potential \in PotentialTable
      /\ affected' \in SUBSET Companies /\ "refresh" \in Work
  BY <1>1, Zenon DEF Inv, TypeOK, Work
<1>3. /\ rows \in OpportunityTable
      /\ \A o \in Opportunities :
           rows[o] # opportunity[o] => Guaranteed("refresh", opportunity[o], rows[o])
  BY <1>2, RefreshGuaranteed, Zenon
<1> HIDE DEF rows
<1> QED BY <1>1, <1>2, <1>3, BeginInv, Zenon

\* A contact submitted through the API, not yet committed, keeps the invariant.
LEMMA SubmitInv ==
  ASSUME Inv, NEW w \in Sessions, NEW k \in Contacts, NEW s \in ContactScores,
         NEW c \in Companies, Submit(w, k, s, c)
  PROVE  Inv'
<1> DEFINE score == [contact_score EXCEPT ![k] = s]
           rows == RefreshedTable(opportunity, c, score, today)
<1>1. /\ Begin(w, "submit", rows, score, event_potential)
      /\ UNCHANGED <<today, opportunity, contact_score, event_potential, affected, mixed>>
  BY Zenon DEF Submit
<1>2. /\ score \in ContactTable
      /\ \A j \in Contacts : score[j] # contact_score[j] => score[j] \in Score
  BY StoreAssumption, SMT DEF Inv, TypeOK, ContactTable
<1>3. /\ event_potential \in PotentialTable
      /\ affected' \in SUBSET Companies /\ "submit" \in Work
  BY <1>1, Zenon DEF Inv, TypeOK, Work
<1> HIDE DEF score
<1>4. /\ rows \in OpportunityTable
      /\ \A o \in Opportunities :
           rows[o] # opportunity[o] => Guaranteed("submit", opportunity[o], rows[o])
  BY <1>2, RefreshGuaranteed, Zenon
<1> HIDE DEF rows
<1> QED BY <1>1, <1>2, <1>3, <1>4, BeginInv, Zenon

\* What rescore_all writes is guaranteed, and its scores follow from the factors.
LEMMA RescoreInv ==
  ASSUME Inv, NEW w \in Sessions, Rescore(w)
  PROVE  Inv'
<1> DEFINE rows == RescoredTable(opportunity, today)
<1>1. /\ Begin(w, "rescore", rows, contact_score, event_potential)
      /\ UNCHANGED <<today, opportunity, contact_score, event_potential, affected, mixed>>
  BY Zenon DEF Rescore
<1>2. /\ today \in Day /\ opportunity \in OpportunityTable
      /\ contact_score \in ContactTable /\ event_potential \in PotentialTable
      /\ affected' \in SUBSET Companies /\ "rescore" \in Work
  BY <1>1, Zenon DEF Inv, TypeOK, Work
<1>3. ASSUME NEW o \in Opportunities
      PROVE  rows[o] # opportunity[o] => Guaranteed("rescore", opportunity[o], rows[o])
  <2>1. SUFFICES ASSUME rows[o] # opportunity[o]
                 PROVE  Guaranteed("rescore", opportunity[o], rows[o])
    OBVIOUS
  <2>2. rows[o] = Rescored(opportunity[o], today) /\ Present(opportunity[o])
    BY <2>1, Zenon DEF RescoredTable, OpenIn, IsOpen
  <2>3. opportunity[o] \in OpportunityRow
    BY <1>2, <2>2, SMT DEF OpportunityTable, Present
  <2> HIDE DEF rows
  <2>4. /\ rows[o] \in OpportunityRow
        /\ AddsUp(opportunity[o]) => AddsUp(rows[o])
        /\ rows[o].score = Decayed(rows[o].base_score, rows[o].decay_factor)
    BY <1>2, <2>2, <2>3, RescoredRow, Zenon
  <2>5. rows[o].status = opportunity[o].status
    BY <2>2, <2>3, RescoredColumns, SMT
  <2> QED BY <2>2, <2>3, <2>4, <2>5, Zenon DEF Guaranteed
<1>4. rows \in OpportunityTable
  <2>1. rows = [o \in Opportunities |-> rows[o]]
    BY SMT DEF RescoredTable
  <2>2. \A o \in Opportunities : rows[o] \in OpportunityRow \cup {NoRow}
    <3>1. \A o \in Opportunities : opportunity[o] \in OpportunityRow \cup {NoRow}
      BY <1>2, SMT DEF OpportunityTable
    <3> HIDE DEF rows
    <3> QED BY <1>3, <3>1, Zenon DEF Guaranteed
  <2> HIDE DEF rows
  <2> QED BY <2>1, <2>2, Zenon DEF OpportunityTable
<1> HIDE DEF rows
<1> QED BY <1>1, <1>2, <1>3, <1>4, BeginInv, Zenon

\* A status a person is setting keeps the invariant.
LEMMA UpdateStatusInv ==
  ASSUME Inv, NEW w \in Sessions, NEW o \in Opportunities, NEW status \in HumanStatuses,
         UpdateStatus(w, o, status)
  PROVE  Inv'
<1> DEFINE row == opportunity[o]
           new == [row EXCEPT !.status = status]
           rows == [opportunity EXCEPT ![o] = new]
<1>1. /\ Begin(w, "status", rows, contact_score, event_potential)
      /\ Present(row)
      /\ UNCHANGED <<today, opportunity, contact_score, event_potential, affected, mixed>>
  BY SMT DEF UpdateStatus
<1>2. /\ opportunity \in OpportunityTable
      /\ contact_score \in ContactTable /\ event_potential \in PotentialTable
      /\ affected' \in SUBSET Companies /\ "status" \in Work
  BY <1>1, Zenon DEF Inv, TypeOK, Work
<1>3. row \in OpportunityRow
  BY <1>1, <1>2, SMT DEF OpportunityTable, Present
<1>4. new \in OpportunityRow
  <2>1. status \in Status
    BY StoreAssumption, Zenon
  <2> QED BY <1>3, <2>1, Zenon DEF OpportunityRow
<1>5. /\ BaseOf(new) = BaseOf(row) /\ new.base_score = row.base_score
      /\ new.score = row.score /\ new.decay_factor = row.decay_factor
      /\ new.classification = row.classification
      /\ new.previous_score = row.previous_score
      /\ new.previous_classification = row.previous_classification
  BY <1>3, SMT DEF OpportunityRow, BaseOf
<1> HIDE DEF new
<1>6. Guaranteed("status", row, new)
  <2>1. AddsUp(row) => AddsUp(new)
    BY <1>5, Zenon DEF AddsUp
  <2>2. "status" # "rescore" /\ "status" \notin Passes
    BY Zenon DEF Passes
  <2> QED BY <1>1, <1>3, <1>4, <2>1, <2>2, Zenon DEF Guaranteed
<1>7. /\ rows \in OpportunityTable
      /\ \A p \in Opportunities : rows[p] # opportunity[p] => p = o /\ rows[p] = new
  BY <1>2, <1>4, SMT DEF OpportunityTable
<1> HIDE DEF rows
<1>8. \A p \in Opportunities :
        rows[p] # opportunity[p] => Guaranteed("status", opportunity[p], rows[p])
  BY <1>6, <1>7, Zenon
<1> QED BY <1>1, <1>2, <1>7, <1>8, BeginInv, Zenon

-----------------------------------------------------------------------------
\* What a commit makes of each row: a written row is merged into the row as it now
\* is, and is the written row itself if nobody else has written it meanwhile.
LEMMA CommitStep ==
  ASSUME Inv, NEW w \in Sessions, Commit(w), NEW o \in Opportunities
  PROVE  /\ o \notin Written(w) => opportunity'[o] = opportunity[o]
         /\ o \in Written(w) =>
              /\ session[w] # Idle
              /\ Guaranteed(session[w].work, session[w].seen[o], session[w].wrote[o])
              /\ Present(opportunity[o]) => Present(session[w].seen[o])
              /\ opportunity'[o] \in OpportunityRow
              /\ session[w].seen[o] = opportunity[o] => opportunity'[o] = session[w].wrote[o]
              /\ Present(session[w].seen[o]) =>
                   opportunity'[o].status =
                     Merged(session[w].seen[o].status, session[w].wrote[o].status,
                            opportunity[o].status)
<1> DEFINE seen == session[w].seen[o]
           wrote == session[w].wrote[o]
<1>1. opportunity'[o] = IF o \in Written(w) THEN MergedRow(seen, wrote, opportunity[o])
                        ELSE opportunity[o]
  BY Zenon DEF Commit
<1>2. session[w] # Idle /\ ~Conflicts(w)
  BY Zenon DEF Commit
<1>3. CASE o \in Written(w)
  <2>1. /\ Guaranteed(session[w].work, seen, wrote)
        /\ Present(seen) => Present(opportunity[o])
    BY <1>2, <1>3, Zenon DEF Inv, Sound
  <2>2. Present(opportunity[o]) => Present(seen)
    BY <1>2, <1>3, Zenon DEF Conflicts
  <2>3. /\ seen \in OpportunityRow \cup {NoRow} /\ wrote \in OpportunityRow
        /\ opportunity[o] \in OpportunityRow \cup {NoRow}
    BY <2>1, SMT DEF Guaranteed, Inv, TypeOK, OpportunityTable
  <2> HIDE DEF seen, wrote
  <2>4. /\ MergedRow(seen, wrote, opportunity[o]) \in OpportunityRow
        /\ seen = opportunity[o] => MergedRow(seen, wrote, opportunity[o]) = wrote
        /\ Present(seen) => MergedRow(seen, wrote, opportunity[o]).status =
                              Merged(seen.status, wrote.status, opportunity[o].status)
    BY <2>1, <2>3, MergedRowType
  <2>5. opportunity'[o] = MergedRow(seen, wrote, opportunity[o])
    BY <1>1, <1>3, Zenon
  <2>6. /\ opportunity'[o] \in OpportunityRow
        /\ seen = opportunity[o] => opportunity'[o] = wrote
        /\ Present(seen) => opportunity'[o].status =
                              Merged(seen.status, wrote.status, opportunity[o].status)
    BY <2>4, <2>5, Zenon
  <2> QED BY <1>2, <1>3, <2>1, <2>2, <2>6 DEF seen, wrote
<1>4. CASE o \notin Written(w)
  BY <1>1, <1>4
<1> QED BY <1>3, <1>4

\* A commit keeps the invariant.
LEMMA CommitInv ==
  ASSUME Inv, NEW w \in Sessions, Commit(w)
  PROVE  Inv'
<1> DEFINE tx == session[w]
<1>1. /\ tx # Idle /\ session' = [session EXCEPT ![w] = Idle]
      /\ opportunity' = [o \in Opportunities |->
           IF o \in Written(w) THEN MergedRow(tx.seen[o], tx.wrote[o], opportunity[o])
           ELSE opportunity[o]]
      /\ contact_score' = [k \in Contacts |->
           IF k \in DOMAIN tx.contacts THEN tx.contacts[k] ELSE contact_score[k]]
      /\ event_potential' = [c \in Companies |->
           IF c \in DOMAIN tx.potential THEN tx.potential[c] ELSE event_potential[c]]
      /\ mixed' = mixed \cup {o \in Written(w) : opportunity[o] # tx.seen[o]}
      /\ today' = today /\ affected' = affected
  BY Zenon DEF Commit
<1>2. /\ DOMAIN session' = Sessions /\ session'[w] = Idle
      /\ \A v \in Sessions : v # w => session'[v] = session[v]
  BY <1>1, SMT DEF Inv, TypeOK
<1>3. IsTransaction(tx)
  BY <1>1, Zenon DEF Inv, TypeOK
<1>4. /\ Written(w) \subseteq Opportunities
      /\ \A k \in DOMAIN tx.contacts : tx.contacts[k] \in Score
      /\ \A c \in DOMAIN tx.potential : tx.potential[c] \in Score
  BY <1>3, Zenon DEF IsTransaction, IsPart, Written
<1> HIDE DEF tx
<1>5. \A o \in Opportunities : opportunity[o] \in OpportunityRow \cup {NoRow}
  BY SMT DEF Inv, TypeOK, OpportunityTable
<1>6. \A o \in Opportunities : opportunity'[o] \in OpportunityRow \cup {NoRow}
  BY <1>5, CommitStep, Zenon
<1>7. opportunity' \in OpportunityTable
  <2>1. opportunity' = [o \in Opportunities |-> opportunity'[o]]
    BY <1>1, SMT
  <2> QED BY <1>6, <2>1, Zenon DEF OpportunityTable
<1>8. contact_score' \in ContactTable
  <2>1. \A k \in Contacts : contact_score[k] \in Score \cup {None}
    BY SMT DEF Inv, TypeOK, ContactTable
  <2> QED BY <1>1, <1>4, <2>1, Zenon DEF ContactTable
<1>9. event_potential' \in PotentialTable
  <2>1. \A c \in Companies : event_potential[c] \in Score \cup {None}
    BY SMT DEF Inv, TypeOK, PotentialTable
  <2> QED BY <1>1, <1>4, <2>1, Zenon DEF PotentialTable
<1>10. TypeOK'
  BY <1>1, <1>2, <1>4, <1>7, <1>8, <1>9, SMT DEF Inv, TypeOK
<1>11. \A o \in Opportunities : Present(opportunity[o]) => Present(opportunity'[o])
  BY CommitStep, StoreAssumption, Zenon DEF Present
<1>12. ASSUME NEW v \in Sessions PROVE Sound(v)'
  <2>1. CASE v = w
    BY <1>2, <2>1, Zenon DEF Sound
  <2>2. CASE v # w
    <3>1. SUFFICES ASSUME session[v] # Idle, NEW o \in Written(v)
          PROVE  /\ Guaranteed(session[v].work, session[v].seen[o], session[v].wrote[o])
                 /\ Present(session[v].seen[o]) => Present(opportunity'[o])
      BY <1>2, <2>2, Zenon DEF Sound, Written
    <3>2. o \in Opportunities
      BY <3>1, Zenon DEF Inv, TypeOK, IsTransaction, IsPart, Written
    <3> QED BY <1>11, <3>1, <3>2, Zenon DEF Inv, Sound
  <2> QED BY <2>1, <2>2
<1>13. ASSUME NEW o \in Opportunities, Present(opportunity'[o]), o \notin mixed'
       PROVE  AddsUp(opportunity'[o])
  <2>1. o \notin mixed
    BY <1>1, <1>13, Zenon
  <2>2. Present(opportunity[o]) => AddsUp(opportunity[o])
    BY <2>1, Zenon DEF Inv, UnmixedRowsAddUp, Recorded, RecordedIn
  <2>3. CASE o \in Written(w)
    <3>1. session[w].seen[o] = opportunity[o]
      BY <1>1, <1>13, <2>3, Zenon DEF tx
    <3>2. /\ opportunity'[o] = session[w].wrote[o]
          /\ Guaranteed(session[w].work, opportunity[o], session[w].wrote[o])
      BY <2>3, <3>1, CommitStep, Zenon
    <3> QED BY <2>2, <3>2, Zenon DEF Guaranteed
  <2>4. CASE o \notin Written(w)
    <3>1. opportunity'[o] = opportunity[o]
      BY <2>4, CommitStep, Zenon
    <3> QED BY <1>13, <2>2, <3>1, Zenon
  <2> QED BY <2>3, <2>4
<1>14. UnmixedRowsAddUp'
  BY <1>13, Zenon DEF UnmixedRowsAddUp, Recorded, RecordedIn
<1> QED BY <1>10, <1>12, <1>14 DEF Inv

\* Steps that leave the rows and what is in flight alone, or give some of it up, keep
\* the invariant.
LEMMA OtherInv ==
  ASSUME Inv,
         \/ \E w \in Sessions : Rollback(w)
         \/ \E k \in Contacts, s \in ContactScores, c \in Companies : Discover(k, s, c)
         \/ \E d \in Days : NextDay(d)
         \/ UNCHANGED vars
  PROVE  Inv'
<1>1. UNCHANGED <<opportunity, event_potential, mixed>>
  BY Zenon DEF Rollback, Discover, NextDay, vars
<1>2. /\ DOMAIN session' = Sessions
      /\ \A v \in Sessions : session'[v] = session[v] \/ session'[v] = Idle
  <2>1. CASE \E w \in Sessions : Rollback(w)
    BY <2>1, SMT DEF Rollback, Inv, TypeOK
  <2>2. CASE session' = session
    BY <2>2, Zenon DEF Inv, TypeOK
  <2> QED BY <2>1, <2>2, Zenon DEF Discover, NextDay, vars
<1>3. contact_score' \in ContactTable /\ affected' \in SUBSET Companies
  <2>1. CASE \E k \in Contacts, s \in ContactScores, c \in Companies : Discover(k, s, c)
    BY <2>1, StoreAssumption, SMT DEF Discover, Inv, TypeOK, ContactTable
  <2>2. CASE UNCHANGED <<contact_score, affected>>
    BY <2>2, Zenon DEF Inv, TypeOK
  <2> QED BY <2>1, <2>2, Zenon DEF Rollback, NextDay, vars
<1>4. today' \in Day
  BY StoreAssumption, SMT DEF Rollback, Discover, NextDay, vars, Inv, TypeOK
<1>5. TypeOK'
  BY <1>1, <1>2, <1>3, <1>4, Zenon DEF Inv, TypeOK
<1>6. ASSUME NEW v \in Sessions PROVE Sound(v)'
  <2>1. CASE session'[v] = Idle
    BY <2>1, Zenon DEF Sound
  <2>2. CASE session'[v] = session[v]
    BY <1>1, <2>2, Zenon DEF Inv, Sound, Written
  <2> QED BY <1>2, <2>1, <2>2
<1>7. UnmixedRowsAddUp'
  BY <1>1, Zenon DEF Inv, UnmixedRowsAddUp, Recorded, RecordedIn
<1> QED BY <1>5, <1>6, <1>7 DEF Inv

\* Every step keeps the invariant.
LEMMA InvNext == Inv /\ [Next]_vars => Inv'
<1> SUFFICES ASSUME Inv, [Next]_vars PROVE Inv'
  OBVIOUS
<1>1. ASSUME NEW w \in Sessions,
             \/ \E o \in Opportunities, published \in PublicationDays :
                  \E x \in Extractions[o] : Ingest(w, o, x, published)
             \/ \E c \in Companies : Refresh(w, c)
             \/ \E k \in Contacts, s \in ContactScores, c \in Companies : Submit(w, k, s, c)
             \/ Rescore(w)
             \/ \E o \in Opportunities, status \in HumanStatuses : UpdateStatus(w, o, status)
             \/ Commit(w)
      PROVE  Inv'
  BY <1>1, IngestInv, RefreshInv, SubmitInv, RescoreInv, UpdateStatusInv, CommitInv
<1>2. CASE \/ \E w \in Sessions : Rollback(w)
           \/ \E k \in Contacts, s \in ContactScores, c \in Companies : Discover(k, s, c)
           \/ \E d \in Days : NextDay(d)
           \/ UNCHANGED vars
  BY <1>2, OtherInv
<1> QED BY <1>1, <1>2, Zenon DEF Next

-----------------------------------------------------------------------------
\* The inductive invariant holds of every behaviour.
THEOREM Invariance == Spec => []Inv
BY InvInit, InvNext, PTL DEF Spec

\* Every column keeps its type, committed or in flight, however the sessions overlap.
THEOREM TypeCorrect == Spec => []TypeOK
<1>1. Inv => TypeOK
  BY DEF Inv
<1> QED BY <1>1, Invariance, PTL

\* Overlap does no harm to the rows that no two overlapping transactions wrote.
THEOREM UnmixedAlwaysAddUp == Spec => []UnmixedRowsAddUp
<1>1. Inv => UnmixedRowsAddUp
  BY DEF Inv
<1> QED BY <1>1, Invariance, PTL

\* No decay pass or contact refresh ever takes a person's status back.
THEOREM PassesAlwaysKeepStatus == Spec => PassesKeepStatus
<1>1. ASSUME Inv, NEW w \in Sessions, session[w].work \in Passes, Commit(w), NEW o \in Recorded
      PROVE  opportunity'[o].status = opportunity[o].status
  <2>1. o \in Opportunities /\ Present(opportunity[o])
    BY Zenon DEF Recorded, RecordedIn
  <2>2. CASE o \in Written(w)
    BY <1>1, <2>1, <2>2, CommitStep, Zenon DEF Guaranteed, Merged
  <2>3. CASE o \notin Written(w)
    BY <1>1, <2>1, <2>3, CommitStep, Zenon
  <2> QED BY <2>2, <2>3
<1>2. Inv /\ [Next]_vars =>
        [Commits({"rescore", "refresh", "submit"}) =>
           \A o \in Recorded : opportunity'[o].status = opportunity[o].status]_vars
  BY <1>1, Zenon DEF Commits, Passes
<1> QED BY <1>2, Invariance, PTL DEF Spec, PassesKeepStatus

\* Only a commit changes a committed row.
LEMMA OnlyCommits ==
  ASSUME [Next]_vars, opportunity' # opportunity
  PROVE  \E w \in Sessions : Commit(w)
BY Zenon DEF Next, Ingest, Refresh, Submit, Rescore, UpdateStatus, Rollback, Discover, NextDay, vars

\* No overlap of sessions ever puts an opportunity back to NEW.
THEOREM NeverEverStartedAgain == Spec => NeverStartedAgain
<1>1. ASSUME Inv, [Next]_vars, NEW o \in Recorded,
             opportunity[o].status # "NEW", opportunity'[o].status = "NEW"
      PROVE  Commits({"status"})
  <2>1. o \in Opportunities /\ Present(opportunity[o])
    BY Zenon DEF Recorded, RecordedIn
  <2>2. PICK w \in Sessions : Commit(w)
    BY <1>1, OnlyCommits
  <2>3. o \in Written(w)
    BY <1>1, <2>1, <2>2, CommitStep, Zenon
  <2>4. session[w] # Idle /\ session[w].work = "status"
    <3>1. SUFFICES ASSUME session[w].work # "status" PROVE FALSE
      BY <1>1, <2>1, <2>2, <2>3, CommitStep, Zenon
    <3>2. /\ Guaranteed(session[w].work, session[w].seen[o], session[w].wrote[o])
          /\ Present(session[w].seen[o])
          /\ opportunity'[o].status =
               Merged(session[w].seen[o].status, session[w].wrote[o].status, opportunity[o].status)
      BY <1>1, <2>1, <2>2, <2>3, CommitStep, Zenon
    <3>3. \/ session[w].wrote[o].status = session[w].seen[o].status
          \/ session[w].wrote[o].status # "NEW"
      BY <3>1, <3>2, Zenon DEF Guaranteed
    <3> QED BY <1>1, <3>2, <3>3, Zenon DEF Merged
  <2> QED BY <2>2, <2>4, Zenon DEF Commits
<1>2. Inv /\ [Next]_vars =>
        [\A o \in Recorded :
           opportunity[o].status # "NEW" /\ opportunity'[o].status = "NEW" => Commits({"status"})]_vars
  BY <1>1, Zenon
<1> QED BY <1>2, Invariance, PTL DEF Spec, NeverStartedAgain

\* A decay pass that nobody overtook repairs the published score of a row, whatever
\* overlapping writers had made of it.
THEOREM PassAlwaysRepairs == Spec => PassRepairsScore
<1>1. ASSUME Inv, NEW w \in Sessions, session[w].work = "rescore", Commit(w),
             NEW o \in Written(w), session[w].seen[o] = opportunity[o]
      PROVE  opportunity'[o].score =
               Decayed(opportunity'[o].base_score, opportunity'[o].decay_factor)
  <2>1. o \in Opportunities
    <3>1. IsTransaction(session[w])
      BY <1>1, Zenon DEF Inv, TypeOK, Commit
    <3> QED BY <1>1, <3>1, Zenon DEF IsTransaction, IsPart, Written
  <2>2. /\ opportunity'[o] = session[w].wrote[o]
        /\ Guaranteed(session[w].work, session[w].seen[o], session[w].wrote[o])
    BY <1>1, <2>1, CommitStep, Zenon
  <2> QED BY <1>1, <2>2, Zenon DEF Guaranteed
<1>2. Inv /\ [Next]_vars =>
        [\A w \in Sessions :
           session[w] # Idle /\ session[w].work = "rescore" /\ Commit(w) =>
             \A o \in Written(w) : session[w].seen[o] = opportunity[o] =>
               opportunity'[o].score =
                 Decayed(opportunity'[o].base_score, opportunity'[o].decay_factor)]_vars
  BY <1>1, Zenon
<1> QED BY <1>2, Invariance, PTL DEF Spec, PassRepairsScore
=============================================================================
