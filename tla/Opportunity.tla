----------------------------- MODULE Opportunity -----------------------------
(***************************************************************************)
(* One row of the opportunities table and what each service writes to it:  *)
(* creation and update from an extraction (services/opportunities.py), the *)
(* decay pass and the contact refresh (services/rescore.py).               *)
(*                                                                         *)
(* A row is identified by its signal and type (the unique constraint), so  *)
(* the signal's effective date is a field of the row.  Narrative text,     *)
(* bands derived from one component and scored_at are left out.            *)
(***************************************************************************)
EXTENDS Scoring

CONSTANTS
  Contacts,        \* every contact that may be recorded
  NoRow            \* the value of a row not inserted yet

ASSUME RowAssumption ==
  /\ IsFiniteSet(Contacts)
  /\ None \notin Contacts \cup Classification

Status == {"NEW", "QUALIFIED", "CONTACTED", "MEETING", "WON", "LOST", "NURTURE"}
ClosedStatuses == {"WON", "LOST"}

\* What an extraction and the document it came from say about an event.
Extraction ==
  [raw_probability : Score, commercial_value : Score, evidence_score : Score,
   window : Window, event_date : Int \cup {None}, already_occurred : BOOLEAN,
   official : BOOLEAN]

OpportunityRow ==
  [status : Status, assertion_level : AssertionLevel, primary_contact : Contacts \cup {None},
   event_probability : Score, commercial_value : Score, contact_quality : Score,
   timing_score : Score, evidence_score : Score,
   base_score : Score, decay_factor : Factor, score : Score, classification : Classification,
   signal_date : Day, opportunity_window : Window, window_ends_on : Int \cup {None},
   event_date : Int \cup {None}, timing_class : Timing,
   previous_score : Score \cup {None}, previous_classification : Classification \cup {None},
   score_changed_at : Day \cup {None}, created_at : Nat]

Present(row) == row # NoRow
IsOpen(row) == Present(row) /\ row.status \notin ClosedStatuses

\* The best of a set of contacts, None when there are none.  Ties: any one.
BestContact(contacts, score) ==
  IF contacts = {} THEN None
  ELSE CHOOSE k \in contacts : \A other \in contacts : score[other] =< score[k]

DecayOf(row, today) ==
  DecayFactor(row.signal_date, row.window_ends_on, row.evidence_score, today)

BaseOf(row) ==
  BaseScore(row.event_probability, row.commercial_value, row.contact_quality,
            row.timing_score, row.evidence_score)

-----------------------------------------------------------------------------
\* The columns that remember a movement: the score before it, and when it moved.
Moved(row, today) ==
  [row EXCEPT !.previous_score = row.score,
              !.previous_classification = row.classification,
              !.score_changed_at = today]

\* Fault: a movement is recorded whether or not the score changed.
AlwaysMoved(changed, row, today) == Moved(row, today)

MovedIf(changed, row, today) == IF changed THEN Moved(row, today) ELSE row

\* score_opportunity and classify_timing of an extraction, written over a row.
Scored(row, x, confirmed, contacts, score, today) ==
  LET probability == EventProbability(x.raw_probability, x.evidence_score,
                                      AssertionFor(confirmed, x.official))
      quality == ContactQuality(contacts, score)
      base    == BaseScore(probability, x.commercial_value, quality,
                           TimingScore[x.window], x.evidence_score)
      ends    == WindowEndDate(x.window, row.signal_date)
      decay   == DecayFactor(row.signal_date, ends, x.evidence_score, today)
      total   == Decayed(base, decay)
  IN [MovedIf(row.score # total, row, today) EXCEPT
        !.event_probability = probability, !.commercial_value = x.commercial_value,
        !.contact_quality = quality, !.timing_score = TimingScore[x.window],
        !.evidence_score = x.evidence_score, !.base_score = base,
        !.decay_factor = decay, !.score = total, !.classification = Classify(total),
        !.window_ends_on = ends, !.primary_contact = BestContact(contacts, score),
        !.timing_class = ClassifyTiming(x.event_date, x.already_occurred, ends, today)]

\* Fault: a new extraction requalifies a row whatever its status.
RequalifyingUpdated(row, x, confirmed, contacts, score, today) ==
  LET scored == Scored(row, x, confirmed, contacts, score, today)
  IN [scored EXCEPT
        !.event_date = IF x.event_date # None THEN x.event_date ELSE row.event_date,
        !.status = IF IsQualified(scored.score) THEN "QUALIFIED" ELSE row.status]

\* The row create_or_update_opportunity updates: an existing signal and type.
Updated(row, x, confirmed, contacts, score, today) ==
  LET scored == Scored(row, x, confirmed, contacts, score, today)
  IN [scored EXCEPT
        !.event_date = IF x.event_date # None THEN x.event_date ELSE row.event_date,
        !.status = IF row.status = "NEW" /\ IsQualified(scored.score)
                   THEN "QUALIFIED" ELSE row.status]

\* The row create_or_update_opportunity inserts.
Created(x, confirmed, contacts, score, signal_date, created_at, today) ==
  LET blank ==
        [status |-> "NEW", assertion_level |-> AssertionFor(confirmed, x.official),
         primary_contact |-> None, event_probability |-> 0, commercial_value |-> 0,
         contact_quality |-> 0, timing_score |-> 0, evidence_score |-> 0,
         base_score |-> 0, decay_factor |-> 1000, score |-> 0,
         classification |-> "NOT_ELIGIBLE", signal_date |-> signal_date,
         opportunity_window |-> x.window, window_ends_on |-> None,
         event_date |-> x.event_date, timing_class |-> "FUTURE_ACCOUNT",
         previous_score |-> None, previous_classification |-> None,
         score_changed_at |-> None, created_at |-> created_at]
      scored == Scored(blank, x, confirmed, contacts, score, today)
  IN [scored EXCEPT
        !.previous_score = None, !.previous_classification = None, !.score_changed_at = None,
        !.status = IF IsQualified(scored.score) THEN "QUALIFIED" ELSE "NEW"]

\* Fault: the pass forgets the penalty of a closed window.
ForgivingRescored(row, today) ==
  LET decay == DecayFactor(row.signal_date, None, row.evidence_score, today)
      total == Decayed(row.base_score, decay)
  IN IF total = row.score /\ decay = row.decay_factor THEN row
     ELSE [Moved(row, today) EXCEPT !.decay_factor = decay, !.score = total,
                                    !.classification = Classify(total)]

\* Fault: decay is compounded on the published score.
CompoundingRescored(row, today) ==
  LET decay == DecayOf(row, today)
      total == Decayed(row.score, decay)
  IN IF total = row.score /\ decay = row.decay_factor THEN row
     ELSE [Moved(row, today) EXCEPT !.decay_factor = decay, !.score = total,
                                    !.classification = Classify(total)]

\* What rescore_all does to an open row: decay only, from the stored base score.
Rescored(row, today) ==
  LET decay == DecayOf(row, today)
      total == Decayed(row.base_score, decay)
  IN IF total = row.score /\ decay = row.decay_factor THEN row
     ELSE [Moved(row, today) EXCEPT !.decay_factor = decay, !.score = total,
                                    !.classification = Classify(total)]

\* Fault: the refresh forgets the band.
BandlessRefreshed(row, contacts, score, today) ==
  LET quality == ContactQuality(contacts, score)
      base    == BaseOf([row EXCEPT !.contact_quality = quality])
      total   == Decayed(base, row.decay_factor)
      pointed == [row EXCEPT !.primary_contact = BestContact(contacts, score)]
  IN [MovedIf(total # row.score, pointed, today) EXCEPT
        !.contact_quality = quality, !.base_score = base, !.score = total]

\* What refresh_contact_quality does to an open row: contact quality and the
\* weighted total, with the decay factor as stored.
Refreshed(row, contacts, score, today) ==
  LET quality == ContactQuality(contacts, score)
      base    == BaseOf([row EXCEPT !.contact_quality = quality])
      total   == Decayed(base, row.decay_factor)
      pointed == [row EXCEPT !.primary_contact = BestContact(contacts, score)]
  IN IF quality = row.contact_quality /\ base = row.base_score /\ total = row.score
     THEN pointed
     ELSE [MovedIf(total # row.score, pointed, today) EXCEPT
             !.contact_quality = quality, !.base_score = base, !.score = total,
             !.classification = Classify(total)]

-----------------------------------------------------------------------------
\* A row explains itself: base score, score and band follow from what is beside.
AddsUp(row) ==
  /\ row.base_score = BaseOf(row)
  /\ row.score = Decayed(row.base_score, row.decay_factor)
  /\ row.classification = Classify(row.score)
  /\ row.previous_score = None <=> row.previous_classification = None
  /\ row.previous_score # None =>
       row.previous_classification = Classify(row.previous_score)

\* The decay factor of a row is one it earned on some day up to today.
Earned(row, today) == \E d \in 0..today : row.decay_factor = DecayOf(row, d)
=============================================================================
