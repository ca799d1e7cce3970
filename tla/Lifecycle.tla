------------------------------ MODULE Lifecycle ------------------------------
(***************************************************************************)
(* The life of scored opportunities when every transaction runs alone:     *)
(* ingestion creates and updates rows, contacts change and the rows of     *)
(* their company are refreshed, the daily pass applies decay, people move  *)
(* the status, and the calendar advances under all of them.                *)
(***************************************************************************)
EXTENDS Store

CONSTANTS
  TestSourced,      \* opportunities whose signal came from a TEST source
  TopN              \* the length of the ranked list

ASSUME LifecycleAssumption ==
  TestSourced \subseteq Opportunities /\ TopN \in Nat \ {0}

VARIABLES
  today,
  opportunity,      \* the opportunities table
  contact_score,    \* the contacts table: None until recorded
  event_potential,  \* companies.event_potential_score
  affected,         \* companies a discovery run has still to re-score
  (* Auxiliary: which rows are known to lag, and since when the others do not. *)
  behind,           \* rows whose contact quality may lag their contacts
  passed_on,        \* day of the last decay pass
  skipped           \* rows closed during the last decay pass

vars == <<today, opportunity, contact_score, event_potential, affected,
          behind, passed_on, skipped>>

Recorded == RecordedIn(opportunity)
Open == OpenIn(opportunity)
RowsOf(c) == {o \in Recorded : CompanyOf[o] = c}

Init ==
  /\ today = 0
  /\ opportunity = [o \in Opportunities |-> NoRow]
  /\ contact_score = [k \in Contacts |-> None]
  /\ event_potential = [c \in Companies |-> None]
  /\ affected = {}
  /\ behind = {}
  /\ passed_on = None
  /\ skipped = {}

-----------------------------------------------------------------------------
\* create_or_update_opportunity with no row of that signal and type.
Create(o, x, published) ==
  LET row == RowCreated(opportunity, o, x, contact_score, published, today)
  IN  /\ ~Present(opportunity[o])
      /\ opportunity' = [opportunity EXCEPT ![o] = row]
      /\ event_potential' = NotedPotential(event_potential, CompanyOf[o], row.event_probability)
      /\ UNCHANGED <<today, contact_score, affected, behind, passed_on, skipped>>

\* create_or_update_opportunity with a row already there, closed or not.
Update(o, x) ==
  LET row == RowUpdated(opportunity, o, x, contact_score, today)
  IN  /\ Present(opportunity[o])
      /\ opportunity' = [opportunity EXCEPT ![o] = row]
      /\ event_potential' = NotedPotential(event_potential, CompanyOf[o], row.event_probability)
      /\ behind' = behind \ {o}
      /\ skipped' = skipped \ {o}
      /\ UNCHANGED <<today, contact_score, affected, passed_on>>

\* The open rows of c are up to date after a refresh, its closed ones are not.
BehindAfter(c) == (behind \ RowsOf(c)) \cup (RowsOf(c) \ Open)

\* Rows that a change of contact k leaves behind when it is company c that is
\* re-scored for it: those of the company the contact is recorded at.
LeftBehind(k, c) == IF c = ContactCompany[k] THEN {} ELSE RowsOf(ContactCompany[k])

\* One contact attached by run_contact_discovery, in a transaction of its own.
Discover(k, s, c) ==
  /\ Matched(k, c, contact_score)
  /\ contact_score' = [contact_score EXCEPT ![k] = s]
  /\ affected' = affected \cup {c}
  /\ behind' = behind \cup LeftBehind(k, c)
  /\ UNCHANGED <<today, opportunity, event_potential, passed_on, skipped>>

\* The discovery run re-scores one affected company, in its own transaction.
RefreshAffected(c) ==
  /\ c \in affected
  /\ opportunity' = RefreshedTable(opportunity, c, contact_score, today)
  /\ affected' = affected \ {c}
  /\ behind' = BehindAfter(c)
  /\ UNCHANGED <<today, contact_score, event_potential, passed_on, skipped>>

\* That transaction fails, or the process dies before it: nobody retries it.
RefreshLost(c) ==
  /\ c \in affected
  /\ affected' = affected \ {c}
  /\ behind' = behind \cup RowsOf(c)
  /\ UNCHANGED <<today, opportunity, contact_score, event_potential, passed_on, skipped>>

\* Fault: the rows are re-scored before the contact is flushed.
UnflushedSubmit(k, s, c) ==
  /\ Matched(k, c, contact_score)
  /\ contact_score' = [contact_score EXCEPT ![k] = s]
  /\ opportunity' = RefreshedTable(opportunity, c, contact_score, today)
  /\ behind' = BehindAfter(c) \cup LeftBehind(k, c)
  /\ UNCHANGED <<today, event_potential, affected, passed_on, skipped>>

\* POST /ingest/contacts: a contact, and the rows of the company it was submitted
\* for, in one commit.
SubmitContact(k, s, c) ==
  LET score == [contact_score EXCEPT ![k] = s]
  IN  /\ Matched(k, c, contact_score)
      /\ contact_score' = score
      /\ opportunity' = RefreshedTable(opportunity, c, score, today)
      /\ behind' = BehindAfter(c) \cup LeftBehind(k, c)
      /\ UNCHANGED <<today, event_potential, affected, passed_on, skipped>>

\* rescore_all: decay re-applied to every open opportunity, one commit.
RescoreAll ==
  /\ opportunity' = RescoredTable(opportunity, today)
  /\ passed_on' = today
  /\ skipped' = Recorded \ Open
  /\ UNCHANGED <<today, contact_score, event_potential, affected, behind>>

\* PATCH /opportunities/{id}: a person moves the status, nothing else.
UpdateStatus(o, status) ==
  /\ Present(opportunity[o])
  /\ opportunity' = [opportunity EXCEPT ![o].status = status]
  /\ UNCHANGED <<today, contact_score, event_potential, affected, behind, passed_on, skipped>>

\* The calendar advances to a later day.
NextDay(d) ==
  /\ d > today
  /\ today' = d
  /\ UNCHANGED <<opportunity, contact_score, event_potential, affected, behind,
                 passed_on, skipped>>

Next ==
  \/ \E o \in Opportunities, published \in PublicationDays :
       \E x \in Extractions[o] : Create(o, x, published)
  \/ \E o \in Opportunities : \E x \in Extractions[o] : Update(o, x)
  \/ \E k \in Contacts, s \in ContactScores, c \in Companies : Discover(k, s, c)
  \/ \E k \in Contacts, s \in ContactScores, c \in Companies : SubmitContact(k, s, c)
  \/ \E c \in Companies : RefreshAffected(c)
  \/ \E c \in Companies : RefreshLost(c)
  \/ RescoreAll
  \/ \E o \in Opportunities, status \in HumanStatuses : UpdateStatus(o, status)
  \/ \E d \in Days : NextDay(d)

\* Nothing must happen, not even the decay pass: a cycle that fails before it leaves it
\* out (Cycle has when it comes again).
Spec == Init /\ [][Next]_vars
-----------------------------------------------------------------------------
(***************************************************************************)
(* services/top50.py: the ranked list.                                     *)
(***************************************************************************)
\* Ranked strictly ahead: score, then event probability, then age.
Stronger(a, b) ==
  \/ a.score > b.score
  \/ a.score = b.score /\ a.event_probability > b.event_probability

\* Fault: of equals the newest comes first.
NewestAhead(a, b) ==
  \/ Stronger(a, b)
  \/ ~Stronger(b, a) /\ a.created_at > b.created_at

RanksAhead(a, b) ==
  \/ Stronger(a, b)
  \/ ~Stronger(b, a) /\ a.created_at < b.created_at

Rankable ==
  {o \in Open : /\ IsQualified(opportunity[o].score)
                /\ opportunity[o].timing_class # "HISTORICAL"
                /\ o \notin TestSourced}

Top50 ==
  {o \in Rankable :
     Cardinality({p \in Rankable : RanksAhead(opportunity[p], opportunity[o])}) < TopN}

-----------------------------------------------------------------------------
(***************************************************************************)
(* Properties.                                                             *)
(***************************************************************************)

\* Every variable has its type.
TypeOK ==
  /\ today \in Day
  /\ opportunity \in OpportunityTable
  /\ contact_score \in ContactTable
  /\ event_potential \in PotentialTable
  /\ affected \in SUBSET Companies
  /\ behind \in SUBSET Opportunities
  /\ passed_on \in Day \cup {None}
  /\ skipped \in SUBSET Opportunities

\* A row always explains itself: its base score is the weighted sum of the
\* components stored beside it, its score that base times the stored decay
\* factor, its band that of its score.  Three services write parts of these
\* columns (create_or_update_opportunity, refresh_contact_quality, rescore_all).
RowsAddUp ==
  \A o \in Recorded : AddsUp(opportunity[o])

\* Contact quality reaches every row: it is the roll-up of the company's contacts
\* as they are now, unless a discovery run has yet to re-score the company or the
\* row is known to have been left behind: a refresh was lost, skipped it as closed,
\* or re-scored another company than the contact's.
ContactQualityCurrent ==
  \A o \in Recorded :
    LET c == CompanyOf[o]
    IN  c \in affected \/ o \in behind \/
          opportunity[o].contact_quality = ContactQuality(Roster(c, contact_score), contact_score)

\* Every stored decay factor is one the row earned on some day up to today, and
\* after today's pass it is today's, for all rows but those the pass skipped.
DecayIsEarned ==
  \A o \in Recorded :
    /\ Earned(opportunity[o], today)
    /\ passed_on = today /\ o \notin skipped =>
         opportunity[o].decay_factor = DecayOf(opportunity[o], today)

\* note_event_potential keeps a company's potential at or above every probability
\* its rows hold.
PotentialCovers ==
  \A o \in Recorded :
    /\ event_potential[CompanyOf[o]] # None
    /\ opportunity[o].event_probability =< event_potential[CompanyOf[o]]

\* A decay pass may only lower a score: without new evidence nothing climbs.
\* It would fail if decay were applied to rows whose stored score, base and factor
\* had come apart, or if a pass could undo an earlier one's penalty.
PassNeverRaises ==
  [][RescoreAll => \A o \in Recorded : opportunity'[o].score =< opportunity[o].score]_vars

\* Statuses a person has moved on are never touched: outside UpdateStatus a status
\* changes only from NEW to QUALIFIED, on a row that qualifies.
StatusIsHuman ==
  [][(\A o \in Opportunities, s \in HumanStatuses : ~UpdateStatus(o, s)) =>
       \A o \in Recorded :
         opportunity'[o].status # opportunity[o].status =>
           /\ opportunity[o].status = "NEW"
           /\ opportunity'[o].status = "QUALIFIED"
           /\ IsQualified(opportunity'[o].score)]_vars

\* A closed opportunity is settled: only a new extraction or a person changes it.
ClosedIsSettled ==
  [][\A o \in Recorded \ Open :
       \/ opportunity'[o] = opportunity[o]
       \/ \E x \in Extractions[o] : Update(o, x)
       \/ \E s \in HumanStatuses : UpdateStatus(o, s)]_vars

\* A new opportunity enters the Top 50 at another's expense only by being stronger.
NewcomersEarnTheirPlace ==
  [][\A n \in Opportunities \ Recorded, o \in Top50 :
       n \in Recorded' /\ o \notin Top50' =>
         n \in Top50' /\ Stronger(opportunity'[n], opportunity'[o])]_vars

\* "apply decay (so stale opportunities leave the Top 50)" (scheduler.py:14): once
\* today's pass has run, the list holds nothing that today's decay would disqualify,
\* whatever has been created, updated or refreshed before the pass or since it, but
\* for what the pass skipped as closed and a person has reopened.
PassCleansList ==
  passed_on = today =>
    \A o \in Top50 \ skipped :
      IsQualified(Decayed(opportunity[o].base_score, DecayOf(opportunity[o], today)))

\* "a past event never appears in the ranking as if it were still upcoming"
\* (README.md), because timing_class "is recomputed on every scoring pass"
\* (docs/SCORING.md): once today's pass has run, no ranked row has an event date
\* that has gone by.
NoPastEventRanked ==
  passed_on = today =>
    \A o \in Top50 : opportunity[o].event_date = None \/ opportunity[o].event_date >= today
=============================================================================
