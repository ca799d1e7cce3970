-------------------------------- MODULE Store --------------------------------
(***************************************************************************)
(* The tables that the services share, and what one pass of a service over *)
(* them writes: pure functions from the tables as a transaction read them  *)
(* to the tables as it leaves them.  Lifecycle runs each transaction in    *)
(* one step; Writers separates what it read from what it commits.          *)
(***************************************************************************)
EXTENDS Opportunity

CONSTANTS
  Opportunities,    \* identities: one per (signal, type)
  Companies,
  CompanyOf,        \* the company of each opportunity
  Confirmed,        \* opportunities whose signal type announces an event
  ContactCompany,   \* the company of each contact
  ListedUnder,      \* companies under which a contact may be reported again
  ContactScores,    \* scores a contact may be given
  Extractions,      \* what sources may come to say about each opportunity
  PublicationDays,  \* the days a signal may be dated
  Days,             \* the days on which something happens
  HumanStatuses     \* statuses a person may set

ASSUME StoreAssumption ==
  /\ IsFiniteSet(Opportunities) /\ IsFiniteSet(Companies)
  /\ CompanyOf \in [Opportunities -> Companies]
  /\ ContactCompany \in [Contacts -> Companies]
  /\ ListedUnder \in [Contacts -> SUBSET Companies]
  /\ Confirmed \subseteq Opportunities
  /\ ContactScores \subseteq Score
  /\ Extractions \in [Opportunities -> SUBSET Extraction]
  /\ PublicationDays \subseteq Day
  /\ Days \subseteq Day /\ 0 \in Days
  /\ HumanStatuses \subseteq Status
  /\ NoRow \notin OpportunityRow

OpportunityTable == [Opportunities -> OpportunityRow \cup {NoRow}]
ContactTable == [Contacts -> Score \cup {None}]
PotentialTable == [Companies -> Score \cup {None}]

RecordedIn(table) == {o \in Opportunities : Present(table[o])}
OpenIn(table) == {o \in Opportunities : IsOpen(table[o])}

\* contacts_for_company: the contacts recorded for a company.
Roster(c, score) == {k \in Contacts : ContactCompany[k] = c /\ score[k] # None}

\* upsert_contact finds contact k while recording one for company c: k is of c, or k
\* is recorded at another company and has the same email or LinkedIn address.
Matched(k, c, score) ==
  c = ContactCompany[k] \/ (c \in ListedUnder[k] /\ score[k] # None)

-----------------------------------------------------------------------------
\* create_or_update_opportunity with no row of that signal and type.
RowCreated(table, o, x, score, published, today) ==
  Created(x, o \in Confirmed, Roster(CompanyOf[o], score), score,
          published, Cardinality(RecordedIn(table)) + 1, today)

\* create_or_update_opportunity with a row already there, closed or not.
RowUpdated(table, o, x, score, today) ==
  Updated(table[o], x, o \in Confirmed, Roster(CompanyOf[o], score), score, today)

\* Fault: the latest probability replaces the best one.
LatestPotential(potential, c, probability) ==
  [potential EXCEPT ![c] = probability]

\* note_event_potential: the best event probability ever seen at a company.
NotedPotential(potential, c, probability) ==
  [potential EXCEPT ![c] =
    IF @ = None THEN probability ELSE IF probability > @ THEN probability ELSE @]

\* refresh_contact_quality over the open rows of company c.
RefreshedTable(table, c, score, today) ==
  [o \in Opportunities |->
     IF o \in OpenIn(table) /\ CompanyOf[o] = c
     THEN Refreshed(table[o], Roster(c, score), score, today)
     ELSE table[o]]

\* Fault: the pass reaches closed opportunities too.
RescoredClosed(table, today) ==
  [o \in Opportunities |->
     IF o \in RecordedIn(table) THEN Rescored(table[o], today) ELSE table[o]]

\* Fault: the pass stops at opportunities that have qualified.
RescoredUnqualified(table, today) ==
  [o \in Opportunities |->
     IF o \in OpenIn(table) /\ ~IsQualified(table[o].score)
     THEN Rescored(table[o], today) ELSE table[o]]

\* rescore_all: decay re-applied to every open opportunity.
RescoredTable(table, today) ==
  [o \in Opportunities |->
     IF o \in OpenIn(table) THEN Rescored(table[o], today) ELSE table[o]]
=============================================================================
