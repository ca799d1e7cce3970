------------------------------ MODULE Outreach -------------------------------
(***************************************************************************)
(* services/outreach.py: the outreach log, the state it leaves on the      *)
(* contacts, and the two views of it, the company's roll-up and the        *)
(* working list of follow-ups.  Requests overlap: each reads its contact,  *)
(* and at commit sends its entry and those columns of the contact that     *)
(* differ from what it read.                                               *)
(*                                                                         *)
(* Times are business time, given with the entry or the present: an entry  *)
(* may be logged long after the fact.  What an entry says besides its      *)
(* contact is read by nobody before it commits, and is chosen there.       *)
(***************************************************************************)
EXTENDS Integers, Sequences, FiniteSets

CONSTANTS
  Companies, Contacts,
  CompanyOf,        \* the company of each contact
  Requests,         \* requests that may be under way at a time
  Actions,          \* the actions that are logged, among OutreachAction
  Given,            \* statuses a caller states, and None
  Times,            \* of an interaction
  Dates,            \* of a next step
  MaxEntries,       \* bound on the log
  None

VARIABLES
  log,              \* outreach_log, in the order of commits
  contact,          \* the columns the log keeps on each contact
  request           \* what each request has read

vars == <<log, contact, request>>

OutreachAction ==
  {"EMAIL_SENT", "CALL_MADE", "CALL_ATTEMPTED", "LINKEDIN_MESSAGE", "MEETING_HELD",
   "PROPOSAL_SENT", "INTRODUCTION_REQUESTED", "NOTE"}

\* The statuses in the order of the enumeration, which is that of progression.
Progression ==
  <<"NOT_CONTACTED", "ATTEMPTED", "CONTACTED", "IN_DISCUSSION", "MEETING_BOOKED",
    "PROPOSAL_SENT", "WON", "LOST", "NURTURE">>

OutreachStatus == {Progression[i] : i \in 1..9}

Rank(s) == CHOOSE i \in 1..9 : Progression[i] = s

Implied(a) ==
  CASE a \in {"EMAIL_SENT", "CALL_MADE", "LINKEDIN_MESSAGE"} -> "CONTACTED"
    [] a \in {"CALL_ATTEMPTED", "INTRODUCTION_REQUESTED"} -> "ATTEMPTED"
    [] a = "MEETING_HELD" -> "IN_DISCUSSION"
    [] a = "PROPOSAL_SENT" -> "PROPOSAL_SENT"
    [] OTHER -> "NOT_CONTACTED"

CountsAsContact ==
  {"EMAIL_SENT", "CALL_MADE", "LINKEDIN_MESSAGE", "MEETING_HELD", "PROPOSAL_SENT"}

ASSUME OutreachAssumption ==
  /\ CompanyOf \in [Contacts -> Companies]
  /\ Actions \subseteq OutreachAction
  /\ Given \subseteq OutreachStatus \cup {None}
  /\ Times \subseteq Nat /\ Dates \subseteq Nat
  /\ MaxEntries \in Nat
  /\ None \notin Nat \cup Contacts \cup OutreachStatus

ContactRow ==
  [outreach_status : OutreachStatus,
   last_contacted_at : Times \cup {None},
   next_follow_up_on : Dates \cup {None}]

\* seen is auxiliary: how long the log was when the entry's request read its contact.
Entry ==
  [company : Companies, contact : Contacts \cup {None}, action : Actions,
   stated : BOOLEAN, status_after : OutreachStatus, occurred_at : Times,
   next_follow_up_on : Dates \cup {None}, seen : Nat]

Idle == [at |-> "idle"]
\* A request under way: its company and contact, the contact as read.
Reading(c, k, row) == [at |-> "read", company |-> c, contact |-> k, row |-> row, seen |-> Len(log)]

TypeOK ==
  /\ log \in Seq(Entry)
  /\ contact \in [Contacts -> ContactRow]
  /\ \A r \in Requests :
       \/ request[r] = Idle
       \/ /\ request[r] \in
               [at : {"read"}, company : Companies, contact : Contacts \cup {None},
                row : ContactRow \cup {None}, seen : 0..Len(log)]
          /\ request[r].contact # None => request[r].row \in ContactRow

Init ==
  /\ log = <<>>
  /\ contact = [k \in Contacts |-> [outreach_status |-> "NOT_CONTACTED",
                                    last_contacted_at |-> None, next_follow_up_on |-> None]]
  /\ request = [r \in Requests |-> Idle]

-----------------------------------------------------------------------------
(***************************************************************************)
(* POST /companies/{id}/outreach.                                          *)
(***************************************************************************)

\* The checks and the reads.  A contact of another company is refused (422).  No
\* request begins that the bounded log would have no room for.
BeginOutreach(r, c, k) ==
  /\ request[r] = Idle
  /\ Len(log) + Cardinality({q \in Requests : request[q] # Idle}) < MaxEntries
  /\ k # None => CompanyOf[k] = c
  /\ request' = [request EXCEPT ![r] = Reading(c, k, IF k = None THEN None ELSE contact[k])]
  /\ UNCHANGED <<log, contact>>

\* The columns an entry sets: a note keeps the status unless one is stated, a
\* call that was not answered is no contact, and a missing date keeps the old one.
SetsStatus(e) == e.action # "NOTE" \/ e.stated
SetsContacted(e) == e.action \in CountsAsContact
SetsFollowUp(e) == e.next_follow_up_on # None

\* The contact as the request would have it.
RolledForward(row, e) ==
  [outreach_status |-> IF SetsStatus(e) THEN e.status_after ELSE row.outreach_status,
   last_contacted_at |-> IF SetsContacted(e) THEN e.occurred_at ELSE row.last_contacted_at,
   next_follow_up_on |-> IF SetsFollowUp(e) THEN e.next_follow_up_on ELSE row.next_follow_up_on]

\* Fault: a unit of work that sends whole rows.
WholeRow(current, read, new) == new

\* The columns of new that differ from what was read, laid over the row as it is.
Merged(current, read, new) ==
  [f \in DOMAIN current |-> IF new[f] # read[f] THEN new[f] ELSE current[f]]

\* The status an entry records: the one stated, or else what its action implies.
StatusAfter(a, s) == IF s = None THEN Implied(a) ELSE s

\* The row of the log a request writes.
EntryOf(q, a, s, t, d) ==
  [company |-> q.company, contact |-> q.contact, action |-> a, stated |-> s # None,
   status_after |-> StatusAfter(a, s), occurred_at |-> t, next_follow_up_on |-> d,
   seen |-> q.seen]

\* The entry and the contact's columns, in one transaction.
CommitOutreach(r, a, s, t, d) ==
  LET q == request[r]
      e == EntryOf(q, a, s, t, d)
  IN  /\ q # Idle
      /\ log' = Append(log, e)
      /\ contact' = IF q.contact = None THEN contact
                    ELSE [contact EXCEPT ![q.contact] = Merged(@, q.row, RolledForward(q.row, e))]
      /\ request' = [request EXCEPT ![r] = Idle]

Next ==
  \E r \in Requests :
    \/ \E c \in Companies, k \in Contacts \cup {None} : BeginOutreach(r, c, k)
    \/ \E a \in Actions, s \in Given, t \in Times, d \in Dates \cup {None} :
         CommitOutreach(r, a, s, t, d)

Spec == Init /\ [][Next]_vars

-----------------------------------------------------------------------------
(***************************************************************************)
(* The views.                                                              *)
(***************************************************************************)

Entries(c) == {i \in DOMAIN log : log[i].company = c}
ContactsOf(c) == {k \in Contacts : CompanyOf[k] = c}

\* The largest of a set of numbers, or none; and the smallest.
Greatest(S, none) == IF S = {} THEN none ELSE CHOOSE m \in S : \A n \in S : n =< m
Least(S, none) == IF S = {} THEN none ELSE CHOOSE m \in S : \A n \in S : m =< n

\* The entries without a contact, which no contact's columns stand for.
Unattached(c) == {i \in Entries(c) : log[i].contact = None}

\* company_state: the furthest status of its contacts and its entries, the latest
\* interaction that was a contact, and the earliest step ever promised.
StatusOf(c) ==
  Greatest({Rank(contact[k].outreach_status) : k \in ContactsOf(c)}
             \cup {Rank(log[i].status_after) : i \in Entries(c)} \cup {1}, 1)

\* Fault: the contacts' columns are read for the entries about them.
ColumnContacted(c) ==
  Greatest({contact[k].last_contacted_at :
              k \in {h \in ContactsOf(c) : contact[h].last_contacted_at # None}}
             \cup {log[i].occurred_at : i \in {j \in Unattached(c) : SetsContacted(log[j])}},
           None)

LastContacted(c) ==
  Greatest({log[i].occurred_at : i \in {j \in Entries(c) : SetsContacted(log[j])}}, None)
NextFollowUp(c) ==
  Least({log[i].next_follow_up_on : i \in {j \in Entries(c) : SetsFollowUp(log[j])}}, None)
Interactions(c) == Cardinality(Entries(c))

Dated(c) == {i \in Unattached(c) : SetsFollowUp(log[i])}

\* Fault: the last entry of all, if it has a date.
LastEntry(c) ==
  {i \in Dated(c) : \A j \in Unattached(c) : log[j].occurred_at =< log[i].occurred_at}

\* due_follow_ups: the entry that holds for the account is the last of the dated
\* ones without a contact; of two at one time the database may name either.
Standing(c) == {i \in Dated(c) : \A j \in Dated(c) : log[j].occurred_at =< log[i].occurred_at}

\* What is owed by a day: to contacts, and on accounts (any of those that may be named).
OwedContacts(on) ==
  {k \in Contacts : contact[k].next_follow_up_on # None /\ contact[k].next_follow_up_on =< on}
OwedAccounts(on) ==
  {i \in UNION {Standing(c) : c \in Companies} : log[i].next_follow_up_on =< on}

-----------------------------------------------------------------------------
(***************************************************************************)
(* Properties.                                                             *)
(***************************************************************************)

\* The entries of a contact that set one of its columns to something.
Says(k, Sets(_)) == {i \in DOMAIN log : log[i].contact = k /\ Sets(log[i])}

\* An entry i has the last word among said if every later one was read before i
\* was there, and so could not know of it.
LastWord(said, i) == \A j \in said : j > i => log[j].seen < i

\* However requests overlap, each column of a contact is what some entry says that
\* nobody who knew of it has contradicted: log_outreach's "roll the contact's
\* current state forward" never loses the word of a later request to an earlier
\* one, and no request carries a column it did not set back to what it had read.
LastWordStands ==
  \A k \in Contacts :
    /\ LET said == Says(k, SetsStatus)
       IN  IF said = {} THEN contact[k].outreach_status = "NOT_CONTACTED"
           ELSE \E i \in said : LastWord(said, i) /\ contact[k].outreach_status = log[i].status_after
    /\ LET said == Says(k, SetsContacted)
       IN  IF said = {} THEN contact[k].last_contacted_at = None
           ELSE \E i \in said : LastWord(said, i) /\ contact[k].last_contacted_at = log[i].occurred_at
    /\ LET said == Says(k, SetsFollowUp)
       IN  IF said = {} THEN contact[k].next_follow_up_on = None
           ELSE \E i \in said : LastWord(said, i)
                                /\ contact[k].next_follow_up_on = log[i].next_follow_up_on

\* "A follow-up promised on the account cannot be lost from the working list"
\* (docs/ROADMAP.md:59), nor one promised to a person: after a dated entry its
\* holder is on the list of whoever looks far enough ahead, whatever undated
\* entries, late entries and overlapping requests follow.
PromisesAreListed ==
  \A i \in DOMAIN log : SetsFollowUp(log[i]) =>
    \E on \in Dates :
      IF log[i].contact # None THEN log[i].contact \in OwedContacts(on)
      ELSE \E j \in OwedAccounts(on) : log[j].company = log[i].company

\* "The company's status is the furthest-progressed status among its contacts", and
\* "an action logged against the company with no contact attached still counts"
\* (outreach.py:156 and 174): the profile shows an account as far as one of its
\* contacts stands, or an entry that is about none of them.
AsFarAsItsContacts ==
  \A c \in Companies :
    StatusOf(c) =
      Greatest({Rank(contact[k].outreach_status) : k \in ContactsOf(c)}
                 \cup {Rank(log[i].status_after) : i \in Unattached(c)} \cup {1}, 1)

\* Every account behaves as Account says, under any interleaving of requests.
Accounts == INSTANCE Account WITH
  last_contacted <- [c \in Companies |-> LastContacted(c)],
  next_follow_up <- [c \in Companies |-> NextFollowUp(c)],
  interactions <- [c \in Companies |-> Interactions(c)]

\* The roll-up implements the ledger of an account (company_state): read anew from the
\* log it is what entry after entry makes of it, in whatever order overlapping and
\* late entries arrive, and one account's entries never tell on another's.
ImplementsAccount == Accounts!Spec
=============================================================================
