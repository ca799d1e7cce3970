------------------------------ MODULE Directory ------------------------------
(***************************************************************************)
(* services/contacts.py: the contacts, as submissions create them and fill *)
(* their gaps.  Submissions overlap: each looks for its contact and        *)
(* computes the row, and at commit inserts it, or sends those columns that *)
(* differ from what it read.  A violated unique constraint fails the       *)
(* transaction; one that carries several contacts is abstracted to one.    *)
(*                                                                         *)
(* A name, an address or a profile is compared in its normal form only.    *)
(* The phone, handled like the profile but under no constraint, the source *)
(* and the freshness date are left out.                                    *)
(***************************************************************************)
EXTENDS Rating, Sequences

CONSTANTS
  Payloads,         \* what sources may come to say (ContactInput)
  Sessions,         \* submissions that may be under way at a time
  MaxContacts,      \* bound on the contacts, beyond what the payloads can create
  Preference        \* the departments of an event's preferred routes, best first

VARIABLES
  contact,          \* the contacts table; a row not inserted yet is None
  session,          \* what each submission has read
  (* Auxiliary. *)
  submitted,        \* payloads that have been committed
  mixed             \* contacts that overlapping submissions have written

vars == <<contact, session, submitted, mixed>>

Ids == 1..MaxContacts
Department ==
  {"EVENTS", "MARKETING", "CORPORATE_COMMUNICATIONS", "COMMUNICATIONS", "PR", "PROCUREMENT",
   "BUSINESS_DEVELOPMENT", "EXECUTIVE_OFFICE", "HR", "OTHER", "UNKNOWN"}
EmailStatus == {"VERIFIED", "PUBLIC", "INFERRED", "UNKNOWN"}
Kind == {"NAMED_INDIVIDUAL", "DEPARTMENT_ROUTE", "UNKNOWN"}

\* A row of the contacts table, made of what the payloads say.
ContactRow ==
  LET Said(f) == {p[f] : p \in Payloads}
  IN  [company : Said("company"), name : Said("name"), job_title : Said("job_title"),
       department : Said("department"), email : Said("email") \cup {None},
       email_status : EmailStatus, linkedin : Said("linkedin") \cup {None},
       contact_kind : Said("contact_kind"), contact_score : Int]

ASSUME DirectoryAssumption ==
  /\ MaxContacts \in Nat
  /\ \A p \in Payloads :
       /\ DOMAIN p = {"company", "name", "job_title", "department", "email", "email_status",
                      "linkedin", "contact_kind", "confidence"}
       /\ p.job_title \in Title \cup {None} /\ p.department \in Department
       /\ p.email_status \in EmailStatus /\ p.contact_kind \in Kind /\ p.confidence \in 0..100
  /\ None \notin ContactRow /\ None \notin Ids
  /\ Preference \in Seq(Department \ {"UNKNOWN"})

\* The columns whose known values are left alone; a department or a kind that is
\* UNKNOWN is a gap, and so is any other column without a value.
Gap ==
  [job_title |-> None, department |-> "UNKNOWN", email |-> None, linkedin |-> None,
   contact_kind |-> "UNKNOWN"]

Recorded == {i \in Ids : contact[i] # None}

\* A submission under way; overtaken is auxiliary: another has committed since.
Idle == [overtaken |-> FALSE]

Init ==
  /\ contact = [i \in Ids |-> None]
  /\ session = [s \in Sessions |-> Idle]
  /\ submitted = {}
  /\ mixed = {}

-----------------------------------------------------------------------------
\* An address nobody verified is no more than public, and no address has no status.
SafeEmailStatus(requested, email) ==
  IF email = None THEN "UNKNOWN" ELSE IF requested = "VERIFIED" THEN "PUBLIC" ELSE requested

ByEmail(p) == {i \in Recorded : p.email # None /\ contact[i].email = p.email}
ByLinkedIn(p) == {i \in Recorded : p.linkedin # None /\ contact[i].linkedin = p.linkedin}
ByName(p) ==
  {i \in Recorded : /\ contact[i].company = p.company
                    /\ contact[i].name = p.name
                    /\ contact[i].department = p.department}

\* Fault: a profile identifies nobody.
MatchedByAddress(p) == IF ByEmail(p) # {} THEN ByEmail(p) ELSE ByName(p)

\* The contact a submission is about, strongest identity first.
Matched(p) ==
  IF ByEmail(p) # {} THEN ByEmail(p)
  ELSE IF ByLinkedIn(p) # {} THEN ByLinkedIn(p) ELSE ByName(p)

Scored(row, confidence) ==
  [row EXCEPT !.contact_score = ContactScore(row.job_title, row.department, row.email_status,
                                             row.linkedin # None, confidence)]

NewRow(p) ==
  Scored([company |-> p.company, name |-> p.name, job_title |-> p.job_title,
          department |-> p.department, email |-> p.email,
          email_status |-> SafeEmailStatus(p.email_status, p.email), linkedin |-> p.linkedin,
          contact_kind |-> p.contact_kind, contact_score |-> 0], p.confidence)

\* Fault: a department that is stated replaces the one on file.
Refilled(row, p) ==
  [f \in DOMAIN row |->
     IF f \in DOMAIN Gap /\ (row[f] = Gap[f] \/ (f = "department" /\ p[f] # Gap[f])) THEN p[f]
     ELSE IF f = "email_status" /\ row.email = None THEN SafeEmailStatus(p.email_status, p.email)
     ELSE row[f]]

\* Fault: the status follows the latest source, also when the address does not.
Restated(row, p) ==
  [f \in DOMAIN row |->
     IF f \in DOMAIN Gap /\ row[f] = Gap[f] THEN p[f]
     ELSE IF f = "email_status" /\ p.email # None THEN SafeEmailStatus(p.email_status, p.email)
     ELSE row[f]]

\* Gaps get filled, known values are left alone; an address brings its status.
Filled(row, p) ==
  [f \in DOMAIN row |->
     IF f \in DOMAIN Gap /\ row[f] = Gap[f] THEN p[f]
     ELSE IF f = "email_status" /\ row.email = None THEN SafeEmailStatus(p.email_status, p.email)
     ELSE row[f]]

\* Fault: the contact is given the score of what was submitted.
PayloadScored(row, p) == [Filled(row, p) EXCEPT !.contact_score = NewRow(p).contact_score]

\* The score is that of the contact as it now stands, on the latest source's word.
Updated(row, p) == Scored(Filled(row, p), p.confidence)

-----------------------------------------------------------------------------
\* upsert_contact up to the flush: the look-up and the row it would write.
Begin(s, p) ==
  /\ session[s] = Idle
  /\ \E i \in IF Matched(p) = {} THEN {None} ELSE Matched(p) :
       session' = [session EXCEPT ![s] =
         [payload |-> p, id |-> i, row |-> IF i = None THEN None ELSE contact[i],
          overtaken |-> FALSE]]
  /\ UNCHANGED <<contact, submitted, mixed>>

\* Fault: the whole row is sent.
WholeRow(current, read, new) == new

\* The columns of new that differ from what was read, laid over the row as it is.
Merged(current, read, new) ==
  [f \in DOMAIN current |-> IF new[f] # read[f] THEN new[f] ELSE current[f]]

\* The row a submission leaves, and the others that hold one of its unique keys.
Written(q) ==
  IF q.id = None THEN NewRow(q.payload)
  ELSE Merged(contact[q.id], q.row, Updated(q.row, q.payload))

SameKey(a, b) ==
  \/ a.email # None /\ a.email = b.email
  \/ a.linkedin # None /\ a.linkedin = b.linkedin
  \/ a.company = b.company /\ a.name = b.name /\ a.department = b.department

Rivals(q) == {i \in Recorded \ {q.id} : SameKey(contact[i], Written(q))}

Commit(s) ==
  LET q == session[s]
      i == IF q.id = None THEN Cardinality(Recorded) + 1 ELSE q.id
  IN  /\ q # Idle
      /\ Rivals(q) = {}
      /\ i \in Ids
      /\ contact' = [contact EXCEPT ![i] = Written(q)]
      /\ submitted' = submitted \cup {q.payload}
      /\ mixed' = IF q.id # None /\ contact[i] # q.row THEN mixed \cup {i} ELSE mixed
      /\ session' = [t \in Sessions |->
                       IF t = s \/ session[t] = Idle THEN Idle
                       ELSE [session[t] EXCEPT !.overtaken = TRUE]]

\* The flush or the commit meets a unique constraint: everything is rolled back.
Fail(s) ==
  /\ session[s] # Idle
  /\ Rivals(session[s]) # {}
  /\ session' = [session EXCEPT ![s] = Idle]
  /\ UNCHANGED <<contact, submitted, mixed>>

Next ==
  \E s \in Sessions : (\E p \in Payloads : Begin(s, p)) \/ Commit(s) \/ Fail(s)

Spec == Init /\ [][Next]_vars

-----------------------------------------------------------------------------
(***************************************************************************)
(* scoring/contact_routing.py: whom to approach.                           *)
(***************************************************************************)

\* department_fit: zero is no listed route, the best preference the length of the list.
DepartmentFit(department) ==
  IF \E n \in DOMAIN Preference : Preference[n] = department
  THEN Cardinality(DOMAIN Preference) + 1 - (CHOOSE n \in DOMAIN Preference : Preference[n] = department)
  ELSE 0

\* Fault: ranked by quality first.
QualityFirst(a, b) ==
  \/ a.contact_score > b.contact_score
  \/ /\ a.contact_score = b.contact_score
     /\ DepartmentFit(a.department) > DepartmentFit(b.department)

\* rank_contacts: fit, then quality, then a named person before a route.
RanksBefore(a, b) ==
  \/ DepartmentFit(a.department) > DepartmentFit(b.department)
  \/ /\ DepartmentFit(a.department) = DepartmentFit(b.department)
     /\ \/ a.contact_score > b.contact_score
        \/ /\ a.contact_score = b.contact_score
           /\ a.contact_kind = "NAMED_INDIVIDUAL" /\ b.contact_kind # "NAMED_INDIVIDUAL"

\* best_route: the first of a company's contacts, whichever of equals that is.
BestRoutes(table, c) ==
  LET roster == {i \in Ids : table[i] # None /\ table[i].company = c}
  IN  {i \in roster : \A j \in roster : ~RanksBefore(table[j], table[i])}

-----------------------------------------------------------------------------
(***************************************************************************)
(* Properties.                                                             *)
(***************************************************************************)

\* "Gaps get filled; known values are left alone" (contacts.py:142), also when
\* submissions overlap: what a contact is known to be, it is never again unknown to
\* be, and only a submission that did not know a value can put another in its place.
KnownStays ==
  [][\A i \in Recorded, f \in DOMAIN Gap :
       contact[i][f] # Gap[f] /\ contact'[i][f] # contact[i][f] =>
         /\ contact'[i][f] # Gap[f]
         /\ i \in mixed']_vars

\* "An address we worked out is never recorded as verified" (contacts.py:6-9): the
\* status beside an address is one that somebody stated of this very address, short of
\* verified; for contacts that overlapping submissions have written it is not claimed.
StatusIsOfTheAddress ==
  \A i \in Recorded :
    /\ contact[i].email_status # "VERIFIED"
    /\ contact[i].email = None => contact[i].email_status = "UNKNOWN"
    /\ contact[i].email # None /\ i \notin mixed =>
         \E p \in submitted : /\ p.email = contact[i].email
                              /\ contact[i].email_status = SafeEmailStatus(p.email_status, p.email)

\* A contact's score is that of everything known of it, on the word of one of its
\* sources, not of what was submitted last.
ScoreIsOfTheContact ==
  \A i \in Recorded \ mixed :
    \E p \in submitted : contact[i] = Scored(contact[i], p.confidence)

\* A page that is read again finds its contacts and makes no second ones, whatever
\* other sources have filled in since; excepted are entries without a department,
\* and whatever a contact written by overlapping submissions stands for.
RereadFindsItsContact ==
  mixed = {} => \A p \in submitted : p.department # "UNKNOWN" => Matched(p) # {}

\* A submission that nobody overtook fails only when what it says joins two contacts
\* into one: the one it was matched to, and another that has its address, its
\* profile, or the matched contact's name in the department it states.
FailsOnlyOnSplits ==
  [][\A s \in Sessions :
       Fail(s) /\ ~session[s].overtaken =>
         LET q == session[s]
         IN  /\ q.id # None
             /\ \E j \in Recorded \ {q.id} :
                  \/ j \in ByLinkedIn(q.payload)
                  \/ /\ contact[j].company = contact[q.id].company
                     /\ contact[j].name = contact[q.id].name
                     /\ contact[j].department = q.payload.department]_vars

\* What becomes known of contacts never leaves an account with a worse route: the
\* department that is to be approached first stays as fitting as it was, unless
\* overlapping submissions have written that contact.
RouteNeverWorsens ==
  [][\A i, j \in Ids :
       (\E c \in {contact[k].company : k \in Recorded} :
          i \in BestRoutes(contact, c) /\ j \in BestRoutes(contact', c))
       => DepartmentFit(contact'[j].department) >= DepartmentFit(contact[i].department)
          \/ i \in mixed']_vars
=============================================================================
