------------------------------- MODULE Writers -------------------------------
(***************************************************************************)
(* The same services as in Lifecycle when their transactions overlap: the  *)
(* scheduler's cycle runs in a thread beside the request handlers, several *)
(* handlers run at a time, and the command line may run beside them all.   *)
(*                                                                         *)
(* Sessions are READ COMMITTED and lock nothing they only read.  A session *)
(* loads rows, computes from what it loaded, and at commit sends for each  *)
(* row the columns it changed, and those only (the unit of work of the     *)
(* ORM); the database merges them into whatever the row has become.  The   *)
(* one check at commit is the unique constraint on (signal, type).         *)
(***************************************************************************)
EXTENDS Store

CONSTANTS Sessions

VARIABLES
  today,
  opportunity,      \* the committed tables, as in Lifecycle
  contact_score,
  event_potential,
  affected,         \* companies a discovery run has still to re-score
  session,          \* what each session has loaded, and what it will flush
  (* Auxiliary. *)
  mixed             \* rows two overlapping transactions have both written

vars == <<today, opportunity, contact_score, event_potential, affected, session, mixed>>

Recorded == RecordedIn(opportunity)

Work == {"ingest", "refresh", "submit", "rescore", "status"}
Idle == [work |-> "idle"]

\* A function from some of the keys: the entries of a table to be written.
IsPart(part, keys, values) ==
  DOMAIN part \subseteq keys /\ \A k \in DOMAIN part : part[k] \in values

\* The rows to be written, as loaded and as they are to be; contacts and potentials.
IsTransaction(tx) ==
  /\ DOMAIN tx = {"work", "seen", "wrote", "contacts", "potential"}
  /\ tx.work \in Work
  /\ IsPart(tx.seen, Opportunities, OpportunityRow \cup {NoRow})
  /\ IsPart(tx.wrote, Opportunities, OpportunityRow)
  /\ DOMAIN tx.seen = DOMAIN tx.wrote
  /\ IsPart(tx.contacts, Contacts, Score)
  /\ IsPart(tx.potential, Companies, Score)

\* The entries in which a table differs from what was loaded.
Changed(loaded, now) ==
  LET keys == {k \in DOMAIN now : now[k] # loaded[k]} IN [k \in keys |-> now[k]]

TypeOK ==
  /\ today \in Day
  /\ opportunity \in OpportunityTable
  /\ contact_score \in ContactTable
  /\ event_potential \in PotentialTable
  /\ affected \in SUBSET Companies
  /\ DOMAIN session = Sessions
  /\ \A w \in Sessions : session[w] = Idle \/ IsTransaction(session[w])
  /\ mixed \in SUBSET Opportunities

Init ==
  /\ today = 0
  /\ opportunity = [o \in Opportunities |-> NoRow]
  /\ contact_score = [k \in Contacts |-> None]
  /\ event_potential = [c \in Companies |-> None]
  /\ affected = {}
  /\ session = [w \in Sessions |-> Idle]
  /\ mixed = {}

-----------------------------------------------------------------------------
(***************************************************************************)
(* Reading.  Each handler loads what it needs and computes its writes.     *)
(***************************************************************************)
Begin(w, work, rows, contacts, potential) ==
  LET wrote == Changed(opportunity, rows)
  IN  /\ session[w] = Idle
      /\ session' = [session EXCEPT ![w] =
           [work |-> work, seen |-> [o \in DOMAIN wrote |-> opportunity[o]], wrote |-> wrote,
            contacts |-> Changed(contact_score, contacts),
            potential |-> Changed(event_potential, potential)]]

\* create_or_update_opportunity on what the session sees.
Ingest(w, o, x, published) ==
  LET row == IF Present(opportunity[o])
             THEN RowUpdated(opportunity, o, x, contact_score, today)
             ELSE RowCreated(opportunity, o, x, contact_score, published, today)
  IN  /\ Begin(w, "ingest", [opportunity EXCEPT ![o] = row], contact_score,
               NotedPotential(event_potential, CompanyOf[o], row.event_probability))
      /\ UNCHANGED <<today, opportunity, contact_score, event_potential, affected, mixed>>

\* One contact attached and committed by run_contact_discovery.
Discover(k, s, c) ==
  /\ Matched(k, c, contact_score)
  /\ contact_score' = [contact_score EXCEPT ![k] = s]
  /\ affected' = affected \cup {c}
  /\ UNCHANGED <<today, opportunity, event_potential, session, mixed>>

\* The discovery run comes to one affected company.
Refresh(w, c) ==
  /\ c \in affected
  /\ Begin(w, "refresh", RefreshedTable(opportunity, c, contact_score, today),
           contact_score, event_potential)
  /\ affected' = affected \ {c}
  /\ UNCHANGED <<today, opportunity, contact_score, event_potential, mixed>>

\* POST /ingest/contacts.
Submit(w, k, s, c) ==
  LET score == [contact_score EXCEPT ![k] = s]
  IN  /\ Matched(k, c, contact_score)
      /\ Begin(w, "submit", RefreshedTable(opportunity, c, score, today),
               score, event_potential)
      /\ UNCHANGED <<today, opportunity, contact_score, event_potential, affected, mixed>>

\* rescore_all.
Rescore(w) ==
  /\ Begin(w, "rescore", RescoredTable(opportunity, today), contact_score, event_potential)
  /\ UNCHANGED <<today, opportunity, contact_score, event_potential, affected, mixed>>

\* PATCH /opportunities/{id}.
UpdateStatus(w, o, status) ==
  /\ Present(opportunity[o])
  /\ Begin(w, "status", [opportunity EXCEPT ![o].status = status],
           contact_score, event_potential)
  /\ UNCHANGED <<today, opportunity, contact_score, event_potential, affected, mixed>>

-----------------------------------------------------------------------------
(***************************************************************************)
(* Committing.                                                             *)
(***************************************************************************)
\* Fault: a session sends what it did not change, too, as it last knew it.
Overwritten(seen, wrote, current) == wrote

\* A value as the database keeps it: what a session did not change, it leaves.
Merged(seen, wrote, current) == IF wrote = seen THEN current ELSE wrote

\* UPDATE sets the changed columns of a row; INSERT writes all of them.
MergedRow(seen, wrote, current) ==
  IF ~Present(seen) THEN wrote
  ELSE [column \in DOMAIN current |->
          Merged(seen[column], wrote[column], current[column])]

Written(w) == DOMAIN session[w].wrote

\* Fault: no unique constraint.
NeverConflicts(w) == FALSE

\* uq_opportunities_signal_type: another session has inserted the row meanwhile.
Conflicts(w) ==
  \E o \in Written(w) : ~Present(session[w].seen[o]) /\ Present(opportunity[o])

Commit(w) ==
  LET tx == session[w]
  IN  /\ tx # Idle
      /\ ~Conflicts(w)
      /\ opportunity' = [o \in Opportunities |->
           IF o \in Written(w) THEN MergedRow(tx.seen[o], tx.wrote[o], opportunity[o])
           ELSE opportunity[o]]
      /\ contact_score' = [k \in Contacts |->
           IF k \in DOMAIN tx.contacts THEN tx.contacts[k] ELSE contact_score[k]]
      /\ event_potential' = [c \in Companies |->
           IF c \in DOMAIN tx.potential THEN tx.potential[c] ELSE event_potential[c]]
      /\ mixed' = mixed \cup {o \in Written(w) : opportunity[o] # tx.seen[o]}
      /\ session' = [session EXCEPT ![w] = Idle]
      /\ UNCHANGED <<today, affected>>

\* An exception, a conflict or the end of the process: nothing is written.
Rollback(w) ==
  /\ session[w] # Idle
  /\ session' = [session EXCEPT ![w] = Idle]
  /\ UNCHANGED <<today, opportunity, contact_score, event_potential, affected, mixed>>

NextDay(d) ==
  /\ d > today
  /\ today' = d
  /\ UNCHANGED <<opportunity, contact_score, event_potential, affected, session, mixed>>

Next ==
  \/ \E w \in Sessions :
       \/ \E o \in Opportunities, published \in PublicationDays :
            \E x \in Extractions[o] : Ingest(w, o, x, published)
       \/ \E c \in Companies : Refresh(w, c)
       \/ \E k \in Contacts, s \in ContactScores, c \in Companies : Submit(w, k, s, c)
       \/ Rescore(w)
       \/ \E o \in Opportunities, status \in HumanStatuses : UpdateStatus(w, o, status)
       \/ Commit(w)
       \/ Rollback(w)
  \/ \E k \in Contacts, s \in ContactScores, c \in Companies : Discover(k, s, c)
  \/ \E d \in Days : NextDay(d)

Spec == Init /\ [][Next]_vars

-----------------------------------------------------------------------------
(***************************************************************************)
(* Properties.                                                             *)
(***************************************************************************)
\* Some session of that kind commits in this step.
Commits(kinds) == \E w \in Sessions : session[w] # Idle /\ session[w].work \in kinds /\ Commit(w)

\* Rows that no two overlapping transactions wrote explain themselves, however many
\* transactions overlapped around them: overlap alone does no harm.
UnmixedRowsAddUp == \A o \in Recorded \ mixed : AddsUp(opportunity[o])

\* A pass that was in flight when a person moved a status never takes it back: the
\* decay pass and the contact refresh load the status but do not change it.
PassesKeepStatus ==
  [][Commits({"rescore", "refresh", "submit"}) =>
       \A o \in Recorded : opportunity'[o].status = opportunity[o].status]_vars

\* An opportunity that has left NEW is never started again, though two sessions may
\* each have found it missing and gone on to insert it.
NeverStartedAgain ==
  [][\A o \in Recorded :
       opportunity[o].status # "NEW" /\ opportunity'[o].status = "NEW" => Commits({"status"})]_vars

\* A decay pass that writes a row nobody wrote meanwhile repairs its published score,
\* whatever overlapping writers had made of it before.
PassRepairsScore ==
  [][\A w \in Sessions :
       session[w] # Idle /\ session[w].work = "rescore" /\ Commit(w) =>
         \A o \in Written(w) : session[w].seen[o] = opportunity[o] =>
           opportunity'[o].score =
             Decayed(opportunity'[o].base_score, opportunity'[o].decay_factor)]_vars

\* "Statuses a human has moved on are never touched" (services/opportunities.py):
\* a status other than NEW changes only by a person's request.
HumanStatusKept ==
  [][\A o \in Recorded :
       opportunity[o].status # "NEW" /\ opportunity'[o].status # opportunity[o].status =>
         Commits({"status"})]_vars
=============================================================================
