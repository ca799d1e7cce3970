------------------------------ MODULE Ingestion ------------------------------
(***************************************************************************)
(* The ingestion pipeline (services/pipeline.py): documents become sources *)
(* and, when an extraction says enough, companies, signals and             *)
(* opportunities.  Each document has a transaction of its own; several     *)
(* runs (the scheduler's, a request's, the command line's) may overlap.    *)
(*                                                                         *)
(* Rows are tuples tagged with their table; what matters here of a row is  *)
(* the unique keys it occupies.  Statements are READ COMMITTED: a lookup   *)
(* sees committed rows and the session's own, an insertion waits for any   *)
(* transaction in flight that occupies one of its keys, and fails on a     *)
(* key that is committed.  Scores are the subject of Lifecycle.            *)
(***************************************************************************)
EXTENDS Naturals, FiniteSets

CONSTANTS
  Runs,
  Documents,
  Sources,        \* of each run: the documents its adapters may fetch
  Url, Text,      \* of each document: normalized_url and content_hash
  Relevant,       \* documents that pass the relevance gate
  CompanyName,    \* the company an extraction of it names, None if none
  Domain,         \* that company's domain, None if not given
  Mentions,       \* company names, long enough to tell, that occur in the text
  Title,          \* type and title of the signal, None if untitled
  Actionable,     \* documents that imply an event
  Length,         \* of each company name
  None

Companies == DOMAIN Length
Known(names) == names \ {None}
Titles == Known({Title[d] : d \in Documents})
Domains == Known({Domain[d] : d \in Documents})

ASSUME DocumentAssumption ==
  /\ Relevant \subseteq Documents
  /\ Sources \in [Runs -> SUBSET Documents]
  /\ {DOMAIN Url, DOMAIN Text, DOMAIN CompanyName, DOMAIN Domain, DOMAIN Mentions,
      DOMAIN Title} = {Documents}
  /\ \A d \in Documents : CompanyName[d] \in Companies \cup {None} /\ Mentions[d] \subseteq Companies
  \* is_actionable_opportunity asks for a company name first.
  /\ \A d \in Actionable : d \in Documents /\ CompanyName[d] # None

VARIABLES
  db,             \* the committed rows
  run,            \* what each run is doing
  failed          \* auxiliary: documents kept although no extraction came of them

vars == <<db, run, failed>>

Row ==
  ({"source"} \X Documents) \cup ({"company"} \X Companies)
    \cup ({"domain"} \X Companies \X Domains)
    \cup ({"signal"} \X Companies \X Titles \X Documents)
    \cup ({"opportunity"} \X Companies \X Titles)

\* The unique constraints of the tables.
KeysOf(row) ==
  CASE row[1] = "source" -> {<<"url", Url[row[2]]>>, <<"text", Text[row[2]]>>}
    [] row[1] = "company" -> {<<"name", row[2]>>}
    [] row[1] = "domain" -> {<<"domain", row[3]>>}
    [] row[1] = "signal" -> {<<"signal", row[2], row[3]>>}
    [] row[1] = "opportunity" -> {row}

Keys(rows) == UNION {KeysOf(row) : row \in rows}

\* A domain is a column of its company: to write it is to lock the company's row.
Locks(rows) == Keys(rows) \cup {<<"name", row[2]>> : row \in {x \in rows : x[1] = "domain"}}

Idle == [step |-> "idle"]
Steps == {"next", "extract", "company", "signal", "opportunity", "commit"}

\* A run between two documents.
Between(todo) ==
  [step |-> "next", todo |-> todo, document |-> None, company |-> None,
   due |-> {}, wrote |-> {}, untrusted |-> FALSE, raced |-> FALSE]

\* The run is at a step and has flushed what was due before it.
At(r, step) == run[r].step = step /\ (step # "idle" => run[r].due = {})

Running == {r \in Runs : run[r] # Idle}
InTransaction(r) == r \in Running /\ run[r].step # "next"
Visible(r) == db \cup run[r].wrote

\* The run goes on to a step, with rows to be flushed before it.
GoesOn(r, step, company, due) ==
  run' = [run EXCEPT ![r].step = step, ![r].company = company, ![r].due = due]

Init ==
  /\ db = {}
  /\ run = [r \in Runs |-> Idle]
  /\ failed = {}

-----------------------------------------------------------------------------
\* run_ingestion: the adapters have fetched some documents.
Start(r, fetched) ==
  /\ At(r, "idle")
  /\ run' = [run EXCEPT ![r] = Between(fetched)]
  /\ UNCHANGED <<db, failed>>

Finish(r) ==
  /\ At(r, "next")
  /\ run[r].todo = {}
  /\ run' = [run EXCEPT ![r] = Idle]
  /\ UNCHANGED <<db, failed>>

\* get_or_create_source finds the document: the same address or the same text.
Duplicate(d) ==
  \E row \in db : row[1] = "source" /\ KeysOf(row) \cap KeysOf(<<"source", d>>) # {}

\* process_document begins: the relevance gate, then the lookup of the source.
Take(r, d) ==
  LET rest == Between(run[r].todo \ {d})
  IN  /\ At(r, "next")
      /\ d \in run[r].todo
      /\ run' = [run EXCEPT ![r] =
           IF d \notin Relevant \/ Duplicate(d) THEN rest
           ELSE [rest EXCEPT !.step = "extract", !.document = d, !.due = {<<"source", d>>}]]
      /\ UNCHANGED <<db, failed>>

\* The provider answers, or has nothing that can be trusted: the source stays.
Extract(r) ==
  /\ At(r, "extract")
  /\ GoesOn(r, "company", None, {})
  /\ UNCHANGED <<db, failed>>

ExtractionFails(r) ==
  /\ At(r, "extract")
  /\ run' = [run EXCEPT ![r].step = "commit", ![r].untrusted = TRUE]
  /\ UNCHANGED <<db, failed>>

\* find_by_domain, and else find_by_name.
Found(rows, name, domain) ==
  LET owners == {c \in Companies : <<"domain", c, domain>> \in rows}
  IN  IF owners # {} THEN owners ELSE {c \in {name} : <<"company", c>> \in rows}

\* find_company_mentioned: the longest known name in the text.
Mentioned(rows, d) ==
  LET known == {c \in Mentions[d] : <<"company", c>> \in rows}
  IN  {c \in known : \A other \in known : Length[other] =< Length[c]}

\* The domain a document adds to a company that has none.
Enrichment(rows, c, domain) ==
  IF domain = None \/ \E m \in Domains : <<"domain", c, m>> \in rows THEN {}
  ELSE {<<"domain", c, domain>>}

\* Fault: companies are looked up by name alone.
NameOnlyResolve(r) ==
  LET d == run[r].document
      c == CompanyName[d]
      rows == Visible(r)
  IN  /\ At(r, "company")
      /\ c # None
      /\ GoesOn(r, "signal", c,
                ({<<"company", c>>} \ rows) \cup Enrichment(rows, c, Domain[d]))
      /\ UNCHANGED <<db, failed>>

\* Fault: a new company is committed on the spot.
HastyResolve(r) ==
  LET c == CompanyName[run[r].document]
  IN  /\ At(r, "company")
      /\ c # None
      /\ db' = db \cup {<<"company", c>>}
      /\ GoesOn(r, "signal", c, {})
      /\ UNCHANGED failed

\* resolve_or_create, and find_company_mentioned when no company is named.
Resolve(r) ==
  LET d == run[r].document
      rows == Visible(r)
      found == Found(rows, CompanyName[d], Domain[d])
  IN  /\ At(r, "company")
      /\ \/ /\ CompanyName[d] = None
            /\ \/ Mentioned(rows, d) = {} /\ GoesOn(r, "commit", None, {})
               \/ \E c \in Mentioned(rows, d) : GoesOn(r, "signal", c, {})
         \/ /\ CompanyName[d] # None
            /\ \/ \E c \in found : GoesOn(r, "signal", c, Enrichment(rows, c, Domain[d]))
               \/ /\ found = {}
                  /\ GoesOn(r, "signal", CompanyName[d],
                            {<<"company", CompanyName[d]>>}
                              \cup Enrichment(rows, CompanyName[d], Domain[d]))
      /\ UNCHANGED <<db, failed>>

\* get_or_create_signal: one per company, type and title.
FindSignal(r) ==
  LET d == run[r].document
      c == run[r].company
  IN  /\ At(r, "signal")
      /\ \/ Title[d] = None /\ GoesOn(r, "commit", c, {})
         \/ /\ Title[d] # None
            /\ GoesOn(r, "opportunity", c,
                      IF <<"signal", c, Title[d]>> \in Keys(Visible(r)) THEN {}
                      ELSE {<<"signal", c, Title[d], d>>})
      /\ UNCHANGED <<db, failed>>

\* create_or_update_opportunity: here, whether there is to be a row.
FindOpportunity(r) ==
  LET d == run[r].document
      c == run[r].company
  IN  /\ At(r, "opportunity")
      /\ GoesOn(r, "commit", c,
                IF d \in Actionable THEN {<<"opportunity", c, Title[d]>>} \ Visible(r) ELSE {})
      /\ UNCHANGED <<db, failed>>

-----------------------------------------------------------------------------
\* Another transaction in flight occupies what the rows need.
Blocked(r) ==
  \E other \in Running \ {r} : Locks(run[other].wrote) \cap Locks(run[r].due) # {}

\* A key is committed in another row: to set a domain again is no conflict.
Conflict(r) ==
  Keys(run[r].due) \cap Keys(db \ {row \in run[r].due : row[1] = "domain"}) # {}

\* Fault: a conflict is swallowed, and the document goes on without the rows.
SwallowingFlush(r) ==
  /\ r \in Running
  /\ run[r].due # {}
  /\ ~Blocked(r)
  /\ run' = [run EXCEPT ![r].due = {}, ![r].wrote = IF Conflict(r) THEN @ ELSE @ \cup run[r].due]
  /\ UNCHANGED <<db, failed>>

\* The rows due are inserted; on a conflict the transaction is rolled back.
Flush(r) ==
  /\ r \in Running
  /\ run[r].due # {}
  /\ ~Blocked(r)
  /\ run' = [run EXCEPT ![r] =
       IF Conflict(r) THEN Between(run[r].todo)
       ELSE [run[r] EXCEPT !.due = {}, !.wrote = run[r].wrote \cup run[r].due]]
  /\ UNCHANGED <<db, failed>>

\* session_scope commits; a domain written twice keeps the later value.
Commit(r) ==
  LET wrote == run[r].wrote
      overwritten == {row \in db : row[1] = "domain" /\ <<"name", row[2]>> \in Locks(
                         {x \in wrote : x[1] = "domain"})}
  IN  /\ At(r, "commit")
      /\ db' = (db \ overwritten) \cup wrote
      /\ run' = [q \in Runs |->
           IF q = r THEN Between(run[r].todo)
           ELSE IF InTransaction(q) THEN [run[q] EXCEPT !.raced = TRUE] ELSE run[q]]
      /\ failed' = IF run[r].untrusted THEN failed \cup {run[r].document} ELSE failed

\* Fault: what was flushed before an exception is committed.
CommittingAbort(r) ==
  /\ InTransaction(r)
  /\ db' = db \cup run[r].wrote
  /\ run' = [run EXCEPT ![r] = Between(run[r].todo)]
  /\ UNCHANGED failed

\* Fault: a document that raised is put back.
RequeueingAbort(r) ==
  /\ InTransaction(r)
  /\ run' = [run EXCEPT ![r] = Between(run[r].todo \cup {run[r].document})]
  /\ UNCHANGED <<db, failed>>

\* An exception in one document: it is rolled back, the run goes on.
Abort(r) ==
  /\ InTransaction(r)
  /\ run' = [run EXCEPT ![r] = Between(run[r].todo)]
  /\ UNCHANGED <<db, failed>>

\* The process ends in the middle of a run.
Crash(r) ==
  /\ r \in Running
  /\ run' = [run EXCEPT ![r] = Idle]
  /\ UNCHANGED <<db, failed>>

\* What a run does of itself.
Works(r) ==
  \/ Finish(r) \/ Extract(r) \/ ExtractionFails(r) \/ Resolve(r) \/ FindSignal(r)
  \/ FindOpportunity(r) \/ Flush(r) \/ Commit(r)
  \/ \E d \in Documents : Take(r, d)

Next ==
  \E r \in Runs :
    \/ Start(r, Sources[r])
    \/ Works(r)
    \/ Abort(r)
    \/ Crash(r)

\* A run that has begun is executed until it ends, and the database lets those who
\* wait for a key have their turn.  Nothing has to fail.
Fairness == \A r \in Runs : WF_vars(Works(r)) /\ SF_vars(Flush(r))

Spec == Init /\ [][Next]_vars /\ Fairness
-----------------------------------------------------------------------------
(***************************************************************************)
(* Properties.                                                             *)
(***************************************************************************)
Transaction ==
  [step : Steps, todo : SUBSET Documents, document : Documents \cup {None},
   company : Companies \cup {None}, due : SUBSET Row, wrote : SUBSET Row,
   untrusted : BOOLEAN, raced : BOOLEAN]

\* Every variable has its type.
TypeOK ==
  /\ db \subseteq Row
  /\ run \in [Runs -> {Idle} \cup Transaction]
  /\ failed \subseteq Documents

Recorded(d) == <<"source", d>> \in db

\* A recorded document has been used for all it is worth: since the next run will
\* skip it as a duplicate, whatever its transaction was to write must be there too,
\* through exceptions, conflicts and crashes, and whoever wrote it.
NothingHalfDone ==
  \A d \in Documents \ failed :
    Recorded(d) /\ CompanyName[d] # None /\ Title[d] # None =>
      \E c \in Companies :
        /\ <<"signal", c, Title[d]>> \in Keys(db)
        /\ d \in Actionable => <<"opportunity", c, Title[d]>> \in db

\* Everything can be traced to its evidence: a signal to a recorded document that
\* reports it and to a known company, an opportunity to its signal.
Traceable ==
  /\ \A c \in Companies, t \in Titles, d \in Documents :
       <<"signal", c, t, d>> \in db =>
         Recorded(d) /\ d \notin failed /\ Title[d] = t /\ <<"company", c>> \in db
  /\ \A c \in Companies, t \in Titles :
       <<"opportunity", c, t>> \in db => <<"signal", c, t>> \in Keys(db)

\* No account is invented: a company or a domain is there only because a recorded
\* document names it.
NothingInvented ==
  /\ \A c \in Companies :
       <<"company", c>> \in db => \E d \in Documents : Recorded(d) /\ CompanyName[d] = c
  /\ \A c \in Companies, m \in Domains :
       <<"domain", c, m>> \in db => \E d \in Documents : Recorded(d) /\ Domain[d] = m

\* The lookups cover the unique constraints: an insertion can only fail on one if
\* another run has committed since the document was taken up.
ConflictsNeedOverlap ==
  \A r \in Running : Conflict(r) => run[r].raced

\* A run that has begun ends: a document is tried once, and waiting for the keys of
\* another transaction never goes round in a circle.
EveryRunEnds == \A r \in Runs : []<>(run[r] = Idle)
=============================================================================
