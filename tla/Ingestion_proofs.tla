-------------------------- MODULE Ingestion_proofs ---------------------------
(***************************************************************************)
(* Proofs about Ingestion, for any runs, documents, companies and titles:  *)
(* what is committed is whole, traceable, there once and not invented, a   *)
(* lookup only misses what another run has committed meanwhile, and runs   *)
(* never wait for each other in a circle.                                  *)
(*                                                                         *)
(* The argument follows one transaction: Sound says of its rows what the   *)
(* properties will say of the committed ones, so that a commit has nothing *)
(* left to show, and whatever rolls it back leaves the rows as they were.  *)
(***************************************************************************)
EXTENDS Ingestion, TLAPS

Signalled(rows, c, t) == \E d \in Documents : <<"signal", c, t, d>> \in rows

\* What the committed rows say; lost are the documents kept without an extraction.
DbSound(rows, lost) ==
  /\ \A c \in Companies, m \in Domains : <<"domain", c, m>> \in rows =>
       /\ <<"company", c>> \in rows
       /\ \E d \in Documents : <<"source", d>> \in rows /\ Domain[d] = m
  /\ \A c \in Companies : <<"company", c>> \in rows =>
       \E d \in Documents : <<"source", d>> \in rows /\ CompanyName[d] = c
  /\ \A c \in Companies, t \in Titles, d \in Documents : <<"signal", c, t, d>> \in rows =>
       <<"source", d>> \in rows /\ d \notin lost /\ Title[d] = t /\ <<"company", c>> \in rows
  /\ \A c \in Companies, t \in Titles : <<"opportunity", c, t>> \in rows => Signalled(rows, c, t)
  /\ \A d \in Documents \ lost :
       <<"source", d>> \in rows /\ CompanyName[d] # None /\ Title[d] # None =>
         \E c \in Companies : /\ Signalled(rows, c, Title[d])
                              /\ d \in Actionable => <<"opportunity", c, Title[d]>> \in rows
  /\ \A d \in lost : <<"source", d>> \in rows

\* The rows of a transaction t, over the committed rows: what it wrote or is to write
\* comes of its one document.
RowsSound(t, rows) ==
  LET own == t.wrote \cup t.due
      d == t.document
  IN  /\ \A x \in Documents : <<"source", x>> \in own => x = d
      /\ \A c \in Companies : <<"company", c>> \in own => c = CompanyName[d]
      /\ \A c \in Companies, m \in Domains : <<"domain", c, m>> \in own =>
           m = Domain[d] /\ <<"company", c>> \in rows \cup own
      /\ \A c \in Companies, u \in Titles, x \in Documents : <<"signal", c, u, x>> \in own =>
           x = d /\ u = Title[d] /\ ~t.untrusted /\ <<"company", c>> \in rows \cup t.wrote
      /\ \A c \in Companies, u \in Titles : <<"opportunity", c, u>> \in own =>
           Signalled(rows \cup t.wrote, c, u)

\* How far it has come.
StepSound(t, rows) ==
  LET own == t.wrote \cup t.due
      d == t.document
  IN  /\ d \in Documents
      /\ <<"source", d>> \in own
      /\ t.step # "extract" => <<"source", d>> \in t.wrote
      /\ t.step = "extract" => own \subseteq {<<"source", d>>}
      /\ t.untrusted => t.step = "commit"
      /\ t.step \in {"signal", "opportunity"} =>
           t.company \in Companies /\ <<"company", t.company>> \in rows \cup own
      /\ t.step = "opportunity" => Title[d] \in Titles /\ Signalled(rows \cup own, t.company, Title[d])
      /\ t.step = "commit" /\ ~t.untrusted /\ CompanyName[d] # None /\ Title[d] # None =>
           \E c \in Companies :
             /\ Signalled(rows \cup own, c, Title[d])
             /\ d \in Actionable => <<"opportunity", c, Title[d]>> \in rows \cup own

\* No key of the rows due is committed in another row.
Clear(t, rows) == Keys(t.due) \cap Keys(rows \ {row \in t.due : row[1] = "domain"}) = {}

Sound(t, rows) ==
  IF t.step = "next" THEN t.wrote = {} /\ t.due = {}
  ELSE /\ RowsSound(t, rows)
       /\ StepSound(t, rows)
       /\ ~t.raced => Clear(t, rows)
       /\ \A d \in Documents : <<"source", d>> \in t.wrote => <<"source", d>> \notin rows

\* Transactions in flight occupy different keys.
Exclusive ==
  \A r, q \in Running : r # q => Locks(run[r].wrote) \cap Locks(run[q].wrote) = {}

\* What is inductive.
IInv ==
  /\ TypeOK
  /\ DbSound(db, failed)
  /\ \A r \in Running : Sound(run[r], db)
  /\ Exclusive

-----------------------------------------------------------------------------
(***************************************************************************)
(* Rows and their keys.                                                    *)
(***************************************************************************)

\* A row is of one of the five tables, whose keys do not mix.
LEMMA RowKinds ==
  ASSUME NEW row \in Row
  PROVE  \/ \E d \in Documents :
              row = <<"source", d>> /\ KeysOf(row) = {<<"url", Url[d]>>, <<"text", Text[d]>>}
         \/ \E c \in Companies : row = <<"company", c>> /\ KeysOf(row) = {<<"name", c>>}
         \/ \E c \in Companies, m \in Domains :
              row = <<"domain", c, m>> /\ KeysOf(row) = {<<"domain", m>>}
         \/ \E c \in Companies, t \in Titles, d \in Documents :
              row = <<"signal", c, t, d>> /\ KeysOf(row) = {<<"signal", c, t>>}
         \/ \E c \in Companies, t \in Titles :
              row = <<"opportunity", c, t>> /\ KeysOf(row) = {<<"opportunity", c, t>>}
<1>1. CASE row \in {"source"} \X Documents
  <2>1. PICK d \in Documents : row = <<"source", d>>
    BY <1>1
  <2> QED BY <2>1 DEF KeysOf
<1>2. CASE row \in {"company"} \X Companies
  <2>1. PICK c \in Companies : row = <<"company", c>>
    BY <1>2
  <2> QED BY <2>1 DEF KeysOf
<1>3. CASE row \in {"domain"} \X Companies \X Domains
  <2>1. PICK c \in Companies, m \in Domains : row = <<"domain", c, m>>
    BY <1>3
  <2> QED BY <2>1 DEF KeysOf
<1>4. CASE row \in {"signal"} \X Companies \X Titles \X Documents
  <2>1. PICK c \in Companies, t \in Titles, d \in Documents : row = <<"signal", c, t, d>>
    BY <1>4
  <2> QED BY <2>1 DEF KeysOf
<1>5. CASE row \in {"opportunity"} \X Companies \X Titles
  <2>1. PICK c \in Companies, t \in Titles : row = <<"opportunity", c, t>>
    BY <1>5
  <2> QED BY <2>1 DEF KeysOf
<1> QED BY <1>1, <1>2, <1>3, <1>4, <1>5 DEF Row

\* A signal's key is there when a signal is.
LEMMA SignalKeys ==
  ASSUME NEW rows, rows \subseteq Row, NEW c \in Companies, NEW t \in Titles
  PROVE  <<"signal", c, t>> \in Keys(rows) <=> Signalled(rows, c, t)
<1>1. ASSUME <<"signal", c, t>> \in Keys(rows) PROVE Signalled(rows, c, t)
  <2>1. PICK row \in rows : <<"signal", c, t>> \in KeysOf(row)
    BY <1>1 DEF Keys
  <2>2. PICK x \in Companies, y \in Titles, d \in Documents :
          row = <<"signal", x, y, d>> /\ <<"signal", c, t>> = <<"signal", x, y>>
    BY <2>1, RowKinds
  <2> QED BY <2>2 DEF Signalled
<1>2. ASSUME Signalled(rows, c, t) PROVE <<"signal", c, t>> \in Keys(rows)
  <2>1. PICK d \in Documents : <<"signal", c, t, d>> \in rows
    BY <1>2 DEF Signalled
  <2>2. KeysOf(<<"signal", c, t, d>>) = {<<"signal", c, t>>}
    BY DEF KeysOf
  <2> QED BY <2>1, <2>2 DEF Keys
<1> QED BY <1>1, <1>2

\* A key of one table is committed only in a row of that table.
KeyIs(k, rows) ==
  \/ \E d \in Documents : <<"source", d>> \in rows
                          /\ k \in KeysOf(<<"source", d>>) /\ k[1] \in {"url", "text"}
  \/ \E c \in Companies : <<"company", c>> \in rows /\ k = <<"name", c>>
  \/ \E c \in Companies, m \in Domains : <<"domain", c, m>> \in rows /\ k = <<"domain", m>>
  \/ \E c \in Companies, t \in Titles : Signalled(rows, c, t) /\ k = <<"signal", c, t>>
  \/ \E c \in Companies, t \in Titles :
       <<"opportunity", c, t>> \in rows /\ k = <<"opportunity", c, t>>

\* The key of a row says of which kind the row is.
LEMMA KeyOfTable ==
  ASSUME NEW rows, rows \subseteq Row
  PROVE  \A k \in Keys(rows) : KeyIs(k, rows)
<1> SUFFICES ASSUME NEW k \in Keys(rows) PROVE KeyIs(k, rows)
  OBVIOUS
<1>1. PICK row \in rows : k \in KeysOf(row)
  BY DEF Keys
<1> QED BY <1>1, RowKinds DEF Signalled, KeyIs

-----------------------------------------------------------------------------
(***************************************************************************)
(* Steps of one run that leave the committed rows alone.                   *)
(***************************************************************************)

\* A transaction that has written nothing holds no lock.
LEMMA LocksOfNone == Locks({}) = {}
  BY DEF Locks, Keys

\* A step of one run that leaves the tables alone keeps the invariant, if its
\* transaction is sound and locks nothing that another holds.
LEMMA LocalStep ==
  ASSUME IInv, NEW r \in Runs, UNCHANGED <<db, failed>>,
         NEW new \in {Idle} \cup Transaction, run' = [run EXCEPT ![r] = new],
         new # Idle =>
           /\ Sound(new, db)
           /\ \/ new.wrote = {}
              \/ r \in Running /\ new.wrote = run[r].wrote
              \/ \A q \in Running \ {r} : Locks(new.wrote) \cap Locks(run[q].wrote) = {}
  PROVE  IInv'
<1>1. run \in [Runs -> {Idle} \cup Transaction]
  BY DEF IInv, TypeOK
<1>2. run'[r] = new /\ \A q \in Runs \ {r} : run'[q] = run[q]
  BY <1>1
<1>3. TypeOK'
  BY <1>1 DEF IInv, TypeOK
<1>4. \A q \in Running' : Sound(run'[q], db')
  BY <1>2 DEF IInv, Running
<1>5. Exclusive'
  <2> SUFFICES ASSUME NEW p \in Running', NEW q \in Running', p # q
               PROVE  Locks(run'[p].wrote) \cap Locks(run'[q].wrote) = {}
    BY DEF Exclusive
  <2>1. \A x \in Running' \ {r} : x \in Running /\ run'[x] = run[x]
    BY <1>2 DEF Running
  <2>2. ASSUME r \in Running', NEW x \in Running \ {r}
        PROVE  Locks(run'[r].wrote) \cap Locks(run[x].wrote) = {}
    BY <1>2, <2>2, LocksOfNone DEF IInv, Exclusive, Running
  <2> QED BY <2>1, <2>2 DEF IInv, Exclusive
<1> QED BY <1>3, <1>4, <1>5 DEF IInv

\* A step within a transaction.
LEMMA GoesOnStep ==
  ASSUME IInv, NEW r \in Runs, UNCHANGED <<db, failed>>,
         NEW before \in Steps, before # "next", At(r, before),
         NEW step \in Steps, NEW company \in Companies \cup {None}, NEW due \in SUBSET Row,
         GoesOn(r, step, company, due),
         Sound([run[r] EXCEPT !.step = step, !.company = company, !.due = due], db)
  PROVE  IInv'
<1>1. run[r].step = before /\ before # "idle"
  BY DEF At, Steps
<1>2. run[r] # Idle
  BY <1>1 DEF Idle
<1>3. run[r] \in Transaction
  BY <1>2 DEF IInv, TypeOK
<1> DEFINE new == [run[r] EXCEPT !.step = step, !.company = company, !.due = due]
<1>4. new \in Transaction /\ new.wrote = run[r].wrote
  BY <1>3 DEF Transaction
<1>5. run' = [run EXCEPT ![r] = new]
  BY DEF GoesOn
<1> HIDE DEF new
<1>6. r \in Running
  BY <1>2 DEF Running
<1> QED BY <1>4, <1>5, <1>6, LocalStep DEF new

\* What is known of a transaction at one of its steps.
LEMMA InStep ==
  ASSUME IInv, NEW r \in Runs, NEW before \in Steps, before # "next", At(r, before)
  PROVE  /\ run[r] \in Transaction /\ run[r].step = before /\ run[r].due = {} /\ r \in Running
         /\ RowsSound(run[r], db) /\ StepSound(run[r], db)
         /\ run[r].document \in Documents /\ <<"source", run[r].document>> \in run[r].wrote
         /\ \A d \in Documents : <<"source", d>> \in run[r].wrote => <<"source", d>> \notin db
         /\ run[r].wrote \subseteq Row /\ db \subseteq Row
<1>1. run[r].step = before /\ before # "idle" /\ run[r].due = {}
  BY DEF At, Steps
<1>2. run[r] # Idle
  BY <1>1 DEF Idle
<1>3. run[r] \in Transaction
  BY <1>2 DEF IInv, TypeOK
<1>4. r \in Running
  BY <1>2 DEF Running
<1>5. Sound(run[r], db)
  BY <1>4 DEF IInv
<1>6. RowsSound(run[r], db) /\ StepSound(run[r], db)
      /\ \A d \in Documents : <<"source", d>> \in run[r].wrote => <<"source", d>> \notin db
  BY <1>1, <1>5 DEF Sound
<1>7. run[r].document \in Documents /\ <<"source", run[r].document>> \in run[r].wrote
  BY <1>1, <1>6 DEF StepSound
<1>8. run[r].wrote \subseteq Row
  BY <1>3 DEF Transaction
<1> QED BY <1>1, <1>3, <1>4, <1>6, <1>7, <1>8 DEF IInv, TypeOK

\* Between two documents a run holds nothing.
LEMMA BetweenIsSound ==
  ASSUME NEW todo \in SUBSET Documents, NEW rows
  PROVE  /\ Between(todo) \in Transaction /\ Between(todo).wrote = {}
         /\ Sound(Between(todo), rows)
  BY DEF Between, Transaction, Steps, Sound

\* Whatever ends a transaction without a commit.
LEMMA RolledBack ==
  ASSUME IInv, NEW r \in Runs, UNCHANGED <<db, failed>>, NEW todo \in SUBSET Documents,
         run' = [run EXCEPT ![r] = Between(todo)]
  PROVE  IInv'
  BY BetweenIsSound, LocalStep

\* A run may end at any time.
LEMMA Ended ==
  ASSUME IInv, NEW r \in Runs, UNCHANGED <<db, failed>>, run' = [run EXCEPT ![r] = Idle]
  PROVE  IInv'
  BY LocalStep

\* A run starts with nothing written.
LEMMA StartKeeps == ASSUME IInv, NEW r \in Runs, Start(r, Sources[r]) PROVE IInv'
<1>1. Sources[r] \in SUBSET Documents
  BY DocumentAssumption
<1> QED BY <1>1, RolledBack DEF Start

\* Looking a document up in the tables keeps it.
LEMMA TakeKeeps == ASSUME IInv, NEW r \in Runs, NEW d \in Documents, Take(r, d) PROVE IInv'
<1> DEFINE todo == run[r].todo \ {d}
           rest == Between(todo)
           opened == [rest EXCEPT !.step = "extract", !.document = d, !.due = {<<"source", d>>}]
<1>1. At(r, "next") /\ UNCHANGED <<db, failed>>
  BY DEF Take
<1>2. run[r].step = "next" /\ run[r] \in Transaction
  BY <1>1 DEF At, IInv, TypeOK, Idle
<1>3. todo \in SUBSET Documents
  BY <1>2 DEF Transaction
<1>4. CASE d \notin Relevant \/ Duplicate(d)
  <2>1. run' = [run EXCEPT ![r] = Between(todo)]
    BY <1>4 DEF Take
  <2> HIDE DEF todo
  <2> QED BY <1>1, <1>3, <2>1, RolledBack
<1>5. CASE ~(d \notin Relevant \/ Duplicate(d))
  <2>1. run' = [run EXCEPT ![r] = opened]
    BY <1>5 DEF Take
  <2>2. <<"source", d>> \in Row
    BY DEF Row
  <2>3. /\ opened.step = "extract" /\ opened.document = d /\ opened.due = {<<"source", d>>}
        /\ opened.wrote = {} /\ opened.untrusted = FALSE
        /\ opened \in Transaction
    BY <1>3, <2>2 DEF Between, Transaction, Steps
  <2>4. opened # Idle
    BY <2>3 DEF Idle
  <2> HIDE DEF opened
  <2>5. RowsSound(opened, db)
    BY <2>3 DEF RowsSound
  <2>6. StepSound(opened, db)
    BY <2>3 DEF StepSound
  <2>7. Clear(opened, db)
    <3> SUFFICES ASSUME NEW k \in Keys({<<"source", d>>}), k \in Keys(db) PROVE FALSE
      BY <2>3 DEF Clear, Keys
    <3>1. k \in KeysOf(<<"source", d>>)
      BY DEF Keys
    <3>2. k[1] \in {"url", "text"}
      BY <3>1 DEF KeysOf
    <3>3. PICK x \in Documents : <<"source", x>> \in db /\ k \in KeysOf(<<"source", x>>)
      <4>1. /\ ~ \E c \in Companies : k = <<"name", c>>
            /\ ~ \E m \in Domains : k = <<"domain", m>>
            /\ ~ \E c \in Companies, u \in Titles : k = <<"signal", c, u>>
            /\ ~ \E c \in Companies, u \in Titles : k = <<"opportunity", c, u>>
        BY <3>2
      <4>2. db \subseteq Row
        BY DEF IInv, TypeOK
      <4>3. KeyIs(k, db)
        BY <4>2, KeyOfTable
      <4> QED BY <4>1, <4>3, Zenon DEF KeyIs
    <3>4. <<"source", x>>[1] = "source"
      OBVIOUS
    <3> QED BY <3>1, <3>3, <3>4, <1>5 DEF Duplicate
  <2>8. Sound(opened, db)
    BY <2>3, <2>5, <2>6, <2>7 DEF Sound
  <2> QED BY <1>1, <2>1, <2>3, <2>8, LocalStep
<1> QED BY <1>4, <1>5

\* Nothing is written while the provider answers.
LEMMA ExtractKeeps == ASSUME IInv, NEW r \in Runs, Extract(r) PROVE IInv'
<1> DEFINE t == run[r]
           new == [t EXCEPT !.step = "company", !.company = None, !.due = {}]
<1>1. At(r, "extract") /\ GoesOn(r, "company", None, {}) /\ UNCHANGED <<db, failed>>
  BY DEF Extract
<1>2. {"extract", "company"} \subseteq Steps /\ "extract" # "next"
  BY DEF Steps
<1>3. /\ t \in Transaction /\ t.due = {} /\ RowsSound(t, db) /\ StepSound(t, db)
      /\ t.document \in Documents /\ <<"source", t.document>> \in t.wrote
      /\ \A d \in Documents : <<"source", d>> \in t.wrote => <<"source", d>> \notin db
      /\ t.step = "extract"
  BY <1>1, <1>2, InStep
<1>4. /\ new.step = "company" /\ new.document = t.document /\ new.due = {}
      /\ new.wrote = t.wrote /\ new.untrusted = t.untrusted
  BY <1>3 DEF Transaction
<1> HIDE DEF new, t
<1>5. Sound(new, db)
  <2>1. RowsSound(new, db)
    BY <1>3, <1>4 DEF RowsSound
  <2>2. StepSound(new, db)
    BY <1>3, <1>4 DEF StepSound
  <2>3. Clear(new, db)
    BY <1>4 DEF Clear, Keys
  <2> QED BY <1>3, <1>4, <2>1, <2>2, <2>3 DEF Sound
<1>6. Sound([run[r] EXCEPT !.step = "company", !.company = None, !.due = {}], db)
  BY <1>5 DEF new, t
<1>7. /\ "extract" \in Steps /\ "company" \in Steps /\ "extract" # "next"
      /\ None \in Companies \cup {None} /\ {} \in SUBSET Row
  BY <1>2
<1> QED BY <1>1, <1>6, <1>7, GoesOnStep, Zenon

\* A provider that fails rolls the document back.
LEMMA ExtractionFailsKeeps == ASSUME IInv, NEW r \in Runs, ExtractionFails(r) PROVE IInv'
<1> DEFINE t == run[r]
           new == [t EXCEPT !.step = "commit", !.untrusted = TRUE]
<1>1. At(r, "extract") /\ run' = [run EXCEPT ![r] = new] /\ UNCHANGED <<db, failed>>
  BY DEF ExtractionFails
<1>2. "extract" \in Steps /\ "extract" # "next"
  BY DEF Steps
<1>3. /\ t \in Transaction /\ t.due = {} /\ RowsSound(t, db) /\ StepSound(t, db)
      /\ t.document \in Documents /\ <<"source", t.document>> \in t.wrote
      /\ \A d \in Documents : <<"source", d>> \in t.wrote => <<"source", d>> \notin db
      /\ t.step = "extract" /\ r \in Running
  BY <1>1, <1>2, InStep
<1>4. /\ new.step = "commit" /\ new.document = t.document /\ new.due = {}
      /\ new.wrote = t.wrote /\ new.untrusted = TRUE /\ new \in Transaction
  BY <1>3 DEF Transaction, Steps
<1> HIDE DEF new, t
<1>5. t.wrote \subseteq {<<"source", t.document>>}
  BY <1>3 DEF StepSound
<1>6. Sound(new, db)
  <2>1. RowsSound(new, db)
    BY <1>4, <1>5 DEF RowsSound
  <2>2. StepSound(new, db)
    BY <1>3, <1>4 DEF StepSound
  <2>3. Clear(new, db)
    BY <1>4 DEF Clear, Keys
  <2> QED BY <1>3, <1>4, <2>1, <2>2, <2>3 DEF Sound
<1> QED BY <1>1, <1>3, <1>4, <1>6, LocalStep DEF t

-----------------------------------------------------------------------------
(***************************************************************************)
(* The lookups: what is not found is not there.                            *)
(***************************************************************************)

\* A key in use is that of a row in the tables.
LEMMA KeysOfRows ==
  ASSUME NEW rows, rows \subseteq Row
  PROVE  /\ \A c : <<"name", c>> \in Keys(rows) => <<"company", c>> \in rows
         /\ \A m : <<"domain", m>> \in Keys(rows) => \E c \in Companies : <<"domain", c, m>> \in rows
         /\ \A c, t : <<"opportunity", c, t>> \in Keys(rows) => <<"opportunity", c, t>> \in rows
<1>1. \A k \in Keys(rows) : KeyIs(k, rows)
  BY KeyOfTable
<1>2. ASSUME NEW c, <<"name", c>> \in Keys(rows) PROVE <<"company", c>> \in rows
  <2>1. KeyIs(<<"name", c>>, rows)
    BY <1>1, <1>2
  <2> QED BY <2>1 DEF KeyIs
<1>3. ASSUME NEW m, <<"domain", m>> \in Keys(rows)
      PROVE  \E c \in Companies : <<"domain", c, m>> \in rows
  <2>1. KeyIs(<<"domain", m>>, rows)
    BY <1>1, <1>3
  <2> QED BY <2>1 DEF KeyIs
<1>4. ASSUME NEW c, NEW t, <<"opportunity", c, t>> \in Keys(rows)
      PROVE  <<"opportunity", c, t>> \in rows
  <2>1. KeyIs(<<"opportunity", c, t>>, rows)
    BY <1>1, <1>4
  <2> QED BY <2>1 DEF KeyIs
<1> QED BY <1>2, <1>3, <1>4

\* Rows whose keys are not among the committed ones are clear.
LEMMA ClearOf ==
  ASSUME NEW t, NEW rows, \A row \in t.due : KeysOf(row) \cap Keys(rows) = {}
  PROVE  Clear(t, rows)
  BY DEF Clear, Keys

\* RowsSound reads four fields.
LEMMA SameRows ==
  ASSUME NEW t, NEW n, NEW rows, RowsSound(t, rows), n.wrote = t.wrote, n.due = t.due,
         n.document = t.document, n.untrusted = t.untrusted
  PROVE  RowsSound(n, rows)
  BY DEF RowsSound

\* To rows that are sound, due ones are added.
LEMMA MoreRows ==
  ASSUME NEW t, NEW n, NEW rows, RowsSound(t, rows), t.due = {}, n.wrote = t.wrote,
         n.document = t.document, n.untrusted = t.untrusted,
         \A x \in n.due :
           \/ \E c \in Companies : x = <<"company", c>> /\ c = CompanyName[n.document]
           \/ \E c \in Companies, m \in Domains :
                x = <<"domain", c, m>> /\ m = Domain[n.document]
                /\ <<"company", c>> \in rows \cup t.wrote \cup n.due
           \/ \E c \in Companies, u \in Titles :
                x = <<"signal", c, u, n.document>> /\ u = Title[n.document]
                /\ ~t.untrusted /\ <<"company", c>> \in rows \cup t.wrote
           \/ \E c \in Companies, u \in Titles :
                x = <<"opportunity", c, u>> /\ Signalled(rows \cup t.wrote, c, u)
  PROVE  RowsSound(n, rows)
<1>1. ASSUME NEW x \in Documents, <<"source", x>> \in n.wrote \cup n.due PROVE x = n.document
  BY <1>1 DEF RowsSound
<1>2. ASSUME NEW c \in Companies, <<"company", c>> \in n.wrote \cup n.due
      PROVE  c = CompanyName[n.document]
  BY <1>2 DEF RowsSound
<1>3. ASSUME NEW c \in Companies, NEW m \in Domains, <<"domain", c, m>> \in n.wrote \cup n.due
      PROVE  m = Domain[n.document] /\ <<"company", c>> \in rows \cup n.wrote \cup n.due
  BY <1>3 DEF RowsSound
<1>4. ASSUME NEW c \in Companies, NEW u \in Titles, NEW x \in Documents,
             <<"signal", c, u, x>> \in n.wrote \cup n.due
      PROVE  /\ x = n.document /\ u = Title[n.document] /\ ~n.untrusted
             /\ <<"company", c>> \in rows \cup n.wrote
  BY <1>4 DEF RowsSound
<1>5. ASSUME NEW c \in Companies, NEW u \in Titles, <<"opportunity", c, u>> \in n.wrote \cup n.due
      PROVE  Signalled(rows \cup n.wrote, c, u)
  <2>1. rows \cup n.wrote = rows \cup t.wrote
    OBVIOUS
  <2>2. CASE <<"opportunity", c, u>> \in t.wrote
    <3>1. <<"opportunity", c, u>> \in t.wrote \cup t.due
      BY <2>2
    <3>2. Signalled(rows \cup t.wrote, c, u)
      BY <3>1 DEF RowsSound
    <3> QED BY <2>1, <3>2
  <2>3. CASE <<"opportunity", c, u>> \in n.due
    <3>1. \E k \in Companies, z \in Titles :
            <<"opportunity", c, u>> = <<"opportunity", k, z>> /\ Signalled(rows \cup t.wrote, k, z)
      BY <2>3
    <3>2. Signalled(rows \cup t.wrote, c, u)
      BY <3>1
    <3> QED BY <2>1, <3>2
  <2> QED BY <1>5, <2>2, <2>3
<1> QED BY <1>1, <1>2, <1>3, <1>4, <1>5 DEF RowsSound

\* A company written or found is the one of its name.
LEMMA ResolveKeeps == ASSUME IInv, NEW r \in Runs, Resolve(r) PROVE IInv'
<1> DEFINE t == run[r]
           d == t.document
           rows == db \cup t.wrote
           name == CompanyName[d]
           m == Domain[d]
           new(step, c, due) == [t EXCEPT !.step = step, !.company = c, !.due = due]
<1>1. At(r, "company") /\ UNCHANGED <<db, failed>>
  BY DEF Resolve
<1>2. /\ "company" \in Steps /\ "company" # "next"
      /\ "signal" \in Steps /\ "commit" \in Steps
  BY DEF Steps
<1>3. /\ t \in Transaction /\ t.due = {} /\ RowsSound(t, db) /\ StepSound(t, db)
      /\ d \in Documents /\ <<"source", d>> \in t.wrote
      /\ \A x \in Documents : <<"source", x>> \in t.wrote => <<"source", x>> \notin db
      /\ t.step = "company" /\ t.wrote \subseteq Row /\ db \subseteq Row
  BY <1>1, <1>2, InStep, Zenon
<1>4. \A step, c, due :
        /\ new(step, c, due).step = step /\ new(step, c, due).company = c
        /\ new(step, c, due).due = due /\ new(step, c, due).document = d
        /\ new(step, c, due).wrote = t.wrote /\ new(step, c, due).untrusted = t.untrusted
        /\ new(step, c, due).raced = t.raced
  BY <1>3 DEF Transaction
<1>5. t.untrusted = FALSE
  BY <1>3 DEF StepSound, Transaction
<1>6. /\ name \in Companies \cup {None} /\ m \in Domains \cup {None} /\ rows \subseteq Row
      /\ rows = Visible(r) /\ Mentions[d] \subseteq Companies
  <2>1. name \in Companies \cup {None} /\ Mentions[d] \subseteq Companies
    BY <1>3, DocumentAssumption
  <2>2. m \in Domains \cup {None}
    BY <1>3 DEF Domains, Known
  <2>3. rows \subseteq Row
    BY <1>3
  <2> QED BY <2>1, <2>2, <2>3 DEF Visible
<1>7. \A step \in Steps, c \in Companies \cup {None}, due \in SUBSET Row :
        GoesOn(r, step, c, due) /\ Sound(new(step, c, due), db) => IInv'
  BY <1>1, <1>2, GoesOnStep, Zenon
<1> HIDE DEF new, rows, name, m
\* Without a company, and with one that is known already.
<1>8. ASSUME GoesOn(r, "commit", None, {}), name = None PROVE IInv'
  <2> DEFINE n == new("commit", None, {})
  <2>1. RowsSound(n, db)
    <3>1. /\ n.wrote = t.wrote /\ n.document = d /\ n.untrusted = t.untrusted /\ n.due = {}
          /\ d = t.document
      BY <1>4
    <3> HIDE DEF n, d
    <3> QED BY <1>3, <3>1, SameRows
  <2>2. StepSound(n, db)
    BY <1>3, <1>4, <1>5, <1>8 DEF StepSound, name
  <2>3. Clear(n, db)
    BY <1>4, ClearOf
  <2>4. Sound(n, db)
    BY <1>2, <1>3, <1>4, <2>1, <2>2, <2>3 DEF Sound
  <2> QED BY <1>2, <1>7, <1>8, <2>4
<1>9. ASSUME NEW c \in Companies, NEW due \in SUBSET Row, GoesOn(r, "signal", c, due),
             <<"company", c>> \in rows \cup due,
             \A x \in due :
               \/ x = <<"company", c>> /\ c = name /\ x \notin rows
               \/ /\ x = <<"domain", c, m>> /\ m \in Domains
                  /\ \A y \in Companies : <<"domain", y, m>> \notin rows
      PROVE  IInv'
  <2> DEFINE n == new("signal", c, due)
  <2>1. RowsSound(n, db)
    <3>1. /\ n.wrote = t.wrote /\ n.document = d /\ n.untrusted = t.untrusted /\ n.due = due
          /\ d = t.document
      BY <1>4
    <3>2. \A x \in due :
            \/ x = <<"company", c>> /\ c = CompanyName[d]
            \/ /\ x = <<"domain", c, m>> /\ m \in Domains /\ m = Domain[d]
               /\ <<"company", c>> \in db \cup t.wrote \cup due
      BY <1>9 DEF name, m, rows
    <3> HIDE DEF n, d
    <3> QED BY <1>3, <3>1, <3>2, MoreRows
  <2>2. StepSound(n, db)
    BY <1>3, <1>4, <1>5, <1>9 DEF StepSound, rows
  <2>3. Clear(n, db)
    <3> SUFFICES ASSUME NEW x \in due PROVE KeysOf(x) \cap Keys(db) = {}
      <4>1. n.due = due
        BY <1>4
      <4> HIDE DEF n
      <4> QED BY <4>1, ClearOf
    <3>1. CASE x = <<"company", c>> /\ x \notin rows
      <4>1. KeysOf(x) = {<<"name", c>>}
        BY <3>1 DEF KeysOf
      <4>2. <<"company", c>> \notin db /\ db \subseteq Row
        BY <1>3, <3>1 DEF rows
      <4>3. <<"name", c>> \notin Keys(db)
        BY <4>2, KeysOfRows, Zenon
      <4> QED BY <4>1, <4>3
    <3>2. CASE x = <<"domain", c, m>> /\ \A y \in Companies : <<"domain", y, m>> \notin rows
      <4>1. KeysOf(x) = {<<"domain", m>>}
        BY <3>2 DEF KeysOf
      <4>2. (\A y \in Companies : <<"domain", y, m>> \notin db) /\ db \subseteq Row
        BY <1>3, <3>2 DEF rows
      <4>3. <<"domain", m>> \notin Keys(db)
        BY <4>2, KeysOfRows, Zenon
      <4> QED BY <4>1, <4>3
    <3> QED BY <1>9, <3>1, <3>2
  <2>4. Sound(n, db)
    BY <1>3, <1>4, <2>1, <2>2, <2>3 DEF Sound
  <2> QED BY <1>2, <1>7, <1>9, <2>4
<1>10. ASSUME name # None, NEW c \in Found(rows, name, m),
              GoesOn(r, "signal", c, Enrichment(rows, c, m))
       PROVE  IInv'
  <2> DEFINE owners == {x \in Companies : <<"domain", x, m>> \in rows}
  <2>1. CASE owners # {}
    <3>1. c \in Companies /\ <<"domain", c, m>> \in rows
      BY <2>1, <1>10 DEF Found
    <3>2. m \in Domains
      BY <3>1, <1>6, RowKinds
    <3>3. Enrichment(rows, c, m) = {}
      BY <3>1, <3>2 DEF Enrichment
    <3>4. <<"company", c>> \in rows
      BY <3>1, <3>2, <1>3 DEF rows, IInv, DbSound, RowsSound
    <3> QED BY <3>1, <3>3, <3>4, <1>9, <1>10
  <2>2. CASE owners = {}
    <3>1. c \in Companies /\ <<"company", c>> \in rows
      BY <2>2, <1>6, <1>10 DEF Found
    <3>2. \A x \in Enrichment(rows, c, m) : x = <<"domain", c, m>> /\ m \in Domains
      BY <1>6 DEF Enrichment
    <3>3. Enrichment(rows, c, m) \in SUBSET Row
      BY <3>1, <3>2 DEF Row
    <3> QED BY <2>2, <3>1, <3>2, <3>3, <1>9, <1>10
  <2> QED BY <2>1, <2>2
<1>11. ASSUME name # None, Found(rows, name, m) = {},
              GoesOn(r, "signal", name, {<<"company", name>>} \cup Enrichment(rows, name, m))
       PROVE  IInv'
  <2>1. name \in Companies
    BY <1>6, <1>11
  <2>2. \A y \in Companies : <<"domain", y, m>> \notin rows
    BY <1>11 DEF Found
  <2>3. <<"company", name>> \notin rows
    BY <1>11, <2>1, <2>2 DEF Found
  <2>4. \A x \in Enrichment(rows, name, m) : x = <<"domain", name, m>> /\ m \in Domains
    BY <1>6 DEF Enrichment
  <2>5. {<<"company", name>>} \cup Enrichment(rows, name, m) \in SUBSET Row
    BY <2>1, <2>4 DEF Row
  <2> QED BY <2>1, <2>2, <2>3, <2>4, <2>5, <1>9, <1>11
<1>12. ASSUME name = None, NEW c \in Mentioned(rows, d), GoesOn(r, "signal", c, {}) PROVE IInv'
  <2>1. c \in Companies /\ <<"company", c>> \in rows
    BY <1>6, <1>12 DEF Mentioned
  <2> QED BY <2>1, <1>9, <1>12
<1> QED BY <1>6, <1>8, <1>10, <1>11, <1>12 DEF Resolve, name, m, rows

\* A signal written or found belongs to the company resolved.
LEMMA FindSignalKeeps == ASSUME IInv, NEW r \in Runs, FindSignal(r) PROVE IInv'
<1> DEFINE t == run[r]
           d == t.document
           c == t.company
           u == Title[d]
           rows == db \cup t.wrote
           new(step, due) == [t EXCEPT !.step = step, !.company = c, !.due = due]
<1>1. At(r, "signal") /\ UNCHANGED <<db, failed>>
  BY DEF FindSignal
<1>2. /\ "signal" \in Steps /\ "signal" # "next"
      /\ "opportunity" \in Steps /\ "commit" \in Steps
  BY DEF Steps
<1>3. /\ t \in Transaction /\ t.due = {} /\ RowsSound(t, db) /\ StepSound(t, db)
      /\ d \in Documents /\ <<"source", d>> \in t.wrote
      /\ \A x \in Documents : <<"source", x>> \in t.wrote => <<"source", x>> \notin db
      /\ t.step = "signal" /\ t.wrote \subseteq Row /\ db \subseteq Row
  BY <1>1, <1>2, InStep, Zenon
<1>4. \A step, due :
        /\ new(step, due).step = step /\ new(step, due).company = c
        /\ new(step, due).due = due /\ new(step, due).document = d
        /\ new(step, due).wrote = t.wrote /\ new(step, due).untrusted = t.untrusted
        /\ new(step, due).raced = t.raced
  BY <1>3 DEF Transaction
<1>5. t.untrusted = FALSE /\ c \in Companies /\ <<"company", c>> \in rows
  BY <1>3 DEF StepSound, Transaction
<1>6. rows \subseteq Row /\ rows = Visible(r)
  BY <1>3 DEF Visible
<1>7. ASSUME NEW step \in Steps, NEW due \in SUBSET Row,
             GoesOn(r, step, c, due), Sound(new(step, due), db)
      PROVE  IInv'
  <2>1. Sound([run[r] EXCEPT !.step = step, !.company = c, !.due = due], db)
    BY <1>7
  <2> HIDE DEF new, c
  <2> QED BY <1>1, <1>2, <1>5, <1>7, <2>1, GoesOnStep
<1> HIDE DEF new, rows, u, c
<1>8. CASE u = None /\ GoesOn(r, "commit", c, {})
  <2> DEFINE n == new("commit", {})
  <2>0. /\ n.step = "commit" /\ n.document = d /\ n.due = {} /\ n.company = c
        /\ n.wrote = t.wrote /\ n.untrusted = FALSE /\ t.due = {}
    BY <1>3, <1>4, <1>5
  <2> HIDE DEF n, d, t
  <2>1. RowsSound(n, db)
    BY <1>3, <1>5, <2>0, SameRows DEF d
  <2>2. StepSound(n, db)
    BY <1>3, <1>5, <1>8, <2>0 DEF StepSound, u
  <2>3. Clear(n, db)
    BY <2>0, ClearOf
  <2>4. Sound(n, db)
    BY <1>3, <2>0, <2>1, <2>2, <2>3 DEF Sound
  <2> QED BY <1>2, <1>7, <1>8, <2>4 DEF n
<1>9. ASSUME u # None, NEW due, due = {} \/ due = {<<"signal", c, u, d>>},
             due = {} => <<"signal", c, u>> \in Keys(rows),
             due # {} => <<"signal", c, u>> \notin Keys(rows),
             GoesOn(r, "opportunity", c, due)
      PROVE  IInv'
  <2> DEFINE n == new("opportunity", due)
  <2>0. /\ n.step = "opportunity" /\ n.document = d /\ n.due = due /\ n.company = c
        /\ n.wrote = t.wrote /\ n.untrusted = FALSE /\ t.due = {} /\ t.untrusted = FALSE
    BY <1>3, <1>4, <1>5
  <2>1. u \in Titles
    BY <1>3, <1>9 DEF u, Titles, Known
  <2>2. due \subseteq Row
    BY <1>3, <1>5, <1>9, <2>1 DEF Row
  <2> HIDE DEF n, d, t
  <2>3. RowsSound(n, db)
    <3>1. \A x \in due : x = <<"signal", c, u, d>> /\ u = Title[d]
      BY <1>9 DEF u
    <3>2. <<"company", c>> \in db \cup t.wrote
      BY <1>5 DEF rows
    <3> QED BY <1>3, <1>5, <2>0, <2>1, <3>1, <3>2, MoreRows DEF d
  <2>4. Signalled(rows \cup due, c, u)
    <3>1. CASE due = {}
      BY <1>5, <1>6, <1>9, <2>1, <3>1, SignalKeys
    <3>2. CASE due = {<<"signal", c, u, d>>}
      BY <1>3, <3>2 DEF Signalled
    <3> QED BY <1>9, <3>1, <3>2
  <2>5. StepSound(n, db)
    <3>1. db \cup (n.wrote \cup n.due) = rows \cup due
      BY <2>0 DEF rows
    <3> QED BY <1>3, <1>5, <2>0, <2>1, <2>4, <3>1 DEF StepSound, u
  <2>6. Clear(n, db)
    <3> SUFFICES ASSUME NEW x \in due PROVE KeysOf(x) \cap Keys(db) = {}
      BY <2>0, ClearOf
    <3>1. x = <<"signal", c, u, d>> /\ <<"signal", c, u>> \notin Keys(rows)
      BY <1>9
    <3>2. KeysOf(x) = {<<"signal", c, u>>}
      BY <3>1 DEF KeysOf
    <3>3. Keys(db) \subseteq Keys(rows)
      BY DEF Keys, rows
    <3> QED BY <3>1, <3>2, <3>3
  <2>7. Sound(n, db)
    BY <1>3, <2>0, <2>3, <2>5, <2>6 DEF Sound
  <2> QED BY <1>2, <1>7, <1>9, <2>2, <2>7 DEF n
<1>10. \/ u = None /\ GoesOn(r, "commit", c, {})
       \/ u # None /\ GoesOn(r, "opportunity", c,
                             IF <<"signal", c, u>> \in Keys(rows) THEN {}
                             ELSE {<<"signal", c, u, d>>})
  BY <1>6 DEF FindSignal, u, c
<1> QED BY <1>8, <1>9, <1>10

\* An opportunity written or found belongs to the signal.
LEMMA FindOpportunityKeeps == ASSUME IInv, NEW r \in Runs, FindOpportunity(r) PROVE IInv'
<1> DEFINE t == run[r]
           d == t.document
           c == t.company
           u == Title[d]
           rows == db \cup t.wrote
           due == IF d \in Actionable THEN {<<"opportunity", c, u>>} \ rows ELSE {}
           new == [t EXCEPT !.step = "commit", !.company = c, !.due = due]
<1>1. At(r, "opportunity") /\ UNCHANGED <<db, failed>> /\ GoesOn(r, "commit", c, due)
  BY DEF FindOpportunity, Visible
<1>2. "opportunity" \in Steps /\ "opportunity" # "next" /\ "commit" \in Steps
  BY DEF Steps
<1>3. /\ t \in Transaction /\ t.due = {} /\ RowsSound(t, db) /\ StepSound(t, db)
      /\ d \in Documents /\ <<"source", d>> \in t.wrote
      /\ \A x \in Documents : <<"source", x>> \in t.wrote => <<"source", x>> \notin db
      /\ t.step = "opportunity" /\ t.wrote \subseteq Row /\ db \subseteq Row
  BY <1>1, <1>2, InStep, Zenon
<1>4. /\ new.step = "commit" /\ new.company = c /\ new.due = due /\ new.document = d
      /\ new.wrote = t.wrote /\ new.untrusted = t.untrusted
  BY <1>3 DEF Transaction
<1>5. t.untrusted = FALSE /\ c \in Companies /\ u \in Titles /\ Signalled(rows, c, u)
  BY <1>3 DEF StepSound, Transaction
<1>6. \A x \in due : x = <<"opportunity", c, u>> /\ x \notin rows /\ x \in Row
  BY <1>5 DEF Row
<1>7. d \in Actionable => <<"opportunity", c, u>> \in rows \cup due
  OBVIOUS
<1> HIDE DEF new, due, rows, u, c
<1>8. RowsSound(new, db)
  <2>1. \A x \in due : x = <<"opportunity", c, u>> /\ Signalled(db \cup t.wrote, c, u)
    BY <1>5, <1>6 DEF rows
  <2> HIDE DEF t, d
  <2> QED BY <1>3, <1>4, <1>5, <2>1, MoreRows DEF d
<1>9. StepSound(new, db)
  <2>1. db \cup (new.wrote \cup new.due) = rows \cup due
    BY <1>4 DEF rows
  <2>2. Signalled(rows \cup due, c, u)
    BY <1>5 DEF Signalled
  <2> QED BY <1>3, <1>4, <1>5, <1>7, <2>1, <2>2 DEF StepSound, u
<1>10. Clear(new, db)
  <2> SUFFICES ASSUME NEW x \in due PROVE KeysOf(x) \cap Keys(db) = {}
    BY <1>4, ClearOf
  <2>1. x = <<"opportunity", c, u>> /\ x \notin db
    BY <1>6 DEF rows
  <2>2. KeysOf(x) = {<<"opportunity", c, u>>}
    BY <2>1 DEF KeysOf
  <2>3. <<"opportunity", c, u>> \notin Keys(db)
    BY <1>3, <2>1, KeysOfRows, Zenon
  <2> QED BY <2>2, <2>3
<1>11. Sound(new, db)
  BY <1>3, <1>4, <1>8, <1>9, <1>10 DEF Sound
<1>12. Sound([run[r] EXCEPT !.step = "commit", !.company = c, !.due = due], db)
  BY <1>11 DEF new
<1>13. due \in SUBSET Row
  BY <1>6
<1> HIDE DEF t
<1> QED BY <1>1, <1>2, <1>5, <1>12, <1>13, GoesOnStep

-----------------------------------------------------------------------------
(***************************************************************************)
(* What the database does.                                                 *)
(***************************************************************************)

\* What is written together is locked together.
LEMMA LocksOfBoth == \A A, B : Locks(A \cup B) = Locks(A) \cup Locks(B)
  BY DEF Locks, Keys

\* A flush waits for the locks of others, or fails on a key that was committed.
LEMMA FlushKeeps == ASSUME IInv, NEW r \in Runs, Flush(r) PROVE IInv'
<1> DEFINE t == run[r]
           new == [t EXCEPT !.due = {}, !.wrote = t.wrote \cup t.due]
<1>1. /\ r \in Running /\ t.due # {} /\ ~Blocked(r) /\ UNCHANGED <<db, failed>>
      /\ run' = [run EXCEPT ![r] = IF Conflict(r) THEN Between(t.todo) ELSE new]
  BY DEF Flush
<1>2. t \in Transaction /\ Sound(t, db)
  BY <1>1 DEF IInv, TypeOK, Running
<1>3. t.step # "next"
  BY <1>1, <1>2 DEF Sound
<1>4. /\ RowsSound(t, db) /\ StepSound(t, db)
      /\ \A d \in Documents : <<"source", d>> \in t.wrote => <<"source", d>> \notin db
  BY <1>2, <1>3 DEF Sound
<1>5. CASE Conflict(r)
  <2>1. t.todo \in SUBSET Documents
    BY <1>2 DEF Transaction
  <2>2. run' = [run EXCEPT ![r] = Between(t.todo)]
    BY <1>1, <1>5
  <2> HIDE DEF t
  <2> QED BY <1>1, <2>1, <2>2, RolledBack
<1>6. CASE ~Conflict(r)
  <2>1. /\ new.step = t.step /\ new.company = t.company /\ new.document = t.document
        /\ new.due = {} /\ new.wrote = t.wrote \cup t.due /\ new.untrusted = t.untrusted
        /\ new \in Transaction
    BY <1>2 DEF Transaction
  <2>2. Clear(t, db)
    BY <1>6 DEF Conflict, Clear
  <2>3. \A d \in Documents : <<"source", d>> \in t.due => <<"source", d>> \notin db
    <3> SUFFICES ASSUME NEW d \in Documents, <<"source", d>> \in t.due, <<"source", d>> \in db
                 PROVE  FALSE
      OBVIOUS
    <3>1. KeysOf(<<"source", d>>) = {<<"url", Url[d]>>, <<"text", Text[d]>>}
      BY DEF KeysOf
    <3>2. <<"source", d>> \in db \ {row \in t.due : row[1] = "domain"}
      OBVIOUS
    <3>3. /\ <<"url", Url[d]>> \in Keys(t.due)
          /\ <<"url", Url[d]>> \in Keys(db \ {row \in t.due : row[1] = "domain"})
      BY <3>1, <3>2 DEF Keys
    <3> QED BY <2>2, <3>3 DEF Clear
  <2>4. run' = [run EXCEPT ![r] = new]
    BY <1>1, <1>6
  <2> HIDE DEF new, t
  <2>5. RowsSound(new, db)
    <3>1. new.wrote \cup new.due = t.wrote \cup t.due
      BY <2>1
    <3>2. \A rows, c, u : Signalled(rows \cup t.wrote, c, u) => Signalled(rows \cup new.wrote, c, u)
      BY <2>1 DEF Signalled
    <3>3. db \cup t.wrote \subseteq db \cup new.wrote
      BY <2>1
    <3> QED BY <1>4, <2>1, <3>1, <3>2, <3>3 DEF RowsSound
  <2>6. StepSound(new, db)
    <3>1. new.wrote \cup new.due = t.wrote \cup t.due
      BY <2>1
    <3> QED BY <1>4, <2>1, <3>1 DEF StepSound
  <2>7. Clear(new, db)
    BY <2>1, ClearOf
  <2>8. Sound(new, db)
    BY <1>3, <1>4, <2>1, <2>3, <2>5, <2>6, <2>7 DEF Sound
  <2>9. ASSUME NEW q \in Running \ {r} PROVE Locks(new.wrote) \cap Locks(run[q].wrote) = {}
    <3>1. Locks(new.wrote) = Locks(t.wrote) \cup Locks(t.due)
      BY <2>1, LocksOfBoth
    <3>2. Locks(t.due) \cap Locks(run[q].wrote) = {}
      BY <1>1 DEF Blocked, t
    <3>3. Locks(t.wrote) \cap Locks(run[q].wrote) = {}
      BY <1>1 DEF IInv, Exclusive, t
    <3> QED BY <3>1, <3>2, <3>3
  <2> QED BY <1>1, <2>1, <2>4, <2>8, <2>9, LocalStep
<1> QED BY <1>5, <1>6

\* All but domains stay.
Kept(rows, more) == \A row \in rows : row[1] # "domain" => row \in more

\* What a commit keeps it keeps of every table.
LEMMA KeptRows ==
  ASSUME NEW rows, NEW more, Kept(rows, more)
  PROVE  /\ \A d : <<"source", d>> \in rows => <<"source", d>> \in more
         /\ \A c : <<"company", c>> \in rows => <<"company", c>> \in more
         /\ \A c, t, d : <<"signal", c, t, d>> \in rows => <<"signal", c, t, d>> \in more
         /\ \A c, t : <<"opportunity", c, t>> \in rows => <<"opportunity", c, t>> \in more
         /\ \A own, c, t : Signalled(rows \cup own, c, t) => Signalled(more \cup own, c, t)
<1>1. \A d : <<"source", d>> \in rows => <<"source", d>> \in more
  BY DEF Kept
<1>2. \A c : <<"company", c>> \in rows => <<"company", c>> \in more
  BY DEF Kept
<1>3. \A c, t, d : <<"signal", c, t, d>> \in rows => <<"signal", c, t, d>> \in more
  BY DEF Kept
<1>4. \A c, t : <<"opportunity", c, t>> \in rows => <<"opportunity", c, t>> \in more
  BY DEF Kept
<1>5. \A own, c, t : Signalled(rows \cup own, c, t) => Signalled(more \cup own, c, t)
  BY <1>3 DEF Signalled
<1> QED BY <1>1, <1>2, <1>3, <1>4, <1>5

\* What another run commits leaves a transaction sound.
LEMMA StaysSound ==
  ASSUME NEW t, NEW n, NEW rows, NEW more, Kept(rows, more),
         RowsSound(t, rows), StepSound(t, rows),
         n.wrote = t.wrote, n.due = t.due, n.document = t.document, n.untrusted = t.untrusted,
         n.step = t.step, n.company = t.company
  PROVE  RowsSound(n, more) /\ StepSound(n, more)
<1> DEFINE own == t.wrote \cup t.due
<1>1. n.wrote \cup n.due = own
  OBVIOUS
<1>2. /\ \A d : <<"source", d>> \in rows => <<"source", d>> \in more
      /\ \A c : <<"company", c>> \in rows => <<"company", c>> \in more
      /\ \A c, u : <<"opportunity", c, u>> \in rows => <<"opportunity", c, u>> \in more
  BY KeptRows
<1>3. \A also, c, u : Signalled(rows \cup also, c, u) => Signalled(more \cup also, c, u)
  BY KeptRows
<1>4. RowsSound(n, more)
  <2>1. /\ \A x \in Documents : <<"source", x>> \in own => x = n.document
        /\ \A c \in Companies : <<"company", c>> \in own => c = CompanyName[n.document]
    BY DEF RowsSound
  <2>2. \A c \in Companies, m \in Domains : <<"domain", c, m>> \in own =>
          m = Domain[n.document] /\ <<"company", c>> \in more \cup own
    BY <1>2 DEF RowsSound
  <2>3. \A c \in Companies, u \in Titles, x \in Documents : <<"signal", c, u, x>> \in own =>
          x = n.document /\ u = Title[n.document] /\ ~n.untrusted
          /\ <<"company", c>> \in more \cup n.wrote
    BY <1>2 DEF RowsSound
  <2>4. \A c \in Companies, u \in Titles : <<"opportunity", c, u>> \in own =>
          Signalled(more \cup n.wrote, c, u)
    BY <1>3 DEF RowsSound
  <2> HIDE DEF own
  <2> QED BY <1>1, <2>1, <2>2, <2>3, <2>4 DEF RowsSound
<1>5. StepSound(n, more)
  <2>1. /\ n.document \in Documents /\ <<"source", n.document>> \in own
        /\ n.step # "extract" => <<"source", n.document>> \in n.wrote
        /\ n.step = "extract" => own \subseteq {<<"source", n.document>>}
        /\ n.untrusted => n.step = "commit"
    BY DEF StepSound
  <2>2. n.step \in {"signal", "opportunity"} =>
          n.company \in Companies /\ <<"company", n.company>> \in more \cup own
    BY <1>2 DEF StepSound
  <2>3. n.step = "opportunity" =>
          Title[n.document] \in Titles /\ Signalled(more \cup own, n.company, Title[n.document])
    BY <1>3 DEF StepSound
  <2>4. ASSUME n.step = "commit", ~n.untrusted, CompanyName[n.document] # None,
               Title[n.document] # None
        PROVE  \E c \in Companies :
                 /\ Signalled(more \cup own, c, Title[n.document])
                 /\ n.document \in Actionable =>
                      <<"opportunity", c, Title[n.document]>> \in more \cup own
    <3>1. PICK c \in Companies :
            /\ Signalled(rows \cup own, c, Title[n.document])
            /\ n.document \in Actionable =>
                 <<"opportunity", c, Title[n.document]>> \in rows \cup own
      BY <2>4 DEF StepSound
    <3> HIDE DEF own
    <3> QED BY <1>2, <1>3, <3>1
  <2> HIDE DEF own
  <2> QED BY <1>1, <2>1, <2>2, <2>3, <2>4 DEF StepSound
<1> QED BY <1>4, <1>5

\* A commit adds the rows of one document, under keys that nobody holds.
LEMMA CommitKeeps == ASSUME IInv, NEW r \in Runs, Commit(r) PROVE IInv'
<1> DEFINE t == run[r]
           d == t.document
           overwritten == {row \in db : row[1] = "domain" /\ <<"name", row[2]>> \in Locks(
                             {x \in t.wrote : x[1] = "domain"})}
<1>1. /\ At(r, "commit")
      /\ db' = (db \ overwritten) \cup t.wrote
      /\ run' = [q \in Runs |->
           IF q = r THEN Between(t.todo)
           ELSE IF InTransaction(q) THEN [run[q] EXCEPT !.raced = TRUE] ELSE run[q]]
      /\ failed' = IF t.untrusted THEN failed \cup {d} ELSE failed
  BY DEF Commit
<1>2. "commit" \in Steps /\ "commit" # "next"
  BY DEF Steps
<1>3. /\ t \in Transaction /\ t.due = {} /\ RowsSound(t, db) /\ StepSound(t, db)
      /\ d \in Documents /\ <<"source", d>> \in t.wrote
      /\ \A x \in Documents : <<"source", x>> \in t.wrote => <<"source", x>> \notin db
      /\ t.step = "commit" /\ t.wrote \subseteq Row /\ db \subseteq Row /\ r \in Running
  BY <1>1, <1>2, InStep, Zenon
<1>4. Kept(db, db')
  BY <1>1 DEF Kept
<1>5. t.wrote \subseteq db' /\ \A row \in db' : row \in db \/ row \in t.wrote
  BY <1>1
<1>6. t.todo \in SUBSET Documents /\ t.untrusted \in BOOLEAN
  BY <1>3 DEF Transaction
<1> HIDE DEF t, d, overwritten
<1>7. TypeOK'
  <2>1. db' \subseteq Row /\ failed' \subseteq Documents
    BY <1>1, <1>3, <1>5 DEF IInv, TypeOK
  <2>2. ASSUME NEW q \in Runs PROVE run'[q] \in {Idle} \cup Transaction
    <3>1. CASE q = r
      BY <1>1, <1>6, <3>1, BetweenIsSound
    <3>2. CASE q # r /\ InTransaction(q)
      <4>1. run[q] \in Transaction
        BY <3>2 DEF InTransaction, Running, IInv, TypeOK
      <4>2. [run[q] EXCEPT !.raced = TRUE] \in Transaction
        BY <4>1 DEF Transaction
      <4> QED BY <1>1, <3>2, <4>2
    <3>3. CASE q # r /\ ~InTransaction(q)
      BY <1>1, <3>3 DEF IInv, TypeOK
    <3> QED BY <3>1, <3>2, <3>3
  <2>3. DOMAIN run' = Runs /\ run' = [q \in Runs |-> run'[q]]
    BY <1>1
  <2> QED BY <2>1, <2>2, <2>3 DEF TypeOK
<1>8. DbSound(db', failed')
  <2> USE DEF IInv
  <2>0. d \notin failed
    BY <1>3 DEF DbSound
  <2>1. ASSUME NEW c \in Companies, NEW m \in Domains, <<"domain", c, m>> \in db'
        PROVE  /\ <<"company", c>> \in db'
               /\ \E x \in Documents : <<"source", x>> \in db' /\ Domain[x] = m
    <3>1. CASE <<"domain", c, m>> \in db
      BY <1>4, <3>1, KeptRows DEF DbSound
    <3>2. CASE <<"domain", c, m>> \in t.wrote
      BY <1>3, <1>4, <1>5, <3>2, KeptRows DEF RowsSound, d
    <3> QED BY <1>5, <2>1, <3>1, <3>2
  <2>2. ASSUME NEW c \in Companies, <<"company", c>> \in db'
        PROVE  \E x \in Documents : <<"source", x>> \in db' /\ CompanyName[x] = c
    <3>1. CASE <<"company", c>> \in db
      BY <1>4, <3>1, KeptRows DEF DbSound
    <3>2. CASE <<"company", c>> \in t.wrote
      BY <1>3, <1>5, <3>2 DEF RowsSound, d
    <3> QED BY <1>5, <2>2, <3>1, <3>2
  <2>3. ASSUME NEW c \in Companies, NEW u \in Titles, NEW x \in Documents,
               <<"signal", c, u, x>> \in db'
        PROVE  /\ <<"source", x>> \in db' /\ x \notin failed' /\ Title[x] = u
               /\ <<"company", c>> \in db'
    <3>1. CASE <<"signal", c, u, x>> \in db
      BY <1>1, <1>3, <1>4, <3>1, KeptRows DEF DbSound
    <3>2. CASE <<"signal", c, u, x>> \in t.wrote
      BY <1>1, <1>3, <1>4, <1>5, <2>0, <3>2, KeptRows DEF RowsSound, d
    <3> QED BY <1>5, <2>3, <3>1, <3>2
  <2>4. ASSUME NEW c \in Companies, NEW u \in Titles, <<"opportunity", c, u>> \in db'
        PROVE  Signalled(db', c, u)
    <3>1. CASE <<"opportunity", c, u>> \in db
      BY <1>4, <3>1, KeptRows DEF DbSound, Signalled
    <3>2. CASE <<"opportunity", c, u>> \in t.wrote
      BY <1>3, <1>4, <1>5, <3>2, KeptRows DEF RowsSound, Signalled
    <3> QED BY <1>5, <2>4, <3>1, <3>2
  <2>5. ASSUME NEW x \in Documents \ failed', <<"source", x>> \in db',
               CompanyName[x] # None, Title[x] # None
        PROVE  \E c \in Companies :
                 /\ Signalled(db', c, Title[x])
                 /\ x \in Actionable => <<"opportunity", c, Title[x]>> \in db'
    <3>1. CASE <<"source", x>> \in db
      <4>1. PICK c \in Companies :
              /\ Signalled(db, c, Title[x])
              /\ x \in Actionable => <<"opportunity", c, Title[x]>> \in db
        BY <1>1, <2>5, <3>1 DEF DbSound
      <4> QED BY <4>1, <1>4, KeptRows DEF Signalled
    <3>2. CASE <<"source", x>> \in t.wrote
      <4>1. x = d /\ ~t.untrusted
        BY <1>1, <1>3, <1>6, <2>5, <3>2 DEF RowsSound, d
      <4>2. PICK c \in Companies :
              /\ Signalled(db \cup t.wrote, c, Title[x])
              /\ x \in Actionable => <<"opportunity", c, Title[x]>> \in db \cup t.wrote
        <5>1. t.wrote \cup t.due = t.wrote
          BY <1>3
        <5> QED BY <4>1, <1>3, <2>5, <5>1 DEF StepSound, d
      <4> QED BY <4>2, <1>4, <1>5, KeptRows DEF Signalled
    <3> QED BY <1>5, <2>5, <3>1, <3>2
  <2>6. \A x \in failed' : <<"source", x>> \in db'
    <3>1. \A x \in failed : <<"source", x>> \in db
      BY DEF DbSound
    <3>2. \A x \in failed' : x \in failed \/ x = d
      BY <1>1
    <3>3. \A x : <<"source", x>> \in db => <<"source", x>> \in db'
      BY <1>4, KeptRows
    <3> QED BY <1>3, <1>5, <3>1, <3>2, <3>3
  <2> QED BY <2>1, <2>2, <2>3, <2>4, <2>5, <2>6 DEF DbSound
<1>9. ASSUME NEW q \in Running' PROVE Sound(run'[q], db')
  <2>1. CASE q = r
    BY <1>1, <1>6, <2>1, BetweenIsSound DEF Running
  <2>2. CASE q # r /\ InTransaction(q)
    <3> DEFINE n == [run[q] EXCEPT !.raced = TRUE]
    <3>1. q \in Running /\ run[q] \in Transaction /\ run[q].step # "next" /\ run'[q] = n
      BY <1>1, <2>2 DEF InTransaction, Running, IInv, TypeOK
    <3>2. /\ RowsSound(run[q], db) /\ StepSound(run[q], db)
          /\ \A x \in Documents : <<"source", x>> \in run[q].wrote => <<"source", x>> \notin db
      BY <3>1 DEF IInv, Sound
    <3>3. /\ n.wrote = run[q].wrote /\ n.due = run[q].due /\ n.document = run[q].document
          /\ n.untrusted = run[q].untrusted /\ n.step = run[q].step
          /\ n.company = run[q].company /\ n.raced = TRUE
      BY <3>1 DEF Transaction
    <3> HIDE DEF n
    <3>4. RowsSound(n, db') /\ StepSound(n, db')
      BY <1>4, <3>2, <3>3, StaysSound
    <3>5. ASSUME NEW x \in Documents, <<"source", x>> \in n.wrote, <<"source", x>> \in db'
          PROVE  FALSE
      <4>1. <<"source", x>> \in t.wrote /\ <<"source", x>> \in run[q].wrote
        BY <1>5, <3>2, <3>3, <3>5
      <4>2. <<"url", Url[x]>> \in KeysOf(<<"source", x>>)
        BY DEF KeysOf
      <4>3. <<"url", Url[x]>> \in Locks(t.wrote) /\ <<"url", Url[x]>> \in Locks(run[q].wrote)
        BY <4>1, <4>2 DEF Locks, Keys
      <4> QED BY <1>3, <2>2, <3>1, <4>3 DEF IInv, Exclusive, t
    <3> QED BY <3>1, <3>3, <3>4, <3>5 DEF Sound
  <2>3. CASE q # r /\ ~InTransaction(q)
    <3>1. run'[q] = run[q] /\ q \in Running
      BY <1>1, <2>3 DEF Running
    <3>2. run[q].step = "next" /\ Sound(run[q], db)
      BY <2>3, <3>1 DEF InTransaction, IInv
    <3> QED BY <3>1, <3>2 DEF Sound
  <2> QED BY <2>1, <2>2, <2>3
<1>10. Exclusive'
  <2> SUFFICES ASSUME NEW p \in Running', NEW q \in Running', p # q
               PROVE  Locks(run'[p].wrote) \cap Locks(run'[q].wrote) = {}
    BY DEF Exclusive
  <2>1. run'[r].wrote = {}
    BY <1>1, <1>3, <1>6, BetweenIsSound DEF Running
  <2>2. ASSUME NEW x \in Running' \ {r}
        PROVE  x \in Running /\ run'[x].wrote = run[x].wrote
    <3>1. CASE InTransaction(x)
      <4>1. x \in Running /\ run[x] \in Transaction
        BY <3>1 DEF InTransaction, Running, IInv, TypeOK
      <4> QED BY <1>1, <3>1, <4>1 DEF Transaction, Running
    <3>2. CASE ~InTransaction(x)
      BY <1>1, <3>2 DEF Running
    <3> QED BY <3>1, <3>2
  <2> QED BY <2>1, <2>2, LocksOfNone DEF IInv, Exclusive
<1> QED BY <1>7, <1>8, <1>9, <1>10 DEF IInv

-----------------------------------------------------------------------------
(***************************************************************************)
(* The theorems.                                                           *)
(***************************************************************************)

\* The tables are empty and no run has started.
LEMMA Initially == Init => IInv
<1> SUFFICES ASSUME Init PROVE IInv
  OBVIOUS
<1>1. Running = {}
  BY DEF Init, Running
<1>2. TypeOK
  BY DEF Init, TypeOK
<1>3. DbSound(db, failed)
  BY DEF Init, DbSound
<1> QED BY <1>1, <1>2, <1>3 DEF IInv, Exclusive

\* IInv holds throughout.
THEOREM Invariance == Spec => []IInv
<1>1. IInv /\ [Next]_vars => IInv'
  <2> SUFFICES ASSUME IInv, [Next]_vars PROVE IInv'
    OBVIOUS
  <2>1. ASSUME NEW r \in Runs, Works(r) PROVE IInv'
    <3>1. CASE Finish(r)
      BY <3>1, Ended DEF Finish
    <3>2. CASE Extract(r)
      BY <3>2, ExtractKeeps
    <3>3. CASE ExtractionFails(r)
      BY <3>3, ExtractionFailsKeeps
    <3>4. CASE Resolve(r)
      BY <3>4, ResolveKeeps
    <3>5. CASE FindSignal(r)
      BY <3>5, FindSignalKeeps
    <3>6. CASE FindOpportunity(r)
      BY <3>6, FindOpportunityKeeps
    <3>7. CASE Flush(r)
      BY <3>7, FlushKeeps
    <3>8. CASE Commit(r)
      BY <3>8, CommitKeeps
    <3>9. ASSUME NEW d \in Documents, Take(r, d) PROVE IInv'
      BY <3>9, TakeKeeps
    <3> QED BY <2>1, <3>1, <3>2, <3>3, <3>4, <3>5, <3>6, <3>7, <3>8, <3>9 DEF Works
  <2>2. ASSUME NEW r \in Runs, Abort(r) PROVE IInv'
    <3>1. run[r].todo \in SUBSET Documents
      BY <2>2 DEF Abort, InTransaction, Running, IInv, TypeOK, Transaction
    <3> QED BY <2>2, <3>1, RolledBack DEF Abort
  <2>3. ASSUME NEW r \in Runs, Crash(r) PROVE IInv'
    BY <2>3, Ended DEF Crash
  <2>4. CASE UNCHANGED vars
    <3>1. TypeOK' /\ DbSound(db, failed)'
      BY <2>4 DEF vars, IInv, TypeOK, DbSound, Signalled
    <3>2. (\A r \in Running : Sound(run[r], db))' /\ Exclusive'
      BY <2>4 DEF vars, IInv, Running, Exclusive
    <3> QED BY <3>1, <3>2 DEF IInv
  <2> QED BY <2>1, <2>2, <2>3, <2>4, StartKeeps DEF Next
<1> QED BY <1>1, Initially, PTL DEF Spec

\* Every variable has its type (models of the tables, pipeline.py's locals).
THEOREM TypeCorrect == Spec => []TypeOK
<1>1. IInv => TypeOK
  BY DEF IInv
<1> QED BY <1>1, Invariance, PTL

\* Whatever is committed can be traced to its evidence, through exceptions, conflicts
\* and crashes of overlapping runs (pipeline.py, process_document).
THEOREM EverythingTraceable == Spec => []Traceable
<1>1. IInv => Traceable
  <2> SUFFICES ASSUME IInv PROVE Traceable
    OBVIOUS
  <2>1. \A c \in Companies, t \in Titles :
          Signalled(db, c, t) => <<"signal", c, t>> \in Keys(db)
    BY SignalKeys DEF IInv, TypeOK
  <2> QED BY <2>1 DEF IInv, DbSound, Traceable, Recorded
<1> QED BY <1>1, Invariance, PTL

\* No company and no domain is there but by a recorded document that names it
\* (companies.py, resolve_or_create).
THEOREM NoAccountInvented == Spec => []NothingInvented
<1>1. IInv => NothingInvented
  BY DEF IInv, DbSound, NothingInvented, Recorded
<1> QED BY <1>1, Invariance, PTL

\* A recorded document has been used for all it is worth (pipeline.py: one
\* transaction for each document, from the source to the opportunity).
THEOREM RecordedIsUsed == Spec => []NothingHalfDone
<1>1. IInv => NothingHalfDone
  <2> SUFFICES ASSUME IInv, NEW d \in Documents \ failed, Recorded(d),
                      CompanyName[d] # None, Title[d] # None
               PROVE  \E c \in Companies :
                        /\ <<"signal", c, Title[d]>> \in Keys(db)
                        /\ d \in Actionable => <<"opportunity", c, Title[d]>> \in db
    BY DEF NothingHalfDone
  <2>1. PICK c \in Companies : /\ Signalled(db, c, Title[d])
                               /\ d \in Actionable => <<"opportunity", c, Title[d]>> \in db
    BY DEF IInv, DbSound, Recorded
  <2>2. Title[d] \in Titles
    BY DEF Titles, Known
  <2>3. <<"signal", c, Title[d]>> \in Keys(db)
    BY <2>1, <2>2, SignalKeys DEF IInv, TypeOK
  <2> QED BY <2>1, <2>3
<1> QED BY <1>1, Invariance, PTL

\* An insertion fails on a unique constraint only if another run has committed since
\* the document was taken up: the lookups cover the constraints.
THEOREM OnlyOverlapConflicts == Spec => []ConflictsNeedOverlap
<1>1. IInv => ConflictsNeedOverlap
  <2> SUFFICES ASSUME IInv, NEW r \in Running, Conflict(r) PROVE run[r].raced
    BY DEF ConflictsNeedOverlap
  <2>1. Sound(run[r], db) /\ ~Clear(run[r], db)
    BY DEF IInv, Conflict, Clear
  <2>2. run[r].step # "next"
    BY <2>1 DEF Sound, Clear, Keys
  <2> QED BY <2>1, <2>2 DEF Sound
<1> QED BY <1>1, Invariance, PTL
-----------------------------------------------------------------------------
(***************************************************************************)
(* Waiting.  Every transaction fills the tables in one order, so that a    *)
(* run only waits for a run that has come further than itself.             *)
(***************************************************************************)
Place(row) ==
  CASE row[1] = "source" -> 1
    [] row[1] \in {"company", "domain"} -> 2
    [] row[1] = "signal" -> 3
    [] row[1] = "opportunity" -> 4

\* The table a step has to be flushed before.
Reached(step) ==
  CASE step = "next" -> 0
    [] step \in {"extract", "company"} -> 1
    [] step = "signal" -> 2
    [] step = "opportunity" -> 3
    [] step = "commit" -> 4

\* Of each table one row at most.
OneOfEach(rows) == \A x, y \in rows : x[1] = y[1] => x = y

\* The rows due are of the table a transaction has come to (the domain with its
\* company's), the rows written of those before it.
InOrder(t) ==
  /\ \A row \in t.due : Place(row) = Reached(t.step)
  /\ OneOfEach(t.due)
  /\ \A row \in t.wrote : /\ Place(row) \in 1..4 /\ Place(row) =< Reached(t.step)
                          /\ t.due # {} => Place(row) < Reached(t.step)

TablesInOrder == \A r \in Running : InOrder(run[r])

\* However runs wait for each other's keys, one of any set of them waits for none of
\* the others.
WaitsNeverCircle ==
  \A waiting \in SUBSET {r \in Running : run[r].due # {}} :
    waiting # {} =>
      \E r \in waiting : \A q \in waiting \ {r} :
        Locks(run[q].wrote) \cap Locks(run[r].due) = {}

\* The table of a key.
PlaceOf(k) ==
  CASE k[1] \in {"url", "text"} -> 1
    [] k[1] \in {"name", "domain"} -> 2
    [] k[1] = "signal" -> 3
    [] k[1] = "opportunity" -> 4

\* A lock is of the table of the row that it is for.
LEMMA LockOfTable ==
  ASSUME NEW rows, rows \subseteq Row, NEW k \in Locks(rows)
  PROVE  \E row \in rows : Place(row) = PlaceOf(k)
<1>1. CASE k \in Keys(rows)
  <2>1. PICK row \in rows : k \in KeysOf(row)
    BY <1>1 DEF Keys
  <2>2. row \in Row
    BY <2>1
  <2>3. CASE \E d \in Documents :
               row = <<"source", d>> /\ KeysOf(row) = {<<"url", Url[d]>>, <<"text", Text[d]>>}
    BY <2>1, <2>3 DEF Place, PlaceOf
  <2>4. CASE \E c \in Companies : row = <<"company", c>> /\ KeysOf(row) = {<<"name", c>>}
    BY <2>1, <2>4 DEF Place, PlaceOf
  <2>5. CASE \E c \in Companies, m \in Domains :
               row = <<"domain", c, m>> /\ KeysOf(row) = {<<"domain", m>>}
    BY <2>1, <2>5 DEF Place, PlaceOf
  <2>6. CASE \E c \in Companies, t \in Titles, d \in Documents :
               row = <<"signal", c, t, d>> /\ KeysOf(row) = {<<"signal", c, t>>}
    BY <2>1, <2>6 DEF Place, PlaceOf
  <2>7. CASE \E c \in Companies, t \in Titles :
               row = <<"opportunity", c, t>> /\ KeysOf(row) = {<<"opportunity", c, t>>}
    BY <2>1, <2>7 DEF Place, PlaceOf
  <2> QED BY <2>2, <2>3, <2>4, <2>5, <2>6, <2>7, RowKinds
<1>2. CASE k \in {<<"name", row[2]>> : row \in {x \in rows : x[1] = "domain"}}
  <2>1. PICK row \in rows : row[1] = "domain" /\ k = <<"name", row[2]>>
    BY <1>2
  <2> QED BY <2>1 DEF Place, PlaceOf
<1> QED BY <1>1, <1>2 DEF Locks

\* A transaction that goes on has written no more, and what it is to write is of the
\* table it has come to.
LEMMA GoesOnInOrder ==
  ASSUME IInv, TablesInOrder, NEW r \in Runs, NEW from, At(r, from), from # "idle",
         NEW step, NEW company, NEW due, GoesOn(r, step, company, due),
         \A row \in due : Place(row) = Reached(step), OneOfEach(due),
         Reached(from) \in Nat, Reached(step) \in Nat, Reached(from) =< Reached(step),
         due # {} => Reached(from) < Reached(step)
  PROVE  InOrder(run'[r])
<1>1. run[r] \in Transaction /\ r \in Running /\ run[r].step = from /\ run[r].due = {}
  BY DEF At, IInv, TypeOK, Idle, Running
<1>2. run' = [run EXCEPT ![r] = [run[r] EXCEPT !.step = step, !.company = company, !.due = due]]
  BY <1>1, Zenon DEF GoesOn, IInv, TypeOK
<1>3. /\ run'[r].step = step /\ run'[r].due = due /\ run'[r].wrote = run[r].wrote
  BY <1>1, <1>2 DEF IInv, TypeOK, Transaction
<1>4. \A row \in run[r].wrote : Place(row) \in 1..4 /\ Place(row) =< Reached(from)
  BY <1>1 DEF TablesInOrder, InOrder
<1>5. \A row \in run[r].wrote : /\ Place(row) \in 1..4 /\ Place(row) =< Reached(step)
                                /\ due # {} => Place(row) < Reached(step)
  BY <1>4, SMT
<1> QED BY <1>3, <1>5, Zenon DEF InOrder

\* Nothing is out of order where nothing is written or due.
LEMMA BetweenInOrder == \A todo : InOrder(Between(todo))
  BY DEF Between, InOrder, OneOfEach

\* Every step keeps the order.
LEMMA OrderKept ==
  ASSUME IInv, IInv', TablesInOrder, [Next]_vars
  PROVE  TablesInOrder'
<1>1. run \in [Runs -> {Idle} \cup Transaction]
  BY DEF IInv, TypeOK
<1>2. ASSUME NEW r \in Runs, NEW new, run' = [run EXCEPT ![r] = new],
             new = Idle \/ InOrder(new)
      PROVE  TablesInOrder'
  <2>1. run'[r] = new /\ \A q \in Runs \ {r} : run'[q] = run[q]
    BY <1>1, <1>2
  <2> QED BY <1>2, <2>1 DEF TablesInOrder, Running
<1>3. ASSUME NEW r \in Runs, InOrder(run'[r]), \A q \in Runs \ {r} : run'[q] = run[q]
      PROVE  TablesInOrder'
  BY <1>3 DEF TablesInOrder, Running
<1>4. ASSUME NEW r \in Runs, NEW step, NEW company, NEW due, GoesOn(r, step, company, due)
      PROVE  \A q \in Runs \ {r} : run'[q] = run[q]
  BY <1>1, <1>4, Zenon DEF GoesOn
<1>5. /\ Reached("extract") = 1 /\ Reached("company") = 1 /\ Reached("signal") = 2
      /\ Reached("opportunity") = 3 /\ Reached("commit") = 4
  BY DEF Reached
<1>6. /\ \A d : Place(<<"source", d>>) = 1
      /\ \A c : Place(<<"company", c>>) = 2
      /\ \A c, m : Place(<<"domain", c, m>>) = 2
      /\ \A c, t, d : Place(<<"signal", c, t, d>>) = 3
      /\ \A c, t : Place(<<"opportunity", c, t>>) = 4
  BY DEF Place
<1>7. ASSUME NEW r \in Runs, Start(r, Sources[r]) \/ Finish(r) \/ Abort(r) \/ Crash(r)
      PROVE  TablesInOrder'
  BY <1>2, <1>7, BetweenInOrder, Zenon DEF Start, Finish, Abort, Crash
<1>8. ASSUME NEW r \in Runs, NEW d \in Documents, Take(r, d) PROVE TablesInOrder'
  <2> DEFINE rest == Between(run[r].todo \ {d})
             opened == [rest EXCEPT !.step = "extract", !.document = d, !.due = {<<"source", d>>}]
  <2>1. run' = [run EXCEPT ![r] = rest] \/ run' = [run EXCEPT ![r] = opened]
    BY <1>8, Zenon DEF Take
  <2>2. opened.step = "extract" /\ opened.due = {<<"source", d>>} /\ opened.wrote = {}
    BY DEF Between
  <2>3. InOrder(opened)
    <3> HIDE DEF opened
    <3> QED BY <1>5, <1>6, <2>2, Zenon DEF InOrder, OneOfEach
  <2>4. InOrder(rest)
    BY BetweenInOrder
  <2> QED BY <1>2, <2>1, <2>3, <2>4, Zenon
<1>9. ASSUME NEW r \in Runs, Extract(r) PROVE TablesInOrder'
  <2>1. At(r, "extract") /\ GoesOn(r, "company", None, {})
    BY <1>9 DEF Extract
  <2>2. InOrder(run'[r])
    BY <1>5, <2>1, GoesOnInOrder DEF OneOfEach
  <2> QED BY <1>3, <1>4, <2>1, <2>2
<1>10. ASSUME NEW r \in Runs, ExtractionFails(r) PROVE TablesInOrder'
  <2> DEFINE new == [run[r] EXCEPT !.step = "commit", !.untrusted = TRUE]
  <2>1. run[r] \in Transaction /\ r \in Running /\ run[r].step = "extract" /\ run[r].due = {}
    BY <1>10 DEF ExtractionFails, At, IInv, TypeOK, Idle, Running
  <2>2. run' = [run EXCEPT ![r] = new]
    BY <1>1, <1>10, Zenon DEF ExtractionFails
  <2>3. new.step = "commit" /\ new.due = {} /\ new.wrote = run[r].wrote
    BY <2>1 DEF Transaction
  <2>4. \A row \in run[r].wrote : Place(row) \in 1..4 /\ Place(row) =< 1
    BY <1>5, <2>1 DEF TablesInOrder, InOrder
  <2>5. \A row \in run[r].wrote : Place(row) \in 1..4 /\ Place(row) =< 4
    BY <2>4, SMT
  <2> HIDE DEF new
  <2>6. InOrder(new)
    BY <1>5, <2>3, <2>5, Zenon DEF InOrder, OneOfEach
  <2> QED BY <1>2, <2>2, <2>6, Zenon
<1>11. ASSUME NEW r \in Runs, Resolve(r) PROVE TablesInOrder'
  <2> DEFINE d == run[r].document
             rows == Visible(r)
  <2>1. At(r, "company")
    BY <1>11 DEF Resolve
  <2>2. \A c : \A row \in Enrichment(rows, c, Domain[d]) : Place(row) = 2
    BY <1>6, Zenon DEF Enrichment
  <2>3. \/ GoesOn(r, "commit", None, {})
        \/ \E c : GoesOn(r, "signal", c, {})
        \/ \E c : GoesOn(r, "signal", c, Enrichment(rows, c, Domain[d]))
        \/ GoesOn(r, "signal", CompanyName[d],
                  {<<"company", CompanyName[d]>>} \cup Enrichment(rows, CompanyName[d], Domain[d]))
    BY <1>11, Zenon DEF Resolve
  <2>4. PICK step, c, due : /\ GoesOn(r, step, c, due)
                            /\ step = "signal" \/ (step = "commit" /\ due = {})
                            /\ \A row \in due : Place(row) = 2
                            /\ OneOfEach(due)
    <3> HIDE DEF rows, d
    <3>1. CASE GoesOn(r, "commit", None, {})
      BY <3>1, SMT DEF OneOfEach
    <3>2. CASE \E c : GoesOn(r, "signal", c, {})
      BY <3>2, SMT DEF OneOfEach
    <3>3. CASE \E c : GoesOn(r, "signal", c, Enrichment(rows, c, Domain[d]))
      <4>1. \A c : OneOfEach(Enrichment(rows, c, Domain[d]))
        BY Zenon DEF Enrichment, OneOfEach
      <4> QED BY <2>2, <3>3, <4>1, Zenon
    <3>4. CASE GoesOn(r, "signal", CompanyName[d],
                 {<<"company", CompanyName[d]>>} \cup Enrichment(rows, CompanyName[d], Domain[d]))
      <4> DEFINE new == {<<"company", CompanyName[d]>>} \cup Enrichment(rows, CompanyName[d], Domain[d])
      <4>1. \A row \in new : Place(row) = 2
        BY <1>6, <2>2, Zenon
      <4>2. OneOfEach(new)
        BY SMT DEF Enrichment, OneOfEach
      <4> HIDE DEF new
      <4> QED BY <3>4, <4>1, <4>2, Zenon DEF new
    <3> QED BY <2>3, <3>1, <3>2, <3>3, <3>4
  <2>5. /\ \A row \in due : Place(row) = Reached(step)
        /\ Reached(step) \in Nat /\ 1 =< Reached(step) /\ (due # {} => 1 < Reached(step))
    BY <1>5, <2>4, SMT
  <2>6. Reached("company") = 1 /\ 1 \in Nat /\ "company" # "idle"
    BY <1>5
  <2>7. InOrder(run'[r])
    BY <2>1, <2>4, <2>5, <2>6, GoesOnInOrder, Zenon
  <2> QED BY <1>3, <1>4, <2>4, <2>7, Zenon
<1>12. ASSUME NEW r \in Runs, FindSignal(r) PROVE TablesInOrder'
  <2>1. At(r, "signal")
    BY <1>12 DEF FindSignal
  <2>2. PICK step, c, due : /\ GoesOn(r, step, c, due)
                            /\ step = "opportunity" \/ (step = "commit" /\ due = {})
                            /\ \A row \in due : Place(row) = 3
                            /\ OneOfEach(due)
    <3> DEFINE d == run[r].document
               sig == IF <<"signal", run[r].company, Title[d]>> \in Keys(Visible(r)) THEN {}
                      ELSE {<<"signal", run[r].company, Title[d], d>>}
    <3>1. (\A row \in sig : Place(row) = 3) /\ OneOfEach(sig)
      BY <1>6, Zenon DEF OneOfEach
    <3>2. GoesOn(r, "commit", run[r].company, {}) \/ GoesOn(r, "opportunity", run[r].company, sig)
      BY <1>12, Zenon DEF FindSignal
    <3>3. OneOfEach({})
      BY Zenon DEF OneOfEach
    <3> HIDE DEF sig
    <3> QED BY <3>1, <3>2, <3>3, SMT
  <2>3. /\ \A row \in due : Place(row) = Reached(step)
        /\ Reached(step) \in Nat /\ 2 =< Reached(step) /\ (due # {} => 2 < Reached(step))
    BY <1>5, <2>2, SMT
  <2>4. Reached("signal") = 2 /\ 2 \in Nat /\ "signal" # "idle"
    BY <1>5
  <2>5. InOrder(run'[r])
    BY <2>1, <2>2, <2>3, <2>4, GoesOnInOrder, Zenon
  <2> QED BY <1>3, <1>4, <2>2, <2>5, Zenon
<1>13. ASSUME NEW r \in Runs, FindOpportunity(r) PROVE TablesInOrder'
  <2>1. At(r, "opportunity")
    BY <1>13 DEF FindOpportunity
  <2>2. PICK c, due : /\ GoesOn(r, "commit", c, due)
                      /\ \A row \in due : Place(row) = 4
                      /\ OneOfEach(due)
    <3> DEFINE d == run[r].document
               opp == IF d \in Actionable THEN {<<"opportunity", run[r].company, Title[d]>>} \ Visible(r)
                      ELSE {}
    <3>1. (\A row \in opp : Place(row) = 4) /\ OneOfEach(opp)
      BY <1>6, Zenon DEF OneOfEach
    <3>2. GoesOn(r, "commit", run[r].company, opp)
      BY <1>13, Zenon DEF FindOpportunity
    <3> HIDE DEF opp
    <3> QED BY <3>1, <3>2, Zenon
  <2>3. /\ Reached("opportunity") = 3 /\ Reached("commit") = 4 /\ 3 \in Nat /\ 4 \in Nat
        /\ 3 =< 4 /\ 3 < 4 /\ "opportunity" # "idle"
    BY <1>5, SMT
  <2>4. InOrder(run'[r])
    BY <2>1, <2>2, <2>3, GoesOnInOrder, Zenon
  <2> QED BY <1>3, <1>4, <2>2, <2>4, Zenon
<1>14. ASSUME NEW r \in Runs, Flush(r) PROVE TablesInOrder'
  <2> DEFINE new == [run[r] EXCEPT !.due = {}, !.wrote = run[r].wrote \cup run[r].due]
  <2>1. run[r] \in Transaction /\ r \in Running /\ run[r].due # {}
    BY <1>14 DEF Flush, IInv, TypeOK, Running
  <2>2. run' = [run EXCEPT ![r] = Between(run[r].todo)] \/ run' = [run EXCEPT ![r] = new]
    BY <1>14, Zenon DEF Flush
  <2>3. new.step = run[r].step /\ new.due = {} /\ new.wrote = run[r].wrote \cup run[r].due
    BY <2>1 DEF Transaction
  <2>4. InOrder(run[r]) /\ run[r].step \in Steps /\ run[r].step # "next"
    BY <2>1 DEF TablesInOrder, IInv, Sound, Transaction
  <2>5. Reached(run[r].step) \in 1..4
    BY <1>5, <2>4 DEF Steps
  <2>6. \A row \in run[r].wrote \cup run[r].due :
          Place(row) \in 1..4 /\ Place(row) =< Reached(run[r].step)
    BY <2>4, <2>5, SMT DEF InOrder
  <2> HIDE DEF new
  <2>7. InOrder(new)
    BY <2>3, <2>6, Zenon DEF InOrder, OneOfEach
  <2> QED BY <1>2, <2>2, <2>7, BetweenInOrder, Zenon
<1>15. ASSUME NEW r \in Runs, Commit(r) PROVE TablesInOrder'
  <2>1. ASSUME NEW q \in Runs, run'[q] # Idle PROVE InOrder(run'[q])
    <3>1. CASE q = r
      BY <1>15, <3>1, BetweenInOrder DEF Commit
    <3>2. CASE q # r
      <4>1. run'[q] = [run[q] EXCEPT !.raced = TRUE] \/ run'[q] = run[q]
        BY <1>15, <3>2, Zenon DEF Commit
      <4>2. run[q] \in Transaction /\ q \in Running
        <5>1. run[q] # Idle
          BY <1>15, <2>1, <3>2 DEF Commit, InTransaction, Running
        <5> QED BY <1>1, <5>1 DEF Running
      <4>3. /\ run'[q].due = run[q].due /\ run'[q].wrote = run[q].wrote
            /\ run'[q].step = run[q].step
        BY <4>1, <4>2 DEF Transaction
      <4> QED BY <4>2, <4>3, Zenon DEF TablesInOrder, InOrder
    <3> QED BY <3>1, <3>2
  <2> QED BY <2>1 DEF TablesInOrder, Running
<1>16. CASE UNCHANGED vars
  BY <1>16 DEF vars, TablesInOrder, Running
<1> QED BY <1>7, <1>8, <1>9, <1>10, <1>11, <1>12, <1>13, <1>14, <1>15, <1>16, Zenon
     DEF Next, Works

\* Overlapping runs never wait for each other's keys in a circle, however many they
\* are: a document fills the tables in the order source, company, signal, opportunity
\* (pipeline.py, process_document), so that the run that has come furthest can go on.
THEOREM NobodyWaitsInCircles == Spec => []WaitsNeverCircle
<1>1. Init => TablesInOrder
  BY DEF Init, TablesInOrder, Running
<1>2. IInv /\ TablesInOrder => WaitsNeverCircle
  <2> SUFFICES ASSUME IInv, TablesInOrder,
                      NEW waiting \in SUBSET {r \in Running : run[r].due # {}}, waiting # {}
               PROVE  \E r \in waiting : \A q \in waiting \ {r} :
                        Locks(run[q].wrote) \cap Locks(run[r].due) = {}
    BY DEF WaitsNeverCircle
  <2>1. \A r \in waiting : /\ run[r] \in Transaction /\ InOrder(run[r])
                           /\ run[r].due # {} /\ Reached(run[r].step) \in 1..4
    <3> SUFFICES ASSUME NEW r \in waiting
                 PROVE  /\ run[r] \in Transaction /\ InOrder(run[r])
                        /\ run[r].due # {} /\ Reached(run[r].step) \in 1..4
      OBVIOUS
    <3>1. run[r] \in Transaction /\ r \in Running /\ run[r].due # {}
      BY DEF IInv, TypeOK, Running
    <3>2. run[r].step \in Steps /\ run[r].step # "next"
      BY <3>1 DEF IInv, Sound, Transaction
    <3>3. Reached(run[r].step) \in 1..4
      BY <3>2 DEF Steps, Reached
    <3> QED BY <3>1, <3>3 DEF TablesInOrder
  <2>2. ASSUME NEW r \in waiting, NEW q \in waiting, q # r,
               Locks(run[q].wrote) \cap Locks(run[r].due) # {}
        PROVE  Reached(run[r].step) < Reached(run[q].step)
    <3>1. PICK k : k \in Locks(run[q].wrote) /\ k \in Locks(run[r].due)
      BY <2>2
    <3>2. run[q].wrote \subseteq Row /\ run[r].due \subseteq Row
      BY <2>1 DEF Transaction
    <3>3. PICK mine \in run[r].due : Place(mine) = PlaceOf(k)
      BY <3>1, <3>2, LockOfTable
    <3>4. PICK held \in run[q].wrote : Place(held) = PlaceOf(k)
      BY <3>1, <3>2, LockOfTable
    <3> QED BY <2>1, <3>3, <3>4 DEF InOrder
  <2>3. \E r \in waiting : \A q \in waiting : Reached(run[q].step) =< Reached(run[r].step)
    <3> DEFINE far(n) == \E r \in waiting : Reached(run[r].step) = n
    <3>1. far(1) \/ far(2) \/ far(3) \/ far(4)
      BY <2>1, SMT
    <3>2. CASE far(4)
      BY <2>1, <3>2, SMT
    <3>3. CASE far(3) /\ ~far(4)
      BY <2>1, <3>3, SMT
    <3>4. CASE far(2) /\ ~far(3) /\ ~far(4)
      BY <2>1, <3>4, SMT
    <3>5. CASE far(1) /\ ~far(2) /\ ~far(3) /\ ~far(4)
      BY <2>1, <3>5, SMT
    <3> QED BY <3>1, <3>2, <3>3, <3>4, <3>5
  <2>4. PICK r \in waiting : \A q \in waiting : Reached(run[q].step) =< Reached(run[r].step)
    BY <2>3
  <2>5. ASSUME NEW q \in waiting \ {r} PROVE Locks(run[q].wrote) \cap Locks(run[r].due) = {}
    <3>1. ~(Reached(run[r].step) < Reached(run[q].step))
      BY <2>1, <2>4, SMT
    <3> QED BY <2>2, <3>1
  <2> QED BY <2>5
<1> QED BY <1>1, <1>2, OrderKept, Invariance, PTL DEF Spec

-----------------------------------------------------------------------------
(***************************************************************************)
(* Once each.  Waiting for the keys of others, and failing on those that   *)
(* are committed, keep the committed rows apart.                           *)
(***************************************************************************)
\* Two rows may both be committed: they share no key, and a company has one domain.
Apart(x, y) ==
  /\ KeysOf(x) \cap KeysOf(y) = {}
  /\ x[1] = "domain" /\ y[1] = "domain" => x[2] # y[2]

\* A document is recorded once, under one address and one text, a company exists once
\* and has one domain that no other has, and of a story there is one signal and of that
\* one opportunity, whichever runs brought it.
OnceEach == \A x, y \in db : x # y => Apart(x, y)

\* A domain that the rows have another value for.
Replaced(y, rows) == y[1] = "domain" /\ \E x \in rows : x[1] = "domain" /\ x[2] = y[2]

\* So are the rows that a run has written, among each other and from the committed ones.
WroteApart ==
  \A r \in Running :
    /\ \A x, y \in run[r].wrote : x # y => Apart(x, y)
    /\ \A x \in run[r].wrote, y \in db : Replaced(y, run[r].wrote) \/ Apart(x, y)

\* The table of a key.
TableOf(k) ==
  IF k[1] \in {"url", "text"} THEN "source" ELSE IF k[1] = "name" THEN "company" ELSE k[1]

\* Keys of different tables differ.
LEMMA KeysOfTables ==
  ASSUME NEW x \in Row, NEW y \in Row, x[1] # y[1]
  PROVE  Apart(x, y)
<1>1. ASSUME NEW row \in Row, NEW k \in KeysOf(row) PROVE TableOf(k) = row[1]
  <2>1. CASE \E d \in Documents :
               row = <<"source", d>> /\ KeysOf(row) = {<<"url", Url[d]>>, <<"text", Text[d]>>}
    BY <1>1, <2>1 DEF TableOf
  <2>2. CASE \E c \in Companies : row = <<"company", c>> /\ KeysOf(row) = {<<"name", c>>}
    BY <1>1, <2>2 DEF TableOf
  <2>3. CASE \E c \in Companies, m \in Domains :
               row = <<"domain", c, m>> /\ KeysOf(row) = {<<"domain", m>>}
    BY <1>1, <2>3 DEF TableOf
  <2>4. CASE \E c \in Companies, t \in Titles, d \in Documents :
               row = <<"signal", c, t, d>> /\ KeysOf(row) = {<<"signal", c, t>>}
    BY <1>1, <2>4 DEF TableOf
  <2>5. CASE \E c \in Companies, t \in Titles :
               row = <<"opportunity", c, t>> /\ KeysOf(row) = {<<"opportunity", c, t>>}
    BY <1>1, <2>5 DEF TableOf
  <2> QED BY <2>1, <2>2, <2>3, <2>4, <2>5, RowKinds
<1>2. KeysOf(x) \cap KeysOf(y) = {}
  BY <1>1
<1> QED BY <1>2, Zenon DEF Apart

\* Rows that lock nothing in common are apart.
LEMMA LockedApart ==
  ASSUME NEW A, NEW B, Locks(A) \cap Locks(B) = {}, NEW x \in A, NEW y \in B
  PROVE  Apart(x, y)
<1>1. KeysOf(x) \subseteq Locks(A) /\ KeysOf(y) \subseteq Locks(B)
  BY DEF Locks, Keys
<1>2. x[1] = "domain" => <<"name", x[2]>> \in Locks(A)
  BY DEF Locks
<1>3. y[1] = "domain" => <<"name", y[2]>> \in Locks(B)
  BY DEF Locks
<1> QED BY <1>1, <1>2, <1>3, Zenon DEF Apart

\* Being apart is mutual.
LEMMA ApartBoth == \A x, y : Apart(x, y) => Apart(y, x)
  BY DEF Apart

\* A flush adds rows that are apart from all there are.
LEMMA FlushApart ==
  ASSUME IInv, TablesInOrder, WroteApart, NEW r \in Runs, Flush(r), ~Conflict(r)
  PROVE  LET wrote == run[r].wrote \cup run[r].due
         IN  /\ \A x, y \in wrote : x # y => Apart(x, y)
             /\ \A x \in wrote, y \in db : Replaced(y, wrote) \/ Apart(x, y)
<1> DEFINE wrote == run[r].wrote \cup run[r].due
<1>1. r \in Running /\ run[r] \in Transaction /\ run[r].due # {} /\ db \subseteq Row
  BY DEF Flush, IInv, TypeOK, Running
<1>2. run[r].wrote \subseteq Row /\ run[r].due \subseteq Row /\ InOrder(run[r])
  BY <1>1 DEF Transaction, TablesInOrder
<1>3. ASSUME NEW x \in run[r].wrote, NEW y \in run[r].due PROVE Apart(x, y)
  <2>1. Place(x) < Place(y) /\ Place(x) \in 1..4
    BY <1>1, <1>2 DEF InOrder
  <2>2. Place(x) # Place(y)
    <3> HIDE DEF Place
    <3> QED BY <1>2, <2>1, SMT
  <2>3. x[1] # y[1]
    BY <2>2, Zenon DEF Place
  <2> QED BY <1>2, <2>3, KeysOfTables
<1>4. ASSUME NEW x \in run[r].due, NEW y \in run[r].due, x # y PROVE Apart(x, y)
  <2>1. x[1] # y[1]
    BY <1>2, <1>4, Zenon DEF InOrder, OneOfEach
  <2> QED BY <1>2, <2>1, KeysOfTables
<1>5. ASSUME NEW x \in run[r].due, NEW y \in db PROVE Replaced(y, wrote) \/ Apart(x, y)
  <2>1. CASE y \in run[r].due /\ y[1] = "domain"
    BY <2>1, Zenon DEF Replaced
  <2>2. CASE ~(y \in run[r].due /\ y[1] = "domain")
    <3>1. y \in db \ {row \in run[r].due : row[1] = "domain"}
      BY <2>2
    <3>2. KeysOf(x) \subseteq Keys(run[r].due)
      BY DEF Keys
    <3>3. KeysOf(y) \subseteq Keys(db \ {row \in run[r].due : row[1] = "domain"})
      BY <3>1 DEF Keys
    <3>4. KeysOf(x) \cap KeysOf(y) = {}
      BY <3>2, <3>3, Zenon DEF Conflict
    <3> QED BY <3>4, Zenon DEF Apart, Replaced
  <2> QED BY <2>1, <2>2
<1>6. ASSUME NEW x \in run[r].wrote, NEW y \in db PROVE Replaced(y, wrote) \/ Apart(x, y)
  <2>1. Replaced(y, run[r].wrote) \/ Apart(x, y)
    BY <1>1, Zenon DEF WroteApart
  <2>2. Replaced(y, run[r].wrote) => Replaced(y, wrote)
    BY Zenon DEF Replaced
  <2> QED BY <2>1, <2>2
<1>7. \A x, y \in run[r].wrote : x # y => Apart(x, y)
  BY <1>1 DEF WroteApart
<1> QED BY <1>3, <1>4, <1>5, <1>6, <1>7, ApartBoth, Zenon

\* A commit takes the domains it replaces out, and no other row.
LEMMA CommitReplaces ==
  ASSUME IInv, NEW r \in Runs, Commit(r)
  PROVE  /\ r \in Running
         /\ \A y \in db' : y \in run[r].wrote \/ (y \in db /\ ~Replaced(y, run[r].wrote))
<1>1. r \in Running /\ run[r] \in Transaction
  BY DEF Commit, At, IInv, TypeOK, Running, Idle
<1>2. ASSUME NEW y \in db, Replaced(y, run[r].wrote)
      PROVE  <<"name", y[2]>> \in Locks({x \in run[r].wrote : x[1] = "domain"})
  <2>1. PICK x \in run[r].wrote : x[1] = "domain" /\ x[2] = y[2]
    BY <1>2 DEF Replaced
  <2> QED BY <2>1 DEF Locks
<1>3. \A y \in db : Replaced(y, run[r].wrote) => y[1] = "domain"
  BY DEF Replaced
<1>4. db' = (db \ {row \in db : row[1] = "domain" /\ <<"name", row[2]>> \in Locks(
                    {x \in run[r].wrote : x[1] = "domain"})}) \cup run[r].wrote
  BY Zenon DEF Commit
<1> QED BY <1>1, <1>2, <1>3, <1>4, Zenon

\* Every step keeps the rows apart.
LEMMA ApartKept ==
  ASSUME IInv, IInv', TablesInOrder, OnceEach, WroteApart, [Next]_vars
  PROVE  OnceEach' /\ WroteApart'
<1>1. run \in [Runs -> {Idle} \cup Transaction]
  BY DEF IInv, TypeOK
<1>2. ASSUME NEW r \in Runs, db' = db, NEW new, run' = [run EXCEPT ![r] = new],
             \/ new = Idle
             \/ new.wrote = {}
             \/ run[r] # Idle /\ new.wrote = run[r].wrote
             \/ /\ \A x, y \in new.wrote : x # y => Apart(x, y)
                /\ \A x \in new.wrote, y \in db : Replaced(y, new.wrote) \/ Apart(x, y)
      PROVE  OnceEach' /\ WroteApart'
  <2>1. run'[r] = new /\ \A q \in Runs \ {r} : run'[q] = run[q]
    BY <1>1, <1>2
  <2>2. ASSUME NEW q \in Running'
        PROVE  /\ \A x, y \in run'[q].wrote : x # y => Apart(x, y)
               /\ \A x \in run'[q].wrote, y \in db : Replaced(y, run'[q].wrote) \/ Apart(x, y)
    <3>1. CASE q # r
      <4>1. q \in Running /\ run'[q] = run[q]
        BY <2>1, <2>2, <3>1 DEF Running
      <4> QED BY <4>1, Zenon DEF WroteApart
    <3>2. CASE q = r /\ run[r] # Idle /\ new.wrote = run[r].wrote
      <4>1. r \in Running /\ run'[q].wrote = run[r].wrote
        BY <2>1, <3>2 DEF Running
      <4> QED BY <4>1, Zenon DEF WroteApart
    <3>3. CASE q = r /\ ~(run[r] # Idle /\ new.wrote = run[r].wrote)
      <4>1. new # Idle /\ run'[q] = new
        BY <2>1, <2>2, <3>3 DEF Running
      <4> QED BY <1>2, <3>3, <4>1, Zenon
    <3> QED BY <3>1, <3>2, <3>3
  <2> QED BY <1>2, <2>2, Zenon DEF OnceEach, WroteApart
<1>3. ASSUME NEW r \in Runs, NEW step, NEW company, NEW due, run[r] # Idle, db' = db,
             GoesOn(r, step, company, due)
      PROVE  OnceEach' /\ WroteApart'
  <2> DEFINE new == [run[r] EXCEPT !.step = step, !.company = company, !.due = due]
  <2>1. run[r] \in Transaction
    BY <1>1, <1>3
  <2>2. run' = [run EXCEPT ![r] = new]
    BY <1>1, <1>3, Zenon DEF GoesOn
  <2>3. new.wrote = run[r].wrote
    BY <2>1 DEF Transaction
  <2> HIDE DEF new
  <2> QED BY <1>2, <1>3, <2>2, <2>3, Zenon
<1>4. \A todo : Between(todo).wrote = {}
  BY DEF Between
<1>5. ASSUME NEW r \in Runs, Start(r, Sources[r]) \/ Finish(r) \/ Abort(r) \/ Crash(r)
      PROVE  OnceEach' /\ WroteApart'
  <2>1. /\ db' = db
        /\ run' = [run EXCEPT ![r] = Idle] \/ \E todo : run' = [run EXCEPT ![r] = Between(todo)]
    BY <1>5, Zenon DEF Start, Finish, Abort, Crash
  <2> QED BY <1>2, <1>4, <2>1, Zenon
<1>6. ASSUME NEW r \in Runs, NEW d \in Documents, Take(r, d) PROVE OnceEach' /\ WroteApart'
  <2> DEFINE rest == Between(run[r].todo \ {d})
             opened == [rest EXCEPT !.step = "extract", !.document = d, !.due = {<<"source", d>>}]
  <2>1. db' = db /\ (run' = [run EXCEPT ![r] = rest] \/ run' = [run EXCEPT ![r] = opened])
    BY <1>6, Zenon DEF Take
  <2>2. opened.wrote = {} /\ rest.wrote = {}
    BY DEF Between
  <2> HIDE DEF opened, rest
  <2> QED BY <1>2, <2>1, <2>2, Zenon
<1>7. ASSUME NEW r \in Runs, Extract(r) \/ Resolve(r) \/ FindSignal(r) \/ FindOpportunity(r)
      PROVE  OnceEach' /\ WroteApart'
  <2>1. db' = db /\ \E step, company, due : GoesOn(r, step, company, due)
    BY <1>7, Zenon DEF Extract, Resolve, FindSignal, FindOpportunity
  <2>2. run[r] # Idle
    BY <1>7 DEF Extract, Resolve, FindSignal, FindOpportunity, At, Idle
  <2> QED BY <1>3, <2>1, <2>2, Zenon
<1>8. ASSUME NEW r \in Runs, ExtractionFails(r) PROVE OnceEach' /\ WroteApart'
  <2> DEFINE new == [run[r] EXCEPT !.step = "commit", !.untrusted = TRUE]
  <2>1. run[r] \in Transaction /\ run[r] # Idle /\ db' = db
    BY <1>8 DEF ExtractionFails, At, IInv, TypeOK, Idle
  <2>2. run' = [run EXCEPT ![r] = new]
    BY <1>1, <1>8, Zenon DEF ExtractionFails
  <2>3. new.wrote = run[r].wrote
    BY <2>1 DEF Transaction
  <2> HIDE DEF new
  <2> QED BY <1>2, <2>1, <2>2, <2>3, Zenon
<1>9. ASSUME NEW r \in Runs, Flush(r) PROVE OnceEach' /\ WroteApart'
  <2> DEFINE wrote == run[r].wrote \cup run[r].due
             new == [run[r] EXCEPT !.due = {}, !.wrote = wrote]
  <2>1. run[r] \in Transaction /\ db' = db
    BY <1>9 DEF Flush, IInv, TypeOK, Running
  <2>2. CASE Conflict(r)
    <3>1. run' = [run EXCEPT ![r] = Between(run[r].todo)]
      BY <1>9, <2>2, Zenon DEF Flush
    <3> QED BY <1>2, <1>4, <2>1, <3>1, Zenon
  <2>3. CASE ~Conflict(r)
    <3>1. run' = [run EXCEPT ![r] = new]
      BY <1>9, <2>3, Zenon DEF Flush
    <3>2. new.wrote = wrote
      BY <2>1 DEF Transaction
    <3>3. /\ \A x, y \in wrote : x # y => Apart(x, y)
          /\ \A x \in wrote, y \in db : Replaced(y, wrote) \/ Apart(x, y)
      BY <1>9, <2>3, FlushApart, Zenon
    <3> HIDE DEF new, wrote
    <3> QED BY <1>2, <2>1, <3>1, <3>2, <3>3, Zenon
  <2> QED BY <2>2, <2>3
<1>10. ASSUME NEW r \in Runs, Commit(r) PROVE OnceEach' /\ WroteApart'
  <2>1. /\ r \in Running
        /\ \A y \in db' : y \in run[r].wrote \/ (y \in db /\ ~Replaced(y, run[r].wrote))
    BY <1>10, CommitReplaces
  <2>2. /\ \A x, y \in run[r].wrote : x # y => Apart(x, y)
        /\ \A x \in run[r].wrote, y \in db : Replaced(y, run[r].wrote) \/ Apart(x, y)
    BY <2>1 DEF WroteApart
  <2>3. OnceEach'
    <3> SUFFICES ASSUME NEW x \in db', NEW y \in db', x # y PROVE Apart(x, y)
      BY Zenon DEF OnceEach
    <3>1. CASE x \in run[r].wrote /\ y \in run[r].wrote
      BY <2>2, <3>1
    <3>2. CASE x \in run[r].wrote /\ y \in db /\ ~Replaced(y, run[r].wrote)
      BY <2>2, <3>2
    <3>3. CASE y \in run[r].wrote /\ x \in db /\ ~Replaced(x, run[r].wrote)
      BY <2>2, <3>3, ApartBoth
    <3>4. CASE x \in db /\ y \in db
      BY <3>4, Zenon DEF OnceEach
    <3> QED BY <2>1, <3>1, <3>2, <3>3, <3>4
  <2>4. ASSUME NEW q \in Running'
        PROVE  /\ \A x, y \in run'[q].wrote : x # y => Apart(x, y)
               /\ \A x \in run'[q].wrote, y \in db' : Replaced(y, run'[q].wrote) \/ Apart(x, y)
    <3>1. q \in Runs /\ run'[q] # Idle
      BY <2>4 DEF Running
    <3>2. CASE q = r
      <4>1. run'[q].wrote = {}
        BY <1>4, <1>10, <3>1, <3>2 DEF Commit
      <4> QED BY <4>1
    <3>3. CASE q # r
      <4>1. run'[q] = [run[q] EXCEPT !.raced = TRUE] \/ run'[q] = run[q]
        BY <1>10, <3>1, <3>3, Zenon DEF Commit
      <4>2. run[q] # Idle
        BY <1>10, <3>1, <3>3 DEF Commit, InTransaction, Running
      <4>3. run[q] \in Transaction /\ q \in Running
        BY <1>1, <3>1, <4>2 DEF Running
      <4>4. run'[q].wrote = run[q].wrote
        BY <4>1, <4>3 DEF Transaction
      <4>5. Locks(run[q].wrote) \cap Locks(run[r].wrote) = {}
        BY <2>1, <3>3, <4>3 DEF IInv, Exclusive
      <4>6. \A x \in run[q].wrote, y \in run[r].wrote : Apart(x, y)
        BY <4>5, LockedApart
      <4>7. /\ \A x, y \in run[q].wrote : x # y => Apart(x, y)
            /\ \A x \in run[q].wrote, y \in db : Replaced(y, run[q].wrote) \/ Apart(x, y)
        BY <4>3 DEF WroteApart
      <4> QED BY <2>1, <4>4, <4>6, <4>7, Zenon
    <3> QED BY <3>2, <3>3
  <2> QED BY <2>3, <2>4, Zenon DEF WroteApart
<1>11. CASE UNCHANGED vars
  BY <1>11 DEF vars, OnceEach, WroteApart, Running
<1> QED BY <1>5, <1>6, <1>7, <1>8, <1>9, <1>10, <1>11, Zenon DEF Next, Works

\* However many runs bring the same document, company or story, and however their
\* transactions overlap, the tables hold it once (the unique constraints of
\* models/source.py, company.py, signal.py and opportunity.py).
THEOREM EverythingOnce == Spec => []OnceEach
<1>1. Init => TablesInOrder /\ OnceEach /\ WroteApart
  BY DEF Init, TablesInOrder, OnceEach, WroteApart, Running
<1>2. IInv /\ IInv' /\ TablesInOrder /\ OnceEach /\ WroteApart /\ [Next]_vars =>
        TablesInOrder' /\ OnceEach' /\ WroteApart'
  BY OrderKept, ApartKept
<1> QED BY <1>1, <1>2, Invariance, PTL DEF Spec
=============================================================================
