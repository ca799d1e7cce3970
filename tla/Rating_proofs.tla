----------------------------- MODULE Rating_proofs -----------------------------
(***************************************************************************)
(* Theorems of the two modules that rest on the scales of Rating.          *)
(*                                                                         *)
(* Directory, for any payloads and any number of overlapping submissions:  *)
(* what is known of a contact stays known, the status beside an address    *)
(* was stated of it, and a score is that of the whole contact.             *)
(*                                                                         *)
(* Assessment, for any texts, leads and figures: no score falls by what    *)
(* comes to be known, and with the settings of config.py a thin lead never *)
(* qualifies and a clean announcement is never dropped.                    *)
(***************************************************************************)
EXTENDS Directory, Assessment, FiniteSetTheorems, TLAPS

\* What a source says has the types of the columns it fills.
LEMMA PayloadType ==
  ASSUME NEW p \in Payloads
  PROVE  /\ p.job_title \in Title \cup {None} /\ p.department \in Department
         /\ p.email_status \in EmailStatus /\ p.contact_kind \in Kind /\ p.confidence \in 0..100
BY DirectoryAssumption, Zenon

\* A safe status is one of the statuses, never verified, and that of no address is
\* unknown.
LEMMA SafeStatus ==
  ASSUME NEW requested \in EmailStatus, NEW email
  PROVE  /\ SafeEmailStatus(requested, email) \in EmailStatus
         /\ SafeEmailStatus(requested, email) # "VERIFIED"
         /\ email = None => SafeEmailStatus(requested, email) = "UNKNOWN"
BY Zenon DEF SafeEmailStatus, EmailStatus

\* A contact's score is a whole number.
LEMMA ContactScoreType ==
  ASSUME NEW job_title \in Title \cup {None}, NEW department \in Department,
         NEW email_status \in EmailStatus, NEW has_linkedin \in BOOLEAN,
         NEW confidence \in 0..100
  PROVE  ContactScore(job_title, department, email_status, has_linkedin, confidence) \in Int
<1> DEFINE title == IF job_title = None THEN Untitled ELSE job_title
           relevance == DepartmentRelevance(department)
           evidence == EvidenceOfContact(email_status, has_linkedin)
           trust == 6000 + 40 * Clamp(0, 100, confidence)
<1>1. title.seniority \in Int /\ title.ownership \in Int
  BY SMT DEF Title, Untitled
<1>2. relevance \in Int
  BY SMT DEF DepartmentRelevance, Department
<1>3. evidence \in Int
  BY SMT DEF EvidenceOfContact, EmailStatusScores, EmailStatus, Clamp
<1>4. trust \in Int
  BY SMT DEF Clamp
<1> HIDE DEF title, relevance, evidence, trust
<1>5. evidence * trust \in Int
  BY <1>3, <1>4, SMT
<1> DEFINE product == evidence * trust
           total == 10000 * (35 * title.seniority + 30 * relevance + 15 * title.ownership)
                      + 20 * evidence * trust
<1>6. total \in Int
  BY <1>1, <1>2, <1>3, <1>4, SMT
<1> HIDE DEF total
<1>7. Round(total, 1000000) \in Int
  BY <1>6, SMT DEF Round
<1> QED BY <1>7, SMT DEF ContactScore, total, title, relevance, evidence, trust

\* Scoring a row changes its score and nothing else, and depends on nothing it changes.
LEMMA ScoredColumns ==
  ASSUME NEW row \in ContactRow, NEW p \in Payloads
  PROVE  LET new == Scored(row, p.confidence)
         IN  /\ new \in ContactRow
             /\ \A f \in DOMAIN row \ {"contact_score"} : new[f] = row[f]
             /\ DOMAIN new = DOMAIN row
             /\ Scored(new, p.confidence) = new
<1> DEFINE score == ContactScore(row.job_title, row.department, row.email_status,
                                 row.linkedin # None, p.confidence)
           new == [row EXCEPT !.contact_score = score]
<1>1. /\ row.job_title \in Title \cup {None} /\ row.department \in Department
      /\ row.email_status \in EmailStatus
  BY PayloadType, Zenon DEF ContactRow
<1>2. score \in Int
  BY <1>1, PayloadType, ContactScoreType, Zenon
<1>3. new \in ContactRow
  <2> HIDE DEF score
  <2> QED BY <1>2, Zenon DEF ContactRow
<1>4. /\ \A f \in DOMAIN row \ {"contact_score"} : new[f] = row[f]
      /\ DOMAIN new = DOMAIN row
      /\ [new EXCEPT !.contact_score = score] = new
  <2> HIDE DEF score
  <2>1. DOMAIN new = DOMAIN row
    BY SMT DEF ContactRow
  <2>2. \A f \in DOMAIN row \ {"contact_score"} : new[f] = row[f]
    BY SMT DEF ContactRow
  <2>3. [new EXCEPT !.contact_score = score] = new
    <3>1. new.contact_score = score
      BY SMT DEF ContactRow
    <3> HIDE DEF new
    <3> QED BY <1>3, <3>1, SMT DEF ContactRow
  <2> QED BY <2>1, <2>2, <2>3
<1>5. /\ new.job_title = row.job_title /\ new.department = row.department
      /\ new.email_status = row.email_status /\ new.linkedin = row.linkedin
  <2> HIDE DEF score
  <2> QED BY SMT DEF ContactRow
<1> HIDE DEF new
<1>6. Scored(new, p.confidence) = [new EXCEPT !.contact_score = score]
  BY <1>5, Zenon DEF Scored
<1>7. Scored(row, p.confidence) = new
  BY Zenon DEF Scored, new
<1> QED BY <1>3, <1>4, <1>6, <1>7, Zenon

-----------------------------------------------------------------------------
\* The status of a row is short of verified, and that of no address is unknown.
Honest(row) ==
  row.email_status # "VERIFIED" /\ (row.email = None => row.email_status = "UNKNOWN")

\* One of these payloads stated the row's address with its status, and one of them
\* gave the confidence in its score.
Vouched(row, said) ==
  /\ row.email # None =>
       \E p \in said : /\ p.email = row.email
                       /\ row.email_status = SafeEmailStatus(p.email_status, p.email)
  /\ \E p \in said : row = Scored(row, p.confidence)

\* A new contact is a row of the table, its payload vouches for it.
LEMMA NewRowFacts ==
  ASSUME NEW p \in Payloads
  PROVE  NewRow(p) \in ContactRow /\ Honest(NewRow(p)) /\ Vouched(NewRow(p), {p})
<1> DEFINE blank == [company |-> p.company, name |-> p.name, job_title |-> p.job_title,
          department |-> p.department, email |-> p.email,
          email_status |-> SafeEmailStatus(p.email_status, p.email), linkedin |-> p.linkedin,
          contact_kind |-> p.contact_kind, contact_score |-> 0]
           new == Scored(blank, p.confidence)
<1>1. /\ SafeEmailStatus(p.email_status, p.email) \in EmailStatus
      /\ SafeEmailStatus(p.email_status, p.email) # "VERIFIED"
      /\ p.email = None => SafeEmailStatus(p.email_status, p.email) = "UNKNOWN"
  BY PayloadType, SafeStatus, Zenon
<1>2. /\ blank \in ContactRow
      /\ blank.email = p.email
      /\ blank.email_status = SafeEmailStatus(p.email_status, p.email)
      /\ {"email", "email_status"} \subseteq DOMAIN blank \ {"contact_score"}
  BY <1>1, SMT DEF ContactRow
<1>3. NewRow(p) = new
  BY Zenon DEF NewRow
<1> HIDE DEF blank
<1>4. /\ new \in ContactRow /\ Scored(new, p.confidence) = new
      /\ new.email = p.email /\ new.email_status = SafeEmailStatus(p.email_status, p.email)
  BY <1>2, ScoredColumns, SMT
<1> HIDE DEF new
<1> QED BY <1>1, <1>3, <1>4, Zenon DEF Honest, Vouched

\* Filling the gaps of a row, column by column.
LEMMA FilledColumns ==
  ASSUME NEW row \in ContactRow, NEW p \in Payloads
  PROVE  LET new == Filled(row, p)
         IN  /\ new \in ContactRow
             /\ \A f \in DOMAIN Gap : new[f] = IF row[f] = Gap[f] THEN p[f] ELSE row[f]
             /\ new.email_status = IF row.email = None THEN SafeEmailStatus(p.email_status, p.email)
                                   ELSE row.email_status
             /\ new.company = row.company /\ new.name = row.name
<1> DEFINE new == Filled(row, p)
<1>1. /\ DOMAIN row = {"company", "name", "job_title", "department", "email", "email_status",
                       "linkedin", "contact_kind", "contact_score"}
      /\ DOMAIN Gap = {"job_title", "department", "email", "linkedin", "contact_kind"}
  BY SMT DEF ContactRow, Gap
<1>2. new = [f \in DOMAIN row |->
     IF f \in DOMAIN Gap /\ row[f] = Gap[f] THEN p[f]
     ELSE IF f = "email_status" /\ row.email = None THEN SafeEmailStatus(p.email_status, p.email)
     ELSE row[f]]
  BY Zenon DEF Filled
<1> HIDE DEF new
<1>3. \A f \in DOMAIN Gap : new[f] = IF row[f] = Gap[f] THEN p[f] ELSE row[f]
  BY <1>1, <1>2, SMT
<1>4. new.email_status = IF row.email = None THEN SafeEmailStatus(p.email_status, p.email)
                         ELSE row.email_status
  BY <1>1, <1>2, SMT
<1>5. /\ new.company = row.company /\ new.name = row.name
      /\ new.contact_score = row.contact_score
  BY <1>1, <1>2, SMT
<1>6. SafeEmailStatus(p.email_status, p.email) \in EmailStatus
  BY PayloadType, SafeStatus, Zenon
<1>7. new \in ContactRow
  <2>1. /\ new.job_title \in {q.job_title : q \in Payloads}
        /\ new.department \in {q.department : q \in Payloads}
        /\ new.email \in {q.email : q \in Payloads} \cup {None}
        /\ new.linkedin \in {q.linkedin : q \in Payloads} \cup {None}
        /\ new.contact_kind \in {q.contact_kind : q \in Payloads}
    BY <1>1, <1>3, SMT DEF ContactRow
  <2>2. new.email_status \in EmailStatus
    BY <1>4, <1>6, SMT DEF ContactRow
  <2>3. /\ new.company \in {q.company : q \in Payloads} /\ new.name \in {q.name : q \in Payloads}
        /\ new.contact_score \in Int
    BY <1>5, SMT DEF ContactRow
  <2>4. new = [company |-> new.company, name |-> new.name, job_title |-> new.job_title,
               department |-> new.department, email |-> new.email,
               email_status |-> new.email_status, linkedin |-> new.linkedin,
               contact_kind |-> new.contact_kind, contact_score |-> new.contact_score]
    BY <1>1, <1>2, SMT
  <2> QED BY <2>1, <2>2, <2>3, <2>4, SMT DEF ContactRow
<1> QED BY <1>3, <1>4, <1>5, <1>7 DEF new

\* A known contact updated from a payload changes in its gaps, and stays honest and
\* vouched for.
LEMMA UpdatedFacts ==
  ASSUME NEW row \in ContactRow, NEW p \in Payloads
  PROVE  LET new == Updated(row, p)
         IN  /\ new \in ContactRow
             /\ \A f \in DOMAIN Gap : new[f] # row[f] => row[f] = Gap[f]
             /\ new.email = IF row.email = None THEN p.email ELSE row.email
             /\ new.email_status = IF row.email = None THEN SafeEmailStatus(p.email_status, p.email)
                                   ELSE row.email_status
             /\ Honest(row) => Honest(new)
             /\ \A said : Vouched(row, said) => Vouched(new, said \cup {p})
<1> DEFINE filled == Filled(row, p)
           new == Scored(filled, p.confidence)
<1>1. /\ filled \in ContactRow
      /\ \A f \in DOMAIN Gap : filled[f] = IF row[f] = Gap[f] THEN p[f] ELSE row[f]
      /\ filled.email_status = IF row.email = None THEN SafeEmailStatus(p.email_status, p.email)
                               ELSE row.email_status
  BY FilledColumns, Zenon
<1>2. Updated(row, p) = new
  BY Zenon DEF Updated
<1> HIDE DEF filled
<1>3. /\ new \in ContactRow /\ Scored(new, p.confidence) = new
      /\ \A f \in DOMAIN filled \ {"contact_score"} : new[f] = filled[f]
  BY <1>1, ScoredColumns, Zenon
<1>4. /\ DOMAIN Gap \subseteq DOMAIN filled \ {"contact_score"}
      /\ "email_status" \in DOMAIN filled \ {"contact_score"}
      /\ "email" \in DOMAIN Gap /\ Gap["email"] = None
  BY <1>1, SMT DEF ContactRow, Gap
<1> HIDE DEF new
<1>5. \A f \in DOMAIN Gap : new[f] = IF row[f] = Gap[f] THEN p[f] ELSE row[f]
  BY <1>1, <1>3, <1>4, Zenon
<1>6. \A f \in DOMAIN Gap : new[f] # row[f] => row[f] = Gap[f]
  BY <1>5, Zenon
<1>7. new.email = IF row.email = None THEN p.email ELSE row.email
  BY <1>4, <1>5, SMT
<1>8. new.email_status = IF row.email = None THEN SafeEmailStatus(p.email_status, p.email)
                         ELSE row.email_status
  BY <1>1, <1>3, <1>4, SMT
<1>9. /\ SafeEmailStatus(p.email_status, p.email) # "VERIFIED"
      /\ p.email = None => SafeEmailStatus(p.email_status, p.email) = "UNKNOWN"
  BY PayloadType, SafeStatus, Zenon
<1>10. Honest(row) => Honest(new)
  BY <1>7, <1>8, <1>9, Zenon DEF Honest
<1>11. ASSUME NEW said, Vouched(row, said) PROVE Vouched(new, said \cup {p})
  BY <1>3, <1>7, <1>8, <1>11, Zenon DEF Vouched
<1> QED BY <1>2, <1>3, <1>6, <1>7, <1>8, <1>10, <1>11, Zenon

\* What a submission changes of a contact is merged into the contact as it now is:
\* no known value is lost to a gap, and none it knew is replaced.
LEMMA MergedFacts ==
  ASSUME NEW current \in ContactRow, NEW read \in ContactRow, NEW p \in Payloads,
         Honest(current), Honest(read)
  PROVE  LET m == Merged(current, read, Updated(read, p))
         IN  /\ m \in ContactRow
             /\ Honest(m)
             /\ current = read => m = Updated(read, p)
             /\ \A f \in DOMAIN Gap : m[f] # current[f] => m[f] # Gap[f] /\ read[f] = Gap[f]
<1> DEFINE new == Updated(read, p)
           m == Merged(current, read, new)
<1>1. /\ new \in ContactRow /\ Honest(new)
      /\ \A f \in DOMAIN Gap : new[f] # read[f] => read[f] = Gap[f]
      /\ new.email = IF read.email = None THEN p.email ELSE read.email
      /\ new.email_status = IF read.email = None THEN SafeEmailStatus(p.email_status, p.email)
                            ELSE read.email_status
  BY UpdatedFacts, Zenon
<1> HIDE DEF new
<1>2. m = [f \in DOMAIN current |-> IF new[f] # read[f] THEN new[f] ELSE current[f]]
  BY Zenon DEF Merged
<1>3. m \in ContactRow
  <2>1. \A f \in DOMAIN current : m[f] = new[f] \/ m[f] = current[f]
    BY <1>2, SMT
  <2>2. m = [company |-> m.company, name |-> m.name, job_title |-> m.job_title,
             department |-> m.department, email |-> m.email, email_status |-> m.email_status,
             linkedin |-> m.linkedin, contact_kind |-> m.contact_kind,
             contact_score |-> m.contact_score]
    BY <1>2, SMT DEF ContactRow
  <2> HIDE DEF m
  <2>3. /\ m.company \in {q.company : q \in Payloads} /\ m.name \in {q.name : q \in Payloads}
        /\ m.job_title \in {q.job_title : q \in Payloads}
        /\ m.department \in {q.department : q \in Payloads}
        /\ m.email \in {q.email : q \in Payloads} \cup {None}
        /\ m.linkedin \in {q.linkedin : q \in Payloads} \cup {None}
        /\ m.contact_kind \in {q.contact_kind : q \in Payloads}
        /\ m.email_status \in EmailStatus /\ m.contact_score \in Int
    BY <1>1, <2>1, SMT DEF ContactRow
  <2> QED BY <2>2, <2>3, SMT DEF ContactRow
<1>4. current = read => m = new
  BY <1>1, <1>2, SMT DEF ContactRow
<1>5. /\ m.email = IF new.email # read.email THEN new.email ELSE current.email
      /\ m.email_status = IF new.email_status # read.email_status THEN new.email_status
                          ELSE current.email_status
      /\ \A f \in DOMAIN Gap : m[f] = IF new[f] # read[f] THEN new[f] ELSE current[f]
  BY <1>2, SMT DEF ContactRow, Gap
<1> HIDE DEF m
<1>6. p.email = None => SafeEmailStatus(p.email_status, p.email) = "UNKNOWN"
  BY PayloadType, SafeStatus, Zenon
<1>7. m.email_status # "VERIFIED"
  BY <1>1, <1>5, Zenon DEF Honest
<1>8. m.email = None => m.email_status = "UNKNOWN"
  BY <1>1, <1>5, <1>6, SMT DEF Honest
<1>9. \A f \in DOMAIN Gap : m[f] # current[f] => m[f] # Gap[f] /\ read[f] = Gap[f]
  BY <1>1, <1>5, Zenon
<1>10. Honest(m)
  BY <1>7, <1>8 DEF Honest
<1> QED BY <1>3, <1>4, <1>9, <1>10 DEF m, new

-----------------------------------------------------------------------------
\* A row is one that a look-up for this payload finds, by address, profile or name.
Matches(row, p) ==
  \/ p.email # None /\ row.email = p.email
  \/ p.linkedin # None /\ row.linkedin = p.linkedin
  \/ row.company = p.company /\ row.name = p.name /\ row.department = p.department

\* A look-up finds the recorded contacts that match, and nobody only if none does.
LEMMA MatchedFinds ==
  ASSUME NEW p \in Payloads
  PROVE  /\ \A i \in Matched(p) : i \in Recorded /\ Matches(contact[i], p)
         /\ (\E i \in Recorded : Matches(contact[i], p)) => Matched(p) # {}
<1>1. \A i \in Matched(p) : i \in Recorded /\ Matches(contact[i], p)
  BY Zenon DEF Matched, ByEmail, ByLinkedIn, ByName, Matches
<1>2. ASSUME NEW i \in Recorded, Matches(contact[i], p) PROVE Matched(p) # {}
  <2>1. i \in ByEmail(p) \/ i \in ByLinkedIn(p) \/ i \in ByName(p)
    BY <1>2, Zenon DEF ByEmail, ByLinkedIn, ByName, Matches
  <2> QED BY <2>1, Zenon DEF Matched
<1> QED BY <1>1, <1>2

\* The columns by which a new contact may be found are those of its payload.
LEMMA NewRowKeys ==
  ASSUME NEW p \in Payloads
  PROVE  LET new == NewRow(p)
         IN  /\ new.company = p.company /\ new.name = p.name /\ new.department = p.department
             /\ new.email = p.email /\ new.linkedin = p.linkedin
<1> DEFINE score == ContactScore(p.job_title, p.department,
                                 SafeEmailStatus(p.email_status, p.email),
                                 p.linkedin # None, p.confidence)
<1>1. NewRow(p) =
        [company |-> p.company, name |-> p.name, job_title |-> p.job_title,
         department |-> p.department, email |-> p.email,
         email_status |-> SafeEmailStatus(p.email_status, p.email), linkedin |-> p.linkedin,
         contact_kind |-> p.contact_kind, contact_score |-> score]
  BY SMT DEF NewRow, Scored
<1> HIDE DEF score
<1> QED BY <1>1, SMT

\* Those of a known contact are as they were, or were gaps and are the payload's.
LEMMA UpdatedKeys ==
  ASSUME NEW row \in ContactRow, NEW p \in Payloads
  PROVE  LET new == Updated(row, p)
         IN  /\ new.company = row.company /\ new.name = row.name
             /\ new.department = IF row.department = "UNKNOWN" THEN p.department
                                 ELSE row.department
             /\ new.linkedin = IF row.linkedin = None THEN p.linkedin ELSE row.linkedin
<1> DEFINE filled == Filled(row, p)
           new == Scored(filled, p.confidence)
<1>1. /\ filled \in ContactRow
      /\ \A f \in DOMAIN Gap : filled[f] = IF row[f] = Gap[f] THEN p[f] ELSE row[f]
      /\ filled.company = row.company /\ filled.name = row.name
  BY FilledColumns, Zenon
<1>2. Updated(row, p) = new
  BY Zenon DEF Updated
<1> HIDE DEF filled
<1>3. \A f \in DOMAIN filled \ {"contact_score"} : new[f] = filled[f]
  BY <1>1, ScoredColumns, Zenon
<1>4. {"company", "name", "department", "linkedin"} \subseteq DOMAIN filled \ {"contact_score"}
  BY <1>1, SMT DEF ContactRow
<1> HIDE DEF new
<1>5. /\ filled.department = IF row.department = "UNKNOWN" THEN p.department ELSE row.department
      /\ filled.linkedin = IF row.linkedin = None THEN p.linkedin ELSE row.linkedin
  BY <1>1, SMT DEF Gap
<1>6. /\ new.company = filled.company /\ new.name = filled.name
      /\ new.department = filled.department /\ new.linkedin = filled.linkedin
  BY <1>3, <1>4, SMT
<1> QED BY <1>1, <1>2, <1>5, <1>6, Zenon

\* A contact that was found is found again, whatever has been filled in since.
LEMMA StillMatches ==
  ASSUME NEW row \in ContactRow, NEW p \in Payloads, NEW q \in Payloads, Matches(row, q),
         q.department # "UNKNOWN"
  PROVE  Matches(Updated(row, p), q)
<1> DEFINE new == Updated(row, p)
<1>1. /\ new.company = row.company /\ new.name = row.name
      /\ new.department = IF row.department = "UNKNOWN" THEN p.department ELSE row.department
      /\ new.linkedin = IF row.linkedin = None THEN p.linkedin ELSE row.linkedin
  BY UpdatedKeys, Zenon
<1>2. new.email = IF row.email = None THEN p.email ELSE row.email
  BY UpdatedFacts, Zenon
<1> HIDE DEF new
<1>3. Matches(new, q)
  BY <1>1, <1>2, SMT DEF Matches
<1> QED BY <1>3 DEF new

-----------------------------------------------------------------------------
(***************************************************************************)
(* The invariant.  Of a submission under way it says what it read; what a  *)
(* look-up found is still so unless somebody has committed since.          *)
(***************************************************************************)
TypeOK ==
  /\ contact \in [Ids -> ContactRow \cup {None}]
  /\ DOMAIN session = Sessions
  /\ submitted \subseteq Payloads

\* Contacts are numbered as they are inserted, and none is deleted.
Dense == \E n \in 0..MaxContacts : Recorded = 1..n

\* The three unique constraints.
Unique == \A i, j \in Recorded : i # j => ~SameKey(contact[i], contact[j])

LookUp ==
  [payload : Payloads, id : Ids \cup {None}, row : ContactRow \cup {None}, overtaken : BOOLEAN]

WellRead(s) ==
  LET q == session[s]
  IN  q # Idle =>
        /\ q \in LookUp
        /\ q.id # None =>
             /\ q.id \in Recorded /\ q.row \in ContactRow
             /\ Honest(q.row) /\ Matches(q.row, q.payload)
        /\ ~q.overtaken =>
             IF q.id = None THEN Matched(q.payload) = {}
             ELSE q.row = contact[q.id] /\ q.id \in Matched(q.payload)

Told ==
  \A i \in Recorded :
    /\ Honest(contact[i])
    /\ i \notin mixed => Vouched(contact[i], submitted)

Found ==
  mixed = {} =>
    \A p \in submitted : p.department # "UNKNOWN" => \E i \in Recorded : Matches(contact[i], p)

Inv == TypeOK /\ Dense /\ Unique /\ (\A s \in Sessions : WellRead(s)) /\ Told /\ Found

\* What a payload vouched for, more payloads vouch for.
LEMMA VouchedByMore ==
  ASSUME NEW row, NEW said, NEW more, said \subseteq more, Vouched(row, said)
  PROVE  Vouched(row, more)
BY Zenon DEF Vouched

\* The initial state satisfies the invariant.
LEMMA InvInit == Init => Inv
<1> SUFFICES ASSUME Init PROVE Inv
  OBVIOUS
<1>1. Recorded = {}
  BY SMT DEF Init, Recorded
<1>2. Dense
  <2>1. 0 \in 0..MaxContacts /\ 1..0 = {}
    BY DirectoryAssumption, SMT
  <2> QED BY <1>1, <2>1, Zenon DEF Dense
<1>3. TypeOK
  BY SMT DEF Init, TypeOK
<1>4. Unique /\ Told
  BY <1>1, Zenon DEF Unique, Told
<1>5. (\A s \in Sessions : WellRead(s)) /\ Found
  BY SMT DEF Init, WellRead, Found
<1> QED BY <1>2, <1>3, <1>4, <1>5 DEF Inv

\* A look-up keeps the invariant.
LEMMA BeginInv ==
  ASSUME Inv, NEW s \in Sessions, NEW p \in Payloads, Begin(s, p)
  PROVE  Inv'
<1>1. PICK i \in (IF Matched(p) = {} THEN {None} ELSE Matched(p)) :
        session' = [session EXCEPT ![s] =
          [payload |-> p, id |-> i, row |-> IF i = None THEN None ELSE contact[i],
           overtaken |-> FALSE]]
  BY Zenon DEF Begin
<1>2. contact' = contact /\ submitted' = submitted /\ mixed' = mixed
  BY Zenon DEF Begin
<1>3. /\ Recorded' = Recorded
      /\ \A q : Matched(q)' = Matched(q)
  BY <1>2, Zenon DEF Recorded, Matched, ByEmail, ByLinkedIn, ByName
<1> DEFINE tx == [payload |-> p, id |-> i, row |-> IF i = None THEN None ELSE contact[i],
                  overtaken |-> FALSE]
<1>4. /\ DOMAIN session' = Sessions /\ session'[s] = tx
      /\ \A t \in Sessions : t # s => session'[t] = session[t]
  BY <1>1, SMT DEF Inv, TypeOK
<1>5. TypeOK' /\ Dense' /\ Unique' /\ Told' /\ Found'
  BY <1>2, <1>3, <1>4, Zenon DEF Inv, TypeOK, Dense, Unique, Told, Found
<1>6. i = None \/ i \in Matched(p)
  BY <1>1, Zenon
<1>7. i # None => i \in Recorded /\ Matches(contact[i], p) /\ contact[i] \in ContactRow
  BY <1>6, MatchedFinds, Zenon DEF Recorded, Inv, TypeOK
<1>8. i = None => Matched(p) = {}
  <2>1. Matched(p) \subseteq Ids
    BY MatchedFinds, Zenon DEF Recorded
  <2> QED BY <1>1, <2>1, DirectoryAssumption, Zenon
<1>9. /\ tx.payload = p /\ tx.id = i /\ tx.row = (IF i = None THEN None ELSE contact[i])
      /\ ~tx.overtaken
  BY SMT
<1>10. tx \in LookUp
  <2>1. i \in Ids \cup {None} /\ (IF i = None THEN None ELSE contact[i]) \in ContactRow \cup {None}
    BY <1>7, Zenon DEF Recorded
  <2> QED BY <2>1, SMT DEF LookUp
<1> HIDE DEF tx
<1>11. ASSUME NEW t \in Sessions PROVE WellRead(t)'
  <2>1. CASE t = s
    <3>1. i # None => Honest(contact[i])
      BY <1>7, Zenon DEF Inv, Told
    <3>2. session'[t] = tx
      BY <1>4, <2>1
    <3> QED BY <1>2, <1>3, <1>6, <1>7, <1>8, <1>9, <1>10, <3>1, <3>2, Zenon DEF WellRead
  <2>2. CASE t # s
    BY <1>2, <1>3, <1>4, <2>2, Zenon DEF WellRead, Inv
  <2> QED BY <2>1, <2>2
<1> QED BY <1>5, <1>11 DEF Inv

\* A failure keeps the invariant.
LEMMA FailInv ==
  ASSUME Inv, NEW s \in Sessions, Fail(s)
  PROVE  Inv'
<1>1. contact' = contact /\ submitted' = submitted /\ mixed' = mixed
  BY Zenon DEF Fail
<1>2. /\ Recorded' = Recorded
      /\ \A q : Matched(q)' = Matched(q)
  BY <1>1, Zenon DEF Recorded, Matched, ByEmail, ByLinkedIn, ByName
<1>3. /\ DOMAIN session' = Sessions /\ session'[s] = Idle
      /\ \A t \in Sessions : t # s => session'[t] = session[t]
  BY SMT DEF Fail, Inv, TypeOK
<1>4. TypeOK' /\ Dense' /\ Unique' /\ Told' /\ Found'
  BY <1>1, <1>2, <1>3, Zenon DEF Inv, TypeOK, Dense, Unique, Told, Found
<1>5. ASSUME NEW t \in Sessions PROVE WellRead(t)'
  BY <1>1, <1>2, <1>3, Zenon DEF WellRead, Inv
<1> QED BY <1>4, <1>5 DEF Inv

-----------------------------------------------------------------------------
\* The number a commit writes to.
Target(q) == IF q.id = None THEN Cardinality(Recorded) + 1 ELSE q.id

\* What a commit does to the tables: it writes one row, over the one it looked up or
\* at the next number, and every other row stays.
LEMMA CommitWrites ==
  ASSUME Inv, NEW s \in Sessions, Commit(s)
  PROVE  LET q == session[s]
             i == Target(q)
             new == Written(q)
         IN  /\ i \in Ids /\ q \in LookUp /\ new \in ContactRow /\ Honest(new)
             /\ contact' \in [Ids -> ContactRow \cup {None}]
             /\ contact'[i] = new
             /\ \A j \in Ids : j # i => contact'[j] = contact[j]
             /\ Recorded' = Recorded \cup {i}
             /\ q.id = None =>
                  /\ new = NewRow(q.payload) /\ mixed' = mixed
                  /\ \E n \in 0..MaxContacts : Recorded = 1..n /\ i = n + 1
             /\ q.id # None =>
                  /\ i = q.id /\ i \in Recorded
                  /\ contact[i] \in ContactRow /\ q.row \in ContactRow
                  /\ new = Merged(contact[i], q.row, Updated(q.row, q.payload))
                  /\ mixed' = IF contact[i] # q.row THEN mixed \cup {i} ELSE mixed
             /\ submitted' = submitted \cup {q.payload}
             /\ \A j \in Recorded : j # i => ~SameKey(contact[j], new)
<1> DEFINE q == session[s]
           i == Target(q)
           new == Written(q)
<1>1. /\ q # Idle /\ Rivals(q) = {} /\ i \in Ids
      /\ contact' = [contact EXCEPT ![i] = new]
      /\ submitted' = submitted \cup {q.payload}
      /\ mixed' = IF q.id # None /\ contact[i] # q.row THEN mixed \cup {i} ELSE mixed
  BY Zenon DEF Commit, Target
<1>2. /\ q \in LookUp
      /\ q.id # None =>
           /\ q.id \in Recorded /\ q.row \in ContactRow
           /\ Honest(q.row) /\ Matches(q.row, q.payload)
  BY <1>1, Zenon DEF Inv, WellRead
<1>3. q.payload \in Payloads
  BY <1>2, SMT DEF LookUp
<1>4. q.id # None => i = q.id /\ i \in Recorded /\ contact[i] \in ContactRow
  BY <1>2, Zenon DEF Target, Recorded, Inv, TypeOK
<1>5. q.id = None => \E n \in 0..MaxContacts : Recorded = 1..n /\ i = n + 1
  <2> SUFFICES ASSUME q.id = None PROVE \E n \in 0..MaxContacts : Recorded = 1..n /\ i = n + 1
    OBVIOUS
  <2>1. PICK n \in 0..MaxContacts : Recorded = 1..n
    BY Zenon DEF Inv, Dense
  <2>2. Cardinality(1..n) = n
    BY FS_Interval, SMT
  <2> QED BY <2>1, <2>2, Zenon DEF Target
<1>6. /\ q.id = None => new = NewRow(q.payload)
      /\ q.id # None => new = Merged(contact[i], q.row, Updated(q.row, q.payload))
  BY <1>4, Zenon DEF Written
<1>7. new \in ContactRow /\ Honest(new)
  <2> HIDE DEF q, i, new
  <2>1. CASE q.id = None
    BY <1>3, <1>6, <2>1, NewRowFacts, Zenon
  <2>2. CASE q.id # None
    <3>1. Honest(contact[i])
      BY <1>4, <2>2, Zenon DEF Inv, Told
    <3>2. /\ contact[i] \in ContactRow /\ q.row \in ContactRow
          /\ Honest(q.row) /\ new = Merged(contact[i], q.row, Updated(q.row, q.payload))
      BY <1>2, <1>4, <1>6, <2>2, Zenon
    <3>3. \A current, read \in ContactRow, p \in Payloads :
            Honest(current) /\ Honest(read) =>
              LET m == Merged(current, read, Updated(read, p))
              IN  m \in ContactRow /\ Honest(m)
      BY MergedFacts, Zenon
    <3> QED BY <1>3, <3>1, <3>2, <3>3, Zenon
  <2> QED BY <2>1, <2>2
<1> HIDE DEF new
<1>8. /\ contact' \in [Ids -> ContactRow \cup {None}]
      /\ contact'[i] = new
      /\ \A j \in Ids : j # i => contact'[j] = contact[j]
  BY <1>1, <1>7, Zenon DEF Inv, TypeOK
<1>9. Recorded' = Recorded \cup {i}
  BY <1>1, <1>7, <1>8, DirectoryAssumption, Zenon DEF Recorded
<1>10. \A j \in Recorded : j # i => ~SameKey(contact[j], new)
  <2>1. \A j \in Recorded : j # q.id => ~SameKey(contact[j], new)
    BY <1>1, Zenon DEF Rivals, new
  <2>2. q.id = None => \A j \in Recorded : j # q.id
    BY DirectoryAssumption, Zenon DEF Recorded
  <2> QED BY <1>4, <2>1, <2>2, Zenon
<1> QED BY <1>1, <1>2, <1>4, <1>5, <1>6, <1>7, <1>8, <1>9, <1>10, Zenon DEF new

\* Over a contact that is still what it was when it was looked up, a commit writes the
\* update of that contact.
LEMMA CommitUpdates ==
  ASSUME Inv, NEW s \in Sessions, Commit(s), session[s].id # None,
         contact[session[s].id] = session[s].row
  PROVE  Written(session[s]) = Updated(contact[session[s].id], session[s].payload)
<1>1. session[s].payload \in Payloads
  BY CommitWrites, SMT DEF LookUp
<1>2. /\ session[s].row \in ContactRow /\ session[s].id \in Recorded
      /\ Written(session[s]) = Merged(contact[session[s].id], session[s].row,
                                      Updated(session[s].row, session[s].payload))
  BY CommitWrites, Zenon DEF Target
<1>3. Honest(session[s].row)
  BY <1>2, Zenon DEF Inv, Told
<1>4. \A row \in ContactRow, p \in Payloads :
        Honest(row) => Merged(row, row, Updated(row, p)) = Updated(row, p)
  BY MergedFacts, Zenon
<1> QED BY <1>1, <1>2, <1>3, <1>4, Zenon

\* A commit keeps what the invariant says of the tables and their keys.
LEMMA CommitTables ==
  ASSUME Inv, NEW s \in Sessions, Commit(s)
  PROVE  TypeOK' /\ Dense' /\ Unique'
<1> DEFINE q == session[s]
           i == Target(q)
           new == Written(q)
<1>1. /\ i \in Ids /\ q \in LookUp
      /\ contact' \in [Ids -> ContactRow \cup {None}]
      /\ contact'[i] = new
      /\ \A j \in Ids : j # i => contact'[j] = contact[j]
      /\ Recorded' = Recorded \cup {i}
      /\ q.id = None => \E n \in 0..MaxContacts : Recorded = 1..n /\ i = n + 1
      /\ q.id # None => i \in Recorded
      /\ submitted' = submitted \cup {q.payload}
      /\ \A j \in Recorded : j # i => ~SameKey(contact[j], new)
  BY CommitWrites, Zenon
<1> HIDE DEF new, i
<1>2. TypeOK'
  <2>1. q.payload \in Payloads
    BY <1>1, SMT DEF LookUp
  <2>2. DOMAIN session' = Sessions
    BY SMT DEF Commit
  <2> HIDE DEF q
  <2> QED BY <1>1, <2>1, <2>2, Zenon DEF TypeOK, Inv
<1> HIDE DEF q
<1>3. Dense'
  <2>1. CASE q.id # None
    <3>1. Recorded' = Recorded
      BY <1>1, <2>1, Zenon
    <3> QED BY <3>1, Zenon DEF Inv, Dense
  <2>2. CASE q.id = None
    <3>1. PICK n \in 0..MaxContacts : Recorded = 1..n /\ i = n + 1
      BY <1>1, <2>2, Zenon
    <3>2. n + 1 \in 0..MaxContacts /\ (1..n) \cup {n + 1} = 1..(n + 1)
      BY <1>1, <3>1, DirectoryAssumption, SMT DEF Ids
    <3> QED BY <1>1, <3>1, <3>2, Zenon DEF Dense
  <2> QED BY <2>1, <2>2
<1>4. Unique'
  <2> SUFFICES ASSUME NEW a \in Recorded', NEW b \in Recorded', a # b
               PROVE  ~SameKey(contact'[a], contact'[b])
    BY Zenon DEF Unique, SameKey
  <2>1. \A row, other : SameKey(row, other) => SameKey(other, row)
    BY Zenon DEF SameKey
  <2>2. /\ a \in Recorded \/ a = i
        /\ b \in Recorded \/ b = i
        /\ Recorded \subseteq Ids
    BY <1>1, Zenon DEF Recorded
  <2>3. CASE a = i
    BY <1>1, <2>1, <2>2, <2>3, Zenon
  <2>4. CASE b = i
    BY <1>1, <2>2, <2>4, Zenon
  <2>5. CASE a # i /\ b # i
    BY <1>1, <2>2, <2>5, Zenon DEF Inv, Unique
  <2> QED BY <2>3, <2>4, <2>5
<1> QED BY <1>2, <1>3, <1>4

\* It leaves the other submissions what they read, overtaken.
LEMMA CommitSessions ==
  ASSUME Inv, NEW s \in Sessions, Commit(s), NEW t \in Sessions
  PROVE  WellRead(t)'
<1>1. session'[t] = IF t = s \/ session[t] = Idle THEN Idle
                    ELSE [session[t] EXCEPT !.overtaken = TRUE]
  BY Zenon DEF Commit
<1>2. Recorded \subseteq Recorded'
  BY CommitWrites, Zenon
<1>3. CASE session'[t] = Idle
  BY <1>3, Zenon DEF WellRead
<1>4. CASE session[t] # Idle /\ session'[t] = [session[t] EXCEPT !.overtaken = TRUE]
  <2> DEFINE old == session[t]
             tx == [old EXCEPT !.overtaken = TRUE]
  <2>1. /\ old \in LookUp
        /\ old.id # None =>
             /\ old.id \in Recorded /\ old.row \in ContactRow
             /\ Honest(old.row) /\ Matches(old.row, old.payload)
    BY <1>4, Zenon DEF Inv, WellRead
  <2> HIDE DEF old
  <2>2. /\ tx \in LookUp /\ tx.overtaken
        /\ tx.id = old.id /\ tx.row = old.row /\ tx.payload = old.payload
    <3>1. tx \in LookUp
      BY <2>1, Zenon DEF LookUp
    <3>2. tx.overtaken
      BY <2>1, SMT DEF LookUp
    <3>3. tx.id = old.id /\ tx.row = old.row /\ tx.payload = old.payload
      BY <2>1, SMT DEF LookUp
    <3> QED BY <3>1, <3>2, <3>3
  <2>3. session'[t] = tx
    BY <1>4 DEF old
  <2> HIDE DEF tx
  <2> QED BY <1>2, <2>1, <2>2, <2>3, Zenon DEF WellRead
<1> QED BY <1>1, <1>3, <1>4, Zenon

\* What it writes is told of the contact.
LEMMA CommitTold ==
  ASSUME Inv, NEW s \in Sessions, Commit(s)
  PROVE  Told'
<1> DEFINE q == session[s]
           i == Target(q)
           new == Written(q)
<1>1. /\ i \in Ids /\ q \in LookUp /\ Honest(new)
      /\ contact'[i] = new
      /\ \A j \in Ids : j # i => contact'[j] = contact[j]
      /\ Recorded' = Recorded \cup {i}
      /\ q.id = None => new = NewRow(q.payload) /\ mixed' = mixed
      /\ q.id # None =>
           /\ i = q.id /\ i \in Recorded /\ contact[i] \in ContactRow
           /\ mixed' = IF contact[i] # q.row THEN mixed \cup {i} ELSE mixed
      /\ submitted' = submitted \cup {q.payload}
  BY CommitWrites, Zenon
<1>2. q.payload \in Payloads
  BY <1>1, SMT DEF LookUp
<1>3. q.id # None /\ contact[i] = q.row => new = Updated(contact[i], q.payload)
  BY <1>1, CommitUpdates, Zenon
<1> HIDE DEF new, i, q
<1>4. mixed \subseteq mixed' /\ Recorded \subseteq Ids
  BY <1>1, Zenon DEF Recorded
<1>5. i \notin mixed' => Vouched(new, submitted')
  <2> SUFFICES ASSUME i \notin mixed' PROVE Vouched(new, submitted')
    OBVIOUS
  <2>1. CASE q.id = None
    <3>1. Vouched(new, {q.payload})
      BY <1>1, <1>2, <2>1, NewRowFacts, Zenon
    <3>2. {q.payload} \subseteq submitted'
      BY <1>1, Zenon
    <3>3. \A row, said, more : said \subseteq more /\ Vouched(row, said) => Vouched(row, more)
      BY VouchedByMore, Zenon
    <3> QED BY <3>1, <3>2, <3>3, Zenon
  <2>2. CASE q.id # None
    <3>1. contact[i] = q.row /\ i \notin mixed
      BY <1>1, <2>2, Zenon
    <3>2. Vouched(contact[i], submitted)
      BY <1>1, <2>2, <3>1, Zenon DEF Inv, Told
    <3>3. \A row \in ContactRow, p \in Payloads : \A said :
            Vouched(row, said) => Vouched(Updated(row, p), said \cup {p})
      BY UpdatedFacts, Zenon
    <3>4. Vouched(Updated(contact[i], q.payload), submitted \cup {q.payload})
      BY <1>1, <1>2, <2>2, <3>2, <3>3, Zenon
    <3>5. new = Updated(contact[i], q.payload)
      BY <1>3, <2>2, <3>1, Zenon
    <3>6. submitted' = submitted \cup {q.payload}
      BY <1>1, Zenon
    <3> QED BY <3>4, <3>5, <3>6
  <2> QED BY <2>1, <2>2
<1>6. ASSUME NEW j \in Recorded, j # i
      PROVE  Honest(contact'[j]) /\ (j \notin mixed' => Vouched(contact'[j], submitted'))
  <2>1. contact'[j] = contact[j]
    BY <1>1, <1>4, <1>6, Zenon
  <2>2. Honest(contact[j]) /\ (j \notin mixed' => Vouched(contact[j], submitted))
    BY <1>4, Zenon DEF Inv, Told
  <2>3. submitted \subseteq submitted'
    BY <1>1, Zenon
  <2> QED BY <2>1, <2>2, <2>3, VouchedByMore, Zenon
<1>7. \A j \in Recorded' :
        Honest(contact'[j]) /\ (j \notin mixed' => Vouched(contact'[j], submitted'))
  BY <1>1, <1>5, <1>6, Zenon
<1> QED BY <1>7, Zenon DEF Told, Honest, Vouched

\* What was submitted is still found, and so is what it brings.
LEMMA CommitFound ==
  ASSUME Inv, NEW s \in Sessions, Commit(s)
  PROVE  Found'
<1> DEFINE q == session[s]
           i == Target(q)
           new == Written(q)
<1>1. /\ i \in Ids /\ q \in LookUp
      /\ contact'[i] = new
      /\ \A j \in Ids : j # i => contact'[j] = contact[j]
      /\ Recorded' = Recorded \cup {i}
      /\ q.id = None => new = NewRow(q.payload) /\ mixed' = mixed
      /\ q.id = None => \E n \in 0..MaxContacts : Recorded = 1..n /\ i = n + 1
      /\ q.id # None =>
           /\ i = q.id /\ i \in Recorded /\ contact[i] \in ContactRow
           /\ mixed' = IF contact[i] # q.row THEN mixed \cup {i} ELSE mixed
      /\ submitted' = submitted \cup {q.payload}
  BY CommitWrites, Zenon
<1>2. q.payload \in Payloads
  BY <1>1, SMT DEF LookUp
<1>3. q.id # None /\ contact[i] = q.row =>
        new = Updated(contact[i], q.payload) /\ Matches(contact[i], q.payload)
  <2>1. q # Idle
    BY Zenon DEF Commit
  <2>2. q.id # None => Matches(q.row, q.payload)
    BY <2>1, Zenon DEF Inv, WellRead
  <2> QED BY <1>1, <2>2, CommitUpdates, Zenon
<1>4. q.id = None => i \notin Recorded
  <2>1. \A n \in 0..MaxContacts : n + 1 \notin 1..n
    BY SMT
  <2> QED BY <1>1, <2>1, Zenon
<1> HIDE DEF new, i, q
<1> SUFFICES ASSUME mixed' = {}, NEW p \in submitted', p.department # "UNKNOWN"
             PROVE  \E j \in Recorded' : Matches(contact'[j], p)
  BY Zenon DEF Found, Matches
<1>5. /\ mixed = {} /\ Recorded \subseteq Ids
      /\ q.id # None => contact[i] = q.row
  BY <1>1, Zenon DEF Recorded
<1>6. \A row \in ContactRow, from, of \in Payloads :
        Matches(row, of) /\ of.department # "UNKNOWN" => Matches(Updated(row, from), of)
  BY StillMatches, Zenon
<1>7. CASE p \in submitted
  <2>1. PICK j \in Recorded : Matches(contact[j], p)
    BY <1>5, <1>7, Zenon DEF Inv, Found
  <2>2. CASE j # i
    BY <1>1, <1>5, <2>1, <2>2, Zenon
  <2>3. CASE j = i
    <3>1. p \in Payloads
      BY <1>7, Zenon DEF Inv, TypeOK
    <3> QED BY <1>1, <1>2, <1>3, <1>4, <1>5, <1>6, <2>1, <2>3, <3>1, Zenon
  <2> QED BY <2>2, <2>3
<1>8. CASE p = q.payload
  <2>1. CASE q.id = None
    <3>1. Matches(new, p)
      BY <1>1, <1>2, <1>8, <2>1, NewRowKeys, Zenon DEF Matches
    <3> QED BY <1>1, <3>1, Zenon
  <2>2. CASE q.id # None
    BY <1>1, <1>2, <1>3, <1>5, <1>6, <1>8, <2>2, Zenon
  <2> QED BY <2>1, <2>2
<1> QED BY <1>1, <1>7, <1>8, Zenon

\* Every step keeps the invariant, which therefore always holds.
LEMMA InvNext == Inv /\ [Next]_vars => Inv'
<1> SUFFICES ASSUME Inv, [Next]_vars PROVE Inv'
  OBVIOUS
<1>1. ASSUME NEW s \in Sessions, NEW p \in Payloads, Begin(s, p) PROVE Inv'
  BY <1>1, BeginInv
<1>2. ASSUME NEW s \in Sessions, Commit(s) PROVE Inv'
  BY <1>2, CommitTables, CommitSessions, CommitTold, CommitFound, Zenon DEF Inv
<1>3. ASSUME NEW s \in Sessions, Fail(s) PROVE Inv'
  BY <1>3, FailInv
<1>4. CASE UNCHANGED vars
  <2>1. /\ contact' = contact /\ session' = session
        /\ submitted' = submitted /\ mixed' = mixed
    BY <1>4, Zenon DEF vars
  <2>2. Recorded' = Recorded /\ \A q : Matched(q)' = Matched(q)
    BY <2>1, Zenon DEF Recorded, Matched, ByEmail, ByLinkedIn, ByName
  <2>3. TypeOK' /\ Dense' /\ Unique' /\ Told' /\ Found'
    BY <2>1, <2>2, Zenon DEF Inv, TypeOK, Dense, Unique, Told, Found
  <2>4. ASSUME NEW s \in Sessions PROVE WellRead(s)'
    BY <2>1, <2>2, Zenon DEF WellRead, Inv
  <2> QED BY <2>3, <2>4 DEF Inv
<1> QED BY <1>1, <1>2, <1>3, <1>4, Zenon DEF Next

\* What is read of contacts, and what is committed, always satisfies the invariant.
THEOREM Invariance == Spec => []Inv
<1> QED BY InvInit, InvNext, PTL DEF Spec

\* The status beside an address was stated of that address, short of verified.
THEOREM StatusAlwaysOfTheAddress == Spec => []StatusIsOfTheAddress
<1>1. Inv => StatusIsOfTheAddress
  BY Zenon DEF Inv, Told, Honest, Vouched, StatusIsOfTheAddress
<1> QED BY <1>1, Invariance, PTL

\* A score is that of everything known of the contact.
THEOREM ScoreAlwaysOfTheContact == Spec => []ScoreIsOfTheContact
<1>1. Inv => ScoreIsOfTheContact
  BY Zenon DEF Inv, Told, Vouched, ScoreIsOfTheContact
<1> QED BY <1>1, Invariance, PTL

\* A page that is read again finds its contacts.
THEOREM RereadAlwaysFinds == Spec => []RereadFindsItsContact
<1>1. Inv => RereadFindsItsContact
  BY MatchedFinds, Zenon DEF Inv, TypeOK, Found, RereadFindsItsContact
<1> QED BY <1>1, Invariance, PTL

-----------------------------------------------------------------------------
\* What a contact is known to be, it is never again unknown to be, and only a submission
\* that did not know a value replaces it.
LEMMA KnownStep ==
  ASSUME Inv, [Next]_vars, NEW i \in Recorded, NEW f \in DOMAIN Gap,
         contact[i][f] # Gap[f], contact'[i][f] # contact[i][f]
  PROVE  contact'[i][f] # Gap[f] /\ i \in mixed'
<1>1. PICK s \in Sessions : Commit(s)
  BY Zenon DEF Next, Begin, Fail, vars
<1> DEFINE q == session[s]
           new == Written(q)
<1>2. /\ \A j \in Ids : j # Target(q) => contact'[j] = contact[j]
      /\ q.id = None => \E n \in 0..MaxContacts : Recorded = 1..n /\ Target(q) = n + 1
      /\ q \in LookUp
      /\ contact'[Target(q)] = new
      /\ q.id # None =>
           /\ Target(q) \in Recorded
           /\ contact[Target(q)] \in ContactRow /\ q.row \in ContactRow
           /\ new = Merged(contact[Target(q)], q.row, Updated(q.row, q.payload))
           /\ mixed' = IF contact[Target(q)] # q.row THEN mixed \cup {Target(q)} ELSE mixed
      /\ q # Idle
  BY <1>1, CommitWrites, Zenon DEF Commit
<1>3. q.payload \in Payloads
  BY <1>2, SMT DEF LookUp
<1>4. i = Target(q)
  BY <1>2, Zenon DEF Recorded
<1>5. q.id # None
  <2>1. \A n \in 0..MaxContacts : n + 1 \notin 1..n
    BY SMT
  <2> QED BY <1>2, <1>4, <2>1, Zenon
<1>6. Honest(contact[i]) /\ Honest(q.row)
  BY <1>2, <1>5, Zenon DEF Inv, Told, WellRead
<1> HIDE DEF new, q
<1>7. \A current, read \in ContactRow, p \in Payloads, g \in DOMAIN Gap :
        Honest(current) /\ Honest(read) =>
          LET m == Merged(current, read, Updated(read, p))
          IN  m[g] # current[g] => m[g] # Gap[g] /\ read[g] = Gap[g]
  BY MergedFacts, Zenon
<1>8. new = Merged(contact[i], q.row, Updated(q.row, q.payload)) /\ contact'[i] = new
  BY <1>2, <1>4, <1>5, Zenon
<1>9. contact'[i][f] # Gap[f] /\ q.row[f] = Gap[f]
  <2> DEFINE m == Merged(contact[i], q.row, Updated(q.row, q.payload))
  <2>1. contact[i] \in ContactRow /\ q.row \in ContactRow
    BY <1>2, <1>4, <1>5, Zenon
  <2>2. m[f] # contact[i][f] => m[f] # Gap[f] /\ q.row[f] = Gap[f]
    BY <1>3, <1>6, <1>7, <2>1, Zenon
  <2>3. contact'[i] = m
    BY <1>8
  <2> HIDE DEF m
  <2> QED BY <2>2, <2>3, Zenon
<1>10. contact[i] # q.row
  BY <1>9, Zenon
<1> QED BY <1>2, <1>4, <1>5, <1>9, <1>10, Zenon

\* Gaps get filled and known values are left alone, whatever overlaps.
THEOREM KnownAlwaysStays == Spec => KnownStays
<1>1. Inv /\ [Next]_vars =>
        [\A i \in Recorded, f \in DOMAIN Gap :
           contact[i][f] # Gap[f] /\ contact'[i][f] # contact[i][f] =>
             /\ contact'[i][f] # Gap[f]
             /\ i \in mixed']_vars
  BY KnownStep
<1> QED BY <1>1, Invariance, PTL DEF Spec, KnownStays

\* A submission that read the tables as they are fails only if it joins two contacts.
LEMMA FailStep ==
  ASSUME Inv, NEW s \in Sessions, Fail(s), ~session[s].overtaken
  PROVE  LET q == session[s]
         IN  /\ q.id # None
             /\ \E j \in Recorded \ {q.id} :
                  \/ j \in ByLinkedIn(q.payload)
                  \/ /\ contact[j].company = contact[q.id].company
                     /\ contact[j].name = contact[q.id].name
                     /\ contact[j].department = q.payload.department
<1> DEFINE q == session[s]
           p == q.payload
           new == Written(q)
<1>1. q # Idle /\ Rivals(q) # {}
  BY Zenon DEF Fail
<1>2. /\ q \in LookUp
      /\ q.id # None => q.id \in Recorded /\ q.row \in ContactRow /\ Honest(q.row)
      /\ q.id = None => Matched(p) = {}
      /\ q.id # None => q.row = contact[q.id] /\ q.id \in Matched(p)
  BY <1>1, Zenon DEF Inv, WellRead
<1>3. p \in Payloads
  BY <1>2, SMT DEF LookUp
<1>4. PICK j \in Recorded \ {q.id} : SameKey(contact[j], new)
  BY <1>1, Zenon DEF Rivals
<1>5. /\ q.id = None => new = NewRow(p)
      /\ q.id # None => new = Merged(contact[q.id], q.row, Updated(q.row, p))
  BY Zenon DEF Written
<1> HIDE DEF new
<1>6. q.id # None
  <2> SUFFICES ASSUME q.id = None PROVE FALSE
    OBVIOUS
  <2>1. new.company = p.company /\ new.name = p.name /\ new.department = p.department
        /\ new.email = p.email /\ new.linkedin = p.linkedin
    BY <1>3, <1>5, NewRowKeys, Zenon
  <2>2. Matches(contact[j], p)
    BY <1>4, <2>1, Zenon DEF SameKey, Matches
  <2> QED BY <1>2, <1>3, <2>2, MatchedFinds, Zenon
<1> DEFINE row == contact[q.id]
<1>7. row \in ContactRow /\ Honest(row) /\ q.id \in Matched(p) /\ q.id \in Recorded
  BY <1>2, <1>6, Zenon
<1>8. new = Updated(row, p)
  <2>1. \A r \in ContactRow, say \in Payloads :
          Honest(r) => Merged(r, r, Updated(r, say)) = Updated(r, say)
    BY MergedFacts, Zenon
  <2> QED BY <1>2, <1>3, <1>5, <1>6, <1>7, <2>1, Zenon
<1>9. /\ new.company = row.company /\ new.name = row.name
      /\ new.department = IF row.department = "UNKNOWN" THEN p.department ELSE row.department
      /\ new.linkedin = IF row.linkedin = None THEN p.linkedin ELSE row.linkedin
  BY <1>3, <1>7, <1>8, UpdatedKeys, Zenon
<1>10. new.email = IF row.email = None THEN p.email ELSE row.email
  BY <1>3, <1>7, <1>8, UpdatedFacts, Zenon
<1>11. ~SameKey(contact[j], row)
  BY <1>4, <1>7, Zenon DEF Inv, Unique
<1>12. j \in ByLinkedIn(p)
       \/ /\ contact[j].company = row.company
          /\ contact[j].name = row.name
          /\ contact[j].department = p.department
  <2>1. CASE contact[j].email # None /\ contact[j].email = new.email
    <3>1. row.email = None /\ p.email = contact[j].email
      BY <1>10, <1>11, <2>1, Zenon DEF SameKey
    <3>2. j \in ByEmail(p)
      BY <1>4, <2>1, <3>1, Zenon DEF ByEmail
    <3>3. q.id \in ByEmail(p)
      BY <1>7, <3>2, Zenon DEF Matched
    <3> QED BY <2>1, <3>1, <3>3, Zenon DEF ByEmail
  <2>2. CASE contact[j].linkedin # None /\ contact[j].linkedin = new.linkedin
    <3>1. p.linkedin = contact[j].linkedin
      BY <1>9, <1>11, <2>2, Zenon DEF SameKey
    <3> QED BY <1>4, <2>2, <3>1, Zenon DEF ByLinkedIn
  <2>3. CASE /\ contact[j].company = new.company /\ contact[j].name = new.name
             /\ contact[j].department = new.department
    BY <1>9, <1>11, <2>3, Zenon DEF SameKey
  <2> QED BY <1>4, <2>1, <2>2, <2>3, Zenon DEF SameKey
<1> QED BY <1>4, <1>6, <1>12, Zenon

\* A submission that nobody overtook fails only on what joins two contacts into one.
THEOREM FailsOnlyEverOnSplits == Spec => FailsOnlyOnSplits
<1>1. Inv /\ [Next]_vars =>
        [\A s \in Sessions :
           Fail(s) /\ ~session[s].overtaken =>
             LET q == session[s]
             IN  /\ q.id # None
                 /\ \E j \in Recorded \ {q.id} :
                      \/ j \in ByLinkedIn(q.payload)
                      \/ /\ contact[j].company = contact[q.id].company
                         /\ contact[j].name = contact[q.id].name
                         /\ contact[j].department = q.payload.department]_vars
  BY FailStep, Zenon
<1> QED BY <1>1, Invariance, PTL DEF Spec, FailsOnlyOnSplits

-----------------------------------------------------------------------------
\* How fitting a department is, is a natural number: nothing for an unknown one.
LEMMA FitType ==
  ASSUME NEW department
  PROVE  DepartmentFit(department) \in Nat /\ DepartmentFit("UNKNOWN") = 0
<1>1. /\ Preference \in Seq(Department \ {"UNKNOWN"})
      /\ DOMAIN Preference = 1..Len(Preference) /\ Len(Preference) \in Nat
      /\ \A n \in DOMAIN Preference : Preference[n] # "UNKNOWN"
  BY DirectoryAssumption, SMT
<1>2. Cardinality(DOMAIN Preference) = Len(Preference)
  <2>1. Cardinality(1..Len(Preference)) = Len(Preference)
    BY <1>1, FS_Interval, SMT
  <2> QED BY <1>1, <2>1, Zenon
<1>3. DepartmentFit("UNKNOWN") = 0
  BY <1>1, Zenon DEF DepartmentFit
<1>4. CASE \E n \in DOMAIN Preference : Preference[n] = department
  <2> DEFINE place == CHOOSE n \in DOMAIN Preference : Preference[n] = department
  <2>1. place \in DOMAIN Preference
    BY <1>4, Zenon
  <2>2. DepartmentFit(department) = Cardinality(DOMAIN Preference) + 1 - place
    BY <1>4, Zenon DEF DepartmentFit
  <2> HIDE DEF place
  <2>3. DepartmentFit(department) = Len(Preference) + 1 - place /\ place \in 1..Len(Preference)
    BY <1>1, <1>2, <2>1, <2>2, Zenon
  <2>4. DepartmentFit(department) \in Nat
    BY <1>1, <2>3, SMT
  <2> QED BY <1>3, <2>4
<1>5. CASE ~ \E n \in DOMAIN Preference : Preference[n] = department
  <2>1. DepartmentFit(department) = 0
    BY <1>5, Zenon DEF DepartmentFit
  <2> QED BY <1>3, <2>1, SMT
<1> QED BY <1>4, <1>5

\* A recorded contact stays recorded, with its company; and unless overlapping
\* submissions have written it, its department, once known, stays too.
LEMMA RosterStep ==
  ASSUME Inv, [Next]_vars, NEW i \in Recorded
  PROVE  /\ contact'[i] # None /\ contact'[i].company = contact[i].company
         /\ i \notin mixed' /\ contact[i].department # "UNKNOWN" =>
              contact'[i].department = contact[i].department
<1>1. i \notin mixed' /\ contact[i].department # "UNKNOWN" =>
        contact'[i].department = contact[i].department
  <2>1. "department" \in DOMAIN Gap /\ Gap["department"] = "UNKNOWN"
    BY SMT DEF Gap
  <2> QED BY <2>1, KnownStep, Zenon
<1>2. contact'[i] # None /\ contact'[i].company = contact[i].company
  <2>1. CASE contact'[i] = contact[i]
    BY <2>1, Zenon DEF Recorded
  <2>2. CASE contact'[i] # contact[i]
    <3>1. PICK s \in Sessions : Commit(s)
      BY <2>2, Zenon DEF Next, Begin, Fail, vars
    <3> DEFINE q == session[s]
               new == Written(q)
    <3>2. /\ \A j \in Ids : j # Target(q) => contact'[j] = contact[j]
          /\ q.id = None => \E n \in 0..MaxContacts : Recorded = 1..n /\ Target(q) = n + 1
          /\ q \in LookUp /\ new \in ContactRow
          /\ contact'[Target(q)] = new
          /\ q.id # None =>
               /\ contact[Target(q)] \in ContactRow /\ q.row \in ContactRow
               /\ new = Merged(contact[Target(q)], q.row, Updated(q.row, q.payload))
      BY <3>1, CommitWrites, Zenon
    <3>3. q.payload \in Payloads
      BY <3>2, SMT DEF LookUp
    <3>4. i = Target(q)
      BY <2>2, <3>2, Zenon DEF Recorded
    <3>5. q.id # None
      <4>1. \A n \in 0..MaxContacts : n + 1 \notin 1..n
        BY SMT
      <4> QED BY <3>2, <3>4, <4>1, Zenon
    <3> HIDE DEF new, q
    <3> DEFINE update == Updated(q.row, q.payload)
    <3>6. update.company = q.row.company
      BY <3>2, <3>3, <3>5, UpdatedKeys, Zenon
    <3> HIDE DEF update
    <3>7. /\ contact'[i] = Merged(contact[i], q.row, update)
          /\ contact[i] \in ContactRow /\ contact'[i] \in ContactRow
      BY <3>2, <3>4, <3>5, Zenon DEF update
    <3>8. contact'[i].company = contact[i].company
      <4>1. "company" \in DOMAIN contact[i]
        BY <3>7, SMT DEF ContactRow
      <4>2. Merged(contact[i], q.row, update)["company"] = contact[i]["company"]
        BY <3>6, <4>1, Zenon DEF Merged
      <4> QED BY <3>7, <4>2, Zenon
    <3> QED BY <3>7, <3>8, DirectoryAssumption, Zenon
  <2> QED BY <2>1, <2>2
<1> QED BY <1>1, <1>2

\* The best route of a company is no less fitting after a step than it was before it.
LEMMA RouteStep ==
  ASSUME Inv, [Next]_vars, NEW i \in Ids, NEW j \in Ids, NEW c,
         i \in BestRoutes(contact, c), j \in BestRoutes(contact', c)
  PROVE  DepartmentFit(contact'[j].department) >= DepartmentFit(contact[i].department)
         \/ i \in mixed'
<1> SUFFICES ASSUME i \notin mixed'
             PROVE  DepartmentFit(contact'[j].department) >= DepartmentFit(contact[i].department)
  OBVIOUS
<1>1. i \in Recorded /\ contact[i].company = c
  BY Zenon DEF BestRoutes, Recorded
<1>2. /\ contact'[i] # None /\ contact'[i].company = c
      /\ contact[i].department # "UNKNOWN" => contact'[i].department = contact[i].department
  BY <1>1, RosterStep, Zenon
<1>3. ~RanksBefore(contact'[i], contact'[j])
  BY <1>2, Zenon DEF BestRoutes
<1> DEFINE then == DepartmentFit(contact'[i].department)
           best == DepartmentFit(contact'[j].department)
           was  == DepartmentFit(contact[i].department)
<1>4. ~(then > best)
  BY <1>3, Zenon DEF RanksBefore
<1>5. was = then \/ was = 0
  BY <1>2, FitType, Zenon
<1>6. then \in Nat /\ best \in Nat /\ was \in Nat
  BY FitType, Zenon
<1> HIDE DEF then, best, was
<1>7. best >= was
  BY <1>4, <1>5, <1>6, SMT
<1> QED BY <1>7 DEF best, was

\* What becomes known of contacts never leaves an account with a worse route.
THEOREM RouteNeverEverWorsens == Spec => RouteNeverWorsens
<1>1. Inv /\ [Next]_vars =>
        [\A i, j \in Ids :
           (\E c \in {contact[k].company : k \in Recorded} :
              i \in BestRoutes(contact, c) /\ j \in BestRoutes(contact', c))
           => DepartmentFit(contact'[j].department) >= DepartmentFit(contact[i].department)
              \/ i \in mixed']_vars
  BY RouteStep, Zenon
<1> QED BY <1>1, Invariance, PTL DEF Spec, RouteNeverWorsens

-----------------------------------------------------------------------------
(***************************************************************************)
(* Assessment.  What a fact is worth on the scale of its factor.           *)
(***************************************************************************)
LevelFactors ==
  {"production_complexity", "repeat_potential", "brand_value", "marketing_activity",
   "comms_activity", "ecosystem_breadth"}

Worth(f, v) ==
  CASE f = "company_size" -> SizeScores[v]
    [] f = "attendee_band" -> AttendeeScores[v]
    [] f = "announcement_scale" -> ScaleScores[v]
    [] f \in LevelFactors -> LevelScores[v]
    [] f \in {"has_event_history", "executive_involvement"} -> TriState(v)
    [] f = "services" -> CountScore(IF v = 0 THEN None ELSE v, 25, 9)
    [] f = "stakeholder_count" -> CountScore(v, 20, 8)
    [] f \in {"commercial_estimate", "probability_estimate"} -> Estimate(v)

Factors ==
  {"company_size", "attendee_band", "announcement_scale"} \cup LevelFactors
    \cup {"has_event_history", "executive_involvement"}
    \cup {"services", "stakeholder_count", "commercial_estimate", "probability_estimate"}

\* The factors are those of the scales and the figures.
LEMMA FactorNames == DOMAIN Facts = Factors /\ "known" \notin Factors
<1>1. DOMAIN Facts = DOMAIN Scales \cup DOMAIN Figures
  BY Zenon DEF Facts
<1>2. DOMAIN Scales = {"company_size", "attendee_band", "announcement_scale"} \cup LevelFactors
                        \cup {"has_event_history", "executive_involvement"}
  BY SMT DEF Scales, LevelFactors
<1> QED BY <1>1, <1>2, AssessmentAssumption, SMT DEF Factors, LevelFactors

\* UNKNOWN and None, on each scale.
UnknownIsWorth(f) ==
  IF f \in LevelFactors \cup {"announcement_scale", "services", "stakeholder_count",
                              "commercial_estimate", "probability_estimate"}
  THEN 30 ELSE 35

\* What is not known of a lead is worth that.
LEMMA UnknownWorth ==
  ASSUME NEW lead \in Leads, NEW f \in Factors
  PROVE  /\ Worth(f, lead[f]) \in Score
         /\ Worth(f, lead[f]) = UnknownIsWorth(f)
<1>1. lead \in Lead
  BY AssessmentAssumption
<1>2. CASE f = "company_size"
  BY <1>1, <1>2, SMT DEF Lead, Worth, SizeScores, BandScores, UnknownIsWorth, LevelFactors, Score
<1>3. CASE f = "attendee_band"
  BY <1>1, <1>3, SMT DEF Lead, Worth, AttendeeScores, BandScores, UnknownIsWorth, LevelFactors, Score
<1>4. CASE f = "announcement_scale"
  BY <1>1, <1>4, SMT DEF Lead, Worth, ScaleScores, UnknownIsWorth, LevelFactors, Score
<1>5. CASE f \in LevelFactors
  <2>1. lead[f] = "UNKNOWN"
    BY <1>1, <1>5, SMT DEF Lead, LevelFactors
  <2> QED BY <1>5, <2>1, SMT DEF Worth, LevelScores, UnknownIsWorth, LevelFactors, Score
<1>6. CASE f \in {"has_event_history", "executive_involvement"}
  <2>1. lead[f] = None
    BY <1>1, <1>6, SMT DEF Lead
  <2> QED BY <1>6, <2>1, SMT DEF Worth, TriState, UnknownIsWorth, LevelFactors, Score
<1>7. CASE f = "services"
  BY <1>1, <1>7, SMT DEF Lead, Worth, CountScore, UnknownIsWorth, LevelFactors, Score
<1>8. CASE f = "stakeholder_count"
  BY <1>1, <1>8, SMT DEF Lead, Worth, CountScore, UnknownIsWorth, LevelFactors, Score
<1>9. CASE f \in {"commercial_estimate", "probability_estimate"}
  <2>1. lead[f] = None
    BY <1>1, <1>9, SMT DEF Lead
  <2> QED BY <1>9, <2>1, SMT DEF Worth, Estimate, UnknownIsWorth, LevelFactors, Score
<1> QED BY <1>2, <1>3, <1>4, <1>5, <1>6, <1>7, <1>8, <1>9, Zenon DEF Factors

\* The rungs of a scale are worth more the higher they are, and those that are not
\* adverse no less than an unknown.
LEMMA RungsRise ==
  ASSUME NEW f \in Factors, NEW i \in DOMAIN Facts[f]
  PROVE  /\ Worth(f, Facts[f][i]) \in Score
         /\ i \in Nat \ {0}
         /\ \A j \in DOMAIN Facts[f] : j < i => Worth(f, Facts[f][j]) =< Worth(f, Facts[f][i])
         /\ ~Adverse(f, i) => \A lead \in Leads : Worth(f, lead[f]) =< Worth(f, Facts[f][i])
<1> DEFINE numbers ==
             {"services", "stakeholder_count", "commercial_estimate", "probability_estimate"}
<1>0. ~Adverse(f, i) => IF f \in numbers THEN ~(Facts[f][i] < Enough[f]) ELSE i # 1
  <2>1. DOMAIN Figures = numbers /\ DOMAIN Scales \cap numbers = {}
    BY AssessmentAssumption, SMT DEF Scales
  <2>2. f \in DOMAIN Scales <=> f \notin numbers
    BY <2>1, FactorNames, Zenon DEF Facts
  <2> QED BY <2>2, Zenon DEF Adverse
<1>1. Facts[f] = IF f \in DOMAIN Scales THEN Scales[f] ELSE Figures[f]
  BY FactorNames, Zenon DEF Facts
<1>2. CASE f = "company_size"
  <2>1. Facts[f] = <<"SMALL", "MEDIUM", "LARGE", "ENTERPRISE">>
    BY <1>1, <1>2, SMT DEF Scales
  <2> QED BY <1>0, <1>2, <2>1, UnknownWorth, SMT DEF Worth, SizeScores, BandScores, UnknownIsWorth, LevelFactors, Score
<1>3. CASE f = "attendee_band"
  <2>1. Facts[f] = <<"UNDER_50", "FROM_50_TO_200", "FROM_200_TO_500", "OVER_500">>
    BY <1>1, <1>3, SMT DEF Scales
  <2> QED BY <1>0, <1>3, <2>1, UnknownWorth, SMT DEF Worth, AttendeeScores, BandScores, UnknownIsWorth, LevelFactors, Score
<1>4. CASE f = "announcement_scale"
  <2>1. Facts[f] = <<"SMALL", "MEDIUM", "LARGE", "MAJOR">>
    BY <1>1, <1>4, SMT DEF Scales
  <2> QED BY <1>0, <1>4, <2>1, UnknownWorth, SMT DEF Worth, ScaleScores, UnknownIsWorth, LevelFactors, Score
<1>5. CASE f \in LevelFactors
  <2>1. Facts[f] = <<"LOW", "MEDIUM", "HIGH">>
    BY <1>1, <1>5, SMT DEF Scales, Levels, LevelFactors
  <2> QED BY <1>0, <1>5, <2>1, UnknownWorth, SMT DEF Worth, LevelScores, UnknownIsWorth, LevelFactors, Score
<1>6. CASE f \in {"has_event_history", "executive_involvement"}
  <2>1. Facts[f] = <<FALSE, TRUE>>
    <3>1. /\ Scales["has_event_history"] = <<FALSE, TRUE>>
          /\ Scales["executive_involvement"] = <<FALSE, TRUE>>
      BY Zenon DEF Scales
    <3>2. f \in DOMAIN Scales
      BY <1>6, SMT DEF Scales
    <3> QED BY <1>1, <1>6, <3>1, <3>2, Zenon
  <2>2. i \in {1, 2} /\ DOMAIN Facts[f] = {1, 2}
    BY <2>1, SMT
  <2>3. Facts[f][1] = FALSE /\ Facts[f][2] = TRUE
    <3>1. \A a, b : <<a, b>>[1] = a /\ <<a, b>>[2] = b
      BY SMT
    <3> QED BY <2>1, <3>1, Zenon
  <2>4. TriState(FALSE) \in {25, 35} /\ TriState(TRUE) \in {35, 88}
    BY Zenon DEF TriState
  <2>5. Worth(f, Facts[f][1]) = TriState(FALSE) /\ Worth(f, Facts[f][2]) = TriState(TRUE)
    BY <1>6, <2>3, Zenon DEF Worth, LevelFactors
  <2>6. \A lead \in Leads : Worth(f, lead[f]) = 35
    BY <1>6, UnknownWorth, Zenon DEF UnknownIsWorth, LevelFactors
  <2> DEFINE worth(j) == Worth(f, Facts[f][j])
  <2>7. worth(1) \in {25, 35} /\ worth(2) \in {35, 88}
    BY <2>4, <2>5, Zenon
  <2>8. \A lead \in Leads : Worth(f, lead[f]) =< worth(2)
    BY <2>6, <2>7, SMT
  <2> HIDE DEF worth
  <2>9. /\ worth(i) \in Score
        /\ \A j \in {1, 2} : j < i => worth(j) =< worth(i)
    BY <2>2, <2>7, SMT DEF Score
  <2>10. ~Adverse(f, i) => i = 2
    BY <1>0, <1>6, <2>2, SMT
  <2> QED BY <2>2, <2>8, <2>9, <2>10, SMT DEF worth
<1>7. CASE f \in {"services", "stakeholder_count", "commercial_estimate", "probability_estimate"}
  <2>1. /\ Facts[f] = Figures[f] /\ Figures[f] \in Seq(Nat)
        /\ \A m, n \in DOMAIN Figures[f] : m < n => Figures[f][m] < Figures[f][n]
    BY <1>1, <1>7, AssessmentAssumption, SMT DEF Scales, LevelFactors
  <2>2. /\ i \in Nat \ {0} /\ Facts[f][i] \in Nat /\ Facts[f][i] # None
        /\ \A j \in DOMAIN Facts[f] : Facts[f][j] \in Nat /\ Facts[f][j] # None
        /\ \A j \in DOMAIN Facts[f] : j < i => Facts[f][j] < Facts[f][i]
    <3>1. i \in Nat \ {0} /\ \A j \in DOMAIN Facts[f] : Facts[f][j] \in Nat
      BY <2>1, SMT
    <3>2. \A n \in Nat : n # None
      BY SettingsAssumption, SMT
    <3>3. \A j \in DOMAIN Facts[f] : j < i => Facts[f][j] < Facts[f][i]
      BY <2>1, Zenon
    <3> QED BY <3>1, <3>2, <3>3, Zenon
  <2>3. CASE f = "services"
    <3>1. Facts[f][i] > 0 /\ \A j \in DOMAIN Facts[f] : Facts[f][j] > 0
      BY <2>1, <2>3, AssessmentAssumption, SMT
    <3> QED BY <2>2, <2>3, <3>1, UnknownWorth, SMT DEF Worth, CountScore, Clamp, UnknownIsWorth, LevelFactors, Score
  <2>4. CASE f = "stakeholder_count"
    <3>1. ~Adverse(f, i) => Facts[f][i] >= 2
      BY <1>0, <2>2, <2>4, SMT DEF Enough
    <3> QED BY <2>2, <2>4, <3>1, UnknownWorth, SMT DEF Worth, CountScore, Clamp, UnknownIsWorth, LevelFactors, Score
  <2>5. CASE f \in {"commercial_estimate", "probability_estimate"}
    <3>1. Facts[f][i] \in Score
      BY <2>1, <2>5, AssessmentAssumption, SMT
    <3>2. ~Adverse(f, i) => Facts[f][i] >= 30
      BY <1>0, <2>2, <2>5, SMT DEF Enough
    <3> QED BY <2>2, <2>5, <3>1, <3>2, UnknownWorth, SMT DEF Worth, Estimate, UnknownIsWorth, LevelFactors, Score
  <2> QED BY <1>7, <2>3, <2>4, <2>5, Zenon
<1> QED BY <1>2, <1>3, <1>4, <1>5, <1>6, <1>7, Zenon DEF Factors

\* The rungs of a scale are numbered from one.
LEMMA FactsAreSequences ==
  ASSUME NEW f \in Factors
  PROVE  \E n \in Nat : DOMAIN Facts[f] = 1..n
<1>1. Facts[f] = IF f \in DOMAIN Scales THEN Scales[f] ELSE Figures[f]
  BY FactorNames, Zenon DEF Facts
<1>2. CASE f \in DOMAIN Scales
  <2>1. DOMAIN Scales[f] \in {1..2, 1..3, 1..4}
    BY <1>2, SMT DEF Scales, Levels
  <2>2. 2 \in Nat /\ 3 \in Nat /\ 4 \in Nat
    BY SMT
  <2>3. DOMAIN Facts[f] \in {1..2, 1..3, 1..4}
    BY <1>1, <1>2, <2>1, Zenon
  <2> QED BY <2>2, <2>3, Zenon
<1>3. CASE f \notin DOMAIN Scales
  <2>1. f \in DOMAIN Figures
    BY <1>3, FactorNames, Zenon DEF Facts
  <2>2. Figures[f] \in Seq(Nat)
    BY <2>1, AssessmentAssumption, Zenon
  <2> QED BY <1>1, <1>3, <2>2, SMT
<1> QED BY <1>2, <1>3, Zenon

(***************************************************************************)
(* What is kept of a dossier: but for what has come to be known, it is the *)
(* lead it was opened as.                                                  *)
(***************************************************************************)
KnownDossier(d) ==
  \E lead \in Leads :
    /\ DOMAIN d = DOMAIN lead
    /\ d.known \subseteq Factors
    /\ \A f \in DOMAIN lead \ (d.known \cup {"known"}) : d[f] = lead[f]
    /\ \A f \in d.known : \E i \in DOMAIN Facts[f] : d[f] = Facts[f][i]

Circumstances ==
  {"signal_strength", "source_tier", "source_confidence", "dated", "extraction_confidence",
   "corroborating_sources", "confirmed", "official", "window", "contact_quality"}

Worths(d) == [f \in Factors |-> Worth(f, d[f])]

\* The columns of a lead are its factors, its circumstances and what is known.
LEMMA LeadColumns ==
  ASSUME NEW lead \in Leads
  PROVE  /\ DOMAIN lead = Factors \cup Circumstances \cup {"known"}
         /\ Factors \cap Circumstances = {} /\ "known" \notin Circumstances
         /\ lead.known = {}
<1>1. lead \in Lead
  BY AssessmentAssumption
<1>2. DOMAIN lead = Factors \cup Circumstances \cup {"known"} /\ lead.known = {}
  BY <1>1, SMT DEF Lead, Factors, LevelFactors, Circumstances
<1>3. Factors \cap Circumstances = {} /\ "known" \notin Circumstances
  BY SMT DEF Factors, LevelFactors, Circumstances
<1> QED BY <1>2, <1>3

\* A lead is a dossier of which nothing is known.
LEMMA LeadIsDossier ==
  ASSUME NEW lead \in Leads
  PROVE  KnownDossier(lead)
BY LeadColumns, Zenon DEF KnownDossier

\* Every factor of a dossier, known or not, has a worth.
LEMMA WorthsType ==
  ASSUME NEW d, KnownDossier(d)
  PROVE  Worths(d) \in [Factors -> Score]
<1> SUFFICES ASSUME NEW f \in Factors
             PROVE  Worth(f, d[f]) \in Score
  BY Zenon DEF Worths
<1>1. PICK lead \in Leads :
        /\ \A g \in DOMAIN lead \ (d.known \cup {"known"}) : d[g] = lead[g]
        /\ \A g \in d.known : \E i \in DOMAIN Facts[g] : d[g] = Facts[g][i]
  BY Zenon DEF KnownDossier
<1>2. CASE f \in d.known
  <2>1. PICK i \in DOMAIN Facts[f] : d[f] = Facts[f][i]
    BY <1>1, <1>2, Zenon
  <2> QED BY <2>1, RungsRise, Zenon
<1>3. CASE f \notin d.known
  <2>1. d[f] = lead[f]
    BY <1>1, <1>3, LeadColumns, FactorNames, Zenon
  <2> QED BY <2>1, UnknownWorth, Zenon
<1> QED BY <1>2, <1>3, Zenon

\* The circumstances of a dossier are those of the lead it was.
LEMMA CircumstancesType ==
  ASSUME NEW d, KnownDossier(d)
  PROVE  /\ d.signal_strength \in Score /\ d.source_tier \in Score
         /\ d.source_confidence \in Score /\ d.extraction_confidence \in Score
         /\ d.contact_quality \in Score /\ d.window \in Window
         /\ d.corroborating_sources \in Nat \ {0} /\ d.dated \in BOOLEAN
<1>1. PICK lead \in Leads :
        /\ d.known \subseteq Factors
        /\ \A g \in DOMAIN lead \ (d.known \cup {"known"}) : d[g] = lead[g]
  BY Zenon DEF KnownDossier
<1>2. \A c \in Circumstances : d[c] = lead[c]
  BY <1>1, LeadColumns, Zenon
<1>3. lead \in Lead
  BY AssessmentAssumption
<1>4. /\ lead.signal_strength \in Score /\ lead.source_tier \in Score
      /\ lead.source_confidence \in Score /\ lead.extraction_confidence \in Score
      /\ lead.contact_quality \in Score /\ lead.window \in Window
      /\ lead.corroborating_sources \in Nat \ {0} /\ lead.dated \in BOOLEAN
  BY <1>3, Zenon DEF Lead
<1> QED BY <1>2, <1>4, Zenon DEF Circumstances

\* A fact that comes to be known changes no circumstance and no other factor, and
\* one that is not adverse, or is better than what was known, is worth no less.
LEMMA LearnRaises ==
  ASSUME NEW f \in DOMAIN Facts, NEW i \in DOMAIN Facts[f], KnownDossier(dossier),
         Learn(f, i)
  PROVE  /\ KnownDossier(dossier')
         /\ \A c \in Circumstances : dossier'[c] = dossier[c]
         /\ f \in dossier.known \/ ~Adverse(f, i) =>
              \A g \in Factors : Worths(dossier)[g] =< Worths(dossier')[g]
<1>1. PICK lead \in Leads :
        /\ DOMAIN dossier = DOMAIN lead
        /\ dossier.known \subseteq Factors
        /\ \A g \in DOMAIN lead \ (dossier.known \cup {"known"}) : dossier[g] = lead[g]
        /\ \A g \in dossier.known : \E j \in DOMAIN Facts[g] : dossier[g] = Facts[g][j]
  BY Zenon DEF KnownDossier
<1>2. /\ DOMAIN lead = Factors \cup Circumstances \cup {"known"}
      /\ Factors \cap Circumstances = {} /\ "known" \notin Circumstances
      /\ f \in Factors /\ "known" \notin Factors
  BY LeadColumns, FactorNames, Zenon
<1>3. /\ dossier' = [dossier EXCEPT ![f] = Facts[f][i], !.known = @ \cup {f}]
      /\ f \in dossier.known => \E j \in 1..(i - 1) : dossier[f] = Facts[f][j]
  BY Zenon DEF Learn
<1>4. /\ DOMAIN dossier' = DOMAIN lead
      /\ dossier'[f] = Facts[f][i]
      /\ dossier'.known = dossier.known \cup {f}
      /\ \A g \in DOMAIN lead \ {f, "known"} : dossier'[g] = dossier[g]
  <2> DEFINE first == [dossier EXCEPT ![f] = Facts[f][i]]
  <2>1. dossier' = [first EXCEPT !["known"] = dossier.known \cup {f}]
    BY <1>3, Zenon
  <2>2. /\ DOMAIN first = DOMAIN lead /\ first[f] = Facts[f][i]
        /\ \A g \in DOMAIN lead \ {f} : first[g] = dossier[g]
    BY <1>1, <1>2, Zenon
  <2> HIDE DEF first
  <2>3. /\ DOMAIN dossier' = DOMAIN lead /\ dossier'["known"] = dossier.known \cup {f}
        /\ \A g \in DOMAIN lead \ {"known"} : dossier'[g] = first[g]
    BY <1>2, <2>1, <2>2, Zenon
  <2> QED BY <1>2, <2>2, <2>3, Zenon
<1>5. KnownDossier(dossier')
  <2>1. \A g \in DOMAIN lead \ (dossier'.known \cup {"known"}) : dossier'[g] = lead[g]
    BY <1>1, <1>4, Zenon
  <2>2. \A g \in dossier'.known : \E j \in DOMAIN Facts[g] : dossier'[g] = Facts[g][j]
    BY <1>1, <1>2, <1>4, Zenon
  <2>3. dossier'.known \subseteq Factors
    BY <1>1, <1>2, <1>4, Zenon
  <2> QED BY <1>4, <2>1, <2>2, <2>3, Zenon DEF KnownDossier
<1>6. \A c \in Circumstances : dossier'[c] = dossier[c]
  BY <1>2, <1>4, Zenon
<1>7. ASSUME f \in dossier.known \/ ~Adverse(f, i), NEW g \in Factors
      PROVE  Worth(g, dossier[g]) =< Worth(g, dossier'[g])
  <2>1. Worth(g, dossier[g]) \in Score
    BY WorthsType, Zenon DEF Worths
  <2>2. CASE g # f
    <3>1. dossier'[g] = dossier[g]
      BY <1>2, <1>4, <2>2, Zenon
    <3> QED BY <2>1, <3>1, SMT DEF Score
  <2>3. CASE g = f /\ f \in dossier.known
    <3>1. PICK j \in 1..(i - 1) : dossier[f] = Facts[f][j]
      BY <1>3, <2>3, Zenon
    <3>2. \E n \in Nat : DOMAIN Facts[f] = 1..n
      BY <1>2, FactsAreSequences
    <3>3. j \in DOMAIN Facts[f] /\ j < i
      BY <3>1, <3>2, SMT
    <3> QED BY <1>2, <1>4, <2>3, <3>1, <3>3, RungsRise, Zenon
  <2>4. CASE g = f /\ f \notin dossier.known
    <3>1. dossier[f] = lead[f]
      BY <1>1, <1>2, <2>4, Zenon
    <3> QED BY <1>2, <1>4, <1>7, <2>4, <3>1, RungsRise, Zenon
  <2> QED BY <2>2, <2>3, <2>4, Zenon
<1> QED BY <1>5, <1>6, <1>7, Zenon DEF Worths

(***************************************************************************)
(* The scores of a dossier, as functions of what its factors are worth.    *)
(***************************************************************************)
CommercialPoints(w) ==
  20 * w["company_size"] + 18 * w["attendee_band"] + 18 * w["production_complexity"]
    + 14 * w["services"] + 10 * w["repeat_potential"] + 10 * w["brand_value"]
    + 10 * w["commercial_estimate"]

EventPoints(w, strength, timing) ==
  24 * strength + 12 * w["announcement_scale"] + 11 * w["company_size"]
    + 8 * w["has_event_history"] + 7 * w["marketing_activity"] + 5 * w["comms_activity"]
    + 7 * w["ecosystem_breadth"] + 5 * w["stakeholder_count"]
    + 6 * w["executive_involvement"] + 5 * timing + 10 * w["probability_estimate"]

Rounded(points) == Round(Clamp(0, 10000, points), 100)

\* Rounding to whole points keeps the order.
LEMMA RoundMonotone ==
  ASSUME NEW m \in Nat, NEW n \in Nat, m =< n
  PROVE  Round(m, 100) =< Round(n, 100)
BY SMT DEF Round

\* Clamping and rounding to whole points gives a score.
LEMMA RoundedType ==
  ASSUME NEW m \in Int
  PROVE  Rounded(m) \in Score
<1> DEFINE k == Clamp(0, 10000, m)
<1>1. k \in Nat /\ k =< 10000
  BY SMT DEF Clamp
<1> HIDE DEF k
<1>2. Round(k, 100) \in Int /\ 0 =< Round(k, 100)
  BY <1>1, SMT DEF Round
<1>3. Round(k, 100) =< 100
  BY <1>1, SMT DEF Round
<1> QED BY <1>2, <1>3, SMT DEF Rounded, Score, k

\* Of more points it is no lower a score.
LEMMA RoundedMonotone ==
  ASSUME NEW m \in Int, NEW n \in Int, m =< n
  PROVE  Rounded(m) =< Rounded(n)
<1>1. Clamp(0, 10000, m) \in Nat /\ Clamp(0, 10000, n) \in Nat
  BY SMT DEF Clamp
<1>2. Clamp(0, 10000, m) =< Clamp(0, 10000, n)
  BY SMT DEF Clamp
<1> QED BY <1>1, <1>2, RoundMonotone DEF Rounded

\* A whole number of points is its own rounding.
LEMMA RoundedExact ==
  ASSUME NEW p \in Score
  PROVE  Rounded(100 * p) = p
BY SMT DEF Rounded, Round, Clamp, Score

\* The names of the factors are factors.
LEMMA FactorsByName ==
  /\ {"company_size", "attendee_band", "production_complexity", "services",
      "repeat_potential", "brand_value", "commercial_estimate"} \subseteq Factors
  /\ {"announcement_scale", "has_event_history", "marketing_activity", "comms_activity",
      "ecosystem_breadth", "stakeholder_count", "executive_involvement",
      "probability_estimate"} \subseteq Factors
BY SMT DEF Factors, LevelFactors

\* score_commercial_value and raw_event_probability take a dossier by its worths.
LEMMA ScoresByWorth ==
  ASSUME NEW d
  PROVE  /\ CommercialValue(d) = Rounded(CommercialPoints(Worths(d)))
         /\ RawEventProbability(d) =
              Rounded(EventPoints(Worths(d), d.signal_strength, TimingScore[d.window]))
<1>1. \A f \in Factors : Worths(d)[f] = Worth(f, d[f])
  BY Zenon DEF Worths
<1>2. /\ Worths(d)["company_size"] = SizeScores[d.company_size]
      /\ Worths(d)["attendee_band"] = AttendeeScores[d.attendee_band]
      /\ Worths(d)["production_complexity"] = LevelScores[d.production_complexity]
      /\ Worths(d)["services"] = CountScore(IF d.services = 0 THEN None ELSE d.services, 25, 9)
      /\ Worths(d)["repeat_potential"] = LevelScores[d.repeat_potential]
      /\ Worths(d)["brand_value"] = LevelScores[d.brand_value]
      /\ Worths(d)["commercial_estimate"] = Estimate(d.commercial_estimate)
  BY <1>1, FactorsByName, SMT DEF Worth, LevelFactors
<1>3. /\ Worths(d)["announcement_scale"] = ScaleScores[d.announcement_scale]
      /\ Worths(d)["has_event_history"] = TriState(d.has_event_history)
      /\ Worths(d)["marketing_activity"] = LevelScores[d.marketing_activity]
      /\ Worths(d)["comms_activity"] = LevelScores[d.comms_activity]
      /\ Worths(d)["ecosystem_breadth"] = LevelScores[d.ecosystem_breadth]
      /\ Worths(d)["stakeholder_count"] = CountScore(d.stakeholder_count, 20, 8)
      /\ Worths(d)["executive_involvement"] = TriState(d.executive_involvement)
      /\ Worths(d)["probability_estimate"] = Estimate(d.probability_estimate)
  BY <1>1, FactorsByName, SMT DEF Worth, LevelFactors
<1>4. CommercialValue(d) = Rounded(CommercialPoints(Worths(d)))
  BY <1>2, SMT DEF CommercialValue, Rounded, CommercialPoints
<1>5. RawEventProbability(d) =
        Rounded(EventPoints(Worths(d), d.signal_strength, TimingScore[d.window]))
  BY <1>2, <1>3, SMT DEF RawEventProbability, Rounded, EventPoints
<1> QED BY <1>4, <1>5

\* No weight is negative.
LEMMA PointsMonotone ==
  ASSUME NEW v \in [Factors -> Score], NEW w \in [Factors -> Score],
         \A f \in Factors : v[f] =< w[f], NEW strength \in Score, NEW timing \in Score
  PROVE  /\ CommercialPoints(v) \in Int /\ CommercialPoints(w) \in Int
         /\ CommercialPoints(v) =< CommercialPoints(w)
         /\ EventPoints(v, strength, timing) \in Int
         /\ EventPoints(w, strength, timing) \in Int
         /\ EventPoints(v, strength, timing) =< EventPoints(w, strength, timing)
<1>1. \A f \in Factors : v[f] \in Int /\ w[f] \in Int /\ v[f] =< w[f]
  BY SMT DEF Score
<1>2. /\ CommercialPoints(v) \in Int /\ CommercialPoints(w) \in Int
      /\ CommercialPoints(v) =< CommercialPoints(w)
  BY <1>1, FactorsByName, SMT DEF CommercialPoints
<1>3. /\ EventPoints(v, strength, timing) \in Int
      /\ EventPoints(w, strength, timing) \in Int
      /\ EventPoints(v, strength, timing) =< EventPoints(w, strength, timing)
  <2> DEFINE half(u) == 24 * strength + 12 * u["announcement_scale"] + 11 * u["company_size"]
                          + 8 * u["has_event_history"] + 7 * u["marketing_activity"]
             rest(u) == half(u) + 5 * u["comms_activity"] + 7 * u["ecosystem_breadth"]
                          + 5 * u["stakeholder_count"]
  <2>1. strength \in Int /\ timing \in Int
    BY SMT DEF Score
  <2>2. half(v) \in Int /\ half(w) \in Int /\ half(v) =< half(w)
    BY <1>1, <2>1, FactorsByName, SMT
  <2> HIDE DEF half
  <2>3. rest(v) \in Int /\ rest(w) \in Int /\ rest(v) =< rest(w)
    BY <1>1, <2>2, FactorsByName, SMT
  <2>4. \A u : EventPoints(u, strength, timing) =
                 rest(u) + 6 * u["executive_involvement"] + 5 * timing
                   + 10 * u["probability_estimate"]
    BY Zenon DEF EventPoints, half
  <2> HIDE DEF rest
  <2> QED BY <1>1, <2>1, <2>3, <2>4, FactorsByName, SMT
<1> QED BY <1>2, <1>3

\* score_evidence looks at nothing but the circumstances.
LEMMA EvidenceType ==
  ASSUME NEW d, KnownDossier(d)
  PROVE  EvidenceScore(d) \in Score
<1> DEFINE corroboration == CountScore(d.corroborating_sources - 1, 40, 30)
           points == 45 * d.source_tier + 25 * d.source_confidence
                       + 10 * (IF d.dated THEN 100 ELSE 30)
                       + 10 * d.extraction_confidence + 10 * corroboration
<1>1. corroboration \in Int
  BY CircumstancesType, SMT DEF CountScore, Clamp
<1> HIDE DEF corroboration
<1>2. points \in Int
  <2>1. /\ d.source_tier \in Int /\ d.source_confidence \in Int
        /\ d.extraction_confidence \in Int
    BY CircumstancesType, SMT DEF Score
  <2> QED BY <1>1, <2>1, SMT
<1>3. EvidenceScore(d) = Rounded(points)
  BY SMT DEF EvidenceScore, Rounded, corroboration, points
<1> HIDE DEF points
<1> QED BY <1>2, <1>3, RoundedType

\* The evidence and the assertion level come of the circumstances alone.
LEMMA SameEvidence ==
  ASSUME NEW d, NEW e, \A c \in Circumstances : e[c] = d[c]
  PROVE  /\ EvidenceScore(e) = EvidenceScore(d)
         /\ AssertionFor(e.confirmed, e.official) = AssertionFor(d.confirmed, d.official)
         /\ e.signal_strength = d.signal_strength /\ e.window = d.window
         /\ e.contact_quality = d.contact_quality
<1>1. /\ e.signal_strength = d.signal_strength /\ e.window = d.window
      /\ e.contact_quality = d.contact_quality /\ e.source_tier = d.source_tier
      /\ e.source_confidence = d.source_confidence /\ e.dated = d.dated
      /\ e.extraction_confidence = d.extraction_confidence
      /\ e.corroborating_sources = d.corroborating_sources
      /\ e.confirmed = d.confirmed /\ e.official = d.official
  BY SMT DEF Circumstances
<1>2. EvidenceScore(e) = EvidenceScore(d)
  BY <1>1, SMT DEF EvidenceScore
<1> QED BY <1>1, <1>2

\* Multiplying by a natural number keeps the order.
LEMMA WeightMonotone ==
  ASSUME NEW a \in Nat, NEW b \in Nat, NEW weight \in Nat, a =< b
  PROVE  weight * a \in Nat /\ weight * b \in Nat /\ weight * a =< weight * b
<1>1. weight * b - weight * a = weight * (b - a)
  BY SMT
<1>2. b - a \in Nat
  BY SMT
<1>3. \A m, n \in Nat : m * n \in Nat
  BY SMT
<1>4. weight * (b - a) \in Nat /\ weight * a \in Nat /\ weight * b \in Nat
  BY <1>2, <1>3
<1> QED BY <1>1, <1>4, SMT

\* The caps of the event probability only take away, and keep the order.
LEMMA EventProbabilityMonotone ==
  ASSUME NEW raw \in Score, NEW more \in Score, raw =< more, NEW evidence \in Score,
         NEW assertion
  PROVE  /\ EventProbability(raw, evidence, assertion) \in Score
         /\ EventProbability(more, evidence, assertion) \in Score
         /\ EventProbability(raw, evidence, assertion)
              =< EventProbability(more, evidence, assertion)
         /\ EventProbability(raw, evidence, assertion) =< raw
<1> DEFINE cap == 100 * EvidenceCapBase + EvidenceCapSlope * evidence
           unconfirmed == 100 * EventProbabilityCapUnconfirmed
           by(r) == IF 100 * r > cap THEN cap ELSE 100 * r
           capped(r) == IF assertion # "FACT" /\ by(r) > unconfirmed THEN unconfirmed ELSE by(r)
<1>1. cap \in Int /\ unconfirmed \in Int
  <2>1. \A m, n \in Int : m * n \in Int
    BY SMT
  <2>2. EvidenceCapSlope * evidence \in Int
    BY <2>1, SettingsAssumption, SMT DEF Score
  <2> QED BY <2>2, SettingsAssumption, SMT
<1>2. \A r : EventProbability(r, evidence, assertion) = Rounded(capped(r))
  BY SMT DEF EventProbability, Rounded
<1> HIDE DEF cap, unconfirmed
<1>3. /\ capped(raw) \in Int /\ capped(more) \in Int /\ capped(raw) =< capped(more)
      /\ capped(raw) =< 100 * raw /\ 100 * raw \in Int
  BY <1>1, SMT DEF Score
<1> HIDE DEF capped
<1>4. Rounded(capped(raw)) =< raw
  <2> DEFINE whole == 100 * raw
  <2>1. Rounded(whole) = raw
    BY RoundedExact
  <2>2. capped(raw) \in Int /\ whole \in Int /\ capped(raw) =< whole
    BY <1>3
  <2> HIDE DEF whole
  <2> QED BY <2>1, <2>2, RoundedMonotone, Zenon
<1> QED BY <1>2, <1>3, <1>4, RoundedType, RoundedMonotone, Zenon

\* score_opportunity: a lead loses nothing by a higher probability or value.
LEMMA BaseScoreMonotone ==
  ASSUME NEW p \in Score, NEW q \in Score, p =< q, NEW u \in Score, NEW v \in Score, u =< v,
         NEW c \in Score, NEW t \in Score, NEW e \in Score
  PROVE  BaseScore(p, u, c, t, e) =< BaseScore(q, v, c, t, e)
<1> DEFINE points(x, y) == WeightEventProbability * x + WeightCommercialValue * y
                             + WeightContactQuality * c + WeightTiming * t + WeightEvidence * e
<1>1. /\ WeightEventProbability * p \in Nat /\ WeightEventProbability * q \in Nat
      /\ WeightEventProbability * p =< WeightEventProbability * q
  BY WeightMonotone, SettingsAssumption, SMT DEF Score
<1>2. /\ WeightCommercialValue * u \in Nat /\ WeightCommercialValue * v \in Nat
      /\ WeightCommercialValue * u =< WeightCommercialValue * v
  BY WeightMonotone, SettingsAssumption, SMT DEF Score
<1>3. /\ WeightContactQuality * c \in Nat /\ WeightTiming * t \in Nat
      /\ WeightEvidence * e \in Nat
  BY WeightMonotone, SettingsAssumption, SMT DEF Score
<1>4. /\ points(p, u) \in Int /\ points(q, v) \in Int /\ points(p, u) =< points(q, v)
  BY <1>1, <1>2, <1>3, SMT
<1>5. /\ BaseScore(p, u, c, t, e) = Rounded(points(p, u))
      /\ BaseScore(q, v, c, t, e) = Rounded(points(q, v))
  <2>1. BaseScore(p, u, c, t, e) = Rounded(points(p, u))
    BY DEF BaseScore, Rounded
  <2>2. BaseScore(q, v, c, t, e) = Rounded(points(q, v))
    BY DEF BaseScore, Rounded
  <2> QED BY <2>1, <2>2
<1> HIDE DEF points
<1> QED BY <1>4, <1>5, RoundedMonotone, Zenon

\* Every window has a timing score.
LEMMA TimingScoreType ==
  ASSUME NEW window \in Window
  PROVE  TimingScore[window] \in Score
BY SMT DEF Window, TimingScore, Score

\* The scores of a dossier are scores; the event probability is at most the transform
\* of the raw one.
LEMMA DossierTypes ==
  ASSUME NEW d, KnownDossier(d)
  PROVE  /\ CommercialValue(d) \in Score /\ RawEventProbability(d) \in Score
         /\ Transform[RawEventProbability(d)] \in Score
         /\ TimingScore[d.window] \in Score /\ d.contact_quality \in Score
         /\ EvidenceScore(d) \in Score
<1>1. /\ Worths(d) \in [Factors -> Score] /\ d.signal_strength \in Score
      /\ TimingScore[d.window] \in Score /\ d.contact_quality \in Score
  BY WorthsType, CircumstancesType, TimingScoreType, Zenon
<1> DEFINE w == Worths(d)
           c == CommercialPoints(w)
           r == EventPoints(w, d.signal_strength, TimingScore[d.window])
<1>2. \A f \in Factors : w[f] =< w[f]
  BY <1>1, SMT DEF Score
<1>3. c \in Int /\ r \in Int
  BY <1>1, <1>2, PointsMonotone, Zenon
<1>4. CommercialValue(d) = Rounded(c) /\ RawEventProbability(d) = Rounded(r)
  BY ScoresByWorth, Zenon
<1> HIDE DEF c, r, w
<1>5. CommercialValue(d) \in Score /\ RawEventProbability(d) \in Score
  BY <1>3, <1>4, RoundedType, Zenon
<1> QED BY <1>1, <1>5, EvidenceType, TransformAssumption, Zenon

\* A dossier whose factors are worth no less scores no less.
LEMMA ScoresMonotone ==
  ASSUME NEW d, NEW e, KnownDossier(d), KnownDossier(e),
         \A c \in Circumstances : e[c] = d[c],
         \A f \in Factors : Worths(d)[f] =< Worths(e)[f]
  PROVE  /\ CommercialValue(d) =< CommercialValue(e)
         /\ RawEventProbability(d) =< RawEventProbability(e)
         /\ DossierScore(d) =< DossierScore(e)
<1>1. /\ Worths(d) \in [Factors -> Score] /\ Worths(e) \in [Factors -> Score]
      /\ d.signal_strength \in Score /\ TimingScore[d.window] \in Score
  BY WorthsType, CircumstancesType, TimingScoreType, Zenon
<1>2. /\ EvidenceScore(e) = EvidenceScore(d)
      /\ AssertionFor(e.confirmed, e.official) = AssertionFor(d.confirmed, d.official)
      /\ e.signal_strength = d.signal_strength /\ e.window = d.window
      /\ e.contact_quality = d.contact_quality
  BY SameEvidence, Zenon
<1> DEFINE v == Worths(d)
           w == Worths(e)
           s == d.signal_strength
           t == TimingScore[d.window]
<1>3. /\ CommercialValue(d) = Rounded(CommercialPoints(v))
      /\ CommercialValue(e) = Rounded(CommercialPoints(w))
      /\ RawEventProbability(d) = Rounded(EventPoints(v, s, t))
      /\ RawEventProbability(e) = Rounded(EventPoints(w, s, t))
  BY <1>2, ScoresByWorth, Zenon
<1> HIDE DEF v, w, s, t
<1>4. /\ CommercialPoints(v) \in Int /\ CommercialPoints(w) \in Int
      /\ CommercialPoints(v) =< CommercialPoints(w)
      /\ EventPoints(v, s, t) \in Int /\ EventPoints(w, s, t) \in Int
      /\ EventPoints(v, s, t) =< EventPoints(w, s, t)
  <2>1. v \in [Factors -> Score] /\ w \in [Factors -> Score] /\ s \in Score /\ t \in Score
    BY <1>1 DEF v, w, s, t
  <2>2. \A f \in Factors : v[f] =< w[f]
    BY DEF v, w
  <2> QED BY <2>1, <2>2, PointsMonotone, Zenon
<1>5. /\ CommercialValue(d) =< CommercialValue(e)
      /\ RawEventProbability(d) =< RawEventProbability(e)
  BY <1>3, <1>4, RoundedMonotone, Zenon
<1>6. DossierScore(d) =< DossierScore(e)
  <2> DEFINE evidence == EvidenceScore(d)
             assertion == AssertionFor(d.confirmed, d.official)
             p == Transform[RawEventProbability(d)]
             q == Transform[RawEventProbability(e)]
  <2>1. p \in Score /\ q \in Score /\ p =< q /\ evidence \in Score
    BY <1>5, DossierTypes, TransformAssumption, Zenon
  <2>2. /\ DossierScore(d) = BaseScore(EventProbability(p, evidence, assertion),
              CommercialValue(d), d.contact_quality, TimingScore[d.window], evidence)
        /\ DossierScore(e) = BaseScore(EventProbability(q, evidence, assertion),
              CommercialValue(e), d.contact_quality, TimingScore[d.window], evidence)
    BY <1>2, SMT DEF DossierScore
  <2> HIDE DEF evidence, assertion, p, q
  <2>3. /\ EventProbability(p, evidence, assertion) \in Score
        /\ EventProbability(q, evidence, assertion) \in Score
        /\ EventProbability(p, evidence, assertion) =< EventProbability(q, evidence, assertion)
    BY <2>1, EventProbabilityMonotone, Zenon
  <2>4. /\ CommercialValue(d) \in Score /\ CommercialValue(e) \in Score
        /\ d.contact_quality \in Score /\ TimingScore[d.window] \in Score
    BY DossierTypes, Zenon
  <2> DEFINE x == EventProbability(p, evidence, assertion)
             y == EventProbability(q, evidence, assertion)
             c == d.contact_quality
             t_ == TimingScore[d.window]
  <2> HIDE DEF x, y, c, t_
  <2>5. /\ DossierScore(d) = BaseScore(x, CommercialValue(d), c, t_, evidence)
        /\ DossierScore(e) = BaseScore(y, CommercialValue(e), c, t_, evidence)
    BY <2>2, Zenon DEF x, y, c, t_
  <2>6. /\ x \in Score /\ y \in Score /\ x =< y /\ c \in Score /\ t_ \in Score
    BY <2>3, <2>4, Zenon DEF x, y, c, t_
  <2>7. BaseScore(x, CommercialValue(d), c, t_, evidence)
          =< BaseScore(y, CommercialValue(e), c, t_, evidence)
    BY <1>5, <2>1, <2>4, <2>6, BaseScoreMonotone
  <2> QED BY <2>5, <2>7, Zenon
<1> QED BY <1>5, <1>6

-----------------------------------------------------------------------------
(***************************************************************************)
(* The invariant: a dropped text was rightly dropped, and a dossier is a   *)
(* lead of which more has come to be known.                                *)
(***************************************************************************)
AssessInv ==
  /\ stage \in {"reading", "dropped", "rated"}
  /\ stage # "rated" => text \in Text
  /\ stage = "dropped" => ~IsRelevant(text)
  /\ stage = "rated" => KnownDossier(dossier)

\* A text is read with no dossier yet.
LEMMA AssessInitInv == AssessInit => AssessInv
BY AssessmentAssumption, Zenon DEF AssessInit, AssessInv

\* A text with one more term found is a text.
LEMMA FoundText ==
  ASSUME NEW v \in {"events", "business", "corporate", "noise"}, NEW t \in Text
  PROVE  [t EXCEPT ![v] = @ + 1] \in Text
<1>1. t[v] + 1 \in Nat
  BY SMT DEF Text
<1> QED BY <1>1, SMT DEF Text

\* Each step keeps it.
LEMMA AssessNextInv ==
  ASSUME AssessInv, [AssessNext]_assess_vars
  PROVE  AssessInv'
<1>1. ASSUME NEW v \in {"events", "business", "corporate", "noise"}, Find(v)
      PROVE  AssessInv'
  <2>1. stage = "reading" /\ stage' = stage /\ text' = [text EXCEPT ![v] = @ + 1]
    BY <1>1, Zenon DEF Find
  <2>2. text' \in Text
    BY <2>1, FoundText, Zenon DEF AssessInv
  <2> QED BY <2>1, <2>2, Zenon DEF AssessInv
<1>2. ASSUME NEW lead \in Leads, Judge(lead)
      PROVE  AssessInv'
  <2>1. CASE IsRelevant(text)
    <3>1. stage' = "rated" /\ dossier' = lead
      BY <1>2, <2>1, Zenon DEF Judge
    <3> QED BY <3>1, LeadIsDossier, Zenon DEF AssessInv
  <2>2. CASE ~IsRelevant(text)
    <3>1. stage = "reading" /\ stage' = "dropped" /\ text' = text
      BY <1>2, <2>2, Zenon DEF Judge
    <3> QED BY <2>2, <3>1, Zenon DEF AssessInv
  <2> QED BY <2>1, <2>2
<1>3. ASSUME NEW f \in DOMAIN Facts, NEW i \in DOMAIN Facts[f], Learn(f, i)
      PROVE  AssessInv'
  <2>1. stage = "rated" /\ stage' = stage /\ KnownDossier(dossier)
    BY <1>3, Zenon DEF Learn, AssessInv
  <2>2. KnownDossier(dossier')
    BY <1>3, <2>1, LearnRaises, Zenon
  <2>3. KnownDossier(dossier)'
    BY <2>2, Zenon DEF KnownDossier
  <2> QED BY <2>1, <2>3, Zenon DEF AssessInv
<1>4. CASE UNCHANGED assess_vars
  BY <1>4, SMT DEF assess_vars, AssessInv, KnownDossier
<1> QED BY <1>1, <1>2, <1>3, <1>4, Zenon DEF AssessNext

\* A dossier never knows of a factor what its scale does not have, nor differs from
\* its lead otherwise.
THEOREM AssessInvariance == AssessSpec => []AssessInv
<1>1. AssessInit => AssessInv
  BY AssessInitInv
<1>2. AssessInv /\ [AssessNext]_assess_vars => AssessInv'
  BY AssessNextInv
<1> QED BY <1>1, <1>2, PTL DEF AssessSpec

\* A fact that is not adverse, or is better than what was known, lowers no score.
LEMMA LearnLowersNothing ==
  ASSUME AssessInv, NEW f \in DOMAIN Facts, NEW i \in DOMAIN Facts[f],
         Learn(f, i), f \in dossier.known \/ ~Adverse(f, i)
  PROVE  NoScoreFalls
<1>1. KnownDossier(dossier)
  BY Zenon DEF Learn, AssessInv
<1>2. /\ KnownDossier(dossier')
      /\ \A c \in Circumstances : dossier'[c] = dossier[c]
      /\ \A g \in Factors : Worths(dossier)[g] =< Worths(dossier')[g]
  BY <1>1, LearnRaises, Zenon
<1>3. /\ CommercialValue(dossier) =< CommercialValue(dossier')
      /\ RawEventProbability(dossier) =< RawEventProbability(dossier')
      /\ DossierScore(dossier) =< DossierScore(dossier')
  BY <1>1, <1>2, ScoresMonotone, Zenon
<1> QED BY <1>3, SMT DEF NoScoreFalls

\* Whatever the settings, the transform and the figures: no score of a lead falls but
\* by an answer at the bottom of its scale, an estimate below 30 or a roster of fewer
\* than two stakeholders, and none by a better word on what was known.
THEOREM OnlyAdverseFactsEverCost == AssessSpec => OnlyAdverseFactsCost
<1>1. AssessInv /\ [AssessNext]_assess_vars =>
        [\A factor \in DOMAIN Facts : \A i \in DOMAIN Facts[factor] :
           Learn(factor, i) /\ (factor \in dossier.known \/ ~Adverse(factor, i)) =>
             NoScoreFalls]_assess_vars
  BY LearnLowersNothing, Zenon
<1> QED BY <1>1, AssessInvariance, PTL DEF AssessSpec, OnlyAdverseFactsCost

\* With settings under which four event terms are enough by themselves, for the
\* sufficiency of an announcement and for the score of the gate, as they are by
\* default, a clean announcement is never dropped.
THEOREM AnnouncementsAlwaysKept ==
  ASSUME RelevanceEventSufficiencyHits =< 4, RelevanceMinScore =< 4 * RelevanceWeightEvent,
         RelevanceMinScore =< 100
  PROVE  AssessSpec => []AnnouncementsKept
<1>1. ASSUME NEW t \in Text, t.long, t.events >= 4, t.noise = 0, t.weak = 0, t.title_noise = 0
      PROVE  IsRelevant(t)
  <2>1. /\ t.events \in Nat /\ t.business \in Nat /\ t.corporate \in Nat
    BY <1>1, SMT DEF Text
  <2>2. ~Noisy(t)
    BY <1>1, <2>1, RelevanceAssumption, SMT DEF Noisy
  <2>3. Substantial(t)
    BY <1>1, <2>1, RelevanceAssumption, SMT DEF Substantial, Announces
  <2>4. RelevanceScore(t) >= RelevanceMinScore
    <3> DEFINE events == AtMost(t.events, 5)
               business == AtMost(t.business, 8) * RelevanceWeightBusiness
               corporate == AtMost(t.corporate, 5) * RelevanceWeightCorporate
    <3>1. events \in Nat /\ 4 =< events
      BY <1>1, <2>1, SMT DEF AtMost
    <3>2. business \in Nat /\ corporate \in Nat
      <4>1. AtMost(t.business, 8) \in Nat /\ AtMost(t.corporate, 5) \in Nat
        BY <2>1, SMT DEF AtMost
      <4>2. \A m, n \in Nat : m * n \in Nat
        BY SMT
      <4> QED BY <4>1, <4>2, RelevanceAssumption, Zenon
    <3>3. RelevanceWeightEvent * events \in Nat
          /\ RelevanceWeightEvent * 4 =< RelevanceWeightEvent * events
      <4>1. RelevanceWeightEvent \in Nat /\ 4 \in Nat
        BY RelevanceAssumption, SMT
      <4> HIDE DEF events
      <4> QED BY <3>1, <4>1, WeightMonotone, Zenon
    <3>4. events * RelevanceWeightEvent = RelevanceWeightEvent * events
      BY <3>1, RelevanceAssumption, SMT
    <3>5. RelevanceScore(t) = AtMost(events * RelevanceWeightEvent + business + corporate, 100)
      BY Zenon DEF RelevanceScore
    <3> HIDE DEF events, business, corporate
    <3> QED BY <3>2, <3>3, <3>4, <3>5, RelevanceAssumption, SMT DEF AtMost
  <2> QED BY <1>1, <2>2, <2>3, <2>4, Zenon DEF IsRelevant
<1>2. AssessInv => AnnouncementsKept
  BY <1>1, Zenon DEF AssessInv, AnnouncementsKept
<1> QED BY <1>2, AssessInvariance, PTL

-----------------------------------------------------------------------------
(***************************************************************************)
(* Thin leads.  With the weights and the floor of config.py, and an        *)
(* exponent that takes 59 points to 52 as 1.25 does, no circumstances make *)
(* up for what is not known.                                               *)
(***************************************************************************)
DefaultWeights ==
  /\ WeightEventProbability = 35 /\ WeightCommercialValue = 25 /\ WeightContactQuality = 20
  /\ WeightTiming = 10 /\ WeightEvidence = 10
  /\ MinQualifyingScore = 70

CommercialOnly ==
  {"attendee_band", "production_complexity", "services", "repeat_potential", "brand_value",
   "commercial_estimate"}

\* The factors are finitely many.
LEMMA FactorsFinite == IsFiniteSet(Factors)
<1>1. \A a, b, c, d : IsFiniteSet({a, b, c, d})
  <2> SUFFICES ASSUME NEW a, NEW b, NEW c, NEW d
               PROVE  IsFiniteSet({a, b, c, d})
    OBVIOUS
  <2>1. IsFiniteSet({a} \cup {b}) /\ IsFiniteSet({c} \cup {d})
    BY FS_Singleton, FS_Union
  <2>2. IsFiniteSet(({a} \cup {b}) \cup ({c} \cup {d}))
    BY <2>1, FS_Union
  <2>3. ({a} \cup {b}) \cup ({c} \cup {d}) = {a, b, c, d}
    BY Zenon
  <2> QED BY <2>2, <2>3
<1> DEFINE A == {"company_size", "attendee_band", "announcement_scale", "has_event_history"}
           B == {"production_complexity", "repeat_potential", "brand_value",
                 "marketing_activity"}
           C == {"comms_activity", "ecosystem_breadth", "executive_involvement",
                 "executive_involvement"}
           D == {"services", "stakeholder_count", "commercial_estimate",
                 "probability_estimate"}
<1>2. Factors = (A \cup B) \cup (C \cup D)
  BY Zenon DEF Factors, LevelFactors
<1>3. IsFiniteSet(A) /\ IsFiniteSet(B) /\ IsFiniteSet(C) /\ IsFiniteSet(D)
  BY <1>1, Zenon
<1> HIDE DEF A, B, C, D
<1> QED BY <1>2, <1>3, FS_Union, Zenon

\* With at most one fact known, every other factor is worth what an unknown is.
LEMMA ThinWorths ==
  ASSUME NEW d, KnownDossier(d), Cardinality(d.known) =< 1
  PROVE  \E g \in Factors : \A f \in Factors \ {g} :
           Worths(d)[f] = UnknownIsWorth(f)
<1>1. PICK lead \in Leads :
        /\ d.known \subseteq Factors
        /\ \A f \in DOMAIN lead \ (d.known \cup {"known"}) : d[f] = lead[f]
  BY Zenon DEF KnownDossier
<1>2. \E g \in Factors : d.known \subseteq {g}
  <2>1. IsFiniteSet(Factors)
    BY FactorsFinite
  <2>2. IsFiniteSet(d.known)
    BY <1>1, <2>1, FS_Subset
  <2>3. CASE d.known = {}
    BY <2>3, FactorsByName, Zenon
  <2>4. CASE d.known # {}
    <3>1. PICK g : g \in d.known
      BY <2>4
    <3>2. /\ IsFiniteSet(d.known \ {g})
          /\ Cardinality(d.known \ {g}) = Cardinality(d.known) - 1
      BY <2>2, <3>1, FS_RemoveElement
    <3>3. Cardinality(d.known) \in Nat /\ Cardinality(d.known \ {g}) \in Nat
      BY <2>2, <3>2, FS_CardinalityType
    <3>4. Cardinality(d.known \ {g}) = 0
      BY <3>2, <3>3, SMT
    <3>5. d.known \ {g} = {}
      BY <3>2, <3>4, FS_EmptySet
    <3> QED BY <1>1, <3>1, <3>5, Zenon
  <2> QED BY <2>3, <2>4
<1>3. PICK g \in Factors : d.known \subseteq {g}
  BY <1>2
<1>4. \A f \in Factors \ {g} : d[f] = lead[f]
  BY <1>1, <1>3, LeadColumns, FactorNames, Zenon
<1>5. \A f \in Factors : Worths(d)[f] = Worth(f, d[f])
  BY Zenon DEF Worths
<1>6. \A f \in Factors \ {g} : Worths(d)[f] = UnknownIsWorth(f)
  <2> SUFFICES ASSUME NEW f \in Factors \ {g}
               PROVE  Worths(d)[f] = UnknownIsWorth(f)
    OBVIOUS
  <2>1. Worths(d)[f] = Worth(f, lead[f])
    BY <1>4, <1>5, Zenon
  <2>2. Worth(f, lead[f]) = UnknownIsWorth(f)
    BY UnknownWorth
  <2> QED BY <2>1, <2>2, Zenon
<1> QED BY <1>3, <1>6, Zenon

\* What one fact can make of a lead: worth a whole scale to the event, to the value of
\* the work, or, if it is the size of the company, to both.
LEMMA ThinScores ==
  ASSUME NEW d, KnownDossier(d), Cardinality(d.known) =< 1
  PROVE  \/ RawEventProbability(d) =< 60 /\ CommercialValue(d) =< 32
         \/ RawEventProbability(d) =< 52 /\ CommercialValue(d) =< 44
         \/ RawEventProbability(d) =< 59 /\ CommercialValue(d) =< 45
<1> DEFINE w == Worths(d)
           strength == d.signal_strength
           timing == TimingScore[d.window]
           r == EventPoints(w, strength, timing)
           c == CommercialPoints(w)
<1>1. PICK g \in Factors : \A f \in Factors \ {g} : w[f] = UnknownIsWorth(f)
  BY ThinWorths, Zenon
<1>2. /\ w \in [Factors -> Score] /\ strength \in Score /\ timing \in Score
  BY WorthsType, CircumstancesType, TimingScoreType, Zenon
<1>3. /\ CommercialValue(d) = Rounded(c) /\ RawEventProbability(d) = Rounded(r)
  BY ScoresByWorth, Zenon
<1> HIDE DEF w, strength, timing
<1>4. /\ \A f \in Factors : w[f] \in Int /\ 0 =< w[f] /\ w[f] =< 100
      /\ strength \in Int /\ strength =< 100 /\ timing \in Int /\ timing =< 100
  BY <1>2, SMT DEF Score
<1>5. r \in Int /\ c \in Int
  <2>1. \A f \in Factors : w[f] =< w[f]
    BY <1>4, SMT
  <2> QED BY <1>2, <2>1, PointsMonotone, Zenon
<1>6. /\ g # "company_size" => w["company_size"] = 35
      /\ g # "attendee_band" => w["attendee_band"] = 35
      /\ g # "production_complexity" => w["production_complexity"] = 30
      /\ g # "services" => w["services"] = 30
      /\ g # "repeat_potential" => w["repeat_potential"] = 30
      /\ g # "brand_value" => w["brand_value"] = 30
      /\ g # "commercial_estimate" => w["commercial_estimate"] = 30
  BY <1>1, FactorsByName, SMT DEF UnknownIsWorth, LevelFactors
<1>7. /\ g # "announcement_scale" => w["announcement_scale"] = 30
      /\ g # "has_event_history" => w["has_event_history"] = 35
      /\ g # "marketing_activity" => w["marketing_activity"] = 30
      /\ g # "comms_activity" => w["comms_activity"] = 30
      /\ g # "ecosystem_breadth" => w["ecosystem_breadth"] = 30
      /\ g # "stakeholder_count" => w["stakeholder_count"] = 30
      /\ g # "executive_involvement" => w["executive_involvement"] = 35
      /\ g # "probability_estimate" => w["probability_estimate"] = 30
  BY <1>1, FactorsByName, SMT DEF UnknownIsWorth, LevelFactors
<1>8. /\ Rounded(5995) = 60 /\ Rounded(5155) = 52 /\ Rounded(5870) = 59
      /\ Rounded(3190) = 32 /\ Rounded(4450) = 44 /\ Rounded(4490) = 45
  BY SMT DEF Rounded, Round, Clamp
<1>9. CASE g = "company_size"
  <2>1. r =< 5870
    BY <1>4, <1>7, <1>9, FactorsByName, SMT DEF EventPoints
  <2>2. c =< 4490
    BY <1>4, <1>6, <1>9, FactorsByName, SMT DEF CommercialPoints
  <2> HIDE DEF r, c
  <2> QED BY <1>3, <1>5, <1>8, <2>1, <2>2, RoundedMonotone, SMT
<1>10. CASE g \in CommercialOnly
  <2>1. r =< 5155
    BY <1>4, <1>6, <1>7, <1>10, FactorsByName, SMT DEF EventPoints, CommercialOnly
  <2>2. c =< 4450
    <3>1. g \in {"attendee_band"} \/ g \in {"production_complexity", "services"}
            \/ g \in {"repeat_potential", "brand_value"} \/ g \in {"commercial_estimate"}
      BY <1>10, Zenon DEF CommercialOnly
    <3>2. w["company_size"] = 35
      BY <1>6, <1>10, SMT DEF CommercialOnly
    <3>3. CASE g \in {"attendee_band"}
      BY <1>4, <1>6, <3>2, <3>3, FactorsByName, SMT DEF CommercialPoints
    <3>4. CASE g \in {"production_complexity", "services"}
      BY <1>4, <1>6, <3>2, <3>4, FactorsByName, SMT DEF CommercialPoints
    <3>5. CASE g \in {"repeat_potential", "brand_value"}
      BY <1>4, <1>6, <3>2, <3>5, FactorsByName, SMT DEF CommercialPoints
    <3>6. CASE g \in {"commercial_estimate"}
      BY <1>4, <1>6, <3>2, <3>6, FactorsByName, SMT DEF CommercialPoints
    <3> HIDE DEF c
    <3> QED BY <3>1, <3>3, <3>4, <3>5, <3>6
  <2> HIDE DEF r, c
  <2> QED BY <1>3, <1>5, <1>8, <2>1, <2>2, RoundedMonotone, SMT
<1>11. CASE g \in Factors \ (CommercialOnly \cup {"company_size"})
  <2>1. r =< 5995
    <3>1. w["company_size"] = 35
      BY <1>6, <1>11, Zenon
    <3>2. CASE g \in {"announcement_scale", "has_event_history"}
      BY <1>4, <1>7, <3>1, <3>2, FactorsByName, SMT DEF EventPoints
    <3>3. CASE g \in {"marketing_activity", "comms_activity"}
      BY <1>4, <1>7, <3>1, <3>3, FactorsByName, SMT DEF EventPoints
    <3>4. CASE g \in {"ecosystem_breadth", "stakeholder_count"}
      BY <1>4, <1>7, <3>1, <3>4, FactorsByName, SMT DEF EventPoints
    <3>5. CASE g \in {"executive_involvement", "probability_estimate"}
      BY <1>4, <1>7, <3>1, <3>5, FactorsByName, SMT DEF EventPoints
    <3>6. \/ g \in {"announcement_scale", "has_event_history"}
          \/ g \in {"marketing_activity", "comms_activity"}
          \/ g \in {"ecosystem_breadth", "stakeholder_count"}
          \/ g \in {"executive_involvement", "probability_estimate"}
      BY <1>11, SMT DEF Factors, LevelFactors, CommercialOnly
    <3> HIDE DEF r
    <3> QED BY <3>2, <3>3, <3>4, <3>5, <3>6
  <2>2. c =< 3190
    BY <1>4, <1>6, <1>11, FactorsByName, SMT DEF CommercialPoints, CommercialOnly
  <2> HIDE DEF r, c
  <2> QED BY <1>3, <1>5, <1>8, <2>1, <2>2, RoundedMonotone, SMT
<1> QED BY <1>9, <1>10, <1>11, Zenon

\* The best roster, timing and evidence leave thirty points to be earned.
LEMMA RestIsNotEnough ==
  ASSUME DefaultWeights, NEW x \in Score, NEW u \in Score, NEW c \in Score, NEW t \in Score,
         NEW e \in Score, 35 * x + 25 * u =< 2949
  PROVE  ~IsQualified(BaseScore(x, u, c, t, e))
<1> DEFINE points == 35 * x + 25 * u + 20 * c + 10 * t + 10 * e
<1>1. points \in Int /\ points =< 6949
  BY SMT DEF Score
<1>2. BaseScore(x, u, c, t, e) = Rounded(points)
  BY SMT DEF BaseScore, Rounded, DefaultWeights
<1> HIDE DEF points
<1>3. Rounded(6949) = 69
  BY SMT DEF Rounded, Round, Clamp
<1>4. Rounded(points) =< 69 /\ Rounded(points) \in Score
  BY <1>1, <1>3, RoundedMonotone, RoundedType
<1> QED BY <1>2, <1>4, SMT DEF IsQualified, DefaultWeights, Score

\* By default no lead of which one thing is known qualifies, whatever its signal, its
\* source, its evidence, its timing and its roster.
THEOREM ThinLeadsNeverQualify ==
  ASSUME DefaultWeights, Transform[59] =< 52
  PROVE  AssessSpec => []ThinLeadNeverQualifies
<1>1. ASSUME NEW d, KnownDossier(d), Cardinality(d.known) =< 1
      PROVE  ~IsQualified(DossierScore(d))
  <2> DEFINE raw == RawEventProbability(d)
             p == Transform[raw]
             u == CommercialValue(d)
             evidence == EvidenceScore(d)
             assertion == AssertionFor(d.confirmed, d.official)
             x == EventProbability(p, evidence, assertion)
             c == d.contact_quality
             t == TimingScore[d.window]
  <2>1. DossierScore(d) = BaseScore(x, u, c, t, evidence)
    BY Zenon DEF DossierScore
  <2>2. /\ raw \in Score /\ p \in Score /\ u \in Score /\ evidence \in Score /\ c \in Score
        /\ t \in Score
    BY <1>1, DossierTypes, Zenon
  <2>3. \/ raw =< 60 /\ u =< 32
        \/ raw =< 52 /\ u =< 44
        \/ raw =< 59 /\ u =< 45
    BY <1>1, ThinScores, Zenon
  <2> HIDE DEF raw, u, evidence, assertion, c, t
  <2>4. p =< raw /\ (raw =< 59 => p =< 52)
    <3>1. 59 \in Score /\ Transform[59] \in Score
      <4>1. 59 \in Score
        BY SMT DEF Score
      <4> QED BY <4>1, TransformAssumption, Zenon
    <3>2. \A i \in Score : Transform[i] =< i
      BY TransformAssumption
    <3>3. \A i, j \in Score : i =< j => Transform[i] =< Transform[j]
      BY TransformAssumption
    <3>4. p =< raw
      BY <2>2, <3>2
    <3>5. raw =< 59 => p =< Transform[59]
      BY <2>2, <3>1, <3>3
    <3> HIDE DEF p
    <3> QED BY <2>2, <3>1, <3>4, <3>5, SMT DEF Score
  <2> HIDE DEF p
  <2>5. x \in Score /\ x =< p
    <3>1. p =< p
      BY <2>2, SMT DEF Score
    <3> QED BY <2>2, <3>1, EventProbabilityMonotone, Zenon
  <2> HIDE DEF x
  <2>6. 35 * x + 25 * u =< 2949
    BY <2>2, <2>3, <2>4, <2>5, SMT DEF Score
  <2>7. ~IsQualified(BaseScore(x, u, c, t, evidence))
    BY <2>2, <2>5, <2>6, RestIsNotEnough
  <2> QED BY <2>1, <2>7, Zenon DEF x, u, c, t, evidence, p, raw, assertion
<1>2. AssessInv => ThinLeadNeverQualifies
  BY <1>1, Zenon DEF AssessInv, ThinLeadNeverQualifies
<1> QED BY <1>2, AssessInvariance, PTL
=============================================================================
