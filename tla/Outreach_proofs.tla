--------------------------- MODULE Outreach_proofs ---------------------------
(***************************************************************************)
(* Proofs about Outreach, for any companies, contacts, requests, times and *)
(* dates: the two views agree with the contacts, no promised follow-up     *)
(* leaves the working list, and the roll-up implements Account.            *)
(***************************************************************************)
EXTENDS Outreach, WellFoundedInduction, FiniteSetTheorems, TLAPS

\* No interaction lies beyond some time: the log is finite.
Bounded == \E b \in Nat : \A i \in DOMAIN log : log[i].occurred_at =< b

\* A contact is worked for its own company.
OwnCompany ==
  /\ \A i \in DOMAIN log : log[i].contact # None => log[i].company = CompanyOf[log[i].contact]
  /\ \A r \in Requests : request[r] # Idle /\ request[r].contact # None =>
       request[r].company = CompanyOf[request[r].contact]

\* What a contact's columns say, some entry about that contact has said.
StatusSaid ==
  \A k \in Contacts : contact[k].outreach_status = "NOT_CONTACTED" \/
    \E i \in DOMAIN log : log[i].contact = k /\ log[i].status_after = contact[k].outreach_status
ContactedSaid ==
  \A k \in Contacts : contact[k].last_contacted_at = None \/
    \E i \in DOMAIN log :
      log[i].contact = k /\ SetsContacted(log[i]) /\ log[i].occurred_at = contact[k].last_contacted_at
FollowUpSaid ==
  \A k \in Contacts : contact[k].next_follow_up_on = None \/
    \E i \in DOMAIN log :
      log[i].contact = k /\ SetsFollowUp(log[i])
      /\ log[i].next_follow_up_on = contact[k].next_follow_up_on

\* A promise to a contact stays in its column, and was there if a request read it.
PromiseKept ==
  /\ \A i \in DOMAIN log : log[i].contact # None /\ SetsFollowUp(log[i]) =>
       contact[log[i].contact].next_follow_up_on # None
  /\ \A r \in Requests :
       request[r] # Idle /\ request[r].contact # None /\ request[r].row.next_follow_up_on # None =>
         contact[request[r].contact].next_follow_up_on # None

\* What is inductive.
Inv == TypeOK /\ Bounded /\ OwnCompany /\ StatusSaid /\ ContactedSaid /\ FollowUpSaid /\ PromiseKept

-----------------------------------------------------------------------------
(***************************************************************************)
(* Sets of numbers.                                                        *)
(***************************************************************************)

\* A set of numbers that is not empty has a least member.
LEMMA LeastIs ==
  ASSUME NEW S, S \subseteq Nat, S # {}, NEW none
  PROVE  Least(S, none) \in S /\ \A n \in S : Least(S, none) =< n
<1> DEFINE below == {p \in Nat \X Nat : p[1] < p[2]}
<1>1. IsWellFoundedOn(below, Nat)
  BY NatLessThanWellFounded DEF OpToRel
<1>2. PICK m \in S : \A n \in S : ~(<<n, m>> \in below)
  <2> HIDE DEF below
  <2> QED BY <1>1, WFMin, Zenon
<1>3. ASSUME NEW n \in S PROVE m =< n
  <2>1. ~(<<n, m>> \in below) /\ n \in Nat /\ m \in Nat
    BY <1>2
  <2> QED BY <2>1
<1> QED BY <1>3 DEF Least

\* A set of numbers with a bound has a greatest member.
LEMMA GreatestIs ==
  ASSUME NEW S, S \subseteq Nat, S # {}, NEW b \in Nat, \A n \in S : n =< b, NEW none
  PROVE  Greatest(S, none) \in S /\ \A n \in S : n =< Greatest(S, none)
<1> DEFINE U == {b - n : n \in S}
<1>1. U \subseteq Nat
  OBVIOUS
<1>2. PICK u \in U : \A v \in U : u =< v
  <2>1. PICK n0 \in S : b - n0 \in U
    OBVIOUS
  <2> HIDE DEF U
  <2> QED BY <1>1, <2>1, LeastIs
<1>3. PICK m \in S : u = b - m
  BY <1>2
<1>4. ASSUME NEW n \in S PROVE n =< m
  <2>1. b - n \in U
    OBVIOUS
  <2>2. u =< b - n
    BY <2>1, <1>2
  <2> QED BY <2>2, <1>3
<1> QED BY <1>4 DEF Greatest

\* Every status has a place in the progression, the first that of no contact yet.
LEMMA Ranks ==
  /\ \A s \in OutreachStatus : Rank(s) \in 1..9
  /\ Rank("NOT_CONTACTED") = 1
  /\ "NOT_CONTACTED" \in OutreachStatus
<1>1. ASSUME NEW s \in OutreachStatus PROVE Rank(s) \in 1..9
  <2>1. PICK i \in 1..9 : Progression[i] = s
    BY DEF OutreachStatus
  <2> QED BY <2>1, Zenon DEF Rank
<1>2. \A i \in 1..9 : Progression[i] = "NOT_CONTACTED" <=> i = 1
  BY DEF Progression
<1>3. Rank("NOT_CONTACTED") = 1
  BY <1>2 DEF Rank
<1>4. "NOT_CONTACTED" \in OutreachStatus
  <2>1. 1 \in 1..9 /\ Progression[1] = "NOT_CONTACTED"
    BY <1>2
  <2> QED BY <2>1, Zenon DEF OutreachStatus
<1> QED BY <1>1, <1>3, <1>4

-----------------------------------------------------------------------------
(***************************************************************************)
(* What a commit does.                                                     *)
(***************************************************************************)

\* What a request writes to the log is an entry of it.
LEMMA EntryType ==
  ASSUME TypeOK, NEW r \in Requests, request[r] # Idle,
         NEW a \in Actions, NEW s \in Given, NEW t \in Times, NEW d \in Dates \cup {None}
  PROVE  EntryOf(request[r], a, s, t, d) \in Entry
<1>1. StatusAfter(a, s) \in OutreachStatus
  <2>1. Implied(a) \in {"CONTACTED", "ATTEMPTED", "IN_DISCUSSION", "PROPOSAL_SENT", "NOT_CONTACTED"}
    BY DEF Implied
  <2>2. {"CONTACTED", "ATTEMPTED", "IN_DISCUSSION", "PROPOSAL_SENT", "NOT_CONTACTED"}
          \subseteq OutreachStatus
    <3>1. /\ Progression[1] = "NOT_CONTACTED" /\ Progression[2] = "ATTEMPTED"
          /\ Progression[3] = "CONTACTED" /\ Progression[4] = "IN_DISCUSSION"
          /\ Progression[6] = "PROPOSAL_SENT"
      BY DEF Progression
    <3> HIDE DEF Progression
    <3> QED BY <3>1 DEF OutreachStatus
  <2>3. s = None \/ s \in OutreachStatus
    BY OutreachAssumption
  <2> QED BY <2>1, <2>2, <2>3 DEF StatusAfter
<1>2. /\ request[r].company \in Companies /\ request[r].contact \in Contacts \cup {None}
      /\ request[r].seen \in Nat
  BY DEF TypeOK
<1> QED BY <1>1, <1>2 DEF EntryOf, Entry

\* The log after an entry: what was there, and the entry.
LEMMA Appended ==
  ASSUME NEW l, l \in Seq(Entry), NEW e \in Entry, NEW m, m = Append(l, e)
  PROVE  /\ DOMAIN l = 1..Len(l) /\ Len(l) \in Nat
         /\ DOMAIN m = DOMAIN l \cup {Len(l) + 1} /\ Len(l) + 1 \notin DOMAIN l
         /\ \A i \in DOMAIN l : m[i] = l[i]
         /\ m[Len(l) + 1] = e
         /\ m \in Seq(Entry)
  OBVIOUS

\* A column of the contact is what it was, or what the entry sets it to.
LEMMA Columns ==
  ASSUME NEW current \in ContactRow, NEW read \in ContactRow, NEW e \in Entry
  PROVE  LET row == Merged(current, read, RolledForward(read, e))
         IN  /\ row \in ContactRow
             /\ \/ row.outreach_status = current.outreach_status
                \/ row.outreach_status = e.status_after
             /\ \/ row.last_contacted_at = current.last_contacted_at
                \/ SetsContacted(e) /\ row.last_contacted_at = e.occurred_at
             /\ \/ row.next_follow_up_on = current.next_follow_up_on
                   /\ (SetsFollowUp(e) => read.next_follow_up_on # None)
                \/ SetsFollowUp(e) /\ row.next_follow_up_on = e.next_follow_up_on
<1> DEFINE new == RolledForward(read, e)
           row == Merged(current, read, new)
<1>1. DOMAIN current = {"outreach_status", "last_contacted_at", "next_follow_up_on"}
  BY DEF ContactRow
<1>2. /\ new.outreach_status = IF SetsStatus(e) THEN e.status_after ELSE read.outreach_status
      /\ new.last_contacted_at = IF SetsContacted(e) THEN e.occurred_at ELSE read.last_contacted_at
      /\ new.next_follow_up_on =
           IF SetsFollowUp(e) THEN e.next_follow_up_on ELSE read.next_follow_up_on
  BY DEF RolledForward
<1>3. row = [f \in DOMAIN current |-> IF new[f] # read[f] THEN new[f] ELSE current[f]]
  BY DEF Merged
<1>4. /\ row.outreach_status =
           IF new.outreach_status # read.outreach_status
           THEN new.outreach_status ELSE current.outreach_status
      /\ row.last_contacted_at =
           IF new.last_contacted_at # read.last_contacted_at
           THEN new.last_contacted_at ELSE current.last_contacted_at
      /\ row.next_follow_up_on =
           IF new.next_follow_up_on # read.next_follow_up_on
           THEN new.next_follow_up_on ELSE current.next_follow_up_on
  <2> HIDE DEF row, new
  <2> QED BY <1>1, <1>3
<1> HIDE DEF row, new
<1>5. /\ \/ row.outreach_status = current.outreach_status
         \/ row.outreach_status = e.status_after
      /\ \/ row.last_contacted_at = current.last_contacted_at
         \/ SetsContacted(e) /\ row.last_contacted_at = e.occurred_at
      /\ \/ row.next_follow_up_on = current.next_follow_up_on
            /\ (SetsFollowUp(e) => read.next_follow_up_on # None)
         \/ SetsFollowUp(e) /\ row.next_follow_up_on = e.next_follow_up_on
  BY <1>2, <1>4 DEF SetsFollowUp
<1>6. row \in ContactRow
  <2>1. /\ row.outreach_status \in OutreachStatus
        /\ row.last_contacted_at \in Times \cup {None}
        /\ row.next_follow_up_on \in Dates \cup {None}
    BY <1>5 DEF ContactRow, Entry
  <2>2. row = [outreach_status |-> row.outreach_status,
               last_contacted_at |-> row.last_contacted_at,
               next_follow_up_on |-> row.next_follow_up_on]
    BY <1>1, <1>3
  <2> QED BY <2>1, <2>2 DEF ContactRow
<1> QED BY <1>5, <1>6 DEF row, new

-----------------------------------------------------------------------------
(***************************************************************************)
(* The invariant.                                                          *)
(***************************************************************************)

\* The tables are empty and nobody is at work.
LEMMA Initially == Init => Inv
<1> SUFFICES ASSUME Init PROVE Inv
  OBVIOUS
<1>1. /\ log = <<>> /\ DOMAIN log = {} /\ log \in Seq(Entry) /\ Len(log) = 0
      /\ \A r \in Requests : request[r] = Idle
  BY DEF Init
<1>2. \A k \in Contacts :
        /\ contact[k].outreach_status = "NOT_CONTACTED"
        /\ contact[k].last_contacted_at = None /\ contact[k].next_follow_up_on = None
  BY DEF Init
<1>3. contact \in [Contacts -> ContactRow]
  BY Ranks DEF Init, ContactRow
<1>4. TypeOK
  BY <1>1, <1>3 DEF TypeOK
<1>5. Bounded
  BY <1>1 DEF Bounded
<1>6. OwnCompany /\ StatusSaid /\ ContactedSaid /\ FollowUpSaid /\ PromiseKept
  BY <1>1, <1>2 DEF OwnCompany, StatusSaid, ContactedSaid, FollowUpSaid, PromiseKept
<1> QED BY <1>4, <1>5, <1>6 DEF Inv

\* Reading the contact changes nothing that the views are taken of.
LEMMA BeginKeeps ==
  ASSUME Inv, NEW r \in Requests, NEW c \in Companies, NEW k \in Contacts \cup {None},
         BeginOutreach(r, c, k)
  PROVE  Inv'
<1> DEFINE row == IF k = None THEN None ELSE contact[k]
<1>1. /\ UNCHANGED <<log, contact>>
      /\ request' = [request EXCEPT ![r] = Reading(c, k, row)]
      /\ request[r] = Idle
      /\ k # None => CompanyOf[k] = c
  BY DEF BeginOutreach
<1>2. \A q \in Requests : request'[q] = request[q] \/ (q = r /\ request'[q] = Reading(c, k, row))
  BY <1>1
<1>3. /\ log \in Seq(Entry) /\ Len(log) \in Nat
      /\ contact \in [Contacts -> ContactRow]
      /\ None \notin Contacts
  BY OutreachAssumption DEF Inv, TypeOK
<1>4. k # None => row \in ContactRow
  BY <1>3
<1>5. row \in ContactRow \cup {None}
  BY <1>3
<1> HIDE DEF row
<1>6. Reading(c, k, row) \in
        [at : {"read"}, company : Companies, contact : Contacts \cup {None},
         row : ContactRow \cup {None}, seen : 0..Len(log)]
  BY <1>3, <1>5 DEF Reading
<1>7. TypeOK'
  <2>1. ASSUME NEW q \in Requests
        PROVE  \/ request'[q] = Idle
               \/ /\ request'[q] \in
                       [at : {"read"}, company : Companies, contact : Contacts \cup {None},
                        row : ContactRow \cup {None}, seen : 0..Len(log')]
                  /\ request'[q].contact # None => request'[q].row \in ContactRow
    <3>1. CASE request'[q] = request[q]
      BY <3>1, <1>1 DEF Inv, TypeOK
    <3>2. CASE request'[q] = Reading(c, k, row)
      BY <3>2, <1>1, <1>4, <1>6 DEF Reading
    <3> QED BY <3>1, <3>2, <1>2
  <2> QED BY <2>1, <1>1, <1>3 DEF TypeOK
<1>8. OwnCompany'
  BY <1>1, <1>2 DEF Inv, OwnCompany, Reading
<1>9. PromiseKept'
  <2>1. ASSUME NEW q \in Requests, request'[q] # Idle, request'[q].contact # None,
               request'[q].row.next_follow_up_on # None
        PROVE  contact[request'[q].contact].next_follow_up_on # None
    <3>1. CASE request'[q] = request[q]
      BY <3>1, <2>1 DEF Inv, PromiseKept
    <3>2. CASE request'[q] = Reading(c, k, row)
      BY <3>2, <2>1 DEF Reading, row
    <3> QED BY <3>1, <3>2, <1>2
  <2> QED BY <2>1, <1>1 DEF Inv, PromiseKept
<1>10. (Bounded /\ StatusSaid /\ ContactedSaid /\ FollowUpSaid)'
  BY <1>1 DEF Inv, Bounded, StatusSaid, ContactedSaid, FollowUpSaid
<1> QED BY <1>7, <1>8, <1>9, <1>10 DEF Inv

\* What the commit of an entry e changes for a request q, and what it leaves.
Committed(q, e) ==
  /\ e \in Entry
  /\ q.company \in Companies /\ q.contact \in Contacts \cup {None}
  /\ e.company = q.company /\ e.contact = q.contact
  /\ Len(log) + 1 \in Nat /\ Len(log) + 1 \notin DOMAIN log
  /\ DOMAIN log' = DOMAIN log \cup {Len(log) + 1}
  /\ \A i \in DOMAIN log : log'[i] = log[i] /\ log[i] \in Entry
  /\ log'[Len(log) + 1] = e
  /\ log' \in Seq(Entry)
  /\ \A p \in Requests : request'[p] = Idle \/ request'[p] = request[p]
  /\ \A k \in Contacts \ {q.contact} : contact'[k] = contact[k]
  /\ q.contact # None =>
       /\ q.contact \in Contacts /\ q.row \in ContactRow
       /\ contact'[q.contact] = Merged(contact[q.contact], q.row, RolledForward(q.row, e))
  /\ contact \in [Contacts -> ContactRow] /\ contact' \in [Contacts -> ContactRow]

\* A commit appends one entry and writes the contact it is about.
LEMMA Commits ==
  ASSUME TypeOK, NEW r \in Requests, NEW a \in Actions, NEW s \in Given, NEW t \in Times,
         NEW d \in Dates \cup {None}, CommitOutreach(r, a, s, t, d)
  PROVE  request[r] # Idle /\ Committed(request[r], EntryOf(request[r], a, s, t, d))
<1> DEFINE q == request[r]
           e == EntryOf(q, a, s, t, d)
<1>1. /\ q # Idle /\ log' = Append(log, e)
      /\ contact' = IF q.contact = None THEN contact
                    ELSE [contact EXCEPT ![q.contact] =
                            Merged(contact[q.contact], q.row, RolledForward(q.row, e))]
      /\ request' = [request EXCEPT ![r] = Idle]
  BY DEF CommitOutreach
<1>2. e \in Entry /\ e.company = q.company /\ e.contact = q.contact
  BY <1>1, EntryType DEF EntryOf
<1>3. /\ q.company \in Companies /\ q.contact \in Contacts \cup {None}
      /\ q.contact # None => q.row \in ContactRow
  BY <1>1 DEF TypeOK
<1> HIDE DEF e, q
<1>4. /\ log \in Seq(Entry) /\ contact \in [Contacts -> ContactRow]
      /\ \A i \in DOMAIN log : log[i] \in Entry
  BY DEF TypeOK
<1>5. /\ DOMAIN log = 1..Len(log) /\ Len(log) \in Nat
      /\ DOMAIN log' = DOMAIN log \cup {Len(log) + 1} /\ Len(log) + 1 \notin DOMAIN log
      /\ \A i \in DOMAIN log : log'[i] = log[i]
      /\ log'[Len(log) + 1] = e
      /\ log' \in Seq(Entry)
  BY <1>1, <1>2, <1>4, Appended
<1>6. \A p \in Requests : request'[p] = Idle \/ request'[p] = request[p]
  BY <1>1
<1>7. \A k \in Contacts \ {q.contact} : contact'[k] = contact[k]
  BY <1>1, <1>4
<1>8. q.contact # None =>
        contact'[q.contact] = Merged(contact[q.contact], q.row, RolledForward(q.row, e))
  BY <1>1, <1>3, <1>4
<1>9. contact' \in [Contacts -> ContactRow]
  <2>1. CASE q.contact = None
    BY <2>1, <1>1, <1>4
  <2>2. CASE q.contact # None
    <3>1. Merged(contact[q.contact], q.row, RolledForward(q.row, e)) \in ContactRow
      BY <2>2, <1>2, <1>3, <1>4, Columns
    <3> QED BY <3>1, <2>2, <1>1, <1>4
  <2> QED BY <2>1, <2>2
<1> QED BY <1>1, <1>2, <1>3, <1>4, <1>5, <1>6, <1>7, <1>8, <1>9 DEF e, q, Committed

\* What a commit writes is what the entry it appends adds to the views.
LEMMA CommitKeeps ==
  ASSUME Inv, NEW r \in Requests, NEW a \in Actions, NEW s \in Given, NEW t \in Times,
         NEW d \in Dates \cup {None}, CommitOutreach(r, a, s, t, d)
  PROVE  Inv'
<1> DEFINE q == request[r]
           e == EntryOf(q, a, s, t, d)
           n == Len(log) + 1
<1>0. q # Idle /\ Committed(q, e)
  BY Commits DEF Inv
<1> HIDE DEF q, e
<1>1. /\ q # Idle /\ e \in Entry
      /\ q.company \in Companies /\ q.contact \in Contacts \cup {None}
      /\ e.company = q.company /\ e.contact = q.contact
      /\ n \in Nat /\ n \notin DOMAIN log /\ DOMAIN log' = DOMAIN log \cup {n}
      /\ \A i \in DOMAIN log : log'[i] = log[i] /\ log[i] \in Entry
      /\ log'[n] = e
      /\ log' \in Seq(Entry)
  BY <1>0 DEF Committed
<1>2. \A p \in Requests : request'[p] = Idle \/ request'[p] = request[p]
  BY <1>0 DEF Committed
<1>3. /\ \A k \in Contacts \ {q.contact} : contact'[k] = contact[k]
      /\ q.contact # None =>
           /\ q.contact \in Contacts /\ q.row \in ContactRow
           /\ contact'[q.contact] = Merged(contact[q.contact], q.row, RolledForward(q.row, e))
      /\ contact' \in [Contacts -> ContactRow] /\ contact \in [Contacts -> ContactRow]
  BY <1>0 DEF Committed
<1>4. q.contact # None =>
        /\ \/ contact'[q.contact].outreach_status = contact[q.contact].outreach_status
           \/ contact'[q.contact].outreach_status = e.status_after
        /\ \/ contact'[q.contact].last_contacted_at = contact[q.contact].last_contacted_at
           \/ SetsContacted(e) /\ contact'[q.contact].last_contacted_at = e.occurred_at
        /\ \/ contact'[q.contact].next_follow_up_on = contact[q.contact].next_follow_up_on
              /\ (SetsFollowUp(e) => q.row.next_follow_up_on # None)
           \/ SetsFollowUp(e) /\ contact'[q.contact].next_follow_up_on = e.next_follow_up_on
  <2> HIDE DEF e, q
  <2> SUFFICES ASSUME q.contact # None
               PROVE  LET row == Merged(contact[q.contact], q.row, RolledForward(q.row, e))
                      IN  /\ \/ row.outreach_status = contact[q.contact].outreach_status
                             \/ row.outreach_status = e.status_after
                          /\ \/ row.last_contacted_at = contact[q.contact].last_contacted_at
                             \/ SetsContacted(e) /\ row.last_contacted_at = e.occurred_at
                          /\ \/ row.next_follow_up_on = contact[q.contact].next_follow_up_on
                                /\ (SetsFollowUp(e) => q.row.next_follow_up_on # None)
                             \/ SetsFollowUp(e) /\ row.next_follow_up_on = e.next_follow_up_on
    BY <1>3
  <2>1. contact[q.contact] \in ContactRow /\ q.row \in ContactRow /\ e \in Entry
    BY <1>1, <1>3
  <2> QED BY <2>1, Columns
<1> HIDE DEF e, q, n
<1> USE DEF Inv
<1>5. TypeOK'
  <2>1. ASSUME NEW p \in Requests
        PROVE  \/ request'[p] = Idle
               \/ /\ request'[p] \in
                       [at : {"read"}, company : Companies, contact : Contacts \cup {None},
                        row : ContactRow \cup {None}, seen : 0..Len(log')]
                  /\ request'[p].contact # None => request'[p].row \in ContactRow
    <3>1. 0..Len(log) \subseteq 0..Len(log')
      <4>1. /\ log \in Seq(Entry) /\ log' = Append(log, e)
        BY DEF CommitOutreach, TypeOK, e, q
      <4> QED BY <4>1, <1>1
    <3> QED BY <3>1, <1>2 DEF TypeOK
  <2> QED BY <2>1, <1>1, <1>3 DEF TypeOK
<1>6. Bounded'
  <2>1. PICK b \in Nat : \A i \in DOMAIN log : log[i].occurred_at =< b
    BY DEF Bounded
  <2>2. e.occurred_at \in Nat /\ \A i \in DOMAIN log : log[i].occurred_at \in Nat
    BY <1>1, OutreachAssumption DEF Entry
  <2>3. PICK m \in Nat : b =< m /\ e.occurred_at =< m
    BY <2>2
  <2>4. \A i \in DOMAIN log' : log'[i].occurred_at =< m
    BY <1>1, <2>1, <2>2, <2>3
  <2> QED BY <2>4 DEF Bounded
<1>7. OwnCompany'
  BY <1>1, <1>2 DEF OwnCompany, q
<1>8. StatusSaid'
  <2>1. \A k \in Contacts : contact'[k] = contact[k] \/ (k = q.contact /\ k # None)
    BY <1>3, OutreachAssumption
  <2> QED BY <2>1, <1>1, <1>4 DEF StatusSaid
<1>9. ContactedSaid'
  <2>1. \A k \in Contacts : contact'[k] = contact[k] \/ (k = q.contact /\ k # None)
    BY <1>3, OutreachAssumption
  <2> QED BY <2>1, <1>1, <1>4 DEF ContactedSaid
<1>10. FollowUpSaid'
  <2>1. \A k \in Contacts : contact'[k] = contact[k] \/ (k = q.contact /\ k # None)
    BY <1>3, OutreachAssumption
  <2> QED BY <2>1, <1>1, <1>4 DEF FollowUpSaid
<1>11. PromiseKept'
  <2>1. \A k \in Contacts :
          contact[k].next_follow_up_on # None => contact'[k].next_follow_up_on # None
    <3>1. \A k \in Contacts : contact'[k] = contact[k] \/ (k = q.contact /\ k # None)
      BY <1>3, OutreachAssumption
    <3> QED BY <3>1, <1>4 DEF SetsFollowUp
  <2>2. q.contact # None /\ SetsFollowUp(e) => contact'[q.contact].next_follow_up_on # None
    BY <1>1, <1>3, <1>4, <2>1 DEF PromiseKept, SetsFollowUp, q
  <2>3. \A i \in DOMAIN log' : log'[i].contact # None /\ SetsFollowUp(log'[i]) =>
          contact'[log'[i].contact].next_follow_up_on # None
    BY <1>1, <2>1, <2>2 DEF PromiseKept, Entry
  <2>4. \A p \in Requests :
          request'[p] # Idle /\ request'[p].contact # None
          /\ request'[p].row.next_follow_up_on # None =>
            contact'[request'[p].contact].next_follow_up_on # None
    BY <1>2, <2>1 DEF PromiseKept, TypeOK
  <2> QED BY <2>3, <2>4 DEF PromiseKept
<1> QED BY <1>5, <1>6, <1>7, <1>8, <1>9, <1>10, <1>11

\* Inv holds throughout.
THEOREM Invariance == Spec => []Inv
<1>1. Inv /\ [Next]_vars => Inv'
  <2> SUFFICES ASSUME Inv, [Next]_vars PROVE Inv'
    OBVIOUS
  <2>1. ASSUME NEW r \in Requests, NEW c \in Companies, NEW k \in Contacts \cup {None},
               BeginOutreach(r, c, k)
        PROVE  Inv'
    BY <2>1, BeginKeeps
  <2>2. ASSUME NEW r \in Requests, NEW a \in Actions, NEW s \in Given, NEW t \in Times,
               NEW d \in Dates \cup {None}, CommitOutreach(r, a, s, t, d)
        PROVE  Inv'
    BY <2>2, CommitKeeps
  <2>3. CASE UNCHANGED vars
    BY <2>3 DEF vars, Inv, TypeOK, Bounded, OwnCompany, StatusSaid, ContactedSaid, FollowUpSaid,
                PromiseKept
  <2> QED BY <2>1, <2>2, <2>3 DEF Next
<1> QED BY <1>1, Initially, PTL DEF Spec

-----------------------------------------------------------------------------
(***************************************************************************)
(* The last word, column by column.  A column, given by its name, is set   *)
(* by some entries, to a word of theirs; before any it is Unsaid.          *)
(***************************************************************************)

Column == {"outreach_status", "last_contacted_at", "next_follow_up_on"}

Sets(f, e) ==
  CASE f = "outreach_status" -> SetsStatus(e)
    [] f = "last_contacted_at" -> SetsContacted(e)
    [] f = "next_follow_up_on" -> SetsFollowUp(e)

Word(f, e) ==
  CASE f = "outreach_status" -> e.status_after
    [] f = "last_contacted_at" -> e.occurred_at
    [] f = "next_follow_up_on" -> e.next_follow_up_on

Unsaid(f) == IF f = "outreach_status" THEN "NOT_CONTACTED" ELSE None

Said(k, f) == {i \in DOMAIN log : log[i].contact = k /\ Sets(f, log[i])}
Seen == [i \in DOMAIN log |-> log[i].seen]
Words(f) == [i \in DOMAIN log |-> Word(f, log[i])]

\* x is the word of an entry that no later one among said had seen.
Stands(said, seen, word, x, unsaid) ==
  \/ said = {} /\ x = unsaid
  \/ \E i \in said : x = word[i] /\ \A j \in said : j > i => seen[j] < i

\* x is what was read when the log had n entries, or such a word said since.
Since(said, seen, word, n, read, x) ==
  \/ x = read
  \/ \E i \in said : i > n /\ x = word[i] /\ \A j \in said : j > i => seen[j] < i

\* LastWordStands, for every column; and what a request under way has read of a
\* column is what stands there still, unless a later entry has the word.
WordKept ==
  \A k \in Contacts, f \in Column :
    Stands(Said(k, f), Seen, Words(f), contact[k][f], Unsaid(f))
ReadOrSince ==
  \A r \in Requests, k \in Contacts : request[r] # Idle /\ request[r].contact = k =>
    \A f \in Column :
      Since(Said(k, f), Seen, Words(f), request[r].seen, request[r].row[f], contact[k][f])

\* After entry n a column is y: the word of the entry, or x as before if the word is
\* what its request had read.
Passed(said, seen, word, x, read, unsaid, n, seen2, word2, y) ==
  /\ n \in Nat /\ seen2[n] \in Nat /\ seen2[n] < n
  /\ \A i \in said : /\ i \in Nat /\ i < n /\ seen[i] \in Nat
                     /\ seen2[i] = seen[i] /\ word2[i] = word[i]
  /\ Stands(said, seen, word, x, unsaid)
  /\ Since(said, seen, word, seen2[n], read, x)
  /\ y = IF word2[n] # read THEN word2[n] ELSE x

\* The column keeps a last word.  If the entry's is what its request had read, then
\* what is there is that too, or else a word the request had not seen.
LEMMA WordPasses ==
  ASSUME NEW said, NEW seen, NEW word, NEW x, NEW read, NEW unsaid, NEW n, NEW seen2,
         NEW word2, NEW y, Passed(said, seen, word, x, read, unsaid, n, seen2, word2, y)
  PROVE  /\ Stands(said \cup {n}, seen2, word2, y, unsaid)
         /\ \A p \in Nat : \A old : p < n /\ Since(said, seen, word, p, old, x) =>
              Since(said \cup {n}, seen2, word2, p, old, y)
<1> DEFINE all == said \cup {n}
           m == seen2[n]
           Last(i) == \A j \in all : j > i => seen2[j] < i
<1> USE DEF Passed
<1>1. Last(n)
  OBVIOUS
<1>2. CASE y = word2[n]
  <2>1. Stands(all, seen2, word2, y, unsaid)
    BY <1>1, <1>2 DEF Stands
  <2>2. ASSUME NEW p \in Nat, NEW old, p < n PROVE Since(all, seen2, word2, p, old, y)
    BY <1>1, <1>2, <2>2 DEF Since
  <2> QED BY <2>1, <2>2
<1>3. CASE y # word2[n]
  <2>1. y = x /\ x # read
    BY <1>3
  <2>2. PICK i \in said : i > m /\ x = word[i] /\ \A j \in said : j > i => seen[j] < i
    BY <2>1 DEF Since
  <2>3. ASSUME NEW h \in said, h > m, \A j \in said : j > h => seen[j] < h
        PROVE  Last(h)
    BY <2>3
  <2>4. Stands(all, seen2, word2, y, unsaid)
    BY <2>1, <2>2, <2>3 DEF Stands
  <2>5. ASSUME NEW p \in Nat, NEW old, p < n, Since(said, seen, word, p, old, x)
        PROVE  Since(all, seen2, word2, p, old, y)
    <3>1. CASE x = old
      BY <3>1, <2>1 DEF Since
    <3>2. CASE x # old
      <4>1. PICK h \in said : h > p /\ x = word[h] /\ \A j \in said : j > h => seen[j] < h
        BY <3>2, <2>5 DEF Since
      <4>2. CASE h > m
        <5>1. Last(h) /\ h \in all /\ y = word2[h]
          BY <4>1, <4>2, <2>1, <2>3
        <5> QED BY <4>1, <5>1 DEF Since
      <4>3. CASE ~ (h > m)
        <5>1. Last(i) /\ i \in all /\ y = word2[i] /\ i > p
          BY <4>1, <4>3, <2>1, <2>2, <2>3
        <5> QED BY <5>1 DEF Since
      <4> QED BY <4>2, <4>3
    <3> QED BY <3>1, <3>2
  <2> QED BY <2>4, <2>5
<1> QED BY <1>2, <1>3

\* Entries that do not bear on a column leave its words alone.
LEMMA WordStays ==
  ASSUME NEW said, NEW seen, NEW word, NEW seen2, NEW word2,
         \A i \in said : seen2[i] = seen[i] /\ word2[i] = word[i]
  PROVE  /\ \A x, unsaid : Stands(said, seen, word, x, unsaid) =>
                             Stands(said, seen2, word2, x, unsaid)
         /\ \A n, read, x : Since(said, seen, word, n, read, x) =>
                              Since(said, seen2, word2, n, read, x)
<1>1. ASSUME NEW x, NEW unsaid, Stands(said, seen, word, x, unsaid)
      PROVE  Stands(said, seen2, word2, x, unsaid)
  BY <1>1 DEF Stands
<1>2. ASSUME NEW n, NEW read, NEW x, Since(said, seen, word, n, read, x)
      PROVE  Since(said, seen2, word2, n, read, x)
  BY <1>2 DEF Since
<1> QED BY <1>1, <1>2

\* The columns after the commit of an entry, by name.
LEMMA ColumnByName ==
  ASSUME NEW current \in ContactRow, NEW read \in ContactRow, NEW e \in Entry, NEW f \in Column
  PROVE  LET new == IF Sets(f, e) THEN Word(f, e) ELSE read[f]
         IN  Merged(current, read, RolledForward(read, e))[f] =
               IF new # read[f] THEN new ELSE current[f]
<1> DEFINE rolled == RolledForward(read, e)
<1>1. DOMAIN current = Column
  BY DEF ContactRow, Column
<1>2. rolled[f] = IF Sets(f, e) THEN Word(f, e) ELSE read[f]
  <2>1. CASE f = "outreach_status"
    BY <2>1 DEF RolledForward, Sets, Word
  <2>2. CASE f = "last_contacted_at"
    BY <2>2 DEF RolledForward, Sets, Word
  <2>3. CASE f = "next_follow_up_on"
    BY <2>3 DEF RolledForward, Sets, Word
  <2> QED BY <2>1, <2>2, <2>3 DEF Column
<1>3. Merged(current, read, rolled)[f] = IF rolled[f] # read[f] THEN rolled[f] ELSE current[f]
  <2> HIDE DEF rolled
  <2> QED BY <1>1 DEF Merged
<1> HIDE DEF rolled
<1> QED BY <1>2, <1>3 DEF rolled

\* What a commit leaves of a contact it is not about, and of a column it keeps: the
\* same words, and the same value.
LEMMA CommitKeepsWord ==
  ASSUME Inv, WordKept, ReadOrSince, NEW r \in Requests, request[r] # Idle,
         NEW e, Committed(request[r], e), e.seen = request[r].seen,
         NEW k \in Contacts, NEW f \in Column
  PROVE  /\ Stands(Said(k, f)', Seen', Words(f)', contact'[k][f], Unsaid(f))
         /\ \A p \in 0..Len(log) : \A old :
              Since(Said(k, f), Seen, Words(f), p, old, contact[k][f]) =>
                Since(Said(k, f)', Seen', Words(f)', p, old, contact'[k][f])
<1> DEFINE q == request[r]
           n == Len(log) + 1
           said == Said(k, f)
           seen == Seen
           word == Words(f)
           seen2 == [i \in DOMAIN log' |-> log'[i].seen]
           word2 == [i \in DOMAIN log' |-> Word(f, log'[i])]
           x == contact[k][f]
           y == contact'[k][f]
           said2 == {i \in DOMAIN log' : log'[i].contact = k /\ Sets(f, log'[i])}
<1>1. /\ Said(k, f)' = said2 /\ Seen' = seen2 /\ Words(f)' = word2
  BY DEF Said, Seen, Words
<1>2. /\ log \in Seq(Entry) /\ DOMAIN log = 1..Len(log) /\ Len(log) \in Nat
      /\ DOMAIN log' = DOMAIN log \cup {n} /\ n \notin DOMAIN log /\ log'[n] = e
      /\ \A i \in DOMAIN log : log'[i] = log[i] /\ log[i] \in Entry
  <2>1. log \in Seq(Entry) /\ DOMAIN log = 1..Len(log) /\ Len(log) \in Nat
    BY DEF Inv, TypeOK
  <2> QED BY <2>1 DEF Committed
<1>3. \A i \in said : i \in DOMAIN log /\ i \in Nat /\ i < n /\ seen[i] \in Nat
                      /\ seen2[i] = seen[i] /\ word2[i] = word[i]
  BY <1>2 DEF Said, Seen, Words, Entry
<1>4. Stands(said, seen, word, x, Unsaid(f))
  BY DEF WordKept
<1>5. n \in Nat
  BY <1>2
<1>6. CASE q.contact = k
  <2>1. /\ q.row \in ContactRow /\ e \in Entry /\ contact[k] \in ContactRow
        /\ contact'[k] = Merged(contact[k], q.row, RolledForward(q.row, e))
        /\ k # None /\ e.contact = k
    BY <1>6, OutreachAssumption DEF Committed
  <2> DEFINE new == IF Sets(f, e) THEN Word(f, e) ELSE q.row[f]
  <2>2. y = IF new # q.row[f] THEN new ELSE x
    BY <2>1, ColumnByName
  <2>3. CASE Sets(f, e)
    <3>1. said2 = said \cup {n}
      BY <1>2, <2>1, <2>3 DEF Said
    <3>2. q.seen \in Nat /\ q.seen < n /\ seen2[n] = q.seen /\ word2[n] = Word(f, e)
      <4>1. q.seen \in 0..Len(log)
        BY DEF Inv, TypeOK
      <4> QED BY <4>1, <1>2
    <3>3. Since(said, seen, word, q.seen, q.row[f], x)
      BY <1>6, <2>1 DEF ReadOrSince
    <3>4. y = IF Word(f, e) # q.row[f] THEN Word(f, e) ELSE x
      BY <2>2, <2>3
    <3> HIDE DEF said, seen, word, seen2, word2, said2, x, y, n, q
    <3>5. Passed(said, seen, word, x, q.row[f], Unsaid(f), n, seen2, word2, y)
      BY <1>3, <1>4, <1>5, <3>2, <3>3, <3>4 DEF Passed
    <3>6. /\ Stands(said \cup {n}, seen2, word2, y, Unsaid(f))
          /\ \A p \in Nat : \A old : p < n /\ Since(said, seen, word, p, old, x) =>
               Since(said \cup {n}, seen2, word2, p, old, y)
      BY <3>5, WordPasses
    <3>7. \A p \in 0..Len(log) : p \in Nat /\ p < n
      BY <1>2 DEF n
    <3> QED BY <1>1, <3>1, <3>6, <3>7 DEF said, seen, word, x, y
  <2>4. CASE ~ Sets(f, e)
    <3>1. said2 = said
      BY <1>2, <2>4 DEF Said
    <3>2. y = x
      BY <2>2, <2>4
    <3> HIDE DEF said, seen, word, seen2, word2, said2, x, y, n, q
    <3>3. \A i \in said : seen2[i] = seen[i] /\ word2[i] = word[i]
      BY <1>3
    <3>4. /\ Stands(said, seen2, word2, x, Unsaid(f))
          /\ \A p, old : Since(said, seen, word, p, old, x) => Since(said, seen2, word2, p, old, x)
      BY <3>3, <1>4, WordStays, Zenon
    <3> QED BY <1>1, <3>1, <3>2, <3>4 DEF said, seen, word, x, y
  <2> QED BY <2>3, <2>4
<1>7. CASE q.contact # k
  <2>1. e.contact # k /\ y = x
    BY <1>7 DEF Committed
  <2>2. said2 = said
    BY <1>2, <2>1 DEF Said
  <2> HIDE DEF said, seen, word, seen2, word2, said2, x, y, n, q
  <2>3. \A i \in said : seen2[i] = seen[i] /\ word2[i] = word[i]
    BY <1>3
  <2>4. /\ Stands(said, seen2, word2, x, Unsaid(f))
        /\ \A p, old : Since(said, seen, word, p, old, x) => Since(said, seen2, word2, p, old, x)
    BY <2>3, <1>4, WordStays, Zenon
  <2> QED BY <1>1, <2>1, <2>2, <2>4 DEF said, seen, word, x, y
<1> QED BY <1>6, <1>7

\* The words are kept throughout.
THEOREM WordInvariance == Spec => [](WordKept /\ ReadOrSince)
<1> DEFINE Kept == WordKept /\ ReadOrSince
<1>1. Init => Kept
  <2> SUFFICES ASSUME Init PROVE Kept
    OBVIOUS
  <2>1. ASSUME NEW k \in Contacts, NEW f \in Column
        PROVE  Said(k, f) = {} /\ contact[k][f] = Unsaid(f)
    BY DEF Init, Said, Column, Unsaid
  <2>2. WordKept
    BY <2>1 DEF WordKept, Stands
  <2>3. ReadOrSince
    BY DEF Init, ReadOrSince
  <2> QED BY <2>2, <2>3
<1>2. Inv /\ Kept /\ [Next]_vars => Kept'
  <2> SUFFICES ASSUME Inv, WordKept, ReadOrSince, [Next]_vars PROVE Kept'
    OBVIOUS
  <2>1. ASSUME UNCHANGED <<log, contact>>
        PROVE  /\ WordKept'
               /\ \A k \in Contacts, f \in Column :
                    Said(k, f)' = Said(k, f) /\ Seen' = Seen /\ Words(f)' = Words(f)
    BY <2>1 DEF WordKept, Said, Seen, Words
  <2>2. ASSUME NEW r \in Requests, NEW c \in Companies, NEW k \in Contacts \cup {None},
               BeginOutreach(r, c, k)
        PROVE  Kept'
    <3>1. /\ UNCHANGED <<log, contact>>
          /\ request' = [request EXCEPT ![r] = Reading(c, k, IF k = None THEN None ELSE contact[k])]
      BY <2>2 DEF BeginOutreach
    <3>2. ASSUME NEW q \in Requests, NEW h \in Contacts, request'[q] # Idle,
                 request'[q].contact = h, NEW f \in Column
          PROVE  Since(Said(h, f)', Seen', Words(f)', request'[q].seen, request'[q].row[f],
                       contact'[h][f])
      <4>1. CASE request'[q] = Reading(c, k, IF k = None THEN None ELSE contact[k])
        <5>1. h = k /\ k # None
          BY <4>1, <3>2, OutreachAssumption DEF Reading
        <5>2. request'[q].row = contact[h]
          BY <4>1, <5>1 DEF Reading
        <5> QED BY <5>2, <3>1 DEF Since
      <4>2. CASE request'[q] = request[q]
        <5>1. Since(Said(h, f), Seen, Words(f), request[q].seen, request[q].row[f], contact[h][f])
          BY <4>2, <3>2 DEF ReadOrSince
        <5> QED BY <5>1, <4>2, <3>1, <2>1
      <4> QED BY <4>1, <4>2, <3>1
    <3> QED BY <3>1, <3>2, <2>1 DEF ReadOrSince
  <2>3. ASSUME NEW r \in Requests, NEW a \in Actions, NEW s \in Given, NEW t \in Times,
               NEW d \in Dates \cup {None}, CommitOutreach(r, a, s, t, d)
        PROVE  Kept'
    <3> DEFINE e == EntryOf(request[r], a, s, t, d)
    <3>1. request[r] # Idle /\ Committed(request[r], e)
      BY <2>3, Commits DEF Inv
    <3>2. e.seen = request[r].seen
      BY DEF EntryOf
    <3> HIDE DEF e
    <3>3. ASSUME NEW k \in Contacts, NEW f \in Column
          PROVE  /\ Stands(Said(k, f)', Seen', Words(f)', contact'[k][f], Unsaid(f))
                 /\ \A p \in 0..Len(log) : \A old :
                      Since(Said(k, f), Seen, Words(f), p, old, contact[k][f]) =>
                        Since(Said(k, f)', Seen', Words(f)', p, old, contact'[k][f])
      BY <3>1, <3>2, CommitKeepsWord
    <3>4. WordKept'
      BY <3>3 DEF WordKept
    <3>5. ASSUME NEW q \in Requests, NEW h \in Contacts, request'[q] # Idle,
                 request'[q].contact = h, NEW f \in Column
          PROVE  Since(Said(h, f)', Seen', Words(f)', request'[q].seen, request'[q].row[f],
                       contact'[h][f])
      <4>1. request'[q] = request[q]
        BY <3>1, <3>5 DEF Committed
      <4>2. request[q].seen \in 0..Len(log)
        BY <4>1, <3>5 DEF Inv, TypeOK
      <4>3. Since(Said(h, f), Seen, Words(f), request[q].seen, request[q].row[f], contact[h][f])
        BY <4>1, <3>5 DEF ReadOrSince
      <4> QED BY <4>1, <4>2, <4>3, <3>3
    <3> QED BY <3>4, <3>5 DEF ReadOrSince
  <2>4. CASE UNCHANGED vars
    BY <2>4, <2>1 DEF vars, ReadOrSince, Inv, TypeOK
  <2> QED BY <2>2, <2>3, <2>4 DEF Next
<1> HIDE DEF Kept
<1>3. Spec => []Kept
  BY <1>1, <1>2, Invariance, PTL DEF Spec
<1> QED BY <1>3 DEF Kept

-----------------------------------------------------------------------------
(***************************************************************************)
(* What the views show, in terms of the entries.                           *)
(***************************************************************************)

StatusView ==
  \A c \in Companies :
    /\ StatusOf(c) \in Nat /\ StatusOf(c) >= 1
    /\ \A i \in Entries(c) : Rank(log[i].status_after) \in Nat
                             /\ Rank(log[i].status_after) =< StatusOf(c)
    /\ \A k \in ContactsOf(c) : Rank(contact[k].outreach_status) =< StatusOf(c)
    /\ StatusOf(c) = 1 \/ \E i \in Entries(c) : StatusOf(c) = Rank(log[i].status_after)

ContactedView ==
  \A c \in Companies :
    /\ \A i \in Entries(c) : SetsContacted(log[i]) =>
         /\ LastContacted(c) \in Nat /\ log[i].occurred_at \in Nat
         /\ log[i].occurred_at =< LastContacted(c)
    /\ LastContacted(c) = None \/
         \E i \in Entries(c) : SetsContacted(log[i]) /\ LastContacted(c) = log[i].occurred_at

FollowUpView ==
  \A c \in Companies :
    /\ \A i \in Entries(c) : SetsFollowUp(log[i]) =>
         /\ NextFollowUp(c) \in Nat /\ log[i].next_follow_up_on \in Nat
         /\ NextFollowUp(c) =< log[i].next_follow_up_on
    /\ NextFollowUp(c) = None \/
         \E i \in Entries(c) : SetsFollowUp(log[i]) /\ NextFollowUp(c) = log[i].next_follow_up_on

\* The log is made of entries.
LEMMA EntryTyped == TypeOK => \A i \in DOMAIN log : log[i] \in Entry
  BY DEF TypeOK

\* The furthest status reached is that of the log.
LEMMA StatusViewHolds == Inv => StatusView
<1> SUFFICES ASSUME Inv, NEW c \in Companies
             PROVE  /\ StatusOf(c) \in Nat /\ StatusOf(c) >= 1
                    /\ \A i \in Entries(c) : Rank(log[i].status_after) \in Nat
                                             /\ Rank(log[i].status_after) =< StatusOf(c)
                    /\ \A k \in ContactsOf(c) : Rank(contact[k].outreach_status) =< StatusOf(c)
                    /\ \/ StatusOf(c) = 1
                       \/ \E i \in Entries(c) : StatusOf(c) = Rank(log[i].status_after)
  BY DEF StatusView
<1> DEFINE people == {Rank(contact[k].outreach_status) : k \in ContactsOf(c)}
           said == {Rank(log[i].status_after) : i \in Entries(c)}
           S == people \cup said \cup {1}
<1>1. StatusOf(c) = Greatest(S, 1)
  BY DEF StatusOf
<1>2. \A i \in Entries(c) : i \in DOMAIN log /\ log[i].status_after \in OutreachStatus
  BY EntryTyped DEF Entries, Inv, Entry
<1>3. \A k \in ContactsOf(c) : contact[k].outreach_status \in OutreachStatus
  BY DEF ContactsOf, Inv, TypeOK, ContactRow
<1>4. S \subseteq 1..9 /\ 1 \in S
  BY <1>2, <1>3, Ranks
<1>5. Greatest(S, 1) \in S /\ \A m \in S : m =< Greatest(S, 1)
  <2> HIDE DEF S
  <2>1. S \subseteq Nat /\ S # {} /\ \A m \in S : m =< 9
    BY <1>4
  <2> QED BY <2>1, GreatestIs
<1>6. ASSUME NEW k \in ContactsOf(c)
      PROVE  \/ Rank(contact[k].outreach_status) = 1
             \/ Rank(contact[k].outreach_status) \in said
  <2>1. CASE contact[k].outreach_status = "NOT_CONTACTED"
    BY <2>1, Ranks
  <2>2. CASE contact[k].outreach_status # "NOT_CONTACTED"
    <3>1. PICK i \in DOMAIN log :
            log[i].contact = k /\ log[i].status_after = contact[k].outreach_status
      BY <2>2 DEF Inv, StatusSaid, ContactsOf
    <3>2. i \in Entries(c)
      BY <3>1, OutreachAssumption DEF Inv, OwnCompany, ContactsOf, Entries
    <3> QED BY <3>1, <3>2
  <2> QED BY <2>1, <2>2
<1>7. StatusOf(c) \in 1..9
  <2> HIDE DEF S
  <2> QED BY <1>1, <1>4, <1>5
<1>8. StatusOf(c) = 1 \/ StatusOf(c) \in said
  BY <1>1, <1>5, <1>6
<1>9. (\A m \in people : m =< StatusOf(c)) /\ (\A m \in said : m =< StatusOf(c) /\ m \in Nat)
  <2>1. people \subseteq S /\ said \subseteq S
    OBVIOUS
  <2> HIDE DEF S, people, said
  <2> QED BY <2>1, <1>1, <1>4, <1>5
<1> QED BY <1>7, <1>8, <1>9

\* The day of the last contact is that of the log.
LEMMA ContactedViewHolds == Inv => ContactedView
<1> SUFFICES ASSUME Inv, NEW c \in Companies
             PROVE  /\ \A i \in Entries(c) : SetsContacted(log[i]) =>
                         /\ LastContacted(c) \in Nat /\ log[i].occurred_at \in Nat
                         /\ log[i].occurred_at =< LastContacted(c)
                    /\ \/ LastContacted(c) = None
                       \/ \E i \in Entries(c) :
                            SetsContacted(log[i]) /\ LastContacted(c) = log[i].occurred_at
  BY DEF ContactedView
<1> DEFINE I == {j \in Entries(c) : SetsContacted(log[j])}
           S == {log[i].occurred_at : i \in I}
<1>1. LastContacted(c) = Greatest(S, None)
  BY DEF LastContacted
<1>2. \A i \in DOMAIN log : log[i].occurred_at \in Nat
  BY EntryTyped, OutreachAssumption DEF Inv, Entry
<1>3. I \subseteq DOMAIN log
  BY DEF Entries
<1>4. PICK b \in Nat : \A i \in DOMAIN log : log[i].occurred_at =< b
  BY DEF Inv, Bounded
<1>5. S \subseteq Nat /\ \A m \in S : m =< b
  BY <1>2, <1>3, <1>4
<1>6. CASE I = {}
  BY <1>1, <1>6 DEF Greatest
<1>7. CASE I # {}
  <2>1. S # {}
    BY <1>7
  <2>2. Greatest(S, None) \in S /\ \A m \in S : m =< Greatest(S, None)
    <3> HIDE DEF S
    <3> QED BY <2>1, <1>5, GreatestIs
  <2>3. \A i \in I : log[i].occurred_at \in S
    OBVIOUS
  <2>4. LastContacted(c) \in Nat /\ \A m \in S : m =< LastContacted(c) /\ m \in Nat
    <3> HIDE DEF S
    <3> QED BY <1>1, <1>5, <2>2
  <2> QED BY <1>1, <2>2, <2>3, <2>4
<1> QED BY <1>6, <1>7

\* The next step promised is that of the log.
LEMMA FollowUpViewHolds == Inv => FollowUpView
<1> SUFFICES ASSUME Inv, NEW c \in Companies
             PROVE  /\ \A i \in Entries(c) : SetsFollowUp(log[i]) =>
                         /\ NextFollowUp(c) \in Nat /\ log[i].next_follow_up_on \in Nat
                         /\ NextFollowUp(c) =< log[i].next_follow_up_on
                    /\ \/ NextFollowUp(c) = None
                       \/ \E i \in Entries(c) :
                            SetsFollowUp(log[i]) /\ NextFollowUp(c) = log[i].next_follow_up_on
  BY DEF FollowUpView
<1> DEFINE I == {j \in Entries(c) : SetsFollowUp(log[j])}
           S == {log[i].next_follow_up_on : i \in I}
<1>1. NextFollowUp(c) = Least(S, None)
  BY DEF NextFollowUp
<1>2. \A i \in I : log[i].next_follow_up_on \in Nat
  BY EntryTyped, OutreachAssumption DEF Inv, Entry, SetsFollowUp, Entries
<1>3. S \subseteq Nat
  BY <1>2
<1>4. CASE I = {}
  BY <1>1, <1>4 DEF Least
<1>5. CASE I # {}
  <2>1. S # {}
    BY <1>5
  <2>2. Least(S, None) \in S /\ \A m \in S : Least(S, None) =< m
    <3> HIDE DEF S
    <3> QED BY <2>1, <1>3, LeastIs
  <2>3. \A i \in I : log[i].next_follow_up_on \in S
    OBVIOUS
  <2>4. NextFollowUp(c) \in Nat /\ \A m \in S : NextFollowUp(c) =< m /\ m \in Nat
    <3> HIDE DEF S
    <3> QED BY <1>1, <1>3, <2>2
  <2> QED BY <1>1, <2>2, <2>3, <2>4
<1> QED BY <1>4, <1>5

-----------------------------------------------------------------------------
(***************************************************************************)
(* The theorems.                                                           *)
(***************************************************************************)

\* Every value has its type, whatever requests overlap (models/outreach.py).
THEOREM TypeCorrect == Spec => []TypeOK
<1>1. Inv => TypeOK
  BY DEF Inv
<1> QED BY <1>1, Invariance, PTL

\* The profile's header, computed from the log, never says less than the columns on
\* the company's contacts do, nor names a later next step than the working list:
\* the two records of one history agree, also while requests overlap.
RollUpCovers ==
  \A c \in Companies :
    /\ \A k \in ContactsOf(c) :
         /\ StatusOf(c) >= Rank(contact[k].outreach_status)
         /\ contact[k].last_contacted_at # None =>
              LastContacted(c) # None /\ LastContacted(c) >= contact[k].last_contacted_at
         /\ contact[k].next_follow_up_on # None =>
              NextFollowUp(c) # None /\ NextFollowUp(c) =< contact[k].next_follow_up_on
    /\ \A on \in Dates : \A i \in OwedAccounts(on) :
         log[i].company = c => NextFollowUp(c) =< log[i].next_follow_up_on

\* So for any contacts, requests and dates (services/outreach.py, company_state and
\* due_follow_ups).
THEOREM RollUpIsRight == Spec => []RollUpCovers
<1>1. Inv => RollUpCovers
  <2> SUFFICES ASSUME Inv, NEW c \in Companies
               PROVE  /\ \A k \in ContactsOf(c) :
                           /\ StatusOf(c) >= Rank(contact[k].outreach_status)
                           /\ contact[k].last_contacted_at # None =>
                                /\ LastContacted(c) # None
                                /\ LastContacted(c) >= contact[k].last_contacted_at
                           /\ contact[k].next_follow_up_on # None =>
                                /\ NextFollowUp(c) # None
                                /\ NextFollowUp(c) =< contact[k].next_follow_up_on
                      /\ \A on \in Dates : \A i \in OwedAccounts(on) :
                           log[i].company = c => NextFollowUp(c) =< log[i].next_follow_up_on
    BY DEF RollUpCovers
  <2> USE StatusViewHolds, ContactedViewHolds, FollowUpViewHolds
  <2>1. ASSUME NEW k \in ContactsOf(c)
        PROVE  /\ Rank(contact[k].outreach_status) \in Nat
               /\ StatusOf(c) >= Rank(contact[k].outreach_status)
    <3>1. contact[k].outreach_status \in OutreachStatus
      BY DEF ContactsOf, Inv, TypeOK, ContactRow
    <3>2. Rank(contact[k].outreach_status) \in 1..9
      BY <3>1, Ranks
    <3> QED BY <3>2 DEF StatusView
  <2>2. ASSUME NEW k \in ContactsOf(c), contact[k].last_contacted_at # None
        PROVE  LastContacted(c) # None /\ LastContacted(c) >= contact[k].last_contacted_at
    <3>1. PICK i \in DOMAIN log :
            log[i].contact = k /\ SetsContacted(log[i])
            /\ log[i].occurred_at = contact[k].last_contacted_at
      BY <2>2 DEF Inv, ContactedSaid, ContactsOf
    <3>2. i \in Entries(c)
      BY <3>1, OutreachAssumption DEF Inv, OwnCompany, ContactsOf, Entries
    <3> QED BY <3>1, <3>2, OutreachAssumption DEF ContactedView
  <2>3. ASSUME NEW k \in ContactsOf(c), contact[k].next_follow_up_on # None
        PROVE  NextFollowUp(c) # None /\ NextFollowUp(c) =< contact[k].next_follow_up_on
    <3>1. PICK i \in DOMAIN log :
            log[i].contact = k /\ SetsFollowUp(log[i])
            /\ log[i].next_follow_up_on = contact[k].next_follow_up_on
      BY <2>3 DEF Inv, FollowUpSaid, ContactsOf
    <3>2. i \in Entries(c)
      BY <3>1, OutreachAssumption DEF Inv, OwnCompany, ContactsOf, Entries
    <3> QED BY <3>1, <3>2, OutreachAssumption DEF FollowUpView
  <2>4. ASSUME NEW on \in Dates, NEW i \in OwedAccounts(on), log[i].company = c
        PROVE  NextFollowUp(c) =< log[i].next_follow_up_on
    <3>1. i \in Entries(c) /\ SetsFollowUp(log[i])
      BY <2>4 DEF OwedAccounts, Standing, Dated, Unattached, Entries
    <3> QED BY <3>1 DEF FollowUpView
  <2> QED BY <2>1, <2>2, <2>3, <2>4
<1> QED BY <1>1, Invariance, PTL

\* "A follow-up promised on the account cannot be lost from the working list"
\* (docs/ROADMAP.md:59): of the dated entries of an account there is always a last.
THEOREM PromisesStay == Spec => []PromisesAreListed
<1>1. Inv => PromisesAreListed
  <2> SUFFICES ASSUME Inv, NEW i \in DOMAIN log, SetsFollowUp(log[i])
               PROVE  \E on \in Dates :
                        IF log[i].contact # None THEN log[i].contact \in OwedContacts(on)
                        ELSE \E j \in OwedAccounts(on) : log[j].company = log[i].company
    BY DEF PromisesAreListed
  <2> USE OutreachAssumption
  <2>1. log[i] \in Entry
    BY EntryTyped DEF Inv
  <2>2. CASE log[i].contact # None
    <3> DEFINE k == log[i].contact
    <3>1. k \in Contacts /\ contact[k].next_follow_up_on # None
      BY <2>1, <2>2 DEF Entry, Inv, PromiseKept
    <3>2. contact[k].next_follow_up_on \in Dates
      BY <3>1 DEF Inv, TypeOK, ContactRow
    <3>3. contact[k].next_follow_up_on \in Nat
      BY <3>2
    <3> QED BY <2>2, <3>1, <3>2, <3>3 DEF OwedContacts
  <2>3. CASE log[i].contact = None
    <3> DEFINE c == log[i].company
               S == {log[j].occurred_at : j \in Dated(c)}
    <3>1. c \in Companies /\ i \in Dated(c)
      BY <2>1, <2>3 DEF Entry, Dated, Unattached, Entries
    <3>2. \A j \in Dated(c) :
            /\ j \in DOMAIN log /\ log[j].company = c
            /\ log[j].occurred_at \in Nat /\ log[j].next_follow_up_on \in Dates
      BY EntryTyped DEF Inv, Entry, Dated, Unattached, Entries, SetsFollowUp
    <3>3. PICK b \in Nat : \A j \in DOMAIN log : log[j].occurred_at =< b
      BY DEF Inv, Bounded
    <3>4. S \subseteq Nat /\ S # {} /\ \A m \in S : m =< b
      BY <3>1, <3>2, <3>3
    <3>5. Greatest(S, 0) \in S /\ \A m \in S : m =< Greatest(S, 0)
      <4> HIDE DEF S
      <4> QED BY <3>4, GreatestIs
    <3>6. PICK j \in Dated(c) : log[j].occurred_at = Greatest(S, 0)
      BY <3>5
    <3>7. \A m \in Dated(c) : log[m].occurred_at =< log[j].occurred_at
      BY <3>5, <3>6
    <3>8. j \in Standing(c)
      BY <3>7 DEF Standing
    <3>9. log[j].next_follow_up_on \in Dates /\ log[j].next_follow_up_on \in Nat
      BY <3>2
    <3>10. j \in OwedAccounts(log[j].next_follow_up_on)
      BY <3>1, <3>8, <3>9 DEF OwedAccounts
    <3> QED BY <2>3, <3>2, <3>9, <3>10
  <2> QED BY <2>2, <2>3
<1> QED BY <1>1, Invariance, PTL

\* However requests overlap, each column of a contact is what some entry says that
\* no later entry's request had seen and gone against: the columns that differ
\* from what was read carry the last word forward, and never an old one back
\* (log_outreach; the unit of work sends the changed columns only).
THEOREM LastWordIsKept == Spec => []LastWordStands
<1>1. Inv /\ WordKept => LastWordStands
  <2> SUFFICES ASSUME WordKept, NEW k \in Contacts
               PROVE  /\ LET said == Says(k, SetsStatus)
                         IN  IF said = {} THEN contact[k].outreach_status = "NOT_CONTACTED"
                             ELSE \E i \in said :
                                    /\ LastWord(said, i)
                                    /\ contact[k].outreach_status = log[i].status_after
                      /\ LET said == Says(k, SetsContacted)
                         IN  IF said = {} THEN contact[k].last_contacted_at = None
                             ELSE \E i \in said :
                                    /\ LastWord(said, i)
                                    /\ contact[k].last_contacted_at = log[i].occurred_at
                      /\ LET said == Says(k, SetsFollowUp)
                         IN  IF said = {} THEN contact[k].next_follow_up_on = None
                             ELSE \E i \in said :
                                    /\ LastWord(said, i)
                                    /\ contact[k].next_follow_up_on = log[i].next_follow_up_on
    BY DEF LastWordStands
  <2>1. ASSUME NEW f \in Column
        PROVE  \/ Said(k, f) = {} /\ contact[k][f] = Unsaid(f)
               \/ \E i \in Said(k, f) :
                    /\ contact[k][f] = Word(f, log[i])
                    /\ \A j \in Said(k, f) : j > i => log[j].seen < i
    <3>1. Stands(Said(k, f), Seen, Words(f), contact[k][f], Unsaid(f))
      BY DEF WordKept
    <3>2. \A i \in Said(k, f) : Seen[i] = log[i].seen /\ Words(f)[i] = Word(f, log[i])
      BY DEF Said, Seen, Words
    <3> HIDE DEF WordKept
    <3> QED BY <3>1, <3>2 DEF Stands
  <2>2. Said(k, "outreach_status") = {i \in DOMAIN log : log[i].contact = k /\ SetsStatus(log[i])}
    BY DEF Said, Sets
  <2>3. Said(k, "last_contacted_at") = {i \in DOMAIN log : log[i].contact = k /\ SetsContacted(log[i])}
    BY DEF Said, Sets
  <2>4. Said(k, "next_follow_up_on") = {i \in DOMAIN log : log[i].contact = k /\ SetsFollowUp(log[i])}
    BY DEF Said, Sets
  <2>5. /\ \A i : Word("outreach_status", log[i]) = log[i].status_after
        /\ \A i : Word("last_contacted_at", log[i]) = log[i].occurred_at
        /\ \A i : Word("next_follow_up_on", log[i]) = log[i].next_follow_up_on
    BY DEF Word
  <2>6. /\ Unsaid("outreach_status") = "NOT_CONTACTED"
        /\ Unsaid("last_contacted_at") = None /\ Unsaid("next_follow_up_on") = None
    BY DEF Unsaid
  <2>7. "outreach_status" \in Column /\ "last_contacted_at" \in Column /\ "next_follow_up_on" \in Column
    BY DEF Column
  <2> DEFINE S1 == {i \in DOMAIN log : log[i].contact = k /\ SetsStatus(log[i])}
             S2 == {i \in DOMAIN log : log[i].contact = k /\ SetsContacted(log[i])}
             S3 == {i \in DOMAIN log : log[i].contact = k /\ SetsFollowUp(log[i])}
  <2>8. /\ IF S1 = {} THEN contact[k].outreach_status = "NOT_CONTACTED"
            ELSE \E i \in S1 : LastWord(S1, i) /\ contact[k].outreach_status = log[i].status_after
        /\ IF S2 = {} THEN contact[k].last_contacted_at = None
            ELSE \E i \in S2 : LastWord(S2, i) /\ contact[k].last_contacted_at = log[i].occurred_at
        /\ IF S3 = {} THEN contact[k].next_follow_up_on = None
            ELSE \E i \in S3 : LastWord(S3, i)
                               /\ contact[k].next_follow_up_on = log[i].next_follow_up_on
    BY <2>1, <2>2, <2>3, <2>4, <2>5, <2>6, <2>7 DEF LastWord
  <2> QED BY <2>8 DEF Says
<1> QED BY <1>1, Invariance, WordInvariance, PTL

\* What one commit does to the entries of each company.
LEMMA EntriesAfter ==
  ASSUME Inv, NEW r \in Requests, NEW a \in Actions, NEW s \in Given, NEW t \in Times,
         NEW d \in Dates \cup {None}, CommitOutreach(r, a, s, t, d)
  PROVE  \E c \in Companies :
           /\ Entries(c)' = Entries(c) \cup {Len(log) + 1}
           /\ Len(log) + 1 \notin Entries(c)
           /\ \A x \in Companies \ {c} : Entries(x)' = Entries(x)
           /\ \A x \in Companies : \A i \in Entries(x) : log'[i] = log[i]
<1> DEFINE n == Len(log) + 1
<1>1. Committed(request[r], EntryOf(request[r], a, s, t, d))
  BY Commits DEF Inv
<1>2. \A i \in DOMAIN log : log'[i] = log[i]
  BY <1>1 DEF Committed
<1>3. PICK c \in Companies : log'[n].company = c
  BY <1>1 DEF Committed
<1>4. DOMAIN log' = DOMAIN log \cup {n} /\ n \notin DOMAIN log
  BY <1>1 DEF Committed
<1> HIDE DEF n
<1>5. Entries(c)' = Entries(c) \cup {n} /\ n \notin Entries(c)
  BY <1>2, <1>3, <1>4 DEF Entries
<1>6. \A x \in Companies \ {c} : Entries(x)' = Entries(x)
  BY <1>2, <1>3, <1>4 DEF Entries
<1>7. \A x \in Companies : \A i \in Entries(x) : log'[i] = log[i]
  BY <1>2 DEF Entries
<1> QED BY <1>5, <1>6, <1>7 DEF n

\* What the entry of a commit tells the ledger: a contact made at a time, a step
\* promised for a date.
Contacted(e) == IF SetsContacted(e) THEN e.occurred_at ELSE None
Promised(e) == e.next_follow_up_on

\* An entry of the log has a time and a date that the ledger takes.
LEMMA ToldByEntry ==
  ASSUME NEW e \in Entry
  PROVE  Contacted(e) \in Times \cup {None} /\ Promised(e) \in Dates \cup {None}
BY DEF Entry, Contacted, Promised

\* One commit is one interaction of Account.
LEMMA CommitWorks ==
  ASSUME Inv, ContactedView, FollowUpView, ContactedView', FollowUpView',
         NEW r \in Requests, NEW a \in Actions, NEW s \in Given, NEW t \in Times,
         NEW d \in Dates \cup {None}, CommitOutreach(r, a, s, t, d)
  PROVE  Accounts!Next
<1> DEFINE n == Len(log) + 1
           e == log'[n]
<1>1. PICK c \in Companies :
      /\ Entries(c)' = Entries(c) \cup {n} /\ n \notin Entries(c)
      /\ \A x \in Companies \ {c} : Entries(x)' = Entries(x)
      /\ \A x \in Companies : \A i \in Entries(x) : log'[i] = log[i]
  BY EntriesAfter
<1>2. e \in Entry
  BY Commits DEF Inv, Committed
<1> HIDE DEF n, e
<1>3. None \notin Nat /\ Times \subseteq Nat /\ Dates \subseteq Nat
  BY OutreachAssumption
<1>4. Interactions(c)' = Interactions(c) + 1
  <2>1. IsFiniteSet(Entries(c))
    <3>1. log \in Seq(Entry)
      BY DEF Inv, TypeOK
    <3>2. DOMAIN log = 1..Len(log) /\ Len(log) \in Nat
      BY <3>1
    <3>3. Entries(c) \subseteq 1..Len(log)
      BY <3>2 DEF Entries
    <3>4. 1 \in Int /\ Len(log) \in Int
      BY <3>2
    <3>5. IsFiniteSet(1..Len(log))
      BY <3>4, FS_Interval
    <3> QED BY <3>3, <3>5, FS_Subset
  <2>2. Cardinality(Entries(c) \cup {n}) = Cardinality(Entries(c)) + 1
    BY <2>1, <1>1, FS_AddElement
  <2> QED BY <1>1, <2>2 DEF Interactions
<1>5. LastContacted(c)' = Accounts!Latest(LastContacted(c), Contacted(e))
  <2>1. /\ \A i \in Entries(c) : SetsContacted(log[i]) =>
             /\ LastContacted(c) \in Nat /\ log[i].occurred_at \in Nat
             /\ log[i].occurred_at =< LastContacted(c)
        /\ LastContacted(c) = None \/
             \E i \in Entries(c) : SetsContacted(log[i]) /\ LastContacted(c) = log[i].occurred_at
    BY DEF ContactedView
  <2>2. /\ \A i \in Entries(c) \cup {n} : SetsContacted(log'[i]) =>
             /\ LastContacted(c)' \in Nat /\ log'[i].occurred_at \in Nat
             /\ log'[i].occurred_at =< LastContacted(c)'
        /\ LastContacted(c)' = None \/
             \E i \in Entries(c) \cup {n} :
               SetsContacted(log'[i]) /\ LastContacted(c)' = log'[i].occurred_at
    BY <1>1 DEF ContactedView
  <2>3. \A i \in Entries(c) : log'[i] = log[i]
    BY <1>1
  <2>4. CASE ~SetsContacted(e)
    <3>1. LastContacted(c)' = LastContacted(c)
      BY <1>3, <2>1, <2>2, <2>3, <2>4 DEF e
    <3> QED BY <2>4, <3>1 DEF Contacted, Accounts!Latest
  <2>5. CASE SetsContacted(e)
    <3>1. LastContacted(c)' \in Nat /\ e.occurred_at \in Nat /\ e.occurred_at =< LastContacted(c)'
      BY <2>2, <2>5 DEF e
    <3>2. CASE LastContacted(c) = None
      BY <1>3, <2>1, <2>2, <2>3, <2>5, <3>1, <3>2 DEF e, Contacted, Accounts!Latest
    <3>3. CASE LastContacted(c) # None
      <4>1. LastContacted(c) \in Nat /\ LastContacted(c) =< LastContacted(c)'
        BY <2>1, <2>2, <2>3, <3>3
      <4>2. LastContacted(c)' = e.occurred_at \/ LastContacted(c)' =< LastContacted(c)
        BY <1>3, <2>1, <2>2, <2>3, <3>1 DEF e
      <4> QED BY <1>3, <2>5, <3>1, <3>3, <4>1, <4>2 DEF Contacted, Accounts!Latest
    <3> QED BY <3>2, <3>3
  <2> QED BY <2>4, <2>5
<1>6. NextFollowUp(c)' = Accounts!Earliest(NextFollowUp(c), Promised(e))
  <2>1. /\ \A i \in Entries(c) : SetsFollowUp(log[i]) =>
             /\ NextFollowUp(c) \in Nat /\ log[i].next_follow_up_on \in Nat
             /\ NextFollowUp(c) =< log[i].next_follow_up_on
        /\ NextFollowUp(c) = None \/
             \E i \in Entries(c) :
               SetsFollowUp(log[i]) /\ NextFollowUp(c) = log[i].next_follow_up_on
    BY DEF FollowUpView
  <2>2. /\ \A i \in Entries(c) \cup {n} : SetsFollowUp(log'[i]) =>
             /\ NextFollowUp(c)' \in Nat /\ log'[i].next_follow_up_on \in Nat
             /\ NextFollowUp(c)' =< log'[i].next_follow_up_on
        /\ NextFollowUp(c)' = None \/
             \E i \in Entries(c) \cup {n} :
               SetsFollowUp(log'[i]) /\ NextFollowUp(c)' = log'[i].next_follow_up_on
    BY <1>1 DEF FollowUpView
  <2>3. \A i \in Entries(c) : log'[i] = log[i]
    BY <1>1
  <2>4. SetsFollowUp(e) <=> Promised(e) # None
    BY DEF SetsFollowUp, Promised
  <2>5. CASE Promised(e) = None
    <3>1. NextFollowUp(c)' = NextFollowUp(c)
      BY <1>3, <2>1, <2>2, <2>3, <2>4, <2>5 DEF e
    <3> QED BY <2>5, <3>1 DEF Accounts!Earliest
  <2>6. CASE Promised(e) # None
    <3>1. /\ NextFollowUp(c)' \in Nat /\ Promised(e) \in Nat
          /\ NextFollowUp(c)' =< Promised(e)
      BY <2>2, <2>4, <2>6 DEF e, Promised
    <3>2. CASE NextFollowUp(c) = None
      BY <1>3, <2>1, <2>2, <2>3, <2>6, <3>1, <3>2 DEF e, Promised, Accounts!Earliest
    <3>3. CASE NextFollowUp(c) # None
      <4>1. NextFollowUp(c) \in Nat /\ NextFollowUp(c)' =< NextFollowUp(c)
        BY <2>1, <2>2, <2>3, <3>3
      <4>2. NextFollowUp(c)' = Promised(e) \/ NextFollowUp(c) =< NextFollowUp(c)'
        BY <1>3, <2>1, <2>2, <2>3, <3>1 DEF e, Promised
      <4> QED BY <1>3, <2>6, <3>1, <3>3, <4>1, <4>2 DEF Accounts!Earliest
    <3> QED BY <3>2, <3>3
  <2> QED BY <2>5, <2>6
<1>7. ASSUME NEW x \in Companies \ {c}
      PROVE  /\ LastContacted(x)' = LastContacted(x)
             /\ NextFollowUp(x)' = NextFollowUp(x)
             /\ Interactions(x)' = Interactions(x)
  <2>1. Entries(x)' = Entries(x) /\ \A i \in Entries(x) : log'[i] = log[i]
    BY <1>1
  <2>2. LastContacted(x)' = LastContacted(x)
    BY <2>1, <1>3 DEF ContactedView
  <2>3. NextFollowUp(x)' = NextFollowUp(x)
    BY <2>1, <1>3 DEF FollowUpView
  <2> QED BY <2>1, <2>2, <2>3 DEF Interactions
<1>8. Accounts!Work(c, Contacted(e), Promised(e))
  BY <1>4, <1>5, <1>6, <1>7 DEF Accounts!Work
<1> QED BY <1>2, <1>8, ToldByEntry DEF Accounts!Next

\* The roll-up implements the ledger of an account, for any companies, contacts, times
\* and dates and whatever requests overlap: every entry counts once, for its own
\* company, and a late one never takes back a later contact or an earlier promise.
THEOREM AccountImplemented == Spec => ImplementsAccount
<1> DEFINE Views == ContactedView /\ FollowUpView
<1>1. Inv => Views
  BY ContactedViewHolds, FollowUpViewHolds
<1>2. Init => Accounts!Init
  <2> SUFFICES ASSUME Init PROVE Accounts!Init
    OBVIOUS
  <2>1. Inv
    BY Initially
  <2>2. \A c \in Companies : Entries(c) = {}
    BY DEF Init, Entries
  <2>3. \A c \in Companies : /\ LastContacted(c) = None /\ NextFollowUp(c) = None
                             /\ Interactions(c) = 0
    BY <2>1, <2>2, <1>1, FS_EmptySet DEF ContactedView, FollowUpView, Interactions
  <2> QED BY <2>3 DEF Accounts!Init
<1>3. Inv /\ Views /\ Views' /\ [Next]_vars => [Accounts!Next]_(Accounts!account)
  <2> SUFFICES ASSUME Inv, Views, Views', [Next]_vars
               PROVE  [Accounts!Next]_(Accounts!account)
    OBVIOUS
  <2>1. ASSUME UNCHANGED <<log, contact>> PROVE UNCHANGED Accounts!account
    BY <2>1 DEF Accounts!account, LastContacted, NextFollowUp, Interactions, Entries
  <2>2. ASSUME NEW r \in Requests, NEW c \in Companies, NEW k \in Contacts \cup {None},
               BeginOutreach(r, c, k)
        PROVE  UNCHANGED Accounts!account
    BY <2>1, <2>2 DEF BeginOutreach
  <2>3. ASSUME NEW r \in Requests, NEW a \in Actions, NEW s \in Given, NEW t \in Times,
               NEW d \in Dates \cup {None}, CommitOutreach(r, a, s, t, d)
        PROVE  Accounts!Next
    BY <2>3, CommitWorks
  <2>4. CASE UNCHANGED vars
    BY <2>1, <2>4 DEF vars
  <2> QED BY <2>2, <2>3, <2>4 DEF Next
<1> HIDE DEF Views
<1> QED BY <1>1, <1>2, <1>3, Invariance, PTL DEF Spec, ImplementsAccount, Accounts!Spec

=============================================================================
