------------------------------- MODULE Account -------------------------------
(***************************************************************************)
(* The ledger of an account, kept interaction by interaction: how many     *)
(* there were, the latest of those that were a contact, and the earliest   *)
(* next step ever promised.  It knows nothing of a log, of contacts or of  *)
(* requests.  Outreach implements it with the roll-up that heads a         *)
(* company's profile, computed anew from the whole log each time           *)
(* (services/outreach.py, company_state).                                  *)
(***************************************************************************)
EXTENDS Naturals

CONSTANTS
  Companies,
  Times, Dates,     \* of an interaction, and of a next step
  None              \* no contact yet, nothing promised yet

VARIABLES
  last_contacted,   \* of each company: a time, or None
  next_follow_up,   \* a date, or None
  interactions

account == <<last_contacted, next_follow_up, interactions>>

Init ==
  /\ last_contacted = [c \in Companies |-> None]
  /\ next_follow_up = [c \in Companies |-> None]
  /\ interactions = [c \in Companies |-> 0]

\* Of two times the later, of two dates the sooner, and of one and none the one.
Latest(s, t) ==
  IF s = None \/ t = None THEN (IF s = None THEN t ELSE s) ELSE IF s >= t THEN s ELSE t
Earliest(s, d) ==
  IF s = None \/ d = None THEN (IF s = None THEN d ELSE s) ELSE IF s =< d THEN s ELSE d

\* One interaction with account c: a contact made at t or none, a step promised for d
\* or none.  It may be entered long after the fact.
Work(c, t, d) ==
  /\ last_contacted' = [last_contacted EXCEPT ![c] = Latest(@, t)]
  /\ next_follow_up' = [next_follow_up EXCEPT ![c] = Earliest(@, d)]
  /\ interactions' = [interactions EXCEPT ![c] = @ + 1]

Next == \E c \in Companies, t \in Times \cup {None}, d \in Dates \cup {None} : Work(c, t, d)

Spec == Init /\ [][Next]_account
=============================================================================
