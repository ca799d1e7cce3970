------------------------------- MODULE MCStore -------------------------------
(***************************************************************************)
(* Values for the constants of Store, with the default settings of         *)
(* config.py: one company, a short calendar, and two kinds of extraction.  *)
(***************************************************************************)
EXTENDS Store

CONSTANTS o1, c1

MCHorizon == 40

\* exp(-(age - 14) / 120) in thousandths at the ages 14, 40 and 100 that occur.
MCAgeFactor ==
  [age \in 0..MCHorizon |->
     IF age =< 14 THEN 1000 ELSE IF age =< 20 THEN 951 ELSE 805]

MCCompanyOf == [o \in Opportunities |-> c1]
MCContactCompany == [k \in Contacts |-> c1]

\* Contacts reported only under their own company, or under any.
ListedOnce == [k \in Contacts |-> {}]
ListedAnywhere == [k \in Contacts |-> Companies]

\* A well-sourced announcement with a date, and a thin hint without one.
Announced == [raw_probability |-> 90, commercial_value |-> 90, evidence_score |-> 90,
              window |-> "DAYS_15_30", event_date |-> 18, already_occurred |-> FALSE,
              official |-> TRUE]
Hinted == [raw_probability |-> 80, commercial_value |-> 80, evidence_score |-> 35,
           window |-> "UNKNOWN", event_date |-> None, already_occurred |-> FALSE,
           official |-> FALSE]
MCExtractions ==
  [o \in Opportunities |-> IF o = o1 THEN {Announced, Hinted} ELSE {Announced}]
=============================================================================
