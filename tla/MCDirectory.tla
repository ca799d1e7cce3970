----------------------------- MODULE MCDirectory -----------------------------
(***************************************************************************)
(* Directory for TLC (Directory.cfg): what three pages and a person come   *)
(* to say about the people of one company.                                 *)
(***************************************************************************)
EXTENDS Directory

CONSTANTS c1, ann, bob, mailA, mailB, inA

MCTransform == [p \in Score |-> IF p = 100 THEN 100 ELSE 0]
MCHorizon == 0
MCAgeFactor == [age \in 0..MCHorizon |-> 1000]

Manager == [seniority |-> 78, ownership |-> 70]

Entry(name, title, department, email, status, linkedin, confidence) ==
  [company |-> c1, name |-> name, job_title |-> title, department |-> department,
   email |-> email, email_status |-> status, linkedin |-> linkedin,
   contact_kind |-> IF title = None THEN "UNKNOWN" ELSE "NAMED_INDIVIDUAL", confidence |-> confidence]

MCPayloads ==
  {Entry(ann, Manager, "MARKETING", None, "UNKNOWN", None, 90),
   Entry(ann, None, "UNKNOWN", mailA, "PUBLIC", None, 50),
   Entry(ann, None, "PR", mailB, "INFERRED", inA, 50),
   Entry(ann, None, "UNKNOWN", mailB, "VERIFIED", inA, 70),
   Entry(bob, None, "MARKETING", None, "UNKNOWN", inA, 70)}

MCPreference == <<"MARKETING", "PR">>
=============================================================================
