------------------------------ MODULE MCCycle ------------------------------
(***************************************************************************)
(* Instances of Cycle: a feed and a page of contacts on one host, read by  *)
(* the scheduler's thread, by the thread of the next application, and by a *)
(* request.                                                                *)
(***************************************************************************)
EXTENDS Cycle

CONSTANTS f1, p1

OneHost == [s \in {f1, p1} |-> "host"]

\* The two sources of the host are not read at the same rate.
Rates == [s \in {f1, p1} |-> IF s = f1 THEN 1 ELSE 2]
=============================================================================
