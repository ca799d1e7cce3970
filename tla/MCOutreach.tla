------------------------------ MODULE MCOutreach -----------------------------
(***************************************************************************)
(* Outreach for TLC: a company with one contact, worked by two overlapping *)
(* requests, with and without the contact (Accounts.cfg), or by one whose  *)
(* calls are not always answered (AccountStatus.cfg).                      *)
(***************************************************************************)
EXTENDS Outreach, TLC

CONSTANTS c1, k1
MCCompanyOf == k1 :> c1
=============================================================================
