----------------------------- MODULE MCLifecycle -----------------------------
(***************************************************************************)
(* Instances of Lifecycle with the default settings of config.py: one row  *)
(* whose event goes by (PastEvent.cfg), and two rows of one company that   *)
(* compete for a list of one (Ranking.cfg).                                *)
(***************************************************************************)
EXTENDS Lifecycle, MCStore
=============================================================================
