-------------------------------- MODULE MCBrief -------------------------------
(***************************************************************************)
(* An instance of Brief with the default settings of config.py: one row    *)
(* under every operation, two contacts that either of two companies may    *)
(* report, and the brief read in every state (OneRow.cfg).                 *)
(***************************************************************************)
EXTENDS Brief, MCStore
=============================================================================
