------------------------------ MODULE MCWriters ------------------------------
(***************************************************************************)
(* Instances of Writers with the default settings: two sessions over one   *)
(* opportunity.                                                            *)
(***************************************************************************)
EXTENDS Writers, MCStore, TLC

\* One kind of extraction: what varies is the day and the contacts it meets.
OnlyAnnounced == [o \in Opportunities |-> {Announced}]

\* Sessions are interchangeable: no action and no property names one.
AnySession == Permutations(Sessions)
=============================================================================
