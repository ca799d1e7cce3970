------------------------------ MODULE Relevance ------------------------------
(***************************************************************************)
(* services/relevance.py: the gate a document passes before anything is    *)
(* extracted from it.  A document is the number of distinct terms of each  *)
(* vocabulary it holds; finding the terms in the text (tokens, stems and   *)
(* substrings) is left out.                                                *)
(***************************************************************************)
EXTENDS Naturals

CONSTANTS
  RelevanceMinScore, RelevanceMinBusinessHits, RelevanceNoiseHits,
  RelevanceNoiseOverrideHits, RelevanceWeightEvent, RelevanceWeightBusiness,
  RelevanceWeightCorporate, RelevanceEventSufficiencyHits

ASSUME RelevanceAssumption ==
  {RelevanceMinScore, RelevanceMinBusinessHits, RelevanceNoiseHits,
   RelevanceNoiseOverrideHits, RelevanceWeightEvent, RelevanceWeightBusiness,
   RelevanceWeightCorporate, RelevanceEventSufficiencyHits} \subseteq Nat

\* Hits in the text, noise in the title, and whether the text is long enough.
Text ==
  [long : BOOLEAN, events : Nat, business : Nat, corporate : Nat, noise : Nat,
   weak : Nat, title_noise : Nat]

AtMost(n, cap) == IF n < cap THEN n ELSE cap

\* Each vocabulary counts up to a cap, so that no one of them carries a document.
RelevanceScore(t) ==
  AtMost(AtMost(t.events, 5) * RelevanceWeightEvent
       + AtMost(t.business, 8) * RelevanceWeightBusiness
       + AtMost(t.corporate, 5) * RelevanceWeightCorporate, 100)

\* Noise in the title or a weak topic needs business to offset it, and noise
\* throughout more business than noise.
Noisy(t) ==
  \/ (t.title_noise > 0 \/ t.weak > 0) /\ t.business < RelevanceNoiseOverrideHits
  \/ t.noise >= RelevanceNoiseHits /\ t.business < t.noise

\* Fault: an announcement needs an organisation behind it like any other text.
NeverAnnounces(t) == FALSE

\* An event's own announcement is evidence enough without business or an actor.
Announces(t) == t.events >= RelevanceEventSufficiencyHits

Substantial(t) ==
  \/ Announces(t)
  \/ t.business > 0 /\ (t.corporate > 0 \/ t.business >= RelevanceMinBusinessHits)

\* assess.
IsRelevant(t) ==
  t.long /\ ~Noisy(t) /\ Substantial(t) /\ RelevanceScore(t) >= RelevanceMinScore
=============================================================================
