---------------------------- MODULE MCAssessment -----------------------------
(***************************************************************************)
(* Assessment with the default settings of config.py (Rules.cfg): texts    *)
(* with some noise or none, and leads from strong to weak circumstances.   *)
(***************************************************************************)
EXTENDS Assessment

\* 100 * (p / 100) ^ 1.25, rounded.
MCTransform ==
  LET table ==
    <<0, 1, 1, 2, 2, 3, 4, 4, 5, 6, 6, 7, 8, 9, 9, 10, 11, 12, 13, 13, 14, 15, 16, 17, 18,
      19, 19, 20, 21, 22, 23, 24, 25, 26, 27, 28, 29, 30, 31, 32, 33, 34, 35, 36, 37, 38, 39, 40, 41, 42,
      43, 44, 45, 46, 47, 48, 50, 51, 52, 53, 54, 55, 56, 57, 58, 59, 61, 62, 63, 64, 65, 66, 67, 69, 70,
      71, 72, 73, 74, 76, 77, 78, 79, 80, 82, 83, 84, 85, 86, 88, 89, 90, 91, 93, 94, 95, 96, 98, 99, 100>>
  IN  [p \in Score |-> IF p = 0 THEN 0 ELSE table[p]]
MCHorizon == 0
MCAgeFactor == [age \in 0..MCHorizon |-> 1000]

MCTexts ==
  [long : BOOLEAN, events : {0}, business : {0}, corporate : {0}, noise : {0}, weak : {0, 1},
   title_noise : {0, 1}]

\* Nothing known but the kind of signal, its source and date, the window, the roster.
MCLead(strength, tier, confirmed, window, roster) ==
  [known |-> {}, signal_strength |-> strength, source_tier |-> tier,
   source_confidence |-> tier, dated |-> TRUE, extraction_confidence |-> tier,
   corroborating_sources |-> IF tier = 100 THEN 3 ELSE 1, confirmed |-> confirmed,
   official |-> tier >= 92, window |-> window, contact_quality |-> roster,
   company_size |-> "UNKNOWN", attendee_band |-> "UNKNOWN",
   production_complexity |-> "UNKNOWN", services |-> 0, repeat_potential |-> "UNKNOWN",
   brand_value |-> "UNKNOWN", commercial_estimate |-> None,
   announcement_scale |-> "UNKNOWN", has_event_history |-> None,
   marketing_activity |-> "UNKNOWN", comms_activity |-> "UNKNOWN",
   ecosystem_breadth |-> "UNKNOWN", stakeholder_count |-> None,
   executive_involvement |-> None, probability_estimate |-> None]

MCLeads ==
  {MCLead(95, 100, TRUE, "DAYS_0_14", 100), MCLead(95, 35, TRUE, "DAYS_0_14", 100),
   MCLead(55, 100, FALSE, "UNKNOWN", 0), MCLead(20, 35, FALSE, "MONTHS_3_6", 60)}

\* The lowest and the highest, and those on either side of what an unknown is worth.
MCFigures ==
  [services |-> <<1, 4, 9>>, stakeholder_count |-> <<0, 1, 2, 10>>,
   commercial_estimate |-> <<0, 29, 30, 100>>, probability_estimate |-> <<0, 29, 30, 100>>]
=============================================================================
