-------------------------------- MODULE Brief --------------------------------
(***************************************************************************)
(* services/brief.py: the daily brief, a reading of the opportunities      *)
(* table as it stands.  It has no events to go by: that a row changed      *)
(* within the window is derived from the one movement the row remembers.   *)
(* Here what really happened within the window is remembered beside it.    *)
(*                                                                         *)
(* The window (brief_lookback_hours) is the current day of Lifecycle.      *)
(***************************************************************************)
EXTENDS Lifecycle

VARIABLES
  opening,          \* auxiliary: each score when the window opened, None for no row
  writes            \* auxiliary: records of a movement in the window, 2 for more

brief_vars == <<vars, opening, writes>>

BriefInit ==
  /\ Init
  /\ opening = [o \in Opportunities |-> None]
  /\ writes = [o \in Opportunities |-> 0]

\* The step records a movement of o: its score changes, or it is the pass, which
\* does so for a new decay factor as well.
Records(o) ==
  /\ Present(opportunity[o])
  /\ \/ opportunity'[o].score # opportunity[o].score
     \/ opportunity'[o].decay_factor # opportunity[o].decay_factor /\ RescoreAll

Chronicle ==
  IF today' # today
  THEN /\ opening' = [o \in Opportunities |->
             IF Present(opportunity[o]) THEN opportunity[o].score ELSE None]
       /\ writes' = [o \in Opportunities |-> 0]
  ELSE /\ UNCHANGED opening
       /\ writes' = [o \in Opportunities |->
             IF Records(o) /\ writes[o] < 2 THEN writes[o] + 1 ELSE writes[o]]

BriefNext == Next /\ Chronicle

BriefSpec == BriefInit /\ [][BriefNext]_brief_vars
-----------------------------------------------------------------------------
(***************************************************************************)
(* build_daily_brief.                                                      *)
(***************************************************************************)
BriefChange == {"UPGRADED", "DOWNGRADED", "EXPIRED"}

\* How a movement between two scores is reported.
ChangeBetween(previous, score) ==
  CASE IsQualified(previous) /\ ~IsQualified(score) -> "EXPIRED"
    [] score > previous -> "UPGRADED"
    [] score < previous /\ (IsQualified(previous) => IsQualified(score)) -> "DOWNGRADED"
    [] score = previous -> "NONE"

\* New in the window.
BornInWindow(o) == Present(opportunity[o]) /\ opening[o] = None

NewOpportunities == {o \in Open : BornInWindow(o) /\ IsQualified(opportunity[o].score)}

HotBands == {"HOT", "EXCEPTIONAL"}
NewHot == {o \in NewOpportunities : opportunity[o].classification \in HotBands}

\* Moved in the window, and there before it.
MovedInWindow ==
  {o \in Recorded : /\ opportunity[o].previous_score # None
                    /\ opportunity[o].score_changed_at = today
                    /\ ~BornInWindow(o)}

\* What the brief says of a row.
Reported(o) ==
  IF o \in MovedInWindow
  THEN ChangeBetween(opportunity[o].previous_score, opportunity[o].score)
  ELSE "NONE"
-----------------------------------------------------------------------------
(***************************************************************************)
(* Properties.                                                             *)
(***************************************************************************)
\* The brief tells what happened: a row that was there when the window opened and
\* whose movement was recorded at most once since is reported as what became of it,
\* and as EXPIRED exactly if it no longer qualifies.  It rests on every service
\* keeping previous_score and score_changed_at whenever it moves a score.
BriefTellsTheDay ==
  \A o \in Recorded :
    opening[o] # None /\ writes[o] =< 1 =>
      Reported(o) = ChangeBetween(opening[o], opportunity[o].score)
=============================================================================
