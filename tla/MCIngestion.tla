----------------------------- MODULE MCIngestion -----------------------------
(***************************************************************************)
(* Ingestion for TLC: two runs over one announcement found in four forms   *)
(* (Feeds.cfg).                                                            *)
(***************************************************************************)
EXTENDS Ingestion

CONSTANTS a1, a2, a3, a4, r1

\* One run reads everything, another only some of the sources.
FeedSources == [r \in Runs |-> IF r = r1 THEN Documents ELSE {a2, a3}]

\* News of one opening: a1 names the company, a2 its domain as well, a3 spells the name
\* otherwise but has the domain; a4 is what became of the page of a2: no title, and no
\* company but the one its text mentions.
FeedUrl == [d \in {a1, a2, a3, a4} |-> IF d = a4 THEN a2 ELSE d]
Own == [d \in {a1, a2, a3, a4} |-> d]
FeedName == [d \in {a1, a2, a3, a4} |->
  IF d = a4 THEN None ELSE IF d = a3 THEN "spelled" ELSE "named"]
FeedDomain == [d \in {a1, a2, a3, a4} |-> IF d \in {a2, a3} THEN "domain" ELSE None]
FeedMentions == [d \in {a1, a2, a3, a4} |-> IF d = a4 THEN {"named"} ELSE {}]
FeedTitle == [d \in {a1, a2, a3, a4} |-> IF d = a4 THEN None ELSE "opening"]
FeedLength == [c \in {"named", "spelled"} |-> 10]
=============================================================================
