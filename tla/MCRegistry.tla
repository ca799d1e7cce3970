------------------------------ MODULE MCRegistry -----------------------------
(***************************************************************************)
(* Registry for TLC: a feed, a contact page and a local file (Enabling.cfg)*)
(***************************************************************************)
EXTENDS Registry, TLC

CONSTANTS feed, page, local
MCAdapter == feed :> "rss" @@ page :> "contact_page" @@ local :> "jsonl"
MCFirstAllowed == {{}, {feed}}
Table(f, p, l) == [is |-> "table", flag |-> feed :> f @@ page :> p @@ local :> l]
MCEditions ==
  {Table("off", "off", "off"), Table("broken", "off", "off"), Table("on", "off", "on"),
   Table("on", "absent", "off"), [is |-> "missing"], [is |-> "invalid"]}
MCRequests == {{}, {page}, {feed, local}}
=============================================================================
