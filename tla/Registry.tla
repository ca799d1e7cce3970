------------------------------ MODULE Registry -------------------------------
(***************************************************************************)
(* Which sources are live: the registry file, the allowlist of the         *)
(* deployment (SOURCES_ENABLED), the process that read it when it started, *)
(* and the commands that probe sources and write the allowlist             *)
(* (sources/registry.py, services/source_health.py, cli.py).               *)
(*                                                                         *)
(* The file may be replaced by a deployment at any time, and is read anew  *)
(* by every run and every probe; the allowlist is read by a process when   *)
(* it starts.  Publishers and networks come and go: what a probe meets is  *)
(* chosen when it probes.                                                  *)
(***************************************************************************)
EXTENDS Naturals, FiniteSets

CONSTANTS
  Keys,             \* of sources that some registry file may list
  Adapter,          \* the adapter each entry names
  Editions,         \* the states the registry file may be in
  Requests,         \* the sets of keys a caller may name; {} names none
  FirstAllowed      \* the allowlists a deployment may start with

VARIABLES
  file,             \* the registry file, or what is wrong with it
  env,              \* SOURCES_ENABLED in the deployment's environment file
  allowed,          \* SOURCES_ENABLED as the running process has read it
  probe,            \* the command that is under way
  (* Auxiliary. *)
  run,              \* what the step just taken has run, if it was a run
  proven,           \* sources a probe has found usable
  written           \* whether a command has written the allowlist

vars == <<file, env, allowed, probe, run, proven, written>>

DocumentAdapters == {"rss", "jsonl"}
ContactAdapters == {"contact_page"}
Adapters == [documents |-> DocumentAdapters, contacts |-> ContactAdapters]
NetworkAdapters == {"rss", "contact_page"}

ASSUME RegistryAssumption ==
  /\ IsFiniteSet(Keys)
  /\ Adapter \in [Keys -> DocumentAdapters \cup ContactAdapters \cup {"unknown"}]
  /\ Editions \subseteq ([is : {"table"}, flag : [Keys -> {"absent", "off", "on", "broken"}]]
                         \cup [is : {"missing", "invalid"}])
  /\ Requests \subseteq SUBSET Keys
  /\ FirstAllowed \subseteq SUBSET Keys

Verdict == {"ACTIVE", "READY_TO_ENABLE", "BLOCKED_BY_EGRESS", "UNREACHABLE",
            "NOT_USABLE", "EMPTY", "MISCONFIGURED"}
Usable == {"ACTIVE", "READY_TO_ENABLE"}

\* An entry is listed or not; if it is, it is switched off or on, or switched off and
\* without the options its adapter needs.  A file that is there may be one that
\* _parse_entry or the JSON parser refuses.
Listed(f) == IF f.is = "table" THEN {k \in Keys : f.flag[k] # "absent"} ELSE {}
SwitchedOn(f) == {k \in Listed(f) : f.flag[k] = "on"}

-----------------------------------------------------------------------------
(***************************************************************************)
(* sources/registry.py.                                                    *)
(***************************************************************************)

\* apply_enabled_allowlist: an empty allowlist leaves it to the file, any other is
\* the whole answer.
Allowlisted(f, enabled) == IF enabled = {} THEN SwitchedOn(f) ELSE enabled

\* Fault: a key that is not in the file is passed over.
TolerantLoads(f, enabled) == f.is # "invalid"

\* load_source_configs raises for a broken file and for an allowlist that names a
\* key the file does not list.  A missing file is no error, whatever is allowed.
Loads(f, enabled) == f.is # "invalid" /\ (f.is = "table" => enabled \subseteq Listed(f))
Live(f, enabled) == Allowlisted(f, enabled) \cap Listed(f)

\* load_sources, load_contact_sources: the live sources of a kind, or the ones that
\* are named, live or not; one that cannot be built is passed over.
Broken(f) == {k \in Listed(f) : f.flag[k] = "broken" \/ Adapter[k] = "unknown"}
Buildable(f, kind) == {k \in Keys : Adapter[k] \in Adapters[kind]} \ Broken(f)
Loaded(f, enabled, kind, only) ==
  (IF only = {} THEN Live(f, enabled) ELSE Listed(f) \cap only) \cap Buildable(f, kind)

-----------------------------------------------------------------------------
(***************************************************************************)
(* services/source_health.py.                                              *)
(***************************************************************************)

\* What a probe of a source may meet: the network refuses, or the publisher, or the
\* file is not there; an answer that does not parse, one with nothing in it, one
\* with items; or an exception on the way.
Meets(k) ==
  CASE Adapter[k] = "rss" -> {"blocked", "refused", "garbage", "nothing", "items", "raises"}
    [] Adapter[k] = "contact_page" -> {"blocked", "refused", "nothing", "items", "raises"}
    [] Adapter[k] = "jsonl" -> {"refused", "nothing", "items", "raises"}
    [] OTHER -> {"items"}

\* check_source: an entry that is wrong is not probed at all, and nothing is raised.
VerdictOn(f, k, met, enabled) ==
  IF k \in Broken(f) THEN "MISCONFIGURED"
  ELSE CASE met = "blocked" -> "BLOCKED_BY_EGRESS"
         [] met = "refused" -> "UNREACHABLE"
         [] met = "garbage" \/ met = "raises" -> "NOT_USABLE"
         [] met = "nothing" -> "EMPTY"
         [] met = "items" -> IF k \in enabled THEN "ACTIVE" ELSE "READY_TO_ENABLE"

UsableIn(results) == {k \in DOMAIN results : results[k] \in Usable}
BlockedIn(results) == {k \in DOMAIN results : results[k] = "BLOCKED_BY_EGRESS"}

\* Fault: a local file counts among the sources the network could have blocked.
Countable(results) == DOMAIN results
\* Only a source on the network can be blocked by it.
NetworkIn(results) == {k \in DOMAIN results : Adapter[k] \in NetworkAdapters}

\* summarize: the conclusion a person acts on.
Conclusion(results) ==
  IF DOMAIN results = {} THEN "nothing configured"
  ELSE IF UsableIn(results) # {} THEN "usable"
  ELSE IF NetworkIn(results) # {} /\ Cardinality(BlockedIn(results)) = Cardinality(NetworkIn(results))
       THEN "blocked here" ELSE "see each verdict"

-----------------------------------------------------------------------------
(***************************************************************************)
(* The commands, the process and the deployment.                           *)
(***************************************************************************)
Idle == [command |-> "none"]
NoRun == [kind |-> "none"]

Init ==
  /\ file \in Editions
  /\ env \in FirstAllowed
  /\ allowed = env
  /\ probe = Idle
  /\ run = NoRun
  /\ proven = {}
  /\ written = FALSE

\* check-sources and enable-sources, of all entries or the ones named: a process of
\* its own, which reads the allowlist as it is in the environment now.
Probe(command, only) ==
  /\ probe = Idle
  /\ Loads(file, env)
  /\ LET keys == IF only = {} THEN Listed(file) ELSE Listed(file) \cap only
     IN  \E met \in [keys -> UNION {Meets(k) : k \in keys}] :
           /\ \A k \in keys : met[k] \in Meets(k)
           /\ LET results == [k \in keys |-> VerdictOn(file, k, met[k], Live(file, env))]
              IN  /\ probe' = [command |-> command, results |-> results]
                  /\ proven' = proven \cup UsableIn(results)
  /\ run' = NoRun
  /\ UNCHANGED <<file, env, allowed, written>>

\* The line is written when there is something to name in it.
WritesLine(results) == UsableIn(results) # {}

\* Fault: an empty feed is harmless to enable.
EnablesEmpty(results) == {k \in DOMAIN results : results[k] \in Usable \cup {"EMPTY"}}
\* The sources the line names.
Named(results) == UsableIn(results)

\* The end of either command; enable-sources then rewrites the one line.
Finish ==
  /\ probe # Idle
  /\ probe' = Idle
  /\ IF probe.command = "enable" /\ WritesLine(probe.results)
     THEN env' = Named(probe.results) /\ written' = TRUE
     ELSE UNCHANGED <<env, written>>
  /\ run' = NoRun
  /\ UNCHANGED <<file, allowed, proven>>

\* The process starts again and reads its environment.
Restart ==
  /\ allowed' = env
  /\ run' = NoRun
  /\ UNCHANGED <<file, env, probe, proven, written>>

\* A deployment brings another edition of the file.
Deploy ==
  /\ file' \in Editions
  /\ run' = NoRun
  /\ UNCHANGED <<env, allowed, probe, proven, written>>

\* A run of the process, over its live sources or the ones a caller names.
Run(kind, only) ==
  /\ run' = [kind |-> kind, named |-> only # {}, failed |-> ~Loads(file, allowed),
             missing |-> file.is = "missing",
             used |-> IF Loads(file, allowed) THEN Loaded(file, allowed, kind, only) ELSE {}]
  /\ UNCHANGED <<file, env, allowed, probe, proven, written>>

Next ==
  \/ \E command \in {"check", "enable"}, only \in Requests : Probe(command, only)
  \/ Finish
  \/ Restart
  \/ Deploy
  \/ \E kind \in DOMAIN Adapters, only \in Requests : Run(kind, only)

Spec == Init /\ [][Next]_vars

-----------------------------------------------------------------------------
(***************************************************************************)
(* Properties.                                                             *)
(***************************************************************************)

\* "A source can only be switched on by demonstrating that it is reachable and
\* parses" (docs/ARCHITECTURE.md:187-188): once the command has written the
\* allowlist and the process has been restarted, everything that runs unnamed has
\* been found usable by some probe, whatever the registry file says meanwhile, and
\* however probes, deployments and restarts interleave.
OnlyProvenIsLive ==
  /\ written => env # {} /\ env \subseteq proven
  /\ (written /\ allowed = env) => Live(file, allowed) \subseteq proven
  /\ (written /\ allowed = env /\ run.kind # "none") => (run.named \/ run.used \subseteq proven)

\* "A typo cannot quietly mean ingest nothing" (README.md:233-234): under an
\* allowlist a run that names no source either fails or uses every allowlisted
\* source of its kind that can be built, also when a deployment has since taken an
\* entry out of the file; a file that is missing altogether is the one exception.
NeverQuietlyNothing ==
  [][run' # run /\ run'.kind # "none" /\ ~run'.failed /\ ~run'.named /\ ~run'.missing
       /\ allowed # {}
     => run'.used = allowed \cap Buildable(file, run'.kind)]_vars

\* The report tells a network that lets nothing through from sources that do not
\* work (source_health.py:1-15): it blames the network exactly when no probed source
\* is usable, and every probed source that is on the network, of which there is one,
\* was refused by it; what a local file is worth takes no part.
BlamesTheNetworkRightly ==
  probe # Idle =>
    LET results == probe.results
        network == {k \in DOMAIN results : Adapter[k] \in NetworkAdapters}
    IN  Conclusion(results) = "blocked here" <=>
          /\ network # {}
          /\ \A k \in network : results[k] = "BLOCKED_BY_EGRESS"
          /\ \A k \in DOMAIN results \ network : results[k] \notin Usable
=============================================================================
