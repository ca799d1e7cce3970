--------------------------- MODULE Registry_proofs ---------------------------
(***************************************************************************)
(* Proofs about Registry, for any keys, adapters, editions of the file and *)
(* requests.                                                               *)
(***************************************************************************)
EXTENDS Registry, FiniteSetTheorems, TLAPS

\* The results a command is holding: what they call usable has been proven, and only
\* a source on the network is called blocked by it.
ResultsSound ==
  probe # Idle =>
    /\ IsFiniteSet(DOMAIN probe.results)
    /\ UsableIn(probe.results) \subseteq proven
    /\ BlockedIn(probe.results) \subseteq NetworkIn(probe.results)

\* What a command has written stays proven.
LineProven == written => env # {} /\ env \subseteq proven

\* A run of everything that is live, under the line as written, used what is proven.
RunProven ==
  (written /\ allowed = env /\ run.kind # "none") => (run.named \/ run.used \subseteq proven)

\* What is inductive.
Inv == file \in Editions /\ ResultsSound /\ LineProven /\ RunProven

-----------------------------------------------------------------------------
\* A source that is not on the network never meets its refusal.
LEMMA OnlyNetworkBlocked ==
  ASSUME NEW f, NEW k \in Keys, NEW met \in Meets(k), NEW enabled,
         VerdictOn(f, k, met, enabled) = "BLOCKED_BY_EGRESS", k \in Listed(f)
  PROVE  Adapter[k] \in NetworkAdapters
<1>1. Adapter[k] \in DocumentAdapters \cup ContactAdapters \cup {"unknown"}
  BY RegistryAssumption
<1>2. CASE Adapter[k] = "jsonl"
  <2>1. met \in {"refused", "nothing", "items", "raises"}
    BY <1>2 DEF Meets
  <2> QED BY <2>1 DEF VerdictOn
<1>3. CASE Adapter[k] = "unknown"
  <2>1. k \in Broken(f)
    BY <1>3 DEF Broken
  <2> QED BY <2>1 DEF VerdictOn
<1> QED BY <1>1, <1>2, <1>3 DEF DocumentAdapters, ContactAdapters, NetworkAdapters

\* What a probe reports is sound from the start.
LEMMA ProbeSound ==
  ASSUME NEW command \in {"check", "enable"}, NEW only, Probe(command, only)
  PROVE  ResultsSound'
<1> DEFINE keys == IF only = {} THEN Listed(file) ELSE Listed(file) \cap only
           results(met) == [k \in keys |-> VerdictOn(file, k, met[k], Live(file, env))]
<1>1. PICK met \in [keys -> UNION {Meets(k) : k \in keys}] :
        /\ \A k \in keys : met[k] \in Meets(k)
        /\ probe' = [command |-> command, results |-> results(met)]
        /\ proven' = proven \cup UsableIn(results(met))
  BY Zenon DEF Probe
<1>2. probe'.results = results(met) /\ DOMAIN results(met) = keys
  BY <1>1
<1>3. keys \subseteq Listed(file) /\ keys \subseteq Keys
  BY DEF Listed
<1>4. IsFiniteSet(keys)
  BY <1>3, FS_Subset, RegistryAssumption
<1>5. \A k \in keys : results(met)[k] = "BLOCKED_BY_EGRESS" => Adapter[k] \in NetworkAdapters
  BY <1>1, <1>3, OnlyNetworkBlocked
<1> HIDE DEF results, keys
<1>6. BlockedIn(probe'.results) \subseteq NetworkIn(probe'.results)
  BY <1>2, <1>5 DEF BlockedIn, NetworkIn
<1> QED BY <1>1, <1>2, <1>4, <1>6 DEF ResultsSound

\* The invariant holds of the initial states and is kept by every step.
THEOREM Invariance == Spec => []Inv
<1>1. Init => Inv
  BY DEF Init, Inv, ResultsSound, LineProven, RunProven, NoRun
<1>2. Inv /\ [Next]_vars => Inv'
  <2> SUFFICES ASSUME Inv, [Next]_vars PROVE Inv'
    OBVIOUS
  <2> USE DEF Inv
  <2>1. ASSUME NEW command \in {"check", "enable"}, NEW only \in Requests, Probe(command, only)
        PROVE  Inv'
    <3>1. proven \subseteq proven' /\ run' = NoRun /\ UNCHANGED <<file, env, written>>
      BY <2>1 DEF Probe
    <3> QED BY <2>1, <3>1, ProbeSound DEF LineProven, RunProven, NoRun
  <2>2. CASE Finish
    <3>1. probe # Idle /\ probe' = Idle /\ run' = NoRun /\ UNCHANGED <<file, proven>>
      BY <2>2 DEF Finish
    <3>2. LineProven'
      <4>1. CASE probe.command = "enable" /\ WritesLine(probe.results)
        BY <2>2, <3>1, <4>1 DEF Finish, WritesLine, Named, ResultsSound, LineProven
      <4>2. CASE ~(probe.command = "enable" /\ WritesLine(probe.results))
        BY <2>2, <3>1, <4>2 DEF Finish, LineProven
      <4> QED BY <4>1, <4>2
    <3> QED BY <3>1, <3>2 DEF ResultsSound, RunProven, NoRun
  <2>3. CASE Restart
    BY <2>3 DEF Restart, ResultsSound, LineProven, RunProven, NoRun
  <2>4. CASE Deploy
    BY <2>4 DEF Deploy, ResultsSound, LineProven, RunProven, NoRun
  <2>5. ASSUME NEW kind \in DOMAIN Adapters, NEW only \in Requests, Run(kind, only)
        PROVE  Inv'
    <3>1. UNCHANGED <<file, env, allowed, probe, proven, written>>
      BY <2>5 DEF Run
    <3>2. ASSUME written, allowed = env, only = {}
          PROVE  run'.used \subseteq proven
      <4>1. allowed # {} /\ allowed \subseteq proven
        BY <3>2 DEF LineProven
      <4>2. Loaded(file, allowed, kind, only) \subseteq allowed
        BY <3>2, <4>1 DEF Loaded, Live, Allowlisted
      <4>3. run'.used \in {Loaded(file, allowed, kind, only), {}}
        BY <2>5 DEF Run
      <4> QED BY <4>1, <4>2, <4>3
    <3>3. run'.named = (only # {})
      BY <2>5 DEF Run
    <3> QED BY <3>1, <3>2, <3>3 DEF ResultsSound, LineProven, RunProven
  <2>6. CASE UNCHANGED vars
    BY <2>6 DEF vars, ResultsSound, LineProven, RunProven
  <2> QED BY <2>1, <2>2, <2>3, <2>4, <2>5, <2>6 DEF Next
<1> QED BY <1>1, <1>2, PTL DEF Spec

\* Once the command has written the allowlist and the process has been restarted,
\* everything live has been demonstrated to work, however commands, deployments of
\* the file, restarts and runs interleave (cli.py, cmd_enable_sources).
THEOREM LiveMeansProven == Spec => []OnlyProvenIsLive
<1>1. Inv => OnlyProvenIsLive
  BY DEF Inv, LineProven, RunProven, OnlyProvenIsLive, Live, Allowlisted
<1> QED BY <1>1, Invariance, PTL

\* The conclusion of summarize blames the network exactly when it is to blame: it
\* compares two numbers of sources, of which the one is a subset of the other.
THEOREM BlameIsRight == Spec => []BlamesTheNetworkRightly
<1>1. Inv => BlamesTheNetworkRightly
  <2> SUFFICES ASSUME Inv, probe # Idle
               PROVE  BlamesTheNetworkRightly
    BY DEF BlamesTheNetworkRightly
  <2> DEFINE results == probe.results
             network == NetworkIn(results)
             blocked == BlockedIn(results)
  <2>1. IsFiniteSet(network) /\ blocked \subseteq network
    BY FS_Subset DEF Inv, ResultsSound, NetworkIn
  <2>2. Cardinality(blocked) = Cardinality(network) <=> blocked = network
    BY <2>1, FS_Subset
  <2>3. blocked = network <=> \A k \in network : results[k] = "BLOCKED_BY_EGRESS"
    BY <2>1 DEF NetworkIn, BlockedIn
  <2>4. UsableIn(results) = {} <=>
          \A k \in DOMAIN results : results[k] \notin Usable
    BY DEF UsableIn
  <2>5. "BLOCKED_BY_EGRESS" \notin Usable
    BY DEF Usable
  <2>6. Conclusion(results) = "blocked here" <=>
          /\ network # {} /\ blocked = network /\ UsableIn(results) = {}
    BY <2>2 DEF Conclusion, NetworkIn
  <2> QED
    BY <2>3, <2>4, <2>5, <2>6 DEF BlamesTheNetworkRightly, NetworkIn
<1> QED BY <1>1, Invariance, PTL

\* Under an allowlist a run that names no source either fails or uses everything on
\* it that can be built: load_source_configs raises for a key that has gone.
THEOREM NeverNothing == Spec => NeverQuietlyNothing
<1>1. Inv /\ [Next]_vars =>
        (run' # run /\ run'.kind # "none" /\ ~run'.failed /\ ~run'.named /\ ~run'.missing
           /\ allowed # {}
         => run'.used = allowed \cap Buildable(file, run'.kind))
  <2> SUFFICES ASSUME Inv, [Next]_vars, run' # run, run'.kind # "none", ~run'.failed,
                      ~run'.named, ~run'.missing, allowed # {}
               PROVE  run'.used = allowed \cap Buildable(file, run'.kind)
    OBVIOUS
  <2>1. ASSUME run' = NoRun PROVE FALSE
    BY <2>1 DEF NoRun
  <2>2. ~ UNCHANGED vars
    BY DEF vars
  <2>3. ~ \E command \in {"check", "enable"}, only \in Requests : Probe(command, only)
    BY <2>1 DEF Probe
  <2>4. ~ (Finish \/ Restart \/ Deploy)
    BY <2>1 DEF Finish, Restart, Deploy
  <2>5. PICK kind \in DOMAIN Adapters, only \in Requests : Run(kind, only)
    BY <2>2, <2>3, <2>4 DEF Next
  <2>6. run' = [kind |-> kind, named |-> only # {}, failed |-> ~Loads(file, allowed),
                missing |-> file.is = "missing",
                used |-> IF Loads(file, allowed) THEN Loaded(file, allowed, kind, only) ELSE {}]
    BY <2>5 DEF Run
  <2>7. only = {} /\ Loads(file, allowed) /\ file.is # "missing" /\ run'.kind = kind
        /\ run'.used = Loaded(file, allowed, kind, only)
    BY <2>6
  <2>8. allowed \subseteq Listed(file)
    BY <2>7, RegistryAssumption DEF Loads, Inv
  <2>9. Loaded(file, allowed, kind, {}) = allowed \cap Buildable(file, kind)
    BY <2>8 DEF Loaded, Live, Allowlisted
  <2> QED BY <2>7, <2>9
<1> QED BY <1>1, Invariance, PTL DEF Spec, NeverQuietlyNothing
=============================================================================
