-------------------------------- MODULE Cycle --------------------------------
(***************************************************************************)
(* services/scheduler.py: the refresh cycle, run by the scheduler's thread *)
(* and by requests, each over its own sources, and the thread's start and  *)
(* stop by the application (main.py).                                      *)
(*                                                                         *)
(* Several applications may follow one another in a process: the scheduler *)
(* belongs to the process, and so do its thread and its stop event.        *)
(***************************************************************************)
EXTENDS Fetching, FiniteSets

CONSTANTS
  LoopThreads,      \* threads that start may create
  RequestThreads,   \* threads that serve POST /maintenance/cycle
  Feeds, Pages      \* sources of documents, and of contacts

ASSUME CycleAssumption ==
  /\ Threads = LoopThreads \cup RequestThreads
  /\ LoopThreads \cap RequestThreads = {}
  /\ Sources = Feeds \cup Pages

VARIABLES
  cycle,            \* of each thread: the cycle it is in
  loop,             \* of each loop thread: where in its loop it is
  thread,           \* the thread the scheduler holds, {} before the first start
  stop,             \* the stop event
  app               \* the application's lifespan

vars == <<next_allowed, fetch, cycle, loop, thread, stop, app>>

NoCycle == [stage |-> "none"]
Stage(stage, todo) == [stage |-> stage, todo |-> todo]
Alive(l) == loop[l] # "none"

Init ==
  /\ FetchInit
  /\ cycle = [t \in Threads |-> NoCycle]
  /\ loop = [l \in LoopThreads |-> "none"]
  /\ thread = {}
  /\ stop = FALSE
  /\ app = "down"

-----------------------------------------------------------------------------
(***************************************************************************)
(* run_cycle.                                                              *)
(***************************************************************************)
\* The next adapter fetches.
Read(t, s) ==
  /\ cycle[t] # NoCycle
  /\ s \in cycle[t].todo
  /\ BeginFetch(t, s)
  /\ cycle' = [cycle EXCEPT ![t].todo = @ \ {s}]
  /\ UNCHANGED <<loop, thread, stop, app>>

InFetch(t) ==
  /\ FetchStep(t)
  /\ UNCHANGED <<cycle, loop, thread, stop, app>>

\* All adapters of a stage are done: ingestion stores, then discovery, then decay.
Advance(t) ==
  /\ cycle[t] # NoCycle /\ cycle[t].stage # "rescore"
  /\ cycle[t].todo = {} /\ fetch[t] = NoFetch
  /\ cycle' = [cycle EXCEPT ![t] =
       CASE @.stage = "fetch" -> Stage("ingest", {})
         [] @.stage = "ingest" -> Stage("discover", Pages)
         [] @.stage = "discover" -> Stage("rescore", {})]
  /\ UNCHANGED <<next_allowed, fetch, loop, thread, stop, app>>

\* The cycle of t is over: a loop waits for the next.
Over(t) ==
  /\ cycle' = [cycle EXCEPT ![t] = NoCycle]
  /\ loop' = [l \in LoopThreads |-> IF l = t THEN "wait" ELSE loop[l]]
  /\ UNCHANGED <<next_allowed, fetch, thread, stop, app>>

\* rescore_all commits, and with it the cycle is done.
Complete(t) == cycle[t] # NoCycle /\ cycle[t].stage = "rescore" /\ Over(t)

\* Fault: the exception leaves run_cycle and ends the thread.
FatalFail(t) ==
  /\ cycle[t] # NoCycle
  /\ fetch[t] = NoFetch
  /\ cycle' = [cycle EXCEPT ![t] = NoCycle]
  /\ loop' = [l \in LoopThreads |-> IF l = t THEN "none" ELSE loop[l]]
  /\ UNCHANGED <<next_allowed, fetch, thread, stop, app>>

\* An exception that no stage isolates: it is recorded as the result of the cycle.
Fail(t) ==
  /\ cycle[t] # NoCycle
  /\ fetch[t] = NoFetch
  /\ Over(t)

CycleStep(t) ==
  \/ \E s \in Sources : Read(t, s)
  \/ InFetch(t) \/ Advance(t) \/ Complete(t)

\* POST /maintenance/cycle, beside the scheduler's own cycle or not.
Request(t) ==
  /\ cycle[t] = NoCycle
  /\ cycle' = [cycle EXCEPT ![t] = Stage("fetch", Feeds)]
  /\ UNCHANGED <<next_allowed, fetch, loop, thread, stop, app>>

-----------------------------------------------------------------------------
(***************************************************************************)
(* Scheduler.                                                              *)
(***************************************************************************)
\* _loop: the delay or the interval is over, and stop is not set.
BeginCycle(l) ==
  /\ loop[l] \in {"delay", "wait"}
  /\ ~stop
  /\ loop' = [loop EXCEPT ![l] = "cycle"]
  /\ cycle' = [cycle EXCEPT ![l] = Stage("fetch", Feeds)]
  /\ UNCHANGED <<next_allowed, fetch, thread, stop, app>>

\* _loop: stop is noticed while waiting.
LoopEnds(l) ==
  /\ loop[l] \in {"delay", "wait"}
  /\ stop
  /\ loop' = [loop EXCEPT ![l] = "none"]
  /\ UNCHANGED <<next_allowed, fetch, cycle, thread, stop, app>>

\* Fault: start does not ask whether the thread is still alive.
EagerStart ==
  /\ app = "down"
  /\ app' = "up"
  /\ stop' = FALSE
  /\ \E l \in LoopThreads :
       /\ ~Alive(l)
       /\ thread' = {l}
       /\ loop' = [loop EXCEPT ![l] = "delay"]
  /\ UNCHANGED <<next_allowed, fetch, cycle>>

\* The application comes up: start, refused while the old thread is alive.
Start ==
  /\ app = "down"
  /\ app' = "up"
  /\ \/ /\ \E l \in thread : Alive(l)
        /\ UNCHANGED <<loop, thread, stop>>
     \/ /\ \A l \in thread : ~Alive(l)
        /\ stop' = FALSE
        /\ \E l \in LoopThreads :
             /\ ~Alive(l)
             /\ thread' = {l}
             /\ loop' = [loop EXCEPT ![l] = "delay"]
  /\ UNCHANGED <<next_allowed, fetch, cycle>>

\* The application goes down: stop sets the event and waits for the thread.
Stop ==
  /\ app = "up"
  /\ app' = "stopping"
  /\ stop' = TRUE
  /\ UNCHANGED <<next_allowed, fetch, cycle, loop, thread>>

\* join returns: the thread has ended, or the timeout has passed.
Joined ==
  /\ app = "stopping"
  /\ app' = "down"
  /\ UNCHANGED <<next_allowed, fetch, cycle, loop, thread, stop>>

Later == Tick /\ UNCHANGED <<cycle, loop, thread, stop, app>>

Next ==
  \/ \E t \in Threads : CycleStep(t) \/ Fail(t)
  \/ \E t \in RequestThreads : Request(t)
  \/ \E l \in LoopThreads : BeginCycle(l) \/ LoopEnds(l)
  \/ Start \/ Stop \/ Joined
  \/ Later

\* Threads are executed, time goes by and waits come to an end.  Nobody need start,
\* stop or send a request, and nothing need fail.
Fairness ==
  /\ \A t \in Threads : WF_vars(CycleStep(t))
  /\ \A l \in LoopThreads : WF_vars(BeginCycle(l) \/ LoopEnds(l))
  /\ WF_vars(Later)

Spec == Init /\ [][Next]_vars /\ Fairness
-----------------------------------------------------------------------------
(***************************************************************************)
(* Properties.                                                             *)
(***************************************************************************)
\* Every variable has its type.
TypeOK ==
  /\ FetchTypeOK
  /\ cycle \in [Threads -> {NoCycle} \cup
        [stage : {"fetch", "ingest", "discover", "rescore"}, todo : SUBSET Sources]]
  /\ loop \in [LoopThreads -> {"none", "delay", "cycle", "wait"}]
  /\ thread \subseteq LoopThreads /\ Cardinality(thread) =< 1
  /\ stop \in BOOLEAN
  /\ app \in {"down", "up", "stopping"}

\* There is never a second loop, though stop gives up waiting for a cycle under way
\* and start may come before it has ended.
OneLoop == \A l \in LoopThreads : Alive(l) => thread = {l}

\* A loop ends only because it was told to: no failure of a cycle ends it.
EndsOnlyStopped ==
  [][\A l \in LoopThreads : Alive(l) /\ loop'[l] = "none" => stop]_vars

\* A stop is heeded: once it is set the loop ends, at the latest after the cycle under
\* way, and no start in between takes the stop back.
StopHeeded == \A l \in LoopThreads : stop /\ Alive(l) ~> ~Alive(l)

\* Every cycle ends, whatever the servers answer and whoever else is fetching.
EveryCycleEnds == \A t \in Threads : []<>(cycle[t] = NoCycle)

\* Recurring ingestion (scheduler.py:1): from a start that no stop follows, the decay
\* pass is done again and again, after starts that were refused, stops that were
\* survived and cycles that failed.  Only cycles that fail for ever can keep it off:
\* the three stages share one try, and what ends one of them ends the cycle.
PassRecurs ==
  \A l \in LoopThreads :
    <>[](l \in thread /\ ~stop) =>
      []<><<Complete(l)>>_vars \/ []<><<Fail(l)>>_vars
=============================================================================
