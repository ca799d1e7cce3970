---------------------------- MODULE Cycle_proofs ----------------------------
(***************************************************************************)
(* The limiter's slots, the single loop and its end, for any number of     *)
(* threads, sources and hosts.                                             *)
(***************************************************************************)
EXTENDS Cycle, FiniteSetTheorems, TLAPS

USE FetchAssumption, CycleAssumption

\* The next slot of a host is after those that are taken.
SlotsAhead ==
  \A t \in Threads : Waiting(t) /\ IntervalOf(t) > 0 =>
    next_allowed[HostOf(t)] >= fetch[t].left + IntervalOf(t)

\* A loop thread is in a cycle only inside its loop.
CyclesInLoops == \A l \in LoopThreads : cycle[l] # NoCycle => loop[l] = "cycle"

\* What is inductive.
Inv == TypeOK /\ SlotsAhead /\ SlotsSpaced /\ CyclesInLoops /\ OneLoop

-----------------------------------------------------------------------------
\* A fetch is a record of its fields.
LEMMA FetchFields ==
  ASSUME NEW f \in Fetch
  PROVE  /\ f.step \in {"limiter", "waiting", "request", "backoff"} /\ f.source \in Sources
         /\ f.attempt \in Nat /\ f.backoff \in Nat /\ f.left \in Nat
         /\ f # NoFetch
BY DEF Fetch, NoFetch

\* Each step of a fetch keeps the types of sources/http.py's state.
LEMMA FetchStepTypes ==
  ASSUME FetchTypeOK, NEW t \in Threads, FetchStep(t)
  PROVE  FetchTypeOK'
<1> USE DEF FetchTypeOK
<1> DEFINE f == fetch[t]
<1>1. CASE Reserve(t)
  <2>1. f \in Fetch
    BY <1>1 DEF Reserve, Fetching
  <2>2. Host[f.source] \in Hosts /\ Interval[f.source] \in Nat
    BY <2>1, FetchFields DEF Hosts
  <2>3. next_allowed' \in [Hosts -> Nat]
    BY <1>1, <2>2 DEF Reserve, HostOf, IntervalOf
  <2>4. [f EXCEPT !.step = "waiting",
                  !.left = IF IntervalOf(t) = 0 THEN 0 ELSE next_allowed[HostOf(t)]] \in Fetch
    BY <2>1, <2>2 DEF Fetch, HostOf, IntervalOf
  <2> QED BY <1>1, <2>3, <2>4 DEF Reserve
<1>2. CASE Send(t)
  <2>1. f \in Fetch
    BY <1>2 DEF Send, Fetching
  <2>2. [f EXCEPT !.step = "request"] \in Fetch
    BY <2>1 DEF Fetch
  <2> QED BY <1>2, <2>2 DEF Send
<1>3. CASE Answered(t)
  BY <1>3 DEF Answered
<1>4. CASE Retry(t)
  <2>1. f \in Fetch
    BY <1>4 DEF Retry, Fetching
  <2>2. f.attempt + 1 \in Nat
    BY <2>1, FetchFields
  <2>3. [f EXCEPT !.step = "limiter", !.attempt = f.attempt + 1] \in Fetch
    BY <2>1, <2>2, Zenon DEF Fetch
  <2> QED BY <1>4, <2>3 DEF Retry
<1>5. ASSUME NEW retry_after \in RetryAfters, Refused(t, retry_after)
      PROVE  FetchTypeOK'
  <2> DEFINE backoff == IF retry_after > f.backoff THEN retry_after ELSE f.backoff
  <2>1. f \in Fetch
    BY <1>5 DEF Refused, Fetching
  <2>2. backoff \in Nat /\ Capped(backoff) \in Nat /\ Capped(2 * backoff) \in Nat
    BY <2>1, FetchFields DEF Capped
  <2>3. [f EXCEPT !.step = "backoff", !.left = Capped(backoff),
                  !.backoff = Capped(2 * backoff)] \in Fetch
    BY <2>1, <2>2 DEF Fetch
  <2> QED BY <1>5, <2>3 DEF Refused
<1> QED BY <1>1, <1>2, <1>3, <1>4, <1>5 DEF FetchStep

\* So does the passing of time.
LEMMA TickTypes ==
  ASSUME FetchTypeOK, Tick
  PROVE  FetchTypeOK'
<1>1. \A n \in Nat : Sooner(n) \in Nat
  BY DEF Sooner
<1>2. next_allowed' \in [Hosts -> Nat]
  BY <1>1 DEF FetchTypeOK, Tick
<1>3. \A g \in Fetch : [g EXCEPT !.left = Sooner(@)] \in Fetch
  BY <1>1 DEF Fetch
<1> QED BY <1>2, <1>3 DEF FetchTypeOK, Tick

\* A fetch that begins.
LEMMA BeginTypes ==
  ASSUME FetchTypeOK, NEW t \in Threads, NEW s \in Sources, BeginFetch(t, s)
  PROVE  FetchTypeOK'
<1>1. [step |-> "limiter", source |-> s, attempt |-> 1, backoff |-> 1, left |-> 0] \in Fetch
  BY DEF Fetch
<1> QED BY <1>1 DEF FetchTypeOK, BeginFetch

-----------------------------------------------------------------------------
\* Where a fetch is and how long it sleeps, but for steps that set it.
LEMMA SlotTaken ==
  ASSUME FetchTypeOK, SlotsAhead, SlotsSpaced, NEW t \in Threads, Reserve(t)
  PROVE  (SlotsAhead /\ SlotsSpaced)'
<1> DEFINE h == HostOf(t)
<1>1. /\ fetch[t] \in Fetch /\ h \in Hosts /\ IntervalOf(t) \in Nat
      /\ next_allowed[h] \in Nat
  BY FetchFields DEF FetchTypeOK, Reserve, Fetching, HostOf, IntervalOf, Hosts
<1>2. /\ fetch'[t].source = fetch[t].source /\ HostOf(t)' = h /\ IntervalOf(t)' = IntervalOf(t)
      /\ fetch'[t].left = IF IntervalOf(t) = 0 THEN 0 ELSE next_allowed[h]
  BY <1>1 DEF FetchTypeOK, Reserve, HostOf, IntervalOf, Fetch
<1>3. \A u \in Threads \ {t} : /\ fetch'[u] = fetch[u] /\ Waiting(u)' = Waiting(u)
                              /\ HostOf(u)' = HostOf(u) /\ IntervalOf(u)' = IntervalOf(u)
  BY DEF FetchTypeOK, Reserve, Waiting, Fetching, HostOf, IntervalOf
<1>4. next_allowed' = [next_allowed EXCEPT ![h] = next_allowed[h] + IntervalOf(t)]
  BY DEF Reserve
<1>5. \A u \in Threads : Waiting(u) =>
        /\ fetch[u] \in Fetch /\ fetch[u].left \in Nat /\ HostOf(u) \in Hosts
        /\ IntervalOf(u) \in Nat /\ next_allowed[HostOf(u)] \in Nat
  BY FetchFields DEF FetchTypeOK, Waiting, Fetching, HostOf, IntervalOf, Hosts
<1>6. SlotsAhead'
  <2> SUFFICES ASSUME NEW u \in Threads, Waiting(u)', IntervalOf(u)' > 0
               PROVE  next_allowed'[HostOf(u)'] >= fetch'[u].left + IntervalOf(u)'
    BY DEF SlotsAhead
  <2>1. CASE u = t
    BY <1>1, <1>2, <1>4, <2>1 DEF FetchTypeOK
  <2>2. CASE u # t
    <3>1. next_allowed[HostOf(u)] >= fetch[u].left + IntervalOf(u)
      BY <1>3, <2>2 DEF SlotsAhead
    <3>2. next_allowed'[HostOf(u)] >= next_allowed[HostOf(u)]
      BY <1>1, <1>3, <1>4, <1>5, <2>2 DEF FetchTypeOK
    <3>3. next_allowed'[HostOf(u)] \in Nat
      BY <1>1, <1>3, <1>4, <1>5, <2>2 DEF FetchTypeOK
    <3> QED BY <1>3, <1>5, <2>2, <3>1, <3>2, <3>3
  <2> QED BY <2>1, <2>2
<1>7. SlotsSpaced'
  <2>1. ASSUME NEW u \in Threads \ {t}, Waiting(t)', Waiting(u), h = HostOf(u),
               IntervalOf(t) > 0, IntervalOf(u) > 0
        PROVE  fetch'[t].left >= fetch[u].left + IntervalOf(u)
    BY <1>1, <1>2, <2>1 DEF SlotsAhead
  <2> QED BY <1>2, <1>3, <2>1 DEF SlotsSpaced
<1> QED BY <1>6, <1>7

\* Time brings all that is ahead nearer alike.
LEMMA SlotsNearer ==
  ASSUME FetchTypeOK, SlotsAhead, SlotsSpaced, Tick
  PROVE  (SlotsAhead /\ SlotsSpaced)'
<1>1. \A u \in Threads : Waiting(u)' =>
        /\ Waiting(u) /\ HostOf(u)' = HostOf(u) /\ IntervalOf(u)' = IntervalOf(u)
        /\ fetch[u] \in Fetch /\ fetch[u].left \in Nat /\ fetch'[u].left = fetch[u].left - 1
        /\ HostOf(u) \in Hosts /\ IntervalOf(u) \in Nat /\ next_allowed[HostOf(u)] \in Nat
  <2> SUFFICES ASSUME NEW u \in Threads, Waiting(u)'
               PROVE  /\ Waiting(u) /\ HostOf(u)' = HostOf(u)
                      /\ IntervalOf(u)' = IntervalOf(u)
                      /\ fetch[u] \in Fetch /\ fetch[u].left \in Nat
                      /\ fetch'[u].left = fetch[u].left - 1
                      /\ HostOf(u) \in Hosts /\ IntervalOf(u) \in Nat
                      /\ next_allowed[HostOf(u)] \in Nat
    OBVIOUS
  <2>1. fetch[u] \in Fetch
    BY DEF FetchTypeOK, Tick, Waiting, Fetching
  <2>2. fetch'[u] = [fetch[u] EXCEPT !.left = Sooner(@)]
    BY <2>1, FetchFields DEF Tick
  <2>3. /\ fetch'[u].step = fetch[u].step /\ fetch'[u].source = fetch[u].source
        /\ fetch'[u].left = Sooner(fetch[u].left)
    BY <2>1, <2>2 DEF Fetch
  <2>4. fetch[u].left \in Nat /\ fetch[u].source \in Sources /\ fetch[u] # NoFetch
    BY <2>1, FetchFields
  <2>5. fetch'[u].step = "waiting" /\ fetch'[u].left > 0
    BY DEF Waiting, Fetching
  <2> QED BY <2>1, <2>3, <2>4, <2>5
          DEF Waiting, Fetching, HostOf, IntervalOf, Hosts, Sooner, FetchTypeOK
<1>2. \A h \in Hosts : next_allowed'[h] = Sooner(next_allowed[h])
  BY DEF Tick
<1>3. SlotsAhead'
  BY <1>1, <1>2 DEF SlotsAhead, Sooner
<1>4. SlotsSpaced'
  BY <1>1 DEF SlotsSpaced
<1> QED BY <1>3, <1>4

\* A thread that does not take a slot neither waits for one it did not wait for.
LEMMA SlotsKept ==
  ASSUME FetchTypeOK, SlotsAhead, SlotsSpaced, NEW t \in Threads,
         next_allowed' = next_allowed, ~Waiting(t)',
         \A u \in Threads \ {t} : fetch'[u] = fetch[u]
  PROVE  (SlotsAhead /\ SlotsSpaced)'
<1>1. \A u \in Threads : Waiting(u)' =>
        /\ u # t /\ Waiting(u) /\ fetch'[u] = fetch[u]
        /\ HostOf(u)' = HostOf(u) /\ IntervalOf(u)' = IntervalOf(u)
  BY DEF Waiting, Fetching, HostOf, IntervalOf
<1> QED BY <1>1 DEF SlotsAhead, SlotsSpaced

\* Every step of a fetch, and its beginning.
LEMMA SlotsInvariant ==
  ASSUME FetchTypeOK, SlotsAhead, SlotsSpaced, NEW t \in Threads,
         FetchStep(t) \/ \E s \in Sources : BeginFetch(t, s)
  PROVE  (SlotsAhead /\ SlotsSpaced)'
<1>1. CASE Reserve(t)
  BY <1>1, SlotTaken
<1>2. CASE Send(t)
  BY <1>2, SlotsKept DEF Send, Waiting, Fetching, FetchTypeOK, Fetch
<1>3. CASE Answered(t)
  BY <1>3, SlotsKept DEF Answered, Waiting, Fetching, FetchTypeOK
<1>4. CASE Retry(t)
  BY <1>4, SlotsKept DEF Retry, Waiting, Fetching, FetchTypeOK, Fetch
<1>5. ASSUME NEW retry_after \in RetryAfters, Refused(t, retry_after)
      PROVE  (SlotsAhead /\ SlotsSpaced)'
  BY <1>5, SlotsKept DEF Refused, Waiting, Fetching, FetchTypeOK, Fetch
<1>6. ASSUME NEW s \in Sources, BeginFetch(t, s)
      PROVE  (SlotsAhead /\ SlotsSpaced)'
  BY <1>6, SlotsKept DEF BeginFetch, Waiting, Fetching, FetchTypeOK
<1> QED BY <1>1, <1>2, <1>3, <1>4, <1>5, <1>6 DEF FetchStep

-----------------------------------------------------------------------------
(***************************************************************************)
(* The cycle and the scheduler.                                            *)
(***************************************************************************)
CycleType ==
  [Threads -> {NoCycle} \cup
     [stage : {"fetch", "ingest", "discover", "rescore"}, todo : SUBSET Sources]]

\* Steps that leave the fetches alone keep what is said of them.
LEMMA FetchUntouched ==
  ASSUME Inv, UNCHANGED <<next_allowed, fetch>>
  PROVE  FetchTypeOK' /\ (SlotsAhead /\ SlotsSpaced)'
BY DEF Inv, TypeOK, FetchTypeOK, SlotsAhead, SlotsSpaced, Waiting, Fetching, HostOf, IntervalOf

\* The end of a cycle, whichever way it ends: its thread, if it is a loop's, is in the loop.
LEMMA OverKeeps ==
  ASSUME Inv, NEW t \in Threads, cycle[t] # NoCycle, Over(t)
  PROVE  Inv'
<1>1. FetchTypeOK' /\ (SlotsAhead /\ SlotsSpaced)'
  BY FetchUntouched DEF Over
<1>2. TypeOK'
  BY <1>1, Zenon DEF Inv, TypeOK, Over
<1>3. OneLoop' /\ CyclesInLoops'
  BY DEF Inv, TypeOK, OneLoop, CyclesInLoops, Over, Alive
<1> QED BY <1>1, <1>2, <1>3 DEF Inv

\* The steps of a cycle.
LEMMA CycleStepKeeps ==
  ASSUME Inv, NEW t \in Threads, CycleStep(t)
  PROVE  Inv'
<1>1. ASSUME NEW s \in Sources, Read(t, s)
      PROVE  Inv'
  <2>1. FetchTypeOK' /\ (SlotsAhead /\ SlotsSpaced)'
    BY <1>1, BeginTypes, SlotsInvariant DEF Read, Inv, TypeOK
  <2>2. cycle' \in CycleType
    <3>1. cycle[t] \in [stage : {"fetch", "ingest", "discover", "rescore"}, todo : SUBSET Sources]
      BY <1>1 DEF Read, Inv, TypeOK
    <3>2. [cycle[t] EXCEPT !.todo = @ \ {s}]
            \in [stage : {"fetch", "ingest", "discover", "rescore"}, todo : SUBSET Sources]
      BY <3>1
    <3> QED BY <1>1, <3>2 DEF Read, Inv, TypeOK, CycleType
  <2>3. TypeOK'
    BY <1>1, <2>1, <2>2 DEF Read, Inv, TypeOK, CycleType
  <2>4. OneLoop' /\ CyclesInLoops'
    BY <1>1 DEF Read, Inv, TypeOK, OneLoop, CyclesInLoops, Alive
  <2> QED BY <2>1, <2>3, <2>4 DEF Inv
<1>2. CASE InFetch(t)
  <2>1. FetchTypeOK' /\ (SlotsAhead /\ SlotsSpaced)'
    BY <1>2, FetchStepTypes, SlotsInvariant DEF InFetch, Inv, TypeOK
  <2> QED BY <1>2, <2>1 DEF InFetch, Inv, TypeOK, OneLoop, CyclesInLoops, Alive
<1>3. CASE Advance(t)
  <2>1. FetchTypeOK' /\ (SlotsAhead /\ SlotsSpaced)'
    BY <1>3, FetchUntouched DEF Advance
  <2>2. cycle' \in CycleType
    BY <1>3 DEF Advance, Inv, TypeOK, CycleType, Stage, NoCycle
  <2>3. TypeOK'
    BY <1>3, <2>1, <2>2 DEF Advance, Inv, TypeOK, CycleType
  <2>4. OneLoop' /\ CyclesInLoops'
    BY <1>3 DEF Advance, Inv, TypeOK, OneLoop, CyclesInLoops, Alive
  <2> QED BY <2>1, <2>3, <2>4 DEF Inv
<1>4. CASE Complete(t)
  BY <1>4, OverKeeps DEF Complete
<1> QED BY <1>1, <1>2, <1>3, <1>4 DEF CycleStep

\* The scheduler's thread, its start and its stop.
LEMMA SchedulerKeeps ==
  ASSUME Inv,
         \/ \E t \in RequestThreads : Request(t)
         \/ \E l \in LoopThreads : BeginCycle(l) \/ LoopEnds(l)
         \/ Start \/ Stop \/ Joined
  PROVE  Inv'
<1>1. FetchTypeOK' /\ (SlotsAhead /\ SlotsSpaced)'
  BY FetchUntouched DEF Request, BeginCycle, LoopEnds, Start, Stop, Joined
<1>2. Stage("fetch", Feeds)
        \in [stage : {"fetch", "ingest", "discover", "rescore"}, todo : SUBSET Sources]
  BY DEF Stage
<1>3. ASSUME NEW t \in RequestThreads, Request(t)
      PROVE  Inv'
  BY <1>1, <1>2, <1>3, Zenon DEF Request, Inv, TypeOK, OneLoop, CyclesInLoops, Alive
<1>4. ASSUME NEW l \in LoopThreads, BeginCycle(l)
      PROVE  Inv'
  <2>1. TypeOK'
    BY <1>1, <1>2, <1>4 DEF BeginCycle, Inv, TypeOK
  <2>2. OneLoop' /\ CyclesInLoops'
    BY <1>4 DEF BeginCycle, Inv, TypeOK, OneLoop, CyclesInLoops, Alive
  <2> QED BY <1>1, <2>1, <2>2 DEF Inv
<1>5. ASSUME NEW l \in LoopThreads, LoopEnds(l)
      PROVE  Inv'
  BY <1>1, <1>5 DEF LoopEnds, Inv, TypeOK, OneLoop, CyclesInLoops, Alive
<1>6. CASE Start
  <2>1. ASSUME NEW l \in LoopThreads, \A k \in thread : ~Alive(k), ~Alive(l), thread' = {l},
               loop' = [loop EXCEPT ![l] = "delay"], stop' = FALSE
        PROVE  Inv'
    <3>1. Cardinality(thread') =< 1
      <4>1. Cardinality({l}) = 1
        BY FS_Singleton, Zenon
      <4> QED BY <2>1, <4>1
    <3>2. TypeOK'
      BY <1>1, <1>6, <2>1, <3>1 DEF Start, Inv, TypeOK
    <3>3. \A k \in LoopThreads : ~Alive(k)
      BY <2>1 DEF Inv, OneLoop
    <3>4. OneLoop' /\ CyclesInLoops'
      BY <1>6, <2>1, <3>3 DEF Start, Inv, TypeOK, OneLoop, CyclesInLoops, Alive
    <3> QED BY <1>1, <3>2, <3>4 DEF Inv
  <2>2. CASE UNCHANGED <<loop, thread, stop>>
    BY <1>1, <1>6, <2>2 DEF Start, Inv, TypeOK, OneLoop, CyclesInLoops, Alive
  <2> QED BY <1>6, <2>1, <2>2 DEF Start
<1>7. CASE Stop \/ Joined
  BY <1>1, <1>7 DEF Stop, Joined, Inv, TypeOK, OneLoop, CyclesInLoops, Alive
<1> QED BY <1>3, <1>4, <1>5, <1>6, <1>7

-----------------------------------------------------------------------------
\* The invariant: types, slots, and the single loop.
THEOREM CycleInvariance == Spec => []Inv
<1>1. Init => Inv
  <2> SUFFICES ASSUME Init PROVE Inv
    OBVIOUS
  <2>1. FetchTypeOK /\ SlotsAhead /\ SlotsSpaced
    BY DEF Init, FetchInit, FetchTypeOK, SlotsAhead, SlotsSpaced, Waiting, Fetching
  <2>2. Cardinality(thread) =< 1
    BY FS_EmptySet DEF Init
  <2> QED BY <2>1, <2>2 DEF Init, Inv, TypeOK, OneLoop, CyclesInLoops, Alive
<1>2. Inv /\ [Next]_vars => Inv'
  <2> SUFFICES ASSUME Inv, [Next]_vars PROVE Inv'
    OBVIOUS
  <2>1. ASSUME NEW t \in Threads, CycleStep(t)
        PROVE  Inv'
    BY <2>1, CycleStepKeeps
  <2>2. ASSUME NEW t \in Threads, Fail(t)
        PROVE  Inv'
    BY <2>2, OverKeeps DEF Fail
  <2>3. CASE Later
    <3>1. FetchTypeOK' /\ (SlotsAhead /\ SlotsSpaced)'
      BY <2>3, TickTypes, SlotsNearer DEF Later, Inv, TypeOK
    <3> QED BY <2>3, <3>1 DEF Later, Inv, TypeOK, OneLoop, CyclesInLoops, Alive
  <2>4. CASE UNCHANGED vars
    <3>1. FetchTypeOK' /\ (SlotsAhead /\ SlotsSpaced)'
      BY <2>4, FetchUntouched DEF vars
    <3> QED BY <2>4, <3>1 DEF vars, Inv, TypeOK, OneLoop, CyclesInLoops, Alive
  <2> QED BY <2>1, <2>2, <2>3, <2>4, SchedulerKeeps DEF Next
<1> QED BY <1>1, <1>2, PTL DEF Spec

\* Whatever threads fetch, sleep and are refused, each waits for a slot of its own.
THEOREM SlotsStaySpaced == Spec => []SlotsSpaced
<1>1. Inv => SlotsSpaced
  BY DEF Inv
<1> QED BY <1>1, CycleInvariance, PTL

\* However often applications start and stop, and however long a cycle takes, there is
\* one loop.
THEOREM NeverTwoLoops == Spec => []OneLoop
<1>1. Inv => OneLoop
  BY DEF Inv
<1> QED BY <1>1, CycleInvariance, PTL

\* A step that ends a loop finds the stop event set.
THEOREM LoopsEndOnlyStopped == Spec => EndsOnlyStopped
<1>1. Inv /\ [Next]_vars =>
        [\A l \in LoopThreads : Alive(l) /\ loop'[l] = "none" => stop]_vars
  <2> SUFFICES ASSUME Inv, Next, NEW l \in LoopThreads, Alive(l), loop'[l] = "none"
               PROVE  stop
    BY DEF Alive
  <2>1. loop \in [LoopThreads -> {"none", "delay", "cycle", "wait"}] /\ loop'[l] # loop[l]
    BY DEF Inv, TypeOK, Alive
  <2>2. ASSUME NEW t \in Threads, CycleStep(t) \/ Fail(t)
        PROVE  FALSE
    BY <2>1, <2>2 DEF CycleStep, Read, InFetch, Advance, Complete, Fail, Over
  <2>3. ~Start /\ ~Stop /\ ~Joined /\ ~Later
    BY <2>1 DEF Start, Stop, Joined, Later
  <2>4. \A t \in RequestThreads : ~Request(t)
    BY <2>1 DEF Request
  <2>5. PICK k \in LoopThreads : BeginCycle(k) \/ LoopEnds(k)
    BY <2>2, <2>3, <2>4 DEF Next
  <2> QED BY <2>1, <2>5 DEF BeginCycle, LoopEnds
<1> QED BY <1>1, CycleInvariance, PTL DEF Spec, EndsOnlyStopped

\* Once a loop is told to stop nothing takes that back, a start of the next application
\* included, and the cycle under way is its last: what makes StopHeeded come true.
StopStands ==
  [][\A l \in LoopThreads : Alive(l) /\ stop =>
       /\ stop'
       /\ \/ loop'[l] = loop[l]
          \/ loop[l] = "cycle" /\ loop'[l] = "wait"
          \/ loop'[l] = "none"]_vars

\* start is refused while a loop is alive, because the scheduler still holds its thread
\* (scheduler.py, start and stop).
THEOREM StopIsNotTakenBack == Spec => StopStands
<1>1. Inv /\ [Next]_vars =>
        [\A l \in LoopThreads : Alive(l) /\ stop =>
           /\ stop'
           /\ \/ loop'[l] = loop[l]
              \/ loop[l] = "cycle" /\ loop'[l] = "wait"
              \/ loop'[l] = "none"]_vars
  <2> SUFFICES ASSUME Inv, Next, NEW l \in LoopThreads, Alive(l), stop
               PROVE  /\ stop'
                      /\ \/ loop'[l] = loop[l]
                         \/ loop[l] = "cycle" /\ loop'[l] = "wait"
                         \/ loop'[l] = "none"
    OBVIOUS
  <2>1. /\ loop \in [LoopThreads -> {"none", "delay", "cycle", "wait"}]
        /\ thread = {l} /\ CyclesInLoops
    BY DEF Inv, TypeOK, OneLoop
  <2>2. ASSUME NEW t \in Threads, CycleStep(t) \/ Fail(t)
        PROVE  stop' = stop /\ (loop'[l] = loop[l] \/ (loop[l] = "cycle" /\ loop'[l] = "wait"))
    <3>1. stop' = stop /\ (loop' = loop \/ (Over(t) /\ cycle[t] # NoCycle))
      BY <2>2 DEF CycleStep, Read, InFetch, Advance, Complete, Fail, Over
    <3> QED BY <2>1, <3>1 DEF Over, CyclesInLoops
  <2>3. ASSUME Start PROVE stop' = stop /\ loop' = loop
    BY <2>1, <2>3 DEF Start
  <2>4. ASSUME Stop PROVE stop' /\ loop' = loop
    BY <2>4 DEF Stop
  <2>5. ASSUME Joined \/ Later \/ \E t \in RequestThreads : Request(t)
        PROVE  stop' = stop /\ loop' = loop
    BY <2>5 DEF Joined, Later, Request
  <2>6. ASSUME NEW k \in LoopThreads, BeginCycle(k) \/ LoopEnds(k)
        PROVE  stop' = stop /\ (loop'[l] = loop[l] \/ loop'[l] = "none")
    BY <2>1, <2>6 DEF BeginCycle, LoopEnds
  <2> QED BY <2>2, <2>3, <2>4, <2>5, <2>6 DEF Next
<1> QED BY <1>1, CycleInvariance, PTL DEF Spec, StopStands
=============================================================================
