------------------------------ MODULE Fetching ------------------------------
(***************************************************************************)
(* sources/http.py: fetches by several threads through the client of each  *)
(* adapter, with bounded retries, and the limiter all of them share.       *)
(*                                                                         *)
(* Times are relative, in ticks from now: what matters of a moment ahead   *)
(* is how far away it is, and a moment gone by is 0.  A sleeping thread    *)
(* may oversleep: nothing makes it wake when its time has come.            *)
(***************************************************************************)
EXTENDS Integers

CONSTANTS
  Threads,
  Sources,
  Host,           \* the host of each source
  Interval,       \* ticks between requests of a source, 0 for unlimited
  MaxAttempts,    \* of one fetch
  MaxBackoff,     \* the longest sleep before a retry
  RetryAfters     \* what a server may say with a 429: 0 stands for nothing

Hosts == {Host[s] : s \in Sources}

ASSUME FetchAssumption ==
  /\ DOMAIN Host = Sources
  /\ Interval \in [Sources -> Nat]
  /\ MaxAttempts \in Nat \ {0}
  /\ MaxBackoff \in Nat
  /\ RetryAfters \subseteq Nat

VARIABLES
  next_allowed,   \* of each host: ticks until another request is allowed
  fetch           \* of each thread: the fetch it is in

NoFetch == [step |-> "none"]

Fetch ==
  [step : {"limiter", "waiting", "request", "backoff"}, source : Sources,
   attempt : Nat, backoff : Nat,
   left : Nat]      \* ticks left to sleep

Fetching(t, step) == fetch[t] # NoFetch /\ fetch[t].step = step
Waiting(t) == Fetching(t, "waiting") /\ fetch[t].left > 0
HostOf(t) == Host[fetch[t].source]
IntervalOf(t) == Interval[fetch[t].source]

FetchInit ==
  /\ next_allowed = [h \in Hosts |-> 0]
  /\ fetch = [t \in Threads |-> NoFetch]

-----------------------------------------------------------------------------
\* FetchClient.fetch is called.
BeginFetch(t, s) ==
  /\ fetch[t] = NoFetch
  /\ fetch' = [fetch EXCEPT ![t] =
       [step |-> "limiter", source |-> s, attempt |-> 1, backoff |-> 1, left |-> 0]]
  /\ UNCHANGED next_allowed

\* Fault: the next slot is counted from now, whoever is waiting already.
HeedlessReserve(t) ==
  /\ Fetching(t, "limiter")
  /\ fetch' = [fetch EXCEPT ![t].step = "waiting",
                            ![t].left = IF IntervalOf(t) = 0 THEN 0 ELSE next_allowed[HostOf(t)]]
  /\ next_allowed' = [next_allowed EXCEPT ![HostOf(t)] =
                        IF IntervalOf(t) = 0 THEN @ ELSE IntervalOf(t)]

\* The critical section of RateLimiter.wait: take the next slot, move it on.
Reserve(t) ==
  /\ Fetching(t, "limiter")
  /\ fetch' = [fetch EXCEPT ![t].step = "waiting",
                            ![t].left = IF IntervalOf(t) = 0 THEN 0 ELSE next_allowed[HostOf(t)]]
  /\ next_allowed' = [next_allowed EXCEPT ![HostOf(t)] = @ + IntervalOf(t)]

\* The slot has come: the request is sent.
Send(t) ==
  /\ Fetching(t, "waiting")
  /\ fetch[t].left = 0
  /\ fetch' = [fetch EXCEPT ![t].step = "request"]
  /\ UNCHANGED next_allowed

\* A body, an answer not worth trying again, or an exception the adapter sees.
Answered(t) ==
  /\ Fetching(t, "request")
  /\ fetch' = [fetch EXCEPT ![t] = NoFetch]
  /\ UNCHANGED next_allowed

\* The longest backoff there is any use in.
Capped(n) == IF n > MaxBackoff THEN MaxBackoff ELSE n

\* No connection, or a status worth trying again, a 429 perhaps with Retry-After.  The
\* backoff is kept capped: above the cap its size makes no difference.
Refused(t, retry_after) ==
  LET backoff == IF retry_after > fetch[t].backoff THEN retry_after ELSE fetch[t].backoff
  IN  /\ Fetching(t, "request")
      /\ fetch' = [fetch EXCEPT ![t] =
           IF @.attempt = MaxAttempts THEN NoFetch
           ELSE [@ EXCEPT !.step = "backoff",
                          !.left = Capped(backoff), !.backoff = Capped(2 * backoff)]]
      /\ UNCHANGED next_allowed

\* Fault: attempts are not counted.
EndlessRetry(t) ==
  /\ Fetching(t, "backoff")
  /\ fetch[t].left = 0
  /\ fetch' = [fetch EXCEPT ![t].step = "limiter"]
  /\ UNCHANGED next_allowed

Retry(t) ==
  /\ Fetching(t, "backoff")
  /\ fetch[t].left = 0
  /\ fetch' = [fetch EXCEPT ![t].step = "limiter", ![t].attempt = @ + 1]
  /\ UNCHANGED next_allowed

\* A moment ahead, one tick later.
Sooner(n) == IF n = 0 THEN 0 ELSE n - 1

\* Time goes by: something is a tick nearer.
Tick ==
  /\ next_allowed' = [h \in Hosts |-> Sooner(next_allowed[h])]
  /\ fetch' = [t \in Threads |->
       IF fetch[t] = NoFetch THEN NoFetch
       ELSE [fetch[t] EXCEPT !.left = Sooner(@)]]

\* What a thread in a fetch does next.
FetchStep(t) ==
  \/ Reserve(t) \/ Send(t) \/ Answered(t) \/ Retry(t)
  \/ \E retry_after \in RetryAfters : Refused(t, retry_after)

-----------------------------------------------------------------------------
FetchTypeOK ==
  /\ next_allowed \in [Hosts -> Nat]
  /\ fetch \in [Threads -> {NoFetch} \cup Fetch]

\* Threads that wait for one host have slots of their own: the later one is at least
\* the earlier one's interval away, whichever sources they read and however many wait.
SlotsSpaced ==
  \A t, u \in Threads :
    t # u /\ Waiting(t) /\ Waiting(u) /\ HostOf(t) = HostOf(u) /\ IntervalOf(t) > 0
          /\ IntervalOf(u) > 0 =>
      \/ fetch[u].left >= fetch[t].left + IntervalOf(t)
      \/ fetch[t].left >= fetch[u].left + IntervalOf(u)
=============================================================================
