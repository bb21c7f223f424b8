----------------------------- MODULE SECClient ------------------------------
(***************************************************************************)
(* SECClient.get (services/ingest-sec): threads share one client, whose    *)
(* throttle spaces their requests and whose retry loop repeats the ones    *)
(* that fail in a way worth retrying.  Time is a clock in ticks that       *)
(* advances between any two steps.  A thread sleeps inside the throttle's  *)
(* lock; the request itself goes out after the lock is released.  A sleep  *)
(* may return at any time: the throttle re-reads the clock, and the length *)
(* of a backoff is left open.                                              *)
(***************************************************************************)
EXTENDS Integers, FiniteSets

CONSTANTS Threads, NoThread,
          Interval,     \* _min_interval_seconds, in ticks
          MaxRetries,   \* config.max_retries
          MaxCalls,     \* bound: calls of get each thread makes
          Slack         \* bound: how far the clock may run past the throttle

ASSUME ConfigAssumption ==
  /\ IsFiniteSet(Threads)
  /\ NoThread \notin Threads
  /\ Interval \in Nat \ {0}
  /\ MaxRetries \in Nat
  /\ MaxCalls \in Nat
  /\ Slack \in Nat

VARIABLES now, next_allowed,   \* the clock; _next_allowed_time
          holder,              \* who holds _rate_lock
          pc, attempt, outcome,\* per thread: where it is in get, and its result
          seen,                \* per thread: the clock as _throttle last read it
          calls,               \* per thread: calls made
          permits, requests    \* history: permits granted, requests sent

clockVars  == <<now, permits, requests>>
threadVars == <<pc, attempt, outcome, seen, calls>>
vars == <<clockVars, next_allowed, holder, threadVars>>

\* What the transport may do, and the failures get retries.  A dropped
\* connection is an OSError urllib does not wrap: RemoteDisconnected while it
\* waits for the answer, ConnectionResetError while it reads the body.
Retryable == {"http_retryable", "timeout", "network"}
Answers   == Retryable \cup {"ok", "http_fatal", "dropped"}
Places    == {"idle", "throttle", "locked", "asleep", "granted",
             "send", "inflight", "backoff"}

TypeOK ==
  /\ now \in Nat /\ next_allowed \in Nat
  /\ permits \in Nat /\ requests \in Nat
  /\ holder  \in Threads \cup {NoThread}
  /\ pc      \in [Threads -> Places]
  /\ attempt \in [Threads -> Nat]
  /\ outcome \in [Threads -> Answers \cup {"none"}]
  /\ seen    \in [Threads -> Nat]
  /\ calls   \in [Threads -> Nat]

Init ==
  /\ now = 0 /\ next_allowed = 0 /\ permits = 0 /\ requests = 0
  /\ holder  = NoThread
  /\ pc      = [t \in Threads |-> "idle"]
  /\ attempt = [t \in Threads |-> 0]
  /\ outcome = [t \in Threads |-> "none"]
  /\ seen    = [t \in Threads |-> 0]
  /\ calls   = [t \in Threads |-> 0]

Goto(t, from, to) == pc[t] = from /\ pc' = [pc EXCEPT ![t] = to]

------------------------------------------------------------------------------
(* get *)

Call(t) ==
  /\ calls[t] < MaxCalls
  /\ Goto(t, "idle", "throttle")
  /\ attempt' = [attempt EXCEPT ![t] = 1]
  /\ outcome' = [outcome EXCEPT ![t] = "none"]
  /\ calls'   = [calls EXCEPT ![t] = @ + 1]
  /\ UNCHANGED <<clockVars, next_allowed, holder, seen>>

Send(t) ==
  /\ Goto(t, "send", "inflight")
  /\ requests' = requests + 1
  /\ UNCHANGED <<now, permits, next_allowed, holder, attempt, outcome, seen, calls>>

\* Variant: one retry too few.
AttemptsLeftButOne(t) == attempt[t] < MaxRetries

AttemptsLeft(t) == attempt[t] <= MaxRetries

\* The call returns a response or raises.
Return(t, answer) ==
  /\ answer \in Retryable => ~AttemptsLeft(t)
  /\ Goto(t, "inflight", "idle")
  /\ outcome' = [outcome EXCEPT ![t] = answer]
  /\ UNCHANGED <<clockVars, next_allowed, holder, attempt, seen, calls>>

\* A failure worth retrying, with attempts left: sleep, with no lock held.
BackOff(t) ==
  /\ AttemptsLeft(t)
  /\ Goto(t, "inflight", "backoff")
  /\ UNCHANGED <<clockVars, next_allowed, holder, attempt, outcome, seen, calls>>

Retry(t) ==
  /\ Goto(t, "backoff", "throttle")
  /\ attempt' = [attempt EXCEPT ![t] = @ + 1]
  /\ UNCHANGED <<clockVars, next_allowed, holder, outcome, seen, calls>>

------------------------------------------------------------------------------
(* _throttle *)

\* Variant: the throttle runs without its lock.
AcquireUnlocked(t) ==
  /\ Goto(t, "throttle", "locked")
  /\ seen' = [seen EXCEPT ![t] = now]
  /\ UNCHANGED <<clockVars, next_allowed, holder, attempt, outcome, calls>>

Acquire(t) ==
  /\ holder = NoThread
  /\ Goto(t, "throttle", "locked")
  /\ holder' = t
  /\ seen' = [seen EXCEPT ![t] = now]
  /\ UNCHANGED <<clockVars, next_allowed, attempt, outcome, calls>>

SleepInLock(t) ==
  /\ seen[t] < next_allowed
  /\ Goto(t, "locked", "asleep")
  /\ UNCHANGED <<clockVars, next_allowed, holder, attempt, outcome, seen, calls>>

\* Variant: one sleep and no second look at the clock.
WakeUnchecked(t) ==
  /\ Goto(t, "asleep", "granted")
  /\ seen' = [seen EXCEPT ![t] = now]
  /\ UNCHANGED <<clockVars, next_allowed, holder, attempt, outcome, calls>>

Wake(t) ==
  /\ Goto(t, "asleep", "locked")
  /\ seen' = [seen EXCEPT ![t] = now]
  /\ UNCHANGED <<clockVars, next_allowed, holder, attempt, outcome, calls>>

LeaveLoop(t) ==
  /\ seen[t] >= next_allowed
  /\ Goto(t, "locked", "granted")
  /\ UNCHANGED <<clockVars, next_allowed, holder, attempt, outcome, seen, calls>>

\* Variant: the lock is not released.
PermitHoldingLock(t) ==
  /\ Goto(t, "granted", "send")
  /\ next_allowed' = seen[t] + Interval
  /\ permits' = permits + 1
  /\ UNCHANGED <<now, requests, holder, attempt, outcome, seen, calls>>

\* Variant: the interval is taken off the clock instead of added to it.
PermitBackwards(t) ==
  /\ Goto(t, "granted", "send")
  /\ next_allowed' = seen[t] - Interval
  /\ holder' = NoThread
  /\ permits' = permits + 1
  /\ UNCHANGED <<now, requests, attempt, outcome, seen, calls>>

Permit(t) ==
  /\ Goto(t, "granted", "send")
  /\ next_allowed' = seen[t] + Interval
  /\ holder' = NoThread
  /\ permits' = permits + 1
  /\ UNCHANGED <<now, requests, attempt, outcome, seen, calls>>

------------------------------------------------------------------------------
Tick ==
  /\ now < next_allowed + Slack
  /\ now' = now + 1
  /\ UNCHANGED <<permits, requests, next_allowed, holder, threadVars>>

Throttle(t) == Acquire(t) \/ SleepInLock(t) \/ Wake(t) \/ LeaveLoop(t) \/ Permit(t)

Respond(t) == BackOff(t) \/ \E answer \in Answers : Return(t, answer)

Get(t) == Send(t) \/ Respond(t) \/ Retry(t) \/ Throttle(t)

Finished == \A t \in Threads : pc[t] = "idle" /\ calls[t] = MaxCalls

\* Every thread has made its calls.
Done == Finished /\ UNCHANGED vars

Next == Tick \/ Done \/ \E t \in Threads : Call(t) \/ Get(t)

Spec == Init /\ [][Next]_vars

\* The clock runs, the transport answers (request_timeout_seconds) and a thread
\* that can go on does.  Python's lock picks any waiter, so nothing is assumed
\* of who gets it.
FairSpec == Spec /\ WF_vars(Tick) /\ \A t \in Threads : WF_vars(Get(t))

------------------------------------------------------------------------------
(* Properties *)

\* The throttle's budget, over the whole life of the client: by time `now` at
\* most now / Interval requests have gone out beyond the first, however the
\* threads, their retries and their sleeps interleave.
RateBudget == Interval * (requests - 1) <= now

\* Each permit moves the next one at least an interval further.
PermitsSpaced ==
  [][permits' # permits => next_allowed' >= next_allowed + Interval]_vars

\* A call gives up on a failure worth retrying only after max_retries + 1
\* attempts, never makes more, and never sleeps after its last attempt (the
\* raise behind the loop is unreachable).
RetriesExhausted ==
  \A t \in Threads :
    /\ attempt[t] <= MaxRetries + 1
    /\ outcome[t] \in Retryable => attempt[t] = MaxRetries + 1
    /\ pc[t] = "backoff" => attempt[t] <= MaxRetries

\* Every call returns or raises, although sleepers keep the others out.
CallsReturn == \A t \in Threads : pc[t] # "idle" ~> pc[t] = "idle"

\* sec-client.md: "Timeout and network errors are retried until `max_retries`
\* is exhausted."
NetworkErrorsRetried ==
  \A t \in Threads :
    outcome[t] \in {"timeout", "network", "dropped"} => attempt[t] = MaxRetries + 1
=============================================================================
