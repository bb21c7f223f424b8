---------------------------- MODULE RateLimiter -----------------------------
(***************************************************************************)
(* InMemoryRateLimiter (apps/web/lib/auth): a request counter per bucket   *)
(* whose window opens with the first request after the last one closed,    *)
(* not on a grid.  A bucket is one API key or client, whose tier is fixed. *)
(* Each operation runs whole (one JavaScript thread); the clock the        *)
(* callers pass never runs backwards.  A reset, like a restart of the      *)
(* process, begins a new life of the counters and of the history.          *)
(***************************************************************************)
EXTENDS Integers, Sequences

CONSTANTS Buckets, Tiers,
          TierOf,       \* bucket -> the tier its requests are checked with
          Quotas,       \* tier -> its limit and windowMs
          MaxTime       \* bound: the clock stops here

ASSUME QuotaAssumption ==
  /\ TierOf \in [Buckets -> Tiers]
  /\ Quotas \in [Tiers -> [limit : Nat \ {0}, windowMs : Nat \ {0}]]
  /\ MaxTime \in Nat

VARIABLES now,
          windows,      \* bucket -> its WindowState, or NoWindow
          admitted      \* history: bucket -> the times it was admitted, in order

limiterVars == <<now, windows, admitted>>

WindowState == [windowStart : Nat, count : Nat]
NoWindow == [windowStart |-> 0, count |-> 0]      \* an open window has counted

Limit(b)    == Quotas[TierOf[b]].limit
WindowMs(b) == Quotas[TierOf[b]].windowMs

LimiterInit ==
  /\ now = 0
  /\ windows  = [b \in Buckets |-> NoWindow]
  /\ admitted = [b \in Buckets |-> <<>>]

\* Variant: the window is still open at the instant it closes.
ClosedLate(b) ==
  windows[b] = NoWindow \/ now > windows[b].windowStart + WindowMs(b)

\* Variant: the window closes an instant early.
ClosedEarly(b) ==
  windows[b] = NoWindow \/ now + 1 >= windows[b].windowStart + WindowMs(b)

Closed(b) ==
  windows[b] = NoWindow \/ now >= windows[b].windowStart + WindowMs(b)

\* The window a request made now falls in.
Window(b) == IF Closed(b) THEN [windowStart |-> now, count |-> 0] ELSE windows[b]

Full(b) == Window(b).count >= Limit(b)

\* check: refused, with the window kept as it is.
Refuse(b) ==
  /\ Full(b)
  /\ windows' = [windows EXCEPT ![b] = Window(b)]
  /\ UNCHANGED <<now, admitted>>

\* Variant: the counter counts down.
AdmitCountingDown(b) ==
  /\ ~Full(b)
  /\ windows'  = [windows EXCEPT ![b] = [Window(b) EXCEPT !.count = @ - 1]]
  /\ admitted' = [admitted EXCEPT ![b] = Append(@, now)]
  /\ UNCHANGED now

\* check: admitted and counted.
Admit(b) ==
  /\ ~Full(b)
  /\ windows'  = [windows EXCEPT ![b] = [Window(b) EXCEPT !.count = @ + 1]]
  /\ admitted' = [admitted EXCEPT ![b] = Append(@, now)]
  /\ UNCHANGED now

Reset(b) ==
  /\ windows'  = [windows EXCEPT ![b] = NoWindow]
  /\ admitted' = [admitted EXCEPT ![b] = <<>>]
  /\ UNCHANGED now

\* reset() of every bucket, or a restart of the process.
ResetAll ==
  /\ windows'  = [b \in Buckets |-> NoWindow]
  /\ admitted' = [b \in Buckets |-> <<>>]
  /\ UNCHANGED now

\* Variant: a window is swept when it is closed for some tier.
ClosedForSomeTier(window) ==
  \E t \in Tiers : now >= window.windowStart + Quotas[t].windowMs

\* The limiter does not keep a bucket's tier, so a sweep goes by the widest
\* window: it drops what is closed whatever the tier.
ClosedForEveryTier(window) ==
  \A t \in Tiers : now >= window.windowStart + Quotas[t].windowMs

Sweep ==
  /\ windows' = [b \in Buckets |->
                   IF ClosedForEveryTier(windows[b]) THEN NoWindow ELSE windows[b]]
  /\ UNCHANGED <<now, admitted>>

\* Time passes between requests.
Tick == now < MaxTime /\ now' = now + 1 /\ UNCHANGED <<windows, admitted>>

LimiterNext ==
  \/ \E b \in Buckets : Admit(b) \/ Refuse(b) \/ Reset(b)
  \/ ResetAll
  \/ Sweep
  \/ Tick

LimiterSpec == LimiterInit /\ [][LimiterNext]_limiterVars

------------------------------------------------------------------------------
(* Properties *)

LimiterTypeOK ==
  /\ now \in Nat
  /\ windows  \in [Buckets -> WindowState]
  /\ admitted \in [Buckets -> Seq(Nat)]

\* How bursty a fixed window gets: no interval as long as a window ever admits
\* 2 * limit requests, wherever the windows opened and whatever was swept.
BurstBound ==
  \A b \in Buckets : \A i \in DOMAIN admitted[b] :
    i + 2 * Limit(b) - 1 <= Len(admitted[b]) =>
      admitted[b][i + 2 * Limit(b) - 1] >= admitted[b][i] + WindowMs(b)

\* A bucket is refused only if it was admitted `limit` times within the last
\* windowMs: the counter never outlives its window.
RefusedOnlyOverBudget ==
  \A b \in Buckets : Full(b) =>
    LET n == Len(admitted[b]) IN
      /\ n >= Limit(b)
      /\ now < admitted[b][n - Limit(b) + 1] + WindowMs(b)

\* A sweep frees memory and changes no later decision, whatever the tiers.
SweepHarmless == [][Sweep => \A b \in Buckets : Window(b)' = Window(b)]_limiterVars
=============================================================================
