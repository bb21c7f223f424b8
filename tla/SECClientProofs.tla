--------------------------- MODULE SECClientProofs --------------------------
(***************************************************************************)
(* The request budget and the retry bound of the SEC client, for any       *)
(* threads, interval and number of retries.  The budget rests on the lock: *)
(* only its holder moves next_allowed, so what the holder saw in the loop  *)
(* still stands when it leaves it.                                         *)
(***************************************************************************)
EXTENDS SECClient, FiniteSetTheorems, TLAPS

InLock == {"locked", "asleep", "granted"}

\* A thread inside the throttle holds the lock.
Mutex == \A t \in Threads : pc[t] \in InLock => holder = t

\* A clock value read is in the past; one that let a thread out of the loop is
\* still past the slot it waited for.
Clocks ==
  /\ \A t \in Threads : seen[t] <= now
  /\ \A t \in Threads : pc[t] = "granted" => seen[t] >= next_allowed

\* Each permit took an interval, and the next slot is at most one away.
Slots == Interval * permits <= next_allowed /\ next_allowed <= now + Interval

\* Threads with a permit they have not used yet.
Senders == {t \in Threads : pc[t] = "send"}

\* A permit is used or still to be used.
Accounts == permits = requests + Cardinality(Senders)

RateInv == TypeOK /\ Mutex /\ Clocks /\ Slots /\ Accounts

\* A call has no result before it returns.
Unfinished == \A t \in Threads : pc[t] # "idle" => outcome[t] = "none"

RetryInv == TypeOK /\ Unfinished /\ RetriesExhausted

------------------------------------------------------------------------------
LEMMA InitTypeOK == Init => TypeOK
  BY ConfigAssumption DEF Init, TypeOK, Places

LEMMA NextTypeOK == TypeOK /\ [Next]_vars => TypeOK'
<1> SUFFICES ASSUME TypeOK, [Next]_vars
             PROVE  TypeOK'
  OBVIOUS
<1> USE ConfigAssumption DEF TypeOK, Places, Answers, Retryable, Goto, clockVars, threadVars
<1>1. CASE Tick
  BY <1>1 DEF Tick
<1>2. CASE Done
  BY <1>2 DEF Done, vars
<1>3. ASSUME NEW t \in Threads, Call(t)
      PROVE  TypeOK'
  BY <1>3 DEF Call
<1>4. ASSUME NEW t \in Threads, Send(t)
      PROVE  TypeOK'
  BY <1>4 DEF Send
<1>5. ASSUME NEW t \in Threads, Respond(t)
      PROVE  TypeOK'
  BY <1>5 DEF Respond, BackOff, Return
<1>6. ASSUME NEW t \in Threads, Retry(t)
      PROVE  TypeOK'
  BY <1>6 DEF Retry
<1>7. ASSUME NEW t \in Threads, Acquire(t)
      PROVE  TypeOK'
  BY <1>7 DEF Acquire
<1>8. ASSUME NEW t \in Threads, SleepInLock(t) \/ LeaveLoop(t)
      PROVE  TypeOK'
  BY <1>8 DEF SleepInLock, LeaveLoop
<1>9. ASSUME NEW t \in Threads, Wake(t)
      PROVE  TypeOK'
  BY <1>9 DEF Wake
<1>10. ASSUME NEW t \in Threads, Permit(t)
       PROVE  TypeOK'
  BY <1>10 DEF Permit
<1>11. CASE UNCHANGED vars
  BY <1>11 DEF vars
<1> QED
  BY <1>1, <1>2, <1>3, <1>4, <1>5, <1>6, <1>7, <1>8, <1>9, <1>10, <1>11
     DEF Next, Get, Throttle

\* The clock, the throttle and the threads keep their types.
THEOREM TypeCorrect == Spec => []TypeOK
  BY InitTypeOK, NextTypeOK, PTL DEF Spec

------------------------------------------------------------------------------
(* The request budget *)

LEMMA InitRateInv == Init => RateInv
<1> SUFFICES ASSUME Init
             PROVE  RateInv
  OBVIOUS
<1>1. Senders = {}
  BY DEF Init, Senders
<1>2. Cardinality(Senders) = 0
  BY <1>1, FS_EmptySet
<1>3. Mutex /\ Clocks /\ Slots
  BY ConfigAssumption DEF Init, Mutex, Clocks, Slots, InLock
<1>4. Accounts
  BY <1>2 DEF Init, Accounts
<1> QED
  BY InitTypeOK, <1>3, <1>4 DEF RateInv

LEMMA SendersFinite == IsFiniteSet(Senders) /\ Cardinality(Senders) \in Nat
  BY ConfigAssumption, FS_Subset, FS_CardinalityType DEF Senders

\* A permit and a request enter the accounts together with the thread's place.
LEMMA AccountsKept ==
  ASSUME RateInv, [Next]_vars
  PROVE  Accounts'
<1> USE DEF RateInv, TypeOK, Goto, Accounts
<1>1. ASSUME NEW t \in Threads, Permit(t)
      PROVE  Accounts'
  <2>1. Senders' = Senders \cup {t} /\ t \notin Senders
    BY <1>1 DEF Permit, Senders
  <2>2. Cardinality(Senders') = Cardinality(Senders) + 1
    BY <2>1, SendersFinite, FS_AddElement
  <2>3. permits' = permits + 1 /\ requests' = requests
    BY <1>1 DEF Permit
  <2> QED
    BY <2>2, <2>3, SendersFinite
<1>2. ASSUME NEW t \in Threads, Send(t)
      PROVE  Accounts'
  <2>1. Senders' = Senders \ {t} /\ t \in Senders
    BY <1>2 DEF Send, Senders
  <2>2. Cardinality(Senders') = Cardinality(Senders) - 1
    BY <2>1, SendersFinite, FS_RemoveElement
  <2>3. permits' = permits /\ requests' = requests + 1
    BY <1>2 DEF Send, clockVars
  <2> QED
    BY <2>2, <2>3, SendersFinite
<1>3. ASSUME Senders' = Senders, permits' = permits, requests' = requests
      PROVE  Accounts'
  BY <1>3
<1>4. ASSUME NEW t \in Threads,
             Call(t) \/ Respond(t) \/ Retry(t) \/ Acquire(t) \/ SleepInLock(t)
               \/ LeaveLoop(t) \/ Wake(t)
      PROVE  Accounts'
  <2>1. Senders' = Senders
    BY <1>4 DEF Senders, Call, Respond, BackOff, Return, Retry, Acquire,
                SleepInLock, LeaveLoop, Wake
  <2>2. permits' = permits /\ requests' = requests
    BY <1>4 DEF clockVars, Call, Respond, BackOff, Return, Retry, Acquire,
                SleepInLock, LeaveLoop, Wake
  <2> QED
    BY <1>3, <2>1, <2>2
<1>5. CASE Tick \/ Done \/ UNCHANGED vars
  BY <1>3, <1>5 DEF Tick, Done, vars, clockVars, threadVars, Senders
<1> QED
  BY <1>1, <1>2, <1>4, <1>5 DEF Next, Get, Throttle

LEMMA NextRateInv == RateInv /\ [Next]_vars => RateInv'
<1> SUFFICES ASSUME RateInv, [Next]_vars
             PROVE  Mutex' /\ Clocks' /\ Slots'
  BY AccountsKept, NextTypeOK DEF RateInv
<1> USE DEF RateInv, TypeOK, Goto, InLock
<1>1. CASE Tick
  <2>1. now' \in Nat /\ now <= now'
    BY <1>1 DEF Tick
  <2>2. Mutex'
    BY <1>1 DEF Tick, Mutex, threadVars
  <2>3. Clocks'
    BY <1>1, <2>1 DEF Tick, Clocks, threadVars
  <2>4. Slots'
    BY <1>1, <2>1, ConfigAssumption DEF Tick, Slots
  <2> QED
    BY <2>2, <2>3, <2>4
<1>2. CASE Done \/ UNCHANGED vars
  BY <1>2 DEF Done, vars, clockVars, threadVars, Mutex, Clocks, Slots
\* Steps of a thread outside the throttle.
<1>3. ASSUME NEW t \in Threads, Call(t) \/ Send(t) \/ Respond(t) \/ Retry(t)
      PROVE  Mutex' /\ Clocks' /\ Slots'
  <2>1. /\ UNCHANGED <<now, next_allowed, permits, holder, seen>>
        /\ \A o \in Threads : pc'[o] \in InLock => pc[o] = pc'[o]
    BY <1>3 DEF Call, Send, Respond, BackOff, Return, Retry, clockVars
  <2> QED
    BY <2>1 DEF Mutex, Clocks, Slots
\* Steps inside the throttle, with the lock.
<1>4. ASSUME NEW t \in Threads, Acquire(t)
      PROVE  Mutex' /\ Clocks' /\ Slots'
  <2>1. Mutex'
    BY <1>4, ConfigAssumption DEF Acquire, Mutex
  <2>2. Clocks'
    BY <1>4 DEF Acquire, Clocks, clockVars
  <2> QED
    BY <1>4, <2>1, <2>2 DEF Acquire, Slots, clockVars
<1>5. ASSUME NEW t \in Threads, SleepInLock(t) \/ LeaveLoop(t) \/ Wake(t)
      PROVE  Mutex' /\ Clocks' /\ Slots'
  <2>1. Mutex'
    BY <1>5 DEF SleepInLock, LeaveLoop, Wake, Mutex
  <2>2. Clocks'
    BY <1>5 DEF SleepInLock, LeaveLoop, Wake, Clocks, clockVars
  <2> QED
    BY <1>5, <2>1, <2>2 DEF SleepInLock, LeaveLoop, Wake, Slots, clockVars
<1>6. ASSUME NEW t \in Threads, Permit(t)
      PROVE  Mutex' /\ Clocks' /\ Slots'
  <2>1. \A o \in Threads \ {t} : pc[o] \notin InLock /\ pc'[o] = pc[o]
    BY <1>6 DEF Permit, Mutex
  <2>2. pc'[t] = "send"
    BY <1>6 DEF Permit
  <2>3. Mutex' /\ Clocks'
    BY <1>6, <2>1, <2>2 DEF Permit, Mutex, Clocks
  <2>4. seen[t] \in Nat /\ next_allowed <= seen[t] /\ seen[t] <= now
    BY <1>6 DEF Permit, Clocks
  <2>5. Interval * (permits + 1) = Interval * permits + Interval
    BY ConfigAssumption
  <2>6. Interval * permits \in Nat
    BY ConfigAssumption
  <2>7. next_allowed' = seen[t] + Interval /\ permits' = permits + 1 /\ now' = now
    BY <1>6 DEF Permit
  <2>8. Slots'
    BY <2>4, <2>5, <2>6, <2>7, ConfigAssumption DEF Slots
  <2> QED
    BY <2>3, <2>8
<1> QED
  BY <1>1, <1>2, <1>3, <1>4, <1>5, <1>6 DEF Next, Get, Throttle

\* By any time, at most one request per interval has gone out beyond the first,
\* however many threads share the client.
THEOREM RequestsWithinBudget == Spec => []RateBudget
<1>1. RateInv => RateBudget
  <2> SUFFICES ASSUME RateInv
               PROVE  Interval * (requests - 1) <= now
    BY DEF RateBudget
  <2> USE DEF RateInv, TypeOK
  <2>1. requests <= permits
    BY SendersFinite DEF Accounts
  <2>2. Interval * permits <= now + Interval
    BY ConfigAssumption DEF Slots
  <2>3. Interval * (requests - 1) = Interval * requests - Interval
    BY ConfigAssumption
  <2>4. Interval * requests <= Interval * permits
    BY <2>1, ConfigAssumption
  <2>5. Interval * requests \in Nat /\ Interval * permits \in Nat
    BY ConfigAssumption
  <2> QED
    BY <2>2, <2>3, <2>4, <2>5, ConfigAssumption
<1> QED
  BY <1>1, InitRateInv, NextRateInv, PTL DEF Spec

\* Each permit moves the next one at least an interval further.
THEOREM PermitsAreSpaced == Spec => PermitsSpaced
<1>1. RateInv /\ [Next]_vars =>
        [permits' # permits => next_allowed' >= next_allowed + Interval]_vars
  <2> SUFFICES ASSUME RateInv, Next, permits' # permits
               PROVE  next_allowed' >= next_allowed + Interval
    OBVIOUS
  <2>1. PICK t \in Threads : Permit(t)
    BY DEF Next, Get, Throttle, Tick, Done, vars, Call, Send, Respond, BackOff,
           Return, Retry, Acquire, SleepInLock, LeaveLoop, Wake, clockVars
  <2> QED
    BY <2>1, ConfigAssumption DEF Permit, Goto, RateInv, TypeOK, Clocks
<1> QED
  BY <1>1, InitRateInv, NextRateInv, PTL DEF Spec, PermitsSpaced

------------------------------------------------------------------------------
(* Retries *)

LEMMA InitRetryInv == Init => RetryInv
  BY InitTypeOK, ConfigAssumption DEF Init, RetryInv, Unfinished, RetriesExhausted, Retryable

LEMMA NextRetryInv == RetryInv /\ [Next]_vars => RetryInv'
<1> SUFFICES ASSUME RetryInv, [Next]_vars
             PROVE  Unfinished' /\ RetriesExhausted'
  BY NextTypeOK DEF RetryInv
<1> USE ConfigAssumption DEF RetryInv, TypeOK, Goto, Unfinished, RetriesExhausted, Retryable
<1>1. CASE Tick \/ Done \/ UNCHANGED vars
  BY <1>1 DEF Tick, Done, vars, threadVars
<1>2. ASSUME NEW t \in Threads, Call(t)
      PROVE  Unfinished' /\ RetriesExhausted'
  BY <1>2 DEF Call
<1>3. ASSUME NEW t \in Threads, BackOff(t)
      PROVE  Unfinished' /\ RetriesExhausted'
  BY <1>3 DEF BackOff, AttemptsLeft
<1>4. ASSUME NEW t \in Threads, NEW answer \in Answers, Return(t, answer)
      PROVE  Unfinished' /\ RetriesExhausted'
  BY <1>4 DEF Return, AttemptsLeft
<1>5. ASSUME NEW t \in Threads, Retry(t)
      PROVE  Unfinished' /\ RetriesExhausted'
  BY <1>5 DEF Retry
<1>6. ASSUME NEW t \in Threads, Send(t) \/ Throttle(t)
      PROVE  Unfinished' /\ RetriesExhausted'
  BY <1>6 DEF Send, Throttle, Acquire, SleepInLock, LeaveLoop, Wake, Permit
<1> QED
  BY <1>1, <1>2, <1>3, <1>4, <1>5, <1>6 DEF Next, Get, Respond

\* A call gives up on a failure worth retrying after exactly max_retries + 1
\* attempts.
THEOREM RetriesAreExhausted == Spec => []RetriesExhausted
<1>1. RetryInv => RetriesExhausted
  BY DEF RetryInv
<1> QED
  BY <1>1, InitRetryInv, NextRetryInv, PTL DEF Spec
=============================================================================
