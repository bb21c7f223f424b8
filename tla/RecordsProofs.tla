--------------------------- MODULE RecordsProofs ----------------------------
(***************************************************************************)
(* What the record keepers promise, for any number of securities, rows,    *)
(* threads, datasets, notes and requests: the rate limiter, the            *)
(* restatement resolver, the listing history, the dataset and notes        *)
(* stores, the builders' and the benchmark's types, and their composition. *)
(***************************************************************************)
EXTENDS MCRecords, SelectionProofs, FiniteSetTheorems, SequenceTheorems, TLAPS

------------------------------------------------------------------------------
(* How bursty the limiter gets, for any quotas, buckets and clock.  Two    *)
(* facts carry the proof: the requests a window counted are the last ones  *)
(* admitted, and a window opens only a whole window after the request      *)
(* `limit` places before its first one.                                    *)

\* Requests are admitted in order of time.
InOrder(b) ==
  /\ \A i, k \in DOMAIN admitted[b] : i <= k => admitted[b][i] <= admitted[b][k]
  /\ \A i \in DOMAIN admitted[b] : admitted[b][i] <= now

\* The place in the history where an open window began.
First(b) == Len(admitted[b]) - windows[b].count + 1

\* An open window counted the requests from First on, and the request `limit`
\* places before that is a whole window older.
WindowInv(b) ==
  windows[b].count # 0 =>
    /\ windows[b].count <= Limit(b) /\ windows[b].count <= Len(admitted[b])
    /\ admitted[b][First(b)] = windows[b].windowStart
    /\ First(b) > Limit(b) =>
         admitted[b][First(b) - Limit(b)] + WindowMs(b) <= windows[b].windowStart

\* With no window kept, the last `limit` requests no longer matter.
NoWindowInv(b) ==
  windows[b].count = 0 =>
    /\ windows[b] = NoWindow
    /\ Len(admitted[b]) >= Limit(b) =>
         admitted[b][Len(admitted[b]) + 1 - Limit(b)] + WindowMs(b) <= now

Burst(b) ==
  \A i \in DOMAIN admitted[b] :
    i + 2 * Limit(b) - 1 <= Len(admitted[b]) =>
      admitted[b][i] + WindowMs(b) <= admitted[b][i + 2 * Limit(b) - 1]

BucketInv(b) == InOrder(b) /\ WindowInv(b) /\ NoWindowInv(b) /\ Burst(b)

IInv == LimiterTypeOK /\ \A b \in Buckets : BucketInv(b)

------------------------------------------------------------------------------
LEMMA QuotaTyped ==
  ASSUME NEW b \in Buckets
  PROVE  Limit(b) \in Nat \ {0} /\ WindowMs(b) \in Nat \ {0}
  BY QuotaAssumption DEF Limit, WindowMs

\* What is known of a bucket, in terms of numbers.
LEMMA BucketTyped ==
  ASSUME LimiterTypeOK, NEW b \in Buckets
  PROVE  /\ now \in Nat
         /\ windows[b].windowStart \in Nat /\ windows[b].count \in Nat
         /\ admitted[b] \in Seq(Nat)
         /\ Len(admitted[b]) \in Nat
         /\ DOMAIN admitted[b] = 1 .. Len(admitted[b])
         /\ \A i \in DOMAIN admitted[b] : admitted[b][i] \in Nat
  BY DEF LimiterTypeOK, WindowState

\* Once a bucket's window has closed, the request `limit` places back is a whole
\* window old: the next one opens a window soundly.
LEMMA ClosedWindow ==
  ASSUME LimiterTypeOK, NEW b \in Buckets, BucketInv(b), Closed(b),
         Len(admitted[b]) >= Limit(b)
  PROVE  admitted[b][Len(admitted[b]) + 1 - Limit(b)] + WindowMs(b) <= now
<1> DEFINE a == admitted[b]
           n == Len(admitted[b])
           L == Limit(b)
           W == WindowMs(b)
           c == windows[b].count
           ws == windows[b].windowStart
<1>0. /\ L \in Nat \ {0} /\ W \in Nat \ {0} /\ now \in Nat /\ ws \in Nat
      /\ c \in Nat /\ n \in Nat /\ n >= L /\ DOMAIN a = 1 .. n
      /\ \A i \in DOMAIN a : a[i] \in Nat
  BY QuotaTyped, BucketTyped
<1>1. CASE c = 0
  BY <1>1 DEF BucketInv, NoWindowInv
<1>2. CASE c # 0
  <2>1. ws + W <= now
    BY <1>2 DEF Closed, NoWindow
  <2>2. /\ c <= L /\ c <= n /\ a[n - c + 1] = ws
    BY <1>2 DEF BucketInv, WindowInv, First
  <2>3. /\ n - c + 1 \in DOMAIN a /\ n + 1 - L \in DOMAIN a
        /\ n + 1 - L <= n - c + 1
    <3> HIDE DEF L, n, c, a
    <3> QED
      BY <1>0, <1>2, <2>2
  <2>4. a[n + 1 - L] <= a[n - c + 1]
    BY <2>3 DEF BucketInv, InOrder
  <2>5. a[n + 1 - L] \in Nat
    BY <1>0, <2>3
  <2> QED
    <3> HIDE DEF L, n, c, a, W, ws
    <3>1. a[n + 1 - L] + W <= now
      BY <1>0, <2>1, <2>2, <2>4, <2>5
    <3> QED
      BY <3>1 DEF L, n, a, W
<1> QED
  BY <1>1, <1>2

\* A history d that extends a, in order and not too bursty, by a request now,
\* in a window that opened with the request e - 1 places before.
LEMMA HistoryGrows ==
  ASSUME NEW n \in Nat, NEW L \in Nat \ {0}, NEW W \in Nat, NEW t \in Nat,
         NEW e \in 1 .. L, e <= n + 1, NEW a, NEW d,
         \A i \in 1 .. n : a[i] \in Nat /\ a[i] <= t /\ d[i] = a[i],
         \A i, k \in 1 .. n : i <= k => a[i] <= a[k],
         \A i \in 1 .. n : i + 2 * L - 1 <= n => a[i] + W <= a[i + 2 * L - 1],
         d[n + 1] = t,
         n + 2 - e > L => d[n + 2 - e - L] + W <= d[n + 2 - e]
  PROVE  /\ \A i, k \in 1 .. (n + 1) : i <= k => d[i] <= d[k]
         /\ \A i \in 1 .. (n + 1) : d[i] <= t
         /\ \A i \in 1 .. (n + 1) :
              i + 2 * L - 1 <= n + 1 => d[i] + W <= d[i + 2 * L - 1]
<1>1. \A i \in 1 .. (n + 1) : d[i] \in Nat /\ d[i] <= t
  <2> TAKE i \in 1 .. (n + 1)
  <2>1. CASE i \in 1 .. n
    BY <2>1
  <2>2. CASE i = n + 1
    BY <2>2
  <2> QED
    BY <2>1, <2>2
<1>2. \A i, k \in 1 .. (n + 1) : i <= k => d[i] <= d[k]
  <2> TAKE i, k \in 1 .. (n + 1)
  <2> HAVE i <= k
  <2>1. CASE k \in 1 .. n
    <3>1. i \in 1 .. n
      BY <2>1
    <3> QED
      BY <2>1, <3>1
  <2>2. CASE k = n + 1
    BY <1>1, <2>2
  <2> QED
    BY <2>1, <2>2
<1>3. ASSUME NEW i \in 1 .. (n + 1), i + 2 * L - 1 <= n + 1
      PROVE  d[i] + W <= d[i + 2 * L - 1]
  <2> DEFINE last == i + 2 * L - 1
             first == n + 2 - e
             before == n + 2 - e - L
  <2>1. CASE last <= n
    <3>1. i \in 1 .. n /\ last \in 1 .. n
      BY <2>1
    <3>2. a[i] + W <= a[last] /\ d[i] = a[i] /\ d[last] = a[last]
      BY <2>1, <3>1
    <3> QED
      BY <3>2
  <2>2. CASE last = n + 1
    <3>1. /\ first \in 1 .. (n + 1) /\ before \in 1 .. (n + 1)
          /\ i <= before /\ first <= last /\ last \in 1 .. (n + 1) /\ first > L
      BY <1>3, <2>2
    <3> HIDE DEF last, first, before
    <3>2. d[i] <= d[before] /\ d[first] <= d[last]
      BY <1>2, <3>1
    <3>3. /\ d[i] \in Nat /\ d[before] \in Nat /\ d[first] \in Nat
          /\ d[last] \in Nat
      BY <1>1, <3>1
    <3>4. d[before] + W <= d[first]
      BY <3>1 DEF first, before
    <3>5. d[i] + W <= d[last]
      BY <3>2, <3>3, <3>4
    <3> QED
      BY <3>5 DEF last
  <2> QED
    BY <1>3, <2>1, <2>2
<1> QED
  BY <1>1, <1>2, <1>3

\* An admission, in a window just opened or still open.
LEMMA AdmitKeeps ==
  ASSUME LimiterTypeOK, NEW b \in Buckets, BucketInv(b), Admit(b)
  PROVE  BucketInv(b)'
<1> DEFINE a == admitted[b]
           n == Len(admitted[b])
           L == Limit(b)
           W == WindowMs(b)
           c == windows[b].count
           ws == windows[b].windowStart
           d == admitted'[b]
           e == windows'[b].count
           wt == windows'[b].windowStart
<1>0. /\ L \in Nat \ {0} /\ W \in Nat \ {0} /\ now \in Nat /\ ws \in Nat
      /\ c \in Nat /\ n \in Nat
  BY QuotaTyped, BucketTyped
<1>1. d = Append(a, now) /\ now' = now
  BY DEF Admit, LimiterTypeOK
<1>2. /\ Len(d) = n + 1 /\ DOMAIN d = 1 .. (n + 1) /\ d[n + 1] = now
      /\ \A i \in 1 .. n : d[i] = a[i]
  BY <1>1, BucketTyped
<1>3. DOMAIN a = 1 .. n /\ \A i \in 1 .. n : a[i] \in Nat
  BY BucketTyped
<1>4. /\ \A i, k \in 1 .. n : i <= k => a[i] <= a[k]
      /\ \A i \in 1 .. n : a[i] <= now
      /\ \A i \in 1 .. n : i + 2 * L - 1 <= n => a[i] + W <= a[i + 2 * L - 1]
  BY <1>3 DEF BucketInv, InOrder, Burst
\* The window the request falls in: a new one, or the one still open.
<1>5. /\ e \in 1 .. L /\ e <= n + 1
      /\ d[n + 2 - e] = wt
      /\ n + 2 - e > L => d[n + 2 - e - L] + W <= wt
  <2>1. CASE Closed(b)
    <3>1. e = 1 /\ wt = now
      BY <2>1 DEF Admit, Full, Window, LimiterTypeOK, WindowState
    <3>2. n >= L => a[n + 1 - L] + W <= now
      BY <2>1, ClosedWindow
    <3> HIDE DEF a, n, d, L, W, e, wt
    <3>3. n + 1 > L => n + 1 - L \in 1 .. n /\ n >= L
      BY <1>0
    <3>4. n + 2 - e = n + 1 /\ n + 2 - e - L = n + 1 - L /\ e \in 1 .. L
      BY <1>0, <3>1
    <3> QED
      BY <1>0, <1>2, <3>1, <3>2, <3>3, <3>4
  <2>2. CASE ~Closed(b)
    <3>1. e = c + 1 /\ wt = ws /\ ~(c >= L)
      BY <2>2 DEF Admit, Full, Window, LimiterTypeOK, WindowState
    <3>2. c # 0
      BY <2>2 DEF Closed, BucketInv, NoWindowInv
    <3>3. /\ c <= n /\ a[n - c + 1] = ws
          /\ n - c + 1 > L => a[n - c + 1 - L] + W <= ws
      <4>1. First(b) = n - c + 1 /\ WindowInv(b)
        BY DEF First, BucketInv
      <4>2. c <= n /\ a[First(b)] = ws /\ (First(b) > L => a[First(b) - L] + W <= ws)
        BY <3>2, <4>1 DEF WindowInv
      <4> HIDE DEF n, c, a, L, W, ws
      <4> QED
        BY <1>0, <4>1, <4>2
    <3> HIDE DEF a, n, d, L, W, e, wt, c, ws
    <3>4. /\ n + 2 - e = n - c + 1 /\ n + 2 - e - L = n - c + 1 - L
          /\ e \in 1 .. L /\ e <= n + 1
          /\ n - c + 1 \in 1 .. n
          /\ n - c + 1 > L => n - c + 1 - L \in 1 .. n
      BY <1>0, <3>1, <3>2, <3>3
    <3> QED
      BY <1>0, <1>2, <3>1, <3>3, <3>4
  <2> QED
    BY <2>1, <2>2
<1>6. /\ \A i, k \in 1 .. (n + 1) : i <= k => d[i] <= d[k]
      /\ \A i \in 1 .. (n + 1) : d[i] <= now
      /\ \A i \in 1 .. (n + 1) :
           i + 2 * L - 1 <= n + 1 => d[i] + W <= d[i + 2 * L - 1]
  <2> HIDE DEF a, n, d, L, W, e, wt
  <2>1. /\ \A i \in 1 .. n : a[i] \in Nat /\ a[i] <= now /\ d[i] = a[i]
        /\ n + 2 - e > L => d[n + 2 - e - L] + W <= d[n + 2 - e]
    BY <1>2, <1>3, <1>4, <1>5
  <2>2. n \in Nat /\ L \in Nat \ {0} /\ W \in Nat /\ now \in Nat
    BY <1>0
  <2>3. e \in 1 .. L /\ e <= n + 1 /\ d[n + 1] = now
    BY <1>2, <1>5
  <2> QED
    BY <1>4, <2>1, <2>2, <2>3, HistoryGrows, SMTT(60)
<1>7. InOrder(b)' /\ Burst(b)'
  BY <1>1, <1>2, <1>6 DEF InOrder, Burst, Limit, WindowMs
<1>8. e # 0 /\ Len(d) - e + 1 = n + 2 - e
  <2> HIDE DEF n, d, L, e
  <2> QED
    BY <1>0, <1>2, <1>5
<1>9. WindowInv(b)' /\ NoWindowInv(b)'
  <2>1. First(b)' = n + 2 - e
    BY <1>8 DEF First
  <2>2. NoWindowInv(b)'
    BY <1>8 DEF NoWindowInv
  <2>3. /\ e <= L /\ e <= Len(d) /\ d[First(b)'] = wt
        /\ First(b)' > L => d[First(b)' - L] + W <= wt
    <3> HIDE DEF n, d, L, W, e, wt
    <3> QED
      BY <1>0, <1>2, <1>5, <2>1
  <2>4. WindowInv(b)'
    BY <2>3 DEF WindowInv, Limit, WindowMs
  <2> QED
    BY <2>2, <2>4
<1> QED
  BY <1>7, <1>9 DEF BucketInv

\* A bucket that nothing happens to, but that time may pass for.
LEMMA IdleKeeps ==
  ASSUME LimiterTypeOK, NEW b \in Buckets, BucketInv(b), now' \in Nat, now <= now',
         windows'[b] = windows[b], admitted'[b] = admitted[b]
  PROVE  BucketInv(b)'
<1> DEFINE a == admitted[b]
           n == Len(admitted[b])
           L == Limit(b)
           W == WindowMs(b)
<1>0. /\ L \in Nat \ {0} /\ W \in Nat \ {0} /\ now \in Nat /\ n \in Nat
      /\ DOMAIN a = 1 .. n /\ \A i \in DOMAIN a : a[i] \in Nat
  BY QuotaTyped, BucketTyped
<1>1. \A i \in DOMAIN a : a[i] <= now'
  <2>1. \A i \in DOMAIN a : a[i] <= now
    BY DEF BucketInv, InOrder
  <2> HIDE DEF a
  <2> QED
    BY <1>0, <2>1
<1>2. InOrder(b)' /\ Burst(b)'
  BY <1>1 DEF BucketInv, InOrder, Burst, Limit, WindowMs
<1>3. WindowInv(b)'
  BY DEF BucketInv, WindowInv, First, Limit, WindowMs
<1>4. NoWindowInv(b)'
  <2>1. ASSUME windows[b].count = 0, n >= L
        PROVE  a[n + 1 - L] + W <= now'
    <3>1. a[n + 1 - L] + W <= now
      BY <2>1 DEF BucketInv, NoWindowInv
    <3> HIDE DEF a, n, L, W
    <3>2. n + 1 - L \in DOMAIN a
      BY <1>0, <2>1
    <3> QED
      BY <1>0, <3>1, <3>2
  <2>2. windows[b].count = 0 => windows[b] = NoWindow
    BY DEF BucketInv, NoWindowInv
  <2> QED
    BY <2>1, <2>2 DEF NoWindowInv, Limit, WindowMs
<1> QED
  BY <1>2, <1>3, <1>4 DEF BucketInv

\* A bucket whose window, closed by now, is dropped by a sweep.
LEMMA DropKeeps ==
  ASSUME LimiterTypeOK, NEW b \in Buckets, BucketInv(b), Closed(b), now' = now,
         windows'[b] = NoWindow, admitted'[b] = admitted[b]
  PROVE  BucketInv(b)'
<1>1. InOrder(b)' /\ Burst(b)'
  BY DEF BucketInv, InOrder, Burst, Limit, WindowMs
<1>2. WindowInv(b)'
  BY DEF WindowInv, NoWindow
<1>3. NoWindowInv(b)'
  BY ClosedWindow DEF NoWindowInv, Limit, WindowMs
<1> QED
  BY <1>1, <1>2, <1>3 DEF BucketInv

\* A bucket that starts a new life.
LEMMA FreshBucket ==
  ASSUME NEW b \in Buckets
  PROVE  /\ windows[b] = NoWindow /\ admitted[b] = <<>> => BucketInv(b)
         /\ windows'[b] = NoWindow /\ admitted'[b] = <<>> => BucketInv(b)'
  BY QuotaTyped DEF BucketInv, InOrder, WindowInv, NoWindowInv, Burst, NoWindow,
                    Limit, WindowMs

\* A refusal finds the bucket's window open and leaves it as it is.
LEMMA RefusedWindowOpen ==
  ASSUME LimiterTypeOK, NEW b \in Buckets, Full(b)
  PROVE  ~Closed(b) /\ Window(b) = windows[b]
  BY QuotaTyped DEF Full, Window

\* A sweep drops only windows that have closed for their bucket's own tier.
LEMMA SweptWindowClosed ==
  ASSUME LimiterTypeOK, NEW b \in Buckets, ClosedForEveryTier(windows[b])
  PROVE  Closed(b)
  BY QuotaAssumption DEF ClosedForEveryTier, Closed, WindowMs

------------------------------------------------------------------------------
LEMMA InitTypeOK == LimiterInit => LimiterTypeOK
  BY DEF LimiterInit, LimiterTypeOK, WindowState, NoWindow

LEMMA NextTypeOK == LimiterTypeOK /\ [LimiterNext]_limiterVars => LimiterTypeOK'
<1> SUFFICES ASSUME LimiterTypeOK, [LimiterNext]_limiterVars
             PROVE  LimiterTypeOK'
  OBVIOUS
<1> USE DEF LimiterTypeOK, WindowState, NoWindow
<1>1. ASSUME NEW b \in Buckets, Admit(b)
      PROVE  LimiterTypeOK'
  <2>1. Window(b) \in WindowState
    BY DEF Window
  <2>2. windows' \in [Buckets -> WindowState]
    <3> DEFINE opened == [Window(b) EXCEPT !.count = @ + 1]
    <3>1. opened \in WindowState
      <4> HIDE DEF LimiterTypeOK
      <4>1. /\ Window(b).count + 1 \in Nat /\ Window(b).windowStart \in Nat
            /\ DOMAIN Window(b) = {"windowStart", "count"}
            /\ opened = [windowStart |-> Window(b).windowStart,
                         count |-> Window(b).count + 1]
        BY <2>1
      <4> QED
        BY <4>1
    <3>2. windows' = [windows EXCEPT ![b] = opened]
      BY <1>1 DEF Admit
    <3> HIDE DEF opened, WindowState
    <3> QED
      BY <3>1, <3>2
  <2>3. admitted[b] \in Seq(Nat) /\ Append(admitted[b], now) \in Seq(Nat)
    OBVIOUS
  <2>4. admitted' \in [Buckets -> Seq(Nat)]
    BY <1>1, <2>3 DEF Admit
  <2> QED
    BY <1>1, <2>2, <2>4 DEF Admit
<1>2. ASSUME NEW b \in Buckets, Refuse(b)
      PROVE  LimiterTypeOK'
  BY <1>2 DEF Refuse, Window
<1>3. ASSUME NEW b \in Buckets, Reset(b)
      PROVE  LimiterTypeOK'
  BY <1>3 DEF Reset
<1>4. CASE ResetAll
  BY <1>4 DEF ResetAll
<1>5. CASE Sweep
  BY <1>5 DEF Sweep
<1>6. CASE Tick
  BY <1>6 DEF Tick
<1>7. CASE UNCHANGED limiterVars
  BY <1>7 DEF limiterVars
<1> QED
  BY <1>1, <1>2, <1>3, <1>4, <1>5, <1>6, <1>7 DEF LimiterNext

\* The counters, the windows and the history have their types.
THEOREM LimiterTypeCorrect == LimiterSpec => []LimiterTypeOK
  BY InitTypeOK, NextTypeOK, PTL DEF LimiterSpec

LEMMA InitIInv == LimiterInit => IInv
  BY InitTypeOK, FreshBucket DEF LimiterInit, IInv

LEMMA NextIInv == IInv /\ [LimiterNext]_limiterVars => IInv'
<1> SUFFICES ASSUME LimiterTypeOK, \A b \in Buckets : BucketInv(b), [LimiterNext]_limiterVars,
                    NEW b \in Buckets
             PROVE  BucketInv(b)'
  BY NextTypeOK DEF IInv
<1>1. ASSUME NEW o \in Buckets, Admit(o)
      PROVE  BucketInv(b)'
  <2>1. CASE o = b
    BY <1>1, <2>1, AdmitKeeps
  <2>2. CASE o # b
    BY <1>1, <2>2, IdleKeeps DEF Admit, LimiterTypeOK
  <2> QED
    BY <2>1, <2>2
<1>2. ASSUME NEW o \in Buckets, Refuse(o)
      PROVE  BucketInv(b)'
  <2>1. windows' = windows
    BY <1>2, RefusedWindowOpen DEF Refuse, LimiterTypeOK
  <2> QED
    BY <1>2, <2>1, IdleKeeps DEF Refuse, LimiterTypeOK
<1>3. ASSUME NEW o \in Buckets, Reset(o)
      PROVE  BucketInv(b)'
  <2>1. CASE o = b
    BY <1>3, <2>1, FreshBucket DEF Reset, LimiterTypeOK
  <2>2. CASE o # b
    BY <1>3, <2>2, IdleKeeps DEF Reset, LimiterTypeOK
  <2> QED
    BY <2>1, <2>2
<1>4. CASE ResetAll
  BY <1>4, FreshBucket DEF ResetAll
<1>5. CASE Sweep
  <2>1. CASE ClosedForEveryTier(windows[b])
    BY <1>5, <2>1, SweptWindowClosed, DropKeeps DEF Sweep
  <2>2. CASE ~ClosedForEveryTier(windows[b])
    BY <1>5, <2>2, IdleKeeps DEF Sweep, LimiterTypeOK
  <2> QED
    BY <2>1, <2>2
<1>6. CASE Tick
  BY <1>6, IdleKeeps DEF Tick, LimiterTypeOK
<1>7. CASE UNCHANGED limiterVars
  BY <1>7, IdleKeeps DEF limiterVars, LimiterTypeOK
<1> QED
  BY <1>1, <1>2, <1>3, <1>4, <1>5, <1>6, <1>7 DEF LimiterNext

THEOREM Invariance == LimiterSpec => []IInv
  BY InitIInv, NextIInv, PTL DEF LimiterSpec

\* No interval as long as a bucket's window ever admits twice its limit.
THEOREM BurstsAreBounded == LimiterSpec => []BurstBound
<1>1. IInv => BurstBound
  <2> SUFFICES ASSUME LimiterTypeOK, NEW b \in Buckets, BucketInv(b),
                      NEW i \in DOMAIN admitted[b],
                      i + 2 * Limit(b) - 1 <= Len(admitted[b])
               PROVE  admitted[b][i + 2 * Limit(b) - 1] >= admitted[b][i] + WindowMs(b)
    BY DEF IInv, BurstBound
  <2> DEFINE j == i + 2 * Limit(b) - 1
  <2>1. j \in DOMAIN admitted[b]
    BY QuotaTyped, BucketTyped
  <2>2. admitted[b][i] + WindowMs(b) <= admitted[b][j]
    BY DEF BucketInv, Burst
  <2>3. admitted[b][i] \in Nat /\ admitted[b][j] \in Nat /\ WindowMs(b) \in Nat
    BY <2>1, QuotaTyped, BucketTyped
  <2> HIDE DEF j
  <2>4. admitted[b][j] >= admitted[b][i] + WindowMs(b)
    BY <2>2, <2>3
  <2> QED
    BY <2>4 DEF j
<1> QED
  BY <1>1, Invariance, PTL

\* A refused bucket was admitted `limit` times within its last window.
THEOREM RefusalsAreOverBudget == LimiterSpec => []RefusedOnlyOverBudget
<1>1. IInv => RefusedOnlyOverBudget
  <2> SUFFICES ASSUME LimiterTypeOK, NEW b \in Buckets, BucketInv(b), Full(b)
               PROVE  /\ Len(admitted[b]) >= Limit(b)
                      /\ now < admitted[b][Len(admitted[b]) - Limit(b) + 1] + WindowMs(b)
    BY DEF IInv, RefusedOnlyOverBudget
  <2> DEFINE n == Len(admitted[b])
             L == Limit(b)
             W == WindowMs(b)
             c == windows[b].count
             ws == windows[b].windowStart
  <2>0. /\ L \in Nat \ {0} /\ W \in Nat /\ c \in Nat /\ n \in Nat /\ now \in Nat
        /\ ws \in Nat
    BY QuotaTyped, BucketTyped
  <2>1. c >= L /\ ~(now >= ws + W) /\ c # 0
    BY <2>0, RefusedWindowOpen DEF Full, Closed
  <2>2. c <= L /\ c <= n /\ admitted[b][n - c + 1] = ws
    BY <2>1 DEF BucketInv, WindowInv, First
  <2> HIDE DEF n, L, W, c, ws
  <2>3. n >= L /\ now < admitted[b][n - L + 1] + W
    <3>1. c = L
      BY <2>0, <2>1, <2>2
    <3> QED
      BY <2>0, <2>1, <2>2, <3>1
  <2> QED
    BY <2>3 DEF n, L, W
<1> QED
  BY <1>1, Invariance, PTL

\* A sweep leaves the window every bucket's next request falls in.
THEOREM SweepsAreHarmless == LimiterSpec => SweepHarmless
<1>1. LimiterTypeOK /\ [LimiterNext]_limiterVars => [Sweep => \A b \in Buckets : Window(b)' = Window(b)]_limiterVars
  <2> SUFFICES ASSUME LimiterTypeOK, Sweep, NEW b \in Buckets
               PROVE  Window(b)' = Window(b)
    OBVIOUS
  <2>1. CASE ClosedForEveryTier(windows[b])
    <3>1. Closed(b) /\ windows'[b] = NoWindow /\ now' = now
      BY <2>1, SweptWindowClosed DEF Sweep
    <3> QED
      BY <3>1 DEF Window, Closed
  <2>2. CASE ~ClosedForEveryTier(windows[b])
    BY <2>2 DEF Sweep, Window, Closed, WindowMs
  <2> QED
    BY <2>1, <2>2
<1> QED
  BY <1>1, LimiterTypeCorrect, PTL DEF LimiterSpec, SweepHarmless

------------------------------------------------------------------------------
(* The restatement resolver.  The lock makes one recorder work at a time;  *)
(* what its readers see between its writes is sound because the history    *)
(* never shrinks, a version is there before the history names it, and the  *)
(* history names a fact before it becomes the current truth.               *)

\* A recorder at work holds the lock and has a fact.
Locked ==
  \A w \in Recorders : recorder[w].at # "idle" =>
    resolver_lock = w /\ recorder[w].fact \in Facts

ResolverInv == ResolverTypeOK /\ Locked

\* The types of one recorder's and one reader's place.
RecorderType == [at : {"idle", "look", "save", "append", "resolve"},
                 fact : Facts \cup {NoFact}, previous : Facts \cup {NoFact}]
ReaderType == [at : {"idle", "current", "reading", "read"}, key : TruthKeys,
               current : Facts \cup {NoFact}, read : Seq(Facts), failed : BOOLEAN]

------------------------------------------------------------------------------
LEMMA ResolverInvInit == ResolverInit => ResolverInv
<1> SUFFICES ASSUME ResolverInit PROVE ResolverInv
  OBVIOUS
<1>1. \A k \in TruthKeys : Unread(k) \in ReaderType
  BY DEF Unread, ReaderType
<1>2. reader \in [Readers -> ReaderType]
  BY <1>1 DEF ResolverInit
<1>3. history \in [TruthKeys -> Seq(Facts)]
  BY DEF ResolverInit
<1>4. ResolverTypeOK
  BY <1>2, <1>3 DEF ResolverInit, ResolverTypeOK, ReaderType, Idle
<1> QED
  BY <1>4 DEF ResolverInv, Locked, ResolverInit, Idle

\* A key of a fact has a history and a current truth.
LEMMA KeysOfFacts == \A f \in Facts : f.key \in TruthKeys
  BY DEF TruthKeys

\* A reader's step moves that reader, within its type, and nothing else.
LEMMA ReaderStep ==
  ASSUME ResolverTypeOK, NEW r \in Readers, ReadTruth(r)
  PROVE  /\ \E new \in ReaderType : reader' = [reader EXCEPT ![r] = new]
         /\ UNCHANGED <<resolver_lock, versions, history, current, recorder, torn>>
<1>1. reader[r] \in ReaderType
  BY DEF ResolverTypeOK, ReaderType
<1>2. /\ reader[r].key \in TruthKeys
      /\ history[reader[r].key] \in Seq(Facts)
      /\ current[reader[r].key] \in Facts \cup {NoFact}
  BY <1>1 DEF ResolverTypeOK, ReaderType
<1>3. CASE GetCurrent(r)
  <2> DEFINE new == [reader[r] EXCEPT !.at = "current", !.current = current[reader[r].key]]
  <2>1. new \in ReaderType
    BY <1>1, <1>2 DEF ReaderType
  <2> QED
    BY <1>3, <2>1 DEF GetCurrent
<1>4. CASE GetHistory(r)
  <2> DEFINE new == [reader[r] EXCEPT !.at =
                       IF history[reader[r].key] = <<>> THEN "read" ELSE "reading"]
  <2>1. new \in ReaderType
    BY <1>1 DEF ReaderType
  <2> QED
    BY <1>4, <2>1 DEF GetHistory
<1>5. CASE ReadVersion(r)
  <2> DEFINE h == history[reader[r].key]
             i == Len(reader[r].read) + 1
             new == IF h[i] \in DOMAIN versions
                      THEN [reader[r] EXCEPT !.read = Append(@, h[i])]
                      ELSE [reader[r] EXCEPT !.at = "read", !.failed = TRUE]
  <2>1. h[i] \in Facts
    BY <1>1, <1>2, <1>5 DEF ReadVersion, ReaderType
  <2>2. Append(reader[r].read, h[i]) \in Seq(Facts)
    BY <1>1, <2>1 DEF ReaderType
  <2>3. new \in ReaderType
    BY <1>1, <2>2 DEF ReaderType
  <2>4. reader' = [reader EXCEPT ![r] = new]
    BY <1>5 DEF ReadVersion
  <2> QED
    BY <1>5, <2>3, <2>4 DEF ReadVersion
<1>6. CASE EndHistory(r)
  <2> DEFINE new == [reader[r] EXCEPT !.at = "read"]
  <2>1. new \in ReaderType
    BY <1>1 DEF ReaderType
  <2> QED
    BY <1>6, <2>1 DEF EndHistory
<1>7. CASE ReadAgain(r)
  <2>1. \A k \in TruthKeys : Unread(k) \in ReaderType
    BY DEF Unread, ReaderType
  <2> QED
    BY <1>7, <2>1 DEF ReadAgain
<1> QED
  BY <1>3, <1>4, <1>5, <1>6, <1>7 DEF ReadTruth

LEMMA ResolverInvStep == ResolverInv /\ [ResolverNext]_resolverVars => ResolverInv'
<1> SUFFICES ASSUME ResolverInv, [ResolverNext]_resolverVars PROVE ResolverInv'
  OBVIOUS
<1> USE ResolverAssumption DEF ResolverInv, ResolverTypeOK, Locked
<1>1. CASE UNCHANGED resolverVars
  BY <1>1 DEF resolverVars
<1>2. ASSUME NEW w \in Recorders, Begin(w) PROVE ResolverInv'
  BY <1>2 DEF Begin
<1>3. ASSUME NEW w \in Recorders, ReturnExisting(w) PROVE ResolverInv'
  BY <1>3 DEF ReturnExisting, Idle
<1>4. ASSUME NEW w \in Recorders, LookUpCurrent(w) PROVE ResolverInv'
  <2>1. recorder[w].fact \in Facts /\ current[recorder[w].fact.key] \in Facts \cup {NoFact}
    BY <1>4, KeysOfFacts DEF LookUpCurrent
  <2> DEFINE new == [recorder[w] EXCEPT !.at = "save",
                                        !.previous = current[recorder[w].fact.key]]
  <2>2. new \in RecorderType /\ recorder' = [recorder EXCEPT ![w] = new]
    BY <1>4, <2>1 DEF LookUpCurrent, RecorderType
  <2>3. ResolverTypeOK'
    BY <1>4, <2>2 DEF LookUpCurrent, RecorderType
  <2>4. Locked'
    BY <1>4 DEF LookUpCurrent
  <2> QED
    BY <2>3, <2>4
<1>5. ASSUME NEW w \in Recorders, SaveVersion(w) PROVE ResolverInv'
  BY <1>5 DEF SaveVersion, Saved
<1>6. ASSUME NEW w \in Recorders, AppendHistory(w) PROVE ResolverInv'
  <2> DEFINE f == recorder[w].fact
  <2>1. f \in Facts /\ f.key \in TruthKeys
    BY <1>6, KeysOfFacts DEF AppendHistory
  <2>2. Append(history[f.key], f) \in Seq(Facts)
    BY <2>1
  <2>3. history' \in [TruthKeys -> Seq(Facts)]
    BY <1>6, <2>1, <2>2 DEF AppendHistory
  <2> DEFINE new == [recorder[w] EXCEPT !.at = "resolve"]
  <2>4. new \in RecorderType /\ recorder' = [recorder EXCEPT ![w] = new]
    BY <1>6 DEF AppendHistory, RecorderType
  <2>5. ResolverTypeOK'
    BY <1>6, <2>3, <2>4 DEF AppendHistory, RecorderType
  <2>6. Locked'
    BY <1>6 DEF AppendHistory
  <2> QED
    BY <2>5, <2>6
<1>7. ASSUME NEW w \in Recorders, ResolveCurrent(w) PROVE ResolverInv'
  BY <1>7 DEF ResolveCurrent, Idle
<1>8. ASSUME NEW w \in Recorders, InterruptRecord(w) PROVE ResolverInv'
  BY <1>8 DEF InterruptRecord, Idle
<1>9. ASSUME NEW r \in Readers, ReadTruth(r) PROVE ResolverInv'
  <2>1. PICK new \in ReaderType : reader' = [reader EXCEPT ![r] = new]
    BY <1>9, ReaderStep
  <2> QED
    BY <1>9, <2>1, ReaderStep DEF ReaderType
<1> QED
  BY <1>1, <1>2, <1>3, <1>4, <1>5, <1>6, <1>7, <1>8, <1>9 DEF ResolverNext, RecordFact

\* The resolver, its recorders and its readers keep their types.
THEOREM ResolverTypeCorrect == ResolverSpec => []ResolverTypeOK
  BY ResolverInvInit, ResolverInvStep, PTL DEF ResolverSpec, ResolverInv

------------------------------------------------------------------------------
(* What readers see. *)

\* What the history names has a version, what is current is in the history.
Seen ==
  \A k \in TruthKeys :
    /\ ToSet(history[k]) \subseteq DOMAIN versions
    /\ current[k] # NoFact => current[k] \in ToSet(history[k])

\* The writes a recorder has behind it.
Written ==
  \A w \in Recorders :
    /\ recorder[w].at = "append"  => recorder[w].fact \in DOMAIN versions
    /\ recorder[w].at = "resolve" => recorder[w].fact \in ToSet(history[recorder[w].fact.key])

Extends(s, t) == Len(s) <= Len(t) /\ \A i \in 1 .. Len(s) : t[i] = s[i]

\* What a reader has read is the beginning of the history, or was all of it.
ReadingAt(place) ==
  /\ ~place.failed
  /\ place.at \in {"current", "reading"} /\ place.current # NoFact =>
       place.current \in ToSet(history[place.key])
  /\ place.at \in {"idle", "current"} => place.read = <<>>
  /\ place.at = "reading" => Extends(place.read, history[place.key])
  /\ place.at = "read" /\ place.current # NoFact => place.current \in ToSet(place.read)

Reading == \A r \in Readers : ReadingAt(reader[r])

ReadInv == ResolverInv /\ Seen /\ Written /\ Reading

LEMMA ExtendsToSet ==
  ASSUME NEW S, NEW s \in Seq(S), NEW t \in Seq(S), Extends(s, t)
  PROVE  ToSet(s) \subseteq ToSet(t)
  BY DEF Extends, ToSet

LEMMA AppendToSet ==
  ASSUME NEW S, NEW s \in Seq(S), NEW x \in S
  PROVE  ToSet(Append(s, x)) = ToSet(s) \cup {x}
<1> DEFINE t == Append(s, x)
<1>1. Len(t) = Len(s) + 1 /\ \A i \in 1 .. Len(s) : t[i] = s[i]
  OBVIOUS
<1>2. t[Len(s) + 1] = x /\ DOMAIN t = 1 .. Len(s) + 1 /\ DOMAIN s = 1 .. Len(s)
  OBVIOUS
<1> HIDE DEF t
<1>3. ToSet(t) \subseteq ToSet(s) \cup {x}
  BY <1>1, <1>2 DEF ToSet
<1>4. ToSet(s) \cup {x} \subseteq ToSet(t)
  BY <1>1, <1>2 DEF ToSet
<1> QED
  BY <1>3, <1>4 DEF t

LEMMA ExtendsTrans ==
  ASSUME NEW S, NEW s \in Seq(S), NEW t \in Seq(S), NEW u \in Seq(S),
         Extends(s, t), Extends(t, u)
  PROVE  Extends(s, u)
  BY DEF Extends

\* Recorders only add: versions to the map, entries to the end of a history.
LEMMA RecordersAdd ==
  ASSUME ResolverInv, NEW w \in Recorders, RecordFact(w) \/ InterruptRecord(w)
  PROVE  /\ DOMAIN versions \subseteq DOMAIN versions'
         /\ \A k \in TruthKeys : Extends(history[k], history'[k])
         /\ reader' = reader
<1>1. history \in [TruthKeys -> Seq(Facts)]
  BY DEF ResolverInv, ResolverTypeOK
<1>2. CASE AppendHistory(w)
  <2> DEFINE f == recorder[w].fact
  <2>1. f \in Facts /\ f.key \in TruthKeys
    BY <1>2, KeysOfFacts DEF AppendHistory, ResolverInv, Locked
  <2>2. history' = [history EXCEPT ![f.key] = Append(@, f)]
    BY <1>2 DEF AppendHistory
  <2>3. \A k \in TruthKeys : Extends(history[k], history'[k])
    BY <1>1, <2>1, <2>2 DEF Extends
  <2> QED
    BY <1>2, <2>3 DEF AppendHistory
<1>3. CASE UNCHANGED <<history, reader>> /\ DOMAIN versions \subseteq DOMAIN versions'
  BY <1>1, <1>3 DEF Extends
<1> QED
  BY <1>2, <1>3 DEF RecordFact, InterruptRecord, Begin, ReturnExisting, LookUpCurrent,
                    SaveVersion, Saved, ResolveCurrent

LEMMA ReadInvInit == ResolverInit => ReadInv
<1> SUFFICES ASSUME ResolverInit PROVE Seen /\ Written /\ Reading
  BY ResolverInvInit DEF ReadInv
<1>1. Seen /\ Written
  BY DEF Seen, Written, ResolverInit, Idle, ToSet
<1>2. Reading
  BY DEF Reading, ReadingAt, ResolverInit, Unread
<1> QED
  BY <1>1, <1>2

LEMMA ReadInvRecorders ==
  ASSUME ReadInv, ResolverInv', NEW w \in Recorders, RecordFact(w) \/ InterruptRecord(w)
  PROVE  ReadInv'
<1> DEFINE f == recorder[w].fact
<1> USE DEF ReadInv
<1>0. /\ history \in [TruthKeys -> Seq(Facts)] /\ history' \in [TruthKeys -> Seq(Facts)]
      /\ recorder \in [Recorders -> RecorderType]
      /\ current \in [TruthKeys -> Facts \cup {NoFact}]
      /\ reader \in [Readers -> ReaderType]
  BY DEF ResolverInv, ResolverTypeOK, RecorderType, ReaderType
<1>1. /\ DOMAIN versions \subseteq DOMAIN versions'
      /\ \A k \in TruthKeys : Extends(history[k], history'[k])
      /\ reader' = reader
  BY RecordersAdd
<1>2. \A k \in TruthKeys : ToSet(history[k]) \subseteq ToSet(history'[k])
  BY <1>0, <1>1, ExtendsToSet
<1>3. Reading'
  <2>1. SUFFICES ASSUME NEW r \in Readers
                 PROVE  /\ reader[r].at \in {"current", "reading"} /\ reader[r].current # NoFact =>
                             reader[r].current \in ToSet(history'[reader[r].key])
                        /\ reader[r].at = "reading" => Extends(reader[r].read, history'[reader[r].key])
    BY <1>1 DEF Reading, ReadingAt
  <2>2. reader[r].key \in TruthKeys /\ reader[r].read \in Seq(Facts)
    BY <1>0 DEF ReaderType
  <2>3. reader[r].at = "reading" => Extends(reader[r].read, history'[reader[r].key])
    BY <1>0, <1>1, <2>2, ExtendsTrans DEF Reading, ReadingAt
  <2> QED
    BY <1>2, <2>2, <2>3 DEF Reading, ReadingAt
<1>4. recorder[w].at # "idle" => f \in Facts /\ f.key \in TruthKeys
  BY KeysOfFacts DEF ResolverInv, Locked
<1>5. ASSUME UNCHANGED <<versions, history, current>>,
             recorder'[w].at \notin {"append", "resolve"},
             \A v \in Recorders \ {w} : recorder'[v] = recorder[v]
      PROVE  Seen' /\ Written'
  BY <1>5 DEF Seen, Written
<1>6. CASE Begin(w) \/ ReturnExisting(w) \/ LookUpCurrent(w) \/ InterruptRecord(w)
  BY <1>0, <1>3, <1>5, <1>6 DEF Begin, ReturnExisting, LookUpCurrent, InterruptRecord, Idle,
                              RecorderType
<1>7. CASE SaveVersion(w)
  <2>1. Seen'
    BY <1>1, <1>7 DEF Seen, SaveVersion
  <2>2. Written'
    BY <1>0, <1>7 DEF Written, SaveVersion, Saved, RecorderType
  <2> QED
    BY <1>3, <2>1, <2>2
<1>8. CASE AppendHistory(w)
  <2>1. history' = [history EXCEPT ![f.key] = Append(@, f)] /\ f \in Facts /\ f.key \in TruthKeys
    BY <1>4, <1>8 DEF AppendHistory
  <2>2. ToSet(history'[f.key]) = ToSet(history[f.key]) \cup {f}
    BY <1>0, <2>1, AppendToSet
  <2>3. f \in DOMAIN versions
    BY <1>8 DEF Written, AppendHistory
  <2>4. Seen'
    BY <1>0, <1>2, <1>8, <2>1, <2>2, <2>3 DEF Seen, AppendHistory
  <2>5. Written'
    <3>1. SUFFICES ASSUME NEW v \in Recorders
                   PROVE  /\ recorder'[v].at = "append" => recorder'[v].fact \in DOMAIN versions
                          /\ recorder'[v].at = "resolve" =>
                               recorder'[v].fact \in ToSet(history'[recorder'[v].fact.key])
      BY <1>8 DEF Written, AppendHistory
    <3>2. CASE v = w
      BY <1>0, <1>8, <2>2, <3>2 DEF AppendHistory, RecorderType
    <3>3. CASE v # w
      <4>1. recorder'[v] = recorder[v]
        BY <1>0, <1>8, <3>3 DEF AppendHistory
      <4>2. recorder[v].at = "resolve" => recorder[v].fact.key \in TruthKeys
        BY KeysOfFacts DEF ResolverInv, Locked
      <4> QED
        BY <1>2, <4>1, <4>2 DEF Written
    <3> QED
      BY <3>2, <3>3
  <2> QED
    BY <1>3, <2>4, <2>5
<1>9. CASE ResolveCurrent(w)
  <2>1. current' = [current EXCEPT ![f.key] = f] /\ f.key \in TruthKeys
    BY <1>4, <1>9 DEF ResolveCurrent
  <2>2. f \in ToSet(history[f.key])
    BY <1>9 DEF Written, ResolveCurrent
  <2>3. Seen'
    BY <1>0, <1>9, <2>1, <2>2 DEF Seen, ResolveCurrent
  <2>4. \A v \in Recorders : recorder'[v] = recorder[v] \/ recorder'[v].at = "idle"
    BY <1>0, <1>9 DEF ResolveCurrent, Idle
  <2>5. Written'
    BY <1>9, <2>4 DEF Written, ResolveCurrent
  <2> QED
    BY <1>3, <2>3, <2>5
<1> QED
  BY <1>6, <1>7, <1>8, <1>9 DEF RecordFact

LEMMA ReadInvReaders ==
  ASSUME ReadInv, ResolverInv', NEW r \in Readers, ReadTruth(r)
  PROVE  ReadInv'
<1> DEFINE place == reader[r]
           h == history[place.key]
<1> USE DEF ReadInv
<1>0. /\ history \in [TruthKeys -> Seq(Facts)] /\ reader \in [Readers -> ReaderType]
      /\ place \in ReaderType /\ place.key \in TruthKeys /\ h \in Seq(Facts)
  BY DEF ResolverInv, ResolverTypeOK, ReaderType
<1>1. UNCHANGED <<resolver_lock, versions, history, current, recorder, torn>>
  BY ReaderStep DEF ResolverInv
<1>2. Seen' /\ Written'
  BY <1>1 DEF Seen, Written
<1>3. SUFFICES \E new : reader' = [reader EXCEPT ![r] = new] /\ ReadingAt(new)
  BY <1>0, <1>1, <1>2 DEF Reading, ReadingAt
<1>4. ReadingAt(place)
  BY DEF Reading
<1>5. CASE GetCurrent(r)
  <2> DEFINE new == [place EXCEPT !.at = "current", !.current = current[place.key]]
  <2>1. ReadingAt(new)
    BY <1>0, <1>4, <1>5 DEF ReadingAt, ReaderType, GetCurrent, Seen
  <2> QED
    BY <1>5, <2>1 DEF GetCurrent
<1>6. CASE GetHistory(r)
  <2> DEFINE new == [place EXCEPT !.at = IF h = <<>> THEN "read" ELSE "reading"]
  <2>1. ReadingAt(new)
    <3>1. place.at = "current" /\ place.read = <<>> /\ Extends(<<>>, h)
      BY <1>0, <1>4, <1>6 DEF ReadingAt, GetHistory, Extends
    <3>2. h = <<>> => ToSet(h) = {}
      BY DEF ToSet
    <3> QED
      BY <1>0, <1>4, <3>1, <3>2 DEF ReadingAt, ReaderType
  <2> QED
    BY <1>6, <2>1 DEF GetHistory
<1>7. CASE ReadVersion(r)
  <2> DEFINE i == Len(place.read) + 1
             new == [place EXCEPT !.read = Append(@, h[i])]
  <2>1. i \in DOMAIN h /\ place.at = "reading" /\ Extends(place.read, h)
    BY <1>0, <1>4, <1>7 DEF ReadVersion, ReaderType, ReadingAt
  <2>2. h[i] \in DOMAIN versions
    BY <1>0, <2>1 DEF Seen, ToSet
  <2>3. Extends(Append(place.read, h[i]), h)
    BY <1>0, <2>1 DEF Extends, ReaderType
  <2>4. ReadingAt(new)
    BY <1>0, <1>4, <2>1, <2>3 DEF ReadingAt, ReaderType
  <2> QED
    BY <1>7, <2>2, <2>4 DEF ReadVersion
<1>8. CASE EndHistory(r)
  <2> DEFINE new == [place EXCEPT !.at = "read"]
  <2>1. place.at = "reading" /\ Len(place.read) = Len(h) /\ Extends(place.read, h)
    BY <1>4, <1>8 DEF EndHistory, ReadingAt
  <2>2. ToSet(h) \subseteq ToSet(place.read)
    BY <1>0, <2>1 DEF Extends, ToSet, ReaderType
  <2>3. ReadingAt(new)
    BY <1>0, <1>4, <2>1, <2>2 DEF ReadingAt, ReaderType
  <2> QED
    BY <1>8, <2>3 DEF EndHistory
<1>9. CASE ReadAgain(r)
  <2>1. \A k \in TruthKeys : ReadingAt(Unread(k))
    BY DEF ReadingAt, Unread
  <2> QED
    BY <1>9, <2>1 DEF ReadAgain
<1> QED
  BY <1>5, <1>6, <1>7, <1>8, <1>9 DEF ReadTruth

LEMMA ReadInvStep == ReadInv /\ [ResolverNext]_resolverVars => ReadInv'
<1> SUFFICES ASSUME ReadInv, [ResolverNext]_resolverVars PROVE ReadInv'
  OBVIOUS
<1>1. ResolverInv'
  BY ResolverInvStep DEF ReadInv
<1>2. CASE UNCHANGED resolverVars
  BY <1>1, <1>2 DEF resolverVars, ReadInv, Seen, Written, Reading, ReadingAt
<1>3. CASE ResolverNext
  BY <1>1, <1>3, ReadInvRecorders, ReadInvReaders DEF ResolverNext
<1> QED
  BY <1>2, <1>3

\* Readers find the current truth in the history they read afterwards, and never
\* an id without its version, whatever recorders do meanwhile.
THEOREM ReadsAreCoherent == ResolverSpec => []ReadsCoherent
<1>1. ReadInv => ReadsCoherent
  BY DEF ReadInv, Reading, ReadingAt, ReadsCoherent
<1> QED
  BY ReadInvInit, ReadInvStep, <1>1, PTL DEF ResolverSpec

------------------------------------------------------------------------------
(* The chain. *)

End(h) == IF h = <<>> THEN NoFact ELSE Last(h)

Linked ==
  \A k \in TruthKeys : \A i \in DOMAIN history[k] :
    versions[history[k][i]] = (IF i = 1 THEN NoFact ELSE history[k][i - 1])

Keyed == \A k \in TruthKeys : \A f \in ToSet(history[k]) : f.key = k

\* All versions are in their history, or about to be.
Complete ==
  \A f \in DOMAIN versions :
    \/ f \in ToSet(history[f.key])
    \/ \E w \in Recorders : recorder[w].at = "append" /\ recorder[w].fact = f

\* The current truth ends its history, unless the next one is about to replace it.
CurrentLast ==
  \A k \in TruthKeys :
    \/ current[k] = End(history[k])
    \/ \E w \in Recorders : recorder[w].at = "resolve" /\ recorder[w].fact.key = k

\* What a recorder looked up still stands, since it holds the lock.
Standing ==
  \A w \in Recorders :
    LET place == recorder[w] IN
    /\ place.at = "save" => place.fact \notin DOMAIN versions
    /\ place.at \in {"save", "append"} => place.previous = End(history[place.fact.key])
    /\ place.at = "append" => versions[place.fact] = place.previous
    /\ place.at = "resolve" => End(history[place.fact.key]) = place.fact

Chained == Linked /\ Complete /\ CurrentLast /\ Standing

ChainInv == ReadInv /\ Keyed /\ (~torn => Chained)

LEMMA ChainInvInit == ResolverInit => ChainInv
<1> SUFFICES ASSUME ResolverInit PROVE ChainInv
  OBVIOUS
<1>1. Keyed
  BY DEF Keyed, ResolverInit, ToSet
<1>2. Linked /\ Complete /\ CurrentLast
  BY DEF Linked, Complete, CurrentLast, End, ResolverInit
<1>3. Standing
  BY DEF Standing, ResolverInit, Idle
<1> QED
  BY <1>1, <1>2, <1>3, ReadInvInit DEF ChainInv, Chained

\* While a recorder is at work the others are idle.
LEMMA OneAtWork ==
  ASSUME ResolverInv, NEW w \in Recorders, recorder[w].at # "idle",
         NEW v \in Recorders, v # w
  PROVE  recorder[v].at = "idle"
  BY DEF ResolverInv, Locked

LEMMA ChainInvRecorders ==
  ASSUME ChainInv, ReadInv', NEW w \in Recorders, RecordFact(w) \/ InterruptRecord(w)
  PROVE  ChainInv'
<1> DEFINE f == recorder[w].fact
<1> USE DEF ChainInv
<1>0. /\ history \in [TruthKeys -> Seq(Facts)] /\ history' \in [TruthKeys -> Seq(Facts)]
      /\ recorder \in [Recorders -> RecorderType]
      /\ current \in [TruthKeys -> Facts \cup {NoFact}]
      /\ DOMAIN versions \subseteq Facts
      /\ ResolverInv
  BY DEF ReadInv, ResolverInv, ResolverTypeOK, RecorderType
<1>1. recorder[w].at # "idle" => f \in Facts /\ f.key \in TruthKeys
  BY <1>0, KeysOfFacts DEF ResolverInv, Locked
<1>2. \A v \in Recorders \ {w} : recorder[w].at # "idle" => recorder[v].at = "idle"
  BY <1>0, OneAtWork
<1>3. CASE Begin(w)
  <2>1. Keyed'
    BY <1>3 DEF Begin, Keyed
  <2>2. \A v \in Recorders : recorder[v].at = "idle"
    BY <1>0, <1>3, ResolverAssumption DEF Begin, ResolverInv, Locked
  <2>3. \A v \in Recorders : recorder'[v].at \in {"idle", "look"}
    BY <1>0, <1>3, <2>2 DEF Begin
  <2>4. ASSUME ~torn' PROVE Chained'
    <3>1. ~torn /\ UNCHANGED <<versions, history, current>>
      BY <1>3, <2>4 DEF Begin
    <3>2. Linked' /\ Complete' /\ CurrentLast'
      BY <2>2, <3>1 DEF Chained, Linked, Complete, CurrentLast, End
    <3>3. Standing'
      BY <2>3 DEF Standing
    <3> QED
      BY <3>2, <3>3 DEF Chained
  <2> QED
    BY <2>1, <2>4
<1>4. CASE ReturnExisting(w) \/ (InterruptRecord(w) /\ recorder[w].at \in {"look", "save"})
  <2>1. /\ UNCHANGED <<versions, history, current>> /\ torn' = torn
        /\ \A v \in Recorders : recorder'[v].at = "idle"
        /\ \A v \in Recorders : recorder[v].at \in {"idle", "look", "save"}
    <3>1. recorder' = [recorder EXCEPT ![w] = Idle] /\ recorder[w].at \in {"look", "save"}
      BY <1>4 DEF ReturnExisting, InterruptRecord
    <3>2. \A v \in Recorders \ {w} : recorder[v].at = "idle"
      BY <1>2, <3>1
    <3>3. torn' = torn /\ UNCHANGED <<versions, history, current>>
      BY <1>0, <1>4 DEF ReturnExisting, InterruptRecord, ResolverInv, ResolverTypeOK
    <3> QED
      BY <1>0, <3>1, <3>2, <3>3 DEF Idle
  <2>2. Keyed'
    BY <2>1 DEF Keyed
  <2>3. ASSUME ~torn' PROVE Chained'
    BY <2>1, <2>3 DEF Chained, Linked, Complete, CurrentLast, Standing, End
  <2> QED
    BY <2>2, <2>3
<1>5. CASE InterruptRecord(w) /\ recorder[w].at \notin {"look", "save"}
  <2>1. torn' /\ history' = history
    BY <1>0, <1>5 DEF InterruptRecord, RecorderType
  <2> QED
    BY <2>1 DEF Keyed
<1>6. CASE LookUpCurrent(w)
  <2>1. /\ UNCHANGED <<versions, history, current, torn>>
        /\ recorder'[w].at = "save" /\ recorder'[w].fact = f
        /\ recorder'[w].previous = current[f.key] /\ f \notin DOMAIN versions
        /\ \A v \in Recorders \ {w} : recorder'[v] = recorder[v] /\ recorder[v].at = "idle"
    BY <1>0, <1>2, <1>6 DEF LookUpCurrent, RecorderType
  <2>2. Keyed'
    BY <2>1 DEF Keyed
  <2>3. ASSUME ~torn' PROVE Chained'
    <3>1. Linked' /\ Complete' /\ CurrentLast'
      BY <1>6, <2>1, <2>3 DEF Chained, Linked, Complete, CurrentLast, End, LookUpCurrent
    <3>2. current[f.key] = End(history[f.key])
      BY <1>1, <1>6, <2>1, <2>3 DEF Chained, CurrentLast, LookUpCurrent
    <3>3. Standing'
      BY <2>1, <3>2 DEF Standing, End
    <3> QED
      BY <3>1, <3>3 DEF Chained
  <2> QED
    BY <2>2, <2>3
<1>7. CASE SaveVersion(w)
  <2>1. /\ UNCHANGED <<history, current, torn>> /\ recorder[w].at = "save"
        /\ recorder'[w] = [recorder[w] EXCEPT !.at = "append"]
        /\ \A v \in Recorders \ {w} : recorder'[v] = recorder[v] /\ recorder[v].at = "idle"
    BY <1>0, <1>2, <1>7 DEF SaveVersion
  <2>2. Keyed'
    BY <2>1 DEF Keyed
  <2>3. ASSUME ~torn' PROVE Chained'
    <3>1. f \notin DOMAIN versions /\ recorder[w].previous = End(history[f.key])
      BY <2>1, <2>3 DEF Chained, Standing
    <3>2. /\ DOMAIN versions' = DOMAIN versions \cup {f}
          /\ versions'[f] = recorder[w].previous
          /\ \A g \in DOMAIN versions : versions'[g] = versions[g]
      BY <1>7, <3>1 DEF SaveVersion, Saved
    <3>3. \A k \in TruthKeys : \A i \in DOMAIN history[k] : history[k][i] \in DOMAIN versions
      BY DEF ReadInv, Seen, ToSet
    <3>4. Linked'
      BY <2>1, <2>3, <3>2, <3>3 DEF Chained, Linked
    <3>5. recorder'[w].at = "append" /\ recorder'[w].fact = f
          /\ recorder'[w].previous = recorder[w].previous
      BY <1>0, <2>1 DEF RecorderType
    <3>6. Complete'
      BY <2>1, <2>3, <3>2, <3>5 DEF Chained, Complete
    <3>7. CurrentLast'
      BY <2>1, <2>3 DEF Chained, CurrentLast, End
    <3>8. Standing'
      <4>1. \A v \in Recorders \ {w} : recorder'[v].at = "idle"
        BY <2>1
      <4>2. End(history'[f.key]) = End(history[f.key])
        BY <2>1 DEF End
      <4> QED
        BY <3>1, <3>2, <3>5, <4>1, <4>2 DEF Standing
    <3> QED
      BY <3>4, <3>6, <3>7, <3>8 DEF Chained
  <2> QED
    BY <2>2, <2>3
<1>8. CASE AppendHistory(w)
  <2>1. /\ UNCHANGED <<versions, current, torn>> /\ recorder[w].at = "append"
        /\ recorder'[w].at = "resolve" /\ recorder'[w].fact = f
        /\ \A v \in Recorders \ {w} : recorder'[v] = recorder[v] /\ recorder[v].at = "idle"
    BY <1>0, <1>2, <1>8 DEF AppendHistory, RecorderType
  <2>2. f \in Facts /\ f.key \in TruthKeys /\ history' = [history EXCEPT ![f.key] = Append(@, f)]
    BY <1>1, <1>8 DEF AppendHistory
  <2>3. /\ history'[f.key] = Append(history[f.key], f)
        /\ \A k \in TruthKeys \ {f.key} : history'[k] = history[k]
        /\ history[f.key] \in Seq(Facts)
    BY <1>0, <2>2
  <2>4. ToSet(history'[f.key]) = ToSet(history[f.key]) \cup {f}
    BY <2>2, <2>3, AppendToSet
  <2>5. Keyed'
    BY <2>3, <2>4 DEF Keyed
  <2>6. End(history'[f.key]) = f /\ \A k \in TruthKeys \ {f.key} : End(history'[k]) = End(history[k])
    <3>1. history'[f.key] # <<>> /\ Last(history'[f.key]) = f
      BY <2>2, <2>3 DEF Last
    <3> QED
      BY <2>3, <3>1 DEF End
  <2>7. ASSUME ~torn' PROVE Chained'
    <3>1. versions[f] = End(history[f.key])
      BY <2>1, <2>7 DEF Chained, Standing
    <3>2. Linked'
      <4>1. SUFFICES ASSUME NEW i \in DOMAIN history'[f.key]
                     PROVE  versions[history'[f.key][i]] =
                              (IF i = 1 THEN NoFact ELSE history'[f.key][i - 1])
        <5>1. \A k \in TruthKeys \ {f.key} : \A j \in DOMAIN history'[k] :
                versions[history'[k][j]] = (IF j = 1 THEN NoFact ELSE history'[k][j - 1])
          BY <2>1, <2>3, <2>7 DEF Chained, Linked
        <5> QED
          BY <2>1, <5>1 DEF Linked
      <4>2. CASE i \in DOMAIN history[f.key]
        BY <2>1, <2>2, <2>3, <2>7, <4>2 DEF Chained, Linked
      <4>3. CASE i = Len(history[f.key]) + 1
        BY <2>3, <3>1, <4>3 DEF End, Last
      <4> QED
        BY <2>2, <2>3, <4>2, <4>3
    <3>3. Complete'
      <4>1. SUFFICES ASSUME NEW g \in DOMAIN versions PROVE g \in ToSet(history'[g.key])
        BY <2>1 DEF Complete
      <4>2. g.key \in TruthKeys
        BY <1>0, KeysOfFacts
      <4>3. g \in ToSet(history[g.key]) \/ g = f
        BY <2>1, <2>7 DEF Chained, Complete
      <4> QED
        BY <2>3, <2>4, <4>2, <4>3
    <3>4. CurrentLast'
      BY <2>1, <2>6, <2>7 DEF Chained, CurrentLast
    <3>5. Standing'
      BY <2>1, <2>6 DEF Standing
    <3> QED
      BY <3>2, <3>3, <3>4, <3>5 DEF Chained
  <2> QED
    BY <2>5, <2>7
<1>9. CASE ResolveCurrent(w)
  <2>1. /\ UNCHANGED <<versions, history, torn>> /\ recorder[w].at = "resolve"
        /\ \A v \in Recorders : recorder'[v].at = "idle"
        /\ \A v \in Recorders \ {w} : recorder[v].at = "idle"
    BY <1>0, <1>2, <1>9 DEF ResolveCurrent, Idle
  <2>2. f.key \in TruthKeys /\ current' = [current EXCEPT ![f.key] = f]
    BY <1>1, <1>9 DEF ResolveCurrent
  <2>3. Keyed'
    BY <2>1 DEF Keyed
  <2>4. ASSUME ~torn' PROVE Chained'
    <3>1. End(history[f.key]) = f
      BY <2>1, <2>4 DEF Chained, Standing
    <3>2. Linked' /\ Complete'
      BY <2>1, <2>4 DEF Chained, Linked, Complete
    <3>3. CurrentLast'
      BY <1>0, <2>1, <2>2, <2>4, <3>1 DEF Chained, CurrentLast, End
    <3>4. Standing'
      BY <2>1 DEF Standing
    <3> QED
      BY <3>2, <3>3, <3>4 DEF Chained
  <2> QED
    BY <2>3, <2>4
<1> QED
  BY <1>3, <1>4, <1>5, <1>6, <1>7, <1>8, <1>9 DEF RecordFact

LEMMA ChainInvStep == ChainInv /\ [ResolverNext]_resolverVars => ChainInv'
<1> SUFFICES ASSUME ChainInv, [ResolverNext]_resolverVars PROVE ChainInv'
  OBVIOUS
<1>1. ReadInv'
  BY ReadInvStep DEF ChainInv
<1>2. CASE UNCHANGED <<versions, history, current, recorder, torn>>
  BY <1>1, <1>2 DEF ChainInv, Chained, Keyed, Linked, Complete, CurrentLast, Standing, End
<1>3. ASSUME NEW r \in Readers, ReadTruth(r) PROVE ChainInv'
  BY <1>2, <1>3, ReaderStep DEF ChainInv, ReadInv, ResolverInv
<1> QED
  BY <1>1, <1>2, <1>3, ChainInvRecorders DEF ResolverNext, resolverVars

\* While nobody records, a key's versions form one chain up to the current truth,
\* unless a recorder was interrupted between two of its writes.
THEOREM ChainsAreUnbroken == ResolverSpec => []ChainUnbroken
<1>1. ASSUME ChainInv PROVE ChainUnbroken
  <2> SUFFICES ASSUME \A w \in Recorders : recorder[w].at = "idle", ~torn, NEW k \in TruthKeys
               PROVE  /\ ToSet(history[k]) = {f \in DOMAIN versions : f.key = k}
                      /\ \A i \in DOMAIN history[k] :
                           versions[history[k][i]] = (IF i = 1 THEN NoFact ELSE history[k][i - 1])
                      /\ current[k] = (IF history[k] = <<>> THEN NoFact ELSE Last(history[k]))
    BY DEF ChainUnbroken
  <2>1. ToSet(history[k]) = {f \in DOMAIN versions : f.key = k}
    BY <1>1 DEF ChainInv, Chained, ReadInv, Seen, Keyed, Complete
  <2> QED
    BY <1>1, <2>1 DEF ChainInv, Chained, Linked, CurrentLast, End
<1> QED
  BY ChainInvInit, ChainInvStep, <1>1, PTL DEF ResolverSpec

------------------------------------------------------------------------------
(* The listing history. *)

RowInserted(new, old, row, k) ==
  /\ new \in Seq(ListingRow) /\ Len(new) = Len(old) + 1 /\ k \in 0 .. Len(old)
  /\ \A i \in 1 .. k : new[i] = old[i]
  /\ new[k + 1] = row
  /\ \A i \in k + 1 .. Len(old) : new[i + 1] = old[i]

\* The rows of one security as HistoryOrdered has them.
RowsInOrder(h) ==
  \A i, k \in DOMAIN h : i < k =>
    /\ h[i].effective_from <= h[k].effective_from
    /\ h[i].listing # h[k].listing \/ h[i].effective_from # h[k].effective_from

\* What a sort of sorted rows and one more does: it puts that row in its place.
LEMMA SortedInInserts ==
  ASSUME NEW old \in Seq(ListingRow), NEW row \in ListingRow
  PROVE  LET k == Cardinality({i \in DOMAIN old : old[i].effective_from <= row.effective_from})
         IN  RowInserted(SortedIn(old, row), old, row, k)
<1> DEFINE E == {i \in DOMAIN old : old[i].effective_from <= row.effective_from}
           k == Cardinality(E)
           n == Len(old)
<1>1. n \in Nat /\ DOMAIN old = 1 .. n
  OBVIOUS
<1>2. k \in 0 .. n
  <2>1. IsFiniteSet(1 .. n) /\ Cardinality(1 .. n) = n
    BY <1>1, FS_Interval
  <2>2. E \in SUBSET (1 .. n)
    BY <1>1
  <2> QED
    BY <2>1, <2>2, FS_Subset, FS_CardinalityType
<1> DEFINE head == SubSeq(old, 1, k)
           tail == SubSeq(old, k + 1, n)
<1>3. SortedIn(old, row) = head \o <<row>> \o tail
  BY DEF SortedIn
<1> HIDE DEF k
<1>4. head \in Seq(ListingRow) /\ Len(head) = k /\ \A i \in 1 .. k : head[i] = old[i]
  BY <1>1, <1>2
<1>5. tail \in Seq(ListingRow) /\ Len(tail) = n - k /\ \A i \in 1 .. n - k : tail[i] = old[k + i]
  <2>1. \A i \in k + 1 .. n : old[i] \in ListingRow
    BY <1>1, <1>2
  <2>2. /\ tail \in Seq(ListingRow)
        /\ Len(tail) = IF k + 1 <= n THEN n - (k + 1) + 1 ELSE 0
        /\ \A i \in 1 .. n - (k + 1) + 1 : tail[i] = old[k + 1 + i - 1]
    <3>1. k + 1 \in Int /\ n \in Int
      BY <1>1, <1>2
    <3> HIDE DEF n
    <3> QED
      BY <2>1, <3>1, SubSeqProperties
  <2>3. n - (k + 1) + 1 = n - k /\ \A i \in 1 .. n - k : k + 1 + i - 1 = k + i
    BY <1>1, <1>2
  <2> HIDE DEF tail
  <2>4. Len(tail) = n - k
    BY <1>1, <1>2, <2>2
  <2> QED
    BY <2>2, <2>3, <2>4
<1> HIDE DEF head, tail
<1> DEFINE new == head \o <<row>> \o tail
<1>6. /\ new \in Seq(ListingRow) /\ Len(new) = n + 1
      /\ \A i \in 1 .. k : new[i] = head[i]
      /\ new[k + 1] = row
      /\ \A i \in 1 .. n - k : new[k + 1 + i] = tail[i]
  BY <1>1, <1>2, <1>4, <1>5
<1> HIDE DEF new
<1>7. \A i \in k + 1 .. n : new[i + 1] = old[i]
  <2> SUFFICES ASSUME NEW i \in k + 1 .. n PROVE new[i + 1] = old[i]
    OBVIOUS
  <2>1. PICK j \in 1 .. n - k : i = k + j
    <3>1. i - k \in 1 .. n - k /\ i = k + (i - k)
      BY <1>1, <1>2
    <3> QED
      BY <3>1
  <2>2. new[k + 1 + j] = old[k + j]
    BY <1>5, <1>6
  <2>3. k + 1 + j = i + 1
    BY <1>2, <2>1
  <2> QED
    BY <2>1, <2>2, <2>3
<1>8. RowInserted(new, old, row, k)
  BY <1>2, <1>4, <1>6, <1>7 DEF RowInserted
<1> QED
  BY <1>3, <1>8 DEF k, new, head, tail

\* That place is behind all rows that do not begin later.
LEMMA PlaceInOrder ==
  ASSUME NEW old \in Seq(ListingRow), NEW row \in ListingRow, RowsInOrder(old)
  PROVE  LET k == Cardinality({i \in DOMAIN old : old[i].effective_from <= row.effective_from})
         IN  \A i \in DOMAIN old : i <= k <=> old[i].effective_from <= row.effective_from
<1> DEFINE E == {i \in DOMAIN old : old[i].effective_from <= row.effective_from}
           n == Len(old)
<1>1. n \in Nat /\ DOMAIN old = 1 .. n /\ row.effective_from \in Nat
      /\ \A i \in 1 .. n : old[i].effective_from \in Nat
  <2>1. n \in Nat /\ DOMAIN old = 1 .. n /\ \A i \in 1 .. n : old[i] \in ListingRow
    OBVIOUS
  <2>2. \A r \in ListingRow : r.effective_from \in Nat
    BY TimesAssumption DEF ListingRow
  <2> QED
    BY <2>1, <2>2
<1>2. \E k \in Nat : E = 1 .. k
  <2>1. CASE E = DOMAIN old
    BY <1>1, <2>1
  <2>2. CASE E # DOMAIN old
    <3> DEFINE Later == DOMAIN old \ E
    <3>1. Later \in SUBSET Nat /\ Later # {}
      BY <1>1, <2>2
    <3>2. PICK m \in Later : \A i \in Later : m <= i
      <4> HIDE DEF Later
      <4> QED
        BY <3>1, LeastNumber
    <3>3. E = 1 .. m - 1
      <4>1. ASSUME NEW i \in 1 .. n, i < m PROVE i \in E
        BY <1>1, <3>2, <4>1
      <4>2. ASSUME NEW i \in 1 .. n, i > m PROVE i \notin E
        BY <1>1, <3>2, <4>2 DEF RowsInOrder
      <4> QED
        BY <1>1, <3>2, <4>1, <4>2
    <3> QED
      BY <1>1, <3>2, <3>3
  <2> QED
    BY <2>1, <2>2
<1>3. PICK k \in Nat : E = 1 .. k
  BY <1>2
<1>4. Cardinality(E) = k
  <2>1. Cardinality(1 .. k) = IF 1 > k THEN 0 ELSE k - 1 + 1
    BY FS_Interval
  <2>2. Cardinality(1 .. k) = k
    BY <2>1
  <2> QED
    BY <1>3, <2>2
<1>5. \A i \in DOMAIN old : i <= k <=> i \in E
  BY <1>1, <1>3
<1> QED
  BY <1>4, <1>5

LEMMA AddedInOrder ==
  ASSUME NEW old \in Seq(ListingRow), NEW row \in ListingRow, RowsInOrder(old)
  PROVE  Added(old, row) \in Seq(ListingRow) /\ RowsInOrder(Added(old, row))
<1>1. CASE Duplicate(old, row)
  BY <1>1 DEF Added
<1>2. CASE ~Duplicate(old, row)
  <2> DEFINE E == {i \in DOMAIN old : old[i].effective_from <= row.effective_from}
             k == Cardinality(E)
             new == SortedIn(old, row)
  <2>1. RowInserted(new, old, row, k)
    BY SortedInInserts
  <2>2. \A i \in DOMAIN old : i <= k <=> old[i].effective_from <= row.effective_from
    BY PlaceInOrder
  <2> HIDE DEF k, new
  <2>3. /\ Len(old) \in Nat /\ DOMAIN old = 1 .. Len(old) /\ DOMAIN new = 1 .. Len(old) + 1
        /\ k \in 0 .. Len(old) /\ new \in Seq(ListingRow)
    BY <2>1 DEF RowInserted
  <2>4. \A i \in 1 .. k : i \in DOMAIN old /\ new[i] = old[i]
    BY <2>1, <2>3 DEF RowInserted
  <2>5. new[k + 1] = row
    BY <2>1 DEF RowInserted
  <2>6. ASSUME NEW i \in k + 2 .. Len(old) + 1
        PROVE  i - 1 \in DOMAIN old /\ new[i] = old[i - 1] /\ i - 1 > k
    <3>1. i - 1 \in k + 1 .. Len(old) /\ (i - 1) + 1 = i
      BY <2>3
    <3> QED
      BY <2>1, <2>3, <3>1 DEF RowInserted
  <2>7. \A i \in DOMAIN old : /\ old[i].effective_from \in Nat
                              /\ old[i].listing # row.listing \/ old[i].effective_from # row.effective_from
    <3>1. \A i \in DOMAIN old : old[i] \in ListingRow
      OBVIOUS
    <3> QED
      BY <1>2, <3>1, TimesAssumption DEF Duplicate, ListingRow
  <2>8. row.effective_from \in Nat
    BY TimesAssumption DEF ListingRow
  <2>9. ASSUME NEW i \in DOMAIN new, NEW j \in DOMAIN new, i < j
        PROVE  /\ new[i].effective_from <= new[j].effective_from
               /\ \/ new[i].listing # new[j].listing
                  \/ new[i].effective_from # new[j].effective_from
    <3>1. CASE j <= k
      <4>1. i \in 1 .. k /\ j \in 1 .. k
        BY <2>3, <2>9, <3>1
      <4> QED
        BY <2>4, <2>9, <4>1 DEF RowsInOrder
    <3>2. CASE j = k + 1
      <4>1. i \in 1 .. k
        BY <2>3, <2>9, <3>2
      <4> QED
        BY <2>2, <2>4, <2>5, <2>7, <3>2, <4>1
    <3>3. CASE i = k + 1
      <4>1. j \in k + 2 .. Len(old) + 1
        BY <2>3, <2>9, <3>3
      <4>2. j - 1 \in DOMAIN old /\ new[j] = old[j - 1] /\ ~(j - 1 <= k)
        BY <2>3, <2>6, <4>1
      <4> QED
        BY <2>2, <2>5, <2>7, <2>8, <3>3, <4>2
    <3>4. CASE i <= k /\ j > k + 1
      <4>1. i \in 1 .. k /\ j \in k + 2 .. Len(old) + 1
        BY <2>3, <3>4
      <4>2. j - 1 \in DOMAIN old /\ new[j] = old[j - 1] /\ i < j - 1
        BY <2>3, <2>6, <4>1
      <4> QED
        BY <2>4, <4>1, <4>2 DEF RowsInOrder
    <3>5. CASE i > k + 1
      <4>1. i \in k + 2 .. Len(old) + 1 /\ j \in k + 2 .. Len(old) + 1
        BY <2>3, <2>9, <3>5
      <4>2. /\ i - 1 \in DOMAIN old /\ new[i] = old[i - 1]
            /\ j - 1 \in DOMAIN old /\ new[j] = old[j - 1] /\ i - 1 < j - 1
        BY <2>3, <2>6, <2>9, <4>1
      <4> QED
        BY <4>2 DEF RowsInOrder
    <3> QED
      BY <2>3, <2>9, <3>1, <3>2, <3>3, <3>4, <3>5
  <2>10. RowsInOrder(new)
    BY <2>9 DEF RowsInOrder
  <2> QED
    BY <1>2, <2>3, <2>10 DEF Added, new
<1> QED
  BY <1>1, <1>2

\* What closing the open row leaves as it was, and what becomes of its window.
ClosedAt(new, old, at) ==
  /\ new \in Seq(ListingRow) /\ DOMAIN new = DOMAIN old
  /\ \A i \in DOMAIN old :
       /\ new[i].listing = old[i].listing /\ new[i].effective_from = old[i].effective_from
       /\ new[i].recorded_at = old[i].recorded_at
       /\ \/ new[i].effective_to = old[i].effective_to
          \/ old[i].effective_to = Open /\ new[i].effective_to = at

LEMMA OpenClosedCloses ==
  ASSUME NEW old \in Seq(ListingRow), NEW at \in Times
  PROVE  ClosedAt(OpenClosed(old, at), old, at)
<1>1. CASE OpenRows(old) = {}
  BY <1>1 DEF OpenClosed, ClosedAt
<1>2. CASE OpenRows(old) # {}
  <2>1. OpenRows(old) \in SUBSET (1 .. Len(old)) /\ Len(old) \in Nat
    BY DEF OpenRows
  <2>2. LastOpen(old) \in OpenRows(old)
    <3> HIDE <1>2
    <3>1. \E i \in OpenRows(old) : \A k \in OpenRows(old) : k <= i
      BY <1>2, <2>1, LastPosition
    <3> QED
      BY <3>1 DEF LastOpen
  <2>3. PICK last \in DOMAIN old : last = LastOpen(old) /\ old[last].effective_to = Open
    BY <2>2 DEF OpenRows
  <2> DEFINE row == [old[last] EXCEPT !.effective_to = at]
  <2>4. old[last] \in ListingRow
    OBVIOUS
  <2>5. /\ row \in ListingRow /\ row.listing = old[last].listing /\ row.effective_to = at
        /\ row.effective_from = old[last].effective_from
        /\ row.recorded_at = old[last].recorded_at
    BY <2>4 DEF ListingRow
  <2> HIDE DEF row
  <2>6. OpenClosed(old, at) = [old EXCEPT ![last] = row]
    BY <1>2, <2>3 DEF OpenClosed, row
  <2>7. [old EXCEPT ![last] = row] \in Seq(ListingRow)
    BY <2>5
  <2> QED
    BY <2>3, <2>5, <2>6, <2>7 DEF ClosedAt
<1> QED
  BY <1>1, <1>2

LEMMA ClosedInOrder ==
  ASSUME NEW old \in Seq(ListingRow), NEW at, NEW new, ClosedAt(new, old, at), RowsInOrder(old)
  PROVE  RowsInOrder(new)
  BY DEF ClosedAt, RowsInOrder

TransitionRow(listing, at, recorded) ==
  [listing |-> listing, effective_from |-> at, effective_to |-> Open, recorded_at |-> recorded]

LEMMA TransitionRowTyped ==
  ASSUME NEW listing \in Listings, NEW at \in Times, NEW recorded \in Times
  PROVE  TransitionRow(listing, at, recorded) \in ListingRow
  BY DEF TransitionRow, ListingRow

HistoryInv == HistoryTypeOK /\ HistoryOrdered

LEMMA HistoryInvStep == HistoryInv /\ [HistoryNext]_listings => HistoryInv'
<1> SUFFICES ASSUME HistoryInv, [HistoryNext]_listings PROVE HistoryInv'
  OBVIOUS
<1>1. /\ listings \in [Securities -> Seq(ListingRow)]
      /\ \A s \in Securities : listings[s] \in Seq(ListingRow) /\ RowsInOrder(listings[s])
  BY DEF HistoryInv, HistoryTypeOK, HistoryOrdered, RowsInOrder
<1>2. ASSUME NEW s \in Securities, NEW new \in Seq(ListingRow), RowsInOrder(new),
             listings' = [listings EXCEPT ![s] = new]
      PROVE  HistoryInv'
  <2>1. HistoryTypeOK'
    BY <1>1, <1>2 DEF HistoryTypeOK
  <2>2. \A t \in Securities : RowsInOrder(listings'[t])
    BY <1>1, <1>2
  <2> QED
    BY <2>1, <2>2 DEF HistoryInv, HistoryOrdered, RowsInOrder
<1>3. ASSUME NEW s \in Securities, NEW row \in Windows, AddRecord(s, row) PROVE HistoryInv'
  <2>1. row \in ListingRow
    BY DEF Windows
  <2>2. Added(listings[s], row) \in Seq(ListingRow) /\ RowsInOrder(Added(listings[s], row))
    BY <1>1, <2>1, AddedInOrder
  <2>3. listings' = [listings EXCEPT ![s] = Added(listings[s], row)]
    BY <1>3 DEF AddRecord
  <2> QED
    BY <1>2, <2>2, <2>3
<1>4. ASSUME NEW s \in Securities, NEW listing \in Listings, NEW at \in Times,
             NEW recorded \in Times, TransitionListing(s, listing, at, recorded)
      PROVE  HistoryInv'
  <2> DEFINE closed == OpenClosed(listings[s], at)
             row == TransitionRow(listing, at, recorded)
  <2>1. closed \in Seq(ListingRow) /\ RowsInOrder(closed)
    <3>1. ClosedAt(closed, listings[s], at)
      BY <1>1, OpenClosedCloses
    <3> QED
      BY <1>1, <3>1, ClosedInOrder DEF ClosedAt
  <2>2. listings' = [listings EXCEPT ![s] = Added(closed, row)]
    BY <1>4 DEF TransitionListing, TransitionRow
  <2>3. row \in ListingRow
    BY TransitionRowTyped
  <2> HIDE DEF closed, row
  <2>4. Added(closed, row) \in Seq(ListingRow) /\ RowsInOrder(Added(closed, row))
    BY <2>1, <2>3, AddedInOrder
  <2> QED
    BY <1>2, <2>2, <2>4
<1>5. CASE UNCHANGED listings
  BY <1>5 DEF HistoryInv, HistoryTypeOK, HistoryOrdered
<1> QED
  BY <1>3, <1>4, <1>5 DEF HistoryNext, Read

LEMMA HistoryInvHolds == HistorySpec => []HistoryInv
<1>1. HistoryInit => HistoryInv
  BY DEF HistoryInit, HistoryInv, HistoryTypeOK, HistoryOrdered
<1> QED
  BY <1>1, HistoryInvStep, PTL DEF HistorySpec

\* A row that is not known yet, or not in force, changes no answer.
LEMMA InsertedUnseen ==
  ASSUME NEW old \in Seq(ListingRow), NEW row, NEW k, NEW new, RowInserted(new, old, row, k),
         NEW at, NEW known, ~(row.recorded_at <= known /\ ActiveAt(row, at))
  PROVE  ListingAsOf(new, at, known) = ListingAsOf(old, at, known)
<1> DEFINE E == EligibleRows(old, at, known)
           F == EligibleRows(new, at, known)
           n == Len(old)
           Moved(i) == IF i <= k THEN i ELSE i + 1
<1>1. /\ n \in Nat /\ DOMAIN old = 1 .. n /\ DOMAIN new = 1 .. n + 1 /\ k \in 0 .. n
      /\ \A i \in 1 .. n : Moved(i) \in 1 .. n + 1 /\ new[Moved(i)] = old[i]
  BY DEF RowInserted
<1>2. E \in SUBSET (1 .. n) /\ F \in SUBSET (1 .. n + 1)
  BY <1>1 DEF EligibleRows
<1>3. \A i \in 1 .. n : i \in E <=> Moved(i) \in F
  BY <1>1 DEF EligibleRows, ActiveAt
<1>4. \A j \in F : \E i \in 1 .. n : j = Moved(i)
  <2> SUFFICES ASSUME NEW j \in F PROVE \E i \in 1 .. n : j = Moved(i)
    OBVIOUS
  <2>1. j # k + 1
    BY DEF RowInserted, EligibleRows
  <2>2. CASE j <= k
    BY <1>1, <1>2, <2>2
  <2>3. CASE j > k + 1
    <3>1. j - 1 \in 1 .. n /\ ~(j - 1 <= k) /\ (j - 1) + 1 = j
      BY <1>1, <1>2, <2>3
    <3> QED
      BY <3>1
  <2> QED
    BY <1>1, <1>2, <2>1, <2>2, <2>3
<1>5. CASE E = {}
  <2>1. F = {}
    BY <1>3, <1>4, <1>5
  <2> QED
    BY <1>5, <2>1 DEF ListingAsOf
<1>6. CASE E # {}
  <2>1. PICK i \in E : \A m \in E : m <= i
    <3> HIDE DEF E
    <3> QED
      BY <1>1, <1>2, <1>6, LastPosition
  <2>2. Moved(i) \in F /\ \A j \in F : j <= Moved(i)
    <3>1. \A m \in E : Moved(m) <= Moved(i)
      BY <1>1, <1>2, <2>1
    <3> QED
      BY <1>2, <1>3, <1>4, <2>1, <3>1
  <2>3. E \in SUBSET Nat /\ F \in SUBSET Nat
    BY <1>1, <1>2
  <2> HIDE DEF E, F, Moved
  <2>4. /\ (CHOOSE j \in E : \A m \in E : m <= j) = i
        /\ (CHOOSE j \in F : \A m \in F : m <= j) = Moved(i)
    BY <2>1, <2>2, <2>3, TheLast
  <2>5. new[Moved(i)] = old[i]
    BY <1>1, <1>2, <2>1
  <2> QED
    BY <1>6, <2>2, <2>4, <2>5 DEF ListingAsOf, E, F
<1> QED
  BY <1>5, <1>6

LEMMA AddedUnseen ==
  ASSUME NEW old \in Seq(ListingRow), NEW row \in ListingRow, NEW at, NEW known,
         ~(row.recorded_at <= known /\ ActiveAt(row, at))
  PROVE  ListingAsOf(Added(old, row), at, known) = ListingAsOf(old, at, known)
<1>1. PICK k : RowInserted(SortedIn(old, row), old, row, k)
  BY SortedInInserts
<1>2. ListingAsOf(SortedIn(old, row), at, known) = ListingAsOf(old, at, known)
  BY <1>1, InsertedUnseen
<1> QED
  BY <1>2 DEF Added

\* Closing a row at a date changes nothing before it.
LEMMA ClosedUnseen ==
  ASSUME NEW old \in Seq(ListingRow), NEW at \in Times, NEW new, ClosedAt(new, old, at),
         NEW before \in Times, before < at, NEW known
  PROVE  ListingAsOf(new, before, known) = ListingAsOf(old, before, known)
<1>1. \A i \in DOMAIN old : ActiveAt(new[i], before) <=> ActiveAt(old[i], before)
  BY TimesAssumption DEF ClosedAt, ActiveAt
<1>2. EligibleRows(new, before, known) = EligibleRows(old, before, known)
  BY <1>1 DEF EligibleRows, ClosedAt
<1>3. \A i \in EligibleRows(old, before, known) : new[i].listing = old[i].listing
  BY DEF EligibleRows, ClosedAt
<1> DEFINE E == EligibleRows(old, before, known)
<1>4. CASE E = {}
  BY <1>2, <1>4 DEF ListingAsOf
<1>5. CASE E # {}
  <2>1. PICK i \in E : \A m \in E : m <= i
    <3>1. E \in SUBSET (1 .. Len(old)) /\ Len(old) \in Nat
      BY DEF EligibleRows
    <3> HIDE DEF E
    <3> QED
      BY <1>5, <3>1, LastPosition
  <2>2. E \in SUBSET Nat
    BY DEF EligibleRows
  <2>3. (CHOOSE j \in E : \A m \in E : m <= j) = i
    <3> HIDE DEF E
    <3> QED
      BY <2>1, <2>2, TheLast
  <2> QED
    BY <1>2, <1>3, <1>5, <2>1, <2>3 DEF ListingAsOf
<1> QED
  BY <1>4, <1>5

LEMMA AddStands ==
  ASSUME HistoryInv, NEW s \in Securities, NEW row \in Windows, AddRecord(s, row),
         NEW at \in Times, NEW known \in Times, known < row.recorded_at
  PROVE  ListingAsOf(listings'[s], at, known) = ListingAsOf(listings[s], at, known)
<1>1. /\ listings[s] \in Seq(ListingRow) /\ row \in ListingRow /\ row.recorded_at \in Nat
      /\ known \in Nat /\ listings'[s] = Added(listings[s], row)
  BY TimesAssumption DEF HistoryInv, HistoryTypeOK, Windows, ListingRow, AddRecord
<1>2. ~(row.recorded_at <= known)
  BY <1>1
<1> QED
  BY <1>1, <1>2, AddedUnseen

LEMMA PastStands ==
  ASSUME HistoryInv, NEW s \in Securities, NEW listing \in Listings, NEW at \in Times,
         NEW recorded \in Times, TransitionListing(s, listing, at, recorded),
         NEW before \in Times, NEW known \in Times, before < at
  PROVE  ListingAsOf(listings'[s], before, known) = ListingAsOf(listings[s], before, known)
<1> DEFINE old == listings[s]
           closed == OpenClosed(old, at)
           row == TransitionRow(listing, at, recorded)
<1>1. old \in Seq(ListingRow) /\ row \in ListingRow /\ listings'[s] = Added(closed, row)
  BY TransitionRowTyped DEF HistoryInv, HistoryTypeOK, TransitionListing, TransitionRow
<1>2. ClosedAt(closed, old, at)
  BY <1>1, OpenClosedCloses
<1>3. closed \in Seq(ListingRow)
  BY <1>2 DEF ClosedAt
<1>4. ~ActiveAt(row, before)
  BY TimesAssumption DEF TransitionRow, ActiveAt
<1> HIDE DEF old, closed, row
<1>5. ListingAsOf(Added(closed, row), before, known) = ListingAsOf(closed, before, known)
  BY <1>1, <1>3, <1>4, AddedUnseen
<1>6. ListingAsOf(closed, before, known) = ListingAsOf(old, before, known)
  BY <1>1, <1>2, ClosedUnseen
<1> QED
  BY <1>1, <1>5, <1>6 DEF old

LEMMA TakeOver ==
  ASSUME HistoryInv, NEW s \in Securities, NEW listing \in Listings, NEW at \in Times,
         NEW recorded \in Times, TransitionListing(s, listing, at, recorded),
         \A i \in DOMAIN listings[s] : listings[s][i].effective_from < at,
         NEW later \in Times, NEW known \in Times, later >= at, known >= recorded
  PROVE  ListingAsOf(listings'[s], later, known) = listing
<1> DEFINE old == listings[s]
           closed == OpenClosed(old, at)
           row == TransitionRow(listing, at, recorded)
           E == {i \in DOMAIN closed : closed[i].effective_from <= row.effective_from}
           n == Len(closed)
           new == SortedIn(closed, row)
           F == EligibleRows(new, later, known)
<1>1. old \in Seq(ListingRow) /\ row \in ListingRow /\ listings'[s] = Added(closed, row)
  BY TransitionRowTyped DEF HistoryInv, HistoryTypeOK, TransitionListing, TransitionRow
<1>2. ClosedAt(closed, old, at)
  BY <1>1, OpenClosedCloses
<1>3. closed \in Seq(ListingRow) /\ n \in Nat /\ DOMAIN closed = 1 .. n
  BY <1>2 DEF ClosedAt
<1>4. /\ row.effective_from = at /\ row.recorded_at = recorded /\ row.listing = listing
      /\ ActiveAt(row, later) /\ row.recorded_at <= known /\ at \in Nat
  BY TimesAssumption DEF TransitionRow, ActiveAt
<1>5. \A i \in DOMAIN closed : closed[i].effective_from < at /\ closed[i].effective_from \in Nat
  <2>1. \A i \in DOMAIN closed : i \in DOMAIN old /\ closed[i].effective_from = old[i].effective_from
    BY <1>2 DEF ClosedAt
  <2>2. \A i \in DOMAIN old : old[i] \in ListingRow
    BY <1>1
  <2> QED
    BY <2>1, <2>2, TimesAssumption DEF ListingRow
<1> HIDE DEF old, closed, row
<1>6. Cardinality(E) = n
  <2>1. E = 1 .. n
    BY <1>3, <1>4, <1>5
  <2> HIDE DEF n, E
  <2>2. Cardinality(1 .. n) = n
    BY <1>3, CountedTo
  <2> QED
    BY <2>1, <2>2
<1>7. RowInserted(new, closed, row, n)
  BY <1>1, <1>3, <1>6, SortedInInserts
<1> HIDE DEF new
<1>8. new[n + 1] = row /\ DOMAIN new = 1 .. n + 1
  BY <1>3, <1>7 DEF RowInserted
<1>9. n + 1 \in F /\ \A i \in F : i <= n + 1
  BY <1>3, <1>4, <1>8 DEF EligibleRows
<1>10. (CHOOSE j \in F : \A m \in F : m <= j) = n + 1
  <2>1. F \in SUBSET Nat
    BY <1>3, <1>8 DEF EligibleRows
  <2> HIDE DEF F
  <2> QED
    BY <1>9, <2>1, TheLast
<1>11. ListingAsOf(new, later, known) = listing
  BY <1>4, <1>8, <1>9, <1>10 DEF ListingAsOf
<1>12. Added(closed, row) = new
  BY <1>4, <1>5 DEF Added, Duplicate, new
<1> QED
  BY <1>1, <1>11, <1>12

\* The rows stay in order, and an answer about a security at a date, as known at
\* a date, changes only by what was known and in force then: adding a record keeps
\* the answers of those who do not know it yet, a transition keeps the past and
\* takes over what follows (add_record, transition_listing, get_listing_as_of).
THEOREM AnswersOfTheHistoryStand == HistorySpec => AnswersStand
<1>1. HistoryInv /\ HistoryInv' /\ [HistoryNext]_listings => [HistoryOrdered']_listings
  BY DEF HistoryInv
<1>2. HistoryInv =>
        [listings' # listings =>
           \A s \in Securities, row \in Windows : AddRecord(s, row) =>
             \A at, known \in Times : known < row.recorded_at =>
               ListingAsOf(listings'[s], at, known) = ListingAsOf(listings[s], at, known)]_listings
  BY AddStands
<1>3. HistoryInv =>
        [listings' # listings =>
           \A s \in Securities, listing \in Listings, at, recorded \in Times :
             TransitionListing(s, listing, at, recorded) =>
               \A before, known \in Times : before < at =>
                 ListingAsOf(listings'[s], before, known) = ListingAsOf(listings[s], before, known)
          ]_listings
  BY PastStands
<1>4. HistoryInv =>
        [listings' # listings =>
           \A s \in Securities, listing \in Listings, at, recorded \in Times :
             /\ TransitionListing(s, listing, at, recorded)
             /\ \A i \in DOMAIN listings[s] :
                  /\ listings[s][i].effective_from < at
                  /\ listings[s][i].effective_to # Open => listings[s][i].effective_to <= at
             => \A later, known \in Times : later >= at /\ known >= recorded =>
                  ListingAsOf(listings'[s], later, known) = listing
          ]_listings
  BY TakeOver
<1>5. HistorySpec => StaysOrdered
  BY <1>1, HistoryInvHolds, PTL DEF HistorySpec, StaysOrdered
<1>6. HistorySpec => AddKeepsKnowledge
  BY <1>2, HistoryInvHolds, PTL DEF HistorySpec, AddKeepsKnowledge
<1>7. HistorySpec => TransitionKeepsThePast
  BY <1>3, HistoryInvHolds, PTL DEF HistorySpec, TransitionKeepsThePast
<1>8. HistorySpec => TransitionTakesOver
  BY <1>4, HistoryInvHolds, PTL DEF HistorySpec, TransitionTakesOver
<1> QED
  BY <1>5, <1>6, <1>7, <1>8 DEF AnswersStand

------------------------------------------------------------------------------
(* The notes store. *)

NoteCallType == [at : {"idle", "notes", "returned"}, batch : Seq(Notes), next : Nat \ {0},
                 before : Int \X Int, counted : Int \X Int, own : Int \X Int, alone : BOOLEAN]

\* What a call will report, or reports, against its own additions.
Tallied(call, counted) ==
  /\ counted[1] >= call.own[1] /\ counted[2] >= call.own[2]
  /\ call.alone => counted[1] = call.own[1] /\ counted[2] = call.own[2]

CallTallies(call, sizes) ==
  /\ call.at = "notes" =>
       Tallied(call, <<sizes[1] - call.before[1], sizes[2] - call.before[2]>>)
  /\ call.at = "returned" => Tallied(call, call.counted)

LinkedNotes ==
  /\ artifacts \subseteq Notes /\ IsFiniteSet(artifacts) /\ links \in Seq(Notes)
  /\ ToSet(links) = artifacts /\ Len(links) = Cardinality(artifacts)

NotesInv ==
  /\ LinkedNotes
  /\ noteCall \in [NoteThreads -> NoteCallType]
  /\ \A t \in NoteThreads : CallTallies(noteCall[t], Sizes)
  /\ \A t, u \in NoteThreads : t # u /\ Running(t) /\ Running(u) => ~noteCall[t].alone

LEMMA SizesAreNumbers ==
  ASSUME LinkedNotes
  PROVE  Sizes[1] \in Nat /\ Sizes[2] \in Nat /\ Sizes = <<Sizes[1], Sizes[2]>>
  BY FS_CardinalityType DEF LinkedNotes, Sizes

LEMMA NoNotesTyped == NoNotes \in NoteCallType /\ \A sizes : CallTallies(NoNotes, sizes)
  BY DEF NoNotes, NoteCallType, CallTallies

\* A step of one call: it may add to the store only while it runs.
LEMMA NotesStep ==
  ASSUME NotesInv, LinkedNotes', NEW t \in NoteThreads, NEW call \in NoteCallType,
         noteCall' = [noteCall EXCEPT ![t] = call], CallTallies(call, Sizes'),
         Sizes'[1] >= Sizes[1], Sizes'[2] >= Sizes[2],
         Sizes' # Sizes => Running(t),
         call.at = "notes" => Running(t) /\ call.alone = noteCall[t].alone
  PROVE  NotesInv'
<1>1. /\ noteCall \in [NoteThreads -> NoteCallType] /\ noteCall'[t] = call
      /\ \A u \in NoteThreads : u # t => noteCall'[u] = noteCall[u]
      /\ noteCall' \in [NoteThreads -> NoteCallType]
  BY DEF NotesInv
<1>2. ASSUME NEW u \in NoteThreads PROVE CallTallies(noteCall'[u], Sizes')
  <2>1. CASE u = t
    BY <1>1, <2>1
  <2>2. CASE u # t
    <3>1. noteCall'[u] = noteCall[u] /\ CallTallies(noteCall[u], Sizes)
      BY <1>1, <2>2 DEF NotesInv
    <3>2. CASE Sizes' = Sizes
      BY <3>1, <3>2
    <3>3. CASE Sizes' # Sizes
      <4>1. Running(u) => ~noteCall[u].alone
        BY <2>2, <3>3 DEF NotesInv
      <4>2. /\ Sizes[1] \in Nat /\ Sizes[2] \in Nat /\ Sizes'[1] \in Nat /\ Sizes'[2] \in Nat
        <5>1. LinkedNotes
          BY DEF NotesInv
        <5>2. Sizes[1] \in Nat /\ Sizes[2] \in Nat
          BY <5>1, SizesAreNumbers
        <5>3. Sizes'[1] \in Nat /\ Sizes'[2] \in Nat
          BY FS_CardinalityType DEF LinkedNotes, Sizes
        <5> QED
          BY <5>2, <5>3
      <4>3. noteCall[u].before \in Int \X Int /\ noteCall[u].own \in Int \X Int
        BY <1>1 DEF NoteCallType
      <4>4. CASE noteCall[u].at = "notes"
        <5>1. ~noteCall[u].alone
          BY <4>1, <4>4 DEF Running
        <5> QED
          BY <3>1, <4>2, <4>3, <4>4, <5>1 DEF CallTallies, Tallied
      <4>5. CASE noteCall[u].at # "notes"
        BY <3>1, <4>5 DEF CallTallies
      <4> QED
        BY <4>4, <4>5
    <3> QED
      BY <3>2, <3>3
  <2> QED
    BY <2>1, <2>2
<1>3. ASSUME NEW u \in NoteThreads, NEW v \in NoteThreads, u # v, Running(u)', Running(v)'
      PROVE  ~noteCall'[u].alone
  <2>1. Running(u) /\ Running(v) /\ noteCall'[u].alone = noteCall[u].alone
    BY <1>1, <1>3 DEF Running
  <2> QED
    BY <1>3, <2>1 DEF NotesInv
<1> QED
  BY <1>1, <1>2, <1>3 DEF NotesInv

LEMMA BeginNotesInv ==
  ASSUME NotesInv, NEW t \in NoteThreads, BeginNotes(t)
  PROVE  NotesInv'
<1>1. PICK batch \in Batches :
        noteCall' = [u \in NoteThreads |->
          IF u = t
            THEN [NoNotes EXCEPT !.at = "notes", !.batch = batch, !.before = Sizes,
                                 !.alone = ~\E o \in NoteThreads : Running(o)]
            ELSE [noteCall[u] EXCEPT !.alone = @ /\ ~Running(u)]]
  BY DEF BeginNotes
<1>2. LinkedNotes /\ UNCHANGED <<artifacts, links>> /\ noteCall \in [NoteThreads -> NoteCallType]
  BY DEF BeginNotes, NotesInv
<1>3. LinkedNotes' /\ Sizes' = Sizes
  BY <1>2 DEF LinkedNotes, Sizes
<1>4. Sizes[1] \in Nat /\ Sizes[2] \in Nat /\ Sizes = <<Sizes[1], Sizes[2]>> /\ Sizes \in Int \X Int
  BY <1>2, SizesAreNumbers
<1> DEFINE free == ~\E o \in NoteThreads : Running(o)
           Begun(b) == [NoNotes EXCEPT !.at = "notes", !.batch = batch, !.before = Sizes,
                                       !.alone = b]
           begun == Begun(free)
<1>5. begun \in NoteCallType /\ CallTallies(begun, Sizes) /\ begun.at = "notes"
      /\ (begun.alone <=> ~\E o \in NoteThreads : Running(o))
  <2>1. batch \in Seq(Notes) /\ free \in BOOLEAN /\ <<0, 0>> \in Int \X Int
    BY NotesAssumption
  <2>2. ASSUME NEW b \in BOOLEAN
        PROVE  /\ Begun(b) \in NoteCallType /\ Begun(b).before = Sizes
               /\ Begun(b).own = <<0, 0>> /\ Begun(b).at = "notes" /\ Begun(b).alone = b
    <3>1. NoNotes \in NoteCallType
      BY NoNotesTyped
    <3>2. Begun(b) \in NoteCallType
      BY <1>4, <2>1, <3>1 DEF NoteCallType
    <3>3. NoNotes.own = <<0, 0>>
      BY DEF NoNotes
    <3> QED
      BY <3>1, <3>2, <3>3 DEF NoteCallType
  <2> HIDE DEF free, Begun
  <2>4. /\ begun \in NoteCallType /\ begun.before = Sizes /\ begun.own = <<0, 0>>
        /\ begun.at = "notes" /\ begun.alone = free
    BY <2>1, <2>2
  <2> HIDE DEF begun
  <2>5. CallTallies(begun, Sizes)
    <3>1. begun.own[1] = 0 /\ begun.own[2] = 0
      BY <2>4
    <3>2. Sizes[1] - begun.before[1] = 0 /\ Sizes[2] - begun.before[2] = 0
      BY <1>4, <2>4
    <3> QED
      BY <2>4, <3>1, <3>2 DEF CallTallies, Tallied
  <2> QED
    BY <2>4, <2>5 DEF free
<1>6. noteCall'[t] = begun
  BY <1>1
<1> HIDE DEF begun
<1>7. ASSUME NEW u \in NoteThreads, u # t
      PROVE  /\ noteCall'[u] \in NoteCallType /\ CallTallies(noteCall'[u], Sizes)
             /\ noteCall'[u].at = noteCall[u].at
             /\ noteCall'[u].alone => ~Running(u) /\ noteCall[u].alone
  <2> DEFINE old == noteCall[u]
             new == [old EXCEPT !.alone = @ /\ ~Running(u)]
  <2>1. old \in NoteCallType /\ noteCall'[u] = new /\ CallTallies(old, Sizes)
    BY <1>1, <1>2, <1>7 DEF NotesInv
  <2>2. /\ new \in NoteCallType /\ new.at = old.at /\ new.own = old.own /\ new.before = old.before
        /\ new.counted = old.counted /\ new.alone = (old.alone /\ ~Running(u))
    <3>1. (old.alone /\ ~Running(u)) \in BOOLEAN
      OBVIOUS
    <3> QED
      BY <2>1, <3>1 DEF NoteCallType
  <2> HIDE DEF old, new
  <2>3. CallTallies(new, Sizes)
    BY <2>1, <2>2 DEF CallTallies, Tallied
  <2> QED
    BY <2>1, <2>2, <2>3 DEF old
<1>8. noteCall' \in [NoteThreads -> NoteCallType]
  <2>1. \A u \in NoteThreads : noteCall'[u] \in NoteCallType
    BY <1>5, <1>6, <1>7
  <2> QED
    BY <1>1, <2>1
<1>9. \A u \in NoteThreads : CallTallies(noteCall'[u], Sizes')
  BY <1>3, <1>5, <1>6, <1>7
<1>10. ASSUME NEW u \in NoteThreads, NEW v \in NoteThreads, u # v, Running(u)', Running(v)'
       PROVE  ~noteCall'[u].alone
  <2>1. CASE u = t
    <3>1. Running(v)
      BY <1>7, <1>10, <2>1 DEF Running
    <3> QED
      BY <1>5, <1>6, <2>1, <3>1
  <2>2. CASE u # t
    <3>1. Running(u)
      BY <1>7, <1>10, <2>2 DEF Running
    <3> QED
      BY <1>7, <2>2, <3>1
  <2> QED
    BY <2>1, <2>2
<1> QED
  BY <1>3, <1>8, <1>9, <1>10 DEF NotesInv

\* A note that is there changes nothing, a new one adds itself and one link.
LEMMA OneNoteMore ==
  ASSUME LinkedNotes, NEW note \in Notes, artifacts' = artifacts \cup {note},
         links' = LinkedOnce(note)
  PROVE  /\ LinkedNotes'
         /\ \E n \in 0 .. 1 : /\ Sizes'[1] = Sizes[1] + n /\ Cardinality({note} \ artifacts) = n
                              /\ Sizes'[2] = Sizes[2] + n
                              /\ Len(LinkedOnce(note)) - Len(links) = n
<1>1. /\ artifacts \subseteq Notes /\ IsFiniteSet(artifacts) /\ links \in Seq(Notes)
      /\ ToSet(links) = artifacts /\ Len(links) = Cardinality(artifacts) /\ Len(links) \in Nat
  BY DEF LinkedNotes
<1>2. CASE note \in artifacts
  <2>1. artifacts' = artifacts /\ links' = links /\ {note} \ artifacts = {}
    BY <1>1, <1>2 DEF LinkedOnce
  <2>2. Cardinality({note} \ artifacts) = 0
    BY <2>1, FS_EmptySet
  <2>3. LinkedNotes' /\ Sizes' = Sizes
    BY <2>1 DEF LinkedNotes, Sizes
  <2>4. Sizes[1] \in Nat /\ Sizes[2] \in Nat
    BY SizesAreNumbers
  <2>5. Len(LinkedOnce(note)) - Len(links) = 0
    BY <1>1, <1>2 DEF LinkedOnce
  <2> QED
    BY <2>2, <2>3, <2>4, <2>5
<1>3. CASE note \notin artifacts
  <2>1. links' = Append(links, note) /\ LinkedOnce(note) = Append(links, note)
    BY <1>1, <1>3 DEF LinkedOnce
  <2>2. {note} \ artifacts = {note}
    BY <1>3
  <2>3. Cardinality({note} \ artifacts) = 1
    BY <2>2, FS_Singleton
  <2>4. IsFiniteSet(artifacts') /\ Cardinality(artifacts') = Cardinality(artifacts) + 1
    BY <1>1, <1>3, FS_AddElement
  <2>5. /\ Append(links, note) \in Seq(Notes) /\ Len(Append(links, note)) = Len(links) + 1
        /\ ToSet(Append(links, note)) = artifacts \cup {note}
    BY <1>1, AppendToSet
  <2>6. LinkedNotes'
    BY <1>1, <2>1, <2>4, <2>5 DEF LinkedNotes
  <2>7. Sizes'[1] = Sizes[1] + 1 /\ Sizes'[2] = Sizes[2] + 1
    BY <2>1, <2>4, <2>5 DEF Sizes
  <2> QED
    BY <1>1, <2>1, <2>3, <2>5, <2>6, <2>7
<1> QED
  BY <1>2, <1>3

LEMMA StoreNoteInv ==
  ASSUME NotesInv, NEW t \in NoteThreads, StoreNoteArtifact(t)
  PROVE  NotesInv'
<1> DEFINE call == noteCall[t]
           note == call.batch[call.next]
<1>1. /\ LinkedNotes /\ noteCall \in [NoteThreads -> NoteCallType] /\ call \in NoteCallType
      /\ CallTallies(call, Sizes) /\ Running(t) /\ call.at = "notes"
  BY DEF NotesInv, StoreNoteArtifact, Running
<1>2. note \in Notes
  <2>1. call.batch \in Seq(Notes) /\ call.next \in Nat \ {0} /\ call.next <= Len(call.batch)
    BY <1>1 DEF NoteCallType, StoreNoteArtifact
  <2>2. call.next \in DOMAIN call.batch
    BY <2>1
  <2> QED
    BY <2>1, <2>2
<1>3. Sizes[1] \in Nat /\ Sizes[2] \in Nat
  BY <1>1, SizesAreNumbers
<1>4. CASE note.valid
  <2> DEFINE n1 == Cardinality({note} \ artifacts)
             n2 == Len(LinkedOnce(note)) - Len(links)
             own == <<call.own[1] + n1, call.own[2] + n2>>
             Stepped(p) == [call EXCEPT !.next = @ + 1, !.own = p]
             new == Stepped(own)
  <2>1. /\ artifacts' = artifacts \cup {note} /\ links' = LinkedOnce(note)
        /\ noteCall' = [noteCall EXCEPT ![t] = new]
    BY <1>1, <1>4 DEF StoreNoteArtifact
  <2>2. PICK n \in 0 .. 1 :
          LinkedNotes' /\ Sizes'[1] = Sizes[1] + n /\ n1 = n /\ Sizes'[2] = Sizes[2] + n /\ n2 = n
    BY <1>1, <1>2, <2>1, OneNoteMore
  <2> HIDE DEF n1, n2
  <2>3. /\ call.own \in Int \X Int /\ call.before \in Int \X Int /\ call.next \in Nat \ {0}
    BY <1>1 DEF NoteCallType
  <2>4. own \in Int \X Int
    BY <2>2, <2>3
  <2> HIDE DEF own
  <2>5. /\ new \in NoteCallType /\ new.at = "notes" /\ new.alone = call.alone
        /\ new.before = call.before /\ new.own = own
    <3>1. \A m \in Nat \ {0}, p \in Int \X Int :
            [call EXCEPT !.next = m, !.own = p] \in NoteCallType
      BY <1>1 DEF NoteCallType
    <3>2. call.next + 1 \in Nat \ {0}
      BY <2>3
    <3>3. new \in NoteCallType
      BY <2>4, <3>1, <3>2
    <3>4. new.at = call.at /\ new.alone = call.alone /\ new.before = call.before /\ new.own = own
      BY <1>1 DEF NoteCallType
    <3> QED
      BY <1>1, <3>3, <3>4
  <2> HIDE DEF new
  <2>6. CallTallies(new, Sizes')
    <3>1. Tallied(call, <<Sizes[1] - call.before[1], Sizes[2] - call.before[2]>>)
      BY <1>1 DEF CallTallies
    <3>2. new.own[1] = call.own[1] + n /\ new.own[2] = call.own[2] + n
      BY <2>2, <2>5 DEF own
    <3>3. /\ Sizes'[1] - new.before[1] = Sizes[1] - call.before[1] + n
          /\ Sizes'[2] - new.before[2] = Sizes[2] - call.before[2] + n
      BY <1>3, <2>2, <2>3, <2>5
    <3>4. Tallied(new, <<Sizes'[1] - new.before[1], Sizes'[2] - new.before[2]>>)
      BY <1>3, <2>2, <2>3, <2>5, <3>1, <3>2, <3>3 DEF Tallied
    <3> QED
      BY <2>5, <3>4 DEF CallTallies
  <2>7. Sizes'[1] >= Sizes[1] /\ Sizes'[2] >= Sizes[2]
    BY <1>3, <2>2
  <2> QED
    BY <1>1, <2>1, <2>2, <2>5, <2>6, <2>7, NotesStep
<1>5. CASE ~note.valid
  <2>1. noteCall' = [noteCall EXCEPT ![t] = NoNotes] /\ UNCHANGED <<artifacts, links>>
    BY <1>5 DEF StoreNoteArtifact
  <2>2. LinkedNotes' /\ Sizes' = Sizes
    BY <1>1, <2>1 DEF LinkedNotes, Sizes
  <2>3. /\ Sizes'[1] >= Sizes[1] /\ Sizes'[2] >= Sizes[2]
        /\ NoNotes \in NoteCallType /\ CallTallies(NoNotes, Sizes')
    BY <1>3, <2>2, NoNotesTyped
  <2>4. NoNotes.at # "notes"
    BY DEF NoNotes
  <2> QED
    BY <2>1, <2>2, <2>3, <2>4, NotesStep
<1> QED
  BY <1>4, <1>5

LEMMA EndNotesInv ==
  ASSUME NotesInv, NEW t \in NoteThreads, CountNotes(t) \/ EndNotes(t)
  PROVE  NotesInv'
<1> DEFINE call == noteCall[t]
<1>1. /\ LinkedNotes /\ noteCall \in [NoteThreads -> NoteCallType] /\ call \in NoteCallType
      /\ CallTallies(call, Sizes) /\ UNCHANGED <<artifacts, links>>
  BY DEF NotesInv, CountNotes, EndNotes
<1>2. LinkedNotes' /\ Sizes' = Sizes
  BY <1>1 DEF LinkedNotes, Sizes
<1>3. Sizes[1] \in Nat /\ Sizes[2] \in Nat
  BY <1>1, SizesAreNumbers
<1>0. Sizes'[1] >= Sizes[1] /\ Sizes'[2] >= Sizes[2]
  BY <1>2, <1>3
<1>4. CASE CountNotes(t)
  <2> DEFINE counts == <<Sizes[1] - call.before[1], Sizes[2] - call.before[2]>>
             new == [call EXCEPT !.at = "returned", !.counted = counts]
  <2>1. call.before \in Int \X Int
    BY <1>1 DEF NoteCallType
  <2>2. counts \in Int \X Int
    BY <1>3, <2>1
  <2>3. noteCall' = [noteCall EXCEPT ![t] = new] /\ call.at = "notes"
    BY <1>1, <1>4 DEF CountNotes, Running
  <2> HIDE DEF counts
  <2>4. /\ new \in NoteCallType /\ new.at = "returned" /\ new.alone = call.alone
        /\ new.own = call.own /\ new.counted = counts
    BY <1>1, <2>2 DEF NoteCallType
  <2> HIDE DEF new
  <2>5. CallTallies(new, Sizes')
    BY <1>1, <2>3, <2>4 DEF CallTallies, Tallied, counts
  <2> QED
    BY <1>0, <1>2, <2>3, <2>4, <2>5, NotesStep
<1>5. CASE EndNotes(t)
  <2>1. noteCall' = [noteCall EXCEPT ![t] = NoNotes] /\ NoNotes.at # "notes"
    BY <1>5 DEF EndNotes, NoNotes
  <2>2. NoNotes \in NoteCallType /\ CallTallies(NoNotes, Sizes')
    BY NoNotesTyped
  <2> QED
    BY <1>0, <1>2, <2>1, <2>2, NotesStep
<1> QED
  BY <1>4, <1>5

LEMMA NotesInvHolds == NotesSpec => []NotesInv
<1>1. NotesInit => NotesInv
  <2> SUFFICES ASSUME NotesInit PROVE NotesInv
    OBVIOUS
  <2>1. LinkedNotes
    BY FS_EmptySet DEF NotesInit, LinkedNotes, ToSet
  <2>2. \A t \in NoteThreads : noteCall[t] = NoNotes /\ ~Running(t)
    BY DEF NotesInit, NoNotes, Running
  <2>3. noteCall \in [NoteThreads -> NoteCallType]
    BY NoNotesTyped DEF NotesInit
  <2> QED
    BY <2>1, <2>2, <2>3, NoNotesTyped DEF NotesInv
<1>2. NotesInv /\ [NotesNext]_notesVars => NotesInv'
  <2> SUFFICES ASSUME NotesInv, [NotesNext]_notesVars PROVE NotesInv'
    OBVIOUS
  <2>1. CASE UNCHANGED notesVars
    BY <2>1 DEF notesVars, NotesInv, LinkedNotes, Sizes, Running
  <2> QED
    BY <2>1, BeginNotesInv, StoreNoteInv, EndNotesInv DEF NotesNext
<1> QED
  BY <1>1, <1>2, PTL DEF NotesSpec

LEMMA CountsOfNotes == NotesInv => NotesTypeOK /\ NoteCounts
<1> SUFFICES ASSUME NotesInv PROVE NotesTypeOK /\ NoteCounts
  OBVIOUS
<1>1. NotesTypeOK
  BY DEF NotesInv, NotesTypeOK, LinkedNotes, NoteCallType
<1>2. ASSUME NEW t \in NoteThreads, noteCall[t].at = "returned"
      PROVE  \A n \in 1 .. 2 : /\ noteCall[t].counted[n] >= noteCall[t].own[n]
                               /\ noteCall[t].alone => noteCall[t].counted[n] = noteCall[t].own[n]
  <2>1. Tallied(noteCall[t], noteCall[t].counted)
    BY <1>2 DEF NotesInv, CallTallies
  <2>2. \A n \in 1 .. 2 : n = 1 \/ n = 2
    OBVIOUS
  <2> QED
    BY <2>1, <2>2 DEF Tallied
<1> QED
  BY <1>1, <1>2 DEF NotesInv, LinkedNotes, NoteCounts

------------------------------------------------------------------------------
(* The dataset store. *)

\* Fresh rows are rows with unstaged keys, one for each such key.
LEMMA FreshRows ==
  ASSUME NEW d, NEW R, NEW chosen \in Seq(R)
  PROVE  LET fresh == Fresh(chosen, d) IN
         /\ fresh \in Seq(R)
         /\ \A k \in DOMAIN fresh :
              /\ fresh[k] \in ToSet(chosen)
              /\ Key(d, fresh[k]) \notin StagedKeys
         /\ \A j, k \in DOMAIN fresh : j # k => fresh[j].key # fresh[k].key
         /\ \A n \in DOMAIN chosen :
              Key(d, chosen[n]) \in StagedKeys
                \/ \E k \in DOMAIN fresh : fresh[k].key = chosen[n].key
<1> DEFINE Earliest == {n \in DOMAIN chosen :
                       /\ Key(d, chosen[n]) \notin StagedKeys
                       /\ \A m \in 1 .. n - 1 : chosen[m].key # chosen[n].key}
           fresh == AtPositions(chosen, Earliest)
<1>1. Len(chosen) \in Nat /\ DOMAIN chosen = 1 .. Len(chosen)
      /\ \A n \in DOMAIN chosen : chosen[n] \in R
  OBVIOUS
<1>2. Earliest \in SUBSET (1 .. Len(chosen))
  BY <1>1
<1>3. Fresh(chosen, d) = fresh
  BY DEF Fresh
<1>4. \A n \in Earliest : /\ n \in DOMAIN chosen /\ Key(d, chosen[n]) \notin StagedKeys
                       /\ \A m \in 1 .. n - 1 : chosen[m].key # chosen[n].key
  OBVIOUS
<1>5. ASSUME NEW n \in DOMAIN chosen, Key(d, chosen[n]) \notin StagedKeys
      PROVE  \E m \in Earliest : chosen[m].key = chosen[n].key
  <2> DEFINE Same == {m \in DOMAIN chosen : chosen[m].key = chosen[n].key}
  <2>1. n \in Same /\ Same \in SUBSET Nat
    BY <1>1
  <2>2. PICK m \in Same : \A k \in Same : m <= k
    <3> HIDE DEF Same
    <3> QED
      BY <2>1, LeastNumber
  <2>3. m \in DOMAIN chosen /\ chosen[m].key = chosen[n].key
    OBVIOUS
  <2>4. ASSUME NEW k \in 1 .. m - 1 PROVE chosen[k].key # chosen[m].key
    <3>1. k \in DOMAIN chosen /\ ~(m <= k)
      BY <1>1, <2>3
    <3>2. k \notin Same
      BY <2>2, <3>1
    <3> QED
      BY <2>3, <3>1, <3>2
  <2>5. Key(d, chosen[m]) \notin StagedKeys
    BY <1>5, <2>3 DEF Key
  <2> QED
    BY <2>3, <2>4, <2>5
<1> HIDE DEF Earliest
<1>6. /\ IsFiniteSet(Earliest) /\ Cardinality(Earliest) \in Nat /\ DOMAIN fresh = 1 .. Cardinality(Earliest)
      /\ \A k \in DOMAIN fresh : Nth(Earliest, k) \in Earliest /\ fresh[k] = chosen[Nth(Earliest, k)]
      /\ \A n \in Earliest : \E k \in DOMAIN fresh : Nth(Earliest, k) = n
      /\ \A j, k \in DOMAIN fresh : Nth(Earliest, j) = Nth(Earliest, k) => j = k
  <2>1. fresh = AtPositions(chosen, Earliest)
    OBVIOUS
  <2> HIDE DEF fresh
  <2>2. IsFiniteSet(Earliest) /\ Cardinality(Earliest) \in Nat
    BY <1>1, <1>2, Positions
  <2>3. /\ DOMAIN fresh = 1 .. Cardinality(Earliest)
        /\ \A k \in 1 .. Cardinality(Earliest) : Nth(Earliest, k) \in Earliest /\ fresh[k] = chosen[Nth(Earliest, k)]
    BY <1>1, <1>2, <2>1, Positions
  <2>4. /\ \A n \in Earliest : \E k \in 1 .. Cardinality(Earliest) : Nth(Earliest, k) = n
        /\ \A j, k \in 1 .. Cardinality(Earliest) : Nth(Earliest, j) = Nth(Earliest, k) => j = k
    BY <1>1, <1>2, Positions
  <2> QED
    BY <2>2, <2>3, <2>4
<1>7. fresh = [k \in 1 .. Cardinality(Earliest) |-> chosen[Nth(Earliest, k)]]
  BY DEF AtPositions
<1> HIDE DEF fresh
<1>8. fresh \in Seq(R)
  <2>1. \A k \in 1 .. Cardinality(Earliest) : chosen[Nth(Earliest, k)] \in R
    BY <1>1, <1>4, <1>6
  <2> QED
    BY <1>6, <1>7, <2>1, IsASeq
<1>9. \A k \in DOMAIN fresh : fresh[k] \in ToSet(chosen) /\ Key(d, fresh[k]) \notin StagedKeys
  BY <1>4, <1>6 DEF ToSet
<1>10. ASSUME NEW j \in DOMAIN fresh, NEW k \in DOMAIN fresh, j # k
       PROVE  fresh[j].key # fresh[k].key
  <2>1. PICK a \in Earliest, b \in Earliest :
          a # b /\ fresh[j] = chosen[a] /\ fresh[k] = chosen[b]
    BY <1>6, <1>10
  <2>2. a \in Nat \ {0} /\ b \in Nat \ {0}
    BY <1>1, <1>4
  <2>3. a \in 1 .. b - 1 \/ b \in 1 .. a - 1
    BY <2>1, <2>2
  <2> QED
    BY <1>4, <2>1, <2>3
<1>11. ASSUME NEW n \in DOMAIN chosen, Key(d, chosen[n]) \notin StagedKeys
       PROVE  \E k \in DOMAIN fresh : fresh[k].key = chosen[n].key
  <2>1. PICK m \in Earliest : chosen[m].key = chosen[n].key
    BY <1>5, <1>11
  <2>2. PICK k \in DOMAIN fresh : Nth(Earliest, k) = m
    BY <1>6
  <2> QED
    BY <1>6, <2>1, <2>2
<1> QED
  BY <1>3, <1>8, <1>9, <1>10, <1>11

StagedRecords == UNION {{StagedRow(d, row) : row \in ToSet(d.rows)} : d \in Datasets}
CallType == [at : {"idle", "insider", "rows"}, dataset : Datasets \cup {NoDataset}, next : Nat \ {0}]

\* How far a call is, and what it has left in the store so far.
CallSound(call) ==
  call.at # "idle" =>
    LET d == call.dataset IN
    /\ d \in raw /\ call.next <= Len(d.rows) + 1
    /\ call.at = "insider" => d.store = "insiders" /\ call.next = 1
    /\ call.at = "rows" /\ d.store = "insiders" => d.subject \in insiders
    /\ \A n \in 1 .. call.next - 1 : Key(d, d.rows[n]) \in StagedKeys

IngestInv ==
  /\ raw \subseteq Datasets /\ returned \subseteq raw
  /\ insiders \subseteq {d.subject : d \in Datasets}
  /\ staged \in Seq(StagedRecords)
  /\ ingest \in [Ingesters -> CallType]
  /\ RowsTraceable /\ ReturnsComplete
  /\ \A i \in Ingesters : CallSound(ingest[i])

LEMMA RowsOfDatasets ==
  ASSUME NEW d \in Datasets
  PROVE  /\ d.rows \in Seq(ToSet(d.rows)) /\ Len(d.rows) \in Nat
         /\ DOMAIN d.rows = 1 .. Len(d.rows)
         /\ \A n \in DOMAIN d.rows : d.rows[n] \in ToSet(d.rows)
<1>1. d.rows \in Seq(ToSet(d.rows))
  BY IngestAssumption
<1> QED
  BY <1>1 DEF ToSet

LEMMA PlaceOfCall ==
  ASSUME NEW call \in CallType, NEW at \in {"idle", "insider", "rows"}
  PROVE  /\ [call EXCEPT !.at = at] \in CallType
         /\ [call EXCEPT !.at = at].at = at
         /\ [call EXCEPT !.at = at].dataset = call.dataset
         /\ [call EXCEPT !.at = at].next = call.next
  BY DEF CallType

LEMMA NextOfCall ==
  ASSUME NEW call \in CallType, NEW next \in Nat \ {0}
  PROVE  /\ [call EXCEPT !.next = next] \in CallType
         /\ [call EXCEPT !.next = next].at = call.at
         /\ [call EXCEPT !.next = next].dataset = call.dataset
         /\ [call EXCEPT !.next = next].next = next
  BY DEF CallType

LEMMA NoCallSound == NoCall \in CallType /\ CallSound(NoCall)
  BY DEF NoCall, CallType, CallSound

\* A step of one call that keeps what the store has.
LEMMA CallMoves ==
  ASSUME IngestInv, NEW i \in Ingesters, NEW call \in CallType,
         ingest' = [ingest EXCEPT ![i] = call],
         CallSound(call)', raw \subseteq raw', insiders \subseteq insiders',
         StagedKeys \subseteq StagedKeys'
  PROVE  ingest' \in [Ingesters -> CallType] /\ \A j \in Ingesters : CallSound(ingest[j])'
<1>1. /\ ingest' \in [Ingesters -> CallType] /\ ingest'[i] = call
      /\ \A j \in Ingesters \ {i} : ingest'[j] = ingest[j]
  BY DEF IngestInv
<1>2. ASSUME NEW j \in Ingesters \ {i} PROVE CallSound(ingest[j])'
  <2>1. ingest'[j] = ingest[j] /\ CallSound(ingest[j])
    BY <1>1 DEF IngestInv
  <2> QED
    BY <2>1 DEF CallSound
<1>3. CallSound(ingest[i])'
  BY <1>1 DEF CallSound
<1> QED
  BY <1>1, <1>2, <1>3

\* What staging adds: rows of the dataset, each with a key of its own.
LEMMA StagingOfRows ==
  ASSUME IngestInv, NEW d \in Datasets, d \in raw, NEW chosen \in Seq(ToSet(d.rows)),
         \A n \in DOMAIN chosen : chosen[n].valid,
         d.store = "insiders" => d.subject \in insiders,
         StageRows(chosen, d), UNCHANGED <<raw, insiders>>
  PROVE  /\ staged' \in Seq(StagedRecords) /\ RowsTraceable' /\ StagedKeys \subseteq StagedKeys'
         /\ \A n \in DOMAIN chosen : Key(d, chosen[n]) \in StagedKeys'
         /\ staged' # staged =>
              \E row \in ToSet(d.rows) : /\ Last(staged') = StagedRow(d, row)
                                         /\ Key(d, row) \notin StagedKeys
<1> DEFINE R == ToSet(d.rows)
<1>1. PICK fresh \in Seq(R) :
        /\ fresh = Fresh(chosen, d)
        /\ \A k \in DOMAIN fresh :
             fresh[k] \in ToSet(chosen) /\ Key(d, fresh[k]) \notin StagedKeys
        /\ \A j, k \in DOMAIN fresh : j # k => fresh[j].key # fresh[k].key
        /\ \A n \in DOMAIN chosen :
             Key(d, chosen[n]) \in StagedKeys
               \/ \E k \in DOMAIN fresh : fresh[k].key = chosen[n].key
  BY FreshRows
<1> DEFINE added == [n \in DOMAIN fresh |-> StagedRow(d, fresh[n])]
<1>2. staged' = staged \o added
  BY <1>1 DEF StageRows
<1>3. /\ Len(fresh) \in Nat /\ DOMAIN fresh = 1 .. Len(fresh)
      /\ \A k \in DOMAIN fresh : fresh[k] \in R /\ fresh[k].valid
  <2>1. Len(fresh) \in Nat /\ DOMAIN fresh = 1 .. Len(fresh) /\ \A k \in DOMAIN fresh : fresh[k] \in R
    OBVIOUS
  <2>2. \A k \in DOMAIN fresh : fresh[k].valid
    BY <1>1 DEF ToSet
  <2> QED
    BY <2>1, <2>2
<1>4. \A k \in DOMAIN fresh : StagedRow(d, fresh[k]) \in StagedRecords
  BY <1>3 DEF StagedRecords
<1>5. added \in Seq(StagedRecords)
  BY <1>3, <1>4, IsASeq
<1>6. /\ DOMAIN added = DOMAIN fresh /\ Len(added) = Len(fresh)
      /\ \A k \in DOMAIN fresh : added[k] = StagedRow(d, fresh[k])
  BY <1>3, <1>5
<1> HIDE DEF added
<1>7. staged \in Seq(StagedRecords) /\ Len(staged) \in Nat /\ DOMAIN staged = 1 .. Len(staged)
  BY DEF IngestInv
<1>8. /\ staged' \in Seq(StagedRecords) /\ Len(staged') = Len(staged) + Len(fresh)
      /\ DOMAIN staged' = 1 .. Len(staged) + Len(fresh)
      /\ \A n \in 1 .. Len(staged) : staged'[n] = staged[n]
      /\ \A k \in 1 .. Len(fresh) : staged'[Len(staged) + k] = StagedRow(d, fresh[k])
  <2>1. staged' \in Seq(StagedRecords) /\ Len(staged') = Len(staged) + Len(fresh)
    <3>1. (staged \o added) \in Seq(StagedRecords) /\ Len(staged \o added) = Len(staged) + Len(added)
      BY <1>5, <1>7, ConcatProperties
    <3> QED
      BY <1>2, <1>6, <3>1
  <2>2. \A n \in 1 .. Len(staged) : staged'[n] = staged[n]
    BY <1>2, <1>3, <1>5, <1>6, <1>7
  <2>3. \A k \in 1 .. Len(fresh) : staged'[Len(staged) + k] = added[k]
    BY <1>2, <1>3, <1>5, <1>6, <1>7
  <2>4. DOMAIN staged' = 1 .. Len(staged) + Len(fresh)
    BY <2>1
  <2>5. \A k \in 1 .. Len(fresh) : staged'[Len(staged) + k] = StagedRow(d, fresh[k])
    BY <1>3, <1>6, <2>3
  <2> QED
    BY <2>1, <2>2, <2>4, <2>5
<1>9. \A n \in DOMAIN staged' :
        \/ n \in DOMAIN staged /\ staged'[n] = staged[n]
        \/ \E k \in DOMAIN fresh : n = Len(staged) + k /\ staged'[n] = StagedRow(d, fresh[k])
  <2> SUFFICES ASSUME NEW n \in DOMAIN staged', n \notin DOMAIN staged
               PROVE  \E k \in DOMAIN fresh : n = Len(staged) + k /\ staged'[n] = StagedRow(d, fresh[k])
    BY <1>7, <1>8
  <2>1. n - Len(staged) \in 1 .. Len(fresh) /\ n = Len(staged) + (n - Len(staged))
    BY <1>3, <1>7, <1>8
  <2> QED
    BY <1>3, <1>8, <2>1
<1>10. StagedKeys \subseteq StagedKeys'
  BY <1>7, <1>8, <1>3 DEF StagedKeys
<1>11. \A k \in DOMAIN fresh : Key(d, fresh[k]) \in StagedKeys'
  <2> SUFFICES ASSUME NEW k \in DOMAIN fresh PROVE Key(d, fresh[k]) \in StagedKeys'
    OBVIOUS
  <2>1. Len(staged) + k \in DOMAIN staged' /\ staged'[Len(staged) + k] = StagedRow(d, fresh[k])
    BY <1>3, <1>7, <1>8
  <2> QED
    BY <2>1 DEF StagedKeys, StagedRow
<1>12. \A n \in DOMAIN chosen : Key(d, chosen[n]) \in StagedKeys'
  BY <1>1, <1>10, <1>11 DEF Key
<1>13. ASSUME NEW n \in DOMAIN staged'
       PROVE  LET e == staged'[n].dataset IN
              /\ e \in raw
              /\ \E row \in ToSet(e.rows) : row.valid /\ staged'[n] = StagedRow(e, row)
              /\ e.store = "insiders" => e.subject \in insiders
  <2>1. CASE n \in DOMAIN staged /\ staged'[n] = staged[n]
    BY <2>1 DEF IngestInv, RowsTraceable
  <2>2. ASSUME NEW k \in DOMAIN fresh, staged'[n] = StagedRow(d, fresh[k])
        PROVE  LET e == staged'[n].dataset IN
               /\ e \in raw
               /\ \E row \in ToSet(e.rows) : row.valid /\ staged'[n] = StagedRow(e, row)
               /\ e.store = "insiders" => e.subject \in insiders
    <3>1. staged'[n].dataset = d
      BY <2>2 DEF StagedRow
    <3> QED
      BY <1>3, <2>2, <3>1
  <2> QED
    BY <1>9, <2>1, <2>2
<1>14. ASSUME NEW m \in DOMAIN staged', NEW n \in DOMAIN staged', m < n
       PROVE  staged'[m].key # staged'[n].key
  <2>1. CASE n \in DOMAIN staged
    <3>1. m \in DOMAIN staged /\ staged'[m] = staged[m] /\ staged'[n] = staged[n]
      BY <1>7, <1>8, <1>14, <2>1
    <3>2. m # n
      BY <1>8, <1>14
    <3> QED
      BY <3>1, <3>2, <2>1 DEF IngestInv, RowsTraceable
  <2>2. ASSUME NEW k \in DOMAIN fresh, n = Len(staged) + k, staged'[n] = StagedRow(d, fresh[k])
        PROVE  staged'[m].key # staged'[n].key
    <3>1. staged'[n].key = Key(d, fresh[k])
      BY <2>2 DEF StagedRow
    <3>2. CASE m \in DOMAIN staged /\ staged'[m] = staged[m]
      BY <1>1, <3>1, <3>2 DEF StagedKeys
    <3>3. ASSUME NEW j \in DOMAIN fresh, m = Len(staged) + j, staged'[m] = StagedRow(d, fresh[j])
          PROVE  staged'[m].key # staged'[n].key
      <4>1. j # k
        BY <1>3, <1>7, <1>14, <2>2, <3>3
      <4>2. staged'[m].key = Key(d, fresh[j])
        BY <3>3 DEF StagedRow
      <4> QED
        BY <1>1, <3>1, <4>1, <4>2 DEF Key
    <3> QED
      BY <1>9, <3>2, <3>3
  <2> QED
    BY <1>9, <2>1, <2>2
<1>15. RowsTraceable'
  <2>1. \A m, n \in DOMAIN staged' : m # n => staged'[m].key # staged'[n].key
    <3>1. \A m, n \in DOMAIN staged' : m # n => m < n \/ n < m
      BY <1>8
    <3> QED
      BY <1>14, <3>1
  <2> QED
    BY <1>13, <2>1 DEF RowsTraceable
<1>16. ASSUME staged' # staged
       PROVE  \E row \in R : Last(staged') = StagedRow(d, row) /\ Key(d, row) \notin StagedKeys
  <2>1. Len(fresh) # 0
    <3> SUFFICES ASSUME Len(fresh) = 0 PROVE FALSE
      OBVIOUS
    <3>1. added = << >>
      BY <1>5, <1>6
    <3> QED
      BY <1>2, <1>7, <1>16, <3>1, ConcatEmptySeq
  <2>2. Len(fresh) \in DOMAIN fresh /\ staged'[Len(staged')] = StagedRow(d, fresh[Len(fresh)])
    BY <1>3, <1>8, <2>1
  <2> QED
    BY <1>1, <1>3, <2>2 DEF Last
<1> QED
  BY <1>8, <1>10, <1>12, <1>15, <1>16

\* A store keeps a row that is there before the first that does not validate.
LEMMA AcceptsValid ==
  ASSUME NEW d \in Datasets
  PROVE  /\ Accept(d.rows) \in Seq(ToSet(d.rows))
         /\ \A n \in DOMAIN Accept(d.rows) : Accept(d.rows)[n].valid
         /\ (\A n \in DOMAIN d.rows : d.rows[n].valid) => Accept(d.rows) = d.rows
<1> DEFINE payload == d.rows
           R == ToSet(d.rows)
           Bad == {n \in 1 .. Len(payload) : ~payload[n].valid}
<1>1. payload \in Seq(R) /\ Len(payload) \in Nat /\ DOMAIN payload = 1 .. Len(payload)
  BY RowsOfDatasets
<1>2. Accept(payload) = IF (IF Bad # {} THEN Min(Bad) ELSE 0) = 0 THEN payload
                        ELSE SubSeq(payload, 1, (IF Bad # {} THEN Min(Bad) ELSE 0) - 1)
  BY DEF Accept, SelectInSeq
<1>3. CASE Bad = {}
  <2>1. Accept(payload) = payload
    BY <1>2, <1>3
  <2>2. \A n \in DOMAIN payload : payload[n].valid
    BY <1>1, <1>3
  <2> QED
    BY <1>1, <2>1, <2>2
<1>4. CASE Bad # {}
  <2>1. PICK first \in Bad : \A n \in Bad : first <= n
    <3>1. Bad \in SUBSET Nat
      BY <1>1
    <3> HIDE DEF Bad
    <3> QED
      BY <1>4, <3>1, LeastNumber
  <2>2. first \in 1 .. Len(payload) /\ ~payload[first].valid
    OBVIOUS
  <2>3. Min(Bad) = first
    <3>1. Bad \in SUBSET Nat
      BY <1>1
    <3> HIDE DEF Bad
    <3>2. Min(Bad) \in Bad /\ \A n \in Bad : Min(Bad) <= n
      BY <2>1 DEF Min
    <3>3. Min(Bad) \in Nat /\ first \in Nat /\ first <= Min(Bad) /\ Min(Bad) <= first
      BY <2>1, <3>1, <3>2
    <3> QED
      BY <3>3
  <2>4. Accept(payload) = SubSeq(payload, 1, first - 1)
    <3>1. (IF Bad # {} THEN Min(Bad) ELSE 0) = first /\ first # 0
      BY <1>4, <2>2, <2>3
    <3> HIDE DEF Bad
    <3> QED
      BY <1>2, <3>1
  <2>5. /\ SubSeq(payload, 1, first - 1) \in Seq(R) /\ Len(SubSeq(payload, 1, first - 1)) = first - 1
        /\ \A n \in 1 .. first - 1 : SubSeq(payload, 1, first - 1)[n] = payload[n]
    BY <1>1, <2>2
  <2>6. \A n \in 1 .. first - 1 : payload[n].valid
    <3> SUFFICES ASSUME NEW n \in 1 .. first - 1, ~payload[n].valid PROVE FALSE
      OBVIOUS
    <3>1. n \in Bad /\ ~(first <= n)
      BY <1>1, <2>2
    <3> QED
      BY <2>1, <3>1
  <2>7. ~\A n \in DOMAIN payload : payload[n].valid
    BY <1>1, <2>2
  <2>8. PICK kept : kept = SubSeq(payload, 1, first - 1)
    OBVIOUS
  <2>9. /\ kept \in Seq(R) /\ Len(kept) = first - 1 /\ Accept(payload) = kept
        /\ \A n \in 1 .. first - 1 : kept[n] = payload[n]
    BY <2>4, <2>5, <2>8
  <2>10. DOMAIN kept = 1 .. first - 1
    BY <2>2, <2>9
  <2> QED
    BY <2>6, <2>7, <2>9, <2>10
<1> QED
  BY <1>3, <1>4

\* A call begins with its payload stored.
LEMMA StartInv ==
  ASSUME IngestInv, NEW i \in Ingesters, StoreRaw(i) \/ StoreRawDataset(i)
  PROVE  IngestInv' /\ staged' = staged
<1>1. PICK d \in Datasets, place \in {"insider", "rows"} :
        /\ IF place = "insider" THEN d.store = "insiders" ELSE d.store # "insiders"
        /\ raw' = raw \cup {d}
        /\ ingest' = [ingest EXCEPT ![i] = [at |-> place, dataset |-> d, next |-> 1]]
        /\ UNCHANGED <<insiders, staged, returned>>
  <2>1. CASE StoreRaw(i)
    BY <2>1 DEF StoreRaw, Start, Stored
  <2>2. CASE StoreRawDataset(i)
    BY <2>2 DEF StoreRawDataset, Start, Stored
  <2> QED
    BY <2>1, <2>2
<1> DEFINE call == [at |-> place, dataset |-> d, next |-> 1]
<1>2. call \in CallType /\ call.at = place /\ call.dataset = d /\ call.next = 1
  BY DEF CallType
<1> HIDE DEF call
<1>3. ingest' = [ingest EXCEPT ![i] = call]
  BY <1>1 DEF call
<1>4. CallSound(call)'
  <2>1. d \in raw' /\ 1 <= Len(d.rows) + 1
    BY <1>1, RowsOfDatasets
  <2> QED
    BY <1>1, <1>2, <2>1 DEF CallSound
<1>5. StagedKeys' = StagedKeys
  BY <1>1 DEF StagedKeys
<1>6. ingest' \in [Ingesters -> CallType] /\ \A j \in Ingesters : CallSound(ingest[j])'
  BY <1>1, <1>2, <1>3, <1>4, <1>5, CallMoves
<1>7. RowsTraceable' /\ ReturnsComplete'
  BY <1>1, <1>5 DEF IngestInv, RowsTraceable, ReturnsComplete
<1> QED
  BY <1>1, <1>6, <1>7 DEF IngestInv

\* A step of a call that neither stores nor stages.
LEMMA QuietStepInv ==
  ASSUME IngestInv, NEW i \in Ingesters, NEW call \in CallType, CallSound(call)',
         ingest' = [ingest EXCEPT ![i] = call], UNCHANGED <<raw, staged>>,
         insiders \subseteq insiders', insiders' \subseteq {d.subject : d \in Datasets},
         returned' \subseteq raw,
         \A d \in returned' \ returned : \A row \in ToSet(d.rows) : Key(d, row) \in StagedKeys
  PROVE  IngestInv' /\ staged' = staged
<1>1. StagedKeys' = StagedKeys
  BY DEF StagedKeys
<1>2. ingest' \in [Ingesters -> CallType] /\ \A j \in Ingesters : CallSound(ingest[j])'
  BY <1>1, CallMoves
<1>3. RowsTraceable' /\ ReturnsComplete'
  BY <1>1 DEF IngestInv, RowsTraceable, ReturnsComplete
<1> QED
  BY <1>2, <1>3 DEF IngestInv

LEMMA DropCallInv ==
  ASSUME IngestInv, NEW i \in Ingesters, CallRaises(i),
         UNCHANGED <<raw, insiders, staged, returned>>
  PROVE  IngestInv' /\ staged' = staged
<1>1. ingest' = [ingest EXCEPT ![i] = NoCall] /\ NoCall \in CallType /\ CallSound(NoCall)'
  BY NoCallSound DEF CallRaises, NoCall, CallSound
<1> QED
  BY <1>1, QuietStepInv DEF IngestInv

LEMMA UpsertInsiderInv ==
  ASSUME IngestInv, NEW i \in Ingesters, UpsertInsider(i)
  PROVE  IngestInv' /\ staged' = staged
<1> DEFINE call == ingest[i]
           d == call.dataset
<1>1. call \in CallType /\ CallSound(call) /\ call.at = "insider"
  BY DEF IngestInv, UpsertInsider
<1>2. d \in raw /\ d \in Datasets /\ call.next = 1 /\ d.store = "insiders"
  BY <1>1 DEF CallSound, IngestInv
<1>3. CASE d.valid
  <2>1. /\ insiders' = insiders \cup {d.subject}
        /\ ingest' = [ingest EXCEPT ![i] = [call EXCEPT !.at = "rows"]]
        /\ UNCHANGED <<raw, staged, returned>>
    BY <1>3 DEF UpsertInsider
  <2>2. PICK new \in CallType :
          /\ new = [call EXCEPT !.at = "rows"]
          /\ new.at = "rows" /\ new.dataset = d /\ new.next = 1
    <3> DEFINE changed == [call EXCEPT !.at = "rows"]
    <3>1. "rows" \in {"idle", "insider", "rows"}
      OBVIOUS
    <3>2. changed \in CallType /\ changed.at = "rows" /\ changed.dataset = d /\ changed.next = 1
      BY <1>1, <1>2, <3>1, PlaceOfCall
    <3> QED
      BY <3>2
  <2>3. CallSound(new)'
    <3>1. new.next <= Len(d.rows) + 1 /\ d \in raw' /\ d.subject \in insiders'
      BY <1>2, <2>1, <2>2, RowsOfDatasets
    <3> QED
      BY <2>2, <3>1 DEF CallSound
  <2>4. ingest' = [ingest EXCEPT ![i] = new]
    BY <2>1, <2>2
  <2>5. /\ insiders \subseteq insiders' /\ insiders' \subseteq {e.subject : e \in Datasets}
        /\ returned' \subseteq raw
    BY <1>2, <2>1 DEF IngestInv
  <2> QED
    BY <2>1, <2>3, <2>4, <2>5, QuietStepInv
<1>4. CASE ~d.valid
  <2>1. CallRaises(i) /\ UNCHANGED <<raw, insiders, staged, returned>>
    BY <1>4 DEF UpsertInsider
  <2> QED
    BY <2>1, DropCallInv
<1> QED
  BY <1>3, <1>4

\* A step that stages valid rows of its dataset.
LEMMA StagingStepInv ==
  ASSUME IngestInv, NEW i \in Ingesters, NEW d \in Datasets, d = ingest[i].dataset,
         ingest[i].at = "rows", NEW chosen \in Seq(ToSet(d.rows)),
         \A n \in DOMAIN chosen : chosen[n].valid,
         StageRows(chosen, d), UNCHANGED <<raw, insiders, returned>>,
         NEW call \in CallType, ingest' = [ingest EXCEPT ![i] = call],
         \/ call = NoCall
         \/ /\ call.at = "rows" /\ call.dataset = d /\ call.next <= Len(d.rows) + 1
            /\ \A n \in 1 .. call.next - 1 :
                 n <= ingest[i].next - 1 \/ \E k \in DOMAIN chosen : d.rows[n] = chosen[k]
  PROVE  IngestInv' /\ (staged' # staged => Last(staged').dataset \notin returned)
<1>1. CallSound(ingest[i]) /\ ingest[i] \in CallType
  BY DEF IngestInv
<1>2. d \in raw /\ (d.store = "insiders" => d.subject \in insiders)
      /\ \A n \in 1 .. ingest[i].next - 1 : Key(d, d.rows[n]) \in StagedKeys
  BY <1>1 DEF CallSound
<1>3. /\ staged' \in Seq(StagedRecords) /\ RowsTraceable' /\ StagedKeys \subseteq StagedKeys'
      /\ \A n \in DOMAIN chosen : Key(d, chosen[n]) \in StagedKeys'
      /\ staged' # staged =>
           \E row \in ToSet(d.rows) : /\ Last(staged') = StagedRow(d, row)
                                      /\ Key(d, row) \notin StagedKeys
  BY <1>2, StagingOfRows
<1>4. CallSound(call)'
  <2>1. CASE call = NoCall
    BY <2>1, NoCallSound DEF NoCall, CallSound
  <2>2. CASE call # NoCall
    <3>1. ASSUME NEW n \in 1 .. call.next - 1 PROVE Key(d, d.rows[n]) \in StagedKeys'
      <4>1. ingest[i].next \in Nat /\ call.next \in Nat
        BY <1>1 DEF CallType
      <4>2. n \in 1 .. ingest[i].next - 1 \/ \E k \in DOMAIN chosen : d.rows[n] = chosen[k]
        BY <2>2, <4>1
      <4> QED
        BY <1>2, <1>3, <4>2
    <3> QED
      BY <1>2, <2>2, <3>1 DEF CallSound
  <2> QED
    BY <2>1, <2>2
<1>5. ingest' \in [Ingesters -> CallType] /\ \A j \in Ingesters : CallSound(ingest[j])'
  BY <1>3, <1>4, CallMoves
<1>6. ReturnsComplete'
  BY <1>3 DEF IngestInv, ReturnsComplete
<1>7. IngestInv'
  BY <1>3, <1>5, <1>6 DEF IngestInv
<1>8. ASSUME staged' # staged PROVE Last(staged').dataset \notin returned
  <2>1. PICK row \in ToSet(d.rows) : Last(staged') = StagedRow(d, row) /\ Key(d, row) \notin StagedKeys
    BY <1>3, <1>8
  <2>2. Last(staged').dataset = d
    BY <2>1 DEF StagedRow
  <2> QED
    BY <2>1, <2>2 DEF IngestInv, ReturnsComplete
<1> QED
  BY <1>7, <1>8

LEMMA StageRowInv ==
  ASSUME IngestInv, NEW i \in Ingesters, StageRow(i)
  PROVE  IngestInv' /\ (staged' # staged => Last(staged').dataset \notin returned)
<1> DEFINE old == ingest[i]
           d == old.dataset
           new == [old EXCEPT !.next = @ + 1]
<1>1. old \in CallType /\ CallSound(old) /\ old.at = "rows"
  BY DEF IngestInv, StageRow
<1>2. d \in raw /\ d \in Datasets
  BY <1>1 DEF CallSound, IngestInv
<1>3. old.next \in Nat \ {0} /\ old.next <= Len(d.rows) /\ Len(d.rows) \in Nat
  BY <1>1, <1>2, RowsOfDatasets DEF CallType, StageRow
<1>4. PICK row \in ToSet(d.rows) : row = d.rows[old.next]
  BY <1>2, <1>3, RowsOfDatasets
<1>5. CASE row.valid
  <2>1. /\ StageRows(<<row>>, d) /\ ingest' = [ingest EXCEPT ![i] = new]
        /\ UNCHANGED <<raw, insiders, returned>>
    BY <1>4, <1>5 DEF StageRow
  <2>2. new \in CallType /\ new.at = "rows" /\ new.dataset = d /\ new.next = old.next + 1
    BY <1>1, <1>3 DEF CallType
  <2> HIDE DEF new
  <2>3. <<row>> \in Seq(ToSet(d.rows)) /\ \A n \in DOMAIN <<row>> : <<row>>[n].valid
    BY <1>5
  <2>4. ASSUME NEW n \in 1 .. new.next - 1
        PROVE  n <= old.next - 1 \/ \E k \in DOMAIN <<row>> : d.rows[n] = <<row>>[k]
    <3>1. n <= old.next - 1 \/ n = old.next
      BY <1>3, <2>2
    <3>2. 1 \in DOMAIN <<row>> /\ <<row>>[1] = row
      OBVIOUS
    <3> QED
      BY <1>4, <3>1, <3>2
  <2>5. new.next <= Len(d.rows) + 1
    BY <1>3, <2>2
  <2>6. PICK one \in Seq(ToSet(d.rows)) : one = <<row>>
    BY <2>3
  <2> QED
    BY <1>1, <1>2, <2>1, <2>2, <2>3, <2>4, <2>5, <2>6, StagingStepInv
<1>6. CASE ~row.valid
  <2>1. CallRaises(i) /\ UNCHANGED <<raw, insiders, staged, returned>>
    BY <1>4, <1>6 DEF StageRow
  <2> QED
    BY <2>1, DropCallInv
<1> QED
  BY <1>5, <1>6

LEMMA StageStatementRowsInv ==
  ASSUME IngestInv, NEW i \in Ingesters, StageStatementRows(i)
  PROVE  IngestInv' /\ (staged' # staged => Last(staged').dataset \notin returned)
<1> DEFINE old == ingest[i]
           d == old.dataset
<1>1. old \in CallType /\ CallSound(old) /\ old.at = "rows"
  BY DEF IngestInv, StageStatementRows
<1>2. d \in raw /\ d \in Datasets
  BY <1>1 DEF CallSound, IngestInv
<1>3. Len(d.rows) \in Nat /\ DOMAIN d.rows = 1 .. Len(d.rows)
  BY <1>2, RowsOfDatasets
<1>4. PICK chosen \in Seq(ToSet(d.rows)) :
        /\ chosen = Accept(d.rows)
        /\ \A n \in DOMAIN chosen : chosen[n].valid
        /\ (\A n \in DOMAIN d.rows : d.rows[n].valid) => chosen = d.rows
  BY <1>2, AcceptsValid
<1>5. StageRows(chosen, d) /\ UNCHANGED <<raw, insiders, returned>>
  BY <1>4 DEF StageStatementRows
<1>6. CASE \A n \in DOMAIN d.rows : d.rows[n].valid
  <2>1. ingest' = [ingest EXCEPT ![i] = [old EXCEPT !.next = Len(d.rows) + 1]]
    BY <1>6 DEF StageStatementRows
  <2>2. PICK new \in CallType :
          /\ new = [old EXCEPT !.next = Len(d.rows) + 1]
          /\ new.at = "rows" /\ new.dataset = d /\ new.next = Len(d.rows) + 1
    <3> DEFINE changed == [old EXCEPT !.next = Len(d.rows) + 1]
    <3>1. Len(d.rows) + 1 \in Nat \ {0}
      BY <1>3
    <3>2. /\ changed \in CallType /\ changed.at = "rows" /\ changed.dataset = d
          /\ changed.next = Len(d.rows) + 1
      BY <1>1, <3>1, NextOfCall
    <3> QED
      BY <3>2
  <2>3. ASSUME NEW n \in 1 .. new.next - 1 PROVE \E k \in DOMAIN chosen : d.rows[n] = chosen[k]
    BY <1>3, <1>4, <1>6, <2>2
  <2>4. new.next <= Len(d.rows) + 1
    BY <1>3, <2>2
  <2>5. ingest' = [ingest EXCEPT ![i] = new]
    BY <2>1, <2>2
  <2>6. PICK e \in Datasets : e = ingest[i].dataset
    BY <1>2
  <2>7. /\ new.at = "rows" /\ new.dataset = e /\ new.next <= Len(e.rows) + 1
        /\ \A n \in 1 .. new.next - 1 :
             n <= ingest[i].next - 1 \/ \E k \in DOMAIN chosen : e.rows[n] = chosen[k]
    BY <2>2, <2>3, <2>4, <2>6
  <2>8. chosen \in Seq(ToSet(e.rows)) /\ StageRows(chosen, e) /\ ingest[i].at = "rows"
    BY <1>1, <1>4, <1>5, <2>6
  <2> QED
    BY <1>4, <1>5, <2>5, <2>6, <2>7, <2>8, StagingStepInv
<1>7. CASE ~\A n \in DOMAIN d.rows : d.rows[n].valid
  <2>1. ingest' = [ingest EXCEPT ![i] = NoCall] /\ NoCall \in CallType
    BY <1>7, NoCallSound DEF StageStatementRows, CallRaises
  <2> QED
    BY <1>1, <1>2, <1>4, <1>5, <2>1, StagingStepInv
<1> QED
  BY <1>6, <1>7

LEMMA ReturnInv ==
  ASSUME IngestInv, NEW i \in Ingesters, Return(i)
  PROVE  IngestInv' /\ staged' = staged
<1> DEFINE old == ingest[i]
           d == old.dataset
<1>1. old \in CallType /\ CallSound(old) /\ old.at = "rows" /\ old.next > Len(d.rows)
  BY DEF IngestInv, Return
<1>2. d \in raw /\ d \in Datasets
  BY <1>1 DEF CallSound, IngestInv
<1>3. \A row \in ToSet(d.rows) : Key(d, row) \in StagedKeys
  <2> SUFFICES ASSUME NEW n \in DOMAIN d.rows PROVE Key(d, d.rows[n]) \in StagedKeys
    BY DEF ToSet
  <2>1. n \in 1 .. old.next - 1
    BY <1>1, <1>2, RowsOfDatasets DEF CallType
  <2> QED
    BY <1>1, <2>1 DEF CallSound
<1>4. ingest' = [ingest EXCEPT ![i] = NoCall] /\ NoCall \in CallType /\ CallSound(NoCall)'
  BY NoCallSound DEF Return, NoCall, CallSound
<1>5. returned' = returned \cup {d} /\ UNCHANGED <<raw, insiders, staged>>
  BY DEF Return
<1> QED
  BY <1>2, <1>3, <1>4, <1>5, QuietStepInv DEF IngestInv

LEMMA IngestStep ==
  ASSUME IngestInv, [IngestNext]_ingestVars
  PROVE  IngestInv' /\ (staged' # staged => Last(staged').dataset \notin returned)
<1>1. CASE UNCHANGED ingestVars
  BY <1>1 DEF ingestVars, IngestInv, CallSound, StagedKeys, RowsTraceable, ReturnsComplete
<1>2. ASSUME NEW i \in Ingesters, InterruptIngest(i) PROVE IngestInv' /\ staged' = staged
  BY <1>2, DropCallInv DEF InterruptIngest
<1>3. CASE IngestNext
  BY <1>2, <1>3, StartInv, UpsertInsiderInv, StageRowInv, StageStatementRowsInv, ReturnInv
     DEF IngestNext
<1> QED
  BY <1>1, <1>3

LEMMA IngestInvHolds == IngestSpec => []IngestInv
<1>1. IngestInit => IngestInv
  <2> SUFFICES ASSUME IngestInit PROVE IngestInv
    OBVIOUS
  <2>1. \A i \in Ingesters : ingest[i] = NoCall /\ NoCall \in CallType /\ CallSound(NoCall)
    BY NoCallSound DEF IngestInit
  <2>2. ingest \in [Ingesters -> CallType]
    BY NoCallSound DEF IngestInit
  <2> QED
    BY <2>1, <2>2 DEF IngestInit, IngestInv, RowsTraceable, ReturnsComplete
<1>2. IngestInv /\ [IngestNext]_ingestVars => IngestInv'
  BY IngestStep
<1> QED
  BY <1>1, <1>2, PTL DEF IngestSpec

\* RerunsStageNothing holds of all datasets, threads and interruptions: once a call
\* has returned for a dataset, no call stages a row of it.
THEOREM RerunsAreIdempotent == IngestSpec => RerunsStageNothing
<1>1. IngestInv /\ [IngestNext]_ingestVars =>
        [staged' # staged => Last(staged').dataset \notin returned]_ingestVars
  BY IngestStep
<1> QED
  BY <1>1, IngestInvHolds, PTL DEF IngestSpec, RerunsStageNothing

LEMMA RowsOfTheStore == IngestInv => IngestTypeOK /\ RowsTraceable /\ ReturnsComplete
<1> SUFFICES ASSUME IngestInv PROVE IngestTypeOK
  BY DEF IngestInv
<1>1. \A n \in DOMAIN staged : staged[n].dataset \in Datasets
  <2> SUFFICES ASSUME NEW n \in DOMAIN staged PROVE staged[n].dataset \in Datasets
    OBVIOUS
  <2> QED
    BY DEF IngestInv, RowsTraceable
<1>2. \A i \in Ingesters : ingest[i] \in CallType
  BY DEF IngestInv
<1> QED
  BY <1>1, <1>2 DEF IngestInv, IngestTypeOK, CallType

------------------------------------------------------------------------------
(* The peer benchmark. *)

Outcomes == {"pending", "ok", "failed"}
Places   == {"idle", "map", "submissions", "facts", "answered", "rejected"}
Fetches  == UNION {[D -> Outcomes] : D \in SUBSET Companies}

RequestType == [at : Places, company : Companies \cup {NoCompany}, fetches : Fetches,
                peers : Seq(Companies), missing : Seq(Companies)]

\* The companies a benchmark of c fetches, and what came of them.
Fetched(c) == {c} \cup ToSet(FindPeers(c))

NamedOnce(fetches, all, peers, missing) ==
  /\ Len(peers) + Len(missing) = Len(all)
  /\ \A e \in ToSet(all) : e \in ToSet(IF fetches[e] = "ok" THEN peers ELSE missing)

RequestSound(req) ==
  /\ req.at \in {"map", "submissions"} => req.company \in Companies /\ req.fetches = << >>
  /\ req.at = "facts" => /\ req.company \in Companies
                         /\ req.fetches \in [Fetched(req.company) -> Outcomes]
  /\ req.at = "answered" =>
       /\ req.fetches[req.company] = "ok"
       /\ NamedOnce(req.fetches, FindPeers(req.company), req.peers, req.missing)
  /\ req.at = "rejected" /\ req.fetches # << >> => req.fetches[req.company] = "failed"

\* A map that could not be fetched does not stay.
BenchmarkInv ==
  /\ ticker_map \in {"none", "pending", "ready"}
  /\ request \in [Requests -> RequestType]
  /\ \A r \in Requests : RequestSound(request[r])

LEMMA PeersFound ==
  ASSUME NEW c
  PROVE  FindPeers(c) \in Seq(Companies)
<1> DEFINE Same == {n \in DOMAIN Universe : Sic[Universe[n]] = Sic[c] /\ Universe[n] # c}
           same == AtPositions(Universe, Same)
<1>1. /\ Universe \in Seq(Companies) /\ Len(Universe) \in Nat /\ MaxPeers \in Nat
      /\ Same \in SUBSET (1 .. Len(Universe))
      /\ \A n \in 1 .. Len(Universe) : Universe[n] \in Companies
  BY BenchmarkAssumption
<1>2. FindPeers(c) = IF Sic[c] = NoSic THEN << >>
                     ELSE SubSeq(same, 1, IF Len(same) < MaxPeers THEN Len(same) ELSE MaxPeers)
  BY DEF FindPeers
<1> HIDE DEF Same
<1>3. \A k \in 1 .. Cardinality(Same) : Nth(Same, k) \in Same
  BY <1>1, Positions
<1>4. Cardinality(Same) \in Nat
  BY <1>1, Positions
<1>5. same \in Seq(Companies)
  <2>1. \A k \in 1 .. Cardinality(Same) : Universe[Nth(Same, k)] \in Companies
    BY <1>1, <1>3
  <2>2. same = [k \in 1 .. Cardinality(Same) |-> Universe[Nth(Same, k)]]
    BY DEF AtPositions
  <2> HIDE DEF same
  <2> QED
    BY <1>4, <2>1, <2>2, IsASeq
<1> HIDE DEF same
<1>6. PICK end \in 0 .. Len(same) : end = IF Len(same) < MaxPeers THEN Len(same) ELSE MaxPeers
  BY <1>1, <1>5
<1>7. SubSeq(same, 1, end) \in Seq(Companies)
  BY <1>5, <1>6
<1> QED
  BY <1>2, <1>6, <1>7

\* Answered fetches part the peers in two.
LEMMA PeersParted ==
  ASSUME NEW all \in Seq(Companies), NEW fetches,
         \A n \in DOMAIN all : fetches[all[n]] \in {"ok", "failed"}
  PROVE  LET Answering(outcome) == AtPositions(all, {n \in DOMAIN all : fetches[all[n]] = outcome})
         IN  /\ Answering("ok") \in Seq(Companies) /\ Answering("failed") \in Seq(Companies)
             /\ NamedOnce(fetches, all, Answering("ok"), Answering("failed"))
<1> DEFINE In(outcome) == {n \in DOMAIN all : fetches[all[n]] = outcome}
           Answering(outcome) == AtPositions(all, In(outcome))
<1>1. /\ Len(all) \in Nat /\ DOMAIN all = 1 .. Len(all)
      /\ \A n \in 1 .. Len(all) : all[n] \in Companies
  OBVIOUS
<1>2. \A o : In(o) \in SUBSET (1 .. Len(all))
  BY <1>1
<1>3. \A o : IsFiniteSet(In(o)) /\ Cardinality(In(o)) \in Nat
  <2> HIDE DEF In
  <2> QED
    BY <1>1, <1>2, Positions
<1>4. \A o : Answering(o) \in Seq(Companies) /\ Len(Answering(o)) = Cardinality(In(o))
  <2> SUFFICES ASSUME NEW o PROVE Answering(o) \in Seq(Companies) /\ Len(Answering(o)) = Cardinality(In(o))
    OBVIOUS
  <2>1. PICK S \in SUBSET (1 .. Len(all)) : S = In(o)
    BY <1>2
  <2>2. Cardinality(S) \in Nat /\ \A k \in 1 .. Cardinality(S) : all[Nth(S, k)] \in Companies
    <3>1. Cardinality(S) \in Nat
      BY <1>3, <2>1
    <3>2. \A k \in 1 .. Cardinality(S) : Nth(S, k) \in S
      BY <1>1, Positions
    <3> QED
      BY <1>1, <3>1, <3>2
  <2>3. PICK t : t = [k \in 1 .. Cardinality(S) |-> all[Nth(S, k)]]
    OBVIOUS
  <2>4. t \in Seq(Companies) /\ Len(t) = Cardinality(S)
    BY <2>2, <2>3, IsASeq
  <2>5. Answering(o) = t
    BY <2>1, <2>3 DEF AtPositions
  <2> QED
    BY <2>1, <2>4, <2>5
<1>5. Cardinality(In("ok")) + Cardinality(In("failed")) = Len(all)
  <2> DEFINE Good == In("ok")
             Bad == In("failed")
  <2>1. Good \cup Bad = 1 .. Len(all) /\ Good \cap Bad = {}
    BY <1>1
  <2>2. IsFiniteSet(Good) /\ IsFiniteSet(Bad) /\ Cardinality(Good) \in Nat /\ Cardinality(Bad) \in Nat
    <3> HIDE DEF In
    <3> QED
      BY <1>3
  <2> HIDE DEF Good, Bad
  <2>3. Cardinality(Good \cup Bad) = Cardinality(Good) + Cardinality(Bad) - Cardinality({})
    <3>1. Cardinality(Good \cup Bad) =
            Cardinality(Good) + Cardinality(Bad) - Cardinality(Good \cap Bad)
      BY <2>2, FS_Union
    <3> QED
      BY <2>1, <3>1
  <2>4. Cardinality({}) = 0
    BY FS_EmptySet
  <2>5. Cardinality(1 .. Len(all)) = Len(all)
    BY <1>1, CountedTo
  <2>6. Cardinality(Good) + Cardinality(Bad) = Len(all)
    <3>1. Cardinality(Good \cup Bad) = Len(all)
      BY <2>1, <2>5
    <3>2. Len(all) = Cardinality(Good) + Cardinality(Bad) - 0
      BY <2>3, <2>4, <3>1
    <3> QED
      BY <2>2, <3>2
  <2> QED
    BY <2>6 DEF Good, Bad
<1>6. ASSUME NEW n \in DOMAIN all, NEW o, fetches[all[n]] = o PROVE all[n] \in ToSet(Answering(o))
  <2>1. PICK S \in SUBSET (1 .. Len(all)) : S = In(o)
    BY <1>2
  <2>2. n \in S
    BY <1>6, <2>1
  <2>3. PICK k \in 1 .. Cardinality(S) : Nth(S, k) = n
    BY <1>1, <2>2, Positions
  <2>4. k \in DOMAIN AtPositions(all, S) /\ AtPositions(all, S)[k] = all[n]
    BY <1>1, <2>3, Positions
  <2>5. Answering(o) = AtPositions(all, S)
    BY <2>1
  <2> QED
    BY <2>4, <2>5 DEF ToSet
<1>7. ASSUME NEW e \in ToSet(all)
      PROVE  e \in ToSet(IF fetches[e] = "ok" THEN Answering("ok") ELSE Answering("failed"))
  <2>1. PICK n \in DOMAIN all : all[n] = e
    BY DEF ToSet
  <2> HIDE DEF Answering
  <2> QED
    BY <1>6, <2>1
<1>8. Len(Answering("ok")) + Len(Answering("failed")) = Len(all)
  <2> HIDE DEF Answering, In
  <2> QED
    BY <1>4, <1>5
<1>9. NamedOnce(fetches, all, Answering("ok"), Answering("failed"))
  BY <1>7, <1>8 DEF NamedOnce
<1>10. Answering("ok") \in Seq(Companies) /\ Answering("failed") \in Seq(Companies)
  <2> HIDE DEF Answering, In
  <2> QED
    BY <1>4
<1> QED
  BY <1>9, <1>10

LEMMA PlaceChanges ==
  ASSUME NEW req \in RequestType, NEW at \in Places
  PROVE  /\ At(req, at) \in RequestType /\ At(req, at).at = at
         /\ At(req, at).company = req.company /\ At(req, at).fetches = req.fetches
  BY DEF RequestType, At

LEMMA FetchesChange ==
  ASSUME NEW req \in RequestType, NEW f \in Fetches, NEW a, a = [req EXCEPT !.fetches = f]
  PROVE  a \in RequestType /\ a.at = req.at /\ a.company = req.company /\ a.fetches = f
  BY DEF RequestType

LEMMA NoRequestSound ==
  /\ NoRequest \in RequestType /\ RequestSound(NoRequest)
  /\ NoRequest.at = "idle" /\ NoRequest.fetches = << >> /\ << >> \in Fetches
<1>1. << >> \in [{} -> Outcomes]
  OBVIOUS
<1>2. << >> \in Fetches
  BY <1>1 DEF Fetches
<1> QED
  BY <1>2 DEF NoRequest, RequestType, RequestSound, Places

LEMMA CompanyOfRequest ==
  ASSUME NEW c \in Companies
  PROVE  For(c) \in RequestType /\ For(c).company = c /\ For(c).fetches = << >>
<1>1. NoRequest \in RequestType /\ NoRequest.fetches = << >>
  BY NoRequestSound
<1> HIDE DEF NoRequest
<1> QED
  BY <1>1 DEF For, RequestType

\* The requests that are under way outside the facts.
LEMMA RequestBegun ==
  ASSUME NEW c \in Companies, NEW at \in {"map", "submissions", "rejected"}
  PROVE  /\ At(For(c), at) \in RequestType /\ RequestSound(At(For(c), at))
         /\ At(For(c), at).at = at /\ At(For(c), at).company = c
<1>1. /\ For(c) \in RequestType /\ For(c).company = c /\ For(c).fetches = << >>
      /\ at \in Places
  BY CompanyOfRequest DEF Places
<1> HIDE DEF At, For
<1>2. /\ At(For(c), at) \in RequestType /\ At(For(c), at).at = at
      /\ At(For(c), at).company = c /\ At(For(c), at).fetches = << >>
  BY <1>1, PlaceChanges
<1> QED
  BY <1>2 DEF RequestSound

LEMMA RequestFetching ==
  ASSUME NEW c \in Companies
  PROVE  /\ Fetching(c) \in RequestType /\ RequestSound(Fetching(c))
         /\ Fetching(c).at = "facts"
<1>1. Fetched(c) \in SUBSET Companies
  <2>1. \A n \in DOMAIN FindPeers(c) : FindPeers(c)[n] \in Companies
    BY PeersFound
  <2> QED
    BY <2>1 DEF Fetched, ToSet
<1> DEFINE f == [e \in Fetched(c) |-> "pending"]
<1>2. f \in [Fetched(c) -> Outcomes]
  BY DEF Outcomes
<1>3. f \in Fetches
  BY <1>1, <1>2 DEF Fetches
<1>4. Fetching(c) = [For(c) EXCEPT !.at = "facts", !.fetches = f]
  BY DEF Fetching, Fetched
<1> HIDE DEF f
<1>5. For(c) \in RequestType /\ For(c).company = c /\ "facts" \in Places
  BY CompanyOfRequest DEF Places
<1>6. Fetching(c) \in RequestType /\ Fetching(c).at = "facts" /\ Fetching(c).company = c
      /\ Fetching(c).fetches = f
  <2>1. PICK at \in Places : at = "facts"
    BY <1>5
  <2>2. PICK req \in RequestType : req = For(c)
    BY <1>5
  <2>3. PICK a : a = Fetching(c)
    OBVIOUS
  <2>4. a = [req EXCEPT !.at = at, !.fetches = f]
    BY <1>4, <2>1, <2>2, <2>3
  <2>5. a \in RequestType /\ a.at = at /\ a.company = req.company /\ a.fetches = f
    BY <1>3, <2>4 DEF RequestType
  <2> QED
    BY <1>5, <2>1, <2>2, <2>3, <2>5
<1> QED
  BY <1>2, <1>6 DEF RequestSound

LEMMA RequestLooked ==
  ASSUME NEW c \in Companies, NEW map
  PROVE  /\ Looked(c, map) \in RequestType /\ RequestSound(Looked(c, map))
         /\ Looked(c, map).at = "rejected" /\ map = "ready" => c \notin Listed
         /\ Looked(c, map).company = c /\ Looked(c, map).at \in {"submissions", "rejected"}
  BY RequestBegun DEF Looked

\* The answers that have come in, and what is made of them.
LEMMA FactsSettled ==
  ASSUME NEW req \in RequestType, req.company \in Companies,
         NEW f \in [Fetched(req.company) -> Outcomes], req.at = "facts"
  PROVE  SettledFacts(req, f) \in RequestType /\ RequestSound(SettledFacts(req, f))
<1> DEFINE c == req.company
           all == FindPeers(c)
           Answering(outcome) == AtPositions(all, {n \in DOMAIN all : f[all[n]] = outcome})
           new == SettledFacts(req, f)
<1>1. all \in Seq(Companies) /\ c \in Fetched(c) /\ DOMAIN f = Fetched(c)
      /\ \A n \in DOMAIN all : all[n] \in Fetched(c) /\ all[n] \in Companies
  BY PeersFound DEF Fetched, ToSet
<1>2. f \in Fetches
  <2>1. Fetched(c) \in SUBSET Companies
    BY <1>1 DEF Fetched, ToSet
  <2> QED
    BY <2>1 DEF Fetches
<1>3. "rejected" \in Places /\ "answered" \in Places
  BY DEF Places
<1>4. CASE f[c] = "failed"
  <2>1. new = [req EXCEPT !.at = "rejected", !.fetches = f]
    BY <1>4 DEF SettledFacts
  <2> HIDE DEF new
  <2>2. new \in RequestType /\ new.at = "rejected" /\ new.company = c /\ new.fetches = f
    <3>1. PICK at \in Places : at = "rejected"
      BY <1>3
    <3>2. new = [req EXCEPT !.at = at, !.fetches = f]
      BY <2>1, <3>1
    <3> QED
      BY <1>2, <3>1, <3>2 DEF RequestType
  <2>3. RequestSound(new)
    BY <1>4, <2>2 DEF RequestSound
  <2> QED
    BY <2>2, <2>3 DEF new
<1>5. CASE f[c] # "failed" /\ \E e \in DOMAIN f : f[e] = "pending"
  <2>1. new = [req EXCEPT !.fetches = f]
    BY <1>5 DEF SettledFacts
  <2> HIDE DEF new
  <2>2. new \in RequestType /\ new.at = "facts" /\ new.company = c /\ new.fetches = f
    BY <1>2, <2>1, FetchesChange
  <2>3. RequestSound(new)
    BY <2>2 DEF RequestSound
  <2> QED
    BY <2>2, <2>3 DEF new
<1>6. CASE f[c] # "failed" /\ ~\E e \in DOMAIN f : f[e] = "pending"
  <2>1. new = [req EXCEPT !.at = "answered", !.fetches = f, !.peers = Answering("ok"), !.missing = Answering("failed")]
    BY <1>6 DEF SettledFacts
  <2>2. f[c] = "ok" /\ \A n \in DOMAIN all : f[all[n]] \in {"ok", "failed"}
    BY <1>1, <1>6 DEF Outcomes
  <2>3. /\ Answering("ok") \in Seq(Companies) /\ Answering("failed") \in Seq(Companies)
        /\ NamedOnce(f, all, Answering("ok"), Answering("failed"))
    BY <1>1, <2>2, PeersParted
  <2> HIDE DEF new, Answering
  <2>4. /\ new \in RequestType /\ new.at = "answered" /\ new.company = c /\ new.fetches = f
        /\ new.peers = Answering("ok") /\ new.missing = Answering("failed")
    <3>1. PICK at \in Places : at = "answered"
      BY <1>3
    <3>2. PICK p \in Seq(Companies), m \in Seq(Companies) : p = Answering("ok") /\ m = Answering("failed")
      BY <2>3
    <3>3. new = [req EXCEPT !.at = at, !.fetches = f, !.peers = p, !.missing = m]
      BY <2>1, <3>1, <3>2
    <3> QED
      BY <1>2, <3>1, <3>2, <3>3 DEF RequestType
  <2>5. RequestSound(new)
    BY <2>2, <2>3, <2>4 DEF RequestSound
  <2> QED
    BY <2>4, <2>5 DEF new
<1> QED
  BY <1>4, <1>5, <1>6

\* A step of one request, and of the map it shares with the others.
LEMMA RequestStep ==
  ASSUME BenchmarkInv, NEW r \in Requests, NEW req \in RequestType, RequestSound(req),
         request' = [request EXCEPT ![r] = req], ticker_map' \in {"none", "pending", "ready"}
  PROVE  BenchmarkInv'
<1>1. /\ request' \in [Requests -> RequestType]
      /\ \A q \in Requests : request'[q] = req \/ request'[q] = request[q]
  BY DEF BenchmarkInv
<1>2. \A q \in Requests : RequestSound(request'[q])
  BY <1>1 DEF BenchmarkInv
<1> QED
  BY <1>1, <1>2 DEF BenchmarkInv

\* What a step owes to one that has not begun before it.
Forgotten == \A r \in Requests :
  request[r].at = "idle" /\ request'[r].at = "rejected" => request'[r].company \notin Listed

LEMMA AskInv ==
  ASSUME BenchmarkInv, NEW r \in Requests, NEW c \in Companies, Ask(r, c)
  PROVE  BenchmarkInv' /\ Forgotten
<1>1. PICK req : /\ request' = [request EXCEPT ![r] = req]
                 /\ req = IF c \in Bundled THEN Fetching(c)
                          ELSE IF Settled(ticker_map) THEN Looked(c, ticker_map)
                          ELSE At(For(c), "map")
  BY DEF Ask
<1>2. ticker_map \in {"none", "pending", "ready"}
  BY DEF BenchmarkInv
<1>3. /\ req \in RequestType /\ RequestSound(req)
      /\ req.at = "rejected" => req.company \notin Listed
  <2>1. CASE c \in Bundled
    BY <1>1, <2>1, RequestFetching
  <2>2. CASE c \notin Bundled /\ Settled(ticker_map)
    <3>1. req = Looked(c, ticker_map) /\ ticker_map = "ready"
      BY <1>1, <1>2, <2>2 DEF Settled
    <3> QED
      BY <3>1, RequestLooked
  <2>3. CASE c \notin Bundled /\ ~Settled(ticker_map)
    BY <1>1, <2>3, RequestBegun
  <2> QED
    BY <2>1, <2>2, <2>3
<1>4. ticker_map' \in {"none", "pending", "ready"}
  BY <1>2 DEF Ask
<1>5. BenchmarkInv'
  BY <1>1, <1>3, <1>4, RequestStep
<1>6. Forgotten
  BY <1>1, <1>3 DEF Forgotten, BenchmarkInv
<1> QED
  BY <1>5, <1>6

\* The map settles for all that wait for it.
LEMMA MapInv ==
  ASSUME BenchmarkInv, MapArrives \/ MapFails
  PROVE  BenchmarkInv' /\ Forgotten
<1>1. PICK map : request' = Waiting(map) /\ ticker_map' \in {"none", "ready"}
  BY DEF MapArrives, MapFails
<1>2. ASSUME NEW r \in Requests
      PROVE  /\ request'[r] \in RequestType /\ RequestSound(request'[r])
             /\ request[r].at = "idle" => request'[r] = request[r]
  <2>1. request[r] \in RequestType /\ RequestSound(request[r])
    BY DEF BenchmarkInv
  <2>2. CASE request[r].at = "map"
    <3>1. request'[r] = Looked(request[r].company, map) /\ request[r].company \in Companies
      BY <1>1, <2>1, <2>2 DEF Waiting, RequestSound
    <3>2. PICK c \in Companies : c = request[r].company
      BY <3>1
    <3> QED
      BY <2>2, <3>1, <3>2, RequestLooked
  <2>3. CASE request[r].at # "map"
    BY <1>1, <2>1, <2>3 DEF Waiting
  <2> QED
    BY <2>2, <2>3
<1>3. request' \in [Requests -> RequestType]
  BY <1>1, <1>2 DEF Waiting
<1> QED
  BY <1>1, <1>2, <1>3 DEF BenchmarkInv, Forgotten

\* The other steps of a request begin nothing.
LEMMA ProgressInv ==
  ASSUME BenchmarkInv, NEW r \in Requests,
         \/ SubmissionsArrive(r) \/ SubmissionsFail(r) \/ Render(r)
         \/ \E e \in Companies : FactsArrive(r, e, "ok") \/ FactsArrive(r, e, "failed")
  PROVE  BenchmarkInv' /\ Forgotten
<1>1. request[r] \in RequestType /\ RequestSound(request[r]) /\ request[r].at # "idle"
      /\ ticker_map' = ticker_map
  BY DEF BenchmarkInv, SubmissionsArrive, SubmissionsFail, Render, FactsArrive
<1>2. PICK old \in RequestType : old = request[r]
  BY <1>1
<1>3. PICK req : /\ request' = [request EXCEPT ![r] = req]
                 /\ req \in RequestType /\ RequestSound(req)
  <2>1. CASE SubmissionsArrive(r)
    <3>1. PICK c \in Companies : c = old.company
      BY <1>1, <1>2, <2>1 DEF SubmissionsArrive, RequestSound
    <3>2. request' = [request EXCEPT ![r] = Fetching(c)]
      BY <1>2, <2>1, <3>1 DEF SubmissionsArrive
    <3> QED
      BY <3>2, RequestFetching
  <2>2. CASE SubmissionsFail(r)
    <3>1. old.fetches = << >> /\ "rejected" \in Places
      BY <1>1, <1>2, <2>2 DEF SubmissionsFail, RequestSound, Places
    <3>2. PICK req : req = At(old, "rejected")
      OBVIOUS
    <3>3. req \in RequestType /\ req.at = "rejected" /\ req.fetches = << >>
      BY <3>1, <3>2, PlaceChanges
    <3>4. RequestSound(req)
      BY <3>3 DEF RequestSound
    <3>5. request' = [request EXCEPT ![r] = req]
      BY <1>2, <2>2, <3>2 DEF SubmissionsFail
    <3> QED
      BY <3>3, <3>4, <3>5
  <2>3. CASE Render(r)
    BY <2>3, NoRequestSound DEF Render
  <2>4. ASSUME NEW e \in Companies, NEW outcome \in {"ok", "failed"}, FactsArrive(r, e, outcome)
        PROVE  \E req : /\ request' = [request EXCEPT ![r] = req]
                        /\ req \in RequestType /\ RequestSound(req)
    <3>1. /\ old.at = "facts" /\ old.company \in Companies
          /\ old.fetches \in [Fetched(old.company) -> Outcomes]
      BY <1>1, <1>2, <2>4 DEF FactsArrive, RequestSound
    <3>2. PICK f : f = [old.fetches EXCEPT ![e] = outcome]
      OBVIOUS
    <3>3. f \in [Fetched(old.company) -> Outcomes]
      BY <3>1, <3>2 DEF Outcomes
    <3>4. request' = [request EXCEPT ![r] = SettledFacts(old, f)]
      BY <1>2, <2>4, <3>2 DEF FactsArrive
    <3> QED
      BY <3>1, <3>3, <3>4, FactsSettled
  <2> QED
    BY <2>1, <2>2, <2>3, <2>4
<1>4. BenchmarkInv'
  BY <1>1, <1>3, RequestStep DEF BenchmarkInv
<1>5. Forgotten
  BY <1>1, <1>3 DEF BenchmarkInv, Forgotten
<1> QED
  BY <1>4, <1>5

LEMMA BenchmarkInvHolds == BenchmarkSpec => []BenchmarkInv
<1>1. BenchmarkInit => BenchmarkInv
  BY NoRequestSound DEF BenchmarkInit, BenchmarkInv
<1>2. BenchmarkInv /\ [BenchmarkNext]_benchmarkVars => BenchmarkInv'
  <2>1. BenchmarkInv /\ UNCHANGED benchmarkVars => BenchmarkInv'
    BY DEF BenchmarkInv, benchmarkVars
  <2>2. BenchmarkInv /\ BenchmarkNext => BenchmarkInv'
    BY AskInv, MapInv, ProgressInv DEF BenchmarkNext
  <2> QED
    BY <2>1, <2>2
<1> QED
  BY <1>1, <1>2, PTL DEF BenchmarkSpec

\* EarlierFailuresForgotten holds of all requests and companies: a map that failed
\* turns away those that wait for it and none that asks later.
THEOREM FailuresAreForgotten == BenchmarkSpec => EarlierFailuresForgotten
<1>1. BenchmarkInv /\ [BenchmarkNext]_benchmarkVars =>
        [\A r \in Requests :
           request[r].at = "idle" /\ request'[r].at = "rejected" =>
             request'[r].company \notin Listed]_benchmarkVars
  BY AskInv, MapInv, ProgressInv DEF BenchmarkNext, Forgotten
<1> QED
  BY <1>1, BenchmarkInvHolds, PTL DEF BenchmarkSpec, EarlierFailuresForgotten

LEMMA FetchedPeers ==
  ASSUME BenchmarkInv PROVE BenchmarkTypeOK /\ PeersAccounted
<1>1. BenchmarkTypeOK
  <2>1. \A r \in Requests : request[r] \in RequestType
    BY DEF BenchmarkInv
  <2>2. \A f \in Fetches : DOMAIN f \subseteq Companies
    BY DEF Fetches
  <2> QED
    BY <2>1, <2>2 DEF BenchmarkInv, BenchmarkTypeOK, RequestType, Places
<1>2. PeersAccounted
  BY DEF BenchmarkInv, PeersAccounted, RequestSound, NamedOnce
<1> QED
  BY <1>1, <1>2

\* PeersAccounted holds of all requests, companies and failures: an answer names
\* each peer once, as fetched or as missing, and no peer's failure rejects it.
THEOREM PeersAreAccounted == BenchmarkSpec => []PeersAccounted
  BY BenchmarkInvHolds, FetchedPeers, PTL

------------------------------------------------------------------------------
(* The statement builders. *)

\* A series has a point for each place that is reported, with its last amount.
GroupedSound ==
  /\ \A n \in DOMAIN rows : Eligible(rows[n]) => Place(rows[n]) \in DOMAIN grouped
  /\ \A p \in DOMAIN grouped : \E n \in DOMAIN rows :
       /\ Eligible(rows[n]) /\ Place(rows[n]) = p /\ grouped[p] = rows[n].amount
       /\ \A k \in DOMAIN rows : Eligible(rows[k]) /\ Place(rows[k]) = p => k <= n

BuilderInv ==
  /\ rows \in Seq(NormalizedRows) /\ GroupedSound
  /\ DOMAIN ttm \subseteq FlowMetrics
  /\ builder \in {"reading", "built"}
  /\ TtmOfLastReports

LEMMA ReadRowInv ==
  ASSUME BuilderInv, NEW row \in NormalizedRows, ReadRow(row)
  PROVE  BuilderInv'
<1>1. /\ rows \in Seq(NormalizedRows) /\ Len(rows) \in Nat /\ DOMAIN rows = 1 .. Len(rows)
      /\ rows' = Append(rows, row)
      /\ grouped' = IF Eligible(row) THEN Grouped(row) ELSE grouped
      /\ UNCHANGED <<ttm, builder>> /\ builder = "reading"
  BY DEF BuilderInv, ReadRow
<1>2. /\ rows' \in Seq(NormalizedRows) /\ DOMAIN rows' = 1 .. Len(rows) + 1
      /\ rows'[Len(rows) + 1] = row
      /\ \A n \in 1 .. Len(rows) : rows'[n] = rows[n]
  BY <1>1, AppendProperties
<1> DEFINE last == Len(rows) + 1
<1>3. CASE Eligible(row)
  <2>1. grouped' = [p \in DOMAIN grouped \cup {Place(row)} |->
                      IF p = Place(row) THEN row.amount ELSE grouped[p]]
    BY <1>1, <1>3 DEF Grouped
  <2>2. ASSUME NEW n \in DOMAIN rows', Eligible(rows'[n]) PROVE Place(rows'[n]) \in DOMAIN grouped'
    <3>1. CASE n \in 1 .. Len(rows)
      BY <1>1, <1>2, <2>1, <2>2, <3>1 DEF BuilderInv, GroupedSound
    <3>2. CASE n = last
      BY <1>2, <2>1, <3>2
    <3> QED
      BY <1>1, <1>2, <3>1, <3>2
  <2>3. ASSUME NEW p \in DOMAIN grouped'
        PROVE  \E n \in DOMAIN rows' :
                 /\ Eligible(rows'[n]) /\ Place(rows'[n]) = p /\ grouped'[p] = rows'[n].amount
                 /\ \A k \in DOMAIN rows' : Eligible(rows'[k]) /\ Place(rows'[k]) = p => k <= n
    <3>1. CASE p = Place(row)
      <4>1. last \in DOMAIN rows' /\ \A k \in DOMAIN rows' : k <= last
        BY <1>1, <1>2
      <4> QED
        BY <1>2, <1>3, <2>1, <3>1, <4>1
    <3>2. CASE p # Place(row)
      <4>1. p \in DOMAIN grouped /\ grouped'[p] = grouped[p]
        BY <2>1, <3>2
      <4>2. PICK n \in DOMAIN rows :
              /\ Eligible(rows[n]) /\ Place(rows[n]) = p /\ grouped[p] = rows[n].amount
              /\ \A k \in DOMAIN rows : Eligible(rows[k]) /\ Place(rows[k]) = p => k <= n
        BY <4>1 DEF BuilderInv, GroupedSound
      <4>3. n \in DOMAIN rows' /\ rows'[n] = rows[n]
        BY <1>1, <1>2
      <4>4. \A k \in DOMAIN rows' : Eligible(rows'[k]) /\ Place(rows'[k]) = p => k <= n
        <5>1. \A k \in DOMAIN rows' : k = last \/ (k \in DOMAIN rows /\ rows'[k] = rows[k])
          BY <1>1, <1>2
        <5> QED
          BY <1>2, <3>2, <4>2, <5>1
      <4> QED
        BY <4>1, <4>2, <4>3, <4>4
    <3> QED
      BY <3>1, <3>2
  <2>4. GroupedSound'
    BY <2>2, <2>3 DEF GroupedSound, Eligible, Place
  <2> QED
    BY <1>1, <1>2, <2>4 DEF BuilderInv, TtmOfLastReports
<1>4. CASE ~Eligible(row)
  <2>1. grouped' = grouped /\ \A k \in DOMAIN rows' : Eligible(rows'[k]) => k \in DOMAIN rows /\ rows'[k] = rows[k]
    BY <1>1, <1>2, <1>4
  <2>2. \A k \in DOMAIN rows : k \in DOMAIN rows' /\ rows'[k] = rows[k]
    BY <1>1, <1>2
  <2>3. ASSUME NEW p \in DOMAIN grouped
        PROVE  \E n \in DOMAIN rows' :
                 /\ Eligible(rows'[n]) /\ Place(rows'[n]) = p /\ grouped[p] = rows'[n].amount
                 /\ \A k \in DOMAIN rows' : Eligible(rows'[k]) /\ Place(rows'[k]) = p => k <= n
    <3>1. PICK n \in DOMAIN rows :
            /\ Eligible(rows[n]) /\ Place(rows[n]) = p /\ grouped[p] = rows[n].amount
            /\ \A k \in DOMAIN rows : Eligible(rows[k]) /\ Place(rows[k]) = p => k <= n
      BY DEF BuilderInv, GroupedSound
    <3> QED
      BY <2>1, <2>2, <3>1
  <2>4. \A n \in DOMAIN rows' : Eligible(rows'[n]) => Place(rows'[n]) \in DOMAIN grouped
    BY <2>1 DEF BuilderInv, GroupedSound
  <2>5. GroupedSound'
    BY <2>1, <2>3, <2>4 DEF GroupedSound, Eligible, Place
  <2> QED
    BY <1>1, <1>2, <2>5 DEF BuilderInv, TtmOfLastReports
<1> QED
  BY <1>3, <1>4

\* Quarters are numbered without gaps, in their order.
LEMMA QuartersNumbered ==
  ASSUME NEW p \in Int \X Quarters
  PROVE  /\ Number(p) \in Int /\ Before(p) \in Int \X Quarters /\ Number(Before(p)) = Number(p) - 1
         /\ \A q \in Int \X Quarters : /\ NotAfter(p, q) <=> Number(p) <= Number(q)
                                       /\ Number(p) = Number(q) => p = q
<1>1. PICK y \in Int, k \in 1 .. 4 : p = <<y, k>>
  BY DEF Quarters
<1>2. Number(p) = 4 * y + k
  BY <1>1 DEF Number
<1>3. Before(p) \in Int \X Quarters /\ Number(Before(p)) = Number(p) - 1
  <2>1. CASE k = 1
    <3>1. Before(p) = <<y - 1, 4>>
      BY <1>1, <2>1 DEF Before
    <3> QED
      BY <1>2, <2>1, <3>1 DEF Number, Quarters
  <2>2. CASE k # 1
    <3>1. Before(p) = <<y, k - 1>> /\ k - 1 \in 1 .. 4
      BY <1>1, <2>2 DEF Before
    <3> QED
      BY <1>2, <2>2, <3>1 DEF Number, Quarters
  <2> QED
    BY <2>1, <2>2
<1>4. ASSUME NEW q \in Int \X Quarters
      PROVE  /\ NotAfter(p, q) <=> Number(p) <= Number(q)
             /\ Number(p) = Number(q) => p = q
  <2>1. PICK z \in Int, l \in 1 .. 4 : q = <<z, l>>
    BY DEF Quarters
  <2>2. Number(q) = 4 * z + l
    BY <2>1 DEF Number
  <2>3. NotAfter(p, q) <=> y < z \/ (y = z /\ k <= l)
    BY <1>1, <2>1 DEF NotAfter
  <2>4. (y < z \/ (y = z /\ k <= l)) <=> 4 * y + k <= 4 * z + l
    OBVIOUS
  <2>5. 4 * y + k = 4 * z + l => y = z /\ k = l
    OBVIOUS
  <2> QED
    BY <1>1, <1>2, <2>1, <2>2, <2>3, <2>4, <2>5
<1> QED
  BY <1>2, <1>3, <1>4

\* The rows that report a metric, and the number of the quarter each reports.
Reporting(m) == {n \in DOMAIN rows : Eligible(rows[n]) /\ rows[n].metric = m}
NumberOf(n)  == 4 * rows[n].year + rows[n].quarter
QuarterOf(n) == <<rows[n].year, rows[n].quarter>>

LEMMA PlacesReported ==
  ASSUME BuilderInv, NEW m \in FlowMetrics
  PROVE  /\ \A n \in Reporting(m) :
              /\ n \in DOMAIN rows /\ Eligible(rows[n]) /\ rows[n].metric = m
              /\ QuarterOf(n) \in Int \X Quarters
              /\ NumberOf(n) = Number(QuarterOf(n))
              /\ Place(rows[n]) = <<m, QuarterOf(n)>>
         /\ \A number : Reports(m, number) = {n \in Reporting(m) : NumberOf(n) = number}
         /\ Reported(m) = {NumberOf(n) : n \in Reporting(m)}
         /\ Periods(m) = {QuarterOf(n) : n \in Reporting(m)}
<1>1. rows \in Seq(NormalizedRows) /\ \A n \in DOMAIN rows : rows[n] \in NormalizedRows
  BY DEF BuilderInv
<1>2. \A n \in Reporting(m) :
        /\ n \in DOMAIN rows /\ Eligible(rows[n]) /\ rows[n].metric = m
        /\ QuarterOf(n) \in Int \X Quarters
        /\ NumberOf(n) = Number(QuarterOf(n))
        /\ Place(rows[n]) = <<m, QuarterOf(n)>>
  BY <1>1, BuildersAssumption DEF Reporting, Eligible, NumberOf, Number, Place, QuarterOf
<1>3. \A number : Reports(m, number) = {n \in Reporting(m) : NumberOf(n) = number}
  BY DEF Reports, Reporting, Eligible, NumberOf, Number
<1>4. Reported(m) = {NumberOf(n) : n \in Reporting(m)}
  <2>1. ASSUME NEW n \in Reporting(m) PROVE NumberOf(n) \in Reported(m)
    <3>1. n \in Reports(m, NumberOf(n)) /\ n \in DOMAIN rows
      BY <1>2, <1>3
    <3> QED
      BY <3>1 DEF Reported, NumberOf
  <2>2. ASSUME NEW number \in Reported(m) PROVE \E n \in Reporting(m) : NumberOf(n) = number
    BY <1>3 DEF Reported
  <2> QED
    BY <2>1, <2>2
<1>5. Periods(m) = {QuarterOf(n) : n \in Reporting(m)}
  <2>1. ASSUME NEW n \in Reporting(m) PROVE QuarterOf(n) \in Periods(m)
    <3>1. <<m, QuarterOf(n)>> \in DOMAIN grouped
      BY <1>2 DEF BuilderInv, GroupedSound
    <3> QED
      BY <3>1 DEF Periods
  <2>2. ASSUME NEW p \in Periods(m)
        PROVE  \E n \in Reporting(m) : p = QuarterOf(n)
    <3>1. PICK q \in DOMAIN grouped : q[1] = m /\ q[2] = p
      BY DEF Periods
    <3>2. PICK n \in DOMAIN rows : Eligible(rows[n]) /\ Place(rows[n]) = q
      BY DEF BuilderInv, GroupedSound
    <3>3. rows[n].metric = m /\ QuarterOf(n) = p
      BY <3>1, <3>2 DEF Place, QuarterOf
    <3> QED
      BY <3>2, <3>3 DEF Reporting
  <2> QED
    BY <2>1, <2>2
<1> QED
  BY <1>2, <1>3, <1>4, <1>5

\* The latest quarter of a series is the one of the largest number.
LEMMA LatestQuarter ==
  ASSUME BuilderInv, NEW m \in FlowMetrics
  PROVE  /\ Periods(m) \subseteq Int \X Quarters
         /\ Reported(m) = {Number(p) : p \in Periods(m)}
         /\ Periods(m) # {} => /\ Latest(m) \in Periods(m)
                               /\ Max(Reported(m)) = Number(Latest(m))
<1>1. Periods(m) \subseteq Int \X Quarters
  <2>1. \A n \in Reporting(m) : QuarterOf(n) \in Int \X Quarters
    BY PlacesReported
  <2> QED
    BY <2>1, PlacesReported
<1>2. Reported(m) = {Number(p) : p \in Periods(m)}
  <2>1. /\ Reported(m) = {NumberOf(n) : n \in Reporting(m)}
        /\ Periods(m) = {QuarterOf(n) : n \in Reporting(m)}
        /\ \A n \in Reporting(m) : NumberOf(n) = Number(QuarterOf(n))
    BY PlacesReported
  <2> QED
    BY <2>1
<1>3. ASSUME Periods(m) # {}
      PROVE  Latest(m) \in Periods(m) /\ Max(Reported(m)) = Number(Latest(m))
  <2> DEFINE f == [n \in Reporting(m) |-> NumberOf(n)]
  <2>1. rows \in Seq(NormalizedRows) /\ Len(rows) \in Nat /\ DOMAIN rows = 1 .. Len(rows)
    BY DEF BuilderInv
  <2>2. Reporting(m) \in SUBSET (1 .. Len(rows)) /\ Reporting(m) # {}
    <3>1. /\ Periods(m) = {QuarterOf(n) : n \in Reporting(m)}
          /\ \A n \in Reporting(m) : n \in DOMAIN rows
      BY PlacesReported
    <3> QED
      BY <1>3, <2>1, <3>1
  <2>3. f \in [Reporting(m) -> Int]
    <3>1. \A n \in Reporting(m) : NumberOf(n) \in Int
      <4>1. \A n \in Reporting(m) : QuarterOf(n) \in Int \X Quarters
                                     /\ NumberOf(n) = Number(QuarterOf(n))
        BY PlacesReported
      <4> QED
        BY <4>1, QuartersNumbered
    <3> QED
      BY <3>1
  <2>4. PICK n \in Reporting(m) : \A k \in Reporting(m) : f[k] <= f[n]
    <3> HIDE DEF f
    <3> QED
      BY <2>1, <2>2, <2>3, LargestOf
  <2>5. PICK p \in Periods(m) : p = QuarterOf(n) /\ Number(p) = NumberOf(n)
    <3>1. /\ Periods(m) = {QuarterOf(k) : k \in Reporting(m)}
          /\ NumberOf(n) = Number(QuarterOf(n))
      BY PlacesReported
    <3> QED
      BY <3>1
  <2>6. \A q \in Periods(m) : Number(q) <= Number(p)
    <3> SUFFICES ASSUME NEW q \in Periods(m) PROVE Number(q) <= Number(p)
      OBVIOUS
    <3>1. PICK k \in Reporting(m) : Number(q) = NumberOf(k)
      BY PlacesReported
    <3> QED
      BY <2>4, <2>5, <3>1
  <2>7. \A q \in Periods(m) : NotAfter(q, p)
    BY <1>1, <2>6, QuartersNumbered
  <2>8. Latest(m) \in Periods(m) /\ \A q \in Periods(m) : NotAfter(q, Latest(m))
    BY <2>7 DEF Latest
  <2>9. /\ Number(Latest(m)) \in Int /\ Number(Latest(m)) \in Reported(m)
        /\ \A number \in Reported(m) : number \in Int /\ number <= Number(Latest(m))
    <3>1. \A q \in Periods(m) : Number(q) \in Int /\ Number(q) <= Number(Latest(m))
      BY <1>1, <2>8, QuartersNumbered
    <3> QED
      BY <1>2, <2>8, <3>1
  <2>10. PICK top : top = Number(Latest(m))
    OBVIOUS
  <2>11. PICK N : N = Reported(m)
    OBVIOUS
  <2>12. Max(N) \in N /\ \A number \in N : Max(N) >= number
    <3>1. top \in N /\ \A number \in N : top >= number
      BY <2>9, <2>10, <2>11
    <3> QED
      BY <3>1 DEF Max
  <2>13. Max(N) = top
    <3>1. /\ Max(N) \in Int /\ top \in Int /\ Max(N) >= top /\ Max(N) <= top
      BY <2>9, <2>10, <2>11, <2>12
    <3> QED
      BY <3>1
  <2> QED
    BY <2>8, <2>10, <2>11, <2>13
<1> QED
  BY <1>1, <1>2, <1>3

\* What a series holds for a quarter is what its last report says.
LEMMA LastReported ==
  ASSUME BuilderInv, NEW m \in FlowMetrics, NEW p \in Periods(m)
  PROVE  grouped[<<m, p>>] \in Int /\ grouped[<<m, p>>] = LastReport(m, Number(p))
<1>1. rows \in Seq(NormalizedRows) /\ Len(rows) \in Nat /\ DOMAIN rows = 1 .. Len(rows)
      /\ \A n \in DOMAIN rows : rows[n] \in NormalizedRows
  BY DEF BuilderInv
<1>2. PICK k \in Reporting(m) : p = QuarterOf(k)
  BY PlacesReported
<1>3. <<m, p>> \in DOMAIN grouped
  <2>1. k \in DOMAIN rows /\ Eligible(rows[k]) /\ Place(rows[k]) = <<m, p>>
    BY <1>2, PlacesReported
  <2> QED
    BY <2>1 DEF BuilderInv, GroupedSound
<1>4. PICK n \in DOMAIN rows :
        /\ Eligible(rows[n]) /\ Place(rows[n]) = <<m, p>> /\ grouped[<<m, p>>] = rows[n].amount
        /\ \A i \in DOMAIN rows : Eligible(rows[i]) /\ Place(rows[i]) = <<m, p>> => i <= n
  BY <1>3 DEF BuilderInv, GroupedSound
<1>5. n \in Reporting(m) /\ QuarterOf(n) = p
  BY <1>4 DEF Place, Reporting, QuarterOf
<1>6. PICK S : S = Reports(m, Number(p))
  OBVIOUS
<1>7. n \in S
  BY <1>5, <1>6, PlacesReported
<1>8. \A i \in S : i \in DOMAIN rows /\ i <= n
  <2> SUFFICES ASSUME NEW i \in S PROVE i \in DOMAIN rows /\ i <= n
    OBVIOUS
  <2>1. i \in Reporting(m) /\ NumberOf(i) = Number(p)
    BY <1>6, PlacesReported
  <2>2. /\ i \in DOMAIN rows /\ Eligible(rows[i])
        /\ QuarterOf(i) \in Int \X Quarters
        /\ Number(QuarterOf(i)) = Number(p)
        /\ Place(rows[i]) = <<m, QuarterOf(i)>>
    BY <2>1, PlacesReported
  <2>3. QuarterOf(i) = p
    BY <2>2, LatestQuarter, QuartersNumbered
  <2> QED
    BY <1>4, <2>2, <2>3
<1>9. Max(S) = n
  <2>1. Max(S) \in S /\ \A i \in S : Max(S) >= i
    <3>1. \A i \in S : n >= i
      BY <1>1, <1>8
    <3> QED
      BY <1>7, <3>1 DEF Max
  <2>2. Max(S) \in Nat /\ n \in Nat /\ Max(S) >= n /\ Max(S) <= n
    BY <1>1, <1>7, <1>8, <2>1
  <2> QED
    BY <2>2
<1>10. rows[n].amount \in Int
  BY <1>1, <1>4, BuildersAssumption DEF Eligible
<1> QED
  BY <1>4, <1>6, <1>9, <1>10 DEF LastReport

\* The four quarters that _rolling_4q_chain walks are those of four numbers in a row.
LEMMA ChainNumbered ==
  ASSUME NEW p \in Int \X Quarters
  PROVE  /\ \A i \in Quarters : Chain(p)[i] \in Int \X Quarters /\ Number(Chain(p)[i]) = Number(p) - (i - 1)
         /\ Number(p) \in Int /\ Chain(p)[1] = p
<1>1. PICK q \in Int \X Quarters : q = Before(p)
  BY QuartersNumbered
<1>2. PICK r \in Int \X Quarters : r = Before(q)
  BY QuartersNumbered
<1>3. PICK s \in Int \X Quarters : s = Before(r)
  BY QuartersNumbered
<1>4. Chain(p) = <<p, q, r, s>>
  BY <1>1, <1>2, <1>3 DEF Chain
<1>5. /\ Number(p) \in Int /\ Number(q) = Number(p) - 1
      /\ Number(q) \in Int /\ Number(r) = Number(q) - 1
      /\ Number(r) \in Int /\ Number(s) = Number(r) - 1
  BY <1>1, <1>2, <1>3, QuartersNumbered
<1>6. Number(r) = Number(p) - 2 /\ Number(s) = Number(p) - 3
  BY <1>5
<1>7. ASSUME NEW i \in Quarters
      PROVE  Chain(p)[i] \in Int \X Quarters /\ Number(Chain(p)[i]) = Number(p) - (i - 1)
  <2>1. i = 1 \/ i = 2 \/ i = 3 \/ i = 4
    BY DEF Quarters
  <2>2. CASE i = 1
    BY <1>4, <1>5, <2>2
  <2>3. CASE i = 2
    BY <1>4, <1>5, <2>3
  <2>4. CASE i = 3
    BY <1>4, <1>6, <2>4
  <2>5. CASE i = 4
    BY <1>4, <1>6, <2>5
  <2> QED
    BY <2>1, <2>2, <2>3, <2>4, <2>5
<1> QED
  BY <1>4, <1>5, <1>7

LEMMA TtmComputed ==
  ASSUME BuilderInv, NEW m \in FlowMetrics
  PROVE  LET latest == Max(Reported(m))
             complete == Reported(m) # {} /\ {latest - k : k \in 0 .. 3} \subseteq Reported(m)
         IN  /\ HasTtm(m) <=> complete
             /\ complete => /\ Number(Output(m).as_of) = latest
                            /\ Output(m).amount = LastReport(m, latest) + LastReport(m, latest - 1)
                                 + LastReport(m, latest - 2) + LastReport(m, latest - 3)
<1> DEFINE latest == Max(Reported(m))
           rolling == {latest - k : k \in 0 .. 3}
           p == Latest(m)
<1>1. /\ Periods(m) \subseteq Int \X Quarters
      /\ Reported(m) = {Number(q) : q \in Periods(m)}
      /\ Periods(m) # {} => p \in Periods(m) /\ latest = Number(p)
  BY LatestQuarter
<1> HIDE DEF latest, p
<1>2. CASE Periods(m) = {}
  <2>1. Reported(m) = {} /\ ~HasTtm(m)
    BY <1>1, <1>2 DEF HasTtm
  <2> QED
    BY <2>1
<1>3. CASE Periods(m) # {}
  <2>1. /\ p \in Int \X Quarters /\ latest = Number(p) /\ latest \in Int /\ Reported(m) # {}
        /\ \A i \in Quarters : Chain(p)[i] \in Int \X Quarters /\ Number(Chain(p)[i]) = latest - (i - 1)
        /\ Chain(p)[1] = p
    BY <1>1, <1>3, ChainNumbered
  <2>2. ASSUME NEW q \in Int \X Quarters PROVE q \in Periods(m) <=> Number(q) \in Reported(m)
    <3>1. \A r \in Periods(m) : r \in Int \X Quarters /\ (Number(q) = Number(r) => q = r)
      BY <1>1, QuartersNumbered
    <3> QED
      BY <1>1, <3>1
  <2>3. \A i \in Quarters : Chain(p)[i] \in Periods(m) <=> latest - (i - 1) \in Reported(m)
    BY <2>1, <2>2
  <2>4. HasTtm(m) <=> \A i \in Quarters : latest - (i - 1) \in Reported(m)
    BY <1>3, <2>3 DEF HasTtm, p
  <2>5. (\A i \in Quarters : latest - (i - 1) \in Reported(m)) <=> rolling \subseteq Reported(m)
    <3>1. \A k \in 0 .. 3 : k + 1 \in Quarters /\ latest - ((k + 1) - 1) = latest - k
      BY <2>1 DEF Quarters
    <3>2. \A i \in Quarters : i - 1 \in 0 .. 3
      BY DEF Quarters
    <3> QED
      BY <3>1, <3>2
  <2>6. ASSUME \A i \in Quarters : Chain(p)[i] \in Periods(m)
        PROVE  /\ Number(Output(m).as_of) = latest
               /\ Output(m).amount = LastReport(m, latest) + LastReport(m, latest - 1)
                    + LastReport(m, latest - 2) + LastReport(m, latest - 3)
    <3>1. 1 \in Quarters /\ 2 \in Quarters /\ 3 \in Quarters /\ 4 \in Quarters
      BY DEF Quarters
    <3>2. \A i \in Quarters : grouped[<<m, Chain(p)[i]>>] = LastReport(m, latest - (i - 1))
      <4> SUFFICES ASSUME NEW i \in Quarters
                   PROVE  grouped[<<m, Chain(p)[i]>>] = LastReport(m, latest - (i - 1))
        OBVIOUS
      <4>1. PICK q \in Periods(m) : q = Chain(p)[i]
        BY <2>6
      <4>2. grouped[<<m, q>>] = LastReport(m, Number(q))
        BY LastReported
      <4> QED
        BY <2>1, <4>1, <4>2
    <3>3. /\ grouped[<<m, Chain(p)[1]>>] = LastReport(m, latest)
          /\ grouped[<<m, Chain(p)[2]>>] = LastReport(m, latest - 1)
          /\ grouped[<<m, Chain(p)[3]>>] = LastReport(m, latest - 2)
          /\ grouped[<<m, Chain(p)[4]>>] = LastReport(m, latest - 3)
      <4>1. latest - (1 - 1) = latest /\ 2 - 1 = 1 /\ 3 - 1 = 2 /\ 4 - 1 = 3
        BY <2>1
      <4> QED
        BY <3>1, <3>2, <4>1
    <3>4. /\ Output(m).as_of = Chain(p)[1]
          /\ Output(m).amount = grouped[<<m, Chain(p)[1]>>] + grouped[<<m, Chain(p)[2]>>]
               + grouped[<<m, Chain(p)[3]>>] + grouped[<<m, Chain(p)[4]>>]
      BY DEF Output, p
    <3> QED
      BY <2>1, <3>3, <3>4
  <2> QED
    BY <2>1, <2>3, <2>4, <2>5, <2>6 DEF latest
<1> QED
  BY <1>2, <1>3

LEMMA BuildInv ==
  ASSUME BuilderInv, Build
  PROVE  BuilderInv'
<1>1. /\ ttm' = [m \in {m \in FlowMetrics : HasTtm(m)} |-> Output(m)]
      /\ builder' = "built" /\ UNCHANGED <<rows, grouped>>
  BY DEF Build
<1>2. \A m : Reported(m)' = Reported(m) /\ \A number : LastReport(m, number)' = LastReport(m, number)
  BY <1>1 DEF Reported, LastReport, Reports
<1>3. ASSUME NEW m \in FlowMetrics
      PROVE  LET latest == Max(Reported(m))
                 complete == Reported(m) # {} /\ {latest - k : k \in 0 .. 3} \subseteq Reported(m)
             IN  /\ m \in DOMAIN ttm' <=> complete
                 /\ complete =>
                      /\ Number(ttm'[m].as_of) = latest
                      /\ ttm'[m].amount = LastReport(m, latest) + LastReport(m, latest - 1)
                           + LastReport(m, latest - 2) + LastReport(m, latest - 3)
  <2>1. /\ m \in DOMAIN ttm' <=> HasTtm(m)
        /\ HasTtm(m) => ttm'[m] = Output(m)
    BY <1>1
  <2> QED
    BY <2>1, TtmComputed
<1>4. TtmOfLastReports'
  BY <1>1, <1>2, <1>3 DEF TtmOfLastReports
<1>5. GroupedSound'
  BY <1>1 DEF BuilderInv, GroupedSound
<1> QED
  BY <1>1, <1>4, <1>5 DEF BuilderInv

LEMMA BuilderInvHolds == BuilderSpec => []BuilderInv
<1>1. BuilderInit => BuilderInv
  BY DEF BuilderInit, BuilderInv, GroupedSound, Nothing, TtmOfLastReports
<1>2. BuilderInv /\ [BuilderNext]_builderVars => BuilderInv'
  <2> SUFFICES ASSUME BuilderInv, [BuilderNext]_builderVars PROVE BuilderInv'
    OBVIOUS
  <2>1. CASE UNCHANGED builderVars
    <3>1. UNCHANGED <<rows, grouped, ttm, builder>>
      BY <2>1 DEF builderVars
    <3>2. GroupedSound'
      BY <3>1 DEF BuilderInv, GroupedSound
    <3>3. \A m : Reported(m)' = Reported(m) /\ \A number : LastReport(m, number)' = LastReport(m, number)
      BY <3>1 DEF Reported, LastReport, Reports
    <3>4. TtmOfLastReports'
      BY <3>1, <3>3 DEF BuilderInv, TtmOfLastReports
    <3> QED
      BY <3>1, <3>2, <3>4 DEF BuilderInv
  <2>2. CASE BuildAgain
    BY <2>2 DEF BuildAgain, BuilderInv, GroupedSound, Nothing, TtmOfLastReports
  <2> QED
    BY <2>1, <2>2, ReadRowInv, BuildInv DEF BuilderNext
<1> QED
  BY <1>1, <1>2, PTL DEF BuilderSpec

LEMMA SeriesTyped == BuilderInv => BuilderTypeOK
<1> SUFFICES ASSUME BuilderInv, NEW p \in DOMAIN grouped
             PROVE  p \in (FlowMetrics \cup StockMetrics) \X (Int \X Quarters) /\ grouped[p] \in Int
  BY DEF BuilderInv, BuilderTypeOK
<1>1. PICK n \in DOMAIN rows : Eligible(rows[n]) /\ Place(rows[n]) = p /\ grouped[p] = rows[n].amount
  BY DEF BuilderInv, GroupedSound
<1>2. rows[n] \in NormalizedRows
  BY DEF BuilderInv
<1> QED
  BY <1>1, <1>2, BuildersAssumption DEF Eligible, Place

\* TtmOfLastReports holds of all rows, in any order and number: a trailing year is
\* there exactly if its four quarters are, and is the sum of their last reports.
THEOREM TtmIsOfLastReports == BuilderSpec => []TtmOfLastReports
<1>1. BuilderInv => TtmOfLastReports
  BY DEF BuilderInv
<1> QED
  BY <1>1, BuilderInvHolds, PTL

------------------------------------------------------------------------------
(* The record keepers together. *)

\* Of each keeper, a behaviour of all is a behaviour.
LEMMA EachAlone ==
  /\ Spec => ResolverSpec /\ IngestSpec /\ NotesSpec /\ HistorySpec
  /\ Spec => BuilderSpec /\ BenchmarkSpec /\ LimiterSpec
<1>1. Init => /\ ResolverInit /\ IngestInit /\ NotesInit /\ HistoryInit
              /\ BuilderInit /\ BenchmarkInit /\ LimiterInit
  BY DEF Init
<1>2. [Next]_vars => /\ [ResolverNext]_resolverVars /\ [IngestNext]_ingestVars
                     /\ [NotesNext]_notesVars /\ [HistoryNext]_listings
                     /\ [BuilderNext]_builderVars /\ [BenchmarkNext]_benchmarkVars
                     /\ [LimiterNext]_limiterVars
  BY DEF Next, StoreNext, FigureNext, vars, stores, figures
<1> QED
  BY <1>1, <1>2, PTL DEF Spec, ResolverSpec, IngestSpec, NotesSpec, HistorySpec,
                         BuilderSpec, BenchmarkSpec, LimiterSpec

\* RowsAccountedFor holds of all datasets, notes, threads, failures and
\* interruptions: rows can be traced, returned calls are complete, notes are counted.
THEOREM AllRowsAccountedFor == Spec => []RowsAccountedFor
<1>1. IngestInv /\ NotesInv => RowsAccountedFor
  BY RowsOfTheStore, CountsOfNotes DEF RowsAccountedFor
<1> QED
  BY <1>1, EachAlone, IngestInvHolds, NotesInvHolds, PTL

\* TypeOK: stores, calls, builders, requests and windows keep their types.
THEOREM RecordsTypeCorrect == Spec => []TypeOK
<1>1. HistoryInv => HistoryTypeOK
  BY DEF HistoryInv
<1>2. /\ IngestInv => IngestTypeOK
      /\ NotesInv => NotesTypeOK
      /\ BuilderInv => BuilderTypeOK
      /\ BenchmarkInv => BenchmarkTypeOK
  BY RowsOfTheStore, CountsOfNotes, SeriesTyped, FetchedPeers
<1>3. ResolverTypeOK /\ IngestInv /\ NotesInv /\ HistoryInv
        /\ BuilderInv /\ BenchmarkInv /\ LimiterTypeOK => TypeOK
  BY <1>1, <1>2 DEF TypeOK
<1> QED
  BY <1>3, EachAlone, ResolverTypeCorrect, IngestInvHolds, NotesInvHolds, HistoryInvHolds,
     BuilderInvHolds, BenchmarkInvHolds, LimiterTypeCorrect, PTL
=============================================================================
