----------------------------- MODULE RateLimiter -----------------------------
(***************************************************************************)
(* The three request limiters of control-plane/src/middleware: the deque   *)
(* of RateLimiterState and the TokenBucket of rate_limit.py, and the       *)
(* per-second counters of rate_limiter.py.                                 *)
(*                                                                         *)
(* They stand before the handlers of requests that only read: Forensics    *)
(* and ThorQL, with which they share no state.                             *)
(* None of them awaits, so a check is one step.  Time is in ticks, several *)
(* to a second, because one of the limiters rounds it to seconds.          *)
(***************************************************************************)
EXTENDS Naturals, Sequences, FiniteSets, FiniteSetsExt, Functions, Forensics, ThorQL

CONSTANTS
  Keys,            \* (client, route) pairs
  Limiters,        \* the limiters looked at: "window", "bucket", "seconds"
  TicksPerSecond,
  Window,          \* seconds: 60
  MaxCount,        \* requests per window
  Stale,           \* seconds after which _cleanup drops a counter: 120
  CleanupEvery,    \* seconds: _CLEANUP_INTERVAL
  Capacity, Rate,  \* of the TokenBucket; Rate in tokens per tick
  LastTick         \* bound of this model: the last tick

ASSUME LimiterAssumption ==
  /\ TicksPerSecond \in Nat \ {0} /\ Window \in Nat \ {0} /\ MaxCount \in Nat \ {0}
  /\ Stale \in Nat /\ Stale >= Window
  /\ Capacity \in Nat \ {0} /\ Rate \in Nat \ {0} /\ LastTick \in Nat
  /\ Limiters \subseteq {"window", "bucket", "seconds"}

VARIABLES
  limiter,            \* the limiter in use
  tick,               \* now, in ticks
  counters,           \* _counters: key -> deque of times, keys without one absent
  lastCleanup,        \* _last_cleanup
  tokens, lastCheck,  \* the TokenBucket of each key
  tokenBuckets,       \* _buckets: key -> (second -> count)
  allowed,            \* history: allowed[k]: the requests let through, Window back
  refused             \* history: refused[k]: [at, until] of the last refusal, or none

limiterVars == <<limiter, tick, counters, lastCleanup, tokens, lastCheck, tokenBuckets,
                 allowed, refused>>

Secs(s) == s * TicksPerSecond

-----------------------------------------------------------------------------
LimiterInit ==
  /\ limiter \in Limiters
  /\ tick = 0
  /\ counters = <<>>
  /\ lastCleanup = 0
  /\ tokens = [k \in Keys |-> Capacity]
  /\ lastCheck = [k \in Keys |-> 0]
  /\ tokenBuckets = [k \in Keys |-> <<>>]
  /\ allowed = [k \in Keys |-> <<>>]
  /\ refused = [k \in Keys |-> {}]

PassTime ==
  /\ tick < LastTick
  /\ tick' = tick + 1
  /\ UNCHANGED <<limiter, counters, lastCleanup, tokens, lastCheck, tokenBuckets, allowed, refused>>

(* Times before the cutoff leave at the front, up to the first that is not *)
(* (one on the cutoff still counts).                                       *)
Outdated(t) == t + Secs(Window) < tick
Evicted(ts) ==
  CHOOSE n \in 0..Len(ts) :
    (\A i \in 1..n : Outdated(ts[i])) /\ (n < Len(ts) => ~Outdated(ts[n + 1]))
InsideWindow(ts) == SubSeq(ts, Evicted(ts) + 1, Len(ts))

(* The request goes on, or is answered 429; a refusal promises that one    *)
(* may try again at the tick `until`.                                      *)
LetThrough(k) ==
  /\ allowed' = [allowed EXCEPT ![k] = Append(InsideWindow(@), tick)]
  /\ refused' = [refused EXCEPT ![k] = {}]

Refuse(k, until) ==
  /\ refused' = [refused EXCEPT ![k] = {[at |-> tick, until |-> until]}]
  /\ UNCHANGED allowed

-----------------------------------------------------------------------------
TimesOf(k) == IF k \in DOMAIN counters THEN counters[k] ELSE <<>>

(* _cleanup(): counters whose last request is older than Stale.            *)
IsStale(ts) == ts = <<>> \/ tick - ts[Len(ts)] > Secs(Stale)

Cleaned(cs) ==
  IF tick - lastCleanup > Secs(CleanupEvery)
  THEN /\ counters' = Restrict(cs, {k \in DOMAIN cs : ~IsStale(cs[k])})
       /\ lastCleanup' = tick
  ELSE counters' = cs /\ UNCHANGED lastCleanup

(* RateLimiterState.check and the answer of RateLimitMiddleware.  The      *)
(* header is int(retry) + 1 seconds.                                       *)
CheckWindow(k) ==
  LET kept == InsideWindow(TimesOf(k))
      fits == Len(kept) < MaxCount
      retry == kept[1] + Secs(Window) - tick
      new == IF fits THEN Append(kept, tick) ELSE kept
  IN /\ limiter = "window"
     /\ IF fits THEN LetThrough(k)
        ELSE Refuse(k, tick + Secs(retry \div TicksPerSecond + 1))
     /\ Cleaned([x \in DOMAIN counters \cup {k} |-> IF x = k THEN new ELSE counters[x]])
     /\ UNCHANGED <<limiter, tick, tokens, lastCheck, tokenBuckets>>

-----------------------------------------------------------------------------
(* TokenBucket.consume(1); `wait` is in ticks, rounded up.                 *)
CheckBucket(k) ==
  LET filled == Min({Capacity, tokens[k] + (tick - lastCheck[k]) * Rate})
      wait == (1 - filled + Rate - 1) \div Rate
  IN /\ limiter = "bucket"
     /\ lastCheck' = [lastCheck EXCEPT ![k] = tick]
     /\ IF filled >= 1
        THEN tokens' = [tokens EXCEPT ![k] = filled - 1] /\ LetThrough(k)
        ELSE tokens' = [tokens EXCEPT ![k] = filled] /\ Refuse(k, tick + wait)
     /\ UNCHANGED <<limiter, tick, counters, lastCleanup, tokenBuckets>>

-----------------------------------------------------------------------------
(* rate_limiter.SlidingWindowCounter.is_allowed: whole seconds.            *)
TickSecond == tick \div TicksPerSecond

Recent(b) == Restrict(b, {s \in DOMAIN b : s + Window >= TickSecond})

CheckSeconds(k) ==
  LET kept == Recent(tokenBuckets[k])
      oldest == IF DOMAIN kept = {} THEN TickSecond ELSE Min(DOMAIN kept)
      after == Max({1, Window - (TickSecond - oldest)})
      counted == [s \in DOMAIN kept \cup {TickSecond} |->
                    (IF s \in DOMAIN kept THEN kept[s] ELSE 0) + IF s = TickSecond THEN 1 ELSE 0]
  IN /\ limiter = "seconds"
     /\ IF SumFunction(kept) < MaxCount
        THEN tokenBuckets' = [tokenBuckets EXCEPT ![k] = counted] /\ LetThrough(k)
        ELSE tokenBuckets' = [tokenBuckets EXCEPT ![k] = kept] /\ Refuse(k, tick + Secs(after))
     /\ UNCHANGED <<limiter, tick, counters, lastCleanup, tokens, lastCheck>>

LimiterNext ==
  \/ PassTime
  \/ \E k \in Keys : CheckWindow(k) \/ CheckBucket(k) \/ CheckSeconds(k)

LimiterSpec == LimiterInit /\ [][LimiterNext]_limiterVars

-----------------------------------------------------------------------------
CountSince(ts, t) == Cardinality({n \in DOMAIN ts : ts[n] >= t})
Since(k, t) == CountSince(allowed[k], t)

(* The variables keep their types.                                         *)
LimiterTypeOK ==
  /\ tick \in 0..LastTick
  /\ DOMAIN counters \subseteq Keys
  /\ tokens \in [Keys -> 0..Capacity]
  /\ \A k \in Keys : Len(allowed[k]) <= MaxCount + Capacity + Rate * Secs(Window)

(* No window of time, wherever it begins, lets more than the limit pass,   *)
(* although counters are dropped by the cleanup and made anew: MaxCount    *)
(* per window, and for the bucket its capacity and what flows in.          *)
WithinLimit ==
  \A k \in Keys : \A t \in {x \in 0..tick : tick - x <= Secs(Window)} :
    /\ limiter \in {"window", "seconds"} => Since(k, t) <= MaxCount
    /\ limiter = "bucket" => Since(k, t) <= Capacity + Rate * (tick - t)

(* A refusal by the window or by the bucket names a time at which a        *)
(* request is let through, if none was before.  (Not so for the            *)
(* per-second counters: the request is refused again at that very second.) *)
RetryIsHonest ==
  \A k \in Keys : \A r \in refused[k] :
    /\ limiter = "window" =>
         Cardinality({n \in DOMAIN TimesOf(k) : TimesOf(k)[n] + Secs(Window) >= r.until}) < MaxCount
    /\ limiter = "bucket" =>
         Min({Capacity, tokens[k] + (r.until - lastCheck[k]) * Rate}) >= 1
    /\ r.until > r.at

LimitsHold == WithinLimit /\ RetryIsHonest

-----------------------------------------------------------------------------
(* The limiters and the handlers behind them.                              *)
RequestsSpec == LimiterSpec /\ ForensicsSpec /\ ThorQLSpec

(* What the API serves: a client gets no more requests through than its    *)
(* limit says, and is told a true time to wait (LimitsHold of RateLimiter, *)
(* rate_limit.py and rate_limiter.py); a hunt misses nothing it was asked  *)
(* for (ForensicsSound of Forensics, routes/forensics.py, and              *)
(* HuntingSound of ThorQL, thorql/executor.py).                            *)
RequestsSound == LimiterTypeOK /\ LimitsHold /\ ForensicsSound /\ HuntingSound
=============================================================================
