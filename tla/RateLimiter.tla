----------------------------- MODULE RateLimiter -----------------------------
(***************************************************************************)
(* TunnelRateLimiter: the token bucket of one tunnel, as a function of the *)
(* calls made on it.  (The limiter of a tunnel has one bucket, because the *)
(* tunnel id is also the key, and the limiters of two tunnels share        *)
(* nothing.)  Each call holds the mutex.                                   *)
(*                                                                         *)
(* Time is counted in Second-ths of a second and a token in Second parts,  *)
(* so that rate * elapsed needs no rounding; the code uses double.         *)
(***************************************************************************)
EXTENDS Integers, Sequences

CONSTANTS
  Second,         \* time units of a second, parts of a token
  DefaultRate,    \* tokens a second of a tunnel nobody configured
  DefaultBurst,
  FallbackRate,   \* 100, for a rate that is not positive
  FallbackBurst   \* 200, for a burst of 0

ASSUME RateAssumption ==
  {Second, DefaultRate, DefaultBurst, FallbackRate, FallbackBurst} \subseteq Nat \ {0}

NoLimiter == [rate |-> 0]

\* RateLimiter(): a new limiter has no bucket; the first call fills one.
NewLimiter(rate, burst) ==
  [rate   |-> IF rate <= 0 THEN FallbackRate ELSE rate,
   burst  |-> IF burst = 0 THEN FallbackBurst ELSE burst,
   filled |-> FALSE, tokens |-> 0, last |-> 0]

\* the bucket of the key, with full capacity if there was none
WithBucket(l, t) ==
  IF l.filled THEN l
  ELSE [l EXCEPT !.filled = TRUE, !.tokens = l.burst * Second, !.last = t]

\* refill_tokens()
\* Faulty: the capacity does not bound the bucket
FaultyRefill(l, t) ==
  LET add == (t - l.last) * l.rate
  IN  IF add > 0 THEN [l EXCEPT !.tokens = l.tokens + add, !.last = t] ELSE l

Refill(l, t) ==
  LET add == (t - l.last) * l.rate
      all == l.tokens + add
      cap == l.burst * Second
  IN  IF add > 0
      THEN [l EXCEPT !.tokens = IF all < cap THEN all ELSE cap, !.last = t]
      ELSE l

\* allow_request(), with the limiter of the defaults if there is none
Limiter(l) == IF l = NoLimiter THEN NewLimiter(DefaultRate, DefaultBurst) ELSE l
Ready(l, t) == Refill(WithBucket(Limiter(l), t), t)
Admits(l, t) == Ready(l, t).tokens >= Second
AllowRequest(l, t) ==
  IF Admits(l, t) THEN [Ready(l, t) EXCEPT !.tokens = @ - Second] ELSE Ready(l, t)

\* check_limit(): the same answer, and nothing changes
CheckLimit(l, t) == ~l.filled \/ Refill(l, t).tokens >= Second

\* reset() and clear() of RateLimiter drop the bucket.
ResetBucket(l) == [l EXCEPT !.filled = FALSE]

\* One call: "allow", "set" (set_tunnel_limit), "remove" (remove_tunnel, clear)
\* or "reset" (of the limiter's key).
AfterCall(l, c) ==
  CASE c.op = "allow"  -> AllowRequest(l, c.at)
    [] c.op = "set"    -> NewLimiter(c.rate, c.burst)
    [] c.op = "remove" -> NoLimiter
    [] c.op = "reset"  -> IF l = NoLimiter THEN l ELSE ResetBucket(l)

\* the limiter after each of the calls, from none
History(calls) ==
  LET l[i \in 0..Len(calls)] == IF i = 0 THEN NoLimiter ELSE AfterCall(l[i - 1], calls[i])
  IN  l
=============================================================================
