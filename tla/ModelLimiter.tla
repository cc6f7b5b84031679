---------------------------- MODULE ModelLimiter ----------------------------
(***************************************************************************)
(* The client-side rate limiter of one model: a request bucket, a token    *)
(* bucket and a hard block after a 429, used by worker threads.            *)
(*                                                                         *)
(* Each bucket guards itself with a lock, and ModelLimiter has none of its *)
(* own: every locked region, and every unlocked read or write, is a step,  *)
(* and the steps of the threads interleave freely.  A bucket is refilled   *)
(* when it is touched, by rate * elapsed up to its capacity; here it is    *)
(* refilled as time passes, which no touch can tell apart.                 *)
(***************************************************************************)
EXTENDS Integers, FiniteSets

CONSTANTS
  Threads,        \* worker threads
  Slot,           \* bucket units of one request
  CapR, RateR,    \* request bucket: capacity, and refill per time unit
  CapT, RateT,    \* token bucket
  Hints,          \* Retry-After values a 429 may carry; 0 for none
  MaxTime         \* bound on the clock

ASSUME LimiterAssumption ==
  /\ IsFiniteSet(Threads)
  /\ Slot \in Nat \ {0}
  /\ CapR \in Nat /\ Slot <= CapR     \* requests_per_minute >= 1
  /\ RateR \in Nat \ {0}
  /\ CapT \in Nat \ {0}
  /\ RateT \in Nat \ {0}
  /\ Hints \subseteq Nat
  /\ MaxTime \in Nat

VARIABLES
  now,
  requests, tokens, \* balances of the two buckets
  blocked,          \* _blocked_until
  at,
  est,              \* tokens the thread reserves, capped to the bucket
  hint,             \* Retry-After of the 429 the thread is handling
  seen,             \* what the thread is about to write to _blocked_until
  admitted,         \* history: requests let through
  charged,          \* history: tokens reserved, or used where that is known
  forgiven          \* history: debt dropped by draining a negative balance

threadVars == <<at, est, hint, seen>>
historyVars == <<admitted, charged, forgiven>>
limiterVars == <<now, requests, tokens, blocked, threadVars, historyVars>>

Points == {"idle", "checked", "slot", "refund", "sent", "drainR", "drainT",
           "hint", "block"}

Lesser(a, b) == IF a <= b THEN a ELSE b
Greater(a, b) == IF a >= b THEN a ELSE b

LimiterTypeOK ==
  /\ now \in Nat
  /\ requests \in 0 .. CapR
  /\ tokens \in Int /\ tokens <= CapT
  /\ blocked \in Nat
  /\ at \in [Threads -> Points]
  /\ est \in [Threads -> 0 .. CapT]
  /\ hint \in [Threads -> Hints \cup {0}]
  /\ seen \in [Threads -> Nat]
  /\ admitted \in Nat
  /\ charged \in Int
  /\ forgiven \in Nat

LimiterInit ==
  /\ now = 0
  /\ requests = CapR
  /\ tokens = CapT
  /\ blocked = 0
  /\ at = [t \in Threads |-> "idle"]
  /\ est = [t \in Threads |-> 0]
  /\ hint = [t \in Threads |-> 0]
  /\ seen = [t \in Threads |-> 0]
  /\ admitted = 0
  /\ charged = 0
  /\ forgiven = 0

Move(t, from, to) ==
  /\ at[t] = from
  /\ at' = [at EXCEPT ![t] = to]

-----------------------------------------------------------------------------
(* try_acquire                                                             *)

\* An unlocked read: a thread that finds the model blocked is refused.
RefuseBlocked(t) ==
  /\ now < blocked
  /\ at[t] = "idle"
  /\ UNCHANGED limiterVars

CheckBlocked(t, e) ==
  /\ now >= blocked
  /\ Move(t, "idle", "checked")
  /\ est' = [est EXCEPT ![t] = e]
  /\ UNCHANGED <<now, requests, tokens, blocked, hint, seen, historyVars>>

TakeSlot(t) ==
  /\ requests >= Slot
  /\ Move(t, "checked", "slot")
  /\ requests' = requests - Slot
  /\ UNCHANGED <<now, tokens, blocked, est, hint, seen, historyVars>>

RefuseSlot(t) ==
  /\ requests < Slot
  /\ Move(t, "checked", "idle")
  /\ UNCHANGED <<now, requests, tokens, blocked, est, hint, seen, historyVars>>

\* Mutated form: the balance is not looked at.
TakeTokensAnyhow(t) ==
  /\ Move(t, "slot", "sent")
  /\ tokens' = tokens - est[t]
  /\ charged' = charged + est[t]
  /\ admitted' = admitted + 1
  /\ UNCHANGED <<now, requests, blocked, est, hint, seen, forgiven>>

TakeTokens(t) ==
  /\ tokens >= est[t]
  /\ Move(t, "slot", "sent")
  /\ tokens' = tokens - est[t]
  /\ charged' = charged + est[t]
  /\ admitted' = admitted + 1
  /\ UNCHANGED <<now, requests, blocked, est, hint, seen, forgiven>>

RefuseTokens(t) ==
  /\ tokens < est[t]
  /\ Move(t, "slot", "refund")
  /\ UNCHANGED <<now, requests, tokens, blocked, est, hint, seen, historyVars>>

Refund(t) ==
  /\ Move(t, "refund", "idle")
  /\ requests' = Lesser(CapR, requests + Slot)
  /\ UNCHANGED <<now, tokens, blocked, est, hint, seen, historyVars>>

-----------------------------------------------------------------------------
(* The provider's answer: reconcile, penalize, or an error let through     *)

\* The reported usage (0 when the answer has none) is capped as the estimate is.
Reconcile(t, actual) ==
  /\ Move(t, "sent", "idle")
  /\ tokens' = Lesser(CapT, tokens - (actual - est[t]))
  /\ charged' = charged + (actual - est[t])
  /\ UNCHANGED <<now, requests, blocked, est, hint, seen, admitted, forgiven>>

\* Mutated form: the slot of a failed call is given back.
FailRefunding(t) ==
  /\ Move(t, "sent", "idle")
  /\ requests' = Lesser(CapR, requests + Slot)
  /\ UNCHANGED <<now, tokens, blocked, est, hint, seen, historyVars>>

\* Any other exception, or a stream without usage: the estimate stays charged.
Fail(t) ==
  /\ Move(t, "sent", "idle")
  /\ UNCHANGED <<now, requests, tokens, blocked, est, hint, seen, historyVars>>

Penalize(t, h) ==
  /\ Move(t, "sent", "drainR")
  /\ hint' = [hint EXCEPT ![t] = h]
  /\ UNCHANGED <<now, requests, tokens, blocked, est, seen, historyVars>>

DrainRequests(t) ==
  /\ Move(t, "drainR", "drainT")
  /\ requests' = 0
  /\ UNCHANGED <<now, tokens, blocked, est, hint, seen, historyVars>>

DrainTokens(t) ==
  /\ Move(t, "drainT", IF hint[t] > 0 THEN "hint" ELSE "idle")
  /\ tokens' = 0
  /\ forgiven' = forgiven + Greater(0, -tokens)
  /\ UNCHANGED <<now, requests, blocked, est, hint, seen, admitted, charged>>

\* max(self._blocked_until, now + retry_after), and then the assignment.
ReadBlocked(t) ==
  /\ Move(t, "hint", "block")
  /\ seen' = [seen EXCEPT ![t] = Greater(blocked, now + hint[t])]
  /\ UNCHANGED <<now, requests, tokens, blocked, est, hint, historyVars>>

WriteBlocked(t) ==
  /\ Move(t, "block", "idle")
  /\ blocked' = seen[t]
  /\ UNCHANGED <<now, requests, tokens, est, hint, seen, admitted, charged, forgiven>>

Tick ==
  /\ now < MaxTime
  /\ now' = now + 1
  /\ requests' = Lesser(CapR, requests + RateR)
  /\ tokens' = Lesser(CapT, tokens + RateT)
  /\ UNCHANGED <<blocked, threadVars, historyVars>>

LimiterNext ==
  \/ \E t \in Threads :
       \/ \E e \in 0 .. CapT : CheckBlocked(t, e) \/ Reconcile(t, e)
       \/ RefuseBlocked(t)
       \/ TakeSlot(t) \/ RefuseSlot(t)
       \/ TakeTokens(t) \/ RefuseTokens(t) \/ Refund(t)
       \/ Fail(t)
       \/ \E h \in Hints \cup {0} : Penalize(t, h)
       \/ DrainRequests(t) \/ DrainTokens(t)
       \/ ReadBlocked(t) \/ WriteBlocked(t)
  \/ Tick

LimiterSpec == LimiterInit /\ [][LimiterNext]_limiterVars

-----------------------------------------------------------------------------
(* time_until, rounded up to whole time units                              *)

Units(missing, rate) ==
  IF missing <= 0 THEN 0 ELSE (missing + rate - 1) \div rate

\* Mutated form: the block set by a 429 is left out.
TimeUntilRefilled(e) ==
  Greater(Units(Slot - requests, RateR), Units(e - tokens, RateT))

TimeUntil(e) ==
  Greater(Greater(Units(Slot - requests, RateR), Units(e - tokens, RateT)),
          blocked - now)

-----------------------------------------------------------------------------
(* Properties                                                              *)

\* However the threads interleave their holds, refunds and penalties, no more
\* requests are let through than the bucket held and was refilled with.
RequestRate == Slot * admitted <= CapR + RateR * now

\* Reservations, corrected by the usage that was reported, stay within what the
\* token bucket held and was refilled with, but for debts that a drain dropped.
TokenRate == charged + tokens <= CapT + RateT * now + forgiven

\* Both balances stay within their buckets, and neither rate is exceeded.
RatesKept == LimiterTypeOK /\ RequestRate /\ TokenRate

\* Estimates may be too low, but a call is only let through out of debt: the
\* balance is never further below zero than one full bucket per thread.
DebtBounded == tokens >= -(CapT * Cardinality(Threads))

\* Whoever waits for time_until and finds nobody else at the limiter is let
\* through: the block is over and both buckets hold enough.
WaitSuffices ==
  \A e \in 0 .. CapT :
    LET w == TimeUntil(e)
    IN  /\ now + w >= blocked
        /\ Lesser(CapR, requests + w * RateR) >= Slot
        /\ Lesser(CapT, tokens + w * RateT) >= e

=============================================================================
