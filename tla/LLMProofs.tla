------------------------------ MODULE LLMProofs ------------------------------
(***************************************************************************)
(* Proofs about the two modules of llm/, which share no state.             *)
(* ModelLimiter: the rates a limiter keeps, for any number of threads, any *)
(* bucket sizes and rates, and every interleaving of the locked regions.   *)
(* LLMRouter, for any calls, any list of models and any budgets: a caller  *)
(* hears one model and holds headroom at one, and a model that answered    *)
(* 429 rests until every candidate has.                                    *)
(***************************************************************************)
EXTENDS LLMRouter, ModelLimiter, FiniteSetTheorems, TLAPS

(***************************************************************************)
(* The limiter                                                             *)
(***************************************************************************)

\* Threads that have taken a request slot and not yet been let through, and
\* threads that wait for the provider.
SlotHolders == {t \in Threads : at[t] \in {"slot", "refund"}}
InFlight == {t \in Threads : at[t] = "sent"}

\* The slots on hold are accounted for too.
SlotInv ==
  requests + Slot * (admitted + Cardinality(SlotHolders)) <= CapR + RateR * now

\* Each thread that waits for the provider has yet to overdraw; the others may
\* have overdrawn by a full bucket each.
DebtInv == tokens >= -(CapT * (Cardinality(Threads) - Cardinality(InFlight)))

LimiterInv == LimiterTypeOK /\ SlotInv /\ TokenRate /\ DebtInv

-----------------------------------------------------------------------------
\* Adding a thread to a set of threads, or taking one out, moves its size by one.
LEMMA ThreadCount ==
  ASSUME NEW S \in SUBSET Threads, NEW t \in Threads
  PROVE  /\ Cardinality(S) \in Nat
         /\ Cardinality(S) <= Cardinality(Threads)
         /\ Cardinality(Threads) \in Nat
         /\ t \notin S => Cardinality(S \cup {t}) = Cardinality(S) + 1
         /\ t \in S => Cardinality(S \ {t}) = Cardinality(S) - 1
<1>1. IsFiniteSet(S)
  BY LimiterAssumption, FS_Subset
<1>2. QED
  BY <1>1, LimiterAssumption, FS_Subset, FS_CardinalityType, FS_AddElement,
     FS_RemoveElement

\* The size of a set of threads is a number, and no more than that of them all.
LEMMA SizeInNat ==
  ASSUME NEW S \in SUBSET Threads
  PROVE  /\ Cardinality(S) \in Nat
         /\ Cardinality(Threads) \in Nat
         /\ Cardinality(Threads) - Cardinality(S) \in Nat
<1>1. IsFiniteSet(S) /\ Cardinality(S) <= Cardinality(Threads)
  BY LimiterAssumption, FS_Subset
<1>2. Cardinality(S) \in Nat /\ Cardinality(Threads) \in Nat
  BY <1>1, LimiterAssumption, FS_CardinalityType
<1>3. QED
  BY <1>1, <1>2

\* A step of one thread moves it, and no other, in or out of a set of threads
\* given by their control points.
LEMMA Moves ==
  ASSUME LimiterTypeOK, NEW t \in Threads, NEW from \in Points, NEW to \in Points,
         NEW A \in SUBSET Points, Move(t, from, to)
  PROVE  LET S == {u \in Threads : at[u] \in A}
             T == {u \in Threads : at'[u] \in A}
         IN  /\ from \in A /\ to \in A => T = S
             /\ from \notin A /\ to \notin A => T = S
             /\ from \in A /\ to \notin A => t \in S /\ T = S \ {t}
             /\ from \notin A /\ to \in A => t \notin S /\ T = S \cup {t}
BY DEF LimiterTypeOK, Move

\* What the clock and the bucket's parameters multiply out to.
LEMMA Products ==
  ASSUME NEW a \in Nat, NEW b \in Nat
  PROVE  /\ a * b \in Nat
         /\ a * (b + 1) = a * b + a
         /\ b >= 1 => a * (b - 1) = a * b - a
BY Z3

\* How a step of one thread moves the two counts.
LEMMA Counts ==
  ASSUME LimiterTypeOK, NEW t \in Threads, NEW from \in Points, NEW to \in Points,
         Move(t, from, to)
  PROVE  /\ Cardinality(SlotHolders') = Cardinality(SlotHolders)
               + (IF to \in {"slot", "refund"} THEN 1 ELSE 0)
               - (IF from \in {"slot", "refund"} THEN 1 ELSE 0)
         /\ Cardinality(InFlight') = Cardinality(InFlight)
               + (IF to = "sent" THEN 1 ELSE 0)
               - (IF from = "sent" THEN 1 ELSE 0)
<1>1. ASSUME NEW A \in SUBSET Points
      PROVE  Cardinality({u \in Threads : at'[u] \in A})
               = Cardinality({u \in Threads : at[u] \in A})
                   + (IF to \in A THEN 1 ELSE 0) - (IF from \in A THEN 1 ELSE 0)
  <2> DEFINE S == {u \in Threads : at[u] \in A}
             T == {u \in Threads : at'[u] \in A}
  <2>1. /\ from \in A /\ to \in A => T = S
        /\ from \notin A /\ to \notin A => T = S
        /\ from \in A /\ to \notin A => t \in S /\ T = S \ {t}
        /\ from \notin A /\ to \in A => t \notin S /\ T = S \cup {t}
    BY Moves
  <2>2. /\ Cardinality(S) \in Nat
        /\ t \notin S => Cardinality(S \cup {t}) = Cardinality(S) + 1
        /\ t \in S => Cardinality(S \ {t}) = Cardinality(S) - 1
    BY ThreadCount, S \in SUBSET Threads
  <2> HIDE DEF S, T
  <2>3. Cardinality(T) = Cardinality(S)
          + (IF to \in A THEN 1 ELSE 0) - (IF from \in A THEN 1 ELSE 0)
    <3>1. CASE from \in A /\ to \in A
      <4>1. T = S /\ Cardinality(S) \in Nat
        BY <2>1, <2>2, <3>1
      <4>2. QED
        BY <4>1, <3>1
    <3>2. CASE from \in A /\ to \notin A
      <4>1. Cardinality(T) = Cardinality(S) - 1 /\ Cardinality(S) \in Nat
        BY <2>1, <2>2, <3>2
      <4>2. QED
        BY <4>1, <3>2
    <3>3. CASE from \notin A /\ to \in A
      <4>1. Cardinality(T) = Cardinality(S) + 1 /\ Cardinality(S) \in Nat
        BY <2>1, <2>2, <3>3
      <4>2. QED
        BY <4>1, <3>3
    <3>4. CASE from \notin A /\ to \notin A
      <4>1. T = S /\ Cardinality(S) \in Nat
        BY <2>1, <2>2, <3>4
      <4>2. QED
        BY <4>1, <3>4
    <3>5. QED
      BY <3>1, <3>2, <3>3, <3>4
  <2>4. QED
    BY <2>3 DEF S, T
<1>2. {"slot", "refund"} \in SUBSET Points /\ {"sent"} \in SUBSET Points
  BY DEF Points
<1>3. /\ InFlight = {u \in Threads : at[u] \in {"sent"}}
      /\ InFlight' = {u \in Threads : at'[u] \in {"sent"}}
      /\ SlotHolders = {u \in Threads : at[u] \in {"slot", "refund"}}
      /\ SlotHolders' = {u \in Threads : at'[u] \in {"slot", "refund"}}
  BY DEF SlotHolders, InFlight
<1>4. Cardinality(SlotHolders') = Cardinality(SlotHolders)
        + (IF to \in {"slot", "refund"} THEN 1 ELSE 0)
        - (IF from \in {"slot", "refund"} THEN 1 ELSE 0)
  BY <1>1, <1>2, <1>3
<1>5. Cardinality(InFlight') = Cardinality(InFlight)
        + (IF to \in {"sent"} THEN 1 ELSE 0)
        - (IF from \in {"sent"} THEN 1 ELSE 0)
  BY <1>1, <1>2, <1>3
<1>6. QED
  BY <1>4, <1>5

-----------------------------------------------------------------------------
(* Every step keeps the invariant                                          *)

\* A Retry-After hint is a number.
LEMMA HintInNat == ASSUME LimiterTypeOK, NEW t \in Threads PROVE hint[t] \in Nat
<1>1. hint[t] \in Hints \cup {0}
  BY DEF LimiterTypeOK
<1>2. Hints \cup {0} \subseteq Nat
  BY LimiterAssumption
<1>3. QED
  BY <1>1, <1>2

\* The balances stay within the buckets, whoever touches them.
LEMMA LimiterTypeStep == LimiterTypeOK /\ [LimiterNext]_limiterVars => LimiterTypeOK'
<1> SUFFICES ASSUME LimiterTypeOK, [LimiterNext]_limiterVars PROVE LimiterTypeOK'
  OBVIOUS
<1> USE LimiterAssumption DEF LimiterTypeOK, Points, Lesser, Greater, threadVars, historyVars
<1>1. ASSUME NEW t \in Threads, NEW e \in 0 .. CapT, CheckBlocked(t, e)
      PROVE  LimiterTypeOK'
  BY <1>1 DEF CheckBlocked, Move
<1>2. ASSUME NEW t \in Threads, RefuseBlocked(t)
      PROVE  LimiterTypeOK'
  BY <1>2 DEF RefuseBlocked, limiterVars
<1>3. ASSUME NEW t \in Threads, TakeSlot(t)
      PROVE  LimiterTypeOK'
  BY <1>3 DEF TakeSlot, Move
<1>4. ASSUME NEW t \in Threads, RefuseSlot(t)
      PROVE  LimiterTypeOK'
  BY <1>4 DEF RefuseSlot, Move
<1>5. ASSUME NEW t \in Threads, TakeTokens(t)
      PROVE  LimiterTypeOK'
  BY <1>5 DEF TakeTokens, Move
<1>6. ASSUME NEW t \in Threads, RefuseTokens(t)
      PROVE  LimiterTypeOK'
  BY <1>6 DEF RefuseTokens, Move
<1>7. ASSUME NEW t \in Threads, Refund(t)
      PROVE  LimiterTypeOK'
  BY <1>7 DEF Refund, Move
<1>8. ASSUME NEW t \in Threads, NEW e \in 0 .. CapT, Reconcile(t, e)
      PROVE  LimiterTypeOK'
  BY <1>8 DEF Reconcile, Move
<1>9. ASSUME NEW t \in Threads, Fail(t)
      PROVE  LimiterTypeOK'
  BY <1>9 DEF Fail, Move
<1>10. ASSUME NEW t \in Threads, NEW h \in Hints \cup {0}, Penalize(t, h)
      PROVE  LimiterTypeOK'
  BY <1>10 DEF Penalize, Move
<1>11. ASSUME NEW t \in Threads, DrainRequests(t)
      PROVE  LimiterTypeOK'
  BY <1>11 DEF DrainRequests, Move
<1>12. ASSUME NEW t \in Threads, DrainTokens(t)
      PROVE  LimiterTypeOK'
  BY <1>12 DEF DrainTokens, Move
<1>13. ASSUME NEW t \in Threads, ReadBlocked(t)
      PROVE  LimiterTypeOK'
  <2>1. hint[t] \in Nat
    BY HintInNat
  <2>2. now + hint[t] \in Nat
    BY <2>1
  <2>3. (IF blocked >= now + hint[t] THEN blocked ELSE now + hint[t]) \in Nat
    BY <2>2
  <2>4. at' \in [Threads -> Points]
    BY <1>13 DEF ReadBlocked, Move
  <2>5. seen' \in [Threads -> Nat]
    BY <1>13, <2>3 DEF ReadBlocked
  <2>6. QED
    BY <1>13, <2>4, <2>5 DEF ReadBlocked
<1>14. ASSUME NEW t \in Threads, WriteBlocked(t)
      PROVE  LimiterTypeOK'
  BY <1>14 DEF WriteBlocked, Move
<1>15. CASE Tick
  BY <1>15 DEF Tick
<1>16. CASE UNCHANGED limiterVars
  BY <1>16 DEF limiterVars
<1>17. QED
  BY <1>1, <1>2, <1>3, <1>4, <1>5, <1>6, <1>7, <1>8, <1>9,
     <1>10, <1>11, <1>12, <1>13, <1>14, <1>15, <1>16 DEF LimiterNext

\* Slots taken, refunded and spent balance against the clock.
LEMMA SlotStep == LimiterTypeOK /\ SlotInv /\ [LimiterNext]_limiterVars => SlotInv'
<1> SUFFICES ASSUME LimiterTypeOK, SlotInv, [LimiterNext]_limiterVars PROVE SlotInv'
  OBVIOUS
<1> USE LimiterAssumption DEF LimiterTypeOK, SlotInv, threadVars, historyVars
<1>a. Cardinality(SlotHolders) \in Nat
  BY SizeInNat DEF SlotHolders
<1>b. Cardinality(SlotHolders') \in Nat
  BY SizeInNat DEF SlotHolders
<1>1. ASSUME NEW t \in Threads, NEW e \in 0 .. CapT, CheckBlocked(t, e)
      PROVE  SlotInv'
  <2>1. Cardinality(SlotHolders') = Cardinality(SlotHolders)
    BY <1>1, <1>a, Counts DEF CheckBlocked, Points
  <2>2. QED
    BY <1>1, <2>1, <1>a DEF CheckBlocked
<1>2. ASSUME NEW t \in Threads, RefuseBlocked(t)
      PROVE  SlotInv'
  BY <1>2 DEF RefuseBlocked, limiterVars, SlotHolders
<1>3. ASSUME NEW t \in Threads, TakeSlot(t)
      PROVE  SlotInv'
  <2>1. Cardinality(SlotHolders') = Cardinality(SlotHolders) + 1
    BY <1>3, <1>a, Counts DEF TakeSlot, Points
  <2>2. Slot * ((admitted + Cardinality(SlotHolders)) + 1)
          = Slot * (admitted + Cardinality(SlotHolders)) + Slot
    BY Products, <1>a
  <2>3. QED
    BY <1>3, <2>1, <2>2, <1>a DEF TakeSlot
<1>4. ASSUME NEW t \in Threads, RefuseSlot(t)
      PROVE  SlotInv'
  <2>1. Cardinality(SlotHolders') = Cardinality(SlotHolders)
    BY <1>4, <1>a, Counts DEF RefuseSlot, Points
  <2>2. QED
    BY <1>4, <2>1, <1>a DEF RefuseSlot
<1>5. ASSUME NEW t \in Threads, TakeTokens(t)
      PROVE  SlotInv'
  <2>1. Cardinality(SlotHolders') = Cardinality(SlotHolders) - 1
    BY <1>5, <1>a, Counts DEF TakeTokens, Points
  <2>2. QED
    BY <1>5, <2>1, <1>a DEF TakeTokens
<1>6. ASSUME NEW t \in Threads, RefuseTokens(t)
      PROVE  SlotInv'
  <2>1. Cardinality(SlotHolders') = Cardinality(SlotHolders)
    BY <1>6, <1>a, Counts DEF RefuseTokens, Points
  <2>2. QED
    BY <1>6, <2>1, <1>a DEF RefuseTokens
<1>7. ASSUME NEW t \in Threads, Refund(t)
      PROVE  SlotInv'
  <2>1. Cardinality(SlotHolders') = Cardinality(SlotHolders) - 1
    BY <1>7, <1>a, Counts DEF Refund, Points
  <2>2. admitted + Cardinality(SlotHolders) >= 1
    BY <2>1, <1>a, <1>b
  <2>3. Slot * ((admitted + Cardinality(SlotHolders)) - 1)
          = Slot * (admitted + Cardinality(SlotHolders)) - Slot
    BY <2>2, Products, <1>a
  <2>4. QED
    BY <1>7, <2>1, <2>3, <1>a DEF Refund, Lesser
<1>8. ASSUME NEW t \in Threads, NEW e \in 0 .. CapT, Reconcile(t, e)
      PROVE  SlotInv'
  <2>1. Cardinality(SlotHolders') = Cardinality(SlotHolders)
    BY <1>8, <1>a, Counts DEF Reconcile, Points
  <2>2. QED
    BY <1>8, <2>1, <1>a DEF Reconcile
<1>9. ASSUME NEW t \in Threads, Fail(t)
      PROVE  SlotInv'
  <2>1. Cardinality(SlotHolders') = Cardinality(SlotHolders)
    BY <1>9, <1>a, Counts DEF Fail, Points
  <2>2. QED
    BY <1>9, <2>1, <1>a DEF Fail
<1>10. ASSUME NEW t \in Threads, NEW h \in Hints \cup {0}, Penalize(t, h)
      PROVE  SlotInv'
  <2>1. Cardinality(SlotHolders') = Cardinality(SlotHolders)
    BY <1>10, <1>a, Counts DEF Penalize, Points
  <2>2. QED
    BY <1>10, <2>1, <1>a DEF Penalize
<1>11. ASSUME NEW t \in Threads, DrainRequests(t)
      PROVE  SlotInv'
  <2>1. Cardinality(SlotHolders') = Cardinality(SlotHolders)
    BY <1>11, <1>a, Counts DEF DrainRequests, Points
  <2>2. QED
    BY <1>11, <2>1, <1>a DEF DrainRequests
<1>12. ASSUME NEW t \in Threads, DrainTokens(t)
      PROVE  SlotInv'
  <2>1. Cardinality(SlotHolders') = Cardinality(SlotHolders)
    BY <1>12, <1>a, Counts DEF DrainTokens, Points
  <2>2. QED
    BY <1>12, <2>1, <1>a DEF DrainTokens
<1>13. ASSUME NEW t \in Threads, ReadBlocked(t)
      PROVE  SlotInv'
  <2>1. Cardinality(SlotHolders') = Cardinality(SlotHolders)
    BY <1>13, <1>a, Counts DEF ReadBlocked, Points
  <2>2. QED
    BY <1>13, <2>1, <1>a DEF ReadBlocked
<1>14. ASSUME NEW t \in Threads, WriteBlocked(t)
      PROVE  SlotInv'
  <2>1. Cardinality(SlotHolders') = Cardinality(SlotHolders)
    BY <1>14, <1>a, Counts DEF WriteBlocked, Points
  <2>2. QED
    BY <1>14, <2>1, <1>a DEF WriteBlocked
<1>15. CASE Tick
  <2>1. RateR * (now + 1) = RateR * now + RateR
    BY Products
  <2>2. SlotHolders' = SlotHolders
    BY <1>15 DEF Tick, SlotHolders
  <2>3. QED
    BY <1>15, <1>a, <2>1, <2>2 DEF Tick, Lesser
<1>16. CASE UNCHANGED limiterVars
  BY <1>16 DEF limiterVars, SlotHolders
<1>17. QED
  BY <1>1, <1>2, <1>3, <1>4, <1>5, <1>6, <1>7, <1>8, <1>9,
     <1>10, <1>11, <1>12, <1>13, <1>14, <1>15, <1>16 DEF LimiterNext

\* What is charged leaves the bucket, and only a drain writes a debt off.
LEMMA TokenStep == LimiterTypeOK /\ TokenRate /\ [LimiterNext]_limiterVars => TokenRate'
<1> SUFFICES ASSUME LimiterTypeOK, TokenRate, [LimiterNext]_limiterVars PROVE TokenRate'
  OBVIOUS
<1> USE LimiterAssumption DEF LimiterTypeOK, TokenRate, threadVars, historyVars, Lesser, Greater
<1>1. ASSUME NEW t \in Threads, NEW e \in 0 .. CapT, CheckBlocked(t, e)
      PROVE  TokenRate'
  BY <1>1 DEF CheckBlocked, Move
<1>2. ASSUME NEW t \in Threads, RefuseBlocked(t)
      PROVE  TokenRate'
  BY <1>2 DEF RefuseBlocked, limiterVars
<1>3. ASSUME NEW t \in Threads, TakeSlot(t)
      PROVE  TokenRate'
  BY <1>3 DEF TakeSlot, Move
<1>4. ASSUME NEW t \in Threads, RefuseSlot(t)
      PROVE  TokenRate'
  BY <1>4 DEF RefuseSlot, Move
<1>5. ASSUME NEW t \in Threads, TakeTokens(t)
      PROVE  TokenRate'
  BY <1>5 DEF TakeTokens, Move
<1>6. ASSUME NEW t \in Threads, RefuseTokens(t)
      PROVE  TokenRate'
  BY <1>6 DEF RefuseTokens, Move
<1>7. ASSUME NEW t \in Threads, Refund(t)
      PROVE  TokenRate'
  BY <1>7 DEF Refund, Move
<1>8. ASSUME NEW t \in Threads, NEW e \in 0 .. CapT, Reconcile(t, e)
      PROVE  TokenRate'
  BY <1>8 DEF Reconcile, Move
<1>9. ASSUME NEW t \in Threads, Fail(t)
      PROVE  TokenRate'
  BY <1>9 DEF Fail, Move
<1>10. ASSUME NEW t \in Threads, NEW h \in Hints \cup {0}, Penalize(t, h)
      PROVE  TokenRate'
  BY <1>10 DEF Penalize, Move
<1>11. ASSUME NEW t \in Threads, DrainRequests(t)
      PROVE  TokenRate'
  BY <1>11 DEF DrainRequests, Move
<1>12. ASSUME NEW t \in Threads, DrainTokens(t)
      PROVE  TokenRate'
  BY <1>12 DEF DrainTokens, Move
<1>13. ASSUME NEW t \in Threads, ReadBlocked(t)
      PROVE  TokenRate'
  BY <1>13 DEF ReadBlocked, Move
<1>14. ASSUME NEW t \in Threads, WriteBlocked(t)
      PROVE  TokenRate'
  BY <1>14 DEF WriteBlocked, Move
<1>15. CASE Tick
  <2>1. RateT * (now + 1) = RateT * now + RateT
    BY Products
  <2>2. QED
    BY <1>15, <2>1 DEF Tick
<1>16. CASE UNCHANGED limiterVars
  BY <1>16 DEF limiterVars
<1>17. QED
  BY <1>1, <1>2, <1>3, <1>4, <1>5, <1>6, <1>7, <1>8, <1>9,
     <1>10, <1>11, <1>12, <1>13, <1>14, <1>15, <1>16 DEF LimiterNext

\* A thread overdraws at most once for each time it was let through out of debt.
LEMMA DebtStep == LimiterTypeOK /\ DebtInv /\ [LimiterNext]_limiterVars => DebtInv'
<1> SUFFICES ASSUME LimiterTypeOK, DebtInv, [LimiterNext]_limiterVars PROVE DebtInv'
  OBVIOUS
<1> USE LimiterAssumption DEF LimiterTypeOK, DebtInv, threadVars, historyVars
<1>s. /\ Cardinality(Threads) \in Nat
      /\ Cardinality(InFlight) \in Nat
      /\ Cardinality(InFlight') \in Nat
  BY SizeInNat DEF InFlight
<1>a. Cardinality(Threads) - Cardinality(InFlight) \in Nat
  BY SizeInNat DEF InFlight
<1>b. Cardinality(Threads) - Cardinality(InFlight') \in Nat
  BY SizeInNat DEF InFlight
<1>1. ASSUME NEW t \in Threads, NEW e \in 0 .. CapT, CheckBlocked(t, e)
      PROVE  DebtInv'
  <2>1. Cardinality(InFlight') = Cardinality(InFlight)
    BY <1>1, SizeInNat, Counts DEF CheckBlocked, Points, InFlight
  <2>2. QED
    BY <1>1, <2>1, <1>a DEF CheckBlocked
<1>2. ASSUME NEW t \in Threads, RefuseBlocked(t)
      PROVE  DebtInv'
  BY <1>2 DEF RefuseBlocked, limiterVars, InFlight
<1>3. ASSUME NEW t \in Threads, TakeSlot(t)
      PROVE  DebtInv'
  <2>1. Cardinality(InFlight') = Cardinality(InFlight)
    BY <1>3, SizeInNat, Counts DEF TakeSlot, Points, InFlight
  <2>2. QED
    BY <1>3, <2>1, <1>a DEF TakeSlot
<1>4. ASSUME NEW t \in Threads, RefuseSlot(t)
      PROVE  DebtInv'
  <2>1. Cardinality(InFlight') = Cardinality(InFlight)
    BY <1>4, SizeInNat, Counts DEF RefuseSlot, Points, InFlight
  <2>2. QED
    BY <1>4, <2>1, <1>a DEF RefuseSlot
<1>5. ASSUME NEW t \in Threads, TakeTokens(t)
      PROVE  DebtInv'
  <2>1. Cardinality(InFlight') = Cardinality(InFlight) + 1
    BY <1>5, SizeInNat, Counts DEF TakeTokens, Points, InFlight
  <2>2. CapT * (Cardinality(Threads) - Cardinality(InFlight')) \in Nat
    BY Products, <1>b
  <2>3. QED
    BY <1>5, <2>2 DEF TakeTokens
<1>6. ASSUME NEW t \in Threads, RefuseTokens(t)
      PROVE  DebtInv'
  <2>1. Cardinality(InFlight') = Cardinality(InFlight)
    BY <1>6, SizeInNat, Counts DEF RefuseTokens, Points, InFlight
  <2>2. QED
    BY <1>6, <2>1, <1>a DEF RefuseTokens
<1>7. ASSUME NEW t \in Threads, Refund(t)
      PROVE  DebtInv'
  <2>1. Cardinality(InFlight') = Cardinality(InFlight)
    BY <1>7, SizeInNat, Counts DEF Refund, Points, InFlight
  <2>2. QED
    BY <1>7, <2>1, <1>a DEF Refund
<1>8. ASSUME NEW t \in Threads, NEW e \in 0 .. CapT, Reconcile(t, e)
      PROVE  DebtInv'
  <2>1. Cardinality(InFlight') = Cardinality(InFlight) - 1
    BY <1>8, SizeInNat, Counts DEF Reconcile, Points, InFlight
  <2>2. CapT * ((Cardinality(Threads) - Cardinality(InFlight)) + 1)
          = CapT * (Cardinality(Threads) - Cardinality(InFlight)) + CapT
    BY Products, <1>a
  <2>3. Cardinality(Threads) - Cardinality(InFlight')
          = (Cardinality(Threads) - Cardinality(InFlight)) + 1
    BY <2>1, <1>s
  <2>4. QED
    BY <1>8, <2>2, <2>3, <1>a DEF Reconcile, Lesser
<1>9. ASSUME NEW t \in Threads, Fail(t)
      PROVE  DebtInv'
  <2>1. Cardinality(InFlight') = Cardinality(InFlight) - 1
    BY <1>9, SizeInNat, Counts DEF Fail, Points, InFlight
  <2>2. CapT * ((Cardinality(Threads) - Cardinality(InFlight)) + 1)
          = CapT * (Cardinality(Threads) - Cardinality(InFlight)) + CapT
    BY Products, <1>a
  <2>3. Cardinality(Threads) - Cardinality(InFlight')
          = (Cardinality(Threads) - Cardinality(InFlight)) + 1
    BY <2>1, <1>s
  <2>4. QED
    BY <1>9, <2>2, <2>3, <1>a DEF Fail, Lesser
<1>10. ASSUME NEW t \in Threads, NEW h \in Hints \cup {0}, Penalize(t, h)
      PROVE  DebtInv'
  <2>1. Cardinality(InFlight') = Cardinality(InFlight) - 1
    BY <1>10, SizeInNat, Counts DEF Penalize, Points, InFlight
  <2>2. CapT * ((Cardinality(Threads) - Cardinality(InFlight)) + 1)
          = CapT * (Cardinality(Threads) - Cardinality(InFlight)) + CapT
    BY Products, <1>a
  <2>3. Cardinality(Threads) - Cardinality(InFlight')
          = (Cardinality(Threads) - Cardinality(InFlight)) + 1
    BY <2>1, <1>s
  <2>4. QED
    BY <1>10, <2>2, <2>3, <1>a DEF Penalize, Lesser
<1>11. ASSUME NEW t \in Threads, DrainRequests(t)
      PROVE  DebtInv'
  <2>1. Cardinality(InFlight') = Cardinality(InFlight)
    BY <1>11, SizeInNat, Counts DEF DrainRequests, Points, InFlight
  <2>2. QED
    BY <1>11, <2>1, <1>a DEF DrainRequests
<1>12. ASSUME NEW t \in Threads, DrainTokens(t)
      PROVE  DebtInv'
  <2>1. Cardinality(InFlight') = Cardinality(InFlight)
    BY <1>12, SizeInNat, Counts DEF DrainTokens, Points, InFlight
  <2>2. CapT * (Cardinality(Threads) - Cardinality(InFlight')) \in Nat
    BY Products, <1>b
  <2>3. QED
    BY <1>12, <2>2 DEF DrainTokens
<1>13. ASSUME NEW t \in Threads, ReadBlocked(t)
      PROVE  DebtInv'
  <2>1. Cardinality(InFlight') = Cardinality(InFlight)
    BY <1>13, SizeInNat, Counts DEF ReadBlocked, Points, InFlight
  <2>2. QED
    BY <1>13, <2>1, <1>a DEF ReadBlocked
<1>14. ASSUME NEW t \in Threads, WriteBlocked(t)
      PROVE  DebtInv'
  <2>1. Cardinality(InFlight') = Cardinality(InFlight)
    BY <1>14, SizeInNat, Counts DEF WriteBlocked, Points, InFlight
  <2>2. QED
    BY <1>14, <2>1, <1>a DEF WriteBlocked
<1>15. CASE Tick
  <2>1. InFlight' = InFlight
    BY <1>15 DEF Tick, InFlight
  <2>2. QED
    BY <1>15, <1>a, <2>1 DEF Tick, Lesser
<1>16. CASE UNCHANGED limiterVars
  BY <1>16 DEF limiterVars, InFlight
<1>17. QED
  BY <1>1, <1>2, <1>3, <1>4, <1>5, <1>6, <1>7, <1>8, <1>9,
     <1>10, <1>11, <1>12, <1>13, <1>14, <1>15, <1>16 DEF LimiterNext

-----------------------------------------------------------------------------
(* time_until                                                              *)

\* Division rounds down to a multiple that is less than one divisor away.
LEMMA Quotient ==
  ASSUME NEW a \in Nat, NEW b \in Nat \ {0}
  PROVE  /\ a \div b \in Nat
         /\ (a \div b) * b <= a
         /\ a < (a \div b) * b + b
BY Z3

\* The time units that are waited for a missing amount bring at least that much.
LEMMA UnitsSuffice ==
  ASSUME NEW missing \in Int, NEW rate \in Nat \ {0}
  PROVE  /\ Units(missing, rate) \in Nat
         /\ Units(missing, rate) * rate >= missing
<1>1. CASE missing <= 0
  BY <1>1 DEF Units
<1>2. CASE missing > 0
  <2> DEFINE a == missing + rate - 1
             q == a \div rate
  <2>1. a \in Nat
    BY <1>2
  <2>2. q \in Nat /\ a < q * rate + rate
    BY <2>1, Quotient
  <2>3. q * rate \in Nat
    BY <2>2, Products
  <2>4. q * rate >= missing
    BY <2>2, <2>3
  <2>5. Units(missing, rate) = q
    BY <1>2 DEF Units
  <2>6. QED
    BY <2>2, <2>4, <2>5
<1>3. QED
  BY <1>1, <1>2

\* A longer wait refills at least as much.
LEMMA LongerWait ==
  ASSUME NEW v \in Nat, NEW w \in Nat, v <= w, NEW rate \in Nat
  PROVE  w * rate \in Int /\ v * rate <= w * rate
BY Z3

-----------------------------------------------------------------------------
(* The theorems                                                            *)

\* Full buckets and idle threads satisfy the invariant.
LEMMA LimiterInitInv == LimiterInit => LimiterInv
<1> SUFFICES ASSUME LimiterInit PROVE LimiterInv
  OBVIOUS
<1>1. SlotHolders = {} /\ InFlight = {}
  BY DEF LimiterInit, SlotHolders, InFlight
<1>2. Cardinality({}) = 0
  BY FS_EmptySet
<1>3. LimiterTypeOK
  BY LimiterAssumption DEF LimiterInit, LimiterTypeOK, Points
<1>4. SlotInv /\ TokenRate
  BY <1>1, <1>2, LimiterAssumption DEF LimiterInit, SlotInv, TokenRate
<1>5. Cardinality(Threads) \in Nat
  BY LimiterAssumption, FS_CardinalityType
<1>6. CapT * Cardinality(Threads) \in Nat
  BY <1>5, LimiterAssumption, Products
<1>7. DebtInv
  BY <1>1, <1>2, <1>5, <1>6, LimiterAssumption DEF LimiterInit, DebtInv
<1>8. QED
  BY <1>3, <1>4, <1>7 DEF LimiterInv

\* The inductive invariant holds throughout.
THEOREM LimiterInductive == LimiterSpec => []LimiterInv
<1>1. LimiterInv /\ [LimiterNext]_limiterVars => LimiterInv'
  BY LimiterTypeStep, SlotStep, TokenStep, DebtStep DEF LimiterInv
<1>2. QED
  BY LimiterInitInv, <1>1, PTL DEF LimiterSpec

\* Every variable of the limiter has its type in every reachable state.
THEOREM TypeCorrect == LimiterSpec => []LimiterTypeOK
<1>1. LimiterInv => LimiterTypeOK
  BY DEF LimiterInv
<1>2. QED
  BY <1>1, LimiterInductive, PTL

\* The limiter never lets more requests through than the provider's rate and
\* the bucket's burst allow, although try_acquire is not atomic.
THEOREM RequestRateKept == LimiterSpec => []RequestRate
<1>1. LimiterInv => RequestRate
  <2> SUFFICES ASSUME LimiterInv PROVE RequestRate
    OBVIOUS
  <2>1. Cardinality(SlotHolders) \in Nat
    BY SizeInNat DEF SlotHolders
  <2>2. Slot * (admitted + Cardinality(SlotHolders)) >= Slot * admitted
    BY <2>1, LimiterAssumption DEF LimiterInv, LimiterTypeOK
  <2>3. QED
    BY <2>1, <2>2, LimiterAssumption DEF LimiterInv, LimiterTypeOK, SlotInv, RequestRate
<1>2. QED
  BY <1>1, LimiterInductive, PTL

\* Charges stay within what the token bucket was given, but for drained debts.
THEOREM TokenRateKept == LimiterSpec => []TokenRate
<1>1. LimiterInv => TokenRate
  BY DEF LimiterInv
<1>2. QED
  BY <1>1, LimiterInductive, PTL

\* The balances stay within their buckets and neither rate is exceeded, for any
\* number of threads and any rates.
THEOREM BothRatesKept == LimiterSpec => []RatesKept
<1>1. LimiterTypeOK /\ RequestRate /\ TokenRate => RatesKept
  BY DEF RatesKept
<1>2. QED
  BY <1>1, TypeCorrect, RequestRateKept, TokenRateKept, PTL

\* The debt of underestimated calls is at most one bucket per thread.
THEOREM DebtKept == LimiterSpec => []DebtBounded
<1>1. LimiterInv => DebtBounded
  <2> SUFFICES ASSUME LimiterInv PROVE DebtBounded
    OBVIOUS
  <2>1. Cardinality(InFlight) \in Nat /\ Cardinality(Threads) \in Nat
    BY SizeInNat DEF InFlight
  <2>2. CapT * Cardinality(Threads) >= CapT * (Cardinality(Threads) - Cardinality(InFlight))
    BY <2>1, LimiterAssumption
  <2>3. QED
    BY <2>1, <2>2, LimiterAssumption DEF LimiterInv, LimiterTypeOK, DebtInv, DebtBounded
<1>2. QED
  BY <1>1, LimiterInductive, PTL

\* Whoever waits as long as time_until says, with nobody else at the limiter,
\* finds the block over and enough in both buckets, whatever threads that are
\* half way through a hold, a refund or a penalty left them at.
THEOREM WaitingSuffices == LimiterSpec => []WaitSuffices
<1>1. LimiterTypeOK => WaitSuffices
  <2> SUFFICES ASSUME LimiterTypeOK, NEW e \in 0 .. CapT
               PROVE  LET w == TimeUntil(e)
                      IN  /\ now + w >= blocked
                          /\ Lesser(CapR, requests + w * RateR) >= Slot
                          /\ Lesser(CapT, tokens + w * RateT) >= e
    BY DEF WaitSuffices
  <2> DEFINE r == Units(Slot - requests, RateR)
             k == Units(e - tokens, RateT)
             w == TimeUntil(e)
  <2>1. r \in Nat /\ r * RateR >= Slot - requests
    BY UnitsSuffice, LimiterAssumption DEF LimiterTypeOK
  <2>2. k \in Nat /\ k * RateT >= e - tokens
    BY UnitsSuffice, LimiterAssumption DEF LimiterTypeOK
  <2>3. blocked \in Nat /\ now \in Nat
    BY DEF LimiterTypeOK
  <2>4. w \in Nat /\ r <= w /\ k <= w /\ blocked - now <= w
    <3> HIDE DEF r, k
    <3>1. w = Greater(Greater(r, k), blocked - now)
      BY DEF TimeUntil, r, k
    <3>2. QED
      BY <2>1, <2>2, <2>3, <3>1 DEF Greater
  <2> HIDE DEF r, k, w
  <2>5. w * RateR \in Int /\ r * RateR <= w * RateR /\ r * RateR \in Int
    BY <2>1, <2>4, LongerWait, LimiterAssumption
  <2>6. w * RateT \in Int /\ k * RateT <= w * RateT /\ k * RateT \in Int
    BY <2>2, <2>4, LongerWait, LimiterAssumption
  <2>7. requests + w * RateR >= Slot /\ tokens + w * RateT >= e
    BY <2>1, <2>2, <2>5, <2>6, LimiterAssumption DEF LimiterTypeOK
  <2>8. Lesser(CapR, requests + w * RateR) >= Slot /\ Lesser(CapT, tokens + w * RateT) >= e
    BY <2>5, <2>6, <2>7, LimiterAssumption DEF LimiterTypeOK, Lesser
  <2>9. QED
    BY <2>3, <2>4, <2>8 DEF w
<1>2. QED
  BY <1>1, TypeCorrect, PTL

(***************************************************************************)
(* The router                                                              *)
(***************************************************************************)

\* Where a call stands.  Before it asks it has heard nothing and owes nothing,
\* and leaves out whatever it has asked; while it asks, and afterwards, all that
\* it has heard and owes is of the candidate it looks at.
Waiting == {"new", "scanning", "sleeping"}
Asking == {"asking", "streaming"}

CallInv(c) ==
  /\ pc[c] \in Waiting => heard[c] = {} /\ owed[c] = {} /\ asked[c] \subseteq exhausted[c]
  /\ pc[c] = "asking" => heard[c] = {}
  /\ pc[c] \in Asking => next[c] <= Len(Cands) /\ asked[c] \subseteq exhausted[c] \cup {Cand(c)}
  /\ pc[c] = "streaming" => stream[c]
  /\ heard[c] \subseteq {Cand(c)} /\ owed[c] \subseteq {Cand(c)}
  /\ pc[c] = "done" /\ owed[c] # {} =>
       outcome[c] \in {"error", "closed"} \/ (outcome[c] = "answer" /\ stream[c])

IInv == TypeOK /\ \A c \in Calls : CallInv(c)

-----------------------------------------------------------------------------
(* The candidates                                                          *)

\* A candidate within the list is a model, and one may be passed over for the
\* next place in the list or its end.
LEMMA CandIsModel ==
  ASSUME TypeOK, NEW c \in Calls, next[c] <= Len(Cands)
  PROVE  Cand(c) \in Models /\ next[c] + 1 \in 1 .. Len(Cands) + 1
<1>1. Len(Cands) \in Nat /\ next[c] \in 1 .. Len(Cands) + 1
  BY RouterAssumption DEF TypeOK
<1>2. next[c] \in 1 .. Len(Cands) /\ next[c] + 1 \in 1 .. Len(Cands) + 1
  BY <1>1
<1>3. Cands[next[c]] \in Models
  BY <1>2, RouterAssumption
<1>4. QED
  BY <1>2, <1>3 DEF Cand

\* Whoever has asked a candidate asked one of the list.
LEMMA AskedCand ==
  ASSUME IInv, NEW c \in Calls, pc[c] \in Asking
  PROVE  Cand(c) \in Models /\ next[c] + 1 \in 1 .. Len(Cands) + 1
<1>1. TypeOK /\ next[c] <= Len(Cands)
  BY DEF IInv, CallInv
<1>2. QED
  BY <1>1, CandIsModel

-----------------------------------------------------------------------------
(* The type invariant                                                      *)

\* reconcile leaves the limiter open or closed and takes the debt off.
LEMMA SettleType ==
  ASSUME TypeOK, NEW c \in Calls, Settle(c)
  PROVE  open' \in [Models -> BOOLEAN] /\ owed' \in [Calls -> SUBSET Models]
<1>1. PICK left \in BOOLEAN : open' = [open EXCEPT ![Cand(c)] = left]
  BY DEF Settle
<1>2. owed' = [owed EXCEPT ![c] = @ \ {Cand(c)}]
  BY DEF Settle
<1>3. open' \in [Models -> BOOLEAN]
  BY <1>1 DEF TypeOK
<1>4. owed' \in [Calls -> SUBSET Models]
  BY <1>2 DEF TypeOK
<1>5. QED
  BY <1>3, <1>4

\* A wait is counted only up to the budget.
LEMMA CountedInBudget ==
  ASSUME TypeOK, NEW c \in Calls, ~Spent(c)
  PROVE  Counted(c) \in 0 .. budget
<1>1. budget \in Nat /\ rounds[c] \in 0 .. budget
  BY RouterAssumption DEF TypeOK
<1>2. CASE budget > 0
  <2>1. Counted(c) = rounds[c] + 1
    BY <1>2 DEF Counted
  <2>2. Counted(c) <= budget
    BY <1>1, <1>2, <2>1 DEF Spent
  <2>3. QED
    BY <1>1, <2>1, <2>2
<1>3. CASE ~(budget > 0)
  <2>1. Counted(c) = 0
    BY <1>3 DEF Counted
  <2>2. QED
    BY <1>1, <2>1
<1>4. QED
  BY <1>2, <1>3

\* Every step keeps the types.
LEMMA TypeStep == IInv /\ [Next]_vars => TypeOK'
<1> SUFFICES ASSUME IInv, [Next]_vars PROVE TypeOK'
  OBVIOUS
<1>0. TypeOK
  BY DEF IInv
<1> DEFINE Places == 1 .. Len(Cands) + 1
<1>a. 1 \in Places
  BY RouterAssumption
<1> HIDE DEF Places
<1>p. next \in [Calls -> Places] /\ (next' \in [Calls -> Places] => next' \in [Calls -> 1 .. Len(Cands) + 1])
  BY <1>0 DEF TypeOK, Places
<1>1. ASSUME NEW c \in Calls, Begin(c) PROVE TypeOK'
  BY <1>0, <1>1 DEF Begin, Goto, TypeOK, PCs
<1>2. ASSUME NEW c \in Calls, PassOver(c) PROVE TypeOK'
  <2>1. next[c] + 1 \in Places
    BY <1>0, <1>2, CandIsModel DEF PassOver, Places
  <2>2. next' \in [Calls -> Places]
    BY <1>2, <1>p, <2>1 DEF PassOver
  <2>3. QED
    BY <1>0, <1>2, <1>p, <2>2 DEF PassOver, Goto, TypeOK, PCs
<1>3. ASSUME NEW c \in Calls, Acquire(c) PROVE TypeOK'
  <2>1. Cand(c) \in Models
    BY <1>0, <1>3, CandIsModel DEF Acquire
  <2>2. PICK left \in BOOLEAN : open' = [open EXCEPT ![Cand(c)] = left]
    BY <1>3 DEF Acquire
  <2>3. open' \in [Models -> BOOLEAN]
    BY <1>0, <2>2 DEF TypeOK
  <2>4. asked' \in [Calls -> SUBSET Models] /\ owed' \in [Calls -> SUBSET Models]
    BY <1>0, <1>3, <2>1 DEF Acquire, TypeOK
  <2>5. QED
    BY <1>0, <1>3, <2>3, <2>4 DEF Acquire, Goto, TypeOK, PCs
<1>4. ASSUME NEW c \in Calls, Complete(c) PROVE TypeOK'
  BY <1>0, <1>4, SettleType DEF Complete, Finish, Goto, TypeOK, PCs, Outcomes
<1>5. ASSUME NEW c \in Calls, OpenStream(c) PROVE TypeOK'
  BY <1>0, <1>5 DEF OpenStream, Goto, TypeOK, PCs
<1>6. ASSUME NEW c \in Calls, EndStream(c) PROVE TypeOK'
  <2>1. open' \in [Models -> BOOLEAN] /\ owed' \in [Calls -> SUBSET Models]
    BY <1>0, <1>6, SettleType DEF EndStream, TypeOK
  <2>2. QED
    BY <1>0, <1>6, <2>1 DEF EndStream, Finish, Goto, TypeOK, PCs, Outcomes
<1>7. ASSUME NEW c \in Calls, Limited(c) PROVE TypeOK'
  <2>1. Cand(c) \in Models /\ next[c] + 1 \in Places
    BY <1>7, AskedCand DEF Limited, MayFailOver, Asking, Places
  <2>2. next' \in [Calls -> Places]
    BY <1>7, <1>p, <2>1 DEF Limited
  <2>3. exhausted' \in [Calls -> SUBSET Models] /\ owed' \in [Calls -> SUBSET Models]
    BY <1>0, <1>7, <2>1 DEF Limited, TypeOK
  <2>4. QED
    BY <1>0, <1>7, <1>p, <2>2, <2>3 DEF Limited, Goto, TypeOK, PCs
<1>8. ASSUME NEW c \in Calls, Raise(c) PROVE TypeOK'
  BY <1>0, <1>8 DEF Raise, Finish, Goto, TypeOK, PCs, Outcomes
<1>9. ASSUME NEW c \in Calls, Delta(c) PROVE TypeOK'
  <2>1. Cand(c) \in Models
    BY <1>9, AskedCand DEF Delta, Goto, Asking
  <2>2. heard' \in [Calls -> SUBSET Models]
    BY <1>0, <1>9, <2>1 DEF Delta, TypeOK
  <2>3. QED
    BY <1>0, <1>9, <2>2 DEF Delta, Goto, TypeOK, PCs
<1>10. ASSUME NEW c \in Calls, Close(c) PROVE TypeOK'
  BY <1>0, <1>10 DEF Close, Finish, Goto, TypeOK, PCs, Outcomes
<1>11. ASSUME NEW c \in Calls, EndPass(c) PROVE TypeOK'
  <2>1. exhausted' \in [Calls -> SUBSET Models] /\ asked' \in [Calls -> SUBSET Models]
    BY <1>0, <1>11 DEF EndPass, Released, TypeOK
  <2>2. CASE Spent(c)
    BY <1>0, <1>11, <2>1, <2>2 DEF EndPass, Finish, Goto, TypeOK, PCs, Outcomes
  <2>3. CASE ~Spent(c)
    <3>1. rounds' \in [Calls -> 0 .. budget]
      BY <1>0, <1>11, <2>3, CountedInBudget DEF EndPass, TypeOK
    <3>2. QED
      BY <1>0, <1>11, <2>1, <2>3, <3>1 DEF EndPass, Goto, TypeOK, PCs
  <2>4. QED
    BY <2>2, <2>3
<1>12. ASSUME NEW c \in Calls, Wake(c) PROVE TypeOK'
  <2>1. next' \in [Calls -> Places]
    BY <1>12, <1>a, <1>p DEF Wake
  <2>2. QED
    BY <1>0, <1>12, <1>p, <2>1 DEF Wake, Goto, TypeOK, PCs
<1>13. ASSUME NEW m \in Models, Refill(m) PROVE TypeOK'
  BY <1>0, <1>13 DEF Refill, callVars, TypeOK
<1>14. CASE UNCHANGED vars
  BY <1>0, <1>14 DEF vars, callVars, TypeOK
<1>15. QED
  BY <1>1, <1>2, <1>3, <1>4, <1>5, <1>6, <1>7, <1>8, <1>9, <1>10, <1>11, <1>12, <1>13, <1>14
     DEF Next, Progress

-----------------------------------------------------------------------------
(* Where the calls stand                                                   *)

\* A step of one call moves no other.
LEMMA OthersStay ==
  ASSUME TypeOK, NEW c \in Calls, NEW d \in Calls, c # d, CallInv(c),
         Progress(d) \/ Delta(d) \/ Close(d)
  PROVE  CallInv(c)'
<1>1. /\ pc'[c] = pc[c] /\ stream'[c] = stream[c] /\ next'[c] = next[c]
      /\ exhausted'[c] = exhausted[c] /\ heard'[c] = heard[c] /\ outcome'[c] = outcome[c]
      /\ asked'[c] = asked[c] /\ owed'[c] = owed[c]
  BY DEF TypeOK, Progress, Begin, PassOver, Acquire, Complete, OpenStream, EndStream, Limited, Raise,
         EndPass, Wake, Delta, Close, Goto, Finish, Settle
<1>2. Cand(c)' = Cand(c)
  BY <1>1 DEF Cand
<1>3. QED
  BY <1>1, <1>2 DEF CallInv

\* A step of the call itself leaves it where the invariant has it.
LEMMA CallStep ==
  ASSUME TypeOK, NEW c \in Calls, CallInv(c), Progress(c) \/ Delta(c) \/ Close(c)
  PROVE  CallInv(c)'
<1> USE DEF CallInv, Waiting, Asking, TypeOK, Cand
<1>1. CASE Begin(c)
  BY <1>1 DEF Begin, Goto
<1>2. CASE PassOver(c)
  BY <1>2 DEF PassOver, Goto
<1>3. CASE Acquire(c)
  BY <1>3 DEF Acquire, Goto
<1>4. CASE Complete(c)
  BY <1>4 DEF Complete, Finish, Goto, Settle
<1>5. CASE OpenStream(c)
  BY <1>5 DEF OpenStream, Goto
<1>6. CASE EndStream(c)
  BY <1>6 DEF EndStream, Finish, Goto, Settle
<1>7. CASE Limited(c)
  BY <1>7 DEF Limited, MayFailOver, Goto
<1>8. CASE Raise(c)
  BY <1>8 DEF Raise, Finish, Goto
<1>9. CASE Delta(c)
  BY <1>9 DEF Delta, Goto
<1>10. CASE Close(c)
  BY <1>10 DEF Close, Finish, Goto
<1>11. CASE EndPass(c)
  BY <1>11 DEF EndPass, Finish, Goto, Released
<1>12. CASE Wake(c)
  BY <1>12 DEF Wake, Goto
<1>13. QED
  BY <1>1, <1>2, <1>3, <1>4, <1>5, <1>6, <1>7, <1>8, <1>9, <1>10, <1>11, <1>12 DEF Progress

\* Every step of the calls, and every refill, keeps all of it.
LEMMA Step == IInv /\ [Next]_vars => IInv'
<1> SUFFICES ASSUME IInv, [Next]_vars PROVE IInv'
  OBVIOUS
<1>1. TypeOK'
  BY TypeStep
<1>2. ASSUME NEW c \in Calls PROVE CallInv(c)'
  <2>1. TypeOK /\ CallInv(c)
    BY DEF IInv
  <2>2. ASSUME NEW d \in Calls, Progress(d) \/ Delta(d) \/ Close(d) PROVE CallInv(c)'
    BY <2>1, <2>2, CallStep, OthersStay
  <2>3. CASE UNCHANGED callVars /\ UNCHANGED <<asked, owed>>
    BY <2>1, <2>3 DEF CallInv, callVars, Cand
  <2>4. QED
    BY <2>2, <2>3 DEF Next, Refill, vars
<1>3. QED
  BY <1>1, <1>2 DEF IInv

\* New calls have heard, asked and reserved nothing.
LEMMA InitInv == Init => IInv
<1> SUFFICES ASSUME Init PROVE IInv
  OBVIOUS
<1>1. Len(Cands) \in Nat /\ 1 \in 1 .. Len(Cands) + 1 /\ budget \in Nat /\ 0 \in 0 .. budget
  BY RouterAssumption DEF Init
<1>2. TypeOK
  BY <1>1 DEF Init, TypeOK, PCs, Outcomes
<1>3. \A c \in Calls : CallInv(c)
  BY DEF Init, CallInv, Waiting, Asking
<1>4. QED
  BY <1>2, <1>3 DEF IInv

-----------------------------------------------------------------------------
(* The theorems                                                            *)

\* The inductive invariant of the router's calls holds throughout.
THEOREM Inductive == Spec => []IInv
BY InitInv, Step, PTL DEF Spec

\* However the models answer, refill and block one another, whatever a caller
\* is given comes from one model, and a call holds headroom at one, which it
\* settles before it asks another, waits, or gives up.
THEOREM RouterIsSafe == Spec => []RouterSafe
<1>1. IInv => RouterSafe
  <2> SUFFICES ASSUME IInv PROVE RouterSafe
    OBVIOUS
  <2>1. OneVoice
    BY DEF IInv, CallInv, OneVoice
  <2>2. ASSUME NEW c \in Calls, owed[c] # {}
        PROVE  /\ owed[c] = {Cand(c)}
               /\ \/ pc[c] \in {"asking", "streaming"}
                  \/ outcome[c] \in {"error", "closed"}
                  \/ outcome[c] = "answer" /\ stream[c]
    BY <2>2 DEF IInv, CallInv, TypeOK, PCs, Waiting
  <2>3. QED
    BY <2>1, <2>2 DEF IInv, RouterSafe, OneReservation
<1>2. QED
  BY <1>1, Inductive, PTL

\* A model that answered 429 is not asked again by the call, over all its waits,
\* before every other candidate has answered 429 too.
THEOREM RefusedModelsRest == Spec => RefusedRests
<1>1. IInv => \A c \in Calls : Acquire(c) => Cand(c) \notin asked[c]
  BY DEF IInv, CallInv, Waiting, Acquire, Goto
<1>2. IInv /\ [Next]_vars => [\A c \in Calls : Acquire(c) => Cand(c) \notin asked[c]]_vars
  BY <1>1
<1>3. QED
  BY <1>2, Inductive, PTL DEF Spec, RefusedRests
=============================================================================
