----------------------------- MODULE AnalystProofs -----------------------------
(***************************************************************************)
(* Proofs about Analyst, for any turns, sessions, limits and clock: a      *)
(* conversation is of one scope, its calls are answered save those of a    *)
(* turn that was given up, and a turn ends once.  What the stripper        *)
(* computes is a recursion over texts, which stays with TLC.               *)
(***************************************************************************)
EXTENDS Analyst, FiniteSetTheorems, TLAPS

\* The calls among the first n messages are answered among them, or of a turn that
\* was given up.
Settled(messages, n) ==
  \A i \in 1 .. n : messages[i].role = "calls" =>
    \/ messages[i].of \in GivenUp
    \/ \A k \in 1 .. messages[i].n :
         i + k <= n /\ messages[i + k] = [role |-> "tool", of |-> messages[i].of, n |-> k]

\* How many messages of the round under way there are.
UnderWay(state) ==
  IF state.pc = "act" THEN 1 ELSE IF state.pc = "observe" THEN state.step ELSE 0

Pending(t) == UnderWay(turn[t])

\* The p messages after the first q: a turn's calls, and payloads in their order.
Opened(messages, q, p, t, calls) ==
  p > 0 => /\ messages[q + 1] = [role |-> "calls", of |-> t, n |-> calls]
           /\ \A k \in 1 .. p - 1 : messages[q + 1 + k] = [role |-> "tool", of |-> t, n |-> k]

\* There is a call under way when there is a round.
CallsInv(state) ==
  /\ state.pc = "act" => state.calls >= 1
  /\ state.pc = "observe" => state.step \in 1 .. state.calls

\* Before the round under way every call was answered; of it there are its calls
\* and the payloads of the steps before this one.
TalkInv(t) ==
  LET m == session[turn[t].id].messages
      p == Pending(t)
  IN
  /\ session[turn[t].id].scope = turn[t].scope
  /\ p \in 0 .. Len(m) /\ Settled(m, Len(m) - p)
  /\ CallsInv(turn[t])
  /\ Opened(m, Len(m) - p, p, t, turn[t].calls)

\* A message is of a turn of its session's id and scope, and an answer is of one
\* that ended well, or that an exception left.
MessageInv(i, message) ==
  /\ turn[message.of].id = i /\ turn[message.of].scope = session[i].scope
  /\ message.role = "answer" =>
       /\ turn[message.of].pc = "done" /\ message.of \notin cut
       /\ Last(events[message.of]) = "final" \/ message.of \in broken

\* No session but the one in use has a round under way.
SessionInv(i) ==
  session[i] # None =>
    /\ \A k \in 1 .. Len(session[i].messages) : MessageInv(i, session[i].messages[k])
    /\ \/ Settled(session[i].messages, Len(session[i].messages))
       \/ lock # None /\ turn[lock].id = i

Ends(t) == {k \in 1 .. Len(events[t]) : events[t][k] \in {"final", "error"}}

\* A turn yields its terminal event when it is done, or is cut and yields none.
EventInv(t) ==
  /\ t \in cut => turn[t].pc = "done"
  /\ Ends(t) = IF turn[t].pc = "done" /\ t \notin cut THEN {Len(events[t])} ELSE {}

IInv ==
  /\ TypeOK
  /\ \A i \in Ids : SessionInv(i)
  /\ \A t \in Turns : EventInv(t)
  /\ lock # None => TalkInv(lock)

-----------------------------------------------------------------------------
(* The order of the sessions                                               *)

\* Among some positions each has its place, and each place its position.
LEMMA Places ==
  ASSUME NEW n \in Nat, NEW K \in SUBSET (1 .. n)
  PROVE  /\ Cardinality(K) \in Nat
         /\ \A k \in K : Cardinality({j \in K : j <= k}) \in 1 .. Cardinality(K)
         /\ \A k, l \in K : Cardinality({j \in K : j <= k}) = Cardinality({j \in K : j <= l}) => k = l
         /\ \A m \in 1 .. Cardinality(K) : \E k \in K : Cardinality({j \in K : j <= k}) = m
<1>1. IsFiniteSet(1 .. n)
  BY FS_Interval
<1>2. IsFiniteSet(K) /\ Cardinality(K) \in Nat
  BY <1>1, FS_Subset, FS_CardinalityType
<1> DEFINE upTo(k) == {j \in K : j <= k}
           place == [k \in K |-> Cardinality(upTo(k))]
<1>3. ASSUME NEW k \in K
      PROVE  IsFiniteSet(upTo(k)) /\ Cardinality(upTo(k)) \in 1 .. Cardinality(K)
  <2>1. upTo(k) \in SUBSET K /\ k \in upTo(k)
    OBVIOUS
  <2>2. IsFiniteSet(upTo(k)) /\ Cardinality(upTo(k)) <= Cardinality(K) /\ Cardinality(upTo(k)) \in Nat
    BY <1>2, <2>1, FS_Subset, FS_CardinalityType
  <2>3. Cardinality(upTo(k)) # 0
    BY <2>1, <2>2, FS_EmptySet
  <2>4. QED
    BY <1>2, <2>2, <2>3
<1>4. ASSUME NEW k \in K, NEW l \in K, k < l
      PROVE  Cardinality(upTo(k)) # Cardinality(upTo(l))
  <2>1. upTo(k) \in SUBSET upTo(l) /\ l \in upTo(l) /\ l \notin upTo(k)
    <3>1. K \subseteq Int
      OBVIOUS
    <3>2. k \in Int /\ l \in Int
      BY <3>1
    <3>3. \A j \in K : j <= k => j <= l
      BY <1>4, <3>1, <3>2
    <3>4. ~(l <= k) /\ l <= l
      BY <1>4, <3>2
    <3>5. QED
      BY <3>3, <3>4
  <2>2. IsFiniteSet(upTo(l))
    BY <1>3
  <2>3. Cardinality(upTo(k)) = Cardinality(upTo(l)) => upTo(k) = upTo(l)
    BY <2>1, <2>2, FS_Subset
  <2>4. QED
    BY <2>1, <2>3
<1>5. \A k, l \in K : Cardinality(upTo(k)) = Cardinality(upTo(l)) => k = l
  <2>1. \A k, l \in K : k < l \/ l < k \/ k = l
    OBVIOUS
  <2> HIDE DEF upTo
  <2>2. QED
    BY <1>4, <2>1
<1>6. place \in Injection(K, 1 .. Cardinality(K))
  BY <1>3, <1>5 DEF Injection, IsInjective
<1>7. IsFiniteSet(1 .. Cardinality(K)) /\ Cardinality(1 .. Cardinality(K)) = Cardinality(K)
  BY <1>2, FS_Interval
<1>8. place \in Surjection(K, 1 .. Cardinality(K))
  BY <1>6, <1>7, FS_Injection
<1>9. \A m \in 1 .. Cardinality(K) : \E k \in K : Cardinality(upTo(k)) = m
  BY <1>8 DEF Surjection
<1>10. QED
  BY <1>2, <1>3, <1>5, <1>9

\* Some of a sequence are the same elements, each once, and the last one stays last.
LEMMA OnlyKeeps ==
  ASSUME NEW S, NEW ids \in Seq(S), IsInjective(ids), NEW some
  PROVE  LET r == Only(ids, some) IN
         /\ r \in Seq(S) /\ IsInjective(r) /\ ToSet(r) = ToSet(ids) \cap some
         /\ ids # <<>> /\ ids[Len(ids)] \in some => r # <<>> /\ r[Len(r)] = ids[Len(ids)]
<1> DEFINE K == {k \in 1 .. Len(ids) : ids[k] \in some}
           upTo(k) == {j \in K : j <= k}
           nth(m) == CHOOSE k \in K : Cardinality({j \in K : j <= k}) = m
           c == Cardinality(K)
           r == Only(ids, some)
<1>1. Len(ids) \in Nat /\ K \in SUBSET (1 .. Len(ids))
  OBVIOUS
<1>2. /\ c \in Nat
      /\ \A k \in K : Cardinality(upTo(k)) \in 1 .. c
      /\ \A k, l \in K : Cardinality(upTo(k)) = Cardinality(upTo(l)) => k = l
      /\ \A m \in 1 .. c : \E k \in K : Cardinality(upTo(k)) = m
  <2> HIDE DEF K
  <2>1. QED
    BY <1>1, Places
<1>3. r = [m \in 1 .. c |-> ids[nth(m)]]
  BY DEF Only
<1>4. \A m \in 1 .. c : nth(m) \in K /\ Cardinality(upTo(nth(m))) = m
  BY <1>2
<1>5. \A k \in K : nth(Cardinality(upTo(k))) = k
  BY <1>2, <1>4
<1>6. \A k \in K : k \in 1 .. Len(ids) /\ ids[k] \in S /\ ids[k] \in some
  OBVIOUS
<1>7. \A k, l \in K : ids[k] = ids[l] => k = l
  BY <1>6 DEF IsInjective
<1>8. Len(ids) > 0 /\ ids[Len(ids)] \in some => Len(ids) \in K /\ upTo(Len(ids)) = K
  BY <1>1
<1>9. ToSet(ids) \cap some = {ids[k] : k \in K}
  BY DEF ToSet
<1> HIDE DEF K, upTo, nth, c, r
<1>10. r \in Seq(S) /\ Len(r) = c /\ DOMAIN r = 1 .. c
  BY <1>2, <1>3, <1>4, <1>6
<1>11. IsInjective(r)
  <2>1. ASSUME NEW m \in 1 .. c, NEW l \in 1 .. c, r[m] = r[l]
        PROVE  m = l
    <3>1. nth(m) = nth(l)
      BY <1>3, <1>4, <1>7, <2>1
    <3>2. QED
      BY <1>4, <3>1
  <2>2. QED
    BY <1>10, <2>1 DEF IsInjective
<1>12. ToSet(r) = {ids[k] : k \in K}
  <2>1. \A m \in 1 .. c : r[m] = ids[nth(m)] /\ nth(m) \in K
    BY <1>3, <1>4
  <2>2. \A k \in K : Cardinality(upTo(k)) \in 1 .. c /\ r[Cardinality(upTo(k))] = ids[k]
    BY <1>2, <1>3, <1>5
  <2>3. QED
    BY <1>10, <2>1, <2>2 DEF ToSet
<1>13. ASSUME ids # <<>>, ids[Len(ids)] \in some
       PROVE  r # <<>> /\ r[Len(r)] = ids[Len(ids)]
  <2>1. Len(ids) \in K /\ Cardinality(upTo(Len(ids))) = c
    <3>1. Len(ids) > 0
      BY <1>1, <1>13
    <3>2. QED
      BY <1>8, <1>13, <3>1 DEF c
  <2>2. c \in 1 .. c /\ r[c] = ids[Len(ids)]
    BY <1>2, <1>3, <1>5, <2>1
  <2>3. QED
    BY <1>10, <2>2
<1>14. QED
  BY <1>9, <1>10, <1>11, <1>12, <1>13 DEF r

\* Of too many sessions the last ones stay.
LEMMA NewestKeeps ==
  ASSUME NEW S, NEW ids \in Seq(S), IsInjective(ids)
  PROVE  LET r == Newest(ids) IN
         /\ r \in Seq(S) /\ IsInjective(r) /\ ToSet(r) \subseteq ToSet(ids) /\ Len(r) <= MaxSessions
         /\ ids # <<>> => ids[Len(ids)] \in ToSet(r)
<1> DEFINE n == Len(ids)
           r == Newest(ids)
<1>1. n \in Nat /\ MaxSessions \in Nat \ {0}
  BY AnalystAssumption
<1>2. CASE n <= MaxSessions
  <2>1. r = ids
    BY <1>2 DEF Newest
  <2>2. QED
    BY <1>1, <1>2, <2>1 DEF ToSet
<1>3. CASE n > MaxSessions
  <2>1. PICK d \in Nat : d = n - MaxSessions
    BY <1>1, <1>3
  <2>2. r = SubSeq(ids, d + 1, n)
    BY <1>1, <1>3, <2>1 DEF Newest
  <2>3. r \in Seq(S) /\ Len(r) = MaxSessions /\ \A k \in 1 .. MaxSessions : r[k] = ids[d + k] /\ d + k \in 1 .. n
    BY <1>1, <1>3, <2>1, <2>2
  <2>4. IsInjective(r)
    <3>1. \A k, l \in 1 .. n : ids[k] = ids[l] => k = l
      BY DEF IsInjective
    <3>2. ASSUME NEW k \in 1 .. MaxSessions, NEW l \in 1 .. MaxSessions, r[k] = r[l]
          PROVE  k = l
      <4>1. d + k = d + l
        BY <2>3, <3>1, <3>2
      <4>2. QED
        BY <1>1, <2>1, <4>1
    <3>3. DOMAIN r = 1 .. MaxSessions
      BY <2>3
    <3> HIDE DEF r
    <3>4. QED
      BY <3>2, <3>3 DEF IsInjective
  <2>5. ToSet(r) \subseteq ToSet(ids)
    BY <1>1, <2>3 DEF ToSet
  <2>6. ids[n] \in ToSet(r)
    <3>1. MaxSessions \in 1 .. MaxSessions /\ d + MaxSessions = n
      BY <1>1, <2>1
    <3>2. r[MaxSessions] = ids[n]
      BY <2>3, <3>1
    <3>3. QED
      BY <2>3, <3>1, <3>2 DEF ToSet
  <2>7. QED
    BY <1>1, <2>3, <2>4, <2>5, <2>6
<1>4. QED
  BY <1>1, <1>2, <1>3

\* The turn's session stays, and no other that was not there.
LEMMA StayKeeps ==
  ASSUME TypeOK, NEW t \in Turns
  PROVE  /\ Stay(t) \in Seq(Ids) /\ IsInjective(Stay(t)) /\ Len(Stay(t)) <= MaxSessions
         /\ turn[t].id \in ToSet(Stay(t)) /\ ToSet(Stay(t)) \subseteq ToSet(order) \cup {turn[t].id}
<1>1. PICK id \in Ids : id = turn[t].id
  BY DEF TypeOK, TurnStates
<1> DEFINE rest == Only(order, Ids \ {id})
           moved == Append(rest, id)
           kept == {id} \cup {i \in ToSet(order) : ~Idle(i)}
           live == Only(moved, kept)
<1>2. order \in Seq(Ids) /\ IsInjective(order)
  BY DEF TypeOK
<1>3. rest \in Seq(Ids) /\ IsInjective(rest) /\ ToSet(rest) = ToSet(order) \cap (Ids \ {id})
  BY <1>2, OnlyKeeps
<1>4. moved = Moved(t) /\ Stay(t) = Newest(live)
  BY <1>1 DEF Moved, Stay
<1> HIDE DEF rest
<1>5. /\ moved \in Seq(Ids) /\ moved # <<>> /\ moved[Len(moved)] = id
      /\ Len(moved) = Len(rest) + 1 /\ \A k \in 1 .. Len(rest) : moved[k] = rest[k] /\ rest[k] \in ToSet(rest)
  <2> rest \in Seq(Ids) /\ id \in Ids
    BY <1>1, <1>3
  <2>1. /\ moved \in Seq(Ids) /\ moved # <<>> /\ moved[Len(moved)] = id
        /\ Len(moved) = Len(rest) + 1 /\ \A k \in 1 .. Len(rest) : moved[k] = rest[k]
    OBVIOUS
  <2>2. \A k \in 1 .. Len(rest) : rest[k] \in ToSet(rest)
    BY <1>3 DEF ToSet
  <2>3. QED
    BY <2>1, <2>2
<1> HIDE DEF moved
<1>6. \A k \in 1 .. Len(rest) : rest[k] # id /\ rest[k] \in ToSet(order)
  BY <1>3, <1>5
<1>7. IsInjective(moved)
  <2>1. \A k \in 1 .. Len(moved) : k \in 1 .. Len(rest) \/ k = Len(moved)
    BY <1>3, <1>5
  <2>2. \A k, l \in 1 .. Len(rest) : rest[k] = rest[l] => k = l
    BY <1>3 DEF IsInjective
  <2>3. ASSUME NEW k \in 1 .. Len(moved), NEW l \in 1 .. Len(moved), moved[k] = moved[l]
        PROVE  k = l
    BY <1>5, <1>6, <2>1, <2>2, <2>3
  <2>4. DOMAIN moved = 1 .. Len(moved)
    BY <1>5
  <2>5. QED
    BY <2>3, <2>4 DEF IsInjective
<1>8. ToSet(moved) \subseteq ToSet(order) \cup {id}
  <2>1. \A k \in DOMAIN moved : k \in 1 .. Len(rest) \/ moved[k] = id
    BY <1>3, <1>5
  <2>2. QED
    BY <1>5, <1>6, <2>1 DEF ToSet
<1> HIDE DEF kept
<1>9. /\ live \in Seq(Ids) /\ IsInjective(live) /\ ToSet(live) = ToSet(moved) \cap kept
      /\ live # <<>> /\ live[Len(live)] = id
  <2>1. id \in kept
    BY DEF kept
  <2>2. QED
    BY <1>5, <1>7, <2>1, OnlyKeeps
<1> HIDE DEF live
<1>10. QED
  BY <1>1, <1>4, <1>8, <1>9, NewestKeeps


-----------------------------------------------------------------------------
(* Conversations                                                           *)

\* What a sequence holds at a place of it is one of its elements.
LEMMA Element ==
  ASSUME NEW S, NEW m \in Seq(S), NEW k \in 1 .. Len(m)
  PROVE  m[k] \in S
  OBVIOUS

\* What is said goes to the end.
LEMMA Said ==
  ASSUME NEW m \in Seq(Messages), NEW x \in Messages
  PROVE  /\ Append(m, x) \in Seq(Messages) /\ Len(Append(m, x)) = Len(m) + 1 /\ Len(m) \in Nat
         /\ Append(m, x)[Len(m) + 1] = x
         /\ \A k \in 1 .. Len(m) : Append(m, x)[k] = m[k]
OBVIOUS

\* What is settled stays so, whatever is said after it and whoever is given up.
LEMMA SettledKept ==
  ASSUME NEW m \in Seq(Messages), NEW x \in Messages, NEW q \in 0 .. Len(m), Settled(m, q), GivenUp \subseteq GivenUp'
  PROVE  Settled(m, q)' /\ Settled(Append(m, x), q)'
<1> DEFINE r == Append(m, x)
<1>1. Len(r) = Len(m) + 1 /\ Len(m) \in Nat /\ \A k \in 1 .. Len(m) : r[k] = m[k] /\ k \in 1 .. Len(r)
  BY Said
<1> HIDE DEF r
<1>2. \A i \in 1 .. q : r[i] = m[i]
  BY <1>1
<1>3. \A i \in 1 .. q : i \in 1 .. Len(m) /\ m[i] \in Messages
  OBVIOUS
<1>4. ASSUME NEW i \in 1 .. q, m[i].role = "calls", m[i].of \notin GivenUp, NEW k \in 1 .. m[i].n
      PROVE  i + k <= q /\ r[i + k] = [role |-> "tool", of |-> m[i].of, n |-> k]
  <2>1. k \in Nat
    BY <1>3 DEF Messages
  <2>2. i + k <= q /\ m[i + k] = [role |-> "tool", of |-> m[i].of, n |-> k]
    BY <1>4 DEF Settled
  <2>3. i + k \in 1 .. q
    BY <2>1, <2>2
  <2>4. QED
    BY <1>2, <2>2, <2>3
<1>5. Settled(m, q)'
  BY DEF Settled
<1>6. Settled(r, q)'
  <2>1. ASSUME NEW i \in 1 .. q, r[i].role = "calls", r[i].of \notin GivenUp'
        PROVE  \A k \in 1 .. r[i].n : i + k <= q /\ r[i + k] = [role |-> "tool", of |-> r[i].of, n |-> k]
    <3>1. m[i].role = "calls" /\ m[i].of \notin GivenUp /\ r[i] = m[i]
      BY <1>2, <2>1
    <3>2. QED
      BY <1>4, <3>1
  <2>2. QED
    BY <2>1 DEF Settled, r
<1>7. QED
  BY <1>5, <1>6 DEF r

\* A word that calls nothing leaves a settled conversation settled.
LEMMA SettledLonger ==
  ASSUME NEW m \in Seq(Messages), NEW x \in Messages, x.role # "calls", Settled(m, Len(m))'
  PROVE  Settled(Append(m, x), Len(m) + 1)'
<1>1. PICK r, n : r = Append(m, x) /\ n = Len(m)
  OBVIOUS
<1>2. n \in Nat /\ r[n + 1] = x /\ \A k \in 1 .. n : r[k] = m[k] /\ m[k] \in Messages
  BY <1>1, Said
<1>3. ASSUME NEW i \in 1 .. n + 1, r[i].role = "calls", r[i].of \notin GivenUp', NEW k \in 1 .. r[i].n
      PROVE  i + k <= n + 1 /\ r[i + k] = [role |-> "tool", of |-> r[i].of, n |-> k]
  <2>1. i \in 1 .. n /\ r[i] = m[i] /\ m[i] \in Messages
    BY <1>2, <1>3
  <2>2. k \in Nat /\ k >= 1
    BY <2>1 DEF Messages
  <2>3. i + k <= n /\ m[i + k] = [role |-> "tool", of |-> m[i].of, n |-> k]
    BY <1>1, <1>3, <2>1 DEF Settled
  <2>4. i + k \in 1 .. n
    BY <1>2, <2>1, <2>2, <2>3
  <2>5. QED
    BY <1>2, <2>1, <2>3, <2>4
<1>4. Settled(r, n + 1)'
  BY <1>3 DEF Settled
<1>5. QED
  BY <1>1, <1>4

LEMMA SettledGoesOn ==
  ASSUME NEW m \in Seq(Messages), NEW x \in Messages, x.role # "calls", Settled(m, Len(m)), GivenUp \subseteq GivenUp'
  PROVE  Settled(Append(m, x), Len(m) + 1)'
<1>1. Len(m) \in 0 .. Len(m)
  OBVIOUS
<1>2. Settled(m, Len(m))'
  BY <1>1, SettledKept
<1>3. QED
  BY <1>2, SettledLonger

\* The payload of the last call of a round settles it.
LEMMA SettledByLast ==
  ASSUME NEW m \in Seq(Messages), NEW t, NEW p \in Nat \ {0}, p <= Len(m), NEW x \in Messages,
         x = [role |-> "tool", of |-> t, n |-> p],
         m[Len(m) - p + 1] = [role |-> "calls", of |-> t, n |-> p],
         \A k \in 1 .. p - 1 : m[Len(m) - p + 1 + k] = [role |-> "tool", of |-> t, n |-> k],
         Settled(m, Len(m) - p), GivenUp \subseteq GivenUp'
  PROVE  Settled(Append(m, x), Len(m) + 1)'
<1>1. PICK r, n, q : r = Append(m, x) /\ n = Len(m) /\ q = n - p
  OBVIOUS
<1>2. n \in Nat /\ q \in Nat /\ q = n - p /\ r[n + 1] = x /\ \A k \in 1 .. n : r[k] = m[k]
  BY <1>1, Said
<1>3. q \in 0 .. Len(m) /\ Settled(m, q)
  BY <1>1, <1>2
<1>4. Settled(r, q)'
  BY <1>1, <1>3, SettledKept
<1>5. r[q + 1] = [role |-> "calls", of |-> t, n |-> p]
  <2>1. q + 1 \in 1 .. n /\ n - p + 1 = q + 1
    BY <1>1, <1>2
  <2>2. QED
    BY <1>1, <1>2, <2>1
<1>6. ASSUME NEW k \in 1 .. p
      PROVE  r[q + 1 + k] = [role |-> "tool", of |-> t, n |-> k]
  <2>1. CASE k = p
    <3>1. q + 1 + k = n + 1
      BY <1>2, <2>1
    <3>2. QED
      BY <1>2, <2>1, <3>1
  <2>2. CASE k # p
    <3>1. k \in 1 .. p - 1 /\ q + 1 + k \in 1 .. n /\ n - p + 1 + k = q + 1 + k
      BY <1>2, <2>2
    <3>2. QED
      BY <1>1, <1>2, <3>1
  <2>3. QED
    BY <2>1, <2>2
<1>7. ASSUME NEW i \in 1 .. n + 1, r[i].role = "calls", r[i].of \notin GivenUp', NEW k \in 1 .. r[i].n
      PROVE  i + k <= n + 1 /\ r[i + k] = [role |-> "tool", of |-> r[i].of, n |-> k]
  <2>1. CASE i <= q
    <3>1. i \in 1 .. q
      BY <1>2, <2>1
    <3>2. i + k <= q /\ r[i + k] = [role |-> "tool", of |-> r[i].of, n |-> k] /\ k \in Int
      BY <1>4, <1>7, <3>1 DEF Settled
    <3>3. QED
      BY <1>2, <3>1, <3>2
  <2>2. CASE i = q + 1
    <3>1. r[i].n = p /\ r[i].of = t
      BY <1>5, <2>2
    <3>2. k \in 1 .. p
      BY <3>1
    <3>3. i + k <= n + 1
      BY <1>2, <2>2, <3>2
    <3>4. r[i + k] = [role |-> "tool", of |-> t, n |-> k]
      BY <1>6, <2>2, <3>2
    <3>5. QED
      BY <3>1, <3>3, <3>4
  <2>3. CASE i > q + 1
    <3>1. i - (q + 1) \in 1 .. p /\ q + 1 + (i - (q + 1)) = i
      BY <1>2, <2>3
    <3>2. PICK l \in 1 .. p : l = i - (q + 1) /\ q + 1 + l = i
      BY <3>1
    <3>3. r[i] = [role |-> "tool", of |-> t, n |-> l]
      BY <1>6, <3>2
    <3>4. QED
      BY <1>7, <3>3
  <2>4. QED
    BY <1>2, <2>1, <2>2, <2>3
<1>8. Settled(r, n + 1)'
  BY <1>7 DEF Settled
<1>9. QED
  BY <1>1, <1>8

\* A round that is given up is settled by that, however far it came: its calls are
\* excepted and what was said after them are payloads.
LEMMA SettledByGivingUp ==
  ASSUME NEW m \in Seq(Messages), NEW t, NEW p \in Nat, p <= Len(m), NEW calls,
         Settled(m, Len(m) - p), Opened(m, Len(m) - p, p, t, calls),
         GivenUp \subseteq GivenUp', t \in GivenUp'
  PROVE  Settled(m, Len(m))'
<1>1. PICK n, q : n = Len(m) /\ q = n - p /\ n \in Nat /\ q \in Nat
  OBVIOUS
<1>2. ASSUME NEW i \in 1 .. n, m[i].role = "calls", m[i].of \notin GivenUp', NEW k \in 1 .. m[i].n
      PROVE  i + k <= n /\ m[i + k] = [role |-> "tool", of |-> m[i].of, n |-> k]
  <2>1. CASE i <= q
    <3>1. i \in 1 .. q
      BY <1>1, <2>1
    <3>2. i + k <= q /\ m[i + k] = [role |-> "tool", of |-> m[i].of, n |-> k] /\ k \in Int
      BY <1>1, <1>2, <3>1 DEF Settled
    <3>3. QED
      BY <1>1, <3>1, <3>2
  <2>2. CASE i = q + 1
    <3>1. p > 0
      BY <1>1, <2>2
    <3>2. m[i].of = t
      BY <1>1, <2>2, <3>1 DEF Opened
    <3>3. QED
      BY <1>2, <3>2
  <2>3. CASE i > q + 1
    <3>1. p > 0 /\ i - (q + 1) \in 1 .. p - 1 /\ q + 1 + (i - (q + 1)) = i
      BY <1>1, <2>3
    <3>2. PICK l \in 1 .. p - 1 : q + 1 + l = i
      BY <3>1
    <3>3. m[i] = [role |-> "tool", of |-> t, n |-> l]
      BY <1>1, <3>1, <3>2 DEF Opened
    <3>4. QED
      BY <1>2, <3>3
  <2>4. QED
    BY <1>1, <2>1, <2>2, <2>3
<1>3. Settled(m, n)'
  BY <1>2 DEF Settled
<1>4. QED
  BY <1>1, <1>3


-----------------------------------------------------------------------------
(* Types                                                                   *)

Records == [scope : Scopes, used : 0 .. MaxTime, messages : Seq(Messages)]
Over == {"new", "queued", "done"}

\* None is neither a session nor a turn.
LEMMA NoneIsNoRecord ==
  None \notin Records /\ None \notin Turns
<1>1. MaxTime \in Nat
  BY AnalystAssumption
<1>2. ASSUME NEW r \in Records
      PROVE  r \in [scope : Scopes, used : Nat, messages : Seq(Messages)]
  BY <1>1 DEF Records
<1>3. QED
  BY <1>2, AnalystAssumption

\* The turn that runs holds the lock, and its session is there.
LEMMA Holder ==
  ASSUME IInv, NEW t \in Turns, turn[t].pc \notin Over
  PROVE  /\ lock = t /\ TalkInv(t) /\ turn[t].id \in Ids /\ turn[t] \in TurnStates
         /\ session[turn[t].id] # None /\ session[turn[t].id] \in Records
<1>1. lock = t /\ lock # None
  BY NoneIsNoRecord DEF IInv, TypeOK, Over
<1>2. TalkInv(t) /\ session[turn[t].id] # None
  BY <1>1 DEF IInv, TypeOK
<1>3. turn[t] \in TurnStates
  BY DEF IInv, TypeOK
<1>4. turn[t].id \in Ids
  BY <1>3 DEF TurnStates
<1>5. session[turn[t].id] \in Records
  BY <1>2, <1>4 DEF IInv, TypeOK, Records
<1>6. QED
  BY <1>1, <1>2, <1>3, <1>4, <1>5

\* A step of one turn leaves the others alone.
LEMMA Others ==
  ASSUME TypeOK, NEW t \in Turns, NEW new \in TurnStates, Become(t, new)
  PROVE  turn' \in [Turns -> TurnStates] /\ turn'[t] = new /\ \A u \in Turns \ {t} : turn'[u] = turn[u]
BY DEF TypeOK, Become

\* The types are kept by a step that keeps the sessions there are, and the lock
\* with the turn that runs.
LEMMA TypeKept ==
  ASSUME TypeOK, NEW t \in Turns, NEW new \in TurnStates, Become(t, new), new.id = turn[t].id,
         UNCHANGED <<now, order>>,
         session' \in [Ids -> Records \cup {None}], \A i \in Ids : session'[i] # None <=> session[i] # None,
         text' \in [Turns -> Texts], events' \in [Turns -> Seq({"step", "final", "error"})],
         cut' \subseteq Turns, broken' \subseteq Turns,
         \/ new.pc \notin Over /\ lock = t /\ lock' = t
         \/ new.pc \in Over /\ lock' = IF lock = t THEN None ELSE lock
  PROVE  TypeOK'
<1>1. turn' \in [Turns -> TurnStates] /\ turn'[t] = new /\ \A u \in Turns \ {t} : turn'[u] = turn[u]
  BY Others
<1>2. lock' \in Turns \cup {None} /\ None \notin Turns
  BY NoneIsNoRecord DEF TypeOK
<1>3. ASSUME NEW u \in Turns
      PROVE  turn'[u].pc \notin Over <=> lock' = u
  <2>1. turn[u].pc \notin Over <=> lock = u
    BY DEF TypeOK, Over
  <2>2. QED
    BY <1>1, <1>2, <2>1
<1>4. lock' # None => session'[turn'[lock'].id] # None
  <2>1. ASSUME lock' # None
        PROVE  lock' = lock /\ lock \in Turns /\ turn'[lock].id = turn[lock].id /\ turn[lock].id \in Ids
    <3>1. lock' = lock /\ lock \in Turns
      BY <2>1 DEF TypeOK
    <3>2. turn[lock].id \in Ids
      BY <3>1 DEF TypeOK, TurnStates
    <3>3. QED
      BY <1>1, <3>1, <3>2
  <2>2. QED
    BY <2>1 DEF TypeOK
<1>5. \A i \in Ids : session'[i] # None <=> i \in ToSet(order')
  BY DEF TypeOK
<1>6. now' \in 0 .. MaxTime /\ order' \in Seq(Ids) /\ IsInjective(order') /\ Len(order') <= MaxSessions
  BY DEF TypeOK
<1>7. QED
  BY <1>1, <1>2, <1>3, <1>4, <1>5, <1>6 DEF TypeOK, Over, Records

\* A session that is written is of the same scope and longer by what is said.
LEMMA SaidThere ==
  ASSUME TypeOK, NEW t \in Turns, NEW i \in Ids, i = turn[t].id, session[i] # None,
         NEW role, NEW n, NEW x \in Messages, x = [role |-> role, of |-> t, n |-> n], Say(t, role, n)
  PROVE  /\ session' \in [Ids -> Records \cup {None}] /\ \A j \in Ids : session'[j] # None <=> session[j] # None
         /\ \A j \in Ids \ {i} : session'[j] = session[j]
         /\ session'[i].scope = session[i].scope /\ session'[i].messages = Append(session[i].messages, x)
         /\ session[i].messages \in Seq(Messages)
<1>1. PICK s : s = session[i] /\ s \in Records
  BY DEF TypeOK, Records
<1>2. session' = [session EXCEPT ![i].messages = Append(session[i].messages, x)]
  BY DEF Say
<1>3. PICK new : new = [s EXCEPT !.messages = Append(s.messages, x)]
  OBVIOUS
<1>4. session' = [session EXCEPT ![i] = new]
  BY <1>1, <1>2, <1>3
<1>5. s.messages \in Seq(Messages) /\ Append(s.messages, x) \in Seq(Messages)
  BY <1>1 DEF Records
<1>6. new \in Records /\ new.scope = s.scope /\ new.messages = Append(s.messages, x)
  BY <1>1, <1>3, <1>5 DEF Records
<1>7. session \in [Ids -> Records \cup {None}]
  BY DEF TypeOK, Records
<1>8. QED
  BY <1>1, <1>4, <1>5, <1>6, <1>7, NoneIsNoRecord

-----------------------------------------------------------------------------
(* Events                                                                  *)

\* A turn that goes on yields steps at most.
LEMMA EventsGoOn ==
  ASSUME IInv, NEW t \in Turns, NEW new \in TurnStates, Become(t, new), turn[t].pc # "done", new.pc # "done",
         UNCHANGED <<cut, broken>>, UNCHANGED events \/ Yield(t, "step")
  PROVE  /\ events' \in [Turns -> Seq({"step", "final", "error"})]
         /\ \A u \in Turns \ {t} : events'[u] = events[u]
         /\ \A u \in Turns : EventInv(u)'
<1>1. turn'[t] = new /\ \A u \in Turns \ {t} : turn'[u] = turn[u]
  BY Others DEF IInv
<1>2. events \in [Turns -> Seq({"step", "final", "error"})]
  BY DEF IInv, TypeOK
<1>3. events' \in [Turns -> Seq({"step", "final", "error"})] /\ \A u \in Turns \ {t} : events'[u] = events[u]
  <2>1. CASE UNCHANGED events
    BY <1>2, <2>1
  <2>2. CASE Yield(t, "step")
    <3>1. PICK e \in Seq({"step", "final", "error"}) : e = Append(events[t], "step")
      <4>1. PICK f \in Seq({"step", "final", "error"}) : f = events[t]
        BY <1>2
      <4>2. Append(f, "step") \in Seq({"step", "final", "error"})
        OBVIOUS
      <4>3. QED
        BY <4>1, <4>2
    <3>2. events' = [events EXCEPT ![t] = e]
      BY <2>2, <3>1 DEF Yield
    <3>3. QED
      BY <1>2, <3>1, <3>2
  <2>3. QED
    BY <2>1, <2>2
<1>4. ASSUME NEW u \in Turns \ {t}
      PROVE  EventInv(u)'
  BY <1>1, <1>3 DEF IInv, EventInv, Ends
<1>5. Ends(t) = {} /\ t \notin cut
  BY DEF IInv, EventInv
<1>6. Ends(t)' = {}
  <2>1. CASE UNCHANGED events
    BY <1>5, <2>1 DEF Ends
  <2>2. CASE Yield(t, "step")
    <3>1. PICK e \in Seq({"step", "final", "error"}) : e = events[t]
      BY <1>2
    <3>2. events'[t] = Append(e, "step")
      BY <1>2, <2>2, <3>1 DEF Yield
    <3>3. \A k \in 1 .. Len(e) : e[k] \notin {"final", "error"}
      BY <1>5, <3>1 DEF Ends
    <3>4. QED
      BY <3>2, <3>3 DEF Ends
  <2>3. QED
    BY <2>1, <2>2
<1>7. EventInv(t)'
  BY <1>1, <1>5, <1>6 DEF EventInv
<1>8. QED
  BY <1>3, <1>4, <1>7

\* A turn that ends yields its terminal event last.
LEMMA EventsEnd ==
  ASSUME IInv, NEW t \in Turns, NEW new \in TurnStates, Become(t, new), turn[t].pc # "done", new.pc = "done",
         UNCHANGED cut, NEW kind \in {"final", "error"}, Yield(t, kind)
  PROVE  /\ events' \in [Turns -> Seq({"step", "final", "error"})]
         /\ \A u \in Turns \ {t} : events'[u] = events[u]
         /\ Last(events[t])' = kind /\ t \notin cut
         /\ \A u \in Turns : EventInv(u)'
<1>1. turn'[t] = new /\ \A u \in Turns \ {t} : turn'[u] = turn[u]
  BY Others DEF IInv
<1>2. events \in [Turns -> Seq({"step", "final", "error"})]
  BY DEF IInv, TypeOK
<1>3. events' \in [Turns -> Seq({"step", "final", "error"})] /\ \A u \in Turns \ {t} : events'[u] = events[u]
  BY <1>2 DEF Yield
<1>4. ASSUME NEW u \in Turns \ {t}
      PROVE  EventInv(u)'
  BY <1>1, <1>3 DEF IInv, EventInv, Ends
<1>5. Ends(t) = {} /\ t \notin cut
  BY DEF IInv, EventInv
<1>6. PICK e \in Seq({"step", "final", "error"}) : e = events[t]
  BY <1>2
<1>7. events'[t] = Append(e, kind)
  BY <1>2, <1>6 DEF Yield
<1>8. \A k \in 1 .. Len(e) : e[k] \notin {"final", "error"}
  BY <1>5, <1>6 DEF Ends
<1>9. Len(Append(e, kind)) = Len(e) + 1 /\ Append(e, kind)[Len(e) + 1] = kind /\ Len(e) \in Nat
      /\ \A k \in 1 .. Len(e) : Append(e, kind)[k] = e[k]
  OBVIOUS
<1>10. Ends(t)' = {Len(events'[t])} /\ Last(events[t])' = kind
  <2>1. Ends(t)' = {k \in 1 .. Len(e) + 1 : Append(e, kind)[k] \in {"final", "error"}}
    BY <1>7, <1>9 DEF Ends
  <2>2. Ends(t)' = {Len(e) + 1}
    BY <1>8, <1>9, <2>1
  <2>3. QED
    BY <1>7, <1>9, <2>2 DEF Last
<1>11. EventInv(t)'
  BY <1>1, <1>5, <1>10 DEF EventInv
<1>12. QED
  BY <1>3, <1>4, <1>5, <1>10, <1>11


-----------------------------------------------------------------------------
(* Sessions                                                                *)

\* A turn keeps its id and scope, and one that is over stays as it ended.
Faithful ==
  /\ cut \subseteq cut' /\ broken \subseteq broken'
  /\ \A u \in Turns :
       /\ turn'[u].id = turn[u].id /\ turn'[u].scope = turn[u].scope
       /\ turn[u].pc = "done" =>
            turn'[u].pc = "done" /\ events'[u] = events[u] /\ (u \in cut' => u \in cut)

\* A message stays a message of its session.
LEMMA MessageKept ==
  ASSUME Faithful, NEW i, NEW message, message.of \in Turns, MessageInv(i, message),
         session'[i].scope = session[i].scope
  PROVE  MessageInv(i, message)'
BY DEF Faithful, MessageInv, Last

\* A session that is not touched stays good, and is settled if it was.
LEMMA SessionKept ==
  ASSUME IInv, Faithful, NEW i \in Ids, session'[i] = session[i], session[i] # None,
         \/ Settled(session[i].messages, Len(session[i].messages))
         \/ lock' # None /\ turn'[lock'].id = i
  PROVE  SessionInv(i)'
<1>1. PICK s \in Records : s = session[i]
  BY DEF IInv, TypeOK, Records
<1>2. PICK m \in Seq(Messages) : m = s.messages
  BY <1>1 DEF Records
<1>3. ASSUME NEW k \in 1 .. Len(m)
      PROVE  MessageInv(i, m[k])'
  <2>1. PICK message \in Messages : message = m[k]
    OBVIOUS
  <2>2. MessageInv(i, message)
    BY <1>1, <1>2, <2>1 DEF IInv, SessionInv
  <2>3. message.of \in Turns
    BY DEF Messages
  <2>4. MessageInv(i, message)'
    BY <2>2, <2>3, MessageKept
  <2>5. QED
    BY <2>1, <2>4
<1>4. ASSUME Settled(m, Len(m))
      PROVE  Settled(m, Len(m))'
  BY <1>4 DEF Settled, GivenUp, Faithful
<1>5. QED
  BY <1>1, <1>2, <1>3, <1>4 DEF SessionInv

\* What a step of the turn that runs must show of the session it is of.
LEMMA StepKeepsIt ==
  ASSUME IInv, NEW t \in Turns, NEW i \in Ids, i = turn[t].id, NEW new \in TurnStates, Become(t, new),
         turn[t].pc # "done", new.id = turn[t].id, new.scope = turn[t].scope,
         TypeOK', \A u \in Turns : EventInv(u)', \A u \in Turns \ {t} : events'[u] = events[u],
         cut' = cut \/ cut' = cut \cup {t}, broken' = broken \/ broken' = broken \cup {t},
         \A j \in Ids \ {i} : session'[j] = session[j], lock' # None => TalkInv(lock)',
         \/ lock' = lock /\ (lock = t => SessionInv(i)') /\ (lock # t => session'[i] = session[i])
         \/ lock' = None /\ lock = t /\ SessionInv(i)'
  PROVE  IInv'
<1>1. turn'[t] = new /\ \A u \in Turns \ {t} : turn'[u] = turn[u]
  BY Others DEF IInv
<1>2. Faithful
  <2>1. \A u \in Turns : turn[u].pc = "done" => u # t
    OBVIOUS
  <2>2. QED
    BY <1>1, <2>1 DEF Faithful
<1>3. lock \in Turns \cup {None} /\ None \notin Turns
  BY NoneIsNoRecord DEF IInv, TypeOK
<1>4. ASSUME NEW j \in Ids, session'[j] = session[j], j # i \/ lock # t
      PROVE  SessionInv(j)'
  <2>1. CASE session[j] = None
    BY <1>4, <2>1 DEF SessionInv
  <2>2. CASE session[j] # None
    <3>1. \/ Settled(session[j].messages, Len(session[j].messages))
          \/ lock # None /\ turn[lock].id = j
      BY <2>2 DEF IInv, SessionInv
    <3>2. ASSUME lock # None, turn[lock].id = j
          PROVE  lock' # None /\ turn'[lock'].id = j
      <4>1. lock # t
        BY <1>4, <3>2
      <4>2. lock' = lock /\ lock \in Turns \ {t}
        BY <1>3, <3>2, <4>1
      <4>3. QED
        BY <1>1, <3>2, <4>2
    <3>3. QED
      BY <1>2, <1>4, <2>2, <3>1, <3>2, SessionKept
  <2>3. QED
    BY <2>1, <2>2
<1>5. \A j \in Ids : SessionInv(j)'
  <2>1. \A j \in Ids \ {i} : SessionInv(j)'
    BY <1>4
  <2>2. SessionInv(i)'
    BY <1>4
  <2>3. QED
    BY <2>1, <2>2
<1>6. QED
  BY <1>5 DEF IInv


-----------------------------------------------------------------------------
(* The steps of a turn                                                     *)

\* The round under way of a turn that does not move stays as it is.
LEMMA TalkKept ==
  ASSUME IInv, NEW t \in Turns, TalkInv(t), turn'[t] = turn[t], GivenUp \subseteq GivenUp',
         session[turn[t].id] # None, session'[turn[t].id] = session[turn[t].id]
  PROVE  TalkInv(t)'
<1>1. PICK i \in Ids : i = turn[t].id
  BY DEF IInv, TypeOK, TurnStates
<1>2. PICK s \in Records : s = session[i]
  BY <1>1 DEF IInv, TypeOK, Records
<1>3. PICK m \in Seq(Messages) : m = s.messages
  BY <1>2 DEF Records
<1>3a. PICK p : p = Pending(t)
  OBVIOUS
<1>4. p \in 0 .. Len(m) /\ Settled(m, Len(m) - p) /\ Pending(t)' = p
  BY <1>1, <1>2, <1>3, <1>3a DEF TalkInv, Pending, UnderWay
<1>5. PICK q \in 0 .. Len(m) : q = Len(m) - p
  BY <1>4
<1>6. Settled(m, q)'
  BY <1>4, <1>5 DEF Settled
<1>7. Settled(m, Len(m) - p)'
  BY <1>5, <1>6
<1>8. QED
  BY <1>1, <1>2, <1>3, <1>3a, <1>4, <1>7 DEF TalkInv

\* A turn that goes on and says nothing.
LEMMA GoesOn ==
  ASSUME IInv, NEW t \in Turns, turn[t].pc \notin Over, NEW new \in TurnStates, Become(t, new),
         new.id = turn[t].id, new.scope = turn[t].scope, new.pc \notin Over,
         UNCHANGED <<now, order, session, lock, cut, broken>>, text' \in [Turns -> Texts],
         UNCHANGED events \/ Yield(t, "step"), TalkInv(t)'
  PROVE  IInv'
<1>1. lock = t /\ turn[t].id \in Ids /\ session[turn[t].id] # None /\ turn[t].pc # "done" /\ new.pc # "done"
  BY Holder DEF Over
<1>2. PICK i \in Ids : i = turn[t].id
  BY <1>1
<1>3. /\ events' \in [Turns -> Seq({"step", "final", "error"})]
      /\ \A u \in Turns \ {t} : events'[u] = events[u]
      /\ \A u \in Turns : EventInv(u)'
  BY <1>1, EventsGoOn
<1>4. session \in [Ids -> Records \cup {None}] /\ cut \subseteq Turns /\ broken \subseteq Turns
  BY DEF IInv, TypeOK, Records
<1>5. TypeOK'
  BY <1>1, <1>3, <1>4, TypeKept DEF IInv
<1>6. turn'[t] = new /\ \A u \in Turns \ {t} : turn'[u] = turn[u]
  BY Others DEF IInv
<1>7. Faithful
  <2>1. \A u \in Turns : turn[u].pc = "done" => u # t
    BY <1>1
  <2>2. QED
    BY <1>3, <1>6, <2>1 DEF Faithful
<1>8. SessionInv(i)'
  <2>1. lock' # None /\ turn'[lock'].id = i
    BY <1>1, <1>2, <1>6, NoneIsNoRecord
  <2>2. session'[i] = session[i] /\ session[i] # None
    BY <1>1, <1>2
  <2>3. QED
    BY <1>7, <2>1, <2>2, SessionKept
<1>9. lock' # None => TalkInv(lock)'
  BY <1>1
<1>10. QED
  BY <1>1, <1>2, <1>3, <1>5, <1>8, <1>9, StepKeepsIt

\* A session with one message more is good if that message is, and what must be
\* settled is.
LEMMA SessionSaid ==
  ASSUME IInv, Faithful, NEW i \in Ids, session[i] # None, NEW x \in Messages,
         session'[i].scope = session[i].scope, session'[i].messages = Append(session[i].messages, x),
         MessageInv(i, x)',
         \/ Settled(session[i].messages, Len(session[i].messages))'
         \/ lock' # None /\ turn'[lock'].id = i
  PROVE  SessionInv(i)'
<1>1. PICK s \in Records : s = session[i]
  BY DEF IInv, TypeOK, Records
<1>2. PICK m \in Seq(Messages) : m = s.messages
  BY <1>1 DEF Records
<1>2a. PICK r : r = Append(m, x)
  OBVIOUS
<1>3. Len(r) = Len(m) + 1 /\ Len(m) \in Nat /\ r[Len(m) + 1] = x /\ \A k \in 1 .. Len(m) : r[k] = m[k]
  BY <1>2, <1>2a, Said
<1>4. ASSUME NEW k \in 1 .. Len(r)
      PROVE  MessageInv(i, r[k])'
  <2>1. CASE k = Len(m) + 1
    <3>1. r[k] = x
      BY <1>3, <2>1
    <3>2. QED
      BY <3>1
  <2>2. CASE k # Len(m) + 1
    <3>1. k \in 1 .. Len(m)
      BY <1>3, <2>2
    <3>2. PICK message \in Messages : message = m[k] /\ message = r[k]
      BY <1>3, <3>1
    <3>3. MessageInv(i, message)
      BY <1>1, <1>2, <1>2a, <3>1, <3>2 DEF IInv, SessionInv
    <3>4. message.of \in Turns
      BY DEF Messages
    <3>5. MessageInv(i, message)'
      BY <3>3, <3>4, MessageKept
    <3>6. QED
      BY <3>2, <3>5
  <2>3. QED
    BY <2>1, <2>2
<1>5. session'[i].messages = r
  BY <1>1, <1>2, <1>2a
<1>6. QED
  BY <1>4, <1>5 DEF SessionInv

\* A turn that goes on and says something.
LEMMA SaysOn ==
  ASSUME IInv, NEW t \in Turns, turn[t].pc \notin Over, NEW new \in TurnStates, Become(t, new),
         new.id = turn[t].id, new.scope = turn[t].scope, new.pc \notin Over,
         NEW role \in {"calls", "tool"}, NEW n \in 0 .. MaxCalls, Say(t, role, n),
         UNCHANGED <<now, order, lock, text, cut, broken>>,
         UNCHANGED events \/ Yield(t, "step"), TalkInv(t)'
  PROVE  IInv'
<1>1. lock = t /\ turn[t].id \in Ids /\ session[turn[t].id] # None /\ turn[t].pc # "done" /\ new.pc # "done"
  BY Holder DEF Over
<1>2. PICK i \in Ids, x \in Messages : i = turn[t].id /\ x = [role |-> role, of |-> t, n |-> n]
  BY <1>1 DEF Messages, Roles
<1>3. /\ session' \in [Ids -> Records \cup {None}] /\ \A j \in Ids : session'[j] # None <=> session[j] # None
      /\ \A j \in Ids \ {i} : session'[j] = session[j]
      /\ session'[i].scope = session[i].scope /\ session'[i].messages = Append(session[i].messages, x)
  BY <1>1, <1>2, SaidThere DEF IInv
<1>4. /\ events' \in [Turns -> Seq({"step", "final", "error"})]
      /\ \A u \in Turns \ {t} : events'[u] = events[u]
      /\ \A u \in Turns : EventInv(u)'
  BY <1>1, EventsGoOn
<1>5. text \in [Turns -> Texts] /\ cut \subseteq Turns /\ broken \subseteq Turns
  BY DEF IInv, TypeOK
<1>6. TypeOK'
  BY <1>1, <1>3, <1>4, <1>5, TypeKept DEF IInv
<1>7. turn'[t] = new /\ \A u \in Turns \ {t} : turn'[u] = turn[u]
  BY Others DEF IInv
<1>8. Faithful
  <2>1. \A u \in Turns : turn[u].pc = "done" => u # t
    BY <1>1
  <2>2. QED
    BY <1>4, <1>7, <2>1 DEF Faithful
<1>9. SessionInv(i)'
  <2>1. lock' # None /\ turn'[lock'].id = i
    BY <1>1, <1>2, <1>7, NoneIsNoRecord
  <2>2. x.of = t /\ x.role # "answer"
    BY <1>2
  <2>3. turn[t].scope = session[i].scope
    BY <1>1, <1>2, Holder DEF TalkInv
  <2>4. MessageInv(i, x)'
    BY <1>2, <1>3, <1>7, <2>2, <2>3 DEF MessageInv
  <2>5. QED
    BY <1>1, <1>2, <1>3, <1>8, <2>1, <2>4, SessionSaid
<1>10. lock' # None => TalkInv(lock)'
  BY <1>1
<1>11. QED
  BY <1>1, <1>2, <1>3, <1>4, <1>6, <1>9, <1>10, StepKeepsIt


\* A turn that lets go is done and keeps its id and scope.
LEMMA LetsGo ==
  ASSUME TypeOK, NEW t \in Turns, LetGo(t)
  PROVE  /\ \E new \in TurnStates : Become(t, new) /\ new.id = turn[t].id /\ new.scope = turn[t].scope /\ new.pc = "done"
         /\ text' \in [Turns -> Texts]
         /\ lock' = IF lock = t THEN None ELSE lock
         /\ turn'[t].id = turn[t].id /\ turn'[t].scope = turn[t].scope /\ turn'[t].pc = "done"
         /\ \A u \in Turns \ {t} : turn'[u] = turn[u]
<1>1. PICK a \in TurnStates : a = turn[t]
  BY DEF TypeOK
<1>2. PICK new : new = [a EXCEPT !.pc = "done", !.calls = 0, !.ran = {}, !.step = 0]
  OBVIOUS
<1>3. Become(t, new)
  BY <1>1, <1>2 DEF LetGo
<1>4. new \in TurnStates /\ new.id = a.id /\ new.scope = a.scope /\ new.pc = "done"
  <2>1. 0 \in 0 .. MaxCalls /\ {} \in SUBSET (1 .. MaxCalls)
    BY AnalystAssumption
  <2>2. QED
    BY <1>1, <1>2, <2>1 DEF TurnStates
<1>5. text' \in [Turns -> Texts]
  <2>1. <<>> \in Texts
    BY DEF Texts
  <2>2. QED
    BY <2>1 DEF LetGo, TypeOK
<1>6. turn'[t] = new /\ \A u \in Turns \ {t} : turn'[u] = turn[u]
  BY <1>3, <1>4, Others
<1>7. QED
  BY <1>1, <1>3, <1>4, <1>5, <1>6 DEF LetGo

\* A turn that ends with its terminal event leaves its session good, if all it
\* asked is answered.
LEMMA EndKeeps ==
  ASSUME IInv, NEW t \in Turns, turn[t].pc \notin Over, NEW i \in Ids, i = turn[t].id,
         NEW kind \in {"final", "error"}, LetGo(t), Yield(t, kind),
         UNCHANGED <<now, order, cut>>, broken' = broken \/ broken' = broken \cup {t},
         session' \in [Ids -> Records \cup {None}], \A j \in Ids : session'[j] # None <=> session[j] # None,
         \A j \in Ids \ {i} : session'[j] = session[j],
         \/ session'[i] = session[i]
         \/ \E x \in Messages :
              /\ session'[i].scope = session[i].scope /\ session'[i].messages = Append(session[i].messages, x)
              /\ x.of = t /\ (x.role = "answer" => kind = "final" \/ t \in broken'),
         Settled(session[i].messages, Len(session[i].messages))'
  PROVE  IInv'
<1>1. lock = t /\ lock' = None /\ TalkInv(t) /\ session[i] # None /\ turn[t].pc # "done"
  BY Holder, LetsGo DEF IInv, Over
<1>2. PICK new \in TurnStates : Become(t, new) /\ new.id = turn[t].id /\ new.scope = turn[t].scope /\ new.pc = "done"
  BY LetsGo DEF IInv
<1>3. turn'[t].id = turn[t].id /\ turn'[t].scope = turn[t].scope /\ turn'[t].pc = "done"
      /\ (\A u \in Turns \ {t} : turn'[u] = turn[u]) /\ text' \in [Turns -> Texts]
  BY LetsGo DEF IInv
<1>4. /\ events' \in [Turns -> Seq({"step", "final", "error"})]
      /\ \A u \in Turns \ {t} : events'[u] = events[u]
      /\ Last(events[t])' = kind /\ t \notin cut
      /\ \A u \in Turns : EventInv(u)'
  BY <1>1, <1>2, EventsEnd
<1>5. cut \subseteq Turns /\ broken' \subseteq Turns
  BY DEF IInv, TypeOK
<1>6. TypeOK'
  BY <1>1, <1>2, <1>3, <1>4, <1>5, TypeKept DEF IInv, Over
<1>7. Faithful
  <2>1. \A u \in Turns : turn[u].pc = "done" => u # t
    BY <1>1
  <2>2. QED
    BY <1>3, <1>4, <2>1 DEF Faithful
<1>8. SessionInv(i)'
  <2>1. CASE session'[i] = session[i]
    <3>1. PICK s \in Records : s = session[i]
      BY <1>1, ZenonT(60) DEF IInv, TypeOK, Records
    <3>2. ASSUME NEW k \in 1 .. Len(s.messages)
          PROVE  MessageInv(i, s.messages[k])'
      <4>1. PICK message \in Messages : message = s.messages[k]
        <5>1. PICK m \in Seq(Messages) : m = s.messages
          BY DEF Records
        <5>2. m[k] \in Messages
          BY <5>1, Element
        <5>3. QED
          BY ONLY <5>1, <5>2
      <4>2. MessageInv(i, message)
        BY <1>1, <3>1, <4>1 DEF IInv, SessionInv
      <4>3. message.of \in Turns
        BY DEF Messages
      <4>4. MessageInv(i, message)'
        BY <1>7, <2>1, <4>2, <4>3, MessageKept
      <4>5. QED
        BY <4>1, <4>4
    <3>3. QED
      BY <2>1, <3>1, <3>2 DEF SessionInv
  <2>2. CASE session'[i] # session[i]
    <3>1. PICK x \in Messages :
              /\ session'[i].scope = session[i].scope /\ session'[i].messages = Append(session[i].messages, x)
              /\ x.of = t /\ (x.role = "answer" => kind = "final" \/ t \in broken')
      BY <2>2
    <3>2. turn[t].scope = session[i].scope
      BY <1>1 DEF TalkInv
    <3>3. MessageInv(i, x)'
      BY <1>3, <1>4, <3>1, <3>2 DEF MessageInv
    <3>4. QED
      BY <1>1, <1>7, <3>1, <3>3, SessionSaid
  <2>3. QED
    BY <2>1, <2>2
<1>9. QED
  BY <1>1, <1>2, <1>4, <1>6, <1>8, StepKeepsIt

\* With nothing pending a turn's conversation is settled.
LEMMA NothingPending ==
  ASSUME IInv, NEW t \in Turns, turn[t].pc \in {"reason", "stream", "flushed"}
  PROVE  /\ turn[t].pc \notin Over
         /\ Settled(session[turn[t].id].messages, Len(session[turn[t].id].messages))
         /\ \E m \in Seq(Messages) : m = session[turn[t].id].messages
<1>1. turn[t].pc \notin Over /\ Pending(t) = 0
  BY DEF Over, Pending, UnderWay
<1>2. TalkInv(t) /\ session[turn[t].id] \in Records
  BY <1>1, Holder
<1>3. PICK m \in Seq(Messages) : m = session[turn[t].id].messages
  BY <1>2 DEF Records
<1>4. Settled(m, Len(m) - 0) /\ Len(m) - 0 = Len(m)
  BY <1>1, <1>2, <1>3 DEF TalkInv
<1>5. QED
  BY <1>1, <1>3, <1>4

\* A failure settles nothing, for nothing is pending.
LEMMA FailsKeeps ==
  ASSUME IInv, NEW t \in Turns, ModelFails(t) \/ StreamFails(t)
  PROVE  IInv'
<1>1. /\ turn[t].pc \in {"reason", "stream"} /\ LetGo(t) /\ Yield(t, "error")
      /\ UNCHANGED <<now, order, session, cut, broken>>
  BY DEF ModelFails, StreamFails, End, storeVars
<1>2. turn[t].pc \notin Over /\ Settled(session[turn[t].id].messages, Len(session[turn[t].id].messages))
  BY <1>1, NothingPending
<1>3. PICK i \in Ids : i = turn[t].id
  BY DEF IInv, TypeOK, TurnStates
<1>4. Settled(session[i].messages, Len(session[i].messages))'
  BY <1>1, <1>2, <1>3, ZenonT(60) DEF Settled, GivenUp
<1>5. session' \in [Ids -> Records \cup {None}] /\ (\A j \in Ids : session'[j] = session[j])
  BY <1>1 DEF IInv, TypeOK, Records
<1>6. QED
  BY <1>1, <1>2, <1>3, <1>4, <1>5, EndKeeps

\* An answer is said by a turn that ends well, or that an exception leaves.
LEMMA FinishKeeps ==
  ASSUME IInv, NEW t \in Turns, Finish(t) \/ AnswerRaises(t)
  PROVE  IInv'
<1>0. PICK kind \in {"final", "error"} :
        Yield(t, kind) /\ (kind = "final" \/ t \in broken') /\ (broken' = broken \/ broken' = broken \cup {t})
  BY DEF Finish, AnswerRaises, End, Break
<1>1. /\ turn[t].pc = "flushed" /\ LetGo(t) /\ Say(t, "answer", 0)
      /\ UNCHANGED <<now, order, cut>> /\ GivenUp \subseteq GivenUp'
  BY DEF Finish, AnswerRaises, End, Break, GivenUp
<1>2. PICK i \in Ids, x \in Messages : i = turn[t].id /\ x = [role |-> "answer", of |-> t, n |-> 0]
  <2>1. 0 \in 0 .. MaxCalls
    BY AnalystAssumption
  <2>2. QED
    BY <2>1 DEF IInv, TypeOK, TurnStates, Messages, Roles
<1>3. PICK m \in Seq(Messages) : m = session[i].messages /\ Settled(m, Len(m)) /\ turn[t].pc \notin Over
  BY <1>1, <1>2, NothingPending
<1>4. session[i] # None
  BY <1>2, <1>3, Holder
<1>5. /\ session' \in [Ids -> Records \cup {None}] /\ \A j \in Ids : session'[j] # None <=> session[j] # None
      /\ \A j \in Ids \ {i} : session'[j] = session[j]
      /\ session'[i].scope = session[i].scope /\ session'[i].messages = Append(session[i].messages, x)
  BY <1>1, <1>2, <1>4, SaidThere DEF IInv
<1>6. Settled(session[i].messages, Len(session[i].messages))'
  <2>1. x.role # "calls" /\ GivenUp \subseteq GivenUp'
    BY <1>1, <1>2
  <2>2. Settled(Append(m, x), Len(m) + 1)'
    BY <1>3, <2>1, SettledGoesOn
  <2>3. PICK r, n : r = Append(m, x) /\ n = Len(m) + 1 /\ n = Len(r)
    BY Said
  <2>4. Settled(r, n)' /\ session'[i].messages = r /\ n = Len(session'[i].messages)
    BY <1>3, <1>5, <2>2, <2>3
  <2>5. QED
    BY <2>4
<1>7. x.of = t
  BY <1>2
<1>8. \E y \in Messages :
        /\ session'[i].scope = session[i].scope /\ session'[i].messages = Append(session[i].messages, y)
        /\ y.of = t /\ (y.role = "answer" => kind = "final" \/ t \in broken')
  BY <1>0, <1>5, <1>7
<1>9. QED
  BY <1>0, <1>1, <1>2, <1>3, <1>5, <1>6, <1>8, EndKeeps


\* The round of a turn that observes: what is settled, its calls, its payloads.
LEMMA Observing ==
  ASSUME IInv, NEW t \in Turns, turn[t].pc = "observe"
  PROVE  /\ turn[t].pc \notin Over /\ turn[t].step \in 1 .. turn[t].calls /\ turn[t].calls \in 1 .. MaxCalls
         /\ \E m \in Seq(Messages), p \in Nat \ {0} :
              /\ m = session[turn[t].id].messages /\ p = turn[t].step /\ p <= Len(m)
              /\ Settled(m, Len(m) - p)
              /\ m[Len(m) - p + 1] = [role |-> "calls", of |-> t, n |-> turn[t].calls]
              /\ \A k \in 1 .. p - 1 : m[Len(m) - p + 1 + k] = [role |-> "tool", of |-> t, n |-> k]
<1>1. turn[t].pc \notin Over
  BY DEF Over
<1>2. TalkInv(t) /\ turn[t] \in TurnStates /\ session[turn[t].id] \in Records
  BY <1>1, Holder
<1>3. PICK a \in TurnStates : a = turn[t]
  BY <1>2
<1>4. a.calls \in 0 .. MaxCalls /\ a.step \in 1 .. a.calls
  BY <1>2, <1>3 DEF TalkInv, CallsInv, TurnStates
<1>5. PICK m \in Seq(Messages) : m = session[turn[t].id].messages
  BY <1>2 DEF Records
<1>6. PICK p : p = a.step
  OBVIOUS
<1>7. p \in Nat \ {0} /\ p > 0 /\ a.calls \in 1 .. MaxCalls
  BY <1>4, <1>6, AnalystAssumption
<1>8. Pending(t) = p
  BY <1>3, <1>6 DEF Pending, UnderWay
<1>9. /\ p \in 0 .. Len(m) /\ Settled(m, Len(m) - p)
      /\ m[Len(m) - p + 1] = [role |-> "calls", of |-> t, n |-> turn[t].calls]
      /\ \A k \in 1 .. p - 1 : m[Len(m) - p + 1 + k] = [role |-> "tool", of |-> t, n |-> k]
  BY <1>2, <1>5, <1>7, <1>8 DEF TalkInv, Opened
<1>10. p <= Len(m) /\ p = turn[t].step
  BY <1>3, <1>6, <1>9
<1>11. /\ p \in Nat \ {0} /\ m = session[turn[t].id].messages /\ p = turn[t].step /\ p <= Len(m)
       /\ Settled(m, Len(m) - p)
       /\ m[Len(m) - p + 1] = [role |-> "calls", of |-> t, n |-> turn[t].calls]
       /\ \A k \in 1 .. p - 1 : m[Len(m) - p + 1 + k] = [role |-> "tool", of |-> t, n |-> k]
  BY <1>5, <1>7, <1>9, <1>10
<1>12. turn[t].step \in 1 .. turn[t].calls /\ turn[t].calls \in 1 .. MaxCalls
  BY <1>3, <1>4, <1>7
<1>13. QED
  BY ONLY <1>1, <1>11, <1>12

\* The last payload settles the round, of which the apology is no message.
LEMMA RoundLimitKeeps ==
  ASSUME IInv, NEW t \in Turns, RoundLimit(t)
  PROVE  IInv'
<1>1. /\ turn[t].pc = "observe" /\ turn[t].step = turn[t].calls
      /\ LetGo(t) /\ Yield(t, "final") /\ Say(t, "tool", turn[t].step)
      /\ UNCHANGED <<now, order, cut, broken>>
  BY DEF RoundLimit, End, LastOfRound
<1>2. turn[t].pc \notin Over /\ turn[t].step \in 1 .. MaxCalls
  BY <1>1, Observing
<1>3. PICK m \in Seq(Messages), p \in Nat \ {0} :
        /\ m = session[turn[t].id].messages /\ p = turn[t].step /\ p <= Len(m)
        /\ Settled(m, Len(m) - p)
        /\ m[Len(m) - p + 1] = [role |-> "calls", of |-> t, n |-> turn[t].calls]
        /\ \A k \in 1 .. p - 1 : m[Len(m) - p + 1 + k] = [role |-> "tool", of |-> t, n |-> k]
  BY <1>1, Observing
<1>4. PICK i \in Ids : i = turn[t].id
  BY DEF IInv, TypeOK, TurnStates
<1>5. PICK x \in Messages : x = [role |-> "tool", of |-> t, n |-> p]
  <2>1. p \in 0 .. MaxCalls
    BY <1>2, <1>3, AnalystAssumption
  <2>2. QED
    BY <2>1 DEF Messages, Roles
<1>6. session[i] # None
  BY <1>2, <1>4, Holder
<1>7. Say(t, "tool", p)
  BY <1>1, <1>3
<1>8. /\ session' \in [Ids -> Records \cup {None}] /\ \A j \in Ids : session'[j] # None <=> session[j] # None
      /\ \A j \in Ids \ {i} : session'[j] = session[j]
      /\ session'[i].scope = session[i].scope /\ session'[i].messages = Append(session[i].messages, x)
  BY <1>4, <1>5, <1>6, <1>7, SaidThere, SMTT(60) DEF IInv
<1>9. Settled(session[i].messages, Len(session[i].messages))'
  <2>1. m[Len(m) - p + 1] = [role |-> "calls", of |-> t, n |-> p] /\ GivenUp \subseteq GivenUp'
    BY <1>1, <1>3 DEF GivenUp
  <2>2. Settled(Append(m, x), Len(m) + 1)'
    <3>1. /\ p <= Len(m) /\ Settled(m, Len(m) - p)
          /\ \A k \in 1 .. p - 1 : m[Len(m) - p + 1 + k] = [role |-> "tool", of |-> t, n |-> k]
      BY <1>3
    <3>2. QED
      BY ONLY <1>5, <2>1, <3>1, SettledByLast
  <2>3. PICK r, n : r = Append(m, x) /\ n = Len(m) + 1 /\ n = Len(r)
    BY Said
  <2>4. Settled(r, n)' /\ session'[i].messages = r /\ n = Len(session'[i].messages)
    BY <1>3, <1>4, <1>8, <2>2, <2>3
  <2>5. QED
    BY <2>4
<1>10. x.of = t
  BY <1>5
<1>11. \E y \in Messages :
         /\ session'[i].scope = session[i].scope /\ session'[i].messages = Append(session[i].messages, y)
         /\ y.of = t /\ (y.role = "answer" => "final" = "final" \/ t \in broken')
  BY <1>8, <1>10
<1>12. QED
  BY <1>1, <1>2, <1>4, <1>8, <1>9, <1>11, EndKeeps

\* An exception leaves a round where it is: its calls are excepted from then on.
LEMMA RaisesKeeps ==
  ASSUME IInv, NEW t \in Turns, ToolRaises(t) \/ LabelRaises(t)
  PROVE  IInv'
<1>1. /\ turn[t].pc \in {"act", "observe"} /\ LetGo(t) /\ Yield(t, "error")
      /\ UNCHANGED <<now, order, cut>> /\ broken' = broken \cup {t}
      /\ \/ UNCHANGED session
         \/ turn[t].pc = "observe" /\ Say(t, "tool", turn[t].step)
  BY DEF ToolRaises, LabelRaises, Break, End, storeVars
<1>2. GivenUp \subseteq GivenUp' /\ t \in GivenUp' /\ turn[t].pc \notin Over
  BY <1>1 DEF GivenUp, Over
<1>3. PICK i \in Ids : i = turn[t].id
  BY DEF IInv, TypeOK, TurnStates
<1>4. TalkInv(t) /\ session[i] # None
  BY <1>2, <1>3, Holder
<1>5. PICK s \in Records : s = session[i]
  BY <1>2, <1>3, Holder
<1>6. PICK m \in Seq(Messages) : m = s.messages
  BY DEF Records
<1>7. PICK p : p = Pending(t)
  OBVIOUS
<1>8. p \in 0 .. Len(m) /\ Settled(m, Len(m) - p) /\ Opened(m, Len(m) - p, p, t, turn[t].calls)
  BY <1>3, <1>4, <1>5, <1>6, <1>7 DEF TalkInv
<1>9. Settled(m, Len(m))'
  <2>1. p \in Nat /\ p <= Len(m)
    BY <1>8
  <2>2. QED
    BY <1>2, <1>8, <2>1, SettledByGivingUp
<1>10. CASE UNCHANGED session
  <2>1. session' \in [Ids -> Records \cup {None}] /\ \A j \in Ids : session'[j] = session[j]
    BY <1>10 DEF IInv, TypeOK, Records
  <2>2. Settled(session[i].messages, Len(session[i].messages))'
    BY <1>5, <1>6, <1>9, <1>10
  <2>3. QED
    BY <1>1, <1>2, <1>3, <2>1, <2>2, EndKeeps
<1>11. CASE turn[t].pc = "observe" /\ Say(t, "tool", turn[t].step)
  <2>1. PICK n : n = turn[t].step /\ n \in 0 .. MaxCalls
    BY DEF IInv, TypeOK, TurnStates
  <2>2. PICK x \in Messages : x = [role |-> "tool", of |-> t, n |-> n]
    BY <2>1 DEF Messages, Roles
  <2>3. Say(t, "tool", n)
    BY <1>11, <2>1
  <2>4. /\ session' \in [Ids -> Records \cup {None}] /\ \A j \in Ids : session'[j] # None <=> session[j] # None
        /\ \A j \in Ids \ {i} : session'[j] = session[j]
        /\ session'[i].scope = session[i].scope /\ session'[i].messages = Append(session[i].messages, x)
    BY <1>3, <1>4, <2>2, <2>3, SaidThere, SMTT(60) DEF IInv
  <2>5. Settled(session[i].messages, Len(session[i].messages))'
    <3>1. PICK r, l : r = Append(m, x) /\ l = Len(m) + 1 /\ l = Len(r)
      BY Said
    <3>2. x.role # "calls"
      BY <2>2
    <3>3. Settled(r, l)'
      BY <1>9, <3>1, <3>2, SettledLonger
    <3>4. session'[i].messages = r /\ l = Len(session'[i].messages)
      BY <1>5, <1>6, <2>4, <3>1
    <3>5. QED
      BY <3>3, <3>4
  <2>6. \E y \in Messages :
          /\ session'[i].scope = session[i].scope /\ session'[i].messages = Append(session[i].messages, y)
          /\ y.of = t /\ (y.role = "answer" => "error" = "final" \/ t \in broken')
    BY <2>2, <2>4
  <2>7. QED
    BY <1>1, <1>2, <1>3, <2>4, <2>5, <2>6, EndKeeps
<1>12. QED
  BY <1>1, <1>10, <1>11

\* What the round under way is after a word, from what was there before it.
LEMMA TalkSaid ==
  ASSUME IInv, NEW t \in Turns, turn[t].pc \notin Over, NEW new \in TurnStates, Become(t, new),
         new.id = turn[t].id, new.scope = turn[t].scope,
         NEW role \in {"calls", "tool"}, NEW n \in 0 .. MaxCalls, Say(t, role, n),
         NEW m \in Seq(Messages), m = session[turn[t].id].messages,
         NEW l \in Nat, l = Len(m) + 1, NEW p \in 0 .. l, NEW q, q = l - p,
         NEW x, x = [role |-> role, of |-> t, n |-> n], NEW r, r = Append(m, x),
         p = UnderWay(new), Settled(r, q)', CallsInv(new), Opened(r, q, p, t, new.calls)
  PROVE  TalkInv(t)'
<1>1. PICK i \in Ids : i = turn[t].id
  BY Holder
<1>2. session[i] # None /\ session[i].scope = turn[t].scope /\ x \in Messages
  BY <1>1, Holder DEF TalkInv, Messages, Roles
<1>3. session'[i].scope = session[i].scope /\ session'[i].messages = Append(session[i].messages, x)
  BY <1>1, <1>2, SaidThere DEF IInv
<1>4. turn'[t] = new
  BY Others DEF IInv
<1>5. Len(r) = l
  BY <1>2, Said
<1>6. session'[turn'[t].id].messages = r /\ session'[turn'[t].id].scope = turn'[t].scope
  BY <1>1, <1>2, <1>3, <1>4
<1>7. Pending(t)' = p
  BY <1>4 DEF Pending, UnderWay
<1>8. q = Len(r) - p
  BY <1>5
<1>9. Settled(session[turn[t].id].messages, Len(session[turn[t].id].messages) - p)'
  BY <1>6, <1>8
<1>10. p \in 0 .. Len(session'[turn'[t].id].messages)
  BY <1>5, <1>6
<1>11. Opened(session[turn[t].id].messages, Len(session[turn[t].id].messages) - p, p, t, turn[t].calls)'
  <2>1. Opened(r, Len(r) - p, p, t, new.calls)
    BY <1>8
  <2>2. QED
    BY <1>4, <1>6, <2>1 DEF Opened
<1>12. CallsInv(turn[t])'
  BY <1>4 DEF CallsInv
<1>13. QED
  BY <1>6, <1>7, <1>9, <1>10, <1>11, <1>12 DEF TalkInv

\* Asking for tools opens a round; what was settled stays settled before it.
LEMMA AskToolsKeeps ==
  ASSUME IInv, NEW t \in Turns, AskTools(t)
  PROVE  IInv'
<1>1. PICK n \in 1 .. MaxCalls :
        Become(t, [turn[t] EXCEPT !.pc = "act", !.calls = n]) /\ Say(t, "calls", n)
  BY DEF AskTools
<1>2. turn[t].pc = "reason" /\ UNCHANGED <<now, order, lock, text, events, cut, broken>>
  BY DEF AskTools, streamVars
<1>3. turn[t].pc \notin Over
      /\ \E m \in Seq(Messages) : m = session[turn[t].id].messages /\ Settled(m, Len(m))
  BY <1>2, NothingPending
<1>4. PICK m \in Seq(Messages) : m = session[turn[t].id].messages /\ Settled(m, Len(m))
  BY <1>3
<1>5. PICK a \in TurnStates : a = turn[t]
  BY DEF IInv, TypeOK
<1>5a. PICK new : new = [a EXCEPT !.pc = "act", !.calls = n]
  OBVIOUS
<1>6. n \in 0 .. MaxCalls /\ n >= 1
  BY AnalystAssumption
<1>7. new \in TurnStates /\ new.id = a.id /\ new.scope = a.scope /\ new.pc = "act" /\ new.calls = n
  BY <1>5, <1>5a, <1>6 DEF TurnStates
<1>8. Become(t, new)
  BY <1>1, <1>5, <1>5a
<1>9. PICK x \in Messages : x = [role |-> "calls", of |-> t, n |-> n]
  BY <1>6 DEF Messages, Roles
<1>9a. PICK r, l, q : r = Append(m, x) /\ l = Len(m) + 1 /\ q = l - 1
  OBVIOUS
<1>10. l \in Nat /\ 1 \in 0 .. l /\ q \in 0 .. Len(m) /\ q = Len(m) /\ r[q + 1] = x
  BY <1>9, <1>9a, Said
<1>11. Settled(r, q)'
  BY <1>2, <1>4, <1>9, <1>9a, <1>10, SettledKept DEF GivenUp
<1>12. TalkInv(t)'
  <2>1. PICK p : p = 1 /\ p = UnderWay(new)
    BY <1>7 DEF UnderWay
  <2>2. p \in 0 .. l /\ q = l - p /\ new.id = turn[t].id /\ new.scope = turn[t].scope
    BY <1>5, <1>5a, <1>7, <1>9, <1>9a, <1>10, <2>1
  <2>3. CallsInv(new)
    BY <1>6, <1>7 DEF CallsInv
  <2>4. Opened(r, q, p, t, new.calls)
    BY <1>7, <1>9, <1>9a, <1>10, <2>1 DEF Opened
  <2>5. Say(t, "calls", n) /\ "calls" \in {"calls", "tool"}
    BY <1>1
  <2>6. QED
    BY <1>3, <1>4, <1>6, <1>7, <1>8, <1>9, <1>9a, <1>10, <1>11, <2>1, <2>2, <2>3, <2>4, <2>5, TalkSaid
<1>13. new.pc \notin Over
  BY <1>7 DEF Over
<1>14. QED
  BY <1>1, <1>2, <1>3, <1>5, <1>5a, <1>6, <1>7, <1>8, <1>12, <1>13, SaysOn

\* A payload comes after those of its round.
LEMMA NextStepKeeps ==
  ASSUME IInv, NEW t \in Turns, NextStep(t)
  PROVE  IInv'
<1>1. /\ turn[t].pc = "observe" /\ turn[t].step # turn[t].calls /\ Say(t, "tool", turn[t].step)
      /\ Become(t, [turn[t] EXCEPT !.step = turn[t].step + 1]) /\ Yield(t, "step")
      /\ UNCHANGED <<now, order, lock, text, cut, broken>>
  BY DEF NextStep, LastOfRound, streamVars
<1>2. turn[t].pc \notin Over /\ turn[t].step \in 1 .. turn[t].calls /\ turn[t].calls \in 1 .. MaxCalls
  BY <1>1, Observing
<1>3. PICK m \in Seq(Messages), p \in Nat \ {0} :
        /\ m = session[turn[t].id].messages /\ p = turn[t].step /\ p <= Len(m)
        /\ Settled(m, Len(m) - p)
        /\ m[Len(m) - p + 1] = [role |-> "calls", of |-> t, n |-> turn[t].calls]
        /\ \A k \in 1 .. p - 1 : m[Len(m) - p + 1 + k] = [role |-> "tool", of |-> t, n |-> k]
  BY <1>1, Observing
<1>4. PICK a \in TurnStates : a = turn[t]
  BY DEF IInv, TypeOK
<1>4a. PICK new : new = [a EXCEPT !.step = p + 1]
  OBVIOUS
<1>5. p \in 0 .. MaxCalls /\ p + 1 \in 0 .. MaxCalls /\ p + 1 \in 1 .. a.calls
  BY <1>1, <1>2, <1>3, <1>4, <1>4a, AnalystAssumption, SMTT(60) DEF TurnStates
<1>6. /\ new \in TurnStates /\ new.id = a.id /\ new.scope = a.scope
      /\ new.pc = "observe" /\ new.calls = a.calls /\ new.step = p + 1
  BY <1>1, <1>4, <1>4a, <1>5 DEF TurnStates
<1>7. Become(t, new) /\ Say(t, "tool", p)
  BY <1>1, <1>3, <1>4, <1>4a
<1>8. PICK x \in Messages : x = [role |-> "tool", of |-> t, n |-> p]
  BY <1>5 DEF Messages, Roles
<1>8a. PICK r, l, q : r = Append(m, x) /\ l = Len(m) + 1 /\ q = l - (p + 1)
  OBVIOUS
<1>9. l \in Nat /\ p + 1 \in 0 .. l /\ q \in 0 .. Len(m) /\ q = Len(m) - p /\ r[Len(m) + 1] = x
      /\ \A k \in 1 .. Len(m) : r[k] = m[k]
  <2>1. p <= Len(m) /\ Len(m) \in Nat
    BY <1>3
  <2>2. l \in Nat /\ p + 1 \in 0 .. l /\ q \in 0 .. Len(m) /\ q = Len(m) - p
    BY <1>8, <1>8a, <2>1
  <2>3. QED
    BY <1>8, <1>8a, <2>2, Said
<1>10. Settled(r, q)'
  <2>1. Settled(m, q) /\ GivenUp \subseteq GivenUp'
    BY <1>1, <1>3, <1>9 DEF GivenUp
  <2>2. QED
    BY <1>8, <1>8a, <1>9, <2>1, SettledKept
<1>11. r[q + 1] = [role |-> "calls", of |-> t, n |-> new.calls]
  <2>1. q + 1 \in 1 .. Len(m) /\ q + 1 = Len(m) - p + 1
    <3>1. Len(m) \in Nat /\ p \in Nat /\ p # 0
      OBVIOUS
    <3>2. p <= Len(m)
      BY ONLY <1>3
    <3>3. q = Len(m) - p
      BY ONLY <1>9
    <3>4. QED
      BY ONLY <3>1, <3>2, <3>3
  <2>2. QED
    BY <1>3, <1>4, <1>4a, <1>6, <1>9, <2>1
<1>12. ASSUME NEW k \in 1 .. (p + 1) - 1
       PROVE  r[q + 1 + k] = [role |-> "tool", of |-> t, n |-> k]
  <2>1. CASE k = p
    <3>1. q + 1 + k = Len(m) + 1 /\ r[Len(m) + 1] = x /\ x = [role |-> "tool", of |-> t, n |-> k]
      BY <1>8, <1>8a, <1>9, <2>1
    <3>2. QED
      BY ONLY <3>1
  <2>2. CASE k # p
    <3>1. p <= Len(m)
      BY <1>3
    <3>2. k \in 1 .. p - 1 /\ q + 1 + k \in 1 .. Len(m) /\ q + 1 + k = Len(m) - p + 1 + k
      BY <1>9, <2>2, <3>1
    <3>3. m[Len(m) - p + 1 + k] = [role |-> "tool", of |-> t, n |-> k]
      BY <1>3, <3>2
    <3>4. r[q + 1 + k] = m[q + 1 + k]
      BY <1>9, <3>2
    <3>5. QED
      BY ONLY <3>2, <3>3, <3>4
  <2>3. QED
    BY <2>1, <2>2
<1>13. TalkInv(t)'
  <2>1. PICK p1 : p1 = p + 1 /\ p1 = UnderWay(new)
    BY <1>6 DEF UnderWay
  <2>2. p1 \in 0 .. l /\ q = l - p1 /\ new.id = turn[t].id /\ new.scope = turn[t].scope
    BY <1>4, <1>4a, <1>6, <1>8, <1>8a, <1>9, <2>1
  <2>3. CallsInv(new)
    BY <1>5, <1>6 DEF CallsInv
  <2>4. Opened(r, q, p1, t, new.calls)
    BY <1>11, <1>12, <2>1 DEF Opened
  <2>5. "tool" \in {"calls", "tool"} /\ m = session[turn[t].id].messages
    BY <1>3
  <2>6. QED
    BY <1>2, <1>5, <1>6, <1>7, <1>8, <1>8a, <1>9, <1>10, <2>1, <2>2, <2>3, <2>4, <2>5, TalkSaid
<1>14. new.pc \notin Over
  BY <1>6 DEF Over
<1>15. QED
  BY <1>1, <1>2, <1>4, <1>4a, <1>5, <1>6, <1>7, <1>13, <1>14, SaysOn

\* The last payload of a round settles it, and the next round opens with nothing.
LEMMA NextRoundKeeps ==
  ASSUME IInv, NEW t \in Turns, NextRound(t)
  PROVE  IInv'
<1>1. /\ turn[t].pc = "observe" /\ turn[t].step = turn[t].calls /\ turn[t].round < MaxRounds
      /\ Say(t, "tool", turn[t].step)
      /\ Become(t, [turn[t] EXCEPT !.pc = "reason", !.round = turn[t].round + 1,
                                   !.calls = 0, !.ran = {}, !.step = 0])
      /\ UNCHANGED <<now, order, lock, text, events, cut, broken>>
  BY DEF NextRound, LastOfRound, streamVars
<1>2. turn[t].pc \notin Over /\ turn[t].step \in 1 .. MaxCalls
  BY <1>1, Observing
<1>3. PICK m \in Seq(Messages), p \in Nat \ {0} :
        /\ m = session[turn[t].id].messages /\ p = turn[t].step /\ p <= Len(m)
        /\ Settled(m, Len(m) - p)
        /\ m[Len(m) - p + 1] = [role |-> "calls", of |-> t, n |-> turn[t].calls]
        /\ \A k \in 1 .. p - 1 : m[Len(m) - p + 1 + k] = [role |-> "tool", of |-> t, n |-> k]
  BY <1>1, Observing
<1>4. PICK a \in TurnStates : a = turn[t]
  BY DEF IInv, TypeOK
<1>4a. PICK new : new = [a EXCEPT !.pc = "reason", !.round = a.round + 1, !.calls = 0, !.ran = {}, !.step = 0]
  OBVIOUS
<1>5. p \in 0 .. MaxCalls /\ a.round + 1 \in 1 .. MaxRounds /\ 0 \in 0 .. MaxCalls
  <2>1. a.round \in 1 .. MaxRounds /\ a.round < MaxRounds
    BY <1>1, <1>4, <1>4a DEF TurnStates
  <2>2. MaxRounds \in Nat /\ MaxCalls \in Nat
    BY AnalystAssumption
  <2>3. a.round + 1 \in 1 .. MaxRounds
    BY <2>1, <2>2
  <2>4. p \in 1 .. MaxCalls
    BY <1>2, <1>3
  <2>5. QED
    BY <2>2, <2>3, <2>4
<1>6. new \in TurnStates /\ new.id = a.id /\ new.scope = a.scope /\ new.pc = "reason"
  BY <1>4, <1>4a, <1>5 DEF TurnStates
<1>7. Become(t, new) /\ Say(t, "tool", p)
  BY <1>1, <1>3, <1>4, <1>4a
<1>8. PICK x \in Messages : x = [role |-> "tool", of |-> t, n |-> p]
  BY <1>5 DEF Messages, Roles
<1>8a. PICK r, l : r = Append(m, x) /\ l = Len(m) + 1
  OBVIOUS
<1>9. l \in Nat /\ 0 \in 0 .. l /\ l = l - 0
  BY <1>8, <1>8a
<1>10. Settled(r, l)'
  <2>1. m[Len(m) - p + 1] = [role |-> "calls", of |-> t, n |-> p] /\ GivenUp \subseteq GivenUp'
    BY <1>1, <1>3 DEF GivenUp
  <2>2. /\ p <= Len(m) /\ Settled(m, Len(m) - p)
        /\ \A k \in 1 .. p - 1 : m[Len(m) - p + 1 + k] = [role |-> "tool", of |-> t, n |-> k]
    BY <1>3
  <2>3. Settled(Append(m, x), Len(m) + 1)'
    BY ONLY <1>8, <1>8a, <2>1, <2>2, SettledByLast
  <2>4. QED
    BY <1>8, <1>8a, <2>3
<1>11. TalkInv(t)'
  <2>1. PICK p0 : p0 = 0 /\ p0 = UnderWay(new)
    BY <1>6 DEF UnderWay
  <2>2. p0 \in 0 .. l /\ l = l - p0 /\ new.id = turn[t].id /\ new.scope = turn[t].scope
    BY <1>4, <1>4a, <1>6, <1>9, <2>1
  <2>3. CallsInv(new)
    BY <1>6 DEF CallsInv
  <2>4. Opened(r, l, p0, t, new.calls)
    BY <2>1 DEF Opened
  <2>5. "tool" \in {"calls", "tool"} /\ m = session[turn[t].id].messages
    BY <1>3
  <2>6. QED
    BY <1>2, <1>5, <1>6, <1>7, <1>8, <1>8a, <1>9, <1>10, <2>1, <2>2, <2>3, <2>4, <2>5, TalkSaid
<1>12. new.pc \notin Over
  BY <1>6 DEF Over
<1>13. QED
  BY <1>1, <1>2, <1>4, <1>4a, <1>5, <1>6, <1>7, <1>11, <1>12, SaysOn


\* A round under way is what it was when the turn goes on within it.
LEMMA TalkGoes ==
  ASSUME IInv, NEW t \in Turns, turn[t].pc \notin Over, NEW new \in TurnStates, Become(t, new),
         new.id = turn[t].id, new.scope = turn[t].scope, new.calls = turn[t].calls,
         UnderWay(new) = UnderWay(turn[t]), CallsInv(new), UNCHANGED <<session, cut, broken>>
  PROVE  TalkInv(t)'
<1>1. PICK i \in Ids : i = turn[t].id
  BY Holder
<1>2. PICK s \in Records : s = session[i] /\ s.scope = turn[t].scope
  BY <1>1, Holder DEF TalkInv
<1>3. PICK m \in Seq(Messages) : m = s.messages
  BY <1>2 DEF Records
<1>3a. PICK p : p = UnderWay(new)
  OBVIOUS
<1>4. TalkInv(t) /\ Pending(t) = p
  BY <1>3, <1>3a, Holder DEF Pending
<1>5. p \in 0 .. Len(m) /\ Settled(m, Len(m) - p) /\ Opened(m, Len(m) - p, p, t, new.calls)
  BY <1>1, <1>2, <1>3, <1>3a, <1>4 DEF TalkInv
<1>6. turn'[t] = new
  BY Others DEF IInv
<1>7. PICK q \in 0 .. Len(m) : q = Len(m) - p
  BY <1>5
<1>8. Settled(m, q)'
  BY <1>5, <1>7 DEF Settled, GivenUp
<1>9. Pending(t)' = p /\ session'[turn'[t].id].messages = m
  BY <1>1, <1>2, <1>3, <1>3a, <1>6 DEF Pending
<1>10. Settled(session[turn[t].id].messages, Len(session[turn[t].id].messages) - p)'
  BY <1>7, <1>8, <1>9
<1>11. Opened(session[turn[t].id].messages, Len(session[turn[t].id].messages) - p, p, t, turn[t].calls)'
  BY <1>5, <1>6, <1>9 DEF Opened
<1>12. CallsInv(turn[t])'
  BY <1>6 DEF CallsInv
<1>13. p \in 0 .. Len(session'[turn'[t].id].messages) /\ session'[turn'[t].id].scope = turn'[t].scope
  BY <1>1, <1>2, <1>5, <1>6, <1>9
<1>14. QED
  BY <1>9, <1>10, <1>11, <1>12, <1>13 DEF TalkInv

\* Tools that end, in whatever order, and the first step leave the round as it is.
LEMMA ToolsKeep ==
  ASSUME IInv, NEW t \in Turns, (\E k \in 1 .. MaxCalls : RunTool(t, k)) \/ FirstStep(t)
  PROVE  IInv'
<1>1. PICK a \in TurnStates : a = turn[t]
  BY DEF IInv, TypeOK
<1>2. a.pc = "act" /\ UNCHANGED <<now, order, session, lock, text, cut, broken>>
  BY <1>1 DEF RunTool, FirstStep, storeVars, streamVars
<1>3. a.calls >= 1 /\ a.pc \notin Over
  BY <1>1, <1>2, Holder DEF Over, TalkInv, CallsInv
<1>4. \E new \in TurnStates : Become(t, new) /\ new.id = a.id /\ new.scope = a.scope /\ new.calls = a.calls
        /\ (new.pc # "act" => new.pc = "observe" /\ new.step = 1)
  <2>1. CASE \E k \in 1 .. MaxCalls : RunTool(t, k)
    <3>1. PICK k \in 1 .. MaxCalls : Become(t, [turn[t] EXCEPT !.ran = turn[t].ran \cup {k}])
      BY <2>1 DEF RunTool
    <3>2. PICK new : new = [a EXCEPT !.ran = a.ran \cup {k}]
      OBVIOUS
    <3>3. new \in TurnStates /\ new.id = a.id /\ new.scope = a.scope /\ new.calls = a.calls /\ new.pc = "act"
      BY <1>2, <3>2 DEF TurnStates
    <3>4. Become(t, new)
      BY <1>1, <3>1, <3>2
    <3>5. QED
      BY <3>3, <3>4
  <2>2. CASE FirstStep(t)
    <3>1. Become(t, [turn[t] EXCEPT !.pc = "observe", !.step = 1])
      BY <2>2 DEF FirstStep
    <3>2. PICK new : new = [a EXCEPT !.pc = "observe", !.step = 1]
      OBVIOUS
    <3>3. 1 \in 0 .. MaxCalls
      BY AnalystAssumption
    <3>4. /\ new \in TurnStates /\ new.id = a.id /\ new.scope = a.scope /\ new.calls = a.calls
          /\ new.pc = "observe" /\ new.step = 1
      BY <3>2, <3>3 DEF TurnStates
    <3>5. QED
      BY <1>1, <3>1, <3>2, <3>4
  <2>3. QED
    BY <2>1, <2>2
<1>5. PICK new \in TurnStates : Become(t, new) /\ new.id = a.id /\ new.scope = a.scope /\ new.calls = a.calls
        /\ (new.pc # "act" => new.pc = "observe" /\ new.step = 1)
  BY <1>4
<1>6. UnderWay(new) = UnderWay(a) /\ new.pc \notin Over
  BY <1>2, <1>5 DEF UnderWay, Over
<1>7. CallsInv(new)
  <2>1. a.calls \in Nat
    BY <1>1, AnalystAssumption DEF TurnStates
  <2>2. QED
    BY <1>3, <1>5, <2>1 DEF CallsInv
<1>8. TalkInv(t)'
  BY <1>1, <1>2, <1>3, <1>5, <1>6, <1>7, TalkGoes
<1>9. text' \in [Turns -> Texts] /\ (UNCHANGED events \/ Yield(t, "step"))
  BY <1>2 DEF IInv, TypeOK, RunTool, FirstStep
<1>10. QED
  BY <1>1, <1>2, <1>3, <1>5, <1>6, <1>8, <1>9, GoesOn

\* An answer that comes is not yet said.
LEMMA StreamKeeps ==
  ASSUME IInv, NEW t \in Turns, OpenStream(t) \/ (\E piece \in Pieces : Delta(t, piece)) \/ EndStream(t)
  PROVE  IInv'
<1>1. PICK a \in TurnStates : a = turn[t]
  BY DEF IInv, TypeOK
<1>2. a.pc \in {"reason", "stream"} /\ UNCHANGED <<now, order, session, lock, events, cut, broken>>
  BY <1>1 DEF OpenStream, Delta, EndStream, Goto, storeVars, streamVars
<1>3. a.pc \notin Over
  BY <1>2 DEF Over
<1>4. \E new \in TurnStates : Become(t, new) /\ new.id = a.id /\ new.scope = a.scope /\ new.calls = a.calls
        /\ new.pc \in {"stream", "flushed"}
  <2>1. CASE \E piece \in Pieces : Delta(t, piece)
    <3>1. turn' = turn /\ a.pc = "stream"
      BY <1>1, <2>1 DEF Delta
    <3>2. Become(t, a)
      BY <1>1, <3>1 DEF Become, IInv, TypeOK
    <3>3. QED
      BY <3>1, <3>2
  <2>2. CASE OpenStream(t) \/ EndStream(t)
    <3>1. PICK pc \in {"stream", "flushed"} : Become(t, [turn[t] EXCEPT !.pc = pc])
      BY <2>2 DEF OpenStream, EndStream, Goto
    <3>2. PICK new : new = [a EXCEPT !.pc = pc]
      OBVIOUS
    <3>3. new \in TurnStates /\ new.id = a.id /\ new.scope = a.scope /\ new.calls = a.calls /\ new.pc = pc
      BY <3>2 DEF TurnStates
    <3>4. QED
      BY <1>1, <3>1, <3>2, <3>3
  <2>3. QED
    BY <2>1, <2>2
<1>5. PICK new \in TurnStates : Become(t, new) /\ new.id = a.id /\ new.scope = a.scope /\ new.calls = a.calls
        /\ new.pc \in {"stream", "flushed"}
  BY <1>4
<1>6. UnderWay(new) = UnderWay(a) /\ new.pc \notin Over /\ CallsInv(new)
  BY <1>2, <1>5 DEF UnderWay, Over, CallsInv
<1>7. TalkInv(t)'
  BY <1>1, <1>2, <1>3, <1>5, <1>6, TalkGoes
<1>8. text' \in [Turns -> Texts]
  <2>1. text \in [Turns -> Texts]
    BY DEF IInv, TypeOK
  <2>2. CASE \E piece \in Pieces : Delta(t, piece)
    <3>1. PICK piece \in Pieces : text' = [text EXCEPT ![t] = text[t] \o piece]
      BY <2>2 DEF Delta
    <3>2. PICK u \in Texts : u = text[t]
      BY <2>1
    <3>3. u \o piece \in Texts
      BY AnalystAssumption DEF Texts
    <3>4. QED
      BY <2>1, <3>1, <3>2, <3>3
  <2>3. CASE OpenStream(t) \/ EndStream(t)
    BY <2>1, <2>3 DEF OpenStream, EndStream, streamVars
  <2>4. QED
    BY <2>1, <2>2, <2>3
<1>9. QED
  BY <1>1, <1>2, <1>3, <1>5, <1>6, <1>7, <1>8, GoesOn

-----------------------------------------------------------------------------
(* A turn that waits, that starts, and that is given up                    *)

\* Who waits holds nothing.
LEMMA AskKeeps ==
  ASSUME IInv, NEW t \in Turns, Ask(t)
  PROVE  IInv'
<1>1. PICK a \in TurnStates, i \in Ids : a = turn[t] /\ i = a.id
  BY DEF IInv, TypeOK, TurnStates
<1>2. a.pc = "new" /\ UNCHANGED <<now, order, session, lock, text, events, cut, broken>>
  BY <1>1 DEF Ask, Goto, storeVars, streamVars
<1>3. PICK new : new = [a EXCEPT !.pc = "queued"]
  OBVIOUS
<1>4. Become(t, new)
  BY <1>1, <1>3 DEF Ask, Goto
<1>5. new \in TurnStates /\ new.id = a.id /\ new.scope = a.scope /\ new.pc = "queued"
  BY <1>3 DEF TurnStates
<1>6. lock # t
  BY <1>1, <1>2 DEF IInv, TypeOK
<1>7. \A u \in Turns : EventInv(u)'
  BY <1>1, <1>2, <1>4, <1>5, EventsGoOn
<1>8. TypeOK'
  <2>1. /\ session' \in [Ids -> Records \cup {None}] /\ text' \in [Turns -> Texts]
        /\ cut' \subseteq Turns /\ broken' \subseteq Turns
        /\ events' \in [Turns -> Seq({"step", "final", "error"})]
    BY <1>2 DEF IInv, TypeOK, Records
  <2>2. new.pc \in Over /\ lock' = IF lock = t THEN None ELSE lock
    BY <1>2, <1>5, <1>6 DEF Over
  <2>3. QED
    BY <1>1, <1>2, <1>4, <1>5, <2>1, <2>2, TypeKept DEF IInv
<1>9. \A u \in Turns \ {t} : turn'[u] = turn[u]
  BY <1>4, <1>5, Others DEF IInv
<1>10. lock' # None => TalkInv(lock)'
  <2>1. ASSUME lock # None
        PROVE  TalkInv(lock)'
    <3>1. PICK u \in Turns \ {t} : u = lock
      BY <1>6, <2>1 DEF IInv, TypeOK
    <3>2. TalkInv(u) /\ session[turn[u].id] # None
      BY <2>1, <3>1 DEF IInv, TypeOK
    <3>3. turn'[u] = turn[u] /\ session'[turn[u].id] = session[turn[u].id]
      BY <1>2, <1>9, <3>1
    <3>4. TalkInv(u)'
      BY <1>2, <3>2, <3>3, TalkKept DEF GivenUp
    <3>5. QED
      BY <1>2, <3>1, <3>4
  <2>2. QED
    BY <1>2, <2>1
<1>11. QED
  BY <1>1, <1>2, <1>4, <1>5, <1>6, <1>7, <1>8, <1>10, StepKeepsIt


\* Nothing is settled in a conversation that has not begun, and nothing open.
LEMMA NothingSaid ==
  <<>> \in Seq(Messages) /\ Len(<<>>) = 0 /\ Settled(<<>>, Len(<<>>))
BY DEF Settled

\* The question opens no round: it is put to a conversation of its scope in which
\* every call is answered, or which is new.
LEMMA BeginKeeps ==
  ASSUME IInv, NEW t \in Turns, Begin(t)
  PROVE  IInv'
<1>1. PICK a \in TurnStates, i \in Ids : a = turn[t] /\ i = a.id
  BY DEF IInv, TypeOK, TurnStates
<1>2. /\ lock = None /\ lock' = t /\ a.pc = "queued" /\ order' = Stay(t)
      /\ UNCHANGED <<now, text, events, cut, broken>>
  BY <1>1 DEF Begin, Goto, streamVars
<1>3. PICK new : new = [a EXCEPT !.pc = "reason"]
  OBVIOUS
<1>4. Become(t, new)
  BY <1>1, <1>3 DEF Begin, Goto
<1>5. new \in TurnStates /\ new.id = i /\ new.scope = a.scope /\ new.pc = "reason"
  BY <1>1, <1>3 DEF TurnStates
<1>6. turn'[t] = new /\ \A u \in Turns \ {t} : turn'[u] = turn[u]
  BY <1>4, <1>5, Others DEF IInv
<1>7. /\ order' \in Seq(Ids) /\ IsInjective(order') /\ Len(order') <= MaxSessions
      /\ i \in ToSet(order') /\ ToSet(order') \subseteq ToSet(order) \cup {i}
  BY <1>1, <1>2, StayKeeps DEF IInv
<1>8. a.scope \in Scopes /\ now \in 0 .. MaxTime /\ session \in [Ids -> Records \cup {None}]
  BY <1>1 DEF IInv, TypeOK, TurnStates, Records
<1>9. PICK x \in Messages : x = [role |-> "user", of |-> t, n |-> 0]
  <2>1. 0 \in 0 .. MaxCalls
    BY AnalystAssumption
  <2>2. QED
    BY <2>1 DEF Messages, Roles
<1>10. PICK heard, scope, mine, r :
        /\ heard = IF StartsFresh(t) THEN <<>> ELSE session[i].messages
        /\ scope = IF StartsFresh(t) THEN a.scope ELSE session[i].scope
        /\ mine = [scope |-> scope, used |-> now, messages |-> Append(heard, x)]
        /\ r = Append(heard, x)
  OBVIOUS
<1>11. session' = [j \in Ids |-> IF j \notin ToSet(Stay(t)) THEN None ELSE IF j = i THEN mine ELSE session[j]]
  BY <1>1, <1>9, <1>10 DEF Begin
<1>12. /\ scope = a.scope /\ heard \in Seq(Messages) /\ Settled(heard, Len(heard))
       /\ \A k \in 1 .. Len(heard) : heard[k] \in Messages /\ MessageInv(i, heard[k])
       /\ ~StartsFresh(t) => session[i].scope = a.scope
  <2>1. CASE StartsFresh(t)
    <3>1. heard = <<>> /\ scope = a.scope
      BY <1>10, <2>1
    <3>2. QED
      BY <2>1, <3>1, NothingSaid
  <2>2. CASE ~StartsFresh(t)
    <3>1. session[i] # None /\ session[i].scope = a.scope
      BY <1>1, <2>2 DEF StartsFresh
    <3>2. PICK s \in Records : s = session[i]
      BY <1>8, <3>1
    <3>3. PICK m \in Seq(Messages) : m = s.messages
      BY DEF Records
    <3>4. heard = m /\ scope = a.scope
      BY <1>10, <2>2, <3>1, <3>2, <3>3
    <3>5. Settled(m, Len(m)) /\ \A k \in 1 .. Len(m) : MessageInv(i, m[k])
      BY <1>2, <3>1, <3>2, <3>3 DEF IInv, SessionInv
    <3>6. QED
      BY <3>1, <3>3, <3>4, <3>5
  <2>3. QED
    BY <2>1, <2>2
<1>13. /\ r \in Seq(Messages) /\ Len(r) = Len(heard) + 1 /\ Len(heard) \in Nat
       /\ r[Len(heard) + 1] = x /\ \A k \in 1 .. Len(heard) : r[k] = heard[k]
  <2>1. heard \in Seq(Messages)
    BY <1>12
  <2>2. QED
    BY <1>10, <2>1, Said
<1>14. mine \in Records /\ mine.scope = a.scope /\ mine.messages = r
  BY <1>8, <1>10, <1>12, <1>13 DEF Records
<1>15. session'[i] = mine /\ session'[i] # None
  BY <1>2, <1>7, <1>11, <1>14, NoneIsNoRecord
<1>16. ASSUME NEW j \in Ids \ {i}
       PROVE  session'[j] = None \/ session'[j] = session[j]
  BY <1>11
<1>17. \A u \in Turns : EventInv(u)'
  BY <1>1, <1>2, <1>4, <1>5, EventsGoOn
<1>18. Faithful
  <2>1. \A u \in Turns : turn[u].pc = "done" => u # t
    BY <1>1, <1>2
  <2>2. QED
    BY <1>1, <1>2, <1>5, <1>6, <2>1 DEF Faithful
<1>19. TypeOK'
  <2>1. session' \in [Ids -> Records \cup {None}]
    BY <1>8, <1>11, <1>14
  <2>2. ASSUME NEW j \in Ids
        PROVE  session'[j] # None <=> j \in ToSet(order')
    <3>1. CASE j = i
      BY <1>7, <1>15, <3>1
    <3>2. CASE j # i
      <4>1. session[j] # None <=> j \in ToSet(order)
        BY DEF IInv, TypeOK
      <4>2. QED
        BY <1>2, <1>7, <1>11, <3>2, <4>1
    <3>3. QED
      BY <3>1, <3>2
  <2>3. turn' \in [Turns -> TurnStates]
    BY <1>4, <1>5, Others DEF IInv
  <2>4. \A u \in Turns : turn'[u].pc \notin {"new", "queued", "done"} <=> lock' = u
    <3>1. \A u \in Turns : turn[u].pc \in {"new", "queued", "done"}
      BY <1>2, NoneIsNoRecord DEF IInv, TypeOK
    <3>2. QED
      BY <1>2, <1>5, <1>6, <3>1
  <2>5. lock' \in Turns \cup {None} /\ session'[turn'[lock'].id] # None
    BY <1>2, <1>5, <1>6, <1>15
  <2>6. /\ now' \in 0 .. MaxTime /\ text' \in [Turns -> Texts]
        /\ cut' \subseteq Turns /\ broken' \subseteq Turns
        /\ events' \in [Turns -> Seq({"step", "final", "error"})]
    BY <1>2 DEF IInv, TypeOK
  <2>7. QED
    BY <1>7, <2>1, <2>2, <2>3, <2>4, <2>5, <2>6 DEF TypeOK, Records
<1>20. ASSUME NEW j \in Ids \ {i}
       PROVE  SessionInv(j)'
  <2>1. CASE session'[j] = None
    BY <2>1 DEF SessionInv
  <2>2. CASE session'[j] # None
    <3>1. session'[j] = session[j] /\ session[j] # None
      BY <1>16, <2>2
    <3>2. Settled(session[j].messages, Len(session[j].messages))
      BY <1>2, <3>1 DEF IInv, SessionInv
    <3>3. QED
      BY <1>18, <3>1, <3>2, SessionKept
  <2>3. QED
    BY <2>1, <2>2
<1>21. SessionInv(i)'
  <2>1. ASSUME NEW k \in 1 .. Len(r)
        PROVE  MessageInv(i, r[k])'
    <3>1. CASE k = Len(heard) + 1
      <4>1. r[k] = x
        BY <1>13, <3>1
      <4>2. MessageInv(i, x)'
        BY <1>1, <1>5, <1>6, <1>9, <1>14, <1>15 DEF MessageInv
      <4>3. QED
        BY <4>1, <4>2
    <3>2. CASE k # Len(heard) + 1
      <4>1. k \in 1 .. Len(heard)
        BY <1>13, <3>2
      <4>2. PICK message \in Messages : message = r[k] /\ MessageInv(i, message)
        BY <1>12, <1>13, <4>1
      <4>3. message.of \in Turns /\ session'[i].scope = session[i].scope
        <5>1. ~StartsFresh(t)
          BY <1>10, <4>1, NothingSaid
        <5>2. QED
          BY <1>12, <1>14, <1>15, <5>1 DEF Messages
      <4>4. MessageInv(i, message)'
        BY <1>18, <4>2, <4>3, MessageKept
      <4>5. QED
        BY <4>2, <4>4
    <3>3. QED
      BY <3>1, <3>2
  <2>2. lock' # None /\ turn'[lock'].id = i
    BY <1>2, <1>5, <1>6, NoneIsNoRecord
  <2>3. QED
    BY <1>14, <1>15, <2>1, <2>2 DEF SessionInv
<1>22. TalkInv(t)'
  <2>1. Settled(r, Len(heard) + 1)'
    <3>1. x.role # "calls" /\ GivenUp \subseteq GivenUp'
      BY <1>2, <1>9 DEF GivenUp
    <3>2. QED
      BY <1>12, <1>13, <1>10, <3>1, SettledGoesOn
  <2>2. PICK l : l = Len(heard) + 1 /\ l = Len(r)
    BY <1>13
  <2>3. Settled(r, l)'
    BY <2>1, <2>2
  <2>4. PICK p, q : p = 0 /\ q = l - p
    OBVIOUS
  <2>5. q = l /\ p \in 0 .. l
    BY <1>13, <2>2, <2>4
  <2>6. Pending(t)' = p
    BY <1>5, <1>6, <2>4 DEF Pending, UnderWay
  <2>7. session'[turn'[t].id].messages = r /\ session'[turn'[t].id].scope = turn'[t].scope
    BY <1>5, <1>6, <1>14, <1>15
  <2>8. Settled(session[turn[t].id].messages, Len(session[turn[t].id].messages) - p)'
    BY <2>2, <2>3, <2>4, <2>5, <2>7
  <2>9. Opened(session[turn[t].id].messages, Len(session[turn[t].id].messages) - p, p, t, turn[t].calls)'
    BY <2>4 DEF Opened
  <2>10. CallsInv(turn[t])'
    BY <1>5, <1>6 DEF CallsInv
  <2>11. p \in 0 .. Len(session'[turn'[t].id].messages)
    BY <2>2, <2>5, <2>7
  <2>12. QED
    BY <2>6, <2>7, <2>8, <2>9, <2>10, <2>11 DEF TalkInv
<1>23. \A j \in Ids : SessionInv(j)'
  BY <1>20, <1>21
<1>24. lock' # None => TalkInv(lock)'
  BY <1>2, <1>22
<1>25. QED
  BY <1>17, <1>19, <1>23, <1>24 DEF IInv


\* A turn that is given up leaves its session settled, its own calls excepted.
LEMMA ClientGoneKeeps ==
  ASSUME IInv, NEW t \in Turns, ClientGone(t)
  PROVE  IInv'
<1>1. PICK a \in TurnStates, i \in Ids : a = turn[t] /\ i = a.id
  BY DEF IInv, TypeOK, TurnStates
<1>2. /\ a.pc \notin {"new", "done"} /\ cut' = cut \cup {t} /\ LetGo(t)
      /\ UNCHANGED <<now, order, session, events, broken>>
  BY <1>1 DEF ClientGone, storeVars
<1>3. PICK new \in TurnStates : Become(t, new) /\ new.id = a.id /\ new.scope = a.scope /\ new.pc = "done"
  BY <1>1, <1>2, LetsGo DEF IInv
<1>4. turn'[t] = new /\ \A u \in Turns \ {t} : turn'[u] = turn[u]
  BY <1>3, Others DEF IInv
<1>5. lock' = (IF lock = t THEN None ELSE lock) /\ text' \in [Turns -> Texts]
  BY <1>2, LetsGo DEF IInv
<1>6. TypeOK'
  <2>1. /\ session' \in [Ids -> Records \cup {None}] /\ cut' \subseteq Turns /\ broken' \subseteq Turns
        /\ events' \in [Turns -> Seq({"step", "final", "error"})]
        /\ \A j \in Ids : session'[j] # None <=> session[j] # None
    BY <1>2 DEF IInv, TypeOK, Records
  <2>2. new.pc \in Over
    BY <1>3 DEF Over
  <2>3. QED
    BY <1>1, <1>2, <1>3, <1>5, <2>1, <2>2, TypeKept DEF IInv
<1>7. ASSUME NEW u \in Turns
      PROVE  EventInv(u)'
  <2>1. CASE u = t
    <3>1. Ends(t)' = {}
      BY <1>1, <1>2 DEF IInv, EventInv, Ends
    <3>2. QED
      BY <1>2, <1>3, <1>4, <2>1, <3>1 DEF EventInv
  <2>2. CASE u # t
    BY <1>2, <1>4, <2>2 DEF IInv, EventInv, Ends
  <2>3. QED
    BY <2>1, <2>2
<1>8. Faithful
  <2>1. \A u \in Turns : turn[u].pc = "done" => u # t
    BY <1>1, <1>2
  <2>2. QED
    BY <1>1, <1>2, <1>3, <1>4, <2>1 DEF Faithful
<1>9. CASE lock # t
  <2>1. lock' = lock
    BY <1>5, <1>9
  <2>2. ASSUME lock # None
        PROVE  TalkInv(lock)'
    <3>1. PICK u \in Turns \ {t} : u = lock
      BY <1>9, <2>2 DEF IInv, TypeOK
    <3>2. TalkInv(u) /\ session[turn[u].id] # None
      BY <2>2, <3>1 DEF IInv, TypeOK
    <3>3. turn'[u] = turn[u] /\ session'[turn[u].id] = session[turn[u].id]
      BY <1>2, <1>4, <3>1
    <3>4. GivenUp \subseteq GivenUp'
      BY <1>2 DEF GivenUp
    <3>5. TalkInv(u)'
      BY <3>2, <3>3, <3>4, TalkKept
    <3>6. QED
      BY <2>1, <3>1, <3>5
  <2>3. QED
    BY <1>1, <1>2, <1>3, <1>6, <1>7, <1>9, <2>1, <2>2, StepKeepsIt
<1>10. CASE lock = t
  <2>1. lock' = None
    BY <1>5, <1>10
  <2>2. lock # None
    BY <1>10, NoneIsNoRecord
  <2>3. TalkInv(t) /\ session[i] # None
    BY <1>1, <1>10, <2>2 DEF IInv, TypeOK
  <2>4. PICK s \in Records : s = session[i]
    BY <2>3 DEF IInv, TypeOK, Records
  <2>5. PICK m \in Seq(Messages) : m = s.messages
    BY <2>4 DEF Records
  <2>5a. PICK p : p = Pending(t)
    OBVIOUS
  <2>6. p \in 0 .. Len(m) /\ Settled(m, Len(m) - p) /\ Opened(m, Len(m) - p, p, t, a.calls)
    BY <1>1, <2>3, <2>4, <2>5, <2>5a DEF TalkInv
  <2>7. Settled(m, Len(m))'
    <3>1. p \in Nat /\ p <= Len(m) /\ GivenUp \subseteq GivenUp' /\ t \in GivenUp'
      BY <1>2, <2>6 DEF GivenUp
    <3>2. QED
      BY <2>6, <3>1, SettledByGivingUp
  <2>8. ASSUME NEW k \in 1 .. Len(m)
        PROVE  MessageInv(i, m[k])'
    <3>1. PICK message \in Messages : message = m[k]
      OBVIOUS
    <3>2. MessageInv(i, message)
      BY <2>3, <2>4, <2>5, <2>5a, <3>1 DEF IInv, SessionInv
    <3>3. message.of \in Turns /\ session'[i].scope = session[i].scope
      BY <1>2 DEF Messages
    <3>4. MessageInv(i, message)'
      BY <1>8, <3>2, <3>3, MessageKept
    <3>5. QED
      BY <3>1, <3>4
  <2>9. SessionInv(i)'
    BY <1>2, <2>4, <2>5, <2>5a, <2>7, <2>8 DEF SessionInv
  <2>10. QED
    BY <1>1, <1>2, <1>3, <1>6, <1>7, <1>10, <2>1, <2>9, StepKeepsIt
<1>11. QED
  BY <1>9, <1>10

\* Nothing is a matter of the clock but who stays when the next turn begins.
LEMMA TimeKeeps ==
  ASSUME IInv, Tick \/ UNCHANGED vars
  PROVE  IInv'
<1>1. now' \in 0 .. MaxTime /\ UNCHANGED <<order, session, lock, turn, text, events, cut, broken>>
  BY AnalystAssumption DEF IInv, TypeOK, Tick, vars, storeVars, streamVars
<1>2. TypeOK'
  BY <1>1 DEF IInv, TypeOK
<1>3. \A u \in Turns : EventInv(u)'
  BY <1>1 DEF IInv, EventInv, Ends
<1>4. ASSUME NEW i \in Ids
      PROVE  SessionInv(i)'
  <2>1. Faithful
    BY <1>1 DEF Faithful
  <2>2. CASE session[i] = None
    BY <1>1, <2>2 DEF SessionInv
  <2>3. CASE session[i] # None
    BY <1>1, <2>1, <2>3, SessionKept DEF IInv, SessionInv
  <2>4. QED
    BY <2>2, <2>3
<1>5. lock' # None => TalkInv(lock)'
  <2>1. ASSUME lock # None
        PROVE  TalkInv(lock)'
    <3>1. PICK u \in Turns : u = lock
      BY <2>1 DEF IInv, TypeOK
    <3>2. TalkInv(u) /\ session[turn[u].id] # None
      BY <2>1, <3>1 DEF IInv, TypeOK
    <3>3. TalkInv(u)'
      BY <1>1, <3>2, TalkKept DEF GivenUp
    <3>4. QED
      BY <1>1, <3>1, <3>3
  <2>2. QED
    BY <1>1, <2>1
<1>6. QED
  BY <1>2, <1>3, <1>4, <1>5 DEF IInv

-----------------------------------------------------------------------------
(* What always holds                                                       *)

\* At first there is no session and no turn has begun.
LEMMA InitHolds ==
  ASSUME Init
  PROVE  IInv
<1>1. None \notin Turns /\ MaxSessions \in Nat
  BY NoneIsNoRecord, AnalystAssumption
<1>2. TypeOK
  <2>1. /\ now \in 0 .. MaxTime /\ cut \subseteq Turns /\ broken \subseteq Turns
        /\ text \in [Turns -> Texts] /\ events \in [Turns -> Seq({"step", "final", "error"})]
    <3>1. <<>> \in Texts /\ 0 \in 0 .. MaxTime
      BY AnalystAssumption DEF Texts
    <3>2. QED
      BY <3>1 DEF Init
  <2>2. order \in Seq(Ids) /\ IsInjective(order) /\ Len(order) <= MaxSessions /\ ToSet(order) = {}
    BY <1>1 DEF Init, IsInjective, ToSet
  <2>3. turn \in [Turns -> TurnStates] /\ \A t \in Turns : turn[t].pc = "new"
    <3>1. PICK r \in Requests : turn = [t \in Turns |->
             [pc |-> "new", id |-> r[t].id, scope |-> r[t].scope, round |-> 1,
              calls |-> 0, ran |-> {}, step |-> 0]]
      BY DEF Init
    <3>2. r \in [Turns -> [id : Ids, scope : Scopes]]
      BY AnalystAssumption
    <3>3. 1 \in 1 .. MaxRounds /\ 0 \in 0 .. MaxCalls /\ {} \in SUBSET (1 .. MaxCalls)
      BY AnalystAssumption
    <3>4. ASSUME NEW t \in Turns
          PROVE  turn[t] \in TurnStates /\ turn[t].pc = "new"
      <4>1. r[t].id \in Ids /\ r[t].scope \in Scopes
        BY <3>2
      <4>2. QED
        BY <3>1, <3>3, <4>1 DEF TurnStates
    <3>5. QED
      BY <3>1, <3>4
  <2>4. session \in [Ids -> [scope : Scopes, used : 0 .. MaxTime, messages : Seq(Messages)] \cup {None}]
        /\ (\A i \in Ids : session[i] # None <=> i \in ToSet(order)) /\ lock = None
    BY <2>2 DEF Init
  <2>5. QED
    BY <1>1, <2>1, <2>2, <2>3, <2>4 DEF TypeOK
<1>3. \A i \in Ids : SessionInv(i)
  BY DEF Init, SessionInv
<1>4. ASSUME NEW t \in Turns
      PROVE  EventInv(t)
  <2>1. turn[t].pc = "new" /\ events[t] = <<>> /\ cut = {}
    BY DEF Init
  <2>2. QED
    BY <2>1 DEF EventInv, Ends
<1>5. lock = None
  BY DEF Init
<1>6. QED
  BY <1>2, <1>3, <1>4, <1>5 DEF IInv

\* Every step of AnalystService keeps the invariant.
LEMMA NextKeeps ==
  ASSUME IInv, [Next]_vars
  PROVE  IInv'
<1>1. CASE Tick \/ UNCHANGED vars
  BY <1>1, TimeKeeps
<1>2. ASSUME NEW t \in Turns, Ask(t) \/ ClientGone(t)
      PROVE  IInv'
  BY <1>2, AskKeeps, ClientGoneKeeps
<1>3. ASSUME NEW t \in Turns, Step(t)
      PROVE  IInv'
  <2>1. CASE Begin(t)
    BY <2>1, BeginKeeps
  <2>2. CASE ModelFails(t) \/ StreamFails(t)
    BY <2>2, FailsKeeps
  <2>3. CASE AskTools(t)
    BY <2>3, AskToolsKeeps
  <2>4. CASE (\E k \in 1 .. MaxCalls : RunTool(t, k)) \/ FirstStep(t)
    BY <2>4, ToolsKeep
  <2>5. CASE NextStep(t)
    BY <2>5, NextStepKeeps
  <2>6. CASE NextRound(t)
    BY <2>6, NextRoundKeeps
  <2>7. CASE RoundLimit(t)
    BY <2>7, RoundLimitKeeps
  <2>8. CASE OpenStream(t) \/ (\E piece \in Pieces : Delta(t, piece)) \/ EndStream(t)
    BY <2>8, StreamKeeps
  <2>9. CASE Finish(t) \/ AnswerRaises(t)
    BY <2>9, FinishKeeps
  <2>10. CASE ToolRaises(t) \/ LabelRaises(t)
    BY <2>10, RaisesKeeps
  <2>11. QED
    BY <1>3, <2>1, <2>2, <2>3, <2>4, <2>5, <2>6, <2>7, <2>8, <2>9, <2>10 DEF Step
<1>4. QED
  BY <1>1, <1>2, <1>3 DEF Next

\* The sessions, the lock and the turns stay in step: who runs holds the lock,
\* and only its conversation has a round under way.
THEOREM Inductive == Spec => []IInv
<1>1. Init => IInv
  BY InitHolds
<1>2. IInv /\ [Next]_vars => IInv'
  BY NextKeeps
<1>3. QED
  BY <1>1, <1>2, PTL DEF Spec

\* A session is never taken up under another scope, whatever order the turns of
\* an id come in and whichever of them are given up (_session).
THEOREM ScopesStayApart == Spec => []NoScopeLeak
<1>1. IInv => NoScopeLeak
  <2>1. ASSUME IInv, NEW i \in Ids, session[i] # None, NEW k \in 1 .. Len(session[i].messages)
        PROVE  turn[session[i].messages[k].of].scope = session[i].scope /\ turn[session[i].messages[k].of].id = i
    <3>1. MessageInv(i, session[i].messages[k])
      BY <2>1 DEF IInv, SessionInv
    <3>2. QED
      BY <3>1 DEF MessageInv
  <2>2. QED
    BY <2>1 DEF NoScopeLeak, IInv
<1>2. QED
  BY <1>1, Inductive, PTL

\* Every call of a session is answered right after it, unless its turn still acts
\* or observes, its client went away or an exception left it; a turn that is over
\* has one terminal event, and leaves an answer only if that event is "final" or
\* an exception came between the two (_run_turn, _stream_final).
THEOREM TurnsEndOnce == Spec => []OneTurn
<1>1. IInv => CallsAnswered
  <2>1. SUFFICES ASSUME IInv, NEW i \in Ids, session[i] # None,
                        NEW k \in 1 .. Len(session[i].messages), session[i].messages[k].role = "calls",
                        session[i].messages[k].of \notin GivenUp,
                        turn[session[i].messages[k].of].pc \notin {"act", "observe"}
                 PROVE  AnsweredAt(session[i].messages, k)
    BY DEF CallsAnswered
  <2>2. PICK s \in Records : s = session[i]
    BY <2>1 DEF IInv, TypeOK, Records
  <2>3. PICK m \in Seq(Messages) : m = s.messages
    BY DEF Records
  <2>4. k \in 1 .. Len(m) /\ m[k].role = "calls" /\ m[k].of \notin GivenUp /\ m[k] \in Messages
        /\ turn[m[k].of].pc \notin {"act", "observe"}
    BY <2>1, <2>2, <2>3
  <2>5. CASE Settled(m, Len(m))
    BY <2>2, <2>3, <2>4, <2>5 DEF Settled, AnsweredAt
  <2>6. CASE lock # None /\ turn[lock].id = i
    <3>1. PICK t \in Turns : t = lock
      BY <2>1, <2>6 DEF IInv, TypeOK
    <3>2. TalkInv(t)
      BY <2>1, <2>6, <3>1 DEF IInv
    <3>3. PICK p : p = Pending(t)
      OBVIOUS
    <3>4. p \in 0 .. Len(m) /\ Settled(m, Len(m) - p) /\ Opened(m, Len(m) - p, p, t, turn[t].calls)
      BY <2>2, <2>3, <2>6, <3>1, <3>2, <3>3 DEF TalkInv
    <3>5. p # 0 => turn[t].pc \in {"act", "observe"}
      BY <3>3 DEF Pending, UnderWay
    <3>6. k <= Len(m) - p
      <4>1. PICK q : q = Len(m) - p /\ q \in Nat /\ p \in Nat /\ Len(m) \in Nat
        BY <3>4
      <4>2. CASE k = q + 1
        <5>1. p > 0
          BY <2>4, <4>1, <4>2
        <5>2. m[k].of = t
          BY <3>4, <4>1, <4>2, <5>1 DEF Opened
        <5>3. QED
          BY <2>4, <3>5, <5>1, <5>2
      <4>3. CASE k > q + 1
        <5>1. p > 0 /\ k - (q + 1) \in 1 .. p - 1 /\ q + 1 + (k - (q + 1)) = k
          BY <2>4, <4>1, <4>3
        <5>2. PICK l \in 1 .. p - 1 : q + 1 + l = k
          BY <5>1
        <5>3. m[k] = [role |-> "tool", of |-> t, n |-> l]
          BY <3>4, <4>1, <5>1, <5>2 DEF Opened
        <5>4. QED
          BY <2>4, <5>3
      <4>4. QED
        BY <2>4, <4>1, <4>2, <4>3
    <3>7. k \in 1 .. Len(m) - p
      BY <2>4, <3>4, <3>6
    <3>8. ASSUME NEW j \in 1 .. m[k].n
          PROVE  k + j <= Len(m) /\ m[k + j] = [role |-> "tool", of |-> m[k].of, n |-> j]
      <4>1. k + j <= Len(m) - p /\ m[k + j] = [role |-> "tool", of |-> m[k].of, n |-> j]
        BY <2>4, <3>4, <3>7 DEF Settled
      <4>2. j \in Int
        OBVIOUS
      <4>3. QED
        BY <2>4, <3>4, <4>1, <4>2
    <3>9. AnsweredAt(m, k)
      BY <3>8 DEF AnsweredAt
    <3>10. QED
      BY <2>2, <2>3, <3>9
  <2>7. QED
    BY <2>1, <2>2, <2>3, <2>5, <2>6 DEF IInv, SessionInv
<1>2. IInv => OneTerminal
  <2>1. ASSUME IInv, NEW t \in Turns
        PROVE  /\ Ends(t) \subseteq {Len(events[t])}
               /\ turn[t].pc = "done" /\ t \notin cut => Ends(t) # {}
    BY <2>1 DEF IInv, EventInv
  <2>2. ASSUME IInv, NEW i \in Ids, session[i] # None, NEW k \in 1 .. Len(session[i].messages),
               session[i].messages[k].role = "answer"
        PROVE  \/ Last(events[session[i].messages[k].of]) = "final"
               \/ session[i].messages[k].of \in broken
    <3>1. MessageInv(i, session[i].messages[k])
      BY <2>2 DEF IInv, SessionInv
    <3>2. QED
      BY <2>2, <3>1 DEF MessageInv
  <2>3. QED
    BY <2>1, <2>2 DEF OneTerminal, Ends
<1>3. IInv => OneTurn
  BY <1>1, <1>2 DEF OneTurn
<1>4. QED
  BY <1>3, Inductive, PTL
=============================================================================
