----------------------------- MODULE GatewayProofs -----------------------------
(***************************************************************************)
(* Proofs about Gateway, for any catalogue, callers' rights, brands, TTLs  *)
(* and limits: what is answered passed the gate whatever happened on the   *)
(* way, and what is refused was refused for a reason that held.            *)
(***************************************************************************)
EXTENDS Gateway, FiniteSetTheorems, WellFoundedInduction, TLAPS

GatedViews == {v \in DOMAIN Views : Views[v].lag # Ungated}

\* A reading of a view is no newer than what has landed of a brand the filters leave.
Sound(view, filters, day) ==
    /\ view \in GatedViews
    /\ day # Unknown => day \in Int /\ \E b \in Within(filters) : day =< newest[<<view, b>>]

\* A call has these fields.
Fields(a) ==
    a = [kind |-> a.kind, ask |-> a.ask, at |-> a.at, pc |-> a.pc, why |-> a.why, names |-> a.names,
         filters |-> a.filters, left |-> a.left, today |-> a.today, out |-> a.out, seen |-> a.seen,
         stale |-> a.stale]

Shown == {"sql", "list"}
Asking == {"query", "drill"}

\* What is asked of Cube was asked a moment ago, and a reading is of an instant
\* since then.
OutInv(c) ==
    LET a == calls[c] IN
    a.out # None =>
        /\ a.out.since \in Int /\ a.out.since =< now /\ now - a.out.since =< CubeWait
        /\ (a.kind \in Asking /\ a.pc = "gating" /\ a.out.read # None) =>
              /\ a.out.read \in Int /\ a.out.since =< a.out.read /\ a.out.read =< now
              /\ Sound(HeadSlice(c).view, HeadSlice(c).filters, a.out.day)

\* A line holds each view once, and none that was read.
LineNew(left, seen) ==
    \A i \in 1 .. Len(left) : left[i] \notin DOMAIN seen /\ \A j \in 1 .. Len(left) : left[i] = left[j] => i = j

\* Every reading a query was judged by is sound and recent, and lets it pass
\* exactly where it is not noted as stale.
SeenInv(c) ==
    LET a == calls[c] IN
    /\ \A v \in DOMAIN a.seen :
        /\ Sound(v, Slice(v, a.filters).filters, a.seen[v].day)
        /\ a.seen[v].at \in Int /\ a.seen[v].read \in Int
        /\ a.seen[v].at - a.seen[v].read < ProbeTtl + CubeWait
        /\ IF v \in a.stale THEN a.seen[v].day # Unknown /\ a.today - a.seen[v].day > Allowed(v)
           ELSE a.seen[v].day = Unknown \/ ~(a.today - a.seen[v].day > Allowed(v))
    /\ a.stale \subseteq DOMAIN a.seen

Rights(a) ==
    ~ScopeDenied(a.names) /\ ~ModuleRefused(a.ask.module) /\ ~ModuleDenied(a.names, a.ask.module)

\* The gate was passed with what the planner is going to run.
Passed(c) ==
    /\ calls[c].names = RowsOf(c).names /\ calls[c].filters = RowsOf(c).filters
    /\ Rights(calls[c])

QueryInv(c) ==
    LET a == calls[c] IN
    /\ IF a.kind = "query" THEN a.ask.names \subseteq DOMAIN Names ELSE a.ask.parent \in DOMAIN results
    /\ SeenInv(c)
    /\ a.pc = "gating" =>
        /\ Passed(c) /\ a.left \in Seq(GatedViews) /\ a.left # <<>> /\ LineNew(a.left, a.seen)
        /\ \A v \in Needed(a.names) : v \in DOMAIN a.seen \/ \E i \in 1 .. Len(a.left) : a.left[i] = v
    /\ a.pc = "running" /\ ~Parentless(c) =>
        Passed(c) /\ a.stale = {} /\ Needed(a.names) \subseteq DOMAIN a.seen
    /\ a.why = "stale" => a.stale # {}
    /\ a.why = "answered" =>
        Rights(a) /\ a.stale = {} /\ Needed(a.names) \subseteq DOMAIN a.seen /\ a.names \subseteq DOMAIN Names

SqlInv(c) ==
    LET a == calls[c] IN
    a.seen # <<>> /\ a.seen.read # None => a.seen.at - a.seen.read < SchemaTtl + CubeWait

CallInv(c) ==
    LET a == calls[c] IN
    /\ Fields(a) /\ a.kind \in Asking \cup Shown /\ a.at \in Int /\ a.today \in Int
    /\ a.pc \in {"gating", "running", "ended"} /\ (a.pc # "ended" => a.why = None)
    /\ OutInv(c) /\ (a.kind = "list" => a.pc = "ended")
    /\ IF a.kind \in Asking THEN QueryInv(c) ELSE a.stale = {}
    /\ a.kind = "sql" => SqlInv(c)

CacheInv ==
    /\ \A s \in DOMAIN cache :
        /\ Sound(s.view, s.filters, cache[s].day)
        /\ cache[s].at \in Int /\ cache[s].read \in Int /\ cache[s].at - cache[s].read =< CubeWait
    /\ schema # None =>
        schema.at \in Int /\ schema.read \in Int /\ schema.at - schema.read =< CubeWait

ResultsInv ==
    /\ DOMAIN results \subseteq DOMAIN calls
    /\ \A p \in DOMAIN results :
        results[p].until \in Int /\ results[p].names \subseteq DOMAIN Names /\ calls[p].pc = "ended"

\* The instants that are kept are those of the key's calls, and of every call
\* that is still in the window.
TimesInv ==
    /\ \A key \in DOMAIN times :
        times[key] \subseteq {d \in DOMAIN calls : calls[d].kind \in Rated /\ calls[d].ask.key = key}
    /\ \A d \in DOMAIN calls : calls[d].kind \in Rated =>
        /\ calls[d].ask.key \in DOMAIN times
        /\ d \in times[calls[d].ask.key] \/ now - calls[d].at >= RateWindow

Typed ==
    /\ now \in Start .. Horizon /\ newest \in [Pipelines -> 0 .. Day(Horizon)]
    /\ members \subseteq Members /\ asks \in Workloads
    /\ calls \in Seq({calls[i] : i \in DOMAIN calls})

IInv ==
    /\ Typed /\ CacheInv /\ ResultsInv /\ TimesInv /\ RateHeld
    /\ \A c \in DOMAIN calls : CallInv(c)
-----------------------------------------------------------------------------
(* What does not change                                                    *)

\* Days follow the clock.
LEMMA DayType ==
    ASSUME NEW a \in Nat
    PROVE  Day(a) \in Nat
<1>1. TicksPerDay \in Nat \ {0}
    BY GatewayAssumption
<1>2. QED
    BY <1>1 DEF Day

\* A later instant is of no earlier day.
LEMMA DayMonotonic ==
    ASSUME NEW a \in Nat, NEW b \in Nat, a =< b
    PROVE  Day(a) =< Day(b)
<1>1. PICK t \in Nat \ {0} : t = TicksPerDay
    BY GatewayAssumption
<1>2. (a \div t) * t =< a /\ b < (b \div t) * t + t /\ a \div t \in Nat /\ b \div t \in Nat
    BY <1>1, Z3
<1> DEFINE p == a \div t
           q == b \div t
<1>3. p \in Nat /\ q \in Nat /\ p * t < q * t + t
    BY <1>1, <1>2
<1> HIDE DEF p, q
<1>4. p =< q
    BY <1>1, <1>3, Z3
<1>5. QED
    BY <1>1, <1>4 DEF Day, p, q

\* The calls are a sequence, of any things.
LEMMA SeqOfItself ==
    ASSUME NEW T, NEW s \in Seq(T)
    PROVE  /\ s \in Seq({s[i] : i \in DOMAIN s})
           /\ DOMAIN s = 1 .. Len(s) /\ Len(s) \in Nat
OBVIOUS

\* A call that is opened is the last one, and the others are as they were.
LEMMA OpenedAdds ==
    ASSUME Typed, NEW call, Opened(call)
    PROVE  /\ calls' \in Seq({calls'[i] : i \in DOMAIN calls'})
           /\ Len(calls) \in Nat /\ DOMAIN calls = 1 .. Len(calls)
           /\ DOMAIN calls' = 1 .. Len(calls) + 1
           /\ calls'[Len(calls) + 1] = call
           /\ \A d \in DOMAIN calls : d \in DOMAIN calls' /\ calls'[d] = calls[d]
<1> DEFINE T == {calls[i] : i \in DOMAIN calls}
           U == T \cup {call}
<1>1. calls \in Seq(T) /\ calls' = Append(calls, call)
    BY DEF Typed, Opened
<1> HIDE DEF T
<1>2. calls \in Seq(U) /\ call \in U
    BY <1>1
<1> HIDE DEF U
<1>3. calls' \in Seq(U)
    BY <1>1, <1>2
<1>4. calls' \in Seq({calls'[i] : i \in DOMAIN calls'})
    BY <1>3, SeqOfItself
<1>5. QED
    BY <1>1, <1>2, <1>4

\* A step of a call writes its record and no other.
LEMMA OneCall ==
    ASSUME Typed, NEW c \in DOMAIN calls, NEW new, calls' = [calls EXCEPT ![c] = new]
    PROVE  /\ calls' \in Seq({calls'[i] : i \in DOMAIN calls'})
           /\ DOMAIN calls' = DOMAIN calls /\ Len(calls') = Len(calls)
           /\ calls'[c] = new
           /\ \A d \in DOMAIN calls \ {c} : calls'[d] = calls[d]
<1> DEFINE T == {calls[i] : i \in DOMAIN calls}
           U == T \cup {new}
<1>1. calls \in Seq(T)
    BY DEF Typed
<1> HIDE DEF T
<1>2. calls \in Seq(U) /\ new \in U
    BY <1>1
<1> HIDE DEF U
<1>3. calls' \in Seq(U)
    BY <1>2
<1>4. calls' \in Seq({calls'[i] : i \in DOMAIN calls'})
    BY ONLY <1>3, SeqOfItself
<1>5. QED
    BY <1>2, <1>4

\* Time does not go back, what has landed stays, results are kept as they are.
Onwards ==
    /\ now' \in Int /\ now =< now'
    /\ \A p \in Pipelines : newest'[p] \in Int /\ newest[p] =< newest'[p]
    /\ \A p \in DOMAIN results : p \in DOMAIN results' /\ results'[p] = results[p]

\* A reading stays no newer than what has landed, for what has landed only grows.
LEMMA SoundKept ==
    ASSUME Typed, Onwards, NEW view, NEW filters, NEW day, Sound(view, filters, day)
    PROVE  Sound(view, filters, day)'
<1>1. \A b \in Within(filters) : <<view, b>> \in Pipelines
    BY DEF Sound, GatedViews, Pipelines, Within
<1>2. \A p \in Pipelines : newest[p] \in Int
    <2>1. Horizon \in Nat
        BY GatewayAssumption
    <2>2. Day(Horizon) \in Nat
        BY <2>1, DayType
    <2>3. QED
        BY <2>2 DEF Typed
<1>3. \A b \in Within(filters) : day \in Int /\ day =< newest[<<view, b>>] => day =< newest'[<<view, b>>]
    <2>1. \A p \in Pipelines : newest'[p] \in Int /\ newest[p] =< newest'[p]
        BY DEF Onwards
    <2>2. TAKE b \in Within(filters)
    <2>3. PICK old, new : old = newest[<<view, b>>] /\ new = newest'[<<view, b>>]
        OBVIOUS
    <2>4. old \in Int /\ new \in Int /\ old =< new
        BY <1>1, <1>2, <2>1, <2>3
    <2>5. QED
        BY ONLY <2>3, <2>4
<1>4. QED
    BY <1>3 DEF Sound

\* The readings of a call stay sound.
LEMMA SeenKept ==
    ASSUME Typed, Onwards, NEW c, SeenInv(c), calls'[c] = calls[c]
    PROVE  SeenInv(c)'
<1>1. ASSUME NEW v \in DOMAIN calls[c].seen
      PROVE  Sound(v, Slice(v, calls[c].filters).filters, calls[c].seen[v].day)'
    <2>1. PICK filters, day : filters = Slice(v, calls[c].filters).filters /\ day = calls[c].seen[v].day
        OBVIOUS
    <2>2. Sound(v, filters, day)
        BY <2>1 DEF SeenInv
    <2>3. Sound(v, filters, day)'
        BY <2>2, SoundKept
    <2>4. QED
        BY <2>1, <2>3 DEF Sound
<1>2. QED
    BY <1>1 DEF SeenInv
\* What is asked stays as it is while Cube has time left to answer.
LEMMA OutKept ==
    ASSUME Typed, Onwards, NEW c, OutInv(c), calls'[c] = calls[c],
           calls[c].out # None => now' - calls[c].out.since =< CubeWait
    PROVE  OutInv(c)'
<1>1. now \in Int /\ now' \in Int /\ now =< now' /\ CubeWait \in Int
    BY GatewayAssumption DEF Typed, Onwards
<1>2. ASSUME calls[c].out # None
      PROVE  /\ calls[c].out.since \in Int /\ calls[c].out.since =< now'
             /\ now' - calls[c].out.since =< CubeWait
    BY <1>1, <1>2 DEF OutInv
<1>3. ASSUME calls[c].out # None, calls[c].kind \in Asking, calls[c].pc = "gating", calls[c].out.read # None
      PROVE  /\ calls[c].out.read \in Int /\ calls[c].out.since =< calls[c].out.read
             /\ calls[c].out.read =< now'
             /\ Sound(HeadSlice(c).view, HeadSlice(c).filters, calls[c].out.day)'
    <2>1. /\ calls[c].out.read \in Int /\ calls[c].out.since =< calls[c].out.read
          /\ calls[c].out.read =< now
          /\ Sound(HeadSlice(c).view, HeadSlice(c).filters, calls[c].out.day)
        BY <1>3 DEF OutInv
    <2>2. PICK view, filters, day :
            view = HeadSlice(c).view /\ filters = HeadSlice(c).filters /\ day = calls[c].out.day
        OBVIOUS
    <2>3. Sound(view, filters, day)'
        BY <2>1, <2>2, SoundKept
    <2>4. HeadSlice(c)' = HeadSlice(c)
        BY DEF HeadSlice
    <2>5. Sound(HeadSlice(c).view, HeadSlice(c).filters, calls[c].out.day)'
        BY <2>2, <2>3, <2>4 DEF Sound
    <2>6. QED
        BY <1>1, <2>1, <2>5
<1>4. QED
    BY <1>2, <1>3 DEF OutInv

\* A parent that has expired does not come back, and what a call is about stays.
LEMMA RowsKept ==
    ASSUME Typed, ResultsInv, Onwards, NEW c, calls'[c] = calls[c],
           calls[c].kind \in Asking, QueryInv(c)
    PROVE  RowsOf(c)' = RowsOf(c) /\ (Parentless(c) => Parentless(c)')
<1>1. CASE calls[c].kind = "query"
    BY <1>1 DEF RowsOf, Parentless
<1>2. CASE calls[c].kind # "query"
    <2>1. PICK p \in DOMAIN results : p = calls[c].ask.parent
        BY <1>2 DEF QueryInv
    <2>2. results'[p] = results[p] /\ results[p].until \in Int
        BY DEF Onwards, ResultsInv
    <2>3. now \in Int /\ now' \in Int /\ now =< now'
        BY GatewayAssumption DEF Typed, Onwards
    <2>4. Alive(p)' => Alive(p)
        BY <2>2, <2>3 DEF Alive
    <2>5. QED
        BY <2>1, <2>2, <2>4 DEF RowsOf, Parentless
<1>3. QED
    BY <1>1, <1>2

\* A call that is left alone stays good, while Cube has time left to answer it.
LEMMA CallKept ==
    ASSUME IInv, Onwards, NEW c \in DOMAIN calls, calls'[c] = calls[c],
           calls[c].out # None => now' - calls[c].out.since =< CubeWait
    PROVE  CallInv(c)'
<1>1. Typed /\ ResultsInv /\ CallInv(c)
    BY DEF IInv
<1>2. OutInv(c)'
    BY <1>1, OutKept DEF CallInv
<1>3. ASSUME calls[c].kind \in Asking
      PROVE  QueryInv(c)'
    <2>1. QueryInv(c)
        BY <1>1, <1>3 DEF CallInv
    <2>2. SeenInv(c)'
        BY <1>1, <2>1, SeenKept DEF QueryInv
    <2>3. RowsOf(c)' = RowsOf(c) /\ (Parentless(c) => Parentless(c)')
        BY <1>1, <1>3, <2>1, RowsKept
    <2>4. Passed(c) => Passed(c)'
        BY <2>3 DEF Passed
    <2>5. IF calls[c].kind = "query" THEN calls[c].ask.names \subseteq DOMAIN Names
                                     ELSE calls[c].ask.parent \in DOMAIN results'
        BY <2>1 DEF QueryInv, Onwards
    <2>6. QED
        BY <2>1, <2>2, <2>3, <2>4, <2>5 DEF QueryInv
<1>4. calls[c].kind = "sql" => SqlInv(c)'
    BY <1>1 DEF CallInv, SqlInv
<1>5. QED
    BY <1>1, <1>2, <1>3, <1>4 DEF CallInv

-----------------------------------------------------------------------------
(* The counts                                                              *)

\* A call's kind, question and instant stay, and that it was refused for its
\* rate or was not.
Same(c) ==
    /\ calls'[c].kind = calls[c].kind /\ calls'[c].ask = calls[c].ask /\ calls'[c].at = calls[c].at
    /\ calls'[c].why = "rate" <=> calls[c].why = "rate"

\* The counts stay right while no call is opened.
LEMMA RateKept ==
    ASSUME Typed, TimesInv, RateHeld, DOMAIN calls' = DOMAIN calls, \A c \in DOMAIN calls : Same(c) /\ calls[c].at \in Int,
           times' = times, now' \in Int, now =< now'
    PROVE  TimesInv' /\ RateHeld'
<1>1. ASSUME NEW key \in DOMAIN times
      PROVE  times[key] \subseteq {d \in DOMAIN calls' : calls'[d].kind \in Rated /\ calls'[d].ask.key = key}
    BY <1>1 DEF TimesInv, Same
<1>2. now \in Int /\ RateWindow \in Int
    BY GatewayAssumption DEF Typed
<1>3. ASSUME NEW d \in DOMAIN calls, calls'[d].kind \in Rated
      PROVE  /\ calls'[d].ask.key \in DOMAIN times
             /\ d \in times[calls'[d].ask.key] \/ now' - calls'[d].at >= RateWindow
    BY <1>2, <1>3 DEF TimesInv, Same
<1>4. TimesInv'
    BY <1>1, <1>3 DEF TimesInv
<1>5. ASSUME NEW c \in DOMAIN calls
      PROVE  Before(c)' = Before(c) /\ {d \in Before(c) : calls[d].why # "rate"}' = {d \in Before(c) : calls[d].why # "rate"}
    <2>1. \A d \in 1 .. c - 1 : d \in DOMAIN calls
        BY DEF Typed
    <2>2. QED
        BY <2>1 DEF Before, Same
<1>6. RateHeld'
    BY <1>5 DEF RateHeld, Same
<1>7. QED
    BY <1>4, <1>6

-----------------------------------------------------------------------------
(* The operators                                                           *)

\* The elements of a finite set in some order: each is there.
LEMMA SetToSeqCovers ==
    ASSUME NEW S, IsFiniteSet(S)
    PROVE  /\ SetToSeq(S) \in Seq(S)
           /\ \A x \in S : \E i \in 1 .. Len(SetToSeq(S)) : SetToSeq(S)[i] = x
           /\ \A i, j \in 1 .. Len(SetToSeq(S)) : SetToSeq(S)[i] = SetToSeq(S)[j] => i = j
<1> DEFINE n == Cardinality(S)
           f == SetToSeq(S)
<1>1. n \in Nat /\ ExistsBijection(1 .. n, S)
    BY FS_CardinalityType
<1>2. PICK g \in [1 .. n -> S] : IsInjective(g)
    BY <1>1 DEF ExistsBijection, Bijection, Injection
<1>3. f \in [1 .. n -> S] /\ IsInjective(f)
    BY <1>2 DEF SetToSeq
<1> HIDE DEF f
<1>4. f \in Injection(1 .. n, S)
    BY <1>3 DEF Injection
<1>5. Cardinality(1 .. n) = n
    BY <1>1, FS_Interval
<1>6. f \in Surjection(1 .. n, S)
    BY <1>4, <1>5, FS_Injection
<1>7. f \in Seq(S) /\ Len(f) = n
    BY <1>1, <1>3
<1>8. \A x \in S : \E i \in 1 .. n : f[i] = x
    BY <1>6 DEF Surjection
<1>9. \A i, j \in 1 .. n : f[i] = f[j] => i = j
    BY <1>3 DEF IsInjective
<1>10. QED
    BY <1>7, <1>8, <1>9 DEF f

\* The line of a query holds every view that must be asked.
LEMMA LineCovers ==
    ASSUME NEW names, names \subseteq DOMAIN Names
    PROVE  /\ ToAsk(names) \in Seq(GatedViews)
           /\ \A v \in Needed(names) : \E i \in 1 .. Len(ToAsk(names)) : ToAsk(names)[i] = v
           /\ LineNew(ToAsk(names), <<>>)
<1>1. Needed(names) \subseteq GatedViews
    BY GatewayAssumption DEF Needed, GatedViews, Known
<1>2. IsFiniteSet(Needed(names))
    BY <1>1, FS_Subset, GatewayAssumption DEF GatedViews
<1>3. ToAsk(names) = SetToSeq(Needed(names))
    BY DEF ToAsk
<1> DEFINE N == Needed(names)
           s == SetToSeq(N)
<1>4. /\ s \in Seq(N) /\ \A x \in N : \E i \in 1 .. Len(s) : s[i] = x
      /\ \A i, j \in 1 .. Len(s) : s[i] = s[j] => i = j
    BY <1>2, SetToSeqCovers
<1> HIDE DEF s, N
<1>5. s \in Seq(GatedViews)
    BY <1>1, <1>4 DEF N
<1>6. LineNew(s, <<>>)
    BY <1>4 DEF LineNew
<1>7. QED
    BY <1>3, <1>4, <1>5, <1>6 DEF s, N

\* A set of days up to a bound has a newest one.
LEMMA NewestThere ==
    ASSUME NEW last \in Nat, NEW days, days \subseteq 0 .. last, days # {}
    PROVE  Max(days) \in days /\ \A d \in days : d =< Max(days)
<1>1. \A d \in days : d \in Int
    OBVIOUS
<1> DEFINE R == OpToRel(<, Nat)
           gaps == {last - d : d \in days}
<1>2. IsWellFoundedOn(R, Nat)
    BY NatLessThanWellFounded
<1>3. \A x \in Nat, y \in Nat : <<x, y>> \in R <=> x < y
    BY DEF OpToRel
<1> HIDE DEF R
<1>4. gaps \subseteq Nat /\ gaps # {}
    <2>1. \A d \in days : last - d \in Nat
        OBVIOUS
    <2>2. PICK d \in days : TRUE
        OBVIOUS
    <2>3. last - d \in gaps
        OBVIOUS
    <2>4. QED
        BY <2>1, <2>3
<1>5. PICK least \in gaps : \A g \in gaps : ~(<<g, least>> \in R)
    <2> HIDE DEF gaps
    <2>1. QED
        BY <1>2, <1>4, WFMin
<1>6. PICK late \in days : least = last - late
    OBVIOUS
<1>7. \A d \in days : late >= d
    <2>1. TAKE d \in days
    <2>2. last - d \in gaps /\ ~(<<last - d, least>> \in R)
        BY <1>5
    <2>3. ~(last - d < last - late)
        BY <1>3, <1>4, <1>6, <2>2
    <2>4. d \in Int /\ late \in Int
        BY ONLY <1>1, d \in days, late \in days
    <2>5. QED
        BY <2>3, <2>4
<1>8. \E x \in days : \A d \in days : x >= d
    BY <1>7
<1>9. Max(days) \in days /\ \A d \in days : Max(days) >= d
    BY <1>8 DEF Max
<1>10. QED
    BY <1>9

\* The newest day of a slice is of a brand its filters leave.
LEMMA NewestOfOne ==
    ASSUME Typed, NEW slice, slice.view \in GatedViews
    PROVE  Sound(slice.view, slice.filters, NewestOf(slice))
<1>1. PICK last, days :
        last \in Nat /\ last = Day(Horizon) /\ days = {newest[<<slice.view, x>>] : x \in Within(slice.filters)}
    BY GatewayAssumption, DayType
<1>2. days \subseteq 0 .. last
    <2>1. \A b \in Within(slice.filters) : <<slice.view, b>> \in Pipelines
        BY DEF Within, GatedViews, Pipelines
    <2>2. QED
        BY <1>1, <2>1 DEF Typed
<1>3. CASE days = {}
    BY <1>1, <1>3 DEF NewestOf, Sound
<1>4. CASE days # {}
    <2>1. Max(days) \in days
        BY <1>1, <1>2, <1>4, NewestThere
    <2>2. NewestOf(slice) = Max(days)
        BY <1>1, <1>4 DEF NewestOf
    <2>3. PICK b \in Within(slice.filters) : Max(days) = newest[<<slice.view, b>>]
        BY <1>1, <2>1
    <2>4. Max(days) \in Int
        BY <1>1, <1>2, <2>1
    <2>5. QED
        BY <2>2, <2>3, <2>4 DEF Sound
<1>5. QED
    BY <1>3, <1>4

\* A call that goes on waits for a reading, runs, or ends as stale.
LEMMA OnwardLeads ==
    ASSUME NEW a, Fields(a), a.pc = "gating", a.why = None, NEW n, n = Onward(a)
    PROVE  /\ Fields(n) /\ n.kind = a.kind /\ n.ask = a.ask /\ n.at = a.at /\ n.today = a.today
           /\ n.names = a.names /\ n.filters = a.filters /\ n.left = a.left /\ n.out = a.out
           /\ n.seen = a.seen /\ n.stale = a.stale
           /\ n.pc \in {"gating", "running", "ended"} /\ n.why \in {None, "stale"}
           /\ n.pc # "ended" => n.why = None
           /\ n.why = "stale" => n.stale # {}
           /\ n.pc = "gating" => n.left # <<>>
           /\ n.pc = "running" => n.left = <<>> /\ n.stale = {}
<1>1. CASE a.left # <<>>
    BY <1>1, GatewayAssumption DEF Onward
<1>2. CASE a.left = <<>> /\ a.stale # {}
    <2>1. n = [a EXCEPT !.pc = "ended", !.why = "stale"]
        BY <1>2 DEF Onward, Ended
    <2>2. QED
        BY <1>2, <2>1 DEF Fields
<1>3. CASE a.left = <<>> /\ a.stale = {}
    <2>1. n = [a EXCEPT !.pc = "running"]
        BY <1>3 DEF Onward
    <2>2. QED
        BY <1>3, <2>1, GatewayAssumption DEF Fields
<1>4. None # "stale"
    BY GatewayAssumption
<1>5. QED
    BY <1>1, <1>2, <1>3, <1>4

-----------------------------------------------------------------------------
(* A call that goes on                                                     *)

\* What a step of one call must show: its own record, the caches, the results.
LEMMA StepOfOne ==
    ASSUME IInv, NEW c \in DOMAIN calls, NEW new, calls' = [calls EXCEPT ![c] = new],
           new.kind = calls[c].kind, new.ask = calls[c].ask, new.at = calls[c].at,
           new.why = "rate" <=> calls[c].why = "rate",
           UNCHANGED <<now, newest, members, asks, times>>,
           \A p \in DOMAIN results : p \in DOMAIN results' /\ results'[p] = results[p],
           CallInv(c)', CacheInv', ResultsInv'
    PROVE  IInv'
<1>1. /\ calls' \in Seq({calls'[i] : i \in DOMAIN calls'})
      /\ DOMAIN calls' = DOMAIN calls /\ calls'[c] = new
      /\ \A d \in DOMAIN calls \ {c} : calls'[d] = calls[d]
    BY OneCall DEF IInv
<1>2. now \in Int /\ \A p \in Pipelines : newest[p] \in Int
    <2>1. Day(Horizon) \in Nat
        BY GatewayAssumption, DayType
    <2>2. QED
        BY <2>1, GatewayAssumption DEF IInv, Typed
<1>3. Onwards
    BY <1>2 DEF Onwards
<1>4. ASSUME NEW d \in DOMAIN calls \ {c}
      PROVE  CallInv(d)'
    <2>1. calls[d].out # None => now' - calls[d].out.since =< CubeWait
        BY DEF IInv, CallInv, OutInv
    <2>2. QED
        BY <1>1, <1>3, <2>1, CallKept
<1>5. \A d \in DOMAIN calls' : CallInv(d)'
    BY <1>1, <1>4
<1>6. \A d \in DOMAIN calls : Same(d) /\ calls[d].at \in Int
    <2>1. \A d \in DOMAIN calls : calls[d].at \in Int
        BY DEF IInv, CallInv
    <2>2. QED
        BY <1>1, <2>1 DEF Same
<1>7. TimesInv' /\ RateHeld'
    BY <1>1, <1>2, <1>6, RateKept DEF IInv
<1>8. Typed'
    BY <1>1 DEF IInv, Typed
<1>9. QED
    BY <1>5, <1>7, <1>8 DEF IInv

\* Most steps leave the caches and the results alone.
LEMMA QuietStep ==
    ASSUME IInv, NEW c \in DOMAIN calls, NEW new, calls' = [calls EXCEPT ![c] = new],
           new.kind = calls[c].kind, new.ask = calls[c].ask, new.at = calls[c].at,
           calls[c].pc # "ended", new.why # "rate",
           UNCHANGED <<now, newest, members, asks, cache, schema, results, times>>,
           CallInv(c)'
    PROVE  IInv'
<1>1. CacheInv'
    BY DEF IInv, CacheInv, Sound
<1>2. ResultsInv'
    <2>1. c \notin DOMAIN results
        BY DEF IInv, ResultsInv
    <2>2. DOMAIN calls' = DOMAIN calls /\ \A d \in DOMAIN calls \ {c} : calls'[d] = calls[d]
        BY OneCall DEF IInv
    <2>3. QED
        BY <2>1, <2>2 DEF IInv, ResultsInv
<1>3. calls[c].why # "rate"
    BY GatewayAssumption DEF IInv, CallInv
<1>4. QED
    BY <1>1, <1>2, <1>3, StepOfOne

\* The reading of the view at the head of the line is noted, and the call goes on.
LEMMA Judging ==
    ASSUME IInv, NEW c \in DOMAIN calls, Gating(c), NEW day, NEW read \in Int,
           Sound(HeadSlice(c).view, HeadSlice(c).filters, day), now - read < ProbeTtl + CubeWait,
           calls' = [calls EXCEPT ![c] = Judged(calls[c], day, read)],
           UNCHANGED <<now, newest, members, asks, results, times>>
    PROVE  LET n == Judged(calls[c], day, read) IN
           /\ n.kind = calls[c].kind /\ n.ask = calls[c].ask /\ n.at = calls[c].at /\ n.why # "rate"
           /\ CallInv(c)'
<1>1. CallInv(c) /\ calls[c].kind \in Asking /\ calls[c].pc = "gating"
    BY DEF IInv, CallInv, Gating, Asking, Shown
<1>2. PICK a, view, seen, stale, b, n :
        /\ a = calls[c] /\ view = Head(a.left)
        /\ seen = Put(a.seen, view, [day |-> day, read |-> read, at |-> now])
        /\ stale = IF day # Unknown /\ a.today - day > Allowed(view) THEN a.stale \cup {view} ELSE a.stale
        /\ b = [a EXCEPT !.left = Tail(a.left), !.out = None, !.seen = seen, !.stale = stale]
        /\ n = Judged(a, day, read)
    OBVIOUS
<1>3. /\ Fields(a) /\ a.kind \in Asking /\ a.pc = "gating" /\ a.why = None /\ a.at \in Int /\ a.today \in Int
    BY <1>1, <1>2 DEF CallInv
<1>4. n = Onward(b)
    BY <1>2 DEF Judged
<1>5. /\ Fields(b) /\ b.pc = "gating" /\ b.why = None /\ b.kind = a.kind /\ b.ask = a.ask /\ b.at = a.at
      /\ b.today = a.today /\ b.names = a.names /\ b.filters = a.filters /\ b.left = Tail(a.left)
      /\ b.out = None /\ b.seen = seen /\ b.stale = stale
    <2>1. b = [a EXCEPT !.left = Tail(a.left), !.out = None, !.seen = seen, !.stale = stale]
        BY <1>2
    <2>2. Fields(a) /\ a.pc = "gating" /\ a.why = None
        BY <1>3
    <2>3. QED
        BY ONLY <2>1, <2>2 DEF Fields
<1>6. /\ Fields(n) /\ n.kind = a.kind /\ n.ask = a.ask /\ n.at = a.at /\ n.today = a.today
      /\ n.names = a.names /\ n.filters = a.filters /\ n.left = Tail(a.left) /\ n.out = None
      /\ n.seen = seen /\ n.stale = stale
      /\ n.pc \in {"gating", "running", "ended"} /\ n.why \in {None, "stale"}
      /\ n.pc # "ended" => n.why = None
      /\ n.why = "stale" => n.stale # {}
      /\ n.pc = "gating" => n.left # <<>>
      /\ n.pc = "running" => n.left = <<>> /\ n.stale = {}
    BY <1>4, <1>5, OnwardLeads
<1>7. calls'[c] = n
    BY <1>2, OneCall DEF IInv
<1>8. /\ a.left \in Seq(GatedViews) /\ a.left # <<>> /\ Passed(c) /\ SeenInv(c) /\ QueryInv(c)
      /\ LineNew(a.left, a.seen)
    BY <1>1, <1>2 DEF CallInv, QueryInv
<1>9. view \in GatedViews /\ Tail(a.left) \in Seq(GatedViews) /\ HeadSlice(c) = Slice(view, a.filters)
    BY <1>2, <1>8 DEF HeadSlice
<1>10. DOMAIN seen = DOMAIN a.seen \cup {view}
       /\ seen[view] = [day |-> day, read |-> read, at |-> now]
       /\ \A v \in DOMAIN a.seen : v # view => seen[v] = a.seen[v]
    BY <1>2 DEF Put
<1>11. HeadSlice(c).view = view /\ HeadSlice(c).filters = Slice(view, a.filters).filters
    BY <1>9 DEF Slice
<1>12. ASSUME NEW v \in DOMAIN seen
       PROVE  /\ Sound(v, Slice(v, a.filters).filters, seen[v].day)'
              /\ seen[v].at \in Int /\ seen[v].read \in Int
              /\ seen[v].at - seen[v].read < ProbeTtl + CubeWait
              /\ IF v \in stale THEN seen[v].day # Unknown /\ a.today - seen[v].day > Allowed(v)
                 ELSE seen[v].day = Unknown \/ ~(a.today - seen[v].day > Allowed(v))
    <2>1. CASE v = view
        <3>1. now \in Int
            BY GatewayAssumption DEF IInv, Typed
        <3>2. seen[v].day = day /\ seen[v].read = read /\ seen[v].at = now
            BY <1>10, <2>1
        <3>3. Sound(v, Slice(v, a.filters).filters, day)
            BY <1>11, <2>1
        <3>4. view \notin a.stale
            <4>1. a.left[1] = view /\ 1 \in 1 .. Len(a.left)
                BY <1>2, <1>8
            <4>2. view \notin DOMAIN a.seen
                BY <1>8, <4>1 DEF LineNew
            <4>3. QED
                BY <1>2, <1>8, <4>2 DEF SeenInv
        <3>5. view \in stale <=> day # Unknown /\ a.today - day > Allowed(view)
            BY <1>2, <3>4
        <3>6. QED
            BY <1>2, <2>1, <3>1, <3>2, <3>3, <3>5 DEF Sound
    <2>2. CASE v # view
        <3>1. v \in DOMAIN a.seen /\ seen[v] = a.seen[v]
            BY <1>10, <2>2
        <3>2. QED
            BY <1>2, <1>8, <2>2, <3>1 DEF SeenInv, Sound
    <2>3. QED
        BY <2>1, <2>2
<1>13. stale \subseteq DOMAIN seen
    BY <1>2, <1>8, <1>10 DEF SeenInv
<1>14. SeenInv(c)'
    BY <1>6, <1>7, <1>12, <1>13 DEF SeenInv
<1>15. Passed(c)' /\ (IF n.kind = "query" THEN n.ask.names \subseteq DOMAIN Names ELSE n.ask.parent \in DOMAIN results')
    <2>1. RowsOf(c)' = RowsOf(c)
        BY <1>2, <1>6, <1>7 DEF RowsOf
    <2>2. QED
        BY <1>2, <1>6, <1>7, <1>8, <2>1 DEF Passed, QueryInv, Rights
<1>16. \A v \in Needed(a.names) : v \in DOMAIN seen \/ \E i \in 1 .. Len(Tail(a.left)) : Tail(a.left)[i] = v
    <2>1. TAKE v \in Needed(a.names)
    <2>2. v \in DOMAIN a.seen \/ \E i \in 1 .. Len(a.left) : a.left[i] = v
        BY <1>1, <1>2, <1>8 DEF QueryInv
    <2>3. ASSUME NEW i \in 1 .. Len(a.left), a.left[i] = v, i # 1
          PROVE  i - 1 \in 1 .. Len(Tail(a.left)) /\ Tail(a.left)[i - 1] = v
        BY <1>8, <2>3
    <2>4. QED
        BY <1>2, <1>8, <1>10, <2>2, <2>3
<1>17. n.left = <<>> => Needed(a.names) \subseteq DOMAIN seen
    <2>1. n.left = Tail(a.left)
        BY <1>6
    <2>2. ASSUME n.left = <<>>
          PROVE  1 .. Len(Tail(a.left)) = {}
        <3>1. Tail(a.left) = <<>>
            BY <2>1, <2>2
        <3>2. Len(<<>>) = 0 /\ 1 .. 0 = {}
            OBVIOUS
        <3>3. QED
            BY <3>1, <3>2
    <2>3. QED
        BY <1>16, <2>2
<1>18. LineNew(Tail(a.left), seen)
    <2>1. ASSUME NEW i \in 1 .. Len(Tail(a.left))
          PROVE  i + 1 \in 1 .. Len(a.left) /\ Tail(a.left)[i] = a.left[i + 1] /\ i + 1 # 1
        BY <1>8
    <2>2. 1 \in 1 .. Len(a.left) /\ a.left[1] = view
        BY <1>2, <1>8
    <2>3. ASSUME NEW i \in 1 .. Len(Tail(a.left))
          PROVE  Tail(a.left)[i] \notin DOMAIN seen
        BY <1>8, <1>10, <2>1, <2>2 DEF LineNew
    <2>4. ASSUME NEW i \in 1 .. Len(Tail(a.left)), NEW j \in 1 .. Len(Tail(a.left)), Tail(a.left)[i] = Tail(a.left)[j]
          PROVE  i = j
        <3>1. i + 1 = j + 1
            BY <1>8, <2>1, <2>4 DEF LineNew
        <3>2. QED
            BY <3>1
    <2>5. QED
        BY <2>3, <2>4 DEF LineNew
<1>19. QueryInv(c)'
    <2>1. n.why # "answered"
        BY <1>6, GatewayAssumption
    <2>2. n.pc = "gating" => n.left \in Seq(GatedViews) /\ n.left # <<>> /\ LineNew(n.left, n.seen)
        BY <1>6, <1>9, <1>18
    <2>3. n.pc = "gating" =>
            /\ Passed(c)' /\ n.left \in Seq(GatedViews) /\ n.left # <<>> /\ LineNew(n.left, n.seen)
            /\ \A v \in Needed(n.names) : v \in DOMAIN n.seen \/ \E i \in 1 .. Len(n.left) : n.left[i] = v
        BY <1>6, <1>15, <1>16, <2>2
    <2>4. n.pc = "running" => Passed(c)' /\ n.stale = {} /\ Needed(n.names) \subseteq DOMAIN n.seen
        BY <1>6, <1>15, <1>17
    <2>5. n.why = "stale" => n.stale # {}
        BY <1>6
    <2>6. QED
        BY <1>7, <1>14, <1>15, <2>1, <2>3, <2>4, <2>5 DEF QueryInv
<1>20. CallInv(c)'
    BY <1>3, <1>6, <1>7, <1>19 DEF CallInv, OutInv, Asking, Shown
<1>21. n.why # "rate"
    BY <1>6, GatewayAssumption
<1>22. QED
    BY <1>2, <1>6, <1>20, <1>21


\* A query stays a good one whatever it asks of Cube.
LEMMA SameQuery ==
    ASSUME NEW c, QueryInv(c), UNCHANGED <<now, newest, results>>,
           NEW a, NEW n, a = calls[c], n = calls'[c],
           n.kind = a.kind, n.ask = a.ask, n.today = a.today, n.pc = a.pc, n.why = a.why, n.names = a.names,
           n.filters = a.filters, n.left = a.left, n.seen = a.seen, n.stale = a.stale
    PROVE  QueryInv(c)'
<1>1. RowsOf(c)' = RowsOf(c) /\ Parentless(c)' = Parentless(c)
    BY DEF RowsOf, Parentless, Alive
<1>2. Passed(c) => Passed(c)'
    BY <1>1 DEF Passed, Rights
<1>3. SeenInv(c)'
    BY DEF QueryInv, SeenInv, Sound
<1>4. QED
    BY <1>1, <1>2, <1>3 DEF QueryInv, Rights


\* What a query that waits is about.
LEMMA GatingFacts ==
    ASSUME IInv, NEW c \in DOMAIN calls, Gating(c)
    PROVE  /\ CallInv(c) /\ QueryInv(c) /\ calls[c].kind \in Asking /\ calls[c].pc = "gating"
           /\ HeadSlice(c).view \in GatedViews
           /\ now \in Int /\ ProbeTtl \in Nat \ {0} /\ CubeWait \in Nat
<1>1. CallInv(c) /\ calls[c].kind \in Asking /\ calls[c].pc = "gating"
    BY DEF IInv, CallInv, Gating, Asking, Shown
<1>2. QueryInv(c)
    BY <1>1 DEF CallInv
<1>3. Head(calls[c].left) \in GatedViews
    BY <1>1, <1>2 DEF QueryInv
<1>4. HeadSlice(c).view \in GatedViews
    BY <1>3 DEF HeadSlice, Slice
<1>5. QED
    BY <1>1, <1>2, <1>4, GatewayAssumption DEF IInv, Typed

\* A cached reading is judged as it was read, at most a ttl ago (_latest_data_date).
LEMMA ProbeHitKeeps ==
    ASSUME IInv, NEW c \in DOMAIN calls, ProbeHit(c)
    PROVE  IInv'
<1>1. PICK s : s = HeadSlice(c)
    OBVIOUS
<1>2. s \in DOMAIN cache /\ now - cache[s].at < ProbeTtl
    BY <1>1 DEF ProbeHit, Cached
<1>3. /\ Sound(s.view, s.filters, cache[s].day) /\ cache[s].at \in Int /\ cache[s].read \in Int
      /\ cache[s].at - cache[s].read =< CubeWait
    BY <1>2 DEF IInv, CacheInv
<1>4. PICK day, read : day = cache[s].day /\ read = cache[s].read
    OBVIOUS
<1>5. Gating(c) /\ calls' = [calls EXCEPT ![c] = Judged(calls[c], day, read)]
    BY <1>1, <1>4 DEF ProbeHit
<1>6. now - read < ProbeTtl + CubeWait
    BY <1>2, <1>3, <1>4, <1>5, GatingFacts
<1>7. UNCHANGED <<now, newest, members, asks, cache, schema, results, times>>
    BY DEF ProbeHit
<1>8. LET n == Judged(calls[c], day, read) IN
      /\ n.kind = calls[c].kind /\ n.ask = calls[c].ask /\ n.at = calls[c].at /\ n.why # "rate"
      /\ CallInv(c)'
    BY <1>1, <1>3, <1>4, <1>5, <1>6, <1>7, Judging, ZenonT(60)
<1>9. calls[c].pc # "ended"
    BY <1>5 DEF Gating
<1>10. QED
    BY <1>5, <1>7, <1>8, <1>9, QuietStep

\* A probe that is sent has been out for no time.
LEMMA ProbeSentKeeps ==
    ASSUME IInv, NEW c \in DOMAIN calls, ProbeSent(c)
    PROVE  IInv'
<1>1. PICK a, out, n : /\ a = calls[c] /\ out = [since |-> now, read |-> None, day |-> Unknown]
                       /\ n = [a EXCEPT !.out = out]
    OBVIOUS
<1>2. /\ Gating(c) /\ UNCHANGED <<now, newest, members, asks, cache, schema, results, times>>
      /\ calls' = [calls EXCEPT ![c].out = out]
    BY <1>1 DEF ProbeSent
<1>3. calls' = [calls EXCEPT ![c] = n]
    BY <1>1, <1>2
<1>4. calls'[c] = n
    BY <1>3, OneCall DEF IInv
<1>5. Fields(a) /\ CallInv(c) /\ QueryInv(c) /\ now \in Int /\ CubeWait \in Nat
    BY <1>1, <1>2, GatingFacts DEF CallInv
<1>6. /\ Fields(n) /\ n.kind = a.kind /\ n.ask = a.ask /\ n.at = a.at /\ n.today = a.today /\ n.pc = a.pc
      /\ n.why = a.why /\ n.names = a.names /\ n.filters = a.filters /\ n.left = a.left
      /\ n.out = out /\ n.seen = a.seen /\ n.stale = a.stale
    BY ONLY <1>1, <1>5 DEF Fields
<1>7. OutInv(c)'
    <2>1. out.since = now /\ out.read = None
        BY <1>1
    <2>2. now =< now /\ now - now =< CubeWait
        BY <1>5
    <2>3. now' = now
        BY <1>2
    <2>4. QED
        BY <1>4, <1>5, <1>6, <2>1, <2>2, <2>3 DEF OutInv
<1>8. QueryInv(c)'
    BY <1>1, <1>2, <1>4, <1>5, <1>6, SameQuery
<1>9. CallInv(c)' /\ a.pc # "ended" /\ n.why # "rate"
    BY <1>1, <1>2, <1>4, <1>5, <1>6, <1>7, <1>8, GatewayAssumption DEF CallInv, Gating
<1>10. QED
    <2>1. n.kind = calls[c].kind /\ n.ask = calls[c].ask /\ n.at = calls[c].at /\ calls[c].pc # "ended"
        BY <1>1, <1>6, <1>9
    <2>2. QED
        BY <1>2, <1>3, <1>9, <2>1, QuietStep

\* Cube reads the newest day that has landed at that instant.
LEMMA CubeReadsKeeps ==
    ASSUME IInv, NEW c \in DOMAIN calls, CubeReads(c)
    PROVE  IInv'
<1>1. PICK a, out, n : /\ a = calls[c]
                       /\ out = [since |-> a.out.since, read |-> now, day |-> NewestOf(HeadSlice(c))]
                       /\ n = [a EXCEPT !.out = out]
    OBVIOUS
<1>2. /\ Gating(c) /\ UNCHANGED <<now, newest, members, asks, cache, schema, results, times>>
      /\ calls' = [calls EXCEPT ![c] = n] /\ a.out # None
    BY <1>1 DEF CubeReads
<1>3. calls'[c] = n
    BY <1>2, OneCall DEF IInv
<1>4. Fields(a) /\ CallInv(c) /\ QueryInv(c) /\ OutInv(c) /\ now \in Int
    BY <1>1, <1>2, GatingFacts DEF CallInv
<1>5. /\ Fields(n) /\ n.kind = a.kind /\ n.ask = a.ask /\ n.at = a.at /\ n.today = a.today /\ n.pc = a.pc
      /\ n.why = a.why /\ n.names = a.names /\ n.filters = a.filters /\ n.left = a.left
      /\ n.out = out /\ n.seen = a.seen /\ n.stale = a.stale
    BY ONLY <1>1, <1>4 DEF Fields
<1>6. OutInv(c)'
    <2>1. PICK s : s = HeadSlice(c) /\ s.view \in GatedViews
        BY <1>2, GatingFacts
    <2>2. Sound(s.view, s.filters, out.day)
        BY <1>1, <2>1, NewestOfOne DEF IInv
    <2>3. HeadSlice(c)' = s
        BY <1>1, <1>3, <1>5, <2>1 DEF HeadSlice
    <2>4. Sound(HeadSlice(c).view, HeadSlice(c).filters, out.day)'
        BY <1>2, <2>2, <2>3 DEF Sound
    <2>5. out.since \in Int /\ out.since =< now /\ now - out.since =< CubeWait /\ out.read = now
        BY <1>1, <1>2, <1>4 DEF OutInv
    <2>6. QED
        BY <1>2, <1>3, <1>4, <1>5, <2>4, <2>5 DEF OutInv
<1>7. QueryInv(c)'
    <2>1. UNCHANGED <<now, newest, results>> /\ a = calls[c] /\ n = calls'[c] /\ QueryInv(c)
        BY <1>1, <1>2, <1>3, <1>4
    <2>2. QED
        BY ONLY <1>5, <2>1, SameQuery
<1>8. CallInv(c)' /\ a.pc # "ended" /\ n.why # "rate"
    <2>1. a.kind # "sql" /\ a.pc = "gating"
        BY <1>1, <1>2 DEF Gating
    <2>2. /\ a.kind \in Asking \cup Shown /\ a.at \in Int /\ a.today \in Int /\ a.why = None
          /\ a.kind # "list" /\ (a.kind \notin Asking => a.stale = {})
        BY <1>1, <1>4, <2>1 DEF CallInv
    <2>3. None # "rate"
        BY GatewayAssumption
    <2>4. calls'[c] = n
        BY <1>3
    <2>5. QED
        BY <1>5, <1>6, <1>7, <2>1, <2>2, <2>3, <2>4 DEF CallInv
<1>9. QED
    BY <1>1, <1>2, <1>5, <1>8, QuietStep, ZenonT(60)

\* What Cube said is kept in the cache, stamped with the instant it was heard.
LEMMA HeardKeeps ==
    ASSUME IInv, NEW c \in DOMAIN calls, Gating(c), NEW day, NEW read \in Int, now - read =< CubeWait,
           Sound(HeadSlice(c).view, HeadSlice(c).filters, day), Heard(c, day, read)
    PROVE  IInv'
<1>1. PICK s, n : s = HeadSlice(c) /\ n = Judged(calls[c], day, read)
    OBVIOUS
<1>2. /\ cache' = Put(cache, s, [at |-> now, day |-> day, read |-> read])
      /\ calls' = [calls EXCEPT ![c] = n]
      /\ UNCHANGED <<now, newest, members, asks, schema, results, times>>
    BY <1>1 DEF Heard
<1>3. now \in Int /\ ProbeTtl \in Nat \ {0} /\ CubeWait \in Nat /\ calls[c].pc = "gating"
    BY GatingFacts
<1>4. now - read < ProbeTtl + CubeWait
    BY <1>3
<1>5. n.kind = calls[c].kind /\ n.ask = calls[c].ask /\ n.at = calls[c].at /\ n.why # "rate" /\ CallInv(c)'
    BY <1>1, <1>2, <1>4, Judging
<1>6. CacheInv'
    <2>1. DOMAIN cache' = DOMAIN cache \cup {s} /\ cache'[s] = [at |-> now, day |-> day, read |-> read]
          /\ \A t \in DOMAIN cache : t # s => cache'[t] = cache[t]
        BY <1>2 DEF Put
    <2>2. ASSUME NEW t \in DOMAIN cache'
          PROVE  /\ Sound(t.view, t.filters, cache[t].day)'
                 /\ cache'[t].at \in Int /\ cache'[t].read \in Int /\ cache'[t].at - cache'[t].read =< CubeWait
        <3>1. CASE t = s
            <4>1. Sound(s.view, s.filters, day)
                BY <1>1
            <4>2. Sound(s.view, s.filters, day)'
                BY <1>2, <4>1 DEF Sound
            <4>3. cache'[t].day = day /\ cache'[t].at = now /\ cache'[t].read = read
                BY <2>1, <3>1
            <4>4. QED
                BY <1>3, <3>1, <4>2, <4>3 DEF Sound
        <3>2. CASE t # s
            <4>1. t \in DOMAIN cache /\ cache'[t] = cache[t]
                BY <2>1, <3>2
            <4>2. QED
                BY <1>2, <4>1 DEF IInv, CacheInv, Sound
        <3>3. QED
            BY <3>1, <3>2
    <2>3. QED
        BY <1>2, <2>2 DEF IInv, CacheInv
<1>7. ResultsInv'
    <2>1. c \notin DOMAIN results
        BY <1>3 DEF IInv, ResultsInv
    <2>2. DOMAIN calls' = DOMAIN calls /\ \A d \in DOMAIN calls \ {c} : calls'[d] = calls[d]
        BY <1>2, OneCall DEF IInv
    <2>3. QED
        BY <1>2, <2>1, <2>2 DEF IInv, ResultsInv
<1>8. calls[c].why # "rate"
    BY <1>3, GatewayAssumption DEF IInv, CallInv
<1>9. QED
    BY <1>2, <1>5, <1>6, <1>7, <1>8, StepOfOne

\* A reading that comes back is cached and judged.
LEMMA ProbeAnsweredKeeps ==
    ASSUME IInv, NEW c \in DOMAIN calls, ProbeAnswered(c)
    PROVE  IInv'
<1>1. PICK day, read : day = calls[c].out.day /\ read = calls[c].out.read
    OBVIOUS
<1>2. Gating(c) /\ Heard(c, day, read) /\ calls[c].out # None /\ calls[c].out.read # None
    BY <1>1 DEF ProbeAnswered
<1>3. CallInv(c) /\ calls[c].kind \in Asking /\ calls[c].pc = "gating" /\ now \in Int /\ CubeWait \in Nat
    BY <1>2, GatingFacts
<1>4. /\ read \in Int /\ Sound(HeadSlice(c).view, HeadSlice(c).filters, day)
      /\ calls[c].out.since \in Int /\ calls[c].out.since =< read /\ now - calls[c].out.since =< CubeWait
    BY <1>1, <1>2, <1>3 DEF CallInv, OutInv
<1>5. now - read =< CubeWait
    BY <1>3, <1>4
<1>6. QED
    BY <1>2, <1>4, <1>5, HeardKeeps

\* A probe that fails is cached as unknown, and gates nothing.
LEMMA ProbeFailedKeeps ==
    ASSUME IInv, NEW c \in DOMAIN calls, ProbeFailed(c)
    PROVE  IInv'
<1>1. PICK read : read = now
    OBVIOUS
<1>2. Gating(c) /\ Heard(c, Unknown, read)
    BY <1>1 DEF ProbeFailed
<1>3. HeadSlice(c).view \in GatedViews /\ now \in Int /\ CubeWait \in Nat
    BY <1>2, GatingFacts
<1>4. Sound(HeadSlice(c).view, HeadSlice(c).filters, Unknown)
    BY <1>3 DEF Sound
<1>5. QED
    BY <1>1, <1>2, <1>3, <1>4, HeardKeeps

\* The rows of a query that runs passed the gate, as they are stored.
LEMMA PlannerAnswersKeeps ==
    ASSUME IInv, NEW c \in DOMAIN calls, PlannerAnswers(c)
    PROVE  IInv'
<1>1. PICK a, rows, row, n :
        /\ a = calls[c] /\ rows = RowsOf(c)
        /\ row = [names |-> rows.names, filters |-> rows.filters, until |-> now + ResultTtl]
        /\ n = Ended([a EXCEPT !.names = rows.names, !.filters = rows.filters], "answered")
    OBVIOUS
<1>2. /\ Running(c) /\ ~Parentless(c)
      /\ calls' = [calls EXCEPT ![c] = n] /\ results' = Put(results, c, row)
      /\ UNCHANGED <<now, newest, members, asks, cache, schema, times>>
    BY <1>1 DEF PlannerAnswers
<1>3. CallInv(c) /\ a.kind \in Asking /\ a.pc = "running" /\ a.why = None /\ Fields(a) /\ a.at \in Int /\ a.today \in Int
    BY <1>1, <1>2 DEF IInv, CallInv, Running, Asking, Shown
<1>4. QueryInv(c) /\ Passed(c) /\ a.stale = {} /\ Needed(a.names) \subseteq DOMAIN a.seen /\ SeenInv(c)
    BY <1>1, <1>2, <1>3 DEF CallInv, QueryInv
<1>5. a.names = rows.names /\ a.filters = rows.filters /\ Rights(a)
    BY <1>1, <1>4 DEF Passed
<1>6. /\ Fields(n) /\ n.kind = a.kind /\ n.ask = a.ask /\ n.at = a.at /\ n.today = a.today
      /\ n.pc = "ended" /\ n.why = "answered" /\ n.names = a.names /\ n.filters = a.filters
      /\ n.left = a.left /\ n.out = a.out /\ n.seen = a.seen /\ n.stale = a.stale
    <2>1. n = [[a EXCEPT !.names = rows.names, !.filters = rows.filters] EXCEPT !.pc = "ended", !.why = "answered"]
        BY <1>1 DEF Ended
    <2>2. QED
        BY ONLY <1>3, <1>5, <2>1 DEF Fields
<1>7. /\ calls'[c] = n /\ DOMAIN calls' = DOMAIN calls
      /\ \A d \in DOMAIN calls \ {c} : calls'[d] = calls[d]
    BY <1>2, OneCall DEF IInv
<1>8. c \notin DOMAIN results
    BY <1>1, <1>3 DEF IInv, ResultsInv
<1>9. /\ DOMAIN results' = DOMAIN results \cup {c} /\ results'[c] = row
      /\ \A p \in DOMAIN results : results'[p] = results[p]
    BY <1>2, <1>8 DEF Put
<1>10. a.names \subseteq DOMAIN Names
    <2>1. CASE a.kind = "query"
        <3>1. rows.names = a.ask.names
            BY <1>1, <2>1 DEF RowsOf
        <3>2. QED
            BY <1>1, <1>4, <1>5, <2>1, <3>1 DEF QueryInv
    <2>2. CASE a.kind # "query"
        <3>1. PICK p \in DOMAIN results : p = a.ask.parent
            BY <1>1, <1>4, <2>2 DEF QueryInv
        <3>2. rows.names = results[p].names
            BY <1>1, <2>2, <3>1 DEF RowsOf
        <3>3. QED
            BY <1>5, <3>1, <3>2 DEF IInv, ResultsInv
    <2>3. QED
        BY <2>1, <2>2
<1>11. ResultsInv'
    <2>1. row.until \in Int /\ row.names \subseteq DOMAIN Names
        BY <1>1, <1>5, <1>10, GatewayAssumption, SMTT(60) DEF IInv, Typed
    <2>2. DOMAIN results' \subseteq DOMAIN calls'
        BY <1>7, <1>9 DEF IInv, ResultsInv
    <2>3. ASSUME NEW p \in DOMAIN results'
          PROVE  results'[p].until \in Int /\ results'[p].names \subseteq DOMAIN Names /\ calls'[p].pc = "ended"
        <3>1. CASE p = c
            BY <1>6, <1>7, <1>9, <2>1, <3>1
        <3>2. CASE p # c
            BY <1>7, <1>9, <3>2 DEF IInv, ResultsInv
        <3>3. QED
            BY <3>1, <3>2
    <2>4. QED
        BY <2>2, <2>3 DEF ResultsInv
<1>12. CacheInv'
    BY <1>2 DEF IInv, CacheInv, Sound
<1>13. QueryInv(c)'
    <2>1. SeenInv(c)'
        <3>1. /\ calls'[c].seen = calls[c].seen /\ calls'[c].stale = calls[c].stale
              /\ calls'[c].today = calls[c].today /\ calls'[c].filters = calls[c].filters
            BY <1>1, <1>6, <1>7
        <3>2. QED
            BY ONLY <1>2, <1>4, <3>1 DEF SeenInv, Sound
    <2>2. IF n.kind = "query" THEN n.ask.names \subseteq DOMAIN Names ELSE n.ask.parent \in DOMAIN results'
        BY <1>1, <1>4, <1>6, <1>9 DEF QueryInv
    <2>3. Rights(n)
        BY <1>5, <1>6 DEF Rights
    <2>4. QED
        BY <1>4, <1>6, <1>7, <1>10, <2>1, <2>2, <2>3 DEF QueryInv, Rights
<1>14. OutInv(c)'
    <2>1. OutInv(c) /\ now' = now
        BY <1>2, <1>3 DEF CallInv
    <2>2. QED
        BY <1>1, <1>6, <1>7, <2>1 DEF OutInv
<1>15. CallInv(c)'
    BY <1>3, <1>6, <1>7, <1>13, <1>14 DEF CallInv, Asking, Shown
<1>16. n.why # "rate" /\ a.why # "rate"
    BY <1>3, <1>6, GatewayAssumption
<1>17. QED
    <2>1. n.kind = calls[c].kind /\ n.ask = calls[c].ask /\ n.at = calls[c].at /\ (n.why = "rate" <=> calls[c].why = "rate")
        BY <1>1, <1>6, <1>16
    <2>2. \A p \in DOMAIN results : p \in DOMAIN results' /\ results'[p] = results[p]
        BY <1>9
    <2>3. QED
        BY <1>2, <1>11, <1>12, <1>15, <2>1, <2>2, StepOfOne

\* A call that ends with no rows of its own.
LEMMA EndedKeeps ==
    ASSUME IInv, NEW c \in DOMAIN calls, calls[c].pc # "ended", NEW why, why \notin {"rate"},
           calls[c].kind \in Asking => why \notin {"answered", "stale"},
           calls' = [calls EXCEPT ![c] = Ended(calls[c], why)],
           UNCHANGED <<now, newest, members, asks, cache, schema, results, times>>
    PROVE  IInv'
<1>1. PICK a, n : a = calls[c] /\ n = Ended(a, why)
    OBVIOUS
<1>2. CallInv(c) /\ Fields(a)
    BY <1>1 DEF IInv, CallInv
<1>3. /\ Fields(n) /\ n.kind = a.kind /\ n.ask = a.ask /\ n.at = a.at /\ n.today = a.today
      /\ n.pc = "ended" /\ n.why = why /\ n.names = a.names /\ n.filters = a.filters
      /\ n.left = a.left /\ n.out = a.out /\ n.seen = a.seen /\ n.stale = a.stale
    <2>1. n = [a EXCEPT !.pc = "ended", !.why = why]
        BY <1>1 DEF Ended
    <2>2. QED
        BY ONLY <1>2, <2>1 DEF Fields
<1>4. calls'[c] = n
    BY <1>1, OneCall DEF IInv
<1>5. ASSUME a.kind \in Asking
      PROVE  QueryInv(c)'
    <2>1. QueryInv(c)
        BY <1>1, <1>2, <1>5 DEF CallInv
    <2>2. SeenInv(c)'
        <3>1. /\ calls'[c].seen = calls[c].seen /\ calls'[c].stale = calls[c].stale
              /\ calls'[c].today = calls[c].today /\ calls'[c].filters = calls[c].filters
            BY <1>1, <1>3, <1>4
        <3>2. SeenInv(c) /\ newest' = newest
            BY <2>1 DEF QueryInv
        <3>3. QED
            BY ONLY <3>1, <3>2 DEF SeenInv, Sound
    <2>3. IF n.kind = "query" THEN n.ask.names \subseteq DOMAIN Names ELSE n.ask.parent \in DOMAIN results'
        BY <1>1, <1>3, <2>1 DEF QueryInv
    <2>4. QED
        BY <1>1, <1>3, <1>4, <1>5, <2>2, <2>3 DEF QueryInv
<1>6. OutInv(c)'
    BY <1>1, <1>2, <1>3, <1>4 DEF CallInv, OutInv
<1>7. a.kind = "sql" => SqlInv(c)'
    BY <1>1, <1>2, <1>3, <1>4 DEF CallInv, SqlInv
<1>8. CallInv(c)'
    BY <1>1, <1>2, <1>3, <1>4, <1>5, <1>6, <1>7 DEF CallInv
<1>9. QED
    <2>1. n.kind = calls[c].kind /\ n.ask = calls[c].ask /\ n.at = calls[c].at /\ n.why # "rate"
        BY <1>1, <1>3
    <2>2. calls' = [calls EXCEPT ![c] = n]
        BY <1>1
    <2>3. QED
        BY <1>8, <2>1, <2>2, QuietStep


\* A statement is checked against a schema that is recent, or against what was known.
LEMMA CheckedHolds ==
    ASSUME IInv, NEW c \in DOMAIN calls, AtSchema(c), NEW known, NEW read,
           read = None \/ (read \in Int /\ now - read < SchemaTtl + CubeWait),
           calls' = [calls EXCEPT ![c] = Checked(calls[c], known, read)], now' = now
    PROVE  LET n == Checked(calls[c], known, read) IN
           /\ n.kind = calls[c].kind /\ n.ask = calls[c].ask /\ n.at = calls[c].at /\ n.why # "rate"
           /\ CallInv(c)'
<1>1. PICK a, b, n : /\ a = calls[c] /\ b = [a EXCEPT !.out = None, !.seen = [read |-> read, at |-> now]]
                     /\ n = Checked(a, known, read)
    OBVIOUS
<1>2. CallInv(c) /\ Fields(a) /\ a.kind = "sql" /\ a.pc = "gating" /\ a.why = None
    BY <1>1 DEF IInv, CallInv, AtSchema
<1>3. n = [b EXCEPT !.pc = "running"] \/ n = [b EXCEPT !.pc = "ended", !.why = "invalid"]
    BY <1>1 DEF Checked, Ended
<1>4. /\ Fields(n) /\ n.kind = a.kind /\ n.ask = a.ask /\ n.at = a.at /\ n.today = a.today
      /\ n.out = None /\ n.seen = [read |-> read, at |-> now] /\ n.stale = a.stale
      /\ n.pc \in {"running", "ended"} /\ n.why \in {None, "invalid"} /\ (n.pc # "ended" => n.why = None)
    <2>1. b = [a EXCEPT !.out = None, !.seen = [read |-> read, at |-> now]]
        BY <1>1
    <2>2. Fields(b) /\ b.kind = a.kind /\ b.ask = a.ask /\ b.at = a.at /\ b.today = a.today
          /\ b.out = None /\ b.seen = [read |-> read, at |-> now] /\ b.stale = a.stale /\ b.why = None
        BY ONLY <1>2, <2>1 DEF Fields
    <2>3. QED
        BY ONLY <1>3, <2>2 DEF Fields
<1>5. calls'[c] = n
    BY <1>1, OneCall DEF IInv
<1>6. SqlInv(c)'
    BY <1>4, <1>5 DEF SqlInv
<1>7. CallInv(c)'
    BY <1>1, <1>2, <1>4, <1>5, <1>6 DEF CallInv, OutInv, Asking, Shown
<1>8. n.why # "rate"
    BY <1>4, GatewayAssumption
<1>9. QED
    BY <1>1, <1>4, <1>7, <1>8

\* A cached schema was read at most a ttl and an answer of Cube ago.
LEMMA SchemaHitKeeps ==
    ASSUME IInv, NEW c \in DOMAIN calls, SchemaHit(c)
    PROVE  IInv'
<1>1. PICK known, read : known = schema.members /\ read = schema.read
    OBVIOUS
<1>2. /\ AtSchema(c) /\ schema # None /\ now - schema.at < SchemaTtl
      /\ calls' = [calls EXCEPT ![c] = Checked(calls[c], known, read)]
      /\ UNCHANGED <<now, newest, members, asks, cache, schema, results, times>>
    BY <1>1 DEF SchemaHit, SchemaFresh
<1>3. read \in Int /\ now - read < SchemaTtl + CubeWait
    <2>1. schema.at \in Int /\ schema.read \in Int /\ schema.at - schema.read =< CubeWait
        BY <1>2 DEF IInv, CacheInv
    <2>2. now \in Int /\ SchemaTtl \in Int /\ CubeWait \in Int
        BY GatewayAssumption DEF IInv, Typed
    <2>3. QED
        BY <1>1, <1>2, <2>1, <2>2
<1>4. calls[c].pc # "ended"
    BY <1>2 DEF AtSchema
<1>5. QED
    <2>1. LET n == Checked(calls[c], known, read) IN
          /\ n.kind = calls[c].kind /\ n.ask = calls[c].ask /\ n.at = calls[c].at /\ n.why # "rate"
          /\ CallInv(c)'
        BY <1>2, <1>3, CheckedHolds
    <2>2. PICK n : n = Checked(calls[c], known, read)
        OBVIOUS
    <2>3. /\ n.kind = calls[c].kind /\ n.ask = calls[c].ask /\ n.at = calls[c].at /\ n.why # "rate"
          /\ CallInv(c)' /\ calls' = [calls EXCEPT ![c] = n]
        BY <1>2, <2>1, <2>2
    <2>4. QED
        BY <1>2, <1>4, <2>3, QuietStep

\* A request for the schema has been out for no time.
LEMMA SchemaSentKeeps ==
    ASSUME IInv, NEW c \in DOMAIN calls, SchemaSent(c)
    PROVE  IInv'
<1>1. PICK a, out, n : /\ a = calls[c] /\ out = [since |-> now, members |-> members, was |-> schema]
                       /\ n = [a EXCEPT !.out = out]
    OBVIOUS
<1>2. /\ AtSchema(c) /\ UNCHANGED <<now, newest, members, asks, cache, schema, results, times>>
      /\ calls' = [calls EXCEPT ![c].out = out]
    BY <1>1 DEF SchemaSent
<1>3. calls' = [calls EXCEPT ![c] = n]
    BY <1>1, <1>2
<1>4. calls'[c] = n
    BY <1>3, OneCall DEF IInv
<1>5. CallInv(c) /\ Fields(a) /\ a.kind = "sql" /\ a.pc = "gating" /\ a.why = None
    BY <1>1, <1>2 DEF IInv, CallInv, AtSchema
<1>6. /\ Fields(n) /\ n.kind = a.kind /\ n.ask = a.ask /\ n.at = a.at /\ n.today = a.today /\ n.pc = a.pc
      /\ n.why = a.why /\ n.out = out /\ n.seen = a.seen /\ n.stale = a.stale
    BY ONLY <1>1, <1>5 DEF Fields
<1>7. OutInv(c)'
    <2>1. out.since = now /\ now \in Int /\ CubeWait \in Nat
        BY <1>1, GatewayAssumption DEF IInv, Typed
    <2>2. now' = now /\ n.kind \notin Asking
        BY <1>2, <1>5, <1>6 DEF Asking
    <2>3. QED
        BY <1>4, <1>6, <2>1, <2>2 DEF OutInv
<1>8. SqlInv(c)'
    BY <1>1, <1>4, <1>5, <1>6 DEF CallInv, SqlInv
<1>9. CallInv(c)' /\ n.why # "rate"
    BY <1>1, <1>4, <1>5, <1>6, <1>7, <1>8, GatewayAssumption DEF CallInv, Asking
<1>10. QED
    <2>1. n.kind = calls[c].kind /\ n.ask = calls[c].ask /\ n.at = calls[c].at /\ calls[c].pc # "ended"
        BY <1>1, <1>5, <1>6
    <2>2. QED
        BY <1>2, <1>3, <1>9, <2>1, QuietStep

\* A schema that comes back is of an instant since it was asked for.
LEMMA SchemaAnsweredKeeps ==
    ASSUME IInv, NEW c \in DOMAIN calls, SchemaAnswered(c)
    PROVE  IInv'
<1>1. PICK known \in {[members |-> calls[c].out.members, read |-> calls[c].out.since],
                      [members |-> members, read |-> now]} :
        /\ schema' = [members |-> known.members, read |-> known.read, at |-> now]
        /\ calls' = [calls EXCEPT ![c] = Checked(calls[c], known.members, known.read)]
    BY DEF SchemaAnswered
<1>2. AtSchema(c) /\ calls[c].out # None /\ UNCHANGED <<now, newest, members, asks, cache, results, times>>
    BY DEF SchemaAnswered
<1>3. CallInv(c) /\ calls[c].kind = "sql" /\ calls[c].pc = "gating" /\ calls[c].why = None
    BY <1>2 DEF IInv, CallInv, AtSchema
<1>4. now \in Int /\ SchemaTtl \in Nat \ {0} /\ CubeWait \in Nat
    BY GatewayAssumption DEF IInv, Typed
<1>5. known.read \in Int /\ now - known.read =< CubeWait
    BY <1>1, <1>2, <1>3, <1>4 DEF CallInv, OutInv
<1>6. now - known.read < SchemaTtl + CubeWait
    BY <1>4, <1>5
<1>7. LET n == Checked(calls[c], known.members, known.read) IN
      /\ n.kind = calls[c].kind /\ n.ask = calls[c].ask /\ n.at = calls[c].at /\ n.why # "rate"
      /\ CallInv(c)'
    BY <1>1, <1>2, <1>5, <1>6, CheckedHolds
<1>8. CacheInv'
    <2>1. schema'.at = now /\ schema'.read = known.read
        BY <1>1
    <2>2. QED
        BY <1>2, <1>4, <1>5, <2>1 DEF IInv, CacheInv, Sound
<1>9. ResultsInv'
    <2>1. c \notin DOMAIN results
        BY <1>3 DEF IInv, ResultsInv
    <2>2. DOMAIN calls' = DOMAIN calls /\ \A d \in DOMAIN calls \ {c} : calls'[d] = calls[d]
        BY <1>1, OneCall DEF IInv
    <2>3. QED
        BY <1>2, <2>1, <2>2 DEF IInv, ResultsInv
<1>10. calls[c].why # "rate"
    BY <1>3, GatewayAssumption
<1>11. QED
    BY <1>1, <1>2, <1>7, <1>8, <1>9, <1>10, StepOfOne

\* Where Cube fails, the old schema serves and no age is claimed of it.
LEMMA SchemaFailsKeeps ==
    ASSUME IInv, NEW c \in DOMAIN calls, SchemaFails(c)
    PROVE  IInv'
<1>1. PICK known : known = IF calls[c].out.was = None THEN {} ELSE calls[c].out.was.members
    OBVIOUS
<1>2. /\ AtSchema(c) /\ calls' = [calls EXCEPT ![c] = Checked(calls[c], known, None)]
      /\ UNCHANGED <<now, newest, members, asks, cache, schema, results, times>>
    BY <1>1 DEF SchemaFails
<1>3. calls[c].pc # "ended"
    BY <1>2 DEF AtSchema
<1>4. QED
    <2>1. LET n == Checked(calls[c], known, None) IN
          /\ n.kind = calls[c].kind /\ n.ask = calls[c].ask /\ n.at = calls[c].at /\ n.why # "rate"
          /\ CallInv(c)'
        BY <1>2, CheckedHolds
    <2>2. PICK n : n = Checked(calls[c], known, None)
        OBVIOUS
    <2>3. /\ n.kind = calls[c].kind /\ n.ask = calls[c].ask /\ n.at = calls[c].at /\ n.why # "rate"
          /\ CallInv(c)' /\ calls' = [calls EXCEPT ![c] = n]
        BY <1>2, <2>1, <2>2
    <2>4. QED
        BY <1>2, <1>3, <2>3, QuietStep

\* A step of a call keeps the invariant.
LEMMA CallStepKeeps ==
    ASSUME IInv, NEW c \in DOMAIN calls, CallStep(c)
    PROVE  IInv'
<1>1. CASE PlannerFails(c)
    <2>1. PICK why : why = "failed" /\ calls' = [calls EXCEPT ![c] = Ended(calls[c], why)]
        BY <1>1 DEF PlannerFails
    <2>2. why \notin {"rate"} /\ why # "answered" /\ calls[c].pc # "ended"
        BY <1>1, <2>1 DEF PlannerFails, Running
    <2>3. UNCHANGED <<now, newest, members, asks, cache, schema, results, times>>
        BY <1>1 DEF PlannerFails
    <2>4. QED
        BY <2>1, <2>2, <2>3, EndedKeeps
<1>2. CASE SqlRuns(c)
    <2>1. PICK why \in {"failed", "answered"} : calls' = [calls EXCEPT ![c] = Ended(calls[c], why)]
        BY <1>2 DEF SqlRuns
    <2>2. calls[c].kind \notin Asking /\ calls[c].pc # "ended"
        BY <1>2 DEF SqlRuns, Asking
    <2>3. UNCHANGED <<now, newest, members, asks, cache, schema, results, times>>
        BY <1>2 DEF SqlRuns
    <2>4. QED
        BY <2>1, <2>2, <2>3, EndedKeeps
<1>3. QED
    BY <1>1, <1>2, ProbeHitKeeps, ProbeSentKeeps, CubeReadsKeeps, ProbeAnsweredKeeps, ProbeFailedKeeps,
       PlannerAnswersKeeps, SchemaHitKeeps, SchemaSentKeeps, SchemaAnsweredKeeps, SchemaFailsKeeps DEF CallStep

-----------------------------------------------------------------------------
(* The clock and the pipelines                                             *)

\* Where the world turns and no call moves.
LEMMA WorldKeeps ==
    ASSUME IInv, Onwards, Typed', UNCHANGED <<asks, cache, schema, results, times, calls>>,
           \A c \in DOMAIN calls : calls[c].out # None => now' - calls[c].out.since =< CubeWait
    PROVE  IInv'
<1>1. \A c \in DOMAIN calls' : CallInv(c)'
    BY CallKept
<1>2. CacheInv'
    <2>1. ASSUME NEW s \in DOMAIN cache
          PROVE  Sound(s.view, s.filters, cache[s].day)'
        <3>1. PICK day : day = cache[s].day
            OBVIOUS
        <3>2. Sound(s.view, s.filters, day)'
            BY <3>1, SoundKept DEF IInv, CacheInv
        <3>3. QED
            BY <3>1, <3>2 DEF Sound
    <2>2. QED
        BY <2>1 DEF IInv, CacheInv
<1>3. ResultsInv'
    BY DEF IInv, ResultsInv
<1>4. \A c \in DOMAIN calls : Same(c) /\ calls[c].at \in Int
    BY DEF IInv, CallInv, Same
<1>5. TimesInv' /\ RateHeld'
    BY <1>4, RateKept DEF IInv, Onwards
<1>6. QED
    BY <1>1, <1>2, <1>3, <1>5 DEF IInv

\* Time passes while Cube owes nothing too long, and data only lands.
LEMMA WorldStepKeeps ==
    ASSUME IInv, Tick \/ (\E p \in Pipelines : Land(p)) \/ Release
    PROVE  IInv'
<1>1. /\ now \in Nat /\ Start \in Nat /\ Horizon \in Nat /\ CubeWait \in Nat /\ Day(Horizon) \in Nat
      /\ \A p \in Pipelines : newest[p] \in Int
    <2>1. Day(Horizon) \in Nat
        BY GatewayAssumption, DayType
    <2>2. Start \in Nat /\ Horizon \in Nat /\ CubeWait \in Nat
        BY GatewayAssumption
    <2>3. now \in Start .. Horizon /\ newest \in [Pipelines -> 0 .. Day(Horizon)]
        BY DEF IInv, Typed
    <2>4. \A p \in Pipelines : newest[p] \in Int
        BY <2>1, <2>3
    <2>5. QED
        BY <2>1, <2>2, <2>3, <2>4
<1>2. \A c \in DOMAIN calls : calls[c].out # None =>
        calls[c].out.since \in Int /\ now - calls[c].out.since =< CubeWait
    BY DEF IInv, CallInv, OutInv
<1>3. CASE Tick
    <2>1. Onwards
        BY <1>1, <1>3 DEF Tick, Onwards
    <2>2. Typed'
        BY <1>1, <1>3 DEF Tick, IInv, Typed
    <2>3. \A c \in DOMAIN calls : calls[c].out # None => now' - calls[c].out.since =< CubeWait
        BY <1>1, <1>2, <1>3 DEF Tick
    <2>4. QED
        BY <1>3, <2>1, <2>2, <2>3, WorldKeeps DEF Tick
<1>4. ASSUME NEW p \in Pipelines, Land(p)
      PROVE  IInv'
    <2>1. PICK day : day = Day(now)
        OBVIOUS
    <2>2. day \in Nat /\ day =< Day(Horizon)
        BY <1>1, <2>1, DayType, DayMonotonic DEF IInv, Typed
    <2>3. newest' = [newest EXCEPT ![p] = day] /\ newest[p] < day
        BY <1>4, <2>1 DEF Land
    <2>4. newest' \in [Pipelines -> 0 .. Day(Horizon)]
        BY <1>1, <2>2, <2>3 DEF IInv, Typed
    <2>5. Typed'
        BY <1>4, <2>4 DEF Land, IInv, Typed
    <2>6. \A q \in Pipelines : newest'[q] \in Int /\ newest[q] =< newest'[q]
        BY <1>1, <2>2, <2>3 DEF IInv, Typed
    <2>7. Onwards
        BY <1>1, <1>4, <2>6 DEF Land, Onwards
    <2>8. QED
        BY <1>2, <1>4, <2>5, <2>7, WorldKeeps DEF Land
<1>5. CASE Release
    <2>1. Onwards
        BY <1>1, <1>5 DEF Release, Onwards
    <2>2. Typed'
        BY <1>5 DEF Release, IInv, Typed
    <2>3. QED
        BY <1>2, <1>5, <2>1, <2>2, WorldKeeps DEF Release
<1>6. QED
    BY <1>3, <1>4, <1>5


-----------------------------------------------------------------------------
(* A call that is opened                                                   *)

\* The calls that were there keep their counts when one is opened.
LEMMA BeforeKept ==
    ASSUME Typed, NEW call, Opened(call), NEW c \in DOMAIN calls
    PROVE  /\ Before(c)' = Before(c)
           /\ {d \in Before(c) : calls[d].why # "rate"}' = {d \in Before(c) : calls[d].why # "rate"}
<1>1. /\ DOMAIN calls = 1 .. Len(calls) /\ Len(calls) \in Nat
      /\ \A d \in DOMAIN calls : calls'[d] = calls[d]
    BY OpenedAdds
<1>2. \A d \in 1 .. c - 1 : calls'[d] = calls[d]
    BY <1>1
<1>3. calls'[c] = calls[c]
    BY <1>1
<1>4. Before(c)' = Before(c) /\ Before(c) \subseteq 1 .. c - 1
    BY <1>2, <1>3 DEF Before
<1>5. QED
    BY <1>2, <1>4

\* What a call that is opened must show: its own record and the counts.
LEMMA OpenKeeps ==
    ASSUME IInv, NEW call, Opened(call), UNCHANGED <<now, newest, members, asks, cache, schema, results>>,
           NEW n, n = Len(calls) + 1, CallInv(n)', TimesInv', RateHeld'
    PROVE  IInv'
<1>1. /\ calls' \in Seq({calls'[i] : i \in DOMAIN calls'})
      /\ Len(calls) \in Nat /\ DOMAIN calls = 1 .. Len(calls) /\ DOMAIN calls' = 1 .. Len(calls) + 1
      /\ \A d \in DOMAIN calls : d \in DOMAIN calls' /\ calls'[d] = calls[d]
    BY OpenedAdds DEF IInv
<1>2. Onwards
    <2>1. Day(Horizon) \in Nat
        BY GatewayAssumption, DayType
    <2>2. now \in Int /\ \A p \in Pipelines : newest[p] \in Int
        BY <2>1, GatewayAssumption DEF IInv, Typed
    <2>3. QED
        BY <2>2 DEF Onwards
<1>3. ASSUME NEW d \in DOMAIN calls
      PROVE  CallInv(d)'
    <2>1. calls[d].out # None => now' - calls[d].out.since =< CubeWait
        BY DEF IInv, CallInv, OutInv
    <2>2. QED
        BY <1>1, <1>2, <2>1, CallKept
<1>4. \A d \in DOMAIN calls' : d \in DOMAIN calls \/ d = n
    BY <1>1
<1>5. \A d \in DOMAIN calls' : CallInv(d)'
    BY <1>3, <1>4
<1>6. CacheInv' /\ ResultsInv'
    BY <1>1 DEF IInv, CacheInv, ResultsInv, Sound
<1>7. Typed'
    BY <1>1 DEF IInv, Typed
<1>8. QED
    BY <1>5, <1>6, <1>7 DEF IInv

\* What RateHeld says of one call.
CountHeld(c) ==
    IF calls[c].kind \in Rated
    THEN IF calls[c].why = "rate" THEN Cardinality(Before(c)) >= LimitOf(calls[c].kind)
         ELSE Cardinality({d \in Before(c) : calls[d].why # "rate"}) < LimitOf(calls[c].kind)
    ELSE calls[c].why # "rate"

\* A call that is not rated leaves the counts alone.
LEMMA UnratedCounts ==
    ASSUME IInv, NEW call, Opened(call), call.kind \notin Rated, call.why # "rate", UNCHANGED <<now, times>>
    PROVE  TimesInv' /\ RateHeld'
<1>1. PICK n : n = Len(calls) + 1
    OBVIOUS
<1>2. /\ DOMAIN calls = 1 .. Len(calls) /\ DOMAIN calls' = 1 .. Len(calls) + 1 /\ Len(calls) \in Nat
      /\ calls'[n] = call /\ \A d \in DOMAIN calls : d \in DOMAIN calls' /\ calls'[d] = calls[d]
    BY <1>1, OpenedAdds DEF IInv
<1>3. \A d \in DOMAIN calls' : d \in DOMAIN calls \/ d = n
    BY <1>1, <1>2
<1>4. TimesInv'
    <2>1. ASSUME NEW key \in DOMAIN times
          PROVE  times[key] \subseteq {d \in DOMAIN calls' : calls'[d].kind \in Rated /\ calls'[d].ask.key = key}
        BY <1>2 DEF IInv, TimesInv
    <2>2. ASSUME NEW d \in DOMAIN calls', calls'[d].kind \in Rated
          PROVE  /\ calls'[d].ask.key \in DOMAIN times
                 /\ d \in times[calls'[d].ask.key] \/ now - calls'[d].at >= RateWindow
        <3>1. d \in DOMAIN calls /\ calls'[d] = calls[d]
            BY <1>2, <1>3, <2>2
        <3>2. QED
            BY <2>2, <3>1 DEF IInv, TimesInv
    <2>3. QED
        BY <2>1, <2>2 DEF TimesInv
<1>5. RateHeld'
    <2>1. ASSUME NEW c \in DOMAIN calls'
          PROVE  CountHeld(c)'
        <3>1. ASSUME c \in DOMAIN calls
              PROVE  /\ calls'[c] = calls[c] /\ Before(c)' = Before(c)
                     /\ {d \in Before(c) : calls[d].why # "rate"}' = {d \in Before(c) : calls[d].why # "rate"}
            BY <1>2, <3>1, BeforeKept DEF IInv
        <3>2. c \in DOMAIN calls \/ c = n
            BY <1>3
        <3>3. c \in DOMAIN calls => CountHeld(c)'
            BY <3>1 DEF IInv, RateHeld, CountHeld
        <3>4. QED
            BY <1>2, <3>2, <3>3 DEF CountHeld
    <2>2. QED
        BY <2>1 DEF RateHeld, CountHeld
<1>6. QED
    BY <1>4, <1>5

\* A call that is rated is counted, and judged by the calls of its key in the window.
LEMMA RatedCounts ==
    ASSUME IInv, NEW call, Opened(call), call.kind \in Rated, call.at = now, Counted(call.ask.key),
           call.why = "rate" <=> TooMany(call.ask.key, LimitOf(call.kind)), UNCHANGED now
    PROVE  TimesInv' /\ RateHeld'
<1>1. PICK n, key, kept : n = Len(calls) + 1 /\ key = call.ask.key /\ kept = TimesOf(key)
    OBVIOUS
<1>2. /\ DOMAIN calls = 1 .. Len(calls) /\ DOMAIN calls' = 1 .. n /\ Len(calls) \in Nat
      /\ calls'[n] = call /\ \A d \in DOMAIN calls : d \in DOMAIN calls' /\ calls'[d] = calls[d]
    BY <1>1, OpenedAdds DEF IInv
<1>3. n \in DOMAIN calls' /\ \A d \in DOMAIN calls' : d \in DOMAIN calls \/ d = n
    BY <1>1, <1>2
<1>4. /\ DOMAIN times' = DOMAIN times \cup {key} /\ times'[key] = kept \cup {n}
      /\ \A k \in DOMAIN times : k # key => times'[k] = times[k]
    BY <1>1 DEF Counted, Put
<1>5. now \in Int /\ RateWindow \in Nat /\ LimitOf(call.kind) \in Nat /\ \A d \in DOMAIN calls : calls[d].at \in Int
    BY GatewayAssumption DEF IInv, Typed, CallInv, LimitOf
<1>6. \A d \in DOMAIN calls : d \in kept <=>
          calls[d].kind \in Rated /\ calls[d].ask.key = key /\ now - calls[d].at < RateWindow
    BY <1>1, <1>5 DEF TimesOf, IInv, TimesInv
<1>7. kept \subseteq DOMAIN calls
    BY <1>1 DEF TimesOf, IInv, TimesInv
<1>8. TimesInv'
    <2>1. ASSUME NEW k \in DOMAIN times'
          PROVE  times'[k] \subseteq {d \in DOMAIN calls' : calls'[d].kind \in Rated /\ calls'[d].ask.key = k}
        <3>1. CASE k = key
            BY <1>1, <1>2, <1>3, <1>4, <1>6, <1>7, <3>1
        <3>2. CASE k # key
            <4>1. k \in DOMAIN times /\ times'[k] = times[k]
                BY <1>4, <3>2
            <4>2. QED
                BY <1>2, <4>1 DEF IInv, TimesInv
        <3>3. QED
            BY <3>1, <3>2
    <2>2. ASSUME NEW d \in DOMAIN calls', calls'[d].kind \in Rated
          PROVE  /\ calls'[d].ask.key \in DOMAIN times'
                 /\ d \in times'[calls'[d].ask.key] \/ now' - calls'[d].at >= RateWindow
        <3>1. CASE d = n
            BY <1>1, <1>2, <1>4, <3>1
        <3>2. CASE d # n /\ calls'[d].ask.key = key
            <4>1. d \in DOMAIN calls /\ calls'[d] = calls[d]
                BY <1>2, <1>3, <3>2
            <4>2. d \in kept \/ ~(now - calls[d].at < RateWindow)
                BY <1>6, <2>2, <3>2, <4>1
            <4>3. QED
                BY <1>4, <1>5, <3>2, <4>1, <4>2
        <3>3. CASE d # n /\ calls'[d].ask.key # key
            <4>1. d \in DOMAIN calls /\ calls'[d] = calls[d]
                BY <1>2, <1>3, <3>3
            <4>2. QED
                BY <1>4, <2>2, <3>3, <4>1 DEF IInv, TimesInv
        <3>4. QED
            BY <3>1, <3>2, <3>3
    <2>3. QED
        BY <2>1, <2>2 DEF TimesInv
<1>9. Before(n)' = kept
    <2>1. 1 .. n - 1 = DOMAIN calls
        BY <1>1, <1>2
    <2>2. Before(n)' = {d \in 1 .. n - 1 : /\ calls'[d].kind \in Rated /\ calls'[d].ask.key = calls'[n].ask.key
                                           /\ calls'[n].at - calls'[d].at < RateWindow}
        BY DEF Before
    <2>3. Before(n)' = {d \in DOMAIN calls : /\ calls[d].kind \in Rated /\ calls[d].ask.key = key
                                             /\ now - calls[d].at < RateWindow}
        BY <1>1, <1>2, <2>1, <2>2
    <2>4. QED
        BY <1>6, <1>7, <2>3
<1>10. CountHeld(n)'
    <2>1. call.why = "rate" <=> Cardinality(kept) >= LimitOf(call.kind)
        BY <1>1 DEF TooMany
    <2>2. IsFiniteSet(kept)
        <3>1. IsFiniteSet(1 .. Len(calls))
            BY <1>2, FS_Interval
        <3>2. QED
            BY <1>2, <1>7, <3>1, FS_Subset
    <2>3. PICK some : some = {d \in Before(n) : calls[d].why # "rate"}'
        OBVIOUS
    <2>4. some \subseteq kept
        BY <1>9, <2>3
    <2>5. Cardinality(some) =< Cardinality(kept) /\ Cardinality(some) \in Nat /\ Cardinality(kept) \in Nat
        BY <2>2, <2>4, FS_Subset, FS_CardinalityType
    <2>6. QED
        BY <1>2, <1>5, <1>9, <2>1, <2>3, <2>5 DEF CountHeld
<1>11. RateHeld'
    <2>1. ASSUME NEW c \in DOMAIN calls'
          PROVE  CountHeld(c)'
        <3>1. CASE c = n
            BY <1>10, <3>1
        <3>2. CASE c # n
            <4>1. c \in DOMAIN calls /\ calls'[c] = calls[c]
                BY <1>2, <1>3, <3>2
            <4>2. /\ Before(c)' = Before(c)
                  /\ {d \in Before(c) : calls[d].why # "rate"}' = {d \in Before(c) : calls[d].why # "rate"}
                BY <4>1, BeforeKept DEF IInv
            <4>3. QED
                BY <4>1, <4>2 DEF IInv, RateHeld, CountHeld
        <3>3. QED
            BY <3>1, <3>2
    <2>2. QED
        BY <2>1 DEF RateHeld, CountHeld
<1>12. QED
    BY <1>8, <1>11


\* A call passes the gate with what it asks, or ends there.
LEMMA GateLeads ==
    ASSUME NEW call, Fields(call), call.pc = "gating", call.why = None, NEW names, NEW filters, NEW mod,
           NEW n, n = Gate(call, names, filters, mod)
    PROVE  /\ Fields(n) /\ n.kind = call.kind /\ n.ask = call.ask /\ n.at = call.at /\ n.today = call.today
           /\ n.out = call.out /\ n.seen = call.seen /\ n.stale = call.stale
           /\ n.pc \in {"gating", "running", "ended"} /\ n.why \in {None, "scope", "module", "stale"}
           /\ n.why = "stale" => n.stale # {}
           /\ n.pc # "ended" =>
                /\ n.why = None /\ n.names = names /\ n.filters = filters /\ n.left = ToAsk(names)
                /\ ~ScopeDenied(names) /\ ~ModuleRefused(mod) /\ ~ModuleDenied(names, mod)
           /\ n.pc = "gating" => n.left # <<>>
           /\ n.pc = "running" => n.left = <<>>
<1>1. ASSUME NEW why \in {"scope", "module"}, n = Ended(call, why)
      PROVE  /\ Fields(n) /\ n.kind = call.kind /\ n.ask = call.ask /\ n.at = call.at /\ n.today = call.today
             /\ n.out = call.out /\ n.seen = call.seen /\ n.stale = call.stale /\ n.pc = "ended" /\ n.why = why
    <2>1. n = [call EXCEPT !.pc = "ended", !.why = why]
        BY <1>1 DEF Ended
    <2>2. QED
        BY ONLY Fields(call), <2>1 DEF Fields
<1>2. CASE ScopeDenied(names)
    <2>1. n = Ended(call, "scope")
        BY <1>2 DEF Gate
    <2>2. QED
        BY <1>1, <2>1
<1>3. CASE ~ScopeDenied(names) /\ (ModuleRefused(mod) \/ ModuleDenied(names, mod))
    <2>1. n = Ended(call, "module")
        BY <1>3 DEF Gate
    <2>2. QED
        BY <1>1, <2>1
<1>4. CASE ~ScopeDenied(names) /\ ~ModuleRefused(mod) /\ ~ModuleDenied(names, mod)
    <2>1. PICK b : b = [call EXCEPT !.names = names, !.filters = filters, !.left = ToAsk(names)]
        OBVIOUS
    <2>2. n = Onward(b)
        BY <1>4, <2>1 DEF Gate
    <2>3. /\ Fields(b) /\ b.pc = "gating" /\ b.why = None /\ b.kind = call.kind /\ b.ask = call.ask
          /\ b.at = call.at /\ b.today = call.today /\ b.names = names /\ b.filters = filters
          /\ b.left = ToAsk(names) /\ b.out = call.out /\ b.seen = call.seen /\ b.stale = call.stale
        <3>1. Fields(call) /\ call.pc = "gating" /\ call.why = None
            OBVIOUS
        <3>2. QED
            BY ONLY <2>1, <3>1 DEF Fields
    <2>4. /\ Fields(n) /\ n.kind = b.kind /\ n.ask = b.ask /\ n.at = b.at /\ n.today = b.today
          /\ n.names = b.names /\ n.filters = b.filters /\ n.left = b.left /\ n.out = b.out
          /\ n.seen = b.seen /\ n.stale = b.stale
          /\ n.pc \in {"gating", "running", "ended"} /\ n.why \in {None, "stale"}
          /\ n.pc # "ended" => n.why = None
          /\ n.why = "stale" => n.stale # {}
          /\ n.pc = "gating" => n.left # <<>>
          /\ n.pc = "running" => n.left = <<>> /\ n.stale = {}
        BY <2>2, <2>3, OnwardLeads
    <2>5. QED
        BY <1>4, <2>3, <2>4
<1>5. QED
    BY <1>2, <1>3, <1>4

\* A query or a drill that is opened at the gate.
LEMMA GateOpens ==
    ASSUME IInv, NEW call, Fields(call), call.pc = "gating", call.why = None, call.kind \in Asking,
           call.at = now, call.today \in Int, call.out = None, call.seen = <<>>, call.stale = {},
           NEW names, names \subseteq DOMAIN Names, NEW filters,
           NEW new, new = Gate(call, names, filters, call.ask.module), Opened(new),
           call.kind = "query" => call.ask.names = names /\ call.ask.filters = filters,
           call.kind # "query" =>
               /\ call.ask.parent \in DOMAIN results /\ names = results[call.ask.parent].names
               /\ filters = results[call.ask.parent].filters \o call.ask.filters,
           UNCHANGED <<now, newest, members, asks, cache, schema, results, times>>
    PROVE  IInv'
<1>1. /\ Fields(new) /\ new.kind = call.kind /\ new.ask = call.ask /\ new.at = call.at /\ new.today = call.today
      /\ new.out = None /\ new.seen = <<>> /\ new.stale = {}
      /\ new.pc \in {"gating", "running", "ended"} /\ new.why \in {None, "scope", "module"}
      /\ new.pc # "ended" =>
            /\ new.why = None /\ new.names = names /\ new.filters = filters /\ new.left = ToAsk(names)
            /\ ~ScopeDenied(names) /\ ~ModuleRefused(call.ask.module) /\ ~ModuleDenied(names, call.ask.module)
      /\ new.pc = "gating" => new.left # <<>>
      /\ new.pc = "running" => new.left = <<>>
    <2>1. PICK mod : mod = call.ask.module
        OBVIOUS
    <2>2. new = Gate(call, names, filters, mod)
        BY <2>1
    <2>3. /\ Fields(new) /\ new.kind = call.kind /\ new.ask = call.ask /\ new.at = call.at /\ new.today = call.today
          /\ new.out = call.out /\ new.seen = call.seen /\ new.stale = call.stale
          /\ new.pc \in {"gating", "running", "ended"} /\ new.why \in {None, "scope", "module", "stale"}
          /\ new.why = "stale" => new.stale # {}
          /\ new.pc # "ended" =>
                /\ new.why = None /\ new.names = names /\ new.filters = filters /\ new.left = ToAsk(names)
                /\ ~ScopeDenied(names) /\ ~ModuleRefused(mod) /\ ~ModuleDenied(names, mod)
          /\ new.pc = "gating" => new.left # <<>>
          /\ new.pc = "running" => new.left = <<>>
        BY <2>2, GateLeads
    <2>4. QED
        BY <2>1, <2>3
<1>2. PICK n : n = Len(calls) + 1
    OBVIOUS
<1>3. calls'[n] = new
    BY <1>2, OpenedAdds DEF IInv
<1>4. new.why \notin {"answered", "rate", "stale"}
    BY <1>1, GatewayAssumption
<1>5. IF new.kind = "query" THEN new.ask.names \subseteq DOMAIN Names ELSE new.ask.parent \in DOMAIN results'
    BY <1>1
<1>6. SeenInv(n)'
    <2>1. DOMAIN new.seen = {} /\ new.stale = {}
        BY <1>1
    <2>2. QED
        BY <1>3, <2>1 DEF SeenInv
<1>7. ASSUME new.pc # "ended"
      PROVE  Passed(n)'
    <2>1. RowsOf(n)'.names = names /\ RowsOf(n)'.filters = filters
        BY <1>1, <1>3 DEF RowsOf
    <2>2. Rights(new)
        BY <1>1, <1>7 DEF Rights
    <2>3. QED
        BY <1>1, <1>3, <1>7, <2>1, <2>2 DEF Passed, Rights
<1>8. /\ ToAsk(names) \in Seq(GatedViews) /\ LineNew(ToAsk(names), <<>>)
      /\ \A v \in Needed(names) : \E i \in 1 .. Len(ToAsk(names)) : ToAsk(names)[i] = v
    BY LineCovers
<1>9. new.pc = "running" => Needed(names) = {}
    <2>1. ASSUME new.pc = "running"
          PROVE  1 .. Len(ToAsk(names)) = {}
        <3>1. ToAsk(names) = <<>>
            BY <1>1, <2>1
        <3>2. Len(<<>>) = 0 /\ 1 .. 0 = {}
            OBVIOUS
        <3>3. QED
            BY <3>1, <3>2
    <2>2. QED
        BY <1>8, <2>1
<1>10. QueryInv(n)'
    <2>1. new.pc = "gating" =>
            /\ Passed(n)' /\ new.left \in Seq(GatedViews) /\ new.left # <<>> /\ LineNew(new.left, new.seen)
            /\ \A v \in Needed(new.names) : v \in DOMAIN new.seen \/ \E i \in 1 .. Len(new.left) : new.left[i] = v
        BY <1>1, <1>7, <1>8
    <2>2. new.pc = "running" => Passed(n)' /\ new.stale = {} /\ Needed(new.names) \subseteq DOMAIN new.seen
        BY <1>1, <1>7, <1>9
    <2>3. QED
        BY <1>3, <1>4, <1>5, <1>6, <2>1, <2>2 DEF QueryInv
<1>11. CallInv(n)'
    <2>1. now \in Int
        BY GatewayAssumption DEF IInv, Typed
    <2>2. QED
        BY <1>1, <1>3, <1>10, <2>1 DEF CallInv, OutInv, Asking, Shown
<1>12. TimesInv' /\ RateHeld'
    <2>1. new.kind \notin Rated /\ new.why # "rate"
        BY <1>1, <1>4 DEF Asking, Rated
    <2>2. QED
        BY <2>1, UnratedCounts
<1>13. QED
    BY <1>2, <1>11, <1>12, OpenKeeps

\* A call as it is opened.
LEMMA BlankIs ==
    ASSUME IInv, NEW kind, NEW ask, NEW call, call = Blank(kind, ask)
    PROVE  /\ Fields(call) /\ call.kind = kind /\ call.ask = ask /\ call.at = now /\ call.pc = "gating"
           /\ call.why = None /\ call.today \in Int /\ call.out = None /\ call.seen = <<>> /\ call.stale = {}
<1>1. now \in Nat
    BY GatewayAssumption DEF IInv, Typed
<1>2. PICK t, day : t = now /\ day = Day(now) /\ day \in Nat
    BY <1>1, DayType
<1>3. call = [kind |-> kind, ask |-> ask, at |-> t, pc |-> "gating", why |-> None, names |-> {}, filters |-> <<>>,
              left |-> <<>>, today |-> day, out |-> None, seen |-> <<>>, stale |-> {}]
    BY <1>2 DEF Blank
<1>4. /\ Fields(call) /\ call.kind = kind /\ call.ask = ask /\ call.at = t /\ call.pc = "gating"
      /\ call.why = None /\ call.today = day /\ call.out = None /\ call.seen = <<>> /\ call.stale = {}
    BY ONLY <1>3 DEF Fields
<1>5. QED
    BY <1>2, <1>4


\* A query is put to the gate with what it will run (metrics_query).
LEMMA QueryKeeps ==
    ASSUME IInv, NEW ask \in asks.asks, ask.kind = "query", Query(ask)
    PROVE  IInv'
<1>1. PICK call, new : call = Blank("query", ask) /\ new = Gate(call, ask.names, ask.filters, ask.module)
    OBVIOUS
<1>2. /\ Fields(call) /\ call.kind = "query" /\ call.ask = ask /\ call.at = now /\ call.pc = "gating"
      /\ call.why = None /\ call.today \in Int /\ call.out = None /\ call.seen = <<>> /\ call.stale = {}
    BY <1>1, BlankIs
<1>3. Opened(new) /\ UNCHANGED <<now, newest, members, asks, cache, schema, results, times>>
    BY <1>1 DEF Query
<1>4. ask.names \subseteq DOMAIN Names
    BY GatewayAssumption DEF IInv, Typed
<1>5. PICK names, filters : names = ask.names /\ filters = ask.filters
    OBVIOUS
<1>6. new = Gate(call, names, filters, call.ask.module)
    BY <1>1, <1>2, <1>5
<1>7. QED
    BY <1>2, <1>3, <1>4, <1>5, <1>6, GateOpens DEF Asking

\* A drill-down is put to the gate with what its parent ran, if it is still there (metrics_drilldown).
LEMMA DrillKeeps ==
    ASSUME IInv, NEW ask \in asks.asks, ask.kind = "drill", NEW parent \in DOMAIN results, Drill(ask, parent)
    PROVE  IInv'
<1>1. PICK asked, call : asked = [ask EXCEPT !.parent = parent] /\ call = Blank("drill", asked)
    OBVIOUS
<1>2. asked.parent = parent /\ asked.module = ask.module /\ asked.filters = ask.filters
    BY <1>1, GatewayAssumption DEF IInv, Typed
<1>3. /\ Fields(call) /\ call.kind = "drill" /\ call.ask = asked /\ call.at = now /\ call.pc = "gating"
      /\ call.why = None /\ call.today \in Int /\ call.out = None /\ call.seen = <<>> /\ call.stale = {}
    BY <1>1, BlankIs
<1>4. PICK names, filters : names = results[parent].names /\ filters = results[parent].filters \o asked.filters
    OBVIOUS
<1>5. PICK new : new = IF ModuleRefused(ask.module) THEN Ended(call, "module")
                       ELSE IF Alive(parent) THEN Gate(call, names, filters, ask.module)
                       ELSE [call EXCEPT !.pc = "running"]
    OBVIOUS
<1>6. Opened(new) /\ UNCHANGED <<now, newest, members, asks, cache, schema, results, times>>
    BY <1>1, <1>2, <1>4, <1>5 DEF Drill
<1>7. names \subseteq DOMAIN Names
    BY <1>4 DEF IInv, ResultsInv
<1>8. CASE new = Gate(call, names, filters, ask.module)
    <2>1. new = Gate(call, names, filters, call.ask.module)
        BY <1>2, <1>3, <1>8
    <2>2. call.ask.parent \in DOMAIN results /\ names = results[call.ask.parent].names
          /\ filters = results[call.ask.parent].filters \o call.ask.filters
        BY <1>2, <1>3, <1>4
    <2>3. QED
        BY <1>3, <1>6, <1>7, <2>1, <2>2, GateOpens DEF Asking
<1>9. ASSUME new = Ended(call, "module") \/ (new = [call EXCEPT !.pc = "running"] /\ ~Alive(parent))
      PROVE  IInv'
    <2>1. /\ Fields(new) /\ new.kind = "drill" /\ new.ask = asked /\ new.at = call.at /\ new.today = call.today
          /\ new.out = None /\ new.seen = <<>> /\ new.stale = {}
          /\ new.pc \in {"running", "ended"} /\ new.why \in {None, "module"} /\ (new.pc # "ended" => new.why = None)
          /\ new.pc = "running" => ~Alive(parent)
        <3>1. new = [call EXCEPT !.pc = "ended", !.why = "module"] \/ (new = [call EXCEPT !.pc = "running"] /\ ~Alive(parent))
            BY <1>9 DEF Ended
        <3>2. QED
            BY ONLY <1>3, <3>1 DEF Fields
    <2>2. PICK n : n = Len(calls) + 1
        OBVIOUS
    <2>3. calls'[n] = new
        BY <1>6, <2>2, OpenedAdds DEF IInv
    <2>4. new.why \notin {"answered", "rate", "stale"}
        BY <2>1, GatewayAssumption
    <2>5. SeenInv(n)'
        <3>1. DOMAIN new.seen = {} /\ new.stale = {}
            BY <2>1
        <3>2. QED
            BY <2>3, <3>1 DEF SeenInv
    <2>6. new.pc = "running" => Parentless(n)'
        BY <1>2, <1>6, <2>1, <2>3 DEF Parentless, Alive
    <2>7. QueryInv(n)'
        BY <1>2, <1>6, <2>1, <2>3, <2>4, <2>5, <2>6 DEF QueryInv
    <2>8. CallInv(n)'
        <3>1. now \in Int
            BY GatewayAssumption DEF IInv, Typed
        <3>2. QED
            BY <1>3, <2>1, <2>3, <2>7, <3>1 DEF CallInv, OutInv, Asking, Shown
    <2>9. TimesInv' /\ RateHeld'
        BY <1>6, <2>1, <2>4, UnratedCounts DEF Rated
    <2>10. QED
        BY <1>6, <2>2, <2>8, <2>9, OpenKeeps
<1>10. QED
    BY <1>5, <1>8, <1>9

\* A statement or a listing, counted or not, whatever becomes of it.
LEMMA ShownOpens ==
    ASSUME IInv, NEW kind \in Shown, NEW ask, NEW call, call = Blank(kind, ask),
           NEW new, new = call \/ (\E why : new = Ended(call, why)), kind = "list" => new # call,
           IF kind \in Rated THEN Counted(ask.key) /\ (new.why = "rate" <=> TooMany(ask.key, LimitOf(kind)))
                             ELSE times' = times /\ new.why # "rate",
           Opened(new), UNCHANGED <<now, newest, members, asks, cache, schema, results>>
    PROVE  IInv'
<1>1. /\ Fields(call) /\ call.kind = kind /\ call.ask = ask /\ call.at = now /\ call.pc = "gating"
      /\ call.why = None /\ call.today \in Int /\ call.out = None /\ call.seen = <<>> /\ call.stale = {}
    BY BlankIs
<1>2. /\ Fields(new) /\ new.kind = kind /\ new.ask = ask /\ new.at = call.at /\ new.today = call.today
      /\ new.out = None /\ new.seen = <<>> /\ new.stale = {}
      /\ new.pc \in {"gating", "ended"} /\ (new.pc # "ended" => new.why = None) /\ (kind = "list" => new.pc = "ended")
    <2>1. CASE new = call
        BY <1>1, <2>1
    <2>2. ASSUME NEW why, new = Ended(call, why)
          PROVE  /\ Fields(new) /\ new.kind = kind /\ new.ask = ask /\ new.at = call.at /\ new.today = call.today
                 /\ new.out = None /\ new.seen = <<>> /\ new.stale = {} /\ new.pc = "ended"
        <3>1. new = [call EXCEPT !.pc = "ended", !.why = why]
            BY <2>2 DEF Ended
        <3>2. QED
            BY ONLY <1>1, <3>1 DEF Fields
    <2>3. QED
        BY <2>1, <2>2
<1>3. PICK n : n = Len(calls) + 1
    OBVIOUS
<1>4. calls'[n] = new
    BY <1>3, OpenedAdds DEF IInv
<1>5. SqlInv(n)'
    BY <1>2, <1>4 DEF SqlInv
<1>6. CallInv(n)'
    <2>1. now \in Int
        BY GatewayAssumption DEF IInv, Typed
    <2>2. QED
        BY <1>1, <1>2, <1>4, <1>5, <2>1 DEF CallInv, OutInv, Asking, Shown
<1>7. TimesInv' /\ RateHeld'
    <2>1. CASE kind \in Rated
        <3>1. /\ new.kind \in Rated /\ new.at = now /\ Counted(new.ask.key)
              /\ new.why = "rate" <=> TooMany(new.ask.key, LimitOf(new.kind))
            BY <1>1, <1>2, <2>1
        <3>2. QED
            BY <3>1, RatedCounts
    <2>2. CASE kind \notin Rated
        BY <1>2, <2>2, UnratedCounts
    <2>3. QED
        BY <2>1, <2>2
<1>8. QED
    BY <1>3, <1>6, <1>7, OpenKeeps

\* A statement is counted before it is looked at (semantic_sql).
LEMMA SqlKeeps ==
    ASSUME IInv, NEW ask, Sql(ask)
    PROVE  IInv'
<1>1. PICK call, new : /\ call = Blank("sql", ask)
                       /\ new = IF TooMany(ask.key, SqlLimit) THEN Ended(call, "rate") ELSE call
    OBVIOUS
<1>2. /\ Counted(ask.key) /\ Opened(new) /\ UNCHANGED <<now, newest, members, asks, cache, schema, results>>
    BY <1>1 DEF Sql
<1>3. Fields(call) /\ call.why = None
    BY <1>1, BlankIs
<1>4. new = call \/ (\E why : new = Ended(call, why))
    BY <1>1
<1>5. new.why = "rate" <=> TooMany(ask.key, SqlLimit)
    <2>1. CASE TooMany(ask.key, SqlLimit)
        <3>1. new = [call EXCEPT !.pc = "ended", !.why = "rate"]
            BY <1>1, <2>1 DEF Ended
        <3>2. new.why = "rate"
            BY ONLY <1>3, <3>1 DEF Fields
        <3>3. QED
            BY <2>1, <3>2
    <2>2. CASE ~TooMany(ask.key, SqlLimit)
        BY <1>1, <1>3, <2>2, GatewayAssumption
    <2>3. QED
        BY <2>1, <2>2
<1>6. QED
    BY <1>1, <1>2, <1>4, <1>5, ShownOpens DEF Shown, Rated, LimitOf

\* A listing is counted, and ends at once (catalogue_list_metrics).
LEMMA ListMetricsKeeps ==
    ASSUME IInv, NEW ask, ListMetrics(ask)
    PROVE  IInv'
<1>1. PICK call, refused, why, new :
        /\ call = Blank("list", ask) /\ refused = (ListLimit > 0 /\ TooMany(ask.key, ListLimit))
        /\ why = IF refused THEN "rate" ELSE IF ModuleRefused(ask.module) THEN "module" ELSE "answered"
        /\ new = Ended(call, why)
    OBVIOUS
<1>2. /\ IF ListLimit > 0 THEN Counted(ask.key) ELSE times' = times
      /\ Opened(new) /\ UNCHANGED <<now, newest, members, asks, cache, schema, results>>
    BY <1>1 DEF ListMetrics
<1>3. Fields(call) /\ call.pc = "gating"
    BY <1>1, BlankIs
<1>4. new.why = why /\ new.pc = "ended"
    <2>1. new = [call EXCEPT !.pc = "ended", !.why = why]
        BY <1>1 DEF Ended
    <2>2. QED
        BY ONLY <1>3, <2>1 DEF Fields
<1>5. new.why = "rate" <=> refused
    BY <1>1, <1>4
<1>6. new # call /\ (\E w : new = Ended(call, w))
    BY <1>1, <1>3, <1>4
<1>7. "list" \in Rated <=> ListLimit > 0
    BY DEF Rated
<1>8. LimitOf("list") = ListLimit
    BY DEF LimitOf
<1>9. IF "list" \in Rated THEN Counted(ask.key) /\ (new.why = "rate" <=> TooMany(ask.key, LimitOf("list")))
                          ELSE times' = times /\ new.why # "rate"
    BY <1>1, <1>2, <1>5, <1>7, <1>8
<1>10. QED
    BY <1>1, <1>2, <1>6, <1>9, ShownOpens DEF Shown

\* The invariant holds at first: nothing is asked, cached, stored or counted.
LEMMA InitHolds ==
    ASSUME Init
    PROVE  IInv
<1>1. calls = <<>> /\ DOMAIN calls = {} /\ DOMAIN cache = {} /\ DOMAIN results = {} /\ DOMAIN times = {} /\ schema = None
    BY DEF Init
<1>2. PICK first, last : first = Day(Start) /\ last = Day(Horizon) /\ first \in 2 .. last /\ last \in Nat
    <2>1. /\ TicksPerDay \in Nat \ {0} /\ Start \in Nat /\ Horizon \in Nat /\ 2 * TicksPerDay =< Start /\ Start =< Horizon
        BY GatewayAssumption
    <2>2. Day(Start) \in Nat /\ Day(Horizon) \in Nat /\ Day(Start) =< Day(Horizon)
        BY <2>1, DayType, DayMonotonic
    <2>3. 2 =< Day(Start)
        <3>1. PICK t \in Nat \ {0} : t = TicksPerDay
            BY <2>1
        <3>2. 2 * t \in Nat /\ Day(2 * t) =< Day(Start)
            BY <2>1, <3>1, DayMonotonic
        <3>3. (2 * t) \div t = 2
            BY <3>1, Z3
        <3>4. QED
            BY <3>1, <3>2, <3>3 DEF Day
    <2>4. QED
        BY <2>2, <2>3
<1>3. Typed
    <2>1. newest \in [Pipelines -> {first, first - 2}]
        BY <1>2 DEF Init
    <2>2. newest \in [Pipelines -> 0 .. last]
        BY <1>2, <2>1
    <2>3. members \subseteq Members
        BY DEF Init
    <2>4. calls \in Seq({calls[i] : i \in DOMAIN calls})
        BY <1>1
    <2>5. now \in Start .. Horizon /\ asks \in Workloads
        BY GatewayAssumption DEF Init
    <2>6. QED
        BY <1>2, <2>2, <2>3, <2>4, <2>5 DEF Typed
<1>4. CacheInv /\ ResultsInv /\ TimesInv /\ RateHeld
    BY <1>1 DEF CacheInv, ResultsInv, TimesInv, RateHeld
<1>5. \A c \in DOMAIN calls : CallInv(c)
    BY <1>1
<1>6. QED
    BY <1>3, <1>4, <1>5 DEF IInv


-----------------------------------------------------------------------------
(* The theorems                                                            *)

\* Every step keeps the invariant.
LEMMA StepKeeps ==
    ASSUME IInv, [Next]_vars
    PROVE  IInv'
<1>1. CASE UNCHANGED vars
    <2>1. UNCHANGED <<now, newest, members, asks, cache, schema, results, times, calls>>
        BY <1>1 DEF vars
    <2>2. \A p \in Pipelines : newest[p] \in Int
        <3>1. Day(Horizon) \in Nat
            BY GatewayAssumption, DayType
        <3>2. QED
            BY <3>1 DEF IInv, Typed
    <2>3. Onwards
        BY <2>1, <2>2, GatewayAssumption DEF Onwards, IInv, Typed
    <2>4. Typed'
        BY <2>1 DEF IInv, Typed
    <2>5. \A c \in DOMAIN calls : calls[c].out # None => now' - calls[c].out.since =< CubeWait
        BY <2>1 DEF IInv, CallInv, OutInv
    <2>6. QED
        BY <2>1, <2>3, <2>4, <2>5, WorldKeeps
<1>2. ASSUME NEW ask \in asks.asks, Ask(ask)
      PROVE  IInv'
    BY <1>2, QueryKeeps, DrillKeeps, SqlKeeps, ListMetricsKeeps DEF Ask
<1>3. QED
    BY <1>1, <1>2, CallStepKeeps, WorldStepKeeps DEF Next

\* The conjunction of what is typed, cached, stored and counted with what holds of every
\* call is an invariant of the gateway.
THEOREM Inductive == Spec => []IInv
<1>1. Init => IInv
    BY InitHolds
<1>2. IInv /\ [Next]_vars => IInv'
    BY StepKeeps
<1>3. QED
    BY <1>1, <1>2, PTL DEF Spec

\* Whatever way a query or a drill went, past cached readings, late answers of Cube and
\* parents that expire: under a module every measure its names stand for is of the module
\* and within the caller's scopes, without one every measure that is not named by a term
\* is within the scopes; and of every view behind a measure given by its id that was read
\* at all, a brand the filters leave is not behind.
THEOREM GateNeverLeaks == Spec => []GateHeld
<1>1. ASSUME IInv
      PROVE  TypeOK
    BY <1>1 DEF IInv, Typed, ResultsInv, CallInv, TypeOK
<1>2. ASSUME IInv, NEW c \in Answered
      PROVE  /\ calls[c].kind \in Asking /\ CallInv(c) /\ QueryInv(c) /\ Rights(calls[c]) /\ calls[c].stale = {}
             /\ Needed(calls[c].names) \subseteq DOMAIN calls[c].seen /\ calls[c].names \subseteq DOMAIN Names
    BY <1>2 DEF IInv, CallInv, QueryInv, Answered, Asking
<1>3. ASSUME IInv, NEW c \in Answered, NEW n \in calls[c].names, NEW scope, NEW measure,
             scope = (IF Pin # None THEN Pin ELSE calls[c].ask.module), measure = Metrics[Names[n].metric]
      PROVE  /\ scope # None => scope \in Modules /\ scope \in measure.modules
             /\ scope # None \/ Names[n].byId => measure.scopes \subseteq CallerScopes
    <2>1. ~ScopeDenied(calls[c].names) /\ ~ModuleRefused(calls[c].ask.module)
          /\ ~ModuleDenied(calls[c].names, calls[c].ask.module)
        BY <1>2, <1>3 DEF Rights
    <2>2. scope = Effective(calls[c].ask.module)
        BY <1>3 DEF Effective
    <2>3. scope # None => scope \in Modules /\ Names[n].byId /\ scope \in measure.modules
        BY <1>3, <2>1, <2>2 DEF ModuleRefused, ModuleDenied
    <2>4. Names[n].byId => measure.scopes \subseteq CallerScopes
        <3>1. Names[n].byId => Names[n].metric \in Known(calls[c].names)
            BY <1>3 DEF Known
        <3>2. QED
            BY <1>3, <2>1, <3>1 DEF ScopeDenied
    <2>5. QED
        BY <2>3, <2>4
<1>4. ASSUME IInv
      PROVE  RightsHeld
    BY <1>3, <1>4 DEF RightsHeld
<1>5. ASSUME IInv, Enforced, NEW c \in Answered, NEW n \in calls[c].names, Names[n].byId,
             NEW v, v = Metrics[Names[n].metric].view, Views[v].lag # Ungated
      PROVE  /\ v \in DOMAIN calls[c].seen
             /\ calls[c].seen[v].day # Unknown =>
                   \E b \in (IF Views[v].branded THEN Within(calls[c].filters) ELSE Brands) : OnTime(v, b, calls[c].today)
    <2>1. calls[c].names \subseteq DOMAIN Names /\ SeenInv(c) /\ calls[c].stale = {}
        BY <1>2, <1>5 DEF QueryInv
    <2>2. v \in Needed(calls[c].names)
        BY <1>5 DEF Needed, Known
    <2>3. v \in GatedViews
        BY <1>5, <2>1, GatewayAssumption DEF GatedViews
    <2>4. v \in DOMAIN calls[c].seen
        BY <1>2, <1>5, <2>2
    <2>5. PICK day, filters : day = calls[c].seen[v].day /\ filters = Slice(v, calls[c].filters).filters
        OBVIOUS
    <2>6. Sound(v, filters, day) /\ (day # Unknown => ~(calls[c].today - day > Allowed(v)))
        BY <2>1, <2>4, <2>5 DEF SeenInv
    <2>7. Within(filters) \subseteq (IF Views[v].branded THEN Within(calls[c].filters) ELSE Brands)
        BY <2>5 DEF Slice, Within
    <2>8. ASSUME day # Unknown
          PROVE  \E b \in Within(filters) : OnTime(v, b, calls[c].today)
        <3>1. day \in Int
            BY <2>6, <2>8 DEF Sound
        <3>2. PICK b \in Within(filters) : day =< newest[<<v, b>>]
            BY <2>6, <2>8 DEF Sound
        <3>3. newest[<<v, b>>] \in Int
            <4>1. <<v, b>> \in Pipelines
                BY <2>3 DEF GatedViews, Pipelines, Within
            <4>2. Day(Horizon) \in Nat
                BY GatewayAssumption, DayType
            <4>3. QED
                BY <1>5, <4>1, <4>2 DEF IInv, Typed
        <3>4. Allowed(v) \in Int /\ calls[c].today \in Int /\ Allowed(v) = Views[v].lag + Grace
            <4>1. Views[v].lag \in Nat /\ Grace \in Nat
                BY <2>3, GatewayAssumption DEF GatedViews
            <4>2. calls[c].today \in Int
                BY <1>2, <1>5 DEF CallInv
            <4>3. QED
                BY <4>1, <4>2 DEF Allowed
        <3>5. ~(calls[c].today - day > Allowed(v))
            BY <2>6, <2>8
        <3>6. OnTime(v, b, calls[c].today)
            BY <3>1, <3>2, <3>3, <3>4, <3>5 DEF OnTime, OnDay
        <3>7. QED
            BY <3>6
    <2>9. QED
        BY <2>4, <2>5, <2>7, <2>8
<1>6. ASSUME IInv
      PROVE  FreshAnswers
    BY <1>5, <1>6 DEF FreshAnswers
<1>7. IInv => GateHeld
    BY <1>1, <1>4, <1>6 DEF GateHeld
<1>8. QED
    BY <1>7, Inductive, PTL

\* What a call is refused for was so: a stale view was read and lay too far back, no reading it was judged by is older than a cache
\* entry lives and Cube may take, and a call refused for its rate had that many of its key
\* before it in the window, while no window let more pass.
THEOREM RefusalsHaveReasons == Spec => []RefusalsTrue
<1>1. ASSUME IInv, NEW c \in DOMAIN calls, NEW v \in calls[c].stale
      PROVE  /\ calls[c].seen[v].day # Unknown /\ ~OnDay(v, calls[c].seen[v].day, calls[c].today)
             /\ calls[c].seen[v].at - calls[c].seen[v].read < ProbeTtl + CubeWait
    <2>1. calls[c].kind \in Asking /\ QueryInv(c) /\ calls[c].today \in Int
        BY <1>1 DEF IInv, CallInv
    <2>2. v \in DOMAIN calls[c].seen
        BY <1>1, <2>1 DEF QueryInv, SeenInv
    <2>3. /\ calls[c].seen[v].day # Unknown /\ calls[c].today - calls[c].seen[v].day > Allowed(v)
          /\ calls[c].seen[v].at - calls[c].seen[v].read < ProbeTtl + CubeWait
          /\ Sound(v, Slice(v, calls[c].filters).filters, calls[c].seen[v].day)
        BY <1>1, <2>1, <2>2 DEF QueryInv, SeenInv
    <2>4. calls[c].seen[v].day \in Int /\ Views[v].lag \in Nat /\ Grace \in Nat
        BY <2>3, GatewayAssumption DEF Sound, GatedViews
    <2>5. QED
        BY <2>1, <2>3, <2>4 DEF OnDay, Allowed
<1>2. ASSUME IInv, NEW c \in DOMAIN calls, calls[c].kind = "sql"
      PROVE  calls[c].seen # <<>> /\ calls[c].seen.read # None => calls[c].seen.at - calls[c].seen.read < SchemaTtl + CubeWait
    BY <1>2 DEF IInv, CallInv, SqlInv
<1>3. ASSUME IInv, NEW c \in DOMAIN calls, calls[c].kind \in {"query", "drill"}, calls[c].why = "stale"
      PROVE  calls[c].stale # {}
    BY <1>3 DEF IInv, CallInv, QueryInv, Asking
<1>4. ASSUME IInv
      PROVE  ReadingsRecent
    BY <1>1, <1>2, <1>3, <1>4 DEF ReadingsRecent
<1>5. IInv => RefusalsTrue
    BY <1>4 DEF RefusalsTrue, IInv
<1>6. QED
    BY <1>5, Inductive, PTL
=============================================================================
