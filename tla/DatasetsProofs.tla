---------------------------- MODULE DatasetsProofs ----------------------------
(***************************************************************************)
(* Proofs about Datasets, for any events, pipelines, requests and limits:  *)
(* what a table says of the range it was asked for is so, and the store    *)
(* keeps every dataset in its scope and every brand in its share.          *)
(***************************************************************************)
EXTENDS Datasets, FiniteSetTheorems, WellFoundedInduction, TLAPS

Phases == {"loading", "probing", "saved", "refused"}
Ranges == [start : Int, end : Int]
Views == UNION {PartsOf(request) : request \in Requests}
Maps(S) == UNION {[V -> S] : V \in SUBSET Views}
Readings == UNION {[X -> 0 .. Horizon] : X \in SUBSET {p[2] : p \in Pipelines}}
Build ==
    [request : Requests, pc : Phases, asked : Ranges, loads : Maps(Readings), current : Nat,
     window : Ranges \cup {None}, marks : Maps(Int), probed : Maps(Int)]

\* A mark is the last bucket its own rows show, or the end of a range that the
\* source was seen to have passed.
MarkInv(b, v) ==
    \/ b.marks[v] = LastObserved(b, v)
    \/ /\ b.marks[v] = LastBucket(b.window.end, b.request.grain)
       /\ HoldsLater(v, BrandKey(b.request.filter), b.probed[v], b.window.end)

\* How far a build has come at n, and that what it read is of the past.
BuildInv(b, n) ==
    /\ DOMAIN b.loads \subseteq PartsOf(b.request)
    /\ \A v \in DOMAIN b.loads :
        /\ DOMAIN b.loads[v] = {x \in Selected(b.request.filter) : <<v, x>> \in Pipelines}
        /\ \A x \in DOMAIN b.loads[v] : b.loads[v][x] \in 0 .. n
    /\ b.pc = "loading" => DOMAIN b.marks = {}
    /\ DOMAIN b.probed = DOMAIN b.marks
    /\ b.pc \in {"probing", "saved"} =>
        /\ DOMAIN b.loads = PartsOf(b.request) /\ b.window \in Ranges
        /\ DOMAIN b.marks \subseteq PartsOf(b.request)
        /\ \A v \in DOMAIN b.marks : MarkInv(b, v)
    /\ b.pc = "saved" => DOMAIN b.marks = PartsOf(b.request)

Held(datasets) == UNION {{h} \X store[h].rows : h \in datasets}

\* A dataset is of a saved build, in its scope, and its brand's share suffices.
DatasetInv(h) ==
    /\ store[h].of \in DOMAIN builds /\ builds[store[h].of].pc = "saved"
    /\ store[h].rows \subseteq TableRows(builds[store[h].of]) /\ IsFiniteSet(store[h].rows)
    /\ store[h].module = builds[store[h].of].request.module
    /\ store[h].brand = BrandKey(builds[store[h].of].request.filter)
    /\ Cardinality(store[h].rows) =< MaxRows /\ Used(store[h].brand) =< MaxBytes

BuildsInv == builds \in Seq(Build) /\ \A i \in DOMAIN builds : BuildInv(builds[i], now)
StoreInv == (\A h \in DOMAIN store : DatasetInv(h)) /\ IsFiniteSet(Held(DOMAIN store))
IInv == TypeOK /\ BuildsInv /\ StoreInv

-----------------------------------------------------------------------------
(* Numbers.                                                                *)

\* A set of natural numbers has a least one: the induction of this module.
LEMMA Least ==
  ASSUME NEW S \in SUBSET Nat, S # {}
  PROVE  \E x \in S : \A y \in S : x =< y
<1> DEFINE R == OpToRel(<, Nat)
<1>1. PICK x \in S : \A y \in S : <<y, x>> \notin R
  <2>1. IsWellFoundedOn(R, Nat) BY NatLessThanWellFounded
  <2> HIDE DEF R
  <2> QED BY <2>1, WFMin
<1>2. \A y \in S : <<y, x>> \in R <=> y < x
  BY DEF OpToRel
<1>3. \A y \in S : ~(y < x) BY <1>1, <1>2
<1>4. \A y \in S : x =< y
  <2> HIDE DEF R
  <2> QED BY <1>3
<1> QED BY <1>4

\* The greatest of some numbers up to n is one of them.
LEMMA MaxIn ==
  ASSUME NEW n \in Nat, NEW S \in SUBSET (0 .. n), S # {}
  PROVE  Max(S) \in S
<1> DEFINE T == {n - x : x \in S}
<1>1. PICK y \in T : \A z \in T : y =< z
  <2>1. \A x \in S : n - x \in Nat OBVIOUS
  <2>2. T \in SUBSET Nat BY <2>1
  <2>3. T # {} OBVIOUS
  <2> HIDE DEF T
  <2> QED BY <2>2, <2>3, Least
<1>2. PICK x \in S : y = n - x OBVIOUS
<1>3. \A z \in S : x >= z BY <1>1, <1>2
<1> QED BY <1>3 DEF Max

\* A number divided by another is a number.
LEMMA Divided ==
  ASSUME NEW a \in Nat, NEW n \in Nat \ {0}
  PROVE  a \div n \in Nat
OBVIOUS

\* Dividing by one number and then by another divides by their product.
LEMMA DividedTwice ==
  ASSUME NEW a \in Nat, NEW m \in Nat \ {0}, NEW n \in Nat \ {0}
  PROVE  (a \div m) \div n = a \div (m * n)
OBVIOUS

\* A quotient that is less is of a number that is less.
LEMMA DividedLess ==
  ASSUME NEW a \in Nat, NEW b \in Nat, NEW n \in Nat \ {0}, a \div n < b \div n
  PROVE  a < b
OBVIOUS

Grains == {"hour", "day"}

\* A bucket is of the day its ticks are of, and buckets come in the order of
\* their ticks.
LEMMA BucketFacts ==
  ASSUME NEW s \in Nat, NEW t \in Nat, NEW grain \in Grains
  PROVE  /\ Bucket(t, grain) \in Nat /\ Day(t) \in Nat
         /\ DayOf(Bucket(t, grain), grain) = Day(t)
         /\ Bucket(s, grain) < Bucket(t, grain) => s < t
         /\ Day(s) < Day(t) => s < t
<1>1. TicksPerHour \in Nat \ {0} /\ HoursPerDay \in Nat \ {0} /\ TicksPerDay \in Nat \ {0}
  BY DatasetsAssumption DEF TicksPerDay
<1>2. Day(t) \in Nat /\ (Day(s) < Day(t) => s < t)
  BY <1>1, Divided, DividedLess DEF Day
<1>3. CASE grain = "hour"
  <2>1. Bucket(t, grain) = t \div TicksPerHour /\ Bucket(s, grain) = s \div TicksPerHour BY <1>3 DEF Bucket
  <2>2. Bucket(t, grain) \in Nat /\ (Bucket(s, grain) < Bucket(t, grain) => s < t)
    BY <1>1, <2>1, Divided, DividedLess
  <2>3. DayOf(Bucket(t, grain), grain) = Day(t)
    <3>1. (t \div TicksPerHour) \div HoursPerDay = t \div (TicksPerHour * HoursPerDay)
      BY <1>1, DividedTwice
    <3> QED BY <1>3, <2>1, <3>1 DEF DayOf, Day, TicksPerDay
  <2> QED BY <1>2, <2>2, <2>3
<1>4. CASE grain = "day"
  BY <1>2, <1>4 DEF Bucket, DayOf
<1> QED BY <1>3, <1>4 DEF Grains

\* A bucket up to the last one of a day is of no later day.
LEMMA LastOfDay ==
  ASSUME NEW k \in Nat, NEW d \in Int, NEW grain \in Grains
  PROVE  /\ DayOf(k, grain) \in Nat /\ LastBucket(d, grain) \in Int
         /\ k =< LastBucket(d, grain) => DayOf(k, grain) =< d
<1>1. HoursPerDay \in Nat \ {0} BY DatasetsAssumption
<1>2. k < (d + 1) * HoursPerDay => k \div HoursPerDay =< d BY <1>1
<1>3. k \div HoursPerDay \in Nat /\ (d + 1) * HoursPerDay \in Int BY <1>1, Divided
<1> QED BY <1>1, <1>2, <1>3 DEF DayOf, LastBucket, Grains

\* A range that is resolved has a first and a last day.
LEMMA WindowType ==
  ASSUME NEW request \in Requests, NEW t \in Nat
  PROVE  Window(request.range, t) \in Ranges
<1>1. t % DaysPerMonth \in Int BY DatasetsAssumption
<1>2. /\ request.range.preset \in {"today", "yesterday", "last_days", "this_month", "last_month", None}
      /\ request.range.days \in Nat /\ request.range.start \in Int /\ request.range.end \in Int
      /\ None \notin {"today", "yesterday", "last_days", "this_month", "last_month"}
  BY DatasetsAssumption
<1>3. DaysPerMonth \in Nat BY DatasetsAssumption
<1> QED BY <1>1, <1>2, <1>3 DEF Window, Ranges

-----------------------------------------------------------------------------
(* Tables.                                                                 *)

\* What maps from views hold, and what an entry more makes of one.
LEMMA MapType ==
  ASSUME NEW S, NEW f \in Maps(S)
  PROVE  /\ DOMAIN f \subseteq Views /\ \A v \in DOMAIN f : f[v] \in S
         /\ \A v \in Views, y \in S : Put(f, v, y) \in Maps(S)
<1>1. PICK V \in SUBSET Views : f \in [V -> S] BY DEF Maps
<1>2. ASSUME NEW v \in Views, NEW y \in S PROVE Put(f, v, y) \in Maps(S)
  <2>1. Put(f, v, y) \in [V \cup {v} -> S] BY <1>1 DEF Put
  <2>2. V \cup {v} \in SUBSET Views OBVIOUS
  <2> QED BY <2>1, <2>2 DEF Maps
<1> QED BY <1>1, <1>2

\* A table depends on what was read and for which range, and on nothing else.
LEMMA Alike ==
  ASSUME NEW b, NEW c, b.request = c.request, b.asked = c.asked, b.loads = c.loads, b.current = c.current
  PROVE  /\ \A v : Seen(b, v) = Seen(c, v) /\ Rows(b, v) = Rows(c, v) /\ LastObserved(b, v) = LastObserved(c, v)
         /\ b.window = c.window => TableRows(b) = TableRows(c)
<1>1. \A v : Seen(b, v) = Seen(c, v) BY DEF Seen
<1>2. \A v : Rows(b, v) = Rows(c, v) BY <1>1 DEF Rows
<1>3. \A v : LastObserved(b, v) = LastObserved(c, v) BY <1>2 DEF LastObserved
<1>4. \A v : Kept(b, v) = Kept(c, v) BY <1>2 DEF Kept, Complete
<1>5. b.window = c.window => Spine(b) = Spine(c) BY DEF Spine, Complete
<1>6. b.window = c.window => TableRows(b) = TableRows(c) BY <1>4, <1>5 DEF TableRows
<1> QED BY <1>1, <1>2, <1>3, <1>6

\* The last bucket of a source is one of an event it read.
LEMMA Observed ==
  ASSUME NEW b \in Build, NEW v
  PROVE  /\ LastObserved(b, v) \in Int
         /\ LastObserved(b, v) # NoMark =>
              \E e \in Seen(b, v) : Bucket(e.tick, b.request.grain) = LastObserved(b, v)
<1> DEFINE S == {r[1] : r \in Rows(b, v)} \cap 0 .. b.current - 1
<1>1. CASE S = {} BY <1>1 DEF LastObserved, NoMark
<1>2. CASE S # {}
  <2>1. b.current \in Nat BY DEF Build
  <2>2. S \in SUBSET (0 .. b.current) BY <2>1
  <2>3. LastObserved(b, v) = Max(S) BY <1>2 DEF LastObserved
  <2>4. Max(S) \in S
    <3> HIDE DEF S
    <3> QED BY <1>2, <2>1, <2>2, MaxIn
  <2>5. PICK r \in Rows(b, v) : Max(S) = r[1] BY <2>4
  <2>6. PICK e \in Seen(b, v) : r = RowOf(e, b.request) BY <2>5 DEF Rows
  <2>7. Bucket(e.tick, b.request.grain) = LastObserved(b, v) BY <2>3, <2>5, <2>6 DEF RowOf
  <2> QED BY <2>3, <2>4, <2>7
<1> QED BY <1>1, <1>2

\* A build is of one of the requests, whose grain is an hour or a day.
LEMMA RequestFacts ==
  ASSUME NEW b \in Build
  PROVE  b.request \in Requests /\ b.request.grain \in Grains
BY DatasetsAssumption DEF Build, Grains

\* The rows of a source are of the days that were asked for.
LEMMA KeptDays ==
  ASSUME NEW b \in Build, NEW v, NEW row \in Kept(b, v)
  PROVE  /\ row[1] \in Nat /\ Complete(b, row[1]) /\ row \in Rows(b, v)
         /\ DayOf(row[1], b.request.grain) \in b.asked.start .. b.asked.end
<1>1. row \in Rows(b, v) /\ Complete(b, row[1]) BY DEF Kept
<1>2. PICK e \in Seen(b, v) : row = RowOf(e, b.request) BY <1>1 DEF Rows
<1>3. row[1] = Bucket(e.tick, b.request.grain) BY <1>2 DEF RowOf
<1>4. e.tick \in Nat /\ Day(e.tick) \in b.asked.start .. b.asked.end
  BY DatasetsAssumption DEF Seen
<1> QED BY <1>1, <1>3, <1>4, BucketFacts, RequestFacts

\* The rows of a table are of the days it says, when those are the ones that
\* were asked for.
LEMMA RowDays ==
  ASSUME NEW b \in Build, b.window \in Ranges, b.window = b.asked, NEW row \in TableRows(b)
  PROVE  /\ row[1] \in Nat /\ Complete(b, row[1])
         /\ DayOf(row[1], b.request.grain) \in b.asked.start .. b.asked.end
<1>1. CASE \E v \in PartsOf(b.request) : row \in Kept(b, v)
  BY <1>1, KeptDays
<1>2. CASE row \in Spine(b)
  <2>1. ~b.request.broken BY <1>2 DEF Spine
  <2>2. PICK k \in 0 .. LastBucket(b.window.end, b.request.grain) :
          /\ row = <<k, AnyKey>> /\ DayOf(k, b.request.grain) >= b.window.start /\ Complete(b, k)
    BY <1>2, <2>1 DEF Spine
  <2>3. b.window.start \in Int /\ b.window.end \in Int BY DEF Ranges
  <2>4. LastBucket(b.window.end, b.request.grain) \in Int BY <2>3, LastOfDay, RequestFacts
  <2>5. k \in Nat /\ k =< LastBucket(b.window.end, b.request.grain) BY <2>2, <2>4
  <2>6. DayOf(k, b.request.grain) \in Nat /\ DayOf(k, b.request.grain) =< b.window.end
    BY <2>3, <2>5, LastOfDay, RequestFacts
  <2> QED BY <2>2, <2>3, <2>5, <2>6
<1>3. (\E v \in PartsOf(b.request) : row \in Kept(b, v)) \/ row \in Spine(b)
  <2>1. row \in (UNION {Kept(b, v) : v \in PartsOf(b.request)}) \/ row \in Spine(b) BY DEF TableRows
  <2>2. ASSUME row \in (UNION {Kept(b, v) : v \in PartsOf(b.request)})
        PROVE  \E v \in PartsOf(b.request) : row \in Kept(b, v)
    <3>1. PICK K \in {Kept(b, v) : v \in PartsOf(b.request)} : row \in K BY <2>2
    <3>2. PICK v \in PartsOf(b.request) : K = Kept(b, v) BY <3>1
    <3> QED BY <3>1, <3>2
  <2> QED BY <2>1, <2>2
<1> QED BY <1>1, <1>2, <1>3


\* What was counted: the events of a row among those read.
LEMMA Count ==
  ASSUME NEW S \in SUBSET Events, NEW row, NEW request
  PROVE  /\ Measured(S, row, request) \in Nat
         /\ Measured(S, row, request) = 0 <=> \A e \in S : RowOf(e, request) # row
<1>1. IsFiniteSet(Events) BY DatasetsAssumption
<1>2. {e \in S : RowOf(e, request) = row} \in SUBSET Events OBVIOUS
<1>3. IsFiniteSet({e \in S : RowOf(e, request) = row}) BY <1>1, <1>2, FS_Subset
<1> HIDE DEF RowOf
<1>4. Measured(S, row, request) \in Nat BY <1>3, FS_CardinalityType DEF Measured
<1>5. Measured(S, row, request) = 0 <=> {e \in S : RowOf(e, request) = row} = {}
  BY <1>3, FS_EmptySet DEF Measured
<1> QED BY <1>4, <1>5

\* One brand is asked for by its name or by none; asking for all the others
\* never reads the one that is named.
LEMMA OneBrandRead ==
  ASSUME NEW n, NEW b \in Build, BuildInv(b, n), NEW v \in DOMAIN b.loads,
         BrandKey(b.request.filter) \in DOMAIN b.loads[v]
  PROVE  \A x \in Selected(b.request.filter) : x = BrandKey(b.request.filter)
<1> DEFINE filter == b.request.filter
<1>1. BrandKey(filter) \in Selected(filter) BY DEF BuildInv
<1>2. CASE filter = None BY <1>2 DEF Selected, BrandKey
<1>3. CASE filter # None /\ filter.op = "equals"
  <2>1. Selected(filter) = {BrandIds[filter.value]} BY <1>3 DEF Selected
  <2> QED BY <1>1, <2>1
<1>4. CASE filter # None /\ filter.op # "equals"
  <2>1. Selected(filter) = Brands \ {BrandIds[filter.value]} /\ BrandKey(filter) = filter.value
    BY <1>4 DEF Selected, BrandKey
  <2>2. BrandIds[filter.value] = filter.value BY <1>1, <2>1, DatasetsAssumption
  <2> QED BY <1>1, <2>1, <2>2
<1> QED BY <1>2, <1>3, <1>4

\* Of one brand everything was read that happened on the days asked for, up to
\* where its pipeline had come.
LEMMA ReadAll ==
  ASSUME NEW n, NEW b \in Build, BuildInv(b, n), NEW v \in DOMAIN b.loads, NEW x \in DOMAIN b.loads[v],
         \A y \in DOMAIN b.loads[v] : y = x,
         NEW row, DayOf(row[1], b.request.grain) \in b.asked.start .. b.asked.end,
         NEW e \in Events, e.view = v, e.brand \in Selected(b.request.filter),
         RowOf(e, b.request) = row, e.tick < b.loads[v][x]
  PROVE  e \in Seen(b, v) /\ row \in Rows(b, v)
<1>1. e.tick \in Nat BY DatasetsAssumption
<1>2. row[1] = Bucket(e.tick, b.request.grain) BY DEF RowOf
<1>3. Day(e.tick) \in b.asked.start .. b.asked.end BY <1>1, <1>2, BucketFacts, RequestFacts
<1>4. <<v, e.brand>> \in Pipelines BY DEF Pipelines
<1>5. e.brand \in DOMAIN b.loads[v] BY <1>4 DEF BuildInv
<1>6. e.tick < b.loads[v][e.brand] BY <1>5
<1>7. e \in Seen(b, v) BY <1>3, <1>5, <1>6 DEF Seen
<1> QED BY <1>7 DEF Rows


\* What a cell of an additive measure or of any other holds.
LEMMA CellIs ==
  ASSUME NEW b \in Build, NEW row, NEW m
  PROVE  LET v == Metrics[m].view IN
         /\ row \in Kept(b, v) => /\ Cell(b, row, m) = Measured(Seen(b, v), row, b.request)
                                  /\ Cell(b, row, m) \in Nat \ {0}
         /\ row \notin Kept(b, v) => /\ Cell(b, row, m) \in {0, Null}
                                     /\ Cell(b, row, m) = 0 => row[1] =< b.marks[v]
<1> DEFINE v == Metrics[m].view
<1>1. CASE row \in Kept(b, v)
  <2>1. Cell(b, row, m) = Measured(Seen(b, v), row, b.request) BY <1>1 DEF Cell
  <2>2. Seen(b, v) \in SUBSET Events BY DEF Seen
  <2>3. PICK e \in Seen(b, v) : RowOf(e, b.request) = row BY <1>1 DEF Kept, Rows
  <2>4. Measured(Seen(b, v), row, b.request) \in Nat \ {0} BY <2>2, <2>3, Count
  <2> QED BY <1>1, <2>1, <2>4
<1>2. CASE row \notin Kept(b, v)
  <2>1. Cell(b, row, m) = Filled(b, row, m) BY <1>2 DEF Cell
  <2> QED BY <1>2, <2>1 DEF Filled, Null
<1> QED BY <1>1, <1>2

\* A zero of a saved build tells that nothing happened, or is excused.
LEMMA ZeroHolds ==
  ASSUME NEW n, NEW b \in Build, BuildInv(b, n), b.pc = "saved", b.window = b.asked,
         NEW row \in TableRows(b), NEW m \in b.request.measures
  PROVE  ZeroReal(b, row, m)
<1> DEFINE v == Metrics[m].view
<1> DEFINE key == BrandKey(b.request.filter)
<1> DEFINE S == {e \in Events : e.view = v /\ e.brand \in Selected(b.request.filter) /\ e.tick < now}
<1> SUFFICES ASSUME Cell(b, row, m) = 0, ~UnderWay(b, row, v), ~LandedSince(b, v)
             PROVE  True(b, row, m) = 0
  BY DEF ZeroReal
<1>1. v \in PartsOf(b.request) BY DEF PartsOf
<1>2. v \in DOMAIN b.loads /\ v \in DOMAIN b.marks /\ MarkInv(b, v) /\ b.window \in Ranges
  BY <1>1 DEF BuildInv
<1>3. /\ row[1] \in Nat /\ Complete(b, row[1])
      /\ DayOf(row[1], b.request.grain) \in b.asked.start .. b.asked.end
  BY <1>2, RowDays
<1>4. row \notin Kept(b, v) /\ row[1] =< b.marks[v] BY CellIs
<1>5. row \notin Rows(b, v) BY <1>3, <1>4 DEF Kept
<1>6. key \in DOMAIN b.loads[v] /\ ~(b.probed[v] > b.loads[v][key])
  BY DEF LandedSince
<1>7. \A x \in Selected(b.request.filter) : x = key BY <1>2, <1>6, OneBrandRead
<1>8. \A y \in DOMAIN b.loads[v] : y = key BY <1>2, <1>7 DEF BuildInv
<1>9. b.loads[v][key] \in Nat BY <1>2, <1>6 DEF BuildInv
<1>10. \A e \in S : RowOf(e, b.request) # row
  <2> SUFFICES ASSUME NEW e \in S, RowOf(e, b.request) = row PROVE FALSE
    OBVIOUS
  <2>1. e.tick \in Nat /\ row[1] = Bucket(e.tick, b.request.grain) BY DatasetsAssumption DEF RowOf
  <2>2. ~(e.tick < b.loads[v][key])
    BY <1>2, <1>3, <1>5, <1>6, <1>8, ReadAll
  <2>3. CASE b.marks[v] = LastObserved(b, v)
    <3>1. row[1] < LastObserved(b, v)
      BY <1>3, <1>4, <2>3, Observed DEF UnderWay
    <3>2. PICK f \in Seen(b, v) : Bucket(f.tick, b.request.grain) = LastObserved(b, v)
      BY <1>3, <3>1, Observed DEF NoMark
    <3>3. f.tick \in Nat /\ f.brand \in DOMAIN b.loads[v] /\ f.tick < b.loads[v][f.brand]
      BY DatasetsAssumption DEF Seen
    <3>4. e.tick < f.tick BY <2>1, <3>1, <3>2, <3>3, BucketFacts, RequestFacts
    <3> QED BY <1>8, <1>9, <2>1, <2>2, <3>3, <3>4
  <2>4. CASE HoldsLater(v, key, b.probed[v], b.window.end)
    <3>1. PICK f \in Events : f.tick < b.probed[v] /\ Day(f.tick) > b.window.end
      BY <2>4 DEF HoldsLater
    <3>2. f.tick \in Nat BY DatasetsAssumption
    <3>3. Day(e.tick) = DayOf(row[1], b.request.grain) BY <2>1, BucketFacts, RequestFacts
    <3>4. Day(e.tick) < Day(f.tick) 
      BY <1>2, <1>3, <2>1, <3>1, <3>2, <3>3, BucketFacts, RequestFacts DEF Ranges
    <3>5. e.tick < f.tick BY <2>1, <3>2, <3>4, BucketFacts, RequestFacts
    <3>6. b.probed[v] \in Int
      <4>1. b.probed \in Maps(Int) /\ v \in DOMAIN b.probed BY <1>2 DEF Build, BuildInv
      <4> QED BY <4>1, MapType
    <3> QED BY <1>6, <1>9, <2>1, <2>2, <3>1, <3>2, <3>5, <3>6
  <2> QED BY <1>2, <2>3, <2>4 DEF MarkInv
<1>11. S \in SUBSET Events OBVIOUS
<1>12. True(b, row, m) = Measured(S, row, b.request) BY DEF True
<1> QED BY <1>10, <1>11, <1>12, Count


\* A number of one brand, before its source's last bucket, tells all that happened.
LEMMA CountHolds ==
  ASSUME now \in Nat, NEW b \in Build, BuildInv(b, now), b.pc = "saved",
         NEW row \in TableRows(b), NEW m \in b.request.measures,
         Cell(b, row, m) > 0, row[1] < LastObserved(b, Metrics[m].view), OneBrand(b, Metrics[m].view)
  PROVE  Cell(b, row, m) = True(b, row, m)
<1> DEFINE v == Metrics[m].view
<1> DEFINE S == {e \in Events : e.view = v /\ e.brand \in Selected(b.request.filter) /\ e.tick < now}
<1>1. v \in DOMAIN b.loads BY DEF PartsOf, BuildInv
<1>2. row \in Kept(b, v) BY CellIs DEF Null
<1>3. row[1] \in Nat /\ DayOf(row[1], b.request.grain) \in b.asked.start .. b.asked.end
  BY <1>2, KeptDays
<1>4. PICK f \in Seen(b, v) : Bucket(f.tick, b.request.grain) = LastObserved(b, v)
  BY <1>3, Observed DEF NoMark
<1>5. f.tick \in Nat /\ f.brand \in DOMAIN b.loads[v] /\ f.tick < b.loads[v][f.brand]
  BY DatasetsAssumption DEF Seen
<1>6. \A y \in DOMAIN b.loads[v] : y = f.brand BY <1>5 DEF OneBrand
<1>7. b.loads[v][f.brand] \in Nat BY <1>1, <1>5 DEF BuildInv
<1>8. ASSUME NEW e \in S, RowOf(e, b.request) = row PROVE e \in Seen(b, v)
  <2>1. e.tick \in Nat /\ row[1] = Bucket(e.tick, b.request.grain) BY <1>8, DatasetsAssumption DEF RowOf
  <2>2. e.tick < f.tick BY <1>4, <1>5, <2>1, BucketFacts, RequestFacts
  <2>3. e.tick < b.loads[v][f.brand] BY <1>5, <1>7, <2>1, <2>2
  <2> QED BY <1>1, <1>3, <1>5, <1>6, <1>8, <2>3, ReadAll
<1>9. ASSUME NEW e \in Seen(b, v) PROVE e \in S
  <2>1. e \in Events /\ e.tick \in Nat BY DatasetsAssumption DEF Seen
  <2>2. e.view = v /\ e.brand \in DOMAIN b.loads[v] /\ e.tick < b.loads[v][e.brand] BY DEF Seen
  <2>3. b.loads[v][e.brand] \in 0 .. now /\ e.brand \in Selected(b.request.filter)
    BY <1>1, <2>2 DEF BuildInv
  <2> QED BY <2>1, <2>2, <2>3
<1>10. {e \in Seen(b, v) : RowOf(e, b.request) = row} = {e \in S : RowOf(e, b.request) = row}
  BY <1>8, <1>9
<1>11. Measured(Seen(b, v), row, b.request) = Measured(S, row, b.request)
  BY <1>10 DEF Measured
<1>12. True(b, row, m) = Measured(S, row, b.request) BY DEF True
<1> QED BY <1>2, <1>11, <1>12, CellIs

\* The invariant says what is to be shown.
LEMMA TablesFromInv == IInv => TablesHonest
<1> SUFFICES ASSUME IInv PROVE TablesHonest
  OBVIOUS
<1>1. now \in Nat BY DEF IInv, TypeOK
<1>2. \A i \in Finished : builds[i] \in Build /\ BuildInv(builds[i], now) /\ builds[i].pc = "saved"
  BY DEF IInv, BuildsInv, Finished
<1>3. CellsHonest
  <2> SUFFICES ASSUME NEW i \in Finished, NEW row \in TableRows(builds[i]), NEW m \in Columns(builds[i])
               PROVE  LET b == builds[i]
                          v == Metrics[m].view
                      IN  /\ b.window = b.asked => ZeroReal(b, row, m)
                          /\ (Cell(b, row, m) > 0 /\ row[1] < LastObserved(b, v) /\ OneBrand(b, v)) =>
                                Cell(b, row, m) = True(b, row, m)
    BY DEF CellsHonest
  <2>1. m \in builds[i].request.measures BY DEF Columns
  <2> QED BY <1>1, <1>2, <2>1, ZeroHolds, CountHolds
<1>4. RowsInRange
  <2> SUFFICES ASSUME NEW i \in Finished, builds[i].window = builds[i].asked, NEW row \in TableRows(builds[i])
               PROVE  DayOf(row[1], builds[i].request.grain) \in builds[i].window.start .. builds[i].window.end
    BY DEF RowsInRange
  <2>1. builds[i].window \in Ranges BY <1>2 DEF BuildInv
  <2> QED BY <1>2, <2>1, RowDays
<1> QED BY <1>3, <1>4 DEF IInv, TablesHonest

\* The invariant of the datasets says what is to be shown of the store.
LEMMA StoreFromInv == IInv => StoreSound
BY DEF IInv, StoreInv, DatasetInv, StoreSound, ScopeKept, QuotaKept

-----------------------------------------------------------------------------
(* Finite sets.                                                            *)

\* What is made of the elements of a finite set is finite, and not more.
LEMMA ImageFinite ==
  ASSUME NEW S, NEW T, IsFiniteSet(S), NEW f \in [S -> T], \A y \in T : \E x \in S : f[x] = y
  PROVE  IsFiniteSet(T) /\ Cardinality(T) =< Cardinality(S)
<1>1. f \in Surjection(S, T) BY DEF Surjection
<1> QED BY <1>1, FS_Surjection

\* A table has finitely many rows.
LEMMA TableFinite ==
  ASSUME NEW b \in Build, b.window \in Ranges
  PROVE  IsFiniteSet(TableRows(b))
<1> DEFINE K == {RowOf(e, b.request) : e \in Events}
<1> DEFINE I == 0 .. LastBucket(b.window.end, b.request.grain)
<1> DEFINE J == {<<k, AnyKey>> : k \in I}
<1>1. IsFiniteSet(K)
  <2> DEFINE f == [e \in Events |-> RowOf(e, b.request)]
  <2>1. f \in [Events -> K] /\ \A y \in K : \E x \in Events : f[x] = y OBVIOUS
  <2>2. IsFiniteSet(Events) BY DatasetsAssumption
  <2> HIDE DEF f, K
  <2> QED BY <2>1, <2>2, ImageFinite
<1>2. IsFiniteSet(J)
  <2>1. IsFiniteSet(I)
    <3>1. b.window.end \in Int BY DEF Ranges
    <3>2. LastBucket(b.window.end, b.request.grain) \in Int
      <4>1. 0 \in Nat OBVIOUS
      <4> QED BY <3>1, <4>1, LastOfDay, RequestFacts
    <3> QED BY <3>2, FS_Interval
  <2> DEFINE f == [k \in I |-> <<k, AnyKey>>]
  <2>2. f \in [I -> J] /\ \A y \in J : \E x \in I : f[x] = y OBVIOUS
  <2> HIDE DEF f, I, J
  <2> QED BY <2>1, <2>2, ImageFinite
<1>3. \A v : Kept(b, v) \subseteq K BY DEF Kept, Rows, Seen
<1>4. Spine(b) \subseteq J BY DEF Spine
<1>5. TableRows(b) \subseteq K \cup J
  <2> HIDE DEF K, J
  <2> QED BY <1>3, <1>4 DEF TableRows
<1>6. IsFiniteSet(K \cup J)
  <2> HIDE DEF K, J
  <2> QED BY <1>1, <1>2, FS_Union
<1> QED BY <1>5, <1>6, FS_Subset

\* The rows of one dataset take as much as there are.
LEMMA OneHeld ==
  ASSUME NEW h, NEW R, IsFiniteSet(R)
  PROVE  IsFiniteSet({h} \X R) /\ Cardinality({h} \X R) =< Cardinality(R)
<1> DEFINE f == [r \in R |-> <<h, r>>]
<1>1. f \in [R -> {h} \X R] /\ \A y \in {h} \X R : \E x \in R : f[x] = y OBVIOUS
<1> HIDE DEF f
<1> QED BY <1>1, ImageFinite

-----------------------------------------------------------------------------
(* The steps of a build.                                                   *)

\* What was of the past stays so.
LEMMA BuildAges ==
  ASSUME NEW n \in Nat, NEW o \in Nat, n =< o, NEW b, BuildInv(b, n)
  PROVE  BuildInv(b, o)
BY DEF BuildInv

\* A build that becomes another keeps the rest.
LEMMA BuildBecomes ==
  ASSUME BuildsInv, NEW i \in DOMAIN builds, NEW b \in Build, BuildInv(b, now), Becomes(i, b), now' = now
  PROVE  /\ BuildsInv' /\ DOMAIN builds' = DOMAIN builds /\ builds'[i] = b
         /\ \A j \in DOMAIN builds : j # i => builds'[j] = builds[j]
<1>1. builds \in Seq(Build) /\ \A j \in DOMAIN builds : BuildInv(builds[j], now) BY DEF BuildsInv
<1>2. builds' = [builds EXCEPT ![i] = b] BY DEF Becomes
<1>3. builds' \in Seq(Build) BY <1>1, <1>2
<1>4. /\ DOMAIN builds' = DOMAIN builds /\ builds'[i] = b
      /\ \A j \in DOMAIN builds : j # i => builds'[j] = builds[j]
  BY <1>1, <1>2
<1>5. \A j \in DOMAIN builds' : BuildInv(builds'[j], now') BY <1>1, <1>4
<1> QED BY <1>3, <1>4, <1>5 DEF BuildsInv

\* A build starts with a range and nothing read.
LEMMA StartKeeps ==
  ASSUME TypeOK, NEW request \in Requests
  PROVE  Asked(request) \in Build /\ BuildInv(Asked(request), now)
<1>1. now \in Nat BY DEF TypeOK
<1>2. Day(now) \in Nat
  <2>1. "day" \in Grains BY DEF Grains
  <2> QED BY <1>1, <2>1, BucketFacts
<1>3. Window(request.range, Day(now)) \in Ranges BY <1>2, WindowType
<1>4. \A S : NoMap \in Maps(S)
  <2> SUFFICES ASSUME NEW S PROVE NoMap \in Maps(S)
    OBVIOUS
  <2>1. NoMap \in [{} -> S] BY DEF NoMap
  <2> QED BY <2>1 DEF Maps
<1>5. DOMAIN NoMap = {} BY DEF NoMap
<1>6. Asked(request) \in Build
  BY <1>3, <1>4 DEF Asked, Build, Phases
<1>7. BuildInv(Asked(request), now)
  BY <1>5 DEF Asked, BuildInv
<1> QED BY <1>6, <1>7

\* A load reads what has landed by now.
LEMMA LoadKeeps ==
  ASSUME TypeOK, NEW b \in Build, BuildInv(b, now), b.pc = "loading",
         NEW v \in PartsOf(b.request) \ DOMAIN b.loads
  PROVE  LET c == [b EXCEPT !.loads = Put(b.loads, v, Reading(v, Selected(b.request.filter)))]
         IN  c \in Build /\ BuildInv(c, now)
<1> DEFINE r == Reading(v, Selected(b.request.filter))
<1> DEFINE c == [b EXCEPT !.loads = Put(b.loads, v, r)]
<1>1. v \in Views BY RequestFacts DEF Views
<1>2. /\ DOMAIN r = {x \in Selected(b.request.filter) : <<v, x>> \in Pipelines}
      /\ \A x \in DOMAIN r : r[x] \in 0 .. now
  BY DEF Reading, TypeOK
<1>3. r \in Readings
  <2> DEFINE X == DOMAIN r
  <2>1. X \in SUBSET {p[2] : p \in Pipelines}
    <3>1. \A x \in X : <<v, x>> \in Pipelines /\ <<v, x>>[2] = x BY <1>2
    <3> HIDE DEF X
    <3> QED BY <3>1
  <2>2. r \in [X -> 0 .. Horizon] BY <1>2, DatasetsAssumption DEF Reading, TypeOK
  <2> HIDE DEF X, r
  <2> QED BY <2>1, <2>2 DEF Readings
<1>4. Put(b.loads, v, r) \in Maps(Readings)
  <2> HIDE DEF r
  <2>1. b.loads \in Maps(Readings) BY DEF Build
  <2> QED BY <1>1, <1>3, <2>1, MapType
<1> HIDE DEF r
<1>5. c \in Build BY <1>4 DEF Build
<1>6. /\ c.loads = Put(b.loads, v, r) /\ c.request = b.request /\ c.pc = "loading"
      /\ c.marks = b.marks /\ c.probed = b.probed
  BY DEF Build
<1> HIDE DEF c
<1>7. /\ DOMAIN c.loads = DOMAIN b.loads \cup {v} /\ c.loads[v] = r
      /\ \A u \in DOMAIN b.loads : u # v => c.loads[u] = b.loads[u]
  BY <1>6 DEF Put
<1>8. DOMAIN c.loads \subseteq PartsOf(c.request) BY <1>6, <1>7 DEF BuildInv
<1>9. ASSUME NEW u \in DOMAIN c.loads
      PROVE  /\ DOMAIN c.loads[u] = {x \in Selected(c.request.filter) : <<u, x>> \in Pipelines}
             /\ \A x \in DOMAIN c.loads[u] : c.loads[u][x] \in 0 .. now
  <2>1. CASE u = v BY <1>2, <1>6, <1>7, <2>1
  <2>2. CASE u # v
    <3>1. u \in DOMAIN b.loads /\ c.loads[u] = b.loads[u] BY <1>7, <2>2
    <3> QED BY <1>6, <3>1 DEF BuildInv
  <2> QED BY <2>1, <2>2
<1>10. BuildInv(c, now) BY <1>6, <1>8, <1>9 DEF BuildInv
<1> QED BY <1>5, <1>10 DEF c, r

\* A build that is refused, or saved, has read what it had read.
LEMMA EndKeeps ==
  ASSUME NEW b \in Build, BuildInv(b, now), NEW pc \in {"refused", "saved"},
         pc = "saved" => b.pc = "probing" /\ DOMAIN b.marks = PartsOf(b.request)
  PROVE  LET c == [b EXCEPT !.pc = pc]
         IN  c \in Build /\ BuildInv(c, now) /\ c.pc = pc /\ c.request = b.request
             /\ TableRows(c) = TableRows(b)
<1> DEFINE c == [b EXCEPT !.pc = pc]
<1>1. c \in Build BY DEF Build, Phases
<1>2. /\ c.pc = pc /\ c.request = b.request /\ c.loads = b.loads /\ c.asked = b.asked /\ c.current = b.current
      /\ c.window = b.window /\ c.marks = b.marks /\ c.probed = b.probed
  BY DEF Build
<1> HIDE DEF c
<1>3. TableRows(c) = TableRows(b) /\ \A v : LastObserved(c, v) = LastObserved(b, v)
  BY <1>2, Alike
<1>4. \A v : MarkInv(b, v) => MarkInv(c, v) BY <1>2, <1>3 DEF MarkInv
<1>5. BuildInv(c, now) BY <1>2, <1>4 DEF BuildInv
<1> QED BY <1>1, <1>2, <1>3, <1>5 DEF c


\* A build whose parts align knows its range and its current bucket.
LEMMA AlignKeeps ==
  ASSUME TypeOK, NEW b \in Build, BuildInv(b, now), b.pc = "loading", DOMAIN b.loads = PartsOf(b.request)
  PROVE  Aligned(b) \in Build /\ BuildInv(Aligned(b), now)
<1> DEFINE c == Aligned(b)
<1>1. now \in Nat BY DEF TypeOK
<1>2. Bucket(now, b.request.grain) \in Nat /\ Day(now) \in Nat BY <1>1, BucketFacts, RequestFacts
<1>3. Window(b.request.range, Day(now)) \in Ranges BY <1>2, WindowType, RequestFacts
<1>4. c \in Build BY <1>2, <1>3 DEF Aligned, Build, Phases
<1>5. /\ c.request = b.request /\ c.loads = b.loads /\ c.marks = b.marks /\ c.probed = b.probed
      /\ c.pc = "probing" /\ c.window = Window(b.request.range, Day(now))
  BY DEF Aligned, Build
<1>6. DOMAIN b.marks = {} BY DEF BuildInv
<1> HIDE DEF c
<1>7. BuildInv(c, now) BY <1>3, <1>5, <1>6 DEF BuildInv
<1> QED BY <1>4, <1>7 DEF c

\* A source is marked by its own rows, or by having passed the range.
LEMMA MarkKeeps ==
  ASSUME NEW b \in Build, BuildInv(b, now), b.pc = "probing",
         NEW v \in PartsOf(b.request), NEW mark \in Int, NEW before \in Int,
         \/ mark = LastObserved(b, v)
         \/ /\ mark = LastBucket(b.window.end, b.request.grain)
            /\ HoldsLater(v, BrandKey(b.request.filter), before, b.window.end)
  PROVE  Marked(b, v, mark, before) \in Build /\ BuildInv(Marked(b, v, mark, before), now)
<1> DEFINE c == Marked(b, v, mark, before)
<1>1. v \in Views BY RequestFacts DEF Views
<1>2. b.marks \in Maps(Int) /\ b.probed \in Maps(Int) BY DEF Build
<1>3. Put(b.marks, v, mark) \in Maps(Int) /\ Put(b.probed, v, before) \in Maps(Int)
  BY <1>1, <1>2, MapType
<1>4. c \in Build BY <1>3 DEF Marked, Build
<1>5. /\ c.request = b.request /\ c.loads = b.loads /\ c.asked = b.asked /\ c.current = b.current
      /\ c.window = b.window /\ c.pc = b.pc
      /\ c.marks = Put(b.marks, v, mark) /\ c.probed = Put(b.probed, v, before)
  BY DEF Marked, Build
<1> HIDE DEF c
<1>6. /\ DOMAIN c.marks = DOMAIN b.marks \cup {v} /\ DOMAIN c.probed = DOMAIN b.probed \cup {v}
      /\ c.marks[v] = mark /\ c.probed[v] = before
      /\ \A u \in DOMAIN b.marks : u # v => c.marks[u] = b.marks[u]
      /\ \A u \in DOMAIN b.probed : u # v => c.probed[u] = b.probed[u]
  BY <1>5 DEF Put
<1>7. DOMAIN b.probed = DOMAIN b.marks BY DEF BuildInv
<1>8. \A u : LastObserved(c, u) = LastObserved(b, u) BY <1>5, Alike
<1>9. ASSUME NEW u \in DOMAIN c.marks PROVE MarkInv(c, u)
  <2>1. CASE u = v BY <1>5, <1>6, <1>8, <2>1 DEF MarkInv
  <2>2. CASE u # v
    <3>1. u \in DOMAIN b.marks /\ c.marks[u] = b.marks[u] /\ c.probed[u] = b.probed[u]
      BY <1>6, <1>7, <2>2
    <3>2. MarkInv(b, u) BY <3>1 DEF BuildInv
    <3> QED BY <1>5, <1>8, <3>1, <3>2 DEF MarkInv
  <2> QED BY <2>1, <2>2
<1>10. BuildInv(c, now) BY <1>5, <1>6, <1>7, <1>9 DEF BuildInv
<1> QED BY <1>4, <1>10 DEF c


\* What a step does to the builds: the invariant is kept, and so is every build
\* that was saved.
BuildsKept ==
    /\ BuildsInv' /\ DOMAIN builds \subseteq DOMAIN builds'
    /\ \A j \in DOMAIN builds : builds[j].pc = "saved" => builds'[j] = builds[j]

\* A build under way that becomes another of the same kind keeps the invariant.
LEMMA BecomesKept ==
  ASSUME BuildsInv, NEW i \in DOMAIN builds, NEW b \in Build, BuildInv(b, now), Becomes(i, b), now' = now,
         builds[i].pc # "saved"
  PROVE  BuildsKept
BY BuildBecomes DEF BuildsKept

\* A build that starts keeps the invariant of the builds.
LEMMA StartStep ==
  ASSUME IInv, NEW request \in Requests, Start(request)
  PROVE  BuildsKept
<1>1. builds' = Append(builds, Asked(request)) /\ now' = now BY DEF Start
<1>2. Asked(request) \in Build /\ BuildInv(Asked(request), now) BY StartKeeps DEF IInv
<1>3. builds \in Seq(Build) /\ \A i \in DOMAIN builds : BuildInv(builds[i], now) BY DEF IInv, BuildsInv
<1> DEFINE n == Len(builds)
<1>4. /\ builds' \in Seq(Build) /\ DOMAIN builds = 1 .. n /\ DOMAIN builds' = 1 .. n + 1 /\ n \in Nat
      /\ \A i \in 1 .. n : builds'[i] = builds[i]
      /\ builds'[n + 1] = Asked(request)
  BY <1>1, <1>2, <1>3
<1> HIDE DEF n
<1>5. \A i \in DOMAIN builds' : i = n + 1 \/ i \in DOMAIN builds BY <1>4
<1>6. \A i \in DOMAIN builds' : BuildInv(builds'[i], now') BY <1>1, <1>2, <1>3, <1>4, <1>5
<1>7. BuildsInv' BY <1>4, <1>6 DEF BuildsInv
<1> QED BY <1>4, <1>7 DEF BuildsKept

\* A load that is answered keeps it: what was read is what has landed by now.
LEMMA LoadStep ==
  ASSUME IInv, NEW i \in DOMAIN builds, Load(i)
  PROVE  BuildsKept
<1>1. TypeOK /\ BuildsInv /\ builds[i] \in Build /\ BuildInv(builds[i], now) BY DEF IInv, BuildsInv
<1>2. builds[i].pc = "loading" /\ now' = now BY DEF Load
<1>3. PICK v \in PartsOf(builds[i].request) \ DOMAIN builds[i].loads :
        Becomes(i, [builds[i] EXCEPT !.loads = Put(builds[i].loads, v, Reading(v, Selected(builds[i].request.filter)))])
  BY DEF Load
<1> QED BY <1>1, <1>2, <1>3, LoadKeeps, BecomesKept

\* A load that fails keeps it: the build is refused.
LEMMA LoadFailsStep ==
  ASSUME IInv, NEW i \in DOMAIN builds, LoadFails(i)
  PROVE  BuildsKept
<1>1. TypeOK /\ BuildsInv /\ builds[i] \in Build /\ BuildInv(builds[i], now) BY DEF IInv, BuildsInv
<1>2. builds[i].pc = "loading" /\ now' = now /\ Becomes(i, [builds[i] EXCEPT !.pc = "refused"]) BY DEF LoadFails
<1> QED BY <1>1, <1>2, EndKeeps, BecomesKept

\* A build whose parts are refused, or align and get their range resolved once
\* more, keeps it.
LEMMA JudgeStep ==
  ASSUME IInv, NEW i \in DOMAIN builds, Judge(i)
  PROVE  BuildsKept
<1>1. TypeOK /\ BuildsInv /\ builds[i] \in Build /\ BuildInv(builds[i], now) BY DEF IInv, BuildsInv
<1>2. builds[i].pc = "loading" /\ now' = now /\ DOMAIN builds[i].loads = PartsOf(builds[i].request) BY DEF Judge
<1>3. Becomes(i, [builds[i] EXCEPT !.pc = "refused"]) \/ Becomes(i, Aligned(builds[i])) BY DEF Judge
<1>4. CASE Becomes(i, [builds[i] EXCEPT !.pc = "refused"]) BY <1>1, <1>2, <1>4, EndKeeps, BecomesKept
<1>5. CASE Becomes(i, Aligned(builds[i])) BY <1>1, <1>2, <1>5, AlignKeeps, BecomesKept
<1> QED BY <1>3, <1>4, <1>5

\* A view that is asked for its newest date keeps it: the mark is as MarkInv says,
\* whether the answer is new, cached or missing.
LEMMA ProbeStep ==
  ASSUME IInv, NEW i \in DOMAIN builds, Probe(i)
  PROVE  BuildsKept
<1> DEFINE b == builds[i]
<1> DEFINE key == BrandKey(b.request.filter)
<1> DEFINE v == CHOOSE view \in PartsOf(b.request) : view \notin DOMAIN b.marks
<1> DEFINE last == LastBucket(b.window.end, b.request.grain)
<1>1. TypeOK /\ BuildsInv /\ b \in Build /\ BuildInv(b, now) BY DEF IInv, BuildsInv
<1>2. b.pc = "probing" /\ DOMAIN b.marks # PartsOf(b.request) /\ now' = now BY DEF Probe
<1>3. v \in PartsOf(b.request)
  <2>1. DOMAIN b.marks \subseteq PartsOf(b.request) BY <1>1, <1>2 DEF BuildInv
  <2>2. \E view \in PartsOf(b.request) : view \notin DOMAIN b.marks BY <1>2, <2>1
  <2> QED BY <2>2
<1>4. PICK before \in Answers(v, key) :
        Becomes(i, IF HoldsLater(v, key, before, b.window.end) THEN Marked(b, v, last, before)
                   ELSE Marked(b, v, LastObserved(b, v), 0))
  BY DEF Probe
<1>5. before \in Int BY DEF Answers
<1>6. last \in Int
  <2>1. b.window.end \in Int /\ 0 \in Nat BY <1>1, <1>2 DEF BuildInv, Ranges
  <2> QED BY <1>1, <2>1, LastOfDay, RequestFacts
<1>7. LastObserved(b, v) \in Int /\ 0 \in Int BY <1>1, Observed
<1> HIDE DEF b, v, last, key
<1>8. CASE HoldsLater(v, key, before, b.window.end)
  <2>1. Becomes(i, Marked(b, v, last, before)) BY <1>4, <1>8
  <2>2. Marked(b, v, last, before) \in Build /\ BuildInv(Marked(b, v, last, before), now)
    BY <1>1, <1>2, <1>3, <1>5, <1>6, <1>8, MarkKeeps DEF last, key
  <2> QED BY <1>1, <1>2, <2>1, <2>2, BecomesKept DEF b
<1>9. CASE ~HoldsLater(v, key, before, b.window.end)
  <2>1. Becomes(i, Marked(b, v, LastObserved(b, v), 0)) BY <1>4, <1>9
  <2>2. Marked(b, v, LastObserved(b, v), 0) \in Build /\ BuildInv(Marked(b, v, LastObserved(b, v), 0), now)
    BY <1>1, <1>2, <1>3, <1>7, MarkKeeps
  <2> QED BY <1>1, <1>2, <2>1, <2>2, BecomesKept DEF b
<1> QED BY <1>8, <1>9

-----------------------------------------------------------------------------
(* The store.                                                              *)

\* A dataset that is kept, of a build that is kept, is as good as it was, when its
\* brand uses no more.
LEMMA DatasetStays ==
  ASSUME NEW h \in DOMAIN store, DatasetInv(h), BuildsKept,
         store'[h] = store[h], Used(store[h].brand)' =< MaxBytes
  PROVE  DatasetInv(h)'
<1>1. store[h].of \in DOMAIN builds /\ builds[store[h].of].pc = "saved" BY DEF DatasetInv
<1>2. store[h].of \in DOMAIN builds' /\ builds'[store[h].of] = builds[store[h].of] BY <1>1 DEF BuildsKept
<1> QED BY <1>1, <1>2 DEF DatasetInv

\* A step that leaves the store alone, and the builds in their places, leaves the
\* datasets as they are.
LEMMA StoreStays ==
  ASSUME StoreInv, BuildsKept, store' = store
  PROVE  StoreInv'
<1>1. ASSUME NEW h \in DOMAIN store PROVE DatasetInv(h)'
  <2>1. DatasetInv(h) BY DEF StoreInv
  <2>2. Used(store[h].brand)' = Used(store[h].brand) BY DEF Used, Bytes
  <2> QED BY <2>1, <2>2, DatasetStays DEF DatasetInv
<1>2. Held(DOMAIN store)' = Held(DOMAIN store) BY DEF Held
<1> QED BY <1>1, <1>2 DEF StoreInv

\* What a brand uses is part of what is held.
LEMMA UsedFinite ==
  ASSUME StoreInv, NEW brand
  PROVE  /\ Used(brand) = Cardinality(Held({h \in DOMAIN store : store[h].brand = brand}))
         /\ IsFiniteSet(Held({h \in DOMAIN store : store[h].brand = brand}))
<1>1. Held({h \in DOMAIN store : store[h].brand = brand}) \subseteq Held(DOMAIN store) BY DEF Held
<1>2. IsFiniteSet(Held(DOMAIN store)) BY DEF StoreInv
<1> QED BY <1>1, <1>2, FS_Subset DEF Used, Bytes, Held

\* Without a dataset no brand uses more.
LEMMA StoreShrinks ==
  ASSUME StoreInv, BuildsKept, NEW g, store' = [h \in DOMAIN store \ {g} |-> store[h]]
  PROVE  StoreInv'
<1>1. DOMAIN store' \subseteq DOMAIN store /\ \A h \in DOMAIN store' : store'[h] = store[h] OBVIOUS
<1>2. ASSUME NEW brand PROVE Used(brand)' =< Used(brand) /\ Used(brand) \in Nat /\ Used(brand)' \in Nat
  <2> DEFINE S == Held({h \in DOMAIN store : store[h].brand = brand})
  <2> DEFINE T == UNION {{h} \X store'[h].rows : h \in {h \in DOMAIN store' : store'[h].brand = brand}}
  <2>1. T \subseteq S BY <1>1 DEF Held
  <2>2. Used(brand)' = Cardinality(T) BY DEF Used, Bytes
  <2>3. Used(brand) = Cardinality(S) /\ IsFiniteSet(S) BY UsedFinite
  <2> HIDE DEF S, T
  <2> QED BY <2>1, <2>2, <2>3, FS_Subset, FS_CardinalityType
<1>3. ASSUME NEW h \in DOMAIN store' PROVE DatasetInv(h)'
  <2>1. h \in DOMAIN store /\ store'[h] = store[h] BY <1>1
  <2>2. DatasetInv(h) BY <2>1 DEF StoreInv
  <2>3. Used(store[h].brand)' =< MaxBytes
    <3>1. Used(store[h].brand) =< MaxBytes BY <2>2 DEF DatasetInv
    <3>2. MaxBytes \in Nat BY DatasetsAssumption
    <3>3. \A brand : Used(brand)' =< Used(brand) /\ Used(brand) \in Nat /\ Used(brand)' \in Nat BY <1>2
    <3> QED BY <3>1, <3>2, <3>3
  <2> QED BY <2>1, <2>2, <2>3, DatasetStays
<1>4. IsFiniteSet(Held(DOMAIN store)')
  <2>1. Held(DOMAIN store)' \subseteq Held(DOMAIN store) BY <1>1 DEF Held
  <2> QED BY <2>1, FS_Subset DEF StoreInv
<1> QED BY <1>3, <1>4 DEF StoreInv


\* A dataset that fits its brand's share leaves the share kept.
LEMMA StoreGrows ==
  ASSUME TypeOK, StoreInv, BuildsKept, NEW ds, NEW m, Saved(ds), Fits(ds.brand, m, ds.rows), IsFiniteSet(ds.rows),
         ds.of \in DOMAIN builds', builds'[ds.of].pc = "saved", ds.rows \subseteq TableRows(builds'[ds.of]),
         ds.module = builds'[ds.of].request.module, ds.brand = BrandKey(builds'[ds.of].request.filter)
  PROVE  StoreInv'
<1> DEFINE new == {fresh} \X ds.rows
<1>1. /\ DOMAIN store' = DOMAIN store \cup {fresh} /\ store'[fresh] = ds
      /\ \A h \in DOMAIN store : h # fresh => store'[h] = store[h]
  BY DEF Saved, Put
<1>2. fresh \notin DOMAIN store BY DEF TypeOK
<1>3. \A h \in DOMAIN store : store'[h] = store[h] BY <1>1, <1>2
<1>4. IsFiniteSet(new) /\ Cardinality(new) =< Cardinality(ds.rows) /\ Cardinality(new) \in Nat
  BY OneHeld, FS_CardinalityType
<1>5. Cardinality(ds.rows) \in Nat BY FS_CardinalityType
<1>6. ASSUME NEW brand
      PROVE  /\ Used(brand) \in Nat /\ Used(brand)' \in Nat
             /\ brand # ds.brand => Used(brand)' =< Used(brand)
             /\ Used(brand)' =< Used(brand) + Cardinality(ds.rows)
  <2> DEFINE S == Held({h \in DOMAIN store : store[h].brand = brand})
  <2> DEFINE T == UNION {{h} \X store'[h].rows : h \in {h \in DOMAIN store' : store'[h].brand = brand}}
  <2>1. T \subseteq S \cup new /\ (brand # ds.brand => T \subseteq S)
    <3> SUFFICES ASSUME NEW h \in DOMAIN store', store'[h].brand = brand, NEW x \in {h} \X store'[h].rows
                 PROVE  x \in S \/ (brand = ds.brand /\ x \in new)
      OBVIOUS
    <3>1. CASE h = fresh BY <1>1, <3>1
    <3>2. CASE h # fresh BY <1>1, <1>3, <3>2 DEF Held
    <3> QED BY <3>1, <3>2
  <2>2. Used(brand)' = Cardinality(T) BY DEF Used, Bytes
  <2>3. Used(brand) = Cardinality(S) /\ IsFiniteSet(S) BY UsedFinite
  <2> HIDE DEF S, T, new
  <2>4. /\ IsFiniteSet(S \cup new) /\ Cardinality(S) \in Nat /\ Cardinality(S \cap new) \in Nat
        /\ Cardinality(S \cup new) = Cardinality(S) + Cardinality(new) - Cardinality(S \cap new)
    <3>1. IsFiniteSet(S \cap new) BY <2>3, FS_Subset
    <3> QED BY <1>4, <2>3, <3>1, FS_Union, FS_CardinalityType
  <2>5. IsFiniteSet(T) /\ Cardinality(T) =< Cardinality(S \cup new) /\ Cardinality(T) \in Nat
    BY <2>1, <2>4, FS_Subset, FS_CardinalityType
  <2>6. brand # ds.brand => Cardinality(T) =< Cardinality(S) BY <2>1, <2>3, FS_Subset
  <2> QED BY <1>4, <1>5, <2>2, <2>3, <2>4, <2>5, <2>6
<1>7. Used(ds.brand) + Cardinality(ds.rows) =< MaxBytes /\ Cardinality(ds.rows) =< MaxRows BY DEF Fits
<1>8. MaxBytes \in Nat BY DatasetsAssumption
<1>9. ASSUME NEW h \in DOMAIN store PROVE DatasetInv(h)'
  <2>1. DatasetInv(h) BY DEF StoreInv
  <2>2. ASSUME NEW brand, Used(brand) =< MaxBytes PROVE Used(brand)' =< MaxBytes
    BY <1>5, <1>6, <1>7, <1>8, <2>2
  <2>3. Used(store[h].brand)' =< MaxBytes BY <1>3, <2>1, <2>2 DEF DatasetInv
  <2> QED BY <1>3, <2>1, <2>3, DatasetStays
<1>10. ASSUME NEW h, h = fresh PROVE DatasetInv(h)'
  <2>1. store'[h] = ds BY <1>1, <1>10
  <2>2. ASSUME NEW brand, brand = ds.brand PROVE Used(brand)' =< MaxBytes
    <3>1. Used(brand) + Cardinality(ds.rows) =< MaxBytes BY <1>7, <2>2
    <3>2. Used(brand) \in Nat /\ Used(brand)' \in Nat /\ Used(brand)' =< Used(brand) + Cardinality(ds.rows)
      BY <1>6
    <3> QED BY <1>5, <1>8, <3>1, <3>2
  <2>3. Used(store[h].brand)' =< MaxBytes BY <2>1, <2>2
  <2> QED BY <1>7, <2>1, <2>3 DEF DatasetInv
<1>11. IsFiniteSet(Held(DOMAIN store)')
  <2>1. Held(DOMAIN store)' \subseteq Held(DOMAIN store) \cup new BY <1>1, <1>3 DEF Held
  <2>2. IsFiniteSet(Held(DOMAIN store) \cup new)
    <3> HIDE DEF new
    <3> QED BY <1>4, FS_Union DEF StoreInv
  <2> QED BY <2>1, <2>2, FS_Subset
<1>12. ASSUME NEW h \in DOMAIN store' PROVE DatasetInv(h)'
  <2>1. CASE h = fresh BY <1>10, <2>1
  <2>2. CASE h # fresh BY <1>1, <1>9, <2>2
  <2> QED BY <2>1, <2>2
<1> QED BY <1>11, <1>12 DEF StoreInv


\* What is sliced off is part of the rows.
LEMMA SliceRows ==
  ASSUME NEW h, NEW rows \in Windows(h) \cup Where(h)
  PROVE  rows \subseteq store[h].rows
BY DEF Windows, Where

\* A build that is aligned and saved, or does not fit and is refused, keeps the
\* invariants of the builds and of the store.
LEMMA FinishStep ==
  ASSUME IInv, NEW i \in DOMAIN builds, Finish(i)
  PROVE  BuildsKept /\ StoreInv'
<1> DEFINE b == builds[i]
<1> DEFINE key == BrandKey(b.request.filter)
<1>1. TypeOK /\ BuildsInv /\ StoreInv /\ b \in Build /\ BuildInv(b, now) BY DEF IInv, BuildsInv
<1>2. b.pc = "probing" /\ DOMAIN b.marks = PartsOf(b.request) /\ now' = now BY DEF Finish
<1>3. CASE ~Fits(key, b.request.module, TableRows(b))
  <2>1. Becomes(i, [b EXCEPT !.pc = "refused"]) /\ store' = store BY <1>3 DEF Finish
  <2>2. BuildsKept BY <1>1, <1>2, <2>1, EndKeeps, BecomesKept
  <2> QED BY <1>1, <2>1, <2>2, StoreStays
<1>4. CASE Fits(key, b.request.module, TableRows(b))
  <2> DEFINE c == [b EXCEPT !.pc = "saved"]
  <2> DEFINE ds == [of |-> i, module |-> b.request.module, brand |-> key, rows |-> TableRows(b), columns |-> Columns(b)]
  <2>1. Becomes(i, c) /\ Saved(ds) BY <1>4 DEF Finish
  <2>2. c \in Build /\ BuildInv(c, now) /\ c.pc = "saved" /\ c.request = b.request /\ TableRows(c) = TableRows(b)
    BY <1>1, <1>2, EndKeeps
  <2>3. b.window \in Ranges BY <1>1, <1>2 DEF BuildInv
  <2>4. IsFiniteSet(TableRows(b)) BY <1>1, <2>3, TableFinite
  <2>5. /\ ds.of = i /\ ds.module = b.request.module /\ ds.brand = key /\ ds.rows = TableRows(b)
    OBVIOUS
  <2> HIDE DEF b, c, ds, key
  <2>6. BuildsKept /\ i \in DOMAIN builds' /\ builds'[i] = c
    BY <1>1, <1>2, <2>1, <2>2, BuildBecomes, BecomesKept DEF b
  <2>7. StoreInv'
    <3>1. Fits(ds.brand, b.request.module, ds.rows) BY <1>4, <2>5
    <3> QED BY <1>1, <2>1, <2>2, <2>4, <2>5, <2>6, <3>1, StoreGrows DEF key
  <2> QED BY <2>6, <2>7
<1> QED BY <1>3, <1>4

\* A slice, kept under its parent's scope if it fits, keeps them as well.
LEMMA SliceStep ==
  ASSUME IInv, NEW caller, NEW h \in DOMAIN store, Slice(caller, h)
  PROVE  BuildsKept /\ StoreInv'
<1>1. TypeOK /\ BuildsInv /\ StoreInv /\ DatasetInv(h) BY DEF IInv, StoreInv
<1>2. builds' = builds /\ now' = now BY DEF Slice
<1>3. BuildsKept BY <1>1, <1>2 DEF BuildsKept, BuildsInv
<1>4. PICK rows \in Windows(h) \cup Where(h), columns \in {store[h].columns} \cup {{m} : m \in store[h].columns} :
        LET scope == SliceScope(caller, h) IN
        IF Fits(scope.brand, scope.module, rows)
        THEN Saved([of |-> store[h].of, module |-> scope.module, brand |-> scope.brand, rows |-> rows, columns |-> columns])
        ELSE UNCHANGED <<store, fresh>>
  BY DEF Slice
<1> DEFINE ds == [of |-> store[h].of, module |-> store[h].module, brand |-> store[h].brand, rows |-> rows, columns |-> columns]
<1>5. IF Fits(store[h].brand, store[h].module, rows) THEN Saved(ds) ELSE store' = store
  BY <1>4 DEF SliceScope
<1>6. /\ ds.of = store[h].of /\ ds.module = store[h].module /\ ds.brand = store[h].brand /\ ds.rows = rows
  OBVIOUS
<1> HIDE DEF ds
<1>7. CASE store' = store BY <1>1, <1>3, <1>7, StoreStays
<1>8. CASE Fits(store[h].brand, store[h].module, rows) /\ Saved(ds)
  <2>1. rows \subseteq store[h].rows BY SliceRows
  <2>2. IsFiniteSet(store[h].rows) /\ store[h].rows \subseteq TableRows(builds[store[h].of]) BY <1>1 DEF DatasetInv
  <2>3. IsFiniteSet(rows) /\ rows \subseteq TableRows(builds[store[h].of]) BY <2>1, <2>2, FS_Subset
  <2>4. Fits(ds.brand, store[h].module, ds.rows) BY <1>6, <1>8
  <2>5. /\ ds.of \in DOMAIN builds' /\ builds'[ds.of].pc = "saved" /\ ds.rows \subseteq TableRows(builds'[ds.of])
        /\ ds.module = builds'[ds.of].request.module /\ ds.brand = BrandKey(builds'[ds.of].request.filter)
    BY <1>1, <1>2, <1>6, <2>3 DEF DatasetInv
  <2> QED BY <1>1, <1>3, <1>6, <1>8, <2>3, <2>4, <2>5, StoreGrows
<1> QED BY <1>3, <1>5, <1>7, <1>8

-----------------------------------------------------------------------------
(* Every step.                                                             *)

\* The type invariant, but for what the rest of the invariant says as well.
CoreType ==
    /\ now \in 0 .. Horizon /\ landed \in [Pipelines -> 0 .. now] /\ fresh \in 1 .. MaxHandles + 1
    /\ DOMAIN store \subseteq 1 .. fresh - 1

\* The types follow from those of the clock and the pipelines and the invariants.
LEMMA TypeFromCore == (CoreType /\ BuildsInv /\ StoreInv) => TypeOK
<1> SUFFICES ASSUME CoreType, BuildsInv, StoreInv PROVE TypeOK
  OBVIOUS
<1>1. \A i \in DOMAIN builds : builds[i] \in Build BY DEF BuildsInv
<1>2. \A i \in DOMAIN builds : builds[i].pc \in Phases BY <1>1 DEF Build
<1> QED BY <1>2 DEF CoreType, TypeOK, Phases, StoreInv, DatasetInv

\* What is stored gets the next handle.
LEMMA SavedType ==
  ASSUME CoreType, NEW ds, Saved(ds), UNCHANGED <<now, landed>>
  PROVE  CoreType'
<1>1. DOMAIN store' = DOMAIN store \cup {fresh} /\ fresh' = fresh + 1 /\ fresh =< MaxHandles BY DEF Saved, Put
<1>2. MaxHandles \in Nat BY DatasetsAssumption
<1> QED BY <1>1, <1>2 DEF CoreType

\* Before any build nothing was read and nothing is stored.
LEMMA Initial == Init => IInv
<1> SUFFICES ASSUME Init PROVE IInv
  OBVIOUS
<1>1. CoreType
  <2>1. now \in 0 .. Horizon /\ Lags \subseteq 0 .. now BY DatasetsAssumption DEF Init
  <2>2. {now - lag : lag \in Lags} \subseteq 0 .. now BY <2>1
  <2>3. landed \in [Pipelines -> 0 .. now] BY <2>2 DEF Init
  <2>4. MaxHandles \in Nat BY DatasetsAssumption
  <2> QED BY <2>1, <2>3, <2>4 DEF CoreType, Init
<1>2. BuildsInv BY DEF BuildsInv, Init
<1>3. DOMAIN store = {} BY DEF Init
<1>4. StoreInv
  <2>1. Held(DOMAIN store) = {} BY <1>3 DEF Held
  <2> QED BY <1>3, <2>1, FS_EmptySet DEF StoreInv
<1> QED BY <1>1, <1>2, <1>4, TypeFromCore DEF IInv

\* Whatever else a step does, what is older stays older.
LEMMA TimePasses ==
  ASSUME IInv, builds' = builds, store' = store, now' \in Nat, now =< now'
  PROVE  BuildsInv' /\ StoreInv'
<1>1. builds \in Seq(Build) /\ \A i \in DOMAIN builds : BuildInv(builds[i], now) BY DEF IInv, BuildsInv
<1>2. now \in Nat BY DEF IInv, TypeOK
<1>3. \A i \in DOMAIN builds : BuildInv(builds[i], now') BY <1>1, <1>2, BuildAges
<1>4. BuildsInv' BY <1>1, <1>3 DEF BuildsInv
<1>5. BuildsKept BY <1>4 DEF BuildsKept
<1> QED BY <1>4, <1>5, StoreStays DEF IInv

\* Every step keeps the invariant.
LEMMA Preserved == IInv /\ [Next]_vars => IInv'
<1> SUFFICES ASSUME IInv, [Next]_vars PROVE IInv'
  OBVIOUS
<1>1. CoreType /\ StoreInv /\ BuildsInv BY DEF IInv, TypeOK, CoreType
<1>2. SUFFICES CoreType' /\ BuildsInv' /\ StoreInv'
  BY TypeFromCore, PTL DEF IInv
<1>3. CASE \E request \in Requests : Start(request)
  <2>1. PICK request \in Requests : Start(request) BY <1>3
  <2>2. BuildsKept BY <2>1, StartStep
  <2>3. now' = now /\ landed' = landed /\ store' = store /\ fresh' = fresh BY <2>1 DEF Start
  <2> QED BY <1>1, <2>2, <2>3, StoreStays DEF CoreType, BuildsKept
<1>4. CASE \E i \in DOMAIN builds : BuildStep(i)
  <2>1. PICK i \in DOMAIN builds : BuildStep(i) BY <1>4
  <2>2. CASE Load(i) \/ LoadFails(i) \/ Judge(i) \/ Probe(i)
    <3>1. now' = now /\ landed' = landed /\ store' = store /\ fresh' = fresh
      BY <2>2 DEF Load, LoadFails, Judge, Probe
    <3>2. BuildsKept BY <2>2, LoadStep, LoadFailsStep, JudgeStep, ProbeStep
    <3> QED BY <1>1, <3>1, <3>2, StoreStays DEF CoreType, BuildsKept
  <2>3. CASE Finish(i)
    <3>1. BuildsKept /\ StoreInv' BY <2>3, FinishStep
    <3>2. UNCHANGED <<now, landed>> BY <2>3 DEF Finish
    <3>3. (\E ds : Saved(ds)) \/ (store' = store /\ fresh' = fresh) BY <2>3 DEF Finish
    <3>4. CoreType'
      <4>1. CASE \E ds : Saved(ds) BY <1>1, <3>2, <4>1, SavedType
      <4>2. CASE store' = store /\ fresh' = fresh BY <1>1, <3>2, <4>2 DEF CoreType
      <4> QED BY <3>3, <4>1, <4>2
    <3> QED BY <3>1, <3>4 DEF BuildsKept
  <2> QED BY <2>1, <2>2, <2>3 DEF BuildStep
<1>5. CASE \E caller \in Callers, h \in DOMAIN store : Delete(caller, h) \/ Slice(caller, h)
  <2>1. PICK caller \in Callers, h \in DOMAIN store : Delete(caller, h) \/ Slice(caller, h) BY <1>5
  <2>2. CASE Delete(caller, h)
    <3>1. /\ now' = now /\ landed' = landed /\ builds' = builds /\ fresh' = fresh
          /\ store' = [other \in DOMAIN store \ {h} |-> store[other]]
      BY <2>2 DEF Delete
    <3>2. BuildsKept BY <1>1, <3>1 DEF BuildsKept, BuildsInv
    <3>3. StoreInv' BY <1>1, <3>1, <3>2, StoreShrinks
    <3>4. CoreType' BY <1>1, <3>1 DEF CoreType
    <3> QED BY <3>2, <3>3, <3>4 DEF BuildsKept
  <2>3. CASE Slice(caller, h)
    <3>1. BuildsKept /\ StoreInv' BY <2>3, SliceStep
    <3>2. UNCHANGED <<now, landed>> BY <2>3 DEF Slice
    <3>3. (\E ds : Saved(ds)) \/ (store' = store /\ fresh' = fresh) BY <2>3 DEF Slice
    <3>4. CoreType'
      <4>1. CASE \E ds : Saved(ds) BY <1>1, <3>2, <4>1, SavedType
      <4>2. CASE store' = store /\ fresh' = fresh BY <1>1, <3>2, <4>2 DEF CoreType
      <4> QED BY <3>3, <4>1, <4>2
    <3> QED BY <3>1, <3>4 DEF BuildsKept
  <2> QED BY <2>1, <2>2, <2>3
<1>6. CASE Tick
  <2>1. /\ now' = now + 1 /\ now < Horizon /\ builds' = builds /\ store' = store /\ landed' = landed /\ fresh' = fresh
    BY <1>6 DEF Tick
  <2>2. now \in Nat /\ Horizon \in Nat BY <1>1, DatasetsAssumption DEF CoreType
  <2>3. BuildsInv' /\ StoreInv' BY <2>1, <2>2, TimePasses
  <2>4. CoreType'
    <3>1. \A p \in Pipelines : landed[p] \in 0 .. now + 1 BY <1>1, <2>2 DEF CoreType
    <3>2. landed \in [Pipelines -> 0 .. now + 1] BY <1>1, <3>1 DEF CoreType
    <3> QED BY <1>1, <2>1, <2>2, <3>2 DEF CoreType
  <2> QED BY <2>3, <2>4
<1>7. CASE \E p \in Pipelines : Land(p)
  <2>1. PICK p \in Pipelines : Land(p) BY <1>7
  <2>2. now' = now /\ landed' = [landed EXCEPT ![p] = now] /\ builds' = builds /\ store' = store /\ fresh' = fresh
    BY <2>1 DEF Land
  <2>3. now \in Nat BY <1>1 DEF CoreType
  <2>4. BuildsInv' /\ StoreInv' BY <2>2, <2>3, TimePasses
  <2>5. CoreType' BY <1>1, <2>2, <2>3 DEF CoreType
  <2> QED BY <2>4, <2>5
<1>8. CASE UNCHANGED vars
  <2>1. now' = now /\ landed' = landed /\ builds' = builds /\ store' = store /\ fresh' = fresh BY <1>8 DEF vars
  <2>2. now \in Nat BY <1>1 DEF CoreType
  <2>3. BuildsInv' /\ StoreInv' BY <2>1, <2>2, TimePasses
  <2> QED BY <1>1, <2>1, <2>3 DEF CoreType
<1> QED BY <1>3, <1>4, <1>5, <1>6, <1>7, <1>8 DEF Next

\* The invariant of a table's rows and cells, and of the store.
THEOREM Inductive == Spec => []IInv
BY Initial, Preserved, PTL DEF Spec

\* No dataset, whatever landed and however the day turned while it was built,
\* mistakes what had not landed for what did not happen, but for the excuses
\* that CellsHonest names; and its rows are of the range it says.
THEOREM TablesStayHonest == Spec => []TablesHonest
BY Inductive, TablesFromInv, PTL

\* However builds, slices and deletions overlap, a dataset stays within the
\* table and the scope it came from and no brand keeps more than its share.
THEOREM StoreStaysSound == Spec => []StoreSound
BY Inductive, StoreFromInv, PTL
=============================================================================
