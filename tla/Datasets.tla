------------------------------- MODULE Datasets -------------------------------
(***************************************************************************)
(* build_dataset_query: app/dataset_builder.py and app/dataset_store.py.   *)
(* A build loads one part per view (QueryPlanner.run), judges them, asks   *)
(* each view for its newest date, and aligns the parts into one table that *)
(* is kept per brand and module.  Meanwhile the clock runs and the         *)
(* pipelines behind the views go on landing events, in order, each brand's *)
(* on its own.                                                             *)
(*                                                                         *)
(* Instants are ticks; an hour and a day are a number of ticks, a bucket   *)
(* the number of its hour or day.  One dimension stands for all of them.   *)
(***************************************************************************)
EXTENDS Integers, FiniteSets, Sequences, FiniteSetsExt

CONSTANTS
    Events,          \* what happened: [view, brand, tick, key]
    Metrics,         \* metric -> [view, additive]
    Foreign,         \* views whose rows name the dimension differently
    DayOnly,         \* views without an hour
    Brands,          \* brand ids
    BrandIds,        \* what a caller may type -> the brand it means
    DefaultBrand,
    Requests,        \* the builds asked
    Callers,         \* [module, brand]: who reads; brand None names none
    TicksPerHour, HoursPerDay, DaysPerMonth,
    PartCap,         \* the most rows one load returns
    MaxRows,         \* the most rows a dataset has
    MaxBytes,        \* the most a brand may store; a row is one byte here
    Starts,          \* the instants the model may begin at
    Lags,            \* bound: how far behind a pipeline may be then
    Horizon,         \* bound: the last instant
    MaxBuilds,       \* bound: builds asked
    MaxHandles,      \* bound: datasets ever stored
    None, AnyKey

(* A brand's id means that brand; whoever names a brand names one.         *)
ASSUME DatasetsAssumption ==
    /\ {TicksPerHour, HoursPerDay, DaysPerMonth} \subseteq Nat \ {0}
    /\ {MaxRows, MaxBytes, Horizon, MaxHandles} \subseteq Nat
    /\ Starts \subseteq 0 .. Horizon /\ \A start \in Starts : Lags \subseteq 0 .. start
    /\ IsFiniteSet(Events) /\ \A e \in Events : e.tick \in Nat
    /\ \A brand \in Brands : BrandIds[brand] = brand
    /\ \A request \in Requests :
        /\ request.grain \in {"hour", "day"}
        /\ request.range \in [preset : {"today", "yesterday", "last_days", "this_month", "last_month", None},
                               days : Nat, start : Int, end : Int]
    /\ None \notin {"today", "yesterday", "last_days", "this_month", "last_month"}

VARIABLES
    now,             \* the clock
    landed,          \* <<view, brand>> -> the events before this have landed
    builds,          \* every build asked, in order
    store,           \* handle -> dataset
    fresh            \* the next handle

vars == <<now, landed, builds, store, fresh>>

Pipelines == {<<e.view, e.brand>> : e \in Events}
NoMark == -1
Null   == -1

TicksPerDay == TicksPerHour * HoursPerDay
Day(tick) == tick \div TicksPerDay
Bucket(tick, grain) == IF grain = "hour" THEN tick \div TicksPerHour ELSE Day(tick)
DayOf(bucket, grain) == IF grain = "hour" THEN bucket \div HoursPerDay ELSE bucket
LastBucket(day, grain) == IF grain = "hour" THEN (day + 1) * HoursPerDay - 1 ELSE day

(* resolve_time_range: the days a range means when today is t. *)
Window(range, t) ==
    LET first == t - (t % DaysPerMonth) IN
    CASE range.preset = "today"      -> [start |-> t, end |-> t]
      [] range.preset = "yesterday"  -> [start |-> t - 1, end |-> t - 1]
      [] range.preset = "last_days"  -> [start |-> t - range.days, end |-> t - 1]
      [] range.preset = "this_month" -> [start |-> first, end |-> IF t - 1 > first THEN t - 1 ELSE first]
      [] range.preset = "last_month" -> [start |-> first - DaysPerMonth, end |-> first - 1]
      [] range.preset = None         -> [start |-> range.start, end |-> range.end]

(* The brands a filter selects, and the key the dataset is kept under: the *)
(* first value as it was typed, whatever the operator.                     *)
Selected(filter) ==
    CASE filter = None -> {DefaultBrand}
      [] filter # None /\ filter.op = "equals" -> {BrandIds[filter.value]}
      [] OTHER -> Brands \ {BrandIds[filter.value]}
BrandKey(filter) == IF filter = None THEN DefaultBrand ELSE filter.value

PartsOf(request) == {Metrics[m].view : m \in request.measures}

Init ==
    /\ now \in Starts
    /\ landed \in [Pipelines -> {now - lag : lag \in Lags}]
    /\ builds = <<>> /\ store = <<>> /\ fresh = 1

-----------------------------------------------------------------------------
(* The table of a build: what its loads saw.  A build that is saved stays  *)
(* as it is, and so do the cells of what was stored.                       *)

Seen(b, v) ==
    {e \in Events : /\ e.view = v /\ e.brand \in DOMAIN b.loads[v] /\ e.tick < b.loads[v][e.brand]
                    /\ Day(e.tick) \in b.asked.start .. b.asked.end}
RowOf(e, request) == <<Bucket(e.tick, request.grain), IF request.broken THEN e.key ELSE AnyKey>>
Rows(b, v) == {RowOf(e, b.request) : e \in Seen(b, v)}
Measured(events, row, request) == Cardinality({e \in events : RowOf(e, request) = row})

(* An hourly dataset drops the current hour unless it was asked for. *)
Complete(b, bucket) == b.request.grain = "day" \/ b.request.partial \/ bucket < b.current
Kept(b, v) == {r \in Rows(b, v) : Complete(b, r[1])}

(* Without dimensions every bucket of the range up to now is a row. *)
Spine(b) ==
    IF b.request.broken THEN {}
    ELSE {<<k, AnyKey>> : k \in {x \in 0 .. LastBucket(b.window.end, b.request.grain) :
                /\ DayOf(x, b.request.grain) >= b.window.start
                /\ x =< b.current /\ Complete(b, x)}}

(* A column exists once its source returned a row. *)
Columns(b) == {m \in b.request.measures : Rows(b, Metrics[m].view) # {}}
TableRows(b) == (UNION {Kept(b, v) : v \in PartsOf(b.request)}) \cup Spine(b)

\* Mutated form: one source's data settles every source's cells.
FilledByAny(b, row, m) ==
    IF Metrics[m].additive /\ \E v \in DOMAIN b.marks : row[1] =< b.marks[v] THEN 0 ELSE Null

(* A cell without a row: zero up to its source's mark, missing after it. *)
Filled(b, row, m) ==
    IF Metrics[m].additive /\ row[1] =< b.marks[Metrics[m].view] THEN 0 ELSE Null
Cell(b, row, m) ==
    LET v == Metrics[m].view
    IN  IF row \in Kept(b, v) THEN Measured(Seen(b, v), row, b.request) ELSE Filled(b, row, m)

-----------------------------------------------------------------------------
(* The build.                                                              *)

Put(f, x, y) == [z \in DOMAIN f \cup {x} |-> IF z = x THEN y ELSE f[z]]
Becomes(i, b) == builds' = [builds EXCEPT ![i] = b]
NoMap == [x \in {} |-> 0]

(* The planner resolves the range when the call starts. *)
Asked(request) ==
    [request |-> request, pc |-> "loading", asked |-> Window(request.range, Day(now)),
     loads |-> NoMap, current |-> 0, window |-> None, marks |-> NoMap, probed |-> NoMap]
Start(request) ==
    /\ Len(builds) < MaxBuilds
    /\ builds' = Append(builds, Asked(request))
    /\ UNCHANGED <<now, landed, store, fresh>>

(* What a load of a view reads now: each brand it selects, as far as that  *)
(* one has landed.                                                         *)
Reading(v, brands) == [brand \in {x \in brands : <<v, x>> \in Pipelines} |-> landed[<<v, brand>>]]
Load(i) ==
    /\ builds[i].pc = "loading"
    /\ \E v \in PartsOf(builds[i].request) \ DOMAIN builds[i].loads :
        Becomes(i, [builds[i] EXCEPT !.loads = Put(builds[i].loads, v, Reading(v, Selected(builds[i].request.filter)))])
    /\ UNCHANGED <<now, landed, store, fresh>>

LoadFails(i) ==
    /\ builds[i].pc = "loading" /\ DOMAIN builds[i].loads # PartsOf(builds[i].request)
    /\ Becomes(i, [builds[i] EXCEPT !.pc = "refused"])
    /\ UNCHANGED <<now, landed, store, fresh>>

(* _part and _check_alignment: what a part is refused for.                 *)
Unalignable(b) ==
    \E v \in PartsOf(b.request) :
        (v \in DayOnly /\ b.request.grain = "hour") \/ (v \in Foreign /\ b.request.broken /\ Rows(b, v) # {})
CutOff(b) == \E v \in PartsOf(b.request) : Cardinality(Rows(b, v)) >= PartCap

(* Then the range is resolved once more and the current bucket is read.    *)
Aligned(b) ==
    [b EXCEPT !.pc = "probing", !.current = Bucket(now, b.request.grain), !.window = Window(b.request.range, Day(now))]

\* Mutated form: parts that were cut off or do not align are loaded again.
JudgeAgain(i) ==
    /\ builds[i].pc = "loading" /\ DOMAIN builds[i].loads = PartsOf(builds[i].request)
    /\ Becomes(i, IF CutOff(builds[i]) \/ Unalignable(builds[i]) THEN [builds[i] EXCEPT !.loads = NoMap]
                  ELSE Aligned(builds[i]))
    /\ UNCHANGED <<now, landed, store, fresh>>

Judge(i) ==
    /\ builds[i].pc = "loading" /\ DOMAIN builds[i].loads = PartsOf(builds[i].request)
    /\ Becomes(i, IF CutOff(builds[i]) \/ Unalignable(builds[i]) THEN [builds[i] EXCEPT !.pc = "refused"]
                  ELSE Aligned(builds[i]))
    /\ UNCHANGED <<now, landed, store, fresh>>

(* A view is asked for the newest date of the brand key.  The answer may   *)
(* be one it gave earlier (the probe's cache), or none.  A view that holds *)
(* later data has landed the whole range; otherwise its own last bucket    *)
(* before the current one is its mark.                                     *)
HoldsLater(v, brand, before, day) ==
    \E e \in Events : e.view = v /\ e.brand = brand /\ e.tick < before /\ Day(e.tick) > day
LastObserved(b, v) ==
    LET buckets == {r[1] : r \in Rows(b, v)} \cap 0 .. b.current - 1
    IN  IF buckets = {} THEN NoMark ELSE Max(buckets)
Marked(b, v, mark, before) == [b EXCEPT !.marks = Put(b.marks, v, mark), !.probed = Put(b.probed, v, before)]
Answers(v, brand) == IF <<v, brand>> \in Pipelines THEN 0 .. landed[<<v, brand>>] ELSE {0}
Probe(i) ==
    /\ builds[i].pc = "probing" /\ DOMAIN builds[i].marks # PartsOf(builds[i].request)
    /\ LET b   == builds[i]
           key == BrandKey(b.request.filter)
           v   == CHOOSE view \in PartsOf(b.request) : view \notin DOMAIN b.marks
       IN  \E before \in Answers(v, key) :
            Becomes(i, IF HoldsLater(v, key, before, b.window.end)
                       THEN Marked(b, v, LastBucket(b.window.end, b.request.grain), before)
                       ELSE Marked(b, v, LastObserved(b, v), 0))
    /\ UNCHANGED <<now, landed, store, fresh>>

-----------------------------------------------------------------------------
(* The store.                                                              *)

Bytes(datasets) == Cardinality(UNION {{h} \X store[h].rows : h \in datasets})
Used(brand) == Bytes({h \in DOMAIN store : store[h].brand = brand})

Fits(brand, mod, rows) ==
    Cardinality(rows) =< MaxRows /\ Used(brand) + Cardinality(rows) =< MaxBytes
Saved(ds) ==
    /\ fresh =< MaxHandles
    /\ store' = Put(store, fresh, ds) /\ fresh' = fresh + 1

(* Align, check and insert in one step of the event loop. *)
Finish(i) ==
    LET b   == builds[i]
        key == BrandKey(b.request.filter)
    IN  /\ b.pc = "probing" /\ DOMAIN b.marks = PartsOf(b.request)
        /\ IF Fits(key, b.request.module, TableRows(b))
           THEN /\ Becomes(i, [b EXCEPT !.pc = "saved"])
                /\ Saved([of |-> i, module |-> b.request.module, brand |-> key,
                          rows |-> TableRows(b), columns |-> Columns(b)])
           ELSE Becomes(i, [b EXCEPT !.pc = "refused"]) /\ UNCHANGED <<store, fresh>>
        /\ UNCHANGED <<now, landed>>

(* A handle of another module is unknown, and of another brand too when    *)
(* the caller names one.  Reading and listing go by the same test.         *)
Reaches(caller, h) ==
    /\ h \in DOMAIN store /\ store[h].module = caller.module
    /\ caller.filter # None => store[h].brand = BrandKey(caller.filter)
Delete(caller, h) ==
    /\ Reaches(caller, h)
    /\ store' = [other \in DOMAIN store \ {h} |-> store[other]]
    /\ UNCHANGED <<now, landed, builds, fresh>>

\* Mutated form: a slice is kept under the scope of whoever cut it.
SliceScopeOfCaller(caller, h) == [module |-> caller.module, brand |-> BrandKey(caller.filter)]

(* A slice kept as a dataset stays where its parent is. *)
SliceScope(caller, h) == [module |-> store[h].module, brand |-> store[h].brand]

(* Rows of a window of buckets or of some values of the dimension, and the *)
(* columns named; kept as a new dataset if asked and if it fits.           *)
Windows(h) == {{r \in store[h].rows : r[1] =< last} : last \in {r[1] : r \in store[h].rows}}
Where(h) == {{r \in store[h].rows : r[2] = key} : key \in {r[2] : r \in store[h].rows}}
Slice(caller, h) ==
    /\ Reaches(caller, h)
    /\ \E rows \in Windows(h) \cup Where(h), columns \in {store[h].columns} \cup {{m} : m \in store[h].columns} :
        LET scope == SliceScope(caller, h) IN
        IF Fits(scope.brand, scope.module, rows)
        THEN Saved([of |-> store[h].of, module |-> scope.module, brand |-> scope.brand, rows |-> rows, columns |-> columns])
        ELSE UNCHANGED <<store, fresh>>
    /\ UNCHANGED <<now, landed, builds>>

-----------------------------------------------------------------------------
(* The clock, and the pipelines: a run lands all that has happened.  Both  *)
(* are bounded to the time a build takes: Init offers the states they      *)
(* reach before it.                                                        *)

Running == \E i \in DOMAIN builds : builds[i].pc \in {"loading", "probing"}
Tick == Running /\ now < Horizon /\ now' = now + 1 /\ UNCHANGED <<landed, builds, store, fresh>>
Land(p) ==
    /\ Running /\ landed[p] < now /\ landed' = [landed EXCEPT ![p] = now]
    /\ UNCHANGED <<now, builds, store, fresh>>

BuildStep(i) == Load(i) \/ LoadFails(i) \/ Judge(i) \/ Probe(i) \/ Finish(i)
Next ==
    \/ \E request \in Requests : Start(request)
    \/ \E i \in DOMAIN builds : BuildStep(i)
    \/ \E caller \in Callers, h \in DOMAIN store : Delete(caller, h) \/ Slice(caller, h)
    \/ Tick
    \/ \E p \in Pipelines : Land(p)

(* The HTTP client's timeout answers every load and every probe, and the   *)
(* event loop runs every task that can go on.                              *)
Fairness == \A i \in 1 .. MaxBuilds : WF_vars(i \in DOMAIN builds /\ BuildStep(i))
Spec == Init /\ [][Next]_vars /\ Fairness

-----------------------------------------------------------------------------

TypeOK ==
    /\ now \in 0 .. Horizon /\ landed \in [Pipelines -> 0 .. now] /\ fresh \in 1 .. MaxHandles + 1
    /\ \A i \in DOMAIN builds : builds[i].pc \in {"loading", "probing", "saved", "refused"}
    /\ DOMAIN store \subseteq 1 .. fresh - 1 /\ \A h \in DOMAIN store : store[h].of \in DOMAIN builds

Finished == {i \in DOMAIN builds : builds[i].pc = "saved"}
True(b, row, m) ==
    Measured({e \in Events : e.view = Metrics[m].view /\ e.brand \in Selected(b.request.filter) /\ e.tick < now}, row, b.request)

(* What excuses a false zero: its bucket is the last one the source had    *)
(* reached, of which a part may still have been under way; or the newest   *)
(* date was read for other rows, after more of them had landed.            *)
UnderWay(b, row, v) == row[1] = LastObserved(b, v)
LandedSince(b, v) ==
    LET key == BrandKey(b.request.filter)
    IN  key \notin DOMAIN b.loads[v] \/ b.probed[v] > b.loads[v][key]

ZeroReal(b, row, m) ==
    LET v == Metrics[m].view IN
    Cell(b, row, m) = 0 => True(b, row, m) = 0 \/ UnderWay(b, row, v) \/ LandedSince(b, v)

(* What the tool tells its callers ("0 is a real zero", build of           *)
(* dataset_builder.py), the two excuses apart.  It does not hold when the  *)
(* day turns between the loads and the second resolution of the range: the *)
(* new day's rows were never loaded, and are filled with zeros.            *)
ZeroIsReal ==
    \A i \in Finished : \A row \in TableRows(builds[i]), m \in Columns(builds[i]) : ZeroReal(builds[i], row, m)

(* Unless the day turned while it was built, a zero tells that nothing     *)
(* happened; and a number before its source's last bucket tells all that   *)
(* did, if it is one brand's (each brand has a pipeline of its own).  No   *)
(* dataset mistakes what had not landed when it was read for what did not  *)
(* happen (dataset_builder.py, _align).                                    *)
OneBrand(b, v) == \A x, y \in DOMAIN b.loads[v] : x = y
CellsHonest ==
    \A i \in Finished : LET b == builds[i] IN \A row \in TableRows(b), m \in Columns(b) :
        LET v == Metrics[m].view IN
        /\ b.window = b.asked => ZeroReal(b, row, m)
        /\ (Cell(b, row, m) > 0 /\ row[1] < LastObserved(b, v) /\ OneBrand(b, v)) => Cell(b, row, m) = True(b, row, m)

(* Unless the day turned while it was built, a dataset's rows are those of *)
(* the range it says.                                                      *)
RowsInRange ==
    \A i \in Finished : LET b == builds[i] IN
        b.window = b.asked => \A row \in TableRows(b) : DayOf(row[1], b.request.grain) \in b.window.start .. b.window.end
TablesHonest == TypeOK /\ CellsHonest /\ RowsInRange

(* Whoever reads, lists or slices: the answer is of the caller's module    *)
(* and of the brand it names, a slice lies within the table it was cut     *)
(* from and in its scope, and no brand keeps more than its share, however  *)
(* the builds overlap.                                                     *)
ScopeKept ==
    \A h \in DOMAIN store : LET of == builds[store[h].of] IN
        /\ store[h].rows \subseteq TableRows(of)
        /\ store[h].module = of.request.module /\ store[h].brand = BrandKey(of.request.filter)
QuotaKept == \A h \in DOMAIN store : Used(store[h].brand) =< MaxBytes /\ Cardinality(store[h].rows) =< MaxRows
StoreSound == ScopeKept /\ QuotaKept

(* Every build ends. *)
Building(i) == i \in DOMAIN builds /\ builds[i].pc \in {"loading", "probing"}
BuildsEnd == \A i \in 1 .. MaxBuilds : Building(i) ~> ~Building(i)
=============================================================================
