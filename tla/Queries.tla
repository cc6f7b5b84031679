------------------------------- MODULE Queries -------------------------------
(***************************************************************************)
(* Metric queries at work: app/query_planner.py (run, _run_single_view,    *)
(* drilldown), app/result_store.py and semantic_layer/cube_client.py.      *)
(* A call is split into parts that run concurrently (asyncio.gather); each *)
(* part loads from Cube, then saves its row.  A part that fails fails the  *)
(* call at once, and its siblings run on.                                  *)
(***************************************************************************)
EXTENDS QueryPlanner, TLC

CONSTANTS
    Catalogues,      \* the catalogues that may be served
    Requests,        \* what metrics_query is asked
    DrillFilters,    \* sets of filters a drill may add
    DrillTargets,    \* sets of dimensions a drill may name
    Granularities,   \* granularities a drill may ask for; None inherits
    ContinueWaits,   \* how often a load waits for Cube to finish building
    Ttl,             \* how long a row is kept
    MaxAsks,         \* bound: queries asked
    MaxCalls,        \* bound: queries asked and drills
    Horizon          \* bound: the last instant

(* A request's measures are a list, its filters are FilterSpecs.           *)
FilterSpec(f) == f = [dim |-> f.dim, op |-> f.op, values |-> f.values]
QueryRequest(r) ==
    /\ r = [measures |-> r.measures, dims |-> r.dims, filters |-> r.filters, granularity |-> r.granularity,
            compare |-> r.compare, axis |-> r.axis, sort |-> r.sort, today |-> r.today]
    /\ IsFiniteSet(r.measures) /\ \A f \in r.filters : FilterSpec(f)
ASSUME QueriesAssumption ==
    /\ Ttl \in Nat /\ None \notin {"order_date", "event_date", DefaultAxis}
    /\ \A r \in Requests : QueryRequest(r)
    /\ \A added \in DrillFilters : \A f \in added : FilterSpec(f)

(* The payment breakdown is read for some names that are another          *)
(* dimension's id (payment_type); no view carries both, and neither has a  *)
(* sibling, so that the one never stands for the other.                    *)
ASSUME CatalogueAssumption ==
    \A c \in Catalogues : \A d \in Ids(c.dimensions) \ {"payment_bucket"} :
        (<<d>> \in PaymentWords /\ "payment_bucket" \in Ids(c.dimensions)) =>
            /\ c.dimensions[d].family = None /\ c.dimensions["payment_bucket"].family = None
            /\ Ids(c.dimensions[d].views) \cap Ids(c.dimensions["payment_bucket"].views) = {}

VARIABLES
    now,             \* the clock of the store
    store,           \* query id -> its row
    calls,           \* every call made, in order
    fresh            \* the next query id

vars == <<cat, now, store, calls, fresh>>

Init ==
    /\ cat \in Catalogues
    /\ now = 0 /\ store = <<>> /\ calls = <<>> /\ fresh = 1

Loads(p) == [main |-> MainLoads(p), undated |-> UndatedLoads(p), coverage |-> CoverageLoads(p)]

(* A part keeps its request with report_date read as the day it is         *)
(* answered by.                                                            *)
Dated(p) == [p.request EXCEPT !.dims = Dims(p)]

(* A part that the view refuses never loads. *)
NoLoads == [main |-> {}, undated |-> {}, coverage |-> {}]
Begun(p, pc, loads) ==
    [request |-> Dated(p), loads |-> loads, id |-> 0, pc |-> pc, waits |-> [l \in loads.main |-> 0]]
Started(p) == IF PartRefused(p) THEN Begun(p, "failed", NoLoads) ELSE Begun(p, "main", Loads(p))

(* One part answers under its own id; several get a parent row, whose id   *)
(* they name from the start.                                               *)
CallOf(parts, from, row) ==
    [from |-> from, read |-> row, parts |-> parts, parent |-> IF Len(parts) > 1 THEN fresh ELSE from,
     state |-> IF parts = <<>> \/ \E i \in DOMAIN parts : parts[i].pc = "failed" THEN "failed" ELSE "running"]
Call(request, from, row) == CallOf(SetToSeq({Started(p) : p \in Sorted(Parts(request))}), from, row)
Composed(c) == Len(c.parts) > 1
Placed(c) ==
    /\ calls' = Append(calls, c)
    /\ fresh' = IF Composed(c) THEN fresh + 1 ELSE fresh

Ask(request) ==
    /\ Len(calls) < MaxAsks
    /\ Placed(Call(request, 0, None)) /\ UNCHANGED <<cat, now, store>>

(* A drill reads the parent's row, which must be alive and not composed. *)
Alive(id) == id \in DOMAIN store /\ store[id].expires > now
Drillable(id) == Alive(id) /\ ~store[id].composed
Drill(id, dims, added, granularity) ==
    /\ Len(calls) < MaxCalls /\ Drillable(id)
    /\ Placed(Call(ChildRequest(store[id].request, dims, added, granularity), id, store[id]))
    /\ UNCHANGED <<cat, now, store>>
DrillHierarchy(id, h, level) ==
    /\ Drillable(id)
    /\ \E target \in HierarchyTarget(store[id].request, h, level) :
        Drill(id, DrillDims(store[id].request, h, target), {}, None)

-----------------------------------------------------------------------------
(* The loads of a part, stage by stage.                                    *)

Running(k, i) == calls[k].parts[i].pc \in {"main", "undated", "coverage"}

(* The next stage that has something to load, or the save. *)
Later == [main |-> {"undated", "coverage"}, undated |-> {"coverage"}, coverage |-> {}]
Onward(part) ==
    LET due == {s \in Later[part.pc] : part.loads[s] # {}}
        pc  == IF due = {} THEN "save" ELSE IF "undated" \in due THEN "undated" ELSE "coverage"
    IN  [part EXCEPT !.pc = pc, !.waits = IF due = {} THEN <<>> ELSE [l \in part.loads[pc] |-> 0]]

CubeAnswers(k, i) ==
    /\ Running(k, i)
    /\ \E l \in DOMAIN calls[k].parts[i].waits :
        LET left == Restrict(calls[k].parts[i].waits, DOMAIN calls[k].parts[i].waits \ {l})
        IN  calls' = [calls EXCEPT ![k].parts[i] = IF left = <<>> THEN Onward(@) ELSE [@ EXCEPT !.waits = left]]
    /\ UNCHANGED <<cat, now, store, fresh>>

\* Mutated form: a load waits for as long as Cube says so.
CubeWaitsOn(k, i) ==
    /\ Running(k, i)
    /\ \E l \in DOMAIN calls[k].parts[i].waits :
        calls' = [calls EXCEPT ![k].parts[i].waits[l] = (@ + 1) % (ContinueWaits + 1)]
    /\ UNCHANGED <<cat, now, store, fresh>>

CubeWaits(k, i) ==
    /\ Running(k, i)
    /\ \E l \in DOMAIN calls[k].parts[i].waits :
        /\ calls[k].parts[i].waits[l] < ContinueWaits
        /\ calls' = [calls EXCEPT ![k].parts[i].waits[l] = @ + 1]
    /\ UNCHANGED <<cat, now, store, fresh>>

(* A refusal, an error or one wait too many: coverage is a disclosure and  *)
(* only goes missing, anything else fails the call.                        *)
CubeFails(k, i) ==
    /\ Running(k, i)
    /\ calls' = IF calls[k].parts[i].pc = "coverage" THEN [calls EXCEPT ![k].parts[i] = Onward(@)]
                ELSE [calls EXCEPT ![k].parts[i] = [@ EXCEPT !.pc = "failed", !.waits = <<>>], ![k].state = "failed"]
    /\ UNCHANGED <<cat, now, store, fresh>>

Kept == {id \in DOMAIN store : store[id].expires > now}
Saved(id, row) == [x \in {id} \cup Kept |-> IF x = id THEN row ELSE store[x]]

(* The part's row carries the request as it was answered. *)
Save(k, i) ==
    /\ calls[k].parts[i].pc = "save"
    /\ store' = Saved(fresh, [parent |-> calls[k].parent, composed |-> FALSE, request |-> calls[k].parts[i].request,
                              loads |-> calls[k].parts[i].loads.main, parts |-> {}, expires |-> now + Ttl])
    /\ calls' = [calls EXCEPT ![k].parts[i] = [@ EXCEPT !.pc = "saved", !.id = fresh],
                              ![k].state = IF Composed(calls[k]) THEN @ ELSE "answered"]
    /\ fresh' = fresh + 1 /\ UNCHANGED <<cat, now>>

\* Mutated form: the parent's row is written when the first part is there.
ComposeEarly(k) ==
    /\ calls[k].state = "running" /\ Composed(calls[k])
    /\ \E i \in DOMAIN calls[k].parts : calls[k].parts[i].pc = "saved"
    /\ store' = Saved(calls[k].parent, [parent |-> calls[k].from, composed |-> TRUE, request |-> None, loads |-> {},
                              parts |-> {calls[k].parts[i].id : i \in DOMAIN calls[k].parts}, expires |-> now + Ttl])
    /\ calls' = [calls EXCEPT ![k].state = "answered"]
    /\ UNCHANGED <<cat, now, fresh>>

(* When every part is there, the parent's row, which only names them. *)
Compose(k) ==
    /\ calls[k].state = "running" /\ Composed(calls[k])
    /\ \A i \in DOMAIN calls[k].parts : calls[k].parts[i].pc = "saved"
    /\ store' = Saved(calls[k].parent, [parent |-> calls[k].from, composed |-> TRUE, request |-> None, loads |-> {},
                              parts |-> {calls[k].parts[i].id : i \in DOMAIN calls[k].parts}, expires |-> now + Ttl])
    /\ calls' = [calls EXCEPT ![k].state = "answered"]
    /\ UNCHANGED <<cat, now, fresh>>

Tick == now < Horizon /\ now' = now + 1 /\ UNCHANGED <<cat, store, calls, fresh>>

PartStep(k, i) == CubeAnswers(k, i) \/ CubeWaits(k, i) \/ CubeFails(k, i) \/ Save(k, i)

Next ==
    \/ \E request \in Requests : Ask(request)
    \/ \E id \in DOMAIN store, dims \in DrillTargets, added \in DrillFilters, g \in Granularities : Drill(id, dims, added, g)
    \/ \E id \in DOMAIN store, h \in Ids(cat.hierarchies) :
        \E level \in {None} \cup ToSet(cat.hierarchies[h].levels) : DrillHierarchy(id, h, level)
    \/ \E k \in DOMAIN calls : \E i \in DOMAIN calls[k].parts : PartStep(k, i)
    \/ \E k \in DOMAIN calls : Compose(k)
    \/ Tick

(* The HTTP client's timeout answers every load; the event loop runs every *)
(* task that can go on.                                                    *)
MaxParts == 3
Fairness ==
    /\ \A k \in 1 .. MaxCalls, i \in 1 .. MaxParts :
        WF_vars(k \in DOMAIN calls /\ i \in DOMAIN calls[k].parts /\ PartStep(k, i))
    /\ \A k \in 1 .. MaxCalls : WF_vars(k \in DOMAIN calls /\ Compose(k))

Spec == Init /\ [][Next]_vars /\ Fairness

-----------------------------------------------------------------------------

PartsOf(k) == ToSet(calls[k].parts)
AllParts == UNION {PartsOf(k) : k \in DOMAIN calls}
LoadsOf(part) == part.loads.main \cup part.loads.undated

On(load, d) == IF OnView(cat, d, load.view) THEN {f \in load.filters : f.member = cat.dimensions[d].views[load.view]} ELSE {}
Cut(load, d) == OnView(cat, d, load.view) /\ (cat.dimensions[d].views[load.view] \in load.dims \/ On(load, d) # {})

(* A view that repeats the full total once per slice is read at exactly    *)
(* one of them (or row by row), and that one reports every breakdown asked *)
(* (query_planner.py, _pick_slice and _guard_breakdown).                   *)
OneSlice(load) ==
    /\ \A m \in load.metrics : \A b \in ToSet(cat.metrics[m].bindings) : (b.slice # None /\ b.view = load.view) =>
        \/ cat.dimensions[b.slice].views[load.view] \in load.dims
        \/ \E f \in On(load, b.slice) :
            /\ f.op = "equals" /\ Cardinality(f.values) = 1
            /\ \A d \in Ids(b.slices) : Cut(load, d) => f.values \subseteq ToSet(b.slices[d])
    /\ load.view \in BreakdownViews =>
        \E f \in On(load, "breakdown_type") : f.op = "equals" /\ Cardinality(f.values) = 1

(* A metric, or a breakdown, that exists for some values only is loaded    *)
(* with a filter that keeps it there; a caller's filter that is no         *)
(* equality test stands as it is.                                          *)
KeptWithin(load, asked, d, allowed) ==
    \/ \E f \in On(load, d) : f.op = "equals" /\ f.values \subseteq Widened(allowed)
    \/ \E f \in asked : f.dim = d /\ f.op # "equals"
InRange(load, asked) ==
    /\ \A m \in load.metrics : \A d \in Ids(cat.metrics[m].validFor) : KeptWithin(load, asked, d, cat.metrics[m].validFor[d])
    /\ \A x \in Ids(cat.dimensions) : (cat.semantic >= 3 /\ Cut(load, x)) =>
        \A d \in Ids(cat.dimensions[x].validFor) : OnView(cat, d, load.view) =>
            KeptWithin(load, asked, d, cat.dimensions[x].validFor[d])

(* One clock: a cohort measure is never dated by its outcomes, a metric    *)
(* asked by event date is.                                                 *)
OneClock(load, axis) ==
    /\ \A m \in load.metrics : cat.metrics[m].axis = "cohort_only" => load.time = None \/ load.time[2] # "event_date"
    /\ (axis = "event_date" /\ load.kind = "main") =>
        \A m \in load.metrics : cat.metrics[m].axis = "switchable" => load.time[2] = "event_date"

(* Whatever the request, the bindings and the forced filters, no load      *)
(* double-counts a slice, answers outside a metric's range, mixes clocks   *)
(* or, by a binding, reads a view the gate took away.                      *)
HonestLoads ==
    \A part \in AllParts : \A load \in LoadsOf(part) :
        load.view \in Ids(cat.views) /\ OneSlice(load) /\ InRange(load, part.request.filters) /\ OneClock(load, part.request.axis)

(* A load of a view that carries the brand reads exactly one brand, the    *)
(* default one if none was asked for: the main load, the undated outcomes  *)
(* and the attribution coverage alike.  Only a caller who asks for it gets *)
(* brands together, by a filter of several values or one that is no        *)
(* equality test, and then under that very filter, its names read as ids.  *)
BrandsAsked(request) == {f \in request.filters : Reading(f.dim) = "brand_id"}
AsksOneBrand(request) == \A f \in BrandsAsked(request) : f.op = "equals" /\ \E v \in f.values : f.values = {v}
ReadsOneBrand(load) == \E f \in On(load, "brand_id") : f.op = "equals" /\ \E v \in f.values : f.values = {v}
BrandIds(f) == IF f.op \in {"equals", "notEquals"} THEN UNION {BrandFilterValue(<<v>>) : v \in f.values} ELSE f.values
BrandHeld(load, request) ==
    /\ AsksOneBrand(request) => ReadsOneBrand(load)
    /\ BrandsAsked(request) = {} => \E f \in On(load, "brand_id") : f.op = "equals" /\ f.values = {DefaultBrand}
    /\ load.kind # "coverage" =>
        \A f \in BrandsAsked(request) : \E g \in On(load, "brand_id") : g.op = f.op /\ g.values = BrandIds(f)
BrandKept ==
    DefaultBrand # None =>
        \A part \in AllParts : \A load \in LoadsOf(part) \cup part.loads.coverage :
            OnView(cat, "brand_id", load.view) => BrandHeld(load, part.request)

(* Coverage is reported "for the same brand and period" as the answer it   *)
(* goes with (query_planner.py:1161-1162).  Its brand is the first equals  *)
(* filter's, as typed, or else the default one.                            *)
CoverageOfBrand ==
    \A part \in AllParts : \A main \in part.loads.main, coverage \in part.loads.coverage :
        OnView(cat, "brand_id", main.view) =>
            {<<f.op, f.values>> : f \in On(main, "brand_id")} = {<<f.op, f.values>> : f \in On(coverage, "brand_id")}

(* A drill only narrows: on the parent's view it loads under all of the    *)
(* parent's filters, its default brand aside, and on the parent's axis.    *)
ByDefault(load, f) == f \in On(load, "brand_id") /\ f.values = {DefaultBrand}
ChildNarrows ==
    \A k \in DOMAIN calls : calls[k].read # None =>
        \A part \in PartsOf(k) : \A load \in part.loads.main : \A parent \in calls[k].read.loads :
            load.view = parent.view =>
                /\ {f \in parent.filters : ~ByDefault(parent, f)} \subseteq load.filters
                /\ part.request.axis = calls[k].read.request.axis

(* A composed row appears when all its parts are saved, names just them,   *)
(* and never before a failure; while one of its parts can be drilled into, *)
(* so can the row be told apart from it.                                   *)
PartsBeforeParent ==
    \A k \in DOMAIN calls : Composed(calls[k]) => LET parent == calls[k].parent IN
        /\ parent \in DOMAIN store =>
            /\ calls[k].state = "answered" /\ store[parent].parts = {part.id : part \in PartsOf(k)}
            /\ \A part \in PartsOf(k) : part.pc = "saved"
        /\ calls[k].state = "answered" => \A part \in PartsOf(k) : Alive(part.id) => Alive(parent)

(* Every call ends: Cube is waited for a bounded number of times. *)
Open(k) == k \in DOMAIN calls /\ calls[k].state = "running"
CallsEnd == \A k \in 1 .. MaxCalls : Open(k) ~> ~Open(k)

TypeOK ==
    /\ now \in 0 .. Horizon /\ fresh \in Nat /\ DOMAIN store \subseteq 1 .. fresh - 1
    /\ \A k \in DOMAIN calls : calls[k].state \in {"running", "failed", "answered"} /\ Len(calls[k].parts) =< MaxParts
    /\ \A part \in AllParts : part.pc \in {"main", "undated", "coverage", "save", "saved", "failed"}
    /\ \A part \in AllParts : \A l \in DOMAIN part.waits : part.waits[l] \in 0 .. ContinueWaits

(* Every load of every part, at every instant, is honest and well formed.  *)
LoadsSound == TypeOK /\ HonestLoads
=============================================================================
