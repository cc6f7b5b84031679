----------------------------- MODULE QueryPlanner -----------------------------
(***************************************************************************)
(* From a request to the Cube queries it becomes, app/query_planner.py:    *)
(* the names resolved, one date axis, the values a metric is valid for,    *)
(* the bindings and their slices, one query per view and clock.            *)
(*                                                                         *)
(* A request names its measures, dimensions and filter dimensions by texts;*)
(* CanonicalRequest turns the last two into ids.  A refusal (PlanError) is *)
(* the empty set where one result is expected, or a predicate.             *)
(***************************************************************************)
EXTENDS CatalogueService

CONSTANTS
    DefaultAxis,       \* the axis of a request that names none
    DefaultBrand,      \* the brand of a request that names none, or None
    BreakdownViews,    \* views that repeat their total once per breakdown_type
    CoverageView,      \* the view attribution coverage is read from
    AttributionViews,  \* the views whose slices lean on order attribution
    AttributionDims    \* the dimensions that do

Filter(d, values)   == [dim |-> d, op |-> "equals", values |-> values]
OneOf(S, otherwise) == IF S = {} THEN otherwise ELSE CHOOSE x \in S : TRUE
CanonDim(text)      == OneOf(ResolveDimension(text), Token(text))
Reading(id)         == CanonDim(<<id>>)

(* A measure's text stands for at most one metric; a term may add filters. *)
OneReference(m, axis, filter) ==
    {[id |-> x, wanted |-> axis, filter |-> filter] : x \in {m} \cap {y \in Ids(cat.metrics) : Queryable(cat.metrics[y])}}
TermReference(term) ==
    IF term.kind # "metric" THEN {}
    ELSE OneReference(term.metric, IF cat.semantic >= 3 /\ term.date = "event_date" THEN "event_date" ELSE None, term.filter)
AliasReference(al) == IF al.refused THEN {} ELSE OneReference(al.metric, al.axis, <<>>)
Reference(text) ==
    IF RetiredTerm(text) # {} THEN {}
    ELSE IF MetricAlias(text) # {} THEN UNION {AliasReference(cat.metricAliases[a]) : a \in MetricAlias(text)}
    ELSE IF ResolveMetricId(text) # {} THEN UNION {OneReference(m, None, <<>>) : m \in ResolveMetricId(text)}
    ELSE TermReference(ResolveTerm(text))

(* A term's filter yields to the caller's on the same dimension. *)
CanonicalRequest(req, refs) ==
    LET own   == {[f EXCEPT !.dim = CanonDim(f.dim)] : f \in req.filters}
        terms == UNION {{Filter(d, {r.filter[d]}) : d \in DOMAIN r.filter} : r \in refs}
    IN  [req EXCEPT !.dims = {CanonDim(d) : d \in @},
                    !.filters = own \cup {t \in terms : \A f \in own : f.dim # t.dim}]
AskedMetrics(refs) == {cat.metrics[r.id] @@ [id |-> r.id, wanted |-> r.wanted] : r \in refs}

-----------------------------------------------------------------------------
(* One date axis per query (semantic v3).                                  *)

OneAxis(ms, asked) ==
    LET wanted == {m.wanted : m \in ms} \ {None}
        plain  == {m \in ms : m.axis = "switchable" /\ m.wanted = None}
        cohort == {m \in ms : m.axis = "cohort_only"}
        base   == IF asked = None /\ wanted = {} /\ cohort # {} THEN "order_date" ELSE DefaultAxis
        eff    == IF asked # None THEN asked ELSE IF "event_date" \in wanted THEN "event_date" ELSE base
        clash  == \/ asked # None /\ wanted \ {asked} # {}
                  \/ asked = None /\ "event_date" \in wanted /\ plain # {} /\ base # "event_date"
                  \/ eff = "event_date" /\ cohort # {}
    IN  IF clash THEN {} ELSE {eff}

OnAxis(m, axis) ==
    IF m.axis \in {"switchable", "placement_only"} /\ axis = "event_date" /\ m.axisDimensions # <<>>
    THEN [m EXCEPT !.time = m.axisDimensions["event_date"]] ELSE m

-----------------------------------------------------------------------------
(* Values: those not supported, those a metric or a dimension exists for.  *)

AskedDims(req) == req.dims \cup {f.dim : f \in req.filters}

UnsupportedValue(req) ==
    \E f \in req.filters : /\ f.dim \in Ids(cat.dimensions) /\ f.op \in {"equals", "contains", "startsWith"}
                           /\ f.values \cap cat.dimensions[f.dim].unsupported # {}

(* A map dimension -> allowed values rules out an equals filter on another *)
(* value, and scopes a request that has no filter on the dimension at all. *)
OutOfRange(req, allowed) ==
    \E f \in req.filters : f.dim \in DOMAIN allowed /\ f.op = "equals" /\ ~(f.values \subseteq allowed[f.dim])
ScopedTo(req, allowed) ==
    {Filter(d, allowed[d]) : d \in {x \in DOMAIN allowed : \A f \in req.filters : f.dim # x}}

(* A dimension that exists for some values of another scopes the metrics   *)
(* of the views that carry both.                                           *)
LimitsOn(req, m) == {d \in AskedDims(req) \cap Ids(cat.dimensions) : OnView(cat, d, m.view)}
DimensionRefused(req, m) == \E d \in LimitsOn(req, m) : OutOfRange(req, cat.dimensions[d].validFor)
DimensionScope(req, m) ==
    {f \in UNION {ScopedTo(req, cat.dimensions[d].validFor) : d \in LimitsOn(req, m)} : OnView(cat, f.dim, m.view)}

-----------------------------------------------------------------------------
(* Bindings: another view for the granularity or the dimensions asked.     *)

BindingFor(m, req) ==
    LET fit == SelectSeq(m.bindings, LAMBDA b : req.granularity \in b.granularities \/ AskedDims(req) \cap b.dims # {})
    IN  {fit[i] : i \in {1} \cap DOMAIN fit}
Bound(m, b) ==
    [m EXCEPT !.view = b.view, !.measure = b.measure, !.pct = None, !.time = b.time,
              !.dims = {d \in Ids(cat.dimensions) : OnView(cat, d, b.view)}]

(* Every slice of a binding is a full copy of the same total.  The slices  *)
(* that hold all the breakdowns asked, in the first one's order.           *)
Wanted(b, req) == AskedDims(req) \cap Ids(b.slices)
\* Mutated form: the slices of any one breakdown asked will do.
CandidatesOfAny(b, req) == FlattenSeq(SetToSeq({b.slices[d] : d \in Wanted(b, req)}))

Candidates(b, req) ==
    SelectSeq(FlattenSeq(SetToSeq({b.slices[d] : d \in Wanted(b, req)})),
              LAMBDA s : \A d \in Wanted(b, req) : s \in ToSet(b.slices[d]))
SliceFilters(b, req) == {f \in req.filters : f.dim = b.slice}
(* Of several filters on the slice only the first is looked at; which one  *)
(* that is, like the order of any set here, is a choice.                   *)
NoSuchSlice(b, req, f) ==
    \/ f.op # "equals" \/ Cardinality(f.values) # 1
    \/ ~(f.values \subseteq UNION {ToSet(b.slices[d]) : d \in Ids(b.slices)})
    \/ Wanted(b, req) # {} /\ ~(f.values \subseteq ToSet(Candidates(b, req)))
SliceRefused(b, req) ==
    /\ b.slice # None /\ b.slice \notin req.dims
    /\ \/ \E d \in Wanted(b, req) : b.slices[d] = <<>>
       \/ Candidates(b, req) = <<>> /\ SliceFilters(b, req) = {}
       \/ SliceFilters(b, req) # {} /\ NoSuchSlice(b, req, CHOOSE f \in SliceFilters(b, req) : TRUE)
PinnedSlice(b, req) ==
    IF b.slice = None \/ b.slice \in req.dims \/ SliceFilters(b, req) # {} THEN {}
    ELSE {Filter(b.slice, {Head(Candidates(b, req))})}

RuledOut(m, req) ==
    \/ OutOfRange(req, m.validFor)
    \/ \E b \in BindingFor(m, req) : SliceRefused(b, req)
Answering(m, req) == IF BindingFor(m, req) = {} THEN m ELSE Bound(m, CHOOSE b \in BindingFor(m, req) : TRUE)
ForcedFilters(m, req) ==
    ScopedTo(req, m.validFor)
        \cup (UNION {PinnedSlice(b, req) : b \in BindingFor(m, req)})
        \cup (IF cat.semantic >= 3 THEN DimensionScope(req, Answering(m, req)) ELSE {})

-----------------------------------------------------------------------------
(* The parts of a request: one per view, clock and forced scope.           *)

EffectiveTime(m) ==
    IF m.time # None THEN m.time
    ELSE IF m.view \in Ids(cat.views) /\ cat.views[m.view].date # None THEN <<m.view, cat.views[m.view].date>> ELSE None

PartKey(m, req, bound) == <<bound.view, EffectiveTime(bound), ForcedFilters(m, req)>>
PartsByKey(req, key) ==
    LET with(k) == {m \in DOMAIN key : key[m] = k}
    IN  {[metrics |-> {Answering(m, req) : m \in with(k)}, view |-> k[1],
          request |-> [req EXCEPT !.measures = {<<m.id>> : m \in with(k)}, !.filters = @ \cup k[3]]] : k \in Range(key)}

PlanRefused(req, ms) ==
    \/ UnsupportedValue(req) \/ \E m \in ms : RuledOut(m, req)
    \/ cat.semantic >= 3 /\ \E m \in ms : DimensionRefused(req, Answering(m, req))
SplitPlan(req, ms) ==
    IF PlanRefused(req, ms) THEN {} ELSE PartsByKey(req, [m \in ms |-> PartKey(m, req, Answering(m, req))])

(* A request with no axis that all can share has no parts. *)
OneAxisPlan(req, asked) ==
    IF cat.semantic < 3 THEN SplitPlan(req, asked)
    ELSE UNION {SplitPlan([req EXCEPT !.axis = axis], {OnAxis(m, axis) : m \in asked}) : axis \in OneAxis(asked, req.axis)}
Planned(request, refs) ==
    IF \E t \in DOMAIN refs : refs[t] = {} THEN {}
    ELSE LET found == UNION Range(refs) IN OneAxisPlan(CanonicalRequest(request, found), AskedMetrics(found))
Parts(request) == Planned(request, [t \in request.measures |-> Reference(t)])

-----------------------------------------------------------------------------
(* One part: its names are checked against the view, then it is a query.   *)
(* The ids of its dimensions are read as names once more.                  *)

(* The v2 dimension report_date reads as the date of the query. *)
ReportDay(p) ==
    IF p.request.axis # None /\ \E m \in p.metrics : m.axisDimensions # <<>> THEN {p.request.axis}
    ELSE IF OnView(cat, "order_date", p.view) THEN {"order_date"} ELSE {"report_date"}
Dims(p) ==
    IF cat.semantic < 3 \/ "report_date" \notin Ids(cat.dimensions) \/ OnView(cat, "report_date", p.view) THEN p.request.dims
    ELSE UNION {IF d = "report_date" THEN ReportDay(p) ELSE {d} : d \in p.request.dims}

(* The member of the dimension's family the view carries that can hold the *)
(* values asked.                                                           *)
Sibling(d, view, values, ms) ==
    LET kin == {s \in Ids(cat.dimensions) \ {d} :
                    /\ cat.dimensions[d].family # None /\ cat.dimensions[s].family = cat.dimensions[d].family
                    /\ OnView(cat, s, view) /\ \A m \in ms : s \in m.dims
                    /\ cat.dimensions[s].values # {} => values \subseteq cat.dimensions[s].values}
    IN  Best(kin, LAMBDA s : 0 - cat.dimensions[s].rank)

BrokenDown(p, d) ==
    LET x == Reading(d)
    IN  IF x \in Ids(cat.dimensions) /\ \E m \in p.metrics : x \notin m.dims
        THEN OneOf(Sibling(x, p.view, {}, p.metrics), x) ELSE x
Filtered(p, f) ==
    LET x == Reading(f.dim)
    IN  IF x \in Ids(cat.dimensions) /\ ~OnView(cat, x, p.view)
        THEN OneOf(Sibling(x, p.view, IF f.op \in {"equals", "notEquals"} THEN f.values ELSE {}, {}), x) ELSE x

(* A filter on a metric of the view holds for the aggregated value. *)
OnMeasure(p, f) == /\ Reading(f.dim) \notin Ids(cat.dimensions) /\ f.dim \in Ids(cat.metrics)
                   /\ cat.metrics[f.dim].view = p.view

(* It is a comparison with numbers. *)
NoComparison(f) ==
    \/ f.op \notin {"equals", "notEquals", "gt", "gte", "lt", "lte", "set", "notSet"}
    \/ f.op \notin {"set", "notSet"} /\ (f.values = {} \/ ~(f.values \subseteq Numeric))

FilterRefused(p, f) ==
    LET d == Filtered(p, f) IN
    \/ \E m \in p.metrics : Reading(f.dim) \in m.excluded
    \/ OnMeasure(p, f) /\ NoComparison(f)
    \/ ~OnMeasure(p, f) /\
        \/ ~OnView(cat, d, p.view)
        \/ f.op \notin {"set", "notSet"} /\ f.values = {}
        \/ OnView(cat, d, p.view) /\ f.op \in {"equals", "notEquals"} /\ cat.dimensions[d].values # {}
              /\ ~(f.values \subseteq cat.dimensions[d].values)
        \/ d = "brand_id" /\ f.op \in {"equals", "notEquals"} /\ \E v \in f.values : BrandFilterValue(<<v>>) = {}

(* A canonical channel is widened to the tokens a view may store. *)
Widened(values) == values \cup UNION {Get(cat.channels, v, {}) : v \in values}
CubeFilter(p, f) ==
    LET d == Filtered(p, f)
        values == IF f.op \notin {"equals", "notEquals"} THEN f.values
                  ELSE IF d = "brand_id" THEN UNION {BrandFilterValue(<<v>>) : v \in f.values} ELSE Widened(f.values)
    IN  IF OnMeasure(p, f) THEN [member |-> cat.metrics[f.dim].measure, op |-> f.op, values |-> f.values]
        ELSE [member |-> cat.dimensions[d].views[p.view], op |-> f.op, values |-> values]

SortRefused(p) ==
    p.request.sort # None /\ ~(\E m \in p.metrics : ResolveMetricId(p.request.sort) = {m.id})
        /\ ~OnView(cat, CanonDim(p.request.sort), p.view)

(* A part of several keeps the sort only if it can carry it. *)
Sorted(parts) ==
    {IF Cardinality(parts) > 1 /\ SortRefused(p) THEN [p EXCEPT !.request.sort = None] ELSE p : p \in parts}

(* The part's first metric gives its clock.  An hour needs a timestamp:    *)
(* the view's, for a metric on the view's date.                            *)
ClockOf(p) ==
    LET m == CHOOSE x \in p.metrics : TRUE
    IN  IF p.request.granularity # "hour" THEN {EffectiveTime(m)}
        ELSE IF m.time = None /\ p.view \in Ids(cat.views) /\ cat.views[p.view].datetime # None
        THEN {<<p.view, cat.views[p.view].datetime>>} ELSE {}

BreakdownUnpinned(p) ==
    /\ p.view \in BreakdownViews
    /\ Cardinality({f \in p.request.filters : Reading(f.dim) = "breakdown_type" /\ f.op = "equals" /\ Cardinality(f.values) = 1}) # 1

(* A ratio's component that leads nowhere, and a view that is not served,  *)
(* end the part while its query is built.                                  *)
Unbuildable(p) ==
    \/ \E m \in p.metrics : m.ratio /\ ~(ToSet(m.components) \subseteq Ids(cat.metrics))
    \/ p.view \notin Ids(cat.views)

PartRefused(p) ==
    \/ \E d \in {BrokenDown(p, x) : x \in Dims(p)} :
        ~OnView(cat, d, p.view) \/ \E m \in p.metrics : d \in m.excluded \/ d \notin m.dims
    \/ \E f \in p.request.filters : FilterRefused(p, f)
    \/ SortRefused(p) \/ BreakdownUnpinned(p) \/ Unbuildable(p)
    \/ ClockOf(p) = {} \/ (None \in ClockOf(p) /\ p.request.granularity # "none")

\* Mutated form: any filter of the caller's lifts the default brand.
BrandScopeUnfiltered(p) ==
    IF DefaultBrand = None \/ p.request.filters # {} \/ ~OnView(cat, "brand_id", p.view) THEN {}
    ELSE {[member |-> cat.dimensions["brand_id"].views[p.view], op |-> "equals", values |-> {DefaultBrand}]}

(* Without a filter on the brand, the default one. *)
BrandScope(p) ==
    IF DefaultBrand = None \/ (\E f \in p.request.filters : Reading(f.dim) = "brand_id") \/ ~OnView(cat, "brand_id", p.view) THEN {}
    ELSE {[member |-> cat.dimensions["brand_id"].views[p.view], op |-> "equals", values |-> {DefaultBrand}]}
Members(ms, view) == {m.measure : m \in ms} \cup UNION {Get(m.members, view, {}) : m \in ms}

(* The main load and, for a comparison, the same one on the earlier        *)
(* window; cut at this time of day on the view's timestamp when today is   *)
(* in the window and every metric is on the view's own or the order clock. *)
MainLoad(p, window) ==
    LET clock == CHOOSE t \in ClockOf(p) : TRUE
        view  == cat.views[p.view]
        cut   == /\ window = "compare" /\ p.request.today /\ view.datetime # None
                 /\ \A m \in p.metrics : m.time = None /\ m.axis \in {"native", "switchable", "placement_only"}
    IN  [kind |-> "main", view |-> p.view, metrics |-> {m.id : m \in p.metrics},
         members |-> Members(p.metrics, p.view) \cup ({m.pct : m \in p.metrics} \ {None}),
         dims |-> {cat.dimensions[BrokenDown(p, d)].views[p.view] : d \in Dims(p)},
         filters |-> {CubeFilter(p, f) : f \in p.request.filters} \cup BrandScope(p),
         time |-> IF cut THEN <<p.view, view.datetime>> ELSE clock, window |-> window, cut |-> cut]
MainLoads(p) ==
    {MainLoad(p, w) : w \in {"current"} \cup (IF p.request.compare = None THEN {} ELSE {"compare"})}

(* An event-date answer shows the outcomes that have no date, over all     *)
(* history; a slice by attribution shows the period's coverage.            *)
UndatedLoads(p) ==
    LET moved == {m \in p.metrics : m.axis = "switchable"}
        main  == MainLoad(p, "current")
        flag  == cat.dimensions["is_undated"].views[p.view]
    IN  IF cat.semantic < 3 \/ p.request.axis # "event_date" \/ ~OnView(cat, "is_undated", p.view) \/ moved = {} THEN {}
        ELSE {[main EXCEPT !.kind = "undated", !.metrics = {m.id : m \in moved}, !.members = Members(moved, p.view),
                !.dims = @ \ {flag}, !.filters = @ \cup {[member |-> flag, op |-> "equals", values |-> {"true"}]},
                !.time = None]}
CoverageLoads(p) ==
    LET asked  == {f \in p.request.filters : Reading(f.dim) = "brand_id" /\ f.op = "equals"}
        brands == IF asked # {} THEN (CHOOSE f \in asked : TRUE).values ELSE {DefaultBrand} \ {None}
        brand  == {[member |-> cat.dimensions["brand_id"].views[CoverageView], op |-> "equals", values |-> brands]}
    IN  IF \/ cat.semantic < 3 \/ p.view \notin AttributionViews \/ {Reading(d) : d \in AskedDims(p.request)} \cap AttributionDims = {}
           \/ ~OnView(cat, "attribution_model_used", CoverageView) \/ ~OnView(cat, "brand_id", CoverageView) THEN {}
        ELSE {[kind |-> "coverage", view |-> CoverageView, metrics |-> {}, members |-> {},
               dims |-> {cat.dimensions["attribution_model_used"].views[CoverageView]},
               filters |-> IF brands = {} THEN {} ELSE brand, time |-> EffectiveTime([view |-> CoverageView, time |-> None]),
               window |-> "current", cut |-> FALSE]}

-----------------------------------------------------------------------------
(* Drilling: the next level of a hierarchy, the child request.             *)

HierarchyTarget(stored, h, level) ==
    LET levels == cat.hierarchies[h].levels
        views  == {cat.metrics[t[1]].view : t \in stored.measures}
        pinned == {f.dim : f \in {x \in stored.filters : x.op = "equals" /\ Cardinality(x.values) = 1}}
        at     == {i \in DOMAIN levels : levels[i] \in stored.dims \cup pinned}
        next   == IF at = {} THEN 1 ELSE Max(at) + 1
    IN  IF ~(views \subseteq cat.hierarchies[h].views) THEN {}
        ELSE IF level # None THEN {level} \cap ToSet(levels)
        ELSE {levels[i] : i \in {next} \cap DOMAIN levels}
DrillDims(stored, h, target) == (stored.dims \ ToSet(cat.hierarchies[h].levels)) \cup {target}

\* Mutated form: an added filter takes the place of the parent's on its dimension.
ChildRequestReplacing(stored, dims, added, granularity) ==
    [stored EXCEPT !.dims = {<<d>> : d \in dims},
                   !.filters = {[f EXCEPT !.dim = <<f.dim>>] : f \in {x \in @ : \A a \in added : a.dim # <<x.dim>>}} \cup added,
                   !.granularity = IF granularity = None THEN @ ELSE granularity]

(* The child inherits everything; it may only add filters. *)
ChildRequest(stored, dims, added, granularity) ==
    [stored EXCEPT !.dims = {<<d>> : d \in dims}, !.filters = {[f EXCEPT !.dim = <<f.dim>>] : f \in @} \cup added,
                   !.granularity = IF granularity = None THEN @ ELSE granularity]
=============================================================================
