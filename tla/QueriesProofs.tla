---------------------------- MODULE QueriesProofs ----------------------------
(***************************************************************************)
(* Proofs about Queries, for any catalogue, requests, drills and limits:   *)
(* a load never leaves its brand, a drill only narrows, and a composed row *)
(* names saved parts only and outlives them.                               *)
(***************************************************************************)
EXTENDS Queries, FiniteSetTheorems, TLAPS

-----------------------------------------------------------------------------
(* Finite sets                                                             *)

\* A set with at most one element is finite.
LEMMA AtMostOne ==
    ASSUME NEW S, \A x, y \in S : x = y
    PROVE  IsFiniteSet(S)
<1>1. CASE S = {}
    BY <1>1, FS_EmptySet
<1>2. CASE S # {}
    <2>1. PICK x : S = {x}
        BY <1>2
    <2>2. QED
        BY <2>1, FS_Singleton
<1>3. QED
    BY <1>1, <1>2

\* The values of a function on a finite set are finitely many.
LEMMA ImageFinite ==
    ASSUME NEW S, IsFiniteSet(S), NEW f, DOMAIN f = S, f = [x \in S |-> f[x]]
    PROVE  IsFiniteSet({f[x] : x \in S})
<1>1. f \in Surjection(S, {f[x] : x \in S})
    BY DEF Surjection
<1>2. QED
    BY <1>1, FS_Surjection

\* The sequence made of a finite set is one of its elements.
LEMMA Sequenced ==
    ASSUME NEW S, IsFiniteSet(S)
    PROVE  SetToSeq(S) \in Seq(S)
<1>1. PICK n \in Nat : n = Cardinality(S) /\ ExistsBijection(1 .. n, S)
    BY FS_CardinalityType
<1>2. PICK f : f \in Bijection(1 .. n, S)
    BY <1>1 DEF ExistsBijection
<1>3. f \in [1 .. n -> S] /\ IsInjective(f)
    BY <1>2 DEF Bijection, Injection
<1>4. SetToSeq(S) \in [1 .. n -> S]
    BY <1>1, <1>3 DEF SetToSeq
<1>5. QED
    BY <1>1, <1>4

-----------------------------------------------------------------------------
(* References and parts                                                    *)

\* A text stands for at most one metric.
LEMMA OneMeaning ==
    ASSUME NEW text, NEW r \in Reference(text), NEW s \in Reference(text)
    PROVE  r = s
<1>1. \A m, axis, filter : \A x, y \in OneReference(m, axis, filter) : x = y
    BY DEF OneReference
<1>2. \A a, b \in MetricAlias(text) : a = b
    BY DEF MetricAlias
<1>3. \A m, n \in ResolveMetricId(text) : m = n
    BY DEF ResolveMetricId
<1>4. \A term : \A x, y \in TermReference(term) : x = y
    BY <1>1 DEF TermReference
<1>5. \A al : \A x, y \in AliasReference(al) : x = y
    BY <1>1 DEF AliasReference
<1>6. QED
    BY <1>1, <1>2, <1>3, <1>4, <1>5 DEF Reference

\* Finitely many measures stand for finitely many metrics.
LEMMA FoundFinite ==
    ASSUME NEW T, IsFiniteSet(T), NEW refs, refs = [t \in T |-> Reference(t)]
    PROVE  IsFiniteSet(UNION Range(refs))
<1> DEFINE U == {t \in T : Reference(t) # {}}
           one == [t \in U |-> CHOOSE r : r \in Reference(t)]
<1>1. IsFiniteSet(U)
    BY FS_Subset
<1>2. IsFiniteSet({one[t] : t \in U})
    <2> HIDE DEF U
    <2>1. DOMAIN one = U /\ one = [t \in U |-> one[t]]
        OBVIOUS
    <2> HIDE DEF one
    <2>2. QED
        BY <1>1, <2>1, ImageFinite
<1>3. UNION Range(refs) \subseteq {one[t] : t \in U}
    <2> SUFFICES ASSUME NEW r \in UNION Range(refs)
                 PROVE  r \in {one[t] : t \in U}
        OBVIOUS
    <2>1. PICK t \in T : r \in Reference(t)
        BY DEF Range
    <2>2. t \in U /\ one[t] \in Reference(t)
        BY <2>1
    <2>3. one[t] = r
        BY <2>1, <2>2, OneMeaning
    <2>4. QED
        BY <2>2, <2>3
<1>4. QED
    BY <1>2, <1>3, FS_Subset

\* A request asks for finitely many metrics, and so do the axes it is put on.
LEMMA AskedFinite ==
    ASSUME NEW found, IsFiniteSet(found)
    PROVE  /\ IsFiniteSet(AskedMetrics(found))
           /\ \A axis : IsFiniteSet({OnAxis(m, axis) : m \in AskedMetrics(found)})
<1> DEFINE asked == [r \in found |-> cat.metrics[r.id] @@ [id |-> r.id, wanted |-> r.wanted]]
<1>1. AskedMetrics(found) = {asked[r] : r \in found}
    BY DEF AskedMetrics
<1>2. DOMAIN asked = found /\ asked = [r \in found |-> asked[r]]
    OBVIOUS
<1> HIDE DEF asked
<1>3. IsFiniteSet(AskedMetrics(found))
    BY <1>1, <1>2, ImageFinite
<1>4. ASSUME NEW axis
      PROVE  IsFiniteSet({OnAxis(m, axis) : m \in AskedMetrics(found)})
    <2> DEFINE moved == [m \in AskedMetrics(found) |-> OnAxis(m, axis)]
    <2>1. {OnAxis(m, axis) : m \in AskedMetrics(found)} = {moved[m] : m \in AskedMetrics(found)}
        OBVIOUS
    <2>2. DOMAIN moved = AskedMetrics(found) /\ moved = [m \in AskedMetrics(found) |-> moved[m]]
        OBVIOUS
    <2> HIDE DEF moved
    <2>3. QED
        BY <1>3, <2>1, <2>2, ImageFinite
<1>5. QED
    BY <1>3, <1>4

\* Finitely many metrics make finitely many parts.
LEMMA SplitFinite ==
    ASSUME NEW req, NEW ms, IsFiniteSet(ms)
    PROVE  IsFiniteSet(SplitPlan(req, ms))
<1>1. ASSUME NEW key, IsFiniteSet(DOMAIN key), key = [m \in DOMAIN key |-> key[m]]
      PROVE  IsFiniteSet(PartsByKey(req, key))
    <2> DEFINE with(k) == {m \in DOMAIN key : key[m] = k}
               part == [k \in Range(key) |->
                   [metrics |-> {Answering(m, req) : m \in with(k)}, view |-> k[1],
                    request |-> [req EXCEPT !.measures = {<<m.id>> : m \in with(k)}, !.filters = @ \cup k[3]]]]
    <2>1. IsFiniteSet({key[m] : m \in DOMAIN key})
        BY <1>1, ImageFinite
    <2>2. IsFiniteSet(Range(key))
        BY <2>1 DEF Range
    <2>3. PartsByKey(req, key) = {part[k] : k \in Range(key)}
        BY DEF PartsByKey
    <2>4. DOMAIN part = Range(key) /\ part = [k \in Range(key) |-> part[k]]
        OBVIOUS
    <2> HIDE DEF part
    <2>5. QED
        BY <2>2, <2>3, <2>4, ImageFinite
<1> DEFINE key == [m \in ms |-> PartKey(m, req, Answering(m, req))]
<1>2. DOMAIN key = ms /\ key = [m \in DOMAIN key |-> key[m]]
    OBVIOUS
<1>3. SplitPlan(req, ms) = {} \/ SplitPlan(req, ms) = PartsByKey(req, key)
    BY DEF SplitPlan
<1> HIDE DEF key
<1>4. QED
    BY <1>1, <1>2, <1>3, FS_EmptySet

\* There is at most one axis for a request.
LEMMA OneAxisOnly ==
    ASSUME NEW ms, NEW asked
    PROVE  /\ \A a, b \in OneAxis(ms, asked) : a = b
           /\ \A a \in OneAxis(ms, asked) : IF asked # None THEN a = asked ELSE a \in {"event_date", "order_date", DefaultAxis}
    BY DEF OneAxis

\* Putting a request on an axis, or taking its sort away, leaves the rest.
LEMMA RequestMoved ==
    ASSUME NEW r, QueryRequest(r), NEW x
    PROVE  /\ QueryRequest([r EXCEPT !.axis = x]) /\ [r EXCEPT !.axis = x].filters = r.filters
           /\ [r EXCEPT !.axis = x].axis = x
           /\ QueryRequest([r EXCEPT !.sort = x]) /\ [r EXCEPT !.sort = x].filters = r.filters
           /\ [r EXCEPT !.sort = x].axis = r.axis
           /\ QueryRequest([r EXCEPT !.dims = x]) /\ [r EXCEPT !.dims = x].filters = r.filters
           /\ [r EXCEPT !.dims = x].axis = r.axis
    BY DEF QueryRequest

\* Every filter a metric forces is one.
LEMMA ForcedShape ==
    ASSUME NEW m, NEW req, NEW f \in ForcedFilters(m, req)
    PROVE  FilterSpec(f)
<1>1. \A d, values : FilterSpec(Filter(d, values))
    BY DEF FilterSpec, Filter
<1>2. \A allowed : \A g \in ScopedTo(req, allowed) : FilterSpec(g)
    BY <1>1 DEF ScopedTo
<1>3. \A b : \A g \in PinnedSlice(b, req) : FilterSpec(g)
    BY <1>1 DEF PinnedSlice
<1>4. \A n : \A g \in DimensionScope(req, n) : FilterSpec(g)
    BY <1>2 DEF DimensionScope
<1>5. \/ f \in ScopedTo(req, m.validFor)
      \/ \E b \in BindingFor(m, req) : f \in PinnedSlice(b, req)
      \/ f \in DimensionScope(req, Answering(m, req))
    BY DEF ForcedFilters
<1>6. QED
    BY <1>2, <1>3, <1>4, <1>5

\* The canonical request: the caller's filters under their dimensions' ids.
LEMMA Canonical ==
    ASSUME NEW r, QueryRequest(r), NEW refs
    PROVE  /\ QueryRequest(CanonicalRequest(r, refs)) /\ CanonicalRequest(r, refs).axis = r.axis
           /\ CanonicalRequest(r, refs).measures = r.measures
           /\ \A f \in r.filters : [f EXCEPT !.dim = CanonDim(f.dim)] \in CanonicalRequest(r, refs).filters
<1> DEFINE own == {[f EXCEPT !.dim = CanonDim(f.dim)] : f \in r.filters}
           terms == UNION {{Filter(d, {s.filter[d]}) : d \in DOMAIN s.filter} : s \in refs}
           all == own \cup {t \in terms : \A f \in own : f.dim # t.dim}
<1>1. CanonicalRequest(r, refs) = [r EXCEPT !.dims = {CanonDim(d) : d \in r.dims}, !.filters = all]
    BY DEF CanonicalRequest
<1>2. \A f \in own : FilterSpec(f)
    BY DEF QueryRequest, FilterSpec
<1>3. \A t \in terms : FilterSpec(t)
    BY DEF FilterSpec, Filter
<1>4. \A f \in all : FilterSpec(f)
    BY <1>2, <1>3
<1>5. \A f \in r.filters : [f EXCEPT !.dim = CanonDim(f.dim)] \in all
    OBVIOUS
<1> HIDE DEF all
<1> DEFINE dims == {CanonDim(d) : d \in r.dims}
<1> HIDE DEF dims
<1>6. PICK s : s = [r EXCEPT !.dims = dims]
    OBVIOUS
<1>7. QueryRequest(s) /\ s.axis = r.axis /\ s.measures = r.measures
    BY <1>6 DEF QueryRequest
<1>8. CanonicalRequest(r, refs) = [s EXCEPT !.filters = all]
    BY <1>1, <1>6, Zenon DEF dims
<1>9. QED
    BY <1>4, <1>5, <1>7, <1>8 DEF QueryRequest

\* A part carries the request it is split from: its own measures, the
\* caller's filters and those its metrics force, the request's axis.
LEMMA SplitRequest ==
    ASSUME NEW req, QueryRequest(req), NEW ms, IsFiniteSet(ms), NEW p \in SplitPlan(req, ms)
    PROVE  /\ p = [metrics |-> p.metrics, view |-> p.view, request |-> p.request]
           /\ QueryRequest(p.request) /\ req.filters \subseteq p.request.filters /\ p.request.axis = req.axis
<1> DEFINE key == [m \in ms |-> PartKey(m, req, Answering(m, req))]
           with(k) == {m \in ms : key[m] = k}
           measures(k) == {<<m.id>> : m \in with(k)}
<1>1. p \in PartsByKey(req, key)
    BY DEF SplitPlan
<1>2. DOMAIN key = ms /\ \A m \in ms : key[m][3] = ForcedFilters(m, req)
    BY DEF PartKey
<1> HIDE DEF key
<1>3. PICK k \in Range(key) :
          p = [metrics |-> {Answering(m, req) : m \in with(k)}, view |-> k[1],
               request |-> [req EXCEPT !.measures = measures(k), !.filters = @ \cup k[3]]]
    BY <1>1, <1>2, Zenon DEF PartsByKey
<1>4. IsFiniteSet(measures(k))
    <2> DEFINE asked == [m \in with(k) |-> <<m.id>>]
    <2>1. IsFiniteSet(with(k))
        BY FS_Subset
    <2>2. measures(k) = {asked[m] : m \in with(k)} /\ DOMAIN asked = with(k) /\ asked = [m \in with(k) |-> asked[m]]
        OBVIOUS
    <2> HIDE DEF asked, with
    <2>3. QED
        BY <2>1, <2>2, ImageFinite
<1>5. \A f \in k[3] : FilterSpec(f)
    BY <1>2, ForcedShape DEF Range
<1> HIDE DEF measures, with
<1>6. PICK s : s = [req EXCEPT !.measures = measures(k)]
    OBVIOUS
<1>7. QueryRequest(s) /\ s.axis = req.axis /\ s.filters = req.filters
    BY <1>4, <1>6 DEF QueryRequest
<1>8. p.request = [s EXCEPT !.filters = req.filters \cup k[3]]
    <2>1. p.request = [req EXCEPT !.measures = measures(k), !.filters = @ \cup k[3]]
        BY <1>3
    <2>2. QED
        BY <1>6, <2>1, Zenon
<1>9. QED
    BY <1>3, <1>5, <1>7, <1>8 DEF QueryRequest

\* What a part keeps of the request it comes from.
Renamed(g) == [g EXCEPT !.dim = CanonDim(g.dim)]
FromRequest(p, r) ==
    /\ p = [metrics |-> p.metrics, view |-> p.view, request |-> p.request]
    /\ QueryRequest(p.request) /\ \A g \in r.filters : Renamed(g) \in p.request.filters
    /\ IF cat.semantic < 3 THEN p.request.axis = r.axis
       ELSE p.request.axis # None /\ (r.axis # None => p.request.axis = r.axis)

\* A request has finitely many parts, each of which keeps its filters and,
\* where there is one, its axis.
LEMMA PartsKeep ==
    ASSUME NEW r, QueryRequest(r)
    PROVE  IsFiniteSet(Parts(r)) /\ \A p \in Parts(r) : FromRequest(p, r)
<1> DEFINE refs  == [t \in r.measures |-> Reference(t)]
           found == UNION Range(refs)
           req   == CanonicalRequest(r, found)
           asked == AskedMetrics(found)
<1>1. Parts(r) = {} \/ Parts(r) = OneAxisPlan(req, asked)
    BY DEF Parts, Planned
<1>2. IsFiniteSet(asked) /\ \A axis : IsFiniteSet({OnAxis(m, axis) : m \in asked})
    <2>1. IsFiniteSet(r.measures)
        BY DEF QueryRequest
    <2>2. IsFiniteSet(found)
        BY <2>1, FoundFinite
    <2> HIDE DEF found
    <2>3. QED
        BY <2>2, AskedFinite
<1>3. QueryRequest(req) /\ req.axis = r.axis /\ \A g \in r.filters : Renamed(g) \in req.filters
    BY Canonical DEF Renamed
<1> HIDE DEF req, asked
<1>4. CASE cat.semantic < 3
    <2>1. OneAxisPlan(req, asked) = SplitPlan(req, asked)
        BY <1>4 DEF OneAxisPlan
    <2>2. \A p \in SplitPlan(req, asked) : FromRequest(p, r)
        BY <1>2, <1>3, <1>4, SplitRequest DEF FromRequest
    <2>3. QED
        BY <1>1, <1>2, <2>1, <2>2, SplitFinite, FS_EmptySet
<1>5. CASE ~(cat.semantic < 3)
    <2> DEFINE plan(axis) == SplitPlan([req EXCEPT !.axis = axis], {OnAxis(m, axis) : m \in asked})
    <2>1. OneAxisPlan(req, asked) = UNION {plan(axis) : axis \in OneAxis(asked, req.axis)}
        BY <1>5 DEF OneAxisPlan
    <2>2. ASSUME NEW axis \in OneAxis(asked, req.axis)
          PROVE  IsFiniteSet(plan(axis)) /\ \A p \in plan(axis) : FromRequest(p, r)
        <3>1. axis # None /\ (r.axis # None => axis = r.axis)
            BY <1>3, <2>2, OneAxisOnly, QueriesAssumption
        <3>2. PICK q : q = [req EXCEPT !.axis = axis]
            OBVIOUS
        <3>3. QueryRequest(q) /\ q.axis = axis /\ q.filters = req.filters
            BY <1>3, <3>2 DEF QueryRequest
        <3>4. plan(axis) = SplitPlan(q, {OnAxis(m, axis) : m \in asked})
            BY <3>2
        <3>5. IsFiniteSet({OnAxis(m, axis) : m \in asked})
            BY <1>2
        <3>6. \A p \in plan(axis) : FromRequest(p, r)
            BY <1>3, <1>5, <3>1, <3>3, <3>4, <3>5, SplitRequest DEF FromRequest
        <3>7. QED
            BY <3>4, <3>5, <3>6, SplitFinite
    <2> HIDE DEF plan
    <2>3. OneAxisPlan(req, asked) = {} \/ \E axis \in OneAxis(asked, req.axis) : OneAxisPlan(req, asked) = plan(axis)
        BY <2>1, OneAxisOnly
    <2>4. QED
        BY <1>1, <2>2, <2>3, FS_EmptySet
<1>6. QED
    BY <1>4, <1>5

\* Neither the sort taken from a part of several nor its start changes that.
LEMMA SortedKeep ==
    ASSUME NEW r, QueryRequest(r)
    PROVE  /\ \A p \in Sorted(Parts(r)) : FromRequest(p, r)
           /\ SetToSeq({Started(p) : p \in Sorted(Parts(r))}) \in Seq({Started(p) : p \in Sorted(Parts(r))})
<1> DEFINE parts == Parts(r)
<1>1. IsFiniteSet(parts) /\ \A p \in parts : FromRequest(p, r)
    BY PartsKeep
<1> HIDE DEF parts
<1> DEFINE sorted == [p \in parts |-> IF Cardinality(parts) > 1 /\ SortRefused(p) THEN [p EXCEPT !.request.sort = None] ELSE p]
           started == [p \in Sorted(parts) |-> Started(p)]
<1>2. Sorted(parts) = {sorted[p] : p \in parts} /\ DOMAIN sorted = parts /\ sorted = [p \in parts |-> sorted[p]]
    BY DEF Sorted
<1>3. {Started(p) : p \in Sorted(parts)} = {started[p] : p \in Sorted(parts)}
      /\ DOMAIN started = Sorted(parts) /\ started = [p \in Sorted(parts) |-> started[p]]
    OBVIOUS
<1>4. ASSUME NEW p \in Sorted(parts)
      PROVE  FromRequest(p, r)
    <2>1. PICK q \in parts : p = q \/ p = [q EXCEPT !.request.sort = None]
        BY DEF Sorted
    <2>2. FromRequest(q, r)
        BY <1>1
    <2>3. CASE p = [q EXCEPT !.request.sort = None]
        <3>1. PICK s : s = [q.request EXCEPT !.sort = None]
            OBVIOUS
        <3>2. p = [metrics |-> q.metrics, view |-> q.view, request |-> s]
            BY <2>2, <2>3, <3>1 DEF FromRequest
        <3>3. QueryRequest(s) /\ s.filters = q.request.filters /\ s.axis = q.request.axis
            BY <2>2, <3>1 DEF FromRequest, QueryRequest
        <3>4. QED
            BY <2>2, <3>2, <3>3 DEF FromRequest
    <2>4. QED
        BY <2>1, <2>2, <2>3
<1>5. IsFiniteSet({Started(p) : p \in Sorted(parts)})
    <2> HIDE DEF sorted, started
    <2>1. IsFiniteSet(Sorted(parts))
        BY <1>1, <1>2, ImageFinite
    <2>2. QED
        BY <1>3, <2>1, ImageFinite
<1>6. QED
    BY <1>4, <1>5, Sequenced DEF parts

-----------------------------------------------------------------------------
(* Filters: what a load makes of one, and what a drill reads it as         *)

\* A filter of a stored request, as a drill reads it back.
Reread(g) == [g EXCEPT !.dim = CanonDim(<<g.dim>>)]

\* It asks what it asked, or the view refuses it.
Stable(view, g) ==
    \/ CubeFilter([view |-> view], Reread(g)) = CubeFilter([view |-> view], g)
    \/ ~OnMeasure([view |-> view], Reread(g)) /\ ~OnView(cat, Filtered([view |-> view], Reread(g)), view)

\* What an id reads as: a dimension, the payment breakdown before any other,
\* or, when there is none, itself.
LEMMA ReadAs ==
    ASSUME NEW x
    PROVE  /\ Reading(x) \notin Ids(cat.dimensions) => Reading(x) = x
           /\ (x \in Ids(cat.dimensions) /\ Reading(x) # x) =>
                <<x>> \in PaymentWords /\ "payment_bucket" \in Ids(cat.dimensions) /\ Reading(x) = "payment_bucket"
<1>1. Token(<<x>>) = x
    BY DEF Token
<1>2. CASE <<x>> \in PaymentWords /\ "payment_bucket" \in Ids(cat.dimensions)
    <2>1. ResolveDimension(<<x>>) = {"payment_bucket"}
        BY <1>2 DEF ResolveDimension
    <2>2. Reading(x) = "payment_bucket"
        BY <2>1 DEF Reading, CanonDim, OneOf
    <2>3. QED
        BY <1>2, <2>2
<1>3. CASE ~(<<x>> \in PaymentWords /\ "payment_bucket" \in Ids(cat.dimensions)) /\ x \in Ids(cat.dimensions)
    <2>1. ResolveDimension(<<x>>) = {x}
        BY <1>1, <1>3 DEF ResolveDimension
    <2>2. Reading(x) = x
        BY <2>1 DEF Reading, CanonDim, OneOf
    <2>3. QED
        BY <2>2
<1>4. CASE ~(<<x>> \in PaymentWords /\ "payment_bucket" \in Ids(cat.dimensions)) /\ x \notin Ids(cat.dimensions)
    <2>1. \A d \in ResolveDimension(<<x>>) : d \in Ids(cat.dimensions)
        BY <1>1, <1>4 DEF ResolveDimension
    <2>2. Reading(x) = x \/ Reading(x) \in ResolveDimension(<<x>>)
        BY <1>1 DEF Reading, CanonDim, OneOf
    <2>3. QED
        BY <1>4, <2>1, <2>2
<1>5. QED
    BY <1>2, <1>3, <1>4

\* A dimension without a family stands for itself on every view.
LEMMA NoSibling ==
    ASSUME NEW p, NEW f, NEW d \in Ids(cat.dimensions), Reading(f.dim) = d, cat.dimensions[d].family = None
    PROVE  Filtered(p, f) = d
<1>1. \A view, values, ms : Sibling(d, view, values, ms) = {}
    BY DEF Sibling, Best
<1>2. QED
    BY <1>1 DEF Filtered, OneOf

\* A filter the view does not refuse is stable.
LEMMA StableFilter ==
    ASSUME cat \in Catalogues, NEW p, NEW f, FilterSpec(f), ~FilterRefused(p, f)
    PROVE  Stable(p.view, f)
<1> DEFINE x == Reading(f.dim)
           q == [view |-> p.view]
<1>1. Reread(f).dim = x /\ Reread(f).op = f.op /\ Reread(f).values = f.values
    BY DEF Reread, Reading, FilterSpec
<1>2. CASE x \notin Ids(cat.dimensions)
    <2>1. x = f.dim
        BY <1>2, ReadAs
    <2>2. Reread(f) = f
        BY <2>1 DEF Reread, Reading, FilterSpec
    <2>3. QED
        BY <2>2 DEF Stable
<1>3. CASE x \in Ids(cat.dimensions) /\ Reading(x) = x
    <2>1. Filtered(q, Reread(f)) = Filtered(q, f) /\ ~OnMeasure(q, Reread(f)) /\ ~OnMeasure(q, f)
        BY <1>1, <1>3 DEF Filtered, OnMeasure
    <2>2. QED
        BY <1>1, <2>1 DEF Stable, CubeFilter
<1>4. CASE x \in Ids(cat.dimensions) /\ Reading(x) # x
    <2>1. <<x>> \in PaymentWords /\ "payment_bucket" \in Ids(cat.dimensions) /\ Reading(x) = "payment_bucket"
        BY <1>4, ReadAs
    <2>2. /\ cat.dimensions[x].family = None /\ cat.dimensions["payment_bucket"].family = None
          /\ Ids(cat.dimensions[x].views) \cap Ids(cat.dimensions["payment_bucket"].views) = {}
        BY <1>4, <2>1, CatalogueAssumption
    <2>3. OnView(cat, x, p.view)
        BY <1>4, <2>2, NoSibling DEF FilterRefused, OnMeasure
    <2>4. Filtered(q, Reread(f)) = "payment_bucket" /\ ~OnMeasure(q, Reread(f))
        BY <1>1, <2>1, <2>2, NoSibling DEF OnMeasure
    <2>5. QED
        BY <2>2, <2>3, <2>4 DEF Stable, OnView
<1>5. QED
    BY <1>2, <1>3, <1>4

\* The view alone decides which member of it a filter becomes.
LEMMA SameFilter ==
    ASSUME NEW p, NEW f
    PROVE  CubeFilter(p, f) = CubeFilter([view |-> p.view], f)
<1>1. Filtered(p, f) = Filtered([view |-> p.view], f) /\ OnMeasure(p, f) = OnMeasure([view |-> p.view], f)
    BY DEF Filtered, OnMeasure
<1>2. QED
    BY <1>1 DEF CubeFilter

\* Loads whose every filter is the default brand or one of the request's,
\* which a drill reads back as the same or as one the view refuses.
Drills(request, loads) ==
    /\ QueryRequest(request) /\ (~(cat.semantic < 3) => request.axis # None)
    /\ \A load \in loads : \A f \in load.filters :
        ByDefault(load, f) \/ \E g \in request.filters : f = CubeFilter([view |-> load.view], g) /\ Stable(load.view, g)

\* Every load of a view that carries the brand reads the brand asked for.
Branded(request, loads) ==
    DefaultBrand # None => \A load \in loads.main \cup loads.undated \cup loads.coverage :
        OnView(cat, "brand_id", load.view) => BrandHeld(load, request)

\* A brand filter stands for one brand per value, and for none too many.
LEMMA OneBrandId ==
    ASSUME NEW text, NEW a \in BrandFilterValue(text), NEW b \in BrandFilterValue(text)
    PROVE  a = b
<1>1. \A brands, norm : \A x, y \in OnlySure(brands, norm) : x = y
    BY DEF OnlySure
<1>2. QED
    BY <1>1 DEF BrandFilterValue

\* A filter the view does not refuse, equal to one brand, is read as one id.
LEMMA OneId ==
    ASSUME NEW f, f.op \in {"equals", "notEquals"}, \A v \in f.values : BrandFilterValue(<<v>>) # {},
           NEW v \in f.values, f.values = {v}
    PROVE  \E w \in BrandIds(f) : BrandIds(f) = {w}
<1>1. BrandIds(f) = BrandFilterValue(<<v>>)
    BY DEF BrandIds
<1>2. QED
    BY <1>1, OneBrandId

\* A main load is of the part's view, under the request's filters and the brand's.
LEMMA MainShape ==
    ASSUME NEW p, NEW load \in MainLoads(p)
    PROVE  load.view = p.view /\ load.filters = {CubeFilter(p, f) : f \in p.request.filters} \cup BrandScope(p)
<1>1. PICK w : load = MainLoad(p, w)
    BY DEF MainLoads
<1>2. QED
    BY <1>1 DEF MainLoad

\* The main loads of a part the view does not refuse can be read back by a drill.
LEMMA MainDrills ==
    ASSUME cat \in Catalogues, NEW p, QueryRequest(p.request), ~(cat.semantic < 3) => p.request.axis # None, ~PartRefused(p)
    PROVE  Drills(p.request, MainLoads(p))
<1> SUFFICES ASSUME NEW load \in MainLoads(p), NEW f \in load.filters
             PROVE  \/ ByDefault(load, f)
                    \/ \E g \in p.request.filters : f = CubeFilter([view |-> load.view], g) /\ Stable(load.view, g)
    BY DEF Drills
<1>1. load.view = p.view /\ load.filters = {CubeFilter(p, g) : g \in p.request.filters} \cup BrandScope(p)
    BY MainShape
<1>2. CASE f \in BrandScope(p)
    BY <1>1, <1>2 DEF BrandScope, ByDefault, On
<1>3. ASSUME NEW g \in p.request.filters, f = CubeFilter(p, g)
      PROVE  f = CubeFilter([view |-> load.view], g) /\ Stable(load.view, g)
    <2>1. ~FilterRefused(p, g) /\ FilterSpec(g)
        BY DEF PartRefused, QueryRequest
    <2>2. QED
        BY <1>1, <1>3, <2>1, SameFilter, StableFilter
<1>4. QED
    BY <1>1, <1>2, <1>3

\* The undated outcomes are read under the main load's filters.
LEMMA UndatedShape ==
    ASSUME NEW p, NEW load \in UndatedLoads(p)
    PROVE  load.view = p.view /\ MainLoad(p, "current").filters \subseteq load.filters
<1> DEFINE main  == MainLoad(p, "current")
           moved == {m \in p.metrics : m.axis = "switchable"}
           flag  == cat.dimensions["is_undated"].views[p.view]
<1>1. load = [main EXCEPT !.kind = "undated", !.metrics = {m.id : m \in moved}, !.members = Members(moved, p.view),
                  !.dims = @ \ {flag}, !.filters = @ \cup {[member |-> flag, op |-> "equals", values |-> {"true"}]}, !.time = None]
    BY DEF UndatedLoads
<1>2. main.view = p.view
    BY DEF MainLoad
<1> HIDE DEF main, flag, moved
<1>3. load.view = main.view /\ load.filters = main.filters \cup {[member |-> flag, op |-> "equals", values |-> {"true"}]}
    <2> DEFINE more == {[member |-> flag, op |-> "equals", values |-> {"true"}]}
               names == {m.id : m \in moved}
               members == Members(moved, p.view)
    <2> HIDE DEF more, names, members
    <2>1. load = [main EXCEPT !.kind = "undated", !.metrics = names, !.members = members,
                      !.dims = @ \ {flag}, !.filters = @ \cup more, !.time = None]
        BY <1>1, Zenon DEF more, names, members
    <2>2. PICK a : a = [main EXCEPT !.kind = "undated", !.metrics = names, !.members = members, !.dims = @ \ {flag}]
        OBVIOUS
    <2>3. PICK b : b = [a EXCEPT !.filters = @ \cup more]
        OBVIOUS
    <2>4. load = [b EXCEPT !.time = None]
        BY <2>1, <2>2, <2>3, Zenon
    <2>5. QED
        BY <2>2, <2>3, <2>4 DEF more
<1>4. QED
    BY <1>2, <1>3 DEF main

\* A brand filter of a part that is not refused reaches Cube with its ids.
LEMMA BrandReaches ==
    ASSUME NEW p, ~PartRefused(p), OnView(cat, "brand_id", p.view), NEW f \in BrandsAsked(p.request)
    PROVE  /\ CubeFilter(p, f) = [member |-> cat.dimensions["brand_id"].views[p.view], op |-> f.op, values |-> BrandIds(f)]
           /\ f.op \in {"equals", "notEquals"} => \A v \in f.values : BrandFilterValue(<<v>>) # {}
<1>1. f \in p.request.filters /\ Reading(f.dim) = "brand_id" /\ "brand_id" \in Ids(cat.dimensions)
    BY DEF BrandsAsked, OnView
<1>2. ~OnMeasure(p, f) /\ Filtered(p, f) = "brand_id"
    BY <1>1 DEF OnMeasure, Filtered
<1>3. ~FilterRefused(p, f)
    BY <1>1 DEF PartRefused
<1>4. QED
    BY <1>2, <1>3 DEF CubeFilter, FilterRefused, BrandIds

\* A load under the part's filters and its brand scope reads the brand asked.
LEMMA ScopeHolds ==
    ASSUME NEW p, ~PartRefused(p), DefaultBrand # None, OnView(cat, "brand_id", p.view), NEW load, load.view = p.view,
           {CubeFilter(p, f) : f \in p.request.filters} \cup BrandScope(p) \subseteq load.filters
    PROVE  BrandHeld(load, p.request)
<1> DEFINE member == cat.dimensions["brand_id"].views[p.view]
<1>1. \A f \in BrandsAsked(p.request) : \E g \in On(load, "brand_id") : g.op = f.op /\ g.values = BrandIds(f)
    <2> SUFFICES ASSUME NEW f \in BrandsAsked(p.request)
                 PROVE  \E g \in On(load, "brand_id") : g.op = f.op /\ g.values = BrandIds(f)
        OBVIOUS
    <2>1. CubeFilter(p, f) \in load.filters
        BY DEF BrandsAsked
    <2>2. CubeFilter(p, f).member = member /\ CubeFilter(p, f).op = f.op /\ CubeFilter(p, f).values = BrandIds(f)
        BY BrandReaches
    <2>3. QED
        BY <2>1, <2>2 DEF On
<1>2. ASSUME BrandsAsked(p.request) = {}
      PROVE  \E f \in On(load, "brand_id") : f.op = "equals" /\ f.values = {DefaultBrand}
    <2> DEFINE scope == [member |-> member, op |-> "equals", values |-> {DefaultBrand}]
    <2>1. scope \in BrandScope(p)
        BY <1>2 DEF BrandScope, BrandsAsked
    <2>2. scope.member = member /\ scope.op = "equals" /\ scope.values = {DefaultBrand}
        OBVIOUS
    <2>3. QED
        BY <2>1, <2>2 DEF On
<1>3. ASSUME AsksOneBrand(p.request)
      PROVE  ReadsOneBrand(load)
    <2>1. CASE BrandsAsked(p.request) = {}
        BY <1>2, <2>1 DEF ReadsOneBrand
    <2>2. ASSUME NEW f \in BrandsAsked(p.request)
          PROVE  ReadsOneBrand(load)
        <3>1. f.op = "equals"
            BY <1>3 DEF AsksOneBrand
        <3>2. PICK v \in f.values : f.values = {v}
            BY <1>3 DEF AsksOneBrand
        <3>3. \A u \in f.values : BrandFilterValue(<<u>>) # {}
            BY <3>1, BrandReaches
        <3>4. \E w \in BrandIds(f) : BrandIds(f) = {w}
            BY <3>1, <3>2, <3>3, OneId
        <3>5. PICK g \in On(load, "brand_id") : g.op = f.op /\ g.values = BrandIds(f)
            BY <1>1
        <3>6. QED
            BY <3>1, <3>4, <3>5 DEF ReadsOneBrand
    <2>3. QED
        BY <2>1, <2>2
<1>4. QED
    BY <1>1, <1>2, <1>3 DEF BrandHeld

\* The coverage of a part that is not refused is of one brand, if one is asked.
LEMMA CoverageHolds ==
    ASSUME NEW p, ~PartRefused(p), DefaultBrand # None, NEW load \in CoverageLoads(p)
    PROVE  BrandHeld(load, p.request)
<1> DEFINE asked  == {f \in p.request.filters : Reading(f.dim) = "brand_id" /\ f.op = "equals"}
           brands == IF asked # {} THEN (CHOOSE f \in asked : TRUE).values ELSE {DefaultBrand} \ {None}
           brand  == cat.dimensions["brand_id"].views[CoverageView]
           filter == [member |-> brand, op |-> "equals", values |-> brands]
<1>1. OnView(cat, "brand_id", CoverageView) /\ load.kind = "coverage" /\ load.view = CoverageView
          /\ load.filters = IF brands = {} THEN {} ELSE {filter}
    <2> DEFINE filters == IF brands = {} THEN {} ELSE {filter}
    <2>1. OnView(cat, "brand_id", CoverageView)
        BY DEF CoverageLoads
    <2>2. load = [kind |-> "coverage", view |-> CoverageView, metrics |-> {}, members |-> {},
                  dims |-> {cat.dimensions["attribution_model_used"].views[CoverageView]}, filters |-> filters,
                  time |-> EffectiveTime([view |-> CoverageView, time |-> None]), window |-> "current", cut |-> FALSE]
        BY DEF CoverageLoads
    <2> HIDE DEF filters
    <2>3. load.kind = "coverage" /\ load.view = CoverageView /\ load.filters = filters
        BY <2>2
    <2>4. QED
        BY <2>1, <2>3 DEF filters
<1>2. asked \subseteq BrandsAsked(p.request)
    BY DEF BrandsAsked
<1>3. ASSUME BrandsAsked(p.request) = {}
      PROVE  brands = {DefaultBrand}
    BY <1>2, <1>3
<1>4. ASSUME AsksOneBrand(p.request)
      PROVE  \E v \in brands : brands = {v}
    <2>1. CASE asked = {}
        BY <2>1
    <2>2. CASE asked # {}
        <3>1. PICK f \in asked : brands = f.values
            BY <2>2
        <3>2. QED
            BY <1>2, <1>4, <3>1 DEF AsksOneBrand
    <2>3. QED
        BY <2>1, <2>2
<1> HIDE DEF brands, asked
<1>5. filter.member = brand /\ filter.op = "equals" /\ filter.values = brands
    OBVIOUS
<1> HIDE DEF filter
<1>6. ASSUME brands # {}
      PROVE  filter \in On(load, "brand_id")
    BY <1>1, <1>5, <1>6 DEF On
<1>7. QED
    BY <1>1, <1>3, <1>4, <1>5, <1>6 DEF BrandHeld, ReadsOneBrand

\* Every load of a part that is not refused keeps its brand.
LEMMA LoadsBranded ==
    ASSUME NEW p, ~PartRefused(p)
    PROVE  Branded(p.request, Loads(p))
<1> SUFFICES ASSUME DefaultBrand # None,
                    NEW load \in MainLoads(p) \cup UndatedLoads(p) \cup CoverageLoads(p), OnView(cat, "brand_id", load.view)
             PROVE  BrandHeld(load, p.request)
    BY DEF Branded, Loads
<1>1. CASE load \in MainLoads(p)
    <2>1. load.view = p.view /\ load.filters = {CubeFilter(p, f) : f \in p.request.filters} \cup BrandScope(p)
        BY <1>1, MainShape
    <2>2. QED
        BY <2>1, ScopeHolds
<1>2. CASE load \in UndatedLoads(p)
    <2>1. MainLoad(p, "current") \in MainLoads(p)
        BY DEF MainLoads
    <2>2. load.view = p.view /\ MainLoad(p, "current").filters \subseteq load.filters
        BY <1>2, UndatedShape
    <2>3. MainLoad(p, "current").filters = {CubeFilter(p, f) : f \in p.request.filters} \cup BrandScope(p)
        BY <2>1, MainShape
    <2>4. QED
        BY <2>2, <2>3, ScopeHolds
<1>3. CASE load \in CoverageLoads(p)
    BY <1>3, CoverageHolds
<1>4. QED
    BY <1>1, <1>2, <1>3

-----------------------------------------------------------------------------
(* The catalogue does not change under a query                             *)

\* What is said of loads is said of the catalogue, which no step changes.
LEMMA CatalogueStays ==
    ASSUME cat' = cat
    PROVE  /\ \A request, loads : Drills(request, loads)' = Drills(request, loads)
           /\ \A request, loads : Branded(request, loads)' = Branded(request, loads)
           /\ \A load, f : ByDefault(load, f)' = ByDefault(load, f)
<1>1. \A load, d : On(load, d)' = On(load, d)
    BY DEF On
<1>2. \A load, f : ByDefault(load, f)' = ByDefault(load, f)
    BY <1>1 DEF ByDefault
<1>4. \A text : ResolveDimension(text)' = ResolveDimension(text)
    BY DEF ResolveDimension
<1>5. \A text : CanonDim(text)' = CanonDim(text)
    BY <1>4 DEF CanonDim
<1>6. \A id : Reading(id)' = Reading(id)
    BY <1>5 DEF Reading
<1>7. \A p, f : OnMeasure(p, f)' = OnMeasure(p, f)
    BY <1>6 DEF OnMeasure
<1>8. \A d, view, values, ms : Sibling(d, view, values, ms)' = Sibling(d, view, values, ms)
    BY DEF Sibling, Best
<1>9. \A p, f : Filtered(p, f)' = Filtered(p, f)
    BY <1>6, <1>8 DEF Filtered
<1>10. \A text : BrandFilterValue(text)' = BrandFilterValue(text)
    BY DEF BrandFilterValue, ResolveBrand
<1>3. \A request, loads : Branded(request, loads)' = Branded(request, loads)
    <2>1. \A request : BrandsAsked(request)' = BrandsAsked(request)
        BY <1>6 DEF BrandsAsked
    <2>2. \A f : BrandIds(f)' = BrandIds(f)
        BY <1>10 DEF BrandIds
    <2>3. \A request : AsksOneBrand(request)' = AsksOneBrand(request)
        BY <2>1 DEF AsksOneBrand
    <2>4. \A load : ReadsOneBrand(load)' = ReadsOneBrand(load)
        BY <1>1 DEF ReadsOneBrand
    <2>5. \A load, request : BrandHeld(load, request)' = BrandHeld(load, request)
        BY <1>1, <2>1, <2>2, <2>3, <2>4 DEF BrandHeld
    <2>6. QED
        BY <2>5 DEF Branded
<1>11. \A values : Widened(values)' = Widened(values)
    BY DEF Widened
<1>12. \A p, f : CubeFilter(p, f)' = CubeFilter(p, f)
    BY <1>7, <1>9, <1>10, <1>11 DEF CubeFilter
<1>13. \A view, g : Stable(view, g)' = Stable(view, g)
    <2>1. \A g : Reread(g)' = Reread(g)
        BY <1>5 DEF Reread
    <2>2. QED
        BY <1>7, <1>9, <1>12, <2>1 DEF Stable
<1>14. \A request, loads : Drills(request, loads)' = Drills(request, loads)
    BY <1>2, <1>12, <1>13 DEF Drills
<1>15. QED
    BY <1>2, <1>3, <1>14

-----------------------------------------------------------------------------
(* Calls and parts: sequences that grow and change in one place            *)

Listed(s) == s \in Seq(ToSet(s))

\* A sequence of anything is a sequence of its own elements.
LEMMA ListedIn ==
    ASSUME NEW S, NEW s \in Seq(S)
    PROVE  Listed(s)
<1>1. s = [i \in 1 .. Len(s) |-> s[i]] /\ Len(s) \in Nat /\ DOMAIN s = 1 .. Len(s)
    OBVIOUS
<1>2. s \in [1 .. Len(s) -> ToSet(s)]
    BY <1>1 DEF ToSet
<1>3. QED
    BY <1>1, <1>2 DEF Listed

\* Appending keeps what is there and adds one place.
LEMMA Grown ==
    ASSUME NEW s, Listed(s), NEW x
    PROVE  /\ Listed(Append(s, x)) /\ DOMAIN s = 1 .. Len(s) /\ Len(s) \in Nat
           /\ DOMAIN Append(s, x) = DOMAIN s \cup {Len(s) + 1} /\ Len(s) + 1 \notin DOMAIN s
           /\ \A k \in DOMAIN s : Append(s, x)[k] = s[k]
           /\ Append(s, x)[Len(s) + 1] = x
<1> DEFINE S == ToSet(s) \cup {x}
<1>1. s \in Seq(S)
    <2>1. s \in Seq(ToSet(s))
        BY DEF Listed
    <2> HIDE DEF Listed
    <2>2. \A T : ToSet(s) \subseteq T => s \in Seq(T)
        BY <2>1
    <2>3. QED
        BY <2>2
<1>2. x \in S
    OBVIOUS
<1> HIDE DEF S
<1>3. Append(s, x) \in Seq(S)
    BY <1>1, <1>2
<1>4. Listed(Append(s, x))
    BY <1>3, ListedIn, Zenon
<1>5. QED
    BY <1>1, <1>2, <1>4

At(s, k, x) == [s EXCEPT ![k] = x]

\* Replacing an element leaves the other places alone.
LEMMA Changed ==
    ASSUME NEW s, Listed(s), NEW k \in DOMAIN s, NEW x, NEW t, t = At(s, k, x)
    PROVE  /\ Listed(t) /\ DOMAIN t = DOMAIN s /\ Len(t) = Len(s)
           /\ t[k] = x /\ \A j \in DOMAIN s \ {k} : t[j] = s[j]
<1> DEFINE S == ToSet(s) \cup {x}
<1>1. s \in Seq(S)
    <2>1. s \in Seq(ToSet(s))
        BY DEF Listed
    <2>2. \A T : ToSet(s) \subseteq T => s \in Seq(T)
        BY <2>1
    <2>3. QED
        BY <2>2
<1>2. x \in S
    OBVIOUS
<1> HIDE DEF S
<1>3. t \in Seq(S)
    BY <1>1, <1>2 DEF At
<1>4. Listed(t)
    BY <1>3, ListedIn, Zenon
<1>5. QED
    BY <1>1, <1>2, <1>3, <1>4 DEF At

\* What a part and a call are made of.
PartShape(p) == p = [request |-> p.request, loads |-> p.loads, id |-> p.id, pc |-> p.pc, waits |-> p.waits]
CallShape(c) ==
    /\ c = [from |-> c.from, read |-> c.read, parts |-> c.parts, parent |-> c.parent, state |-> c.state]
    /\ Listed(c.parts) /\ \A i \in DOMAIN c.parts : PartShape(c.parts[i])

\* From a to b only call k changes: its state, or its part i's progress.
Touched(a, b, k, i) ==
    /\ Listed(b) /\ DOMAIN b = DOMAIN a /\ Len(b) = Len(a) /\ \A j \in DOMAIN a \ {k} : b[j] = a[j]
    /\ CallShape(b[k]) /\ b[k].from = a[k].from /\ b[k].read = a[k].read /\ b[k].parent = a[k].parent
    /\ DOMAIN b[k].parts = DOMAIN a[k].parts /\ Len(b[k].parts) = Len(a[k].parts)
    /\ \A h \in DOMAIN a[k].parts \ {i} : b[k].parts[h] = a[k].parts[h]
    /\ b[k].parts[i].request = a[k].parts[i].request /\ b[k].parts[i].loads = a[k].parts[i].loads

WithPart(a, k, i, part) == [a EXCEPT ![k].parts[i] = part]
WithState(a, k, state)  == [a EXCEPT ![k].state = state]

\* Moving a part on touches that part only.
LEMMA PartTouched ==
    ASSUME NEW a, Listed(a), NEW k \in DOMAIN a, CallShape(a[k]), NEW i \in DOMAIN a[k].parts,
           NEW part, PartShape(part), part.request = a[k].parts[i].request, part.loads = a[k].parts[i].loads,
           NEW b, b = WithPart(a, k, i, part)
    PROVE  Touched(a, b, k, i) /\ b[k].parts[i] = part /\ b[k].state = a[k].state
<1>1. PICK parts : parts = At(a[k].parts, i, part)
    OBVIOUS
<1>2. PICK c : c = [a[k] EXCEPT !.parts = parts]
    OBVIOUS
<1>3. b = At(a, k, c)
    BY <1>1, <1>2 DEF WithPart, At
<1>4. /\ Listed(parts) /\ DOMAIN parts = DOMAIN a[k].parts /\ Len(parts) = Len(a[k].parts)
      /\ parts[i] = part /\ \A h \in DOMAIN a[k].parts \ {i} : parts[h] = a[k].parts[h]
    <2>1. Listed(a[k].parts)
        BY DEF CallShape
    <2>2. QED
        BY <1>1, <2>1, Changed
<1>5. /\ c = [from |-> a[k].from, read |-> a[k].read, parts |-> parts, parent |-> a[k].parent, state |-> a[k].state]
    BY <1>2 DEF CallShape
<1>6. /\ Listed(b) /\ DOMAIN b = DOMAIN a /\ Len(b) = Len(a)
      /\ b[k] = c /\ \A j \in DOMAIN a \ {k} : b[j] = a[j]
    BY <1>3, Changed
<1>7. CallShape(c)
    BY <1>4, <1>5 DEF CallShape
<1>8. QED
    BY <1>4, <1>5, <1>6, <1>7 DEF Touched

\* Setting the state of a call touches none of its parts.
LEMMA StateTouched ==
    ASSUME NEW a, Listed(a), NEW k \in DOMAIN a, CallShape(a[k]), NEW state, NEW b, b = WithState(a, k, state)
    PROVE  \A i : Touched(a, b, k, i) /\ b[k].parts = a[k].parts /\ b[k].state = state
<1>1. PICK c : c = [a[k] EXCEPT !.state = state]
    OBVIOUS
<1>2. b = At(a, k, c)
    BY <1>1 DEF WithState, At
<1>3. c = [from |-> a[k].from, read |-> a[k].read, parts |-> a[k].parts, parent |-> a[k].parent, state |-> state]
    BY <1>1 DEF CallShape
<1>4. /\ Listed(b) /\ DOMAIN b = DOMAIN a /\ Len(b) = Len(a)
      /\ b[k] = c /\ \A j \in DOMAIN a \ {k} : b[j] = a[j]
    BY <1>2, Changed
<1>5. CallShape(c)
    BY <1>3 DEF CallShape
<1>6. QED
    BY <1>3, <1>4, <1>5 DEF Touched

\* Two changes of one part, or of its call, are one.
LEMMA TouchedTwice ==
    ASSUME NEW a, NEW b, NEW c, NEW k \in DOMAIN a, NEW i \in DOMAIN a[k].parts, Touched(a, b, k, i), Touched(b, c, k, i)
    PROVE  Touched(a, c, k, i)
    BY DEF Touched

-----------------------------------------------------------------------------
(* The inductive invariant                                                 *)

\* A row expires within the time to live; one that can be drilled into
\* carries a request and loads a drill can read back.
RowInv(row) ==
    /\ row.expires \in Int /\ row.expires =< now + Ttl
    /\ ~row.composed => Drills(row.request, row.loads)

\* A part keeps its brand and can be read back, and was saved under an id given out.
PartInv(part) ==
    /\ Branded(part.request, part.loads) /\ Drills(part.request, part.loads.main)
    /\ part.pc = "saved" => part.id \in 1 .. fresh - 1

\* On the view of a load of the row it reads, a part keeps that load's
\* filters, its default brand aside, and its axis.
Narrows(row, part) ==
    \A load \in part.loads.main : \A parent \in row.loads :
        load.view = parent.view =>
            /\ {f \in parent.filters : ~ByDefault(parent, f)} \subseteq load.filters
            /\ part.request.axis = row.request.axis
ChildInv(c) == c.read # None => \A i \in DOMAIN c.parts : Narrows(c.read, c.parts[i])

\* A composed call's row names its parts, all saved, and outlives them.
IdsOf(c)    == {c.parts[i].id : i \in DOMAIN c.parts}
AllSaved(c) == \A i \in DOMAIN c.parts : c.parts[i].pc = "saved"
ParentInv(c) ==
    Composed(c) =>
        /\ c.parent \in 1 .. fresh - 1
        /\ c.parent \in DOMAIN store => c.state = "answered" /\ store[c.parent].parts = IdsOf(c)
        /\ c.state = "answered" =>
            /\ AllSaved(c)
            /\ \A id \in IdsOf(c) \cap DOMAIN store :
                c.parent \in DOMAIN store /\ store[id].expires =< store[c.parent].expires

\* No two composed rows, and no composed row and part, share an id.
Apart ==
    \A k \in DOMAIN calls : Composed(calls[k]) =>
        /\ \A j \in DOMAIN calls \ {k} : Composed(calls[j]) => calls[j].parent # calls[k].parent
        /\ \A j \in DOMAIN calls : \A i \in DOMAIN calls[j].parts :
            calls[j].parts[i].pc = "saved" => calls[j].parts[i].id # calls[k].parent

Counters == cat \in Catalogues /\ now \in Nat /\ fresh \in Nat \ {0} /\ Listed(calls) /\ DOMAIN store \subseteq 1 .. fresh - 1
RowsInv  == \A id \in DOMAIN store : RowInv(store[id])
CallsInv ==
    \A k \in DOMAIN calls :
        CallShape(calls[k]) /\ ChildInv(calls[k]) /\ \A i \in DOMAIN calls[k].parts : PartInv(calls[k].parts[i])
ParentsInv == \A k \in DOMAIN calls : ParentInv(calls[k])
IInv == Counters /\ RowsInv /\ CallsInv /\ ParentsInv /\ Apart

\* What is kept on a catalogue that stays, as ids and time go on.
LEMMA Stays ==
    ASSUME cat' = cat, now \in Int, now' \in Int, now =< now', fresh \in Int, fresh' \in Int, fresh =< fresh'
    PROVE  /\ \A row : RowInv(row) => RowInv(row)'
           /\ \A part : PartInv(part) => PartInv(part)'
           /\ \A c : ChildInv(c) => ChildInv(c)'
<1>1. \A row : RowInv(row) => RowInv(row)'
    BY CatalogueStays, QueriesAssumption DEF RowInv
<1>2. \A part : PartInv(part) => PartInv(part)'
    BY CatalogueStays DEF PartInv
<1>3. \A c : ChildInv(c) => ChildInv(c)'
    BY CatalogueStays DEF ChildInv, Narrows
<1>4. QED
    BY <1>1, <1>2, <1>3

-----------------------------------------------------------------------------
(* Calls placed                                                            *)

\* A drill's request has its row's filters, read as texts, and its axis.
LEMMA ChildKeeps ==
    ASSUME NEW r, QueryRequest(r), NEW dims, NEW added, \A f \in added : FilterSpec(f), NEW granularity,
           NEW child, child = ChildRequest(r, dims, added, granularity)
    PROVE  /\ QueryRequest(child) /\ child.axis = r.axis
           /\ \A f \in r.filters : [f EXCEPT !.dim = <<f.dim>>] \in child.filters
<1> DEFINE names == {<<d>> : d \in dims}
           filters == {[f EXCEPT !.dim = <<f.dim>>] : f \in r.filters} \cup added
           g == IF granularity = None THEN r.granularity ELSE granularity
<1>1. child = [r EXCEPT !.dims = names, !.filters = filters, !.granularity = g]
    BY Zenon DEF ChildRequest
<1>2. \A f \in filters : FilterSpec(f)
    BY DEF QueryRequest, FilterSpec
<1>3. \A f \in r.filters : [f EXCEPT !.dim = <<f.dim>>] \in filters
    OBVIOUS
<1> HIDE DEF names, filters, g
<1>4. PICK a : a = [r EXCEPT !.dims = names]
    OBVIOUS
<1>5. QueryRequest(a) /\ a.axis = r.axis
    BY <1>4 DEF QueryRequest
<1>6. PICK b : b = [a EXCEPT !.filters = filters]
    OBVIOUS
<1>7. QueryRequest(b) /\ b.axis = r.axis /\ b.filters = filters
    BY <1>2, <1>5, <1>6 DEF QueryRequest
<1>8. child = [b EXCEPT !.granularity = g]
    BY <1>1, <1>4, <1>6, Zenon
<1>9. QED
    BY <1>3, <1>7, <1>8 DEF QueryRequest

\* What a drill's part loads is within the row it reads.
LEMMA ChildPart ==
    ASSUME cat \in Catalogues, NEW row, Drills(row.request, row.loads),
           NEW child, QueryRequest(child), child.axis = row.request.axis,
           \A f \in row.request.filters : [f EXCEPT !.dim = <<f.dim>>] \in child.filters,
           NEW p, FromRequest(p, child)
    PROVE  Narrows(row, Started(p))
<1>1. CASE PartRefused(p)
    BY <1>1 DEF Narrows, Started, Begun, NoLoads
<1>2. CASE ~PartRefused(p)
    <2>1. Started(p).loads.main = MainLoads(p) /\ Started(p).request.axis = p.request.axis
        <3>1. Started(p).loads.main = MainLoads(p) /\ Started(p).request = Dated(p)
            BY <1>2 DEF Started, Begun, Loads
        <3>2. QueryRequest(p.request)
            BY DEF FromRequest
        <3>3. QED
            BY <3>1, <3>2, RequestMoved DEF Dated
    <2> SUFFICES ASSUME NEW load \in MainLoads(p), NEW parent \in row.loads, load.view = parent.view
                 PROVE  /\ {f \in parent.filters : ~ByDefault(parent, f)} \subseteq load.filters
                        /\ p.request.axis = row.request.axis
        BY <2>1 DEF Narrows
    <2>2. p.request.axis = row.request.axis
        BY DEF FromRequest, Drills
    <2>3. load.view = p.view /\ load.filters = {CubeFilter(p, f) : f \in p.request.filters} \cup BrandScope(p)
        BY MainShape
    <2>4. ASSUME NEW f \in parent.filters, ~ByDefault(parent, f)
          PROVE  f \in load.filters
        <3>1. PICK g \in row.request.filters : f = CubeFilter([view |-> parent.view], g) /\ Stable(parent.view, g)
            BY <2>4 DEF Drills
        <3>2. Reread(g) \in p.request.filters
            <4>1. PICK h : h = [g EXCEPT !.dim = <<g.dim>>]
                OBVIOUS
            <4>2. Renamed(h) \in p.request.filters
                BY <4>1 DEF FromRequest
            <4>3. FilterSpec(g)
                BY DEF Drills, QueryRequest
            <4>4. Renamed(h) = Reread(g)
                BY <4>1, <4>3 DEF Renamed, Reread, FilterSpec
            <4>5. QED
                BY <4>2, <4>4
        <3>3. ~FilterRefused(p, Reread(g))
            BY <1>2, <3>2 DEF PartRefused
        <3>4. /\ OnMeasure(p, Reread(g)) = OnMeasure([view |-> p.view], Reread(g))
              /\ Filtered(p, Reread(g)) = Filtered([view |-> p.view], Reread(g))
            BY DEF OnMeasure, Filtered
        <3>5. CubeFilter([view |-> p.view], Reread(g)) = CubeFilter([view |-> p.view], g)
            BY <2>3, <3>1, <3>3, <3>4 DEF Stable, FilterRefused
        <3>6. f = CubeFilter(p, Reread(g))
            BY <2>3, <3>1, <3>5, SameFilter
        <3>7. QED
            BY <2>3, <3>2, <3>6
    <2>5. QED
        BY <2>2, <2>4
<1>3. QED
    BY <1>1, <1>2

\* A part that starts keeps its brand and can be read back.
LEMMA PartStarts ==
    ASSUME cat \in Catalogues, NEW r, NEW p, FromRequest(p, r)
    PROVE  PartShape(Started(p)) /\ PartInv(Started(p)) /\ Started(p).pc # "saved"
<1>1. QueryRequest(p.request) /\ (~(cat.semantic < 3) => p.request.axis # None)
    BY DEF FromRequest
<1>2. CASE PartRefused(p)
    <2>1. Branded(Dated(p), NoLoads) /\ Drills(Dated(p), NoLoads.main)
        BY <1>1, RequestMoved DEF Branded, Drills, NoLoads, Dated
    <2>2. Started(p) = Begun(p, "failed", NoLoads)
        BY <1>2 DEF Started
    <2>3. QED
        BY <2>1, <2>2 DEF PartShape, PartInv, Begun
<1>3. CASE ~PartRefused(p)
    <2>1. Branded(p.request, Loads(p)) /\ Drills(p.request, Loads(p).main)
        BY <1>1, <1>3, LoadsBranded, MainDrills DEF Loads
    <2>4. QueryRequest(Dated(p)) /\ Dated(p).filters = p.request.filters /\ Dated(p).axis = p.request.axis
        BY <1>1, RequestMoved DEF Dated
    <2>5. Branded(Dated(p), Loads(p)) /\ Drills(Dated(p), Loads(p).main)
        BY <2>1, <2>4 DEF Branded, BrandHeld, BrandsAsked, AsksOneBrand, Drills
    <2>2. Started(p) = Begun(p, "main", Loads(p))
        BY <1>3 DEF Started
    <2>3. QED
        BY <2>2, <2>5 DEF PartShape, PartInv, Begun
<1>4. QED
    BY <1>2, <1>3

\* A call places its parts, none of them saved yet.
LEMMA CallPlaced ==
    ASSUME cat \in Catalogues, NEW r, QueryRequest(r), NEW from, NEW row, NEW c, c = Call(r, from, row)
    PROVE  /\ CallShape(c) /\ c.read = row /\ c.state # "answered"
           /\ Composed(c) => c.parent = fresh
           /\ \A i \in DOMAIN c.parts : PartInv(c.parts[i]) /\ c.parts[i].pc # "saved"
           /\ \A i \in DOMAIN c.parts : \E p \in Sorted(Parts(r)) : c.parts[i] = Started(p)
<1> DEFINE S == {Started(p) : p \in Sorted(Parts(r))}
           parts == SetToSeq(S)
<1>1. parts \in Seq(S) /\ \A p \in Sorted(Parts(r)) : FromRequest(p, r)
    BY SortedKeep
<1>2. \A i \in DOMAIN parts : \E p \in Sorted(Parts(r)) : parts[i] = Started(p)
    <2> HIDE DEF parts
    <2>1. \A i \in DOMAIN parts : parts[i] \in S
        <3> HIDE DEF S
        <3>1. QED
            BY <1>1
    <2>2. QED
        BY <2>1
<1>3. c = CallOf(parts, from, row)
    BY DEF Call
<1> HIDE DEF parts
<1>4. Listed(parts)
    <2> HIDE DEF S
    <2>1. QED
        BY <1>1, ListedIn
<1>5. \A i \in DOMAIN parts : PartShape(parts[i]) /\ PartInv(parts[i]) /\ parts[i].pc # "saved"
    BY <1>1, <1>2, PartStarts
<1>6. QED
    BY <1>2, <1>3, <1>4, <1>5 DEF CallOf, CallShape, Composed

\* Placing a call keeps the invariant.
LEMMA PlacedKeeps ==
    ASSUME IInv, NEW r, QueryRequest(r), NEW from, NEW row, NEW c, c = Call(r, from, row), ChildInv(c),
           Placed(c), cat' = cat, now' = now, store' = store
    PROVE  IInv'
<1>1. /\ CallShape(c) /\ c.state # "answered" /\ (Composed(c) => c.parent = fresh)
      /\ \A i \in DOMAIN c.parts : PartInv(c.parts[i]) /\ c.parts[i].pc # "saved"
    BY CallPlaced DEF IInv, Counters
<1>2. /\ Listed(calls') /\ DOMAIN calls = 1 .. Len(calls) /\ Len(calls) \in Nat
      /\ DOMAIN calls' = DOMAIN calls \cup {Len(calls) + 1} /\ Len(calls) + 1 \notin DOMAIN calls
      /\ \A k \in DOMAIN calls : calls'[k] = calls[k]
      /\ calls'[Len(calls) + 1] = c
    BY Grown DEF Placed, IInv, Counters
<1>3. fresh' \in Nat \ {0} /\ fresh \in Nat \ {0} /\ fresh =< fresh' /\ (Composed(c) => fresh' = fresh + 1) /\ now \in Nat
    BY DEF Placed, IInv, Counters
<1>4. /\ \A x : RowInv(x) => RowInv(x)'
      /\ \A part : PartInv(part) => PartInv(part)'
      /\ \A d : ChildInv(d) => ChildInv(d)'
    BY <1>3, Stays
<1>5. Counters'
    BY <1>2, <1>3 DEF IInv, Counters
<1>6. RowsInv'
    BY <1>4 DEF IInv, RowsInv
<1>7. CallsInv'
    BY <1>1, <1>2, <1>4 DEF IInv, CallsInv
<1>8. ParentsInv'
    <2> SUFFICES ASSUME NEW k \in DOMAIN calls'
                 PROVE  ParentInv(calls[k])'
        BY DEF ParentsInv
    <2>1. CASE k \in DOMAIN calls
        <3>1. ParentInv(calls[k]) /\ calls'[k] = calls[k]
            BY <1>2, <2>1 DEF IInv, ParentsInv
        <3>2. QED
            BY <1>3, <3>1 DEF ParentInv
    <2>2. CASE k = Len(calls) + 1
        <3>1. fresh \notin DOMAIN store
            BY <1>3 DEF IInv, Counters
        <3>2. QED
            BY <1>1, <1>2, <1>3, <2>2, <3>1 DEF ParentInv
    <2>3. QED
        BY <1>2, <2>1, <2>2
<1>9. Apart'
    <2>1. \A k \in DOMAIN calls : Composed(calls[k]) => calls[k].parent \in 1 .. fresh - 1
        BY DEF IInv, ParentsInv, ParentInv
    <2>2. \A k \in DOMAIN calls : \A i \in DOMAIN calls[k].parts : calls[k].parts[i].pc = "saved" => calls[k].parts[i].id \in 1 .. fresh - 1
        BY DEF IInv, CallsInv, PartInv
    <2>3. Apart
        BY DEF IInv
    <2>4. QED
        BY <1>1, <1>2, <1>3, <2>1, <2>2, <2>3 DEF Apart
<1>10. QED
    BY <1>5, <1>6, <1>7, <1>8, <1>9 DEF IInv

\* A new query narrows nothing and is placed under a new id.
LEMMA AskKeeps ==
    ASSUME IInv, NEW request \in Requests, Ask(request)
    PROVE  IInv'
<1> DEFINE c == Call(request, 0, None)
<1>1. QueryRequest(request)
    BY QueriesAssumption
<1>2. c.read = None
    BY <1>1, CallPlaced DEF IInv, Counters
<1>3. ChildInv(c)
    BY <1>2 DEF ChildInv
<1>4. Placed(c) /\ cat' = cat /\ now' = now /\ store' = store
    BY DEF Ask
<1> HIDE DEF c
<1>5. c = Call(request, 0, None)
    BY DEF c
<1>6. QED
    BY <1>1, <1>3, <1>4, <1>5, PlacedKeeps

\* A drill's call narrows the row it read, which was alive.
LEMMA DrillKeeps ==
    ASSUME IInv, NEW id, NEW dims, NEW added, \A f \in added : FilterSpec(f), NEW granularity,
           Drill(id, dims, added, granularity)
    PROVE  IInv'
<1> DEFINE row   == store[id]
           child == ChildRequest(row.request, dims, added, granularity)
           c     == Call(child, id, row)
<1>1. Drills(row.request, row.loads) /\ cat \in Catalogues
    BY DEF Drill, Drillable, Alive, IInv, RowsInv, RowInv, Counters
<1>2. QueryRequest(row.request)
    BY <1>1 DEF Drills
<1>3. Placed(c) /\ cat' = cat /\ now' = now /\ store' = store
    BY DEF Drill
<1> HIDE DEF row
<1>4. child = ChildRequest(row.request, dims, added, granularity)
    OBVIOUS
<1> HIDE DEF child
<1>5. /\ QueryRequest(child) /\ child.axis = row.request.axis
      /\ \A f \in row.request.filters : [f EXCEPT !.dim = <<f.dim>>] \in child.filters
    BY <1>2, <1>4, ChildKeeps
<1>6. c = Call(child, id, row)
    OBVIOUS
<1> HIDE DEF c
<1>7. c.read = row /\ \A i \in DOMAIN c.parts : \E p \in Sorted(Parts(child)) : c.parts[i] = Started(p)
    BY <1>1, <1>5, <1>6, CallPlaced
<1>8. \A p \in Sorted(Parts(child)) : Narrows(row, Started(p))
    BY <1>1, <1>5, SortedKeep, ChildPart
<1>9. ChildInv(c)
    BY <1>7, <1>8 DEF ChildInv
<1>10. QED
    BY <1>3, <1>5, <1>6, <1>9, PlacedKeeps

\* A drill along a hierarchy is a drill.
LEMMA DrillHierarchyKeeps ==
    ASSUME IInv, NEW id, NEW h, NEW level, DrillHierarchy(id, h, level)
    PROVE  IInv'
<1>1. \A f \in {} : FilterSpec(f)
    OBVIOUS
<1>2. PICK target : Drill(id, DrillDims(store[id].request, h, target), {}, None)
    BY DEF DrillHierarchy
<1>3. QED
    BY <1>1, <1>2, DrillKeeps

-----------------------------------------------------------------------------
(* Parts that go on                                                        *)

\* A part's progress leaves what every call asked and loads.
LEMMA TouchedCalls ==
    ASSUME IInv, cat' = cat, now' = now, fresh' \in Nat, fresh =< fresh',
           NEW k \in DOMAIN calls, NEW i \in DOMAIN calls[k].parts, Touched(calls, calls', k, i),
           calls'[k].parts[i].pc = "saved" => calls'[k].parts[i].id \in 1 .. fresh' - 1
    PROVE  CallsInv'
<1>1. /\ \A part : PartInv(part) => PartInv(part)'
      /\ \A d : ChildInv(d) => ChildInv(d)'
    BY Stays DEF IInv, Counters
<1>2. \A j \in DOMAIN calls : CallShape(calls[j]) /\ ChildInv(calls[j]) /\ \A h \in DOMAIN calls[j].parts : PartInv(calls[j].parts[h])
    BY DEF IInv, CallsInv
<1>3. DOMAIN calls' = DOMAIN calls /\ \A j \in DOMAIN calls \ {k} : calls'[j] = calls[j]
    BY DEF Touched
<1>4. /\ CallShape(calls'[k]) /\ calls'[k].read = calls[k].read
      /\ DOMAIN calls'[k].parts = DOMAIN calls[k].parts
      /\ \A h \in DOMAIN calls[k].parts \ {i} : calls'[k].parts[h] = calls[k].parts[h]
      /\ calls'[k].parts[i].request = calls[k].parts[i].request /\ calls'[k].parts[i].loads = calls[k].parts[i].loads
    BY DEF Touched
<1>5. ChildInv(calls'[k])
    <2>1. ChildInv(calls[k])
        BY <1>2
    <2>2. Narrows(calls[k].read, calls[k].parts[i]) => Narrows(calls[k].read, calls'[k].parts[i])
        BY <1>4 DEF Narrows
    <2>3. QED
        BY <1>4, <2>1, <2>2 DEF ChildInv
<1>6. PartInv(calls[k].parts[i])'
    <2>1. Branded(calls'[k].parts[i].request, calls'[k].parts[i].loads) /\ Drills(calls'[k].parts[i].request, calls'[k].parts[i].loads.main)
        BY <1>2, <1>4 DEF PartInv
    <2>2. QED
        BY <2>1, CatalogueStays DEF PartInv
<1>7. \A j \in DOMAIN calls' : (CallShape(calls[j]) /\ ChildInv(calls[j]))'
    BY <1>1, <1>2, <1>3, <1>4, <1>5
<1>8. \A j \in DOMAIN calls' : (\A h \in DOMAIN calls[j].parts : PartInv(calls[j].parts[h]))'
    BY <1>1, <1>2, <1>3, <1>4, <1>6
<1>9. QED
    BY <1>7, <1>8 DEF CallsInv

\* A step of a part that saves nothing keeps the invariant.
LEMMA TouchedKeeps ==
    ASSUME IInv, cat' = cat, now' = now, store' = store, fresh' = fresh,
           NEW k \in DOMAIN calls, NEW i \in DOMAIN calls[k].parts, Touched(calls, calls', k, i),
           calls[k].parts[i].pc # "saved", calls'[k].parts[i].pc # "saved",
           calls'[k].state = calls[k].state \/ calls'[k].state = "failed"
    PROVE  IInv'
<1>1. /\ DOMAIN calls' = DOMAIN calls /\ (\A j \in DOMAIN calls \ {k} : calls'[j] = calls[j]) /\ Listed(calls')
      /\ calls'[k].parent = calls[k].parent /\ Len(calls'[k].parts) = Len(calls[k].parts)
      /\ DOMAIN calls'[k].parts = DOMAIN calls[k].parts
      /\ \A h \in DOMAIN calls[k].parts \ {i} : calls'[k].parts[h] = calls[k].parts[h]
    BY DEF Touched
<1>2. Counters'
    BY <1>1 DEF IInv, Counters
<1>3. RowsInv'
    BY Stays DEF IInv, RowsInv, Counters
<1>4. CallsInv'
    BY TouchedCalls DEF IInv, Counters
<1>5. ParentsInv'
    <2>1. \A j \in DOMAIN calls : ParentInv(calls[j])
        BY DEF IInv, ParentsInv
    <2>2. Composed(calls[k]) => calls[k].state # "answered" /\ calls[k].parent \notin DOMAIN store
        BY <2>1 DEF ParentInv, AllSaved
    <2>3. ParentInv(calls[k])'
        BY <1>1, <2>1, <2>2 DEF ParentInv, Composed
    <2>4. \A j \in DOMAIN calls \ {k} : ParentInv(calls[j])'
        BY <1>1, <2>1 DEF ParentInv
    <2>5. QED
        BY <1>1, <2>3, <2>4 DEF ParentsInv
<1>6. Apart'
    <2>1. Apart
        BY DEF IInv
    <2>2. \A j \in DOMAIN calls : Composed(calls'[j]) = Composed(calls[j]) /\ calls'[j].parent = calls[j].parent
        BY <1>1 DEF Composed
    <2>3. \A j \in DOMAIN calls : \A h \in DOMAIN calls'[j].parts :
              calls'[j].parts[h].pc = "saved" => h \in DOMAIN calls[j].parts /\ calls'[j].parts[h] = calls[j].parts[h]
        BY <1>1
    <2>4. QED
        BY <1>1, <2>1, <2>2, <2>3 DEF Apart
<1>7. QED
    BY <1>2, <1>3, <1>4, <1>5, <1>6 DEF IInv

\* The next stage of a part: nothing is saved yet, what it loads stays.
LEMMA OnwardPart ==
    ASSUME NEW part, PartShape(part), NEW next, next = Onward(part)
    PROVE  PartShape(next) /\ next.request = part.request /\ next.loads = part.loads /\ next.pc # "saved"
<1> DEFINE due == {s \in Later[part.pc] : part.loads[s] # {}}
           pc  == IF due = {} THEN "save" ELSE IF "undated" \in due THEN "undated" ELSE "coverage"
           waits == IF due = {} THEN <<>> ELSE [l \in part.loads[pc] |-> 0]
<1>1. next = [part EXCEPT !.pc = pc, !.waits = waits]
    BY Zenon DEF Onward
<1>2. pc # "saved"
    OBVIOUS
<1> HIDE DEF pc, waits
<1>3. PICK a : a = [part EXCEPT !.pc = pc]
    OBVIOUS
<1>4. next = [a EXCEPT !.waits = waits]
    BY <1>1, <1>3, Zenon
<1>5. a = [request |-> part.request, loads |-> part.loads, id |-> part.id, pc |-> pc, waits |-> part.waits]
    BY <1>3 DEF PartShape
<1>6. next = [request |-> part.request, loads |-> part.loads, id |-> part.id, pc |-> pc, waits |-> waits]
    BY <1>4, <1>5
<1>7. QED
    BY <1>2, <1>6 DEF PartShape

\* A part put in the place of part i, with the same request and loads and not saved.
LEMMA StepKeeps ==
    ASSUME IInv, cat' = cat, now' = now, store' = store, fresh' = fresh,
           NEW k \in DOMAIN calls, NEW i \in DOMAIN calls[k].parts, Running(k, i),
           NEW part, PartShape(part), part.request = calls[k].parts[i].request, part.loads = calls[k].parts[i].loads,
           part.pc # "saved", calls' = WithPart(calls, k, i, part)
    PROVE  IInv'
<1>1. Listed(calls) /\ CallShape(calls[k])
    BY DEF IInv, Counters, CallsInv
<1>2. Touched(calls, calls', k, i) /\ calls'[k].parts[i] = part /\ calls'[k].state = calls[k].state
    BY <1>1, PartTouched
<1>3. calls[k].parts[i].pc # "saved"
    BY DEF Running
<1>4. QED
    BY <1>2, <1>3, TouchedKeeps

\* An answered load leaves its part as it was, or moves it on.
LEMMA CubeAnswersKeeps ==
    ASSUME IInv, NEW k \in DOMAIN calls, NEW i \in DOMAIN calls[k].parts, CubeAnswers(k, i)
    PROVE  IInv'
<1> DEFINE old == calls[k].parts[i]
<1>1. PartShape(old) /\ old.pc # "saved" /\ Running(k, i)
    BY DEF IInv, CallsInv, CallShape, CubeAnswers, Running
<1>2. PICK left : calls' = [calls EXCEPT ![k].parts[i] = IF left = <<>> THEN Onward(@) ELSE [@ EXCEPT !.waits = left]]
    BY Zenon DEF CubeAnswers
<1>3. PICK part : part = IF left = <<>> THEN Onward(old) ELSE [old EXCEPT !.waits = left]
    OBVIOUS
<1>4. calls' = WithPart(calls, k, i, part)
    BY <1>2, <1>3, Zenon DEF WithPart
<1> HIDE DEF old
<1>5. PartShape(part) /\ part.request = old.request /\ part.loads = old.loads /\ part.pc # "saved"
    <2>1. CASE left = <<>>
        BY <1>1, <1>3, <2>1, OnwardPart
    <2>2. CASE left # <<>>
        BY <1>1, <1>3, <2>2 DEF PartShape
    <2>3. QED
        BY <2>1, <2>2
<1>6. QED
    BY <1>1, <1>4, <1>5, StepKeeps DEF CubeAnswers, old

\* A load that is asked to wait changes nothing but its count.
LEMMA CubeWaitsKeeps ==
    ASSUME IInv, NEW k \in DOMAIN calls, NEW i \in DOMAIN calls[k].parts, CubeWaits(k, i)
    PROVE  IInv'
<1> DEFINE old == calls[k].parts[i]
<1>1. PartShape(old) /\ old.pc # "saved" /\ Running(k, i)
    BY DEF IInv, CallsInv, CallShape, CubeWaits, Running
<1>2. PICK l : calls' = [calls EXCEPT ![k].parts[i].waits[l] = @ + 1]
    BY DEF CubeWaits
<1>3. PICK waits : waits = [old.waits EXCEPT ![l] = @ + 1]
    OBVIOUS
<1>4. PICK part : part = [old EXCEPT !.waits = waits]
    OBVIOUS
<1>5. calls' = WithPart(calls, k, i, part)
    BY <1>2, <1>3, <1>4, Zenon DEF WithPart
<1> HIDE DEF old
<1>6. PartShape(part) /\ part.request = old.request /\ part.loads = old.loads /\ part.pc # "saved"
    BY <1>1, <1>4 DEF PartShape
<1>7. QED
    BY <1>1, <1>5, <1>6, StepKeeps DEF CubeWaits, old

\* A failed load ends its call, which was not answered, or is a disclosure.
LEMMA CubeFailsKeeps ==
    ASSUME IInv, NEW k \in DOMAIN calls, NEW i \in DOMAIN calls[k].parts, CubeFails(k, i)
    PROVE  IInv'
<1> DEFINE old == calls[k].parts[i]
<1>1. PartShape(old) /\ old.pc # "saved" /\ Running(k, i) /\ Listed(calls) /\ CallShape(calls[k])
    BY DEF IInv, CallsInv, Counters, CallShape, CubeFails, Running
<1>2. CASE old.pc = "coverage"
    <2>1. PICK part : part = Onward(old)
        OBVIOUS
    <2>2. calls' = WithPart(calls, k, i, part)
        BY <1>2, <2>1, Zenon DEF CubeFails, WithPart
    <2> HIDE DEF old
    <2>3. PartShape(part) /\ part.request = old.request /\ part.loads = old.loads /\ part.pc # "saved"
        BY <1>1, <2>1, OnwardPart
    <2>4. QED
        BY <1>1, <2>2, <2>3, StepKeeps DEF CubeFails, old
<1>3. CASE old.pc # "coverage"
    <2>1. PICK a : a = [old EXCEPT !.pc = "failed"]
        OBVIOUS
    <2>2. PICK part : part = [a EXCEPT !.waits = <<>>]
        OBVIOUS
    <2>3. PICK b : b = WithPart(calls, k, i, part)
        OBVIOUS
    <2>4. calls' = WithState(b, k, "failed")
        <3>1. part = [old EXCEPT !.pc = "failed", !.waits = <<>>]
            BY <2>1, <2>2, Zenon
        <3>2. calls' = [calls EXCEPT ![k].parts[i] = part, ![k].state = "failed"]
            BY <1>3, <3>1, Zenon DEF CubeFails
        <3>3. QED
            BY <2>3, <3>2, Zenon DEF WithPart, WithState
    <2> HIDE DEF old
    <2>5. PartShape(part) /\ part.request = old.request /\ part.loads = old.loads /\ part.pc # "saved"
        BY <1>1, <2>1, <2>2 DEF PartShape
    <2>6. Touched(calls, b, k, i) /\ b[k].parts[i] = part
        BY <1>1, <2>3, <2>5, PartTouched DEF old
    <2>7. Touched(b, calls', k, i) /\ calls'[k].parts = b[k].parts /\ calls'[k].state = "failed"
        <3>1. Listed(b) /\ k \in DOMAIN b /\ CallShape(b[k])
            BY <2>6 DEF Touched
        <3>2. QED
            BY <2>4, <3>1, StateTouched
    <2>8. Touched(calls, calls', k, i)
        BY <2>6, <2>7, TouchedTwice
    <2>9. QED
        BY <1>1, <2>5, <2>6, <2>7, <2>8, TouchedKeeps DEF CubeFails, old
<1>4. QED
    BY <1>2, <1>3


\* A saved part has an id of its own; the rows kept are the ones alive.
LEMMA SaveKeeps ==
    ASSUME IInv, NEW k \in DOMAIN calls, NEW i \in DOMAIN calls[k].parts, Save(k, i)
    PROVE  IInv'
<1> DEFINE old == calls[k].parts[i]
           row == [parent |-> calls[k].parent, composed |-> FALSE, request |-> old.request,
                   loads |-> old.loads.main, parts |-> {}, expires |-> now + Ttl]
           state == IF Composed(calls[k]) THEN calls[k].state ELSE "answered"
<1>1. /\ PartShape(old) /\ old.pc = "save" /\ Listed(calls) /\ CallShape(calls[k])
      /\ cat' = cat /\ now' = now /\ fresh' = fresh + 1 /\ fresh \in Nat \ {0} /\ now \in Nat
      /\ DOMAIN store \subseteq 1 .. fresh - 1
    BY DEF IInv, CallsInv, Counters, CallShape, Save
<1>2. store' = Saved(fresh, row)
    BY DEF Save
<1>3. PICK b : /\ Touched(calls, b, k, i) /\ b[k].parts[i].pc = "saved" /\ b[k].parts[i].id = fresh
               /\ calls' = WithState(b, k, state)
    <2>1. PICK a : a = [old EXCEPT !.pc = "saved"]
        OBVIOUS
    <2>2. PICK part : part = [a EXCEPT !.id = fresh]
        OBVIOUS
    <2>3. PICK b : b = WithPart(calls, k, i, part)
        OBVIOUS
    <2>4. calls' = WithState(b, k, state)
        <3>1. part = [old EXCEPT !.pc = "saved", !.id = fresh]
            BY <2>1, <2>2, Zenon
        <3>2. calls' = [calls EXCEPT ![k].parts[i] = part, ![k].state = IF Composed(calls[k]) THEN @ ELSE "answered"]
            BY <3>1, Zenon DEF Save
        <3> HIDE DEF old
        <3>3. QED
            BY <2>3, <3>2, Zenon DEF WithPart, WithState
    <2> HIDE DEF old
    <2>5. /\ PartShape(part) /\ part.request = old.request /\ part.loads = old.loads
          /\ part.pc = "saved" /\ part.id = fresh
        BY <1>1, <2>1, <2>2 DEF PartShape
    <2>6. Touched(calls, b, k, i) /\ b[k].parts[i] = part
        BY <1>1, <2>3, <2>5, PartTouched DEF old
    <2>7. QED
        BY <2>4, <2>5, <2>6
<1>4. /\ Touched(calls, calls', k, i) /\ calls'[k].state = state
      /\ calls'[k].parts[i].pc = "saved" /\ calls'[k].parts[i].id = fresh
    <2>1. Listed(b) /\ k \in DOMAIN b /\ CallShape(b[k])
        BY <1>3 DEF Touched
    <2>2. Touched(b, calls', k, i) /\ calls'[k].parts = b[k].parts /\ calls'[k].state = state
        BY <1>3, <2>1, StateTouched
    <2>3. Touched(calls, calls', k, i)
        BY <1>3, <2>2, TouchedTwice
    <2>4. QED
        BY <1>3, <2>2, <2>3
<1>5. /\ DOMAIN calls' = DOMAIN calls /\ (\A j \in DOMAIN calls \ {k} : calls'[j] = calls[j]) /\ Listed(calls')
      /\ calls'[k].parent = calls[k].parent /\ Len(calls'[k].parts) = Len(calls[k].parts)
      /\ DOMAIN calls'[k].parts = DOMAIN calls[k].parts
      /\ \A h \in DOMAIN calls[k].parts \ {i} : calls'[k].parts[h] = calls[k].parts[h]
    BY <1>4 DEF Touched
<1>6. DOMAIN store' = {fresh} \cup Kept /\ store'[fresh] = row /\ \A x \in Kept \ {fresh} : store'[x] = store[x]
    <2> HIDE DEF row
    <2>1. QED
        BY <1>2 DEF Saved
<1>7. fresh \notin DOMAIN store /\ Kept = {id \in DOMAIN store : store[id].expires > now}
    BY <1>1 DEF Kept
<1>8. RowInv(row)
    <2>1. Drills(old.request, old.loads.main)
        BY DEF IInv, CallsInv, PartInv
    <2> HIDE DEF old
    <2>2. QED
        BY <1>1, <2>1, QueriesAssumption DEF RowInv
<1> HIDE DEF row, state
<1>9. Counters'
    BY <1>1, <1>5, <1>6, <1>7 DEF IInv, Counters
<1>10. RowsInv'
    <2>1. \A x : RowInv(x) => RowInv(x)'
        BY <1>1, Stays
    <2>2. \A id \in DOMAIN store' : RowInv(store'[id])
        BY <1>6, <1>7, <1>8 DEF IInv, RowsInv
    <2>3. QED
        BY <2>1, <2>2 DEF RowsInv
<1>11. CallsInv'
    BY <1>1, <1>4, TouchedCalls
<1>12. \A j \in DOMAIN calls : ParentInv(calls[j])
    BY DEF IInv, ParentsInv
<1>13. ParentsInv'
    <2>1. ASSUME NEW j \in DOMAIN calls \ {k}
          PROVE  ParentInv(calls[j])'
        <3> SUFFICES ASSUME Composed(calls[j])
                     PROVE  ParentInv(calls[j])'
            BY <1>5, <2>1 DEF ParentInv
        <3>1. calls'[j] = calls[j] /\ calls[j].parent \in 1 .. fresh - 1 /\ calls[j].parent # fresh
            BY <1>1, <1>5, <1>12 DEF ParentInv
        <3>2. calls[j].parent \in DOMAIN store' => calls[j].parent \in Kept /\ store'[calls[j].parent] = store[calls[j].parent]
            BY <1>6, <3>1
        <3>3. calls[j].parent \in DOMAIN store' => calls[j].state = "answered" /\ store'[calls[j].parent].parts = IdsOf(calls[j])
            BY <1>7, <1>12, <3>2 DEF ParentInv
        <3>4. ASSUME calls[j].state = "answered", NEW id \in IdsOf(calls[j]) \cap DOMAIN store'
              PROVE  calls[j].parent \in DOMAIN store' /\ store'[id].expires =< store'[calls[j].parent].expires
            <4>1. AllSaved(calls[j])
                BY <1>12, <3>4 DEF ParentInv
            <4>2. id # fresh
                BY <1>1, <3>4, <4>1 DEF IInv, CallsInv, PartInv, AllSaved, IdsOf
            <4>3. id \in Kept /\ id \in DOMAIN store /\ store[id].expires > now /\ store'[id] = store[id]
                BY <1>6, <1>7, <4>2
            <4>4. calls[j].parent \in DOMAIN store /\ store[id].expires =< store[calls[j].parent].expires
                BY <1>12, <3>4, <4>3 DEF ParentInv
            <4>5. store[id].expires \in Int /\ store[calls[j].parent].expires \in Int
                BY <4>3, <4>4 DEF IInv, RowsInv, RowInv
            <4>6. calls[j].parent \in Kept
                BY <1>1, <1>7, <4>3, <4>4, <4>5
            <4>7. QED
                BY <1>6, <3>1, <4>3, <4>4, <4>6
        <3>5. calls[j].state = "answered" => AllSaved(calls[j])
            BY <1>12 DEF ParentInv
        <3>6. calls[j].parent \in 1 .. fresh' - 1
            BY <1>1, <3>1
        <3>7. QED
            BY <3>1, <3>3, <3>4, <3>5, <3>6 DEF ParentInv
    <2>2. ParentInv(calls[k])'
        <3> SUFFICES ASSUME Composed(calls[k])
                     PROVE  ParentInv(calls[k])'
            BY <1>5 DEF ParentInv, Composed
        <3>1. calls[k].state # "answered" /\ calls[k].parent \notin DOMAIN store /\ calls[k].parent \in 1 .. fresh - 1
            BY <1>1, <1>12 DEF ParentInv, AllSaved
        <3>2. calls'[k].state # "answered" /\ calls[k].parent \notin DOMAIN store' /\ calls[k].parent \in 1 .. fresh' - 1
            BY <1>1, <1>4, <1>6, <1>7, <3>1 DEF state
        <3>3. QED
            BY <1>5, <3>2 DEF ParentInv
    <2>3. QED
        BY <1>5, <2>1, <2>2 DEF ParentsInv
<1>14. Apart'
    <2>1. Apart
        BY DEF IInv
    <2>2. \A j \in DOMAIN calls : Composed(calls'[j]) = Composed(calls[j]) /\ calls'[j].parent = calls[j].parent
        BY <1>5 DEF Composed
    <2>3. \A j \in DOMAIN calls : \A h \in DOMAIN calls'[j].parts : calls'[j].parts[h].pc = "saved" =>
              \/ h \in DOMAIN calls[j].parts /\ calls'[j].parts[h] = calls[j].parts[h]
              \/ calls'[j].parts[h].id = fresh
        BY <1>4, <1>5
    <2>4. \A j \in DOMAIN calls : Composed(calls[j]) => calls[j].parent # fresh
        BY <1>1, <1>12 DEF ParentInv
    <2>5. QED
        BY <1>5, <2>1, <2>2, <2>3, <2>4 DEF Apart
<1>15. QED
    BY <1>9, <1>10, <1>11, <1>13, <1>14 DEF IInv


\* The parent's row is written when every part is there, and outlives them.
LEMMA ComposeKeeps ==
    ASSUME IInv, NEW k \in DOMAIN calls, Compose(k)
    PROVE  IInv'
<1> DEFINE c   == calls[k]
           row == [parent |-> c.from, composed |-> TRUE, request |-> None, loads |-> {}, parts |-> IdsOf(c), expires |-> now + Ttl]
<1>1. /\ Listed(calls) /\ CallShape(c) /\ Composed(c) /\ AllSaved(c)
      /\ cat' = cat /\ now' = now /\ fresh' = fresh /\ fresh \in Nat \ {0} /\ now \in Nat
      /\ DOMAIN store \subseteq 1 .. fresh - 1
    BY DEF IInv, CallsInv, Counters, Compose, AllSaved
<1>2. store' = Saved(c.parent, row)
    BY DEF Compose, IdsOf
<1>3. calls' = WithState(calls, k, "answered")
    BY DEF Compose, WithState
<1>4. \A i : Touched(calls, calls', k, i)
    BY <1>1, <1>3, StateTouched
<1>5. /\ DOMAIN calls' = DOMAIN calls /\ (\A j \in DOMAIN calls \ {k} : calls'[j] = calls[j]) /\ Listed(calls')
      /\ calls'[k].parent = c.parent /\ calls'[k].parts = c.parts /\ calls'[k].state = "answered"
      /\ CallShape(calls'[k]) /\ calls'[k].read = c.read
    <2>1. calls'[k].parts = c.parts /\ calls'[k].state = "answered"
        BY <1>1, <1>3, StateTouched
    <2>2. QED
        BY <1>4, <2>1 DEF Touched
<1>6. DOMAIN store' = {c.parent} \cup Kept /\ store'[c.parent] = row /\ \A x \in Kept \ {c.parent} : store'[x] = store[x]
    <2> HIDE DEF row
    <2>1. QED
        BY <1>2 DEF Saved
<1>7. Kept = {id \in DOMAIN store : store[id].expires > now}
    BY DEF Kept
<1>8. \A j \in DOMAIN calls : ParentInv(calls[j])
    BY DEF IInv, ParentsInv
<1>9. \A id \in DOMAIN store : store[id].expires \in Int /\ store[id].expires =< now + Ttl
    BY DEF IInv, RowsInv, RowInv
<1>10. /\ row.expires = now + Ttl /\ row.parts = IdsOf(c) /\ RowInv(row)
    BY <1>1, QueriesAssumption DEF RowInv
<1> HIDE DEF row, c
<1>11. c.parent \in 1 .. fresh - 1
    BY <1>1, <1>8 DEF ParentInv, c
<1>12. Counters'
    BY <1>1, <1>5, <1>6, <1>7, <1>11 DEF IInv, Counters
<1>13. RowsInv'
    <2>1. \A x : RowInv(x) => RowInv(x)'
        BY <1>1, Stays
    <2>2. \A id \in DOMAIN store' : RowInv(store'[id])
        BY <1>6, <1>7, <1>10 DEF IInv, RowsInv
    <2>3. QED
        BY <2>1, <2>2 DEF RowsInv
<1>14. CallsInv'
    <2>1. /\ \A part : PartInv(part) => PartInv(part)'
          /\ \A d : ChildInv(d) => ChildInv(d)'
        BY <1>1, Stays
    <2>2. ChildInv(c) => ChildInv(calls'[k])
        BY <1>5 DEF ChildInv
    <2>3. QED
        BY <1>5, <2>1, <2>2 DEF IInv, CallsInv, c
<1>15. ParentsInv'
    <2>1. ASSUME NEW j \in DOMAIN calls \ {k}
          PROVE  ParentInv(calls[j])'
        <3> SUFFICES ASSUME Composed(calls[j])
                     PROVE  ParentInv(calls[j])'
            BY <1>5, <2>1 DEF ParentInv
        <3>1. calls'[j] = calls[j] /\ calls[j].parent \in 1 .. fresh - 1 /\ calls[j].parent # c.parent
            BY <1>1, <1>5, <1>8 DEF ParentInv, IInv, Apart, c
        <3>2. calls[j].parent \in DOMAIN store' => calls[j].parent \in Kept /\ store'[calls[j].parent] = store[calls[j].parent]
            BY <1>6, <3>1
        <3>3. calls[j].parent \in DOMAIN store' => calls[j].state = "answered" /\ store'[calls[j].parent].parts = IdsOf(calls[j])
            BY <1>7, <1>8, <3>2 DEF ParentInv
        <3>4. ASSUME calls[j].state = "answered", NEW id \in IdsOf(calls[j]) \cap DOMAIN store'
              PROVE  calls[j].parent \in DOMAIN store' /\ store'[id].expires =< store'[calls[j].parent].expires
            <4>1. AllSaved(calls[j])
                BY <1>8, <3>4 DEF ParentInv
            <4>2. id # c.parent
                BY <1>1, <3>4, <4>1 DEF IInv, Apart, AllSaved, IdsOf, c
            <4>3. id \in Kept /\ id \in DOMAIN store /\ store[id].expires > now /\ store'[id] = store[id]
                BY <1>6, <1>7, <4>2
            <4>4. calls[j].parent \in DOMAIN store /\ store[id].expires =< store[calls[j].parent].expires
                BY <1>8, <3>4, <4>3 DEF ParentInv
            <4>5. calls[j].parent \in Kept
                BY <1>1, <1>7, <1>9, <4>3, <4>4
            <4>6. QED
                BY <1>6, <3>1, <4>3, <4>4, <4>5
        <3>5. calls[j].state = "answered" => AllSaved(calls[j])
            BY <1>8 DEF ParentInv
        <3>6. QED
            BY <1>1, <3>1, <3>3, <3>4, <3>5 DEF ParentInv
    <2>2. ParentInv(calls[k])'
        <3>1. IdsOf(calls'[k]) = IdsOf(c) /\ AllSaved(calls'[k])
            BY <1>1, <1>5 DEF IdsOf, AllSaved
        <3>2. calls'[k].parent \in DOMAIN store' /\ store'[calls'[k].parent] = row
            BY <1>5, <1>6
        <3>3. ASSUME NEW id \in DOMAIN store'
              PROVE  store'[id].expires =< now + Ttl
            <4>1. CASE id = c.parent
                BY <1>1, <1>6, <1>10, <4>1, QueriesAssumption
            <4>2. CASE id # c.parent
                BY <1>6, <1>7, <1>9, <4>2
            <4>3. QED
                BY <4>1, <4>2
        <3>4. QED
            BY <1>1, <1>5, <1>10, <1>11, <3>1, <3>2, <3>3 DEF ParentInv
    <2>3. QED
        BY <1>5, <2>1, <2>2 DEF ParentsInv
<1>16. Apart'
    <2>1. Apart
        BY DEF IInv
    <2>2. \A j \in DOMAIN calls : calls'[j].parts = calls[j].parts /\ calls'[j].parent = calls[j].parent
        BY <1>5 DEF c
    <2>3. QED
        BY <1>5, <2>1, <2>2 DEF Apart, Composed
<1>17. QED
    BY <1>12, <1>13, <1>14, <1>15, <1>16 DEF IInv

\* The clock, or nothing at all, moves: rows only come closer to their end.
LEMMA StayKeeps ==
    ASSUME IInv, cat' = cat, now \in Int, now' \in Nat, now =< now', UNCHANGED <<store, calls, fresh>>
    PROVE  IInv'
<1>1. /\ \A row : RowInv(row) => RowInv(row)'
      /\ \A part : PartInv(part) => PartInv(part)'
      /\ \A c : ChildInv(c) => ChildInv(c)'
    BY Stays DEF IInv, Counters
<1>2. Counters' /\ Apart'
    BY DEF IInv, Counters, Apart
<1>3. RowsInv' /\ CallsInv'
    BY <1>1 DEF IInv, RowsInv, CallsInv
<1>4. ParentsInv'
    BY DEF IInv, ParentsInv, ParentInv
<1>5. QED
    BY <1>2, <1>3, <1>4 DEF IInv

-----------------------------------------------------------------------------
(* The theorems                                                            *)

\* IInv holds at the start and through every step of every call.
THEOREM Inductive == Spec => []IInv
<1>1. Init => IInv
    <2> SUFFICES ASSUME Init
                 PROVE  IInv
        OBVIOUS
    <2>1. Listed(calls) /\ DOMAIN calls = {} /\ DOMAIN store = {}
        BY DEF Init, Listed
    <2>2. QED
        BY <2>1 DEF Init, IInv, Counters, RowsInv, CallsInv, ParentsInv, Apart
<1>2. IInv /\ [Next]_vars => IInv'
    <2> SUFFICES ASSUME IInv, [Next]_vars
                 PROVE  IInv'
        OBVIOUS
    <2>1. ASSUME NEW request \in Requests, Ask(request)
          PROVE  IInv'
        BY <2>1, AskKeeps
    <2>2. ASSUME NEW id, NEW dims, NEW added \in DrillFilters, NEW g, Drill(id, dims, added, g)
          PROVE  IInv'
        BY <2>2, DrillKeeps, QueriesAssumption
    <2>3. ASSUME NEW id, NEW h, NEW level, DrillHierarchy(id, h, level)
          PROVE  IInv'
        BY <2>3, DrillHierarchyKeeps
    <2>4. ASSUME NEW k \in DOMAIN calls, NEW i \in DOMAIN calls[k].parts, PartStep(k, i)
          PROVE  IInv'
        BY <2>4, CubeAnswersKeeps, CubeWaitsKeeps, CubeFailsKeeps, SaveKeeps DEF PartStep
    <2>5. ASSUME NEW k \in DOMAIN calls, Compose(k)
          PROVE  IInv'
        BY <2>5, ComposeKeeps
    <2>6. CASE Tick
        BY <2>6, StayKeeps DEF Tick, IInv, Counters
    <2>7. CASE UNCHANGED vars
        BY <2>7, StayKeeps DEF vars, IInv, Counters
    <2>8. QED
        BY <2>1, <2>2, <2>3, <2>4, <2>5, <2>6, <2>7 DEF Next
<1>3. QED
    BY <1>1, <1>2, PTL DEF Spec

\* A composed query's row appears when all its parts are saved, names just
\* them and lives as long as any of them (query_planner.py, run).
THEOREM PartsBeforeParentHolds == Spec => []PartsBeforeParent
<1>1. IInv => PartsBeforeParent
    <2> SUFFICES ASSUME IInv, NEW k \in DOMAIN calls, Composed(calls[k])
                 PROVE  LET parent == calls[k].parent IN
                        /\ parent \in DOMAIN store =>
                            /\ calls[k].state = "answered" /\ store[parent].parts = {part.id : part \in PartsOf(k)}
                            /\ \A part \in PartsOf(k) : part.pc = "saved"
                        /\ calls[k].state = "answered" => \A part \in PartsOf(k) : Alive(part.id) => Alive(parent)
        BY DEF PartsBeforeParent
    <2>1. ParentInv(calls[k])
        BY DEF IInv, ParentsInv
    <2>2. {part.id : part \in PartsOf(k)} = IdsOf(calls[k])
        BY DEF PartsOf, ToSet, IdsOf
    <2>3. AllSaved(calls[k]) => \A part \in PartsOf(k) : part.pc = "saved"
        BY DEF PartsOf, ToSet, AllSaved
    <2>4. \A id \in DOMAIN store : store[id].expires \in Int
        BY DEF IInv, RowsInv, RowInv
    <2>5. now \in Nat
        BY DEF IInv, Counters
    <2>6. QED
        BY <2>1, <2>2, <2>3, <2>4, <2>5 DEF ParentInv, Alive
<1>2. QED
    BY <1>1, Inductive, PTL

\* Whatever the request, the bindings and the forced filters, every load of a
\* view that carries the brand reads one brand, or what the caller's own brand
\* filter asks for (query_planner.py, _run_single_view and _attribution_coverage).
THEOREM BrandKeptHolds == Spec => []BrandKept
<1>1. IInv => BrandKept
    BY DEF IInv, CallsInv, PartInv, Branded, BrandKept, LoadsOf, AllParts, PartsOf, ToSet
<1>2. QED
    BY <1>1, Inductive, PTL

\* A drill never loads more of a view than the row it reads did, and keeps
\* its axis (query_planner.py, drilldown).
THEOREM ChildNarrowsHolds == Spec => []ChildNarrows
<1>1. IInv => ChildNarrows
    BY DEF IInv, CallsInv, ChildInv, Narrows, ChildNarrows, PartsOf, ToSet
<1>2. QED
    BY <1>1, Inductive, PTL
=============================================================================
