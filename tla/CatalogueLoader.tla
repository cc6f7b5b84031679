--------------------------- MODULE CatalogueLoader ---------------------------
(***************************************************************************)
(* The catalogue's load pipeline: catalogue_service/loader.py, scope.py    *)
(* and validate.py.  A raw catalogue is what the YAML files say; Loaded    *)
(* is what load_catalogue builds of it, Sound what _check_integrity asks,  *)
(* Scoped the serve-database gate and Drifted the comparison with Cube.    *)
(*                                                                         *)
(* Identifiers are strings, an optional reference is None, a map is a      *)
(* function, a Cube member is <<view, name>>, a name typed by a person is  *)
(* a sequence of tokens (see CatalogueService).  A list whose order        *)
(* decides nothing is a set.                                               *)
(***************************************************************************)
EXTENDS Naturals, FiniteSets, SequencesExt

CONSTANT None

Get(map, key, default) == IF key \in DOMAIN map THEN map[key] ELSE default
Ids(map) == DOMAIN map
Queryable(m) == m.status \in {"approved", "certified"}

(* The views a metric can be answered from, and the first binding of one. *)
Homes(m) == {m.view} \cup {b.view : b \in ToSet(m.bindings)}
BindingOn(m, view) ==
    SelectSeq(m.bindings, LAMBDA b : b.view = view)

(* A ratio component's measure on a view: none, or one.  What is no metric *)
(* id is taken for a member already and stays as it is written (v1 wrote   *)
(* qualified members; here it is a bare id, a member of no view).          *)
RawMember(c) == <<None, c>>
ComponentOn(metrics, c, view) ==
    IF c \notin Ids(metrics) THEN {RawMember(c)}
    ELSE IF metrics[c].view = view THEN {metrics[c].measure}
    ELSE {BindingOn(metrics[c], view)[i].measure : i \in {1} \cap DOMAIN BindingOn(metrics[c], view)}

(* A ratio is decomposed on the views that serve both its components. *)
RatioMembers(metrics, m) ==
    LET both == {v \in Homes(m) : \A c \in ToSet(m.components) : ComponentOn(metrics, c, v) # {}}
    IN  [v \in IF m.ratio /\ m.components # <<>> THEN both ELSE {} |->
            UNION {ComponentOn(metrics, c, v) : c \in ToSet(m.components)}]

(* Several files may declare a dimension: the first one's fields, the      *)
(* mappings and the names of all.                                          *)
MergedDimensions(files) ==
    [id \in {d.id : d \in ToSet(files)} |->
        LET all == SelectSeq(files, LAMBDA d : d.id = id)
        IN  [all[1] EXCEPT
                !.views = FoldLeft(LAMBDA acc, d : d.views @@ acc, <<>>, all),
                !.names = UNION {d.names : d \in ToSet(all)}]]

(* Every dimension of the metric's view, unless waived or excluded. *)
DerivedDimensions(m, dims, waived) ==
    m.dims \cup {d \in Ids(dims) : m.view \in Ids(dims[d].views) /\ d \notin waived \cup m.excluded}

(* The dimensions a binding carries for the metric; one whose list of      *)
(* slices is empty is never populated there.                               *)
BoundDimensions(m, dims) ==
    {d \in Ids(dims) : \E b \in ToSet(m.bindings) :
        /\ d \in b.dims /\ b.view \in Ids(dims[d].views)
        /\ b.slice = None \/ d = b.slice \/ Get(b.slices, d, <<>>) # <<>>}

(* The generated crosswalk overrides a view's date axes (where it states   *)
(* one) and its databases, and adds its own views to a domain's.           *)
CrosswalkedViews(raw) ==
    [v \in Ids(raw.views) |->
        IF v \notin Ids(raw.crosswalk.views) THEN raw.views[v]
        ELSE LET x == raw.crosswalk.views[v]
             IN  [raw.views[v] EXCEPT
                    !.date = IF x.date # None THEN x.date ELSE @,
                    !.datetime = IF x.datetime # None THEN x.datetime ELSE @,
                    !.databases = x.databases]]
CrosswalkedDomains(raw) ==
    [d \in Ids(raw.domains) |-> raw.domains[d] \cup Get(raw.crosswalk.domains, d, {})]

(* A retired id has a live replacement and is no live id itself. *)
RetiredIds(raw) ==
    LET live == Ids(raw.metrics) \cup Ids(raw.metricAliases)
    IN  [old \in {o \in Ids(raw.deprecations) :
                    o \notin live /\ raw.deprecations[o].new \in live} |-> raw.deprecations[old]]

Loaded(raw) ==
    LET dims == MergedDimensions(raw.dimensionFiles)
    IN  [semantic |-> raw.semantic,
         metrics |-> [id \in Ids(raw.metrics) |->
            LET m == raw.metrics[id]
            IN  [m EXCEPT !.dims = DerivedDimensions(m, dims, raw.waived) \cup BoundDimensions(m, dims)]
                  @@ [members |-> RatioMembers(raw.metrics, m)]],
         dimensions |-> dims, views |-> CrosswalkedViews(raw),
         glossary |-> raw.glossary, deprecations |-> raw.deprecations, retired |-> RetiredIds(raw),
         metricAliases |-> raw.metricAliases, concepts |-> raw.concepts,
         conceptAliases |-> raw.conceptAliases, hierarchies |-> raw.hierarchies,
         modules |-> raw.modules, domains |-> CrosswalkedDomains(raw),
         channels |-> raw.channels, brands |-> raw.brands, defaultBrand |-> raw.defaultBrand,
         clusters |-> raw.clusters,
         hidden |-> {}, scoped |-> FALSE]

-----------------------------------------------------------------------------
(* The integrity check: the process refuses to start on a catalogue that   *)
(* fails one of these.                                                     *)

OnView(cat, d, view) == d \in Ids(cat.dimensions) /\ view \in Ids(cat.dimensions[d].views)
BaseOf(cat, ref) == IF ref \in Ids(cat.metricAliases) THEN cat.metricAliases[ref].metric ELSE ref

MetricsSound(cat) ==
    /\ \A i, j \in Ids(cat.metrics) : cat.metrics[i].name = cat.metrics[j].name => i = j
    /\ \A id \in Ids(cat.metrics) : LET m == cat.metrics[id] IN
        /\ m.name # <<>>
        /\ m.view \in Ids(cat.views)
        /\ m.time # None => m.time[1] = m.view
        /\ \A d \in m.dims :
            /\ d \in Ids(cat.dimensions)
            /\ OnView(cat, d, m.view) \/ \E b \in ToSet(m.bindings) : d \in b.dims /\ OnView(cat, d, b.view)
        /\ (m.ratio /\ m.components = <<>>) => m.average \/ m.depends # {}
        /\ m.depends \cup m.companions \subseteq Ids(cat.metrics)
        /\ \A p \in m.composition :
            p \in Ids(cat.metrics) /\ ~m.ratio /\ ~cat.metrics[p].ratio /\ cat.metrics[p].view = m.view
        /\ m.split \in Ids(cat.dimensions) \cup {None}

MetricsSoundV2(cat) ==
    \A id \in Ids(cat.metrics) : LET m == cat.metrics[id] IN
        /\ m.measure[1] = m.view
        /\ \A b \in ToSet(m.bindings) :
            /\ b.view \in Ids(cat.views) /\ b.measure[1] = b.view
            /\ b.time # None => b.time[1] = b.view
            /\ \A d \in b.dims : OnView(cat, d, b.view)
            /\ b.granularities # {} \/ b.dims # {}
        /\ \A d \in Ids(m.validFor) : OnView(cat, d, m.view) /\ m.validFor[d] # {}
        /\ m.status = "broken" => m.explained
        /\ m.replaces \cap Ids(cat.metrics) \subseteq {id}

(* v3: every metric says what its date axis is; an alias has a base that   *)
(* can carry the axis it stands for, or is refused.                        *)
AxesSound(cat) ==
    /\ \A id \in Ids(cat.metrics) : LET m == cat.metrics[id] IN
        /\ m.axis # None
        /\ (m.axis \in {"switchable", "placement_only"} /\ m.axisDimensions # <<>>) =>
              /\ Ids(m.axisDimensions) = {"order_date", "event_date"}
              /\ \A a \in Ids(m.axisDimensions) : m.axisDimensions[a][1] = m.view
        /\ m.axis = "switchable" => m.axisDimensions # <<>>
        /\ m.axis = "cohort_only" => m.refusal
    /\ \A a \in Ids(cat.metricAliases) : LET al == cat.metricAliases[a] IN
        /\ a \notin Ids(cat.metrics) /\ al.metric \in Ids(cat.metrics)
        /\ (al.axis = "event_date" /\ ~al.refused) =>
              /\ cat.metrics[al.metric].axis # "cohort_only"
              /\ cat.metrics[al.metric].axis \in {"switchable", "placement_only"} =>
                    cat.metrics[al.metric].axisDimensions # <<>>

FiltersFit(cat, ref, filter) ==
    /\ BaseOf(cat, ref) \in Ids(cat.metrics)
    /\ \A d \in Ids(filter) : OnView(cat, d, cat.metrics[BaseOf(cat, ref)].view)

(* A module sees the views of its ontology domains and its extra ones. *)
ModuleViews(cat, mod) ==
    cat.modules[mod].extra \cup UNION {Get(cat.domains, d, {}) : d \in cat.modules[mod].domains}

\* Mutated form: a term's filter is not held against the metric's view.
GlossarySoundUnfiltered(cat) ==
    \A g, h \in cat.glossary : g.term = h.term => g.metric = h.metric

GlossarySound(cat) ==
    LET known == Ids(cat.metrics) \cup Ids(cat.metricAliases) IN
    /\ \A g, h \in cat.glossary : g.term = h.term => g.metric = h.metric
    /\ \A g \in cat.glossary :
        /\ g.metric # None => g.metric \in known /\ FiltersFit(cat, g.metric, g.filter)
        /\ g.dimension # None => g.dimension \in Ids(cat.dimensions)
    /\ \A old \in Ids(cat.retired) : FiltersFit(cat, cat.retired[old].new, cat.retired[old].filter)

ConceptsSound(cat) ==
    LET states(c, when) == \A k \in Ids(when) : k \in Ids(c.axes) /\ when[k] \in c.axes[k].values IN
    /\ \A id \in Ids(cat.concepts) : LET c == cat.concepts[id] IN
        /\ \A a \in Ids(c.axes) : c.axes[a].default \in c.axes[a].values \cup {None}
        /\ \A r \in ToSet(c.resolves) :
            /\ states(c, r.when) /\ r.metric \in Ids(cat.metrics)
            /\ FiltersFit(cat, r.metric, r.filter)
            /\ r.fallback # None => r.fallback \in Ids(cat.metrics) /\ Queryable(cat.metrics[r.fallback])
        /\ \A a \in Ids(c.filters) :
            /\ a \in Ids(c.axes) /\ Ids(c.filters[a]) \subseteq c.axes[a].values
            /\ \A v \in Ids(c.filters[a]) : Ids(c.filters[a][v]) \subseteq Ids(cat.dimensions)
    /\ \A i, j \in Ids(cat.concepts) :                  \* one meaning for one number
        \A r \in ToSet(cat.concepts[i].resolves), s \in ToSet(cat.concepts[j].resolves) :
            <<r.metric, r.when, r.filter>> = <<s.metric, s.when, s.filter>> => i = j
    /\ \A t \in Ids(cat.conceptAliases) : LET a == cat.conceptAliases[t] IN
        a.concept \in Ids(cat.concepts) /\ states(cat.concepts[a.concept], a.axes)

ModulesSound(cat) ==
    \A mod \in Ids(cat.modules) :
        /\ cat.modules[mod].domains \subseteq Ids(cat.domains)
        /\ ModuleViews(cat, mod) # {} /\ ModuleViews(cat, mod) \subseteq Ids(cat.views)
KeysSound(cat) ==
    \A d \in Ids(cat.dimensions) : LET key == cat.dimensions[d].key IN
        key # None => /\ key \in Ids(cat.dimensions)
                      /\ Ids(cat.dimensions[d].views) \cap Ids(cat.dimensions[key].views) # {}
HierarchiesSound(cat) ==
    \A h \in Ids(cat.hierarchies) : LET levels == ToSet(cat.hierarchies[h].levels) IN
        /\ levels \subseteq Ids(cat.dimensions)
        /\ \A v \in cat.hierarchies[h].views : v \in Ids(cat.views) /\ \A l \in levels : OnView(cat, l, v)

Sound(cat) ==
    /\ MetricsSound(cat) /\ MetricsSoundV2(cat)
    /\ cat.semantic >= 3 => AxesSound(cat)
    /\ GlossarySound(cat) /\ ConceptsSound(cat)
    /\ ModulesSound(cat) /\ KeysSound(cat) /\ HierarchiesSound(cat)

-----------------------------------------------------------------------------
\* Mutated form: a view that reads the database among others stays visible.
ScopedLoose(cat, db) ==
    LET views == {v \in Ids(cat.views) : db \in cat.views[v].databases}
        mets  == {m \in Ids(cat.metrics) : cat.metrics[m].view \in views}
    IN  [cat EXCEPT !.views = Restrict(@, views), !.metrics = Restrict(@, mets),
                    !.hidden = Ids(cat.metrics) \ mets, !.scoped = TRUE]

(* The gate: a view is visible iff it reads the pinned database and no     *)
(* other; metrics, dimensions and glossary terms follow their views.       *)
Scoped(cat, db) ==
    LET views == {v \in Ids(cat.views) : cat.views[v].databases = {db}}
        dims  == {d \in Ids(cat.dimensions) : Ids(cat.dimensions[d].views) \cap views # {}}
        mets  == {m \in Ids(cat.metrics) : cat.metrics[m].view \in views}
    IN  [cat EXCEPT
            !.views = Restrict(@, views),
            !.dimensions = [d \in dims |-> [@[d] EXCEPT
                !.views = Restrict(@, views \cap DOMAIN @),
                !.key = IF @ \in dims THEN @ ELSE None]],
            !.metrics = [m \in mets |-> [@[m] EXCEPT !.dims = @ \cap dims]],
            !.glossary = {g \in @ : g.metric \in mets \cup {None} /\ g.dimension \in dims \cup {None}},
            !.hidden = Ids(cat.metrics) \ mets, !.scoped = TRUE]

(* A metric needs its measures, its ratio's members, as they are any       *)
(* component that is no metric served, and the members of its dimensions;  *)
(* one that Cube does not have makes the metric broken.                    *)
Unserved(cat, m) == ToSet(m.components) \ Ids(cat.metrics)
\* Mutated form: only the members the loader resolved are compared.
NeededResolved(cat, m) ==
    ({m.measure, m.pct} \ {None}) \cup (UNION {m.members[v] : v \in Ids(m.members)} \ {RawMember(c) : c \in ToSet(m.components)})
        \cup {cat.dimensions[d].views[m.view] : d \in {x \in m.dims : OnView(cat, x, m.view)}}

Needed(cat, m) ==
    ({m.measure, m.pct} \ {None}) \cup UNION {m.members[v] : v \in Ids(m.members)} \cup {RawMember(c) : c \in Unserved(cat, m)}
        \cup {cat.dimensions[d].views[m.view] : d \in {x \in m.dims : OnView(cat, x, m.view)}}
Drifted(cat, members) ==
    [cat EXCEPT !.metrics = [id \in DOMAIN @ |->
        [@[id] EXCEPT !.status = IF Needed(cat, cat.metrics[id]) \subseteq members THEN @ ELSE "broken"]]]
=============================================================================
