---------------------------- MODULE CatalogueTools ----------------------------
(***************************************************************************)
(* The catalogue tools of gateway/server.py: what they list, define and    *)
(* relate, for a caller that may be held to a module (None: unscoped).     *)
(***************************************************************************)
EXTENDS CatalogueService

CONSTANT MaxBatch     \* definitions one call may ask for

(* list_metrics, also what an empty search returns. *)
ListMetrics(mod) == {m \in Searchable : mod = None \/ m \in ModuleMetrics(mod)}

(* The dimension index of bootstrap: those with a view of the module. *)
IndexedDimensions(mod) ==
    {d \in Ids(cat.dimensions) : mod = None \/ Ids(cat.dimensions[d].views) \cap ModuleViews(cat, mod) # {}}

(* Grain-first search: the whole name, a longer one inside the question,   *)
(* a word of the id, or an alias of one word.                              *)
ListDimensions(view, text) ==
    LET q == Normal(text)
        aliases(d) == {Normal(n) : n \in cat.dimensions[d].names}
    IN  {d \in Ids(cat.dimensions) :
            /\ view # None => view \in Ids(cat.dimensions[d].views)
            /\ text # <<>> =>
                \/ Words(<<d>>) \cap Words(text) # {}
                \/ \E f \in {Normal(<<d>>)} \cup aliases(d) :
                      f = q \/ (Len(f) >= 2 /\ Occurs(f, q)) \/ (Len(f) = 1 /\ f[1] \in Words(text))}

(* The metrics a dimension is offered with: drafts are, broken ones not. *)
SupportingMetrics(d) ==
    {m \in Ids(cat.metrics) : d \in cat.metrics[m].dims /\ cat.metrics[m].status # "broken"}

(* get_ontology of a v2 catalogue: the views of the module with their      *)
(* metrics, and the drill hierarchies that have one of these views.        *)
ModuleOntology(mod) ==
    LET views == {v \in Ids(cat.views) : mod = None \/ v \in ModuleViews(cat, mod)}
    IN  [metrics |-> [v \in views |-> {m \in Ids(cat.metrics) : Queryable(cat.metrics[m]) /\ cat.metrics[m].view = v}],
         drills  |-> {h \in Ids(cat.hierarchies) : mod = None \/ cat.hierarchies[h].views \cap ModuleViews(cat, mod) # {}}]

-----------------------------------------------------------------------------
(* Definitions and neighbours of one metric.                               *)

(* A cluster keeps the metrics that are served; a metric is in the first   *)
(* cluster that names it.                                                  *)
ClusterMetrics(c) == c.metrics \cap Ids(cat.metrics)
ClusterOf(m) == SelectSeq(cat.clusters, LAMBDA c : m \in ClusterMetrics(c))
Neighbours(m) == UNION {ClusterMetrics(c) \ {m} : c \in {ClusterOf(m)[i] : i \in {1} \cap DOMAIN ClusterOf(m)}}

Refused(kind, near) == [kind |-> kind, metric |-> None, nearest |-> near]
InModule(m, mod) == mod = None \/ IsMetricInModule(<<m>>, mod)
(* Suggestions are searched without the module. *)
Unknown(text) == Refused("unknown", DOMAIN Search(text, None))

(* get_metric.  A retired id's replacement may have been taken away by the *)
(* gate: the lookup then fails.                                            *)
MetricDefinition(text, mod) ==
    LET found == LookupMetric(text)
        m     == CHOOSE x \in found : TRUE
    IN  CASE found = {} -> Unknown(text)
          [] found # {} /\ m \notin Ids(cat.metrics) -> Refused("failed", {})
          [] found # {} /\ m \in Ids(cat.metrics) /\ ~InModule(m, mod) -> Refused("outside", ModuleMetrics(mod))
          [] OTHER -> [kind |-> "metric", metric |-> m, nearest |-> Neighbours(m)]

(* get_metrics: one bad id does not fail the others; ids of one metric     *)
(* give one definition.                                                    *)
MetricDefinitions(texts, mod) ==
    LET answers == [t \in texts |-> MetricDefinition(t, mod)] IN
    IF texts = {} \/ Cardinality(texts) > MaxBatch THEN [metrics |-> {}, errors |-> texts]
    ELSE [metrics |-> {answers[t].metric : t \in texts} \ {None},
          errors  |-> {t \in texts : answers[t].kind # "metric"}]

RelatedMetrics(text, mod) ==
    LET found == ResolveMetricId(text)
        m     == CHOOSE x \in found : TRUE
    IN  IF found = {} THEN Unknown(text)
        ELSE IF ~InModule(m, mod) THEN Refused("outside", ModuleMetrics(mod))
        ELSE [kind |-> "metric", metric |-> m, nearest |-> Neighbours(m)]
=============================================================================
