------------------------------ MODULE Catalogue ------------------------------
(***************************************************************************)
(* The catalogue at work: the process loads the files and refuses to start *)
(* on an unsound set, pins a serve database, marks broken what Cube no     *)
(* longer has, and then answers names.  The files of one deployment are    *)
(* chosen in Init; many of them carry a mistake an editor can make.        *)
(***************************************************************************)
EXTENDS CatalogueTools, ValueMatch

CONSTANTS
    Sources,      \* the YAML file sets that may be deployed
    ServeDbs,     \* the databases a deployment may pin; None pins nothing
    MissingSets,  \* sets of members that Cube's /meta may lack
    Terms,        \* the names callers ask for
    Questions,    \* whole questions, read for the axes their words set
    AxisChoices,  \* the axes callers pass along
    Batches,      \* sets of names asked in one call
    Spoken,       \* questions as sequences of clauses
    Snapshots     \* what the value index may have learned of a brand

VARIABLES
    phase,        \* "starting", "refused", "unchecked", "serving", "answered"
    db,           \* the pinned database
    checked,      \* the members Cube lacked at the drift check, None without one
    last          \* the last question and every answer given to it

vars == <<cat, phase, db, checked, last>>

Nothing == [text |-> <<>>, axes |-> <<>>, term |-> Answer("unknown"), concept |-> Answer("unknown"),
            module |-> None, found |-> <<>>, planned |-> {}, grain |-> {}, exact |-> {},
            listed |-> {}, index |-> {}, defined |-> Refused("unknown", {}), related |-> Refused("unknown", {}),
            texts |-> {}, batch |-> [metrics |-> {}, errors |-> {}], drills |-> {}, offered |-> {},
            question |-> <<>>, brands |-> {}, snap |-> <<>>, heard |-> [terms |-> {}, unmatched |-> {}]]

Init ==
    /\ cat \in Sources /\ phase = "starting" /\ db \in ServeDbs
    /\ checked = None /\ last = Nothing

(* load_catalogue, then CatalogueService.__init__ applies the gate. *)
Load ==
    /\ phase = "starting"
    /\ LET built == Loaded(cat)
       IN  IF Sound(built)
           THEN cat' = (IF db = None THEN built ELSE Scoped(built, db)) /\ phase' = "unchecked"
           ELSE cat' = cat /\ phase' = "refused"
    /\ UNCHANGED <<db, checked, last>>

(* validate_against_cube; an unreachable Cube only skips it.  A bare id is *)
(* no member of Cube's.                                                    *)
DriftCheck ==
    /\ phase = "unchecked" /\ phase' = "serving"
    /\ \E gone \in MissingSets :
        /\ cat' = Drifted(cat, {n \in UNION {Needed(cat, cat.metrics[m]) : m \in Ids(cat.metrics)} : n[1] # None} \ gone)
        /\ checked' = gone
    /\ UNCHANGED <<db, last>>
DriftSkipped ==
    /\ phase = "unchecked" /\ phase' = "serving"
    /\ UNCHANGED <<cat, db, checked, last>>

Answered(text, axes, mod) ==
    [Nothing EXCEPT
        !.text = text, !.axes = axes, !.term = ResolveTerm(text), !.concept = AskConcept(text, axes),
        !.module = mod, !.found = Search(text, mod), !.planned = ResolveMetricId(text),
        !.grain = ResolveDimensionTerm(text), !.exact = ResolveDimension(text),
        !.listed = ListMetrics(mod), !.index = ListDimensions(None, text),
        !.defined = MetricDefinition(text, mod), !.related = RelatedMetrics(text, mod),
        !.drills = ModuleOntology(mod).drills, !.offered = UNION {SupportingMetrics(d) : d \in ResolveDimensionTerm(text)}]

AskTerm ==
    /\ phase = "serving"
    /\ \E text \in Terms, mod \in Ids(cat.modules) \cup {None} : last' = Answered(text, <<>>, mod)
    /\ phase' = "answered" /\ UNCHANGED <<cat, db, checked>>

(* The caller's own axes, or those the words of its question set. *)
AskWithAxes ==
    /\ phase = "serving"
    /\ \E text \in Terms, axes \in AxisChoices \cup {QuestionAxes(q) : q \in Questions} :
        axes # <<>> /\ last' = Answered(text, axes, None)
    /\ phase' = "answered" /\ UNCHANGED <<cat, db, checked>>

AskBatch ==
    /\ phase = "serving"
    /\ \E texts \in Batches, mod \in Ids(cat.modules) \cup {None} :
        last' = [Nothing EXCEPT !.module = mod, !.texts = texts, !.batch = MetricDefinitions(texts, mod)]
    /\ phase' = "answered" /\ UNCHANGED <<cat, db, checked>>

(* catalogue_resolve_values, once the index is there of the brand the      *)
(* question names, or else of the default brand.                           *)
AskValues ==
    /\ phase = "serving"
    /\ \E question \in Spoken :
        LET named == BrandsInText(question) IN
        \E brand \in IF named = {} THEN {cat.defaultBrand} ELSE named :
            last' = [Nothing EXCEPT !.question = question, !.brands = named, !.snap = Snapshots[brand],
                                    !.heard = ResolveValues(question, Snapshots[brand])]
    /\ phase' = "answered" /\ UNCHANGED <<cat, db, checked>>

(* A question changes nothing a later one reads: one is asked per run. *)
Next == Load \/ DriftCheck \/ DriftSkipped \/ AskTerm \/ AskWithAxes \/ AskBatch \/ AskValues
Spec == Init /\ [][Next]_vars

-----------------------------------------------------------------------------

Serving == phase \in {"unchecked", "serving", "answered"}
Served(m) == m \in Ids(cat.metrics)

(* A served catalogue has come through the load, and its answers stay      *)
(* within the kinds the tools return.                                      *)
TypeOK ==
    /\ phase \in {"starting", "refused", "unchecked", "serving", "answered"} /\ db \in ServeDbs /\ checked \in MissingSets \cup {None}
    /\ last.term.kind \in {"metric", "retired", "definition", "ambiguous", "unknown"}
    /\ last.concept.kind \in {"metric", "unsupported", "unknown"}

(* What readers of a served catalogue follow without a guard of their own  *)
(* leads somewhere, whatever mistake the files carry: the load refuses it, *)
(* or a later step does.  Three ids the load does not look at are named    *)
(* here for what becomes of them: a ratio with a component that is no      *)
(* metric served is broken once Cube was asked; a view a binding names may *)
(* be lost to the gate only; a definition fails only for a retired id      *)
(* whose replacement the gate hid; and the one filter an answer may carry  *)
(* that its view does not have is a concept alias's own (see FiltersLand). *)
RatiosHold ==
    \A m \in Ids(cat.metrics) : checked # None /\ Queryable(cat.metrics[m]) =>
        ToSet(cat.metrics[m].components) \subseteq Ids(cat.metrics)
AnswersHold ==
    /\ \A a \in {last.term, last.concept} : a.kind = "metric" =>
        /\ Served(a.metric)
        /\ \A d \in DOMAIN a.filter :
            OnView(cat, d, cat.metrics[a.metric].view) \/ d \in DOMAIN MatchConcept(last.text).filter
    /\ last.defined.kind = "failed" => BaseOf(cat, cat.retired[Token(last.text)].new) \in cat.hidden
NothingDangles == TypeOK /\ (Serving =>
    /\ RatiosHold /\ AnswersHold
    /\ \A m \in Ids(cat.metrics) :
        /\ cat.metrics[m].view \in Ids(cat.views) /\ cat.metrics[m].measure[1] = cat.metrics[m].view
        /\ cat.metrics[m].dims \subseteq Ids(cat.dimensions)
        /\ \A a \in Ids(cat.metrics[m].axisDimensions) :
              cat.semantic >= 3 => cat.metrics[m].axisDimensions[a][1] = cat.metrics[m].view
        /\ \A b \in ToSet(cat.metrics[m].bindings) : db = None => b.view \in Ids(cat.views)
    /\ \A t \in Ids(cat.conceptAliases) : cat.conceptAliases[t].concept \in Ids(cat.concepts)
    /\ \A d \in Ids(cat.dimensions) : cat.dimensions[d].key \in Ids(cat.dimensions) \cup {None}
    /\ \A m \in last.listed : cat.metrics[m].dims \subseteq IndexedDimensions(last.module)
    /\ \A h \in last.drills : ToSet(cat.hierarchies[h].levels) \subseteq Ids(cat.dimensions)
    /\ \A mod \in Ids(cat.modules) : db = None => ModuleViews(cat, mod) \subseteq Ids(cat.views))

(* The load fails on any "bad refs between YAML files" (loader.py:812), so *)
(* the filter an answer tells its caller to apply is on a dimension of the *)
(* metric's view.  The dimension in a concept alias's own filter is a      *)
(* reference that no check reads.                                          *)
FiltersLand ==
    last.concept.kind = "metric" =>
        \A d \in DOMAIN last.concept.filter : OnView(cat, d, cat.metrics[last.concept.metric].view)

(* One name, one answer: the resolver, the concept tool asked without      *)
(* axes, the planner, the definition and the first search hit name the     *)
(* same metric, as far as each may name it at all (a queryable metric, of  *)
(* the module asked), and an id that is listed names its own metric.  A    *)
(* name that is one dimension's is that dimension's to the planner and to  *)
(* the listing, and what is just a brand's name is that brand's to the     *)
(* value matcher and to the brand tool.                                    *)
First(found) == {m \in DOMAIN found : \A o \in DOMAIN found : found[o] =< found[m]}
OneMetric == last.term.kind = "metric" =>
    /\ last.axes = <<>> => last.concept.metric = last.term.metric /\ last.concept.filter = last.term.filter
    /\ last.planned # {} /\ last.term.via \in {"metric_id", "metric_alias"} => last.planned = {last.term.metric}
    /\ (Queryable(cat.metrics[last.term.metric])
          /\ last.module \in {None} \cup {x \in Ids(cat.modules) : last.term.metric \in ModuleMetrics(x)})
            => First(last.found) = {last.term.metric}
OneDefinition ==
    /\ last.defined.kind = "metric" /\ last.term.kind # "retired" /\ Queryable(cat.metrics[last.defined.metric]) =>
        last.planned = {last.defined.metric}
    /\ \A m \in last.listed : ResolveMetricId(<<m>>) = {m} /\ LookupMetric(<<m>>) = {m}

OneDimension ==
    /\ last.exact # {} /\ last.text \notin PaymentWords => last.exact \cap last.grain # {}
    /\ \A d \in last.exact : Normal(last.text) \in {Normal(n) : n \in {<<d>>} \cup cat.dimensions[d].names} => d \in last.index
OneBrand == \A b \in cat.brands :
    last.question # <<>> /\ b.status = "active" /\ FlattenSeq(last.question) \in b.names =>
        last.brands = {x.id : x \in ResolveBrand(FlattenSeq(last.question))}
OneAnswer == OneMetric /\ OneDefinition /\ OneDimension /\ OneBrand

(* The gate answers from the pinned database or not at all, a module's     *)
(* listing, search and definitions are of its own views, what Cube lacks   *)
(* is not found, listed or offered with a grain, and no name of a batch    *)
(* goes unanswered.                                                        *)
AnsweredBy(a) == IF a.kind = "metric" THEN {a.metric} ELSE {}
Offered == DOMAIN last.found \cup last.listed
Defined == AnsweredBy(last.defined) \cup last.batch.metrics
GateHolds ==
    /\ \A m \in Offered : Queryable(cat.metrics[m])
    /\ \A m \in Offered \cup last.offered \cup last.planned : checked # None => Needed(cat, cat.metrics[m]) \cap checked = {}
    /\ \A m \in Offered \cup Defined : last.module # None => cat.metrics[m].view \in ModuleViews(cat, last.module)
    /\ db # None =>
        \A m \in Offered \cup Defined \cup last.related.nearest \cup last.planned \cup AnsweredBy(last.term) \cup AnsweredBy(last.concept) :
            Served(m) /\ cat.views[cat.metrics[m].view].databases = {db}
    /\ Cardinality(last.texts) =< MaxBatch =>
        \A t \in last.texts : t \in last.batch.errors \/ LookupMetric(t) \cap last.batch.metrics # {}

(* No axis the caller tried to set falls back to its default: not one      *)
(* named by the concept, and not one meant by a value only it can take.    *)
AxesHonoured == (last.axes # <<>> /\ last.concept.kind = "metric") =>
    LET c == cat.concepts[last.concept.concept] IN
    \A k \in DOMAIN last.axes : \A a \in Ids(c.axes) :
        (a = k \/ (k \notin Ids(c.axes) /\ last.axes[k] \in c.axes[a].values)) =>
            /\ a \notin last.concept.defaulted
            /\ last.concept.axes[a] = Get(last.axes, a, last.concept.axes[a]) \/ OwnWords(c, last.text, a) # {}

(* A value the question says in so many words, all of them words that can  *)
(* name a value, is proposed, unless a list it belongs to was full; and a  *)
(* word the resolver turns into a filter is not called catalogue           *)
(* vocabulary, which callers drop from the scope of the answer.            *)
Says(question, norm) == Len(norm) =< 3 /\ \E i \in DOMAIN question : Occurs(norm, Kept(question[i]))
Full(e, d) == IF d \in DOMAIN e.values THEN Cardinality(e.values[d]) = MaxValues ELSE Cardinality(DOMAIN e.values) = MaxDims
FilteredBy(question, norm) ==
    \E i \in DOMAIN question : LET term == ResolveTerm(question[i]) IN
        term.kind = "metric" /\ \E w \in Range(term.filter) : Normal(<<w>>) = norm
ValuesHeard ==
    \A key \in DOMAIN last.snap : \A v \in last.snap[key] : Says(last.question, v.norm) =>
        /\ \E e \in last.heard.terms : Occurs(v.norm, e.term) /\
              (Full(e, key[1]) \/ (key[1] \in DOMAIN e.values /\ v.raw \in e.values[key[1]]))
        /\ FilteredBy(last.question, v.norm) => \A e \in last.heard.terms : e.term = v.norm => ~e.vocabulary
=============================================================================
