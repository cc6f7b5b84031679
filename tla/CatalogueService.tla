-------------------------- MODULE CatalogueService --------------------------
(***************************************************************************)
(* Name resolution, catalogue_service/service.py: what a typed name stands *)
(* for.  A name is a sequence of lower-case tokens; an id is one token     *)
(* ("net_sales"), which _normalize splits into words (net sales).  Scores  *)
(* are percentages.                                                        *)
(***************************************************************************)
EXTENDS CatalogueLoader, Integers

CONSTANTS
    Split,            \* token -> the words _normalize makes of it
    Plural,           \* token -> the same noun in the other number
    Hints, OldHints,  \* axis -> sequence of [words, value]: the phrase tables
    PartOf,           \* pairs of tokens, the first contained in the second
    StopWords,        \* words that carry no metric meaning
    Platforms,        \* platform -> the words that name it
    PaymentWords,     \* names read as the payment breakdown
    Numeric           \* tokens that are numbers

VARIABLE cat          \* the catalogue being served

AutoThreshold      == 85
AmbiguousThreshold == 60
RunnerUpMargin     == 5

Normal(text)  == FlattenSeq([i \in DOMAIN text |-> Get(Split, text[i], <<text[i]>>)])
Words(text)   == ToSet(Normal(text))
Variants(text) ==
    IF text = <<>> THEN <<>> ELSE <<text, Append(Front(text), Get(Plural, Last(text), Last(text)))>>
Token(text)   == IF Len(text) = 1 THEN text[1] ELSE None
TextOf(member) == <<member[1], ".", member[2]>>
Occurs(part, text) ==
    part # <<>> /\ \E i \in 1 .. Len(text) - Len(part) + 1 : SubSeq(text, i, i + Len(part) - 1) = part

(* difflib's ratio, taken over words. *)
Similarity(a, b) ==
    IF a = b THEN 100
    ELSE (200 * Cardinality(ToSet(a) \cap ToSet(b))) \div (Len(a) + Len(b) + 1)

Best(S, score(_)) == {x \in S : \A y \in S : score(y) =< score(x)}
Searchable == {m \in Ids(cat.metrics) : Queryable(cat.metrics[m]) /\ ~cat.metrics[m].unlisted}

(* An answer: only the fields its kind uses differ from these. *)
Answer(kind) ==
    [kind |-> kind, metric |-> None, filter |-> <<>>, date |-> None, via |-> None,
     concept |-> None, axes |-> <<>>, defaulted |-> {}, nearest |-> {}]

-----------------------------------------------------------------------------
(* Ids: retired ones, aliases, deprecated names, Cube members.             *)

MetricAlias(text) ==
    IF cat.semantic >= 3 THEN {a \in Ids(cat.metricAliases) : a = Token(text)} ELSE {}

RetiredTerm(text) ==
    LET id == Token(text)
        live == Ids(cat.metrics) \cup Ids(cat.metricAliases)
    IN  IF id \in Ids(cat.retired)
        THEN {[Answer("retired") EXCEPT !.metric = cat.retired[id].new, !.filter = cat.retired[id].filter]}
        ELSE IF id \notin live /\ id \in Ids(cat.deprecations) /\ cat.deprecations[id].new \notin live
        THEN {Answer("retired")}
        ELSE {}

(* resolve_metric_id: the ids a reference may stand for, at most one. *)
ResolveMetricId(text) ==
    LET live(S) == {m \in S \cap Ids(cat.metrics) : Queryable(cat.metrics[m])}
        byId     == live({Token(text)})
        byAlias  == live({cat.metricAliases[a].metric : a \in MetricAlias(text)})
        byOld    == live({m \in Ids(cat.metrics) : text \in cat.metrics[m].oldNames})
        byMember == live({m \in Ids(cat.metrics) : text \in {TextOf(x) : x \in {cat.metrics[m].measure, cat.metrics[m].pct} \ {None}}})
        tier     == SelectSeq(<<byId, byAlias, byOld, byMember>>, LAMBDA S : S # {})
    IN  IF tier = <<>> THEN {} ELSE {CHOOSE m \in tier[1] : TRUE}

AliasTerm(a) ==
    LET al == cat.metricAliases[a] IN
    IF al.refused THEN [Answer("unknown") EXCEPT !.nearest = {al.metric}, !.via = "refused"]
    ELSE IF al.metric \notin Ids(cat.metrics) \/ ~Queryable(cat.metrics[al.metric])
    THEN [Answer("unknown") EXCEPT !.via = "refused"]
    ELSE [Answer("metric") EXCEPT !.metric = al.metric, !.date = al.axis, !.via = "metric_alias"]

(* lookup_metric (get_metric) answers drafts too; a retired id is followed *)
(* to its replacement's metric, which the gate may have taken away.        *)
LookupMetric(text) ==
    IF Token(text) \in Ids(cat.retired)
    THEN {BaseOf(cat, cat.retired[Token(text)].new)}
    ELSE IF ResolveMetricId(text) # {} THEN ResolveMetricId(text)
    ELSE {Token(text)} \cap Ids(cat.metrics)

-----------------------------------------------------------------------------
(* Concepts: a business word and a choice on each of its axes.             *)

Named(v) == {c \in Ids(cat.concepts) : v \in cat.concepts[c].names}
NamesConcept(v) == v \in Ids(cat.conceptAliases) \/ Named(v) # {}
Within(v) == {cn \in {<<c, n>> : c \in Ids(cat.concepts), n \in UNION {cat.concepts[i].names : i \in Ids(cat.concepts)}} :
                cn[2] \in cat.concepts[cn[1]].names /\ Occurs(cn[2], v)}

MatchConcept(text) ==
    LET exact == SelectSeq(Variants(text), NamesConcept)
        loose == SelectSeq(Variants(text), LAMBDA v : Within(v) # {})
        bare(c) == [concept |-> c, axes |-> <<>>, filter |-> <<>>]
    IN  IF exact # <<>>
        THEN IF exact[1] \in Ids(cat.conceptAliases) THEN cat.conceptAliases[exact[1]]
             ELSE bare(CHOOSE c \in Named(exact[1]) : TRUE)
        ELSE IF loose # <<>>
        THEN bare((CHOOSE cn \in Best(Within(loose[1]), LAMBDA x : Len(x[2])) : TRUE)[1])
        ELSE bare(None)

(* The axes a whole question sets: an axis of which it names exactly one   *)
(* value, by whole words, a phrase inside a longer one not counting.       *)
QuestionAxes(text) ==
    LET end(s) == s[1] + Len(s[2].words)
        spans(a) == {s \in (1 .. Len(text)) \X ToSet(Hints[a]) :
                        end(s) - 1 =< Len(text) /\ SubSeq(text, s[1], end(s) - 1) = s[2].words}
        inside(s, t) == t[1] =< s[1] /\ end(s) =< end(t) /\ Len(t[2].words) > Len(s[2].words)
        said(a) == {s[2].value : s \in {x \in spans(a) : \A t \in spans(a) : ~inside(x, t)}}
    IN  [a \in {x \in DOMAIN Hints : Cardinality(said(x)) = 1} |-> CHOOSE v \in said(a) : TRUE]

(* An axis given under another name goes to the one axis its value fits;   *)
(* a value that fits several is refused, one that fits none is ignored.    *)
Fits(c, asked, k) == {a \in Ids(c.axes) \ DOMAIN asked : asked[k] \in c.axes[a].values}
\* Mutated form: an axis given under another name is dropped.
PlacedByName(c, asked) == Restrict(asked, DOMAIN asked \cap Ids(c.axes))

PlacedAxes(c, asked) ==
    LET lone == {k \in DOMAIN asked \ Ids(c.axes) : Cardinality(Fits(c, asked, k)) = 1}
    IN  [a \in (DOMAIN asked \cap Ids(c.axes)) \cup UNION {Fits(c, asked, k) : k \in lone} |->
            IF a \in DOMAIN asked THEN asked[a]
            ELSE asked[CHOOSE k \in lone : Fits(c, asked, k) = {a}]]
Unplaced(c, asked) == {k \in DOMAIN asked \ Ids(c.axes) : Cardinality(Fits(c, asked, k)) > 1}

(* The value the term's own words give an axis: its first hint found in    *)
(* the text, as part of a word if need be.                                 *)
Said(words, text) ==
    \/ Occurs(words, text)
    \/ Len(words) = 1 /\ \E i \in DOMAIN text : <<words[1], text[i]>> \in PartOf
OwnWords(c, text, a) ==
    LET found == SelectSeq(Get(Hints, a, <<>>) \o Get(OldHints, a, <<>>),
                           LAMBDA h : h.value \in c.axes[a].values /\ Said(h.words, text))
    IN  {found[i].value : i \in {1} \cap DOMAIN found}

OwnAxes(c, text) ==
    [a \in {x \in Ids(c.axes) : OwnWords(c, text, x) # {}} |-> CHOOSE v \in OwnWords(c, text, a) : TRUE]

(* The term's own words win, then the axes passed in, the alias's; what    *)
(* is not given so takes its declared default.                             *)
GivenAxes(c, text, preset, asked) ==
    OwnAxes(c, text) @@ PlacedAxes(c, asked) @@ Restrict(preset, DOMAIN preset \cap Ids(c.axes))
FilledAxes(c, given) ==
    given @@ [a \in {x \in Ids(c.axes) : c.axes[x].default # None} |-> c.axes[a].default]

Matches(when, filled) == \A k \in DOMAIN when : k \in DOMAIN filled /\ filled[k] = when[k]
MatchResolve(c, filled) ==
    LET rows == SelectSeq(c.resolves, LAMBDA r : Matches(r.when, filled))
        most == SelectSeq(rows, LAMBDA r : \A s \in ToSet(rows) : Cardinality(DOMAIN s.when) =< Cardinality(DOMAIN r.when))
    IN  {most[i] : i \in {1} \cap DOMAIN most}

ConceptMetrics(c) ==
    {r.metric : r \in {x \in ToSet(c.resolves) : cat.scoped => x.metric \in Ids(cat.metrics)}}

(* The filters a choice of axes adds to the metric. *)
AxisFilters(c, filled) ==
    FoldSet(LAMBDA a, acc : Get(Get(c.filters, a, <<>>), Get(filled, a, None), <<>>) @@ acc, <<>>, Ids(c.filters))

ConceptDate(c, asked, filled) ==
    IF cat.semantic < 3 \/ "date" \notin Ids(c.axes) \cup DOMAIN asked THEN None
    ELSE IF Get(IF "date" \in Ids(c.axes) THEN filled ELSE asked, "date", None) = "finance"
    THEN "event_date" ELSE "order_date"

Unsupported(id) == [Answer("unsupported") EXCEPT !.concept = id, !.nearest = ConceptMetrics(cat.concepts[id])]

(* A row's metric, or the fallback for one that is not served, unless the  *)
(* metric is hidden or cannot take the filters or the date chosen.         *)
RowAnswer(sel, row) ==
    LET c      == cat.concepts[sel.id]
        served == row.metric \in Ids(cat.metrics) /\ Queryable(cat.metrics[row.metric])
        metric == IF served \/ row.fallback = None THEN row.metric ELSE row.fallback
        added  == AxisFilters(c, sel.filled)
        date   == ConceptDate(c, sel.asked, sel.filled)
    IN  IF \/ {row.metric, metric} \cap cat.hidden # {}
           \/ \E d \in Ids(added) : ~(metric \in Ids(cat.metrics) /\ OnView(cat, d, cat.metrics[metric].view))
           \/ date = "event_date" /\ metric \in Ids(cat.metrics) /\ cat.metrics[metric].axis = "cohort_only"
        THEN Unsupported(sel.id)
        ELSE [Answer("metric") EXCEPT !.metric = metric, !.filter = added @@ row.filter @@ sel.filter,
                !.date = date, !.concept = sel.id, !.axes = sel.filled, !.defaulted = DOMAIN sel.filled \ DOMAIN sel.given]

Selection(match, text, asked) ==
    LET c     == cat.concepts[match.concept]
        given == GivenAxes(c, text, match.axes, asked)
    IN  [id |-> match.concept, filter |-> match.filter, asked |-> asked, given |-> given, filled |-> FilledAxes(c, given)]
Selected(sel) ==
    LET c    == cat.concepts[sel.id]
        rows == MatchResolve(c, sel.filled)
    IN  IF Unplaced(c, sel.asked) # {} \/ (\E u \in c.unsupported : Matches(u, sel.filled)) \/ rows = {}
        THEN Unsupported(sel.id) ELSE RowAnswer(sel, CHOOSE row \in rows : TRUE)

ResolveConcept(text, asked) ==
    IF MatchConcept(text).concept = None THEN Answer("unknown")
    ELSE Selected(Selection(MatchConcept(text), text, asked))

-----------------------------------------------------------------------------
(* Terms: one order of resolution for every entry point.                   *)

Forms(m) == {Normal(<<m>>), Normal(cat.metrics[m].name)}
MetricsCalled(norm) == {m \in Searchable : norm \in Forms(m)}
TermsCalled(norm)   == {g \in cat.glossary : g.metric \in Searchable /\ Normal(g.term) = norm}
Closeness(m, norm) ==
    Max({Similarity(norm, f) : f \in Forms(m) \cup {Normal(g.term) : g \in {x \in cat.glossary : x.metric = m}}})

ConceptTerm(rc) ==
    CASE rc.kind = "metric"      -> {[rc EXCEPT !.via = "concept"]}
      [] rc.kind = "unsupported" -> {[Answer("unknown") EXCEPT !.nearest = rc.nearest, !.via = "refused"]}
      [] OTHER -> {}

GlossaryTerm(g) ==
    IF g.metric \in Ids(cat.metrics)
    THEN {[Answer("metric") EXCEPT !.metric = g.metric, !.filter = g.filter, !.via = "glossary"]}
    ELSE IF g.metric # None /\ MetricAlias(<<g.metric>>) # {}
    THEN {IF AliasTerm(g.metric).kind = "metric" THEN [AliasTerm(g.metric) EXCEPT !.filter = g.filter, !.via = "glossary"]
          ELSE AliasTerm(g.metric)}
    ELSE IF g.dimension # None THEN {Answer("definition")} ELSE {}

(* retired id, alias id, metric id, exact concept, glossary term, exact    *)
(* name, name of an unavailable metric, concept inside the text; then      *)
(* candidates only.                                                        *)
Tiers(text, norm, id, concept) ==
    LET unavailable(m) == [Answer("unknown") EXCEPT !.via = "refused", !.nearest = cat.metrics[m].depends]
        ids  == IF id \notin Ids(cat.metrics) THEN {}
                ELSE IF Queryable(cat.metrics[id]) THEN {[Answer("metric") EXCEPT !.metric = id, !.via = "metric_id"]}
                ELSE {unavailable(id)}
        exact == \E v \in ToSet(Variants(text)) : NamesConcept(v)
        glossary == UNION {GlossaryTerm(g) : g \in {x \in cat.glossary : x.term = text}}
        called == {[Answer("metric") EXCEPT !.metric = m, !.via = "name"] : m \in MetricsCalled(norm)}
        termed == {[Answer("metric") EXCEPT !.metric = g.metric, !.filter = g.filter, !.via = "name"] : g \in TermsCalled(norm)}
        gone   == {unavailable(m) : m \in {x \in Ids(cat.metrics) : ~Queryable(cat.metrics[x]) /\ norm \in Forms(x)}}
    IN  <<RetiredTerm(text), {AliasTerm(a) : a \in MetricAlias(text)}, ids, IF exact THEN concept ELSE {}, glossary,
          called, termed, gone, concept>>
Strongest(tiers, near) ==
    LET hit == SelectSeq(tiers, LAMBDA S : S # {})
    IN  IF hit # <<>> THEN CHOOSE r \in hit[1] : TRUE
        ELSE IF near # {} THEN [Answer("ambiguous") EXCEPT !.nearest = near]
        ELSE Answer("unknown")

ResolveTerm(text) ==
    LET norm == Normal(text)
    IN  Strongest(Tiers(text, norm, Token(text), ConceptTerm(ResolveConcept(text, <<>>))),
                  {m \in Searchable : Closeness(m, norm) >= AmbiguousThreshold})

(* resolve_concept without axes goes through the one resolver first. *)
ConceptAsked(term, text, asked) ==
    CASE asked = <<>> /\ term.kind = "metric" -> term
      [] asked = <<>> /\ term.kind = "retired" -> [Answer("unsupported") EXCEPT !.nearest = {term.metric} \ {None}]
      [] asked = <<>> /\ term.via = "refused" -> [Answer("unsupported") EXCEPT !.nearest = term.nearest]
      [] OTHER -> ResolveConcept(text, asked)
AskConcept(text, asked) == ConceptAsked(ResolveTerm(text), text, asked)

-----------------------------------------------------------------------------
(* Dimensions, modules, brands.                                            *)

DimensionForms(d) ==
    {Normal(<<d>>)} \cup {Normal(n) : n \in cat.dimensions[d].names}
        \cup {TextOf(cat.dimensions[d].views[v]) : v \in Ids(cat.dimensions[d].views)}
        \cup {Normal(g.term) : g \in {x \in cat.glossary : x.dimension = d}}

(* The planner's exact lookup: an id, a name, an alias or a Cube member. *)
ResolveDimension(text) ==
    LET named == {d \in Ids(cat.dimensions) :
                    \/ \E n \in {<<d>>} \cup cat.dimensions[d].names : Normal(n) = Normal(text)
                    \/ \E v \in Ids(cat.dimensions[d].views) : text = TextOf(cat.dimensions[d].views[v])}
    IN  IF text \in PaymentWords /\ "payment_bucket" \in Ids(cat.dimensions) THEN {"payment_bucket"}
        ELSE IF Token(text) \in Ids(cat.dimensions) THEN {Token(text)}
        ELSE IF named = {} THEN {} ELSE {CHOOSE d \in named : TRUE}

DimensionWords(d) == Words(<<d>>) \cup UNION {Words(n) : n \in cat.dimensions[d].names}
DimensionScore(d, norm) ==
    LET form(f) == IF f = norm THEN 100 ELSE IF Len(f) >= 2 /\ Occurs(f, norm) THEN 95 ELSE Similarity(norm, f)
    IN  Max({form(f) : f \in DimensionForms(d)} \cup (IF DimensionWords(d) \cap ToSet(norm) # {} THEN {70} ELSE {0}))
Siblings(d, norm) ==
    IF Len(norm) = 1 THEN {e \in Ids(cat.dimensions) \ {d} : norm[1] \in DimensionWords(e)} ELSE {}
Banded(norm, score) ==
    LET scored == {d \in DOMAIN score : score[d] >= AmbiguousThreshold}
        exact  == {d \in scored : score[d] = 100}
        field  == scored \cup (IF Cardinality(exact) = 1 THEN UNION {Siblings(d, norm) : d \in exact} ELSE {})
        clear  == {d \in scored : /\ score[d] >= AutoThreshold /\ Siblings(d, norm) = {}
                                  /\ \A e \in field \ {d} : score[d] >= score[e] + RunnerUpMargin}
    IN  IF Cardinality(exact) = 1 /\ \A d \in exact : Siblings(d, norm) = {} THEN exact
        ELSE IF clear # {} THEN clear ELSE field

(* Confidence bands; a bare word several dimensions share stays ambiguous. *)
ResolveDimensionTerm(text) ==
    Banded(Normal(text), [d \in Ids(cat.dimensions) |-> DimensionScore(d, Normal(text))])

(* Metrics that answer one concept's selection at another grain. *)
GrainTwins(m) ==
    LET grain(c, r) == Get(r.when, "scope", c.axes["scope"].default)
        twins(c) == {t.metric : t \in {x \in ToSet(c.resolves) :
                        /\ x.metric # m /\ x.metric \in Ids(cat.metrics)
                        /\ \E r \in ToSet(c.resolves) :
                              /\ r.metric = m /\ grain(c, x) # grain(c, r)
                              /\ \A k \in DOMAIN r.when \ {"scope"} : Get(x.when, k, r.when[k]) = r.when[k]}}
    IN  UNION {twins(cat.concepts[c]) : c \in {x \in Ids(cat.concepts) : "scope" \in Ids(cat.concepts[x].axes)}}

MetricsSupporting(d, except) ==
    {m \in Ids(cat.metrics) \ {except} : Queryable(cat.metrics[m]) /\ d \in cat.metrics[m].dims}

ModuleMetrics(mod) == {m \in Ids(cat.metrics) : cat.metrics[m].view \in ModuleViews(cat, mod)}
IsMetricInModule(text, mod) ==
    /\ mod \in Ids(cat.modules)
    /\ (IF ResolveMetricId(text) # {} THEN ResolveMetricId(text) ELSE {Token(text)}) \subseteq ModuleMetrics(mod)

(* A brand's id, name or code: the brands left when one is a clear winner, *)
(* otherwise every one in reach.  A numeric id passes as it is.            *)
BrandScore(b, norm) == Max({Similarity(norm, Normal(f)) : f \in b.names \cup {<<b.id>>}})
BestBrands(score) ==
    LET reach == {b \in DOMAIN score : score[b] >= AmbiguousThreshold}
        clear == {b \in reach : score[b] >= AutoThreshold /\ \A o \in reach \ {b} : score[b] >= score[o] + RunnerUpMargin}
    IN  IF clear # {} THEN clear ELSE reach
ResolveBrand(text) ==
    BestBrands([b \in {x \in cat.brands : x.status # "inactive"} |-> BrandScore(b, Normal(text))])

OnlySure(brands, norm) ==
    {b.id : b \in {x \in brands : brands = {x} /\ BrandScore(x, norm) >= AutoThreshold}}
BrandFilterValue(text) ==                 \* a number is an id, registered or not
    IF \E n \in Numeric : text = <<n>> THEN {text[1]} ELSE OnlySure(ResolveBrand(text), Normal(text))

-----------------------------------------------------------------------------
(* Search: every metric with its strongest evidence.  The resolver's own   *)
(* answer comes first; a question about a grain keeps only the metrics     *)
(* that carry it, and the metrics of another platform rank last.           *)

NamedDimensions(text) ==
    LET norm == Normal(text)
        called(f) == f = norm \/ (Len(f) >= 2 /\ Occurs(f, norm))
    IN  {d \in Ids(cat.dimensions) :
            \/ LET id == Normal(<<d>>) IN IF Len(id) = 1 THEN id[1] \in Words(text) ELSE Occurs(id, norm)
            \/ \E n \in cat.dimensions[d].names : called(Normal(n)) \/ (Len(Normal(n)) = 1 /\ Normal(n)[1] \in Words(text))
            \/ \E g \in cat.glossary : g.dimension = d /\ Words(g.term) \subseteq Words(text)}

\* Mutated form: only a metric named by its id is put first.
ResolverTopById(text) == {Token(text)} \cap Ids(cat.metrics)

TopMetric(term) == IF term.kind \in {"metric", "retired"} THEN {term.metric} \cap Ids(cat.metrics) ELSE {}
ResolverTop(text) == TopMetric(ResolveTerm(text))

PlatformPenalty(m, text) ==
    LET asked == {p \in DOMAIN Platforms : Platforms[p] \cap Words(text) # {}}
        named == {p \in DOMAIN Platforms : Platforms[p] \cap Words(<<m>>) # {}}
    IN  IF asked # {} /\ named # {} /\ asked \cap named = {} THEN 60 ELSE 0

(* By words of the id and the name, or else of the description (its longer *)
(* words: about).                                                          *)
ByName(m, text, content) ==
    LET hay == Words(<<m>>) \cup Words(cat.metrics[m].name)
    IN  IF m \notin Searchable THEN {}
        ELSE IF hay \cap Words(text) # {}
        THEN {20 + 15 * Cardinality(content \cap hay) + (IF content # {} /\ content \subseteq hay THEN 10 ELSE 0)}
        ELSE IF content \cap cat.metrics[m].about # {} THEN {5} ELSE {}
ByTerm(m, text) ==
    LET weight(words, some) == 100 + 10 * Cardinality(IF some = {} THEN words ELSE some)
    IN  {weight(Words(g.term), Words(g.term) \ StopWords) + (IF Normal(g.term) = Normal(text) THEN 50 ELSE 0) :
            g \in {x \in cat.glossary : x.metric = m /\ Words(x.term) \subseteq Words(text)}}

(* What speaks for each metric in scope; none of it leaves it out. *)
Evidence(m, top, named, grains) ==
    LET atGrain == grains \cap cat.metrics[m].dims # {}
    IN  (IF m \in top THEN {1000} ELSE {}) \cup (IF atGrain THEN {10} ELSE {})
        \cup (IF m \in top \/ grains = {} \/ atGrain THEN named ELSE {})
Scores(text, evidence) ==
    [m \in {x \in DOMAIN evidence : evidence[x] # {}} |-> Max(evidence[m]) - PlatformPenalty(m, text)]
Ranked(text, mod, top, grains) ==
    Scores(text, [m \in {x \in Ids(cat.metrics) : Queryable(cat.metrics[x]) /\ (mod = None \/ x \in ModuleMetrics(mod))} |->
                    Evidence(m, top, ByName(m, text, Words(text) \ StopWords) \cup ByTerm(m, text), grains)])
Search(text, mod) == Ranked(text, mod, ResolverTop(text), NamedDimensions(text))
=============================================================================
