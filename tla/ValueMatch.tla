------------------------------ MODULE ValueMatch ------------------------------
(***************************************************************************)
(* Which values of the data a question names: ValueIndex.resolve of        *)
(* catalogue_service/value_index.py, over a snapshot that maps each        *)
(* <<dimension, view>> to a set of [raw, norm, volume].  A question is a   *)
(* sequence of clauses, a clause and a norm are sequences of words.        *)
(***************************************************************************)
EXTENDS CatalogueService

CONSTANTS
    Structural,   \* words of one or two letters, and numbers
    Literals,     \* filter values that are booleans or numbers
    Resembling,   \* how a term looks like a value: [term, norm, how]
    FewValues,    \* a dimension of fewer values is not tested for selectivity
    MaxShare,     \* percentage of a dimension a partial match may pick out
    MaxValues, MaxDims

(* Strongest first: how a term may match a value, by its rank. *)
Kinds == <<"exact", "token", "fuzzy", "contains", "abbreviation">>
Rank(how) == CHOOSE i \in DOMAIN Kinds : Kinds[i] = how

(* match_value tries them in this order; at most one. *)
MatchValue(term, norm) ==
    LET looks(how) == [term |-> term, norm |-> norm, how |-> how] \in Resembling
    IN  CASE term = norm -> {"exact"}
          [] term # norm /\ ToSet(term) \subseteq ToSet(norm) -> {"token"}
          [] OTHER -> LET how == SelectSeq(<<"contains", "fuzzy", "abbreviation">>, looks)
                      IN  {how[i] : i \in {1} \cap DOMAIN how}

-----------------------------------------------------------------------------
(* The words of the question and of the catalogue.                         *)

BrandWords == UNION {UNION {Words(n) : n \in b.names} : b \in {x \in cat.brands : x.status # "inactive"}}

(* The words the catalogue itself uses as filter values. *)
FilterValueWords ==
    LET filters == {g.filter : g \in cat.glossary} \cup {cat.deprecations[i].filter : i \in Ids(cat.deprecations)}
                   \cup UNION {UNION {Range(byValue) : byValue \in Range(cat.concepts[c].filters)} : c \in Ids(cat.concepts)}
    IN  UNION {Words(<<v>>) : v \in UNION {Range(f) : f \in filters} \ Literals}

\* Mutated form: the words of filter values stay in.
VocabularyOfNames ==
    UNION {Words(<<m>>) \cup Words(cat.metrics[m].name) : m \in Ids(cat.metrics)}
    \cup UNION {UNION {Words(n) : n \in {<<d>>} \cup cat.dimensions[d].names} : d \in Ids(cat.dimensions)}
    \cup UNION {Words(g.term) : g \in cat.glossary}

(* The words the catalogue owns: its names, less what are values to it. *)
Vocabulary ==
    (UNION {Words(<<m>>) \cup Words(cat.metrics[m].name) : m \in Ids(cat.metrics)}
     \cup UNION {UNION {Words(n) : n \in {<<d>>} \cup cat.dimensions[d].names} : d \in Ids(cat.dimensions)}
     \cup UNION {Words(g.term) : g \in cat.glossary})
    \ FilterValueWords

(* Every phrase of three, two and one words, longest first; a phrase stays *)
(* within its clause.                                                      *)
Kept(clause) == SelectSeq(clause, LAMBDA w : w \notin Structural \cup BrandWords)
Phrases(clause, n) == [i \in 1 .. Max({0, Len(clause) - n + 1}) |-> SubSeq(clause, i, i + n - 1)]
CandidateTerms(question) ==
    LET all(n) == FlattenSeq([i \in DOMAIN question |-> Phrases(Kept(question[i]), n)])
        add(seen, term) == IF term \in ToSet(seen) THEN seen ELSE Append(seen, term)
    IN  FoldLeft(add, <<>>, all(3) \o all(2) \o all(1))

-----------------------------------------------------------------------------
(* The values of one term.                                                 *)

Owned(term) == ToSet(term) \subseteq Vocabulary
Coverage(h) == (100 * h.words) \div Len(h.norm)
Stronger(h, k) ==
    \/ Rank(h.how) < Rank(k.how)
    \/ h.how = k.how /\ Coverage(h) > Coverage(k)
    \/ h.how = k.how /\ Coverage(h) = Coverage(k) /\ h.volume > k.volume

(* The first screen, value by value. *)
Screened(term, snap, key, claimed) ==
    {h \in {[raw |-> v.raw, norm |-> v.norm, volume |-> v.volume, how |-> how, words |-> Len(term), key |-> key] :
               v \in snap[key], how \in ToSet(Kinds)} :
        /\ h.how \in MatchValue(term, h.norm)
        /\ Owned(term) => h.how = "exact"
        /\ Len(term) > 1 => h.how # "abbreviation"
        /\ <<key, h.raw>> \notin claimed
        /\ h.how # "exact" => h.volume > 0}

(* An abbreviation counts beside the full form only, and a partial match   *)
(* only where it is selective.                                             *)
Trusted(screened) == IF \A h \in screened : h.how = "abbreviation" THEN {} ELSE screened
Selective(trusted, size) ==
    LET partial == {h \in trusted : h.how # "exact"}
    IN  IF partial # {} /\ size >= FewValues /\ 100 * Cardinality(partial) > MaxShare * size
        THEN trusted \ partial ELSE trusted
Hits(term, snap, key, claimed) ==
    Selective(Trusted(Screened(term, snap, key, claimed)), Cardinality(snap[key]))

(* Views in the order of their best match, coverage and total volume.      *)
Standing(S) == <<Min({Rank(h.how) : h \in S}), -Max({Coverage(h) : h \in S}), -MapThenSumSet(LAMBDA h : h.volume, S)>>
Ahead(S, T) == \E i \in 1 .. 3 : Standing(S)[i] < Standing(T)[i] /\ \A j \in 1 .. i - 1 : Standing(S)[j] = Standing(T)[j]

(* One entry per dimension, its views together: the first few values of    *)
(* the first few dimensions.                                               *)
Top(S, n, before(_, _)) == {x \in S : Cardinality({y \in S : before(y, x)}) < n}
Entry(term, hits) ==
    LET lead(d) == CHOOSE key \in {x \in DOMAIN hits : x[1] = d} :
                      \A o \in {x \in DOMAIN hits : x[1] = d} : ~Ahead(hits[o], hits[key])
        listed(d) == UNION {Top(hits[key], MaxValues, Stronger) : key \in {x \in DOMAIN hits : x[1] = d}}
        once(d) == {h \in listed(d) : \A k \in listed(d) : k.raw = h.raw => ~Ahead(hits[k.key], hits[h.key])}
        before(d, e) == Ahead(hits[lead(d)], hits[lead(e)])
    IN  [term |-> term, vocabulary |-> Owned(term),
         values |-> [d \in Top({key[1] : key \in DOMAIN hits}, MaxDims, before) |->
                        {h.raw : h \in Top(once(d), MaxValues, Stronger)}]]

(* Longest phrases first; what one has found is no longer there for the    *)
(* words inside it.                                                        *)
Heard(acc, term, hits) ==
    IF DOMAIN hits = {} THEN [acc EXCEPT !.unmatched = IF Len(term) = 1 THEN @ \cup {term[1]} ELSE @]
    ELSE [acc EXCEPT !.terms = @ \cup {Entry(term, hits)},
                     !.claimed = @ \cup UNION {{<<key, h.raw>> : h \in hits[key]} : key \in DOMAIN hits}]
NonEmpty(hits) == Restrict(hits, {key \in DOMAIN hits : hits[key] # {}})
Reported(done) == [terms |-> done.terms, unmatched |-> done.unmatched \ UNION {ToSet(e.term) : e \in done.terms}]
ResolveValues(question, snap) ==
    LET step(acc, term) == Heard(acc, term, NonEmpty([key \in DOMAIN snap |-> Hits(term, snap, key, acc.claimed)]))
    IN  Reported(FoldLeft(step, [claimed |-> {}, terms |-> {}, unmatched |-> {}], CandidateTerms(question)))

(* The brand a question names in so many words. *)
BrandsInText(question) ==
    {b.id : b \in {x \in cat.brands : x.status = "active" /\
                    \E n \in x.names : Occurs(n, FlattenSeq(question))}}
=============================================================================
