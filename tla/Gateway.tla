------------------------------- MODULE Gateway -------------------------------
(***************************************************************************)
(* gateway/server.py: what stands before the planner.  metrics_query and   *)
(* metrics_drilldown check the caller's scopes and the module and then ask *)
(* Cube how new the data of every view is, through a cache; semantic_sql   *)
(* is counted per session and checked against Cube's schema, through       *)
(* another cache.  Calls run side by side in one event loop, while the     *)
(* clock runs and the pipelines land.  The planner is Queries' matter:     *)
(* here it answers or fails.                                               *)
(***************************************************************************)
EXTENDS Integers, FiniteSets, SequencesExt

CONSTANTS
    Names,           \* what a caller may type -> [metric, byId: an id, not a term]
    Metrics,         \* metric -> [view, scopes, modules]
    Views,           \* view -> [lag: days or Ungated, branded]
    Members,         \* the columns of the views, as SQL names them
    Modules, CallerScopes,
    Pin,             \* the module of this instance, or None
    Brands, DefaultBrand,
    Enforced,        \* whether stale views are refused
    Grace,           \* days allowed beyond a view's lag
    SqlLimit,        \* statements of one key in a window of RateWindow ticks
    ListLimit,       \* listings in such a window; 0 counts nothing
    TicksPerDay, ProbeTtl, SchemaTtl, ResultTtl, RateWindow,
    CubeWait,        \* the ticks after which a request to Cube has ended
    Workloads,       \* bound: what a behaviour may ask, and how many calls it makes
    Start, Horizon,  \* bound: the first and the last instant
    Ungated, None

VARIABLES
    now,             \* the clock, in ticks
    newest,          \* <<view, brand>> -> the newest day landed
    members,         \* the members Cube's SQL API serves
    asks,            \* what the callers of this behaviour ask: [asks, calls]
    cache,           \* slice -> [at, day, read]: the probes' cache
    schema,          \* the SQL schema's cache: [at, members, read], or None
    results,         \* call -> [names, filters, until]: the result store
    times,           \* key -> the calls whose instants are kept
    calls            \* every call, in order

vars == <<now, newest, members, asks, cache, schema, results, times, calls>>

Day(tick) == tick \div TicksPerDay

(* The caches keep what they hear for a while.  Of the instance: the clock *)
(* starts after the second day, and the stale pipelines with it.           *)
ASSUME GatewayAssumption ==
    /\ {Start, Horizon, Grace, SqlLimit, ListLimit, ResultTtl, RateWindow, CubeWait} \subseteq Nat
    /\ {TicksPerDay, ProbeTtl, SchemaTtl} \subseteq Nat \ {0}
    /\ 2 * TicksPerDay =< Start /\ Start =< Horizon
    /\ IsFiniteSet(DOMAIN Views)
    /\ \A v \in DOMAIN Views : Views[v].lag = Ungated \/ Views[v].lag \in Nat
    /\ \A m \in DOMAIN Metrics : Metrics[m].view \in DOMAIN Views
    /\ \A n \in DOMAIN Names : Names[n].metric \in DOMAIN Metrics
    /\ \A w \in Workloads : \A a \in w.asks :
        /\ a.kind \in {"query", "drill"} => a.names \subseteq DOMAIN Names
        /\ a.kind = "drill" => {"module", "filters", "parent"} \subseteq DOMAIN a
    /\ None \notin {"answered", "rate", "stale"}

(* A dict is written at a key. *)
Put(dict, key, value) == [k \in DOMAIN dict \cup {key} |-> IF k = key THEN value ELSE dict[k]]

Pipelines == {v \in DOMAIN Views : Views[v].lag # Ungated} \X Brands
Unknown == -1

(* Bound: only the pipelines and members that are asked about change. *)
Touched == {Metrics[Names[n].metric].view : n \in UNION {a.names : a \in {x \in asks.asks : x.kind = "query"}}}
TouchedMembers == UNION {a.reads : a \in {x \in asks.asks : x.kind = "sql"}}

Init ==
    /\ now = Start
    /\ asks \in Workloads
    /\ newest \in {f \in [Pipelines -> {Day(Start), Day(Start) - 2}] : \A p \in Pipelines : p[1] \notin Touched => f[p] = Day(Start)}
    /\ members \in {Members} \cup {Members \ {x} : x \in TouchedMembers}
    /\ cache = <<>> /\ schema = None /\ results = <<>> /\ times = <<>> /\ calls = <<>>

-----------------------------------------------------------------------------
(* The gate of a query.                                                    *)

(* It knows a measure by its id alone; the planner goes on to terms. *)
Known(names) == {Names[n].metric : n \in {x \in names : Names[x].byId}}
ScopeDenied(names) == \E m \in Known(names) : ~(Metrics[m].scopes \subseteq CallerScopes)

(* The pin, else the module of the call, else none. *)
Effective(mod) == IF Pin # None THEN Pin ELSE mod
ModuleRefused(mod) ==
    (Pin # None /\ mod \notin {None, Pin}) \/ Effective(mod) \notin Modules \cup {None}
ModuleDenied(names, mod) ==
    /\ Effective(mod) # None
    /\ \E n \in names : ~(Names[n].byId /\ Effective(mod) \in Metrics[Names[n].metric].modules)

(* The views to ask, in order; one whose cadence tells no lag is not asked. *)
Needed(names) == {v \in {Metrics[m].view : m \in Known(names)} : Enforced /\ Views[v].lag # Ungated}
ToAsk(names) == SetToSeq(Needed(names))
Allowed(view) == Views[view].lag + Grace

\* Mutated form: one reading per view, whatever the brand.
SliceOfView(view, filters) == [view |-> view, filters |-> <<>>]

(* A probe is narrowed by the call's brand filters only. *)
Slice(view, filters) == [view |-> view, filters |-> IF Views[view].branded THEN filters ELSE <<>>]
Meets(brand, filter) == IF filter.op = "equals" THEN brand = filter.brand ELSE brand # filter.brand
Within(filters) == {b \in Brands : \A i \in DOMAIN filters : Meets(b, filters[i])}
NewestOf(slice) ==
    LET days == {newest[<<slice.view, b>>] : b \in Within(slice.filters)}
    IN  IF days = {} THEN Unknown ELSE Max(days)

-----------------------------------------------------------------------------
(* Calls.                                                                  *)

Blank(kind, ask) ==
    [kind |-> kind, ask |-> ask, at |-> now, pc |-> "gating", why |-> None, names |-> {}, filters |-> <<>>,
     left |-> <<>>, today |-> Day(now), out |-> None, seen |-> <<>>, stale |-> {}]
Ended(call, why) == [call EXCEPT !.pc = "ended", !.why = why]
Opened(call) == calls' = Append(calls, call)
Onward(call) == IF call.left # <<>> THEN call
                ELSE IF call.stale # {} THEN Ended(call, "stale") ELSE [call EXCEPT !.pc = "running"]

Gate(call, names, filters, mod) ==
    IF ScopeDenied(names) THEN Ended(call, "scope")
    ELSE IF ModuleRefused(mod) THEN Ended(call, "module")
    ELSE IF ModuleDenied(names, mod) THEN Ended(call, "module")
    ELSE Onward([call EXCEPT !.names = names, !.filters = filters, !.left = ToAsk(names)])

Query(ask) ==
    /\ Opened(Gate(Blank("query", ask), ask.names, ask.filters, ask.module))
    /\ UNCHANGED <<now, newest, members, asks, cache, schema, results, times>>

(* A drill passes the same gate with the measures of its parent, if the    *)
(* parent is still there; if not, the planner will say so.                 *)
Alive(parent) == parent \in DOMAIN results /\ now < results[parent].until
Drill(ask, parent) ==
    LET call == Blank("drill", [ask EXCEPT !.parent = parent]) IN
    /\ Opened(IF ModuleRefused(ask.module) THEN Ended(call, "module")
              ELSE IF Alive(parent)
              THEN Gate(call, results[parent].names, results[parent].filters \o ask.filters, ask.module)
              ELSE [call EXCEPT !.pc = "running"])
    /\ UNCHANGED <<now, newest, members, asks, cache, schema, results, times>>

(* The reading of the view at the head of the line is judged.              *)
Judged(call, day, read) ==
    LET view == Head(call.left) IN
    Onward([call EXCEPT !.left = Tail(@), !.out = None, !.seen = Put(@, view, [day |-> day, read |-> read, at |-> now]),
                        !.stale = IF day # Unknown /\ call.today - day > Allowed(view) THEN @ \cup {view} ELSE @])
HeadSlice(c) == Slice(Head(calls[c].left), calls[c].filters)

\* Mutated form: a reading serves on the tick it expires.
CachedOneMore(c) == HeadSlice(c) \in DOMAIN cache /\ now - cache[HeadSlice(c)].at =< ProbeTtl

Cached(c) == HeadSlice(c) \in DOMAIN cache /\ now - cache[HeadSlice(c)].at < ProbeTtl
Gating(c) == calls[c].kind # "sql" /\ calls[c].pc = "gating"

ProbeHit(c) ==
    /\ Gating(c) /\ calls[c].out = None /\ Cached(c)
    /\ calls' = [calls EXCEPT ![c] = Judged(calls[c], cache[HeadSlice(c)].day, cache[HeadSlice(c)].read)]
    /\ UNCHANGED <<now, newest, members, asks, cache, schema, results, times>>

ProbeSent(c) ==
    /\ Gating(c) /\ calls[c].out = None /\ ~Cached(c)
    /\ calls' = [calls EXCEPT ![c].out = [since |-> now, read |-> None, day |-> Unknown]]
    /\ UNCHANGED <<now, newest, members, asks, cache, schema, results, times>>

(* Cube reads at one instant and is heard at a later one; what is kept is  *)
(* stamped with the later.  A failure is kept as well.                     *)
CubeReads(c) ==
    /\ Gating(c) /\ calls[c].out # None /\ calls[c].out.read = None
    /\ calls' = [calls EXCEPT ![c].out = [since |-> @.since, read |-> now, day |-> NewestOf(HeadSlice(c))]]
    /\ UNCHANGED <<now, newest, members, asks, cache, schema, results, times>>
Heard(c, day, read) ==
    /\ cache' = Put(cache, HeadSlice(c), [at |-> now, day |-> day, read |-> read])
    /\ calls' = [calls EXCEPT ![c] = Judged(calls[c], day, read)]
    /\ UNCHANGED <<now, newest, members, asks, schema, results, times>>
ProbeAnswered(c) ==
    Gating(c) /\ calls[c].out # None /\ calls[c].out.read # None /\ Heard(c, calls[c].out.day, calls[c].out.read)

\* Mutated form: a probe that failed is sent again.
ProbeFailedAgain(c) ==
    /\ Gating(c) /\ calls[c].out # None
    /\ calls' = [calls EXCEPT ![c].out = None]
    /\ UNCHANGED <<now, newest, members, asks, cache, schema, results, times>>

ProbeFailed(c) == Gating(c) /\ calls[c].out # None /\ Heard(c, Unknown, now)

(* The planner answers and stores the rows, or fails; a drill whose parent *)
(* has expired meanwhile is refused.                                       *)
Running(c) == calls[c].kind # "sql" /\ calls[c].pc = "running"
Parentless(c) == calls[c].kind = "drill" /\ ~Alive(calls[c].ask.parent)
RowsOf(c) == IF calls[c].kind = "query" THEN [names |-> calls[c].ask.names, filters |-> calls[c].ask.filters]
             ELSE LET parent == results[calls[c].ask.parent]
                  IN  [names |-> parent.names, filters |-> parent.filters \o calls[c].ask.filters]
PlannerAnswers(c) ==
    /\ Running(c) /\ ~Parentless(c)
    /\ calls' = [calls EXCEPT ![c] = Ended([calls[c] EXCEPT !.names = RowsOf(c).names, !.filters = RowsOf(c).filters], "answered")]
    /\ results' = Put(results, c, [names |-> RowsOf(c).names, filters |-> RowsOf(c).filters, until |-> now + ResultTtl])
    /\ UNCHANGED <<now, newest, members, asks, cache, schema, times>>
PlannerFails(c) ==
    /\ Running(c) /\ calls' = [calls EXCEPT ![c] = Ended(calls[c], "failed")]
    /\ UNCHANGED <<now, newest, members, asks, cache, schema, results, times>>

-----------------------------------------------------------------------------
(* semantic_sql and its session's count.                                   *)

TimesOf(key) == IF key \in DOMAIN times THEN {d \in times[key] : now - calls[d].at < RateWindow} ELSE {}
Counted(key) == times' = Put(times, key, TimesOf(key) \cup {Len(calls) + 1})
TooMany(key, limit) == Cardinality(TimesOf(key)) >= limit

(* Every call is counted, the refused ones too. *)
Sql(ask) ==
    LET call == Blank("sql", ask) IN
    /\ Counted(ask.key)
    /\ Opened(IF TooMany(ask.key, SqlLimit) THEN Ended(call, "rate") ELSE call)
    /\ UNCHANGED <<now, newest, members, asks, cache, schema, results>>

(* catalogue_list_metrics is counted over all its callers, if at all. *)
ListMetrics(ask) ==
    LET call == Blank("list", ask)
        refused == ListLimit > 0 /\ TooMany(ask.key, ListLimit) IN
    /\ IF ListLimit > 0 THEN Counted(ask.key) ELSE times' = times
    /\ Opened(Ended(call, IF refused THEN "rate" ELSE IF ModuleRefused(ask.module) THEN "module" ELSE "answered"))
    /\ UNCHANGED <<now, newest, members, asks, cache, schema, results>>

(* One statement of governed words will do as long as no schema is known;  *)
(* with one, an EXPLAIN passes, and of any other every member that is seen *)
(* to be a view's (qualified, or with nothing but views around it) is of   *)
(* the schema.  The brand, or the default one, must be a number.           *)
Governed(ask, known) ==
    IF known = {} THEN ask.governed ELSE ask.explains \/ (ask.reads # {} /\ ask.seen \subseteq known)
BrandOf(ask) == IF ask.brand = None THEN DefaultBrand ELSE ask.brand
Checked(call, known, read) ==
    LET judged == [call EXCEPT !.out = None, !.seen = [read |-> read, at |-> now]] IN
    IF call.ask.select /\ Governed(call.ask, known) /\ BrandOf(call.ask) \in Brands
    THEN [judged EXCEPT !.pc = "running"]
    ELSE Ended(judged, "invalid")

AtSchema(c) == calls[c].kind = "sql" /\ calls[c].pc = "gating"
SchemaFresh == schema # None /\ now - schema.at < SchemaTtl
SchemaHit(c) ==
    /\ AtSchema(c) /\ calls[c].out = None /\ SchemaFresh
    /\ calls' = [calls EXCEPT ![c] = Checked(calls[c], schema.members, schema.read)]
    /\ UNCHANGED <<now, newest, members, asks, cache, schema, results, times>>
SchemaSent(c) ==
    /\ AtSchema(c) /\ calls[c].out = None /\ ~SchemaFresh
    /\ calls' = [calls EXCEPT ![c].out = [since |-> now, members |-> members, was |-> schema]]
    /\ UNCHANGED <<now, newest, members, asks, cache, schema, results, times>>
SchemaAnswered(c) ==
    /\ AtSchema(c) /\ calls[c].out # None
    /\ \E known \in {[members |-> calls[c].out.members, read |-> calls[c].out.since], [members |-> members, read |-> now]} :
        /\ schema' = [members |-> known.members, read |-> known.read, at |-> now]
        /\ calls' = [calls EXCEPT ![c] = Checked(calls[c], known.members, known.read)]
    /\ UNCHANGED <<now, newest, members, asks, cache, results, times>>

(* Cube cannot be asked: what was known when the call began serves,        *)
(* however old.                                                            *)
SchemaFails(c) ==
    /\ AtSchema(c) /\ calls[c].out # None
    /\ calls' = [calls EXCEPT ![c] =
            Checked(calls[c], IF calls[c].out.was = None THEN {} ELSE calls[c].out.was.members, None)]
    /\ UNCHANGED <<now, newest, members, asks, cache, schema, results, times>>

SqlRuns(c) ==
    /\ calls[c].kind = "sql" /\ calls[c].pc = "running"
    /\ \E why \in {"failed"} \cup (IF calls[c].ask.reads \subseteq members THEN {"answered"} ELSE {}) :
        calls' = [calls EXCEPT ![c] = Ended(calls[c], why)]
    /\ UNCHANGED <<now, newest, members, asks, cache, schema, results, times>>

-----------------------------------------------------------------------------
(* The clock, the pipelines, and a release of Cube's model.  Bounded to    *)
(* the time between the first call and the last.                           *)

Between == calls # <<>> /\ (Len(calls) < asks.calls \/ \E c \in DOMAIN calls : calls[c].pc # "ended")
Tick ==
    /\ Between /\ now < Horizon /\ now' = now + 1
    /\ \A c \in DOMAIN calls : calls[c].out # None => now - calls[c].out.since < CubeWait
    /\ UNCHANGED <<newest, members, asks, cache, schema, results, times, calls>>
Land(p) ==
    /\ Between /\ p[1] \in Touched /\ newest[p] < Day(now) /\ newest' = [newest EXCEPT ![p] = Day(now)]
    /\ UNCHANGED <<now, members, asks, cache, schema, results, times, calls>>
Release ==
    /\ Between /\ members # Members /\ members' = Members
    /\ UNCHANGED <<now, newest, asks, cache, schema, results, times, calls>>

Ask(ask) ==
    /\ Len(calls) < asks.calls
    /\ \/ ask.kind = "query" /\ Query(ask)
       \/ ask.kind = "drill" /\ \E parent \in DOMAIN results : Drill(ask, parent)
       \/ ask.kind = "sql" /\ Sql(ask)
       \/ ask.kind = "list" /\ ListMetrics(ask)
CallStep(c) ==
    \/ ProbeHit(c) \/ ProbeSent(c) \/ CubeReads(c) \/ ProbeAnswered(c) \/ ProbeFailed(c)
    \/ PlannerAnswers(c) \/ PlannerFails(c)
    \/ SchemaHit(c) \/ SchemaSent(c) \/ SchemaAnswered(c) \/ SchemaFails(c) \/ SqlRuns(c)
Next ==
    \/ \E ask \in asks.asks : Ask(ask)
    \/ \E c \in DOMAIN calls : CallStep(c)
    \/ Tick \/ (\E p \in Pipelines : Land(p)) \/ Release

MaxCalls == Max({w.calls : w \in Workloads})

(* Cube's client times out, the statement has its timeout, and the event   *)
(* loop runs every call that can go on.                                    *)
Fairness == \A c \in 1 .. MaxCalls : WF_vars(c \in DOMAIN calls /\ CallStep(c))
Spec == Init /\ [][Next]_vars /\ Fairness

-----------------------------------------------------------------------------

TypeOK ==
    /\ now \in Start .. Horizon /\ newest \in [Pipelines -> 0 .. Day(Horizon)]
    /\ members \subseteq Members /\ DOMAIN results \subseteq DOMAIN calls
    /\ \A c \in DOMAIN calls : calls[c].pc \in {"gating", "running", "ended"}

Answered == {c \in DOMAIN calls : calls[c].kind \in {"query", "drill"} /\ calls[c].why = "answered"}

(* The rows of an answer are of every measure its names stand for, typed   *)
(* as an id or as a term, also those a drill takes from the stored request *)
(* of a parent that may expire or be read again on the way.  Under a       *)
(* module each of them is of that module and within the caller's scopes;   *)
(* without one, each is within the scopes unless it was named by a term,   *)
(* which _check_metric_scopes leaves to the planner (server.py:416-417).   *)
RightsHeld ==
    \A c \in Answered : \A n \in calls[c].names :
        LET scope == IF Pin # None THEN Pin ELSE calls[c].ask.module
            measure == Metrics[Names[n].metric]
        IN  /\ scope # None => scope \in Modules /\ scope \in measure.modules
            /\ scope # None \/ Names[n].byId => measure.scopes \subseteq CallerScopes

(* ... and of views that are not behind: if its probe was heard, the view  *)
(* has a brand the call's filters leave, and where they leave one that     *)
(* brand, whose pipeline had landed what the cadence and the grace allow,  *)
(* whoever else probed the view meanwhile (server.py, stale_views).  The   *)
(* view of a measure that only a term names is not asked.                  *)
OnDay(v, day, today) == today - day =< Views[v].lag + Grace
OnTime(v, b, today) == OnDay(v, newest[<<v, b>>], today)
FreshAnswers ==
    Enforced => \A c \in Answered : \A n \in {x \in calls[c].names : Names[x].byId} :
        LET v == Metrics[Names[n].metric].view
            left == IF Views[v].branded THEN Within(calls[c].filters) ELSE Brands
        IN  Views[v].lag # Ungated =>
                /\ v \in DOMAIN calls[c].seen
                /\ calls[c].seen[v].day # Unknown => \E b \in left : OnTime(v, b, calls[c].today)
GateHeld == TypeOK /\ RightsHeld /\ FreshAnswers

(* "Scoping the probe by the query's brand means a fresh brand cannot mask *)
(* a stale pipeline for the brand actually being queried"                  *)
(* (server.py:243-245): the brand a query without a filter is answered for *)
(* is the default one.                                                     *)
BrandQueried ==
    Enforced => \A c \in Answered : \A n \in {x \in calls[c].names : Names[x].byId} :
        LET v == Metrics[Names[n].metric].view IN
        (/\ calls[c].filters = <<>> /\ Views[v].lag # Ungated /\ Views[v].branded
         /\ calls[c].seen[v].day # Unknown) => OnTime(v, DefaultBrand, calls[c].today)

(* A refusal was true when it was given.  A query is refused as stale for  *)
(* a view whose newest day was read and lay too far back: never for a      *)
(* probe that failed, its own or a cached one.  The reading that made a    *)
(* view stale, or a member unknown, is no older than a cache entry lives   *)
(* and Cube may take; only where Cube could not be asked is the schema     *)
(* older.                                                                  *)
(* A call that is counted is refused only when its key has had that many   *)
(* in the window, and no window lets more pass.                            *)
ReadingsRecent ==
    \A c \in DOMAIN calls :
        /\ (calls[c].kind \in {"query", "drill"} /\ calls[c].why = "stale") => calls[c].stale # {}
        /\ \A v \in calls[c].stale :
            /\ calls[c].seen[v].day # Unknown /\ ~OnDay(v, calls[c].seen[v].day, calls[c].today)
            /\ calls[c].seen[v].at - calls[c].seen[v].read < ProbeTtl + CubeWait
        /\ (calls[c].kind = "sql" /\ calls[c].seen # <<>> /\ calls[c].seen.read # None)
              => calls[c].seen.at - calls[c].seen.read < SchemaTtl + CubeWait
Rated == {"sql"} \cup (IF ListLimit > 0 THEN {"list"} ELSE {})
LimitOf(kind) == IF kind = "sql" THEN SqlLimit ELSE ListLimit
Before(c) == {d \in 1 .. c - 1 : /\ calls[d].kind \in Rated /\ calls[d].ask.key = calls[c].ask.key
                                 /\ calls[c].at - calls[d].at < RateWindow}
RateHeld ==
    \A c \in DOMAIN calls :
        IF calls[c].kind \in Rated
        THEN IF calls[c].why = "rate" THEN Cardinality(Before(c)) >= LimitOf(calls[c].kind)
             ELSE Cardinality({d \in Before(c) : calls[d].why # "rate"}) < LimitOf(calls[c].kind)
        ELSE calls[c].why # "rate"
RefusalsTrue == ReadingsRecent /\ RateHeld

(* Every call ends. *)
Open(c) == c \in DOMAIN calls /\ calls[c].pc # "ended"
CallsEnd == \A c \in 1 .. MaxCalls : Open(c) ~> ~Open(c)
=============================================================================
