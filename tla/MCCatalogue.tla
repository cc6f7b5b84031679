----------------------------- MODULE MCCatalogue -----------------------------
(* The instance of Catalogue that TLC checks: the sample files, and the     *)
(* sample with one mistake each.                                            *)
EXTENDS Catalogue, SampleCatalogue

MCSplit == [net_sales |-> <<"net", "sales">>, product_sales |-> <<"product", "sales">>,
            touch_sales |-> <<"touch", "sales">>, brand_id |-> <<"brand", "id">>]
MCPlural == [order |-> "orders", orders |-> "order", revenues |-> "revenue", sale |-> "sales"]
Hint(words, value) == [words |-> words, value |-> value]
MCHints == [channel |-> <<Hint(<<"meta">>, "meta"), Hint(<<"google">>, "google")>>,
            date |-> <<Hint(<<"finance">>, "finance"), Hint(<<"cohort">>, "order")>>,
            scope |-> <<Hint(<<"product", "cost">>, "all"), Hint(<<"product">>, "product")>>]
MCOldHints == [basis |-> <<Hint(<<"touch">>, "touch")>>, kind |-> <<Hint(<<"link">>, "link")>>]
MCPartOf == {<<"meta", "metadata">>}
MCStopWords == {"by", "for", "the"}
MCPlatforms == [meta |-> {"meta"}, google |-> {"google"}]
MCPaymentWords == {<<"cod">>}

MCTerms == {<<"net", "sales">>, <<"net_sales">>, <<"gross_sales">>, <<"old_touch">>, <<"old_cogs">>, <<"pnl_sales">>,
            <<"pnl_orders">>, <<"topline">>, <<"booked", "sales">>, <<"revenues">>, <<"revenue", "for", "metadata">>,
            <<"touch", "revenue">>, <<"meta", "spend">>, <<"clicks">>, <<"traffic">>, <<"link", "traffic">>,
            <<"sales", "by", "channel">>, <<"pings">>, <<"sales_net">>, <<"sales", ".", "net">>, <<"touch_sales">>, <<"aov">>,
            <<"product", "sale">>, <<"weather">>, <<"source", "mix">>, <<"sku", "sales">>,
            <<"channel">>, <<"payment", "mode">>, <<"sku">>, <<"cod">>}
MCQuestions == {<<"revenue", "by", "meta", "and", "google", "finance">>, <<"product", "cost", "in", "finance">>,
                <<"product", "revenue", "from", "meta">>}
MCAxisChoices == {<<>>, "scope" :> "product", "ad_platform" :> "meta", ("ad_platform" :> "google") @@ ("source" :> "meta"),
                  ("grain" :> "day") @@ ("basis" :> "touch"), ("platform" :> "meta") @@ ("kind" :> "link"),
                  "date" :> "finance", "level" :> "all"}
(* Values of two dimensions on two views; "wa" abbreviates whatsapp, and   *)
(* a dimension of many values tests selectivity.                           *)
Value(raw, norm, volume) == [raw |-> raw, norm |-> norm, volume |-> volume]
MCStructural == {"in", "50"}
MCLiterals == {"true"}
Looks(term, norm, how) == [term |-> term, norm |-> norm, how |-> how]
MCResembling == {Looks(<<"whatsapp">>, <<"wa">>, "abbreviation"), Looks(<<"metadata">>, <<"meta">>, "fuzzy"),
                 Looks(<<"big", "face", "oil">>, <<"face", "oil">>, "fuzzy"), Looks(<<"metadata">>, <<"oil", "metadatabase">>, "contains")}
MCSnapshots ==
    ("21" :> (<<"channel", "sales">> :> {Value("Meta", <<"meta">>, 0), Value("cod", <<"cod">>, 1)})) @@
    ("20" :> ((<<"channel", "sales">> :> {Value("Meta", <<"meta">>, 5), Value("Google", <<"google">>, 3), Value("orders", <<"orders">>, 0),
                                 Value("google_pmax", <<"google", "pmax">>, 1)})
     @@ (<<"channel", "ads">> :> {Value("Meta", <<"meta">>, 9), Value("wa", <<"wa">>, 2), Value("WhatsApp", <<"whatsapp">>, 1),
                                  Value("cod meta", <<"cod", "meta">>, 1), Value("google_brand", <<"google", "brand">>, 2)})
     @@ (<<"product", "pnl">> :> {Value("face oil", <<"face", "oil">>, 4), Value("Oil", <<"oil">>, 0),
                                  Value("Face Oil 50", <<"face", "oil", "50">>, 2), Value("oil meta", <<"oil", "meta">>, 0),
                                  Value("kids oil", <<"big", "face", "oil", "kids">>, 1), Value("men oil", <<"big", "face", "oil", "men">>, 1)})))
MCSpoken == {<<<<"meta", "spend">>>>, <<<<"orders", "from", "google", "pmax">>>>, <<<<"face", "oil", "in", "meta">>, <<"google">>>>,
             <<<<"net", "sales">>, <<"oil">>>>, <<<<"whatsapp", "orders">>>>, <<<<"metadata", "google">>>>,
             <<<<"google">>, <<"pmax", "oil", "meta">>>>, <<<<"meta", "spend">>, <<"cod", "meta">>>>, <<<<"tilting", "face", "oil">>>>,
             <<<<"big", "face", "oil">>>>, <<<<"sniff", "theory">>>>, <<<<"meta", "from", "sniff", "theory">>, <<"cod">>>>}
MCBatches == {{<<"net_sales">>, <<"old_touch">>}, {<<"pnl_sales">>, <<"net_sales">>}, {<<"spend">>, <<"weather">>},
              {<<"old_cogs">>, <<"sales", ".", "net">>}, {<<"aov">>, <<"orders">>, <<"spend">>}}

MCServeDbs == {None, "main"}
MCMissingSets == {{}, {<<"sales", "net">>}, {<<"ads", "platform">>}, {<<"pnl", "sku">>}, {<<"sales", "orders_pct">>}}

Renamed(f, old, new) == [k \in (DOMAIN f \ {old}) \cup {new} |-> IF k = new THEN f[old] ELSE f[k]]
Mistakes ==
    {[Sample EXCEPT !.semantic = 2],
     [Sample EXCEPT !.metrics["spend"].view = "ad"],
     [Sample EXCEPT !.metrics["net_sales"].measure = <<"pnl", "net">>],
     [Sample EXCEPT !.metrics["net_sales"].axisDimensions["event_date"] = <<"pnl", "event_date">>],
     [Sample EXCEPT !.metrics["orders"].dims = {"sku"}],
     [Sample EXCEPT !.metrics["aov"].name = <<"orders">>],
     [Sample EXCEPT !.metricAliases["pnl_sales"].metric = "netsales"],
     [Sample EXCEPT !.metricAliases["pnl_orders"].refused = FALSE],
     [Sample EXCEPT !.glossary = @ \cup {[term |-> <<"buyers">>, metric |-> "customers", dimension |-> None, filter |-> <<>>]}],
     [Sample EXCEPT !.glossary = @ \cup {[term |-> <<"sku", "sales">>, metric |-> "net_sales", dimension |-> None,
                                          filter |-> "sku" :> "x"]}],
     [Sample EXCEPT !.deprecations["gross_sales"].filter = "sku" :> "x"],
     [Sample EXCEPT !.concepts["revenue"].resolves = Append(@, Row("scope" :> "all", "sales"))],
     [Sample EXCEPT !.concepts["revenue"].resolves = <<Row("scope" :> "everything", "net_sales")>>],
     [Sample EXCEPT !.concepts["revenue"].axes["channel"].default = "every"],
     [Sample EXCEPT !.concepts["revenue"].filters["channel"]["meta"] = "medium" :> "meta"],
     [Sample EXCEPT !.concepts["traffic"].resolves[1].fallback = "clicks"],
     [Sample EXCEPT !.conceptAliases[<<"topline">>].concept = "income"],
     [Sample EXCEPT !.modules["shop"].extra = {"finance"}],
     [Sample EXCEPT !.hierarchies["goods"].levels = <<"product", "region">>],
     [Sample EXCEPT !.dimensionFiles[3].key = "variant"],
     [Sample EXCEPT !.metrics["net_sales"].validFor = "payment" :> {}],
     [Sample EXCEPT !.hierarchies["goods"] = [levels |-> <<"product", "variant">>, views |-> {}]],
     [Sample EXCEPT !.metrics["orders"].split = "medium"]}
(* Mistakes that no check of the load looks for: a ratio of an id there is *)
(* not, one of a metric that the gate may hide, a concept alias's filter   *)
(* on no dimension; and a binding to a view the gate may hide.             *)
Unguarded ==
    {[Sample EXCEPT !.metrics["cpm"].components = <<"spend", "shown">>],
     [Sample EXCEPT !.metrics["aov"].components = <<"net_sales", "touch_sales">>],
     [Sample EXCEPT !.conceptAliases[<<"topline">>].filter = "medium" :> "meta"],
     [Sample EXCEPT !.metrics["net_sales"].bindings = <<Binding("touches", "sales", {"hour"}, {})>>]}
MCSources == {Sample} \cup Mistakes \cup Unguarded
=============================================================================
