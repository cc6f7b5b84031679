--------------------------- MODULE SampleCatalogue ---------------------------
(***************************************************************************)
(* A catalogue small enough for TLC that has one of everything the code    *)
(* distinguishes: a metric on either date axis and one on the order date   *)
(* only, a ratio of two others, a metric bound to other views, a sliced    *)
(* binding, one read from another database, a draft with a substitute, a   *)
(* retired id, an alias, two concepts and a hierarchy.                     *)
(***************************************************************************)
EXTENDS CatalogueLoader, TLC

Both(view) == [order_date |-> <<view, "order_date">>, event_date |-> <<view, "event_date">>]

(* A metric with none of the options. *)
Plain(name, view, measure) ==
    [name |-> name, status |-> "certified", view |-> view, measure |-> <<view, measure>>,
     pct |-> None, time |-> None, axis |-> "native", axisDimensions |-> <<>>, refusal |-> TRUE, ratio |-> FALSE,
     average |-> FALSE, components |-> <<>>, depends |-> {}, companions |-> {}, composition |-> {},
     dims |-> {}, excluded |-> {}, bindings |-> <<>>, validFor |-> <<>>, explained |-> FALSE,
     split |-> None, replaces |-> {}, oldNames |-> {}, about |-> {}, unlisted |-> FALSE]
Binding(view, measure, granularities, dims) ==
    [view |-> view, measure |-> <<view, measure>>, time |-> None, granularities |-> granularities,
     dims |-> dims, slice |-> None, slices |-> <<>>]
Hourly(measure) == Binding("ads_hourly", measure, {"hour"}, {})
Dimension(id, names, views) ==
    [id |-> id, names |-> names, views |-> views, key |-> None, family |-> None, rank |-> 0, values |-> {},
     validFor |-> <<>>, unsupported |-> {}]
View(databases) == [date |-> "order_date", datetime |-> None, databases |-> databases]
Intraday(databases) == [View(databases) EXCEPT !.datetime = "ordered_at"]

SampleMetrics ==
    [net_sales |-> [Plain(<<"net", "sales">>, "sales", "net") EXCEPT
        !.axis = "switchable", !.axisDimensions = Both("sales"), !.oldNames = {<<"sales_net">>},
        !.validFor = [payment |-> {"cod", "prepaid"}]],
     orders |-> [Plain(<<"orders">>, "sales", "orders") EXCEPT
        !.axis = "cohort_only", !.pct = <<"sales", "orders_pct">>, !.excluded = {"payment"}, !.split = "channel"],
     aov |-> [Plain(<<"aov">>, "sales", "aov") EXCEPT
        !.axis = "cohort_only", !.ratio = TRUE, !.components = <<"net_sales", "orders">>],
     product_sales |-> [Plain(<<"product", "sales">>, "pnl", "sales") EXCEPT
        !.bindings = <<[Binding("touches", "sales", {"week"}, {}) EXCEPT !.time = <<"touches", "day">>]>>],
     spend |-> [Plain(<<"ad", "spend">>, "ads", "spend") EXCEPT !.bindings =
        <<Hourly("spend"), [Binding("spend_by", "spend", {}, {"breakdown_type", "region", "country", "age", "network"})
                                EXCEPT !.slice = "breakdown_type",
            !.slices = [region |-> <<"geo">>, country |-> <<"age", "geo">>, age |-> <<"age">>, network |-> <<>>]]>>],
     shows |-> [Plain(<<"impressions">>, "ads", "shows") EXCEPT !.bindings = <<Hourly("shows")>>],
     cpm |-> [Plain(<<"cpm">>, "ads", "cpm") EXCEPT !.ratio = TRUE, !.components = <<"spend", "shows">>,
        !.bindings = <<Hourly("cpm")>>],
     raw_spend |-> [Plain(<<"raw", "spend">>, "spend_raw", "spend") EXCEPT !.about = {"link", "traffic"}],
     touch_sales |-> Plain(<<"touch", "sales">>, "touches", "sales"),
     clicks |-> [Plain(<<"clicks">>, "ads", "clicks") EXCEPT !.status = "draft", !.depends = {"spend"}],
     pings |-> [Plain(<<"pings">>, "ads", "pings") EXCEPT !.unlisted = TRUE]]

SampleDimensions ==
    <<[Dimension("channel", {<<"channel">>}, [sales |-> <<"sales", "channel">>, ads |-> <<"ads", "platform">>])
        EXCEPT !.family = "channel"],
      Dimension("channel", {<<"source">>}, [touches |-> <<"touches", "channel">>]),
      [Dimension("finance_channel", {<<"finance", "channel">>}, [pnl |-> <<"pnl", "channel">>])
        EXCEPT !.family = "channel", !.rank = 1, !.values = {"meta", "google"}],
      [Dimension("product", {<<"product">>}, [pnl |-> <<"pnl", "title">>]) EXCEPT !.key = "sku"],
      Dimension("sku", {<<"sku">>}, [pnl |-> <<"pnl", "sku">>]),
      [Dimension("payment", {<<"payment", "mode">>}, [sales |-> <<"sales", "payment">>])
        EXCEPT !.values = {"cod", "prepaid", "wallet", "credit"}, !.unsupported = {"wallet"}],
      [Dimension("device", {<<"device">>}, [ads |-> <<"ads", "device">>]) EXCEPT !.validFor = "channel" :> {"google"}],
      Dimension("region", {<<"region">>}, [spend_by |-> <<"spend_by", "region">>]),
      Dimension("country", {<<"country">>}, [spend_by |-> <<"spend_by", "country">>]),
      Dimension("age", {<<"age">>}, [spend_by |-> <<"spend_by", "age">>]),
      Dimension("network", {<<"network">>}, [spend_by |-> <<"spend_by", "network">>]),
      Dimension("breakdown_type", {<<"breakdown", "type">>},
        [spend_by |-> <<"spend_by", "type">>, spend_raw |-> <<"spend_raw", "type">>]),
      Dimension("report_date", {<<"report", "date">>}, [pnl |-> <<"pnl", "report_date">>]),
      Dimension("order_date", {<<"order", "date">>}, [sales |-> <<"sales", "order_date">>]),
      Dimension("event_date", {<<"event", "date">>}, [sales |-> <<"sales", "event_date">>]),
      Dimension("is_undated", {<<"undated">>}, [sales |-> <<"sales", "is_undated">>]),
      Dimension("attribution_model_used", {<<"attribution", "model">>}, [sales |-> <<"sales", "model">>]),
      Dimension("brand_id", {<<"brand">>},
        [v \in {"sales", "pnl", "ads", "ads_hourly", "spend_by"} |-> <<v, "brand_id">>])>>

Axis(values, default) == [values |-> values, default |-> default]
Row(when, metric) == [when |-> when, metric |-> metric, filter |-> <<>>, fallback |-> None]

SampleConcepts ==
    [revenue |-> [names |-> {<<"revenue">>, <<"total", "revenue">>},
        axes |-> [scope |-> Axis({"all", "product"}, "all"), date |-> Axis({"order", "finance"}, "order"),
                  channel |-> Axis({"all", "meta", "google"}, "all"), basis |-> Axis({"net", "touch"}, "net")],
        resolves |-> <<Row("scope" :> "all", "net_sales"), Row("scope" :> "product", "product_sales"),
                       Row(("scope" :> "all") @@ ("basis" :> "touch"), "touch_sales")>>,
        unsupported |-> {("basis" :> "touch") @@ ("date" :> "finance")},
        filters |-> "channel" :> ("meta" :> ("channel" :> "meta") @@ "google" :> ("channel" :> "google"))],
     traffic |-> [names |-> {<<"traffic">>},
        axes |-> [platform |-> Axis({"meta", "google"}, None), kind |-> Axis({"all", "link"}, "all")],
        resolves |-> <<[Row("kind" :> "link", "clicks") EXCEPT !.fallback = "spend"], Row("kind" :> "all", "orders")>>,
        unsupported |-> {}, filters |-> <<>>]]

Sample ==
    [semantic |-> 3, metrics |-> SampleMetrics, dimensionFiles |-> SampleDimensions,
     views |-> [sales |-> Intraday({"main"}), pnl |-> View({"main"}), ads |-> View({"old"}), ads_hourly |-> Intraday({"main"}),
                spend_by |-> View({"main"}), spend_raw |-> View({"main"}), touches |-> View({"main", "other"})],
     crosswalk |-> [views |-> "ads" :> [date |-> "order_date", datetime |-> None, databases |-> {"main"}],
                    domains |-> "spending" :> {"spend_by", "ads_hourly"}],
     domains |-> [selling |-> {"sales"}, spending |-> {"ads"}],
     modules |-> [shop |-> [domains |-> {"selling"}, extra |-> {"pnl"}], media |-> [domains |-> {"spending"}, extra |-> {}]],
     waived |-> {}, hierarchies |-> [goods |-> [levels |-> <<"product", "sku">>, views |-> {"pnl"}]],
     glossary |-> {[term |-> <<"spend">>, metric |-> "spend", dimension |-> None, filter |-> <<>>],
                   [term |-> <<"meta", "spend">>, metric |-> "spend", dimension |-> None, filter |-> "channel" :> "meta"],
                   [term |-> <<"booked", "sales">>, metric |-> "pnl_sales", dimension |-> None, filter |-> <<>>],
                   [term |-> <<"source", "mix">>, metric |-> None, dimension |-> "channel", filter |-> <<>>]},
     deprecations |-> ("gross_sales" :> [new |-> "net_sales", filter |-> "channel" :> "meta"])
                   @@ ("old_touch" :> [new |-> "touch_sales", filter |-> <<>>])
                   @@ ("old_cogs" :> [new |-> "cogs", filter |-> <<>>]),
     metricAliases |-> [pnl_sales |-> [metric |-> "net_sales", axis |-> "event_date", refused |-> FALSE],
                        pnl_orders |-> [metric |-> "orders", axis |-> "event_date", refused |-> TRUE]],
     concepts |-> SampleConcepts,
     conceptAliases |-> <<"topline">> :> [concept |-> "revenue", axes |-> "date" :> "finance", filter |-> <<>>],
     clusters |-> <<[metrics |-> {"net_sales", "orders", "aov", "customers"}], [metrics |-> {"orders", "spend", "clicks"}]>>,
     channels |-> "google" :> {"google_pmax"}, defaultBrand |-> "20",
     brands |-> {[id |-> "20", names |-> {<<"tilting", "heads">>}, status |-> "active"],
                 [id |-> "21", names |-> {<<"sniff", "theory">>}, status |-> "active"]}]
=============================================================================
