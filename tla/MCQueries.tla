------------------------------ MODULE MCQueries ------------------------------
(* The instance of Queries that TLC checks. *)
EXTENDS Queries, SampleCatalogue

MCNoWords == <<>>
MCSplit == [net_sales |-> <<"net", "sales">>, product_sales |-> <<"product", "sales">>, raw_spend |-> <<"raw", "spend">>,
            pnl_sales |-> <<"pnl", "sales">>, sniff_theory |-> <<"sniff", "theory">>, brand_id |-> <<"brand", "id">>, breakdown_type |-> <<"breakdown", "type">>]
MCCatalogues == {Loaded(Sample), Scoped(Loaded(Sample), "main")}

Blank == [measures |-> {}, dims |-> {}, filters |-> {}, granularity |-> "none", compare |-> None, axis |-> None,
          sort |-> None, today |-> FALSE]
Measures(S) == [Blank EXCEPT !.measures = {<<m>> : m \in S}]
By(req, S) == [req EXCEPT !.dims = {<<d>> : d \in S}]
Where(d, values) == [dim |-> <<d>>, op |-> "equals", values |-> values]
Except(d, values) == [dim |-> <<d>>, op |-> "notEquals", values |-> values]
Above(m, values) == [dim |-> <<m>>, op |-> "gt", values |-> values]
ByOrder(req) == [req EXCEPT !.axis = "order_date"]
Only(req, filters) == [req EXCEPT !.filters = filters]

MCRequests ==
    {[By(Measures({"net_sales"}), {"channel"}) EXCEPT !.compare = "previous_period", !.today = TRUE],
     By(Measures({"net_sales", "spend"}), {"channel"}),
     Measures({"net_sales", "orders"}),
     By(ByOrder(Measures({"net_sales"})), {"report_date"}), By(Measures({"net_sales"}), {"report_date"}),
     ByOrder(By(Measures({"net_sales"}), {"channel"})), ByOrder(Measures({"net_sales", "aov"})),
     Only(By(Measures({"net_sales"}), {"channel"}), {Except("brand_id", {"20"})}),
     Only(By(Measures({"net_sales"}), {"channel"}), {Where("brand_id", {"sniff_theory"})}),
     Only(Measures({"net_sales"}), {Where("brand_id", {"20", "21"})}), Only(Measures({"orders"}), {Where("brand_id", {"rivals"})}),
     Only(By(Measures({"orders"}), {"channel"}), {Above("orders", {"100"})}), Only(Measures({"orders"}), {Above("orders", {"many"})}),
     [Measures({"product_sales"}) EXCEPT !.granularity = "week"],
     By(Measures({"pnl_sales"}), {"channel"}), Measures({"pnl_sales", "net_sales"}), Measures({"pnl_sales", "orders"}),
     [Measures({"orders"}) EXCEPT !.axis = "event_date"],
     By(Measures({"spend"}), {"region"}), By(Measures({"spend"}), {"region", "age"}), By(Measures({"spend"}), {"country", "age"}),
     By(Measures({"spend"}), {"network"}), By(Measures({"spend", "shows"}), {"age"}),
     Only(Measures({"spend"}), {Where("breakdown_type", {"geo", "age"})}),
     [Measures({"spend", "cpm"}) EXCEPT !.granularity = "hour"],
     By(Measures({"product_sales"}), {"channel"}), Only(Measures({"product_sales"}), {Where("channel", {"email"})}),
     Only(Measures({"net_sales"}), {Where("brand_id", {"21"})}),
     By(Measures({"spend"}), {"device"}), Only(By(Measures({"spend"}), {"device"}), {Where("channel", {"meta"})}),
     Only(Measures({"raw_spend"}), {Where("breakdown_type", {"geo"})}), Measures({"raw_spend"}),
     Only(Measures({"net_sales"}), {Except("payment", {"credit"})}), Only(Measures({"net_sales"}), {Where("payment", {"credit"})}),
     Only([Measures({"net_sales", "spend"}) EXCEPT !.granularity = "day"], {Where("payment", {"cod"})}),
     [Measures({"spend", "orders"}) EXCEPT !.sort = <<"orders">>]}
MCDrillFilters == {{}, {Where("payment", {"cod"})}, {Where("brand_id", {"21"})}, {Where("channel", {"google"})}}
MCDrillTargets == {{"channel"}, {"age"}}
MCGranularities == {None, "hour"}
=============================================================================
