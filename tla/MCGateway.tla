------------------------------ MODULE MCGateway ------------------------------
(* The instance of Gateway that TLC checks. *)
EXTENDS Gateway

MCNames == [orders |-> [metric |-> "orders", byId |-> TRUE], spend |-> [metric |-> "spend", byId |-> TRUE],
            profit |-> [metric |-> "profit", byId |-> TRUE], ad_cost |-> [metric |-> "spend", byId |-> FALSE],
            earnings |-> [metric |-> "profit", byId |-> FALSE], docs |-> [metric |-> "docs", byId |-> TRUE]]
MCMetrics == [orders |-> [view |-> "orders", scopes |-> {"read"}, modules |-> {"shop", "media"}],
              spend |-> [view |-> "ads", scopes |-> {"read"}, modules |-> {"media"}],
              profit |-> [view |-> "orders", scopes |-> {"read", "finance"}, modules |-> {"shop"}],
              docs |-> [view |-> "notes", scopes |-> {}, modules |-> {"shop"}]]
MCViews == [orders |-> [lag |-> 0, branded |-> TRUE], ads |-> [lag |-> 0, branded |-> TRUE],
            notes |-> [lag |-> Ungated, branded |-> FALSE]]

Equals(brand) == [op |-> "equals", brand |-> brand]
Q(names, filters, mod) == [kind |-> "query", names |-> names, filters |-> filters, module |-> mod, parent |-> None]
D(filters, mod) == [kind |-> "drill", names |-> {}, filters |-> filters, module |-> mod, parent |-> None]
S(key, select, governed, reads, brand) ==
    [kind |-> "sql", key |-> key, select |-> select, governed |-> governed, reads |-> reads, seen |-> reads,
     explains |-> FALSE, brand |-> brand]
L(mod) == [kind |-> "list", key |-> "list", module |-> mod]
MCWorkloads ==
    {[calls |-> 2, asks |-> {Q({"orders"}, <<>>, None), Q({"orders"}, <<Equals("20")>>, None), D(<<Equals("21")>>, None)}],
     [calls |-> 2, asks |-> {Q({"spend"}, <<[op |-> "notEquals", brand |-> "20"]>>, "media"), D(<<>>, "shop")}],
     [calls |-> 2, asks |-> {Q({"profit"}, <<>>, None), Q({"earnings"}, <<>>, None), Q({"ad_cost"}, <<>>, "media"),
                             Q({"docs"}, <<>>, "shop"), Q({"docs"}, <<>>, "none")}],
     [calls |-> 1, asks |-> {Q({"orders", "spend"}, <<Equals("20")>>, "media")}],
     [calls |-> 3, asks |-> {L("none"), L(None)}],
     [calls |-> 3, asks |-> {S("a", TRUE, TRUE, {"spend"}, "20")}],
     [calls |-> 2, asks |-> {S("b", TRUE, TRUE, {"spend", "total"}, "21"), S("a", FALSE, TRUE, {"spend"}, "20"),
                             S("b", TRUE, FALSE, {"clicks"}, "heads")}],
     [calls |-> 1, asks |-> {[S("a", TRUE, TRUE, {"spend", "clicks"}, None) EXCEPT !.seen = {"spend"}],
                             [S("b", TRUE, TRUE, {"clicks"}, "20") EXCEPT !.seen = {}, !.explains = TRUE]}]}
=============================================================================
