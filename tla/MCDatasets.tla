------------------------------ MODULE MCDatasets ------------------------------
(* The instance of Datasets that TLC checks. *)
EXTENDS Datasets, TLC

At(view, brand, tick, key) == [view |-> view, brand |-> brand, tick |-> tick, key |-> key]
MCEvents ==
    {At("ads", "20", 4, "meta"), At("ads", "20", 7, "google"), At("ads", "20", 8, "meta"),
     At("orders", "20", 4, "meta"), At("orders", "20", 6, "tiktok"), At("orders", "20", 9, "meta"),
     At("orders", "21", 3, "meta"), At("orders", "21", 5, "meta"), At("orders", "21", 5, "google"), At("pnl", "20", 3, "meta")}
MCMetrics == [spend |-> [view |-> "ads", additive |-> TRUE], orders |-> [view |-> "orders", additive |-> TRUE],
              aov |-> [view |-> "orders", additive |-> FALSE], fees |-> [view |-> "pnl", additive |-> TRUE]]
MCBrandIds == ("20" :> "20") @@ ("21" :> "21") @@ ("heads" :> "20")

Preset(p) == [preset |-> p, days |-> 2, start |-> 0, end |-> 0]
Equals(value) == [op |-> "equals", value |-> value]
Not(value) == [op |-> "notEquals", value |-> value]
Base == [measures |-> {"spend", "orders"}, broken |-> TRUE, range |-> Preset("yesterday"), grain |-> "day", partial |-> FALSE,
         filter |-> None, module |-> "shop"]
MCRequests ==
    {Base, [Base EXCEPT !.broken = FALSE, !.grain = "hour"],
     [Base EXCEPT !.grain = "hour", !.range = Preset("today"), !.partial = TRUE],
     [Base EXCEPT !.broken = FALSE, !.range = Preset("last_days"), !.measures = {"orders", "aov"}, !.filter = Not("20"), !.module = "media"],
     [Base EXCEPT !.broken = FALSE, !.range = Preset("this_month"), !.measures = {"orders"}, !.filter = Equals("heads")],
     [Base EXCEPT !.broken = FALSE, !.measures = {"fees"}, !.grain = "hour"],
     [Base EXCEPT !.range = Preset("last_month"), !.measures = {"orders", "fees"}, !.module = "media"],
     [Base EXCEPT !.broken = FALSE, !.measures = {"orders"}, !.grain = "hour", !.range = Preset("last_days")],
     [Base EXCEPT !.range = [preset |-> None, days |-> 0, start |-> 0, end |-> 2], !.measures = {"orders"}, !.filter = Not("20")]}

(* A view that has an event on each of three days, and yesterday asked     *)
(* while the day turns.                                                    *)
MidnightEvents == {At("ads", "20", 3, "meta"), At("ads", "20", 5, "meta"), At("ads", "20", 8, "meta")}
MidnightRequests == {[Base EXCEPT !.broken = FALSE, !.measures = {"spend"}]}
MCCallers ==
    {[module |-> "shop", filter |-> None], [module |-> "media", filter |-> Equals("20")]}
=============================================================================
