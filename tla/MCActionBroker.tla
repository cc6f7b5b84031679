--------------------------- MODULE MCActionBroker ---------------------------
(***************************************************************************)
(* Small instances of ActionBroker: the rules of pause_meta_ad, of which   *)
(* only ad_exists blocks.                                                  *)
(***************************************************************************)
EXTENDS ActionBroker, TLC

MCRules == {"ad_exists", "not_already_paused"}
MCBlocking == {"ad_exists"}

On == [write |-> TRUE, contract |-> "approved", executor |-> TRUE]

MCConfigs == {On, [On EXCEPT !.write = FALSE], [On EXCEPT !.contract = "draft"],
              [On EXCEPT !.contract = "absent"], [On EXCEPT !.executor = FALSE]}

MCOutages == {c \in MCConfigs : c.contract # "draft"}

MCWriting == {On}

MCSymmetry == Permutations(Callers) \cup Permutations(Requests) \cup Permutations(Keys)
=============================================================================
