----------------------------- MODULE MCAnalyst -----------------------------
(***************************************************************************)
(* Small instances of Analyst.  Ids are interchangeable, and so are        *)
(* scopes: one turn has the first of each.  The pieces of an answer split  *)
(* a marker, or hold more than one.                                        *)
(***************************************************************************)
EXTENDS Analyst

CONSTANTS q1, i1, s1

MCRequests ==
  {r \in [Turns -> [id : Ids, scope : Scopes]] : r[q1] = [id |-> i1, scope |-> s1]}

MCPieces == {<<Backtick>>, <<Backtick, Backtick>>, <<Letter, Backtick>>,
             <<Backtick, Backtick, Backtick, Letter>>}
=============================================================================
