---------------------------- MODULE MCValueIndex ----------------------------
(***************************************************************************)
(* Small instances of ValueIndex.  Targets are interchangeable, and so are *)
(* values: what callers ask about one cell they could ask about any.       *)
(***************************************************************************)
EXTENDS ValueIndex

CONSTANTS t1, v1

MCAsked == {<<t1, v1>>}
=============================================================================
