---------------------------- MODULE MCLLMRouter ----------------------------
(***************************************************************************)
(* Small instances of LLMRouter.                                           *)
(***************************************************************************)
EXTENDS LLMRouter

CONSTANTS strong, fallback

MCTwo == <<strong, fallback>>
=============================================================================
