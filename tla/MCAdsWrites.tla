----------------------------- MODULE MCAdsWrites -----------------------------
(***************************************************************************)
(* Small instances of AdsWrites.                                           *)
(***************************************************************************)
EXTENDS AdsWrites, TLC

CONSTANTS k1, p1, p2

Plain == [key |-> k1, payload |-> p1, validate |-> FALSE, platform |-> "meta",
          overCap |-> FALSE]
Other == [Plain EXCEPT !.payload = p2]

\* Every branch of execute_write, with and without a key.
MCAsks == {Plain, Other, [Plain EXCEPT !.key = NoKey],
           [Plain EXCEPT !.platform = "google"],
           [Plain EXCEPT !.validate = TRUE],
           [Plain EXCEPT !.validate = TRUE, !.platform = "google"],
           [Plain EXCEPT !.overCap = TRUE]}

\* Calls that fight over one key.
MCContending == {Plain, Other}

On == [write |-> TRUE, scopes |-> {"meta", "google"}]
MCConfigs == {On, [On EXCEPT !.write = FALSE], [On EXCEPT !.scopes = {"google"}],
              [On EXCEPT !.scopes = {"meta"}]}
MCOn == {On}

MCSymmetry == Permutations(Calls)
=============================================================================
