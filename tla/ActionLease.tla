----------------------------- MODULE ActionLease -----------------------------
(***************************************************************************)
(* What the action broker promises, without tokens, tables, clocks or the  *)
(* event loop.  A request is offered to the client once, for one key; it   *)
(* may then claim the lease on that key, once; it runs at most once, only  *)
(* while it holds the lease; and nobody takes the lease from a holder      *)
(* whose run is still open.                                                *)
(***************************************************************************)
EXTENDS Naturals

CONSTANTS Requests, Keys, NoRequest, NoKey

VARIABLES
  keyOf,    \* the key a request was offered for, or NoKey
  claimed,  \* requests that have taken their lease
  runs,     \* how often a request has run
  open,     \* requests whose claim has no outcome yet
  holder    \* who holds the lease on each key

leaseVars == <<keyOf, claimed, runs, open, holder>>

LeaseInit ==
  /\ keyOf = [r \in Requests |-> NoKey]
  /\ claimed = {}
  /\ runs = [r \in Requests |-> 0]
  /\ open = {}
  /\ holder = [k \in Keys |-> NoRequest]

Offer(r, k) ==
  /\ keyOf[r] = NoKey
  /\ keyOf' = [keyOf EXCEPT ![r] = k]
  /\ UNCHANGED <<claimed, runs, open, holder>>

\* Leases that ran out are dropped; a holder with an open run keeps its lease.
Lapse(stale) ==
  /\ \A k \in stale : holder[k] \notin open
  /\ holder' = [k \in Keys |-> IF k \in stale THEN NoRequest ELSE holder[k]]
  /\ UNCHANGED <<keyOf, claimed, runs, open>>

Claim(r) ==
  /\ keyOf[r] # NoKey
  /\ r \notin claimed
  /\ holder[keyOf[r]] = NoRequest
  /\ holder' = [holder EXCEPT ![keyOf[r]] = r]
  /\ claimed' = claimed \cup {r}
  /\ open' = open \cup {r}
  /\ UNCHANGED <<keyOf, runs>>

Run(r) ==
  /\ r \in open
  /\ runs[r] = 0
  /\ holder[keyOf[r]] = r
  /\ runs' = [runs EXCEPT ![r] = 1]
  /\ UNCHANGED <<keyOf, claimed, open, holder>>

\* The run succeeded, or nobody will learn how it ended: the lease stays.
Close(rs) ==
  /\ open' = open \ rs
  /\ UNCHANGED <<keyOf, claimed, runs, holder>>

\* The run failed: its lease, and no other, is given back.
Fail(r) ==
  /\ r \in open
  /\ holder[keyOf[r]] = r
  /\ holder' = [holder EXCEPT ![keyOf[r]] = NoRequest]
  /\ open' = open \ {r}
  /\ UNCHANGED <<keyOf, claimed, runs>>

LeaseNext ==
  \/ \E r \in Requests, k \in Keys : Offer(r, k)
  \/ \E stale \in SUBSET Keys : Lapse(stale)
  \/ \E r \in Requests : Claim(r) \/ Run(r) \/ Fail(r)
  \/ \E rs \in SUBSET Requests : Close(rs)

LeaseSpec == LeaseInit /\ [][LeaseNext]_leaseVars
=============================================================================
