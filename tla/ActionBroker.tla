---------------------------- MODULE ActionBroker ----------------------------
(***************************************************************************)
(* The propose / commit life of a write action: ActionBroker over the      *)
(* SQLite tables pending_actions, idempotency_keys and audit_log, and the  *)
(* external executor the commit dispatches to.                             *)
(*                                                                         *)
(* The gateway is one asyncio process.  The code between two awaits runs   *)
(* with no other task in between, so a task that has left its await holds  *)
(* the event loop (variable loop) until it awaits again or replies.  Every *)
(* SQLite statement is committed on its own, so the process can still die  *)
(* between any two of them: each statement is a step, and Restart may fall *)
(* after any of them.                                                      *)
(***************************************************************************)
EXTENDS Integers, FiniteSets

CONSTANTS
  Callers,       \* concurrent tool calls (asyncio tasks)
  Requests,      \* action request ids
  Keys,          \* idempotency keys: one per (action_id, payload_hash)
  Rules,         \* the business rules the broker evaluates at propose
  Blocking,      \* those the contract declares blocking
  TokenTTL,      \* contract.confirmation_ttl_seconds
  Window,        \* settings.idempotency_window_hours
  MaxHold,       \* longest time a commit runs after claiming its key
  MaxTime,       \* bound on the clock
  Configs,       \* how the process may be started
  NoCaller, NoRequest, NoKey

ASSUME BrokerAssumption ==
  /\ Blocking \subseteq Rules
  /\ TokenTTL \in Nat
  /\ Window \in Nat
  /\ MaxHold \in Nat
  /\ MaxHold < Window        \* a 30 s HTTP timeout against a window of hours
  /\ MaxTime \in Nat
  /\ Configs \subseteq [write : BOOLEAN, executor : BOOLEAN,
                         contract : {"approved", "draft", "absent"}]
  /\ NoCaller \notin Callers
  /\ NoRequest \notin Requests
  /\ NoKey \notin Keys

VARIABLES
  now,        \* wall clock
  config,     \* what the running process was started with
  loop,       \* the task holding the event loop, or NoCaller
  pc, req,    \* per call: where it is, and the request it works on
  row,        \* pending_actions
  idem,       \* idempotency_keys
  audit,      \* audit_log, as the set of (event, request) it has rows for
  held,       \* requests whose confirmation token reached the client
  remote,     \* what became of the request at the executor's platform
  failing,    \* history: the rules whose check failed at propose
  dispatches, \* history: how often the executor was called for a request
  claimedAt,  \* history: when the request registered its key
  released    \* history: requests whose key was given back

procVars == <<loop, pc, req>>
storeVars == <<row, idem, audit>>
historyVars == <<failing, dispatches, claimedAt, released>>
vars == <<now, config, procVars, storeVars, held, remote, historyVars>>

-----------------------------------------------------------------------------
Statuses == {"ABSENT", "PENDING", "EXECUTED", "EXPIRED", "FAILED"}
Verdicts == {"passed", "failed", "unverifiable"}
Events == {"blocked", "failed", "executed"}   \* the audit rows of an outcome

\* Points at which a call can be observed.  "checking" and "executing" are
\* awaits; at the others the task holds the loop.
Awaiting == {"checking", "executing"}
Holding == {"drafted", "expiring", "consumed", "registered", "blocked",
            "failed", "failing", "executed"}
Claiming == {"registered", "executing"}
PCs == {"idle"} \cup Awaiting \cup Holding

Row == [status : Statuses, key : Keys \cup {NoKey}, deadline : Nat,
        consumed : BOOLEAN, response : BOOLEAN,
        auditRef : {"none"} \cup Events]
EmptyRow == [status |-> "ABSENT", key |-> NoKey, deadline |-> 0,
             consumed |-> FALSE, response |-> FALSE, auditRef |-> "none"]

Entry == [owner : Requests \cup {NoRequest}, until : Nat]
NoEntry == [owner |-> NoRequest, until |-> 0]

Never == -1   \* claimedAt of a request that never took its key

TypeOK ==
  /\ now \in Nat
  /\ config \in Configs
  /\ loop \in Callers \cup {NoCaller}
  /\ pc \in [Callers -> PCs]
  /\ req \in [Callers -> Requests \cup {NoRequest}]
  /\ row \in [Requests -> Row]
  /\ idem \in [Keys -> Entry]
  /\ audit \subseteq Events \X Requests
  /\ held \subseteq Requests
  /\ remote \in [Requests -> {"unsent", "inflight", "applied", "refused"}]
  /\ failing \in [Requests -> SUBSET Rules]
  /\ dispatches \in [Requests -> Nat]
  /\ claimedAt \in [Requests -> Nat \cup {Never}]
  /\ released \subseteq Requests

Init ==
  /\ now = 0
  /\ config \in Configs
  /\ loop = NoCaller
  /\ pc = [c \in Callers |-> "idle"]
  /\ req = [c \in Callers |-> NoRequest]
  /\ row = [r \in Requests |-> EmptyRow]
  /\ idem = [k \in Keys |-> NoEntry]
  /\ audit = {}
  /\ held = {}
  /\ remote = [r \in Requests |-> "unsent"]
  /\ failing = [r \in Requests |-> {}]
  /\ dispatches = [r \in Requests |-> 0]
  /\ claimedAt = [r \in Requests |-> Never]
  /\ released = {}

-----------------------------------------------------------------------------
(* Control of a call: it moves on keeping the loop, waits, or returns.     *)

Goto(c, from, to) ==
  /\ pc[c] = from
  /\ pc' = [pc EXCEPT ![c] = to]
  /\ loop' = IF to \in Holding THEN c ELSE NoCaller
  /\ UNCHANGED req

Return(c, from) ==
  /\ pc[c] = from
  /\ pc' = [pc EXCEPT ![c] = "idle"]
  /\ req' = [req EXCEPT ![c] = NoRequest]
  /\ loop' = NoCaller

Enter(c, r, to) ==
  /\ pc[c] = "idle"
  /\ pc' = [pc EXCEPT ![c] = to]
  /\ req' = [req EXCEPT ![c] = r]
  /\ loop' = IF to \in Holding THEN c ELSE NoCaller

Runnable == loop = NoCaller
Log(event, r) == audit' = audit \cup {<<event, r>>}

\* ActionStore.create: the row of a new request.
Create(r, k, deadline) ==
  row' = [row EXCEPT ![r].status = "PENDING",
                     ![r].key = k,
                     ![r].deadline = deadline]

\* ActionStore.set_status: status and response are overwritten, audit_ref is
\* kept when the caller passes none (COALESCE).
SetStatus(r, status, response, ref) ==
  row' = [row EXCEPT ![r].status = status,
                     ![r].response = response,
                     ![r].auditRef = IF ref = "none" THEN @ ELSE ref]

-----------------------------------------------------------------------------
(* propose                                                                 *)

Eligible(failed) == failed \cap Blocking = {}

\* The contract is known, scopes and payload are accepted, a fresh id is drawn,
\* and the call awaits the rule checks.
Propose(c, r) ==
  /\ Runnable
  /\ config.contract = "approved"
  /\ row[r].status = "ABSENT"
  /\ \A d \in Callers : req[d] # r
  /\ Enter(c, r, "checking")
  /\ UNCHANGED <<now, config, storeVars, held, remote, historyVars>>

\* The rule checks answered: a rule that failed counts against the request,
\* one that could not be verified does not.  A token is minted only for an
\* eligible request; deadline 0 stands for no token.
Draft(c, k) ==
  /\ Runnable
  /\ Goto(c, "checking", "drafted")
  /\ \E verdict \in [Rules -> Verdicts] :
       LET r == req[c]
           failed == {x \in Rules : verdict[x] = "failed"}
       IN  /\ failing' = [failing EXCEPT ![r] = failed]
           /\ Create(r, k, IF Eligible(failed) THEN now + TokenTTL ELSE 0)
  /\ UNCHANGED <<now, config, idem, audit, held, remote,
                 dispatches, claimedAt, released>>

\* The audit row is written and the preview returned, with the token if any.
ReturnPreview(c) ==
  /\ loop = c
  /\ pc[c] = "drafted"
  /\ pc' = [pc EXCEPT ![c] = "idle"]
  /\ req' = [req EXCEPT ![c] = NoRequest]
  /\ loop' = NoCaller
  /\ held' = IF Eligible(failing[req[c]]) THEN held \cup {req[c]} ELSE held
  /\ UNCHANGED <<now, config, storeVars, remote, historyVars>>

-----------------------------------------------------------------------------
(* commit: the checks before the key is claimed                            *)

\* A commit whose token names no row, was not signed for the row, or is spent
\* is answered REJECTED and changes none of the variables here.
\* A client can only present a valid token that it was given.
Presented(r) == r \in held
Expired(r) == now > row[r].deadline

\* Expiry is tested before single use, and writes the status of any row.
CommitLate(c, r) ==
  /\ Runnable
  /\ Presented(r)
  /\ Expired(r)
  /\ Enter(c, r, "expiring")
  /\ SetStatus(r, "EXPIRED", FALSE, "none")
  /\ UNCHANGED <<now, config, idem, audit, held, remote, historyVars>>

ReturnExpired(c) ==
  /\ loop = c
  /\ Return(c, "expiring")
  /\ UNCHANGED <<now, config, storeVars, held, remote, historyVars>>

\* Mutated form: the UPDATE without "AND token_consumed_at IS NULL".
ConsumeAgain(c, r) ==
  /\ Runnable
  /\ Presented(r)
  /\ ~Expired(r)
  /\ Enter(c, r, "consumed")
  /\ row' = [row EXCEPT ![r].consumed = TRUE]
  /\ UNCHANGED <<now, config, idem, audit, held, remote, historyVars>>

\* ActionStore.consume_token: UPDATE ... WHERE token_consumed_at IS NULL.
Consume(c, r) ==
  /\ Runnable
  /\ Presented(r)
  /\ ~Expired(r)
  /\ ~row[r].consumed
  /\ Enter(c, r, "consumed")
  /\ row' = [row EXCEPT ![r].consumed = TRUE]
  /\ UNCHANGED <<now, config, idem, audit, held, remote, historyVars>>

\* The contract left the catalogue with a restart: KeyError, token spent.  One
\* that went back to draft is still committed, only propose looks at its status.
CommitUnknownContract(c) ==
  /\ loop = c
  /\ config.contract = "absent"
  /\ Return(c, "consumed")
  /\ UNCHANGED <<now, config, storeVars, held, remote, historyVars>>

-----------------------------------------------------------------------------
(* commit: IdempotencyStore.check_and_register, one step per statement: the *)
(* DELETE of what has expired, then the key is found taken, or taken.      *)

\* Mutated form: a key is purged one time unit before it expires.
PurgedEarly == [k \in Keys |-> IF idem[k].until <= now + 1 THEN NoEntry ELSE idem[k]]

Purged == [k \in Keys |-> IF idem[k].until <= now THEN NoEntry ELSE idem[k]]

\* A purge that deletes nothing is no step.
Purge(c) ==
  /\ loop = c
  /\ pc[c] = "consumed"
  /\ config.contract # "absent"
  /\ idem # Purged
  /\ idem' = Purged
  /\ UNCHANGED <<now, config, procVars, row, audit, held, remote, historyVars>>

CommitDuplicate(c) ==
  /\ loop = c
  /\ config.contract # "absent"
  /\ idem = Purged
  /\ idem[row[req[c]].key].owner \notin {NoRequest, req[c]}
  /\ Return(c, "consumed")
  /\ UNCHANGED <<now, config, storeVars, held, remote, historyVars>>

Register(c) ==
  LET r == req[c]
      k == row[r].key
  IN  /\ loop = c
      /\ config.contract # "absent"
      /\ idem = Purged
      /\ idem[k].owner \in {NoRequest, r}
      /\ Goto(c, "consumed", "registered")
      /\ idem' = IF idem[k].owner = r THEN idem
                 ELSE [idem EXCEPT ![k] = [owner |-> r, until |-> now + Window]]
      /\ claimedAt' = [claimedAt EXCEPT ![r] = now]
      /\ UNCHANGED <<now, config, row, audit, held, remote,
                     failing, dispatches, released>>

\* Mutated forms: no DELETE; and a DELETE that names no key.
KeepKey(k) == UNCHANGED idem
ReleaseAll(k) == idem' = [j \in Keys |-> NoEntry]

\* IdempotencyStore.release deletes by key, whoever owns it.
Release(k) == idem' = [idem EXCEPT ![k] = NoEntry]

-----------------------------------------------------------------------------
(* commit: kill switch, dispatch, outcome                                  *)

CommitBlocked(c) ==
  /\ loop = c
  /\ ~config.write
  /\ Goto(c, "registered", "blocked")
  /\ Release(row[req[c]].key)
  /\ released' = released \cup {req[c]}
  /\ UNCHANGED <<now, config, row, audit, held, remote,
                 failing, dispatches, claimedAt>>

\* The contract names an executor the process does not have: KeyError.
CommitNoExecutor(c) ==
  /\ loop = c
  /\ config.write
  /\ ~config.executor
  /\ Return(c, "registered")
  /\ UNCHANGED <<now, config, storeVars, held, remote, historyVars>>

Dispatch(c) ==
  /\ loop = c
  /\ config.write
  /\ config.executor
  /\ Goto(c, "registered", "executing")
  /\ remote' = [remote EXCEPT ![req[c]] = "inflight"]
  /\ dispatches' = [dispatches EXCEPT ![req[c]] = @ + 1]
  /\ UNCHANGED <<now, config, storeVars, held, failing, claimedAt, released>>

\* The executor answered; the audit row is the first statement after it.
ExecutorAnswered(c) ==
  /\ Runnable
  /\ Goto(c, "executing", "executed")
  /\ remote[req[c]] = "applied"
  /\ Log("executed", req[c])
  /\ UNCHANGED <<now, config, row, idem, held, remote, historyVars>>

\* Mutated form: the HTTP client has no timeout, only a refusal raises.
RaisedIfRefused(c) ==
  /\ Runnable
  /\ Goto(c, "executing", "failed")
  /\ remote[req[c]] = "refused"
  /\ Release(row[req[c]].key)
  /\ released' = released \cup {req[c]}
  /\ UNCHANGED <<now, config, row, audit, held, remote,
                 failing, dispatches, claimedAt>>

\* execute() raised: a refusal, or a timeout that says nothing about the
\* platform, which may have applied the request or may still do so.
ExecutorRaised(c) ==
  /\ Runnable
  /\ Goto(c, "executing", "failed")
  /\ Release(row[req[c]].key)
  /\ released' = released \cup {req[c]}
  /\ UNCHANGED <<now, config, row, audit, held, remote,
                 failing, dispatches, claimedAt>>

\* Both failure paths write their audit row and then the status.
LogFailure(c) ==
  /\ loop = c
  /\ pc[c] \in {"blocked", "failed"}
  /\ Goto(c, pc[c], "failing")
  /\ Log(pc[c], req[c])
  /\ UNCHANGED <<now, config, row, idem, held, remote, historyVars>>

MarkFailed(c) ==
  /\ loop = c
  /\ Return(c, "failing")
  /\ SetStatus(req[c], "FAILED", FALSE,
               IF config.write THEN "failed" ELSE "blocked")
  /\ UNCHANGED <<now, config, idem, audit, held, remote, historyVars>>

MarkExecuted(c) ==
  /\ loop = c
  /\ Return(c, "executed")
  /\ SetStatus(req[c], "EXECUTED", TRUE, "executed")
  /\ UNCHANGED <<now, config, idem, audit, held, remote, historyVars>>

-----------------------------------------------------------------------------
(* Cancellation, the platform, time, and restarts                          *)

\* The client gives up: CancelledError at the await, which no handler in the
\* broker catches.
Cancel(c) ==
  /\ Runnable
  /\ pc[c] \in Awaiting
  /\ pc' = [pc EXCEPT ![c] = "idle"]
  /\ req' = [req EXCEPT ![c] = NoRequest]
  /\ UNCHANGED <<now, config, loop, storeVars, held, remote, historyVars>>

Platform(r, outcome) ==
  /\ remote[r] = "inflight"
  /\ outcome \in {"applied", "refused"}
  /\ remote' = [remote EXCEPT ![r] = outcome]
  /\ UNCHANGED <<now, config, procVars, storeVars, held, historyVars>>

\* A commit that holds its key is over before MaxHold has passed.
Tick ==
  /\ now < MaxTime
  /\ \A c \in Callers : pc[c] \in Claiming => now < claimedAt[req[c]] + MaxHold
  /\ now' = now + 1
  /\ UNCHANGED <<config, procVars, storeVars, held, remote, historyVars>>

\* The process dies and is started again, possibly configured differently.
Restart ==
  /\ config' \in Configs
  /\ loop' = NoCaller
  /\ pc' = [c \in Callers |-> "idle"]
  /\ req' = [c \in Callers |-> NoRequest]
  /\ UNCHANGED <<now, storeVars, held, remote, historyVars>>

-----------------------------------------------------------------------------
\* The steps the event loop owes a call, whatever the outside does.
Progress(c) ==
  \/ \E k \in Keys : Draft(c, k)
  \/ ReturnPreview(c)
  \/ ReturnExpired(c)
  \/ CommitUnknownContract(c) \/ Purge(c) \/ CommitDuplicate(c) \/ Register(c)
  \/ CommitBlocked(c) \/ CommitNoExecutor(c) \/ Dispatch(c)
  \/ ExecutorAnswered(c) \/ ExecutorRaised(c)
  \/ LogFailure(c) \/ MarkFailed(c) \/ MarkExecuted(c)

Call(c) ==
  \E r \in Requests :
    \/ Propose(c, r)
    \/ CommitLate(c, r)
    \/ Consume(c, r)

Next ==
  \/ \E c \in Callers : Call(c) \/ Progress(c) \/ Cancel(c)
  \/ \E r \in Requests, outcome \in {"applied", "refused"} : Platform(r, outcome)
  \/ Tick
  \/ Restart

Spec == Init /\ [][Next]_vars

\* asyncio runs its ready tasks in FIFO order, so a task that is ready again
\* and again is run whatever the others do; and every executor call ends,
\* because httpx raises at its timeout.
FairSpec == Spec /\ \A c \in Callers : SF_vars(Progress(c))

-----------------------------------------------------------------------------
(* Properties                                                              *)

\* "Single-use: consume BEFORE dispatch so a crash cannot allow a replay":
\* whatever is replayed, interleaved or restarted, a request reaches the
\* executor at most once.
SingleDispatch == \A r \in Requests : dispatches[r] <= 1

\* Nothing reaches the executor that was not previewed as eligible, confirmed
\* with a token the client was given, and spent before the dispatch.
OnlyVettedDispatch ==
  \A r \in Requests :
    dispatches[r] > 0 => /\ failing[r] \cap Blocking = {}
                         /\ r \in held
                         /\ row[r].consumed

\* A final status is backed by the audit log even if the process died between
\* the two writes, and EXECUTED is only ever said of an applied request.
AuditBacksStatus ==
  \A r \in Requests :
    /\ row[r].status = "EXECUTED" => /\ remote[r] = "applied"
                                     /\ <<"executed", r>> \in audit
    /\ row[r].status = "FAILED" =>
         \E event \in {"failed", "blocked"} : <<event, r>> \in audit
    /\ row[r].auditRef # "none" => <<row[r].auditRef, r>> \in audit

\* "Free the key after a failed dispatch so a retry isn't blocked": no failed
\* request still owns an idempotency key.
RetryNotBlocked ==
  \A r \in Requests :
    row[r].status = "FAILED" => \A k \in Keys : idem[k].owner # r

\* What is dispatched: an eligible, confirmed request, once (the two above), of
\* tables and tasks that keep their types.
DispatchSafe == TypeOK /\ SingleDispatch /\ OnlyVettedDispatch

\* What an outcome leaves behind, even half written: its audit row, and the key
\* of a failed request given back (the two above).
OutcomeRecorded == AuditBacksStatus /\ RetryNotBlocked

Outstanding(r) == claimedAt[r] # Never /\ r \notin released

\* "Same action + same payload inside 24h": two requests with one key that
\* both claimed it and were not reported failed are a full window apart, over
\* restarts, cancellations and concurrent commits.
WindowApart ==
  \A r, s \in Requests :
    r # s /\ row[r].key = row[s].key /\ Outstanding(r) /\ Outstanding(s) =>
      \/ claimedAt[r] + Window <= claimedAt[s]
      \/ claimedAt[s] + Window <= claimedAt[r]

\* Every call returns, is cancelled, or dies with the process: no task waits
\* for an executor or for the event loop for ever.
CallsReturn == \A c \in Callers : pc[c] # "idle" ~> pc[c] = "idle"

\* What the lease of ActionLease promises of claims, runs and outcomes.
Lease == INSTANCE ActionLease WITH
  keyOf   <- [r \in Requests |-> IF r \in held THEN row[r].key ELSE NoKey],
  claimed <- {r \in Requests : claimedAt[r] # Never},
  runs    <- dispatches,
  open    <- {req[c] : c \in {d \in Callers : pc[d] \in Claiming}},
  holder  <- [k \in Keys |-> idem[k].owner]
BrokerKeepsLease == Lease!LeaseSpec

=============================================================================
