------------------------------ MODULE AdsWrites ------------------------------
(***************************************************************************)
(* The write path of the Meta and Google ads tools: execute_write with its *)
(* client-keyed idempotency table, operation log and audit log, over the   *)
(* platform clients.  The Meta client sends a request again when it was    *)
(* throttled or its connection failed; the Google client calls its         *)
(* blocking library once, in a thread that cancellation does not stop.     *)
(*                                                                         *)
(* As in ActionBroker, a call that has left its await holds the event loop *)
(* until it awaits again or replies, and the process may die between any   *)
(* two SQLite statements.                                                  *)
(***************************************************************************)
EXTENDS Integers, FiniteSets

CONSTANTS
  Calls,      \* tool calls; each is made once
  Keys,       \* (tool_name, idempotency_key) pairs
  NoKey,      \* the call carries no idempotency_key
  Payloads,   \* request hashes
  Asks,       \* the arguments calls may be made with
  Attempts,   \* settings.meta_max_retries + 1
  Window,     \* settings.idempotency_window_hours
  MaxTime,    \* bound on the clock
  Configs,    \* how the process may be started
  NoCall

Ask == [key : Keys \cup {NoKey}, payload : Payloads, validate : BOOLEAN,
        platform : {"meta", "google"}, overCap : BOOLEAN]

ASSUME AdsAssumption ==
  /\ NoKey \notin Keys
  /\ NoCall \notin Calls
  /\ Asks \subseteq Ask
  /\ Attempts \in Nat \ {0}
  /\ Window \in Nat \ {0}
  /\ MaxTime \in Nat
  /\ Configs \subseteq [write : BOOLEAN, scopes : SUBSET {"meta", "google"}]

VARIABLES
  now, config,
  loop,        \* the call holding the event loop, or NoCall
  pc, ask,     \* per call: where it is, and its arguments
  attempt,     \* which transmission of its request it waits for
  wire,        \* what became of that transmission at the platform
  table,       \* ads_idempotency
  ops,         \* ads_operations, as a set of <<call, status>>
  audit,       \* audit_log, as a set of <<call, outcome>>
  reply,       \* what the client was answered
  stray,       \* transmissions nobody waits for that may still take effect
  effects,     \* history: how often the call's request took effect
  storedAt,    \* history: when the call's result was stored
  sentUnder,   \* history: the configurations the call's request was sent under
  beganAt,     \* history: when the call passed the idempotency lookup
  earlier      \* history: the calls that were over by then

callVars == <<loop, pc, ask, attempt>>
dbVars == <<table, ops, audit>>
platformVars == <<wire, stray, effects>>
historyVars == <<storedAt, sentUnder, beganAt, earlier>>
vars == <<now, config, callVars, dbVars, platformVars, reply, historyVars>>

-----------------------------------------------------------------------------
Awaiting == {"validating", "resolving", "waiting", "backoff"}
Holding == {"raised", "logged", "answered", "stored", "executed"}
PCs == {"new", "done"} \cup Awaiting \cup Holding

Never == -1
NoRow == [payload |-> "none", of |-> NoCall, until |-> 0]
Live(k) == table[k].until > now
Answer == [kind : {"none", "ok", "replay", "error", "lost"}, of : Calls \cup {NoCall}]
NoAnswer == [kind |-> "none", of |-> NoCall]

TypeOK ==
  /\ now \in Nat
  /\ config \in Configs
  /\ loop \in Calls \cup {NoCall}
  /\ pc \in [Calls -> PCs]
  /\ ask \in [Calls -> Asks]
  /\ attempt \in [Calls -> 0 .. Attempts]
  /\ wire \in [Calls -> {"none", "pending", "applied", "refused"}]
  /\ table \in [Keys -> [payload : Payloads \cup {"none"},
                         of : Calls \cup {NoCall}, until : Nat]]
  /\ ops \subseteq Calls \X {"REJECTED", "VALIDATED", "FAILED", "EXECUTED"}
  /\ audit \subseteq Calls \X {"failed", "executed"}
  /\ reply \in [Calls -> Answer]
  /\ stray \in [Calls -> Nat]
  /\ effects \in [Calls -> Nat]
  /\ storedAt \in [Calls -> Nat \cup {Never}]
  /\ sentUnder \in [Calls -> SUBSET Configs]
  /\ beganAt \in [Calls -> Nat \cup {Never}]
  /\ earlier \in [Calls -> SUBSET Calls]

Init ==
  /\ now = 0
  /\ config \in Configs
  /\ loop = NoCall
  /\ pc = [c \in Calls |-> "new"]
  /\ ask \in [Calls -> Asks]
  /\ attempt = [c \in Calls |-> 0]
  /\ wire = [c \in Calls |-> "none"]
  /\ table = [k \in Keys |-> NoRow]
  /\ ops = {}
  /\ audit = {}
  /\ reply = [c \in Calls |-> NoAnswer]
  /\ stray = [c \in Calls |-> 0]
  /\ effects = [c \in Calls |-> 0]
  /\ storedAt = [c \in Calls |-> Never]
  /\ sentUnder = [c \in Calls |-> {}]
  /\ beganAt = [c \in Calls |-> Never]
  /\ earlier = [c \in Calls |-> {}]

-----------------------------------------------------------------------------
Runnable == loop = NoCall

Goto(c, from, to) ==
  /\ pc[c] = from
  /\ pc' = [pc EXCEPT ![c] = to]
  /\ loop' = IF to \in Holding THEN c ELSE NoCall
  /\ UNCHANGED ask

\* The call is over and the client has its answer.
Finish(c, from, kind, of) ==
  /\ Goto(c, from, "done")
  /\ attempt' = [attempt EXCEPT ![c] = 0]
  /\ wire' = [wire EXCEPT ![c] = "none"]
  /\ reply' = [reply EXCEPT ![c] = [kind |-> kind, of |-> of]]

Log(c, status) == ops' = ops \cup {<<c, status>>}

\* The await ends without an answer: what was sent may still take effect.
Abandon(c) ==
  stray' = IF wire[c] = "pending" THEN [stray EXCEPT ![c] = @ + 1] ELSE stray

-----------------------------------------------------------------------------
(* execute_write up to the platform call                                   *)

InScope(c) == ask[c].platform \in config.scopes

\* Mutated form: the kill switch is looked at beside the key, for keyed calls only.
AdmittedUnkeyed(c) ==
  /\ InScope(c)
  /\ ~ask[c].overCap
  /\ ask[c].validate \/ ask[c].key = NoKey \/ config.write

\* The platform's write scope and the budget cap are checked for every call, the
\* kill switch for calls that are not validate_only.
Admitted(c) ==
  /\ InScope(c)
  /\ ~ask[c].overCap
  /\ ask[c].validate \/ config.write

Refuse(c) ==
  /\ Runnable
  /\ ~Admitted(c)
  /\ Finish(c, "new", "error", NoCall)
  /\ Log(c, "REJECTED")
  /\ UNCHANGED <<now, config, table, audit, stray, effects, historyVars>>

\* Meta: the arguments were validated by the tool, nothing is sent.
ValidateLocally(c) ==
  /\ Runnable
  /\ Admitted(c)
  /\ ask[c].validate
  /\ ask[c].platform = "meta"
  /\ Finish(c, "new", "ok", c)
  /\ Log(c, "VALIDATED")
  /\ UNCHANGED <<now, config, table, audit, stray, effects, historyVars>>

\* Google: the platform validates, and mutates nothing.
ValidateRemotely(c) ==
  /\ Runnable
  /\ Admitted(c)
  /\ ask[c].validate
  /\ ask[c].platform = "google"
  /\ Goto(c, "new", "validating")
  /\ UNCHANGED <<now, config, attempt, dbVars, platformVars, reply, historyVars>>

Validated(c, verdict) ==
  /\ Runnable
  /\ Finish(c, "validating", IF verdict = "VALIDATED" THEN "ok" ELSE "error", c)
  /\ Log(c, verdict)
  /\ UNCHANGED <<now, config, table, audit, stray, effects, historyVars>>

\* AdsIdempotencyStore.lookup deletes expired rows before it looks.
Purged == [k \in Keys |-> IF Live(k) THEN table[k] ELSE NoRow]

\* The live row of the call's key, if there is one.
Found(c) ==
  {row \in {Purged[k] : k \in Keys \cap {ask[c].key}} : row.of # NoCall}

Hit(c) == \E row \in Found(c) : row.payload = ask[c].payload

Lookup(c) ==
  /\ Runnable
  /\ Admitted(c)
  /\ ~ask[c].validate
  /\ table' = IF ask[c].key = NoKey THEN table ELSE Purged

\* HIT: the stored result is the answer; nothing is logged.
Replay(c) ==
  /\ Lookup(c)
  /\ Hit(c)
  /\ Finish(c, "new", "replay", Purged[ask[c].key].of)
  /\ UNCHANGED <<now, config, ops, audit, stray, effects, historyVars>>

Conflict(c) ==
  /\ Lookup(c)
  /\ Found(c) # {} /\ ~Hit(c)
  /\ Finish(c, "new", "error", NoCall)
  /\ Log(c, "REJECTED")
  /\ UNCHANGED <<now, config, audit, stray, effects, historyVars>>

\* MISS: the call goes on to resolve its credential.  Nothing is written that
\* would show another call with the key that one is under way.
Start(c) ==
  /\ Lookup(c)
  /\ Found(c) = {}
  /\ Goto(c, "new", "resolving")
  /\ beganAt' = [beganAt EXCEPT ![c] = now]
  /\ earlier' = [earlier EXCEPT ![c] = {d \in Calls : pc[d] = "done"}]
  /\ UNCHANGED <<now, config, attempt, ops, audit, platformVars, reply, storedAt, sentUnder>>

-----------------------------------------------------------------------------
(* The platform call                                                       *)

Send(c) ==
  /\ Runnable
  /\ \/ Goto(c, "resolving", "waiting")
     \/ Goto(c, "backoff", "waiting")
  /\ attempt' = [attempt EXCEPT ![c] = @ + 1]
  /\ wire' = [wire EXCEPT ![c] = "pending"]
  /\ sentUnder' = [sentUnder EXCEPT ![c] = @ \cup {config}]
  /\ UNCHANGED <<now, config, dbVars, stray, effects, reply, storedAt, beganAt, earlier>>

\* No credential, or the platform refused for good: an AdsApiError.
Refused(c) ==
  /\ Runnable
  /\ \/ Goto(c, "resolving", "raised")
     \/ wire[c] = "refused" /\ Goto(c, "waiting", "raised")
  /\ UNCHANGED <<now, config, attempt, dbVars, platformVars, reply, historyVars>>

MayRetry(c) == ask[c].platform = "meta" /\ attempt[c] < Attempts

\* A throttled request, a 5xx, or a TransportError (which says nothing about
\* the request having been applied) is sent again after a pause.
Retry(c) ==
  /\ Runnable
  /\ MayRetry(c)
  /\ Goto(c, "waiting", "backoff")
  /\ Abandon(c)
  /\ wire' = [wire EXCEPT ![c] = "none"]
  /\ UNCHANGED <<now, config, attempt, dbVars, effects, reply, historyVars>>

\* Mutated form: a TransportError of the last attempt is not raised.
RefusedLast(c) ==
  /\ Runnable
  /\ ask[c].platform = "meta"
  /\ ~MayRetry(c)
  /\ wire[c] = "refused"
  /\ Goto(c, "waiting", "raised")
  /\ Abandon(c)
  /\ wire' = [wire EXCEPT ![c] = "none"]
  /\ UNCHANGED <<now, config, attempt, dbVars, effects, reply, historyVars>>

\* The same on the last attempt is raised as an AdsApiError.
Exhausted(c) ==
  /\ Runnable
  /\ ask[c].platform = "meta"
  /\ ~MayRetry(c)
  /\ Goto(c, "waiting", "raised")
  /\ Abandon(c)
  /\ wire' = [wire EXCEPT ![c] = "none"]
  /\ UNCHANGED <<now, config, attempt, dbVars, effects, reply, historyVars>>

\* Mutated form: an answer that is not a success is taken for one.
AnsweredAnyhow(c) ==
  /\ Runnable
  /\ wire[c] # "pending"
  /\ Goto(c, "waiting", "answered")
  /\ UNCHANGED <<now, config, attempt, dbVars, platformVars, reply, historyVars>>

Answered(c) ==
  /\ Runnable
  /\ wire[c] = "applied"
  /\ Goto(c, "waiting", "answered")
  /\ UNCHANGED <<now, config, attempt, dbVars, platformVars, reply, historyVars>>

\* An exception that is no AdsApiError (the image download failed; the Google
\* library raised something else than GoogleAdsException), or the client's
\* cancellation: it leaves execute_write with nothing logged.
Escape(c) ==
  /\ Runnable
  /\ pc[c] \in Awaiting
  /\ Finish(c, pc[c], "lost", NoCall)
  /\ Abandon(c)
  /\ UNCHANGED <<now, config, dbVars, effects, historyVars>>

-----------------------------------------------------------------------------
(* execute_write after the platform call                                   *)

LogFailed(c) ==
  /\ loop = c
  /\ Goto(c, "raised", "logged")
  /\ Log(c, "FAILED")
  /\ UNCHANGED <<now, config, attempt, table, audit, platformVars, reply, historyVars>>

AuditFailed(c) ==
  /\ loop = c
  /\ Finish(c, "logged", "error", NoCall)
  /\ audit' = audit \cup {<<c, "failed">>}
  /\ UNCHANGED <<now, config, table, ops, stray, effects, historyVars>>

\* Mutated form: INSERT OR IGNORE, where an expired row is still there and kept.
StoreIgnored(c) ==
  IF ask[c].key = NoKey THEN UNCHANGED <<table, storedAt>>
  ELSE /\ table' = IF table[ask[c].key].of # NoCall THEN table
                   ELSE [table EXCEPT ![ask[c].key] =
                           [payload |-> ask[c].payload, of |-> c, until |-> now + Window]]
       /\ storedAt' = [storedAt EXCEPT ![c] = now]

\* AdsIdempotencyStore.store: INSERT OR REPLACE.
Store(c) ==
  IF ask[c].key = NoKey THEN UNCHANGED <<table, storedAt>>
  ELSE /\ table' = [table EXCEPT ![ask[c].key] =
                      [payload |-> ask[c].payload, of |-> c, until |-> now + Window]]
       /\ storedAt' = [storedAt EXCEPT ![c] = now]

StoreResult(c) ==
  /\ loop = c
  /\ Goto(c, "answered", "stored")
  /\ Store(c)
  /\ UNCHANGED <<now, config, attempt, ops, audit, platformVars, reply, sentUnder, beganAt, earlier>>

LogExecuted(c) ==
  /\ loop = c
  /\ Goto(c, "stored", "executed")
  /\ Log(c, "EXECUTED")
  /\ UNCHANGED <<now, config, attempt, table, audit, platformVars, reply, historyVars>>

AuditExecuted(c) ==
  /\ loop = c
  /\ Finish(c, "executed", "ok", c)
  /\ audit' = audit \cup {<<c, "executed">>}
  /\ UNCHANGED <<now, config, table, ops, stray, effects, historyVars>>

-----------------------------------------------------------------------------
(* The platform, time, and restarts                                        *)

Platform(c, outcome) ==
  /\ wire[c] = "pending"
  /\ wire' = [wire EXCEPT ![c] = outcome]
  /\ effects' = IF outcome = "applied" THEN [effects EXCEPT ![c] = @ + 1] ELSE effects
  /\ UNCHANGED <<now, config, callVars, dbVars, stray, reply, historyVars>>

\* A transmission nobody waits for arrives late.
Straggler(c) ==
  /\ stray[c] > 0
  /\ stray' = [stray EXCEPT ![c] = @ - 1]
  /\ \/ effects' = [effects EXCEPT ![c] = @ + 1]
     \/ UNCHANGED effects
  /\ UNCHANGED <<now, config, callVars, dbVars, wire, reply, historyVars>>

Tick ==
  /\ now < MaxTime
  /\ now' = now + 1
  /\ UNCHANGED <<config, callVars, dbVars, platformVars, reply, historyVars>>

\* The process dies: its open calls are lost, their transmissions may not be.
Restart ==
  /\ config' \in Configs
  /\ loop' = NoCall
  /\ pc' = [c \in Calls |-> IF pc[c] = "new" THEN "new" ELSE "done"]
  /\ reply' = [c \in Calls |-> IF pc[c] \in {"new", "done"} THEN reply[c]
                               ELSE [kind |-> "lost", of |-> NoCall]]
  /\ stray' = [c \in Calls |-> IF wire[c] = "pending" THEN stray[c] + 1 ELSE stray[c]]
  /\ wire' = [c \in Calls |-> "none"]
  /\ attempt' = [c \in Calls |-> 0]
  /\ UNCHANGED <<now, ask, dbVars, effects, historyVars>>

-----------------------------------------------------------------------------
Progress(c) ==
  \/ \E verdict \in {"VALIDATED", "REJECTED"} : Validated(c, verdict)
  \/ Send(c) \/ Refused(c) \/ Retry(c) \/ Exhausted(c) \/ Answered(c)
  \/ LogFailed(c) \/ AuditFailed(c)
  \/ StoreResult(c) \/ LogExecuted(c) \/ AuditExecuted(c)

Begin(c) ==
  \/ Refuse(c) \/ ValidateLocally(c) \/ ValidateRemotely(c)
  \/ Replay(c) \/ Conflict(c) \/ Start(c)

Next ==
  \/ \E c \in Calls : Begin(c) \/ Progress(c) \/ Escape(c) \/ Straggler(c)
  \/ \E c \in Calls, outcome \in {"applied", "refused"} : Platform(c, outcome)
  \/ Tick
  \/ Restart

Spec == Init /\ [][Next]_vars

\* asyncio serves ready tasks in turn.  httpx ends every request at its
\* timeout.  The Google library's calls carry no deadline of this program's,
\* so that the Google platform answers in the end is an assumption.
FairSpec ==
  /\ Spec
  /\ \A c \in Calls : SF_vars(Progress(c))
  /\ \A c \in Calls :
       WF_vars(ask[c].platform = "google"
               /\ \E outcome \in {"applied", "refused"} : Platform(c, outcome))

-----------------------------------------------------------------------------
(* Properties                                                              *)

\* The platform is changed only by requests that were sent while their platform's
\* write scope was granted and writes were enabled, of calls within the cap that
\* are not validate_only, each at most once per transmission the client may make:
\* over retries, stragglers, and restarts that pull the scope or the kill switch.
OnlyAdmittedEffects ==
  /\ TypeOK
  /\ \A c \in Calls :
    effects[c] > 0 =>
      /\ sentUnder[c] # {}
      /\ \A g \in sentUnder[c] : g.write /\ ask[c].platform \in g.scopes
      /\ ~ask[c].overCap
      /\ ~ask[c].validate
      /\ effects[c] <= IF ask[c].platform = "meta" THEN Attempts ELSE 1

\* "Returns the stored result": a replayed answer is the result of a call with
\* the same key and the same arguments that did take effect.
ReplayIsGenuine ==
  \A c \in Calls :
    reply[c].kind = "replay" =>
      LET d == reply[c].of
      IN  /\ d \in Calls \ {c}
          /\ ask[d].key = ask[c].key
          /\ ask[d].payload = ask[c].payload
          /\ effects[d] > 0
          /\ effects[c] = 0

\* A client that uses a key again after it was answered success does not act
\* twice within the window, whatever other calls, restarts and lost requests
\* there were, and whoever else used the key at the same time.
NoActAfterSuccess ==
  \A c, d \in Calls :
    /\ c \in earlier[d] /\ reply[c].kind = "ok"
    /\ ask[c].key = ask[d].key /\ ask[c].key # NoKey
    /\ storedAt[c] # Never /\ beganAt[d] < storedAt[c] + Window
    => effects[d] = 0

\* What a key stands for: a success that happened, and no second one.
KeysHonoured == ReplayIsGenuine /\ NoActAfterSuccess

\* The logs tell the truth about the platform, in the order they are written:
\* what is logged as executed took effect, with its result stored for replay,
\* what is logged as rejected or validated did not, and no call is logged with
\* two outcomes.
LogsTellTheTruth ==
  /\ \A c \in Calls :
       /\ <<c, "EXECUTED">> \in ops =>
            effects[c] > 0 /\ (ask[c].key # NoKey => storedAt[c] # Never)
       /\ <<c, "executed">> \in audit => <<c, "EXECUTED">> \in ops
       /\ <<c, "failed">> \in audit => <<c, "FAILED">> \in ops
       /\ <<c, "REJECTED">> \in ops \/ <<c, "VALIDATED">> \in ops => effects[c] = 0
  /\ \A x, y \in ops : x[1] = y[1] => x = y

\* Every call that began is answered, given up or dies with the process: the
\* retries end.
CallsEnd == \A c \in Calls : pc[c] # "new" ~> pc[c] = "done"

=============================================================================
