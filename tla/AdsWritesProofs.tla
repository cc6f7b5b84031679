--------------------------- MODULE AdsWritesProofs ---------------------------
(***************************************************************************)
(* Proofs about AdsWrites, for any calls, keys, windows and numbers of     *)
(* attempts: what takes effect at the platform was admitted, the logs tell *)
(* the truth about it, and an idempotency key is honoured.                 *)
(***************************************************************************)
EXTENDS AdsWrites, TLAPS

\* How often a call may send its request, and what it has sent that took
\* effect or still may.
Limit(c) == IF ask[c].platform = "meta" THEN Attempts ELSE 1
Reach(c) == effects[c] + stray[c] + (IF wire[c] = "pending" THEN 1 ELSE 0)

Unsent == {"new", "validating", "resolving"}
Writing == {"resolving", "waiting", "backoff", "raised", "logged", "answered", "stored", "executed"}

\* A request is transmitted at most as often as the call has counted, only
\* past the checks, and a call that goes on as answered has taken effect.
SendInv(c) ==
  /\ pc[c] \in Unsent => Reach(c) = 0 /\ attempt[c] = 0
  /\ pc[c] \in Writing => Reach(c) <= attempt[c] /\ attempt[c] <= Limit(c)
  /\ Reach(c) <= Limit(c)
  /\ pc[c] = "backoff" => ask[c].platform = "meta" /\ attempt[c] < Attempts
  /\ wire[c] = "pending" => pc[c] = "waiting"
  /\ wire[c] = "applied" => effects[c] > 0
  /\ pc[c] \in Writing \/ Reach(c) > 0 => ~ask[c].overCap /\ ~ask[c].validate
  /\ pc[c] \in {"answered", "stored", "executed"} => effects[c] > 0
  /\ pc[c] \in {"stored", "executed"} /\ ask[c].key # NoKey => storedAt[c] # Never

\* A call that may still send was admitted by the running process, and what it
\* sent went out under configurations that admitted it.
PermitInv(c) ==
  /\ pc[c] \in {"resolving", "waiting", "backoff"} => config.write /\ InScope(c)
  /\ \A g \in sentUnder[c] : g.write /\ ask[c].platform \in g.scopes
  /\ Reach(c) > 0 => sentUnder[c] # {}

\* What the logs hold of a call, by where it is.
LogInv(c) ==
  /\ \A x \in ops : x[1] = c => pc[c] \in {"logged", "executed", "done"}
  /\ \A x, y \in ops : x[1] = c /\ y[1] = c => x = y
  /\ pc[c] = "logged" => <<c, "FAILED">> \in ops
  /\ pc[c] = "executed" => <<c, "EXECUTED">> \in ops
  /\ <<c, "EXECUTED">> \in ops => effects[c] > 0 /\ (ask[c].key # NoKey => storedAt[c] # Never)
  /\ <<c, "executed">> \in audit => <<c, "EXECUTED">> \in ops
  /\ <<c, "failed">> \in audit => <<c, "FAILED">> \in ops
  /\ <<c, "REJECTED">> \in ops \/ <<c, "VALIDATED">> \in ops => pc[c] = "done" /\ Reach(c) = 0

\* A row is the result of a call that took effect, under that call's key.
RowInv(k) ==
  LET d == table[k].of
  IN  d # NoCall => /\ pc[d] # "new" /\ effects[d] > 0
                    /\ ask[d].key = k /\ ask[d].payload = table[k].payload

\* A stored result is found, or a later one is, until its window has passed.
StoreInv(c) ==
  storedAt[c] # Never =>
    /\ storedAt[c] <= now /\ ask[c].key \in Keys
    /\ \/ storedAt[c] + Window <= now
       \/ /\ table[ask[c].key].of # NoCall
          /\ storedAt[c] + Window <= table[ask[c].key].until

ReplayInv(c) ==
  reply[c].kind = "replay" =>
    LET d == reply[c].of
    IN  /\ pc[c] = "done" /\ Reach(c) = 0
        /\ d \in Calls \ {c} /\ effects[d] > 0
        /\ ask[d].key = ask[c].key /\ ask[d].payload = ask[c].payload

\* Whoever began found no result of its key that was still to be honoured.
EarlierInv(d) ==
  \A c \in earlier[d] :
    /\ pc[c] = "done"
    /\ storedAt[c] # Never /\ ask[c].key = ask[d].key => storedAt[c] + Window <= beganAt[d]

CallInv(c) == SendInv(c) /\ PermitInv(c) /\ LogInv(c) /\ StoreInv(c) /\ ReplayInv(c) /\ EarlierInv(c)

IInv ==
  /\ TypeOK
  /\ \A c \in Calls : CallInv(c)
  /\ \A k \in Keys : RowInv(k)

Step(c) ==
  \/ Begin(c) \/ Progress(c) \/ Escape(c) \/ Straggler(c)
  \/ \E outcome \in {"applied", "refused"} : Platform(c, outcome)

-----------------------------------------------------------------------------
(* Steps of other calls                                                    *)

\* Everything that the invariant says of a call apart from the table.
Untouched(c) ==
  /\ pc'[c] = pc[c] /\ attempt'[c] = attempt[c] /\ wire'[c] = wire[c] /\ stray'[c] = stray[c]
  /\ effects'[c] = effects[c] /\ reply'[c] = reply[c] /\ storedAt'[c] = storedAt[c]
  /\ sentUnder'[c] = sentUnder[c] /\ beganAt'[c] = beganAt[c] /\ earlier'[c] = earlier[c]
  /\ \A x : x[1] = c => (x \in ops' <=> x \in ops)
  /\ \A outcome : <<c, outcome>> \in audit' <=> <<c, outcome>> \in audit

\* A call's step leaves the other calls as they are.
LEMMA OthersUntouched ==
  ASSUME TypeOK, NEW c \in Calls, NEW d \in Calls, c # d, Step(d)
  PROVE  Untouched(c) /\ ask' = ask /\ now' = now /\ config' = config
<1> USE DEF TypeOK, Untouched, callVars, dbVars, platformVars, historyVars
<1>1. CASE Refuse(d)
  BY <1>1 DEF Refuse, Finish, Goto, Log
<1>2. CASE ValidateLocally(d)
  BY <1>2 DEF ValidateLocally, Finish, Goto, Log
<1>3. CASE ValidateRemotely(d)
  BY <1>3 DEF ValidateRemotely, Goto
<1>4. CASE Replay(d)
  BY <1>4 DEF Replay, Lookup, Finish, Goto
<1>5. CASE Conflict(d)
  BY <1>5 DEF Conflict, Lookup, Finish, Goto, Log
<1>6. CASE Start(d)
  BY <1>6 DEF Start, Lookup, Goto
<1>7. CASE Send(d)
  BY <1>7 DEF Send, Goto
<1>8. CASE Refused(d)
  BY <1>8 DEF Refused, Goto
<1>9. CASE Retry(d)
  BY <1>9 DEF Retry, MayRetry, Goto, Abandon
<1>10. CASE Exhausted(d)
  BY <1>10 DEF Exhausted, Goto, Abandon
<1>11. CASE Answered(d)
  BY <1>11 DEF Answered, Goto
<1>12. CASE Escape(d)
  BY <1>12 DEF Escape, Finish, Goto, Abandon
<1>13. CASE LogFailed(d)
  BY <1>13 DEF LogFailed, Goto, Log
<1>14. CASE AuditFailed(d)
  BY <1>14 DEF AuditFailed, Finish, Goto
<1>15. CASE StoreResult(d)
  BY <1>15 DEF StoreResult, Goto, Store
<1>16. CASE LogExecuted(d)
  BY <1>16 DEF LogExecuted, Goto, Log
<1>17. CASE AuditExecuted(d)
  BY <1>17 DEF AuditExecuted, Finish, Goto
<1>18. CASE Straggler(d)
  BY <1>18 DEF Straggler
<1>19. ASSUME NEW verdict \in {"VALIDATED", "REJECTED"}, Validated(d, verdict)
       PROVE  Untouched(c) /\ ask' = ask /\ now' = now /\ config' = config
  BY <1>19 DEF Validated, Finish, Goto, Log
<1>20. ASSUME NEW outcome \in {"applied", "refused"}, Platform(d, outcome)
       PROVE  Untouched(c) /\ ask' = ask /\ now' = now /\ config' = config
  BY <1>20 DEF Platform
<1>21. QED
  BY <1>1, <1>2, <1>3, <1>4, <1>5, <1>6, <1>7, <1>8, <1>9, <1>10, <1>11, <1>12, <1>13, <1>14, <1>15, <1>16, <1>17, <1>18, <1>19, <1>20
     DEF Step, Begin, Progress

-----------------------------------------------------------------------------
(* The types and the transmissions                                         *)

\* A call's own step keeps its count of transmissions.
LEMMA SendStep ==
  ASSUME TypeOK, NEW c \in Calls, SendInv(c), Step(c)
  PROVE  SendInv(c)'
<1> USE AdsAssumption DEF TypeOK, SendInv, Reach, Limit, Unsent, Writing, callVars, dbVars, platformVars, historyVars
<1>1. CASE Refuse(c)
  BY <1>1 DEF Refuse, Finish, Goto, Log
<1>2. CASE ValidateLocally(c)
  BY <1>2 DEF ValidateLocally, Finish, Goto, Log
<1>3. CASE ValidateRemotely(c)
  BY <1>3 DEF ValidateRemotely, Goto, Admitted
<1>4. CASE Replay(c)
  BY <1>4 DEF Replay, Lookup, Finish, Goto, Admitted
<1>5. CASE Conflict(c)
  BY <1>5 DEF Conflict, Lookup, Finish, Goto, Log, Admitted
<1>6. CASE Start(c)
  BY <1>6 DEF Start, Lookup, Goto, Admitted
<1>7. CASE Send(c)
  BY <1>7 DEF Send, Goto
<1>8. CASE Refused(c)
  BY <1>8 DEF Refused, Goto
<1>9. CASE Retry(c)
  BY <1>9 DEF Retry, MayRetry, Goto, Abandon
<1>10. CASE Exhausted(c)
  BY <1>10 DEF Exhausted, Goto, Abandon
<1>11. CASE Answered(c)
  BY <1>11 DEF Answered, Goto
<1>12. CASE Escape(c)
  BY <1>12 DEF Escape, Finish, Goto, Abandon, Awaiting
<1>13. CASE LogFailed(c)
  BY <1>13 DEF LogFailed, Goto, Log
<1>14. CASE AuditFailed(c)
  BY <1>14 DEF AuditFailed, Finish, Goto
<1>15. CASE StoreResult(c)
  BY <1>15 DEF StoreResult, Goto, Store, Never
<1>16. CASE LogExecuted(c)
  BY <1>16 DEF LogExecuted, Goto, Log
<1>17. CASE AuditExecuted(c)
  BY <1>17 DEF AuditExecuted, Finish, Goto
<1>18. CASE Straggler(c)
  BY <1>18 DEF Straggler
<1>19. ASSUME NEW verdict \in {"VALIDATED", "REJECTED"}, Validated(c, verdict)
       PROVE  SendInv(c)'
  BY <1>19 DEF Validated, Finish, Goto, Log
<1>20. ASSUME NEW outcome \in {"applied", "refused"}, Platform(c, outcome)
       PROVE  SendInv(c)'
  BY <1>20 DEF Platform
<1>21. QED
  BY <1>1, <1>2, <1>3, <1>4, <1>5, <1>6, <1>7, <1>8, <1>9, <1>10, <1>11, <1>12, <1>13, <1>14, <1>15, <1>16, <1>17, <1>18, <1>19, <1>20
     DEF Step, Begin, Progress

\* A call's own step sends nothing that its process did not admit.
LEMMA PermitStep ==
  ASSUME TypeOK, NEW c \in Calls, SendInv(c), PermitInv(c), Step(c)
  PROVE  PermitInv(c)'
<1> USE DEF TypeOK, PermitInv, InScope, Reach, callVars, dbVars, platformVars, historyVars
<1>1. CASE Begin(c)
  BY <1>1 DEF Begin, Refuse, ValidateLocally, ValidateRemotely, Replay, Conflict, Start, Lookup,
     Admitted, Finish, Goto, SendInv, Unsent
<1>2. CASE Send(c)
  <2>1. ask' = ask /\ config' = config /\ config.write /\ InScope(c)
    BY <1>2 DEF Send, Goto
  <2>2. sentUnder'[c] = sentUnder[c] \cup {config}
    BY <1>2 DEF Send
  <2>3. QED
    BY <2>1, <2>2
<1>3. CASE Refused(c) \/ Answered(c) \/ LogFailed(c) \/ LogExecuted(c) \/ StoreResult(c)
  BY <1>3 DEF Refused, Answered, LogFailed, LogExecuted, StoreResult, Goto
<1>4. CASE Retry(c) \/ Exhausted(c) \/ Escape(c)
  BY <1>4 DEF Retry, Exhausted, Escape, Finish, Goto, Abandon
<1>5. CASE AuditFailed(c) \/ AuditExecuted(c)
        \/ \E verdict \in {"VALIDATED", "REJECTED"} : Validated(c, verdict)
  BY <1>5 DEF AuditFailed, AuditExecuted, Validated, Finish, Goto
<1>6. CASE Straggler(c) \/ \E outcome \in {"applied", "refused"} : Platform(c, outcome)
  BY <1>6 DEF Straggler, Platform
<1>7. QED
  BY <1>1, <1>2, <1>3, <1>4, <1>5, <1>6 DEF Step, Progress

\* The row that a lookup finds is the live one of the call's key.
LEMMA FoundRow ==
  ASSUME TypeOK, NEW c \in Calls
  PROVE  /\ Found(c) # {} <=> ask[c].key \in Keys /\ Live(ask[c].key) /\ table[ask[c].key].of # NoCall
         /\ Found(c) # {} => /\ Found(c) = {table[ask[c].key]} /\ Purged[ask[c].key] = table[ask[c].key]
                            /\ table[ask[c].key].of \in Calls
<1>1. Found(c) # {} => Found(c) = {Purged[ask[c].key]} /\ ask[c].key \in Keys /\ Purged[ask[c].key].of # NoCall
  BY DEF Found
<1>2. ASSUME ask[c].key \in Keys, Purged[ask[c].key].of # NoCall
      PROVE  /\ Live(ask[c].key) /\ Purged[ask[c].key] = table[ask[c].key]
             /\ table[ask[c].key].of \in Calls /\ Found(c) # {}
  BY <1>2 DEF Found, Purged, NoRow, TypeOK
<1>3. ASSUME ask[c].key \in Keys, Live(ask[c].key), table[ask[c].key].of # NoCall PROVE Found(c) # {}
  BY <1>3 DEF Found, Purged
<1>4. QED
  BY <1>1, <1>2, <1>3

\* The table keeps its type when it is purged and when a result is stored.
LEMMA TableType ==
  ASSUME TypeOK, NEW c \in Calls, Lookup(c) \/ Store(c)
  PROVE  table' \in [Keys -> [payload : Payloads \cup {"none"}, of : Calls \cup {NoCall}, until : Nat]]
<1> DEFINE Rows == [payload : Payloads \cup {"none"}, of : Calls \cup {NoCall}, until : Nat]
<1>1. table \in [Keys -> Rows] /\ NoRow \in Rows
  BY DEF TypeOK, NoRow
<1>2. CASE Lookup(c)
  BY <1>1, <1>2 DEF Lookup, Purged
<1>3. CASE Store(c)
  <2>1. ask[c] \in Ask /\ now + Window \in Nat
    BY AdsAssumption DEF TypeOK
  <2>2. [payload |-> ask[c].payload, of |-> c, until |-> now + Window] \in Rows
    BY <2>1 DEF Ask
  <2>3. QED
    BY <1>1, <1>3, <2>2 DEF Store
<1>4. QED
  BY <1>2, <1>3

\* A call's step keeps the types: no request is sent more often than may be.
LEMMA TypeStep ==
  ASSUME TypeOK, NEW c \in Calls, SendInv(c), Step(c)
  PROVE  TypeOK'
<1> USE AdsAssumption DEF TypeOK, PCs, Awaiting, Holding, Answer, Never, callVars, dbVars, platformVars, historyVars
<1>1. CASE Refuse(c)
  BY <1>1 DEF Refuse, Finish, Goto, Log
<1>2. CASE ValidateLocally(c)
  BY <1>2 DEF ValidateLocally, Finish, Goto, Log
<1>3. CASE ValidateRemotely(c)
  BY <1>3 DEF ValidateRemotely, Goto
<1>4. CASE Replay(c)
  BY <1>4, TableType, FoundRow DEF Replay, Lookup, Finish, Goto, Hit
<1>5. CASE Conflict(c)
  BY <1>5, TableType DEF Conflict, Lookup, Finish, Goto, Log
<1>6. CASE Start(c)
  BY <1>6, TableType DEF Start, Lookup, Goto
<1>7. CASE Send(c)
  <2>1. sentUnder' \in [Calls -> SUBSET Configs]
    BY <1>7 DEF Send
  <2>2. attempt' \in [Calls -> 0 .. Attempts]
    BY <1>7 DEF Send, Goto, SendInv, Unsent, Limit
  <2>3. QED
    BY <1>7, <2>1, <2>2 DEF Send, Goto
<1>8. CASE Refused(c)
  <2>1. pc' \in [Calls -> PCs] /\ loop' \in Calls \cup {NoCall}
    BY <1>8 DEF Refused, Goto
  <2>2. QED
    BY <1>8, <2>1 DEF Refused, Goto
<1>9. CASE Retry(c)
  BY <1>9 DEF Retry, MayRetry, Goto, Abandon
<1>10. CASE Exhausted(c)
  BY <1>10 DEF Exhausted, Goto, Abandon
<1>11. CASE Answered(c)
  BY <1>11 DEF Answered, Goto
<1>12. CASE Escape(c)
  BY <1>12 DEF Escape, Finish, Goto, Abandon
<1>13. CASE LogFailed(c)
  BY <1>13 DEF LogFailed, Goto, Log
<1>14. CASE AuditFailed(c)
  BY <1>14 DEF AuditFailed, Finish, Goto
<1>15. CASE StoreResult(c)
  BY <1>15, TableType DEF StoreResult, Goto, Store
<1>16. CASE LogExecuted(c)
  BY <1>16 DEF LogExecuted, Goto, Log
<1>17. CASE AuditExecuted(c)
  BY <1>17 DEF AuditExecuted, Finish, Goto
<1>18. CASE Straggler(c)
  BY <1>18 DEF Straggler
<1>19. ASSUME NEW verdict \in {"VALIDATED", "REJECTED"}, Validated(c, verdict)
       PROVE  TypeOK'
  BY <1>19 DEF Validated, Finish, Goto, Log
<1>20. ASSUME NEW outcome \in {"applied", "refused"}, Platform(c, outcome)
       PROVE  TypeOK'
  BY <1>20 DEF Platform
<1>21. QED
  BY <1>1, <1>2, <1>3, <1>4, <1>5, <1>6, <1>7, <1>8, <1>9, <1>10, <1>11, <1>12, <1>13, <1>14, <1>15, <1>16, <1>17, <1>18, <1>19, <1>20
     DEF Step, Begin, Progress

-----------------------------------------------------------------------------
(* What a step changes                                                     *)

Forward(c) ==
  /\ effects[c] \in Nat /\ effects'[c] \in Nat /\ effects[c] <= effects'[c]
  /\ pc[c] # "new" => pc'[c] # "new"
  /\ pc[c] = "done" => /\ pc'[c] = "done" /\ reply'[c] = reply[c]
                       /\ storedAt'[c] = storedAt[c] /\ earlier'[c] = earlier[c]

\* Effects are not undone, and a call that is over has its final answer.
LEMMA StepForward ==
  ASSUME TypeOK, NEW c \in Calls, Step(c)
  PROVE  Forward(c) /\ ask' = ask /\ now' = now
<1> USE DEF TypeOK, Forward, callVars, dbVars, platformVars, historyVars
<1>1. CASE Refuse(c)
  BY <1>1 DEF Refuse, Finish, Goto, Log
<1>2. CASE ValidateLocally(c)
  BY <1>2 DEF ValidateLocally, Finish, Goto, Log
<1>3. CASE ValidateRemotely(c)
  BY <1>3 DEF ValidateRemotely, Goto
<1>4. CASE Replay(c)
  BY <1>4 DEF Replay, Lookup, Finish, Goto
<1>5. CASE Conflict(c)
  BY <1>5 DEF Conflict, Lookup, Finish, Goto, Log
<1>6. CASE Start(c)
  BY <1>6 DEF Start, Lookup, Goto
<1>7. CASE Send(c)
  BY <1>7 DEF Send, Goto
<1>8. CASE Refused(c)
  BY <1>8 DEF Refused, Goto
<1>9. CASE Retry(c)
  BY <1>9 DEF Retry, MayRetry, Goto, Abandon
<1>10. CASE Exhausted(c)
  BY <1>10 DEF Exhausted, Goto, Abandon
<1>11. CASE Answered(c)
  BY <1>11 DEF Answered, Goto
<1>12. CASE Escape(c)
  BY <1>12 DEF Escape, Finish, Goto, Abandon, Awaiting
<1>13. CASE LogFailed(c)
  BY <1>13 DEF LogFailed, Goto, Log
<1>14. CASE AuditFailed(c)
  BY <1>14 DEF AuditFailed, Finish, Goto
<1>15. CASE StoreResult(c)
  BY <1>15 DEF StoreResult, Goto, Store
<1>16. CASE LogExecuted(c)
  BY <1>16 DEF LogExecuted, Goto, Log
<1>17. CASE AuditExecuted(c)
  BY <1>17 DEF AuditExecuted, Finish, Goto
<1>18. CASE Straggler(c)
  BY <1>18 DEF Straggler
<1>19. ASSUME NEW verdict \in {"VALIDATED", "REJECTED"}, Validated(c, verdict)
       PROVE  Forward(c) /\ ask' = ask /\ now' = now
  BY <1>19 DEF Validated, Finish, Goto, Log
<1>20. ASSUME NEW outcome \in {"applied", "refused"}, Platform(c, outcome)
       PROVE  Forward(c) /\ ask' = ask /\ now' = now
  BY <1>20 DEF Platform
<1>21. QED
  BY <1>1, <1>2, <1>3, <1>4, <1>5, <1>6, <1>7, <1>8, <1>9, <1>10, <1>11, <1>12, <1>13, <1>14, <1>15, <1>16, <1>17, <1>18, <1>19, <1>20
     DEF Step, Begin, Progress

\* A row changes when it is purged, being expired, or when a result is stored.
LEMMA TableChange ==
  ASSUME TypeOK, NEW c \in Calls, Step(c), NEW k \in Keys
  PROVE  \/ table'[k] = table[k]
         \/ table[k].until <= now /\ table'[k] = NoRow
         \/ /\ StoreResult(c) /\ k = ask[c].key
            /\ table'[k] = [payload |-> ask[c].payload, of |-> c, until |-> now + Window]
<1>1. table[k].until \in Nat /\ now \in Nat
  BY DEF TypeOK
<1>2. CASE Lookup(c)
  <2>1. table'[k] = table[k] \/ (~Live(k) /\ table'[k] = NoRow)
    BY <1>2 DEF Lookup, Purged
  <2>2. QED
    BY <1>1, <2>1 DEF Live
<1>3. CASE StoreResult(c)
  BY <1>3 DEF StoreResult, Store, TypeOK
<1>4. CASE UNCHANGED table
  BY <1>4
<1>5. QED
  BY <1>2, <1>3, <1>4 DEF Step, Begin, Progress, Refuse, ValidateLocally, ValidateRemotely, Replay, Conflict, Start,
     Validated, Send, Refused, Retry, Exhausted, Answered, Escape, LogFailed, AuditFailed, LogExecuted, AuditExecuted,
     Straggler, Platform, dbVars

\* A result is stored in one step, by a call that took effect.
LEMMA StoredChange ==
  ASSUME TypeOK, NEW c \in Calls, Step(c)
  PROVE  \/ storedAt'[c] = storedAt[c]
         \/ /\ StoreResult(c) /\ storedAt'[c] = now /\ ask[c].key \in Keys
            /\ table'[ask[c].key] = [payload |-> ask[c].payload, of |-> c, until |-> now + Window]
<1>1. CASE StoreResult(c)
  <2>1. ask[c].key \in Keys \cup {NoKey}
    BY AdsAssumption DEF TypeOK, Ask
  <2>2. QED
    BY <1>1, <2>1 DEF StoreResult, Store, TypeOK
<1>2. CASE ~StoreResult(c)
  <2>1. storedAt' = storedAt
    BY <1>2 DEF Step, Begin, Progress, Refuse, ValidateLocally, ValidateRemotely, Replay, Conflict, Start,
       Validated, Send, Refused, Retry, Exhausted, Answered, Escape, LogFailed, AuditFailed, LogExecuted, AuditExecuted,
       Straggler, Platform, historyVars
  <2>2. QED
    BY <2>1
<1>3. QED
  BY <1>1, <1>2

-----------------------------------------------------------------------------
(* The logs, the table and the answers                                     *)

\* A call's own step keeps its log true.
LEMMA LogStep ==
  ASSUME TypeOK, NEW c \in Calls, SendInv(c), LogInv(c), Step(c)
  PROVE  LogInv(c)'
<1> USE DEF TypeOK, SendInv, LogInv, Reach, Unsent, Writing, callVars, dbVars, platformVars, historyVars
<1>1. CASE Refuse(c)
  BY <1>1 DEF Refuse, Finish, Goto, Log
<1>2. CASE ValidateLocally(c)
  BY <1>2 DEF ValidateLocally, Finish, Goto, Log
<1>3. CASE ValidateRemotely(c)
  BY <1>3 DEF ValidateRemotely, Goto
<1>4. CASE Replay(c)
  BY <1>4 DEF Replay, Lookup, Finish, Goto
<1>5. CASE Conflict(c)
  BY <1>5 DEF Conflict, Lookup, Finish, Goto, Log
<1>6. CASE Start(c)
  BY <1>6 DEF Start, Lookup, Goto
<1>7. CASE Send(c)
  BY <1>7 DEF Send, Goto
<1>8. CASE Refused(c)
  BY <1>8 DEF Refused, Goto
<1>9. CASE Retry(c)
  BY <1>9 DEF Retry, MayRetry, Goto, Abandon
<1>10. CASE Exhausted(c)
  BY <1>10 DEF Exhausted, Goto, Abandon
<1>11. CASE Answered(c)
  BY <1>11 DEF Answered, Goto
<1>12. CASE Escape(c)
  BY <1>12 DEF Escape, Finish, Goto, Abandon, Awaiting
<1>13. CASE LogFailed(c)
  BY <1>13 DEF LogFailed, Goto, Log
<1>14. CASE AuditFailed(c)
  BY <1>14 DEF AuditFailed, Finish, Goto
<1>15. CASE StoreResult(c)
  BY <1>15 DEF StoreResult, Goto, Store, Never
<1>16. CASE LogExecuted(c)
  BY <1>16 DEF LogExecuted, Goto, Log
<1>17. CASE AuditExecuted(c)
  BY <1>17 DEF AuditExecuted, Finish, Goto
<1>18. CASE Straggler(c)
  BY <1>18 DEF Straggler
<1>19. ASSUME NEW verdict \in {"VALIDATED", "REJECTED"}, Validated(c, verdict)
       PROVE  LogInv(c)'
  BY <1>19 DEF Validated, Finish, Goto, Log
<1>20. ASSUME NEW outcome \in {"applied", "refused"}, Platform(c, outcome)
       PROVE  LogInv(c)'
  BY <1>20 DEF Platform
<1>21. QED
  BY <1>1, <1>2, <1>3, <1>4, <1>5, <1>6, <1>7, <1>8, <1>9, <1>10, <1>11, <1>12, <1>13, <1>14, <1>15, <1>16, <1>17, <1>18, <1>19, <1>20
     DEF Step, Begin, Progress

\* Every row is the result of a call that took effect, after any step.
LEMMA RowStep ==
  ASSUME TypeOK, NEW c \in Calls, SendInv(c), Step(c), NEW k \in Keys, RowInv(k)
  PROVE  RowInv(k)'
<1>1. \A d \in Calls : Forward(d) /\ ask' = ask
  BY OthersUntouched, StepForward DEF Untouched, Forward, TypeOK
<1>2. CASE table'[k] = table[k]
  <2>1. table[k].of \in Calls \cup {NoCall}
    BY DEF TypeOK
  <2>2. QED
    BY <1>1, <1>2, <2>1 DEF RowInv, Forward
<1>3. CASE table'[k] = NoRow
  BY <1>3 DEF RowInv, NoRow
<1>4. CASE /\ StoreResult(c) /\ k = ask[c].key
           /\ table'[k] = [payload |-> ask[c].payload, of |-> c, until |-> now + Window]
  <2>1. pc[c] = "answered" /\ effects[c] > 0
    BY <1>4 DEF StoreResult, Goto, SendInv
  <2>2. QED
    BY <1>1, <1>4, <2>1 DEF RowInv, Forward
<1>5. QED
  BY <1>2, <1>3, <1>4, TableChange

\* The results that calls stored stay to be found until their windows pass.
LEMMA StoreStep ==
  ASSUME TypeOK, NEW c \in Calls, NEW d \in Calls, StoreInv(c), Step(d)
  PROVE  StoreInv(c)'
<1>1. now' = now /\ ask' = ask /\ now \in Nat /\ Window \in Nat
  BY StepForward, AdsAssumption DEF TypeOK
<1>2. CASE storedAt'[c] = storedAt[c]
  <2> SUFFICES ASSUME storedAt[c] # Never, ~(storedAt[c] + Window <= now)
               PROVE  /\ table'[ask[c].key].of # NoCall
                      /\ storedAt[c] + Window <= table'[ask[c].key].until
    BY <1>1, <1>2 DEF StoreInv
  <2>1. storedAt[c] \in Nat /\ storedAt[c] <= now /\ ask[c].key \in Keys
    BY DEF TypeOK, StoreInv
  <2>2. table[ask[c].key].of # NoCall /\ storedAt[c] + Window <= table[ask[c].key].until
    BY DEF StoreInv
  <2>3. ~(table[ask[c].key].until <= now)
    BY <1>1, <2>1, <2>2 DEF TypeOK
  <2>4. CASE table'[ask[c].key] = table[ask[c].key]
    BY <2>2, <2>4
  <2>5. CASE table'[ask[c].key] = [payload |-> ask[d].payload, of |-> d, until |-> now + Window]
    BY <1>1, <2>1, <2>5, AdsAssumption
  <2>6. QED
    BY <2>1, <2>3, <2>4, <2>5, TableChange
<1>3. CASE /\ c = d /\ storedAt'[c] = now /\ ask[c].key \in Keys
           /\ table'[ask[c].key] = [payload |-> ask[c].payload, of |-> c, until |-> now + Window]
  BY <1>1, <1>3, AdsAssumption DEF StoreInv
<1>4. QED
  BY <1>2, <1>3, OthersUntouched, StoredChange DEF Untouched

\* Only a lookup that hits replays, and once a call is over nothing of it but
\* its stragglers can arrive.
LEMMA AnswerKind ==
  ASSUME TypeOK, NEW c \in Calls, Step(c), ~Replay(c), pc[c] # "done"
  PROVE  reply'[c] = reply[c] \/ reply'[c].kind # "replay"
BY DEF TypeOK, Step, Begin, Progress, Refuse, ValidateLocally, ValidateRemotely, Conflict, Start,
   Validated, Send, Refused, Retry, Exhausted, Answered, Escape, LogFailed, AuditFailed, StoreResult, LogExecuted,
   AuditExecuted, Straggler, Platform, Finish

\* A call that is over, with nothing of it still to arrive, reaches nothing more.
LEMMA AfterDone ==
  ASSUME TypeOK, NEW c \in Calls, SendInv(c), Step(c), pc[c] = "done", Reach(c) = 0
  PROVE  Reach(c)' = 0
BY DEF TypeOK, Step, Begin, Progress, Refuse, ValidateLocally, ValidateRemotely, Replay, Conflict, Start,
   Validated, Send, Refused, Retry, Exhausted, Answered, Escape, LogFailed, AuditFailed, StoreResult, LogExecuted,
   AuditExecuted, Straggler, Platform, Finish, Goto, Reach, Awaiting

\* A replayed answer stays the result of a call that took effect.
LEMMA ReplayStep ==
  ASSUME TypeOK, NEW c \in Calls, SendInv(c), ReplayInv(c), \A k \in Keys : RowInv(k),
         NEW d \in Calls, Step(d)
  PROVE  ReplayInv(c)'
<1>1. \A e \in Calls : Forward(e) /\ ask' = ask
  BY OthersUntouched, StepForward DEF Untouched, Forward, TypeOK
<1>2. CASE c # d \/ pc[c] = "done"
  <2>1. reply'[c] = reply[c] /\ (pc[c] = "done" => pc'[c] = "done")
    BY <1>1, <1>2, OthersUntouched DEF Untouched, Forward
  <2>2. pc[c] = "done" /\ Reach(c) = 0 => Reach(c)' = 0
    <3>1. CASE c # d
      BY <3>1, OthersUntouched DEF Untouched, Reach
    <3>2. CASE c = d /\ pc[c] = "done"
      BY <3>2, AfterDone
    <3>3. QED
      BY <1>2, <3>1, <3>2
  <2>3. QED
    BY <1>1, <2>1, <2>2 DEF ReplayInv, Forward
<1>3. CASE c = d /\ pc[c] # "done" /\ ~Replay(c)
  BY <1>3, AnswerKind DEF ReplayInv
<1>4. CASE c = d /\ Replay(c)
  <2>1. pc[c] = "new" /\ reply'[c] = [kind |-> "replay", of |-> Purged[ask[c].key].of] /\ pc'[c] = "done"
    BY <1>4 DEF Replay, Finish, Goto, TypeOK
  <2>2. Reach(c) = 0 /\ effects' = effects
    BY <1>4, <2>1 DEF SendInv, Unsent, Replay
  <2>3. Reach(c)' = 0
    BY <1>4, <2>2 DEF Reach, Replay, Finish, TypeOK
  <2>4. Hit(c)
    BY <1>4 DEF Replay
  <2>5. /\ ask[c].key \in Keys /\ table[ask[c].key].of \in Calls
        /\ Purged[ask[c].key] = table[ask[c].key] /\ table[ask[c].key].payload = ask[c].payload
    BY <2>4, FoundRow DEF Hit
  <2>6. LET e == table[ask[c].key].of
        IN  pc[e] # "new" /\ effects[e] > 0 /\ ask[e].key = ask[c].key /\ ask[e].payload = ask[c].payload
    BY <2>5, AdsAssumption DEF RowInv
  <2>7. QED
    BY <1>1, <2>1, <2>2, <2>3, <2>5, <2>6 DEF ReplayInv
<1>5. QED
  BY <1>2, <1>3, <1>4

\* Whoever begins finds no result of its key that is still to be honoured, and
\* the calls that were over by then stay as they are.
LEMMA EarlierStep ==
  ASSUME TypeOK, \A c \in Calls : StoreInv(c), NEW d \in Calls, EarlierInv(d), NEW e \in Calls, Step(e)
  PROVE  EarlierInv(d)'
<1>1. \A c \in Calls : Forward(c) /\ ask' = ask
  BY OthersUntouched, StepForward DEF Untouched, Forward, TypeOK
<1>2. CASE d = e /\ Start(d)
  <2>1. earlier'[d] = {c \in Calls : pc[c] = "done"} /\ beganAt'[d] = now
    BY <1>2 DEF Start, TypeOK
  <2>2. Found(d) = {}
    BY <1>2 DEF Start
  <2> SUFFICES ASSUME NEW c \in Calls, pc[c] = "done", storedAt[c] # Never, ask[c].key = ask[d].key
               PROVE  storedAt[c] + Window <= now
    BY <1>1, <2>1 DEF EarlierInv, Forward
  <2>3. ask[c].key \in Keys /\ storedAt[c] \in Nat /\ now \in Nat
    BY DEF StoreInv, TypeOK
  <2>4. CASE table[ask[c].key].of # NoCall /\ storedAt[c] + Window <= table[ask[c].key].until
    <3>1. ~Live(ask[c].key)
      BY <2>2, <2>3, <2>4, FoundRow
    <3>2. table[ask[c].key].until \in Nat
      BY <2>3 DEF TypeOK
    <3>3. QED
      BY <2>3, <2>4, <3>1, <3>2, AdsAssumption DEF Live
  <2>5. QED
    BY <2>4 DEF StoreInv
<1>3. CASE ~(d = e /\ Start(d))
  <2>1. earlier'[d] = earlier[d] /\ beganAt'[d] = beganAt[d]
    <3>1. CASE d # e
      BY <3>1, OthersUntouched DEF Untouched
    <3>2. CASE d = e
      BY <1>3, <3>2 DEF TypeOK, Step, Begin, Progress, Refuse, ValidateLocally, ValidateRemotely, Replay, Conflict,
         Validated, Send, Refused, Retry, Exhausted, Answered, Escape, LogFailed, AuditFailed, StoreResult, LogExecuted,
         AuditExecuted, Straggler, Platform, historyVars
    <3>3. QED
      BY <3>1, <3>2
  <2>2. earlier[d] \subseteq Calls
    BY DEF TypeOK
  <2>3. QED
    BY <1>1, <2>1, <2>2 DEF EarlierInv, Forward
<1>4. QED
  BY <1>2, <1>3

-----------------------------------------------------------------------------
(* Every step keeps the invariant                                          *)

\* A step of any call does.
LEMMA CallsKeep == ASSUME IInv, NEW d \in Calls, Step(d) PROVE IInv'
<1> USE DEF IInv, CallInv
<1>1. TypeOK'
  BY TypeStep
<1>2. \A k \in Keys : RowInv(k)'
  BY RowStep
<1>3. ASSUME NEW c \in Calls PROVE SendInv(c)' /\ LogInv(c)'
  <2>1. CASE c = d
    BY <2>1, SendStep, LogStep
  <2>2. CASE c # d
    BY <2>2, OthersUntouched, SMTT(60) DEF Untouched, SendInv, LogInv, Reach, Limit
  <2>3. QED
    BY <2>1, <2>2
<1>4. ASSUME NEW c \in Calls PROVE StoreInv(c)' /\ ReplayInv(c)' /\ EarlierInv(c)'
  BY StoreStep, ReplayStep, EarlierStep
<1>5. ASSUME NEW c \in Calls PROVE PermitInv(c)'
  <2>1. CASE c = d
    BY <2>1, PermitStep
  <2>2. CASE c # d
    BY <2>2, OthersUntouched DEF Untouched, PermitInv, InScope, Reach
  <2>3. QED
    BY <2>1, <2>2
<1>6. QED
  BY <1>1, <1>2, <1>3, <1>4, <1>5

\* A restart loses the open calls, and leaves what they sent to arrive.
LEMMA RestartKeeps == ASSUME IInv, Restart PROVE IInv'
<1> USE DEF IInv, CallInv
<1>1. TypeOK'
  <2>1. pc' \in [Calls -> PCs]
    BY DEF TypeOK, Restart, PCs
  <2>2. reply' \in [Calls -> Answer]
    BY DEF TypeOK, Restart, Answer
  <2>3. stray' \in [Calls -> Nat]
    BY DEF TypeOK, Restart
  <2>4. /\ attempt' \in [Calls -> 0 .. Attempts] /\ config' \in Configs /\ loop' \in Calls \cup {NoCall}
        /\ wire' \in [Calls -> {"none", "pending", "applied", "refused"}]
    BY AdsAssumption DEF Restart
  <2>5. QED
    BY <2>1, <2>2, <2>3, <2>4 DEF TypeOK, Restart, dbVars, historyVars
<1>2. UNCHANGED <<now, ask, dbVars, effects, historyVars>>
  BY DEF Restart
<1>3. ASSUME NEW c \in Calls
      PROVE  /\ pc'[c] = IF pc[c] = "new" THEN "new" ELSE "done"
             /\ Reach(c)' = Reach(c) /\ wire'[c] = "none" /\ attempt'[c] = 0
             /\ reply'[c] = reply[c] \/ (reply'[c].kind = "lost" /\ pc[c] # "done")
  <2>1. stray[c] \in Nat /\ effects[c] \in Nat
    BY DEF TypeOK
  <2>2. QED
    BY <2>1 DEF Restart, Reach
<1>4. \A k \in Keys : RowInv(k)'
  BY <1>2, <1>3 DEF RowInv, TypeOK, dbVars
<1>5. ASSUME NEW c \in Calls PROVE SendInv(c)'
  BY <1>2, <1>3 DEF SendInv, Unsent, Writing, Limit, historyVars
<1>6. ASSUME NEW c \in Calls PROVE LogInv(c)'
  BY <1>2, <1>3 DEF LogInv, dbVars, historyVars
<1>7. ASSUME NEW c \in Calls PROVE StoreInv(c)' /\ ReplayInv(c)' /\ EarlierInv(c)'
  BY <1>2, <1>3 DEF StoreInv, ReplayInv, EarlierInv, dbVars, historyVars, TypeOK
<1>8. ASSUME NEW c \in Calls PROVE PermitInv(c)'
  BY <1>2, <1>3 DEF PermitInv, historyVars
<1>9. QED
  BY <1>1, <1>4, <1>5, <1>6, <1>7, <1>8

\* As time passes windows end, and nothing else.
LEMMA TickKeeps == ASSUME IInv, Tick PROVE IInv'
<1> USE DEF IInv, CallInv
<1>1. UNCHANGED <<config, callVars, dbVars, platformVars, reply, historyVars>> /\ now' = now + 1 /\ now \in Nat
  BY DEF Tick, TypeOK
<1>2. TypeOK'
  BY <1>1 DEF TypeOK, callVars, dbVars, platformVars, historyVars
<1>3. \A k \in Keys : RowInv(k)'
  BY <1>1 DEF RowInv, callVars, dbVars, platformVars
<1>4. ASSUME NEW c \in Calls PROVE SendInv(c)' /\ PermitInv(c)' /\ LogInv(c)' /\ ReplayInv(c)' /\ EarlierInv(c)'
  <2>1. Reach(c)' = Reach(c) /\ Limit(c)' = Limit(c)
    BY <1>1 DEF Reach, Limit, callVars, platformVars
  <2>2. SendInv(c)' /\ PermitInv(c)'
    BY <1>1, <2>1 DEF SendInv, PermitInv, InScope, callVars, platformVars, historyVars
  <2>3. LogInv(c)'
    BY <1>1, <2>1 DEF LogInv, callVars, dbVars, platformVars, historyVars
  <2>4. ReplayInv(c)' /\ EarlierInv(c)'
    BY <1>1, <2>1 DEF ReplayInv, EarlierInv, callVars, platformVars, historyVars
  <2>5. QED
    BY <2>2, <2>3, <2>4
<1>5. ASSUME NEW c \in Calls PROVE StoreInv(c)'
  BY <1>1, AdsAssumption DEF StoreInv, TypeOK, callVars, dbVars, historyVars
<1>6. QED
  BY <1>2, <1>3, <1>4, <1>5

\* Nothing at all has happened to begin with.
LEMMA InitInv == Init => IInv
<1> SUFFICES ASSUME Init PROVE IInv
  OBVIOUS
<1>1. TypeOK
  BY AdsAssumption DEF Init, TypeOK, PCs, Answer, NoAnswer, NoRow
<1>2. \A k \in Keys : RowInv(k)
  BY DEF Init, RowInv, NoRow
<1>3. ASSUME NEW c \in Calls PROVE CallInv(c)
  <2>1. ask[c] \in Ask
    BY AdsAssumption DEF Init
  <2>2. QED
    BY <2>1, AdsAssumption DEF Init, CallInv, SendInv, PermitInv, LogInv, StoreInv, ReplayInv, EarlierInv, Reach, Limit,
       Unsent, Writing, NoAnswer
<1>4. QED
  BY <1>1, <1>2, <1>3 DEF IInv

-----------------------------------------------------------------------------
(* The theorems                                                            *)

\* The inductive invariant of the write path holds throughout.
THEOREM Inductive == Spec => []IInv
<1>1. IInv /\ UNCHANGED vars => IInv'
  <2> SUFFICES ASSUME IInv, UNCHANGED vars PROVE IInv'
    OBVIOUS
  <2> USE DEF vars, callVars, dbVars, platformVars, historyVars
  <2>1. TypeOK' /\ \A k \in Keys : RowInv(k)'
    BY DEF IInv, TypeOK, RowInv
  <2>2. ASSUME NEW c \in Calls PROVE CallInv(c)'
    <3>1. Reach(c)' = Reach(c) /\ Limit(c)' = Limit(c)
      BY DEF Reach, Limit
    <3>2. SendInv(c)' /\ LogInv(c)'
      BY <3>1, SMTT(60) DEF IInv, CallInv, SendInv, LogInv
    <3>3. PermitInv(c)' /\ StoreInv(c)' /\ ReplayInv(c)' /\ EarlierInv(c)'
      BY <3>1 DEF IInv, CallInv, PermitInv, InScope, StoreInv, ReplayInv, EarlierInv
    <3>4. QED
      BY <3>2, <3>3 DEF CallInv
  <2>3. QED
    BY <2>1, <2>2 DEF IInv
<1>2. IInv /\ [Next]_vars => IInv'
  BY <1>1, CallsKeep, RestartKeeps, TickKeeps DEF Next, Step
<1>3. QED
  BY InitInv, <1>2, PTL DEF Spec

\* Whatever is retried, lost or delivered late, and however the process is
\* restarted, only requests sent with their scope granted and writes enabled,
\* within the cap, take effect, and a call's at most once per transmission.
THEOREM EffectsAdmitted == Spec => []OnlyAdmittedEffects
<1>1. IInv => OnlyAdmittedEffects
  <2> SUFFICES ASSUME IInv PROVE OnlyAdmittedEffects
    OBVIOUS
  <2>1. ASSUME NEW c \in Calls, effects[c] > 0
        PROVE  /\ sentUnder[c] # {}
               /\ \A g \in sentUnder[c] : g.write /\ ask[c].platform \in g.scopes
               /\ ~ask[c].overCap /\ ~ask[c].validate
               /\ effects[c] <= IF ask[c].platform = "meta" THEN Attempts ELSE 1
    <3>1. effects[c] \in Nat /\ stray[c] \in Nat
      BY DEF IInv, TypeOK
    <3>2. SendInv(c) /\ PermitInv(c)
      BY DEF IInv, CallInv
    <3>3. effects[c] <= Reach(c) /\ Reach(c) > 0 /\ Reach(c) \in Nat
      BY <2>1, <3>1 DEF Reach
    <3>4. Limit(c) \in Nat
      BY AdsAssumption DEF Limit
    <3>5. effects[c] <= Limit(c) /\ ~ask[c].overCap /\ ~ask[c].validate
      BY <3>1, <3>2, <3>3, <3>4 DEF SendInv
    <3>6. QED
      BY <3>2, <3>3, <3>5 DEF Limit, PermitInv
  <2>2. QED
    BY <2>1 DEF IInv, OnlyAdmittedEffects
<1>2. QED
  BY <1>1, Inductive, PTL

\* What the operation and audit logs say of a call is what became of it, even
\* half written, and no call is logged with two outcomes.
THEOREM LogsTrue == Spec => []LogsTellTheTruth
<1>1. IInv => LogsTellTheTruth
  <2> SUFFICES ASSUME IInv PROVE LogsTellTheTruth
    OBVIOUS
  <2>1. ASSUME NEW c \in Calls
        PROVE  /\ <<c, "EXECUTED">> \in ops =>
                    effects[c] > 0 /\ (ask[c].key # NoKey => storedAt[c] # Never)
               /\ <<c, "executed">> \in audit => <<c, "EXECUTED">> \in ops
               /\ <<c, "failed">> \in audit => <<c, "FAILED">> \in ops
               /\ <<c, "REJECTED">> \in ops \/ <<c, "VALIDATED">> \in ops => effects[c] = 0
    <3>1. effects[c] \in Nat /\ stray[c] \in Nat /\ (Reach(c) = 0 => effects[c] = 0)
      BY DEF IInv, TypeOK, Reach
    <3>2. QED
      BY <3>1 DEF IInv, CallInv, LogInv
  <2>2. ASSUME NEW x \in ops, NEW y \in ops, x[1] = y[1] PROVE x = y
    <3>1. x[1] \in Calls
      BY DEF IInv, TypeOK
    <3>2. QED
      BY <2>2, <3>1 DEF IInv, CallInv, LogInv
  <2>3. QED
    BY <2>1, <2>2 DEF LogsTellTheTruth
<1>2. QED
  BY <1>1, Inductive, PTL

\* A replayed answer is the result of a call that took effect, and whoever
\* comes back with a key within the window of a success does not act again.
THEOREM KeysAreHonoured == Spec => []KeysHonoured
<1>1. IInv => KeysHonoured
  <2> SUFFICES ASSUME IInv PROVE KeysHonoured
    OBVIOUS
  <2>1. ReplayIsGenuine
    <3>1. ASSUME NEW c \in Calls, reply[c].kind = "replay" PROVE effects[c] = 0
      <4>1. effects[c] \in Nat /\ stray[c] \in Nat /\ Reach(c) = 0
        BY <3>1 DEF IInv, TypeOK, CallInv, ReplayInv
      <4>2. QED
        BY <4>1 DEF Reach
    <3>2. QED
      BY <3>1 DEF IInv, CallInv, ReplayInv, ReplayIsGenuine
  <2>2. NoActAfterSuccess
    <3> SUFFICES ASSUME NEW c \in Calls, NEW d \in Calls, c \in earlier[d], ask[c].key = ask[d].key,
                        storedAt[c] # Never, beganAt[d] < storedAt[c] + Window
                 PROVE  FALSE
      BY DEF NoActAfterSuccess
    <3>1. storedAt[c] + Window <= beganAt[d]
      BY DEF IInv, CallInv, EarlierInv
    <3>2. storedAt[c] \in Nat /\ beganAt[d] \in Int
      BY DEF IInv, TypeOK, Never
    <3>3. QED
      BY <3>1, <3>2, AdsAssumption
  <2>3. QED
    BY <2>1, <2>2 DEF KeysHonoured
<1>2. QED
  BY <1>1, Inductive, PTL

=============================================================================
