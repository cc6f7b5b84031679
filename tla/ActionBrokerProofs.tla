------------------------- MODULE ActionBrokerProofs -------------------------
(***************************************************************************)
(* Type correctness of ActionBroker, and the safety of its token, its      *)
(* rules and its idempotency window, for every set of callers, requests    *)
(* and keys and every clock.                                               *)
(***************************************************************************)
EXTENDS ActionBroker, TLAPS

\* Calls that have spent a token: a request is in the hands of at most one.
Committing == {"consumed", "registered", "executing", "blocked", "failed",
               "failing", "executed"}

\* A call works on a request exactly while it is not idle, and a task is
\* between two awaits exactly while it holds the loop.
CtlInv ==
  \A c \in Callers : /\ pc[c] = "idle" <=> req[c] = NoRequest
                     /\ pc[c] \in Holding <=> loop = c

\* What a row and the request's history say of one another.
RowInv ==
  \A r \in Requests :
    /\ row[r].status # "ABSENT" => row[r].key \in Keys
    /\ r \in held => /\ row[r].status # "ABSENT"
                     /\ failing[r] \cap Blocking = {}
    /\ row[r].consumed => r \in held
    /\ dispatches[r] <= 1
    /\ dispatches[r] > 0 => claimedAt[r] # Never
    /\ claimedAt[r] # Never => row[r].consumed /\ claimedAt[r] <= now
    /\ r \in released => claimedAt[r] # Never
    /\ \A k \in Keys : idem[k].owner = r => /\ claimedAt[r] # Never
                                            /\ k = row[r].key
                                            /\ r \notin released

\* How far a call's request has come.
CallInv ==
  \A c \in Callers :
    /\ pc[c] = "checking" => row[req[c]].status = "ABSENT"
    /\ pc[c] = "drafted" => row[req[c]].status # "ABSENT"
    /\ pc[c] \in Committing => row[req[c]].consumed
    /\ pc[c] = "consumed" => claimedAt[req[c]] = Never
    /\ pc[c] = "registered" => dispatches[req[c]] = 0
    /\ pc[c] \in Claiming => /\ claimedAt[req[c]] # Never
                             /\ req[c] \notin released
                             /\ now <= claimedAt[req[c]] + MaxHold

\* A request being proposed, or being committed, has one call.
SoleInv ==
  \A c, d \in Callers :
    c # d /\ req[c] = req[d] =>
      /\ pc[c] # "checking"
      /\ ~(pc[c] \in Committing /\ pc[d] \in Committing)

\* A request that took its key and was not reported failed still owns it
\* until the window has passed.
LeaseInv ==
  \A r \in Requests :
    Outstanding(r) =>
      \/ claimedAt[r] + Window <= now
      \/ idem[row[r].key] = [owner |-> r, until |-> claimedAt[r] + Window]

\* What the audit log and the key table hold by the time a status is final.
RequestOutcome(r) ==
  /\ remote[r] # "unsent" => dispatches[r] > 0
  /\ row[r].status = "FAILED" => r \in released

CallOutcome(c) ==
  /\ pc[c] = "blocked" => ~config.write
  /\ pc[c] \in {"executing", "failed", "executed"} => config.write
  /\ pc[c] \in {"blocked", "failed", "failing"} => req[c] \in released
  /\ pc[c] = "failing" =>
       <<IF config.write THEN "failed" ELSE "blocked", req[c]>> \in audit
  /\ pc[c] \in {"executing", "executed"} => dispatches[req[c]] > 0
  /\ pc[c] = "executed" => /\ remote[req[c]] = "applied"
                           /\ <<"executed", req[c]>> \in audit

OutcomeInv == /\ \A r \in Requests : RequestOutcome(r)
              /\ \A c \in Callers : CallOutcome(c)

Safe == RowInv /\ CallInv /\ SoleInv /\ LeaseInv /\ WindowApart

IInv == TypeOK /\ CtlInv /\ Safe /\ OutcomeInv /\ AuditBacksStatus

-----------------------------------------------------------------------------
(* Types and control                                                       *)

\* Every status write keeps the table well typed.
LEMMA SetStatusType ==
  ASSUME TypeOK, NEW r \in Requests, NEW status \in Statuses,
         NEW response \in BOOLEAN, NEW ref \in {"none"} \cup Events,
         SetStatus(r, status, response, ref)
  PROVE  row' \in [Requests -> Row]
<1>1. row \in [Requests -> Row]
  BY DEF TypeOK
<1>2. [row[r] EXCEPT !.status = status, !.response = response,
                     !.auditRef = IF ref = "none" THEN @ ELSE ref] \in Row
  BY <1>1 DEF Row
<1>3. QED
  BY <1>1, <1>2 DEF SetStatus

\* Inserting the row of a new request keeps it well typed too.
LEMMA CreateType ==
  ASSUME TypeOK, NEW r \in Requests, NEW k \in Keys, NEW deadline \in Nat,
         Create(r, k, deadline)
  PROVE  row' \in [Requests -> Row]
<1>1. row \in [Requests -> Row]
  BY DEF TypeOK
<1>2. [row[r] EXCEPT !.status = "PENDING", !.key = k, !.deadline = deadline] \in Row
  BY <1>1 DEF Row, Statuses
<1>3. QED
  BY <1>1, <1>2 DEF Create

\* So does stamping token_consumed_at.
LEMMA ConsumeType ==
  ASSUME TypeOK, NEW r \in Requests, row' = [row EXCEPT ![r].consumed = TRUE]
  PROVE  row' \in [Requests -> Row]
<1>1. row \in [Requests -> Row]
  BY DEF TypeOK
<1>2. [row[r] EXCEPT !.consumed = TRUE] \in Row
  BY <1>1 DEF Row
<1>3. QED
  BY <1>1, <1>2

\* Type correctness of every variable, with the control invariant it needs: a
\* call that is not idle works on some request.
LEMMA Typing == TypeOK /\ CtlInv /\ [Next]_vars => TypeOK' /\ CtlInv'
<1> SUFFICES ASSUME TypeOK, CtlInv, [Next]_vars PROVE TypeOK' /\ CtlInv'
  OBVIOUS
<1> USE BrokerAssumption DEF TypeOK, CtlInv, PCs, Awaiting, Holding, Row, Statuses,
        Events, Entry, NoEntry, Never, Runnable, procVars, storeVars, historyVars
<1>1. ASSUME NEW c \in Callers, NEW r \in Requests, Propose(c, r)
      PROVE  TypeOK' /\ CtlInv'
  BY <1>1 DEF Propose, Enter
<1>2. ASSUME NEW c \in Callers, NEW k \in Keys, Draft(c, k)
      PROVE  TypeOK' /\ CtlInv'
  <2>1. PICK verdict \in [Rules -> Verdicts] :
          LET failed == {x \in Rules : verdict[x] = "failed"}
          IN  /\ failing' = [failing EXCEPT ![req[c]] = failed]
              /\ Create(req[c], k, IF Eligible(failed) THEN now + TokenTTL ELSE 0)
    BY <1>2 DEF Draft
  <2>2. req[c] \in Requests
    BY <1>2 DEF Draft, Goto
  <2>3. row' \in [Requests -> Row]
    BY <2>1, <2>2, CreateType
  <2>4. failing' \in [Requests -> SUBSET Rules]
    BY <2>1
  <2>5. QED
    BY <1>2, <2>3, <2>4 DEF Draft, Goto
<1>3. ASSUME NEW c \in Callers, ReturnPreview(c)
      PROVE  TypeOK' /\ CtlInv'
  BY <1>3 DEF ReturnPreview
<1>4. ASSUME NEW c \in Callers, NEW r \in Requests, CommitLate(c, r)
      PROVE  TypeOK' /\ CtlInv'
  <2>1. row' \in [Requests -> Row]
    <3>1. SetStatus(r, "EXPIRED", FALSE, "none")
      BY <1>4 DEF CommitLate
    <3>2. QED
      BY <3>1, SetStatusType
  <2>2. QED
    BY <1>4, <2>1 DEF CommitLate, Enter
<1>5. ASSUME NEW c \in Callers, ReturnExpired(c)
      PROVE  TypeOK' /\ CtlInv'
  BY <1>5 DEF ReturnExpired, Return
<1>6. ASSUME NEW c \in Callers, NEW r \in Requests, Consume(c, r)
      PROVE  TypeOK' /\ CtlInv'
  <2>1. row' \in [Requests -> Row]
    BY <1>6, ConsumeType DEF Consume
  <2>2. QED
    BY <1>6, <2>1 DEF Consume, Enter
<1>7. ASSUME NEW c \in Callers, CommitUnknownContract(c)
      PROVE  TypeOK' /\ CtlInv'
  BY <1>7 DEF CommitUnknownContract, Return
<1>8. ASSUME NEW c \in Callers, CommitDuplicate(c)
      PROVE  TypeOK' /\ CtlInv'
  BY <1>8 DEF CommitDuplicate, Return
<1>9. ASSUME NEW c \in Callers, Register(c)
      PROVE  TypeOK' /\ CtlInv'
  <2>1. now + Window \in Nat
    OBVIOUS
  <2>2. req[c] \in Requests
    BY <1>9 DEF Register, Goto
  <2>3. idem' \in [Keys -> Entry]
    BY <1>9, <2>1, <2>2 DEF Register
  <2>4. QED
    BY <1>9, <2>2, <2>3 DEF Register, Goto
<1>10. ASSUME NEW c \in Callers, CommitBlocked(c)
      PROVE  TypeOK' /\ CtlInv'
  BY <1>10 DEF CommitBlocked, Goto, Release
<1>11. ASSUME NEW c \in Callers, CommitNoExecutor(c)
      PROVE  TypeOK' /\ CtlInv'
  BY <1>11 DEF CommitNoExecutor, Return
<1>12. ASSUME NEW c \in Callers, Dispatch(c)
      PROVE  TypeOK' /\ CtlInv'
  BY <1>12 DEF Dispatch, Goto
<1>13. ASSUME NEW c \in Callers, ExecutorAnswered(c)
      PROVE  TypeOK' /\ CtlInv'
  BY <1>13 DEF ExecutorAnswered, Goto, Log
<1>14. ASSUME NEW c \in Callers, ExecutorRaised(c)
      PROVE  TypeOK' /\ CtlInv'
  BY <1>14 DEF ExecutorRaised, Goto, Release
<1>15. ASSUME NEW c \in Callers, LogFailure(c)
      PROVE  TypeOK' /\ CtlInv'
  BY <1>15 DEF LogFailure, Goto, Log
<1>16. ASSUME NEW c \in Callers, MarkFailed(c)
      PROVE  TypeOK' /\ CtlInv'
  <2>0. req[c] \in Requests
    BY <1>16 DEF MarkFailed, Return
  <2>1. row' \in [Requests -> Row]
    BY <1>16, <2>0, SetStatusType DEF MarkFailed
  <2>2. QED
    BY <1>16, <2>1 DEF MarkFailed, Return
<1>17. ASSUME NEW c \in Callers, MarkExecuted(c)
      PROVE  TypeOK' /\ CtlInv'
  <2>0. req[c] \in Requests
    BY <1>17 DEF MarkExecuted, Return
  <2>1. row' \in [Requests -> Row]
    BY <1>17, <2>0, SetStatusType DEF MarkExecuted
  <2>2. QED
    BY <1>17, <2>1 DEF MarkExecuted, Return
<1>18. ASSUME NEW c \in Callers, Cancel(c)
      PROVE  TypeOK' /\ CtlInv'
  BY <1>18 DEF Cancel, Awaiting
<1>19. ASSUME NEW r \in Requests, NEW outcome \in {"applied", "refused"}, Platform(r, outcome)
      PROVE  TypeOK' /\ CtlInv'
  BY <1>19 DEF Platform
<1>20. CASE Tick
  BY <1>20 DEF Tick
<1>21. CASE Restart
  BY <1>21 DEF Restart
<1>22. CASE UNCHANGED vars
  BY <1>22 DEF vars
<1>23. ASSUME NEW c \in Callers, Purge(c)
      PROVE  TypeOK' /\ CtlInv'
  <2>1. Purged \in [Keys -> Entry]
    BY DEF Purged
  <2>2. QED
    BY <1>23, <2>1 DEF Purge
<1>24. QED
  BY <1>1, <1>2, <1>3, <1>4, <1>5, <1>6, <1>7, <1>8, <1>9, <1>10, <1>11,
     <1>12, <1>13, <1>14, <1>15, <1>16, <1>17, <1>18, <1>19, <1>20, <1>21, <1>22,
     <1>23 DEF Next, Call, Progress

-----------------------------------------------------------------------------
(* Safety                                                                  *)

\* check_and_register's purge leaves a lease alone until its window has passed.
LEMMA PurgeKeepsLease ==
  ASSUME TypeOK, RowInv, LeaseInv, NEW r \in Requests, Outstanding(r),
         claimedAt[r] + Window > now
  PROVE  /\ row[r].key \in Keys
         /\ Purged[row[r].key] = [owner |-> r, until |-> claimedAt[r] + Window]
<1>1. row[r].key \in Keys
  BY DEF RowInv, Outstanding
<1>2. idem[row[r].key] = [owner |-> r, until |-> claimedAt[r] + Window]
  BY BrokerAssumption DEF TypeOK, LeaseInv, Outstanding, Never
<1>3. ~(idem[row[r].key].until <= now)
  BY <1>2, BrokerAssumption DEF TypeOK, Outstanding, Never
<1>4. QED
  BY <1>1, <1>2, <1>3 DEF Purged

\* The request whose executor call is open, or is about to be made, owns its key.
LEMMA ClaimOwnsKey ==
  ASSUME TypeOK, CtlInv, RowInv, CallInv, LeaseInv,
         NEW c \in Callers, pc[c] \in Claiming
  PROVE  /\ req[c] \in Requests
         /\ row[req[c]].key \in Keys
         /\ idem[row[req[c]].key].owner = req[c]
<1>1. /\ req[c] \in Requests
      /\ claimedAt[req[c]] \in Nat
      /\ Outstanding(req[c])
  BY DEF TypeOK, CtlInv, CallInv, Claiming, Outstanding, Never
<1>2. claimedAt[req[c]] + Window > now
  BY <1>1, BrokerAssumption DEF TypeOK, CallInv
<1>3. /\ row[req[c]].key \in Keys
      /\ idem[row[req[c]].key] = [owner |-> req[c], until |-> claimedAt[req[c]] + Window]
  BY <1>1, <1>2, BrokerAssumption DEF TypeOK, RowInv, LeaseInv, Outstanding
<1>4. QED
  BY <1>1, <1>3

\* Every step keeps what rows, calls and leases say of one another, and keeps
\* the claims of one key a window apart.
LEMMA Preservation ==
  TypeOK /\ CtlInv /\ Safe /\ [Next]_vars => Safe'
<1> SUFFICES ASSUME TypeOK, CtlInv, Safe, [Next]_vars, TypeOK', CtlInv' PROVE Safe'
  BY Typing
<1> USE BrokerAssumption DEF Safe, TypeOK, CtlInv, PCs, Awaiting, Holding, Claiming,
        Committing, Row, Statuses, Events, Entry, NoEntry, Never, Runnable,
        Outstanding, procVars, storeVars, historyVars
<1>1. ASSUME NEW c \in Callers, NEW r \in Requests, Propose(c, r)
      PROVE  Safe'
  BY <1>1 DEF Propose, Enter, RowInv, CallInv, SoleInv, LeaseInv,
         WindowApart
<1>2. ASSUME NEW c \in Callers, NEW k \in Keys, Draft(c, k)
      PROVE  Safe'
  <2>1. RowInv'
    BY <1>2 DEF Draft, Goto, Create, RowInv, CallInv
  <2>2. CallInv'
    BY <1>2 DEF Draft, Goto, Create, RowInv, CallInv, SoleInv
  <2>3. SoleInv'
    BY <1>2 DEF Draft, Goto, Create, RowInv, CallInv, SoleInv
  <2>4. LeaseInv'
    BY <1>2 DEF Draft, Goto, Create, RowInv, CallInv, LeaseInv
  <2>5. WindowApart'
    BY <1>2 DEF Draft, Goto, Create, RowInv, CallInv, LeaseInv, WindowApart
  <2>6. QED
    BY <2>1, <2>2, <2>3, <2>4, <2>5
<1>3. ASSUME NEW c \in Callers, ReturnPreview(c)
      PROVE  Safe'
  <2>1. RowInv'
    BY <1>3 DEF ReturnPreview, Eligible, RowInv, CallInv
  <2>2. CallInv'
    BY <1>3 DEF ReturnPreview, Eligible, RowInv, CallInv, SoleInv
  <2>3. SoleInv'
    BY <1>3 DEF ReturnPreview, Eligible, RowInv, CallInv, SoleInv
  <2>4. LeaseInv'
    BY <1>3 DEF ReturnPreview, Eligible, RowInv, CallInv, LeaseInv
  <2>5. WindowApart'
    BY <1>3 DEF ReturnPreview, Eligible, RowInv, CallInv, LeaseInv, WindowApart
  <2>6. QED
    BY <2>1, <2>2, <2>3, <2>4, <2>5
<1>4. ASSUME NEW c \in Callers, NEW r \in Requests, CommitLate(c, r)
      PROVE  Safe'
  <2>1. RowInv'
    BY <1>4 DEF CommitLate, Enter, SetStatus, Presented, RowInv, CallInv
  <2>2. CallInv'
    BY <1>4 DEF CommitLate, Enter, SetStatus, Presented, RowInv, CallInv,
       SoleInv
  <2>3. SoleInv'
    BY <1>4 DEF CommitLate, Enter, SetStatus, Presented, RowInv, CallInv,
       SoleInv
  <2>4. LeaseInv'
    BY <1>4 DEF CommitLate, Enter, SetStatus, Presented, RowInv, CallInv,
       LeaseInv
  <2>5. WindowApart'
    BY <1>4 DEF CommitLate, Enter, SetStatus, Presented, RowInv, CallInv,
       LeaseInv, WindowApart
  <2>6. QED
    BY <2>1, <2>2, <2>3, <2>4, <2>5
<1>5. ASSUME NEW c \in Callers, ReturnExpired(c)
      PROVE  Safe'
  BY <1>5 DEF ReturnExpired, Return, RowInv, CallInv, SoleInv, LeaseInv,
         WindowApart
<1>6. ASSUME NEW c \in Callers, NEW r \in Requests, Consume(c, r)
      PROVE  Safe'
  <2>1. RowInv'
    BY <1>6 DEF Consume, Enter, Presented, RowInv, CallInv
  <2>2. CallInv'
    BY <1>6 DEF Consume, Enter, Presented, RowInv, CallInv, SoleInv
  <2>3. SoleInv'
    BY <1>6 DEF Consume, Enter, Presented, RowInv, CallInv, SoleInv
  <2>4. LeaseInv'
    BY <1>6 DEF Consume, Enter, Presented, RowInv, CallInv, LeaseInv
  <2>5. WindowApart'
    BY <1>6 DEF Consume, Enter, Presented, RowInv, CallInv, LeaseInv,
       WindowApart
  <2>6. QED
    BY <2>1, <2>2, <2>3, <2>4, <2>5
<1>7. ASSUME NEW c \in Callers, CommitUnknownContract(c)
      PROVE  Safe'
  BY <1>7 DEF CommitUnknownContract, Return, RowInv, CallInv, SoleInv, LeaseInv,
         WindowApart
<1>8. ASSUME NEW c \in Callers, CommitDuplicate(c)
      PROVE  Safe'
  BY <1>8 DEF CommitDuplicate, Return, RowInv, CallInv, SoleInv, LeaseInv,
         WindowApart
<1>9. ASSUME NEW c \in Callers, Register(c)
      PROVE  Safe'
  <2>1. RowInv'
    BY <1>9 DEF Register, Goto, RowInv, CallInv
  <2>2. CallInv'
    BY <1>9 DEF Register, Goto, RowInv, CallInv, SoleInv
  <2>3. SoleInv'
    BY <1>9 DEF Register, Goto, RowInv, CallInv, SoleInv
  <2>4. LeaseInv'
    <3> SUFFICES ASSUME NEW s \in Requests, Outstanding(s)',
                        ~(claimedAt'[s] + Window <= now)
                 PROVE  idem'[row[s].key] = [owner |-> s, until |-> claimedAt'[s] + Window]
      BY <1>9 DEF Register, LeaseInv
    <3>1. /\ req[c] \in Requests /\ row[req[c]].key \in Keys
          /\ claimedAt[req[c]] = Never
      BY <1>9 DEF Register, Goto, RowInv, CallInv
    <3>2. CASE s = req[c]
      <4>1. idem[row[s].key].owner # s
        BY <3>1, <3>2 DEF RowInv
      <4>2. QED
        BY <1>9, <3>1, <3>2, <4>1 DEF Register
    <3>3. CASE s # req[c]
      <4>1. Outstanding(s) /\ ~(claimedAt[s] + Window <= now)
        BY <1>9, <3>3 DEF Register
      <4>2. idem[row[s].key] = [owner |-> s, until |-> claimedAt[s] + Window]
        BY <4>1 DEF LeaseInv, Outstanding
      <4>3. row[s].key # row[req[c]].key
        BY <1>9, <3>1, <3>3, <4>2 DEF Register
      <4>4. QED
        BY <1>9, <3>3, <4>2, <4>3 DEF Register
    <3>4. QED
      BY <3>2, <3>3
  <2>5. WindowApart'
    <3>1. ASSUME NEW s \in Requests, s # req[c], row[s].key = row[req[c]].key,
                 Outstanding(s)
          PROVE  claimedAt[s] + Window <= now
      <4>1. CASE ~(claimedAt[s] + Window <= now)
        <5>1. idem[row[s].key] = [owner |-> s, until |-> claimedAt[s] + Window]
          BY <3>1, <4>1 DEF LeaseInv
        <5>2. QED
          BY <1>9, <3>1, <5>1 DEF Register
      <4>2. QED
        BY <4>1
    <3>2. QED
      BY <1>9, <3>1 DEF Register, Goto, WindowApart
  <2>6. QED
    BY <2>1, <2>2, <2>3, <2>4, <2>5
<1>10. ASSUME NEW c \in Callers, CommitBlocked(c)
      PROVE  Safe'
  <2>1. RowInv'
    BY <1>10 DEF CommitBlocked, Goto, Release, RowInv, CallInv
  <2>2. CallInv'
    BY <1>10 DEF CommitBlocked, Goto, Release, RowInv, CallInv, SoleInv
  <2>3. SoleInv'
    BY <1>10 DEF CommitBlocked, Goto, Release, RowInv, CallInv, SoleInv
  <2>4. LeaseInv'
    <3>1. idem[row[req[c]].key].owner = req[c] /\ req[c] \in Requests
      BY <1>10, ClaimOwnsKey DEF CommitBlocked, Goto
    <3>2. QED
      BY <1>10, <3>1 DEF CommitBlocked, Goto, Release, LeaseInv
  <2>5. WindowApart'
    BY <1>10 DEF CommitBlocked, Goto, Release, RowInv, CallInv, LeaseInv,
       WindowApart
  <2>6. QED
    BY <2>1, <2>2, <2>3, <2>4, <2>5
<1>11. ASSUME NEW c \in Callers, CommitNoExecutor(c)
      PROVE  Safe'
  BY <1>11 DEF CommitNoExecutor, Return, RowInv, CallInv, SoleInv, LeaseInv,
         WindowApart
<1>12. ASSUME NEW c \in Callers, Dispatch(c)
      PROVE  Safe'
  <2>1. RowInv'
    BY <1>12 DEF Dispatch, Goto, RowInv, CallInv
  <2>2. CallInv'
    BY <1>12 DEF Dispatch, Goto, RowInv, CallInv, SoleInv
  <2>3. SoleInv'
    BY <1>12 DEF Dispatch, Goto, RowInv, CallInv, SoleInv
  <2>4. LeaseInv'
    BY <1>12 DEF Dispatch, Goto, RowInv, CallInv, LeaseInv
  <2>5. WindowApart'
    BY <1>12 DEF Dispatch, Goto, RowInv, CallInv, LeaseInv, WindowApart
  <2>6. QED
    BY <2>1, <2>2, <2>3, <2>4, <2>5
<1>13. ASSUME NEW c \in Callers, ExecutorAnswered(c)
      PROVE  Safe'
  BY <1>13 DEF ExecutorAnswered, Goto, Log, RowInv, CallInv, SoleInv, LeaseInv,
         WindowApart
<1>14. ASSUME NEW c \in Callers, ExecutorRaised(c)
      PROVE  Safe'
  <2>1. RowInv'
    BY <1>14 DEF ExecutorRaised, Goto, Release, RowInv, CallInv
  <2>2. CallInv'
    BY <1>14 DEF ExecutorRaised, Goto, Release, RowInv, CallInv, SoleInv
  <2>3. SoleInv'
    BY <1>14 DEF ExecutorRaised, Goto, Release, RowInv, CallInv, SoleInv
  <2>4. LeaseInv'
    <3>1. idem[row[req[c]].key].owner = req[c] /\ req[c] \in Requests
      BY <1>14, ClaimOwnsKey DEF ExecutorRaised, Goto
    <3>2. QED
      BY <1>14, <3>1 DEF ExecutorRaised, Goto, Release, LeaseInv
  <2>5. WindowApart'
    BY <1>14 DEF ExecutorRaised, Goto, Release, RowInv, CallInv, LeaseInv,
       WindowApart
  <2>6. QED
    BY <2>1, <2>2, <2>3, <2>4, <2>5
<1>15. ASSUME NEW c \in Callers, LogFailure(c)
      PROVE  Safe'
  BY <1>15 DEF LogFailure, Goto, Log, RowInv, CallInv, SoleInv, LeaseInv,
         WindowApart
<1>16. ASSUME NEW c \in Callers, MarkFailed(c)
      PROVE  Safe'
  <2>1. RowInv'
    BY <1>16 DEF MarkFailed, Return, SetStatus, RowInv, CallInv
  <2>2. CallInv'
    BY <1>16 DEF MarkFailed, Return, SetStatus, RowInv, CallInv, SoleInv
  <2>3. SoleInv'
    BY <1>16 DEF MarkFailed, Return, SetStatus, RowInv, CallInv, SoleInv
  <2>4. LeaseInv'
    BY <1>16 DEF MarkFailed, Return, SetStatus, RowInv, CallInv, LeaseInv
  <2>5. WindowApart'
    BY <1>16 DEF MarkFailed, Return, SetStatus, RowInv, CallInv, LeaseInv,
       WindowApart
  <2>6. QED
    BY <2>1, <2>2, <2>3, <2>4, <2>5
<1>17. ASSUME NEW c \in Callers, MarkExecuted(c)
      PROVE  Safe'
  <2>1. RowInv'
    BY <1>17 DEF MarkExecuted, Return, SetStatus, RowInv, CallInv
  <2>2. CallInv'
    BY <1>17 DEF MarkExecuted, Return, SetStatus, RowInv, CallInv, SoleInv
  <2>3. SoleInv'
    BY <1>17 DEF MarkExecuted, Return, SetStatus, RowInv, CallInv, SoleInv
  <2>4. LeaseInv'
    BY <1>17 DEF MarkExecuted, Return, SetStatus, RowInv, CallInv, LeaseInv
  <2>5. WindowApart'
    BY <1>17 DEF MarkExecuted, Return, SetStatus, RowInv, CallInv, LeaseInv,
       WindowApart
  <2>6. QED
    BY <2>1, <2>2, <2>3, <2>4, <2>5
<1>18. ASSUME NEW c \in Callers, Cancel(c)
      PROVE  Safe'
  BY <1>18 DEF Cancel, Awaiting, RowInv, CallInv, SoleInv, LeaseInv,
         WindowApart
<1>19. ASSUME NEW r \in Requests, NEW outcome \in {"applied", "refused"}, Platform(r, outcome)
      PROVE  Safe'
  BY <1>19 DEF Platform, RowInv, CallInv, SoleInv, LeaseInv,
         WindowApart
<1>20. CASE Tick
  BY <1>20 DEF Tick, RowInv, CallInv, SoleInv, LeaseInv,
         WindowApart
<1>21. CASE Restart
  BY <1>21 DEF Restart, RowInv, CallInv, SoleInv, LeaseInv,
         WindowApart
<1>22. CASE UNCHANGED vars
  BY <1>22 DEF vars, RowInv, CallInv, SoleInv, LeaseInv, WindowApart
<1>23. ASSUME NEW c \in Callers, Purge(c)
      PROVE  Safe'
  <2>1. RowInv'
    BY <1>23 DEF Purge, Purged, NoEntry, RowInv
  <2>2. CallInv' /\ SoleInv' /\ WindowApart'
    BY <1>23 DEF Purge, CallInv, SoleInv, WindowApart
  <2>3. LeaseInv'
    <3> SUFFICES ASSUME NEW r \in Requests, Outstanding(r), ~(claimedAt[r] + Window <= now)
                 PROVE  idem'[row[r].key] = [owner |-> r, until |-> claimedAt[r] + Window]
      BY <1>23 DEF Purge, LeaseInv
    <3>1. claimedAt[r] + Window > now
      BY DEF Outstanding
    <3>2. QED
      BY <1>23, <3>1, PurgeKeepsLease DEF Purge
  <2>4. QED
    BY <2>1, <2>2, <2>3
<1>24. QED
  BY <1>1, <1>2, <1>3, <1>4, <1>5, <1>6, <1>7, <1>8, <1>9, <1>10, <1>11,
     <1>12, <1>13, <1>14, <1>15, <1>16, <1>17, <1>18, <1>19, <1>20, <1>21, <1>22,
     <1>23 DEF Next, Call, Progress

\* A step that finalises no status, forgets no audit row and undoes nothing on
\* the platform keeps every status backed.
LEMMA AuditFrame ==
  ASSUME AuditBacksStatus,
         audit \subseteq audit',
         \A r \in Requests :
           /\ row'[r].status \in {row[r].status, "PENDING", "EXPIRED"}
           /\ row'[r].auditRef = row[r].auditRef
           /\ remote[r] = "applied" => remote'[r] = "applied"
  PROVE  AuditBacksStatus'
<1>1. ASSUME NEW r \in Requests
      PROVE  /\ row'[r].status = "EXECUTED" => /\ remote'[r] = "applied"
                                              /\ <<"executed", r>> \in audit'
             /\ row'[r].status = "FAILED" =>
                  \E event \in {"failed", "blocked"} : <<event, r>> \in audit'
             /\ row'[r].auditRef # "none" => <<row'[r].auditRef, r>> \in audit'
  <2>1. CASE row'[r].status = row[r].status
    BY <2>1 DEF AuditBacksStatus
  <2>2. CASE row'[r].status \in {"PENDING", "EXPIRED"}
    BY <2>2 DEF AuditBacksStatus
  <2>3. QED
    BY <2>1, <2>2
<1>2. QED
  BY <1>1 DEF AuditBacksStatus

\* set_status writes the status of one request, and its audit row if one is given.
LEMMA Marked ==
  ASSUME row \in [Requests -> Row], NEW r \in Requests, NEW status, NEW response, NEW ref,
         SetStatus(r, status, response, ref)
  PROVE  \A s \in Requests :
           /\ row'[s].status = IF s = r THEN status ELSE row[s].status
           /\ row'[s].auditRef = IF s = r /\ ref # "none" THEN ref ELSE row[s].auditRef
<1> TAKE s \in Requests
<1>1. CASE s # r
  BY <1>1 DEF SetStatus
<1>2. CASE s = r
  <2>1. PICK a \in Row : a = row[r]
    OBVIOUS
  <2>2. row'[r] = [a EXCEPT !.status = status, !.response = response,
                            !.auditRef = IF ref = "none" THEN @ ELSE ref]
    BY <2>1 DEF SetStatus
  <2>3. QED
    BY <1>2, <2>1, <2>2 DEF Row
<1>3. QED
  BY <1>1, <1>2

\* create sets the status, the key and the deadline of one request.
LEMMA Created ==
  ASSUME row \in [Requests -> Row], NEW r \in Requests, NEW k, NEW deadline,
         Create(r, k, deadline)
  PROVE  \A s \in Requests : /\ row'[s].status \in {row[s].status, "PENDING"}
                              /\ row'[s].auditRef = row[s].auditRef
<1> TAKE s \in Requests
<1>1. CASE s # r
  BY <1>1 DEF Create
<1>2. CASE s = r
  <2>1. PICK a \in Row : a = row[r]
    OBVIOUS
  <2>2. row'[r] = [a EXCEPT !.status = "PENDING", !.key = k, !.deadline = deadline]
    BY <2>1 DEF Create
  <2>3. QED
    BY <1>2, <2>1, <2>2 DEF Row
<1>3. QED
  BY <1>1, <1>2

\* Every step keeps the order of the audit row and the status it backs.
LEMMA OutcomePreservation ==
  TypeOK /\ CtlInv /\ Safe /\ OutcomeInv /\ AuditBacksStatus /\ [Next]_vars
    => OutcomeInv' /\ AuditBacksStatus'
<1> SUFFICES ASSUME TypeOK, CtlInv, Safe, OutcomeInv, AuditBacksStatus, [Next]_vars,
                    TypeOK', CtlInv', Safe'
             PROVE  OutcomeInv' /\ AuditBacksStatus'
  BY Typing, Preservation
<1> USE BrokerAssumption DEF Safe, CtlInv, RowInv, CallInv, SoleInv, PCs,
        Awaiting, Holding, Claiming, Committing, Row, Statuses, Events, Entry, Runnable,
        procVars, storeVars, historyVars
<1>1. ASSUME NEW c \in Callers, NEW r \in Requests, Propose(c, r)
      PROVE  OutcomeInv' /\ AuditBacksStatus'
  <2>1. OutcomeInv'
    BY <1>1 DEF TypeOK, Propose, Enter, OutcomeInv, RequestOutcome, CallOutcome
  <2>2. AuditBacksStatus'
    BY <1>1, AuditFrame DEF TypeOK, Propose, Enter
  <2>3. QED
    BY <2>1, <2>2
<1>2. ASSUME NEW c \in Callers, NEW k \in Keys, Draft(c, k)
      PROVE  OutcomeInv' /\ AuditBacksStatus'
  <2> DEFINE q == req[c]
  <2>1. q \in Requests /\ pc' = [pc EXCEPT ![c] = "drafted"] /\ pc[c] = "checking"
    BY <1>2 DEF TypeOK, Draft, Goto
  <2>2. UNCHANGED <<config, audit, req, remote, dispatches, released>>
    BY <1>2 DEF Draft, Goto, Create
  <2>3. \A s \in Requests : /\ row'[s].status \in {row[s].status, "PENDING"}
                               /\ row'[s].auditRef = row[s].auditRef
    <3>1. PICK until : Create(q, k, until)
      BY <1>2 DEF Draft
    <3>2. QED
      BY <2>1, <3>1, Created DEF TypeOK
  <2>4. \A s \in Requests : RequestOutcome(s)'
    BY <2>2, <2>3 DEF OutcomeInv, RequestOutcome
  <2>5. \A d \in Callers : CallOutcome(d)'
    BY <2>1, <2>2 DEF TypeOK, OutcomeInv, CallOutcome
  <2>6. AuditBacksStatus'
    BY <1>2, <2>3, AuditFrame DEF Draft
  <2>7. QED
    BY <2>4, <2>5, <2>6 DEF OutcomeInv
<1>3. ASSUME NEW c \in Callers, ReturnPreview(c)
      PROVE  OutcomeInv' /\ AuditBacksStatus'
  <2>1. OutcomeInv'
    BY <1>3 DEF TypeOK, ReturnPreview, OutcomeInv, RequestOutcome, CallOutcome
  <2>2. AuditBacksStatus'
    BY <1>3, AuditFrame DEF TypeOK, ReturnPreview
  <2>3. QED
    BY <2>1, <2>2
<1>4. ASSUME NEW c \in Callers, NEW r \in Requests, CommitLate(c, r)
      PROVE  OutcomeInv' /\ AuditBacksStatus'
  <2>1. /\ SetStatus(r, "EXPIRED", FALSE, "none") /\ row \in [Requests -> Row]
        /\ UNCHANGED <<config, audit, remote, dispatches, released>>
    BY <1>4 DEF TypeOK, CommitLate
  <2>2. \A s \in Requests : /\ row'[s].status \in {row[s].status, "EXPIRED"}
                               /\ row'[s].auditRef = row[s].auditRef
    <3>1. \A s \in Requests :
            /\ row'[s].status = IF s = r THEN "EXPIRED" ELSE row[s].status
            /\ row'[s].auditRef = IF s = r /\ "none" # "none" THEN "none" ELSE row[s].auditRef
      BY ONLY <2>1, Marked
    <3>2. QED
      BY ONLY <3>1
  <2>2a. \A s \in Requests : RequestOutcome(s)'
    BY <2>1, <2>2 DEF OutcomeInv, RequestOutcome
  <2>2b. ASSUME NEW d \in Callers
         PROVE  CallOutcome(d)'
    <3>1. CASE d = c
      <4>1. pc'[c] = "expiring"
        BY <1>4 DEF TypeOK, CommitLate, Enter
      <4>2. QED
        BY <3>1, <4>1 DEF CallOutcome
    <3>2. CASE d # c
      <4>1. pc'[d] = pc[d] /\ req'[d] = req[d]
        BY <1>4, <3>2 DEF TypeOK, CommitLate, Enter
      <4>2. QED
        BY <2>1, <4>1 DEF OutcomeInv, CallOutcome
    <3>3. QED
      BY <3>1, <3>2
  <2>3. AuditBacksStatus'
    BY <1>4, <2>2, AuditFrame DEF CommitLate
  <2>4. QED
    BY <2>2a, <2>2b, <2>3 DEF OutcomeInv
<1>5. ASSUME NEW c \in Callers, ReturnExpired(c)
      PROVE  OutcomeInv' /\ AuditBacksStatus'
  <2>1. OutcomeInv'
    BY <1>5 DEF TypeOK, ReturnExpired, Return, OutcomeInv, RequestOutcome,
       CallOutcome
  <2>2. AuditBacksStatus'
    BY <1>5, AuditFrame DEF TypeOK, ReturnExpired, Return
  <2>3. QED
    BY <2>1, <2>2
<1>6. ASSUME NEW c \in Callers, NEW r \in Requests, Consume(c, r)
      PROVE  OutcomeInv' /\ AuditBacksStatus'
  <2>1. OutcomeInv'
    BY <1>6 DEF TypeOK, Consume, Enter, Presented, OutcomeInv, RequestOutcome,
       CallOutcome
  <2>2. \A s \in Requests : /\ row'[s].status \in {row[s].status, "PENDING"}
                               /\ row'[s].auditRef = row[s].auditRef
    BY <1>6 DEF TypeOK, Consume
  <2>3. AuditBacksStatus'
    BY <1>6, <2>2, AuditFrame DEF Consume
  <2>4. QED
    BY <2>1, <2>3
<1>7. ASSUME NEW c \in Callers, CommitUnknownContract(c)
      PROVE  OutcomeInv' /\ AuditBacksStatus'
  <2>1. OutcomeInv'
    BY <1>7 DEF TypeOK, CommitUnknownContract, Return, OutcomeInv,
       RequestOutcome, CallOutcome
  <2>2. AuditBacksStatus'
    BY <1>7, AuditFrame DEF TypeOK, CommitUnknownContract, Return
  <2>3. QED
    BY <2>1, <2>2
<1>8. ASSUME NEW c \in Callers, CommitDuplicate(c)
      PROVE  OutcomeInv' /\ AuditBacksStatus'
  <2>1. OutcomeInv'
    BY <1>8 DEF TypeOK, CommitDuplicate, Return, OutcomeInv,
       RequestOutcome, CallOutcome
  <2>2. AuditBacksStatus'
    BY <1>8, AuditFrame DEF TypeOK, CommitDuplicate, Return
  <2>3. QED
    BY <2>1, <2>2
<1>9. ASSUME NEW c \in Callers, Register(c)
      PROVE  OutcomeInv' /\ AuditBacksStatus'
  <2>1. OutcomeInv'
    BY <1>9 DEF TypeOK, Register, Goto, OutcomeInv, RequestOutcome,
       CallOutcome
  <2>2. AuditBacksStatus'
    BY <1>9, AuditFrame DEF TypeOK, Register, Goto
  <2>3. QED
    BY <2>1, <2>2
<1>10. ASSUME NEW c \in Callers, CommitBlocked(c)
      PROVE  OutcomeInv' /\ AuditBacksStatus'
  <2>1. OutcomeInv'
    BY <1>10 DEF TypeOK, CommitBlocked, Goto, Release, OutcomeInv,
       RequestOutcome, CallOutcome
  <2>2. AuditBacksStatus'
    BY <1>10, AuditFrame DEF TypeOK, CommitBlocked, Goto, Release
  <2>3. QED
    BY <2>1, <2>2
<1>11. ASSUME NEW c \in Callers, CommitNoExecutor(c)
      PROVE  OutcomeInv' /\ AuditBacksStatus'
  <2>1. OutcomeInv'
    BY <1>11 DEF TypeOK, CommitNoExecutor, Return, OutcomeInv, RequestOutcome,
       CallOutcome
  <2>2. AuditBacksStatus'
    BY <1>11, AuditFrame DEF TypeOK, CommitNoExecutor, Return
  <2>3. QED
    BY <2>1, <2>2
<1>12. ASSUME NEW c \in Callers, Dispatch(c)
      PROVE  OutcomeInv' /\ AuditBacksStatus'
  <2>1. OutcomeInv'
    BY <1>12 DEF TypeOK, Dispatch, Goto, OutcomeInv, RequestOutcome, CallOutcome
  <2>2. remote[req[c]] = "unsent"
    BY <1>12 DEF TypeOK, Dispatch, Goto, OutcomeInv, RequestOutcome, CallOutcome
  <2>3. AuditBacksStatus'
    BY <1>12, <2>2, AuditFrame DEF TypeOK, Dispatch
  <2>4. QED
    BY <2>1, <2>3
<1>13. ASSUME NEW c \in Callers, ExecutorAnswered(c)
      PROVE  OutcomeInv' /\ AuditBacksStatus'
  <2>1. OutcomeInv'
    BY <1>13 DEF TypeOK, ExecutorAnswered, Goto, Log, OutcomeInv,
       RequestOutcome, CallOutcome
  <2>2. AuditBacksStatus'
    BY <1>13, AuditFrame DEF ExecutorAnswered, Goto, Log
  <2>3. QED
    BY <2>1, <2>2
<1>14. ASSUME NEW c \in Callers, ExecutorRaised(c)
      PROVE  OutcomeInv' /\ AuditBacksStatus'
  <2>1. OutcomeInv'
    BY <1>14 DEF TypeOK, ExecutorRaised, Goto, Release, OutcomeInv,
       RequestOutcome, CallOutcome
  <2>2. AuditBacksStatus'
    BY <1>14, AuditFrame DEF TypeOK, ExecutorRaised, Goto, Release
  <2>3. QED
    BY <2>1, <2>2
<1>15. ASSUME NEW c \in Callers, LogFailure(c)
      PROVE  OutcomeInv' /\ AuditBacksStatus'
  <2>1. OutcomeInv'
    BY <1>15 DEF TypeOK, LogFailure, Goto, Log, OutcomeInv, RequestOutcome,
       CallOutcome
  <2>2. AuditBacksStatus'
    BY <1>15, AuditFrame DEF LogFailure, Goto, Log
  <2>3. QED
    BY <2>1, <2>2
<1>16. ASSUME NEW c \in Callers, MarkFailed(c)
      PROVE  OutcomeInv' /\ AuditBacksStatus'
  <2>1. req[c] \in Requests
    BY <1>16 DEF TypeOK, MarkFailed, Return
  <2>2. \A s \in Requests :
          /\ row'[s].status = IF s = req[c] THEN "FAILED" ELSE row[s].status
          /\ row'[s].auditRef = IF s = req[c]
                                 THEN IF config.write THEN "failed" ELSE "blocked" ELSE row[s].auditRef
    <3>1. PICK response, ref : SetStatus(req[c], "FAILED", response, ref)
                               /\ ref = IF config.write THEN "failed" ELSE "blocked"
      BY <1>16 DEF MarkFailed
    <3>2. ref # "none" /\ row \in [Requests -> Row]
      BY <3>1 DEF TypeOK
    <3>3. QED
      BY <2>1, <3>1, <3>2, Marked
  <2>3. OutcomeInv'
    <3>1. \A s \in Requests : RequestOutcome(s)'
      <4>1. req[c] \in released
        BY <1>16 DEF MarkFailed, Return, OutcomeInv, RequestOutcome, CallOutcome
      <4>2. QED
        BY <1>16, <2>2, <4>1 DEF MarkFailed, OutcomeInv, RequestOutcome,
           CallOutcome
    <3>2. \A d \in Callers : pc'[d] = "idle" \/ (pc'[d] = pc[d] /\ req'[d] = req[d])
      BY <1>16 DEF TypeOK, MarkFailed, Return
    <3>3. UNCHANGED <<config, audit, remote, dispatches, released>>
      BY <1>16 DEF MarkFailed
    <3>4. \A d \in Callers : pc'[d] # "idle" => pc'[d] = pc[d] /\ req'[d] = req[d]
      BY <3>2
    <3>5. ASSUME NEW d \in Callers
          PROVE  CallOutcome(d)'
      <4>1. CASE pc'[d] = "idle"
        BY <4>1 DEF CallOutcome
      <4>2. CASE pc'[d] # "idle"
        BY <3>3, <3>4, <4>2 DEF OutcomeInv, CallOutcome
      <4>3. QED
        BY <4>1, <4>2
    <3>6. QED
      BY <3>1, <3>5 DEF OutcomeInv
  <2>4. ASSUME NEW s \in Requests, s # req[c]
        PROVE  /\ row'[s].status = "EXECUTED" => /\ remote'[s] = "applied"
                                                /\ <<"executed", s>> \in audit'
               /\ row'[s].status = "FAILED" =>
                    \E event \in {"failed", "blocked"} : <<event, s>> \in audit'
               /\ row'[s].auditRef # "none" => <<row'[s].auditRef, s>> \in audit'
    BY <1>16, <2>2, <2>4 DEF MarkFailed, AuditBacksStatus
  <2>5. /\ row'[req[c]].status = "FAILED"
        /\ row'[req[c]].auditRef = IF config.write THEN "failed" ELSE "blocked"
    BY <2>1, <2>2
  <2>6. <<IF config.write THEN "failed" ELSE "blocked", req[c]>> \in audit'
    BY <1>16 DEF MarkFailed, Return, OutcomeInv, RequestOutcome, CallOutcome
  <2>7. AuditBacksStatus'
    <3>1. ASSUME NEW s \in Requests, s = req[c]
          PROVE  /\ row'[s].status = "EXECUTED" => /\ remote'[s] = "applied"
                                                  /\ <<"executed", s>> \in audit'
                 /\ row'[s].status = "FAILED" =>
                      \E event \in {"failed", "blocked"} : <<event, s>> \in audit'
                 /\ row'[s].auditRef # "none" => <<row'[s].auditRef, s>> \in audit'
      BY <2>5, <2>6, <3>1
    <3>2. QED
      BY <2>4, <3>1 DEF AuditBacksStatus
  <2>8. QED
    BY <2>3, <2>7
<1>17. ASSUME NEW c \in Callers, MarkExecuted(c)
      PROVE  OutcomeInv' /\ AuditBacksStatus'
  <2>1. req[c] \in Requests
    BY <1>17 DEF TypeOK, MarkExecuted, Return
  <2>2. \A s \in Requests :
          /\ row'[s].status = IF s = req[c] THEN "EXECUTED" ELSE row[s].status
          /\ row'[s].auditRef = IF s = req[c]
                                 THEN "executed" ELSE row[s].auditRef
    <3>1. PICK response, ref : SetStatus(req[c], "EXECUTED", response, ref)
                               /\ ref = "executed"
      BY <1>17 DEF MarkExecuted
    <3>2. ref # "none" /\ row \in [Requests -> Row]
      BY <3>1 DEF TypeOK
    <3>3. QED
      BY <2>1, <3>1, <3>2, Marked
  <2>3. OutcomeInv'
    <3>1. \A s \in Requests : RequestOutcome(s)'
      <4>1. TRUE
        BY <1>17 DEF MarkExecuted, Return, OutcomeInv, RequestOutcome,
           CallOutcome
      <4>2. QED
        BY <1>17, <2>2, <4>1 DEF MarkExecuted, OutcomeInv, RequestOutcome,
           CallOutcome
    <3>2. \A d \in Callers : pc'[d] = "idle" \/ (pc'[d] = pc[d] /\ req'[d] = req[d])
      BY <1>17 DEF TypeOK, MarkExecuted, Return
    <3>3. UNCHANGED <<config, audit, remote, dispatches, released>>
      BY <1>17 DEF MarkExecuted
    <3>4. \A d \in Callers : pc'[d] # "idle" => pc'[d] = pc[d] /\ req'[d] = req[d]
      BY <3>2
    <3>5. ASSUME NEW d \in Callers
          PROVE  CallOutcome(d)'
      <4>1. CASE pc'[d] = "idle"
        BY <4>1 DEF CallOutcome
      <4>2. CASE pc'[d] # "idle"
        BY <3>3, <3>4, <4>2 DEF OutcomeInv, CallOutcome
      <4>3. QED
        BY <4>1, <4>2
    <3>6. QED
      BY <3>1, <3>5 DEF OutcomeInv
  <2>4. ASSUME NEW s \in Requests, s # req[c]
        PROVE  /\ row'[s].status = "EXECUTED" => /\ remote'[s] = "applied"
                                                /\ <<"executed", s>> \in audit'
               /\ row'[s].status = "FAILED" =>
                    \E event \in {"failed", "blocked"} : <<event, s>> \in audit'
               /\ row'[s].auditRef # "none" => <<row'[s].auditRef, s>> \in audit'
    BY <1>17, <2>2, <2>4 DEF MarkExecuted, AuditBacksStatus
  <2>5. /\ row'[req[c]].status = "EXECUTED"
        /\ row'[req[c]].auditRef = "executed"
    BY <2>1, <2>2
  <2>6. remote'[req[c]] = "applied" /\ <<"executed", req[c]>> \in audit'
    BY <1>17 DEF MarkExecuted, Return, OutcomeInv, RequestOutcome, CallOutcome
  <2>7. AuditBacksStatus'
    <3>1. ASSUME NEW s \in Requests, s = req[c]
          PROVE  /\ row'[s].status = "EXECUTED" => /\ remote'[s] = "applied"
                                                  /\ <<"executed", s>> \in audit'
                 /\ row'[s].status = "FAILED" =>
                      \E event \in {"failed", "blocked"} : <<event, s>> \in audit'
                 /\ row'[s].auditRef # "none" => <<row'[s].auditRef, s>> \in audit'
      BY <2>5, <2>6, <3>1
    <3>2. QED
      BY <2>4, <3>1 DEF AuditBacksStatus
  <2>8. QED
    BY <2>3, <2>7
<1>18. ASSUME NEW c \in Callers, Cancel(c)
      PROVE  OutcomeInv' /\ AuditBacksStatus'
  <2>1. OutcomeInv'
    BY <1>18 DEF TypeOK, Cancel, Awaiting, OutcomeInv, RequestOutcome,
       CallOutcome
  <2>2. AuditBacksStatus'
    BY <1>18, AuditFrame DEF TypeOK, Cancel, Awaiting
  <2>3. QED
    BY <2>1, <2>2
<1>19. ASSUME NEW r \in Requests, NEW outcome \in {"applied", "refused"}, Platform(r, outcome)
      PROVE  OutcomeInv' /\ AuditBacksStatus'
  <2>1. OutcomeInv'
    BY <1>19 DEF TypeOK, Platform, OutcomeInv, RequestOutcome, CallOutcome
  <2>2. AuditBacksStatus'
    BY <1>19, AuditFrame DEF TypeOK, Platform
  <2>3. QED
    BY <2>1, <2>2
<1>20. CASE Tick
  <2>1. OutcomeInv'
    BY <1>20 DEF TypeOK, Tick, OutcomeInv, RequestOutcome, CallOutcome
  <2>2. AuditBacksStatus'
    BY <1>20, AuditFrame DEF TypeOK, Tick
  <2>3. QED
    BY <2>1, <2>2
<1>21. CASE Restart
  <2>1. OutcomeInv'
    BY <1>21 DEF TypeOK, Restart, OutcomeInv, RequestOutcome, CallOutcome
  <2>2. AuditBacksStatus'
    BY <1>21, AuditFrame DEF TypeOK, Restart
  <2>3. QED
    BY <2>1, <2>2
<1>22. CASE UNCHANGED vars
  BY <1>22, AuditFrame DEF vars, OutcomeInv, RequestOutcome, CallOutcome
<1>23. ASSUME NEW c \in Callers, Purge(c)
      PROVE  OutcomeInv' /\ AuditBacksStatus'
  <2>1. OutcomeInv'
    BY <1>23 DEF TypeOK, Purge, OutcomeInv, RequestOutcome, CallOutcome
  <2>2. AuditBacksStatus'
    BY <1>23, AuditFrame DEF TypeOK, Purge
  <2>3. QED
    BY <2>1, <2>2
<1>24. QED
  BY <1>1, <1>2, <1>3, <1>4, <1>5, <1>6, <1>7, <1>8, <1>9, <1>10, <1>11,
     <1>12, <1>13, <1>14, <1>15, <1>16, <1>17, <1>18, <1>19, <1>20, <1>21, <1>22,
     <1>23 DEF Next, Call, Progress

-----------------------------------------------------------------------------
(* The theorems                                                            *)

\* A fresh database, and a process with no call in it, satisfy the invariant.
LEMMA InitInv == Init => IInv
<1> SUFFICES ASSUME Init PROVE IInv
  OBVIOUS
<1>1. TypeOK
  BY BrokerAssumption DEF Init, TypeOK, PCs, Row, EmptyRow, Statuses, Entry,
     NoEntry, Never
<1>2. CtlInv
  BY BrokerAssumption DEF Init, CtlInv, Holding
<1>3. RowInv /\ LeaseInv /\ WindowApart
  BY BrokerAssumption DEF Init, RowInv, LeaseInv, WindowApart, EmptyRow, NoEntry,
     Outstanding
<1>4. CallInv /\ SoleInv
  BY DEF Init, CallInv, SoleInv, Committing, Claiming
<1>5. OutcomeInv /\ AuditBacksStatus
  BY DEF Init, OutcomeInv, RequestOutcome, CallOutcome, AuditBacksStatus, EmptyRow
<1>6. QED
  BY <1>1, <1>2, <1>3, <1>4, <1>5 DEF IInv, Safe

\* The inductive invariant holds throughout.
THEOREM Inductive == Spec => []IInv
<1>1. IInv /\ [Next]_vars => IInv'
  BY Typing, Preservation, OutcomePreservation DEF IInv
<1>2. QED
  BY InitInv, <1>1, PTL DEF Spec

\* Every variable of the broker has its type in every reachable state.
THEOREM TypeCorrect == Spec => []TypeOK
<1>1. IInv => TypeOK
  BY DEF IInv
<1>2. QED
  BY <1>1, Inductive, PTL

\* Single use: however commits are replayed, interleaved, cancelled or cut off
\* by a restart, a request is dispatched at most once.
THEOREM AtMostOneDispatch == Spec => []SingleDispatch
<1>1. IInv => SingleDispatch
  BY DEF IInv, Safe, RowInv, SingleDispatch
<1>2. QED
  BY <1>1, Inductive, PTL

\* No request is dispatched that failed a blocking rule, was not handed to the
\* client, or still has its token.
THEOREM DispatchVetted == Spec => []OnlyVettedDispatch
<1>1. IInv => OnlyVettedDispatch
  BY DEF IInv, Safe, RowInv, OnlyVettedDispatch
<1>2. QED
  BY <1>1, Inductive, PTL

\* Two claims of one payload that stand are a whole idempotency window apart.
THEOREM WindowKept == Spec => []WindowApart
<1>1. IInv => WindowApart
  BY DEF IInv, Safe
<1>2. QED
  BY <1>1, Inductive, PTL

\* A final status always has its audit row, and EXECUTED its effect.
THEOREM AuditBacked == Spec => []AuditBacksStatus
<1>1. IInv => AuditBacksStatus
  BY DEF IInv
<1>2. QED
  BY <1>1, Inductive, PTL

\* A FAILED request has given its key back, whatever raced with it.
THEOREM RetryFree == Spec => []RetryNotBlocked
<1>1. IInv => RetryNotBlocked
  BY DEF IInv, Safe, RowInv, OutcomeInv, RequestOutcome, RetryNotBlocked
<1>2. QED
  BY <1>1, Inductive, PTL

\* A request is dispatched at most once, and only an eligible, confirmed one.
THEOREM DispatchKept == Spec => []DispatchSafe
<1>1. TypeOK /\ SingleDispatch /\ OnlyVettedDispatch => DispatchSafe
  BY DEF DispatchSafe
<1>2. QED
  BY <1>1, TypeCorrect, AtMostOneDispatch, DispatchVetted, PTL

\* A final status has its audit row, and a failed request no key.
THEOREM OutcomeKept == Spec => []OutcomeRecorded
<1>1. AuditBacksStatus /\ RetryNotBlocked => OutcomeRecorded
  BY DEF OutcomeRecorded
<1>2. QED
  BY <1>1, AuditBacked, RetryFree, PTL

-----------------------------------------------------------------------------
(* The broker implements the lease of ActionLease                          *)

\* What the lease's variables stand for (the substitution of Lease).
KeyOf == [r \in Requests |-> IF r \in held THEN row[r].key ELSE NoKey]
Claimed == {r \in Requests : claimedAt[r] # Never}
Open == {req[c] : c \in {d \in Callers : pc[d] \in Claiming}}
Holder == [k \in Keys |-> idem[k].owner]

\* The keys whose entries a registration purges.
Stale == {k \in Keys : idem[k].until <= now}

\* A call that has registered and still runs holds the lease on its key, and
\* for longer than it may run.
LEMMA OpenHolds ==
  ASSUME IInv, NEW c \in Callers, pc[c] \in Claiming
  PROVE  /\ req[c] \in Requests /\ req[c] \in held /\ row[req[c]].key \in Keys
         /\ idem[row[req[c]].key].owner = req[c]
         /\ idem[row[req[c]].key].until > now
<1>1. req[c] \in Requests
  BY DEF IInv, TypeOK, CtlInv, Claiming, PCs
<1>2. Outstanding(req[c]) /\ now <= claimedAt[req[c]] + MaxHold /\ row[req[c]].consumed
  BY DEF IInv, Safe, CallInv, Outstanding, Committing, Claiming
<1>3. claimedAt[req[c]] \in Nat /\ now \in Nat
  BY <1>1, <1>2 DEF IInv, TypeOK, Outstanding
<1>4. req[c] \in held /\ row[req[c]].key \in Keys
  BY <1>1, <1>2 DEF IInv, Safe, RowInv
<1>5. idem[row[req[c]].key] = [owner |-> req[c], until |-> claimedAt[req[c]] + Window]
  BY <1>1, <1>2, <1>3, BrokerAssumption DEF IInv, Safe, LeaseInv
<1>6. QED
  BY <1>1, <1>2, <1>3, <1>4, <1>5, BrokerAssumption

\* No purge takes the lease of an open run.
LEMMA StaleNotOpen ==
  ASSUME IInv, NEW k \in Stale
  PROVE  Holder[k] \notin Open
<1> SUFFICES ASSUME NEW c \in Callers, pc[c] \in Claiming, idem[k].owner = req[c] PROVE FALSE
  BY DEF Holder, Open, Stale
<1>1. k = row[req[c]].key
  BY OpenHolds DEF IInv, Safe, RowInv, Stale
<1>2. now \in Nat /\ idem[k].until \in Nat
  BY DEF IInv, TypeOK, Stale, Entry
<1>3. QED
  BY <1>1, <1>2, OpenHolds DEF Stale

\* What a purge leaves of the leases.
LEMMA PurgedOwner ==
  ASSUME TypeOK, NEW k \in Keys
  PROVE  Purged[k].owner = IF k \in Stale THEN NoRequest ELSE Holder[k]
BY DEF Purged, Stale, NoEntry, Holder

\* Ending the claim of one call takes its request, and no other, out of Open.
LEMMA ClaimEnds ==
  ASSUME IInv, NEW c \in Callers, pc[c] \in Claiming, NEW to \in PCs \ Claiming,
         pc' = [pc EXCEPT ![c] = to], req' = req \/ req' = [req EXCEPT ![c] = NoRequest]
  PROVE  Open' = Open \ {req[c]}
<1>1. \A d \in Callers : d # c => pc'[d] = pc[d] /\ req'[d] = req[d]
  BY DEF IInv, TypeOK
<1>2. pc'[c] \notin Claiming
  BY DEF IInv, TypeOK
<1>3. \A d \in Callers : d # c /\ pc[d] \in Claiming => req[d] # req[c]
  BY DEF IInv, Safe, SoleInv, Claiming, Committing
<1>4. QED
  BY <1>1, <1>2, <1>3 DEF Open

\* A call that moves between other points leaves Open as it is.
LEMMA OpenKept ==
  ASSUME IInv, NEW c \in Callers, pc[c] \notin Claiming, NEW to \in PCs \ Claiming, NEW r,
         pc' = [pc EXCEPT ![c] = to], req' = req \/ req' = [req EXCEPT ![c] = r]
  PROVE  Open' = Open
<1>1. \A d \in Callers : d # c => pc'[d] = pc[d] /\ req'[d] = req[d]
  BY DEF IInv, TypeOK
<1>2. pc'[c] \notin Claiming
  BY DEF IInv, TypeOK
<1>3. QED
  BY <1>1, <1>2 DEF Open

\* A status that is written, and a token that is spent, leave the keys alone.
LEMMA KeysKept ==
  ASSUME IInv, held' = held,
         NEW r \in Requests,
         \/ row' = row
         \/ row' = [row EXCEPT ![r].consumed = TRUE]
         \/ \E status \in Statuses, response \in BOOLEAN, ref \in {"none"} \cup Events :
              SetStatus(r, status, response, ref)
  PROVE  KeyOf' = KeyOf
<1>0. row \in [Requests -> Row]
  BY DEF IInv, TypeOK
<1>1. \A s \in Requests : row'[s].key = row[s].key
  <2>1. CASE row' = row
    BY <2>1
  <2>2. CASE row' = [row EXCEPT ![r].consumed = TRUE]
    BY <1>0, <2>2 DEF Row
  <2>3. ASSUME NEW status \in Statuses, NEW response \in BOOLEAN, NEW ref \in {"none"} \cup Events,
               SetStatus(r, status, response, ref)
        PROVE  \A s \in Requests : row'[s].key = row[s].key
    <3>1. row' = [row EXCEPT ![r] = [row[r] EXCEPT !.status = status, !.response = response,
                                         !.auditRef = IF ref = "none" THEN @ ELSE ref]]
      BY <1>0, <2>3 DEF SetStatus
    <3>2. row[r] \in Row
      BY <1>0
    <3>3. row'[r].key = row[r].key
      BY <1>0, <3>1, <3>2 DEF Row
    <3>4. QED
      BY <1>0, <3>1, <3>3
  <2>4. QED
    BY <2>1, <2>2, <2>3
<1>2. QED
  BY <1>1 DEF KeyOf

\* What each promise of the lease says of the broker's variables.
LEMMA Unfold ==
  /\ Lease!leaseVars = <<KeyOf, Claimed, dispatches, Open, Holder>>
  /\ UNCHANGED Lease!leaseVars <=> UNCHANGED <<KeyOf, Claimed, dispatches, Open, Holder>>
  /\ \A r \in Requests, k \in Keys :
       Lease!Offer(r, k) <=>
         /\ KeyOf[r] = NoKey /\ KeyOf' = [KeyOf EXCEPT ![r] = k]
         /\ UNCHANGED <<Claimed, dispatches, Open, Holder>>
  /\ \A stale \in SUBSET Keys :
       Lease!Lapse(stale) <=>
         /\ \A k \in stale : Holder[k] \notin Open
         /\ Holder' = [k \in Keys |-> IF k \in stale THEN NoRequest ELSE Holder[k]]
         /\ UNCHANGED <<KeyOf, Claimed, dispatches, Open>>
  /\ \A r \in Requests :
       Lease!Claim(r) <=>
         /\ KeyOf[r] # NoKey /\ r \notin Claimed /\ Holder[KeyOf[r]] = NoRequest
         /\ Holder' = [Holder EXCEPT ![KeyOf[r]] = r]
         /\ Claimed' = Claimed \cup {r} /\ Open' = Open \cup {r}
         /\ UNCHANGED <<KeyOf, dispatches>>
  /\ \A r \in Requests :
       Lease!Run(r) <=>
         /\ r \in Open /\ dispatches[r] = 0 /\ Holder[KeyOf[r]] = r
         /\ dispatches' = [dispatches EXCEPT ![r] = 1]
         /\ UNCHANGED <<KeyOf, Claimed, Open, Holder>>
  /\ \A rs \in SUBSET Requests :
       Lease!Close(rs) <=> Open' = Open \ rs /\ UNCHANGED <<KeyOf, Claimed, dispatches, Holder>>
  /\ \A r \in Requests :
       Lease!Fail(r) <=>
         /\ r \in Open /\ Holder[KeyOf[r]] = r
         /\ Holder' = [Holder EXCEPT ![KeyOf[r]] = NoRequest] /\ Open' = Open \ {r}
         /\ UNCHANGED <<KeyOf, Claimed, dispatches>>
<1> USE DEF KeyOf, Claimed, Open, Holder
<1>1. /\ Lease!leaseVars = <<KeyOf, Claimed, dispatches, Open, Holder>>
      /\ UNCHANGED Lease!leaseVars <=> UNCHANGED <<KeyOf, Claimed, dispatches, Open, Holder>>
  BY DEF Lease!leaseVars
<1>2. ASSUME NEW r \in Requests, NEW k \in Keys
      PROVE  Lease!Offer(r, k) <=>
               /\ KeyOf[r] = NoKey /\ KeyOf' = [KeyOf EXCEPT ![r] = k]
               /\ UNCHANGED <<Claimed, dispatches, Open, Holder>>
  BY DEF Lease!Offer
<1>3. ASSUME NEW stale \in SUBSET Keys
      PROVE  Lease!Lapse(stale) <=>
               /\ \A k \in stale : Holder[k] \notin Open
               /\ Holder' = [k \in Keys |-> IF k \in stale THEN NoRequest ELSE Holder[k]]
               /\ UNCHANGED <<KeyOf, Claimed, dispatches, Open>>
  BY DEF Lease!Lapse
<1>4. ASSUME NEW r \in Requests
      PROVE  Lease!Claim(r) <=>
               /\ KeyOf[r] # NoKey /\ r \notin Claimed /\ Holder[KeyOf[r]] = NoRequest
               /\ Holder' = [Holder EXCEPT ![KeyOf[r]] = r]
               /\ Claimed' = Claimed \cup {r} /\ Open' = Open \cup {r}
               /\ UNCHANGED <<KeyOf, dispatches>>
  BY DEF Lease!Claim
<1>5. ASSUME NEW r \in Requests
      PROVE  /\ Lease!Run(r) <=>
                  /\ r \in Open /\ dispatches[r] = 0 /\ Holder[KeyOf[r]] = r
                  /\ dispatches' = [dispatches EXCEPT ![r] = 1]
                  /\ UNCHANGED <<KeyOf, Claimed, Open, Holder>>
             /\ Lease!Fail(r) <=>
                  /\ r \in Open /\ Holder[KeyOf[r]] = r
                  /\ Holder' = [Holder EXCEPT ![KeyOf[r]] = NoRequest] /\ Open' = Open \ {r}
                  /\ UNCHANGED <<KeyOf, Claimed, dispatches>>
  BY DEF Lease!Run, Lease!Fail
<1>6. ASSUME NEW rs \in SUBSET Requests
      PROVE  Lease!Close(rs) <=> Open' = Open \ rs /\ UNCHANGED <<KeyOf, Claimed, dispatches, Holder>>
  BY DEF Lease!Close
<1> HIDE DEF KeyOf, Claimed, Open, Holder
<1>7. QED
  BY <1>1, <1>2, <1>3, <1>4, <1>5, <1>6

\* Registering a key is claiming its lease.
LEMMA RegisterClaims ==
  ASSUME IInv, NEW c \in Callers, Register(c)
  PROVE  Lease!LeaseNext
<1> DEFINE k == row[req[c]].key
<1>0. PICK r \in Requests : r = req[c]
  BY DEF IInv, TypeOK, CtlInv, Register, Goto
<1>1. pc[c] = "consumed" /\ row[r].consumed /\ claimedAt[r] = Never
  BY <1>0 DEF IInv, TypeOK, CtlInv, Safe, CallInv, Register, Goto, Committing
<1>2. r \in held /\ k \in Keys
  BY <1>0, <1>1 DEF IInv, Safe, RowInv
<1>3. KeyOf[r] = k /\ KeyOf[r] # NoKey /\ r \notin Claimed
  BY <1>0, <1>1, <1>2, BrokerAssumption DEF KeyOf, Claimed
<1>4. idem[k].owner # r
  BY <1>0, <1>1, <1>2 DEF IInv, Safe, RowInv
<1>5. idem[k].owner = NoRequest
  BY <1>0, <1>4 DEF Register
<1>6. idem' = [idem EXCEPT ![k] = [owner |-> r, until |-> now + Window]]
  BY <1>0, <1>5, BrokerAssumption DEF Register
<1>7. Holder[KeyOf[r]] = NoRequest /\ Holder' = [Holder EXCEPT ![KeyOf[r]] = r]
  BY <1>2, <1>3, <1>5, <1>6 DEF Holder, IInv, TypeOK
<1>8. claimedAt' = [claimedAt EXCEPT ![r] = now] /\ now # Never
  BY <1>0 DEF Register, IInv, TypeOK, Never
<1>9. Claimed' = Claimed \cup {r}
  BY <1>0, <1>1, <1>8 DEF Claimed, IInv, TypeOK
<1>10. Open' = Open \cup {r}
  BY <1>0, <1>1 DEF Register, Goto, IInv, TypeOK, Open, Claiming
<1>11. KeyOf' = KeyOf /\ dispatches' = dispatches
  BY DEF Register, KeyOf
<1>12. Lease!Claim(r)
  BY <1>3, <1>7, <1>9, <1>10, <1>11, Unfold
<1>13. QED
  BY <1>12 DEF Lease!LeaseNext

\* The purge of check_and_register lets the expired leases lapse.
LEMMA PurgeLapses ==
  ASSUME IInv, NEW c \in Callers, Purge(c)
  PROVE  Lease!LeaseNext
<1>0. PICK stale \in SUBSET Keys : stale = Stale
  BY DEF Stale
<1>1. Open' = Open /\ KeyOf' = KeyOf /\ Claimed' = Claimed /\ dispatches' = dispatches
  BY DEF Purge, Open, KeyOf, Claimed, procVars, historyVars
<1>2. Holder' = [k \in Keys |-> IF k \in Stale THEN NoRequest ELSE Holder[k]]
  BY PurgedOwner DEF Purge, Holder, IInv
<1>3. Stale \in SUBSET Keys /\ \A k \in Stale : Holder[k] \notin Open
  BY StaleNotOpen DEF Stale
<1>4. Lease!Lapse(stale)
  BY <1>0, <1>1, <1>2, <1>3, Unfold
<1>5. QED
  BY <1>4 DEF Lease!LeaseNext

\* A failed or a blocked commit gives back its own lease.
LEMMA ReleaseFails ==
  ASSUME IInv, NEW c \in Callers, pc[c] \in Claiming, NEW to \in PCs \ Claiming, Goto(c, pc[c], to),
         Release(row[req[c]].key), UNCHANGED <<row, held, claimedAt, dispatches>>
  PROVE  Lease!LeaseNext
<1>0. PICK r \in Requests : r = req[c]
  BY OpenHolds
<1>1. /\ req[c] \in Requests /\ req[c] \in Open /\ KeyOf[req[c]] = row[req[c]].key
      /\ row[req[c]].key \in Keys /\ Holder[row[req[c]].key] = req[c]
  BY OpenHolds DEF Open, KeyOf, Holder
<1>2. Holder' = [Holder EXCEPT ![KeyOf[req[c]]] = NoRequest]
  BY <1>1 DEF Release, NoEntry, Holder, IInv, TypeOK
<1>3. Open' = Open \ {req[c]}
  BY ClaimEnds DEF Goto
<1>4. KeyOf' = KeyOf /\ Claimed' = Claimed /\ dispatches' = dispatches
  BY DEF KeyOf, Claimed
<1>5. Lease!Fail(r)
  BY <1>0, <1>1, <1>2, <1>3, <1>4, Unfold
<1>6. QED
  BY <1>5 DEF Lease!LeaseNext

\* A claim that ends without giving its key back is closed.
LEMMA EndCloses ==
  ASSUME IInv, NEW c \in Callers, pc[c] \in Claiming, NEW to \in PCs \ Claiming,
         pc' = [pc EXCEPT ![c] = to], req' = req \/ req' = [req EXCEPT ![c] = NoRequest],
         UNCHANGED <<row, idem, held, claimedAt, dispatches>>
  PROVE  Lease!LeaseNext
<1>0. PICK rs \in SUBSET Requests : rs = {req[c]}
  BY OpenHolds
<1>1. Open' = Open \ {req[c]}
  BY ClaimEnds
<1>2. UNCHANGED <<KeyOf, Claimed, dispatches, Holder>>
  BY DEF KeyOf, Claimed, Holder
<1>3. Lease!Close(rs)
  BY <1>0, <1>1, <1>2, Unfold
<1>4. QED
  BY <1>3 DEF Lease!LeaseNext

\* Handing the token out is offering the request for its key; a preview that
\* is not eligible offers nothing.
LEMMA PreviewOffers ==
  ASSUME IInv, NEW c \in Callers, ReturnPreview(c)
  PROVE  Lease!LeaseNext \/ UNCHANGED Lease!leaseVars
<1>1. pc[c] = "drafted" /\ req[c] \in Requests /\ row[req[c]].key \in Keys
  BY DEF ReturnPreview, IInv, TypeOK, CtlInv, Safe, CallInv, RowInv
<1>0. PICK r \in Requests, k \in Keys : r = req[c] /\ k = row[req[c]].key
  BY <1>1
<1>2. Open' = Open
  BY <1>1, OpenKept DEF ReturnPreview, Claiming, PCs
<1>3. UNCHANGED <<Claimed, dispatches, Holder>>
  BY DEF ReturnPreview, Claimed, Holder, storeVars, historyVars
<1>4. CASE req[c] \in held \/ ~Eligible(failing[req[c]])
  <2>1. KeyOf' = KeyOf
    BY <1>4 DEF ReturnPreview, KeyOf, storeVars
  <2>2. QED
    BY <1>2, <1>3, <2>1, Unfold
<1>5. CASE req[c] \notin held /\ Eligible(failing[req[c]])
  <2>1. KeyOf[r] = NoKey /\ KeyOf' = [KeyOf EXCEPT ![r] = k]
    BY <1>0, <1>5 DEF ReturnPreview, KeyOf, storeVars
  <2>2. Lease!Offer(r, k)
    BY <1>2, <1>3, <2>1, Unfold
  <2>3. QED
    BY <2>2 DEF Lease!LeaseNext
<1>6. QED
  BY <1>4, <1>5

\* The dispatch is the one run of the claimed request.
LEMMA DispatchRuns ==
  ASSUME IInv, NEW c \in Callers, Dispatch(c)
  PROVE  Lease!LeaseNext
<1>1. pc[c] = "registered" /\ pc[c] \in Claiming
  BY DEF Dispatch, Goto, Claiming
<1>0. PICK r \in Requests : r = req[c]
  BY <1>1, OpenHolds
<1>2. /\ req[c] \in Requests /\ req[c] \in Open /\ Holder[KeyOf[req[c]]] = req[c]
  BY <1>1, OpenHolds DEF Open, KeyOf, Holder
<1>3. dispatches[req[c]] = 0 /\ dispatches' = [dispatches EXCEPT ![req[c]] = 1]
  <2>1. dispatches[req[c]] = 0
    BY <1>1 DEF IInv, Safe, CallInv
  <2>2. dispatches' = [dispatches EXCEPT ![req[c]] = dispatches[req[c]] + 1]
    BY DEF Dispatch
  <2>3. QED
    BY <2>1, <2>2
<1>4. Open' = Open
  BY <1>1 DEF Dispatch, Goto, Open, Claiming, IInv, TypeOK
<1>5. UNCHANGED <<KeyOf, Claimed, Holder>>
  BY DEF Dispatch, KeyOf, Claimed, Holder, storeVars
<1>6. Lease!Run(r)
  BY <1>0, <1>2, <1>3, <1>4, <1>5, Unfold
<1>7. QED
  BY <1>6 DEF Lease!LeaseNext

\* Every step of the broker is a step of the lease, or leaves it alone.
LEMMA LeaseStep == IInv /\ [Next]_vars => [Lease!LeaseNext]_(Lease!leaseVars)
<1> SUFFICES ASSUME IInv, [Next]_vars PROVE Lease!LeaseNext \/ UNCHANGED Lease!leaseVars
  OBVIOUS
<1> USE DEF Claiming, PCs, Awaiting, Holding
<1>s. ASSUME KeyOf' = KeyOf, Open' = Open, UNCHANGED <<idem, claimedAt, dispatches>>
      PROVE  UNCHANGED Lease!leaseVars
  BY <1>s, Unfold DEF Claimed, Holder
<1>1. ASSUME NEW c \in Callers, NEW r \in Requests, Propose(c, r) \/ CommitLate(c, r) \/ Consume(c, r)
      PROVE  UNCHANGED Lease!leaseVars
  <2>1. Open' = Open
    BY <1>1, OpenKept DEF Propose, CommitLate, Consume, Enter
  <2>2. KeyOf' = KeyOf
    BY <1>1, KeysKept DEF Propose, CommitLate, Consume, storeVars, Statuses
  <2>3. QED
    BY <1>1, <1>s, <2>1, <2>2 DEF Propose, CommitLate, Consume, storeVars, historyVars
<1>2. ASSUME NEW c \in Callers, NEW k \in Keys, Draft(c, k)
      PROVE  UNCHANGED Lease!leaseVars
  <2>1. Open' = Open
    BY <1>2, OpenKept DEF Draft, Goto
  <2>2. req[c] \in Requests /\ req[c] \notin held
    BY <1>2 DEF Draft, Goto, IInv, TypeOK, CtlInv, Safe, CallInv, RowInv
  <2>3. \A r \in Requests : r # req[c] => row'[r] = row[r]
    BY <1>2 DEF Draft, Create, IInv, TypeOK
  <2>4. KeyOf' = KeyOf
    BY <1>2, <2>2, <2>3 DEF KeyOf, Draft
  <2>5. QED
    BY <1>2, <1>s, <2>1, <2>4 DEF Draft
<1>3. ASSUME NEW c \in Callers, ReturnPreview(c)
      PROVE  Lease!LeaseNext \/ UNCHANGED Lease!leaseVars
  BY <1>3, PreviewOffers
<1>4. ASSUME NEW c \in Callers, Register(c) PROVE Lease!LeaseNext
  BY <1>4, RegisterClaims
<1>5. ASSUME NEW c \in Callers, Purge(c) PROVE Lease!LeaseNext
  BY <1>5, PurgeLapses
<1>6. ASSUME NEW c \in Callers, CommitBlocked(c) \/ ExecutorRaised(c) PROVE Lease!LeaseNext
  BY <1>6, ReleaseFails DEF CommitBlocked, ExecutorRaised, Goto
<1>7. ASSUME NEW c \in Callers, CommitNoExecutor(c) \/ ExecutorAnswered(c) PROVE Lease!LeaseNext
  BY <1>7, EndCloses DEF CommitNoExecutor, ExecutorAnswered, Goto, Return, storeVars, historyVars
<1>8. ASSUME NEW c \in Callers, Dispatch(c) PROVE Lease!LeaseNext
  BY <1>8, DispatchRuns
<1>9. ASSUME NEW c \in Callers, ReturnExpired(c) \/ CommitUnknownContract(c) \/ CommitDuplicate(c)
                                      \/ LogFailure(c)
      PROVE  UNCHANGED Lease!leaseVars
  <2>1. Open' = Open
    BY <1>9, OpenKept DEF ReturnExpired, CommitUnknownContract, CommitDuplicate, LogFailure, Goto, Return
  <2>2. QED
    BY <1>9, <1>s, <2>1 DEF ReturnExpired, CommitUnknownContract, CommitDuplicate, LogFailure, storeVars, historyVars, KeyOf
<1>10. ASSUME NEW c \in Callers, MarkFailed(c) \/ MarkExecuted(c)
       PROVE  UNCHANGED Lease!leaseVars
  <2>1. Open' = Open
    BY <1>10, OpenKept DEF MarkFailed, MarkExecuted, Return
  <2>2. req[c] \in Requests
    BY <1>10 DEF MarkFailed, MarkExecuted, Return, IInv, TypeOK, CtlInv
  <2>3. KeyOf' = KeyOf
    BY <1>10, <2>2, KeysKept DEF MarkFailed, MarkExecuted, Statuses, Events
  <2>4. QED
    BY <1>10, <1>s, <2>1, <2>3 DEF MarkFailed, MarkExecuted, historyVars
<1>11. ASSUME NEW c \in Callers, Cancel(c)
       PROVE  Lease!LeaseNext \/ UNCHANGED Lease!leaseVars
  <2>1. CASE pc[c] = "executing"
    BY <1>11, <2>1, EndCloses DEF Cancel, storeVars, historyVars
  <2>2. CASE pc[c] = "checking"
    <3>1. Open' = Open
      BY <1>11, <2>2, OpenKept DEF Cancel
    <3>2. QED
      BY <1>11, <1>s, <3>1 DEF Cancel, storeVars, historyVars, KeyOf
  <2>3. QED
    BY <1>11, <2>1, <2>2 DEF Cancel
<1>12. ASSUME (\E r \in Requests, outcome \in {"applied", "refused"} : Platform(r, outcome)) \/ Tick
              \/ UNCHANGED vars
       PROVE  UNCHANGED Lease!leaseVars
  <2>1. KeyOf' = KeyOf /\ Open' = Open
    BY <1>12 DEF Platform, Tick, vars, procVars, storeVars, historyVars, KeyOf, Open
  <2>2. QED
    BY <1>12, <1>s, <2>1 DEF Platform, Tick, vars, procVars, storeVars, historyVars
<1>13. ASSUME Restart PROVE Lease!LeaseNext
  <2>1. Open' = Open \ Requests
    BY <1>13, OpenHolds DEF Restart, Open
  <2>2. UNCHANGED <<KeyOf, Claimed, dispatches, Holder>>
    BY <1>13 DEF Restart, storeVars, historyVars, KeyOf, Claimed, Holder
  <2>3. Lease!Close(Requests)
    BY <2>1, <2>2, Unfold
  <2>4. QED
    BY <2>3 DEF Lease!LeaseNext
<1>14. QED
  BY <1>1, <1>2, <1>3, <1>4, <1>5, <1>6, <1>7, <1>8, <1>9, <1>10, <1>11, <1>12, <1>13
     DEF Next, Call, Progress

\* The broker's tables, its tokens and its event loop implement the lease: a
\* request is offered once and for one key, claims its lease once, runs at most
\* once and only while it holds it, and nobody takes the lease of an open run,
\* whatever is replayed, cancelled, purged or restarted.
THEOREM BrokerImplementsLease == Spec => BrokerKeepsLease
<1>1. Init => Lease!LeaseInit
  <2> SUFFICES ASSUME Init PROVE Lease!LeaseInit
    OBVIOUS
  <2>1. [r \in Requests |-> IF r \in held THEN row[r].key ELSE NoKey] = [r \in Requests |-> NoKey]
    BY DEF Init
  <2>2. {r \in Requests : claimedAt[r] # Never} = {}
    BY DEF Init
  <2>3. {req[c] : c \in {d \in Callers : pc[d] \in Claiming}} = {}
    BY DEF Init, Claiming
  <2>4. [k \in Keys |-> idem[k].owner] = [k \in Keys |-> NoRequest]
    BY DEF Init, NoEntry
  <2>5. QED
    BY <2>1, <2>2, <2>3, <2>4 DEF Init, Lease!LeaseInit
<1>2. QED
  BY <1>1, LeaseStep, Inductive, PTL DEF Spec, BrokerKeepsLease, Lease!LeaseSpec
=============================================================================
