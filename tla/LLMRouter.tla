------------------------------ MODULE LLMRouter ------------------------------
(***************************************************************************)
(* LLMRouter.complete and complete_stream: completions are routed over the *)
(* models of a tier, in order, each behind its own limiter.                *)
(*                                                                         *)
(* Threads share the limiters.  What a limiter does inside is the subject  *)
(* of ModelLimiter; here open[m] says whether m's next try_acquire would   *)
(* succeed, which the other calls and the refills change at any time.      *)
(***************************************************************************)
EXTENDS Naturals, Sequences, SequencesExt

CONSTANTS
  Calls,
  Cands,          \* the tier's models in order, the fallback last
  Budgets         \* values of llm_max_wait_rounds; 0 for no limit

Models == ToSet(Cands)

ASSUME RouterAssumption ==
  /\ Cands \in Seq(Models) /\ Cands # <<>>
  /\ Budgets \subseteq Nat

VARIABLES
  budget,      \* llm_max_wait_rounds of this process
  open,        \* per model: would try_acquire succeed
  pc,
  stream,      \* complete_stream, or complete
  next,        \* index of the candidate to look at
  exhausted,   \* models that answered 429 and are left out for now
  rounds,      \* wait_rounds; not counted when there is no limit
  heard,       \* models whose deltas the caller has been given
  outcome,
  asked,       \* history: models asked since all of them were last released
  owed         \* history: reservations neither corrected nor penalized

callVars == <<pc, stream, next, exhausted, rounds, heard, outcome>>
vars == <<budget, open, callVars, asked, owed>>

PCs == {"new", "scanning", "asking", "streaming", "sleeping", "done"}
Outcomes == {"none", "answer", "error", "gave up", "closed"}

TypeOK ==
  /\ budget \in Budgets
  /\ open \in [Models -> BOOLEAN]
  /\ pc \in [Calls -> PCs]
  /\ stream \in [Calls -> BOOLEAN]
  /\ next \in [Calls -> 1 .. Len(Cands) + 1]
  /\ exhausted \in [Calls -> SUBSET Models]
  /\ rounds \in [Calls -> 0 .. budget]
  /\ heard \in [Calls -> SUBSET Models]
  /\ outcome \in [Calls -> Outcomes]
  /\ asked \in [Calls -> SUBSET Models]
  /\ owed \in [Calls -> SUBSET Models]

Init ==
  /\ budget \in Budgets
  /\ open \in [Models -> BOOLEAN]
  /\ pc = [c \in Calls |-> "new"]
  /\ stream \in [Calls -> BOOLEAN]
  /\ next = [c \in Calls |-> 1]
  /\ exhausted = [c \in Calls |-> {}]
  /\ rounds = [c \in Calls |-> 0]
  /\ heard = [c \in Calls |-> {}]
  /\ outcome = [c \in Calls |-> "none"]
  /\ asked = [c \in Calls |-> {}]
  /\ owed = [c \in Calls |-> {}]

Goto(c, from, to) ==
  /\ pc[c] = from
  /\ pc' = [pc EXCEPT ![c] = to]

Finish(c, from, how) ==
  /\ Goto(c, from, "done")
  /\ outcome' = [outcome EXCEPT ![c] = how]

\* The candidate the call looks at, or has asked.
Cand(c) == Cands[next[c]]

-----------------------------------------------------------------------------
(* Pass 1: the first candidate with live headroom                          *)

Begin(c) ==
  /\ Goto(c, "new", "scanning")
  /\ UNCHANGED <<budget, open, stream, next, exhausted, rounds, heard, outcome, asked, owed>>

\* A model that answered 429, or that has no headroom, is passed over.
PassOver(c) ==
  /\ next[c] <= Len(Cands)
  /\ Cand(c) \in exhausted[c] \/ ~open[Cand(c)]
  /\ Goto(c, "scanning", "scanning")
  /\ next' = [next EXCEPT ![c] = @ + 1]
  /\ UNCHANGED <<budget, open, stream, exhausted, rounds, heard, outcome, asked, owed>>

\* try_acquire(est) succeeds, and the reservation may leave no headroom.
Acquire(c) ==
  /\ next[c] <= Len(Cands)
  /\ Cand(c) \notin exhausted[c] /\ open[Cand(c)]
  /\ Goto(c, "scanning", "asking")
  /\ \E left \in BOOLEAN : open' = [open EXCEPT ![Cand(c)] = left]
  /\ asked' = [asked EXCEPT ![c] = @ \cup {Cand(c)}]
  /\ owed' = [owed EXCEPT ![c] = @ \cup {Cand(c)}]
  /\ UNCHANGED <<budget, stream, next, exhausted, rounds, heard, outcome>>

-----------------------------------------------------------------------------
(* The provider's answer                                                   *)

\* reconcile(est, usage) may open the limiter again, or close it.
Settle(c) ==
  /\ \E left \in BOOLEAN : open' = [open EXCEPT ![Cand(c)] = left]
  /\ owed' = [owed EXCEPT ![c] = @ \ {Cand(c)}]

\* complete returns; usage that the response does not report counts as none.
Complete(c) ==
  /\ ~stream[c]
  /\ Finish(c, "asking", "answer")
  /\ Settle(c)
  /\ UNCHANGED <<budget, stream, next, exhausted, rounds, heard, asked>>

\* The client answers the request for a stream.  Where it rejected the usage chunk
\* the same model is asked once more without it; nothing the router keeps tells the
\* two requests apart, so the first is no step of its own (_create_stream).
OpenStream(c) ==
  /\ stream[c]
  /\ Goto(c, "asking", "streaming")
  /\ UNCHANGED <<budget, open, stream, next, exhausted, rounds, heard, outcome, asked, owed>>

\* A delta with text is handed to the caller.
Delta(c) ==
  /\ Goto(c, "streaming", "streaming")
  /\ heard' = [heard EXCEPT ![c] = @ \cup {Cand(c)}]
  /\ UNCHANGED <<budget, open, stream, next, exhausted, rounds, outcome, asked, owed>>

\* The stream ends, with or without a chunk that reports usage.
EndStream(c) ==
  /\ Finish(c, "streaming", "answer")
  /\ \/ Settle(c)
     \/ UNCHANGED <<open, owed>>
  /\ UNCHANGED <<budget, stream, next, exhausted, rounds, heard, asked>>

\* Mutated form: a 429 fails over whatever the caller has been given.
MayFailOverAnytime(c) == pc[c] \in {"asking", "streaming"}

MayFailOver(c) ==
  \/ pc[c] = "asking"
  \/ pc[c] = "streaming" /\ heard[c] = {}

\* A 429 before the first delta: penalize, and go on with the next candidate.
Limited(c) ==
  /\ MayFailOver(c)
  /\ Goto(c, pc[c], "scanning")
  /\ open' = [open EXCEPT ![Cand(c)] = FALSE]
  /\ owed' = [owed EXCEPT ![c] = @ \ {Cand(c)}]
  /\ exhausted' = [exhausted EXCEPT ![c] = @ \cup {Cand(c)}]
  /\ next' = [next EXCEPT ![c] = @ + 1]
  /\ UNCHANGED <<budget, stream, rounds, heard, outcome, asked>>

\* Another exception, or any once a delta was handed out, is raised again.
Raise(c) ==
  /\ pc[c] \in {"asking", "streaming"}
  /\ Finish(c, pc[c], "error")
  /\ UNCHANGED <<budget, open, stream, next, exhausted, rounds, heard, asked, owed>>

\* The caller closes the generator at a yield.
Close(c) ==
  /\ heard[c] # {}
  /\ Finish(c, "streaming", "closed")
  /\ UNCHANGED <<budget, open, stream, next, exhausted, rounds, heard, asked, owed>>

-----------------------------------------------------------------------------
(* Everyone is throttled: wait                                             *)

\* Mutated forms: the penalty set is cleared on every wait, or never.
ReleasedAlways(c) == {}
ReleasedNever(c) == exhausted[c]

\* Only when every candidate answered 429 are they all let back in.
Released(c) == IF Models \subseteq exhausted[c] THEN {} ELSE exhausted[c]

\* wait_rounds += 1; without a limit the count is of no consequence.
Counted(c) == IF budget > 0 THEN rounds[c] + 1 ELSE 0

Spent(c) == budget > 0 /\ Counted(c) > budget

EndPass(c) ==
  /\ next[c] > Len(Cands)
  /\ exhausted' = [exhausted EXCEPT ![c] = Released(c)]
  /\ asked' = [asked EXCEPT ![c] = IF Models \subseteq exhausted[c] THEN {} ELSE @]
  /\ IF Spent(c)
       THEN Finish(c, "scanning", "gave up") /\ UNCHANGED rounds
       ELSE /\ Goto(c, "scanning", "sleeping")
            /\ rounds' = [rounds EXCEPT ![c] = Counted(c)]
            /\ UNCHANGED outcome
  /\ UNCHANGED <<budget, open, stream, next, heard, owed>>

\* The sleep is over: it is no longer than max_sleep_seconds.
Wake(c) ==
  /\ Goto(c, "sleeping", "scanning")
  /\ next' = [next EXCEPT ![c] = 1]
  /\ UNCHANGED <<budget, open, stream, exhausted, rounds, heard, outcome, asked, owed>>

\* A bucket refills, or a block ends.
Refill(m) ==
  /\ ~open[m]
  /\ open' = [open EXCEPT ![m] = TRUE]
  /\ UNCHANGED <<budget, callVars, asked, owed>>

-----------------------------------------------------------------------------
Progress(c) ==
  \/ Begin(c) \/ PassOver(c) \/ Acquire(c)
  \/ Complete(c) \/ OpenStream(c) \/ EndStream(c)
  \/ Limited(c) \/ Raise(c)
  \/ EndPass(c) \/ Wake(c)

Next ==
  \/ \E c \in Calls : Progress(c) \/ Delta(c) \/ Close(c)
  \/ \E m \in Models : Refill(m)

Spec == Init /\ [][Next]_vars

\* The provider's client answers or times out, and a thread is not starved.
FairSpec == Spec /\ \A c \in Calls : WF_vars(Progress(c))

-----------------------------------------------------------------------------
(* Properties                                                              *)

\* complete_stream: "A stream can't be failed over to another model once bytes
\* are flowing."  Whatever a caller is given comes from one model.
OneVoice == \A c \in Calls : \A m, n \in heard[c] : m = n

\* A call reserves headroom at one model at a time.  What it reserved is
\* corrected or penalized before it asks another model, waits, or gives up; only
\* an exception, a closed stream, or one that reports no usage leaves it charged.
OneReservation ==
  \A c \in Calls : owed[c] # {} =>
    /\ owed[c] = {Cand(c)}
    /\ \/ pc[c] \in {"asking", "streaming"}
       \/ outcome[c] \in {"error", "closed"}
       \/ outcome[c] = "answer" /\ stream[c]

\* A caller hears one model and holds headroom at one, whatever was tried.
RouterSafe == TypeOK /\ OneVoice /\ OneReservation

\* A model that answered 429 is not asked again by the call, however often it
\* waits, before every other candidate has answered 429 too.
RefusedRests ==
  [][\A c \in Calls : Acquire(c) => Cand(c) \notin asked[c]]_vars

\* With a budget of wait rounds every call ends, whatever the provider answers.
BudgetedCallsEnd == budget > 0 => \A c \in Calls : <>(pc[c] = "done")

\* What a call without a budget relies on: buckets refill, and a model that is
\* asked over and over does not answer 429 for ever.
Patience ==
  /\ \A m \in Models : WF_vars(Refill(m))
  /\ \A c \in Calls : SF_vars(Complete(c) \/ EndStream(c) \/ Raise(c))

\* "If everyone also hard-429'd this turn, clear the penalty set and wait it out
\* rather than drop": without a budget, the default, a call ends too.
PatientCallsEnd == budget = 0 /\ Patience => \A c \in Calls : <>(pc[c] = "done")

\* With a budget or, under a patient provider, without: every call ends.
CallsEnd == BudgetedCallsEnd /\ PatientCallsEnd
=============================================================================
