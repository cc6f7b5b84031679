------------------------------ MODULE Analyst ------------------------------
(***************************************************************************)
(* AnalystService: chat sessions of the dashboard, whose turns run one at  *)
(* a time: the model reasons, asks for tools, and at last streams its      *)
(* answer.                                                                 *)
(*                                                                         *)
(* A turn is a generator: the client of a streamed turn may go away at     *)
(* any of its awaits and yields.  The queue between the thread that pumps  *)
(* an answer and the turn only delays its pieces.  A scope stands for      *)
(* module and brand.                                                       *)
(***************************************************************************)
EXTENDS FenceStripper, SequencesExt

CONSTANTS
  Turns,
  Streamed,       \* the turns asked over SSE, whose client may go away
  Ids,            \* session ids
  Scopes,
  Requests,       \* the ids and scopes the turns may be asked under
  Pieces,         \* the pieces answers are streamed in
  SessionTtl,     \* session_ttl
  MaxSessions,    \* max_sessions
  MaxRounds,      \* max_rounds
  MaxCalls,       \* bound on the tool calls of a round
  MaxText,        \* bound on the length of an answer
  MaxTime,        \* bound on the clock
  None

Roles == {"user", "calls", "tool", "answer"}

\* A message, the turn it is of, and the number of calls or the call answered.
Messages == [role : Roles, of : Turns, n : 0 .. MaxCalls]

ASSUME AnalystAssumption ==
  /\ {SessionTtl, MaxTime, MaxText} \subseteq Nat
  /\ {MaxSessions, MaxRounds, MaxCalls} \subseteq Nat \ {0}
  /\ Streamed \subseteq Turns
  /\ Requests \subseteq [Turns -> [id : Ids, scope : Scopes]]
  /\ Pieces \subseteq Texts \ {<<>>}
  /\ None \notin Turns \cup Scopes \cup [scope : Scopes, used : Nat, messages : Seq(Messages)]

VARIABLES
  now,
  order,       \* _sessions: its ids, the least recently used first
  session,     \* _sessions: per id, the session if there is one
  lock,        \* the turn that holds _lock
  turn,
  text,        \* per turn, the answer as it came
  tokens,      \* per turn, the prose the client has been shown
  strip,       \* per turn, the stripper
  events,      \* history: the events a turn has yielded, tokens left out
  cut,         \* history: the turns whose client went away
  broken       \* history: the turns an exception left

storeVars == <<order, session>>
streamVars == <<text, tokens, strip>>
vars == <<now, storeVars, lock, turn, streamVars, events, cut, broken>>

TurnStates ==
  [pc : {"new", "queued", "reason", "act", "observe", "stream", "flushed", "done"},
   id : Ids, scope : Scopes, round : 1 .. MaxRounds,
   calls : 0 .. MaxCalls, ran : SUBSET (1 .. MaxCalls), step : 0 .. MaxCalls]

TypeOK ==
  /\ now \in 0 .. MaxTime
  /\ order \in Seq(Ids) /\ IsInjective(order) /\ Len(order) <= MaxSessions
  /\ session \in [Ids -> [scope : Scopes, used : 0 .. MaxTime, messages : Seq(Messages)]
                            \cup {None}]
  /\ \A i \in Ids : session[i] # None <=> i \in ToSet(order)
  /\ lock \in Turns \cup {None}
  /\ turn \in [Turns -> TurnStates]
  /\ \A t \in Turns : turn[t].pc \notin {"new", "queued", "done"} <=> lock = t
  /\ lock # None => session[turn[lock].id] # None
  /\ text \in [Turns -> Texts]
  /\ events \in [Turns -> Seq({"step", "final", "error"})]
  /\ cut \subseteq Turns /\ broken \subseteq Turns

Init ==
  /\ now = 0
  /\ order = <<>>
  /\ session = [i \in Ids |-> None]
  /\ lock = None
  /\ \E r \in Requests : turn = [t \in Turns |->
       [pc |-> "new", id |-> r[t].id, scope |-> r[t].scope, round |-> 1,
        calls |-> 0, ran |-> {}, step |-> 0]]
  /\ text = [t \in Turns |-> <<>>] /\ tokens = [t \in Turns |-> <<>>]
  /\ strip = [t \in Turns |-> Fresh]
  /\ events = [t \in Turns |-> <<>>]
  /\ cut = {} /\ broken = {}

Become(t, new) == turn' = [turn EXCEPT ![t] = new]
Goto(t, from, to) ==
  /\ turn[t].pc = from
  /\ Become(t, [turn[t] EXCEPT !.pc = to])

\* The turn yields an event.
Yield(t, kind) == events' = [events EXCEPT ![t] = Append(events[t], kind)]

\* The turn is over: what it held is let go, the lock with it.
LetGo(t) ==
  /\ Become(t, [turn[t] EXCEPT !.pc = "done", !.calls = 0, !.ran = {}, !.step = 0])
  /\ text' = [text EXCEPT ![t] = <<>>] /\ tokens' = [tokens EXCEPT ![t] = <<>>]
  /\ strip' = [strip EXCEPT ![t] = Fresh]
  /\ lock' = IF lock = t THEN None ELSE lock

\* The turn yields its terminal event.
End(t, kind) == LetGo(t) /\ Yield(t, kind)

\* An exception leaves the turn: the route's handler tells the client.
Break(t) == End(t, "error") /\ broken' = broken \cup {t}

\* A message is added to the turn's session.
Say(t, role, n) ==
  session' = [session EXCEPT ![turn[t].id].messages =
                Append(session[turn[t].id].messages, [role |-> role, of |-> t, n |-> n])]

Ask(t) ==
  /\ Goto(t, "new", "queued")
  /\ UNCHANGED <<now, storeVars, lock, streamVars, events, cut, broken>>

-----------------------------------------------------------------------------
(* _session, _evict, and the question                                      *)

\* The least recently used sessions go when there are too many.
Newest(ids) ==
  LET n == Len(ids) IN
  IF n <= MaxSessions THEN ids ELSE SubSeq(ids, n - MaxSessions + 1, n)

Idle(i) == now - session[i].used > SessionTtl

\* Those of a set, in their order.
Only(ids, some) ==
  LET K == {k \in 1 .. Len(ids) : ids[k] \in some}
      nth(n) == CHOOSE k \in K : Cardinality({j \in K : j <= k}) = n
  IN  [n \in 1 .. Cardinality(K) |-> ids[nth(n)]]

\* The turn's session becomes the last one.
Moved(t) == Append(Only(order, Ids \ {turn[t].id}), turn[t].id)

Stay(t) == Newest(Only(Moved(t), {turn[t].id} \cup {i \in ToSet(order) : ~Idle(i)}))

\* Mutated form: whatever there is under the id is taken up.
StartsFreshOnce(t) == session[turn[t].id] = None

\* A session of another scope is not taken up.
StartsFresh(t) ==
  \/ session[turn[t].id] = None
  \/ session[turn[t].id].scope # turn[t].scope

Begin(t) ==
  LET i == turn[t].id
      heard == IF StartsFresh(t) THEN <<>> ELSE session[i].messages
      scope == IF StartsFresh(t) THEN turn[t].scope ELSE session[i].scope
      mine == [scope |-> scope, used |-> now,
               messages |-> Append(heard, [role |-> "user", of |-> t, n |-> 0])]
  IN
  /\ lock = None /\ lock' = t
  /\ Goto(t, "queued", "reason")
  /\ order' = Stay(t)
  /\ session' = [j \in Ids |-> IF j \notin ToSet(Stay(t)) THEN None
                               ELSE IF j = i THEN mine ELSE session[j]]
  /\ UNCHANGED <<now, streamVars, events, cut, broken>>

-----------------------------------------------------------------------------
(* Reason, act, observe                                                    *)

\* Every call of the message at i is answered, in order, right after it.
AnsweredAt(messages, i) ==
  \A k \in 1 .. messages[i].n :
    /\ i + k <= Len(messages)
    /\ messages[i + k] = [role |-> "tool", of |-> messages[i].of, n |-> k]

WellFormed(messages) ==
  \A i \in 1 .. Len(messages) : messages[i].role = "calls" => AnsweredAt(messages, i)

\* The provider takes only such a conversation; sanitize_history repairs the
\* arguments of calls and nothing else.
Accepted(t) == WellFormed(session[turn[t].id].messages)

\* Mutated form: a failed call is made again.
ModelFailsAgain(t) ==
  /\ turn[t].pc = "reason"
  /\ UNCHANGED vars

ModelFails(t) ==
  /\ turn[t].pc = "reason"
  /\ End(t, "error")
  /\ UNCHANGED <<now, storeVars, cut, broken>>

\* Which tools, and with what arguments, is left out.
AskTools(t) ==
  /\ turn[t].pc = "reason" /\ Accepted(t)
  /\ \E n \in 1 .. MaxCalls :
       /\ Become(t, [turn[t] EXCEPT !.pc = "act", !.calls = n])
       /\ Say(t, "calls", n)
  /\ UNCHANGED <<now, order, lock, streamVars, events, cut, broken>>

\* A tool ends, a failure of its own being a payload as well.
RunTool(t, k) ==
  /\ turn[t].pc = "act"
  /\ k \in (1 .. turn[t].calls) \ turn[t].ran
  /\ Become(t, [turn[t] EXCEPT !.ran = turn[t].ran \cup {k}])
  /\ UNCHANGED <<now, storeVars, lock, streamVars, events, cut, broken>>

\* A call whose arguments are no object, or a key of the scratchpad that is no
\* text, raises where nothing catches it, and gather with it.
ToolRaises(t) ==
  /\ turn[t].pc = "act" /\ turn[t].ran # 1 .. turn[t].calls
  /\ Break(t)
  /\ UNCHANGED <<now, storeVars, cut>>

\* gather returns, and the first step is yielded.
FirstStep(t) ==
  /\ turn[t].pc = "act" /\ turn[t].ran = 1 .. turn[t].calls
  /\ Become(t, [turn[t] EXCEPT !.pc = "observe", !.step = 1])
  /\ Yield(t, "step")
  /\ UNCHANGED <<now, storeVars, lock, streamVars, cut, broken>>

LastOfRound(t) == turn[t].step = turn[t].calls

\* The payload is put into the conversation after its step was yielded.
NextStep(t) ==
  /\ turn[t].pc = "observe" /\ ~LastOfRound(t)
  /\ Say(t, "tool", turn[t].step)
  /\ Become(t, [turn[t] EXCEPT !.step = turn[t].step + 1])
  /\ Yield(t, "step")
  /\ UNCHANGED <<now, order, lock, streamVars, cut, broken>>

\* _step_label raises on arguments of another shape than it expects: before the
\* first step of a round, or once the payload of the one before has been said.
LabelRaises(t) ==
  /\ \/ /\ turn[t].pc = "act" /\ turn[t].ran = 1 .. turn[t].calls
        /\ UNCHANGED session
     \/ /\ turn[t].pc = "observe" /\ ~LastOfRound(t)
        /\ Say(t, "tool", turn[t].step)
  /\ Break(t)
  /\ UNCHANGED <<now, order, cut>>

\* Mutated form: the last payload of a round gets lost.
NextRoundUnheard(t) ==
  /\ turn[t].pc = "observe" /\ LastOfRound(t) /\ turn[t].round < MaxRounds
  /\ Become(t, [turn[t] EXCEPT !.pc = "reason", !.round = turn[t].round + 1,
                               !.calls = 0, !.ran = {}, !.step = 0])
  /\ UNCHANGED <<now, storeVars, lock, streamVars, events, cut, broken>>

NextRound(t) ==
  /\ turn[t].pc = "observe" /\ LastOfRound(t) /\ turn[t].round < MaxRounds
  /\ Say(t, "tool", turn[t].step)
  /\ Become(t, [turn[t] EXCEPT !.pc = "reason", !.round = turn[t].round + 1,
                               !.calls = 0, !.ran = {}, !.step = 0])
  /\ UNCHANGED <<now, order, lock, streamVars, events, cut, broken>>

\* The round limit ends the turn with an apology.
RoundLimit(t) ==
  /\ turn[t].pc = "observe" /\ LastOfRound(t) /\ turn[t].round = MaxRounds
  /\ Say(t, "tool", turn[t].step)
  /\ End(t, "final")
  /\ UNCHANGED <<now, order, cut, broken>>

-----------------------------------------------------------------------------
(* _stream_final                                                           *)

OpenStream(t) ==
  /\ Goto(t, "reason", "stream")
  /\ Accepted(t)
  /\ UNCHANGED <<now, storeVars, lock, streamVars, events, cut, broken>>

Delta(t, piece) ==
  LET fed == Feed(strip[t], piece) IN
  /\ turn[t].pc = "stream"
  /\ Len(text[t]) + Len(piece) <= MaxText
  /\ text' = [text EXCEPT ![t] = @ \o piece]
  /\ strip' = [strip EXCEPT ![t] = fed.state]
  /\ tokens' = [tokens EXCEPT ![t] = @ \o fed.out]
  /\ UNCHANGED <<now, storeVars, lock, turn, events, cut, broken>>

StreamFails(t) ==
  /\ turn[t].pc = "stream"
  /\ End(t, "error")
  /\ UNCHANGED <<now, storeVars, cut, broken>>

EndStream(t) ==
  /\ Goto(t, "stream", "flushed")
  /\ tokens' = [tokens EXCEPT ![t] = @ \o Flush(strip[t])]
  /\ strip' = [strip EXCEPT ![t].buf = <<>>]
  /\ UNCHANGED <<now, storeVars, lock, text, events, cut, broken>>

Finish(t) ==
  /\ turn[t].pc = "flushed"
  /\ Say(t, "answer", 0)
  /\ End(t, "final")
  /\ UNCHANGED <<now, order, cut, broken>>

\* parse_rich_blocks raises on a block of another shape, the answer being said.
AnswerRaises(t) ==
  /\ turn[t].pc = "flushed"
  /\ Say(t, "answer", 0)
  /\ Break(t)
  /\ UNCHANGED <<now, order, cut>>

-----------------------------------------------------------------------------

\* The client of a streamed turn goes away: the generator is closed where it
\* is, waiting for the lock, for the model or its tools, or at a yield.
ClientGone(t) ==
  /\ t \in Streamed /\ turn[t].pc \notin {"new", "done"}
  /\ cut' = cut \cup {t}
  /\ LetGo(t)
  /\ UNCHANGED <<now, storeVars, events, broken>>

Tick ==
  /\ now < MaxTime
  /\ now' = now + 1
  /\ UNCHANGED <<storeVars, lock, turn, streamVars, events, cut, broken>>

Step(t) ==
  \/ Begin(t)
  \/ ModelFails(t) \/ AskTools(t) \/ \E k \in 1 .. MaxCalls : RunTool(t, k)
  \/ ToolRaises(t) \/ LabelRaises(t)
  \/ FirstStep(t) \/ NextStep(t) \/ NextRound(t) \/ RoundLimit(t)
  \/ OpenStream(t) \/ \E piece \in Pieces : Delta(t, piece)
  \/ StreamFails(t) \/ EndStream(t) \/ Finish(t) \/ AnswerRaises(t)

Next ==
  \/ \E t \in Turns : Ask(t) \/ Step(t) \/ ClientGone(t)
  \/ Tick

Spec == Init /\ [][Next]_vars

\* The model, the tools and the client's reads end, each by its own timeout.
FairSpec == Spec /\ \A t \in Turns : WF_vars(Step(t))

-----------------------------------------------------------------------------
(* Properties                                                              *)

\* "start fresh so the wrong scope can't leak across": whatever order turns
\* under one id come in, a conversation holds messages of one scope and id.
NoScopeLeak ==
  /\ TypeOK
  /\ \A i \in Ids : session[i] # None =>
    \A k \in 1 .. Len(session[i].messages) :
      LET t == session[i].messages[k].of IN
      turn[t].scope = session[i].scope /\ turn[t].id = i

\* The turns that stopped where they were.
GivenUp == cut \cup broken

\* Every call a session holds is answered right after it, save while its turn
\* still acts or observes.  The code has two exceptions, and no other: the turns
\* whose client went away and those an exception left keep what they had said,
\* and the provider refuses their session from then on.
CallsAnswered ==
  \A i \in Ids : session[i] # None =>
    LET m == session[i].messages IN
    \A k \in 1 .. Len(m) : m[k].role = "calls" =>
      AnsweredAt(m, k) \/ turn[m[k].of].pc \in {"act", "observe"} \/ m[k].of \in GivenUp

\* "then exactly one terminal" event: nothing is yielded after it, a turn that
\* is over has yielded it unless its client went away, and an answer stays in
\* the conversation only when its turn ended well, or when an exception left it
\* between the answer and the event.
OneTerminal ==
  /\ \A t \in Turns :
       LET ends == {k \in 1 .. Len(events[t]) : events[t][k] \in {"final", "error"}} IN
       /\ ends \subseteq {Len(events[t])}
       /\ turn[t].pc = "done" /\ t \notin cut => ends # {}
  /\ \A i \in Ids : session[i] # None =>
       \A k \in 1 .. Len(session[i].messages) :
         session[i].messages[k].role = "answer" =>
           LET t == session[i].messages[k].of IN
           Last(events[t]) = "final" \/ t \in broken

\* A turn leaves no call open and ends once (the two above).
OneTurn == CallsAnswered /\ OneTerminal

\* "one bad call can't cancel the batch": a turn that is over, and whose client
\* stayed, has all its calls answered.  The code does not keep it.
BatchSurvives ==
  \A i \in Ids : session[i] # None =>
    LET m == session[i].messages IN
    \A k \in 1 .. Len(m) :
      /\ m[k].role = "calls" /\ m[k].of \notin cut
      /\ turn[m[k].of].pc = "done"
      => AnsweredAt(m, k)

\* However an answer is cut into pieces, the tokens shown are the prose of what
\* has come, and all of it when the stream ends.
TokensAreProse ==
  \A t \in Turns :
    /\ tokens[t] \in Texts /\ strip[t] \in [buf : Texts, inFence : BOOLEAN]
    /\ IsPrefix(tokens[t], Prose(text[t]))
    /\ turn[t].pc = "flushed" => tokens[t] = Prose(text[t])

\* Every turn ends: it gets the lock whoever holds it or goes away, and the
\* round limit stops a model that keeps asking for tools.
TurnsEnd == \A t \in Turns : turn[t].pc = "queued" ~> turn[t].pc = "done"
=============================================================================
