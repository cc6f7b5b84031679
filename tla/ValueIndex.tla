----------------------------- MODULE ValueIndex -----------------------------
(***************************************************************************)
(* ValueIndex: the dimension values Cube holds, learned per brand by a     *)
(* background build, persisted for the next process, and consulted by      *)
(* callers that resolve words or verify the filters of an empty result.    *)
(*                                                                         *)
(* The builds and the callers are tasks of one event loop; resolve runs in *)
(* a worker thread beside it.  A snapshot is an object: a caller keeps the *)
(* one it was given after a build has published another.  Whatever         *)
(* normalize equates is one value, and an opaque value is none.  A query   *)
(* reads Cube at one instant; the semaphore the queries share only delays  *)
(* them.                                                                   *)
(***************************************************************************)
EXTENDS Naturals, Sequences, FiniteSets

CONSTANTS
  Brands,
  Targets,        \* the (dimension, view) pairs that are indexed
  Values,
  Asked,          \* the cells the callers ask about
  Callers,        \* each makes one call
  Ttl,            \* ttl_s
  MaxTime,        \* bound on the clock
  MaxCells,       \* bound on what occurs in Cube, all brands together
  MaxBuilds,      \* bound on the snapshots a process makes for a brand
  MaxRestarts,    \* bound on restarts
  Null

ASSUME ValueIndexAssumption ==
  /\ Asked \subseteq Targets \X Values
  /\ Ttl \in Nat \ {0}
  /\ {MaxTime, MaxCells, MaxBuilds, MaxRestarts} \subseteq Nat
  /\ Null \notin [Brands -> SUBSET (Targets \X Values)]

VARIABLES
  now,
  cube,        \* what occurs in Cube, per brand
  shelf,       \* the snapshot objects of this process, per brand, oldest first
  current,     \* _snapshots: the one that is served, 0 when there is none
  building,    \* _builds: the snapshot being built, 0 when there is none
  disk,        \* value_index_snapshots
  restarts,
  call,        \* the callers
  since        \* history: what occurred in Cube when the call was made

procVars == <<shelf, current, building>>
vars == <<now, cube, procVars, disk, restarts, call, since>>

Cells == Targets \X Values

Snapshots ==
  [built : Nat, held : SUBSET Cells, norm : (SUBSET Cells) \cup {Null},
   pc : {"load", "save", "done"}, todo : SUBSET Targets]

\* What a build starts with, and what __init__ loads.
Started == [built |-> now, held |-> {}, norm |-> Null,
            pc |-> "load", todo |-> Targets]
Loaded(row, same) ==
  [built |-> IF same THEN row.built ELSE 0, held |-> row.held, norm |-> Null,
   pc |-> "done", todo |-> {}]

Verdicts == {"none", "warming", "resolved", "failed", "nothing to say", "missing", "lost"}

Calls ==
  [pc : {"new", "waiting", "matching", "storing", "returning", "probing", "done"},
   brand : Brands, snap : Nat, cell : Cells, index : SUBSET Cells,
   keys : SUBSET Targets, todo : SUBSET Targets, broken : SUBSET Targets,
   found : SUBSET Targets, verdict : Verdicts]

TypeOK ==
  /\ now \in Nat /\ restarts \in Nat
  /\ cube \in [Brands -> SUBSET Cells]
  /\ shelf \in [Brands -> Seq(Snapshots)]
  /\ \A b \in Brands : {current[b], building[b]} \subseteq 0 .. Len(shelf[b])
  /\ disk \in [Brands -> [built : Nat, held : SUBSET Cells] \cup {Null}]
  /\ call \in [Callers -> Calls]
  /\ \A c \in Callers : call[c].pc \notin {"new", "done"} =>
        call[c].snap \in 1 .. Len(shelf[call[c].brand])
  /\ since \in [Callers -> SUBSET Cells]

\* How much occurs in Cube.
Amount == Cardinality({p \in Brands \X Cells : p[2] \in cube[p[1]]})

\* A call not made yet, about any brand.
NewCalls ==
  [pc : {"new"}, brand : Brands, snap : {0}, cell : Asked, index : {{}},
   keys : {{}}, todo : {{}}, broken : {{}}, found : {{}}, verdict : {"none"}]

Init ==
  /\ now = Ttl /\ restarts = 0
  /\ cube \in [Brands -> SUBSET Cells] /\ Amount <= MaxCells
  /\ shelf = [b \in Brands |-> <<>>]
  /\ current = [b \in Brands |-> 0] /\ building = [b \in Brands |-> 0]
  /\ disk = [b \in Brands |-> Null]
  /\ call \in [Callers -> NewCalls]
  /\ since = [c \in Callers |-> {}]

-----------------------------------------------------------------------------
(* Background builds                                                       *)

Fresh(b) == current[b] # 0 /\ now - shelf[b][current[b]].built < Ttl

\* Mutated form: a running build does not keep another away.
DueAlways(b) == ~Fresh(b)

Due(b) == ~Fresh(b) /\ building[b] = 0

StartBuild(b) ==
  /\ Len(shelf[b]) < MaxBuilds
  /\ shelf' = [shelf EXCEPT ![b] = Append(@, Started)]
  /\ building' = [building EXCEPT ![b] = Len(shelf[b]) + 1]
  /\ UNCHANGED current

\* warm_all, which any request triggers.
Warm(b) ==
  /\ Due(b)
  /\ StartBuild(b)
  /\ UNCHANGED <<now, cube, disk, restarts, call, since>>

Unfinished(b, i) == i \in 1 .. Len(shelf[b]) /\ shelf[b][i].pc # "done"

Learn(b, i, t) ==
  /\ Unfinished(b, i) /\ t \in shelf[b][i].todo
  /\ shelf' = [shelf EXCEPT ![b][i].todo = @ \ {t},
                            ![b][i].held = @ \cup {x \in cube[b] : x[1] = t}]
  /\ UNCHANGED <<now, cube, current, building, disk, restarts, call, since>>

\* One bad view does not sink the index: its values are left out.
FailTarget(b, i, t) ==
  /\ Unfinished(b, i) /\ t \in shelf[b][i].todo
  /\ shelf' = [shelf EXCEPT ![b][i].todo = @ \ {t}]
  /\ UNCHANGED <<now, cube, current, building, disk, restarts, call, since>>

\* gather returns and the snapshot is served, whatever it holds.
Publish(b, i) ==
  /\ Unfinished(b, i) /\ shelf[b][i].pc = "load"
  /\ shelf[b][i].todo = {}
  /\ current' = [current EXCEPT ![b] = i]
  /\ shelf' = [shelf EXCEPT ![b][i].pc = "save"]
  /\ UNCHANGED <<now, cube, building, disk, restarts, call, since>>

\* The task ends, and the brand may be built again.
EndBuild(b, i) ==
  /\ Unfinished(b, i) /\ shelf[b][i].pc = "save"
  /\ shelf' = [shelf EXCEPT ![b][i].pc = "done"]
  /\ building' = [building EXCEPT ![b] = 0]
  /\ UNCHANGED current

Save(b, i) ==
  /\ EndBuild(b, i)
  /\ disk' = [disk EXCEPT ![b] = [built |-> shelf[b][i].built, held |-> shelf[b][i].held]]
  /\ UNCHANGED <<now, cube, restarts, call, since>>

\* Mutated form: the exception leaves the task in _builds.
SaveFailsStuck(b, i) ==
  /\ Unfinished(b, i) /\ shelf[b][i].pc = "save"
  /\ shelf' = [shelf EXCEPT ![b][i].pc = "done"]
  /\ UNCHANGED <<now, cube, current, building, disk, restarts, call, since>>

SaveFails(b, i) ==
  /\ EndBuild(b, i)
  /\ UNCHANGED <<now, cube, disk, restarts, call, since>>

-----------------------------------------------------------------------------
(* catalogue_resolve_values: get, then resolve in a worker thread          *)

Become(c, new) == call' = [call EXCEPT ![c] = new]

\* What the call held is let go; what a claim rests on is kept.
End(c, verdict) ==
  LET claim == verdict = "missing" IN
  Become(c, [call[c] EXCEPT !.pc = "done", !.verdict = verdict, !.snap = 0,
                            !.todo = {}, !.found = {},
                            !.keys = IF claim THEN @ ELSE {},
                            !.broken = IF claim THEN @ ELSE {}])

\* The snapshot the caller holds.
Snap(c) == shelf[call[c].brand][call[c].snap]

\* get serves what there is, stale or not, and starts a build when it is due.
Get(c) ==
  LET b == call[c].brand IN
  /\ call[c].pc = "new"
  /\ IF Due(b) THEN StartBuild(b) ELSE UNCHANGED procVars
  /\ Become(c, IF current[b] # 0
               THEN [call[c] EXCEPT !.pc = "matching", !.snap = current[b]]
               ELSE [call[c] EXCEPT !.pc = "waiting", !.snap = building'[b]])
  /\ since' = [since EXCEPT ![c] = cube[b]]
  /\ UNCHANGED <<now, cube, disk, restarts>>

GiveUp(c) ==
  /\ call[c].pc = "waiting" /\ Snap(c).pc # "done"
  /\ End(c, "warming")
  /\ UNCHANGED <<now, cube, procVars, disk, restarts, since>>

Woken(c) ==
  /\ call[c].pc = "waiting" /\ Snap(c).pc = "done"
  /\ Become(c, [call[c] EXCEPT !.pc = "matching"])
  /\ UNCHANGED <<now, cube, procVars, disk, restarts, since>>

\* by_norm: the index is there, or it is made of the values there are now...
Match(c) ==
  /\ call[c].pc = "matching"
  /\ Become(c, IF Snap(c).norm = Null
               THEN [call[c] EXCEPT !.pc = "storing", !.index = Snap(c).held]
               ELSE [call[c] EXCEPT !.pc = "returning"])
  /\ UNCHANGED <<now, cube, procVars, disk, restarts, since>>

\* ... and kept.
Store(c) ==
  /\ call[c].pc = "storing"
  /\ shelf' = [shelf EXCEPT ![call[c].brand][call[c].snap].norm = call[c].index]
  /\ Become(c, [call[c] EXCEPT !.pc = "returning"])
  /\ UNCHANGED <<now, cube, current, building, disk, restarts, since>>

\* The field is read again; without an index there is nothing to iterate.
Return(c) ==
  /\ call[c].pc = "returning"
  /\ IF Snap(c).norm = Null
     THEN End(c, "failed")
     ELSE Become(c, [call[c] EXCEPT !.pc = "done", !.verdict = "resolved", !.snap = 0,
                                    !.index = Snap(c).norm])
  /\ UNCHANGED <<now, cube, procVars, disk, restarts, since>>

-----------------------------------------------------------------------------
(* verify_filter_values: one filter of an empty result                     *)

\* The dimensions a snapshot has any value of.
Kept(s) == {x[1] : x \in s.held}

Verify(c) ==
  LET b == call[c].brand
      known == current[b] = 0 \/ call[c].cell \in shelf[b][current[b]].held
  IN
  /\ call[c].pc = "new"
  /\ IF known
     THEN End(c, "nothing to say")
     ELSE LET keys == Kept(shelf[b][current[b]]) IN
          Become(c, [call[c] EXCEPT !.pc = "probing", !.snap = current[b],
                                    !.keys = keys, !.todo = keys])
  /\ since' = [since EXCEPT ![c] = cube[b]]
  /\ UNCHANGED <<now, cube, procVars, disk, restarts>>

\* The value sought, at target t.
Sought(c, t) == <<t, call[c].cell[2]>>

Occurs(c, t) == Sought(c, t) \in cube[call[c].brand]

\* Mutated form: the row Cube answers for a value that does not occur is merged too.
HitAnyRow(c, t) ==
  /\ call[c].pc = "probing" /\ t \in call[c].todo
  /\ shelf' = [shelf EXCEPT ![call[c].brand][call[c].snap].held = @ \cup {Sought(c, t)},
                            ![call[c].brand][call[c].snap].norm = Null]
  /\ Become(c, [call[c] EXCEPT !.todo = @ \ {t}, !.found = @ \cup {t}])
  /\ UNCHANGED <<now, cube, current, building, disk, restarts, since>>

\* What is found goes into the snapshot the caller holds.
Hit(c, t) ==
  /\ call[c].pc = "probing" /\ t \in call[c].todo /\ Occurs(c, t)
  /\ shelf' = [shelf EXCEPT ![call[c].brand][call[c].snap].held = @ \cup {Sought(c, t)},
                            ![call[c].brand][call[c].snap].norm = Null]
  /\ Become(c, [call[c] EXCEPT !.todo = @ \ {t}, !.found = @ \cup {t}])
  /\ UNCHANGED <<now, cube, current, building, disk, restarts, since>>

Miss(c, t) ==
  /\ call[c].pc = "probing" /\ t \in call[c].todo /\ ~Occurs(c, t)
  /\ Become(c, [call[c] EXCEPT !.todo = @ \ {t}])
  /\ UNCHANGED <<now, cube, procVars, disk, restarts, since>>

\* gather keeps the exception as a result, and nobody looks at it.
Break(c, t) ==
  /\ call[c].pc = "probing" /\ t \in call[c].todo
  /\ Become(c, [call[c] EXCEPT !.todo = @ \ {t}, !.broken = @ \cup {t}])
  /\ UNCHANGED <<now, cube, procVars, disk, restarts, since>>

Conclude(c) ==
  /\ call[c].pc = "probing" /\ call[c].todo = {}
  /\ End(c, IF call[c].cell[1] \in call[c].found THEN "nothing to say" ELSE "missing")
  /\ UNCHANGED <<now, cube, procVars, disk, restarts, since>>

\* Mutated form: what was found so far counts as all there is.
ExpireClaiming(c) ==
  /\ call[c].pc = "probing" /\ call[c].todo # {}
  /\ End(c, IF call[c].cell[1] \in call[c].found THEN "nothing to say" ELSE "missing")
  /\ UNCHANGED <<now, cube, procVars, disk, restarts, since>>

\* The probes do not end in time: no claim is made.
Expire(c) ==
  /\ call[c].pc = "probing" /\ call[c].todo # {}
  /\ End(c, "nothing to say")
  /\ UNCHANGED <<now, cube, procVars, disk, restarts, since>>

-----------------------------------------------------------------------------

Appear(b, x) ==
  /\ x \notin cube[b] /\ Amount < MaxCells
  /\ cube' = [cube EXCEPT ![b] = @ \cup {x}]
  /\ UNCHANGED <<now, procVars, disk, restarts, call, since>>

Tick ==
  /\ now < MaxTime
  /\ now' = now + 1
  /\ UNCHANGED <<cube, procVars, disk, restarts, call, since>>

\* A new process loads the rows; under another catalogue they are stale.
Restart ==
  /\ restarts < MaxRestarts
  /\ restarts' = restarts + 1
  /\ \E same \in BOOLEAN :
       shelf' = [b \in Brands |-> IF disk[b] = Null THEN <<>> ELSE <<Loaded(disk[b], same)>>]
  /\ current' = [b \in Brands |-> IF disk[b] = Null THEN 0 ELSE 1]
  /\ building' = [b \in Brands |-> 0]
  /\ call' = [c \in Callers |-> IF call[c].pc \in {"new", "done"} THEN call[c]
                ELSE [call[c] EXCEPT !.pc = "done", !.verdict = "lost", !.snap = 0, !.index = {},
                        !.keys = {}, !.todo = {}, !.broken = {}, !.found = {}]]
  /\ UNCHANGED <<now, cube, disk, since>>

BuildStep(b) == \E i \in 1 .. MaxBuilds :
  \/ \E t \in Targets : Learn(b, i, t) \/ FailTarget(b, i, t)
  \/ Publish(b, i) \/ Save(b, i) \/ SaveFails(b, i)

CallStep(c) ==
  \/ GiveUp(c) \/ Woken(c) \/ Match(c) \/ Store(c) \/ Return(c)
  \/ \E t \in Targets : Hit(c, t) \/ Miss(c, t) \/ Break(c, t)
  \/ Conclude(c) \/ Expire(c)

Next ==
  \/ \E b \in Brands : Warm(b) \/ BuildStep(b) \/ \E x \in Cells : Appear(b, x)
  \/ \E c \in Callers : Get(c) \/ Verify(c) \/ CallStep(c)
  \/ Tick \/ Restart

Spec == Init /\ [][Next]_vars

\* Cube answers or its client raises, and the loop and the threads run.
FairSpec ==
  /\ Spec
  /\ \A b \in Brands : WF_vars(BuildStep(b))
  /\ \A c \in Callers : WF_vars(CallStep(c))

-----------------------------------------------------------------------------
(* Properties                                                              *)

\* What a brand's snapshots hold, and what a caller is told, occurs in that
\* brand's data, whatever was probed, published, saved and loaded meanwhile.
NothingInvented ==
  /\ TypeOK
  /\ \A b \in Brands : \A i \in 1 .. Len(shelf[b]) : shelf[b][i].held \subseteq cube[b]
  /\ \A b \in Brands : disk[b] # Null => disk[b].held \subseteq cube[b]
  /\ \A c \in Callers : call[c].index \subseteq cube[call[c].brand]

\* A value is reported missing only when it did not occur when the question
\* came, unless its dimension has no value in the index or its probe raised.
ClaimHonest ==
  \A c \in Callers :
    call[c].verdict = "missing" /\ call[c].cell[1] \in call[c].keys \ call[c].broken
      => call[c].cell \notin since[c]

\* A brand's snapshot is never replaced by one that was started earlier, in
\* memory while the process lives and in the database ever.
NeverBackwards ==
  [][\A b \in Brands :
       /\ restarts' = restarts => current'[b] >= current[b]
       /\ disk[b] # Null => disk'[b].built >= disk[b].built]_vars

\* A build that was started ends, whatever fails in it, so that the brand can
\* be built again.
BuildsEnd == \A b \in Brands : building[b] # 0 ~> building[b] = 0

\* Every call is answered, by the timeouts if by nothing else.
CallsEnd == \A c \in Callers : call[c].pc # "new" ~> call[c].pc = "done"

\* Builds and calls end, whichever fails or waits for the other.
WorkEnds == BuildsEnd /\ CallsEnd
=============================================================================
