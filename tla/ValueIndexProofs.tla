--------------------------- MODULE ValueIndexProofs ---------------------------
(***************************************************************************)
(* Proofs about ValueIndex, for any brands, targets, values and callers    *)
(* and any bounds: what the index holds occurs in the brand's data, a      *)
(* value is called missing only if it was, and no snapshot gives way to an *)
(* older one.                                                              *)
(***************************************************************************)
EXTENDS ValueIndex, TLAPS

Rows == [built : Nat, held : SUBSET Cells]

\* A snapshot holds what occurs, and so does the index made of it.  The one that
\* is not done yet is the one being built, the last of its brand, and no older
\* than what the database has.
SnapshotInv(b, i) ==
  LET s == shelf[b][i] IN
  /\ s.held \subseteq cube[b] /\ (s.norm # Null => s.norm \subseteq cube[b])
  /\ s.built <= now
  /\ s.pc # "done" => /\ i = building[b] /\ i = Len(shelf[b])
                      /\ disk[b] # Null => disk[b].built <= s.built

BrandInv(b) ==
  /\ {current[b], building[b]} \subseteq 0 .. Len(shelf[b])
  /\ \A i \in 1 .. Len(shelf[b]) : SnapshotInv(b, i)
  /\ disk[b] # Null => disk[b].held \subseteq cube[b] /\ disk[b].built <= now

\* A caller holds a snapshot that exists.  Of the dimensions it probes, one that
\* is neither to be probed, nor broken, nor found did not have the value when
\* the question came.
CallInv(c) ==
  LET a == call[c] IN
  /\ a.pc \notin {"new", "done"} => a.snap \in 1 .. Len(shelf[a.brand])
  /\ a.index \subseteq cube[a.brand] /\ since[c] \subseteq cube[a.brand]
  /\ a.pc = "probing" =>
       \A t \in a.keys \ (a.todo \cup a.broken \cup a.found) : Sought(c, t) \notin since[c]
  /\ a.verdict = "missing" =>
       a.pc = "done" /\ (a.cell[1] \in a.keys \ a.broken => a.cell \notin since[c])

Typed ==
  /\ now \in Nat /\ restarts \in Nat
  /\ cube \in [Brands -> SUBSET Cells]
  /\ shelf \in [Brands -> Seq(Snapshots)]
  /\ current \in [Brands -> Nat] /\ building \in [Brands -> Nat]
  /\ disk \in [Brands -> Rows \cup {Null}]
  /\ call \in [Callers -> Calls]
  /\ since \in [Callers -> SUBSET Cells]

IInv == Typed /\ (\A b \in Brands : BrandInv(b)) /\ (\A c \in Callers : CallInv(c))
-----------------------------------------------------------------------------
(* The snapshots                                                           *)

\* The lists of snapshots have lengths, and a snapshot of the list is one.
LEMMA Shelf ==
  ASSUME Typed, NEW b \in Brands
  PROVE  /\ shelf[b] \in Seq(Snapshots) /\ Len(shelf[b]) \in Nat
         /\ \A i \in 1 .. Len(shelf[b]) : shelf[b][i] \in Snapshots
<1>1. shelf[b] \in Seq(Snapshots)
  BY DEF Typed
<1>2. QED
  BY <1>1

\* Writing one snapshot leaves the others, and their number, alone.
LEMMA OneWritten ==
  ASSUME Typed, NEW b \in Brands, NEW i \in 1 .. Len(shelf[b]), NEW s \in Snapshots,
         shelf' = [shelf EXCEPT ![b] = [shelf[b] EXCEPT ![i] = s]]
  PROVE  /\ shelf' \in [Brands -> Seq(Snapshots)]
         /\ \A d \in Brands : Len(shelf'[d]) = Len(shelf[d])
         /\ \A d \in Brands \ {b} : shelf'[d] = shelf[d]
         /\ shelf'[b][i] = s
         /\ \A j \in (1 .. Len(shelf[b])) \ {i} : shelf'[b][j] = shelf[b][j]
<1> DEFINE new == [shelf[b] EXCEPT ![i] = s]
<1>1. shelf \in [Brands -> Seq(Snapshots)]
  BY DEF Typed
<1>2. shelf[b] \in Seq(Snapshots)
  BY Shelf
<1>3. new \in Seq(Snapshots) /\ Len(new) = Len(shelf[b]) /\ new[i] = s
      /\ \A j \in (1 .. Len(shelf[b])) \ {i} : new[j] = shelf[b][j]
  BY <1>2
<1>4. shelf' = [shelf EXCEPT ![b] = new]
  OBVIOUS
<1> HIDE DEF new
<1>5. QED
  BY <1>1, <1>3, <1>4

\* A brand of which nothing changes but that more occurs in Cube, and the clock.
LEMMA BrandKept ==
  ASSUME Typed, NEW b \in Brands, BrandInv(b),
         shelf'[b] = shelf[b], current'[b] = current[b], building'[b] = building[b],
         disk'[b] = disk[b], cube[b] \subseteq cube'[b], now' \in Nat, now <= now'
  PROVE  BrandInv(b)'
<1>1. \A i \in 1 .. Len(shelf[b]) : shelf[b][i].built \in Nat
  BY Shelf DEF Snapshots
<1>2. disk[b] # Null => disk[b].built \in Nat
  BY DEF Typed, Rows
<1>3. now \in Nat
  BY DEF Typed
<1>4. ASSUME NEW i \in 1 .. Len(shelf[b])
      PROVE  SnapshotInv(b, i)'
  <2>1. SnapshotInv(b, i)
    BY DEF BrandInv
  <2>2. shelf[b][i].built <= now'
    BY <1>1, <1>3, <2>1 DEF SnapshotInv
  <2>3. QED
    BY <2>1, <2>2 DEF SnapshotInv
<1>5. disk[b] # Null => disk[b].held \subseteq cube'[b] /\ disk[b].built <= now'
  BY <1>2, <1>3 DEF BrandInv
<1>6. QED
  BY <1>4, <1>5 DEF BrandInv

\* One snapshot is written, by its build or by a caller that holds it: what it
\* holds and its index occur, it is as old as it was, and what is done stays done.
LEMMA SnapshotStep ==
  ASSUME IInv, NEW b \in Brands, NEW i \in 1 .. Len(shelf[b]), NEW s \in Snapshots,
         shelf' = [shelf EXCEPT ![b] = [shelf[b] EXCEPT ![i] = s]],
         s.held \subseteq cube[b], s.norm # Null => s.norm \subseteq cube[b],
         s.built = shelf[b][i].built, s.pc # "done" => shelf[b][i].pc # "done",
         UNCHANGED <<now, cube, current, building, disk>>
  PROVE  /\ shelf' \in [Brands -> Seq(Snapshots)]
         /\ \A d \in Brands : Len(shelf'[d]) = Len(shelf[d])
         /\ \A d \in Brands : BrandInv(d)'
<1>0. Typed /\ \A d \in Brands : BrandInv(d)
  BY DEF IInv
<1>1. /\ shelf' \in [Brands -> Seq(Snapshots)]
      /\ \A d \in Brands : Len(shelf'[d]) = Len(shelf[d])
      /\ \A d \in Brands \ {b} : shelf'[d] = shelf[d]
      /\ shelf'[b][i] = s
      /\ \A j \in (1 .. Len(shelf[b])) \ {i} : shelf'[b][j] = shelf[b][j]
  BY <1>0, OneWritten
<1>2. ASSUME NEW d \in Brands \ {b}
      PROVE  BrandInv(d)'
  <2>1. now \in Nat /\ now <= now
    BY <1>0 DEF Typed
  <2>2. QED
    BY <1>0, <1>1, <2>1, BrandKept
<1>3. BrandInv(b)'
  <2>1. ASSUME NEW j \in 1 .. Len(shelf[b])
        PROVE  SnapshotInv(b, j)'
    <3>1. SnapshotInv(b, j) /\ SnapshotInv(b, i)
      BY <1>0 DEF BrandInv
    <3>2. CASE j = i
      BY <1>1, <3>1, <3>2 DEF SnapshotInv
    <3>3. CASE j # i
      <4>1. shelf'[b][j] = shelf[b][j] /\ Len(shelf'[b]) = Len(shelf[b])
        BY <1>1, <3>3
      <4>2. QED
        BY <3>1, <4>1 DEF SnapshotInv
    <3>4. QED
      BY <3>2, <3>3
  <2>2. QED
    BY <1>0, <1>1, <2>1 DEF BrandInv
<1>4. QED
  BY <1>1, <1>2, <1>3

\* A build that starts puts a snapshot of its own at the end, and may start only
\* when none is under way.
LEMMA StartStep ==
  ASSUME IInv, NEW b \in Brands, Due(b), StartBuild(b), UNCHANGED <<now, cube, disk>>
  PROVE  /\ shelf' \in [Brands -> Seq(Snapshots)]
         /\ current' \in [Brands -> Nat] /\ building' \in [Brands -> Nat]
         /\ \A d \in Brands : Len(shelf[d]) <= Len(shelf'[d])
         /\ building'[b] \in 1 .. Len(shelf'[b])
         /\ \A d \in Brands : BrandInv(d)'
<1>0. Typed /\ \A d \in Brands : BrandInv(d)
  BY DEF IInv
<1>1. Started \in Snapshots
  <2>1. now \in Nat
    BY <1>0 DEF Typed
  <2>2. {} \in SUBSET Cells /\ Targets \in SUBSET Targets
    OBVIOUS
  <2>3. QED
    BY <2>1, <2>2 DEF Started, Snapshots
<1>n. PICK n \in Nat : n = Len(shelf[b])
  BY <1>0, Shelf
<1>2. shelf[b] \in Seq(Snapshots) /\ n \in Nat
  BY <1>0, Shelf
<1>3. /\ Append(shelf[b], Started) \in Seq(Snapshots)
      /\ Len(Append(shelf[b], Started)) = n + 1
      /\ Append(shelf[b], Started)[n + 1] = Started
      /\ \A i \in 1 .. n : Append(shelf[b], Started)[i] = shelf[b][i]
  BY <1>1, <1>2, <1>n
<1>4. /\ shelf' = [shelf EXCEPT ![b] = Append(shelf[b], Started)]
      /\ building' = [building EXCEPT ![b] = n + 1] /\ current' = current
  BY <1>n DEF StartBuild
<1>5. /\ shelf \in [Brands -> Seq(Snapshots)]
      /\ current \in [Brands -> Nat] /\ building \in [Brands -> Nat]
  BY <1>0 DEF Typed
<1>6. /\ shelf' \in [Brands -> Seq(Snapshots)] /\ shelf'[b] = Append(shelf[b], Started)
      /\ \A d \in Brands \ {b} : shelf'[d] = shelf[d] /\ building'[d] = building[d]
      /\ building' \in [Brands -> Nat] /\ building'[b] = n + 1
  <2>1. n + 1 \in Nat
    BY <1>2
  <2>2. QED
    BY <1>3, <1>4, <1>5, <2>1
<1>7. \A d \in Brands : Len(shelf[d]) <= Len(shelf'[d])
  <2>1. Len(shelf'[b]) = n + 1
    BY <1>3, <1>6
  <2>2. TAKE d \in Brands
  <2>3. Len(shelf[d]) \in Nat
    BY <1>0, Shelf
  <2>4. QED
    BY <1>2, <1>6, <1>n, <2>1, <2>3, SMTT(60)
<1>8. ASSUME NEW d \in Brands \ {b}
      PROVE  BrandInv(d)'
  <2>1. now \in Nat /\ now <= now
    BY <1>0 DEF Typed
  <2>2. QED
    BY <1>0, <1>4, <1>6, <2>1, BrandKept
<1>9. BrandInv(b)'
  <2>1. building[b] = 0
    BY DEF Due
  <2>2. Len(shelf'[b]) = n + 1 /\ shelf'[b][n + 1] = Started
        /\ \A i \in 1 .. n : shelf'[b][i] = shelf[b][i]
    BY <1>3, <1>6
  <2>3. \A i \in 1 .. n : SnapshotInv(b, i)'
    <3>1. TAKE i \in 1 .. n
    <3>2. SnapshotInv(b, i)
      BY <1>0, <1>n DEF BrandInv
    <3>3. shelf[b][i].pc = "done"
      BY <1>2, <2>1, <3>2 DEF SnapshotInv
    <3>4. shelf'[b][i] = shelf[b][i]
      BY <2>2
    <3>5. QED
      BY <3>2, <3>3, <3>4 DEF SnapshotInv
  <2>4. SnapshotInv(b, n + 1)'
    <3>1. now \in Nat /\ (disk[b] # Null => disk[b].built <= now)
      BY <1>0 DEF BrandInv, Typed
    <3>2. /\ Started.held = {} /\ Started.norm = Null /\ Started.built = now
      BY DEF Started
    <3>3. shelf'[b][n + 1].held = {} /\ shelf'[b][n + 1].norm = Null /\ shelf'[b][n + 1].built = now
      BY <2>2, <3>2
    <3>4. now <= now
      BY <3>1
    <3>5. QED
      BY <1>6, <2>2, <3>1, <3>3, <3>4 DEF SnapshotInv
  <2>5. {current'[b], building'[b]} \subseteq 0 .. n + 1
    <3>1. current[b] \in 0 .. n
      BY <1>0, <1>n DEF BrandInv
    <3>2. QED
      BY <1>2, <1>4, <1>6, <3>1
  <2>6. \A i \in 1 .. n + 1 : SnapshotInv(b, i)'
    <3>1. \A i \in 1 .. n + 1 : i \in 1 .. n \/ i = n + 1
      BY <1>2
    <3>2. QED
      BY <2>3, <2>4, <3>1
  <2>7. disk[b] # Null => disk[b].held \subseteq cube[b] /\ disk[b].built <= now
    BY <1>0 DEF BrandInv
  <2>8. QED
    BY <2>2, <2>5, <2>6, <2>7 DEF BrandInv
<1>10. building'[b] \in 1 .. Len(shelf'[b])
  BY <1>2, <1>3, <1>6
<1>11. QED
  BY <1>4, <1>5, <1>6, <1>7, <1>8, <1>9, <1>10

-----------------------------------------------------------------------------
(* The calls                                                               *)

\* A call that does not move keeps its place while brands grow.
LEMMA CallKept ==
  ASSUME Typed, NEW d \in Callers, CallInv(d), call'[d] = call[d], since'[d] = since[d],
         \A b \in Brands : cube[b] \subseteq cube'[b],
         \A b \in Brands : Len(shelf'[b]) \in Nat /\ Len(shelf[b]) <= Len(shelf'[b])
  PROVE  CallInv(d)'
<1> DEFINE b == call[d].brand
<1>1. b \in Brands /\ call[d].snap \in Nat
  BY DEF Typed, Calls
<1>2. Len(shelf[b]) \in Nat
  BY <1>1, Shelf
<1>3. call[d].pc \notin {"new", "done"} => call[d].snap \in 1 .. Len(shelf'[b])
  <2>1. call[d].pc \notin {"new", "done"} => call[d].snap \in 1 .. Len(shelf[b])
    BY DEF CallInv
  <2>2. Len(shelf'[b]) \in Nat /\ Len(shelf[b]) <= Len(shelf'[b])
    BY <1>1
  <2> HIDE DEF b
  <2>3. QED
    BY <1>1, <1>2, <2>1, <2>2
<1>4. call[d].index \subseteq cube'[b] /\ since[d] \subseteq cube'[b]
  BY <1>1 DEF CallInv
<1>5. QED
  BY <1>3, <1>4 DEF CallInv, Sought

\* Only the caller's record changes.
LEMMA Became ==
  ASSUME Typed, NEW c \in Callers, NEW new \in Calls, call' = [call EXCEPT ![c] = new]
  PROVE  /\ call' \in [Callers -> Calls] /\ call'[c] = new
         /\ \A d \in Callers \ {c} : call'[d] = call[d]
<1>1. call \in [Callers -> Calls]
  BY DEF Typed
<1>2. QED
  BY <1>1
\* A step of one call that touches nothing but its record, and what it saw.
LEMMA CallStepKeeps ==
  ASSUME IInv, NEW c \in Callers, NEW new \in Calls, Become(c, new),
         UNCHANGED <<now, cube, procVars, disk, restarts>>,
         since' \in [Callers -> SUBSET Cells],
         \A d \in Callers \ {c} : since'[d] = since[d],
         CallInv(c)'
  PROVE  IInv'
<1>1. Typed /\ (\A b \in Brands : BrandInv(b)) /\ \A d \in Callers : CallInv(d)
  BY DEF IInv
<1>2. /\ call' \in [Callers -> Calls] /\ call'[c] = new
      /\ \A d \in Callers \ {c} : call'[d] = call[d]
  BY <1>1, Became DEF Become
<1>3. Typed'
  BY <1>1, <1>2 DEF Typed, procVars
<1>4. \A b \in Brands : BrandInv(b)'
  BY <1>1 DEF BrandInv, SnapshotInv, procVars
<1>5. \A b \in Brands : Len(shelf'[b]) \in Nat /\ Len(shelf[b]) <= Len(shelf'[b])
  BY <1>1, Shelf DEF procVars
<1>6. \A d \in Callers \ {c} : CallInv(d)'
  BY <1>1, <1>2, <1>5, CallKept
<1>7. QED
  BY <1>3, <1>4, <1>6 DEF IInv

\* A step of a caller that writes the snapshot it holds.
LEMMA WriteKeeps ==
  ASSUME IInv, NEW c \in Callers, NEW new \in Calls, Become(c, new),
         NEW b \in Brands, NEW i \in 1 .. Len(shelf[b]), NEW s \in Snapshots,
         shelf' = [shelf EXCEPT ![b] = [shelf[b] EXCEPT ![i] = s]],
         s.held \subseteq cube[b], s.norm # Null => s.norm \subseteq cube[b],
         s.built = shelf[b][i].built, s.pc = shelf[b][i].pc,
         UNCHANGED <<now, cube, current, building, disk, restarts, since>>,
         CallInv(c)'
  PROVE  IInv'
<1>1. Typed /\ \A d \in Callers : CallInv(d)
  BY DEF IInv
<1>2. /\ call' \in [Callers -> Calls] /\ call'[c] = new
      /\ \A d \in Callers \ {c} : call'[d] = call[d]
  BY <1>1, Became DEF Become
<1>3. /\ shelf' \in [Brands -> Seq(Snapshots)]
      /\ \A d \in Brands : Len(shelf'[d]) = Len(shelf[d])
      /\ \A d \in Brands : BrandInv(d)'
  BY SnapshotStep
<1>4. Typed'
  BY <1>1, <1>2, <1>3 DEF Typed
<1>5. \A d \in Brands : Len(shelf'[d]) \in Nat /\ Len(shelf[d]) <= Len(shelf'[d])
  BY <1>1, <1>3, Shelf
<1>6. \A d \in Callers \ {c} : CallInv(d)'
  BY <1>1, <1>2, <1>5, CallKept
<1>7. QED
  BY <1>3, <1>4, <1>6 DEF IInv

\* What ending a call leaves of it.
LEMMA Ended ==
  ASSUME IInv, NEW c \in Callers, NEW verdict \in Verdicts, End(c, verdict)
  PROVE  \E new \in Calls :
           /\ Become(c, new)
           /\ new.pc = "done" /\ new.verdict = verdict /\ new.index = call[c].index
           /\ new.brand = call[c].brand /\ new.cell = call[c].cell
           /\ verdict = "missing" => new.keys = call[c].keys /\ new.broken = call[c].broken
<1>1. call[c] \in Calls
  BY DEF IInv, Typed
<1> DEFINE new == [call[c] EXCEPT !.pc = "done", !.verdict = verdict, !.snap = 0,
                            !.todo = {}, !.found = {},
                            !.keys = IF verdict = "missing" THEN @ ELSE {},
                            !.broken = IF verdict = "missing" THEN @ ELSE {}]
<1>2. new \in Calls
  BY <1>1 DEF Calls
<1>3. Become(c, new)
  BY DEF End
<1>4. /\ new.pc = "done" /\ new.verdict = verdict /\ new.index = call[c].index
      /\ new.brand = call[c].brand /\ new.cell = call[c].cell
      /\ verdict = "missing" => new.keys = call[c].keys /\ new.broken = call[c].broken
  BY <1>1 DEF Calls
<1> HIDE DEF new
<1>5. QED
  BY <1>2, <1>3, <1>4

\* A call that ends without a claim.
LEMMA EndKeeps ==
  ASSUME IInv, NEW c \in Callers, NEW verdict \in Verdicts, End(c, verdict),
         UNCHANGED <<now, cube, procVars, disk, restarts>>,
         since' \in [Callers -> SUBSET Cells],
         \A d \in Callers \ {c} : since'[d] = since[d],
         since'[c] \subseteq cube[call[c].brand],
         verdict = "missing" /\ call[c].cell[1] \in call[c].keys \ call[c].broken
           => call[c].cell \notin since'[c]
  PROVE  IInv'
<1>1. PICK new \in Calls :
           /\ Become(c, new)
           /\ new.pc = "done" /\ new.verdict = verdict /\ new.index = call[c].index
           /\ new.brand = call[c].brand /\ new.cell = call[c].cell
           /\ verdict = "missing" => new.keys = call[c].keys /\ new.broken = call[c].broken
  BY Ended
<1>2. call'[c] = new
  BY <1>1, Became DEF Become, IInv
<1>3. CallInv(c)
  BY DEF IInv
<1>4. CallInv(c)'
  BY <1>1, <1>2, <1>3 DEF CallInv
<1>5. QED
  BY <1>1, <1>4, CallStepKeeps
\* What a caller holds while it waits or works.
LEMMA Holds ==
  ASSUME IInv, NEW c \in Callers
  PROVE  /\ Typed /\ call[c] \in Calls /\ CallInv(c) /\ call[c].brand \in Brands
         /\ BrandInv(call[c].brand)
         /\ call[c].pc \notin {"new", "done"} =>
              /\ call[c].snap \in 1 .. Len(shelf[call[c].brand])
              /\ Snap(c) \in Snapshots /\ SnapshotInv(call[c].brand, call[c].snap)
<1>1. Typed /\ call[c] \in Calls /\ CallInv(c)
  BY DEF IInv, Typed
<1>2. call[c].brand \in Brands
  BY <1>1 DEF Calls
<1>3. BrandInv(call[c].brand)
  BY <1>2 DEF IInv
<1>4. ASSUME call[c].pc \notin {"new", "done"}
      PROVE  /\ call[c].snap \in 1 .. Len(shelf[call[c].brand])
             /\ Snap(c) \in Snapshots /\ SnapshotInv(call[c].brand, call[c].snap)
  <2>1. call[c].snap \in 1 .. Len(shelf[call[c].brand])
    BY <1>1, <1>4 DEF CallInv
  <2>2. Snap(c) \in Snapshots
    BY <1>1, <1>2, <2>1, Shelf DEF Snap
  <2>3. SnapshotInv(call[c].brand, call[c].snap)
    BY <1>3, <2>1 DEF BrandInv
  <2>4. QED
    BY <2>1, <2>2, <2>3
<1>5. QED
  BY <1>1, <1>2, <1>3, <1>4

-----------------------------------------------------------------------------
(* The builds                                                              *)

\* A snapshot that is not done, and where it is.
LEMMA Building ==
  ASSUME IInv, NEW b \in Brands, NEW i, Unfinished(b, i)
  PROVE  /\ Typed /\ BrandInv(b) /\ i \in 1 .. Len(shelf[b])
         /\ shelf[b][i] \in Snapshots /\ SnapshotInv(b, i)
<1>1. Typed /\ BrandInv(b)
  BY DEF IInv
<1>2. i \in 1 .. Len(shelf[b])
  BY DEF Unfinished
<1>3. QED
  BY <1>1, <1>2, Shelf DEF BrandInv

\* A build that gets the values of a target, or fails to.
LEMMA TargetKeeps ==
  ASSUME IInv, NEW b \in Brands, NEW i, NEW t \in Targets, Learn(b, i, t) \/ FailTarget(b, i, t)
  PROVE  IInv'
<1>1. Unfinished(b, i) /\ UNCHANGED <<now, cube, current, building, disk, restarts, call, since>>
  BY DEF Learn, FailTarget
<1>2. /\ Typed /\ BrandInv(b) /\ i \in 1 .. Len(shelf[b])
      /\ shelf[b][i] \in Snapshots /\ SnapshotInv(b, i)
  BY <1>1, Building
<1>3. PICK learnt \in SUBSET {x \in cube[b] : x[1] = t} :
        shelf' = [shelf EXCEPT ![b] =
          [shelf[b] EXCEPT ![i] = [shelf[b][i] EXCEPT !.todo = @ \ {t}, !.held = @ \cup learnt]]]
  <2> DEFINE all == {x \in cube[b] : x[1] = t}
             Put(new) == [shelf EXCEPT ![b] =
               [shelf[b] EXCEPT ![i] = [shelf[b][i] EXCEPT !.todo = @ \ {t}, !.held = @ \cup new]]]
  <2>0. shelf \in [Brands -> Seq(Snapshots)] /\ shelf[b] \in Seq(Snapshots)
    BY <1>2, Shelf DEF Typed
  <2>1. CASE Learn(b, i, t)
    <3>1. shelf' = [shelf EXCEPT ![b][i].todo = @ \ {t}, ![b][i].held = @ \cup all]
      BY <2>1 DEF Learn
    <3> HIDE DEF all
    <3>2. [shelf EXCEPT ![b][i].todo = @ \ {t}, ![b][i].held = @ \cup all] = Put(all)
      BY <1>2, <2>0
    <3>3. all \in SUBSET {x \in cube[b] : x[1] = t}
      BY DEF all
    <3> HIDE DEF Put
    <3>4. shelf' = Put(all)
      BY <3>1, <3>2
    <3>5. QED
      BY <3>3, <3>4 DEF Put
  <2>2. CASE FailTarget(b, i, t)
    <3>1. [shelf[b][i] EXCEPT !.todo = @ \ {t}] =
            [shelf[b][i] EXCEPT !.todo = @ \ {t}, !.held = @ \cup {}]
      BY <1>2 DEF Snapshots
    <3>2. shelf' = [shelf EXCEPT ![b][i].todo = @ \ {t}]
      BY <2>2 DEF FailTarget
    <3>3. [shelf EXCEPT ![b][i].todo = @ \ {t}] =
            [shelf EXCEPT ![b] = [shelf[b] EXCEPT ![i] = [shelf[b][i] EXCEPT !.todo = @ \ {t}]]]
      BY <1>2, <2>0
    <3>4. shelf' = Put({})
      BY <3>1, <3>2, <3>3
    <3>5. QED
      BY <3>4
  <2>3. QED
    BY <2>1, <2>2
<1> DEFINE s == [shelf[b][i] EXCEPT !.todo = @ \ {t}, !.held = @ \cup learnt]
<1>4. /\ s.held = shelf[b][i].held \cup learnt /\ s.norm = shelf[b][i].norm
      /\ s.built = shelf[b][i].built /\ s.pc = shelf[b][i].pc
  BY <1>2 DEF Snapshots
<1>5. learnt \subseteq cube[b] /\ cube[b] \subseteq Cells
  BY <1>2 DEF Typed
<1>6. s \in Snapshots
  BY <1>2, <1>5 DEF Snapshots
<1>7. shelf' = [shelf EXCEPT ![b] = [shelf[b] EXCEPT ![i] = s]]
  BY <1>3
<1>8. s.held \subseteq cube[b] /\ (s.norm # Null => s.norm \subseteq cube[b])
  BY <1>2, <1>4, <1>5 DEF SnapshotInv
<1>10. s.pc # "done" => shelf[b][i].pc # "done"
  BY <1>4
<1> HIDE DEF s
<1>11. /\ shelf' \in [Brands -> Seq(Snapshots)]
       /\ \A d \in Brands : Len(shelf'[d]) = Len(shelf[d])
       /\ \A d \in Brands : BrandInv(d)'
  BY <1>1, <1>2, <1>4, <1>6, <1>7, <1>8, <1>10, SnapshotStep
<1>12. Typed'
  BY <1>1, <1>2, <1>11 DEF Typed
<1>13. \A d \in Brands : Len(shelf'[d]) \in Nat /\ Len(shelf[d]) <= Len(shelf'[d])
  BY <1>2, <1>11, Shelf
<1>14. \A d \in Callers : CallInv(d)'
  BY <1>1, <1>2, <1>13, CallKept DEF IInv
<1>15. QED
  BY <1>11, <1>12, <1>14 DEF IInv

\* A snapshot goes on in its build: it is served, or its build ends and the
\* database may have it.
LEMMA StageKeeps ==
  ASSUME IInv, NEW b \in Brands, NEW i, Publish(b, i) \/ Save(b, i) \/ SaveFails(b, i)
  PROVE  IInv'
<1>1. Unfinished(b, i) /\ UNCHANGED <<now, cube, restarts, call, since>>
  BY DEF Publish, Save, SaveFails, EndBuild
<1>2. /\ Typed /\ BrandInv(b) /\ i \in 1 .. Len(shelf[b])
      /\ shelf[b][i] \in Snapshots /\ SnapshotInv(b, i)
  BY <1>1, Building
<1>3. shelf \in [Brands -> Seq(Snapshots)] /\ shelf[b] \in Seq(Snapshots)
  BY <1>2, Shelf DEF Typed
<1>4. PICK stage \in {"save", "done"} :
        /\ shelf' = [shelf EXCEPT ![b] = [shelf[b] EXCEPT ![i] = [shelf[b][i] EXCEPT !.pc = stage]]]
        /\ stage = "save" => Publish(b, i)
        /\ stage = "done" => EndBuild(b, i) /\ (Save(b, i) \/ SaveFails(b, i))
  <2> DEFINE To(x) == [shelf EXCEPT ![b] = [shelf[b] EXCEPT ![i] = [shelf[b][i] EXCEPT !.pc = x]]]
  <2>0. \A x : [shelf EXCEPT ![b][i].pc = x] = To(x)
    BY <1>2, <1>3
  <2> HIDE DEF To
  <2>1. CASE Publish(b, i)
    <3>1. shelf' = [shelf EXCEPT ![b][i].pc = "save"]
      BY <2>1 DEF Publish
    <3>2. QED
      BY <2>0, <2>1, <3>1 DEF To
  <2>2. CASE Save(b, i) \/ SaveFails(b, i)
    <3>1. EndBuild(b, i)
      BY <2>2 DEF Save, SaveFails
    <3>2. shelf' = [shelf EXCEPT ![b][i].pc = "done"]
      BY <3>1 DEF EndBuild
    <3>3. QED
      BY <2>0, <2>2, <3>1, <3>2 DEF To
  <2>3. QED
    BY <2>1, <2>2
<1> DEFINE s == [shelf[b][i] EXCEPT !.pc = stage]
<1>5. /\ s \in Snapshots /\ s.pc = stage /\ s.held = shelf[b][i].held
      /\ s.norm = shelf[b][i].norm /\ s.built = shelf[b][i].built
  BY <1>2 DEF Snapshots
<1>6. shelf' = [shelf EXCEPT ![b] = [shelf[b] EXCEPT ![i] = s]]
  BY <1>4
<1> HIDE DEF s
<1>7. /\ shelf' \in [Brands -> Seq(Snapshots)]
      /\ \A d \in Brands : Len(shelf'[d]) = Len(shelf[d])
      /\ \A d \in Brands \ {b} : shelf'[d] = shelf[d]
      /\ shelf'[b][i] = s
      /\ \A j \in (1 .. Len(shelf[b])) \ {i} : shelf'[b][j] = shelf[b][j]
  BY <1>2, <1>5, <1>6, OneWritten
<1>8. /\ current' \in [Brands -> Nat] /\ building' \in [Brands -> Nat]
      /\ disk' \in [Brands -> Rows \cup {Null}]
      /\ \A d \in Brands \ {b} :
           current'[d] = current[d] /\ building'[d] = building[d] /\ disk'[d] = disk[d]
      /\ {current'[b], building'[b]} \subseteq {current[b], building[b], 0, i}
      /\ stage = "save" => building' = building /\ disk' = disk
      /\ disk'[b] = disk[b] \/ (disk'[b].held = s.held /\ disk'[b].built = s.built)
  <2>1. /\ current \in [Brands -> Nat] /\ building \in [Brands -> Nat] /\ i \in Nat
        /\ disk \in [Brands -> Rows \cup {Null}]
    BY <1>2 DEF Typed
  <2>2. CASE stage = "save"
    <3>1. current' = [current EXCEPT ![b] = i] /\ building' = building /\ disk' = disk
      BY <1>4, <2>2 DEF Publish
    <3>2. QED
      BY <2>1, <3>1
  <2>3. CASE stage = "done"
    <3>1. current' = current /\ building' = [building EXCEPT ![b] = 0]
      BY <1>4, <2>3 DEF EndBuild
    <3>2. disk' = disk \/ disk' = [disk EXCEPT ![b] = [built |-> s.built, held |-> s.held]]
      BY <1>4, <1>5, <2>3 DEF Save, SaveFails
    <3>3. [built |-> s.built, held |-> s.held] \in Rows
      BY <1>5 DEF Rows, Snapshots
    <3>4. QED
      BY <2>1, <2>3, <3>1, <3>2, <3>3
  <2>4. QED
    BY <2>2, <2>3
<1>9. Typed'
  BY <1>1, <1>2, <1>7, <1>8 DEF Typed
<1>10. ASSUME NEW d \in Brands \ {b}
       PROVE  BrandInv(d)'
  <2>1. now' \in Nat /\ now <= now'
    BY <1>1, <1>2 DEF Typed
  <2>2. QED
    BY <1>1, <1>2, <1>7, <1>8, <2>1, BrandKept DEF IInv
<1>11. BrandInv(b)'
  <2>1. i = building[b] /\ i = Len(shelf[b]) /\ i # 0
    BY <1>1, <1>2 DEF Unfinished, SnapshotInv
  <2>2. ASSUME NEW j \in 1 .. Len(shelf[b])
        PROVE  SnapshotInv(b, j)'
    <3>1. SnapshotInv(b, j)
      BY <1>2 DEF BrandInv
    <3>2. CASE j # i
      <4>1. shelf'[b][j] = shelf[b][j] /\ shelf[b][j].pc = "done"
        BY <1>7, <2>1, <3>1, <3>2 DEF SnapshotInv
      <4>2. QED
        BY <1>1, <3>1, <4>1 DEF SnapshotInv
    <3>3. CASE j = i /\ stage = "save"
      <4>1. /\ building'[b] = building[b] /\ disk'[b] = disk[b] /\ Len(shelf'[b]) = Len(shelf[b])
            /\ shelf'[b][j] = s /\ (disk[b] # Null => disk[b].built <= s.built)
        BY <1>1, <1>2, <1>5, <1>7, <1>8, <3>3 DEF SnapshotInv, Unfinished
      <4>2. QED
        BY <1>1, <1>5, <2>1, <3>1, <3>3, <4>1 DEF SnapshotInv
    <3>4. CASE j = i /\ stage = "done"
      BY <1>1, <1>5, <1>7, <3>1, <3>4 DEF SnapshotInv
    <3>5. QED
      BY <3>2, <3>3, <3>4
  <2>3. disk'[b] # Null => disk'[b].held \subseteq cube'[b] /\ disk'[b].built <= now'
    BY <1>1, <1>2, <1>5, <1>8 DEF BrandInv, SnapshotInv
  <2>4. {current'[b], building'[b]} \subseteq 0 .. Len(shelf'[b])
    <3>1. Len(shelf[b]) \in Nat /\ {current[b], building[b]} \subseteq 0 .. Len(shelf[b])
      BY <1>2, Shelf DEF BrandInv
    <3>2. QED
      BY <1>2, <1>7, <1>8, <3>1
  <2>5. QED
    BY <1>7, <2>2, <2>3, <2>4 DEF BrandInv
<1>12. \A d \in Brands : Len(shelf'[d]) \in Nat /\ Len(shelf[d]) <= Len(shelf'[d])
  BY <1>2, <1>7, Shelf
<1>13. \A d \in Callers : CallInv(d)'
  BY <1>1, <1>2, <1>12, CallKept DEF IInv
<1>14. QED
  BY <1>9, <1>10, <1>11, <1>13 DEF IInv
\* A request that starts a build, when one is due.
LEMMA WarmKeeps ==
  ASSUME IInv, NEW b \in Brands, Warm(b)
  PROVE  IInv'
<1>1. Due(b) /\ StartBuild(b) /\ UNCHANGED <<now, cube, disk, restarts, call, since>>
  BY DEF Warm
<1>2. /\ shelf' \in [Brands -> Seq(Snapshots)]
      /\ current' \in [Brands -> Nat] /\ building' \in [Brands -> Nat]
      /\ \A d \in Brands : Len(shelf[d]) <= Len(shelf'[d])
      /\ \A d \in Brands : BrandInv(d)'
  BY <1>1, StartStep
<1>3. Typed'
  BY <1>1, <1>2 DEF IInv, Typed
<1>4. \A d \in Brands : Len(shelf'[d]) \in Nat
  BY <1>2
<1>5. \A d \in Callers : CallInv(d)'
  BY <1>1, <1>2, <1>4, CallKept DEF IInv
<1>6. QED
  BY <1>2, <1>3, <1>5 DEF IInv

-----------------------------------------------------------------------------
(* resolve                                                                 *)

\* get: the caller has the snapshot that is served, or waits for the one that
\* is being built.
LEMMA GetKeeps ==
  ASSUME IInv, NEW c \in Callers, Get(c)
  PROVE  IInv'
<1> DEFINE b == call[c].brand
<1>1. /\ Typed /\ call[c] \in Calls /\ CallInv(c) /\ b \in Brands /\ BrandInv(b)
  BY Holds
<1>2. call[c].pc = "new" /\ UNCHANGED <<now, cube, disk, restarts>>
      /\ since' = [since EXCEPT ![c] = cube[b]]
  BY DEF Get
<1>3. /\ shelf' \in [Brands -> Seq(Snapshots)]
      /\ current' \in [Brands -> Nat] /\ building' \in [Brands -> Nat]
      /\ \A d \in Brands : Len(shelf[d]) <= Len(shelf'[d])
      /\ \A d \in Brands : BrandInv(d)'
      /\ current'[b] = current[b] /\ (current[b] = 0 => building'[b] # 0)
  <2>1. CASE Due(b)
    <3>1. StartBuild(b)
      BY <2>1 DEF Get
    <3>2. current' = current
      BY <3>1 DEF StartBuild
    <3> HIDE DEF b
    <3>3. QED
      BY <1>1, <1>2, <2>1, <3>1, <3>2, StartStep
  <2>2. CASE ~Due(b)
    <3>1. UNCHANGED procVars
      BY <2>2 DEF Get
    <3>2. \A d \in Brands : BrandInv(d)'
      BY <1>2, <3>1 DEF IInv, BrandInv, SnapshotInv, procVars
    <3>3. current[b] = 0 => building[b] # 0
      BY <2>2 DEF Due, Fresh
    <3>4. \A d \in Brands : Len(shelf[d]) \in Nat
      BY <1>1, Shelf
    <3>5. QED
      BY <1>1, <3>1, <3>2, <3>3, <3>4 DEF Typed, procVars
  <2>3. QED
    BY <2>1, <2>2
<1>4. PICK pc \in {"matching", "waiting"}, snap \in 1 .. Len(shelf'[b]) :
        Become(c, [call[c] EXCEPT !.pc = pc, !.snap = snap])
  <2>1. {current'[b], building'[b]} \subseteq 0 .. Len(shelf'[b]) /\ Len(shelf'[b]) \in Nat
    BY <1>1, <1>3 DEF BrandInv
  <2>2. Become(c, IF current[b] # 0
               THEN [call[c] EXCEPT !.pc = "matching", !.snap = current[b]]
               ELSE [call[c] EXCEPT !.pc = "waiting", !.snap = building'[b]])
    BY DEF Get
  <2>3. CASE current[b] # 0
    <3>1. current[b] \in 1 .. Len(shelf'[b])
      BY <1>3, <2>1, <2>3
    <3>2. QED
      BY <2>2, <2>3, <3>1
  <2>4. CASE current[b] = 0
    <3>1. building'[b] \in 1 .. Len(shelf'[b])
      BY <1>3, <2>1, <2>4
    <3>2. QED
      BY <2>2, <2>4, <3>1
  <2>5. QED
    BY <2>3, <2>4
<1> DEFINE new == [call[c] EXCEPT !.pc = pc, !.snap = snap]
<1>5. /\ new \in Calls /\ new.pc = pc /\ new.snap = snap /\ new.brand = b
      /\ new.index = call[c].index /\ new.verdict = call[c].verdict
  <2>1. snap \in Nat
    BY <1>1, <1>3
  <2>2. QED
    BY <1>1, <2>1 DEF Calls
<1> HIDE DEF new
<1>6. /\ call' \in [Callers -> Calls] /\ call'[c] = new
      /\ \A d \in Callers \ {c} : call'[d] = call[d]
  BY <1>1, <1>4, <1>5, Became DEF Become, new
<1>7. /\ since' \in [Callers -> SUBSET Cells] /\ since'[c] = cube[b]
      /\ \A d \in Callers \ {c} : since'[d] = since[d]
  BY <1>1, <1>2 DEF Typed
<1>8. Typed'
  BY <1>1, <1>2, <1>3, <1>6, <1>7 DEF Typed
<1>9. CallInv(c)'
  <2>1. call[c].verdict # "missing" /\ call[c].index \subseteq cube[b]
    BY <1>1, <1>2 DEF CallInv
  <2> HIDE DEF b
  <2>2. QED
    BY <1>2, <1>5, <1>6, <1>7, <2>1 DEF CallInv
<1>10. \A d \in Brands : Len(shelf'[d]) \in Nat
  BY <1>3
<1>11. \A d \in Callers \ {c} : CallInv(d)'
  BY <1>1, <1>2, <1>3, <1>6, <1>7, <1>10, CallKept DEF IInv
<1>12. QED
  BY <1>3, <1>8, <1>9, <1>11 DEF IInv

\* Waiting ends, or the caller gives up.
LEMMA WaitKeeps ==
  ASSUME IInv, NEW c \in Callers, GiveUp(c) \/ Woken(c)
  PROVE  IInv'
<1>1. Typed /\ call[c] \in Calls /\ CallInv(c)
  BY Holds
<1>2. /\ UNCHANGED <<now, cube, procVars, disk, restarts, since>> /\ call[c].pc = "waiting"
      /\ since \in [Callers -> SUBSET Cells]
  BY <1>1 DEF GiveUp, Woken, Typed
<1>3. CASE GiveUp(c)
  <2>1. End(c, "warming") /\ "warming" \in Verdicts
    BY <1>3 DEF GiveUp, Verdicts
  <2>2. since[c] \subseteq cube[call[c].brand]
    BY <1>1 DEF CallInv
  <2>3. QED
    BY <1>2, <2>1, <2>2, EndKeeps
<1>4. CASE Woken(c)
  <2> DEFINE new == [call[c] EXCEPT !.pc = "matching"]
  <2>1. new \in Calls /\ Become(c, new)
    BY <1>1, <1>4 DEF Calls, Woken
  <2>2. /\ new.pc = "matching" /\ new.snap = call[c].snap /\ new.brand = call[c].brand
        /\ new.index = call[c].index /\ new.verdict = call[c].verdict
    BY <1>1 DEF Calls
  <2> HIDE DEF new
  <2>3. call'[c] = new
    BY <1>1, <2>1, Became DEF Become
  <2>4. CallInv(c)'
    BY <1>1, <1>2, <2>2, <2>3 DEF CallInv, procVars
  <2>5. QED
    BY <1>2, <2>1, <2>4, CallStepKeeps
<1>5. QED
  BY <1>3, <1>4

\* by_norm: the index is of what the snapshot held, and is kept.
LEMMA IndexKeeps ==
  ASSUME IInv, NEW c \in Callers, Match(c) \/ Store(c) \/ Return(c)
  PROVE  IInv'
<1>1. Typed /\ call[c] \in Calls /\ CallInv(c) /\ call[c].brand \in Brands
  BY Holds
<1>2. /\ call[c].pc \notin {"new", "done", "probing"} /\ UNCHANGED <<now, cube, disk, restarts, since>>
      /\ since \in [Callers -> SUBSET Cells]
  BY <1>1 DEF Match, Store, Return, Typed
<1>3. /\ call[c].snap \in 1 .. Len(shelf[call[c].brand])
      /\ Snap(c) \in Snapshots /\ SnapshotInv(call[c].brand, call[c].snap)
  BY <1>2, Holds
<1>4. CASE Match(c)
  <2>1. PICK pc \in {"storing", "returning"}, index \in {call[c].index, Snap(c).held} :
          Become(c, [call[c] EXCEPT !.pc = pc, !.index = index])
    <3>1. CASE Snap(c).norm = Null
      BY <1>4, <3>1 DEF Match
    <3>2. CASE Snap(c).norm # Null
      <4>1. [call[c] EXCEPT !.pc = "returning"] =
              [call[c] EXCEPT !.pc = "returning", !.index = call[c].index]
        BY <1>1 DEF Calls
      <4>2. Become(c, [call[c] EXCEPT !.pc = "returning"])
        BY <1>4, <3>2 DEF Match
      <4>3. QED
        BY <4>1, <4>2
    <3>3. QED
      BY <3>1, <3>2
  <2> DEFINE new == [call[c] EXCEPT !.pc = pc, !.index = index]
  <2>2. index \subseteq cube[call[c].brand] /\ index \in SUBSET Cells
    <3>1. Snap(c).held \subseteq cube[call[c].brand]
      BY <1>3 DEF SnapshotInv, Snap
    <3>2. QED
      BY <1>1, <3>1 DEF CallInv, Typed
  <2>3. new \in Calls /\ new.pc = pc /\ new.snap = call[c].snap
        /\ new.brand = call[c].brand /\ new.index = index /\ new.verdict = call[c].verdict
    BY <1>1, <2>2 DEF Calls
  <2> HIDE DEF new
  <2>4. call'[c] = new
    BY <1>1, <2>1, <2>3, Became DEF Become, new
  <2>5. UNCHANGED procVars
    BY <1>4 DEF Match
  <2>6. CallInv(c)'
    BY <1>1, <1>2, <1>3, <2>2, <2>3, <2>4, <2>5 DEF CallInv, procVars
  <2>7. Become(c, new)
    BY <2>1 DEF new
  <2>8. QED
    BY <1>2, <2>3, <2>5, <2>6, <2>7, CallStepKeeps
<1>5. CASE Store(c)
  <2> DEFINE b == call[c].brand
             i == call[c].snap
             s == [shelf[b][i] EXCEPT !.norm = call[c].index]
             new == [call[c] EXCEPT !.pc = "returning"]
  <2>1. /\ shelf' = [shelf EXCEPT ![b][i].norm = call[c].index] /\ Become(c, new)
        /\ UNCHANGED <<now, cube, current, building, disk, restarts, since>>
    BY <1>5 DEF Store
  <2>2. call[c].index \in SUBSET Cells /\ call[c].index \subseteq cube[b]
    BY <1>1 DEF CallInv, Calls
  <2>3. s \in Snapshots /\ s.held = shelf[b][i].held /\ s.norm = call[c].index
        /\ s.built = shelf[b][i].built /\ s.pc = shelf[b][i].pc
    BY <1>3, <2>2 DEF Snap, Snapshots
  <2>4. shelf' = [shelf EXCEPT ![b] = [shelf[b] EXCEPT ![i] = s]]
    BY <2>1
  <2>5. new \in Calls /\ new.pc = "returning" /\ new.snap = i
        /\ new.brand = b /\ new.index = call[c].index /\ new.verdict = call[c].verdict
    BY <1>1 DEF Calls
  <2>6. s.held \subseteq cube[b] /\ s.norm \subseteq cube[b]
    BY <1>3, <2>2, <2>3 DEF SnapshotInv
  <2> HIDE DEF new, s
  <2>7. call'[c] = new
    BY <1>1, <2>1, <2>5, Became DEF Become
  <2>8. Len(shelf'[b]) = Len(shelf[b])
    BY <1>1, <1>3, <2>3, <2>4, OneWritten
  <2>9. CallInv(c)'
    BY <1>1, <1>2, <1>3, <2>1, <2>5, <2>7, <2>8 DEF CallInv
  <2> HIDE DEF b, i
  <2>10. b \in Brands /\ i \in 1 .. Len(shelf[b])
    BY <1>1, <1>3 DEF b, i
  <2>11. QED
    BY <2>1, <2>3, <2>4, <2>5, <2>6, <2>9, <2>10, WriteKeeps
<1>6. CASE Return(c)
  <2>1. UNCHANGED procVars
    BY <1>6 DEF Return
  <2>2. CASE Snap(c).norm = Null
    <3>1. End(c, "failed") /\ "failed" \in Verdicts
      BY <1>6, <2>2 DEF Return, Verdicts
    <3>2. since[c] \subseteq cube[call[c].brand]
      BY <1>1 DEF CallInv
    <3>3. QED
      BY <1>2, <2>1, <3>1, <3>2, EndKeeps
  <2>3. CASE Snap(c).norm # Null
    <3> DEFINE new == [call[c] EXCEPT !.pc = "done", !.verdict = "resolved", !.snap = 0,
                                    !.index = Snap(c).norm]
    <3>1. Snap(c).norm \in SUBSET Cells /\ Snap(c).norm \subseteq cube[call[c].brand]
      BY <1>3, <2>3 DEF Snapshots, SnapshotInv, Snap
    <3>2. new \in Calls /\ new.pc = "done" /\ new.verdict = "resolved"
          /\ new.brand = call[c].brand /\ new.index = Snap(c).norm
      BY <1>1, <3>1 DEF Calls, Verdicts
    <3>3. Become(c, new)
      BY <1>6, <2>3 DEF Return
    <3> HIDE DEF new
    <3>4. call'[c] = new
      BY <1>1, <3>2, <3>3, Became DEF Become
    <3>5. CallInv(c)'
      BY <1>1, <1>2, <3>1, <3>2, <3>4 DEF CallInv
    <3>6. QED
      BY <1>2, <2>1, <3>2, <3>3, <3>5, CallStepKeeps
  <2>4. QED
    BY <2>2, <2>3
<1>7. QED
  BY <1>4, <1>5, <1>6
-----------------------------------------------------------------------------
(* verify_filter_values                                                    *)

\* The question is put: there is nothing to ask about, or every dimension the
\* snapshot has is to be probed.
LEMMA VerifyKeeps ==
  ASSUME IInv, NEW c \in Callers, Verify(c)
  PROVE  IInv'
<1> DEFINE b == call[c].brand
<1>1. Typed /\ call[c] \in Calls /\ CallInv(c) /\ b \in Brands /\ BrandInv(b)
  BY Holds
<1>2. /\ call[c].pc = "new" /\ UNCHANGED <<now, cube, procVars, disk, restarts>>
      /\ since' = [since EXCEPT ![c] = cube[b]]
  BY DEF Verify
<1>3. /\ since' \in [Callers -> SUBSET Cells] /\ since'[c] = cube[b]
      /\ \A d \in Callers \ {c} : since'[d] = since[d]
  BY <1>1, <1>2 DEF Typed
<1> DEFINE known == current[b] = 0 \/ call[c].cell \in shelf[b][current[b]].held
<1>4. CASE known
  <2>1. End(c, "nothing to say") /\ "nothing to say" \in Verdicts
    BY <1>4 DEF Verify, Verdicts
  <2>2. since'[c] \subseteq cube[call[c].brand]
    BY <1>3
  <2>3. QED
    BY <1>2, <1>3, <2>1, <2>2, EndKeeps
<1>5. CASE ~known
  <2> DEFINE keys == Kept(shelf[b][current[b]])
             new == [call[c] EXCEPT !.pc = "probing", !.snap = current[b],
                                    !.keys = keys, !.todo = keys]
  <2>1. current[b] \in 1 .. Len(shelf[b])
    <3>1. current[b] \in 0 .. Len(shelf[b]) /\ Len(shelf[b]) \in Nat /\ current[b] # 0
      BY <1>1, <1>5, Shelf DEF BrandInv
    <3>2. QED
      BY <3>1
  <2>2. keys \in SUBSET Targets
    <3>1. shelf[b][current[b]].held \in SUBSET Cells
      BY <1>1, <2>1, Shelf DEF Snapshots
    <3>2. QED
      BY <3>1 DEF Kept, Cells
  <2>3. Become(c, new)
    BY <1>5 DEF Verify
  <2>4. current[b] \in Nat
    BY <1>1 DEF Typed
  <2> HIDE DEF keys, known
  <2>5. /\ new \in Calls /\ new.pc = "probing" /\ new.snap = current[b] /\ new.brand = b
        /\ new.index = call[c].index /\ new.verdict = call[c].verdict
        /\ new.keys = keys /\ new.todo = keys
    BY <1>1, <2>2, <2>4 DEF Calls
  <2> HIDE DEF new
  <2>6. call'[c] = new
    BY <1>1, <2>3, <2>5, Became DEF Become
  <2>7. call[c].verdict # "missing" /\ call[c].index \subseteq cube[b]
    BY <1>1, <1>2 DEF CallInv
  <2>8. CallInv(c)'
    <3>1. shelf' = shelf /\ cube' = cube
      BY <1>2 DEF procVars
    <3> HIDE DEF b
    <3>2. QED
      BY <1>3, <2>1, <2>5, <2>6, <2>7, <3>1 DEF CallInv
  <2> HIDE DEF b
  <2>9. QED
    BY <1>2, <1>3, <2>3, <2>5, <2>8, CallStepKeeps
<1>6. QED
  BY <1>4, <1>5

\* A probe is answered with the value, which goes into the snapshot; a value
\* that occurs is told apart from one that did not.
LEMMA HitKeeps ==
  ASSUME IInv, NEW c \in Callers, NEW t \in Targets, Hit(c, t)
  PROVE  IInv'
<1> DEFINE b == call[c].brand
           i == call[c].snap
           s == [shelf[b][i] EXCEPT !.held = @ \cup {Sought(c, t)}, !.norm = Null]
           new == [call[c] EXCEPT !.todo = @ \ {t}, !.found = @ \cup {t}]
<1>1. Typed /\ call[c] \in Calls /\ CallInv(c) /\ b \in Brands
  BY Holds
<1>2. /\ call[c].pc = "probing" /\ Sought(c, t) \in cube[b] /\ Become(c, new)
      /\ UNCHANGED <<now, cube, current, building, disk, restarts, since>>
  BY DEF Hit, Occurs
<1>3. i \in 1 .. Len(shelf[b]) /\ shelf[b][i] \in Snapshots /\ SnapshotInv(b, i)
  BY <1>2, Holds DEF Snap
<1>4. Sought(c, t) \in Cells
  BY <1>1, <1>2 DEF Typed
<1>5. /\ s \in Snapshots /\ s.held = shelf[b][i].held \cup {Sought(c, t)} /\ s.norm = Null
      /\ s.built = shelf[b][i].built /\ s.pc = shelf[b][i].pc
  <2> HIDE DEF b, i
  <2>1. QED
    BY <1>3, <1>4 DEF Snapshots
<1>6. shelf' = [shelf EXCEPT ![b] = [shelf[b] EXCEPT ![i] = s]]
  <2>1. shelf' = [shelf EXCEPT ![b][i].held = @ \cup {Sought(c, t)}, ![b][i].norm = Null]
    BY DEF Hit
  <2>2. s = [shelf[b][i] EXCEPT !.held = @ \cup {Sought(c, t)}, !.norm = Null]
    BY DEF s
  <2> HIDE DEF b, i, s
  <2>3. shelf \in [Brands -> Seq(Snapshots)] /\ shelf[b] \in Seq(Snapshots)
        /\ b \in Brands /\ i \in 1 .. Len(shelf[b])
    BY <1>1, <1>3, Shelf DEF Typed, b, i
  <2>4. [shelf EXCEPT ![b][i].held = @ \cup {Sought(c, t)}, ![b][i].norm = Null]
          = [shelf EXCEPT ![b] = [shelf[b] EXCEPT ![i] = s]]
    BY <2>2, <2>3
  <2>5. QED
    BY <2>1, <2>4 DEF b, i
<1>7. s.held \subseteq cube[b]
  BY <1>2, <1>3, <1>5 DEF SnapshotInv
<1>8. /\ new \in Calls /\ new.pc = "probing" /\ new.snap = i /\ new.brand = b
      /\ new.index = call[c].index /\ new.verdict = call[c].verdict /\ new.cell = call[c].cell
      /\ new.keys = call[c].keys /\ new.broken = call[c].broken
      /\ new.todo = call[c].todo \ {t} /\ new.found = call[c].found \cup {t}
  BY <1>1, <1>2 DEF Calls
<1> HIDE DEF s, new
<1>9. call'[c] = new
  BY <1>1, <1>2, <1>8, Became DEF Become
<1>10. Len(shelf'[b]) = Len(shelf[b])
  BY <1>1, <1>3, <1>5, <1>6, OneWritten
<1>11. CallInv(c)'
  BY <1>1, <1>2, <1>3, <1>8, <1>9, <1>10 DEF CallInv, Sought
<1> HIDE DEF b, i
<1>12. QED
  BY <1>1, <1>2, <1>3, <1>5, <1>6, <1>7, <1>8, <1>11, WriteKeeps

\* A probe finds nothing, or is not answered.
LEMMA ProbeKeeps ==
  ASSUME IInv, NEW c \in Callers, NEW t \in Targets, Miss(c, t) \/ Break(c, t)
  PROVE  IInv'
<1>1. Typed /\ call[c] \in Calls /\ CallInv(c)
  BY Holds
<1>2. /\ UNCHANGED <<now, cube, procVars, disk, restarts, since>> /\ call[c].pc = "probing"
      /\ since \in [Callers -> SUBSET Cells]
  BY <1>1 DEF Miss, Break, Typed
<1>3. PICK broken \in SUBSET {t} :
        /\ Become(c, [call[c] EXCEPT !.todo = @ \ {t}, !.broken = @ \cup broken])
        /\ t \in broken \/ ~Occurs(c, t)
  <2>1. CASE Miss(c, t)
    <3>1. [call[c] EXCEPT !.todo = @ \ {t}] = [call[c] EXCEPT !.todo = @ \ {t}, !.broken = @ \cup {}]
      BY <1>1 DEF Calls
    <3>2. Become(c, [call[c] EXCEPT !.todo = @ \ {t}]) /\ ~Occurs(c, t)
      BY <2>1 DEF Miss
    <3>3. Become(c, [call[c] EXCEPT !.todo = @ \ {t}, !.broken = @ \cup {}])
      BY <3>1, <3>2 DEF Become
    <3>4. {} \in SUBSET {t}
      OBVIOUS
    <3>5. QED
      BY <3>2, <3>3, <3>4
  <2>2. CASE Break(c, t)
    BY <2>2 DEF Break
  <2>3. QED
    BY <2>1, <2>2
<1> DEFINE new == [call[c] EXCEPT !.todo = @ \ {t}, !.broken = @ \cup broken]
<1>4. /\ new \in Calls /\ new.pc = "probing" /\ new.snap = call[c].snap
      /\ new.brand = call[c].brand /\ new.found = call[c].found
      /\ new.index = call[c].index /\ new.verdict = call[c].verdict /\ new.cell = call[c].cell
      /\ new.keys = call[c].keys /\ new.broken = call[c].broken \cup broken
      /\ new.todo = call[c].todo \ {t}
  BY <1>1, <1>2 DEF Calls
<1>5. Become(c, new)
  BY <1>3
<1> HIDE DEF new
<1>6. call'[c] = new
  BY <1>1, <1>4, <1>5, Became DEF Become
<1>7. t \in broken \/ Sought(c, t) \notin since[c]
  BY <1>1, <1>3 DEF Occurs, CallInv
<1>8. CallInv(c)'
  BY <1>1, <1>2, <1>4, <1>6, <1>7 DEF CallInv, Sought, procVars
<1>9. QED
  BY <1>2, <1>4, <1>5, <1>8, CallStepKeeps

\* A cell is its target and its value.
LEMMA Pair ==
  ASSUME NEW x \in Cells
  PROVE  <<x[1], x[2]>> = x
BY DEF Cells

\* Every probe is answered, or the time is up.
LEMMA ConcludeKeeps ==
  ASSUME IInv, NEW c \in Callers, Conclude(c) \/ Expire(c)
  PROVE  IInv'
<1>1. Typed /\ call[c] \in Calls /\ CallInv(c)
  BY Holds
<1>2. /\ UNCHANGED <<now, cube, procVars, disk, restarts, since>> /\ call[c].pc = "probing"
      /\ since \in [Callers -> SUBSET Cells] /\ since[c] \subseteq cube[call[c].brand]
  BY <1>1 DEF Conclude, Expire, Typed, CallInv
<1>3. PICK verdict \in {"nothing to say", "missing"} :
        /\ End(c, verdict)
        /\ verdict = "missing" => call[c].todo = {} /\ call[c].cell[1] \notin call[c].found
  <2>1. CASE Expire(c)
    BY <2>1 DEF Expire
  <2>2. CASE Conclude(c)
    <3>1. CASE call[c].cell[1] \in call[c].found
      <4>1. End(c, "nothing to say")
        BY <2>2, <3>1 DEF Conclude
      <4>2. QED
        BY <4>1
    <3>2. CASE call[c].cell[1] \notin call[c].found
      <4>1. End(c, "missing") /\ call[c].todo = {}
        BY <2>2, <3>2 DEF Conclude
      <4>2. QED
        BY <3>2, <4>1
    <3>3. QED
      BY <3>1, <3>2
  <2>3. QED
    BY <2>1, <2>2
<1>4. verdict \in Verdicts
  BY DEF Verdicts
<1>5. ASSUME verdict = "missing", call[c].cell[1] \in call[c].keys \ call[c].broken
      PROVE  call[c].cell \notin since[c]
  <2>1. Sought(c, call[c].cell[1]) \notin since[c]
    BY <1>1, <1>2, <1>3, <1>5 DEF CallInv
  <2>2. call[c].cell \in Cells
    BY <1>1 DEF Calls
  <2>3. Sought(c, call[c].cell[1]) = call[c].cell
    BY <2>2, Pair DEF Sought
  <2>4. QED
    BY <2>1, <2>3
<1>6. QED
  BY <1>2, <1>3, <1>4, <1>5, EndKeeps

-----------------------------------------------------------------------------
(* The world, and the process                                              *)

\* More occurs in Cube, or time passes.
LEMMA WorldKeeps ==
  ASSUME IInv, Tick \/ \E b \in Brands, x \in Cells : Appear(b, x)
  PROVE  IInv'
<1>1. Typed /\ now \in Nat
  BY DEF IInv, Typed
<1>2. UNCHANGED <<procVars, disk, restarts, call, since>>
  BY DEF Tick, Appear
<1>3. cube' \in [Brands -> SUBSET Cells] /\ \A b \in Brands : cube[b] \subseteq cube'[b]
  <2>1. CASE Tick
    BY <1>1, <2>1 DEF Tick, Typed
  <2>2. CASE \E b \in Brands, x \in Cells : Appear(b, x)
    <3>1. PICK b \in Brands, x \in Cells : cube' = [cube EXCEPT ![b] = @ \cup {x}]
      BY <2>2 DEF Appear
    <3>2. cube \in [Brands -> SUBSET Cells]
      BY <1>1 DEF Typed
    <3>3. QED
      BY <3>1, <3>2
  <2>3. QED
    BY <2>1, <2>2
<1>4. now' \in Nat /\ now <= now'
  BY <1>1 DEF Tick, Appear
<1>5. Typed'
  BY <1>1, <1>2, <1>3, <1>4 DEF Typed, procVars
<1>6. \A b \in Brands : BrandInv(b)'
  BY <1>1, <1>2, <1>3, <1>4, BrandKept DEF IInv, procVars
<1>7. \A b \in Brands : Len(shelf'[b]) \in Nat /\ Len(shelf[b]) <= Len(shelf'[b])
  BY <1>1, <1>2, Shelf DEF procVars
<1>8. \A d \in Callers : CallInv(d)'
  BY <1>1, <1>2, <1>3, <1>7, CallKept DEF IInv
<1>9. QED
  BY <1>5, <1>6, <1>8 DEF IInv

\* A new process begins with what the database has, and knows no caller.
LEMMA RestartKeeps ==
  ASSUME IInv, Restart
  PROVE  IInv'
<1>1. /\ Typed /\ (\A b \in Brands : BrandInv(b)) /\ (\A c \in Callers : CallInv(c))
      /\ UNCHANGED <<now, cube, disk, since>>
  BY DEF IInv, Restart
<1>2. PICK same \in BOOLEAN :
        shelf' = [b \in Brands |-> IF disk[b] = Null THEN <<>> ELSE <<Loaded(disk[b], same)>>]
  BY DEF Restart
<1>3. ASSUME NEW b \in Brands
      PROVE  shelf'[b] \in Seq(Snapshots) /\ current'[b] \in Nat /\ building'[b] \in Nat /\ BrandInv(b)'
  <2>1. current'[b] = (IF disk[b] = Null THEN 0 ELSE 1) /\ building'[b] = 0
    BY DEF Restart
  <2>2. CASE disk[b] = Null
    <3>1. shelf'[b] = <<>>
      BY <1>2, <2>2
    <3>2. disk'[b] = Null /\ current'[b] = 0
      BY <1>1, <2>1, <2>2
    <3>3. QED
      BY <2>1, <3>1, <3>2 DEF BrandInv
  <2>3. CASE disk[b] # Null
    <3> DEFINE s == Loaded(disk[b], same)
    <3>1. disk[b] \in Rows /\ disk[b].held \subseteq cube[b] /\ disk[b].built <= now /\ now \in Nat
      BY <1>1, <2>3 DEF Typed, BrandInv
    <3>2. /\ s \in Snapshots /\ s.held = disk[b].held /\ s.norm = Null /\ s.pc = "done"
          /\ s.built <= now
      <4>1. {} \in SUBSET Targets
        OBVIOUS
      <4>2. disk[b].built \in Nat /\ disk[b].held \in SUBSET Cells
        BY <3>1 DEF Rows
      <4>3. QED
        BY <3>1, <4>1, <4>2 DEF Loaded, Snapshots
    <3> HIDE DEF s
    <3>3. shelf'[b] = <<s>>
      BY <1>2, <2>3 DEF s
    <3>4. Len(shelf'[b]) = 1 /\ shelf'[b][1] = s /\ \A i \in 1 .. 1 : i = 1
      BY <3>3
    <3>5. SnapshotInv(b, 1)'
      BY <1>1, <3>1, <3>2, <3>4 DEF SnapshotInv
    <3>6. disk'[b] # Null => disk'[b].held \subseteq cube'[b] /\ disk'[b].built <= now'
      BY <1>1, <3>1
    <3>7. \A i \in 1 .. Len(shelf'[b]) : SnapshotInv(b, i)'
      BY <3>4, <3>5
    <3>8. {current'[b], building'[b]} \subseteq 0 .. Len(shelf'[b])
      BY <2>1, <3>4
    <3>9. BrandInv(b)'
      BY <3>6, <3>7, <3>8 DEF BrandInv
    <3>10. shelf'[b] \in Seq(Snapshots)
      BY <3>2, <3>3
    <3>11. QED
      BY <2>1, <3>9, <3>10
  <2>4. QED
    BY <2>2, <2>3
<1>4. ASSUME NEW c \in Callers
      PROVE  call'[c] \in Calls /\ CallInv(c)'
  <2>0. call[c] \in Calls /\ CallInv(c)
    BY <1>1 DEF Typed
  <2>1. CASE call[c].pc \in {"new", "done"}
    <3>1. call'[c] = call[c]
      BY <2>1 DEF Restart
    <3>2. QED
      BY <1>1, <2>0, <2>1, <3>1 DEF CallInv, Sought
  <2>2. CASE call[c].pc \notin {"new", "done"}
    <3> DEFINE new == [call[c] EXCEPT !.pc = "done", !.verdict = "lost", !.snap = 0, !.index = {},
                         !.keys = {}, !.todo = {}, !.broken = {}, !.found = {}]
    <3>1. call'[c] = new
      BY <2>2 DEF Restart
    <3>2. new \in Calls /\ new.pc = "done" /\ new.verdict = "lost" /\ new.index = {}
          /\ new.brand = call[c].brand
      BY <2>0 DEF Calls, Verdicts
    <3> HIDE DEF new
    <3>3. QED
      BY <1>1, <2>0, <3>1, <3>2 DEF CallInv
  <2>3. QED
    BY <2>1, <2>2
<1>5. Typed'
  <2>1. shelf' \in [Brands -> Seq(Snapshots)]
    BY <1>2, <1>3
  <2>2. current' \in [Brands -> Nat] /\ building' \in [Brands -> Nat]
    BY <1>3 DEF Restart
  <2>3. call' \in [Callers -> Calls]
    BY <1>4 DEF Restart
  <2>4. restarts' \in Nat
    <3>1. restarts \in Nat /\ restarts' = restarts + 1
      BY <1>1 DEF Restart, Typed
    <3>2. QED
      BY <3>1
  <2>5. QED
    BY <1>1, <2>1, <2>2, <2>3, <2>4 DEF Typed
<1>6. QED
  BY <1>3, <1>4, <1>5 DEF IInv

-----------------------------------------------------------------------------
(* The theorems                                                            *)

\* The index starts empty, and nothing has been asked.
LEMMA Initially == Init => IInv
<1> SUFFICES ASSUME Init PROVE IInv
  OBVIOUS
<1>1. Ttl \in Nat /\ Asked \subseteq Cells
  BY ValueIndexAssumption DEF Cells
<1>2. \A c \in Callers : call[c] \in NewCalls
  BY DEF Init
<1>3. NewCalls \subseteq Calls
  <2>1. 0 \in Nat /\ {} \in SUBSET Cells /\ {} \in SUBSET Targets /\ "none" \in Verdicts
    BY DEF Verdicts
  <2>2. QED
    BY <1>1, <2>1 DEF NewCalls, Calls
<1>4. Typed
  <2>1. call \in [Callers -> Calls]
    BY <1>3 DEF Init
  <2>2. QED
    BY <1>1, <2>1 DEF Init, Typed
<1>5. \A b \in Brands : BrandInv(b)
  BY DEF Init, BrandInv
<1>6. \A c \in Callers : CallInv(c)
  <2>1. TAKE c \in Callers
  <2>2. call[c].pc = "new" /\ call[c].index = {} /\ call[c].verdict = "none"
    BY <1>2 DEF NewCalls
  <2>3. since[c] = {}
    BY DEF Init
  <2>4. QED
    BY <2>2, <2>3 DEF CallInv
<1>7. QED
  BY <1>4, <1>5, <1>6 DEF IInv

\* Every step of the builds, the callers, the process and the world keeps the
\* invariant.
LEMMA Steps == IInv /\ [Next]_vars => IInv'
<1> SUFFICES ASSUME IInv, [Next]_vars PROVE IInv'
  OBVIOUS
<1>1. ASSUME NEW b \in Brands, Warm(b) \/ BuildStep(b)
      PROVE  IInv'
  BY <1>1, WarmKeeps, TargetKeeps, StageKeeps DEF BuildStep
<1>2. ASSUME NEW c \in Callers, Get(c) \/ Verify(c)
      PROVE  IInv'
  BY <1>2, GetKeeps, VerifyKeeps
<1>3. ASSUME NEW c \in Callers, CallStep(c)
      PROVE  IInv'
  BY <1>3, WaitKeeps, IndexKeeps, HitKeeps, ProbeKeeps, ConcludeKeeps DEF CallStep
<1>4. CASE UNCHANGED vars
  <2>1. Typed'
    BY <1>4 DEF vars, procVars, IInv, Typed
  <2>2. \A b \in Brands : BrandInv(b)'
    BY <1>4 DEF vars, procVars, IInv, BrandInv, SnapshotInv
  <2>3. \A c \in Callers : CallInv(c)'
    BY <1>4 DEF vars, procVars, IInv, CallInv, Sought
  <2>4. QED
    BY <2>1, <2>2, <2>3 DEF IInv
<1>5. QED
  BY <1>1, <1>2, <1>3, <1>4, WorldKeeps, RestartKeeps DEF Next

\* The inductive invariant of the index.
THEOREM Inductive == Spec => []IInv
<1>1. QED
  BY Initially, Steps, PTL DEF Spec

\* What a brand's snapshots hold, in memory and in the database, and what a
\* caller is told, occurs in that brand's data.
THEOREM InventsNothing == Spec => []NothingInvented
<1>1. IInv => NothingInvented
  <2> SUFFICES ASSUME IInv PROVE NothingInvented
    OBVIOUS
  <2>1. TypeOK
    BY DEF IInv, Typed, BrandInv, CallInv, TypeOK, Rows
  <2>2. \A b \in Brands : \A i \in 1 .. Len(shelf[b]) : shelf[b][i].held \subseteq cube[b]
    BY DEF IInv, BrandInv, SnapshotInv
  <2>3. QED
    BY <2>1, <2>2 DEF IInv, BrandInv, CallInv, NothingInvented
<1>2. QED
  BY <1>1, Inductive, PTL

\* A value that is reported missing did not occur when the question came, unless
\* its dimension has no value in the index or its probe raised.
THEOREM ClaimsAreHonest == Spec => []ClaimHonest
<1>1. IInv => ClaimHonest
  BY DEF IInv, CallInv, ClaimHonest
<1>2. QED
  BY <1>1, Inductive, PTL
\* What may replace the snapshot a brand is served from, and its row: only the
\* build under way, which is the last that was started.
LEMMA Forwards ==
  ASSUME IInv, [Next]_vars, NEW b \in Brands
  PROVE  /\ restarts' = restarts => current'[b] >= current[b]
         /\ disk[b] # Null => disk'[b].built >= disk[b].built
<1>1. /\ Typed /\ BrandInv(b) /\ current[b] \in Nat /\ Len(shelf[b]) \in Nat
      /\ disk[b] # Null => disk[b].built \in Nat
  BY Shelf DEF IInv, Typed, Rows
<1>2. CASE UNCHANGED <<current, disk>>
  BY <1>1, <1>2
<1>3. ASSUME NEW d \in Brands, NEW i, Publish(d, i)
      PROVE  current'[b] >= current[b] /\ disk' = disk
  <2>1. Unfinished(d, i) /\ current' = [current EXCEPT ![d] = i] /\ disk' = disk
    BY <1>3 DEF Publish
  <2>2. i \in 1 .. Len(shelf[d]) /\ SnapshotInv(d, i) /\ BrandInv(d)
    BY <2>1, Building
  <2>3. i = Len(shelf[d]) /\ current[d] \in 0 .. Len(shelf[d])
    BY <2>1, <2>2 DEF SnapshotInv, BrandInv, Unfinished
  <2>4. Len(shelf[d]) \in Nat /\ current \in [Brands -> Nat]
    BY <1>1, Shelf DEF Typed
  <2>5. QED
    BY <1>1, <2>1, <2>3, <2>4
<1>4. ASSUME NEW d \in Brands, NEW i, Save(d, i), disk[b] # Null
      PROVE  current' = current /\ disk'[b].built >= disk[b].built
  <2>1. /\ Unfinished(d, i) /\ current' = current
        /\ disk' = [disk EXCEPT ![d] = [built |-> shelf[d][i].built, held |-> shelf[d][i].held]]
    BY <1>4 DEF Save, EndBuild
  <2>2. /\ SnapshotInv(d, i) /\ shelf[d][i].built \in Nat /\ disk \in [Brands -> Rows \cup {Null}]
    BY <1>1, <2>1, Building DEF Typed, Snapshots
  <2>3. disk[d] # Null => disk[d].built <= shelf[d][i].built
    BY <2>1, <2>2 DEF SnapshotInv, Unfinished
  <2>4. QED
    BY <1>1, <1>4, <2>1, <2>2, <2>3
<1>5. ASSUME NEW d \in Brands, NEW i, Save(d, i)
      PROVE  current' = current
  BY <1>5 DEF Save, EndBuild
<1>6. ASSUME NEW d \in Brands, BuildStep(d)
      PROVE  UNCHANGED <<current, disk>> \/ \E i : Publish(d, i) \/ Save(d, i)
  BY <1>6 DEF BuildStep, Learn, FailTarget, SaveFails, EndBuild
<1>7. ASSUME NEW d \in Brands, Warm(d)
      PROVE  UNCHANGED <<current, disk>>
  BY <1>7 DEF Warm, StartBuild
<1>8. ASSUME NEW c \in Callers, Get(c) \/ Verify(c) \/ CallStep(c)
      PROVE  UNCHANGED <<current, disk>>
  BY <1>8 DEF Get, StartBuild, Verify, CallStep, GiveUp, Woken, Match, Store, Return, Hit, Miss, Break,
       Conclude, Expire, procVars
<1>9. CASE Restart
  <2>1. restarts' # restarts /\ disk' = disk
    <3>1. restarts \in Nat /\ restarts' = restarts + 1 /\ disk' = disk
      BY <1>1, <1>9 DEF Restart, Typed
    <3>2. QED
      BY <3>1
  <2>2. QED
    BY <1>1, <2>1
<1>10. CASE Tick \/ (\E d \in Brands, x \in Cells : Appear(d, x)) \/ UNCHANGED vars
  BY <1>2, <1>10 DEF Tick, Appear, vars, procVars
<1>11. QED
  BY <1>1, <1>2, <1>3, <1>4, <1>5, <1>6, <1>7, <1>8, <1>9, <1>10 DEF Next

\* A brand's snapshot is never replaced by one that was started earlier, in
\* memory while the process lives and in the database ever.
THEOREM GoesForwards == Spec => NeverBackwards
<1>1. IInv /\ [Next]_vars =>
        [\A b \in Brands :
           /\ restarts' = restarts => current'[b] >= current[b]
           /\ disk[b] # Null => disk'[b].built >= disk[b].built]_vars
  BY Forwards
<1>2. QED
  BY <1>1, Inductive, PTL DEF Spec, NeverBackwards
=============================================================================
