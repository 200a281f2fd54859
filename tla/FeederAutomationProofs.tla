----------------------- MODULE FeederAutomationProofs -----------------------
(***************************************************************************)
(* Isolation and restoration on every feeder: whatever its switches,       *)
(* sections and ties, and however many sections one call restores.         *)
(***************************************************************************)
EXTENDS FeederAutomation, DataLemmas

Automatic == {"Sectionalizer", "AutoSwitch", "Recloser"}

(* When no switch qualifies for the shot sequence, none on the border is    *)
(* closed: the second search of process_fault has no other condition.       *)
LEMMA NoCandidateNoPath ==
  ASSUME NEW s, Candidates(s) = {}, NEW i \in Switches, Borders(i, s)
  PROVE  sw[i] # "Closed"
BY DEF Candidates

(* The device that ran the sequence is locked out, the others on the border *)
(* are opened.                                                              *)
LEMMA PermanentFaultOpens ==
  ASSUME NEW s, PermanentFault(s), NEW i \in Switches, Borders(i, s), Kind[i] \in Automatic
  PROVE  sw'[i] \in {"Lockout", "Open"}
<1> DEFINE r == Min(Candidates(s))
<1>1. sw' = [j \in Switches |-> IF j = r THEN "Lockout"
                                ELSE IF j \in ToOpen(s) \ {r} THEN "Open" ELSE sw[j]]
  BY DEF PermanentFault, ShotResult
<1>2. i \in ToOpen(s)
  BY DEF ToOpen, Automatic
<1> HIDE DEF r
<1> QED
  BY <1>1, <1>2

LEMMA IsolateStep ==
  ASSUME NEW s, NEW persists \in BOOLEAN, ProcessFault(s, persists), lastCall' = "isolate",
         NEW i \in Switches, Borders(i, s), Kind[i] \in Automatic
  PROVE  ~Conducting(sw'[i])
<1>1. CASE NoSwitchFound(s)
  BY <1>1, NoCandidateNoPath DEF NoSwitchFound, Conducting
<1>2. CASE TemporaryFault(s) /\ Call("clear")
  BY <1>2 DEF Call
<1>3. CASE PermanentFault(s)
  BY <1>3, PermanentFaultOpens DEF Conducting
<1> QED
  BY <1>1, <1>2, <1>3 DEF ProcessFault

(* A section reported isolated has no conducting automatic switch on its    *)
(* border, on every feeder and after any history of operations.             *)
THEOREM IsolationComplete == Spec => IsolationOpensBorder
<1> DEFINE Opens == lastCall' = "isolate" =>
       \A i \in Switches :
         /\ Borders(i, fault')
         /\ Kind[i] \in {"Sectionalizer", "AutoSwitch", "Recloser"}
         => ~Conducting(sw'[i])
<1>1. [Next]_vars => [Opens]_vars
  <2> SUFFICES ASSUME Next PROVE Opens
    OBVIOUS
  <2>1. CASE \E s \in Sections, persists \in BOOLEAN : ProcessFault(s, persists)
    <3>1. PICK s \in Sections, persists \in BOOLEAN : ProcessFault(s, persists)
      BY <2>1
    <3>2. fault' = s
      BY <3>1 DEF ProcessFault
    <3> QED
      BY <3>1, <3>2, IsolateStep DEF Automatic
  <2>2. CASE \/ RestoreUnfaultedSections
             \/ \E i \in Switches, persists \in BOOLEAN : RecloserSequence(i, persists)
             \/ \E i \in Switches, state \in Requests : SwitchOperation(i, state)
    <3>1. lastCall' # "isolate"
      BY <2>2 DEF RestoreUnfaultedSections, RecloserSequence, SwitchOperation, Call
    <3> QED
      BY <3>1
  <2> QED
    BY <2>1, <2>2 DEF Next
<1> QED
  BY <1>1, PTL DEF Spec, IsolationOpensBorder
------------------------------------------------------------------------------
(* Restoration.  One call folds RestoreSection over the dead sections; the  *)
(* lemmas below turn the fold into a run of states, first to last.          *)

Accs == [sw : [Switches -> States], count : [Switches -> 0..CountLimit],
         energized : SUBSET Sections]

LEMMA MinOfTwo ==
  ASSUME NEW a \in Nat, NEW b \in Nat
  PROVE  Min({a, b}) = IF a <= b THEN a ELSE b
<1>1. {a, b} \in SUBSET Nat /\ {a, b} # {}
  OBVIOUS
<1>2. Min({a, b}) \in {a, b} /\ \A x \in {a, b} : Min({a, b}) <= x
  BY <1>1, MinIsLeast
<1> QED
  BY <1>2

(* Which tie closes, when one does.                                         *)
LEMMA TieFound ==
  ASSUME NEW acc, NEW s,
         {k \in DOMAIN Ties : Eligible(Ties[k], s, acc)} # {}
  PROVE  \E i \in Switches :
           /\ i \in Range(Ties) /\ Eligible(i, s, acc)
           /\ RestoreSection(acc, s) = CloseTie(i, s, acc)
<1> DEFINE C == {k \in DOMAIN Ties : Eligible(Ties[k], s, acc)}
           m == Min(C)
<1>1. DOMAIN Ties \subseteq Nat /\ \A k \in DOMAIN Ties : Ties[k] \in Switches
  BY FeederAssumption
<1>2. m \in C
  <2>1. C \in SUBSET Nat /\ C # {}
    BY <1>1
  <2> HIDE DEF C
  <2> QED
    BY <2>1, MinIsLeast
<1>3. RestoreSection(acc, s) = CloseTie(Ties[m], s, acc)
  BY DEF RestoreSection
<1> HIDE DEF m
<1>4. Ties[m] \in Switches /\ Ties[m] \in Range(Ties) /\ Eligible(Ties[m], s, acc)
  BY <1>1, <1>2 DEF Range
<1> QED
  BY <1>3, <1>4

(* A step of the restoration: nothing, or one tie closed.                   *)
LEMMA RestoreCases ==
  ASSUME NEW acc, NEW s
  PROVE  \/ RestoreSection(acc, s) = acc
         \/ \E i \in Switches :
              /\ i \in Range(Ties) /\ Eligible(i, s, acc)
              /\ RestoreSection(acc, s) = CloseTie(i, s, acc)
<1>1. CASE {k \in DOMAIN Ties : Eligible(Ties[k], s, acc)} = {}
  BY <1>1 DEF RestoreSection
<1>2. CASE {k \in DOMAIN Ties : Eligible(Ties[k], s, acc)} # {}
  BY <1>2, TieFound
<1> QED
  BY <1>1, <1>2

LEMMA CloseTieEffect ==
  ASSUME NEW acc \in Accs, NEW s \in Sections, NEW i \in Switches
  PROVE  /\ CloseTie(i, s, acc) \in Accs
         /\ CloseTie(i, s, acc).sw = [acc.sw EXCEPT ![i] = "Closed"]
         /\ CloseTie(i, s, acc).energized = acc.energized \cup {s}
         /\ \A j \in Switches :
              /\ j # i => CloseTie(i, s, acc).count[j] = acc.count[j]
              /\ CloseTie(i, s, acc).count[j] >= acc.count[j]
         /\ \/ CloseTie(i, s, acc).count[i] > acc.count[i]
            \/ CloseTie(i, s, acc).count[i] = CountLimit
<1> DEFINE c == [acc.count EXCEPT ![i] = Min({@ + 1, CountLimit})]
<1>1. /\ acc.sw \in [Switches -> States] /\ acc.count \in [Switches -> 0..CountLimit]
      /\ acc.energized \in SUBSET Sections
  BY DEF Accs
<1>2. CountLimit \in Nat /\ acc.count[i] \in 0..CountLimit /\ acc.count[i] + 1 \in Nat
  BY <1>1, FeederAssumption
<1>3. Min({acc.count[i] + 1, CountLimit}) =
        IF acc.count[i] + 1 <= CountLimit THEN acc.count[i] + 1 ELSE CountLimit
  BY <1>2, MinOfTwo
<1>4. c \in [Switches -> 0..CountLimit] /\ c[i] = Min({acc.count[i] + 1, CountLimit})
  BY <1>1, <1>2, <1>3
<1>5. \A j \in Switches : j # i => c[j] = acc.count[j]
  BY <1>1
<1>6. [acc.sw EXCEPT ![i] = "Closed"] \in [Switches -> States]
  BY <1>1 DEF States
<1>7. CloseTie(i, s, acc) = [sw |-> [acc.sw EXCEPT ![i] = "Closed"], count |-> c,
                             energized |-> acc.energized \cup {s}]
  BY DEF CloseTie
<1> HIDE DEF c
<1>8. \A j \in Switches : c[j] >= acc.count[j]
  <2> SUFFICES ASSUME NEW j \in Switches PROVE c[j] >= acc.count[j]
    OBVIOUS
  <2>1. acc.count[j] \in Int
    BY <1>1, <1>2
  <2> QED
    BY <1>2, <1>3, <1>4, <1>5, <2>1
<1>9. c[i] > acc.count[i] \/ c[i] = CountLimit
  BY <1>2, <1>3, <1>4
<1> DEFINE t == CloseTie(i, s, acc)
<1>10. t.sw = [acc.sw EXCEPT ![i] = "Closed"] /\ t.count = c /\ t.energized = acc.energized \cup {s}
  BY <1>7
<1>11. t \in Accs
  BY <1>1, <1>4, <1>6, <1>7 DEF Accs
<1> HIDE DEF t
<1> QED
  BY <1>5, <1>8, <1>9, <1>10, <1>11 DEF t

LEMMA RestoreType ==
  ASSUME NEW acc \in Accs, NEW s \in Sections
  PROVE  RestoreSection(acc, s) \in Accs
<1>1. CASE RestoreSection(acc, s) = acc
  BY <1>1
<1>2. ASSUME NEW i \in Switches, RestoreSection(acc, s) = CloseTie(i, s, acc)
      PROVE  RestoreSection(acc, s) \in Accs
  <2>1. CloseTie(i, s, acc) \in Accs
    BY CloseTieEffect
  <2> QED
    BY <1>2, <2>1
<1> QED
  BY <1>1, <1>2, RestoreCases

(* The fold, state by state.                                                *)
LEMMA RestoreRun ==
  ASSUME NEW n \in Nat, NEW q \in [1..n -> Sections], NEW start \in Accs
  PROVE  \E g \in [0..n -> Accs] :
           /\ g[0] = start /\ g[n] = FoldLeft(RestoreSection, start, q)
           /\ \A k \in 1..n : g[k] = RestoreSection(g[k - 1], q[k])
<1> DEFINE step == [p \in Accs \X (1..n) |-> RestoreSection(p[1], q[p[2]])]
           Solves(h) == h = [s \in SUBSET DOMAIN q |->
                               IF s = {} THEN start
                               ELSE RestoreSection(h[s \ {Max(s)}], q[Max(s)])]
<1>1. step \in Steps(Accs, n)
  BY RestoreType DEF Steps
<1>2. \A a \in Accs, k \in 1..n : step[<<a, k>>] = RestoreSection(a, q[k])
  OBVIOUS
<1> HIDE DEF step
<1>3. \E h : Solves(h)
  <2>1. PICK h : FoldTable(h, Accs, start, n, step)
    BY <1>1, FoldExists
  <2>2. ASSUME NEW s \in SUBSET (1..n), s # {}
        PROVE  h[s] = RestoreSection(h[s \ {Max(s)}], q[Max(s)])
    <3>1. Max(s) \in 1..n
      BY <2>2, MaxIsMember
    <3>2. h[s \ {Max(s)}] \in Accs /\ h[s] = step[<<h[s \ {Max(s)}], Max(s)>>]
      BY <2>1, <2>2 DEF FoldTable
    <3> QED
      BY <1>2, <3>1, <3>2
  <2>3. Solves(h)
    BY <2>1, <2>2 DEF FoldTable
  <2> QED
    BY <2>3
<1>4. PICK h : Solves(h) /\ FoldLeft(RestoreSection, start, q) = h[1..n]
  <2> DEFINE h == CHOOSE h : Solves(h)
  <2>1. Solves(h)
    <3> HIDE DEF Solves
    <3> QED
      BY <1>3, Zenon
  <2>2. FoldLeft(RestoreSection, start, q) = h[DOMAIN q]
    BY DEF FoldLeft, MapThenFoldSet
  <2>3. DOMAIN q = 1..n
    OBVIOUS
  <2> HIDE DEF h, Solves
  <2> QED
    BY <2>1, <2>2, <2>3
<1>5. FoldsLike(h, Accs, start, n, step)
  <2>1. h[{}] = start
    BY <1>4
  <2>2. ASSUME NEW s \in SUBSET (1..n), s # {}, h[s \ {Max(s)}] \in Accs
        PROVE  h[s] = step[<<h[s \ {Max(s)}], Max(s)>>]
    <3>1. Max(s) \in 1..n
      BY <2>2, MaxIsMember
    <3>2. h[s] = RestoreSection(h[s \ {Max(s)}], q[Max(s)])
      BY <1>4, <2>2
    <3> QED
      BY <1>2, <2>2, <3>1, <3>2
  <2> QED
    BY <2>1, <2>2 DEF FoldsLike
<1>6. PICK g : FoldStates(g, Accs, start, n, step) /\ g[n] = h[1..n]
  BY <1>1, <1>5, FoldRun
<1>7. g \in [0..n -> Accs] /\ g[0] = start
  BY <1>6 DEF FoldStates
<1>8. ASSUME NEW k \in 1..n PROVE g[k] = RestoreSection(g[k - 1], q[k])
  <2>1. g[k] = step[<<g[k - 1], k>>] /\ g[k - 1] \in Accs
    BY <1>6 DEF FoldStates
  <2> QED
    BY <1>2, <2>1
<1> QED
  BY <1>4, <1>6, <1>7, <1>8

(* g is the run of a restoration over the sections q, from the state before *)
(* the call to the state after it; no section comes twice.                  *)
Restores(n, q, g) ==
  /\ q \in [1..n -> Sections] /\ g \in [0..n -> Accs]
  /\ \A i, j \in 1..n : q[i] = q[j] => i = j
  /\ \A i \in 1..n : q[i] \notin energized
  /\ g[0] = [sw |-> sw, count |-> count, energized |-> energized]
  /\ \A k \in 1..n : g[k] = RestoreSection(g[k - 1], q[k])
  /\ sw' = g[n].sw /\ count' = g[n].count /\ energized' = g[n].energized

LEMMA RestorationRuns ==
  ASSUME TypeOK, RestoreUnfaultedSections
  PROVE  \E n \in Nat : \E q, g : Restores(n, q, g)
<1> DEFINE D == Sections \ (energized \cup {fault})
           q == SortBy(D, Ascending(Sections))
           n == Cardinality(D)
           start == [sw |-> sw, count |-> count, energized |-> energized]
           done == FoldLeft(RestoreSection, start, q)
<1>1. IsFiniteSet(D) /\ D \in SUBSET Sections
  BY FeederAssumption, FS_Subset
<1>2. StrictTotalOrder(Ascending(Sections), D)
  BY <1>1, FeederAssumption DEF StrictTotalOrder, Ascending
<1>3. /\ n \in Nat /\ q \in [1..n -> D]
      /\ \A i, j \in 1..n : q[i] = q[j] => i = j
  <2> HIDE DEF D
  <2> QED
    BY <1>1, <1>2, SortedList
<1>4. sw' = done.sw /\ count' = done.count /\ energized' = done.energized
  BY DEF RestoreUnfaultedSections
<1>5. start \in Accs
  BY DEF TypeOK, Accs
<1>6. \A i \in 1..n : q[i] \in Sections /\ q[i] \notin energized
  <2>1. \A x \in D : x \in Sections /\ x \notin energized
    OBVIOUS
  <2> HIDE DEF D, q, n
  <2> QED
    BY <1>3, <2>1
<1> HIDE DEF q, n
<1>7. q \in [1..n -> Sections]
  <2> HIDE DEF D
  <2> QED
    BY <1>3, <1>6
<1> HIDE DEF start, D
<1>8. PICK g \in [0..n -> Accs] :
        /\ g[0] = start /\ g[n] = done
        /\ \A k \in 1..n : g[k] = RestoreSection(g[k - 1], q[k])
  <2>1. n \in Nat
    BY <1>3
  <2> QED
    BY ONLY <1>5, <1>7, <2>1, RestoreRun
<1> HIDE DEF done
<1>9. Restores(n, q, g)
  BY <1>3, <1>4, <1>6, <1>7, <1>8 DEF Restores, start
<1> QED
  BY <1>3, <1>9

(* What a restoration in progress has done so far: it closed open ties      *)
(* only, counted each of them, and stayed below the transfer limit.         *)
OnlyTiesClosed(acc) ==
  \A i \in Switches :
    acc.sw[i] # sw[i] => sw[i] = "Open" /\ acc.sw[i] = "Closed" /\ i \in Range(Ties)

ClosingsCounted(acc) ==
  \A i \in Switches :
    /\ acc.count[i] >= count[i]
    /\ acc.sw[i] # sw[i] => acc.count[i] > count[i] \/ acc.count[i] = CountLimit

StaysBelowLimit(acc) ==
  acc.energized # energized => Supplied(acc.energized) < MaxLoadTransfer

InProgress(acc) == OnlyTiesClosed(acc) /\ ClosingsCounted(acc) /\ StaysBelowLimit(acc)

LEMMA SuppliedAdds ==
  ASSUME NEW en \in SUBSET Sections, NEW s \in Sections
  PROVE  /\ Supplied(en) \in Int /\ Load[s] \in Nat
         /\ s \notin en => Supplied(en \cup {s}) = Supplied(en) + Load[s]
<1>0. IsFiniteSet(en)
  BY FeederAssumption, FS_Subset
<1>1. Load \in [Sections -> Int] /\ Load[s] \in Nat
  BY FeederAssumption
<1>2. \A t : Supplied(t) = SumOver(Load, t)
  BY DEF Supplied, SumOver
<1>3. SumOver(Load, en) \in Int
  BY <1>0, <1>1, SumTakeOut
<1>4. s \notin en => SumOver(Load, en \cup {s}) = SumOver(Load, en) + Load[s]
  BY <1>0, <1>1, SumAdd
<1> QED
  BY <1>1, <1>2, <1>3, <1>4

LEMMA CloseTieProgress ==
  ASSUME TypeOK, NEW acc \in Accs, InProgress(acc), NEW s \in Sections,
         NEW i \in Switches, i \in Range(Ties), Eligible(i, s, acc)
  PROVE  InProgress(CloseTie(i, s, acc))
<1> DEFINE t == CloseTie(i, s, acc)
<1>1. /\ t \in Accs
      /\ t.sw = [acc.sw EXCEPT ![i] = "Closed"]
      /\ t.energized = acc.energized \cup {s}
      /\ \A j \in Switches : t.count[j] >= acc.count[j]
      /\ t.count[i] > acc.count[i] \/ t.count[i] = CountLimit
      /\ \A j \in Switches : j # i => t.count[j] = acc.count[j]
  BY CloseTieEffect
<1> HIDE DEF t
<1>2. /\ acc.sw \in [Switches -> States] /\ acc.count \in [Switches -> 0..CountLimit]
      /\ t.sw \in [Switches -> States] /\ t.count \in [Switches -> 0..CountLimit]
      /\ acc.energized \in SUBSET Sections
      /\ count \in [Switches -> 0..CountLimit] /\ CountLimit \in Nat
  BY <1>1, FeederAssumption DEF Accs, TypeOK
<1>3. acc.sw[i] = "Open" /\ PathHasCapacity(i, s, acc)
  BY DEF Eligible
<1>4. \A j \in Switches : j # i => t.sw[j] = acc.sw[j]
  BY <1>1, <1>2
<1>5. t.sw[i] = "Closed"
  BY <1>1, <1>2
<1>6. OnlyTiesClosed(t)
  BY <1>3, <1>4, <1>5 DEF OnlyTiesClosed, InProgress
<1>7. ClosingsCounted(t)
  <2> SUFFICES ASSUME NEW j \in Switches
               PROVE  /\ t.count[j] >= count[j]
                      /\ t.sw[j] # sw[j] => t.count[j] > count[j] \/ t.count[j] = CountLimit
    BY DEF ClosingsCounted
  <2>1. acc.count[j] \in 0..CountLimit /\ t.count[j] \in 0..CountLimit /\ count[j] \in 0..CountLimit
    BY <1>2
  <2>2. /\ acc.count[j] >= count[j]
        /\ acc.sw[j] # sw[j] => acc.count[j] > count[j] \/ acc.count[j] = CountLimit
    BY DEF InProgress, ClosingsCounted
  <2>3. t.count[j] >= acc.count[j]
    BY <1>1
  <2>4. CASE j = i
    BY <1>1, <1>2, <2>1, <2>2, <2>3, <2>4
  <2>5. CASE j # i
    BY <1>1, <1>4, <2>1, <2>2, <2>5
  <2> QED
    BY <2>4, <2>5
<1>8. StaysBelowLimit(t)
  <2>1. Supplied(acc.energized) + Load[s] < MaxLoadTransfer
    BY <1>3 DEF PathHasCapacity
  <2>2. /\ Supplied(acc.energized) \in Int /\ Load[s] \in Nat
        /\ s \notin acc.energized =>
             Supplied(acc.energized \cup {s}) = Supplied(acc.energized) + Load[s]
    BY <1>2, SuppliedAdds
  <2>3. s \in acc.energized => acc.energized \cup {s} = acc.energized
    OBVIOUS
  <2>4. MaxLoadTransfer \in Nat
    BY FeederAssumption
  <2>5. Supplied(t.energized) < MaxLoadTransfer
    <3>1. CASE s \in acc.energized
      <4>1. Supplied(t.energized) = Supplied(acc.energized)
        BY <1>1, <2>3, <3>1
      <4> QED
        BY ONLY <2>1, <2>2, <2>4, <4>1
    <3>2. CASE s \notin acc.energized
      <4>1. Supplied(t.energized) = Supplied(acc.energized) + Load[s]
        BY <1>1, <2>2, <3>2
      <4> QED
        BY ONLY <2>1, <4>1
    <3> QED
      BY <3>1, <3>2
  <2> QED
    BY <2>5 DEF StaysBelowLimit
<1> QED
  BY <1>6, <1>7, <1>8 DEF InProgress, t

LEMMA RestoreProgress ==
  ASSUME TypeOK, NEW acc \in Accs, InProgress(acc), NEW s \in Sections
  PROVE  InProgress(RestoreSection(acc, s))
<1>1. CASE RestoreSection(acc, s) = acc
  BY <1>1
<1>2. ASSUME NEW i \in Switches, i \in Range(Ties), Eligible(i, s, acc),
             RestoreSection(acc, s) = CloseTie(i, s, acc)
      PROVE  InProgress(RestoreSection(acc, s))
  BY <1>2, CloseTieProgress
<1> QED
  BY <1>1, <1>2, RestoreCases

(* However many sections a call restores, all of this holds at its end.     *)
LEMMA RestorationKeeps ==
  ASSUME TypeOK, RestoreUnfaultedSections
  PROVE  \E acc \in Accs : /\ InProgress(acc)
                           /\ sw' = acc.sw /\ count' = acc.count /\ energized' = acc.energized
<1>1. PICK n \in Nat : \E q, g : Restores(n, q, g)
  BY RestorationRuns
<1>2. PICK q, g : Restores(n, q, g)
  BY <1>1
<1> DEFINE Inv == [k \in 0..n |-> {acc \in Accs : InProgress(acc)}]
<1>3. g[0] \in Inv[0]
  <2>1. g[0] \in Accs /\ g[0].sw = sw /\ g[0].count = count /\ g[0].energized = energized
    BY <1>2 DEF Restores
  <2>2. \A i \in Switches : count[i] \in Int
    BY FeederAssumption DEF TypeOK
  <2>3. InProgress(g[0])
    BY <2>1, <2>2 DEF InProgress, OnlyTiesClosed, ClosingsCounted, StaysBelowLimit
  <2> QED
    BY <2>1, <2>3
<1>4. ASSUME NEW k \in 1..n, g[k - 1] \in Inv[k - 1] PROVE g[k] \in Inv[k]
  <2>1. g[k - 1] \in Accs /\ InProgress(g[k - 1]) /\ q[k] \in Sections
    BY <1>2, <1>4 DEF Restores
  <2>2. g[k] = RestoreSection(g[k - 1], q[k])
    BY <1>2 DEF Restores
  <2>3. g[k] \in Accs /\ InProgress(g[k])
    BY <2>1, <2>2, RestoreType, RestoreProgress
  <2> QED
    BY <2>3
<1>5. \A k \in 0..n : g[k] \in Inv[k]
  <2> HIDE DEF Inv
  <2> QED
    BY <1>3, <1>4, RunInvariant
<1>6. g[n] \in Accs /\ InProgress(g[n])
  BY <1>5
<1> QED
  BY <1>2, <1>6 DEF Restores

------------------------------------------------------------------------------
(* Types, and what single calls do to states and counts.                    *)

LEMMA BumpCounts ==
  ASSUME TypeOK, NEW i \in Switches, NEW n \in Nat
  PROVE  /\ Bump(i, n) \in [Switches -> 0..CountLimit]
         /\ \A j \in Switches : Bump(i, n)[j] >= count[j]
         /\ \A j \in Switches : j # i => Bump(i, n)[j] = count[j]
         /\ n > 0 => Bump(i, n)[i] > count[i] \/ Bump(i, n)[i] = CountLimit
<1>1. /\ count \in [Switches -> 0..CountLimit] /\ CountLimit \in Nat
      /\ count[i] \in 0..CountLimit /\ count[i] + n \in Nat
  BY FeederAssumption DEF TypeOK
<1> DEFINE m == Min({count[i] + n, CountLimit})
<1>2. m = IF count[i] + n <= CountLimit THEN count[i] + n ELSE CountLimit
  BY <1>1, MinOfTwo
<1>3. Bump(i, n) = [count EXCEPT ![i] = m]
  BY DEF Bump
<1> HIDE DEF m
<1>4. m \in 0..CountLimit /\ m >= count[i] /\ (n > 0 => m > count[i] \/ m = CountLimit)
  BY ONLY <1>1, <1>2, n \in Nat
<1>5. Bump(i, n)[i] = m /\ \A j \in Switches : j # i => Bump(i, n)[j] = count[j]
  BY <1>1, <1>3
<1>6. Bump(i, n) \in [Switches -> 0..CountLimit]
  BY <1>1, <1>3, <1>4
<1>7. ASSUME NEW j \in Switches PROVE Bump(i, n)[j] >= count[j]
  <2>1. count[j] \in 0..CountLimit
    BY <1>1
  <2> QED
    BY <1>1, <1>4, <1>5, <2>1
<1> QED
  BY <1>4, <1>5, <1>6, <1>7

LEMMA ShotCount ==
  ASSUME NEW persists \in BOOLEAN
  PROVE  ShotOperations(persists) \in Nat /\ (Shots # 0 => ShotOperations(persists) > 0)
BY FeederAssumption DEF ShotOperations

(* The device that runs the shot sequence is a closed switch.               *)
LEMMA DeviceIsClosed ==
  ASSUME NEW s, Candidates(s) # {}
  PROVE  Min(Candidates(s)) \in Switches /\ sw[Min(Candidates(s))] = "Closed"
<1>1. Candidates(s) \in SUBSET Nat
  BY FeederAssumption DEF Candidates
<1>2. Min(Candidates(s)) \in Candidates(s)
  BY <1>1, MinIsLeast
<1>3. \A r \in Candidates(s) : r \in Switches /\ sw[r] = "Closed"
  BY DEF Candidates
<1> QED
  BY <1>2, <1>3

(* What a permanent fault does to each switch.                              *)
LEMMA PermanentFaultEffect ==
  ASSUME TypeOK, NEW s \in Sections, PermanentFault(s)
  PROVE  /\ sw' \in [Switches -> States] /\ count' \in [Switches -> 0..CountLimit]
         /\ \A i \in Switches :
              /\ sw'[i] \in {"Lockout", "Open", sw[i]}
              /\ count'[i] >= count[i]
              /\ Shots # 0 /\ sw'[i] # sw[i]
                   => count'[i] > count[i] \/ count'[i] = CountLimit
<1> DEFINE r == Min(Candidates(s))
           opened == ToOpen(s) \ {r}
           shot == Bump(r, ShotOperations(TRUE))
<1>1. /\ sw' = [i \in Switches |-> IF i = r THEN "Lockout"
                                   ELSE IF i \in opened THEN "Open" ELSE sw[i]]
      /\ count' = [i \in Switches |-> IF i \in opened THEN Bump(i, 1)[i] ELSE shot[i]]
  BY DEF PermanentFault, ShotResult
<1>2. r \in Switches
  BY DeviceIsClosed DEF PermanentFault
<1>3. ShotOperations(TRUE) \in Nat /\ (Shots # 0 => ShotOperations(TRUE) > 0)
  BY ShotCount
<1> HIDE DEF r
<1>4. /\ shot \in [Switches -> 0..CountLimit]
      /\ \A j \in Switches : shot[j] >= count[j]
      /\ Shots # 0 => shot[r] > count[r] \/ shot[r] = CountLimit
  BY <1>2, <1>3, BumpCounts
<1>5. ASSUME NEW i \in Switches
      PROVE  /\ Bump(i, 1)[i] \in 0..CountLimit /\ Bump(i, 1)[i] >= count[i]
             /\ Bump(i, 1)[i] > count[i] \/ Bump(i, 1)[i] = CountLimit
  BY BumpCounts
<1> HIDE DEF shot, opened
<1>6. sw' \in [Switches -> States]
  BY <1>1 DEF TypeOK, States
<1>7. count' \in [Switches -> 0..CountLimit]
  BY <1>1, <1>4, <1>5
<1>8. ASSUME NEW i \in Switches
      PROVE  /\ sw'[i] \in {"Lockout", "Open", sw[i]}
             /\ count'[i] >= count[i]
             /\ Shots # 0 /\ sw'[i] # sw[i]
                  => count'[i] > count[i] \/ count'[i] = CountLimit
  <2>1. sw'[i] \in {"Lockout", "Open", sw[i]}
    BY <1>1
  <2>2. CASE i \in opened
    <3>1. count'[i] = Bump(i, 1)[i]
      BY <1>1, <2>2
    <3> QED
      BY <1>5, <2>1, <3>1
  <2>3. CASE i \notin opened
    <3>1. count'[i] = shot[i] /\ (sw'[i] # sw[i] => i = r)
      BY <1>1, <2>3
    <3> QED
      BY <1>4, <2>1, <3>1
  <2> QED
    BY <2>2, <2>3
<1> QED
  BY <1>6, <1>7, <1>8

LEMMA BlownType ==
  ASSUME TypeOK, NEW name, Call(name)
  PROVE  blown' \subseteq Switches
BY DEF Call, TypeOK

LEMMA FeederTypeStep ==
  ASSUME TypeOK, Next
  PROVE  TypeOK'
<1>1. ASSUME NEW s \in Sections, NEW persists \in BOOLEAN, ProcessFault(s, persists)
      PROVE  TypeOK'
  <2>1. fault' \in Sections \cup {0} /\ blown' \subseteq Switches
    BY <1>1, BlownType DEF ProcessFault
  <2>2. CASE NoSwitchFound(s)
    BY <2>1, <2>2 DEF NoSwitchFound, Isolate, TypeOK
  <2>3. CASE TemporaryFault(s)
    <3> DEFINE r == Min(Candidates(s))
    <3>1. r \in Switches
      BY <2>3, DeviceIsClosed DEF TemporaryFault
    <3>2. sw' = [sw EXCEPT ![r] = "Closed"] /\ count' = Bump(r, ShotOperations(FALSE))
      BY <2>3 DEF TemporaryFault, ShotResult
    <3> HIDE DEF r
    <3>3. ShotOperations(FALSE) \in Nat
      BY ShotCount
    <3>4. count' \in [Switches -> 0..CountLimit]
      BY <3>1, <3>2, <3>3, BumpCounts
    <3>5. sw' \in [Switches -> States]
      BY <3>1, <3>2 DEF TypeOK, States
    <3>6. UNCHANGED <<energized, isolated>>
      BY <2>3 DEF TemporaryFault
    <3> QED
      BY <2>1, <3>4, <3>5, <3>6 DEF TypeOK
  <2>4. CASE PermanentFault(s)
    <3>1. Isolate(s)
      BY <2>4 DEF PermanentFault
    <3>2. sw' \in [Switches -> States] /\ count' \in [Switches -> 0..CountLimit]
      BY <2>4, PermanentFaultEffect
    <3> QED
      BY <2>1, <3>1, <3>2 DEF TypeOK, Isolate
  <2> QED
    BY <1>1, <2>2, <2>3, <2>4 DEF ProcessFault
<1>2. ASSUME RestoreUnfaultedSections PROVE TypeOK'
  <2>1. PICK acc \in Accs : sw' = acc.sw /\ count' = acc.count /\ energized' = acc.energized
    BY <1>2, RestorationKeeps
  <2>2. UNCHANGED <<fault, isolated>> /\ blown' \subseteq Switches
    BY <1>2, BlownType DEF RestoreUnfaultedSections
  <2> QED
    BY <2>1, <2>2 DEF TypeOK, Accs
<1>3. ASSUME NEW i \in Switches, NEW persists \in BOOLEAN, RecloserSequence(i, persists)
      PROVE  TypeOK'
  <2>1. sw' \in [Switches -> States]
    BY <1>3 DEF RecloserSequence, ShotResult, TypeOK, States
  <2>2. count' \in [Switches -> 0..CountLimit]
    <3>1. count' = Bump(i, ShotOperations(persists)) /\ ShotOperations(persists) \in Nat
      BY <1>3, ShotCount DEF RecloserSequence
    <3> QED
      BY <3>1, BumpCounts
  <2>3. UNCHANGED <<energized, fault, isolated>> /\ blown' \subseteq Switches
    BY <1>3, BlownType DEF RecloserSequence
  <2> QED
    BY <2>1, <2>2, <2>3 DEF TypeOK
<1>4. ASSUME NEW i \in Switches, NEW state \in Requests, SwitchOperation(i, state)
      PROVE  TypeOK'
  <2>1. sw' \in [Switches -> States]
    BY <1>4, FeederAssumption DEF SwitchOperation, TypeOK
  <2>2. count' \in [Switches -> 0..CountLimit]
    BY <1>4, BumpCounts DEF SwitchOperation
  <2>3. UNCHANGED <<energized, fault, isolated>> /\ blown' \subseteq Switches
    BY <1>4, BlownType DEF SwitchOperation
  <2> QED
    BY <2>1, <2>2, <2>3 DEF TypeOK
<1> QED
  BY <1>1, <1>2, <1>3, <1>4 DEF Next

(* The feeder stays well typed, its operation counts within their limit,    *)
(* through every history of faults, restorations and operator requests.     *)
THEOREM FeederType == Spec => []TypeOK
<1>1. Init => TypeOK
  BY FeederAssumption DEF Init, TypeOK
<1>2. TypeOK /\ [Next]_vars => TypeOK'
  <2>1. ASSUME TypeOK, UNCHANGED vars PROVE TypeOK'
    BY <2>1 DEF vars, TypeOK
  <2> QED
    BY <2>1, FeederTypeStep
<1> QED
  BY <1>1, <1>2, PTL DEF Spec

------------------------------------------------------------------------------
(* What fault handling and restoration do, whatever came before.            *)

LEMMA HandlingClosesOnlyTies ==
  ASSUME TypeOK, Next, lastCall' \in {"isolate", "clear", "restore"},
         NEW i \in Switches, ~Conducting(sw[i]), Conducting(sw'[i])
  PROVE  sw[i] = "Open" /\ i \in Range(Ties)
<1>1. ASSUME NEW s \in Sections, NEW persists \in BOOLEAN, ProcessFault(s, persists)
      PROVE  FALSE
  <2>1. CASE NoSwitchFound(s)
    BY <2>1 DEF NoSwitchFound
  <2>2. CASE TemporaryFault(s)
    <3> DEFINE r == Min(Candidates(s))
    <3>1. r \in Switches /\ sw[r] = "Closed"
      BY <2>2, DeviceIsClosed DEF TemporaryFault
    <3>2. sw' = [sw EXCEPT ![r] = "Closed"]
      BY <2>2 DEF TemporaryFault, ShotResult
    <3> HIDE DEF r
    <3>3. sw'[i] = sw[i]
      BY <3>1, <3>2 DEF TypeOK
    <3> QED
      BY <3>3
  <2>3. CASE PermanentFault(s)
    <3>1. sw'[i] \in {"Lockout", "Open", sw[i]}
      BY <2>3, PermanentFaultEffect
    <3> QED
      BY <3>1 DEF Conducting
  <2> QED
    BY <1>1, <2>1, <2>2, <2>3 DEF ProcessFault
<1>2. CASE RestoreUnfaultedSections
  <2>1. PICK acc \in Accs : InProgress(acc) /\ sw' = acc.sw
    BY <1>2, RestorationKeeps
  <2>2. sw'[i] # sw[i]
    BY DEF Conducting
  <2> QED
    BY <2>1, <2>2 DEF InProgress, OnlyTiesClosed
<1>3. ~\E j \in Switches, persists \in BOOLEAN : RecloserSequence(j, persists)
  BY DEF RecloserSequence, Call
<1>4. ~\E j \in Switches, state \in Requests : SwitchOperation(j, state)
  BY DEF SwitchOperation, Call
<1> QED
  BY <1>1, <1>2, <1>3, <1>4 DEF Next

(* Fault handling and restoration make nothing conduct but open ties, on    *)
(* every feeder: no other path of process_fault or of the restoration       *)
(* closes a device.                                                         *)
THEOREM OnlyTiesClose == Spec => AutomationClosesOnlyTies
<1> DEFINE Closes == lastCall' \in {"isolate", "clear", "restore"} =>
       \A i \in Switches :
         ~Conducting(sw[i]) /\ Conducting(sw'[i])
           => sw[i] = "Open" /\ i \in Range(Ties)
<1>1. TypeOK /\ [Next]_vars => [Closes]_vars
  BY HandlingClosesOnlyTies
<1> QED
  BY <1>1, FeederType, PTL DEF Spec, AutomationClosesOnlyTies

(* One call restores below the transfer limit, counting the sections it     *)
(* restored itself, however many there are.                                 *)
THEOREM TransferLimited == Spec => TransferWithinCapacity
<1> DEFINE Limited == lastCall' = "restore" /\ energized' # energized
                        => Supplied(energized') < MaxLoadTransfer
<1>1. TypeOK /\ [Next]_vars => [Limited]_vars
  <2> SUFFICES ASSUME TypeOK, Next, lastCall' = "restore", energized' # energized
               PROVE  Supplied(energized') < MaxLoadTransfer
    OBVIOUS
  <2>1. RestoreUnfaultedSections
    BY DEF Next, ProcessFault, RecloserSequence, SwitchOperation, Call
  <2>2. PICK acc \in Accs : InProgress(acc) /\ energized' = acc.energized
    BY <2>1, RestorationKeeps
  <2> QED
    BY <2>2 DEF InProgress, StaysBelowLimit
<1> QED
  BY <1>1, FeederType, PTL DEF Spec, TransferWithinCapacity

LEMMA CallsCount ==
  ASSUME Shots # 0, TypeOK, Next, NEW i \in Switches
  PROVE  /\ count'[i] >= count[i]
         /\ sw'[i] # sw[i] => count'[i] > count[i] \/ count'[i] = CountLimit
<1> DEFINE Counts == /\ count'[i] >= count[i]
                     /\ sw'[i] # sw[i] => count'[i] > count[i] \/ count'[i] = CountLimit
<1>0. sw \in [Switches -> States] /\ count[i] \in Int
  BY FeederAssumption DEF TypeOK
<1>1. ASSUME NEW j \in Switches, NEW n \in Nat, n > 0, NEW state,
             sw' = [sw EXCEPT ![j] = state], count' = Bump(j, n)
      PROVE  Counts
  <2>1. j # i => sw'[i] = sw[i]
    BY <1>0, <1>1
  <2>2. Bump(j, n)[i] >= count[i] /\ (Bump(j, n)[j] > count[j] \/ Bump(j, n)[j] = CountLimit)
    BY <1>1, BumpCounts
  <2> QED
    BY <1>1, <2>1, <2>2
<1>2. ASSUME NEW s \in Sections, NEW persists \in BOOLEAN, ProcessFault(s, persists)
      PROVE  Counts
  <2>1. CASE NoSwitchFound(s)
    BY <1>0, <2>1 DEF NoSwitchFound
  <2>2. CASE TemporaryFault(s)
    <3>1. Min(Candidates(s)) \in Switches
      BY <2>2, DeviceIsClosed DEF TemporaryFault
    <3>2. ShotOperations(FALSE) \in Nat /\ ShotOperations(FALSE) > 0
      BY ShotCount
    <3> HIDE DEF Counts
    <3> QED
      BY <1>1, <2>2, <3>1, <3>2 DEF TemporaryFault
  <2>3. CASE PermanentFault(s)
    BY <2>3, PermanentFaultEffect
  <2> QED
    BY <1>2, <2>1, <2>2, <2>3 DEF ProcessFault
<1>3. ASSUME RestoreUnfaultedSections PROVE Counts
  <2>1. PICK acc \in Accs : InProgress(acc) /\ sw' = acc.sw /\ count' = acc.count
    BY <1>3, RestorationKeeps
  <2> QED
    BY <2>1 DEF InProgress, ClosingsCounted
<1>4. ASSUME NEW j \in Switches, NEW persists \in BOOLEAN, RecloserSequence(j, persists)
      PROVE  Counts
  <2>1. ShotOperations(persists) \in Nat /\ ShotOperations(persists) > 0
    BY ShotCount
  <2> HIDE DEF Counts
  <2> QED
    BY <1>1, <1>4, <2>1 DEF RecloserSequence
<1>5. ASSUME NEW j \in Switches, NEW state \in Requests, SwitchOperation(j, state)
      PROVE  Counts
  <2>1. sw' = [sw EXCEPT ![j] = state] /\ count' = Bump(j, 1)
    BY <1>5 DEF SwitchOperation
  <2>2. 1 \in Nat /\ 1 > 0
    OBVIOUS
  <2> HIDE DEF Counts
  <2> QED
    BY <1>1, <2>1, <2>2, Zenon
<1> HIDE DEF Counts
<1>6. Counts
  BY <1>2, <1>3, <1>4, <1>5 DEF Next
<1> QED
  BY <1>6 DEF Counts

(* No change of a switch goes uncounted when the shot sequence has at least *)
(* one shot; with none, recloser_sequence locks out without an operation.   *)
THEOREM WearCounted == ASSUME Shots # 0 PROVE Spec => OperationsCounted
<1> DEFINE Counted == \A i \in Switches :
       /\ count'[i] >= count[i]
       /\ sw'[i] # sw[i] => count'[i] > count[i] \/ count'[i] = CountLimit
<1>1. TypeOK /\ [Next]_vars => [Counted]_vars
  BY CallsCount
<1> QED
  BY <1>1, FeederType, PTL DEF Spec, OperationsCounted

------------------------------------------------------------------------------
(* One tie for each section *)

ClosedTies(acc) == {i \in Switches : acc.sw[i] # sw[i]}
RestoredBy(acc) == acc.energized \ energized

(* The ties closed and the sections restored so far, before s, belong to    *)
(* each other.                                                              *)
TiesMatch(acc, before) ==
  /\ OnlyTiesClosed(acc)
  /\ energized \subseteq acc.energized
  /\ RestoredBy(acc) \subseteq before
  /\ Cardinality(ClosedTies(acc)) = Cardinality(RestoredBy(acc))
  /\ \A s \in RestoredBy(acc) : \E i \in ClosedTies(acc) : Borders(i, s)
  /\ \A i \in ClosedTies(acc) : \E s \in RestoredBy(acc) : Borders(i, s)

LEMMA CloseTieMatches ==
  ASSUME TypeOK, NEW acc \in Accs, NEW before, TiesMatch(acc, before), InProgress(acc),
         NEW s \in Sections, s \notin before, s \notin energized,
         NEW i \in Switches, i \in Range(Ties), Eligible(i, s, acc)
  PROVE  TiesMatch(CloseTie(i, s, acc), before \cup {s})
<1> DEFINE t == CloseTie(i, s, acc)
<1>1. /\ t \in Accs
      /\ t.sw = [acc.sw EXCEPT ![i] = "Closed"]
      /\ t.energized = acc.energized \cup {s}
  BY CloseTieEffect
<1>2. InProgress(t)
  BY CloseTieProgress
<1> HIDE DEF t
<1>3. acc.sw \in [Switches -> States] /\ acc.energized \in SUBSET Sections
  BY DEF Accs
<1>4. acc.sw[i] = "Open" /\ Borders(i, s)
  BY DEF Eligible
<1>5. i \notin ClosedTies(acc) /\ sw[i] = "Open"
  BY <1>4 DEF ClosedTies, TiesMatch, OnlyTiesClosed
<1>6. ClosedTies(t) = ClosedTies(acc) \cup {i}
  <2>1. t.sw[i] = "Closed" /\ \A j \in Switches : j # i => t.sw[j] = acc.sw[j]
    BY <1>1, <1>3
  <2> QED
    BY <1>5, <2>1 DEF ClosedTies
<1>7. s \notin RestoredBy(acc) /\ RestoredBy(t) = RestoredBy(acc) \cup {s}
  BY <1>1 DEF RestoredBy, TiesMatch
<1>8. IsFiniteSet(ClosedTies(acc)) /\ IsFiniteSet(RestoredBy(acc))
  <2>1. ClosedTies(acc) \in SUBSET Switches /\ RestoredBy(acc) \in SUBSET Sections
    BY <1>3 DEF ClosedTies, RestoredBy
  <2> QED
    BY <2>1, FeederAssumption, FS_Subset
<1>9. Cardinality(ClosedTies(t)) = Cardinality(RestoredBy(t))
  <2>1. Cardinality(ClosedTies(t)) = Cardinality(ClosedTies(acc)) + 1
    BY <1>5, <1>6, <1>8, FS_AddElement
  <2>2. Cardinality(RestoredBy(t)) = Cardinality(RestoredBy(acc)) + 1
    BY <1>7, <1>8, FS_AddElement
  <2> QED
    BY <2>1, <2>2 DEF TiesMatch
<1>10. \A r \in RestoredBy(t) : \E j \in ClosedTies(t) : Borders(j, r)
  BY <1>4, <1>6, <1>7 DEF TiesMatch
<1>11. \A j \in ClosedTies(t) : \E r \in RestoredBy(t) : Borders(j, r)
  BY <1>4, <1>6, <1>7 DEF TiesMatch
<1>12. RestoredBy(t) \subseteq before \cup {s} /\ energized \subseteq t.energized
  BY <1>1, <1>7 DEF TiesMatch
<1>13. OnlyTiesClosed(t)
  BY <1>2 DEF InProgress
<1>14. TiesMatch(t, before \cup {s})
  BY <1>9, <1>10, <1>11, <1>12, <1>13 DEF TiesMatch
<1> QED
  BY <1>14 DEF t

LEMMA RestoreMatches ==
  ASSUME TypeOK, NEW acc \in Accs, NEW before, TiesMatch(acc, before), InProgress(acc),
         NEW s \in Sections, s \notin before, s \notin energized
  PROVE  TiesMatch(RestoreSection(acc, s), before \cup {s})
<1>1. CASE RestoreSection(acc, s) = acc
  BY <1>1 DEF TiesMatch
<1>2. ASSUME NEW i \in Switches, i \in Range(Ties), Eligible(i, s, acc),
             RestoreSection(acc, s) = CloseTie(i, s, acc)
      PROVE  TiesMatch(RestoreSection(acc, s), before \cup {s})
  BY <1>2, CloseTieMatches
<1> QED
  BY <1>1, <1>2, RestoreCases

LEMMA RestorationMatches ==
  ASSUME TypeOK, RestoreUnfaultedSections
  PROVE  \E acc \in Accs, before \in SUBSET Sections :
           TiesMatch(acc, before) /\ sw' = acc.sw /\ energized' = acc.energized
<1>1. PICK n \in Nat : \E q, g : Restores(n, q, g)
  BY RestorationRuns
<1>2. PICK q, g : Restores(n, q, g)
  BY <1>1
<1> DEFINE Before(k) == {q[j] : j \in 1..k}
           Inv == [k \in 0..n |-> {acc \in Accs : InProgress(acc) /\ TiesMatch(acc, Before(k))}]
<1>3. g[0] \in Inv[0]
  <2>1. g[0] \in Accs /\ g[0].sw = sw /\ g[0].count = count /\ g[0].energized = energized
    BY <1>2 DEF Restores
  <2>2. \A i \in Switches : count[i] \in Int
    BY FeederAssumption DEF TypeOK
  <2>3. InProgress(g[0])
    BY <2>1, <2>2 DEF InProgress, OnlyTiesClosed, ClosingsCounted, StaysBelowLimit
  <2>4. ClosedTies(g[0]) = {} /\ RestoredBy(g[0]) = {}
    BY <2>1 DEF ClosedTies, RestoredBy
  <2>5. TiesMatch(g[0], Before(0))
    BY <2>1, <2>3, <2>4 DEF TiesMatch, InProgress
  <2> QED
    BY <2>1, <2>3, <2>5
<1>4. ASSUME NEW k \in 1..n, g[k - 1] \in Inv[k - 1] PROVE g[k] \in Inv[k]
  <2>0. k - 1 \in 0..n /\ k \in 0..n
    OBVIOUS
  <2>1. g[k - 1] \in Accs /\ InProgress(g[k - 1]) /\ TiesMatch(g[k - 1], Before(k - 1))
    <3> HIDE DEF Before
    <3> QED
      BY <1>4, <2>0
  <2>2. q[k] \in Sections /\ q[k] \notin energized /\ g[k] = RestoreSection(g[k - 1], q[k])
    BY <1>2 DEF Restores
  <2>3. q[k] \notin Before(k - 1)
    <3>1. \A j \in 1..(k - 1) : j \in 1..n /\ j # k
      OBVIOUS
    <3>2. \A i, j \in 1..n : q[i] = q[j] => i = j
      BY <1>2 DEF Restores
    <3> QED
      BY <3>1, <3>2
  <2>4. Before(k) = Before(k - 1) \cup {q[k]}
    <3>1. 1..k = (1..(k - 1)) \cup {k}
      OBVIOUS
    <3> QED
      BY <3>1
  <2> HIDE DEF Before
  <2>5. g[k] \in Accs /\ InProgress(g[k])
    BY <2>1, <2>2, RestoreType, RestoreProgress
  <2>6. TiesMatch(g[k], Before(k - 1) \cup {q[k]})
    BY <2>1, <2>2, <2>3, RestoreMatches
  <2>7. TiesMatch(g[k], Before(k))
    BY <2>4, <2>6
  <2> QED
    BY <2>0, <2>5, <2>7
<1>5. \A k \in 0..n : g[k] \in Inv[k]
  <2> HIDE DEF Inv
  <2> QED
    BY <1>3, <1>4, RunInvariant
<1>6. g[n] \in Accs /\ TiesMatch(g[n], Before(n))
  BY <1>5
<1>7. Before(n) \in SUBSET Sections
  BY <1>2 DEF Restores
<1> HIDE DEF Before
<1> QED
  BY <1>2, <1>6, <1>7 DEF Restores

(* A restoration closes as many ties as it restores sections, and pairs     *)
(* them along the border, on every feeder: the ties are looked up anew for  *)
(* each section, so one that was just closed is not used again.             *)
THEOREM TieForEachSection == Spec => OneTiePerSection
<1> DEFINE Paired == lastCall' = "restore" =>
       LET closed == {i \in Switches : sw'[i] # sw[i]}
           restored == energized' \ energized
       IN  /\ Cardinality(closed) = Cardinality(restored)
           /\ \A s \in restored : \E i \in closed : Borders(i, s)
           /\ \A i \in closed : \E s \in restored : Borders(i, s)
<1>1. TypeOK /\ [Next]_vars => [Paired]_vars
  <2> SUFFICES ASSUME TypeOK, Next, lastCall' = "restore" PROVE Paired
    OBVIOUS
  <2>1. RestoreUnfaultedSections
    BY DEF Next, ProcessFault, RecloserSequence, SwitchOperation, Call
  <2>2. PICK acc \in Accs, before \in SUBSET Sections :
          TiesMatch(acc, before) /\ sw' = acc.sw /\ energized' = acc.energized
    BY <2>1, RestorationMatches
  <2> QED
    BY <2>2 DEF TiesMatch, ClosedTies, RestoredBy
<1> QED
  BY <1>1, FeederType, PTL DEF Spec, OneTiePerSection

==============================================================================
