-------------------------- MODULE FeederAutomation --------------------------
(***************************************************************************)
(* Fault isolation and service restoration on a distribution feeder, of    *)
(* network/feeder_automation.rs.  Switches and sections are known by their *)
(* index plus one.  Each call runs to completion; the elapsed times it     *)
(* adds up, the reactive load and the reports are left out.                *)
(***************************************************************************)
EXTENDS Ordering, FiniteSetsExt, SequencesExt

CONSTANTS
  Switches, Sections,  \* 1..n, the indices into switches and sections
  Kind,                \* switch_type of each switch
  From, To,            \* its from_node and to_node
  Rating,              \* its rating in kW, 0 when none is defined
  Position,            \* its state in the topology the caller builds
  Ties,                \* tie_switches, in order
  Nodes, Load,         \* nodes and total load of each section
  Shots,               \* config.recloser_shots
  MaxLoadTransfer,     \* config.max_load_transfer_kw
  Supplies,            \* the sets of sections that are energized at first
  CountLimit,          \* where operation_count saturates (u32::MAX)
  Requests,            \* the states an operator asks switch_operation for
  MaxCalls             \* bound on the number of calls

Kinds == {"Recloser", "Sectionalizer", "ManualSwitch", "AutoSwitch", "Fuse"}
States == {"Closed", "Open", "Tripped", "Lockout", "Fault"}

ASSUME FeederAssumption ==
  /\ Switches \subseteq Nat \ {0} /\ IsFiniteSet(Switches)
  /\ Sections \subseteq Nat \ {0} /\ IsFiniteSet(Sections)
  /\ Kind \in [Switches -> Kinds] /\ Position \in [Switches -> States]
  /\ From \in [Switches -> Nat] /\ To \in [Switches -> Nat]
  /\ Rating \in [Switches -> Nat]
  /\ Ties \in Seq(Switches)
  /\ \A s \in Sections : Nodes[s] \subseteq Nat
  /\ Load \in [Sections -> Nat]
  /\ Shots \in Nat /\ MaxLoadTransfer \in Nat
  /\ Supplies \subseteq SUBSET Sections /\ Requests \subseteq States
  /\ CountLimit \in Nat /\ MaxCalls \in Nat

VARIABLES
  sw,         \* the state of each switch
  count,      \* its operation_count
  energized,  \* the sections with energized = true
  fault,      \* faulted_section of the last FaultIsolationResult, 0 before
  isolated,   \* history: sections reported with isolated = true
  blown,      \* history: fuses that have operated
  calls,      \* number of calls made
  lastCall    \* which operation the last call was

vars == <<sw, count, energized, fault, isolated, blown, calls, lastCall>>

Init ==
  /\ sw = Position
  /\ count = [i \in Switches |-> 0]
  /\ energized \in Supplies
  /\ fault = 0
  /\ isolated = {}
  /\ blown = {i \in Switches : Kind[i] = "Fuse" /\ Position[i] \in {"Tripped", "Lockout"}}
  /\ calls = 0
  /\ lastCall = "none"

Call(name) ==
  /\ calls < MaxCalls
  /\ calls' = calls + 1
  /\ lastCall' = name
  /\ blown' = blown \cup {i \in Switches : Kind[i] = "Fuse" /\ sw'[i] \in {"Tripped", "Lockout"}}

(* Mutated form: the counter does not saturate. *)
BumpUnbounded(i, n) == [count EXCEPT ![i] = @ + n]

(* n operations of switch i, with saturating_add. *)
Bump(i, n) == [count EXCEPT ![i] = Min({@ + n, CountLimit})]

Borders(i, s) == {From[i], To[i]} \cap Nodes[s] # {}

------------------------------------------------------------------------------
(* recloser_sequence *)

(* With a persisting fault every shot trips, all but the last reclose, and  *)
(* the device locks out; without one it just closes.                        *)
ShotResult(persists) == IF persists THEN "Lockout" ELSE "Closed"

ShotOperations(persists) ==
  IF ~persists THEN 1 ELSE IF Shots = 0 THEN 0 ELSE 2 * Shots - 1

(* The sequence run from outside.  The type of the switch is not checked.   *)
RecloserSequence(i, persists) ==
  /\ sw' = [sw EXCEPT ![i] = ShotResult(persists)]
  /\ count' = Bump(i, ShotOperations(persists))
  /\ Call("sequence")
  /\ UNCHANGED <<energized, fault, isolated>>

------------------------------------------------------------------------------
(* process_fault *)

(* Mutated form: devices that are not closed are considered as well. *)
CandidatesAnyState(s) ==
  {i \in Switches : Kind[i] = "Recloser" /\ To[i] \in Nodes[s]}

(* Closed reclosers that feed the section or any energised one; failing     *)
(* them, closed switches of any type on its border.                         *)
Candidates(s) ==
  LET reclosers == {i \in Switches :
        /\ Kind[i] = "Recloser" /\ sw[i] = "Closed"
        /\ \/ To[i] \in Nodes[s]
           \/ \E e \in energized : To[i] \in Nodes[e]}
  IN  IF reclosers # {} THEN reclosers
      ELSE {i \in Switches : sw[i] = "Closed" /\ Borders(i, s)}

(* Mutated form: only the switches downstream of the section are opened. *)
ToOpenDownstream(s) ==
  {i \in Switches : From[i] \in Nodes[s]
                      /\ Kind[i] \in {"Sectionalizer", "AutoSwitch", "Recloser"}}

ToOpen(s) ==
  {i \in Switches : Borders(i, s)
                      /\ Kind[i] \in {"Sectionalizer", "AutoSwitch", "Recloser"}}

Isolate(s) ==
  /\ energized' = energized \ {s}
  /\ isolated' = isolated \cup {s}

(* No switch to trip: the section is only marked dead, whatever the fault.  *)
NoSwitchFound(s) ==
  /\ Candidates(s) = {}
  /\ Isolate(s)
  /\ UNCHANGED <<sw, count>>

TemporaryFault(s) ==
  /\ Candidates(s) # {}
  /\ LET r == Min(Candidates(s)) IN
       /\ sw' = [sw EXCEPT ![r] = ShotResult(FALSE)]
       /\ count' = Bump(r, ShotOperations(FALSE))
  /\ UNCHANGED <<energized, isolated>>

PermanentFault(s) ==
  /\ Candidates(s) # {}
  /\ LET r == Min(Candidates(s))
         opened == ToOpen(s) \ {r}
         shot == Bump(r, ShotOperations(TRUE))
     IN  /\ sw' = [i \in Switches |-> IF i = r THEN ShotResult(TRUE)
                                      ELSE IF i \in opened THEN "Open" ELSE sw[i]]
         /\ count' = [i \in Switches |-> IF i \in opened THEN Bump(i, 1)[i]
                                                          ELSE shot[i]]
  /\ Isolate(s)

ProcessFault(s, persists) ==
  /\ \/ NoSwitchFound(s) /\ Call("isolate")
     \/ ~persists /\ TemporaryFault(s) /\ Call("clear")
     \/ persists /\ PermanentFault(s) /\ Call("isolate")
  /\ fault' = s

------------------------------------------------------------------------------
(* restore_unfaulted_sections.  A restoration in progress is a record of    *)
(* switch states, counts and energised sections.                            *)

Supplied(en) == MapThenSumSet(LAMBDA s : Load[s], en)

(* Mutated form: the load already restored by this call is not counted. *)
PathHasCapacityAtEntry(i, s, acc) ==
  /\ Rating[i] = 0 \/ Load[s] <= Rating[i]
  /\ Supplied(energized) + Load[s] < MaxLoadTransfer

(* check_path_capacity for tie i and the load of section s. *)
PathHasCapacity(i, s, acc) ==
  /\ Rating[i] = 0 \/ Load[s] <= Rating[i]
  /\ Supplied(acc.energized) + Load[s] < MaxLoadTransfer

(* Mutated form: whether the tie is open is looked up before the call. *)
EligibleAtEntry(i, s, acc) ==
  sw[i] = "Open" /\ Borders(i, s) /\ PathHasCapacity(i, s, acc)

Eligible(i, s, acc) ==
  acc.sw[i] = "Open" /\ Borders(i, s) /\ PathHasCapacity(i, s, acc)

(* Mutated form: the operation of the tie is not counted. *)
CloseTieUncounted(i, s, acc) ==
  [acc EXCEPT !.sw[i] = "Closed", !.energized = @ \cup {s}]

CloseTie(i, s, acc) ==
  [sw |-> [acc.sw EXCEPT ![i] = "Closed"],
   count |-> [acc.count EXCEPT ![i] = Min({@ + 1, CountLimit})],
   energized |-> acc.energized \cup {s}]

RestoreSection(acc, s) ==
  LET candidates == {k \in DOMAIN Ties : Eligible(Ties[k], s, acc)}
  IN  IF candidates = {} THEN acc ELSE CloseTie(Ties[Min(candidates)], s, acc)

(* The sections are the ones dead at the start of the call, but for the     *)
(* section of the isolation result that the caller passes on.               *)
RestoreUnfaultedSections ==
  /\ fault # 0
  /\ LET dead == SortBy(Sections \ (energized \cup {fault}), Ascending(Sections))
         done == FoldLeft(RestoreSection,
                          [sw |-> sw, count |-> count, energized |-> energized], dead)
     IN  /\ sw' = done.sw
         /\ count' = done.count
         /\ energized' = done.energized
  /\ Call("restore")
  /\ UNCHANGED <<fault, isolated>>

------------------------------------------------------------------------------
(* switch_operation.  Only a fuse whose state is Tripped or Lockout is      *)
(* refused a close; no operation changes what is energised.                 *)
SwitchOperation(i, state) ==
  /\ ~(Kind[i] = "Fuse" /\ sw[i] \in {"Tripped", "Lockout"} /\ state = "Closed")
  /\ sw' = [sw EXCEPT ![i] = state]
  /\ count' = Bump(i, 1)
  /\ Call("operator")
  /\ UNCHANGED <<energized, fault, isolated>>

Next ==
  \/ \E s \in Sections, persists \in BOOLEAN : ProcessFault(s, persists)
  \/ RestoreUnfaultedSections
  \/ \E i \in Switches, persists \in BOOLEAN : RecloserSequence(i, persists)
  \/ \E i \in Switches, state \in Requests : SwitchOperation(i, state)

Spec == Init /\ [][Next]_vars

------------------------------------------------------------------------------
(* Properties *)

(* Types; operation_count stops at its limit.                               *)
TypeOK ==
  /\ sw \in [Switches -> States]
  /\ count \in [Switches -> 0..CountLimit]
  /\ energized \subseteq Sections
  /\ fault \in Sections \cup {0}
  /\ isolated \subseteq Sections /\ blown \subseteq Switches

Conducting(state) == state = "Closed"

(* A permanent fault leaves no automatic switch on the border of its        *)
(* section conducting, whichever recloser, perhaps far upstream, ran the    *)
(* shot sequence.                                                           *)
IsolationOpensBorder ==
  [][lastCall' = "isolate" =>
       \A i \in Switches :
         /\ Borders(i, fault')
         /\ Kind[i] \in {"Sectionalizer", "AutoSwitch", "Recloser"}
         => ~Conducting(sw'[i])]_vars

(* A restoration never takes the feeder to or above max_load_transfer_kw,   *)
(* counting what it restored itself, however many ties it closes.           *)
TransferWithinCapacity ==
  [][lastCall' = "restore" /\ energized' # energized
       => Supplied(energized') < MaxLoadTransfer]_vars

(* A restoration closes one tie for each section it restores, a different   *)
(* one for each and on its border, and touches nothing else.                *)
OneTiePerSection ==
  [][lastCall' = "restore" =>
       LET closed == {i \in Switches : sw'[i] # sw[i]}
           restored == energized' \ energized
       IN  /\ Cardinality(closed) = Cardinality(restored)
           /\ \A s \in restored : \E i \in closed : Borders(i, s)
           /\ \A i \in closed : \E s \in restored : Borders(i, s)]_vars

(* Wear is never lost: whenever the state of a switch changes, whichever    *)
(* call does it, its operation count rises, until it saturates.             *)
OperationsCounted ==
  [][\A i \in Switches :
       /\ count'[i] >= count[i]
       /\ sw'[i] # sw[i] => count'[i] > count[i] \/ count'[i] = CountLimit]_vars

(* Fault handling makes a switch conduct only if it is an open tie: it      *)
(* never recloses a device that was open, tripped, locked out or broken.    *)
AutomationClosesOnlyTies ==
  [][lastCall' \in {"isolate", "clear", "restore"} =>
       \A i \in Switches :
         ~Conducting(sw[i]) /\ Conducting(sw'[i])
           => sw[i] = "Open" /\ i \in Range(Ties)]_vars

(* RestorationResult documents the sections that cannot be restored as      *)
(* "permanent fault or no alternate path": a section isolated for a         *)
(* permanent fault should stay dead.                                        *)
FaultedSectionStaysDead == energized \cap isolated = {}

(* switch_operation documents "Fuses cannot be reclosed once blown".        *)
BlownFuseStaysOpen == \A i \in blown : ~Conducting(sw[i])

==============================================================================
