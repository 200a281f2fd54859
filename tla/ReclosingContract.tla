-------------------------- MODULE ReclosingContract --------------------------
(***************************************************************************)
(* What an auto-recloser promises to the line it protects, with neither    *)
(* timers nor shot numbers: a breaker opened by a trip is closed again at  *)
(* most Limit times before the device is back in service, a locked-out     *)
(* device closes nothing, and only a sequence in progress closes the       *)
(* breaker.  Autorecloser.tla implements this contract.                    *)
(***************************************************************************)
EXTENDS Naturals

CONSTANT Limit          \* reclosures allowed in one sequence

VARIABLES mode,         \* what the device is doing
          closed,       \* the breaker position the device keeps
          used          \* reclosures made since the device left service

cvars == <<mode, closed, used>>

Modes == {"service", "sequence", "locked", "blocked"}

Init == mode = "service" /\ closed = TRUE /\ used = 0

(* A trip opens the breaker and starts, or continues, a sequence. *)
Trip ==
  /\ mode \in {"service", "sequence"}
  /\ mode' = "sequence"
  /\ closed' = FALSE
  /\ UNCHANGED used

(* One of the Limit reclosures of the sequence. *)
Reclose ==
  /\ mode = "sequence"
  /\ ~closed
  /\ used < Limit
  /\ closed' = TRUE
  /\ used' = used + 1
  /\ UNCHANGED mode

(* The fault is gone: back in service with the breaker closed. *)
Settle ==
  /\ mode = "sequence"
  /\ closed
  /\ mode' = "service"
  /\ used' = 0
  /\ UNCHANGED closed

(* The device gives up with the breaker open. *)
LockOut ==
  /\ mode \in {"service", "sequence"}
  /\ mode' = "locked"
  /\ closed' = FALSE
  /\ UNCHANGED used

(* Blocking and unblocking leave the breaker where it is. *)
Block ==
  /\ mode' = "blocked"
  /\ UNCHANGED <<closed, used>>

Unblock ==
  /\ mode = "blocked"
  /\ mode' = "service"
  /\ used' = 0
  /\ UNCHANGED closed

(* The operator's reset leaves the breaker for a manual close. *)
Reset ==
  /\ mode' = "service"
  /\ closed' = FALSE
  /\ used' = 0

Next == Trip \/ Reclose \/ Settle \/ LockOut \/ Block \/ Unblock \/ Reset

Spec == Init /\ [][Next]_cvars

==============================================================================
