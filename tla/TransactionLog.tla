--------------------------- MODULE TransactionLog ---------------------------
(***************************************************************************)
(* What an energy ledger promises about transactions: each one accepted is *)
(* numbered and logged in order of submission, nothing logged is lost,     *)
(* repeated or changed, and settlement seals everything logged so far.     *)
(***************************************************************************)
EXTENDS Naturals, Sequences

CONSTANT Terms   \* what the parties may agree on

VARIABLES
  log,      \* every accepted transaction: its number and its terms
  sealed    \* how many of them are settled

tvars == <<log, sealed>>

Init == log = <<>> /\ sealed = 0

Accept(t) == log' = Append(log, [id |-> Len(log), terms |-> t]) /\ UNCHANGED sealed

Seal == sealed < Len(log) /\ sealed' = Len(log) /\ UNCHANGED log

Next == Seal \/ \E t \in Terms : Accept(t)

Spec == Init /\ [][Next]_tvars

==============================================================================
