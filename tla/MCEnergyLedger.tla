--------------------------- MODULE MCEnergyLedger ---------------------------
(* Three participants and up to three transactions, among them a trade of a *)
(* participant with itself and two that must be refused.  Blocks keep their *)
(* fields apart in the hash, so that two different blocks never collide.    *)
EXTENDS EnergyLedger

CONSTANTS ann, bob, cyd

MCHash(id, txs, prev, price, total) == <<id, txs, prev, price, total>>

MCOpenings == {[balance |-> 0, energy |-> 0], [balance |-> 5, energy |-> 1]}

Trade(s, b, q, p) == [seller |-> s, buyer |-> b, mwh |-> q, price |-> p]

MCOrders ==
  { Trade(ann, bob, 1, 2), Trade(bob, ann, 2, 1), Trade(bob, bob, 1, 1),
    Trade(cyd, ann, 1, 0), Trade(ann, bob, 0, 1), Trade(ann, bob, 1, -1) }

==============================================================================
