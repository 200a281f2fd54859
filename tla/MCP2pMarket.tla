---------------------------- MODULE MCP2pMarket ----------------------------
(* Two agents on buses 2 and 5 (0 until they register), and a book of up    *)
(* to four bids: partial fills, price ties, no volume, expired and local    *)
(* bids.                                                                    *)
EXTENDS P2pMarket

CONSTANTS ann, bob

MCHomeBus == (ann :> 2) @@ (bob :> 5)

Sell(a, q, p) ==
  [agent |-> a, dir |-> "Sell", qty |-> q, price |-> p, renewable |-> FALSE,
   green |-> FALSE, localOnly |-> FALSE, live |-> TRUE]

Buy(a, q, p) == [Sell(a, q, p) EXCEPT !.dir = "Buy"]

MCOffers ==
  { Sell(ann, 2, 1),
    [Sell(bob, 1, 2) EXCEPT !.renewable = TRUE],
    [Sell(bob, 1, 1) EXCEPT !.localOnly = TRUE],
    Sell(ann, 0, 1),
    [Buy(bob, 3, 2) EXCEPT !.green = TRUE],
    [Buy(ann, 1, 3) EXCEPT !.localOnly = TRUE],
    Buy(ann, 1, 1),
    [Buy(ann, 1, 2) EXCEPT !.live = FALSE] }

============================================================================
