----------------------------- MODULE P2pMarket -----------------------------
(***************************************************************************)
(* The peer-to-peer energy market of optimize/market/peer_to_peer.rs: the  *)
(* order book, its three clearing algorithms and the statuses they stamp   *)
(* on the bids.  A bid is known by its position in bids, which is its id   *)
(* plus one (submit_bid pushes and counts in step), a trade likewise.      *)
(* Quantities are whole kWh, so "< 1e-9" is "= 0"; clearing prices are in  *)
(* half units, so that the midpoint of two limit prices is exact.          *)
(***************************************************************************)
EXTENDS Ordering, FiniteSetsExt, SequencesExt

CONSTANTS
  Agents,        \* agent ids
  HomeBus,       \* the bus each agent is connected to when it registers
  Offers,        \* the bids a caller can submit
  GreenPremium,  \* green_premium_usd_per_kwh, in half units
  MaxBids        \* bound on the length of the order book

Directions == {"Buy", "Sell"}
Statuses == {"Pending", "PartiallyFilled", "Matched"}
Mechanisms == {"DoubleSidedAuction", "CommunityMicromarket", "BilateralContract"}

(* live: expiry_timestamp > 0.0, the only expiry test the market makes. *)
Offer == [agent : Agents, dir : Directions, qty : Nat, price : Nat,
          renewable : BOOLEAN, green : BOOLEAN, localOnly : BOOLEAN,
          live : BOOLEAN]

ASSUME MarketAssumption ==
  /\ HomeBus \in [Agents -> Nat]
  /\ \A o \in Offers : o \in Offer
  /\ GreenPremium \in Nat /\ MaxBids \in Nat

VARIABLES
  agents,   \* the registered agents
  bids,     \* all submitted bids, each an offer with its status
  trades,   \* all trades
  round     \* the last clearing: its result, and history of what it started from

vars == <<agents, bids, trades, round>>

Bids == DOMAIN bids

AgentBus(a) == IF a \in agents THEN HomeBus[a] ELSE 0

Bus(id) == AgentBus(bids[id].agent)

NoRound == [mechanism |-> "none", active |-> {}, bus |-> <<>>, trades |-> <<>>]

Init == agents = {} /\ bids = <<>> /\ trades = <<>> /\ round = NoRound

------------------------------------------------------------------------------
(* Order book *)

AddAgent(a) == agents' = agents \cup {a} /\ UNCHANGED <<bids, trades, round>>

SubmitBid(o) ==
  /\ Len(bids) < MaxBids
  /\ bids' = Append(bids,
       [agent |-> o.agent, dir |-> o.dir, qty |-> o.qty, price |-> o.price,
        renewable |-> o.renewable, green |-> o.green, localOnly |-> o.localOnly,
        live |-> o.live, status |-> "Pending"])
  /\ UNCHANGED <<agents, trades, round>>

(* Mutated form: matched bids stay in the book. *)
IsActiveForever(id) == bids[id].live

IsActive(id) == bids[id].live /\ bids[id].status \in {"Pending", "PartiallyFilled"}

ActiveBids(dir) == {id \in Bids : bids[id].dir = dir /\ IsActive(id)}

------------------------------------------------------------------------------
(* Matching.  A match in progress is [left, trades]: the working copies of  *)
(* the quantities and the trades made so far.                               *)

StartMatch ==
  [left   |-> [id \in ActiveBids("Sell") \cup ActiveBids("Buy") |-> bids[id].qty],
   trades |-> <<>>]

(* Mutated form: only the buyer's volume is consumed. *)
DealFreely(s, b, m) ==
  LET q == IF m.left[s] < m.left[b] THEN m.left[s] ELSE m.left[b] IN
  [left   |-> [m.left EXCEPT ![b] = @ - q],
   trades |-> Append(m.trades,
                [sell |-> s, buy |-> b, qty |-> q,
                 price |-> bids[s].price + bids[b].price])]

(* One trade of bids s and b at the midpoint of their prices, plus the      *)
(* green premium when a renewable seller meets a buyer that asked for it.   *)
Deal(s, b, m) ==
  LET q == IF m.left[s] < m.left[b] THEN m.left[s] ELSE m.left[b]
      premium == IF bids[s].renewable /\ bids[b].green THEN GreenPremium ELSE 0
  IN  [left   |-> [m.left EXCEPT ![s] = @ - q, ![b] = @ - q],
       trades |-> Append(m.trades,
                    [sell |-> s, buy |-> b, qty |-> q,
                     price |-> bids[s].price + bids[b].price + premium])]

(* Mutated form: any two bids are compatible. *)
AnyPrices(s, b) == TRUE

PricesCross(s, b) == bids[s].price <= bids[b].price

(* Sell bids ascending and buy bids descending by price; sort_by is stable. *)
CheapestFirst ==
  {p \in ActiveBids("Sell") \X ActiveBids("Sell") :
     \/ bids[p[1]].price < bids[p[2]].price
     \/ bids[p[1]].price = bids[p[2]].price /\ p[1] < p[2]}

(* Mutated form: buy bids are sorted the wrong way round. *)
LowestFirst ==
  {p \in ActiveBids("Buy") \X ActiveBids("Buy") :
     \/ bids[p[1]].price < bids[p[2]].price
     \/ bids[p[1]].price = bids[p[2]].price /\ p[1] < p[2]}

HighestFirst ==
  {p \in ActiveBids("Buy") \X ActiveBids("Buy") :
     \/ bids[p[1]].price > bids[p[2]].price
     \/ bids[p[1]].price = bids[p[2]].price /\ p[1] < p[2]}

(* A walk over the sorted lists is at positions si and bi; a turn exhausts  *)
(* at least one bid, or the walk is over.                                   *)
Turn(w, sells, buys) ==
  IF \/ w.si > Len(sells) \/ w.bi > Len(buys)
     \/ ~PricesCross(sells[w.si], buys[w.bi])
  THEN w
  ELSE LET m == Deal(sells[w.si], buys[w.bi], w.m)
       IN  [m  |-> m,
            si |-> IF m.left[sells[w.si]] = 0 THEN w.si + 1 ELSE w.si,
            bi |-> IF m.left[buys[w.bi]] = 0 THEN w.bi + 1 ELSE w.bi]

(* There are at most as many turns as there are bids. *)
Walk(sells, buys) ==
  FoldLeft(LAMBDA w, turn : Turn(w, sells, buys),
           [m |-> StartMatch, si |-> 1, bi |-> 1], sells \o buys)

AuctionMatch ==
  Walk(SortBy(ActiveBids("Sell"), CheapestFirst),
       SortBy(ActiveBids("Buy"), HighestFirst)).m

Pairs == [sell : ActiveBids("Sell"), buy : ActiveBids("Buy")]

(* Two nested loops visit the pairs: the buyers in one order, and for each  *)
(* of them the sellers in the order given for that buyer.                   *)
VisitOrder(pairs, buyers, sellersFor) ==
  {v \in pairs \X pairs :
     \/ <<v[1].buy, v[2].buy>> \in buyers
     \/ /\ v[1].buy = v[2].buy
        /\ <<v[1].sell, v[2].sell>> \in sellersFor[v[1].buy]}

Meet(m, p) ==
  IF m.left[p.sell] > 0 /\ m.left[p.buy] > 0 /\ PricesCross(p.sell, p.buy)
  THEN Deal(p.sell, p.buy, m) ELSE m

(* Each buyer in turn takes what it can from the sellers it may deal with.  *)
GreedyMatch(pairs, buyers, sellersFor, start) ==
  FoldLeft(Meet, start, SortBy(pairs, VisitOrder(pairs, buyers, sellersFor)))

ByPrice == [b \in ActiveBids("Buy") |-> CheapestFirst]

SameBus(s, b) == Bus(s) = Bus(b)

LocalPass(m) ==
  GreedyMatch({p \in Pairs : SameBus(p.sell, p.buy)}, HighestFirst, ByPrice, m)

(* Mutated form: the flag of the buyer is not looked at. *)
CrossPassForAll(m) == GreedyMatch(Pairs, HighestFirst, ByPrice, m)

(* The flag of a buyer keeps it out; the flag of a seller is not read. *)
CrossPass(m) ==
  GreedyMatch({p \in Pairs : ~bids[p.buy].localOnly}, HighestFirst, ByPrice, m)

CommunityMatch == CrossPass(LocalPass(StartMatch))

(* Mutated form: the distance is not taken absolute. *)
SignedDistance(s, b) == Bus(b) - Bus(s)

Distance(s, b) ==
  IF Bus(b) >= Bus(s) THEN Bus(b) - Bus(s) ELSE Bus(s) - Bus(b)

(* Candidates are sorted by distance only, ties in submission order. *)
ByDistance ==
  [b \in ActiveBids("Buy") |->
     {p \in ActiveBids("Sell") \X ActiveBids("Sell") :
        \/ Distance(p[1], b) < Distance(p[2], b)
        \/ Distance(p[1], b) = Distance(p[2], b) /\ p[1] < p[2]}]

BilateralMatch ==
  GreedyMatch(Pairs, Ascending(ActiveBids("Buy")), ByDistance, StartMatch)

------------------------------------------------------------------------------
(* Clearing *)

(* Mutated form: a partial fill is not recorded. *)
StatusUnlessFilled(id, left) ==
  IF left = 0 THEN "Matched" ELSE bids[id].status

(* Mutated form: a filled bid gets the status of its trades. *)
StatusExecuted(id, left) ==
  CASE left = 0                            -> "Executed"
    [] left # 0 /\ left < bids[id].qty     -> "PartiallyFilled"
    [] left # 0 /\ ~(left < bids[id].qty)  -> bids[id].status

(* update_bid_statuses_after_matching, one bid of it. *)
StatusAfter(id, left) ==
  CASE left = 0                            -> "Matched"
    [] left # 0 /\ left < bids[id].qty     -> "PartiallyFilled"
    [] left # 0 /\ ~(left < bids[id].qty)  -> bids[id].status

Clear(mechanism, m) ==
  /\ bids' = [id \in Bids |->
                IF id \in DOMAIN m.left
                THEN [bids[id] EXCEPT !.status = StatusAfter(id, m.left[id])]
                ELSE bids[id]]
  /\ trades' = trades \o m.trades
  /\ round' = [mechanism |-> mechanism, active |-> DOMAIN m.left,
               bus |-> [id \in Bids |-> Bus(id)], trades |-> m.trades]
  /\ UNCHANGED agents

RunDoubleSidedAuction == Clear("DoubleSidedAuction", AuctionMatch)

RunCommunityMicromarket == Clear("CommunityMicromarket", CommunityMatch)

RunBilateralMatching == Clear("BilateralContract", BilateralMatch)

(* clear_market calls one of the three by the market's mechanism; all are   *)
(* public, so any of them may run next.                                     *)
ClearMarket ==
  RunDoubleSidedAuction \/ RunCommunityMicromarket \/ RunBilateralMatching

Next ==
  \/ \E a \in Agents : AddAgent(a)
  \/ \E o \in Offers : SubmitBid(o)
  \/ ClearMarket

Spec == Init /\ [][Next]_vars

------------------------------------------------------------------------------
(* Properties *)

Trade == [sell : Bids, buy : Bids, qty : Nat, price : Nat]

Bid == [agent : Agents, dir : Directions, qty : Nat, price : Nat,
        renewable : BOOLEAN, green : BOOLEAN, localOnly : BOOLEAN,
        live : BOOLEAN, status : Statuses]

(* Types; of the statuses a bid can carry the market uses only three, and   *)
(* Executed belongs to trades.                                              *)
TypeOK ==
  /\ agents \subseteq Agents
  /\ Len(bids) <= MaxBids /\ \A id \in Bids : bids[id] \in Bid
  /\ \A i \in DOMAIN trades : trades[i] \in Trade
  /\ round.mechanism \in Mechanisms \cup {"none"}
  /\ round.active \subseteq Bids
  /\ \A i \in DOMAIN round.trades : round.trades[i] \in Trade

(* Volume a bid has in a list of trades. *)
Filled(id, ts) ==
  LET volume == [i \in DOMAIN ts |->
                   IF id \in {ts[i].sell, ts[i].buy} THEN ts[i].qty ELSE 0]
  IN  MapThenSumSet(LAMBDA i : volume[i], DOMAIN ts)

ActiveIn(r, dir) == {id \in r.active : bids[id].dir = dir}

(* One clearing never trades more of a bid than its quantity, although a    *)
(* bid may meet several counterparties, in two passes of the community      *)
(* market.                                                                  *)
RoundFillsWithinBid ==
  \A id \in Bids : Filled(id, round.trades) <= bids[id].qty

(* The status of a bid tells what the trades say over all clearings: a      *)
(* Pending bid has none, a PartiallyFilled bid some, a Matched bid at       *)
(* least its quantity.                                                      *)
StatusAgreesWithTrades ==
  \A id \in Bids :
    LET f == Filled(id, trades) IN
    /\ bids[id].status = "Pending" => f = 0
    /\ bids[id].status = "PartiallyFilled" => f > 0
    /\ bids[id].status = "Matched" => f >= bids[id].qty

(* A Matched bid is settled for good: no later clearing trades it again or  *)
(* changes its status.                                                      *)
MatchedIsFinal ==
  [][\A id \in Bids :
       bids[id].status = "Matched" =>
         /\ bids'[id] = bids[id]
         /\ Filled(id, trades') = Filled(id, trades)]_vars

(* No clearing leaves a seller and a buyer that could still trade with each *)
(* other, except a buyer the community market keeps on its own bus.         *)
ClearingExhaustsCrossings ==
  \A s \in ActiveIn(round, "Sell"), b \in ActiveIn(round, "Buy") :
    /\ PricesCross(s, b)
    /\ bids[s].status # "Matched"
    /\ bids[b].status # "Matched"
    => /\ round.mechanism = "CommunityMicromarket"
       /\ bids[b].localOnly
       /\ round.bus[s] # round.bus[b]

(* No trade is made below the seller's limit, or above the buyer's but for  *)
(* the premium a green buyer agreed to pay a renewable seller.              *)
WithinLimits ==
  \A i \in DOMAIN round.trades :
    LET t == round.trades[i]
        premium == IF bids[t.sell].renewable /\ bids[t.buy].green
                   THEN GreenPremium ELSE 0
    IN  /\ 2 * bids[t.sell].price + premium <= t.price
        /\ t.price <= 2 * bids[t.buy].price + premium

(* Gains of an allocation of volumes to the bids active in a round. *)
Gains(r, fill) ==
  LET worth == [id \in r.active |-> IF bids[id].dir = "Buy" THEN bids[id].price * fill[id]
                                    ELSE -(bids[id].price * fill[id])]
  IN  MapThenSumSet(LAMBDA id : worth[id], r.active)

Balanced(r, fill) ==
  LET net == [id \in r.active |-> IF bids[id].dir = "Buy" THEN fill[id] ELSE -fill[id]]
  IN  MapThenSumSet(LAMBDA id : net[id], r.active) = 0

(* The two-pointer auction is efficient: no other balanced allocation of    *)
(* the volumes on offer is worth more to sellers and buyers together.       *)
AuctionIsEfficient ==
  round.mechanism = "DoubleSidedAuction" =>
    LET most == IF round.active = {} THEN 0
                ELSE CHOOSE q \in {bids[id].qty : id \in round.active} :
                       \A id \in round.active : bids[id].qty <= q
        made == [id \in round.active |-> Filled(id, round.trades)]
    IN  \A fill \in [round.active -> 0..most] :
          /\ \A id \in round.active : fill[id] <= bids[id].qty
          /\ Balanced(round, fill)
          => Gains(round, fill) <= Gains(round, made)

IsCross(r, t) == r.bus[t.sell] # r.bus[t.buy]

(* Community priority: a trade crosses buses only when every compatible bid *)
(* on either bus has been used up by trades inside that bus, and never for  *)
(* a buyer that asked to stay local.                                        *)
LocalFirst ==
  round.mechanism = "CommunityMicromarket" =>
    LET ts == {round.trades[i] : i \in DOMAIN round.trades}
        UsedUpLocally(id) ==
          /\ bids[id].status = "Matched"
          /\ \A u \in ts : id \in {u.sell, u.buy} => ~IsCross(round, u)
    IN  \A t \in ts :
          IsCross(round, t) =>
            /\ ~bids[t.buy].localOnly
            /\ \A s \in ActiveIn(round, "Sell") :
                 round.bus[s] = round.bus[t.buy] /\ PricesCross(s, t.buy)
                   => UsedUpLocally(s)
            /\ \A b \in ActiveIn(round, "Buy") :
                 round.bus[b] = round.bus[t.sell] /\ PricesCross(t.sell, b)
                   => UsedUpLocally(b)

(* Bilateral matching by proximity: a buyer deals with a seller only when   *)
(* every compatible seller on a nearer bus has sold everything.             *)
NearestFirst ==
  round.mechanism = "BilateralContract" =>
    LET Apart(s, b) == {round.bus[s] - round.bus[b], round.bus[b] - round.bus[s]}
        Nearer(x, y, b) == \E d \in Apart(x, b) \cap Nat :
                              \E e \in Apart(y, b) \cap Nat : d < e
    IN  \A i \in DOMAIN round.trades :
          LET t == round.trades[i] IN
          \A s \in ActiveIn(round, "Sell") :
            PricesCross(s, t.buy) /\ Nearer(s, t.sell, t.buy)
              => bids[s].status = "Matched"

(* TradeStatus::PartiallyFilled documents "residual volume remains": the    *)
(* trades of a bid should never add up to more than its quantity.           *)
BidNeverOverfilled ==
  \A id \in Bids : Filled(id, trades) <= bids[id].qty

============================================================================
