-------------------------- MODULE P2pMarketProofs --------------------------
(***************************************************************************)
(* The market for every set of agents, offers and prices, and order books  *)
(* of every length: what the clearing algorithms keep while they match,    *)
(* and what is left when they stop.                                        *)
(***************************************************************************)
EXTENDS P2pMarket, DataLemmas

------------------------------------------------------------------------------
(* Volumes of trades                                                        *)

AnyTrade == [sell : Nat, buy : Nat, qty : Nat, price : Nat]

Volume(id, ts) ==
  [i \in DOMAIN ts |-> IF id \in {ts[i].sell, ts[i].buy} THEN ts[i].qty ELSE 0]

LEMMA FilledIsSum ==
  ASSUME NEW ts \in Seq(AnyTrade), NEW id
  PROVE  /\ DOMAIN ts = 1..Len(ts) /\ Len(ts) \in Nat /\ IsFiniteSet(DOMAIN ts)
         /\ Filled(id, ts) = SumOver(Volume(id, ts), DOMAIN ts)
         /\ Volume(id, ts) \in [DOMAIN ts -> Nat]
         /\ Filled(id, ts) \in Nat
<1>1. DOMAIN ts = 1..Len(ts) /\ Len(ts) \in Nat
  OBVIOUS
<1>2. IsFiniteSet(1..Len(ts))
  BY <1>1, FS_Interval
<1>3. Filled(id, ts) = SumOver(Volume(id, ts), DOMAIN ts)
  BY DEF Filled, SumOver, Volume
<1>4. Volume(id, ts) \in [DOMAIN ts -> Nat]
  <2> SUFFICES ASSUME NEW i \in DOMAIN ts
               PROVE  (IF id \in {ts[i].sell, ts[i].buy} THEN ts[i].qty ELSE 0) \in Nat
    BY DEF Volume
  <2>1. ts[i] \in AnyTrade
    OBVIOUS
  <2> QED
    BY <2>1 DEF AnyTrade
<1>5. SumOver(Volume(id, ts), DOMAIN ts) \in Nat
  BY <1>1, <1>2, <1>4, SumOfNaturals
<1> QED
  BY <1>1, <1>2, <1>3, <1>4, <1>5

(* A list of trades that do not involve a bid fills none of it.             *)
LEMMA FilledNothing ==
  ASSUME NEW ts \in Seq(AnyTrade), NEW id,
         \A i \in DOMAIN ts : id \notin {ts[i].sell, ts[i].buy}
  PROVE  Filled(id, ts) = 0
<1>1. IsFiniteSet(DOMAIN ts) /\ Filled(id, ts) = SumOver(Volume(id, ts), DOMAIN ts)
  BY FilledIsSum
<1>2. \A i \in DOMAIN ts : Volume(id, ts)[i] = 0
  BY DEF Volume
<1> QED
  BY <1>1, <1>2, SumOfZeros

(* What one more trade adds.                                                *)
LEMMA FilledAppend ==
  ASSUME NEW ts \in Seq(AnyTrade), NEW t \in AnyTrade, NEW id
  PROVE  Filled(id, Append(ts, t)) =
           Filled(id, ts) + (IF id \in {t.sell, t.buy} THEN t.qty ELSE 0)
<1> DEFINE us == Append(ts, t)
           n == Len(ts)
           v == Volume(id, ts)
           w == Volume(id, us)
<1>1. /\ us \in Seq(AnyTrade) /\ Len(us) = n + 1 /\ us[n + 1] = t
      /\ \A i \in 1..n : us[i] = ts[i]
  OBVIOUS
<1>2. /\ DOMAIN ts = 1..n /\ n \in Nat /\ IsFiniteSet(1..n)
      /\ Filled(id, ts) = SumOver(v, 1..n) /\ v \in [1..n -> Nat]
  <2>1. DOMAIN ts = 1..n
    BY FilledIsSum
  <2> QED
    BY <2>1, FilledIsSum
<1> HIDE DEF us
<1>3. DOMAIN us = 1..(n + 1) /\ Filled(id, us) = SumOver(w, 1..(n + 1)) /\ w \in [1..(n + 1) -> Nat]
  <2>1. DOMAIN us = 1..(n + 1)
    BY <1>1, FilledIsSum
  <2> QED
    BY <1>1, <2>1, FilledIsSum
<1>4. \A i \in 1..n : w[i] = v[i]
  BY <1>1, <1>2, <1>3 DEF Volume
<1>5. w[n + 1] = IF id \in {t.sell, t.buy} THEN t.qty ELSE 0
  BY <1>1, <1>2, <1>3 DEF Volume
<1> HIDE DEF v, w
<1>6. SumOver(w, 1..n) = SumOver(v, 1..n)
  BY <1>2, <1>4, SumCongruent
<1>7. 1..(n + 1) = (1..n) \cup {n + 1} /\ n + 1 \notin 1..n /\ 1..n \in SUBSET (1..(n + 1))
      /\ n + 1 \in 1..(n + 1)
  BY <1>2
<1>8. w \in [1..(n + 1) -> Int]
  BY <1>3
<1> HIDE DEF n
<1>9. SumOver(w, (1..n) \cup {n + 1}) = SumOver(w, 1..n) + w[n + 1]
  <2> DEFINE A == 1..n
             B == 1..(n + 1)
             x == n + 1
  <2>1. w \in [B -> Int] /\ A \in SUBSET B /\ IsFiniteSet(A) /\ x \in B /\ x \notin A
    BY <1>2, <1>7, <1>8
  <2> HIDE DEF A, B, x
  <2>2. SumOver(w, A \cup {x}) = SumOver(w, A) + w[x]
    BY <2>1, SumAdd
  <2> QED
    BY <2>2 DEF A, x
<1> QED
  BY <1>2, <1>3, <1>5, <1>6, <1>7, <1>9 DEF us

(* Volumes add up over two lists.                                           *)
LEMMA FilledConcat ==
  ASSUME NEW ts \in Seq(AnyTrade), NEW us \in Seq(AnyTrade), NEW id
  PROVE  Filled(id, ts \o us) = Filled(id, ts) + Filled(id, us)
<1> DEFINE Part(k) == [i \in 1..k |-> us[i]]
           T == {k \in Nat : k <= Len(us) =>
                   Filled(id, ts \o Part(k)) = Filled(id, ts) + Filled(id, Part(k))}
<1>1. \A k \in 0..Len(us) : Part(k) \in Seq(AnyTrade) /\ Len(Part(k)) = k
  OBVIOUS
<1>2. 0 \in T
  <2>1. Part(0) = <<>> /\ ts \o <<>> = ts
    OBVIOUS
  <2>2. Filled(id, <<>>) = 0
    <3>1. <<>> \in Seq(AnyTrade) /\ DOMAIN <<>> = {}
      OBVIOUS
    <3> QED
      BY <3>1, FilledNothing
  <2>3. Filled(id, ts) \in Nat
    BY FilledIsSum
  <2> QED
    BY <2>1, <2>2, <2>3
<1>3. ASSUME NEW k \in Nat, k \in T PROVE k + 1 \in T
  <2> SUFFICES ASSUME k + 1 <= Len(us)
               PROVE  Filled(id, ts \o Part(k + 1)) = Filled(id, ts) + Filled(id, Part(k + 1))
    OBVIOUS
  <2>1. us[k + 1] \in AnyTrade /\ Part(k) \in Seq(AnyTrade)
    BY <1>1
  <2>2. Part(k + 1) = Append(Part(k), us[k + 1])
    OBVIOUS
  <2>3. ts \o Part(k + 1) = Append(ts \o Part(k), us[k + 1]) /\ ts \o Part(k) \in Seq(AnyTrade)
    BY <2>1, <2>2
  <2>4. Filled(id, ts \o Part(k)) = Filled(id, ts) + Filled(id, Part(k))
    BY <1>3
  <2> DEFINE t == us[k + 1]
             p == Part(k)
             pp == Part(k + 1)
             d == IF id \in {t.sell, t.buy} THEN t.qty ELSE 0
  <2>8. t \in AnyTrade /\ p \in Seq(AnyTrade) /\ pp = Append(p, t)
        /\ ts \o pp = Append(ts \o p, t) /\ ts \o p \in Seq(AnyTrade)
    BY <2>1, <2>2, <2>3
  <2> HIDE DEF t, p, pp
  <2>5. Filled(id, pp) = Filled(id, p) + d
    BY <2>8, FilledAppend
  <2>6. Filled(id, ts \o pp) = Filled(id, ts \o p) + d
    <3> DEFINE c == ts \o p
    <3>1. c \in Seq(AnyTrade) /\ ts \o pp = Append(c, t)
      BY <2>8
    <3> HIDE DEF c, d
    <3>2. Filled(id, Append(c, t)) = Filled(id, c) + d
      BY <2>8, <3>1, FilledAppend DEF d
    <3> QED
      BY <3>1, <3>2 DEF c
  <2>7. Filled(id, ts) \in Nat /\ Filled(id, p) \in Nat /\ d \in Nat
    <3>1. d \in Nat
      BY <2>8 DEF AnyTrade
    <3> QED
      BY <2>8, <3>1, FilledIsSum
  <2>9. Filled(id, ts \o p) = Filled(id, ts) + Filled(id, p)
    BY <2>4 DEF p
  <2>10. Filled(id, ts \o pp) = Filled(id, ts) + Filled(id, pp)
    BY ONLY <2>5, <2>6, <2>7, <2>9
  <2> QED
    BY <2>10 DEF pp
<1>4. Nat \subseteq T
  <2> HIDE DEF T
  <2> QED
    BY <1>2, <1>3, NatSetInduction
<1>5. Len(us) \in T /\ Part(Len(us)) = us
  BY <1>4
<1> QED
  BY <1>5

------------------------------------------------------------------------------
(* A matching in progress                                                   *)

Book == bids \in Seq(Bid)

Active == ActiveBids("Sell") \cup ActiveBids("Buy")

Deals == [sell : ActiveBids("Sell"), buy : ActiveBids("Buy"), qty : Nat, price : Nat]

Matches == [left : [Active -> Nat], trades : Seq(Deals)]

Premium(s, b) == IF bids[s].renewable /\ bids[b].green THEN GreenPremium ELSE 0

Priced(t) ==
  /\ 2 * bids[t.sell].price + Premium(t.sell, t.buy) <= t.price
  /\ t.price <= 2 * bids[t.buy].price + Premium(t.sell, t.buy)

(* What every matching keeps, whichever pairs it visits: what a bid has     *)
(* sold or bought and what is left of it add up to its quantity.            *)
Sound(m) ==
  /\ m \in Matches
  /\ \A id \in Active : Filled(id, m.trades) + m.left[id] = bids[id].qty
  /\ \A i \in DOMAIN m.trades : Priced(m.trades[i])

LEMMA BookFacts ==
  ASSUME Book
  PROVE  /\ Bids = 1..Len(bids) /\ Len(bids) \in Nat /\ Bids \in SUBSET Nat /\ IsFiniteSet(Bids)
         /\ \A id \in Bids : bids[id].qty \in Nat /\ bids[id].price \in Nat
                             /\ bids[id].status \in Statuses /\ bids[id].dir \in Directions
                             /\ bids[id] \in Bid
<1>1. Bids = 1..Len(bids) /\ Len(bids) \in Nat
  BY DEF Book, Bids
<1>2. IsFiniteSet(1..Len(bids))
  BY <1>1, FS_Interval
<1>3. \A id \in Bids : bids[id] \in Bid
  BY <1>1 DEF Book
<1> QED
  BY <1>1, <1>2, <1>3 DEF Bid

LEMMA ActiveFacts ==
  ASSUME Book
  PROVE  /\ ActiveBids("Sell") \in SUBSET Bids /\ ActiveBids("Buy") \in SUBSET Bids
         /\ Active \in SUBSET Bids
         /\ ActiveBids("Sell") \in SUBSET Active /\ ActiveBids("Buy") \in SUBSET Active
         /\ IsFiniteSet(ActiveBids("Sell")) /\ IsFiniteSet(ActiveBids("Buy")) /\ IsFiniteSet(Active)
         /\ \A s \in ActiveBids("Sell"), b \in ActiveBids("Buy") : s # b
<1>1. ActiveBids("Sell") \in SUBSET Bids /\ ActiveBids("Buy") \in SUBSET Bids
  BY DEF ActiveBids
<1>2. \A s \in ActiveBids("Sell"), b \in ActiveBids("Buy") : s # b
  BY DEF ActiveBids
<1>3. Active \in SUBSET Bids
  BY <1>1 DEF Active
<1>4. IsFiniteSet(Bids)
  BY BookFacts
<1>5. IsFiniteSet(ActiveBids("Sell")) /\ IsFiniteSet(ActiveBids("Buy")) /\ IsFiniteSet(Active)
  BY <1>1, <1>3, <1>4, FS_Subset
<1> QED
  BY <1>1, <1>2, <1>3, <1>5 DEF Active

LEMMA DealsAreTrades ==
  ASSUME Book, NEW ts \in Seq(Deals)
  PROVE  ts \in Seq(AnyTrade)
<1>1. Deals \subseteq AnyTrade
  <2>1. ActiveBids("Sell") \subseteq Nat /\ ActiveBids("Buy") \subseteq Nat
    BY ActiveFacts, BookFacts
  <2> QED
    BY <2>1 DEF Deals, AnyTrade
<1> QED
  BY <1>1

(* d is m after a trade t of volume q.                                      *)
Trades(m, d, s, b, q, t) ==
  /\ d \in Matches /\ t \in Deals /\ q \in Nat
  /\ q <= m.left[s] /\ q <= m.left[b] /\ (q = m.left[s] \/ q = m.left[b])
  /\ d.left[s] = m.left[s] - q /\ d.left[b] = m.left[b] - q
  /\ \A id \in Active : id # s /\ id # b => d.left[id] = m.left[id]
  /\ d.trades = Append(m.trades, t)
  /\ t.sell = s /\ t.buy = b /\ t.qty = q
  /\ t.price = bids[s].price + bids[b].price + Premium(s, b)

LEMMA DealTrades ==
  ASSUME Book, NEW m \in Matches, NEW s \in ActiveBids("Sell"), NEW b \in ActiveBids("Buy")
  PROVE  \E q \in Nat, t \in Deals : Trades(m, Deal(s, b, m), s, b, q, t)
<1> DEFINE q == IF m.left[s] < m.left[b] THEN m.left[s] ELSE m.left[b]
           t == [sell |-> s, buy |-> b, qty |-> q,
                 price |-> bids[s].price + bids[b].price + Premium(s, b)]
           l == [m.left EXCEPT ![s] = @ - q, ![b] = @ - q]
           d == Deal(s, b, m)
<1>1. m.left \in [Active -> Nat] /\ m.trades \in Seq(Deals)
  BY DEF Matches
<1>2. s \in Active /\ b \in Active /\ s # b /\ s \in Bids /\ b \in Bids
  BY ActiveFacts
<1>3. m.left[s] \in Nat /\ m.left[b] \in Nat
  BY <1>1, <1>2
<1>4. q \in Nat /\ q <= m.left[s] /\ q <= m.left[b] /\ (q = m.left[s] \/ q = m.left[b])
  BY <1>3
<1>5. bids[s].price + bids[b].price + Premium(s, b) \in Nat
  <2>1. bids[s].price \in Nat /\ bids[b].price \in Nat
    BY <1>2, BookFacts
  <2>2. Premium(s, b) \in Nat
    BY MarketAssumption DEF Premium
  <2> QED
    BY <2>1, <2>2
<1>6. d = [left |-> l, trades |-> Append(m.trades, t)]
  BY DEF Deal, Premium
<1> HIDE DEF q
<1>7. t \in Deals /\ t.sell = s /\ t.buy = b /\ t.qty = q
      /\ t.price = bids[s].price + bids[b].price + Premium(s, b)
  BY <1>4, <1>5 DEF Deals
<1> HIDE DEF t
<1>8. /\ l[s] = m.left[s] - q /\ l[b] = m.left[b] - q
      /\ \A id \in Active : id # s /\ id # b => l[id] = m.left[id]
  BY <1>1, <1>2
<1>9. l \in [Active -> Nat]
  BY <1>1, <1>2, <1>3, <1>4
<1> HIDE DEF l
<1>10. Append(m.trades, t) \in Seq(Deals)
  BY <1>1, <1>7
<1>11. d \in Matches /\ d.left = l /\ d.trades = Append(m.trades, t)
  BY <1>6, <1>9, <1>10 DEF Matches
<1> HIDE DEF d
<1>12. Trades(m, d, s, b, q, t)
  BY <1>4, <1>7, <1>8, <1>11 DEF Trades
<1> QED
  BY <1>4, <1>7, <1>12 DEF d

(* A trade between compatible bids keeps a matching sound.                  *)
LEMMA DealSound ==
  ASSUME Book, NEW m, Sound(m), NEW s \in ActiveBids("Sell"), NEW b \in ActiveBids("Buy"),
         PricesCross(s, b)
  PROVE  Sound(Deal(s, b, m))
<1> DEFINE d == Deal(s, b, m)
<1>1. m \in Matches /\ m.left \in [Active -> Nat] /\ m.trades \in Seq(Deals)
  BY DEF Sound, Matches
<1>2. PICK q \in Nat, t \in Deals : Trades(m, d, s, b, q, t)
  BY <1>1, DealTrades
<1> HIDE DEF d
<1>3. s \in Active /\ b \in Active /\ s # b /\ s \in Bids /\ b \in Bids
  BY ActiveFacts
<1>4. \A id \in Active : Filled(id, d.trades) + d.left[id] = bids[id].qty
  <2> SUFFICES ASSUME NEW id \in Active
               PROVE  Filled(id, d.trades) + d.left[id] = bids[id].qty
    OBVIOUS
  <2>1. m.trades \in Seq(AnyTrade) /\ t \in AnyTrade
    <3>1. t \in AnyTrade
      <4>1. ActiveBids("Sell") \subseteq Nat /\ ActiveBids("Buy") \subseteq Nat
        BY ActiveFacts, BookFacts
      <4> QED
        BY <4>1 DEF Deals, AnyTrade
    <3> QED
      BY <1>1, <3>1, DealsAreTrades
  <2>2. Filled(id, d.trades) = Filled(id, m.trades) + (IF id \in {t.sell, t.buy} THEN t.qty ELSE 0)
    BY <1>2, <2>1, FilledAppend DEF Trades
  <2>3. Filled(id, m.trades) \in Nat
    BY <2>1, FilledIsSum
  <2>4. Filled(id, m.trades) + m.left[id] = bids[id].qty /\ m.left[id] \in Nat
    BY <1>1 DEF Sound
  <2>5. t.sell = s /\ t.buy = b /\ t.qty = q
    BY <1>2 DEF Trades
  <2>6. CASE id = s \/ id = b
    <3>1. d.left[id] = m.left[id] - q
      BY <1>2, <2>6 DEF Trades
    <3>2. Filled(id, d.trades) = Filled(id, m.trades) + q
      BY <2>2, <2>5, <2>6
    <3> QED
      BY ONLY <2>3, <2>4, <3>1, <3>2, q \in Nat
  <2>7. CASE id # s /\ id # b
    <3>1. d.left[id] = m.left[id]
      BY <1>2, <2>7 DEF Trades
    <3>2. Filled(id, d.trades) = Filled(id, m.trades)
      BY <2>2, <2>3, <2>5, <2>7
    <3> QED
      BY <2>4, <3>1, <3>2
  <2> QED
    BY <2>6, <2>7
<1>5. Priced(t)
  <2>1. bids[s].price \in Nat /\ bids[b].price \in Nat /\ bids[s].price <= bids[b].price
    BY <1>3, BookFacts DEF PricesCross
  <2>2. Premium(s, b) \in Nat
    BY MarketAssumption DEF Premium
  <2>3. t.sell = s /\ t.buy = b /\ t.price = bids[s].price + bids[b].price + Premium(s, b)
    BY <1>2 DEF Trades
  <2> QED
    BY <2>1, <2>2, <2>3 DEF Priced
<1>6. \A i \in DOMAIN d.trades : Priced(d.trades[i])
  <2>1. d.trades = Append(m.trades, t) /\ m.trades \in Seq(Deals) /\ t \in Deals
    BY <1>1, <1>2 DEF Trades
  <2>2. \A i \in DOMAIN m.trades : Priced(m.trades[i])
    BY DEF Sound
  <2> SUFFICES ASSUME NEW i \in DOMAIN d.trades PROVE Priced(d.trades[i])
    OBVIOUS
  <2>3. d.trades[i] = t \/ (i \in DOMAIN m.trades /\ d.trades[i] = m.trades[i])
    BY <2>1
  <2> QED
    BY <1>5, <2>2, <2>3
<1>7. d \in Matches
  BY <1>2 DEF Trades
<1>8. Sound(d)
  BY <1>4, <1>6, <1>7 DEF Sound
<1> QED
  BY <1>8 DEF d

LEMMA StartSound ==
  ASSUME Book
  PROVE  Sound(StartMatch)
<1>1. StartMatch = [left |-> [id \in Active |-> bids[id].qty], trades |-> <<>>]
  BY DEF StartMatch, Active
<1>2. \A id \in Active : bids[id].qty \in Nat
  BY ActiveFacts, BookFacts
<1>3. StartMatch \in Matches
  BY <1>1, <1>2 DEF Matches
<1>4. StartMatch.trades = <<>> /\ \A id \in Active : StartMatch.left[id] = bids[id].qty
  BY <1>1
<1>5. \A id : Filled(id, <<>>) = 0
  <2>1. <<>> \in Seq(AnyTrade) /\ DOMAIN <<>> = {}
    OBVIOUS
  <2> QED
    BY <2>1, FilledNothing
<1> QED
  BY <1>2, <1>3, <1>4, <1>5 DEF Sound

------------------------------------------------------------------------------
(* The nested loops.  A greedy matching visits its pairs one after the      *)
(* other, each once, in the order of the two loops.                         *)

LEMMA MeetCases ==
  ASSUME Book, NEW m \in Matches, NEW p \in Pairs
  PROVE  \/ /\ Meet(m, p) = m
            /\ m.left[p.sell] = 0 \/ m.left[p.buy] = 0 \/ ~PricesCross(p.sell, p.buy)
         \/ /\ Meet(m, p) = Deal(p.sell, p.buy, m)
            /\ m.left[p.sell] > 0 /\ m.left[p.buy] > 0 /\ PricesCross(p.sell, p.buy)
<1>1. p.sell \in Active /\ p.buy \in Active
  BY ActiveFacts DEF Pairs
<1>2. m.left[p.sell] \in Nat /\ m.left[p.buy] \in Nat
  BY <1>1 DEF Matches
<1>3. CASE m.left[p.sell] > 0 /\ m.left[p.buy] > 0 /\ PricesCross(p.sell, p.buy)
  BY <1>3 DEF Meet
<1>4. CASE ~(m.left[p.sell] > 0 /\ m.left[p.buy] > 0 /\ PricesCross(p.sell, p.buy))
  BY <1>2, <1>4 DEF Meet
<1> QED
  BY <1>3, <1>4

(* Only trades happen, and they leave less; a visited pair is settled.      *)
LEMMA MeetEffect ==
  ASSUME Book, NEW m \in Matches, NEW p \in Pairs
  PROVE  /\ Meet(m, p) \in Matches
         /\ \A id \in Active : Meet(m, p).left[id] <= m.left[id]
         /\ PricesCross(p.sell, p.buy)
              => Meet(m, p).left[p.sell] = 0 \/ Meet(m, p).left[p.buy] = 0
         /\ Sound(m) => Sound(Meet(m, p))
<1> DEFINE d == Meet(m, p)
<1>1. p.sell \in ActiveBids("Sell") /\ p.buy \in ActiveBids("Buy")
      /\ p.sell \in Active /\ p.buy \in Active
  BY ActiveFacts DEF Pairs
<1>2. \A id \in Active : m.left[id] \in Nat
  BY DEF Matches
<1>3. CASE /\ d = m
           /\ m.left[p.sell] = 0 \/ m.left[p.buy] = 0 \/ ~PricesCross(p.sell, p.buy)
  BY <1>2, <1>3
<1>4. CASE /\ d = Deal(p.sell, p.buy, m)
           /\ m.left[p.sell] > 0 /\ m.left[p.buy] > 0 /\ PricesCross(p.sell, p.buy)
  <2>1. PICK q \in Nat, t \in Deals : Trades(m, d, p.sell, p.buy, q, t)
    BY <1>1, <1>4, DealTrades
  <2>2. Sound(m) => Sound(d)
    BY <1>1, <1>4, DealSound
  <2> HIDE DEF d
  <2>3. \A id \in Active : d.left[id] <= m.left[id]
    <3> SUFFICES ASSUME NEW id \in Active PROVE d.left[id] <= m.left[id]
      OBVIOUS
    <3>1. m.left[id] \in Nat
      BY <1>2
    <3>2. d.left[id] = m.left[id] \/ d.left[id] = m.left[id] - q
      BY <2>1 DEF Trades
    <3> QED
      BY <3>1, <3>2
  <2>4. d.left[p.sell] = 0 \/ d.left[p.buy] = 0
    <3>1. m.left[p.sell] \in Nat /\ m.left[p.buy] \in Nat
      BY <1>1, <1>2
    <3> QED
      BY <2>1, <3>1 DEF Trades
  <2> QED
    BY <2>1, <2>2, <2>3, <2>4 DEF Trades, d
<1> QED
  BY <1>3, <1>4, MeetCases

(* The fold, state by state.                                                *)
LEMMA MeetRun ==
  ASSUME Book, NEW n \in Nat, NEW q \in [1..n -> Pairs], NEW start \in Matches
  PROVE  \E g \in [0..n -> Matches] :
           /\ g[0] = start /\ g[n] = FoldLeft(Meet, start, q)
           /\ \A k \in 1..n : g[k] = Meet(g[k - 1], q[k])
<1> DEFINE step == [p \in Matches \X (1..n) |-> Meet(p[1], q[p[2]])]
           Solves(h) == h = [s \in SUBSET DOMAIN q |->
                               IF s = {} THEN start ELSE Meet(h[s \ {Max(s)}], q[Max(s)])]
<1>1. step \in Steps(Matches, n)
  <2>1. \A m \in Matches, k \in 1..n : Meet(m, q[k]) \in Matches
    BY MeetEffect
  <2> QED
    BY <2>1 DEF Steps
<1>2. \A a \in Matches, k \in 1..n : step[<<a, k>>] = Meet(a, q[k])
  OBVIOUS
<1> HIDE DEF step
<1>3. \E h : Solves(h)
  <2>1. PICK h : FoldTable(h, Matches, start, n, step)
    BY <1>1, FoldExists
  <2>2. ASSUME NEW s \in SUBSET (1..n), s # {}
        PROVE  h[s] = Meet(h[s \ {Max(s)}], q[Max(s)])
    <3>1. Max(s) \in 1..n
      BY <2>2, MaxIsMember
    <3>2. h[s \ {Max(s)}] \in Matches /\ h[s] = step[<<h[s \ {Max(s)}], Max(s)>>]
      BY <2>1, <2>2 DEF FoldTable
    <3> QED
      BY <1>2, <3>1, <3>2
  <2>3. Solves(h)
    BY <2>1, <2>2 DEF FoldTable
  <2> QED
    BY <2>3
<1>4. PICK h : Solves(h) /\ FoldLeft(Meet, start, q) = h[1..n]
  <2> DEFINE h == CHOOSE h : Solves(h)
  <2>1. Solves(h)
    <3> HIDE DEF Solves
    <3> QED
      BY <1>3, Zenon
  <2>2. FoldLeft(Meet, start, q) = h[DOMAIN q]
    BY DEF FoldLeft, MapThenFoldSet
  <2>3. DOMAIN q = 1..n
    OBVIOUS
  <2> HIDE DEF h, Solves
  <2> QED
    BY <2>1, <2>2, <2>3
<1>5. FoldsLike(h, Matches, start, n, step)
  <2>1. h[{}] = start
    BY <1>4
  <2>2. ASSUME NEW s \in SUBSET (1..n), s # {}, h[s \ {Max(s)}] \in Matches
        PROVE  h[s] = step[<<h[s \ {Max(s)}], Max(s)>>]
    <3>1. Max(s) \in 1..n
      BY <2>2, MaxIsMember
    <3>2. h[s] = Meet(h[s \ {Max(s)}], q[Max(s)])
      BY <1>4, <2>2
    <3> QED
      BY <1>2, <2>2, <3>1, <3>2
  <2> QED
    BY <2>1, <2>2 DEF FoldsLike
<1>6. PICK g : FoldStates(g, Matches, start, n, step) /\ g[n] = h[1..n]
  BY <1>1, <1>5, FoldRun
<1>7. g \in [0..n -> Matches] /\ g[0] = start
  BY <1>6 DEF FoldStates
<1>8. ASSUME NEW k \in 1..n PROVE g[k] = Meet(g[k - 1], q[k])
  <2>1. g[k] = step[<<g[k - 1], k>>] /\ g[k - 1] \in Matches
    BY <1>6 DEF FoldStates
  <2> QED
    BY <1>2, <2>1
<1> QED
  BY <1>4, <1>6, <1>7, <1>8

LEMMA PairsFinite ==
  ASSUME Book
  PROVE  IsFiniteSet(Pairs)
<1> DEFINE S == ActiveBids("Sell") \X ActiveBids("Buy")
           f == [x \in S |-> [sell |-> x[1], buy |-> x[2]]]
<1>1. IsFiniteSet(S)
  BY ActiveFacts, FS_Product
<1>2. f \in [S -> Pairs]
  BY DEF Pairs
<1>3. \A p \in Pairs : <<p.sell, p.buy>> \in S /\ f[<<p.sell, p.buy>>] = p
  BY DEF Pairs
<1> HIDE DEF f, S
<1>4. f \in Surjection(S, Pairs)
  BY <1>2, <1>3 DEF Surjection
<1> QED
  BY <1>1, <1>4, FS_Surjection

(* The orders of the loops.                                                 *)
Loops(buyers, sellersFor) ==
  /\ StrictTotalOrder(buyers, ActiveBids("Buy"))
  /\ \A b \in ActiveBids("Buy") : StrictTotalOrder(sellersFor[b], ActiveBids("Sell"))

LEMMA VisitsOrdered ==
  ASSUME NEW P \in SUBSET Pairs, NEW buyers, NEW sellersFor, Loops(buyers, sellersFor)
  PROVE  StrictTotalOrder(VisitOrder(P, buyers, sellersFor), P)
<1> DEFINE before == VisitOrder(P, buyers, sellersFor)
<1>1. \A p \in P : /\ p.sell \in ActiveBids("Sell") /\ p.buy \in ActiveBids("Buy")
                   /\ p = [sell |-> p.sell, buy |-> p.buy]
  BY DEF Pairs
<1>2. \A x, y \in P : <<x, y>> \in before <=>
        \/ <<x.buy, y.buy>> \in buyers
        \/ x.buy = y.buy /\ <<x.sell, y.sell>> \in sellersFor[x.buy]
  BY DEF VisitOrder
<1> HIDE DEF before
<1>3. \A x \in P : <<x, x>> \notin before
  BY <1>1, <1>2 DEF Loops, StrictTotalOrder
<1>4. ASSUME NEW x \in P, NEW y \in P, NEW z \in P, <<x, y>> \in before, <<y, z>> \in before
      PROVE  <<x, z>> \in before
  BY <1>1, <1>2, <1>4 DEF Loops, StrictTotalOrder
<1>5. ASSUME NEW x \in P, NEW y \in P
      PROVE  x = y \/ <<x, y>> \in before \/ <<y, x>> \in before
  BY <1>1, <1>2 DEF Loops, StrictTotalOrder
<1>6. StrictTotalOrder(before, P)
  BY <1>3, <1>4, <1>5 DEF StrictTotalOrder
<1> QED
  BY <1>6 DEF before

(* g is a run of the two loops: q lists the pairs, g the states.            *)
Visits(P, before, start, n, q, g) ==
  /\ n \in Nat /\ q \in [1..n -> P] /\ g \in [0..n -> Matches]
  /\ \A i, j \in 1..n : i < j => <<q[i], q[j]>> \in before
  /\ \A p \in P : \E i \in 1..n : q[i] = p
  /\ g[0] = start /\ \A k \in 1..n : g[k] = Meet(g[k - 1], q[k])

LEMMA GreedyVisits ==
  ASSUME Book, NEW P \in SUBSET Pairs, NEW buyers, NEW sellersFor, Loops(buyers, sellersFor),
         NEW start \in Matches
  PROVE  \E n, q, g : /\ Visits(P, VisitOrder(P, buyers, sellersFor), start, n, q, g)
                      /\ g[n] = GreedyMatch(P, buyers, sellersFor, start)
<1> DEFINE before == VisitOrder(P, buyers, sellersFor)
           q == SortBy(P, before)
           n == Cardinality(P)
<1>1. IsFiniteSet(P)
  BY PairsFinite, FS_Subset
<1>2. /\ n \in Nat /\ q \in [1..n -> P]
      /\ \A i, j \in 1..n : i < j => <<q[i], q[j]>> \in before
      /\ \A p \in P : \E i \in 1..n : q[i] = p
  BY <1>1, VisitsOrdered, SortedList
<1>3. GreedyMatch(P, buyers, sellersFor, start) = FoldLeft(Meet, start, q)
  BY DEF GreedyMatch
<1> HIDE DEF q, n, before
<1>4. q \in [1..n -> Pairs]
  BY <1>2
<1>5. PICK g \in [0..n -> Matches] :
        /\ g[0] = start /\ g[n] = FoldLeft(Meet, start, q)
        /\ \A k \in 1..n : g[k] = Meet(g[k - 1], q[k])
  BY <1>2, <1>4, MeetRun
<1>6. Visits(P, before, start, n, q, g) /\ g[n] = GreedyMatch(P, buyers, sellersFor, start)
  BY <1>2, <1>3, <1>5 DEF Visits
<1> QED
  BY <1>6 DEF before

(* What holds when the loops have ended: the matching is sound, nothing has *)
(* grown, and of the visited pairs that could trade one side is used up.    *)
Ends(P, start, m) ==
  /\ m \in Matches /\ (Sound(start) => Sound(m))
  /\ \A id \in Active : m.left[id] <= start.left[id]
  /\ \A p \in P : PricesCross(p.sell, p.buy) => m.left[p.sell] = 0 \/ m.left[p.buy] = 0

(* The pairs of the first k visits.                                         *)
Visited(q, k) == {q[i] : i \in 1..k}

LEMMA VisitsEnd ==
  ASSUME Book, NEW P \in SUBSET Pairs, NEW before, NEW start \in Matches, NEW n, NEW q, NEW g,
         Visits(P, before, start, n, q, g)
  PROVE  \A k \in 0..n : Ends(Visited(q, k), start, g[k])
<1> DEFINE Inv == [k \in 0..n |-> {m \in Matches : Ends(Visited(q, k), start, m)}]
<1>1. n \in Nat
  BY DEF Visits
<1>2. g[0] \in Inv[0]
  <2>1. g[0] = start /\ \A id \in Active : start.left[id] \in Nat
    BY DEF Visits, Matches
  <2>2. Ends(Visited(q, 0), start, start)
    BY <2>1 DEF Ends, Visited
  <2> QED
    BY <1>1, <2>1, <2>2
<1>3. ASSUME NEW k \in 1..n, g[k - 1] \in Inv[k - 1] PROVE g[k] \in Inv[k]
  <2> DEFINE a == g[k - 1]
             d == g[k]
             B == Visited(q, k - 1)
             C == Visited(q, k)
  <2>1. a \in Matches /\ Ends(B, start, a)
    <3>1. k - 1 \in 0..n
      BY <1>1
    <3> HIDE DEF B
    <3>2. Inv[k - 1] = {m \in Matches : Ends(B, start, m)}
      BY <3>1 DEF B
    <3> HIDE DEF Inv
    <3> QED
      BY <1>3, <3>2
  <2>2. d = Meet(a, q[k]) /\ q[k] \in Pairs /\ \A i \in 1..n : q[i] \in Pairs
    BY DEF Visits
  <2>3. C = B \cup {q[k]} /\ \A p \in C : p \in Pairs
    <3>1. 1..k = (1..(k - 1)) \cup {k} /\ \A i \in 1..k : i \in 1..n
      BY <1>1
    <3> QED
      BY <2>2, <3>1 DEF Visited
  <2> HIDE DEF a, B, C
  <2>4. /\ d \in Matches
        /\ \A id \in Active : d.left[id] <= a.left[id]
        /\ PricesCross(q[k].sell, q[k].buy) => d.left[q[k].sell] = 0 \/ d.left[q[k].buy] = 0
        /\ Sound(a) => Sound(d)
    BY <2>1, <2>2, MeetEffect
  <2> HIDE DEF d
  <2>5. \A id \in Active : d.left[id] \in Nat /\ a.left[id] \in Nat /\ start.left[id] \in Nat
    BY <2>1, <2>4 DEF Matches
  <2>6. \A id \in Active : d.left[id] <= start.left[id]
    BY <2>1, <2>4, <2>5 DEF Ends
  <2>7. \A p \in C : PricesCross(p.sell, p.buy) => d.left[p.sell] = 0 \/ d.left[p.buy] = 0
    <3> SUFFICES ASSUME NEW p \in C, PricesCross(p.sell, p.buy)
                 PROVE  d.left[p.sell] = 0 \/ d.left[p.buy] = 0
      OBVIOUS
    <3>1. CASE p \in B
      <4>1. p.sell \in Active /\ p.buy \in Active
        BY <2>3, ActiveFacts DEF Pairs
      <4>2. a.left[p.sell] = 0 \/ a.left[p.buy] = 0
        BY <2>1, <3>1 DEF Ends
      <4> QED
        BY <2>4, <2>5, <4>1, <4>2
    <3>2. CASE p = q[k]
      BY <2>4, <3>2
    <3> QED
      BY <2>3, <3>1, <3>2
  <2>8. Ends(C, start, d)
    BY <2>1, <2>4, <2>6, <2>7 DEF Ends
  <2> QED
    BY <1>1, <2>4, <2>8 DEF C, d
<1>4. \A k \in 0..n : g[k] \in Inv[k]
  <2> HIDE DEF Inv
  <2> QED
    BY <1>1, <1>2, <1>3, RunInvariant
<1> QED
  BY <1>1, <1>4

LEMMA GreedyEnds ==
  ASSUME Book, NEW P \in SUBSET Pairs, NEW buyers, NEW sellersFor, Loops(buyers, sellersFor),
         NEW start \in Matches
  PROVE  Ends(P, start, GreedyMatch(P, buyers, sellersFor, start))
<1> DEFINE before == VisitOrder(P, buyers, sellersFor)
<1>1. PICK n, q, g : /\ Visits(P, before, start, n, q, g)
                     /\ g[n] = GreedyMatch(P, buyers, sellersFor, start)
  BY GreedyVisits
<1> HIDE DEF before
<1>2. n \in Nat /\ Visited(q, n) = P
  BY <1>1 DEF Visits, Visited
<1>3. \A k \in 0..n : Ends(Visited(q, k), start, g[k])
  BY <1>1, VisitsEnd
<1>4. n \in 0..n
  BY <1>2
<1>5. Ends(Visited(q, n), start, g[n])
  BY ONLY <1>3, <1>4
<1> QED
  BY <1>1, <1>2, <1>5

(* A trade t made at the j-th visit: both bids had volume left, and nothing *)
(* has grown until m.                                                       *)
MadeAt(m, t, j, q, g) ==
  /\ t.sell = q[j].sell /\ t.buy = q[j].buy /\ PricesCross(t.sell, t.buy)
  /\ g[j - 1].left[t.sell] > 0 /\ g[j - 1].left[t.buy] > 0
  /\ \A id \in Active : m.left[id] <= g[j - 1].left[id]

(* Where the trades of the loops come from.                                 *)
LEMMA VisitTrades ==
  ASSUME Book, NEW P \in SUBSET Pairs, NEW before, NEW start \in Matches, NEW n, NEW q, NEW g,
         Visits(P, before, start, n, q, g)
  PROVE  \A i \in DOMAIN g[n].trades :
           \/ i \in DOMAIN start.trades /\ g[n].trades[i] = start.trades[i]
           \/ \E j \in 1..n : MadeAt(g[n], g[n].trades[i], j, q, g)
<1> DEFINE Made(k, m) ==
             \A i \in DOMAIN m.trades :
               \/ i \in DOMAIN start.trades /\ m.trades[i] = start.trades[i]
               \/ \E j \in 1..k : MadeAt(m, m.trades[i], j, q, g)
           Inv == [k \in 0..n |-> {m \in Matches : Made(k, m)}]
<1>1. /\ n \in Nat /\ g \in [0..n -> Matches] /\ g[0] = start
      /\ \A k \in 1..n : q[k] \in Pairs /\ g[k] = Meet(g[k - 1], q[k])
  BY DEF Visits
<1>2. g[0] \in Inv[0]
  <2>1. Made(0, start)
    OBVIOUS
  <2> HIDE DEF Made
  <2> QED
    BY <1>1, <2>1
<1>3. ASSUME NEW k \in 1..n, g[k - 1] \in Inv[k - 1] PROVE g[k] \in Inv[k]
  <2> DEFINE a == g[k - 1]
             d == g[k]
             p == q[k]
  <2>1. a \in Matches /\ Made(k - 1, a)
    <3>1. k - 1 \in 0..n
      BY <1>1
    <3> HIDE DEF Made
    <3> QED
      BY <1>3, <3>1
  <2>2. p \in Pairs /\ d = Meet(a, p) /\ d \in Matches
    BY <1>1
  <2>3. \A id \in Active : d.left[id] <= a.left[id] /\ d.left[id] \in Nat /\ a.left[id] \in Nat
    BY <2>1, <2>2, MeetEffect DEF Matches
  <2>4. /\ 1..(k - 1) \subseteq 1..k /\ k \in 1..k
        /\ \A j \in 1..k : j - 1 \in 0..n /\ g[j - 1] \in Matches
    BY <1>1
  <2>5. ASSUME NEW t, NEW j \in 1..(k - 1), MadeAt(a, t, j, q, g) PROVE MadeAt(d, t, j, q, g)
    <3> SUFFICES ASSUME NEW id \in Active PROVE d.left[id] <= g[j - 1].left[id]
      BY <2>5 DEF MadeAt
    <3>1. a.left[id] <= g[j - 1].left[id]
      BY <2>5 DEF MadeAt
    <3>2. g[j - 1].left[id] \in Nat
      BY <2>4 DEF Matches
    <3> QED
      BY <2>3, <3>1, <3>2
  <2> HIDE DEF a, d, p
  <2>6. CASE d = a
    <3>1. Made(k, d)
      BY <2>1, <2>4, <2>5, <2>6
    <3> HIDE DEF Made
    <3> QED
      BY <1>1, <2>2, <3>1 DEF d
  <2>7. CASE /\ d = Deal(p.sell, p.buy, a)
             /\ a.left[p.sell] > 0 /\ a.left[p.buy] > 0 /\ PricesCross(p.sell, p.buy)
    <3>1. PICK v \in Nat, t \in Deals : Trades(a, d, p.sell, p.buy, v, t)
      <4>1. p.sell \in ActiveBids("Sell") /\ p.buy \in ActiveBids("Buy")
        BY <2>2 DEF Pairs
      <4> QED
        BY <2>1, <2>7, <4>1, DealTrades
    <3>2. /\ d.trades = Append(a.trades, t) /\ t.sell = p.sell /\ t.buy = p.buy
          /\ a.trades \in Seq(Deals)
      BY <2>1, <3>1 DEF Trades, Matches
    <3>3. MadeAt(d, t, k, q, g)
      BY <2>3, <2>7, <3>2 DEF MadeAt, a, p
    <3>4. \A i \in DOMAIN d.trades :
            d.trades[i] = t \/ (i \in DOMAIN a.trades /\ d.trades[i] = a.trades[i])
      BY <3>2
    <3>5. Made(k, d)
      <4> SUFFICES ASSUME NEW i \in DOMAIN d.trades
                   PROVE  \/ i \in DOMAIN start.trades /\ d.trades[i] = start.trades[i]
                          \/ \E j \in 1..k : MadeAt(d, d.trades[i], j, q, g)
        OBVIOUS
      <4>1. CASE d.trades[i] = t
        BY <2>4, <3>3, <4>1
      <4>2. CASE i \in DOMAIN a.trades /\ d.trades[i] = a.trades[i]
        BY <2>1, <2>4, <2>5, <4>2
      <4> QED
        BY <3>4, <4>1, <4>2
    <3> HIDE DEF Made
    <3> QED
      BY <1>1, <2>2, <3>5 DEF d
  <2> QED
    BY <2>1, <2>2, <2>6, <2>7, MeetCases
<1>4. \A k \in 0..n : g[k] \in Inv[k]
  <2> HIDE DEF Inv
  <2> QED
    BY <1>1, <1>2, <1>3, RunInvariant
<1>5. Made(n, g[n])
  <2> HIDE DEF Made
  <2> QED
    BY <1>1, <1>4
<1> QED
  BY <1>5

------------------------------------------------------------------------------
(* The orders in which the algorithms sort                                  *)

LEMMA CheapestOrder ==
  ASSUME Book
  PROVE  StrictTotalOrder(CheapestFirst, ActiveBids("Sell"))
<1>1. \A x \in ActiveBids("Sell") : x \in Nat /\ bids[x].price \in Nat
  BY ActiveFacts, BookFacts
<1>2. \A x, y \in ActiveBids("Sell") : <<x, y>> \in CheapestFirst <=>
        \/ bids[x].price < bids[y].price
        \/ bids[x].price = bids[y].price /\ x < y
  BY DEF CheapestFirst
<1> QED
  BY <1>1, <1>2 DEF StrictTotalOrder

LEMMA HighestOrder ==
  ASSUME Book
  PROVE  StrictTotalOrder(HighestFirst, ActiveBids("Buy"))
<1>1. \A x \in ActiveBids("Buy") : x \in Nat /\ bids[x].price \in Nat
  BY ActiveFacts, BookFacts
<1>2. \A x, y \in ActiveBids("Buy") : <<x, y>> \in HighestFirst <=>
        \/ bids[x].price > bids[y].price
        \/ bids[x].price = bids[y].price /\ x < y
  BY DEF HighestFirst
<1> QED
  BY <1>1, <1>2 DEF StrictTotalOrder

LEMMA BusType ==
  ASSUME agents \subseteq Agents, NEW id
  PROVE  Bus(id) \in Nat
BY MarketAssumption DEF Bus, AgentBus

LEMMA DistanceOrder ==
  ASSUME Book, agents \subseteq Agents, NEW b \in ActiveBids("Buy")
  PROVE  StrictTotalOrder(ByDistance[b], ActiveBids("Sell"))
<1>1. \A x \in ActiveBids("Sell") : x \in Nat /\ Distance(x, b) \in Nat
  <2>1. \A x : Bus(x) \in Nat
    BY BusType
  <2> QED
    BY <2>1, ActiveFacts, BookFacts DEF Distance
<1>2. \A x, y \in ActiveBids("Sell") : <<x, y>> \in ByDistance[b] <=>
        \/ Distance(x, b) < Distance(y, b)
        \/ Distance(x, b) = Distance(y, b) /\ x < y
  BY DEF ByDistance
<1> QED
  BY <1>1, <1>2 DEF StrictTotalOrder

LEMMA LoopOrders ==
  ASSUME Book, agents \subseteq Agents
  PROVE  /\ Loops(HighestFirst, ByPrice)
         /\ Loops(Ascending(ActiveBids("Buy")), ByDistance)
<1>1. Loops(HighestFirst, ByPrice)
  BY HighestOrder, CheapestOrder DEF Loops, ByPrice
<1>2. StrictTotalOrder(Ascending(ActiveBids("Buy")), ActiveBids("Buy"))
  <2>1. ActiveBids("Buy") \in SUBSET Int
    BY ActiveFacts, BookFacts
  <2> QED
    BY <2>1, AscendingOrder
<1>3. Loops(Ascending(ActiveBids("Buy")), ByDistance)
  BY <1>2, DistanceOrder DEF Loops
<1> QED
  BY <1>1, <1>3

------------------------------------------------------------------------------
(* The two pointers of the auction                                          *)

(* The sorted lists that the auction walks.                                 *)
Listed(sells, buys) ==
  /\ sells \in Seq(ActiveBids("Sell")) /\ buys \in Seq(ActiveBids("Buy"))
  /\ \A i, j \in 1..Len(sells) : i <= j => bids[sells[i]].price <= bids[sells[j]].price
  /\ \A i, j \in 1..Len(buys) : i <= j => bids[buys[j]].price <= bids[buys[i]].price
  /\ \A i, j \in 1..Len(sells) : sells[i] = sells[j] => i = j
  /\ \A i, j \in 1..Len(buys) : buys[i] = buys[j] => i = j
  /\ \A s \in ActiveBids("Sell") : \E i \in 1..Len(sells) : sells[i] = s
  /\ \A b \in ActiveBids("Buy") : \E i \in 1..Len(buys) : buys[i] = b

LEMMA AuctionLists ==
  ASSUME Book
  PROVE  Listed(SortBy(ActiveBids("Sell"), CheapestFirst), SortBy(ActiveBids("Buy"), HighestFirst))
<1> DEFINE S == ActiveBids("Sell")
           B == ActiveBids("Buy")
           sells == SortBy(S, CheapestFirst)
           buys == SortBy(B, HighestFirst)
<1>1. /\ IsFiniteSet(S) /\ IsFiniteSet(B)
      /\ \A x \in S : bids[x].price \in Nat
      /\ \A x \in B : bids[x].price \in Nat
  BY ActiveFacts, BookFacts
<1>2. /\ sells \in [1..Len(sells) -> S] /\ sells \in Seq(S) /\ Len(sells) \in Nat
      /\ \A i, j \in 1..Len(sells) : i < j => <<sells[i], sells[j]>> \in CheapestFirst
      /\ \A i, j \in 1..Len(sells) : sells[i] = sells[j] => i = j
      /\ \A x \in S : \E i \in 1..Len(sells) : sells[i] = x
  <2>1. StrictTotalOrder(CheapestFirst, S)
    BY CheapestOrder
  <2> DEFINE n == Cardinality(S)
  <2> HIDE DEF S
  <2>2. /\ n \in Nat /\ sells \in [1..n -> S] /\ sells \in Seq(S) /\ Len(sells) = n
        /\ \A i, j \in 1..n : i < j => <<sells[i], sells[j]>> \in CheapestFirst
        /\ \A i, j \in 1..n : sells[i] = sells[j] => i = j
        /\ \A x \in S : \E i \in 1..n : sells[i] = x
    BY <1>1, <2>1, SortedList
  <2> HIDE DEF n, sells
  <2> QED
    BY <2>2
<1>3. /\ buys \in [1..Len(buys) -> B] /\ buys \in Seq(B) /\ Len(buys) \in Nat
      /\ \A i, j \in 1..Len(buys) : i < j => <<buys[i], buys[j]>> \in HighestFirst
      /\ \A i, j \in 1..Len(buys) : buys[i] = buys[j] => i = j
      /\ \A x \in B : \E i \in 1..Len(buys) : buys[i] = x
  <2>1. StrictTotalOrder(HighestFirst, B)
    BY HighestOrder
  <2> DEFINE n == Cardinality(B)
  <2> HIDE DEF B
  <2>2. /\ n \in Nat /\ buys \in [1..n -> B] /\ buys \in Seq(B) /\ Len(buys) = n
        /\ \A i, j \in 1..n : i < j => <<buys[i], buys[j]>> \in HighestFirst
        /\ \A i, j \in 1..n : buys[i] = buys[j] => i = j
        /\ \A x \in B : \E i \in 1..n : buys[i] = x
    BY <1>1, <2>1, SortedList
  <2> HIDE DEF n, buys
  <2> QED
    BY <2>2
<1> HIDE DEF sells, buys
<1>4. ASSUME NEW i \in 1..Len(sells), NEW j \in 1..Len(sells), i <= j
      PROVE  bids[sells[i]].price <= bids[sells[j]].price
  <2>1. sells[i] \in S /\ sells[j] \in S
    BY <1>2
  <2>2. i = j \/ <<sells[i], sells[j]>> \in CheapestFirst
    BY <1>2, <1>4
  <2>3. <<sells[i], sells[j]>> \in CheapestFirst
          => \/ bids[sells[i]].price < bids[sells[j]].price
             \/ bids[sells[i]].price = bids[sells[j]].price
    BY DEF CheapestFirst
  <2> HIDE DEF S
  <2> QED
    BY <1>1, <2>1, <2>2, <2>3
<1>5. ASSUME NEW i \in 1..Len(buys), NEW j \in 1..Len(buys), i <= j
      PROVE  bids[buys[j]].price <= bids[buys[i]].price
  <2>1. buys[i] \in B /\ buys[j] \in B
    BY <1>3
  <2>2. i = j \/ <<buys[i], buys[j]>> \in HighestFirst
    BY <1>3, <1>5
  <2>3. <<buys[i], buys[j]>> \in HighestFirst
          => \/ bids[buys[i]].price > bids[buys[j]].price
             \/ bids[buys[i]].price = bids[buys[j]].price
    BY DEF HighestFirst
  <2> HIDE DEF B
  <2>4. bids[buys[i]].price \in Nat /\ bids[buys[j]].price \in Nat
    <3>1. \A x \in B : bids[x].price \in Nat
      BY <1>1
    <3> QED
      BY <2>1, <3>1, Zenon
  <2>5. CASE i = j
    BY <2>4, <2>5
  <2>6. CASE <<buys[i], buys[j]>> \in HighestFirst
    BY ONLY <2>3, <2>4, <2>6
  <2> QED
    BY <2>2, <2>5, <2>6
<1>6. Listed(sells, buys)
  BY <1>2, <1>3, <1>4, <1>5 DEF Listed
<1> QED
  BY <1>6 DEF sells, buys

Walks(sells, buys) ==
  [m : Matches, si : 1..(Len(sells) + 1), bi : 1..(Len(buys) + 1)]

Over(w, sells, buys) ==
  \/ w.si > Len(sells) \/ w.bi > Len(buys)
  \/ ~PricesCross(sells[w.si], buys[w.bi])

(* d is the turn after w: a trade of the bids at the two positions.         *)
Advances(w, d, sells, buys) ==
  LET s == sells[w.si]
      b == buys[w.bi]
  IN  /\ s \in ActiveBids("Sell") /\ b \in ActiveBids("Buy") /\ PricesCross(s, b)
      /\ d.m = Deal(s, b, w.m)
      /\ d.si = IF d.m.left[s] = 0 THEN w.si + 1 ELSE w.si
      /\ d.bi = IF d.m.left[b] = 0 THEN w.bi + 1 ELSE w.bi

LEMMA TurnCases ==
  ASSUME Book, NEW sells, NEW buys, Listed(sells, buys), NEW w \in Walks(sells, buys)
  PROVE  /\ Over(w, sells, buys) => Turn(w, sells, buys) = w
         /\ ~Over(w, sells, buys) =>
              /\ w.si \in 1..Len(sells) /\ w.bi \in 1..Len(buys)
              /\ Advances(w, Turn(w, sells, buys), sells, buys)
         /\ Turn(w, sells, buys) \in Walks(sells, buys)
<1> DEFINE d == Turn(w, sells, buys)
<1>1. /\ sells \in Seq(ActiveBids("Sell")) /\ buys \in Seq(ActiveBids("Buy"))
      /\ w.m \in Matches /\ w.si \in 1..(Len(sells) + 1) /\ w.bi \in 1..(Len(buys) + 1)
  BY DEF Listed, Walks
<1>2. CASE Over(w, sells, buys)
  BY <1>2 DEF Over, Turn
<1>3. CASE ~Over(w, sells, buys)
  <2>1. w.si \in 1..Len(sells) /\ w.bi \in 1..Len(buys) /\ PricesCross(sells[w.si], buys[w.bi])
    BY <1>1, <1>3 DEF Over
  <2>2. sells[w.si] \in ActiveBids("Sell") /\ buys[w.bi] \in ActiveBids("Buy")
    BY <1>1, <2>1
  <2> DEFINE x == Deal(sells[w.si], buys[w.bi], w.m)
  <2>3. x \in Matches
    <3>1. \E q \in Nat, t \in Deals : Trades(w.m, x, sells[w.si], buys[w.bi], q, t)
      BY <1>1, <2>2, DealTrades
    <3> QED
      BY <3>1 DEF Trades
  <2>4. d = [m |-> x, si |-> IF x.left[sells[w.si]] = 0 THEN w.si + 1 ELSE w.si,
                      bi |-> IF x.left[buys[w.bi]] = 0 THEN w.bi + 1 ELSE w.bi]
    BY <1>3 DEF Over, Turn
  <2> HIDE DEF x, d
  <2>5. /\ d.m = x
        /\ d.si = IF x.left[sells[w.si]] = 0 THEN w.si + 1 ELSE w.si
        /\ d.bi = IF x.left[buys[w.bi]] = 0 THEN w.bi + 1 ELSE w.bi
    BY <2>4
  <2>6. Advances(w, d, sells, buys)
    BY <2>1, <2>2, <2>5 DEF Advances, x
  <2>7. d \in Walks(sells, buys)
    <3>1. Len(sells) \in Nat /\ Len(buys) \in Nat
      BY <1>1
    <3>2. (IF x.left[sells[w.si]] = 0 THEN w.si + 1 ELSE w.si) \in 1..(Len(sells) + 1)
      BY <2>1, <3>1
    <3>3. (IF x.left[buys[w.bi]] = 0 THEN w.bi + 1 ELSE w.bi) \in 1..(Len(buys) + 1)
      BY <2>1, <3>1
    <3> QED
      BY <2>3, <2>4, <3>2, <3>3 DEF Walks
  <2> QED
    BY <1>3, <2>1, <2>6, <2>7 DEF d
<1> QED
  BY <1>2, <1>3

FirstTurn == [m |-> StartMatch, si |-> 1, bi |-> 1]

LEMMA TurnRun ==
  ASSUME Book, NEW sells, NEW buys, Listed(sells, buys), FirstTurn \in Walks(sells, buys),
         NEW n \in Nat, n = Len(sells) + Len(buys)
  PROVE  \E g \in [0..n -> Walks(sells, buys)] :
           /\ g[0] = FirstTurn /\ g[n] = Walk(sells, buys)
           /\ \A k \in 1..n : g[k] = Turn(g[k - 1], sells, buys)
<1>0. PICK start : start = FirstTurn
  OBVIOUS
<1> DEFINE S == Walks(sells, buys)
           q == sells \o buys
           step == [p \in S \X (1..n) |-> Turn(p[1], sells, buys)]
           Solves(h) == h = [s \in SUBSET DOMAIN q |->
                               IF s = {} THEN start ELSE Turn(h[s \ {Max(s)}], sells, buys)]
<1>1. step \in Steps(S, n)
  <2>1. \A w \in S : Turn(w, sells, buys) \in S
    BY TurnCases
  <2> HIDE DEF S
  <2> QED
    BY <2>1 DEF Steps
<1>2. \A w \in S, k \in 1..n : step[<<w, k>>] = Turn(w, sells, buys)
  OBVIOUS
<1>9. DOMAIN q = 1..n
  BY DEF Listed
<1> HIDE DEF step, S, q
<1>3. \E h : Solves(h)
  <2>0. start \in S
    BY <1>0 DEF S
  <2>1. PICK h : FoldTable(h, S, start, n, step)
    BY <1>1, <2>0, FoldExists
  <2>2. ASSUME NEW s \in SUBSET (1..n), s # {}
        PROVE  h[s] = Turn(h[s \ {Max(s)}], sells, buys)
    <3>1. Max(s) \in 1..n
      BY <2>2, MaxIsMember
    <3>2. h[s \ {Max(s)}] \in S /\ h[s] = step[<<h[s \ {Max(s)}], Max(s)>>]
      BY <2>1, <2>2 DEF FoldTable
    <3> QED
      BY <1>2, <3>1, <3>2
  <2>3. Solves(h)
    BY <1>9, <2>1, <2>2 DEF FoldTable
  <2> QED
    BY <2>3
<1>4. PICK h : Solves(h) /\ Walk(sells, buys) = h[1..n]
  <2> DEFINE h == CHOOSE h : Solves(h)
  <2>1. Solves(h)
    <3> HIDE DEF Solves
    <3> QED
      BY <1>3, Zenon
  <2>2. Walk(sells, buys) = h[DOMAIN q]
    BY <1>0 DEF Walk, FoldLeft, MapThenFoldSet, FirstTurn, q
  <2> HIDE DEF h, Solves
  <2> QED
    BY <1>9, <2>1, <2>2
<1>5. FoldsLike(h, S, start, n, step)
  <2>1. h[{}] = start
    BY <1>4
  <2>2. ASSUME NEW s \in SUBSET (1..n), s # {}, h[s \ {Max(s)}] \in S
        PROVE  h[s] = step[<<h[s \ {Max(s)}], Max(s)>>]
    <3>1. Max(s) \in 1..n
      BY <2>2, MaxIsMember
    <3>2. h[s] = Turn(h[s \ {Max(s)}], sells, buys)
      BY <1>4, <1>9, <2>2
    <3> QED
      BY <1>2, <2>2, <3>1, <3>2
  <2> QED
    BY <2>1, <2>2 DEF FoldsLike
<1>6. PICK g : FoldStates(g, S, start, n, step) /\ g[n] = h[1..n]
  <2>1. start \in S
    BY <1>0 DEF S
  <2> QED
    BY <1>1, <1>5, <2>1, FoldRun
<1>7. g \in [0..n -> S] /\ g[0] = start
  BY <1>6 DEF FoldStates
<1>8. ASSUME NEW k \in 1..n PROVE g[k] = Turn(g[k - 1], sells, buys)
  <2>1. g[k] = step[<<g[k - 1], k>>] /\ g[k - 1] \in S
    BY <1>6 DEF FoldStates
  <2> QED
    BY <1>2, <2>1
<1> QED
  BY <1>0, <1>4, <1>6, <1>7, <1>8 DEF S

(* Bought minus sold, of each bid and of all bids.                          *)
Signed(m) ==
  [id \in Active |-> IF bids[id].dir = "Buy" THEN bids[id].qty - m.left[id]
                                             ELSE -(bids[id].qty - m.left[id])]

Net(m) == SumOver(Signed(m), Active)

LEMMA SignedType ==
  ASSUME Book, NEW m \in Matches
  PROVE  /\ Signed(m) \in [Active -> Int]
         /\ \A s \in ActiveBids("Sell") : Signed(m)[s] = m.left[s] - bids[s].qty
         /\ \A b \in ActiveBids("Buy") : Signed(m)[b] = bids[b].qty - m.left[b]
<1>1. \A id \in Active : m.left[id] \in Nat /\ bids[id].qty \in Nat
  BY ActiveFacts, BookFacts DEF Matches
<1>2. Signed(m) \in [Active -> Int]
  BY <1>1 DEF Signed
<1>3. /\ \A s \in ActiveBids("Sell") : bids[s].dir = "Sell" /\ s \in Active
      /\ \A b \in ActiveBids("Buy") : bids[b].dir = "Buy" /\ b \in Active
  BY DEF ActiveBids, Active
<1>4. ASSUME NEW s \in ActiveBids("Sell")
      PROVE  Signed(m)[s] = m.left[s] - bids[s].qty
  <2>1. Signed(m)[s] = -(bids[s].qty - m.left[s])
    BY <1>3 DEF Signed
  <2>2. m.left[s] \in Nat /\ bids[s].qty \in Nat
    BY <1>1, <1>3
  <2> QED
    BY ONLY <2>1, <2>2
<1>5. ASSUME NEW b \in ActiveBids("Buy")
      PROVE  Signed(m)[b] = bids[b].qty - m.left[b]
  BY <1>3 DEF Signed
<1> QED
  BY <1>2, <1>4, <1>5

(* What is sold is bought.                                                  *)
LEMMA DealEven ==
  ASSUME Book, NEW m \in Matches, NEW s \in ActiveBids("Sell"), NEW b \in ActiveBids("Buy")
  PROVE  Net(Deal(s, b, m)) = Net(m)
<1> DEFINE d == Deal(s, b, m)
           v == Signed(m)
           w == Signed(d)
           x == [v EXCEPT ![s] = w[s]]
<1>1. PICK q \in Nat, t \in Deals : Trades(m, d, s, b, q, t)
  BY DealTrades
<1> HIDE DEF d
<1>2. s \in Active /\ b \in Active /\ s # b /\ IsFiniteSet(Active)
  BY ActiveFacts
<1>3. d \in Matches /\ d.left[s] = m.left[s] - q /\ d.left[b] = m.left[b] - q
  BY <1>1 DEF Trades
<1>4. /\ v \in [Active -> Int] /\ v[s] = m.left[s] - bids[s].qty
      /\ v[b] = bids[b].qty - m.left[b]
  BY SignedType
<1>5. /\ w \in [Active -> Int] /\ w[s] = d.left[s] - bids[s].qty
      /\ w[b] = bids[b].qty - d.left[b]
  BY <1>3, SignedType
<1>6. \A id \in Active : id # s /\ id # b => w[id] = v[id]
  BY <1>1 DEF Trades, Signed
<1> HIDE DEF v, w
<1>7. x \in [Active -> Int] /\ x[s] = w[s] /\ \A id \in Active : id # s => x[id] = v[id]
  BY <1>2, <1>4, <1>5
<1> HIDE DEF x
<1>8. SumOver(x, Active) = SumOver(v, Active) + (x[s] - v[s])
  BY <1>2, <1>4, <1>7, SumChange
<1>9. SumOver(w, Active) = SumOver(x, Active) + (w[b] - x[b])
  <2>1. \A id \in Active : id # b => w[id] = x[id]
    BY <1>6, <1>7
  <2> QED
    BY <1>2, <1>5, <1>7, <2>1, SumChange
<1>10. x[b] = v[b] /\ x[s] = w[s]
  BY <1>2, <1>7
<1>11. /\ m.left[s] \in Nat /\ m.left[b] \in Nat /\ bids[s].qty \in Nat /\ bids[b].qty \in Nat
       /\ SumOver(v, Active) \in Int
  <2>1. SumOver(v, Active) \in Int
    BY <1>2, <1>4, SumTakeOut
  <2>2. m.left[s] \in Nat /\ m.left[b] \in Nat
    BY <1>2 DEF Matches
  <2>3. bids[s].qty \in Nat /\ bids[b].qty \in Nat
    BY <1>2, ActiveFacts, BookFacts
  <2> QED
    BY <2>1, <2>2, <2>3
<1>12. SumOver(w, Active) = SumOver(v, Active)
  BY ONLY <1>3, <1>4, <1>5, <1>8, <1>9, <1>10, <1>11, q \in Nat
<1> QED
  BY <1>12 DEF Net, v, w, d

LEMMA StartEven ==
  ASSUME Book
  PROVE  Net(StartMatch) = 0
<1>1. StartMatch = [left |-> [id \in Active |-> bids[id].qty], trades |-> <<>>]
  BY DEF StartMatch, Active
<1>2. \A id \in Active : StartMatch.left[id] = bids[id].qty /\ bids[id].qty \in Nat
  BY <1>1, ActiveFacts, BookFacts
<1>3. \A id \in Active : Signed(StartMatch)[id] = 0
  BY <1>2 DEF Signed
<1>4. IsFiniteSet(Active)
  BY ActiveFacts
<1> QED
  BY <1>3, <1>4, SumOfZeros DEF Net

(* The walk after k turns: sells before si and buys before bi are used up,  *)
(* those behind are untouched, and the bids touched so far all cross.       *)
WalkedOver(w, sells, buys) ==
  /\ \A i \in 1..Len(sells) : /\ i < w.si => w.m.left[sells[i]] = 0
                              /\ i > w.si => w.m.left[sells[i]] = bids[sells[i]].qty
  /\ \A j \in 1..Len(buys) : /\ j < w.bi => w.m.left[buys[j]] = 0
                             /\ j > w.bi => w.m.left[buys[j]] = bids[buys[j]].qty
  /\ \A i \in 1..Len(sells), j \in 1..Len(buys) :
       /\ w.m.left[sells[i]] < bids[sells[i]].qty
       /\ w.m.left[buys[j]] < bids[buys[j]].qty
       => PricesCross(sells[i], buys[j])

Walked(w, k, sells, buys) ==
  /\ Sound(w.m) /\ Net(w.m) = 0
  /\ WalkedOver(w, sells, buys)
  /\ Over(w, sells, buys) \/ w.si + w.bi >= k + 2

LEMMA TurnWalks ==
  ASSUME Book, NEW sells, NEW buys, Listed(sells, buys),
         NEW w \in Walks(sells, buys), NEW k \in Nat, Walked(w, k, sells, buys)
  PROVE  Walked(Turn(w, sells, buys), k + 1, sells, buys)
<1> DEFINE d == Turn(w, sells, buys)
<1>1. CASE Over(w, sells, buys)
  BY <1>1, TurnCases DEF Walked
<1>2. CASE ~Over(w, sells, buys)
  <2> DEFINE s == sells[w.si]
             b == buys[w.bi]
             ns == Len(sells)
             nb == Len(buys)
  <2>1. /\ w.si \in 1..ns /\ w.bi \in 1..nb
        /\ Advances(w, d, sells, buys) /\ d \in Walks(sells, buys)
    BY <1>2, TurnCases
  <2> HIDE DEF d
  <2>2. /\ s \in ActiveBids("Sell") /\ b \in ActiveBids("Buy") /\ PricesCross(s, b)
        /\ d.m = Deal(s, b, w.m)
        /\ d.si = IF d.m.left[s] = 0 THEN w.si + 1 ELSE w.si
        /\ d.bi = IF d.m.left[b] = 0 THEN w.bi + 1 ELSE w.bi
    BY <2>1 DEF Advances
  <2>3. w.m \in Matches /\ ns \in Nat /\ nb \in Nat
    BY DEF Walks, Listed
  <2>4. PICK q \in Nat, t \in Deals : Trades(w.m, d.m, s, b, q, t)
    BY <2>2, <2>3, DealTrades
  <2>5. Sound(d.m) /\ Net(d.m) = 0
    BY <2>2, <2>3, DealSound, DealEven DEF Walked
  <2>6. /\ \A i \in 1..ns : sells[i] \in ActiveBids("Sell") /\ sells[i] \in Active
        /\ \A j \in 1..nb : buys[j] \in ActiveBids("Buy") /\ buys[j] \in Active
    BY ActiveFacts DEF Listed
  <2>7. \A id \in Active : /\ w.m.left[id] \in Nat /\ d.m.left[id] \in Nat
                           /\ bids[id].qty \in Nat /\ bids[id].price \in Nat
    <3>1. d.m \in Matches
      BY <2>4 DEF Trades
    <3> QED
      BY <2>3, <3>1, ActiveFacts, BookFacts DEF Matches
  <2>8. /\ \A i \in 1..ns : i # w.si => d.m.left[sells[i]] = w.m.left[sells[i]]
        /\ \A j \in 1..nb : j # w.bi => d.m.left[buys[j]] = w.m.left[buys[j]]
    <3>1. \A id \in Active : id # s /\ id # b => d.m.left[id] = w.m.left[id]
      BY <2>4 DEF Trades
    <3>4. \A x \in ActiveBids("Sell"), y \in ActiveBids("Buy") : x # y
      BY ActiveFacts
    <3>2. \A i \in 1..ns : i # w.si => sells[i] # s /\ sells[i] # b
      <4>1. \A i \in 1..ns : i # w.si => sells[i] # s
        BY <2>1 DEF Listed
      <4>2. \A i \in 1..ns : sells[i] # b
        BY <2>2, <2>6, <3>4
      <4> QED
        BY <4>1, <4>2
    <3>3. \A j \in 1..nb : j # w.bi => buys[j] # s /\ buys[j] # b
      <4>1. \A j \in 1..nb : j # w.bi => buys[j] # b
        BY <2>1 DEF Listed
      <4>2. \A j \in 1..nb : buys[j] # s
        BY <2>2, <2>6, <3>4
      <4> QED
        BY <4>1, <4>2
    <3> HIDE DEF s, b
    <3> QED
      BY <2>6, <3>1, <3>2, <3>3
  <2>9. d.m.left[s] = 0 \/ d.m.left[b] = 0
    BY <2>2, <2>4, <2>7, ActiveFacts DEF Trades
  <2>10. \A i \in 1..ns : /\ i < d.si => d.m.left[sells[i]] = 0
                          /\ i > w.si => d.m.left[sells[i]] = bids[sells[i]].qty
    <3> SUFFICES ASSUME NEW i \in 1..ns
                 PROVE  /\ i < d.si => d.m.left[sells[i]] = 0
                        /\ i > w.si => d.m.left[sells[i]] = bids[sells[i]].qty
      OBVIOUS
    <3>1. CASE i = w.si
      BY <2>1, <2>2, <3>1
    <3>2. CASE i # w.si
      <4>1. /\ i < w.si => w.m.left[sells[i]] = 0
            /\ i > w.si => w.m.left[sells[i]] = bids[sells[i]].qty
        BY DEF Walked, WalkedOver
      <4>2. i < d.si => i < w.si
        BY <2>1, <2>2, <3>2
      <4> QED
        BY <2>8, <3>2, <4>1, <4>2
    <3> QED
      BY <3>1, <3>2
  <2>11. \A j \in 1..nb : /\ j < d.bi => d.m.left[buys[j]] = 0
                          /\ j > w.bi => d.m.left[buys[j]] = bids[buys[j]].qty
    <3> SUFFICES ASSUME NEW j \in 1..nb
                 PROVE  /\ j < d.bi => d.m.left[buys[j]] = 0
                        /\ j > w.bi => d.m.left[buys[j]] = bids[buys[j]].qty
      OBVIOUS
    <3>1. CASE j = w.bi
      BY <2>1, <2>2, <3>1
    <3>2. CASE j # w.bi
      <4>1. /\ j < w.bi => w.m.left[buys[j]] = 0
            /\ j > w.bi => w.m.left[buys[j]] = bids[buys[j]].qty
        BY DEF Walked, WalkedOver
      <4>2. j < d.bi => j < w.bi
        BY <2>1, <2>2, <3>2
      <4> QED
        BY <2>8, <3>2, <4>1, <4>2
    <3> QED
      BY <3>1, <3>2
  <2>12. \A i \in 1..ns, j \in 1..nb :
           /\ d.m.left[sells[i]] < bids[sells[i]].qty
           /\ d.m.left[buys[j]] < bids[buys[j]].qty
           => PricesCross(sells[i], buys[j])
    <3> SUFFICES ASSUME NEW i \in 1..ns, NEW j \in 1..nb,
                        d.m.left[sells[i]] < bids[sells[i]].qty,
                        d.m.left[buys[j]] < bids[buys[j]].qty
                 PROVE  bids[sells[i]].price <= bids[buys[j]].price
      BY DEF PricesCross
    <3>1. i <= w.si
      <4>1. sells[i] \in Active
        BY <2>6
      <4>2. d.m.left[sells[i]] \in Nat /\ bids[sells[i]].qty \in Nat
        BY <2>7, <4>1
      <4> QED
        BY <2>1, <2>10, <4>2
    <3>2. j <= w.bi
      <4>1. buys[j] \in Active
        BY <2>6
      <4>2. d.m.left[buys[j]] \in Nat /\ bids[buys[j]].qty \in Nat
        BY <2>7, <4>1
      <4> QED
        BY <2>1, <2>11, <4>2
    <3>3. bids[sells[i]].price <= bids[s].price /\ bids[b].price <= bids[buys[j]].price
      BY <2>1, <3>1, <3>2 DEF Listed
    <3>4. bids[s].price <= bids[b].price
      BY <2>2 DEF PricesCross
    <3>5. /\ bids[sells[i]].price \in Nat /\ bids[s].price \in Nat
          /\ bids[b].price \in Nat /\ bids[buys[j]].price \in Nat
      BY <2>1, <2>6, <2>7
    <3> QED
      BY ONLY <3>3, <3>4, <3>5
  <2>13. WalkedOver(d, sells, buys)
    <3>1. d.si >= w.si /\ d.bi >= w.bi /\ d.si \in Nat /\ d.bi \in Nat
      BY <2>1, <2>2
    <3>2. \A i \in 1..ns : i > d.si => i > w.si
      BY <2>1, <3>1
    <3>3. \A j \in 1..nb : j > d.bi => j > w.bi
      BY <2>1, <3>1
    <3> QED
      BY <2>10, <2>11, <2>12, <3>2, <3>3 DEF WalkedOver
  <2>14. d.si + d.bi >= (k + 1) + 2
    <3>1. w.si + w.bi >= k + 2
      BY <1>2 DEF Walked
    <3>2. w.si \in Nat /\ w.bi \in Nat
      BY <2>1
    <3>3. d.si + d.bi >= w.si + w.bi + 1
      BY ONLY <2>2, <2>9, <3>2
    <3>4. d.si \in Nat /\ d.bi \in Nat
      BY ONLY <2>2, <3>2
    <3> QED
      BY ONLY <3>1, <3>2, <3>3, <3>4, k \in Nat
  <2> QED
    BY <2>5, <2>13, <2>14 DEF Walked, d
<1> QED
  BY <1>1, <1>2

(* What the auction ends with: no compatible pair has volume left on both   *)
(* sides, and volume was taken from the best prices first.                  *)
Auctioned(m) ==
  /\ Sound(m) /\ Net(m) = 0
  /\ \A s \in ActiveBids("Sell"), b \in ActiveBids("Buy") :
       /\ PricesCross(s, b) => m.left[s] = 0 \/ m.left[b] = 0
       /\ m.left[s] < bids[s].qty /\ m.left[b] < bids[b].qty => PricesCross(s, b)
  /\ \A s, r \in ActiveBids("Sell") :
       m.left[s] < bids[s].qty /\ m.left[r] > 0 => bids[s].price <= bids[r].price
  /\ \A b, r \in ActiveBids("Buy") :
       m.left[b] < bids[b].qty /\ m.left[r] > 0 => bids[r].price <= bids[b].price

LEMMA WalkEnds ==
  ASSUME Book, NEW sells, NEW buys, Listed(sells, buys), NEW w \in Walks(sells, buys),
         Walked(w, Len(sells) + Len(buys), sells, buys)
  PROVE  Auctioned(w.m)
<1> DEFINE m == w.m
           ns == Len(sells)
           nb == Len(buys)
<1>1. /\ m \in Matches /\ w.si \in 1..(ns + 1) /\ w.bi \in 1..(nb + 1)
      /\ ns \in Nat /\ nb \in Nat
  BY DEF Walks, Listed
<1>2. Over(w, sells, buys)
  BY <1>1 DEF Walked, Over
<1>3. \A id \in Active : m.left[id] \in Nat /\ bids[id].qty \in Nat /\ bids[id].price \in Nat
  BY <1>1, ActiveFacts, BookFacts DEF Matches
<1>4. /\ \A i \in 1..ns : sells[i] \in ActiveBids("Sell") /\ sells[i] \in Active
      /\ \A j \in 1..nb : buys[j] \in ActiveBids("Buy") /\ buys[j] \in Active
  <2>1. sells \in Seq(ActiveBids("Sell")) /\ buys \in Seq(ActiveBids("Buy"))
    BY DEF Listed
  <2>2. \A i \in 1..ns : sells[i] \in ActiveBids("Sell")
    BY <2>1
  <2>3. \A j \in 1..nb : buys[j] \in ActiveBids("Buy")
    BY <2>1
  <2> QED
    BY <2>2, <2>3 DEF Active
<1>5. /\ \A i, j \in 1..ns : i <= j => bids[sells[i]].price <= bids[sells[j]].price
      /\ \A i, j \in 1..nb : i <= j => bids[buys[j]].price <= bids[buys[i]].price
  BY DEF Listed
<1>6. /\ \A i \in 1..ns : /\ m.left[sells[i]] > 0 => i >= w.si
                          /\ m.left[sells[i]] < bids[sells[i]].qty => i <= w.si
      /\ \A j \in 1..nb : /\ m.left[buys[j]] > 0 => j >= w.bi
                          /\ m.left[buys[j]] < bids[buys[j]].qty => j <= w.bi
  <2>1. ASSUME NEW i \in 1..ns
        PROVE  /\ m.left[sells[i]] > 0 => i >= w.si
               /\ m.left[sells[i]] < bids[sells[i]].qty => i <= w.si
    <3>1. m.left[sells[i]] \in Nat /\ bids[sells[i]].qty \in Nat
      BY <1>3, <1>4
    <3>2. /\ i < w.si => m.left[sells[i]] = 0
          /\ i > w.si => m.left[sells[i]] = bids[sells[i]].qty
      BY DEF Walked, WalkedOver
    <3> QED
      BY <1>1, <3>1, <3>2
  <2>2. ASSUME NEW j \in 1..nb
        PROVE  /\ m.left[buys[j]] > 0 => j >= w.bi
               /\ m.left[buys[j]] < bids[buys[j]].qty => j <= w.bi
    <3>1. m.left[buys[j]] \in Nat /\ bids[buys[j]].qty \in Nat
      BY <1>3, <1>4
    <3>2. /\ j < w.bi => m.left[buys[j]] = 0
          /\ j > w.bi => m.left[buys[j]] = bids[buys[j]].qty
      BY DEF Walked, WalkedOver
    <3> QED
      BY <1>1, <3>1, <3>2
  <2> QED
    BY <2>1, <2>2
<1>7. ASSUME NEW s \in ActiveBids("Sell"), NEW b \in ActiveBids("Buy"), PricesCross(s, b)
      PROVE  m.left[s] = 0 \/ m.left[b] = 0
  <2> SUFFICES ASSUME m.left[s] # 0, m.left[b] # 0 PROVE FALSE
    OBVIOUS
  <2>1. PICK i \in 1..ns : sells[i] = s
    BY DEF Listed
  <2>2. PICK j \in 1..nb : buys[j] = b
    BY DEF Listed
  <2>3. m.left[s] \in Nat /\ m.left[b] \in Nat /\ s \in Active /\ b \in Active
    BY <1>3, <1>4, <2>1, <2>2
  <2>4. i >= w.si /\ j >= w.bi
    BY <1>6, <2>1, <2>2, <2>3
  <2>5. w.si \in 1..ns /\ w.bi \in 1..nb /\ ~PricesCross(sells[w.si], buys[w.bi])
    BY <1>1, <1>2, <2>4 DEF Over
  <2>6. /\ bids[sells[w.si]].price <= bids[s].price
        /\ bids[b].price <= bids[buys[w.bi]].price
    BY <1>5, <2>1, <2>2, <2>4, <2>5
  <2>7. /\ bids[sells[w.si]].price \in Nat /\ bids[s].price \in Nat
        /\ bids[b].price \in Nat /\ bids[buys[w.bi]].price \in Nat
    BY <1>3, <1>4, <2>3, <2>5
  <2>8. /\ ~(bids[sells[w.si]].price <= bids[buys[w.bi]].price)
        /\ bids[s].price <= bids[b].price
    BY <1>7, <2>5 DEF PricesCross
  <2> QED
    BY ONLY <2>6, <2>7, <2>8
<1>8. ASSUME NEW s \in ActiveBids("Sell"), NEW b \in ActiveBids("Buy"),
             m.left[s] < bids[s].qty, m.left[b] < bids[b].qty
      PROVE  PricesCross(s, b)
  <2>1. PICK i \in 1..ns : sells[i] = s
    BY DEF Listed
  <2>2. PICK j \in 1..nb : buys[j] = b
    BY DEF Listed
  <2> QED
    BY <1>8, <2>1, <2>2 DEF Walked, WalkedOver
<1>9. ASSUME NEW s \in ActiveBids("Sell"), NEW r \in ActiveBids("Sell"),
             m.left[s] < bids[s].qty, m.left[r] > 0
      PROVE  bids[s].price <= bids[r].price
  <2>1. PICK i \in 1..ns : sells[i] = s
    BY DEF Listed
  <2>2. PICK j \in 1..ns : sells[j] = r
    BY DEF Listed
  <2>3. i <= w.si /\ w.si <= j
    BY <1>6, <1>9, <2>1, <2>2
  <2>4. i <= j
    BY <1>1, <2>3
  <2> QED
    BY <1>5, <2>1, <2>2, <2>4
<1>10. ASSUME NEW b \in ActiveBids("Buy"), NEW r \in ActiveBids("Buy"),
              m.left[b] < bids[b].qty, m.left[r] > 0
       PROVE  bids[r].price <= bids[b].price
  <2>1. PICK i \in 1..nb : buys[i] = b
    BY DEF Listed
  <2>2. PICK j \in 1..nb : buys[j] = r
    BY DEF Listed
  <2>3. i <= w.bi /\ w.bi <= j
    BY <1>6, <1>10, <2>1, <2>2
  <2>4. i <= j
    BY <1>1, <2>3
  <2> QED
    BY <1>5, <2>1, <2>2, <2>4
<1>11. Sound(m) /\ Net(m) = 0
  BY DEF Walked
<1> HIDE DEF m
<1>12. Auctioned(m)
  BY <1>7, <1>8, <1>9, <1>10, <1>11 DEF Auctioned
<1> QED
  BY <1>12 DEF m

LEMMA AuctionEnds ==
  ASSUME Book
  PROVE  Auctioned(AuctionMatch)
<1> DEFINE sells == SortBy(ActiveBids("Sell"), CheapestFirst)
           buys == SortBy(ActiveBids("Buy"), HighestFirst)
           start == FirstTurn
           n == Len(sells) + Len(buys)
           last == Walk(sells, buys)
<1>1. Listed(sells, buys)
  BY AuctionLists
<1>2. AuctionMatch = last.m
  BY DEF AuctionMatch
<1> HIDE DEF sells, buys
<1>3. n \in Nat /\ Len(sells) \in Nat /\ Len(buys) \in Nat
  BY <1>1 DEF Listed
<1>4. Sound(StartMatch) /\ StartMatch \in Matches /\ Net(StartMatch) = 0
  BY StartSound, StartEven DEF Sound
<1>5. start \in Walks(sells, buys)
  BY <1>3, <1>4 DEF Walks, FirstTurn
<1>6. start.m = StartMatch /\ start.si = 1 /\ start.bi = 1
  BY DEF FirstTurn
<1>13. n = Len(sells) + Len(buys)
  OBVIOUS
<1> HIDE DEF n
<1>7. PICK g \in [0..n -> Walks(sells, buys)] :
        /\ g[0] = start /\ g[n] = last
        /\ \A k \in 1..n : g[k] = Turn(g[k - 1], sells, buys)
  BY <1>1, <1>3, <1>5, <1>13, TurnRun
<1> HIDE DEF last, start
<1> DEFINE Inv == [k \in 0..n |-> {w \in Walks(sells, buys) : Walked(w, k, sells, buys)}]
<1>8. g[0] \in Inv[0]
  <2>1. StartMatch.left = [id \in Active |-> bids[id].qty]
    BY DEF StartMatch, Active
  <2>2. \A i \in 1..Len(sells) : sells[i] \in Active
    BY <1>1, ActiveFacts DEF Listed
  <2>3. \A i \in 1..Len(buys) : buys[i] \in Active
    BY <1>1, ActiveFacts DEF Listed
  <2>4. /\ \A i \in 1..Len(sells) : StartMatch.left[sells[i]] = bids[sells[i]].qty
        /\ \A i \in 1..Len(buys) : StartMatch.left[buys[i]] = bids[buys[i]].qty
    BY <2>1, <2>2, <2>3
  <2>5. \A id \in Active : bids[id].qty \in Nat
    BY ActiveFacts, BookFacts
  <2>6. WalkedOver(start, sells, buys)
    BY <1>3, <1>6, <2>2, <2>3, <2>4, <2>5 DEF WalkedOver
  <2>7. Walked(start, 0, sells, buys)
    BY <1>4, <1>6, <2>6 DEF Walked
  <2> QED
    BY <1>3, <1>5, <1>7, <2>7
<1>9. ASSUME NEW k \in 1..n, g[k - 1] \in Inv[k - 1] PROVE g[k] \in Inv[k]
  <2>1. k - 1 \in 0..n /\ k - 1 \in Nat /\ (k - 1) + 1 = k /\ k \in 0..n
    BY <1>3
  <2>2. g[k - 1] \in Walks(sells, buys) /\ Walked(g[k - 1], k - 1, sells, buys)
    BY <1>9, <2>1
  <2>3. Walked(Turn(g[k - 1], sells, buys), (k - 1) + 1, sells, buys)
    BY <1>1, <2>1, <2>2, TurnWalks
  <2>4. g[k] \in Walks(sells, buys) /\ Walked(g[k], k, sells, buys)
    BY <1>7, <2>1, <2>3
  <2> QED
    BY <2>1, <2>4
<1>10. \A k \in 0..n : g[k] \in Inv[k]
  <2> HIDE DEF Inv
  <2> QED
    BY <1>3, <1>8, <1>9, RunInvariant
<1>11. g[n] \in Walks(sells, buys) /\ Walked(g[n], n, sells, buys)
  BY <1>3, <1>10
<1>12. Auctioned(g[n].m)
  BY <1>1, <1>11, WalkEnds DEF n
<1> QED
  BY <1>2, <1>7, <1>12

------------------------------------------------------------------------------
(* The steps of the market                                                  *)

(* Types, with the lists as sequences.                                      *)
Typed ==
  /\ agents \subseteq Agents
  /\ Book /\ Len(bids) <= MaxBids
  /\ trades \in Seq(Trade)
  /\ round.mechanism \in Mechanisms \cup {"none"}
  /\ round.active \subseteq Bids
  /\ round.trades \in Seq(Trade)

(* The terms of a bid never change; only its status does.                   *)
SameTerms(id) ==
  /\ bids'[id].qty = bids[id].qty /\ bids'[id].price = bids[id].price
  /\ bids'[id].dir = bids[id].dir /\ bids'[id].localOnly = bids[id].localOnly
  /\ bids'[id].renewable = bids[id].renewable /\ bids'[id].green = bids[id].green

LEMMA TypedFacts ==
  ASSUME Typed
  PROVE  /\ Book /\ Bids = 1..Len(bids) /\ Len(bids) \in Nat /\ Bids \in SUBSET Nat
         /\ trades \in Seq(AnyTrade) /\ round.trades \in Seq(AnyTrade)
         /\ \A id : Filled(id, trades) \in Nat /\ Filled(id, round.trades) \in Nat
<1>1. Bids = 1..Len(bids) /\ Len(bids) \in Nat /\ Bids \in SUBSET Nat
  BY BookFacts DEF Typed
<1>2. Trade \subseteq AnyTrade
  BY <1>1 DEF Trade, AnyTrade
<1>3. trades \in Seq(AnyTrade) /\ round.trades \in Seq(AnyTrade)
  BY <1>2 DEF Typed
<1> QED
  BY <1>1, <1>3, FilledIsSum DEF Typed

(* A new bid is added at the end, Pending; everything else stays.           *)
LEMMA SubmitEffect ==
  ASSUME Typed, NEW o \in Offers, SubmitBid(o)
  PROVE  /\ Bids' = 1..(Len(bids) + 1) /\ \A id \in Bids : bids'[id] = bids[id] /\ id \in Bids'
         /\ \A id \in Bids' : id \in Bids \/ id = Len(bids) + 1
         /\ Len(bids) + 1 \notin Bids /\ bids'[Len(bids) + 1].status = "Pending"
         /\ UNCHANGED <<agents, trades, round>>
         /\ Typed'
<1> DEFINE b == [agent |-> o.agent, dir |-> o.dir, qty |-> o.qty, price |-> o.price,
                 renewable |-> o.renewable, green |-> o.green, localOnly |-> o.localOnly,
                 live |-> o.live, status |-> "Pending"]
           n == Len(bids)
<1>1. b \in Bid /\ b.status = "Pending"
  <2>1. o \in Offer
    BY MarketAssumption
  <2> QED
    BY <2>1 DEF Offer, Bid, Statuses
<1> HIDE DEF b
<1>2. bids' = Append(bids, b) /\ n < MaxBids /\ UNCHANGED <<agents, trades, round>>
  BY DEF SubmitBid, b
<1>3. bids \in Seq(Bid) /\ n \in Nat /\ Bids = 1..n
  BY TypedFacts DEF Book, Typed
<1>4. /\ bids' \in Seq(Bid) /\ Len(bids') = n + 1 /\ DOMAIN bids' = 1..(n + 1)
      /\ bids'[n + 1] = b /\ \A id \in 1..n : bids'[id] = bids[id]
  BY <1>1, <1>2, <1>3
<1>5. Bids' = 1..(n + 1)
  BY <1>4 DEF Bids
<1>6. Trade \subseteq Trade'
  BY <1>3, <1>5 DEF Trade
<1>7. Typed'
  <2>1. trades' \in Seq(Trade') /\ round'.trades \in Seq(Trade')
    BY <1>2, <1>6 DEF Typed
  <2>2. round'.active \subseteq Bids' /\ round'.mechanism \in Mechanisms \cup {"none"}
    BY <1>2, <1>3, <1>5 DEF Typed
  <2>3. Len(bids') <= MaxBids
    BY <1>2, <1>3, <1>4, MarketAssumption
  <2>4. agents' \subseteq Agents
    BY <1>2 DEF Typed
  <2> QED
    BY <1>4, <2>1, <2>2, <2>3, <2>4 DEF Typed, Book
<1> QED
  BY <1>1, <1>2, <1>3, <1>4, <1>5, <1>7

(* A clearing settles the active bids and leaves the others alone.          *)
LEMMA ClearEffect ==
  ASSUME Typed, NEW mechanism \in Mechanisms, NEW m, Sound(m), Clear(mechanism, m)
  PROVE  /\ Bids' = Bids
         /\ \A id \in Bids : SameTerms(id) /\ bids'[id] \in Bid
         /\ \A id \in Bids : id \notin Active => bids'[id] = bids[id]
         /\ \A id \in Active : /\ bids[id].status # "Matched"
                               /\ bids'[id].status = StatusAfter(id, m.left[id])
                               /\ bids'[id].status = "Matched" <=> m.left[id] = 0
         /\ agents' = agents /\ trades' = trades \o m.trades
         /\ round'.mechanism = mechanism /\ round'.active = Active
         /\ round'.trades = m.trades /\ \A id \in Bids : round'.bus[id] = Bus(id)
         /\ Typed'
<1>1. Book /\ m.left \in [Active -> Nat] /\ m.trades \in Seq(Deals)
  BY DEF Sound, Matches, Typed
<1>2. DOMAIN m.left = Active
  BY <1>1
<1>3. bids' = [id \in Bids |-> IF id \in Active
                               THEN [bids[id] EXCEPT !.status = StatusAfter(id, m.left[id])]
                               ELSE bids[id]]
  BY <1>2 DEF Clear
<1>4. DOMAIN bids' = Bids /\ Bids' = Bids
  BY <1>3 DEF Bids
<1>5. ASSUME NEW id \in Active
      PROVE  /\ bids[id].status \in {"Pending", "PartiallyFilled"}
             /\ StatusAfter(id, m.left[id]) \in Statuses
             /\ StatusAfter(id, m.left[id]) = "Matched" <=> m.left[id] = 0
  <2>1. bids[id].status \in {"Pending", "PartiallyFilled"}
    BY DEF Active, ActiveBids, IsActive
  <2>2. m.left[id] \in Nat /\ bids[id].qty \in Nat
    BY <1>1, ActiveFacts, BookFacts
  <2> QED
    BY <2>1, <2>2 DEF StatusAfter, Statuses
<1>6. ASSUME NEW id \in Bids
      PROVE  /\ SameTerms(id) /\ bids'[id] \in Bid
             /\ id \notin Active => bids'[id] = bids[id]
             /\ id \in Active => bids'[id].status = StatusAfter(id, m.left[id])
  <2>1. bids[id] \in Bid
    BY <1>1, BookFacts
  <2>2. CASE id \notin Active
    BY <1>3, <2>1, <2>2 DEF SameTerms
  <2>3. CASE id \in Active
    <3>1. bids'[id] = [bids[id] EXCEPT !.status = StatusAfter(id, m.left[id])]
      BY <1>3, <2>3
    <3>2. StatusAfter(id, m.left[id]) \in Statuses
      BY <1>5, <2>3
    <3> QED
      BY <2>1, <2>3, <3>1, <3>2 DEF SameTerms, Bid
  <2> QED
    BY <2>2, <2>3
<1>7. /\ agents' = agents /\ trades' = trades \o m.trades
      /\ round'.mechanism = mechanism /\ round'.active = Active
      /\ round'.trades = m.trades /\ \A id \in Bids : round'.bus[id] = Bus(id)
  BY <1>2 DEF Clear
<1>8. Active \in SUBSET Bids
  BY <1>1, ActiveFacts
<1>9. Typed'
  <2>1. Bids = 1..Len(bids) /\ Len(bids) \in Nat
    BY TypedFacts
  <2>2. Book' /\ Len(bids') = Len(bids)
    <3>1. bids' \in [1..Len(bids) -> Bid]
      BY <1>3, <1>6, <2>1
    <3> QED
      BY <2>1, <3>1 DEF Book
  <2>3. Trade' = Trade
    BY <1>4 DEF Trade
  <2>4. m.trades \in Seq(Trade)
    <3>1. Deals \subseteq Trade
      BY <1>1, ActiveFacts DEF Deals, Trade
    <3> QED
      BY <1>1, <3>1
  <2>5. trades' \in Seq(Trade') /\ round'.trades \in Seq(Trade')
    BY <1>7, <2>3, <2>4 DEF Typed
  <2> QED
    BY <1>4, <1>7, <1>8, <2>2, <2>5 DEF Typed
<1> QED
  BY <1>4, <1>5, <1>6, <1>7, <1>8, <1>9, ActiveFacts

(* Two passes of the community market: the first inside the buses, the      *)
(* second over all of them.                                                 *)
SameBusPairs == {p \in Pairs : SameBus(p.sell, p.buy)}

OpenPairs == {p \in Pairs : ~bids[p.buy].localOnly}

LEMMA CommunityEnds ==
  ASSUME Book, agents \subseteq Agents
  PROVE  /\ Sound(LocalPass(StartMatch))
         /\ Ends(SameBusPairs, StartMatch, LocalPass(StartMatch))
         /\ Ends(OpenPairs, LocalPass(StartMatch), CommunityMatch)
         /\ Sound(CommunityMatch)
<1> DEFINE m == LocalPass(StartMatch)
<1>1. Sound(StartMatch) /\ StartMatch \in Matches
  BY StartSound DEF Sound
<1>2. SameBusPairs \in SUBSET Pairs /\ OpenPairs \in SUBSET Pairs
  BY DEF SameBusPairs, OpenPairs
<1>3. m = GreedyMatch(SameBusPairs, HighestFirst, ByPrice, StartMatch)
  BY DEF LocalPass, SameBusPairs
<1>4. CommunityMatch = GreedyMatch(OpenPairs, HighestFirst, ByPrice, m)
  BY DEF CommunityMatch, CrossPass, OpenPairs
<1> HIDE DEF m
<1>5. Ends(SameBusPairs, StartMatch, m)
  BY <1>1, <1>2, <1>3, LoopOrders, GreedyEnds
<1>6. m \in Matches /\ Sound(m)
  BY <1>1, <1>5 DEF Ends
<1>7. Ends(OpenPairs, m, CommunityMatch)
  BY <1>2, <1>4, <1>6, LoopOrders, GreedyEnds
<1>8. Sound(CommunityMatch)
  BY <1>6, <1>7 DEF Ends
<1> QED
  BY <1>5, <1>6, <1>7, <1>8 DEF m

LEMMA BilateralEnds ==
  ASSUME Book, agents \subseteq Agents
  PROVE  Sound(BilateralMatch) /\ Ends(Pairs, StartMatch, BilateralMatch)
<1>1. Sound(StartMatch) /\ StartMatch \in Matches
  BY StartSound DEF Sound
<1>2. BilateralMatch = GreedyMatch(Pairs, Ascending(ActiveBids("Buy")), ByDistance, StartMatch)
  BY DEF BilateralMatch
<1>3. Ends(Pairs, StartMatch, BilateralMatch)
  BY <1>1, <1>2, LoopOrders, GreedyEnds
<1> QED
  BY <1>1, <1>3 DEF Ends

(* What each mechanism leaves: of two compatible bids one is used up, but   *)
(* for the buyers kept on their own bus.                                    *)
Exhausts(mechanism, m) ==
  \A s \in ActiveBids("Sell"), b \in ActiveBids("Buy") :
    /\ PricesCross(s, b) /\ m.left[s] > 0 /\ m.left[b] > 0
    => mechanism = "CommunityMicromarket" /\ bids[b].localOnly /\ ~SameBus(s, b)

(* A clearing is one of the three, and each is sound and exhaustive.        *)
LEMMA Clearings ==
  ASSUME Typed, ClearMarket
  PROVE  \E mechanism \in Mechanisms, m \in Matches :
           /\ Clear(mechanism, m) /\ Sound(m) /\ Exhausts(mechanism, m)
           /\ \/ mechanism = "DoubleSidedAuction" /\ m = AuctionMatch
              \/ mechanism = "CommunityMicromarket" /\ m = CommunityMatch
              \/ mechanism = "BilateralContract" /\ m = BilateralMatch
<1>1. Book /\ agents \subseteq Agents
  BY DEF Typed
<1>2. CASE RunDoubleSidedAuction
  <2>1. Auctioned(AuctionMatch)
    BY <1>1, AuctionEnds
  <2>2. Exhausts("DoubleSidedAuction", AuctionMatch)
    BY <2>1 DEF Auctioned, Exhausts
  <2>3. AuctionMatch \in Matches
    BY <2>1 DEF Auctioned, Sound
  <2> QED
    BY <1>2, <2>1, <2>2, <2>3 DEF RunDoubleSidedAuction, Auctioned, Mechanisms
<1>3. CASE RunCommunityMicromarket
  <2> DEFINE m == CommunityMatch
             a == LocalPass(StartMatch)
  <2>1. Sound(a) /\ Ends(SameBusPairs, StartMatch, a) /\ Ends(OpenPairs, a, m) /\ Sound(m)
    BY <1>1, CommunityEnds
  <2> HIDE DEF a, m
  <2>2. Exhausts("CommunityMicromarket", m)
    <3> SUFFICES ASSUME NEW s \in ActiveBids("Sell"), NEW b \in ActiveBids("Buy"),
                        PricesCross(s, b), m.left[s] > 0, m.left[b] > 0
                 PROVE  bids[b].localOnly /\ ~SameBus(s, b)
      BY DEF Exhausts
    <3> DEFINE p == [sell |-> s, buy |-> b]
    <3>1. p \in Pairs /\ p.sell = s /\ p.buy = b
      BY DEF Pairs
    <3> HIDE DEF p
    <3>2. s \in Active /\ b \in Active
      BY <1>1, ActiveFacts
    <3>3. /\ m.left[s] \in Nat /\ m.left[b] \in Nat /\ a.left[s] \in Nat /\ a.left[b] \in Nat
          /\ m.left[s] <= a.left[s] /\ m.left[b] <= a.left[b]
      BY <2>1, <3>2 DEF Sound, Matches, Ends
    <3>4. p \notin OpenPairs
      BY <2>1, <3>1, <3>3 DEF Ends
    <3>5. p \notin SameBusPairs
      BY <2>1, <3>1, <3>3 DEF Ends
    <3> QED
      BY <3>1, <3>4, <3>5 DEF OpenPairs, SameBusPairs
  <2>3. m \in Matches
    BY <2>1 DEF Sound
  <2> QED
    BY <1>3, <2>1, <2>2, <2>3 DEF RunCommunityMicromarket, Mechanisms, m
<1>4. CASE RunBilateralMatching
  <2> DEFINE m == BilateralMatch
  <2>1. Sound(m) /\ Ends(Pairs, StartMatch, m)
    BY <1>1, BilateralEnds
  <2> HIDE DEF m
  <2>2. Exhausts("BilateralContract", m)
    <3> SUFFICES ASSUME NEW s \in ActiveBids("Sell"), NEW b \in ActiveBids("Buy"),
                        PricesCross(s, b), m.left[s] > 0, m.left[b] > 0
                 PROVE  FALSE
      BY DEF Exhausts
    <3> DEFINE p == [sell |-> s, buy |-> b]
    <3>1. p \in Pairs /\ p.sell = s /\ p.buy = b
      BY DEF Pairs
    <3> HIDE DEF p
    <3> QED
      BY <2>1, <3>1 DEF Ends
  <2>3. m \in Matches
    BY <2>1 DEF Sound
  <2> QED
    BY <1>4, <2>1, <2>2, <2>3 DEF RunBilateralMatching, Mechanisms, m
<1> QED
  BY <1>2, <1>3, <1>4 DEF ClearMarket

LEMMA InitTyped ==
  ASSUME Init
  PROVE  Typed
<1>1. agents = {} /\ bids = <<>> /\ trades = <<>> /\ round = NoRound
  BY DEF Init
<1>2. Len(bids) = 0 /\ bids \in Seq(Bid) /\ Bids = {}
  BY <1>1 DEF Bids
<1> QED
  BY <1>1, <1>2, MarketAssumption DEF Typed, Book, NoRound

(* Every step is a registration, a submission, a clearing or nothing.       *)
LEMMA Step ==
  ASSUME Typed, [Next]_vars
  PROVE  \/ /\ UNCHANGED <<bids, trades, round>> /\ agents' \subseteq Agents
         \/ \E o \in Offers : SubmitBid(o)
         \/ ClearMarket
<1>1. CASE UNCHANGED vars
  BY <1>1 DEF vars, Typed
<1>2. ASSUME NEW a \in Agents, AddAgent(a)
      PROVE  UNCHANGED <<bids, trades, round>> /\ agents' \subseteq Agents
  BY <1>2 DEF AddAgent, Typed
<1> QED
  BY <1>1, <1>2 DEF Next

LEMMA StepTyped ==
  ASSUME Typed, [Next]_vars
  PROVE  Typed'
<1>1. CASE UNCHANGED <<bids, trades, round>> /\ agents' \subseteq Agents
  BY <1>1 DEF Typed, Book, Bids, Trade
<1>2. CASE \E o \in Offers : SubmitBid(o)
  BY <1>2, SubmitEffect
<1>3. CASE ClearMarket
  <2>1. PICK mechanism \in Mechanisms, m \in Matches : Clear(mechanism, m) /\ Sound(m)
    BY <1>3, Clearings
  <2> QED
    BY <2>1, ClearEffect
<1> QED
  BY <1>1, <1>2, <1>3, Step

(* The types, as an invariant that the other proofs start from.             *)
LEMMA AlwaysTyped == Spec => []Typed
<1>1. Init => Typed
  BY InitTyped
<1>2. Typed /\ [Next]_vars => Typed'
  BY StepTyped
<1> QED
  BY <1>1, <1>2, PTL DEF Spec

(* The types hold in every state, and so does the bound on the book; no bid *)
(* ever gets a status but Pending, PartiallyFilled or Matched.              *)
THEOREM MarketType == Spec => []TypeOK
<1>1. Typed => TypeOK
  <2> SUFFICES ASSUME Typed PROVE TypeOK
    OBVIOUS
  <2>1. \A id \in Bids : bids[id] \in Bid
    BY BookFacts DEF Typed
  <2>2. \A i \in DOMAIN trades : trades[i] \in Trade
    BY DEF Typed
  <2>3. \A i \in DOMAIN round.trades : round.trades[i] \in Trade
    BY DEF Typed
  <2> QED
    BY <2>1, <2>2, <2>3 DEF Typed, TypeOK
<1> QED
  BY <1>1, AlwaysTyped, PTL

------------------------------------------------------------------------------
(* Prices and volumes of a round                                            *)

(* The trades of a round are between bids of the book.                      *)
LEMMA RoundTrades ==
  ASSUME Typed, NEW i \in DOMAIN round.trades
  PROVE  /\ round.trades[i] \in Trade
         /\ round.trades[i].sell \in Bids /\ round.trades[i].buy \in Bids
<1>1. round.trades[i] \in Trade
  BY DEF Typed
<1> QED
  BY <1>1 DEF Trade

(* No trade of a round is made outside the limits of its two bids, for any  *)
(* mechanism and any premium.                                               *)
THEOREM PricesWithinLimits == Spec => []WithinLimits
<1>1. Init => WithinLimits
  BY DEF Init, NoRound, WithinLimits
<1>2. Typed /\ WithinLimits /\ [Next]_vars => WithinLimits'
  <2> SUFFICES ASSUME Typed, WithinLimits, [Next]_vars PROVE WithinLimits'
    OBVIOUS
  <2>1. CASE UNCHANGED <<bids, trades, round>>
    BY <2>1 DEF WithinLimits
  <2>2. CASE \E o \in Offers : SubmitBid(o)
    <3>1. round' = round /\ \A id \in Bids : bids'[id] = bids[id]
      BY <2>2, SubmitEffect
    <3> QED
      BY <3>1, RoundTrades DEF WithinLimits
  <2>3. CASE ClearMarket
    <3>1. PICK mechanism \in Mechanisms, m \in Matches : Clear(mechanism, m) /\ Sound(m)
      BY <2>3, Clearings
    <3>2. round'.trades = m.trades /\ \A id \in Bids : SameTerms(id)
      BY <3>1, ClearEffect
    <3> SUFFICES ASSUME NEW i \in DOMAIN m.trades
                 PROVE  LET t == m.trades[i]
                            premium == IF bids'[t.sell].renewable /\ bids'[t.buy].green
                                       THEN GreenPremium ELSE 0
                        IN  /\ 2 * bids'[t.sell].price + premium <= t.price
                            /\ t.price <= 2 * bids'[t.buy].price + premium
      BY <3>2 DEF WithinLimits
    <3>3. m.trades[i] \in Deals /\ Priced(m.trades[i])
      BY <3>1 DEF Sound, Matches
    <3>4. m.trades[i].sell \in Bids /\ m.trades[i].buy \in Bids
      BY <3>3, ActiveFacts DEF Deals, Typed
    <3> QED
      BY <3>2, <3>3, <3>4 DEF SameTerms, Priced, Premium
  <2> QED
    BY <2>1, <2>2, <2>3, Step
<1> QED
  BY <1>1, <1>2, AlwaysTyped, PTL DEF Spec

(* The volumes of a round only depend on its trades, and a bid that the     *)
(* trades do not name has none.                                             *)
LEMMA UntouchedBid ==
  ASSUME Typed, NEW id, id \notin Bids
  PROVE  Filled(id, round.trades) = 0 /\ Filled(id, trades) = 0
<1>1. /\ \A i \in DOMAIN round.trades : id \notin {round.trades[i].sell, round.trades[i].buy}
      /\ \A i \in DOMAIN trades : id \notin {trades[i].sell, trades[i].buy}
  <2>1. /\ \A i \in DOMAIN round.trades : round.trades[i] \in Trade
        /\ \A i \in DOMAIN trades : trades[i] \in Trade
    BY DEF Typed
  <2> QED
    BY <2>1 DEF Trade
<1> QED
  BY <1>1, TypedFacts, FilledNothing

(* The trades of a matching are between active bids.                        *)
LEMMA UnmatchedBid ==
  ASSUME Book, NEW m \in Matches, NEW id, id \notin Active
  PROVE  Filled(id, m.trades) = 0 /\ m.trades \in Seq(AnyTrade)
<1>1. m.trades \in Seq(Deals)
  BY DEF Matches
<1>2. \A i \in DOMAIN m.trades : id \notin {m.trades[i].sell, m.trades[i].buy}
  <2>1. \A i \in DOMAIN m.trades : m.trades[i] \in Deals
    BY <1>1
  <2> QED
    BY <2>1, ActiveFacts DEF Deals
<1> QED
  BY <1>1, <1>2, DealsAreTrades, FilledNothing

(* One clearing never trades more of a bid than its quantity, however many  *)
(* counterparties and passes it meets.                                      *)
THEOREM RoundWithinBid == Spec => []RoundFillsWithinBid
<1>1. Init => RoundFillsWithinBid
  BY DEF Init, Bids, RoundFillsWithinBid
<1>2. Typed /\ RoundFillsWithinBid /\ [Next]_vars => RoundFillsWithinBid'
  <2> SUFFICES ASSUME Typed, RoundFillsWithinBid, [Next]_vars PROVE RoundFillsWithinBid'
    OBVIOUS
  <2>1. CASE UNCHANGED <<bids, trades, round>>
    BY <2>1 DEF RoundFillsWithinBid, Bids
  <2>2. CASE \E o \in Offers : SubmitBid(o)
    <3>1. /\ round' = round /\ Typed' /\ \A id \in Bids : bids'[id] = bids[id]
      BY <2>2, SubmitEffect
    <3>2. ASSUME NEW id \in Bids' PROVE Filled(id, round'.trades) <= bids'[id].qty
      <4>1. CASE id \in Bids
        BY <3>1, <4>1 DEF RoundFillsWithinBid
      <4>2. CASE id \notin Bids
        <5>1. Filled(id, round.trades) = 0
          BY <4>2, UntouchedBid
        <5>2. bids'[id].qty \in Nat
          <6>1. \A x \in Bids' : bids'[x] \in Bid
            BY <3>1 DEF Typed, Book, Bids
          <6> QED
            BY <6>1 DEF Bid
        <5> QED
          BY <3>1, <5>1, <5>2
      <4> QED
        BY <4>1, <4>2
    <3> QED
      BY <3>2 DEF RoundFillsWithinBid
  <2>3. CASE ClearMarket
    <3>1. PICK mechanism \in Mechanisms, m \in Matches : Clear(mechanism, m) /\ Sound(m)
      BY <2>3, Clearings
    <3>2. Bids' = Bids /\ round'.trades = m.trades /\ \A id \in Bids : SameTerms(id)
      BY <3>1, ClearEffect
    <3>3. Book /\ m \in Matches
      BY <3>1 DEF Typed, Sound
    <3>4. ASSUME NEW id \in Bids PROVE Filled(id, m.trades) <= bids[id].qty
      <4>1. bids[id].qty \in Nat
        BY <3>3, BookFacts
      <4>2. CASE id \in Active
        <5>1. Filled(id, m.trades) + m.left[id] = bids[id].qty /\ m.left[id] \in Nat
          BY <3>1, <3>3, <4>2 DEF Sound, Matches
        <5>2. Filled(id, m.trades) \in Nat
          BY <3>3, DealsAreTrades, FilledIsSum DEF Matches
        <5> QED
          BY <4>1, <5>1, <5>2
      <4>3. CASE id \notin Active
        BY <3>3, <4>1, <4>3, UnmatchedBid
      <4> QED
        BY <4>2, <4>3
    <3> QED
      BY <3>2, <3>4 DEF RoundFillsWithinBid, SameTerms
  <2> QED
    BY <2>1, <2>2, <2>3, Step
<1> QED
  BY <1>1, <1>2, AlwaysTyped, PTL DEF Spec

------------------------------------------------------------------------------
(* Statuses and the trades of all clearings                                 *)

(* What a clearing adds to the volume of a bid.                             *)
LEMMA ClearFilled ==
  ASSUME Typed, NEW mechanism \in Mechanisms, NEW m, Sound(m), Clear(mechanism, m), NEW id \in Bids
  PROVE  /\ Filled(id, trades) \in Nat
         /\ id \in Active => Filled(id, trades') = Filled(id, trades) + (bids[id].qty - m.left[id])
         /\ id \notin Active => Filled(id, trades') = Filled(id, trades)
<1>1. trades' = trades \o m.trades /\ m \in Matches /\ Book
  BY ClearEffect DEF Sound, Typed
<1>2. trades \in Seq(AnyTrade) /\ m.trades \in Seq(AnyTrade)
  BY <1>1, TypedFacts, DealsAreTrades DEF Matches
<1>3. Filled(id, trades') = Filled(id, trades) + Filled(id, m.trades)
  BY <1>1, <1>2, FilledConcat
<1>4. Filled(id, trades) \in Nat /\ Filled(id, m.trades) \in Nat
  BY <1>2, FilledIsSum
<1>5. CASE id \in Active
  <2>1. Filled(id, m.trades) + m.left[id] = bids[id].qty /\ m.left[id] \in Nat
    BY <1>1, <1>5 DEF Sound, Matches
  <2> QED
    BY <1>3, <1>4, <1>5, <2>1
<1>6. CASE id \notin Active
  <2>1. Filled(id, m.trades) = 0
    BY <1>1, <1>6, UnmatchedBid
  <2> QED
    BY <1>3, <1>4, <1>6, <2>1
<1> QED
  BY <1>4, <1>5, <1>6

(* The status of a bid tells what its trades say, over all clearings.       *)
THEOREM StatusTellsTrades == Spec => []StatusAgreesWithTrades
<1>1. Init => StatusAgreesWithTrades
  BY DEF Init, Bids, StatusAgreesWithTrades
<1>2. Typed /\ StatusAgreesWithTrades /\ [Next]_vars => StatusAgreesWithTrades'
  <2> SUFFICES ASSUME Typed, StatusAgreesWithTrades, [Next]_vars
               PROVE  StatusAgreesWithTrades'
    OBVIOUS
  <2>1. CASE UNCHANGED <<bids, trades, round>>
    BY <2>1 DEF StatusAgreesWithTrades, Bids
  <2>2. CASE \E o \in Offers : SubmitBid(o)
    <3> DEFINE n == Len(bids) + 1
    <3>1. /\ trades' = trades /\ \A id \in Bids : bids'[id] = bids[id]
          /\ \A id \in Bids' : id \in Bids \/ id = n
          /\ n \notin Bids /\ bids'[n].status = "Pending"
      BY <2>2, SubmitEffect
    <3> HIDE DEF n
    <3>2. Filled(n, trades) = 0
      BY <3>1, UntouchedBid
    <3> QED
      BY <3>1, <3>2 DEF StatusAgreesWithTrades
  <2>3. CASE ClearMarket
    <3>1. PICK mechanism \in Mechanisms, m \in Matches : Clear(mechanism, m) /\ Sound(m)
      BY <2>3, Clearings
    <3>2. /\ Bids' = Bids /\ \A id \in Bids : SameTerms(id)
          /\ \A id \in Bids : id \notin Active => bids'[id] = bids[id]
          /\ \A id \in Active : bids'[id].status = StatusAfter(id, m.left[id])
      BY <3>1, ClearEffect
    <3>3. Book /\ m \in Matches
      BY <3>1 DEF Typed, Sound
    <3> SUFFICES ASSUME NEW id \in Bids
                 PROVE  LET f == Filled(id, trades') IN
                        /\ bids'[id].status = "Pending" => f = 0
                        /\ bids'[id].status = "PartiallyFilled" => f > 0
                        /\ bids'[id].status = "Matched" => f >= bids'[id].qty
      BY <3>2 DEF StatusAgreesWithTrades
    <3>4. /\ bids[id].status = "Pending" => Filled(id, trades) = 0
          /\ bids[id].status = "PartiallyFilled" => Filled(id, trades) > 0
          /\ bids[id].status = "Matched" => Filled(id, trades) >= bids[id].qty
      BY DEF StatusAgreesWithTrades
    <3>5. /\ Filled(id, trades) \in Nat /\ bids[id].qty \in Nat /\ bids'[id].qty = bids[id].qty
          /\ id \in Active =>
               Filled(id, trades') = Filled(id, trades) + (bids[id].qty - m.left[id])
          /\ id \notin Active => Filled(id, trades') = Filled(id, trades)
      BY <3>1, <3>2, <3>3, BookFacts, ClearFilled DEF SameTerms
    <3>6. CASE id \notin Active
      BY <3>2, <3>4, <3>5, <3>6
    <3>7. CASE id \in Active
      <4> DEFINE f == Filled(id, trades')
                 e == Filled(id, trades)
                 l == m.left[id]
                 z == bids[id].qty
                 old == bids[id].status
                 new == bids'[id].status
      <4>1. l \in Nat /\ l <= z
        <5>1. Filled(id, m.trades) + m.left[id] = bids[id].qty /\ m.left[id] \in Nat
          BY <3>1, <3>3, <3>7 DEF Sound, Matches
        <5>2. Filled(id, m.trades) \in Nat
          BY <3>3, DealsAreTrades, FilledIsSum DEF Matches
        <5> QED
          BY <3>5, <5>1, <5>2
      <4>2. f = e + (z - l) /\ e \in Nat /\ z \in Nat
        BY <3>5, <3>7
      <4>3. \/ l = 0 /\ new = "Matched"
            \/ l # 0 /\ l < z /\ new = "PartiallyFilled"
            \/ l # 0 /\ ~(l < z) /\ new = old
        BY <3>2, <3>7 DEF StatusAfter
      <4>4. old # "Matched"
        BY <3>7 DEF Active, ActiveBids, IsActive
      <4>5. bids'[id].qty = z
        BY <3>5
      <4> HIDE DEF f, e, l, z, new, old
      <4>6. (old = "Pending" => e = 0) /\ (old = "PartiallyFilled" => e > 0)
        BY <3>4 DEF e, old
      <4>7. (new = "Pending" => f = 0) /\ (new = "PartiallyFilled" => f > 0)
            /\ (new = "Matched" => f >= z)
        BY <4>1, <4>2, <4>3, <4>4, <4>6
      <4> QED
        BY <4>5, <4>7 DEF f, new
    <3> QED
      BY <3>6, <3>7
  <2> QED
    BY <2>1, <2>2, <2>3, Step
<1> QED
  BY <1>1, <1>2, AlwaysTyped, PTL DEF Spec

(* A matched bid is settled: no later step trades it or changes it.         *)
THEOREM MatchedStays == Spec => MatchedIsFinal
<1>1. Typed /\ [Next]_vars =>
        [\A id \in Bids :
           bids[id].status = "Matched" =>
             /\ bids'[id] = bids[id]
             /\ Filled(id, trades') = Filled(id, trades)]_vars
  <2> SUFFICES ASSUME Typed, [Next]_vars, NEW id \in Bids, bids[id].status = "Matched"
               PROVE  bids'[id] = bids[id] /\ Filled(id, trades') = Filled(id, trades)
    OBVIOUS
  <2>1. CASE UNCHANGED <<bids, trades, round>>
    BY <2>1
  <2>2. CASE \E o \in Offers : SubmitBid(o)
    BY <2>2, SubmitEffect
  <2>3. CASE ClearMarket
    <3>1. PICK mechanism \in Mechanisms, m \in Matches : Clear(mechanism, m) /\ Sound(m)
      BY <2>3, Clearings
    <3>2. id \notin Active
      BY <3>1, ClearEffect
    <3> QED
      BY <3>1, <3>2, ClearEffect, ClearFilled
  <2> QED
    BY <2>1, <2>2, <2>3, Step
<1> QED
  BY <1>1, AlwaysTyped, PTL DEF Spec, MatchedIsFinal

------------------------------------------------------------------------------
(* What a clearing leaves                                                   *)

(* The bids of a round stay as they are until the next one.                 *)
LEMMA RoundStays ==
  ASSUME Typed, NEW o \in Offers, SubmitBid(o)
  PROVE  /\ round' = round /\ \A id \in round.active : bids'[id] = bids[id]
         /\ \A dir : ActiveIn(round, dir)' = ActiveIn(round, dir)
         /\ \A i \in DOMAIN round.trades : /\ bids'[round.trades[i].sell] = bids[round.trades[i].sell]
                                           /\ bids'[round.trades[i].buy] = bids[round.trades[i].buy]
<1>1. round' = round /\ \A id \in Bids : bids'[id] = bids[id]
  BY SubmitEffect
<1>2. round.active \subseteq Bids
  BY DEF Typed
<1> QED
  BY <1>1, <1>2, RoundTrades DEF ActiveIn

(* The same after a clearing: its bids are the active ones, with new        *)
(* statuses.                                                                *)
LEMMA ClearedRound ==
  ASSUME Typed, NEW mechanism \in Mechanisms, NEW m, Sound(m), Clear(mechanism, m)
  PROVE  /\ ActiveIn(round, "Sell")' = ActiveBids("Sell")
         /\ ActiveIn(round, "Buy")' = ActiveBids("Buy")
         /\ \A s, b \in Active : PricesCross(s, b)' <=> PricesCross(s, b)
         /\ \A id \in Active : /\ m.left[id] \in Nat /\ SameTerms(id) /\ id \in Bids
                               /\ bids'[id].status = "Matched" <=> m.left[id] = 0
                               /\ round'.bus[id] = Bus(id)
<1>1. /\ \A id \in Bids : SameTerms(id) /\ round'.bus[id] = Bus(id)
      /\ \A id \in Active : bids'[id].status = "Matched" <=> m.left[id] = 0
      /\ round'.active = Active
  BY ClearEffect
<1>2. Active \in SUBSET Bids
  BY ActiveFacts DEF Typed
<1>3. \A id \in Active : m.left[id] \in Nat
  BY DEF Sound, Matches
<1>4. ActiveIn(round, "Sell")' = {id \in Active : bids[id].dir = "Sell"}
  BY <1>1, <1>2 DEF ActiveIn, SameTerms
<1>5. ActiveIn(round, "Buy")' = {id \in Active : bids[id].dir = "Buy"}
  BY <1>1, <1>2 DEF ActiveIn, SameTerms
<1>6. \A s, b \in Active : PricesCross(s, b)' <=> PricesCross(s, b)
  BY <1>1, <1>2 DEF SameTerms, PricesCross
<1> QED
  BY <1>1, <1>2, <1>3, <1>4, <1>5, <1>6 DEF Active, ActiveBids

(* No clearing leaves two bids that could still trade, except a buyer that  *)
(* the community market keeps on its own bus.                               *)
THEOREM CrossingsExhausted == Spec => []ClearingExhaustsCrossings
<1>1. Init => ClearingExhaustsCrossings
  BY DEF Init, NoRound, ActiveIn, ClearingExhaustsCrossings
<1>2. Typed /\ ClearingExhaustsCrossings /\ [Next]_vars => ClearingExhaustsCrossings'
  <2> SUFFICES ASSUME Typed, ClearingExhaustsCrossings, [Next]_vars
               PROVE  ClearingExhaustsCrossings'
    OBVIOUS
  <2>1. CASE UNCHANGED <<bids, trades, round>>
    BY <2>1 DEF ClearingExhaustsCrossings, ActiveIn, PricesCross
  <2>2. CASE \E o \in Offers : SubmitBid(o)
    <3>1. /\ round' = round /\ \A id \in round.active : bids'[id] = bids[id]
          /\ ActiveIn(round, "Sell")' = ActiveIn(round, "Sell")
          /\ ActiveIn(round, "Buy")' = ActiveIn(round, "Buy")
      BY <2>2, RoundStays
    <3>2. \A x \in ActiveIn(round, "Sell") \cup ActiveIn(round, "Buy") : bids'[x] = bids[x]
      BY <3>1 DEF ActiveIn
    <3> QED
      BY <3>1, <3>2 DEF ClearingExhaustsCrossings, PricesCross
  <2>3. CASE ClearMarket
    <3>1. PICK mechanism \in Mechanisms, m \in Matches :
            Clear(mechanism, m) /\ Sound(m) /\ Exhausts(mechanism, m)
      BY <2>3, Clearings
    <3>2. round'.mechanism = mechanism
      BY <3>1, ClearEffect
    <3> SUFFICES ASSUME NEW s \in ActiveBids("Sell"), NEW b \in ActiveBids("Buy"),
                        PricesCross(s, b)', bids'[s].status # "Matched",
                        bids'[b].status # "Matched"
                 PROVE  /\ mechanism = "CommunityMicromarket" /\ bids'[b].localOnly
                        /\ round'.bus[s] # round'.bus[b]
      BY <3>1, <3>2, ClearedRound DEF ClearingExhaustsCrossings
    <3>3. s \in Active /\ b \in Active
      BY DEF Active
    <3>4. PricesCross(s, b) /\ m.left[s] > 0 /\ m.left[b] > 0
      BY <3>1, <3>3, ClearedRound
    <3>5. mechanism = "CommunityMicromarket" /\ bids[b].localOnly /\ ~SameBus(s, b)
      BY <3>1, <3>4 DEF Exhausts
    <3> QED
      BY <3>1, <3>3, <3>5, ClearedRound DEF SameTerms, SameBus
  <2> QED
    BY <2>1, <2>2, <2>3, Step
<1> QED
  BY <1>1, <1>2, AlwaysTyped, PTL DEF Spec

------------------------------------------------------------------------------
(* The order in which bilateral matching and the community market deal      *)

(* A bilateral trade is made only when every compatible seller that is      *)
(* nearer to the buyer has nothing left.                                    *)
LEMMA BilateralNearest ==
  ASSUME Book, agents \subseteq Agents,
         NEW i \in DOMAIN BilateralMatch.trades, NEW s \in ActiveBids("Sell"),
         PricesCross(s, BilateralMatch.trades[i].buy),
         Distance(s, BilateralMatch.trades[i].buy)
           < Distance(BilateralMatch.trades[i].sell, BilateralMatch.trades[i].buy)
  PROVE  BilateralMatch.left[s] = 0
<1> DEFINE m == BilateralMatch
           t == m.trades[i]
           before == VisitOrder(Pairs, Ascending(ActiveBids("Buy")), ByDistance)
<1>1. StartMatch \in Matches /\ StartMatch.trades = <<>>
  BY StartSound DEF Sound, StartMatch
<1>2. /\ Loops(Ascending(ActiveBids("Buy")), ByDistance)
      /\ StrictTotalOrder(before, Pairs)
  BY LoopOrders, VisitsOrdered
<1>3. PICK n, q, g : Visits(Pairs, before, StartMatch, n, q, g) /\ g[n] = m
  BY <1>1, <1>2, GreedyVisits DEF BilateralMatch
<1>4. \A x, y \in Pairs : <<x, y>> \in before <=>
        \/ <<x.buy, y.buy>> \in Ascending(ActiveBids("Buy"))
        \/ x.buy = y.buy /\ <<x.sell, y.sell>> \in ByDistance[x.buy]
  BY DEF VisitOrder
<1> HIDE DEF before
<1>5. PICK j \in 1..n : MadeAt(m, t, j, q, g)
  <2>1. \A k \in DOMAIN g[n].trades :
          \/ k \in DOMAIN StartMatch.trades /\ g[n].trades[k] = StartMatch.trades[k]
          \/ \E j \in 1..n : MadeAt(g[n], g[n].trades[k], j, q, g)
    BY <1>1, <1>3, VisitTrades
  <2> QED
    BY <1>1, <1>3, <2>1
<1> HIDE DEF m, t
<1>6. /\ n \in Nat /\ q \in [1..n -> Pairs] /\ g \in [0..n -> Matches]
      /\ \A k, l \in 1..n : k < l => <<q[k], q[l]>> \in before
      /\ \A p \in Pairs : \E k \in 1..n : q[k] = p
  BY <1>3 DEF Visits
<1>7. t.sell = q[j].sell /\ t.buy = q[j].buy /\ q[j] \in Pairs /\ j - 1 \in 0..n /\ j - 1 \in Nat
  BY <1>5, <1>6 DEF MadeAt
<1>8. t.buy \in ActiveBids("Buy") /\ t.sell \in ActiveBids("Sell")
  BY <1>7 DEF Pairs
<1>9. PricesCross(s, t.buy) /\ Distance(s, t.buy) < Distance(t.sell, t.buy)
  BY DEF t, m
<1> DEFINE p == [sell |-> s, buy |-> t.buy]
<1>10. p \in Pairs /\ p.sell = s /\ p.buy = t.buy
  BY <1>8 DEF Pairs
<1> HIDE DEF p
<1>11. <<p, q[j]>> \in before
  <2>1. <<s, t.sell>> \in ByDistance[t.buy]
    BY <1>8, <1>9 DEF ByDistance
  <2> QED
    BY <1>4, <1>7, <1>10, <2>1
<1>12. PICK k \in 1..n : q[k] = p
  BY <1>6, <1>10
<1>13. k < j
  <2>1. k # j
    BY <1>2, <1>7, <1>11, <1>12 DEF StrictTotalOrder
  <2>2. ~(j < k)
    <3>1. <<q[j], p>> \notin before
      BY <1>2, <1>7, <1>10, <1>11 DEF StrictTotalOrder
    <3> QED
      BY <1>6, <1>12, <3>1
  <2> QED
    BY <1>6, <2>1, <2>2
<1>14. p \in Visited(q, j - 1)
  BY <1>6, <1>12, <1>13 DEF Visited
<1>15. Ends(Visited(q, j - 1), StartMatch, g[j - 1])
  <2>1. \A l \in 0..n : Ends(Visited(q, l), StartMatch, g[l])
    BY <1>1, <1>3, VisitsEnd
  <2> QED
    BY <1>7, <2>1
<1>16. g[j - 1].left[s] = 0 \/ g[j - 1].left[t.buy] = 0
  BY <1>9, <1>10, <1>14, <1>15 DEF Ends
<1>17. g[j - 1].left[t.buy] > 0 /\ m.left[s] <= g[j - 1].left[s] /\ m.left[s] \in Nat
  <2>1. s \in Active
    BY DEF Active
  <2>2. m \in Matches
    BY <1>3, <1>6
  <2> QED
    BY <1>5, <2>1, <2>2 DEF MadeAt, Matches
<1>18. g[j - 1].left[s] = 0
  BY <1>16, <1>17
<1>19. m.left[s] = 0
  BY <1>17, <1>18
<1> QED
  BY <1>19 DEF m

(* Proximity: a buyer deals with a seller only when every compatible seller *)
(* on a nearer bus has sold everything.                                     *)
THEOREM NearestServedFirst == Spec => []NearestFirst
<1>1. Init => NearestFirst
  BY DEF Init, NoRound, NearestFirst
<1>2. Typed /\ NearestFirst /\ [Next]_vars => NearestFirst'
  <2> SUFFICES ASSUME Typed, NearestFirst, [Next]_vars PROVE NearestFirst'
    OBVIOUS
  <2>1. CASE UNCHANGED <<bids, trades, round>>
    BY <2>1 DEF NearestFirst, ActiveIn, PricesCross
  <2>2. CASE \E o \in Offers : SubmitBid(o)
    <3>1. /\ round' = round /\ \A id \in round.active : bids'[id] = bids[id]
          /\ ActiveIn(round, "Sell")' = ActiveIn(round, "Sell")
          /\ \A i \in DOMAIN round.trades : bids'[round.trades[i].buy] = bids[round.trades[i].buy]
      BY <2>2, RoundStays
    <3>2. \A x \in ActiveIn(round, "Sell") : bids'[x] = bids[x]
      BY <3>1 DEF ActiveIn
    <3> QED
      BY <3>1, <3>2 DEF NearestFirst, PricesCross
  <2>3. CASE ClearMarket
    <3>1. PICK mechanism \in Mechanisms, m \in Matches :
            /\ Clear(mechanism, m) /\ Sound(m)
            /\ \/ mechanism # "BilateralContract"
               \/ m = BilateralMatch
      BY <2>3, Clearings
    <3>2. round'.mechanism = mechanism /\ round'.trades = m.trades
      BY <3>1, ClearEffect
    <3>3. CASE mechanism # "BilateralContract"
      BY <3>2, <3>3 DEF NearestFirst
    <3>4. CASE m = BilateralMatch
      <4> SUFFICES ASSUME NEW i \in DOMAIN m.trades, NEW s \in ActiveBids("Sell"),
                          PricesCross(s, m.trades[i].buy)',
                          NEW d \in {round'.bus[s] - round'.bus[m.trades[i].buy],
                                     round'.bus[m.trades[i].buy] - round'.bus[s]} \cap Nat,
                          NEW e \in {round'.bus[m.trades[i].sell] - round'.bus[m.trades[i].buy],
                                     round'.bus[m.trades[i].buy] - round'.bus[m.trades[i].sell]}
                                    \cap Nat,
                          d < e
                   PROVE  bids'[s].status = "Matched"
        BY <3>1, <3>2, ClearedRound DEF NearestFirst
      <4> DEFINE t == m.trades[i]
      <4>1. t.sell \in Active /\ t.buy \in Active /\ s \in Active
        <5>1. t \in Deals
          BY <3>1 DEF Sound, Matches
        <5> QED
          BY <5>1 DEF Deals, Active
      <4> HIDE DEF t
      <4>2. /\ round'.bus[s] = Bus(s) /\ round'.bus[t.sell] = Bus(t.sell)
            /\ round'.bus[t.buy] = Bus(t.buy) /\ PricesCross(s, t.buy)
        BY <3>1, <4>1, ClearedRound DEF t
      <4>3. Bus(s) \in Nat /\ Bus(t.sell) \in Nat /\ Bus(t.buy) \in Nat
        BY BusType DEF Typed
      <4>4. /\ d \in {Bus(s) - Bus(t.buy), Bus(t.buy) - Bus(s)} \cap Nat
            /\ e \in {Bus(t.sell) - Bus(t.buy), Bus(t.buy) - Bus(t.sell)} \cap Nat
        BY <4>2 DEF t
      <4>5. d = Distance(s, t.buy) /\ e = Distance(t.sell, t.buy)
        BY <4>3, <4>4 DEF Distance
      <4>6. m.left[s] = 0
        BY <3>4, <4>2, <4>5, BilateralNearest DEF Typed, t
      <4> QED
        BY <3>1, <4>1, <4>6, ClearedRound
    <3> QED
      BY <3>1, <3>3, <3>4
  <2> QED
    BY <2>1, <2>2, <2>3, Step
<1> QED
  BY <1>1, <1>2, AlwaysTyped, PTL DEF Spec

(* A community trade is made inside a bus, or in the second pass between    *)
(* bids with volume left after the first one.                               *)
LEMMA CommunityTrades ==
  ASSUME Book, agents \subseteq Agents, NEW i \in DOMAIN CommunityMatch.trades
  PROVE  LET t == CommunityMatch.trades[i] IN
         \/ SameBus(t.sell, t.buy)
         \/ /\ ~bids[t.buy].localOnly /\ PricesCross(t.sell, t.buy)
            /\ LocalPass(StartMatch).left[t.sell] > 0
            /\ LocalPass(StartMatch).left[t.buy] > 0
<1> DEFINE m == CommunityMatch
           a == LocalPass(StartMatch)
           t == m.trades[i]
           first == VisitOrder(SameBusPairs, HighestFirst, ByPrice)
           second == VisitOrder(OpenPairs, HighestFirst, ByPrice)
<1>1. StartMatch \in Matches /\ StartMatch.trades = <<>>
  BY StartSound DEF Sound, StartMatch
<1>2. SameBusPairs \in SUBSET Pairs /\ OpenPairs \in SUBSET Pairs /\ a \in Matches
  BY CommunityEnds DEF SameBusPairs, OpenPairs, Sound
<1>3. PICK n, q, g : Visits(SameBusPairs, first, StartMatch, n, q, g) /\ g[n] = a
  BY <1>1, <1>2, LoopOrders, GreedyVisits DEF LocalPass, SameBusPairs
<1>4. PICK k, r, h : Visits(OpenPairs, second, a, k, r, h) /\ h[k] = m
  BY <1>2, LoopOrders, GreedyVisits DEF CommunityMatch, CrossPass, OpenPairs
<1> HIDE DEF first, second, a
<1>5. \A x \in DOMAIN a.trades : SameBus(a.trades[x].sell, a.trades[x].buy)
  <2> SUFFICES ASSUME NEW x \in DOMAIN a.trades
               PROVE  SameBus(a.trades[x].sell, a.trades[x].buy)
    OBVIOUS
  <2>1. \A y \in DOMAIN g[n].trades :
          \/ y \in DOMAIN StartMatch.trades /\ g[n].trades[y] = StartMatch.trades[y]
          \/ \E j \in 1..n : MadeAt(g[n], g[n].trades[y], j, q, g)
    BY <1>1, <1>2, <1>3, VisitTrades
  <2>2. PICK j \in 1..n : MadeAt(a, a.trades[x], j, q, g)
    BY <1>1, <1>3, <2>1
  <2>3. q[j] \in SameBusPairs
    BY <1>3 DEF Visits
  <2> QED
    BY <2>2, <2>3 DEF MadeAt, SameBusPairs
<1>6. \A y \in DOMAIN h[k].trades :
        \/ y \in DOMAIN a.trades /\ h[k].trades[y] = a.trades[y]
        \/ \E j \in 1..k : MadeAt(h[k], h[k].trades[y], j, r, h)
  BY <1>2, <1>4, VisitTrades
<1>7. CASE i \in DOMAIN a.trades /\ t = a.trades[i]
  BY <1>5, <1>7
<1>8. CASE \E j \in 1..k : MadeAt(m, t, j, r, h)
  <2>1. PICK j \in 1..k : MadeAt(m, t, j, r, h)
    BY <1>8
  <2>2. r[j] \in OpenPairs /\ j - 1 \in 0..k
    BY <1>4 DEF Visits
  <2> HIDE DEF t, m
  <2>3. t.sell = r[j].sell /\ t.buy = r[j].buy /\ t.sell \in Active /\ t.buy \in Active
        /\ ~bids[t.buy].localOnly
    BY <2>1, <2>2 DEF MadeAt, OpenPairs, Pairs, Active
  <2>4. Ends(Visited(r, j - 1), a, h[j - 1])
    <3>1. \A l \in 0..k : Ends(Visited(r, l), a, h[l])
      BY <1>2, <1>4, VisitsEnd
    <3> QED
      BY <2>2, <3>1
  <2>5. /\ a.left[t.sell] \in Nat /\ a.left[t.buy] \in Nat
        /\ h[j - 1].left[t.sell] \in Nat /\ h[j - 1].left[t.buy] \in Nat
        /\ h[j - 1].left[t.sell] <= a.left[t.sell] /\ h[j - 1].left[t.buy] <= a.left[t.buy]
    BY <1>2, <2>3, <2>4 DEF Ends, Matches
  <2>6. a.left[t.sell] > 0 /\ a.left[t.buy] > 0 /\ PricesCross(t.sell, t.buy)
    BY <2>1, <2>5 DEF MadeAt
  <2> QED
    BY <2>3, <2>6 DEF a, t, m
<1> QED
  BY <1>4, <1>6, <1>7, <1>8

(* Community priority: a trade crosses buses only when the compatible bids  *)
(* on either bus were used up inside that bus, and never for a buyer that   *)
(* asked to stay local.                                                     *)
THEOREM LocalServedFirst == Spec => []LocalFirst
<1>1. Init => LocalFirst
  BY DEF Init, NoRound, LocalFirst
<1>2. Typed /\ LocalFirst /\ [Next]_vars => LocalFirst'
  <2> SUFFICES ASSUME Typed, LocalFirst, [Next]_vars PROVE LocalFirst'
    OBVIOUS
  <2>1. CASE UNCHANGED <<bids, trades, round>>
    BY <2>1 DEF LocalFirst, ActiveIn, PricesCross, IsCross
  <2>2. CASE \E o \in Offers : SubmitBid(o)
    <3>1. /\ round' = round /\ \A id \in round.active : bids'[id] = bids[id]
          /\ ActiveIn(round, "Sell")' = ActiveIn(round, "Sell")
          /\ ActiveIn(round, "Buy")' = ActiveIn(round, "Buy")
          /\ \A i \in DOMAIN round.trades :
               /\ bids'[round.trades[i].sell] = bids[round.trades[i].sell]
               /\ bids'[round.trades[i].buy] = bids[round.trades[i].buy]
      BY <2>2, RoundStays
    <3>2. \A x \in ActiveIn(round, "Sell") \cup ActiveIn(round, "Buy") : bids'[x] = bids[x]
      BY <3>1 DEF ActiveIn
    <3> QED
      BY <3>1, <3>2 DEF LocalFirst, PricesCross, IsCross
  <2>3. CASE ClearMarket
    <3>1. PICK mechanism \in Mechanisms, m \in Matches :
            /\ Clear(mechanism, m) /\ Sound(m)
            /\ \/ mechanism # "CommunityMicromarket"
               \/ m = CommunityMatch
      BY <2>3, Clearings
    <3>2. round'.mechanism = mechanism /\ round'.trades = m.trades
      BY <3>1, ClearEffect
    <3>3. CASE mechanism # "CommunityMicromarket"
      BY <3>2, <3>3 DEF LocalFirst
    <3>4. CASE m = CommunityMatch
      <4> DEFINE a == LocalPass(StartMatch)
                 ts == {m.trades[i] : i \in DOMAIN m.trades}
                 Used(id) == /\ bids'[id].status = "Matched"
                             /\ \A u \in ts : id \in {u.sell, u.buy} => ~IsCross(round, u)'
      <4>1. Book /\ agents \subseteq Agents
        BY DEF Typed
      <4>2. /\ Ends(SameBusPairs, StartMatch, a) /\ Ends(OpenPairs, a, m)
            /\ a \in Matches /\ m \in Matches
        BY <3>4, <4>1, CommunityEnds DEF Sound
      <4>3. \A u \in ts : u.sell \in ActiveBids("Sell") /\ u.buy \in ActiveBids("Buy")
                          /\ u.sell \in Active /\ u.buy \in Active
        <5>1. \A u \in ts : u \in Deals
          BY <4>2 DEF Matches
        <5> QED
          BY <5>1 DEF Deals, Active
      <4>4. \A u \in ts : IsCross(round, u)' <=> ~SameBus(u.sell, u.buy)
        BY <3>1, <4>3, ClearedRound DEF IsCross, SameBus
      <4>5. \A u \in ts : ~SameBus(u.sell, u.buy) =>
              /\ ~bids[u.buy].localOnly /\ PricesCross(u.sell, u.buy)
              /\ a.left[u.sell] > 0 /\ a.left[u.buy] > 0
        BY <3>4, <4>1, CommunityTrades
      <4> HIDE DEF a
      <4>6. ASSUME NEW id \in Active, a.left[id] = 0 PROVE Used(id)
        <5>1. m.left[id] = 0
          BY <4>2, <4>6 DEF Ends, Matches
        <5>2. bids'[id].status = "Matched"
          BY <3>1, <4>6, <5>1, ClearedRound
        <5>3. \A u \in ts : id \in {u.sell, u.buy} => ~IsCross(round, u)'
          BY <4>4, <4>5, <4>6
        <5> QED
          BY <5>2, <5>3
      <4>7. ASSUME NEW s \in ActiveBids("Sell"), NEW b \in ActiveBids("Buy"),
                   SameBus(s, b), PricesCross(s, b)
            PROVE  a.left[s] = 0 \/ a.left[b] = 0
        <5> DEFINE p == [sell |-> s, buy |-> b]
        <5>1. p \in SameBusPairs /\ p.sell = s /\ p.buy = b
          BY <4>7 DEF SameBusPairs, Pairs
        <5> HIDE DEF p
        <5> QED
          BY <4>2, <4>7, <5>1 DEF Ends
      <4>8. ASSUME NEW t \in ts, IsCross(round, t)'
            PROVE  /\ ~bids'[t.buy].localOnly
                   /\ \A s \in ActiveBids("Sell") :
                        round'.bus[s] = round'.bus[t.buy] /\ PricesCross(s, t.buy)' => Used(s)
                   /\ \A b \in ActiveBids("Buy") :
                        round'.bus[b] = round'.bus[t.sell] /\ PricesCross(t.sell, b)' => Used(b)
        <5>1. /\ ~bids[t.buy].localOnly /\ PricesCross(t.sell, t.buy)
              /\ a.left[t.sell] > 0 /\ a.left[t.buy] > 0
          BY <4>4, <4>5, <4>8
        <5>2. /\ t.sell \in ActiveBids("Sell") /\ t.buy \in ActiveBids("Buy")
              /\ t.sell \in Active /\ t.buy \in Active
          BY <4>3
        <5> HIDE DEF Used, ts
        <5>3. ASSUME NEW s \in ActiveBids("Sell"), round'.bus[s] = round'.bus[t.buy],
                     PricesCross(s, t.buy)'
              PROVE  Used(s)
          <6>1. s \in Active
            BY DEF Active
          <6>2. SameBus(s, t.buy) /\ PricesCross(s, t.buy)
            BY <3>1, <5>2, <5>3, <6>1, ClearedRound DEF SameBus
          <6> QED
            BY <4>6, <4>7, <5>1, <5>2, <6>1, <6>2
        <5>4. ASSUME NEW b \in ActiveBids("Buy"), round'.bus[b] = round'.bus[t.sell],
                     PricesCross(t.sell, b)'
              PROVE  Used(b)
          <6>1. b \in Active
            BY DEF Active
          <6>2. SameBus(t.sell, b) /\ PricesCross(t.sell, b)
            BY <3>1, <5>2, <5>4, <6>1, ClearedRound DEF SameBus
          <6> QED
            BY <4>6, <4>7, <5>1, <5>2, <6>1, <6>2
        <5>5. ~bids'[t.buy].localOnly
          BY <3>1, <5>1, <5>2, ClearedRound DEF SameTerms
        <5> QED
          BY <5>3, <5>4, <5>5
      <4> QED
        BY <3>1, <3>2, <4>8, ClearedRound DEF LocalFirst
    <3> QED
      BY <3>1, <3>3, <3>4
  <2> QED
    BY <2>1, <2>2, <2>3, Step
<1> QED
  BY <1>1, <1>2, AlwaysTyped, PTL DEF Spec

------------------------------------------------------------------------------
(* The auction finds the best allocation                                    *)

(* One price separates what an auction traded from what it left: cheaper    *)
(* sellers and dearer buyers are served in full, the others not at all.     *)
Separates(p, m) ==
  /\ \A s \in ActiveBids("Sell") : /\ bids[s].price < p => m.left[s] = 0
                                   /\ bids[s].price > p => m.left[s] = bids[s].qty
  /\ \A b \in ActiveBids("Buy") : /\ bids[b].price > p => m.left[b] = 0
                                  /\ bids[b].price < p => m.left[b] = bids[b].qty

LEMMA PriceSeparates ==
  ASSUME Book, NEW m, Auctioned(m)
  PROVE  \E p \in Nat : Separates(p, m)
<1> DEFINE Low == {bids[s].price : s \in {x \in ActiveBids("Sell") : m.left[x] < bids[x].qty}}
                  \cup {bids[b].price : b \in {x \in ActiveBids("Buy") : m.left[x] > 0}}
           High == {bids[s].price : s \in {x \in ActiveBids("Sell") : m.left[x] > 0}}
                  \cup {bids[b].price : b \in {x \in ActiveBids("Buy") : m.left[x] < bids[x].qty}}
<1>1. \A id \in ActiveBids("Sell") \cup ActiveBids("Buy") :
        /\ bids[id].price \in Nat /\ bids[id].qty \in Nat /\ m.left[id] \in Nat
        /\ m.left[id] <= bids[id].qty
  <2> SUFFICES ASSUME NEW id \in Active
               PROVE  /\ bids[id].price \in Nat /\ bids[id].qty \in Nat /\ m.left[id] \in Nat
                      /\ m.left[id] <= bids[id].qty
    BY DEF Active
  <2>1. bids[id].price \in Nat /\ bids[id].qty \in Nat
    BY ActiveFacts, BookFacts
  <2>2. m \in Matches /\ Filled(id, m.trades) + m.left[id] = bids[id].qty
    BY DEF Auctioned, Sound
  <2>3. m.left[id] \in Nat /\ Filled(id, m.trades) \in Nat
    BY <2>2, DealsAreTrades, FilledIsSum DEF Matches
  <2> QED
    BY <2>1, <2>2, <2>3
<1>2. Low \in SUBSET Nat /\ High \in SUBSET Nat
  BY <1>1
<1>3. ASSUME NEW l \in Low, NEW h \in High PROVE l <= h
  <2>1. \A s \in ActiveBids("Sell"), b \in ActiveBids("Buy") :
          /\ bids[s].price <= bids[b].price => m.left[s] = 0 \/ m.left[b] = 0
          /\ m.left[s] < bids[s].qty /\ m.left[b] < bids[b].qty => bids[s].price <= bids[b].price
    BY DEF Auctioned, PricesCross
  <2>2. \A s, r \in ActiveBids("Sell") :
          m.left[s] < bids[s].qty /\ m.left[r] > 0 => bids[s].price <= bids[r].price
    BY DEF Auctioned
  <2>3. \A b, r \in ActiveBids("Buy") :
          m.left[b] < bids[b].qty /\ m.left[r] > 0 => bids[r].price <= bids[b].price
    BY DEF Auctioned
  <2>4. CASE \E s \in ActiveBids("Sell") : m.left[s] < bids[s].qty /\ l = bids[s].price
    BY <2>1, <2>2, <2>4
  <2>5. CASE \E b \in ActiveBids("Buy") : m.left[b] > 0 /\ l = bids[b].price
    <3>1. PICK b \in ActiveBids("Buy") : m.left[b] > 0 /\ l = bids[b].price
      BY <2>5
    <3>2. CASE \E s \in ActiveBids("Sell") : m.left[s] > 0 /\ h = bids[s].price
      BY <1>1, <2>1, <3>1, <3>2
    <3>3. CASE \E r \in ActiveBids("Buy") : m.left[r] < bids[r].qty /\ h = bids[r].price
      BY <2>3, <3>1, <3>3
    <3> QED
      BY <3>2, <3>3
  <2> QED
    BY <2>4, <2>5
<1>4. \E p \in Nat : (\A l \in Low : l <= p) /\ (\A h \in High : p <= h)
  <2>1. CASE High # {}
    <3>1. Min(High) \in High /\ \A h \in High : Min(High) <= h
      BY <1>2, <2>1, MinIsLeast
    <3> HIDE DEF High, Low
    <3> QED
      BY <1>2, <1>3, <3>1
  <2>2. CASE High = {}
    <3> DEFINE Prices == {bids[id].price : id \in Active}
    <3>1. Prices \in SUBSET Nat
      BY <1>1 DEF Active
    <3>2. IsFiniteSet(Prices)
      <4> DEFINE f == [id \in Active |-> bids[id].price]
      <4>1. f \in [Active -> Prices] /\ \A x \in Prices : \E id \in Active : f[id] = x
        OBVIOUS
      <4> HIDE DEF f, Prices
      <4>2. f \in Surjection(Active, Prices)
        BY <4>1 DEF Surjection
      <4> QED
        BY <4>2, ActiveFacts, FS_Surjection
    <3>3. Low \subseteq Prices
      BY DEF Active
    <3> HIDE DEF Low, High, Prices
    <3>4. PICK p \in Nat : \A x \in Prices : x <= p
      BY <3>1, <3>2, BoundExists
    <3> QED
      BY <2>2, <3>3, <3>4
  <2> QED
    BY <2>1, <2>2
<1>5. PICK p \in Nat : (\A l \in Low : l <= p) /\ (\A h \in High : p <= h)
  BY <1>4
<1>6. \A s \in ActiveBids("Sell") : /\ m.left[s] < bids[s].qty => bids[s].price <= p
                                    /\ m.left[s] > 0 => p <= bids[s].price
  BY <1>5
<1>7. \A b \in ActiveBids("Buy") : /\ m.left[b] > 0 => bids[b].price <= p
                                   /\ m.left[b] < bids[b].qty => p <= bids[b].price
  BY <1>5
<1> HIDE DEF Low, High
<1>8. ASSUME NEW s \in ActiveBids("Sell")
      PROVE  /\ bids[s].price < p => m.left[s] = 0
             /\ bids[s].price > p => m.left[s] = bids[s].qty
  BY <1>1, <1>6
<1>9. ASSUME NEW b \in ActiveBids("Buy")
      PROVE  /\ bids[b].price > p => m.left[b] = 0
             /\ bids[b].price < p => m.left[b] = bids[b].qty
  BY <1>1, <1>7
<1> QED
  BY <1>8, <1>9 DEF Separates

(* The worth of an allocation of volumes, and what it buys minus sells.     *)
Worth(fill) ==
  [id \in Active |-> IF bids[id].dir = "Buy" THEN bids[id].price * fill[id]
                     ELSE -(bids[id].price * fill[id])]

Sides(fill) == [id \in Active |-> IF bids[id].dir = "Buy" THEN fill[id] ELSE -fill[id]]

LEMMA SameSign ==
  ASSUME NEW a \in Int, NEW b \in Int, (a >= 0 /\ b >= 0) \/ (a <= 0 /\ b <= 0)
  PROVE  a * b >= 0
OBVIOUS

(* Duality: priced at the separating price, no bid gains by another volume. *)
LEMMA AuctionBest ==
  ASSUME Book, NEW m, Auctioned(m), NEW fill \in [Active -> Nat],
         \A id \in Active : fill[id] <= bids[id].qty,
         SumOver(Sides(fill), Active) = 0,
         NEW made, made = [id \in Active |-> Filled(id, m.trades)]
  PROVE  SumOver(Worth(fill), Active) <= SumOver(Worth(made), Active)
<1>1. PICK p \in Nat, k \in Int : Separates(p, m) /\ k = -p
  <2>1. PICK p \in Nat : Separates(p, m)
    BY PriceSeparates
  <2> QED
    BY <2>1
<1>2. \A id \in Active : /\ bids[id].price \in Nat /\ bids[id].qty \in Nat
                         /\ m.left[id] \in Nat /\ made[id] \in Nat
                         /\ made[id] = bids[id].qty - m.left[id]
  <2> SUFFICES ASSUME NEW id \in Active
               PROVE  /\ bids[id].price \in Nat /\ bids[id].qty \in Nat
                      /\ m.left[id] \in Nat /\ made[id] \in Nat
                      /\ made[id] = bids[id].qty - m.left[id]
    OBVIOUS
  <2>1. bids[id].price \in Nat /\ bids[id].qty \in Nat
    BY ActiveFacts, BookFacts
  <2>2. m \in Matches /\ Filled(id, m.trades) + m.left[id] = bids[id].qty
    BY DEF Auctioned, Sound
  <2>3. m.left[id] \in Nat /\ Filled(id, m.trades) \in Nat
    BY <2>2, DealsAreTrades, FilledIsSum DEF Matches
  <2>4. made[id] = Filled(id, m.trades)
    OBVIOUS
  <2> QED
    BY <2>1, <2>2, <2>3, <2>4
<1>3. SumOver(Sides(made), Active) = 0
  <2>1. Sides(made) = Signed(m)
    BY <1>2 DEF Sides, Signed
  <2> QED
    BY <2>1 DEF Auctioned, Net
<1>4. \A id \in Active :
        /\ Sides(fill)[id] \in Int /\ Worth(fill)[id] \in Int
        /\ Sides(made)[id] \in Int /\ Worth(made)[id] \in Int
        /\ Worth(fill)[id] + k * Sides(fill)[id] <= Worth(made)[id] + k * Sides(made)[id]
  <2> SUFFICES ASSUME NEW id \in Active
               PROVE  /\ Sides(fill)[id] \in Int /\ Worth(fill)[id] \in Int
                      /\ Sides(made)[id] \in Int /\ Worth(made)[id] \in Int
                      /\ Worth(fill)[id] + k * Sides(fill)[id]
                           <= Worth(made)[id] + k * Sides(made)[id]
    OBVIOUS
  <2> DEFINE c == bids[id].price
             x == fill[id]
             y == made[id]
             z == bids[id].qty
             l == m.left[id]
  <2>1. c \in Nat /\ x \in Nat /\ y \in Nat /\ z \in Nat /\ l \in Nat /\ x <= z /\ y = z - l
    BY <1>2
  <2>2. CASE bids[id].dir = "Buy"
    <3>1. /\ Sides(fill)[id] = x /\ Worth(fill)[id] = c * x
          /\ Sides(made)[id] = y /\ Worth(made)[id] = c * y
      BY <2>2 DEF Sides, Worth
    <3>2. (c > p => l = 0) /\ (c < p => l = z)
      BY <1>1, <2>2 DEF Separates, Active, ActiveBids
    <3> HIDE DEF c, x, y, z, l
    <3>3. (c - p) * (y - x) >= 0
      <4>1. (c - p >= 0 /\ y - x >= 0) \/ (c - p <= 0 /\ y - x <= 0)
        BY <2>1, <3>2
      <4>2. c - p \in Int /\ y - x \in Int
        BY <2>1
      <4> QED
        BY ONLY <4>1, <4>2, SameSign
    <3>4. c * x + k * x <= c * y + k * y
      BY ONLY <1>1, <2>1, <3>3, p \in Nat
    <3> QED
      BY <2>1, <3>1, <3>4
  <2>3. CASE bids[id].dir # "Buy"
    <3>1. /\ Sides(fill)[id] = -x /\ Worth(fill)[id] = -(c * x)
          /\ Sides(made)[id] = -y /\ Worth(made)[id] = -(c * y)
      BY <2>3 DEF Sides, Worth
    <3>2. (c < p => l = 0) /\ (c > p => l = z)
      BY <1>1, <2>3 DEF Separates, Active, ActiveBids
    <3> HIDE DEF c, x, y, z, l
    <3>3. (p - c) * (y - x) >= 0
      <4>1. (p - c >= 0 /\ y - x >= 0) \/ (p - c <= 0 /\ y - x <= 0)
        BY <2>1, <3>2
      <4>2. p - c \in Int /\ y - x \in Int
        BY <2>1
      <4> QED
        BY ONLY <4>1, <4>2, SameSign
    <3>4. -(c * x) + k * (-x) <= -(c * y) + k * (-y)
      BY ONLY <1>1, <2>1, <3>3, p \in Nat
    <3>5. c * x \in Nat /\ c * y \in Nat
      BY <2>1
    <3> QED
      BY <2>1, <3>1, <3>4, <3>5
  <2> QED
    BY <2>2, <2>3
<1> DEFINE u == [id \in Active |-> Worth(fill)[id] + k * Sides(fill)[id]]
           v == [id \in Active |-> Worth(made)[id] + k * Sides(made)[id]]
<1>5. /\ Sides(fill) \in [Active -> Int] /\ Worth(fill) \in [Active -> Int]
      /\ Sides(made) \in [Active -> Int] /\ Worth(made) \in [Active -> Int]
  <2>1. DOMAIN Sides(fill) = Active /\ DOMAIN Worth(fill) = Active
        /\ DOMAIN Sides(made) = Active /\ DOMAIN Worth(made) = Active
    BY DEF Sides, Worth
  <2> QED
    BY <1>4, <2>1 DEF Sides, Worth
<1>6. /\ u \in [Active -> Int] /\ v \in [Active -> Int]
      /\ \A id \in Active : u[id] = Worth(fill)[id] + k * Sides(fill)[id]
      /\ \A id \in Active : v[id] = Worth(made)[id] + k * Sides(made)[id]
      /\ \A id \in Active : u[id] <= v[id]
  <2>1. ASSUME NEW id \in Active
        PROVE  /\ Worth(fill)[id] + k * Sides(fill)[id] \in Int
               /\ Worth(made)[id] + k * Sides(made)[id] \in Int
    <3> DEFINE w == Worth(fill)[id]
               x == Worth(made)[id]
               y == Sides(fill)[id]
               z == Sides(made)[id]
    <3>1. w \in Int /\ x \in Int /\ y \in Int /\ z \in Int
      BY <1>4
    <3> HIDE DEF w, x, y, z
    <3>2. w + k * y \in Int /\ x + k * z \in Int
      BY <3>1
    <3> QED
      BY <3>2 DEF w, x, y, z
  <2> QED
    BY <1>4, <2>1
<1> HIDE DEF u, v
<1>7. IsFiniteSet(Active)
  BY ActiveFacts
<1>8. SumOver(u, Active) <= SumOver(v, Active)
  BY <1>6, <1>7, SumOrdered
<1>9. SumOver(u, Active) = SumOver(Worth(fill), Active) + k * SumOver(Sides(fill), Active)
  <2>1. Linear(u, Worth(fill), Sides(fill), k, Active)
    BY <1>1, <1>5, <1>6 DEF Linear
  <2> QED
    BY <1>7, <2>1, SumLinear
<1>10. SumOver(v, Active) = SumOver(Worth(made), Active) + k * SumOver(Sides(made), Active)
  <2>1. Linear(v, Worth(made), Sides(made), k, Active)
    BY <1>1, <1>5, <1>6 DEF Linear
  <2> QED
    BY <1>7, <2>1, SumLinear
<1>11. SumOver(Worth(fill), Active) \in Int /\ SumOver(Worth(made), Active) \in Int
  BY <1>5, <1>7, SumTakeOut
<1> QED
  BY <1>3, <1>8, <1>9, <1>10, <1>11

(* Efficiency as an invariant: what AuctionIsEfficient says, with sums of   *)
(* functions for gains and balance.                                         *)
WorthIn(fill) ==
  [id \in round.active |-> IF bids[id].dir = "Buy" THEN bids[id].price * fill[id]
                           ELSE -(bids[id].price * fill[id])]

SidesIn(fill) ==
  [id \in round.active |-> IF bids[id].dir = "Buy" THEN fill[id] ELSE -fill[id]]

MadeIn == [id \in round.active |-> Filled(id, round.trades)]

Efficient ==
  round.mechanism = "DoubleSidedAuction" =>
    \A fill \in [round.active -> Nat] :
      /\ \A id \in round.active : fill[id] <= bids[id].qty
      /\ SumOver(SidesIn(fill), round.active) = 0
      => SumOver(WorthIn(fill), round.active) <= SumOver(WorthIn(MadeIn), round.active)

(* No other balanced allocation of the volumes on offer is worth more than  *)
(* the one the two-pointer auction makes.                                   *)
THEOREM AuctionEfficient == Spec => []AuctionIsEfficient
<1>1. Init => Efficient
  BY DEF Init, NoRound, Efficient
<1>2. Typed /\ Efficient /\ [Next]_vars => Efficient'
  <2> SUFFICES ASSUME Typed, Efficient, [Next]_vars PROVE Efficient'
    OBVIOUS
  <2>1. ASSUME round' = round, \A id \in round.active : bids'[id] = bids[id]
        PROVE  Efficient'
    <3>1. MadeIn' = MadeIn
      BY <2>1 DEF MadeIn
    <3>2. \A fill : WorthIn(fill)' = WorthIn(fill) /\ SidesIn(fill)' = SidesIn(fill)
      BY <2>1 DEF WorthIn, SidesIn
    <3> QED
      BY <2>1, <3>1, <3>2 DEF Efficient
  <2>2. CASE UNCHANGED <<bids, trades, round>>
    BY <2>1, <2>2
  <2>3. CASE \E o \in Offers : SubmitBid(o)
    BY <2>1, <2>3, RoundStays
  <2>4. CASE ClearMarket
    <3>1. PICK mechanism \in Mechanisms, m \in Matches :
            /\ Clear(mechanism, m) /\ Sound(m)
            /\ \/ mechanism # "DoubleSidedAuction"
               \/ m = AuctionMatch
      BY <2>4, Clearings
    <3>2. round'.mechanism = mechanism /\ round'.trades = m.trades /\ round'.active = Active
      BY <3>1, ClearEffect
    <3>3. CASE mechanism # "DoubleSidedAuction"
      BY <3>2, <3>3 DEF Efficient
    <3>4. CASE m = AuctionMatch
      <4>0. PICK made : made = [id \in Active |-> Filled(id, m.trades)]
        OBVIOUS
      <4>1. Book /\ Auctioned(m)
        BY <3>4, AuctionEnds DEF Typed
      <4>2. \A id \in Active : SameTerms(id)
        BY <3>1, ClearedRound
      <4>3. MadeIn' = made
        BY <3>2, <4>0 DEF MadeIn
      <4>4. \A fill : WorthIn(fill)' = Worth(fill) /\ SidesIn(fill)' = Sides(fill)
        BY <3>2, <4>2 DEF WorthIn, SidesIn, Worth, Sides, SameTerms
      <4>5. ASSUME NEW fill \in [Active -> Nat], \A id \in Active : fill[id] <= bids[id].qty,
                   SumOver(Sides(fill), Active) = 0
            PROVE  SumOver(Worth(fill), Active) <= SumOver(Worth(made), Active)
        BY <4>0, <4>1, <4>5, AuctionBest
      <4>6. ASSUME NEW fill \in [Active -> Nat], \A id \in Active : fill[id] <= bids'[id].qty,
                   SumOver(SidesIn(fill)', Active) = 0
            PROVE  SumOver(WorthIn(fill)', Active) <= SumOver(WorthIn(made)', Active)
        <5>1. \A id \in Active : fill[id] <= bids[id].qty
          BY <4>2, <4>6 DEF SameTerms
        <5>2. SumOver(Sides(fill), Active) = 0
          BY <4>4, <4>6
        <5> QED
          BY <4>4, <4>5, <5>1, <5>2
      <4> QED
        BY <3>2, <4>3, <4>6 DEF Efficient
    <3> QED
      BY <3>1, <3>3, <3>4
  <2> QED
    BY <2>2, <2>3, <2>4, Step
<1>3. Typed /\ Efficient => AuctionIsEfficient
  <2> SUFFICES ASSUME Typed, Efficient, round.mechanism = "DoubleSidedAuction"
               PROVE  AuctionIsEfficient
    BY DEF AuctionIsEfficient
  <2> DEFINE Qtys == {bids[id].qty : id \in round.active}
             most == IF round.active = {} THEN 0
                     ELSE CHOOSE q \in Qtys : \A id \in round.active : bids[id].qty <= q
  <2>1. round.active \in SUBSET Bids /\ Book
    BY DEF Typed
  <2>2. most \in Nat
    <3>1. \A id \in round.active : bids[id].qty \in Nat
      BY <2>1, BookFacts
    <3>2. IsFiniteSet(round.active)
      BY <2>1, BookFacts, FS_Subset
    <3>3. IsFiniteSet(Qtys)
      <4> DEFINE f == [id \in round.active |-> bids[id].qty]
      <4>1. f \in [round.active -> Qtys] /\ \A x \in Qtys : \E id \in round.active : f[id] = x
        OBVIOUS
      <4> HIDE DEF f, Qtys
      <4>2. f \in Surjection(round.active, Qtys)
        BY <4>1 DEF Surjection
      <4> QED
        BY <3>2, <4>2, FS_Surjection
    <3>4. Qtys \in SUBSET Nat
      BY <3>1
    <3>5. CASE round.active # {}
      <4>1. \E q \in Qtys : \A x \in Qtys : x <= q
        <5>1. Qtys # {}
          BY <3>5
        <5> HIDE DEF Qtys
        <5> QED
          BY <3>3, <3>4, <5>1, GreatestExists
      <4>2. \E q \in Qtys : \A id \in round.active : bids[id].qty <= q
        BY <4>1
      <4>3. most \in Qtys
        BY <3>5, <4>2
      <4> QED
        BY <3>4, <4>3
    <3> QED
      BY <3>5
  <2> HIDE DEF most
  <2>3. ASSUME NEW fill PROVE Gains(round, fill) = SumOver(WorthIn(fill), round.active)
    BY DEF Gains, SumOver, WorthIn
  <2>4. ASSUME NEW fill
        PROVE  Balanced(round, fill) <=> SumOver(SidesIn(fill), round.active) = 0
    BY DEF Balanced, SumOver, SidesIn
  <2>5. \A fill \in [round.active -> 0..most] :
          /\ \A id \in round.active : fill[id] <= bids[id].qty
          /\ Balanced(round, fill)
          => Gains(round, fill) <= Gains(round, MadeIn)
    <3> SUFFICES ASSUME NEW fill \in [round.active -> 0..most],
                        \A id \in round.active : fill[id] <= bids[id].qty,
                        Balanced(round, fill)
                 PROVE  Gains(round, fill) <= Gains(round, MadeIn)
      OBVIOUS
    <3>1. fill \in [round.active -> Nat]
      BY <2>2
    <3>2. SumOver(SidesIn(fill), round.active) = 0
      BY <2>4
    <3>3. SumOver(WorthIn(fill), round.active) <= SumOver(WorthIn(MadeIn), round.active)
      BY <3>1, <3>2 DEF Efficient
    <3>4. /\ Gains(round, fill) = SumOver(WorthIn(fill), round.active)
          /\ Gains(round, MadeIn) = SumOver(WorthIn(MadeIn), round.active)
      BY <2>3
    <3> QED
      BY <3>3, <3>4
  <2> QED
    BY <2>5 DEF AuctionIsEfficient, MadeIn, most
<1> QED
  BY <1>1, <1>2, <1>3, AlwaysTyped, PTL DEF Spec

==============================================================================
