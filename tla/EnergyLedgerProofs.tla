------------------------- MODULE EnergyLedgerProofs -------------------------
(***************************************************************************)
(* Proofs about the energy ledger, for every set of participants, orders   *)
(* and prices and for every hash function.                                 *)
(***************************************************************************)
EXTENDS EnergyLedger, DataLemmas, SequenceTheorems, TLAPS

(* The inductive invariant.  Numbering needs the types; the chain's links   *)
(* need that it is a sequence; the parties of an order stay registered      *)
(* because no operation removes a participant.                              *)
LedgerInv ==
  /\ TypeOK
  /\ IdsRunOn
  /\ PartiesRegistered
  /\ ChainValid

------------------------------------------------------------------------------
(* A sequence stays one when something is appended to it.                   *)
LEMMA AppendToChain ==
  ASSUME NEW s, s \in Seq(Range(s)), NEW e
  PROVE  /\ Append(s, e) \in Seq(Range(Append(s, e)))
         /\ Len(Append(s, e)) = Len(s) + 1
         /\ DOMAIN Append(s, e) = 1..(Len(s) + 1)
         /\ DOMAIN s = 1..Len(s) /\ Len(s) \in Nat
         /\ \A k \in DOMAIN s : Append(s, e)[k] = s[k]
         /\ Append(s, e)[Len(s) + 1] = e
<1> DEFINE S == Range(s) \cup {e}
           t == Append(s, e)
<1>1. s \in Seq(S)
  BY SeqMonotonic
<1>2. /\ t \in Seq(S)
      /\ Len(t) = Len(s) + 1
      /\ DOMAIN t = 1..(Len(s) + 1)
      /\ DOMAIN s = 1..Len(s) /\ Len(s) \in Nat
      /\ \A k \in DOMAIN s : t[k] = s[k]
      /\ t[Len(s) + 1] = e
  BY <1>1
<1>3. S \subseteq Range(t)
  <2>1. ASSUME NEW x \in Range(s)
        PROVE  x \in Range(t)
    <3>1. PICK k \in DOMAIN s : s[k] = x
      BY DEF Range
    <3>2. k \in DOMAIN t /\ t[k] = x
      BY <1>2, <3>1
    <3> QED
      BY <3>2 DEF Range
  <2>2. e \in Range(t)
    <3>1. Len(s) + 1 \in DOMAIN t
      BY <1>2
    <3> QED
      BY <3>1, <1>2 DEF Range
  <2> QED
    BY <2>1, <2>2
<1> QED
  BY <1>2, <1>3, SeqMonotonic

(* The pool, settled, is as long as the pool and keeps ids and terms.       *)
LEMMA SettledPoolFacts ==
  ASSUME TypeOK
  PROVE  /\ SettledPool \in Seq(Tx("Settled"))
         /\ Len(SettledPool) = Len(pending)
         /\ DOMAIN SettledPool = DOMAIN pending
         /\ \A i \in DOMAIN pending :
              SettledPool[i] = [pending[i] EXCEPT !.status = "Settled"]
         /\ \A i \in DOMAIN pending : SettledPool[i].id = pending[i].id
         /\ DOMAIN pending = 1..Len(pending) /\ Len(pending) \in Nat
<1>1. /\ DOMAIN pending = 1..Len(pending) /\ Len(pending) \in Nat
      /\ \A i \in DOMAIN pending : pending[i] \in Tx("Pending")
  BY DEF TypeOK
<1>2. \A i \in DOMAIN pending :
        /\ [pending[i] EXCEPT !.status = "Settled"] \in Tx("Settled")
        /\ [pending[i] EXCEPT !.status = "Settled"].id = pending[i].id
  BY <1>1 DEF Tx
<1>3. SettledPool \in [1..Len(pending) -> Tx("Settled")]
  BY <1>1, <1>2 DEF SettledPool
<1>4. SettledPool \in Seq(Tx("Settled"))
  BY <1>1, <1>3, SeqDef
<1>5. Len(SettledPool) = Len(pending)
  BY <1>1, <1>3, <1>4
<1>6. DOMAIN SettledPool = DOMAIN pending
  BY DEF SettledPool
<1>7. \A i \in DOMAIN pending :
        SettledPool[i] = [pending[i] EXCEPT !.status = "Settled"]
  BY DEF SettledPool
<1>8. \A i \in DOMAIN pending : SettledPool[i].id = pending[i].id
  BY <1>2, <1>7
<1> QED
  BY <1>1, <1>4, <1>5, <1>6, <1>7, <1>8

LEMMA InitLedger == Init => LedgerInv
<1> SUFFICES ASSUME Init PROVE LedgerInv
  OBVIOUS
<1>1. TypeOK
  <2>1. chain = <<>> /\ pending = <<>> /\ nextTxId = 0 /\ DOMAIN participants = {}
    BY DEF Init
  <2>2. chain \in Seq(Range(chain)) /\ pending \in Seq(Tx("Pending"))
    BY <2>1
  <2> QED
    BY <2>1, <2>2 DEF TypeOK
<1>2. IdsRunOn /\ PartiesRegistered /\ ChainValid
  BY DEF Init, IdsRunOn, PartiesRegistered, ChainValid, ValidateChain
<1> QED
  BY <1>1, <1>2 DEF LedgerInv

LEMMA RegisterStep ==
  ASSUME LedgerInv, NEW p \in Ids, NEW account \in Openings,
         RegisterParticipant(p, account)
  PROVE  LedgerInv'
<1>1. DOMAIN participants' = DOMAIN participants \cup {p}
  BY DEF RegisterParticipant, Put
<1>2. pending' = pending /\ chain' = chain /\ nextTxId' = nextTxId
  BY DEF RegisterParticipant
<1>3. TypeOK'
  BY <1>1, <1>2 DEF LedgerInv, TypeOK
<1>4. IdsRunOn' /\ ChainValid'
  BY <1>2 DEF LedgerInv, IdsRunOn, FirstId, ChainValid, ValidateChain, Hashed
<1>5. PartiesRegistered'
  BY <1>1, <1>2 DEF LedgerInv, PartiesRegistered
<1> QED
  BY <1>3, <1>4, <1>5 DEF LedgerInv

LEMMA SubmitStep ==
  ASSUME LedgerInv, NEW o \in Orders, SubmitTransaction(o)
  PROVE  LedgerInv'
<1> DEFINE tx == [id |-> nextTxId, terms |-> o, status |-> "Pending"]
<1>1. /\ pending' = Append(pending, tx) /\ nextTxId' = nextTxId + 1
      /\ chain' = chain /\ participants' = participants
      /\ o.mwh > 0 /\ o.price >= 0
      /\ {o.seller, o.buyer} \subseteq DOMAIN participants
  BY DEF SubmitTransaction, Admit, Valid
<1>2. tx \in Tx("Pending")
  BY <1>1, LedgerAssumption DEF Tx, LedgerInv, TypeOK
<1>3. /\ pending \in Seq(Tx("Pending")) /\ nextTxId \in Nat
      /\ DOMAIN pending = 1..Len(pending) /\ Len(pending) \in Nat
  BY DEF LedgerInv, TypeOK
<1>4. /\ pending' \in Seq(Tx("Pending"))
      /\ Len(pending') = Len(pending) + 1
      /\ DOMAIN pending' = 1..(Len(pending) + 1)
      /\ \A i \in 1..Len(pending) : pending'[i] = pending[i]
      /\ pending'[Len(pending) + 1] = tx
  BY <1>1, <1>2, <1>3
<1>5. TypeOK'
  BY <1>1, <1>3, <1>4 DEF LedgerInv, TypeOK
<1>6. ChainValid'
  BY <1>1 DEF LedgerInv, ChainValid, ValidateChain, Hashed
<1>7. PartiesRegistered'
  <2> SUFFICES ASSUME NEW i \in DOMAIN pending'
               PROVE  {pending'[i].terms.seller, pending'[i].terms.buyer}
                        \subseteq DOMAIN participants'
    BY DEF PartiesRegistered
  <2>1. CASE i \in 1..Len(pending)
    BY <2>1, <1>1, <1>3, <1>4 DEF LedgerInv, PartiesRegistered
  <2>2. CASE i = Len(pending) + 1
    BY <2>2, <1>1, <1>4
  <2> QED
    BY <2>1, <2>2, <1>3, <1>4
<1>8. IdsRunOn'
  <2>1. nextTxId' - Len(pending') = nextTxId - Len(pending)
    BY <1>1, <1>3, <1>4
  <2>2. \A i \in DOMAIN pending' :
          pending'[i].id = nextTxId' - Len(pending') + i - 1
    <3> SUFFICES ASSUME NEW i \in DOMAIN pending'
                 PROVE  pending'[i].id = nextTxId - Len(pending) + i - 1
      BY <2>1
    <3>1. CASE i \in 1..Len(pending)
      BY <3>1, <1>3, <1>4 DEF LedgerInv, IdsRunOn
    <3>2. CASE i = Len(pending) + 1
      BY <3>2, <1>3, <1>4
    <3> QED
      BY <3>1, <3>2, <1>3, <1>4
  <2>3. IF chain' = <<>> THEN nextTxId' = Len(pending') ELSE chain'[1].txs[1].id = 0
    BY <1>1, <1>3, <1>4 DEF LedgerInv, IdsRunOn, FirstId
  <2> QED
    BY <2>1, <2>2, <2>3, <1>1 DEF LedgerInv, IdsRunOn, FirstId
<1> QED
  BY <1>5, <1>6, <1>7, <1>8 DEF LedgerInv

(* What settlement does to pool, chain and counter.                         *)
LEMMA SettleEffect ==
  ASSUME LedgerInv, NEW price \in Prices, SettleBlock(price)
  PROVE  /\ pending # <<>> /\ pending' = <<>> /\ nextTxId' = nextTxId
         /\ DOMAIN participants' = DOMAIN participants
         /\ chain' \in Seq(Range(chain'))
         /\ DOMAIN chain = 1..Len(chain) /\ Len(chain) \in Nat
         /\ Len(chain') = Len(chain) + 1
         /\ DOMAIN chain' = 1..(Len(chain) + 1)
         /\ \A k \in DOMAIN chain : chain'[k] = chain[k]
         /\ chain'[Len(chain) + 1] = NewBlock(price)
<1>1. pending # <<>> /\ pending' = <<>> /\ nextTxId' = nextTxId
  BY DEF SettleBlock
<1>2. DOMAIN participants' = DOMAIN participants
  BY DEF SettleBlock
<1>3. chain' = Append(chain, NewBlock(price)) /\ chain \in Seq(Range(chain))
  BY DEF SettleBlock, LedgerInv, TypeOK
<1> QED
  BY <1>1, <1>2, <1>3, AppendToChain

LEMMA SettleStep ==
  ASSUME LedgerInv, NEW price \in Prices, SettleBlock(price)
  PROVE  LedgerInv'
<1> DEFINE n == Len(chain)
           b == NewBlock(price)
<1>1. /\ pending # <<>> /\ pending' = <<>> /\ nextTxId' = nextTxId
      /\ DOMAIN participants' = DOMAIN participants
      /\ chain' \in Seq(Range(chain'))
      /\ DOMAIN chain = 1..n /\ n \in Nat
      /\ Len(chain') = n + 1
      /\ DOMAIN chain' = 1..(n + 1)
      /\ \A k \in DOMAIN chain : chain'[k] = chain[k]
      /\ chain'[n + 1] = b
  BY SettleEffect
<1>2. /\ SettledPool \in Seq(Tx("Settled"))
      /\ Len(SettledPool) = Len(pending)
      /\ DOMAIN SettledPool = DOMAIN pending
      /\ \A i \in DOMAIN pending : SettledPool[i].id = pending[i].id
      /\ DOMAIN pending = 1..Len(pending) /\ Len(pending) \in Nat
  BY SettledPoolFacts DEF LedgerInv
<1>3. /\ b.txs = SettledPool /\ b.prev = LastHash
      /\ b.hash = Hash(n, Hashed(b.txs), b.prev, b.price, b.total)
  BY DEF NewBlock, Block
<1>4. TypeOK'
  <2>1. \A k \in DOMAIN chain' : chain'[k].txs \in Seq(Tx("Settled"))
    BY <1>1, <1>2, <1>3 DEF LedgerInv, TypeOK
  <2>2. pending' \in Seq(Tx("Pending"))
    BY <1>1
  <2> QED
    BY <2>1, <2>2, <1>1 DEF LedgerInv, TypeOK
<1>5. PartiesRegistered'
  BY <1>1 DEF PartiesRegistered
<1>6. ChainValid'
  <2> SUFFICES ASSUME NEW k \in DOMAIN chain'
               PROVE  /\ chain'[k].prev = IF k = 1 THEN 0 ELSE chain'[k - 1].hash
                      /\ chain'[k].hash = Hash(k - 1, Hashed(chain'[k].txs), chain'[k].prev,
                                               chain'[k].price, chain'[k].total)
    BY DEF ChainValid, ValidateChain, Hashed
  <2>1. CASE k \in 1..n
    <3>1. chain'[k] = chain[k] /\ (k # 1 => chain'[k - 1] = chain[k - 1])
      BY <2>1, <1>1
    <3> QED
      BY <3>1, <2>1, <1>1 DEF LedgerInv, ChainValid, ValidateChain
  <2>2. CASE k = n + 1
    <3>1. b.prev = IF k = 1 THEN 0 ELSE chain'[k - 1].hash
      <4>1. CASE chain = <<>>
        <5>1. n = 0
          BY <4>1
        <5> QED
          BY <5>1, <4>1, <2>2, <1>3 DEF LastHash
      <4>2. CASE chain # <<>>
        <5>1. n # 0
          <6>1. chain \in Seq(Range(chain))
            BY DEF LedgerInv, TypeOK
          <6> QED
            BY <6>1, <4>2, EmptySeq
        <5>2. k # 1 /\ k - 1 = n /\ n \in DOMAIN chain
          BY <5>1, <2>2, <1>1
        <5> QED
          BY <5>2, <4>2, <1>1, <1>3 DEF LastHash, Last
      <4> QED
        BY <4>1, <4>2
    <3> QED
      BY <3>1, <2>2, <1>1, <1>3
  <2> QED
    BY <2>1, <2>2, <1>1
<1>7. IdsRunOn'
  <2>1. \A i \in 1..Len(pending) :
          SettledPool[i].id = nextTxId - Len(pending) + i - 1
    BY <1>2 DEF LedgerInv, IdsRunOn
  <2>2. Len(pending) # 0 /\ nextTxId \in Nat
    BY <1>1, EmptySeq DEF LedgerInv, TypeOK
  <2>3. chain'[n + 1].txs[1].id = nextTxId - Len(pending)
    <3>1. 1 \in 1..Len(pending)
      BY <2>2, <1>2
    <3>2. SettledPool[1].id = nextTxId - Len(pending) + 1 - 1
      BY <3>1, <2>1
    <3> QED
      BY <3>2, <2>2, <1>1, <1>2, <1>3
  <2>4. \A k \in DOMAIN chain : chain'[k].txs[1].id = FirstId(k)
    BY <1>1 DEF FirstId
  <2>5. ASSUME NEW k \in DOMAIN chain'
        PROVE  /\ chain'[k].txs # <<>>
               /\ \A i \in DOMAIN chain'[k].txs :
                    chain'[k].txs[i].id = chain'[k].txs[1].id + i - 1
               /\ chain'[k].txs[1].id + Len(chain'[k].txs) =
                    IF k = n + 1 THEN nextTxId ELSE chain'[k + 1].txs[1].id
    <3>1. CASE k \in 1..n
      <4>1. chain'[k] = chain[k] /\ chain'[k].txs[1].id = FirstId(k) /\ k # n + 1
        BY <3>1, <2>4, <1>1
      <4>2. FirstId(k) + Len(chain[k].txs) =
              IF k = n THEN nextTxId - Len(pending) ELSE FirstId(k + 1)
        BY <3>1, <1>1 DEF LedgerInv, IdsRunOn
      <4>3. FirstId(k) + Len(chain[k].txs) = chain'[k + 1].txs[1].id
        <5>1. CASE k = n
          BY <5>1, <4>2, <2>3
        <5>2. CASE k # n
          <6>1. k + 1 \in DOMAIN chain
            BY <5>2, <3>1, <1>1
          <6> QED
            BY <6>1, <5>2, <4>2, <2>4
        <5> QED
          BY <5>1, <5>2
      <4> QED
        BY <4>1, <4>3, <3>1, <1>1 DEF LedgerInv, IdsRunOn
    <3>2. CASE k = n + 1
      <4>1. chain'[k].txs = SettledPool /\ SettledPool # <<>>
        BY <3>2, <1>1, <1>2, <1>3, <2>2
      <4> QED
        BY <4>1, <3>2, <2>1, <2>2, <2>3, <1>2
    <3> QED
      BY <3>1, <3>2, <1>1
  <2>6. chain'[1].txs[1].id = 0 /\ chain' # <<>>
    <3>1. chain' # <<>>
      BY <1>1
    <3>2. CASE chain = <<>>
      <4>1. n = 0 /\ nextTxId = Len(pending)
        BY <3>2 DEF LedgerInv, IdsRunOn
      <4> QED
        BY <4>1, <3>1, <2>2, <2>3
    <3>3. CASE chain # <<>>
      <4>1. 1 \in DOMAIN chain
        <5>1. chain \in Seq(Range(chain))
          BY DEF LedgerInv, TypeOK
        <5> QED
          BY <5>1, <3>3, <1>1, EmptySeq
      <4> QED
        BY <4>1, <3>1, <3>3, <2>4 DEF LedgerInv, IdsRunOn
    <3> QED
      BY <3>2, <3>3
  <2>7. pending' = <<>> /\ Len(pending') = 0 /\ DOMAIN pending' = {}
    BY <1>1
  <2> QED
    BY <2>2, <2>5, <2>6, <2>7, <1>1 DEF IdsRunOn, FirstId
<1> QED
  BY <1>4, <1>5, <1>6, <1>7 DEF LedgerInv

LEMMA NextLedger == LedgerInv /\ [Next]_vars => LedgerInv'
<1> SUFFICES ASSUME LedgerInv, [Next]_vars PROVE LedgerInv'
  OBVIOUS
<1>1. ASSUME NEW p \in Ids, NEW account \in Openings, RegisterParticipant(p, account)
      PROVE  LedgerInv'
  BY <1>1, RegisterStep
<1>2. ASSUME NEW o \in Orders, SubmitTransaction(o)
      PROVE  LedgerInv'
  BY <1>2, SubmitStep
<1>3. ASSUME NEW price \in Prices, SettleBlock(price)
      PROVE  LedgerInv'
  BY <1>3, SettleStep
<1>4. CASE UNCHANGED vars
  BY <1>4 DEF vars, LedgerInv, TypeOK, IdsRunOn, FirstId, PartiesRegistered,
              ChainValid, ValidateChain, Hashed
<1> QED
  BY <1>1, <1>2, <1>3, <1>4 DEF Next

(* Every reachable state of the ledger satisfies the invariant.             *)
THEOREM LedgerInvariance == Spec => []LedgerInv
<1> QED
  BY InitLedger, NextLedger, PTL DEF Spec

(* Pool and chain hold well-formed transactions with the status of their    *)
(* place, submit_transaction and settle_block being all that writes them.   *)
THEOREM LedgerTypes == Spec => []TypeOK
<1>1. LedgerInv => TypeOK
  BY DEF LedgerInv
<1> QED
  BY <1>1, LedgerInvariance, PTL

(* Each transaction id is given once, and kept once, in order.              *)
THEOREM IdsGivenOnce == Spec => []IdsRunOn
<1>1. LedgerInv => IdsRunOn
  BY DEF LedgerInv
<1> QED
  BY <1>1, LedgerInvariance, PTL

(* settle_block never meets a transaction with a missing party.             *)
THEOREM NoMissingParty == Spec => []PartiesRegistered
<1>1. LedgerInv => PartiesRegistered
  BY DEF LedgerInv
<1> QED
  BY <1>1, LedgerInvariance, PTL

(* validate_chain accepts every chain settle_block builds.                  *)
THEOREM ChainIntegrity == Spec => []ChainValid
<1>1. LedgerInv => ChainValid
  BY DEF LedgerInv
<1> QED
  BY <1>1, LedgerInvariance, PTL

(* No transaction is lost, moved or altered on its way into its block.      *)
THEOREM NothingLost == Spec => TransactionsKept
<1> DEFINE Kept ==
      /\ \A k \in DOMAIN chain : k \in DOMAIN chain' /\ chain'[k] = chain[k]
      /\ \A i \in DOMAIN pending :
           \/ /\ chain' = chain
              /\ i \in DOMAIN pending' /\ pending'[i] = pending[i]
           \/ /\ DOMAIN chain' = DOMAIN chain \cup {Len(chain) + 1}
              /\ i \in DOMAIN chain'[Len(chain) + 1].txs
              /\ chain'[Len(chain) + 1].txs[i]
                   = [pending[i] EXCEPT !.status = "Settled"]
<1>1. LedgerInv /\ [Next]_vars => [Kept]_vars
  <2> SUFFICES ASSUME LedgerInv, Next PROVE Kept
    OBVIOUS
  <2>1. ASSUME NEW p \in Ids, NEW account \in Openings, RegisterParticipant(p, account)
        PROVE  Kept
    BY <2>1 DEF RegisterParticipant
  <2>2. ASSUME NEW o \in Orders, SubmitTransaction(o)
        PROVE  Kept
    <3> DEFINE tx == [id |-> nextTxId, terms |-> o, status |-> "Pending"]
    <3>1. pending' = Append(pending, tx) /\ chain' = chain
      BY <2>2 DEF SubmitTransaction, Admit
    <3>2. /\ DOMAIN pending = 1..Len(pending) /\ Len(pending) \in Nat
          /\ pending \in Seq(Range(pending))
      <4>1. pending \in Seq(Tx("Pending"))
        BY DEF LedgerInv, TypeOK
      <4>2. pending \in [1..Len(pending) -> Range(pending)] /\ Len(pending) \in Nat
        BY <4>1 DEF Range
      <4> QED
        BY <4>1, <4>2, SeqDef
    <3>3. /\ DOMAIN pending' = 1..(Len(pending) + 1)
          /\ \A i \in DOMAIN pending : pending'[i] = pending[i]
      BY <3>1, <3>2, AppendToChain
    <3> QED
      BY <3>1, <3>2, <3>3
  <2>3. ASSUME NEW price \in Prices, SettleBlock(price)
        PROVE  Kept
    <3>1. /\ DOMAIN chain = 1..Len(chain) /\ Len(chain) \in Nat
          /\ DOMAIN chain' = 1..(Len(chain) + 1)
          /\ \A k \in DOMAIN chain : chain'[k] = chain[k]
          /\ chain'[Len(chain) + 1] = NewBlock(price)
      BY <2>3, SettleEffect
    <3>2. /\ DOMAIN SettledPool = DOMAIN pending
          /\ \A i \in DOMAIN pending :
               SettledPool[i] = [pending[i] EXCEPT !.status = "Settled"]
      BY SettledPoolFacts DEF LedgerInv
    <3>3. NewBlock(price).txs = SettledPool
      BY DEF NewBlock, Block
    <3>4. DOMAIN chain' = DOMAIN chain \cup {Len(chain) + 1}
      BY <3>1
    <3> QED
      BY <3>1, <3>2, <3>3, <3>4
  <2> QED
    BY <2>1, <2>2, <2>3 DEF Next
<1>2. Spec => [][Kept]_vars
  BY <1>1, LedgerInvariance, PTL DEF Spec
<1> QED
  BY <1>2 DEF TransactionsKept

------------------------------------------------------------------------------
(* The blocks' transactions in sequence                                     *)

Blocks == [k \in DOMAIN chain |-> chain[k].txs]

Sealed == FlattenSeq(Blocks)

(* Sealed holds the settled transactions, numbered from 0 on; those of the  *)
(* pool follow.                                                             *)
NumberedFrom(txs, first) == \A i \in DOMAIN txs : txs[i].id = first + i - 1

LogInv ==
  /\ Sealed \in Seq(Tx("Settled"))
  /\ Len(Sealed) = nextTxId - Len(pending)
  /\ NumberedFrom(Sealed, 0)

LEMMA BlocksType ==
  ASSUME TypeOK
  PROVE  Blocks \in Seq(Seq(Tx("Settled")))
<1>1. chain \in Seq(Range(chain)) /\ \A k \in DOMAIN chain : chain[k].txs \in Seq(Tx("Settled"))
  BY DEF TypeOK
<1>2. DOMAIN chain = 1..Len(chain) /\ Len(chain) \in Nat
  BY <1>1
<1>3. Blocks \in [1..Len(chain) -> Seq(Tx("Settled"))]
  BY <1>1, <1>2 DEF Blocks
<1> QED
  BY <1>2, <1>3, SeqDef

(* Settlement appends the pool, settled, to the sequence.                   *)
LEMMA SealedGrows ==
  ASSUME LedgerInv, NEW price \in Prices, SettleBlock(price)
  PROVE  Sealed \in Seq(Tx("Settled")) /\ Sealed' = Sealed \o SettledPool
<1>1. /\ DOMAIN chain = 1..Len(chain) /\ Len(chain) \in Nat
      /\ DOMAIN chain' = 1..(Len(chain) + 1)
      /\ \A k \in DOMAIN chain : chain'[k] = chain[k]
      /\ chain'[Len(chain) + 1] = NewBlock(price)
  BY SettleEffect
<1>2. NewBlock(price).txs = SettledPool
  BY DEF NewBlock, Block
<1>3. Blocks \in Seq(Seq(Tx("Settled"))) /\ Len(Blocks) = Len(chain)
  <2>1. Blocks \in Seq(Seq(Tx("Settled"))) /\ DOMAIN Blocks = DOMAIN chain
    BY BlocksType DEF LedgerInv, Blocks
  <2> QED
    BY <2>1, <1>1
<1>4. SettledPool \in Seq(Tx("Settled"))
  BY SettledPoolFacts DEF LedgerInv
<1>5. Blocks' = Append(Blocks, SettledPool)
  <2> DEFINE t == Append(Blocks, SettledPool)
             n == Len(chain)
  <2>1. /\ DOMAIN t = 1..(n + 1) /\ t[n + 1] = SettledPool
        /\ \A k \in 1..n : t[k] = Blocks[k]
        /\ t = [k \in 1..(n + 1) |-> t[k]]
    <3> DEFINE S == Seq(Tx("Settled"))
    <3>1. Blocks \in Seq(S) /\ SettledPool \in S
      BY <1>3, <1>4
    <3> HIDE DEF S
    <3>2. /\ t \in Seq(S) /\ Len(t) = Len(Blocks) + 1 /\ t[Len(Blocks) + 1] = SettledPool
          /\ \A k \in 1..Len(Blocks) : t[k] = Blocks[k]
      BY <3>1
    <3> HIDE DEF t
    <3>3. DOMAIN t = 1..(n + 1) /\ t = [k \in 1..Len(t) |-> t[k]]
      BY <1>3, <3>2
    <3> QED
      BY <1>3, <3>2, <3>3
  <2>2. Blocks' = [k \in 1..(n + 1) |-> chain'[k].txs]
    BY <1>1 DEF Blocks
  <2>3. \A k \in 1..n : Blocks[k] = chain[k].txs /\ chain'[k] = chain[k]
    BY <1>1 DEF Blocks
  <2>4. \A k \in 1..(n + 1) : k \in 1..n \/ k = n + 1
    BY <1>1
  <2> HIDE DEF t, n
  <2>5. \A k \in 1..(n + 1) : chain'[k].txs = t[k]
    BY <1>1, <1>2, <2>1, <2>3, <2>4 DEF n
  <2>6. Blocks' = t
    BY <2>1, <2>2, <2>5
  <2> QED
    BY <2>6 DEF t
<1>6. Sealed' = FlattenSeq(Append(Blocks, SettledPool))
  BY <1>5 DEF Sealed
<1> QED
  BY <1>3, <1>4, <1>6, FlattenAppend DEF Sealed

LEMMA InitLog ==
  ASSUME Init
  PROVE  LogInv
<1>1. chain = <<>> /\ pending = <<>> /\ nextTxId = 0
  BY DEF Init
<1>2. Blocks = <<>>
  BY <1>1 DEF Blocks
<1>3. Sealed = <<>>
  BY <1>2 DEF Sealed, FlattenSeq
<1>4. Sealed \in Seq(Tx("Settled")) /\ Len(Sealed) = 0 /\ DOMAIN Sealed = {}
  BY <1>3
<1>5. Len(pending) = 0 /\ nextTxId = 0
  BY <1>1
<1>6. NumberedFrom(Sealed, 0)
  BY <1>4 DEF NumberedFrom
<1>7. Len(Sealed) = nextTxId - Len(pending)
  BY ONLY <1>4, <1>5
<1> QED
  BY <1>4, <1>6, <1>7 DEF LogInv

LEMMA SettleLog ==
  ASSUME LedgerInv, LogInv, NEW price \in Prices, SettleBlock(price)
  PROVE  LogInv'
<1>1. Sealed' = Sealed \o SettledPool /\ Sealed \in Seq(Tx("Settled"))
  BY SealedGrows
<1>2. /\ SettledPool \in Seq(Tx("Settled")) /\ Len(SettledPool) = Len(pending)
      /\ \A i \in DOMAIN pending : SettledPool[i].id = pending[i].id
      /\ DOMAIN pending = 1..Len(pending) /\ Len(pending) \in Nat
  BY SettledPoolFacts DEF LedgerInv
<1>3. pending' = <<>> /\ nextTxId' = nextTxId /\ nextTxId \in Nat
  BY DEF SettleBlock, LedgerInv, TypeOK
<1>4. Len(Sealed) = nextTxId - Len(pending) /\ Len(Sealed) \in Nat
  BY <1>1 DEF LogInv
<1>5. Sealed' \in Seq(Tx("Settled")) /\ Len(Sealed') = nextTxId
  BY <1>1, <1>2, <1>3, <1>4
<1>6. ASSUME NEW i \in 1..nextTxId PROVE Sealed'[i].id = 0 + i - 1
  <2>1. CASE i \in 1..Len(Sealed)
    <3>1. Sealed'[i] = Sealed[i]
      BY <2>1, <1>1, <1>2
    <3> QED
      BY <2>1, <3>1, <1>1 DEF LogInv, NumberedFrom
  <2>2. CASE i \notin 1..Len(Sealed)
    <3> DEFINE j == i - Len(Sealed)
    <3>1. j \in 1..Len(pending) /\ i = Len(Sealed) + j /\ i \in Nat
      BY <2>2, <1>2, <1>3, <1>4
    <3>2. Sealed'[i] = SettledPool[j]
      BY <3>1, <2>2, <1>1, <1>2
    <3>3. SettledPool[j].id = nextTxId - Len(pending) + j - 1
      BY <3>1, <1>2 DEF LedgerInv, IdsRunOn
    <3> HIDE DEF j
    <3> QED
      BY <3>1, <3>2, <3>3, <1>4
  <2> QED
    BY <2>1, <2>2
<1>7. NumberedFrom(Sealed, 0)'
  BY <1>5, <1>6 DEF NumberedFrom
<1> QED
  BY <1>3, <1>5, <1>7 DEF LogInv

LEMMA NextLog ==
  ASSUME LedgerInv, LogInv, [Next]_vars
  PROVE  LogInv'
<1>1. ASSUME NEW p \in Ids, NEW account \in Openings, RegisterParticipant(p, account)
      PROVE  LogInv'
  BY <1>1 DEF RegisterParticipant, LogInv, Sealed, Blocks, NumberedFrom
<1>2. ASSUME NEW o \in Orders, SubmitTransaction(o)
      PROVE  LogInv'
  <2>1. /\ chain' = chain /\ nextTxId' = nextTxId + 1
        /\ \E tx : pending' = Append(pending, tx)
    BY <1>2 DEF SubmitTransaction, Admit
  <2>2. pending \in Seq(Tx("Pending")) /\ nextTxId \in Nat
    BY DEF LedgerInv, TypeOK
  <2>3. Len(pending') = Len(pending) + 1 /\ Len(pending) \in Nat
    BY <2>1, <2>2
  <2>4. Sealed' = Sealed
    BY <2>1 DEF Sealed, Blocks
  <2> QED
    BY <2>1, <2>2, <2>3, <2>4 DEF LogInv, NumberedFrom
<1>3. ASSUME NEW price \in Prices, SettleBlock(price)
      PROVE  LogInv'
  BY <1>3, SettleLog
<1>4. CASE UNCHANGED vars
  BY <1>4 DEF vars, LogInv, Sealed, Blocks, NumberedFrom
<1> QED
  BY <1>1, <1>2, <1>3, <1>4 DEF Next

------------------------------------------------------------------------------
(* The ledger implements the transaction log                                *)

AnyTx == Tx("Settled") \cup Tx("Pending")

LEMMA HashedFacts ==
  ASSUME NEW s \in Seq(AnyTx)
  PROVE  /\ Hashed(s) \in Seq([id : Nat, terms : Order]) /\ Len(Hashed(s)) = Len(s)
         /\ DOMAIN Hashed(s) = 1..Len(s) /\ Len(s) \in Nat
         /\ \A i \in 1..Len(s) : Hashed(s)[i] = [id |-> s[i].id, terms |-> s[i].terms]
<1> DEFINE E == [id : Nat, terms : Order]
           h == Hashed(s)
<1>1. DOMAIN s = 1..Len(s) /\ Len(s) \in Nat /\ \A i \in 1..Len(s) : s[i] \in AnyTx
  OBVIOUS
<1>2. \A x \in AnyTx : x.id \in Nat /\ x.terms \in Order
  BY DEF AnyTx, Tx
<1>3. h = [i \in 1..Len(s) |-> [id |-> s[i].id, terms |-> s[i].terms]]
  BY <1>1 DEF Hashed
<1>4. \A i \in 1..Len(s) : [id |-> s[i].id, terms |-> s[i].terms] \in E
  BY <1>1, <1>2
<1> HIDE DEF h, E
<1>5. h \in [1..Len(s) -> E]
  BY <1>3, <1>4
<1>6. h \in Seq(E)
  BY <1>1, <1>5, SeqDef
<1>7. Len(h) = Len(s) /\ DOMAIN h = 1..Len(s)
  BY <1>1, <1>5, <1>6
<1> QED
  BY <1>1, <1>3, <1>6, <1>7 DEF h, E

LEMMA HashedAppend ==
  ASSUME NEW s \in Seq(AnyTx), NEW e \in AnyTx
  PROVE  Hashed(Append(s, e)) = Append(Hashed(s), [id |-> e.id, terms |-> e.terms])
<1> DEFINE E == [id : Nat, terms : Order]
           t == Append(s, e)
           x == [id |-> e.id, terms |-> e.terms]
           u == Append(Hashed(s), x)
<1>1. /\ t \in Seq(AnyTx) /\ Len(t) = Len(s) + 1 /\ Len(s) \in Nat /\ t[Len(s) + 1] = e
      /\ \A i \in 1..Len(s) : t[i] = s[i]
  OBVIOUS
<1>2. x \in E
  BY DEF AnyTx, Tx
<1>3. /\ Hashed(s) \in Seq(E) /\ Len(Hashed(s)) = Len(s)
      /\ \A i \in 1..Len(s) : Hashed(s)[i] = [id |-> s[i].id, terms |-> s[i].terms]
  BY HashedFacts
<1> HIDE DEF E, t
<1>4. /\ Hashed(t) \in Seq(E) /\ Len(Hashed(t)) = Len(s) + 1
      /\ \A i \in 1..(Len(s) + 1) : Hashed(t)[i] = [id |-> t[i].id, terms |-> t[i].terms]
  BY <1>1, HashedFacts DEF E
<1>5. /\ u \in Seq(E) /\ Len(u) = Len(s) + 1 /\ u[Len(s) + 1] = x
      /\ \A i \in 1..Len(s) : u[i] = Hashed(s)[i]
  <2> HIDE DEF x
  <2> QED
    BY <1>1, <1>2, <1>3
<1>6. ASSUME NEW i \in 1..(Len(s) + 1) PROVE Hashed(t)[i] = u[i]
  <2>1. CASE i = Len(s) + 1
    BY <2>1, <1>1, <1>4, <1>5
  <2>2. CASE i \in 1..Len(s)
    BY <2>2, <1>1, <1>3, <1>4, <1>5
  <2>3. i = Len(s) + 1 \/ i \in 1..Len(s)
    BY <1>1
  <2> QED
    BY <2>1, <2>2, <2>3
<1> HIDE DEF u
<1>7. Hashed(t) = u
  BY <1>1, <1>4, <1>5, <1>6, SeqEqual
<1> QED
  BY <1>7 DEF t, u, x

(* All transactions, settled and pending.                                   *)
LEMMA AllFacts ==
  ASSUME LedgerInv, LogInv
  PROVE  /\ AllTransactions = Sealed \o pending
         /\ Sealed \in Seq(AnyTx) /\ pending \in Seq(AnyTx)
         /\ AllTransactions \in Seq(AnyTx) /\ Len(AllTransactions) = nextTxId
         /\ NumberedFrom(AllTransactions, 0)
         /\ \A i \in 1..Len(Sealed) : AllTransactions[i] = Sealed[i]
         /\ \A i \in 1..nextTxId :
              i \notin 1..Len(Sealed) => /\ i - Len(Sealed) \in 1..Len(pending)
                                         /\ AllTransactions[i] = pending[i - Len(Sealed)]
<1>1. AllTransactions = Sealed \o pending
  BY DEF AllTransactions, Sealed, Blocks
<1>2. Sealed \in Seq(AnyTx) /\ pending \in Seq(AnyTx)
  <2>1. Sealed \in Seq(Tx("Settled")) /\ pending \in Seq(Tx("Pending"))
    BY DEF LedgerInv, LogInv, TypeOK
  <2> QED
    BY <2>1, SeqMonotonic DEF AnyTx
<1>3. /\ Len(Sealed) = nextTxId - Len(pending) /\ Len(Sealed) \in Nat
      /\ Len(pending) \in Nat /\ nextTxId \in Nat /\ DOMAIN pending = 1..Len(pending)
      /\ DOMAIN Sealed = 1..Len(Sealed)
  BY <1>2 DEF LogInv, LedgerInv, TypeOK
<1>4. /\ AllTransactions \in Seq(AnyTx) /\ Len(AllTransactions) = nextTxId
      /\ \A i \in 1..Len(Sealed) : AllTransactions[i] = Sealed[i]
  BY <1>1, <1>2, <1>3
<1>5. ASSUME NEW i \in 1..nextTxId, i \notin 1..Len(Sealed)
      PROVE  /\ i - Len(Sealed) \in 1..Len(pending)
             /\ AllTransactions[i] = pending[i - Len(Sealed)]
  BY <1>1, <1>2, <1>3, <1>5
<1>6. ASSUME NEW i \in 1..nextTxId PROVE AllTransactions[i].id = 0 + i - 1
  <2>1. CASE i \in 1..Len(Sealed)
    BY <2>1, <1>3, <1>4 DEF LogInv, NumberedFrom
  <2>2. CASE i \notin 1..Len(Sealed)
    <3> DEFINE j == i - Len(Sealed)
    <3>1. j \in 1..Len(pending) /\ AllTransactions[i] = pending[j] /\ i = Len(Sealed) + j
      BY <2>2, <1>3, <1>5
    <3>2. pending[j].id = nextTxId - Len(pending) + j - 1
      BY <3>1, <1>3 DEF LedgerInv, IdsRunOn
    <3> HIDE DEF j
    <3> QED
      BY <3>1, <3>2, <1>3
  <2> QED
    BY <2>1, <2>2
<1>7. NumberedFrom(AllTransactions, 0)
  <2>1. DOMAIN AllTransactions = 1..nextTxId
    BY <1>4
  <2> QED
    BY <2>1, <1>6 DEF NumberedFrom
<1> QED
  BY <1>1, <1>2, <1>4, <1>5, <1>7

LEMMA RefinesInit == Init => Log!Init
<1> SUFFICES ASSUME Init PROVE Log!Init
  OBVIOUS
<1>1. chain = <<>> /\ pending = <<>> /\ nextTxId = 0
  BY DEF Init
<1>2. Blocks = <<>>
  BY <1>1 DEF Blocks
<1>3. Sealed = <<>>
  BY <1>2 DEF Sealed, FlattenSeq
<1>4. AllTransactions = <<>>
  BY <1>1, <1>3 DEF AllTransactions, Sealed, Blocks
<1>5. Hashed(AllTransactions) = <<>>
  BY <1>4 DEF Hashed
<1>6. nextTxId - Len(pending) = 0
  <2>1. Len(pending) = 0 /\ nextTxId = 0
    BY <1>1
  <2> QED
    BY ONLY <2>1
<1> QED
  BY <1>5, <1>6 DEF Log!Init

(* submit_transaction appends one entry to the log.                         *)
LEMMA SubmitAccepts ==
  ASSUME LedgerInv, LogInv, NEW o \in Orders, SubmitTransaction(o)
  PROVE  Log!Accept(o)
<1> DEFINE tx == [id |-> nextTxId, terms |-> o, status |-> "Pending"]
<1>1. /\ pending' = Append(pending, tx) /\ nextTxId' = nextTxId + 1 /\ chain' = chain
      /\ o.mwh > 0 /\ o.price >= 0
  BY DEF SubmitTransaction, Admit, Valid
<1>2. nextTxId \in Nat
  BY DEF LedgerInv, TypeOK
<1>3. tx \in AnyTx
  BY <1>1, <1>2, LedgerAssumption DEF AnyTx, Tx
<1>4. Sealed' = Sealed
  BY <1>1 DEF Sealed, Blocks
<1>5. /\ AllTransactions = Sealed \o pending /\ AllTransactions \in Seq(AnyTx)
      /\ Sealed \in Seq(AnyTx) /\ pending \in Seq(AnyTx)
      /\ Len(AllTransactions) = nextTxId
  BY AllFacts
<1>6. AllTransactions' = Sealed' \o pending'
  BY DEF AllTransactions, Sealed, Blocks
<1>7. AllTransactions' = Append(AllTransactions, tx)
  <2> HIDE DEF tx
  <2>1. Sealed \o Append(pending, tx) = Append(Sealed \o pending, tx)
    BY <1>3, <1>5
  <2> QED
    BY <2>1, <1>1, <1>4, <1>5, <1>6
<1>8. Hashed(AllTransactions)' = Append(Hashed(AllTransactions), [id |-> nextTxId, terms |-> o])
  <2>1. Hashed(AllTransactions)' = Hashed(Append(AllTransactions, tx))
    BY <1>7 DEF Hashed
  <2>2. tx.id = nextTxId /\ tx.terms = o
    OBVIOUS
  <2> HIDE DEF tx
  <2>3. Hashed(Append(AllTransactions, tx))
          = Append(Hashed(AllTransactions), [id |-> tx.id, terms |-> tx.terms])
    BY <1>3, <1>5, HashedAppend
  <2> QED
    BY <2>1, <2>2, <2>3
<1>9. Len(Hashed(AllTransactions)) = nextTxId
  BY <1>5, HashedFacts
<1>10. (nextTxId - Len(pending))' = nextTxId - Len(pending)
  <2>1. Len(pending') = Len(pending) + 1 /\ Len(pending) \in Nat
    <3> HIDE DEF tx
    <3> QED
      BY <1>1, <1>3, <1>5
  <2> QED
    BY <2>1, <1>1, <1>2
<1> QED
  BY <1>8, <1>9, <1>10 DEF Log!Accept

(* settle_block seals the log and leaves its entries alone.                 *)
LEMMA SettleSeals ==
  ASSUME LedgerInv, LogInv, NEW price \in Prices, SettleBlock(price)
  PROVE  Log!Seal
<1>1. /\ pending # <<>> /\ pending' = <<>> /\ nextTxId' = nextTxId /\ nextTxId \in Nat
      /\ pending \in Seq(Tx("Pending"))
  BY DEF SettleBlock, LedgerInv, TypeOK
<1>2. /\ AllTransactions = Sealed \o pending /\ AllTransactions \in Seq(AnyTx)
      /\ Sealed \in Seq(AnyTx) /\ Len(AllTransactions) = nextTxId
      /\ \A i \in 1..Len(Sealed) : AllTransactions[i] = Sealed[i]
      /\ \A i \in 1..nextTxId :
           i \notin 1..Len(Sealed) => /\ i - Len(Sealed) \in 1..Len(pending)
                                      /\ AllTransactions[i] = pending[i - Len(Sealed)]
  BY AllFacts
<1>3. /\ SettledPool \in Seq(Tx("Settled")) /\ Len(SettledPool) = Len(pending)
      /\ \A i \in DOMAIN pending :
           SettledPool[i] = [pending[i] EXCEPT !.status = "Settled"]
      /\ DOMAIN pending = 1..Len(pending) /\ Len(pending) \in Nat
  BY SettledPoolFacts DEF LedgerInv
<1>4. SettledPool \in Seq(AnyTx)
  BY <1>3, SeqMonotonic DEF AnyTx
<1> DEFINE all == Sealed \o SettledPool
<1>5. Sealed' = all
  BY SealedGrows
<1>6. AllTransactions' = all
  <2>1. AllTransactions' = Sealed' \o pending'
    BY DEF AllTransactions, Sealed, Blocks
  <2>2. all \o <<>> = all
    BY <1>2, <1>4
  <2> QED
    BY <2>1, <2>2, <1>1, <1>5
<1>7. Len(Sealed) = nextTxId - Len(pending) /\ Len(Sealed) \in Nat
  BY <1>2 DEF LogInv
<1>8. all \in Seq(AnyTx) /\ Len(all) = nextTxId
  <2>1. all \in Seq(AnyTx) /\ Len(all) = Len(Sealed) + Len(SettledPool)
    BY <1>2, <1>4
  <2>2. Len(all) = nextTxId
    BY <2>1, <1>1, <1>3, <1>7
  <2> QED
    BY <2>1, <2>2
<1>9. ASSUME NEW i \in 1..nextTxId
      PROVE  all[i].id = AllTransactions[i].id /\ all[i].terms = AllTransactions[i].terms
  <2>1. CASE i \in 1..Len(Sealed)
    BY <2>1, <1>2, <1>4
  <2>2. CASE i \notin 1..Len(Sealed)
    <3> DEFINE j == i - Len(Sealed)
    <3>1. j \in 1..Len(pending) /\ AllTransactions[i] = pending[j]
      BY <2>2, <1>2
    <3>2. all[i] = SettledPool[j]
      BY <2>2, <3>1, <1>2, <1>3, <1>4, <1>7
    <3>3. pending[j] \in Tx("Pending")
      BY <3>1, <1>1
    <3> HIDE DEF j
    <3>4. SettledPool[j].id = pending[j].id /\ SettledPool[j].terms = pending[j].terms
      BY <3>1, <3>3, <1>3 DEF Tx
    <3> QED
      BY <3>1, <3>2, <3>4
  <2> QED
    BY <2>1, <2>2
<1> HIDE DEF all
<1>10. Hashed(all) = Hashed(AllTransactions)
  <2>1. DOMAIN all = 1..nextTxId /\ DOMAIN AllTransactions = 1..nextTxId
    BY <1>2, <1>8
  <2> QED
    BY <2>1, <1>9 DEF Hashed
<1>11. Hashed(AllTransactions)' = Hashed(AllTransactions)
  <2>1. Hashed(AllTransactions)' = Hashed(all)
    BY <1>6 DEF Hashed
  <2> QED
    BY <2>1, <1>10
<1>12. Len(Hashed(AllTransactions)) = nextTxId
  BY <1>2, HashedFacts
<1>13. nextTxId - Len(pending) < nextTxId /\ (nextTxId - Len(pending))' = nextTxId
  <2>1. Len(pending) # 0 /\ Len(pending') = 0
    BY <1>1, EmptySeq
  <2> QED
    BY <2>1, <1>1, <1>3
<1> QED
  BY <1>11, <1>12, <1>13 DEF Log!Seal

(* The log of transactions that the ledger promises is what it keeps: an    *)
(* accepted transaction takes the next number, none is lost, repeated or    *)
(* changed, and a settlement seals all there are.                           *)
THEOREM LedgerImplementsLog == Spec => ImplementsLog
<1> DEFINE Both == LedgerInv /\ LogInv
<1>1. Init => Both /\ Log!Init
  BY InitLedger, InitLog, RefinesInit
<1>2. Both /\ [Next]_vars => Both'
  BY NextLedger, NextLog
<1>3. Both /\ [Next]_vars => [Log!Next]_(Log!tvars)
  <2> SUFFICES ASSUME Both, [Next]_vars PROVE [Log!Next]_(Log!tvars)
    OBVIOUS
  <2>1. ASSUME NEW p \in Ids, NEW account \in Openings, RegisterParticipant(p, account)
        PROVE  UNCHANGED Log!tvars
    <3>1. pending' = pending /\ chain' = chain /\ nextTxId' = nextTxId
      BY <2>1 DEF RegisterParticipant
    <3> QED
      BY <3>1 DEF Log!tvars, Hashed, AllTransactions
  <2>2. ASSUME NEW o \in Orders, SubmitTransaction(o)
        PROVE  Log!Next
    BY <2>2, SubmitAccepts DEF Log!Next
  <2>3. ASSUME NEW price \in Prices, SettleBlock(price)
        PROVE  Log!Next
    BY <2>3, SettleSeals DEF Log!Next
  <2>4. CASE UNCHANGED vars
    BY <2>4 DEF vars, Log!tvars, Hashed, AllTransactions
  <2> QED
    BY <2>1, <2>2, <2>3, <2>4 DEF Next
<1> HIDE DEF Both
<1> QED
  BY <1>1, <1>2, <1>3, PTL DEF Spec, ImplementsLog, Log!Spec

------------------------------------------------------------------------------
(* An account is its history                                                *)

MoneyIn(p, txs) == [i \in DOMAIN txs |-> Earned(p, txs[i].terms)]

EnergyIn(p, txs) == [i \in DOMAIN txs |-> Received(p, txs[i].terms)]

(* x is what was there at first plus the values of w since then, up to L.   *)
SumsTo(x, base, w, from, L) == x = base + SumOver(w, (from + 1)..L)

(* acct is what p, registered as open says, has after the transactions.     *)
Replays(acct, open, p, txs) ==
  /\ acct \in Account /\ open.account \in Account /\ open.from \in 0..Len(txs)
  /\ SumsTo(acct.balance, open.account.balance, MoneyIn(p, txs), open.from, Len(txs))
  /\ SumsTo(acct.energy, open.account.energy, EnergyIn(p, txs), open.from, Len(txs))

HistoryInv ==
  /\ DOMAIN opened = DOMAIN participants
  /\ \A p \in DOMAIN participants : Replays(participants[p], opened[p], p, Sealed)

LEMMA CostType ==
  ASSUME NEW o \in Order
  PROVE  o.mwh \in Int /\ o.price \in Int /\ Cost(o) \in Int
<1>1. o.mwh \in Int /\ o.price \in Int
  BY DEF Order
<1>2. \A a \in Int, b \in Int : a * b \in Int
  OBVIOUS
<1> QED
  BY <1>1, <1>2 DEF Cost

(* A transaction changes an account by what it earns: also that of a        *)
(* participant who trades with itself.                                      *)
LEMMA PostEffect ==
  ASSUME NEW p, NEW acct \in Account, NEW tx, tx.terms \in Order
  PROVE  /\ Post(p, acct, tx) \in Account
         /\ Earned(p, tx.terms) \in Int /\ Received(p, tx.terms) \in Int
         /\ Post(p, acct, tx).balance = acct.balance + Earned(p, tx.terms)
         /\ Post(p, acct, tx).energy = acct.energy + Received(p, tx.terms)
<1> DEFINE o == tx.terms
           c == Cost(o)
           m == o.mwh
           b0 == acct.balance
           e0 == acct.energy
           sells == o.seller = p
           buys == o.buyer = p
<1>1. c \in Int /\ m \in Int /\ b0 \in Int /\ e0 \in Int /\ acct = [balance |-> b0, energy |-> e0]
  BY CostType DEF Account
<1>2. Post(p, acct, tx) =
        LET sold == IF sells THEN [balance |-> b0 + c, energy |-> e0 - m] ELSE acct
        IN  IF buys THEN [balance |-> sold.balance - c, energy |-> sold.energy + m] ELSE sold
  BY DEF Post
<1>3. /\ Earned(p, o) = (IF sells THEN c ELSE 0) - (IF buys THEN c ELSE 0)
      /\ Received(p, o) = (IF buys THEN m ELSE 0) - (IF sells THEN m ELSE 0)
  BY DEF Earned, Received
<1> HIDE DEF c, m, b0, e0, sells, buys
<1>4. CASE sells /\ buys
  <2>1. Post(p, acct, tx) = [balance |-> (b0 + c) - c, energy |-> (e0 - m) + m]
    BY <1>2, <1>4
  <2>2. (b0 + c) - c = b0 /\ (e0 - m) + m = e0 /\ c - c = 0 /\ m - m = 0
    BY ONLY <1>1
  <2> QED
    BY <2>1, <2>2, <1>1, <1>3, <1>4 DEF Account, b0, e0
<1>5. CASE sells /\ ~buys
  <2>1. Post(p, acct, tx) = [balance |-> b0 + c, energy |-> e0 - m]
    BY <1>2, <1>5
  <2>2. b0 + c \in Int /\ e0 - m \in Int /\ c - 0 = c /\ 0 - m \in Int /\ e0 + (0 - m) = e0 - m
    BY ONLY <1>1
  <2> QED
    BY <2>1, <2>2, <1>1, <1>3, <1>5 DEF Account, b0, e0
<1>6. CASE ~sells /\ buys
  <2>1. Post(p, acct, tx) = [balance |-> b0 - c, energy |-> e0 + m]
    BY <1>1, <1>2, <1>6
  <2>2. b0 - c \in Int /\ e0 + m \in Int /\ m - 0 = m /\ 0 - c \in Int /\ b0 + (0 - c) = b0 - c
    BY ONLY <1>1
  <2> QED
    BY <2>1, <2>2, <1>1, <1>3, <1>6 DEF Account, b0, e0
<1>7. CASE ~sells /\ ~buys
  <2>1. Post(p, acct, tx) = acct
    BY <1>2, <1>7
  <2>2. 0 - 0 = 0 /\ b0 + 0 = b0 /\ e0 + 0 = e0
    BY ONLY <1>1
  <2> QED
    BY <2>1, <2>2, <1>1, <1>3, <1>7 DEF Account, b0, e0
<1> QED
  BY <1>4, <1>5, <1>6, <1>7

(* The settlement of an account posts the pool one transaction at a time.   *)
LEMMA SettledRun ==
  ASSUME TypeOK, NEW p \in DOMAIN participants, participants[p] \in Account
  PROVE  \E g \in [0..Len(pending) -> Account] :
           /\ g[0] = participants[p] /\ g[Len(pending)] = Settled(p)
           /\ \A k \in 1..Len(pending) : g[k] = Post(p, g[k - 1], pending[k])
<1> DEFINE n == Len(pending)
           start == participants[p]
           step == [a \in Account \X (1..n) |-> Post(p, a[1], pending[a[2]])]
           Solves(h) == h = [s \in SUBSET DOMAIN pending |->
                               IF s = {} THEN start
                               ELSE Post(p, h[s \ {Max(s)}], pending[Max(s)])]
<1>1. /\ n \in Nat /\ DOMAIN pending = 1..n
      /\ \A k \in 1..n : pending[k].terms \in Order
  <2>1. pending \in Seq(Tx("Pending"))
    BY DEF TypeOK
  <2>2. \A x \in Tx("Pending") : x.terms \in Order
    BY DEF Tx
  <2> QED
    BY <2>1, <2>2
<1> HIDE DEF n, start
<1>2. step \in Steps(Account, n)
  <2>1. \A a \in Account, k \in 1..n : Post(p, a, pending[k]) \in Account
    BY <1>1, PostEffect
  <2> QED
    BY <2>1 DEF Steps
<1>3. \A a \in Account, k \in 1..n : step[<<a, k>>] = Post(p, a, pending[k])
  OBVIOUS
<1>4. start \in Account
  BY DEF start
<1> HIDE DEF step
<1>5. \E h : Solves(h)
  <2>1. PICK h : FoldTable(h, Account, start, n, step)
    BY <1>1, <1>2, <1>4, FoldExists
  <2>2. ASSUME NEW s \in SUBSET (1..n), s # {}
        PROVE  h[s] = Post(p, h[s \ {Max(s)}], pending[Max(s)])
    <3>1. Max(s) \in 1..n
      BY <1>1, <2>2, MaxIsMember
    <3>2. h[s \ {Max(s)}] \in Account /\ h[s] = step[<<h[s \ {Max(s)}], Max(s)>>]
      BY <2>1, <2>2 DEF FoldTable
    <3> QED
      BY <1>3, <3>1, <3>2
  <2>3. Solves(h)
    BY <1>1, <2>1, <2>2 DEF FoldTable
  <2> QED
    BY <2>3
<1>6. PICK h : Solves(h) /\ Settled(p) = h[1..n]
  <2> DEFINE h == CHOOSE h : Solves(h)
  <2>1. Solves(h)
    <3> HIDE DEF Solves
    <3> QED
      BY <1>5, Zenon
  <2>2. Settled(p) = h[DOMAIN pending]
    BY DEF Settled, FoldLeft, MapThenFoldSet, start
  <2> HIDE DEF h, Solves
  <2> QED
    BY <1>1, <2>1, <2>2
<1>7. FoldsLike(h, Account, start, n, step)
  <2>1. h[{}] = start
    BY <1>6
  <2>2. ASSUME NEW s \in SUBSET (1..n), s # {}, h[s \ {Max(s)}] \in Account
        PROVE  h[s] = step[<<h[s \ {Max(s)}], Max(s)>>]
    <3>1. Max(s) \in 1..n
      BY <1>1, <2>2, MaxIsMember
    <3>2. h[s] = Post(p, h[s \ {Max(s)}], pending[Max(s)])
      BY <1>1, <1>6, <2>2
    <3> QED
      BY <1>3, <2>2, <3>1, <3>2
  <2> QED
    BY <2>1, <2>2 DEF FoldsLike
<1>8. PICK g : FoldStates(g, Account, start, n, step) /\ g[n] = h[1..n]
  BY <1>1, <1>2, <1>4, <1>7, FoldRun
<1>9. g \in [0..n -> Account] /\ g[0] = start
  BY <1>8 DEF FoldStates
<1>10. ASSUME NEW k \in 1..n PROVE g[k] = Post(p, g[k - 1], pending[k])
  <2>1. g[k] = step[<<g[k - 1], k>>] /\ g[k - 1] \in Account
    BY <1>1, <1>8 DEF FoldStates
  <2> QED
    BY <1>3, <2>1
<1> QED
  BY <1>6, <1>8, <1>9, <1>10 DEF n, start

(* The summands are integers, those of the first transactions are kept when *)
(* others follow.                                                           *)
LEMMA Summands ==
  ASSUME NEW p, NEW txs \in Seq(Tx("Settled")), NEW more \in Seq(Tx("Settled"))
  PROVE  /\ MoneyIn(p, txs) \in [1..Len(txs) -> Int]
         /\ EnergyIn(p, txs) \in [1..Len(txs) -> Int]
         /\ \A i \in 1..Len(txs) : /\ MoneyIn(p, txs \o more)[i] = MoneyIn(p, txs)[i]
                                   /\ EnergyIn(p, txs \o more)[i] = EnergyIn(p, txs)[i]
         /\ \A k \in 1..Len(more) :
              /\ MoneyIn(p, txs \o more)[Len(txs) + k] = Earned(p, more[k].terms)
              /\ EnergyIn(p, txs \o more)[Len(txs) + k] = Received(p, more[k].terms)
<1> DEFINE all == txs \o more
<1>1. \A x \in Tx("Settled") : x.terms \in Order
  BY DEF Tx
<1>2. \A o \in Order : Earned(p, o) \in Int /\ Received(p, o) \in Int
  BY CostType DEF Earned, Received
<1>3. /\ Len(txs) \in Nat /\ Len(more) \in Nat /\ DOMAIN txs = 1..Len(txs)
      /\ \A i \in 1..Len(txs) : txs[i] \in Tx("Settled")
  OBVIOUS
<1>4. /\ DOMAIN all = 1..(Len(txs) + Len(more))
      /\ \A i \in 1..Len(txs) : all[i] = txs[i]
      /\ \A k \in 1..Len(more) : all[Len(txs) + k] = more[k]
  OBVIOUS
<1> HIDE DEF all
<1>5. MoneyIn(p, txs) \in [1..Len(txs) -> Int] /\ EnergyIn(p, txs) \in [1..Len(txs) -> Int]
  BY <1>1, <1>2, <1>3 DEF MoneyIn, EnergyIn
<1>6. ASSUME NEW i \in 1..Len(txs)
      PROVE  MoneyIn(p, all)[i] = MoneyIn(p, txs)[i] /\ EnergyIn(p, all)[i] = EnergyIn(p, txs)[i]
  <2>1. i \in DOMAIN all /\ i \in DOMAIN txs /\ all[i] = txs[i]
    BY <1>3, <1>4
  <2> QED
    BY <2>1 DEF MoneyIn, EnergyIn
<1>7. ASSUME NEW k \in 1..Len(more)
      PROVE  /\ MoneyIn(p, all)[Len(txs) + k] = Earned(p, more[k].terms)
             /\ EnergyIn(p, all)[Len(txs) + k] = Received(p, more[k].terms)
  <2>1. Len(txs) + k \in DOMAIN all /\ all[Len(txs) + k] = more[k]
    BY <1>3, <1>4
  <2> QED
    BY <2>1 DEF MoneyIn, EnergyIn
<1> QED
  BY <1>5, <1>6, <1>7 DEF all

(* w agrees with v on the first L positions.                                *)
Agrees(w, v, L) == \A i \in 1..L : w[i] = v[i]

(* A quantity that starts as a history's sum and grows by the values that   *)
(* follow ends as the longer history's sum.                                 *)
LEMMA SumFollows ==
  ASSUME NEW n, NEW L, NEW from, NEW v, NEW w, NEW b, NEW base, base \in Int,
         Accrues(b, n, w, L, from), Agrees(w, v, L), SumsTo(b[0], base, v, from, L)
  PROVE  SumsTo(b[n], base, w, from, L + n)
<1> DEFINE lo == (from + 1)..L
           hi == (from + 1)..(L + n)
           X == 1..(L + n)
<1>1. /\ n \in Nat /\ L \in Nat /\ from \in 0..L /\ w \in [X -> Int]
      /\ b \in [0..n -> Int]
  BY DEF Accrues
<1>2. lo \subseteq 1..L /\ lo \in SUBSET X /\ hi \in SUBSET X
  BY <1>1
<1>3. IsFiniteSet(lo) /\ IsFiniteSet(hi)
  <2>1. from + 1 \in Int /\ L \in Int /\ L + n \in Int
    BY <1>1
  <2> QED
    BY <2>1, FS_Interval
<1>4. b[n] \in Int /\ b[0] \in Int
  BY <1>1
<1>5. \A i \in lo : v[i] = w[i]
  BY <1>2 DEF Agrees
<1>6. b[n] + SumOver(w, lo) = b[0] + SumOver(w, hi)
  BY SumAlong
<1>7. b[0] = base + SumOver(v, lo)
  BY DEF SumsTo
<1>8. b[n] = base + SumOver(w, hi)
  <2> HIDE DEF lo, hi, X
  <2>1. SumOver(v, lo) = SumOver(w, lo)
    BY <1>3, <1>5, SumCongruent
  <2>2. SumOver(w, lo) \in Int /\ SumOver(w, hi) \in Int
    BY <1>1, <1>2, <1>3, SumTakeOut
  <2> DEFINE bn == b[n]
             bz == b[0]
             sl == SumOver(w, lo)
             sh == SumOver(w, hi)
  <2>3. /\ bn \in Int /\ bz \in Int /\ sl \in Int /\ sh \in Int
        /\ bn + sl = bz + sh /\ bz = base + sl
    BY <1>4, <1>6, <1>7, <2>1, <2>2
  <2> HIDE DEF bn, bz, sl, sh
  <2>4. bn = base + sh
    BY ONLY <2>3, base \in Int
  <2> QED
    BY <2>4 DEF bn, sh
<1> QED
  BY <1>8 DEF SumsTo

(* g lists the accounts of p while the transactions are posted.             *)
Posted(g, p, txs) ==
  /\ g \in [0..Len(txs) -> Account]
  /\ \A k \in 1..Len(txs) : g[k] = Post(p, g[k - 1], txs[k])

LEMMA ReplayExtends ==
  ASSUME NEW p, NEW txs \in Seq(Tx("Settled")), NEW more \in Seq(Tx("Settled")),
         NEW acct, NEW open, Replays(acct, open, p, txs),
         NEW g, g[0] = acct, Posted(g, p, more)
  PROVE  Replays(g[Len(more)], open, p, txs \o more)
<1> DEFINE n == Len(more)
           L == Len(txs)
           all == txs \o more
           money == [k \in 0..n |-> g[k].balance]
           energy == [k \in 0..n |-> g[k].energy]
           mv == MoneyIn(p, txs)
           ev == EnergyIn(p, txs)
           mw == MoneyIn(p, all)
           ew == EnergyIn(p, all)
           from == open.from
           mbase == open.account.balance
           ebase == open.account.energy
<1>1. n \in Nat /\ L \in Nat /\ all \in Seq(Tx("Settled")) /\ Len(all) = L + n
  OBVIOUS
<1>2. /\ open.account \in Account /\ from \in 0..L /\ mbase \in Int /\ ebase \in Int
      /\ SumsTo(acct.balance, mbase, mv, from, L)
      /\ SumsTo(acct.energy, ebase, ev, from, L)
  BY DEF Replays, Account
<1>3. /\ mv \in [1..L -> Int] /\ ev \in [1..L -> Int]
      /\ \A i \in 1..L : mw[i] = mv[i] /\ ew[i] = ev[i]
      /\ \A k \in 1..n : /\ mw[L + k] = Earned(p, more[k].terms)
                         /\ ew[L + k] = Received(p, more[k].terms)
  BY Summands
<1> HIDE DEF all
<1>4. mw \in [1..(L + n) -> Int] /\ ew \in [1..(L + n) -> Int]
  <2>1. mw \in [1..Len(all) -> Int] /\ ew \in [1..Len(all) -> Int]
    BY <1>1, Summands
  <2> HIDE DEF mw, ew
  <2> QED
    BY <2>1, <1>1
<1>5. \A k \in 0..n : g[k] \in Account
  BY DEF Posted
<1>6. money \in [0..n -> Int] /\ energy \in [0..n -> Int]
  BY <1>5 DEF Account
<1>7. ASSUME NEW k \in 1..n
      PROVE  /\ money[k] = money[k - 1] + mw[L + k]
             /\ energy[k] = energy[k - 1] + ew[L + k]
  <2>1. k \in 0..n /\ k - 1 \in 0..n
    BY <1>1
  <2>2. g[k - 1] \in Account /\ g[k] = Post(p, g[k - 1], more[k])
    BY <1>5, <2>1 DEF Posted
  <2>3. more[k].terms \in Order
    <3>1. more[k] \in Tx("Settled")
      OBVIOUS
    <3> QED
      BY <3>1 DEF Tx
  <2>4. /\ g[k].balance = g[k - 1].balance + Earned(p, more[k].terms)
        /\ g[k].energy = g[k - 1].energy + Received(p, more[k].terms)
    BY <2>2, <2>3, PostEffect
  <2> HIDE DEF mw, ew, L, n
  <2> QED
    BY <1>3, <2>1, <2>4
<1>8. /\ Grows(money, n, mw, L) /\ Grows(energy, n, ew, L)
      /\ Agrees(mw, mv, L) /\ Agrees(ew, ev, L)
  BY <1>3, <1>7 DEF Grows, Agrees
<1>9. money[0] = acct.balance /\ energy[0] = acct.energy
  BY <1>1
<1>10. g[n] \in Account /\ g[n].balance = money[n] /\ g[n].energy = energy[n]
  BY <1>1, <1>5
<1>15. Accrues(money, n, mw, L, from) /\ Accrues(energy, n, ew, L, from)
  BY <1>1, <1>2, <1>4, <1>6, <1>8 DEF Accrues
<1>16. SumsTo(money[0], mbase, mv, from, L) /\ SumsTo(energy[0], ebase, ev, from, L)
  BY <1>2, <1>9
<1> HIDE DEF n, L, money, energy, mv, ev, mw, ew, from, mbase, ebase
<1>11. SumsTo(money[n], mbase, mw, from, L + n)
  BY <1>2, <1>8, <1>15, <1>16, SumFollows
<1>12. SumsTo(energy[n], ebase, ew, from, L + n)
  BY <1>2, <1>8, <1>15, <1>16, SumFollows
<1>13. from \in 0..(L + n)
  BY <1>1, <1>2
<1>14. Replays(g[n], open, p, all)
  BY <1>1, <1>2, <1>10, <1>11, <1>12, <1>13 DEF Replays, mw, ew, from, mbase, ebase
<1> QED
  BY <1>14 DEF n, all

LEMMA RegisterHistory ==
  ASSUME LedgerInv, LogInv, HistoryInv, NEW q \in Ids, NEW account \in Openings,
         RegisterParticipant(q, account)
  PROVE  HistoryInv'
<1>1. /\ participants' = Put(participants, q, account)
      /\ opened' = Put(opened, q, [account |-> account, from |-> nextTxId - Len(pending)])
      /\ chain' = chain
  BY DEF RegisterParticipant
<1>2. Sealed' = Sealed
  BY <1>1 DEF Sealed, Blocks
<1>3. DOMAIN participants' = DOMAIN participants \cup {q} /\ DOMAIN opened' = DOMAIN participants'
  BY <1>1 DEF Put, HistoryInv
<1>4. account \in Account
  BY LedgerAssumption
<1>5. Len(Sealed) = nextTxId - Len(pending) /\ Len(Sealed) \in Nat
  BY DEF LogInv
<1>6. Replays(participants'[q], opened'[q], q, Sealed)
  <2> DEFINE L == Len(Sealed)
             open == [account |-> account, from |-> L]
  <2>1. participants'[q] = account /\ opened'[q] = open
    BY <1>1, <1>5 DEF Put
  <2>2. (L + 1)..L = {}
    BY <1>5
  <2>3. account.balance = account.balance + 0 /\ account.energy = account.energy + 0
    BY <1>4 DEF Account
  <2>4. /\ open.account = account /\ open.from = L /\ L \in 0..L
    BY <1>5
  <2> HIDE DEF L, open
  <2>5. /\ SumsTo(account.balance, account.balance, MoneyIn(q, Sealed), L, L)
        /\ SumsTo(account.energy, account.energy, EnergyIn(q, Sealed), L, L)
    BY <2>2, <2>3, SumEmpty DEF SumsTo
  <2> QED
    BY <2>1, <2>4, <2>5, <1>4 DEF Replays, L
<1>7. ASSUME NEW p \in DOMAIN participants, p # q
      PROVE  Replays(participants'[p], opened'[p], p, Sealed)
  <2>1. participants'[p] = participants[p] /\ opened'[p] = opened[p]
    BY <1>1, <1>7 DEF Put, HistoryInv
  <2> QED
    BY <2>1 DEF HistoryInv
<1>8. \A p \in DOMAIN participants' : Replays(participants'[p], opened'[p], p, Sealed')
  BY <1>2, <1>3, <1>6, <1>7
<1> QED
  BY <1>3, <1>8 DEF HistoryInv

LEMMA SettleHistory ==
  ASSUME LedgerInv, LogInv, HistoryInv, NEW price \in Prices, SettleBlock(price)
  PROVE  HistoryInv'
<1>1. participants' = [p \in DOMAIN participants |-> Settled(p)] /\ opened' = opened
  BY DEF SettleBlock
<1>2. /\ SettledPool \in Seq(Tx("Settled")) /\ Len(SettledPool) = Len(pending)
      /\ \A i \in DOMAIN pending :
           SettledPool[i] = [pending[i] EXCEPT !.status = "Settled"]
      /\ DOMAIN pending = 1..Len(pending) /\ Len(pending) \in Nat
  BY SettledPoolFacts DEF LedgerInv
<1>3. Sealed' = Sealed \o SettledPool /\ Sealed \in Seq(Tx("Settled"))
  BY SealedGrows
<1>4. ASSUME NEW i \in 1..Len(pending)
      PROVE  SettledPool[i].terms = pending[i].terms
  <2>1. pending[i] \in Tx("Pending")
    BY DEF LedgerInv, TypeOK
  <2> QED
    BY <2>1, <1>2 DEF Tx
<1>5. ASSUME NEW p \in DOMAIN participants
      PROVE  Replays(Settled(p), opened[p], p, Sealed \o SettledPool)
  <2>1. Replays(participants[p], opened[p], p, Sealed)
    BY DEF HistoryInv
  <2>2. participants[p] \in Account
    BY <2>1 DEF Replays
  <2>3. PICK g \in [0..Len(pending) -> Account] :
          /\ g[0] = participants[p] /\ g[Len(pending)] = Settled(p)
          /\ \A k \in 1..Len(pending) : g[k] = Post(p, g[k - 1], pending[k])
    BY <2>2, SettledRun DEF LedgerInv
  <2>4. \A k \in 1..Len(pending) : Post(p, g[k - 1], pending[k]) = Post(p, g[k - 1], SettledPool[k])
    BY <1>4 DEF Post
  <2>5. Posted(g, p, SettledPool)
    BY <1>2, <2>3, <2>4 DEF Posted
  <2>6. Replays(g[Len(SettledPool)], opened[p], p, Sealed \o SettledPool)
    BY <1>2, <1>3, <2>1, <2>3, <2>5, ReplayExtends
  <2> QED
    BY <2>3, <2>6, <1>2
<1>6. DOMAIN opened' = DOMAIN participants' /\ DOMAIN participants' = DOMAIN participants
  BY <1>1 DEF HistoryInv
<1>7. ASSUME NEW p \in DOMAIN participants'
      PROVE  Replays(participants'[p], opened'[p], p, Sealed')
  <2>1. p \in DOMAIN participants /\ participants'[p] = Settled(p) /\ opened'[p] = opened[p]
    BY <1>1
  <2> QED
    BY <2>1, <1>3, <1>5
<1> QED
  BY <1>6, <1>7 DEF HistoryInv

LEMMA NextHistory ==
  ASSUME LedgerInv, LogInv, HistoryInv, [Next]_vars
  PROVE  HistoryInv'
<1>1. ASSUME NEW p \in Ids, NEW account \in Openings, RegisterParticipant(p, account)
      PROVE  HistoryInv'
  BY <1>1, RegisterHistory
<1>2. ASSUME NEW o \in Orders, SubmitTransaction(o)
      PROVE  HistoryInv'
  <2>1. participants' = participants /\ opened' = opened /\ chain' = chain
    BY <1>2 DEF SubmitTransaction
  <2> QED
    BY <2>1 DEF HistoryInv, Sealed, Blocks
<1>3. ASSUME NEW price \in Prices, SettleBlock(price)
      PROVE  HistoryInv'
  BY <1>3, SettleHistory
<1>4. CASE UNCHANGED vars
  BY <1>4 DEF vars, HistoryInv, Sealed, Blocks
<1> QED
  BY <1>1, <1>2, <1>3, <1>4 DEF Next

(* The settled transactions of p's history since its registration are those *)
(* positions of the sealed log where p is a party; elsewhere it earns 0.    *)
LEMMA SinceIsSealed ==
  ASSUME LedgerInv, LogInv, NEW p, NEW from \in 0..Len(Sealed)
  PROVE  {i \in ParticipantHistory(p) :
            /\ AllTransactions[i].status = "Settled"
            /\ AllTransactions[i].id >= from}
         = {i \in (from + 1)..Len(Sealed) :
              p \in {Sealed[i].terms.seller, Sealed[i].terms.buyer}}
<1> DEFINE L == Len(Sealed)
           all == AllTransactions
           party(t) == p \in {t.terms.seller, t.terms.buyer}
           A == {i \in DOMAIN all : party(all[i]) /\ all[i].status = "Settled" /\ all[i].id >= from}
           B == {i \in (from + 1)..L : party(Sealed[i])}
<1>1. /\ Len(all) = nextTxId /\ DOMAIN all = 1..nextTxId /\ NumberedFrom(all, 0)
      /\ \A i \in 1..L : all[i] = Sealed[i]
      /\ \A i \in 1..nextTxId :
           i \notin 1..L => i - L \in 1..Len(pending) /\ all[i] = pending[i - L]
  <2>1. AllTransactions \in Seq(AnyTx) /\ Len(all) = nextTxId
    BY AllFacts
  <2>2. DOMAIN all = 1..nextTxId
    BY <2>1
  <2> QED
    BY <2>2, AllFacts
<1>2. L = nextTxId - Len(pending) /\ L \in Nat /\ nextTxId \in Nat /\ Len(pending) \in Nat
  BY DEF LogInv, LedgerInv, TypeOK
<1>3. /\ \A i \in 1..L : Sealed[i].status = "Settled"
      /\ \A i \in 1..Len(pending) : pending[i].status = "Pending"
  <2>1. \A i \in 1..L : Sealed[i] \in Tx("Settled")
    BY DEF LogInv
  <2>2. \A i \in 1..Len(pending) : pending[i] \in Tx("Pending")
    BY DEF LedgerInv, TypeOK
  <2> QED
    BY <2>1, <2>2 DEF Tx
<1>4. \A i \in 1..nextTxId : all[i].id = i - 1
  BY <1>1, <1>2 DEF NumberedFrom
<1> HIDE DEF L, all
<1>5. ASSUME NEW i \in A PROVE i \in B
  <2>1. i \in 1..nextTxId /\ party(all[i]) /\ all[i].status = "Settled" /\ all[i].id >= from
    BY <1>1
  <2>2. i \in 1..L
    <3>1. i \notin 1..L => all[i].status = "Pending"
      BY <2>1, <1>1, <1>3
    <3> QED
      BY <2>1, <3>1
  <2>3. i - 1 >= from
    BY <2>1, <1>4
  <2>4. i \in (from + 1)..L
    BY <2>2, <2>3, <1>2
  <2> QED
    BY <2>1, <2>2, <2>4, <1>1
<1>6. ASSUME NEW i \in B PROVE i \in A
  <2>1. i \in 1..L /\ i \in 1..nextTxId /\ i - 1 >= from
    BY <1>2 DEF L
  <2>2. all[i] = Sealed[i] /\ all[i].id = i - 1 /\ Sealed[i].status = "Settled"
    BY <2>1, <1>1, <1>3, <1>4
  <2> QED
    BY <2>1, <2>2, <1>1
<1>7. A = B
  BY <1>5, <1>6
<1>8. {i \in ParticipantHistory(p) :
         /\ AllTransactions[i].status = "Settled"
         /\ AllTransactions[i].id >= from} = A
  BY DEF ParticipantHistory, all
<1> QED
  BY <1>7, <1>8 DEF L

LEMMA HistoryGivesBalances ==
  ASSUME LedgerInv, LogInv, HistoryInv
  PROVE  BalancesReplayHistory
<1> SUFFICES
      ASSUME NEW p \in DOMAIN participants
      PROVE  /\ participants[p].balance = opened[p].account.balance + MoneySince(p)
             /\ participants[p].energy = opened[p].account.energy + EnergySince(p)
  BY DEF BalancesReplayHistory
<1> DEFINE from == opened[p].from
           L == Len(Sealed)
           range == (from + 1)..L
           since == {i \in ParticipantHistory(p) :
                       /\ AllTransactions[i].status = "Settled"
                       /\ AllTransactions[i].id >= opened[p].from}
           money == [i \in since |-> Earned(p, AllTransactions[i].terms)]
           energy == [i \in since |-> Received(p, AllTransactions[i].terms)]
           mv == MoneyIn(p, Sealed)
           ev == EnergyIn(p, Sealed)
           D == 1..L
<1>1. /\ from \in 0..L
      /\ participants[p].balance = opened[p].account.balance + SumOver(mv, range)
      /\ participants[p].energy = opened[p].account.energy + SumOver(ev, range)
  BY DEF HistoryInv, Replays, SumsTo
<1>2. /\ Sealed \in Seq(Tx("Settled")) /\ L \in Nat /\ DOMAIN Sealed = D
      /\ \A i \in D : AllTransactions[i] = Sealed[i]
  BY AllFacts DEF LogInv
<1>3. since = {i \in range : p \in {Sealed[i].terms.seller, Sealed[i].terms.buyer}}
  BY <1>1, SinceIsSealed
<1>4. mv \in [D -> Int] /\ ev \in [D -> Int]
  BY <1>2, Summands
<1>5. range \in SUBSET D /\ IsFiniteSet(range)
  <2>1. from + 1 \in Int /\ L \in Int /\ from + 1 >= 1
    BY <1>1, <1>2
  <2>2. IsFiniteSet(range)
    BY <2>1, FS_Interval
  <2>3. range \in SUBSET D
    BY <2>1
  <2> QED
    BY <2>2, <2>3
<1>6. ASSUME NEW i \in D PROVE /\ mv[i] = Earned(p, Sealed[i].terms)
                               /\ ev[i] = Received(p, Sealed[i].terms)
  BY <1>2 DEF MoneyIn, EnergyIn
<1> HIDE DEF from, L, range, since, mv, ev, D
<1>7. since \in SUBSET range /\ IsFiniteSet(since)
  <2>1. since \in SUBSET range
    BY <1>3
  <2> QED
    BY <2>1, <1>5, FS_Subset
<1>8. ASSUME NEW i \in range \ since PROVE mv[i] = 0 /\ ev[i] = 0
  <2>1. Sealed[i].terms.seller # p /\ Sealed[i].terms.buyer # p
    BY <1>3
  <2>2. Earned(p, Sealed[i].terms) = 0 /\ Received(p, Sealed[i].terms) = 0
    BY <2>1 DEF Earned, Received
  <2> QED
    BY <2>2, <1>5, <1>6
<1>9. SumOver(mv, range) = SumOver(mv, since) /\ SumOver(ev, range) = SumOver(ev, since)
  BY <1>4, <1>5, <1>7, <1>8, SumSupport
<1>10. \A i \in since : mv[i] = money[i] /\ ev[i] = energy[i]
  BY <1>2, <1>5, <1>6, <1>7
<1> HIDE DEF money, energy
<1>11. SumOver(mv, since) = SumOver(money, since) /\ SumOver(ev, since) = SumOver(energy, since)
  BY <1>7, <1>10, SumCongruent
<1>12. /\ participants[p].balance = opened[p].account.balance + SumOver(money, since)
       /\ participants[p].energy = opened[p].account.energy + SumOver(energy, since)
  BY <1>1, <1>9, <1>11
<1> QED
  BY <1>12 DEF SumOver, since, money, energy, SettledSince, MoneySince, EnergySince

(* An account is what its participant was registered with plus what the     *)
(* settled part of its history since then earned it, with the energy of all *)
(* participants counted in one direction.                                   *)
THEOREM AccountsReplay == Spec => []BalancesReplayHistory
<1> DEFINE All == LedgerInv /\ LogInv /\ HistoryInv
<1>1. Init => All
  <2> SUFFICES ASSUME Init PROVE HistoryInv
    BY InitLedger, InitLog
  <2>1. DOMAIN participants = {} /\ DOMAIN opened = {}
    BY DEF Init
  <2> QED
    BY <2>1 DEF HistoryInv
<1>2. All /\ [Next]_vars => All'
  BY NextLedger, NextLog, NextHistory
<1>3. All => BalancesReplayHistory
  BY HistoryGivesBalances
<1> HIDE DEF All
<1> QED
  BY <1>1, <1>2, <1>3, PTL DEF Spec

==============================================================================
