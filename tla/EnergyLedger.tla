---------------------------- MODULE EnergyLedger ----------------------------
(***************************************************************************)
(* The hash-chained energy ledger of optimize/market/ledger.rs: accounts,  *)
(* the pool of pending transactions, and the chain of settled blocks.  A   *)
(* call that returns an error changes nothing, so only the calls that      *)
(* succeed are actions.  The FNV-1a hash is the constant Hash; a           *)
(* transaction's delivery hour, time stamp and energy type are left out    *)
(* (they are carried along unchanged), and so is a block's time stamp,     *)
(* which is a function of its id.                                          *)
(***************************************************************************)
EXTENDS Integers, Sequences, SequencesExt

CONSTANTS
  Ids,                \* participant ids
  Openings,           \* accounts a participant can be registered with
  Orders,             \* the transactions a caller can submit
  Prices,             \* settlement prices
  Hash(_, _, _, _, _),\* compute_block_hash, of a block's fields in order
  MaxTx               \* bound on the number of accepted transactions

Account == [balance : Int, energy : Int]
Order == [seller : Ids, buyer : Ids, mwh : Int, price : Int]

ASSUME LedgerAssumption ==
  /\ Openings \subseteq Account
  /\ Orders \subseteq Order
  /\ MaxTx \in Nat

VARIABLES
  participants,  \* the registered ids, each with its account
  pending,       \* pending_transactions
  chain,         \* chain; block_id is the position minus one
  nextTxId,      \* next_tx_id
  opened         \* history: each account as registered, and next unsettled id then

vars == <<participants, pending, chain, nextTxId, opened>>

Init ==
  /\ participants = <<>>
  /\ pending = <<>>
  /\ chain = <<>>
  /\ nextTxId = 0
  /\ opened = <<>>

Put(f, key, value) ==
  [x \in DOMAIN f \cup {key} |-> IF x = key THEN value ELSE f[x]]

(* Replaces the whole record of a participant that is registered already.   *)
RegisterParticipant(p, account) ==
  /\ participants' = Put(participants, p, account)
  /\ opened' = Put(opened, p, [account |-> account, from |-> nextTxId - Len(pending)])
  /\ UNCHANGED <<pending, chain, nextTxId>>

------------------------------------------------------------------------------
(* submit_transaction *)

(* Mutated form: the amounts are not checked. *)
ValidAnyAmount(o) == {o.seller, o.buyer} \subseteq DOMAIN participants

(* Mutated form: only the seller has to be registered. *)
ValidForSeller(o) == o.mwh > 0 /\ o.price >= 0 /\ o.seller \in DOMAIN participants

Valid(o) ==
  /\ o.mwh > 0 /\ o.price >= 0
  /\ {o.seller, o.buyer} \subseteq DOMAIN participants

(* Mutated form: the pool numbers its transactions from 0. *)
AdmitFromZero(o) ==
  /\ pending' = Append(pending, [id |-> Len(pending), terms |-> o, status |-> "Pending"])
  /\ nextTxId' = nextTxId + 1

Admit(o) ==
  /\ pending' = Append(pending, [id |-> nextTxId, terms |-> o, status |-> "Pending"])
  /\ nextTxId' = nextTxId + 1

SubmitTransaction(o) ==
  /\ nextTxId < MaxTx
  /\ Valid(o)
  /\ Admit(o)
  /\ UNCHANGED <<participants, chain, opened>>

------------------------------------------------------------------------------
(* settle_block *)

Cost(o) == o.mwh * o.price

(* Mutated form: a participant is either the seller or the buyer. *)
PostOneSide(p, acct, tx) ==
  IF tx.terms.seller = p
  THEN [balance |-> acct.balance + Cost(tx.terms), energy |-> acct.energy - tx.terms.mwh]
  ELSE IF tx.terms.buyer = p
  THEN [balance |-> acct.balance - Cost(tx.terms), energy |-> acct.energy + tx.terms.mwh]
  ELSE acct

(* What one transaction does to the account of p: the seller's side, then   *)
(* the buyer's, which can be the same participant.                          *)
Post(p, acct, tx) ==
  LET o == tx.terms
      sold == IF o.seller = p
              THEN [balance |-> acct.balance + Cost(o), energy |-> acct.energy - o.mwh]
              ELSE acct
  IN  IF o.buyer = p
      THEN [balance |-> sold.balance - Cost(o), energy |-> sold.energy + o.mwh]
      ELSE sold

(* The account of p after the whole pool, in order. *)
Settled(p) == FoldLeft(LAMBDA acct, tx : Post(p, acct, tx), participants[p], pending)

TotalEnergy(txs) == FoldLeft(LAMBDA sum, tx : sum + tx.terms.mwh, 0, txs)

(* Hash of the last block; 0 when there is none. *)
LastHash == IF chain = <<>> THEN 0 ELSE Last(chain).hash

(* The hash does not read a transaction's status. *)
Hashed(txs) == [i \in DOMAIN txs |-> [id |-> txs[i].id, terms |-> txs[i].terms]]

(* Mutated form: a block takes one transaction of the pool, the rest is     *)
(* drained with it.                                                         *)
SettledPoolCapped == <<[pending[1] EXCEPT !.status = "Settled"]>>

SettledPool == [i \in DOMAIN pending |-> [pending[i] EXCEPT !.status = "Settled"]]

Block(txs, prev, price, total) ==
  [txs |-> txs, prev |-> prev, price |-> price, total |-> total,
   hash |-> Hash(Len(chain), Hashed(txs), prev, price, total)]

(* Mutated form: the new block links to the first block of the chain. *)
NewBlockFromFirst(price) ==
  Block(SettledPool, IF chain = <<>> THEN 0 ELSE Head(chain).hash, price,
        TotalEnergy(pending))

NewBlock(price) == Block(SettledPool, LastHash, price, TotalEnergy(pending))

(* Mutated form: the pool is not drained. *)
SettleKeepsPool(price) ==
  /\ pending # <<>>
  /\ Len(chain) < MaxTx
  /\ participants' = [p \in DOMAIN participants |-> Settled(p)]
  /\ chain' = Append(chain, NewBlock(price))
  /\ UNCHANGED <<pending, nextTxId, opened>>

SettleBlock(price) ==
  /\ pending # <<>>
  /\ participants' = [p \in DOMAIN participants |-> Settled(p)]
  /\ chain' = Append(chain, NewBlock(price))
  /\ pending' = <<>>
  /\ UNCHANGED <<nextTxId, opened>>

Next ==
  \/ \E p \in Ids, account \in Openings : RegisterParticipant(p, account)
  \/ \E o \in Orders : SubmitTransaction(o)
  \/ \E price \in Prices : SettleBlock(price)

Spec == Init /\ [][Next]_vars

------------------------------------------------------------------------------
(* Queries *)

(* validate_chain *)
ValidateChain ==
  \A k \in DOMAIN chain :
    /\ chain[k].prev = IF k = 1 THEN 0 ELSE chain[k - 1].hash
    /\ chain[k].hash = Hash(k - 1, Hashed(chain[k].txs), chain[k].prev,
                         chain[k].price, chain[k].total)

AllTransactions == FlattenSeq([k \in DOMAIN chain |-> chain[k].txs]) \o pending

(* participant_history, by position: a filter keeps the order. *)
ParticipantHistory(p) ==
  {i \in DOMAIN AllTransactions :
     p \in {AllTransactions[i].terms.seller, AllTransactions[i].terms.buyer}}

------------------------------------------------------------------------------
(* Properties *)

Tx(status) ==
  [id : Nat,
   terms : {o \in Order : o.mwh > 0 /\ o.price >= 0},
   status : {status}]

(* Types; the pool holds Pending transactions only, the chain Settled ones. *)
TypeOK ==
  /\ DOMAIN participants \subseteq Ids
  /\ pending \in Seq(Tx("Pending"))
  /\ chain \in Seq(Range(chain))
  /\ \A k \in DOMAIN chain : chain[k].txs \in Seq(Tx("Settled"))
  /\ nextTxId \in Nat

(* Every id below next_tx_id belongs to exactly one transaction, settled or *)
(* pending, in order of submission: ids run on without gap or repetition    *)
(* inside a block, from a block to the next and into the pool.              *)
FirstId(k) == chain[k].txs[1].id

IdsRunOn ==
  /\ \A k \in DOMAIN chain :
       /\ chain[k].txs # <<>>
       /\ \A i \in DOMAIN chain[k].txs : chain[k].txs[i].id = FirstId(k) + i - 1
       /\ FirstId(k) + Len(chain[k].txs) =
            IF k = Len(chain) THEN nextTxId - Len(pending) ELSE FirstId(k + 1)
  /\ \A i \in DOMAIN pending : pending[i].id = nextTxId - Len(pending) + i - 1
  /\ IF chain = <<>> THEN nextTxId = Len(pending) ELSE FirstId(1) = 0

(* Both parties of every transaction are registered when it is settled,     *)
(* however long it waits: settle_block skips a missing party silently,      *)
(* which would credit one side only.                                        *)
PartiesRegistered ==
  \A i \in DOMAIN pending :
    {pending[i].terms.seller, pending[i].terms.buyer} \subseteq DOMAIN participants

(* validate_chain accepts every chain the ledger builds, whatever the hash. *)
ChainValid == ValidateChain

(* A transaction stays where it is and as it is until its block: the blocks *)
(* of the chain never change, and settlement moves the whole pool, in its   *)
(* order, into the new block.                                               *)
TransactionsKept ==
  [][/\ \A k \in DOMAIN chain : k \in DOMAIN chain' /\ chain'[k] = chain[k]
     /\ \A i \in DOMAIN pending :
          \/ /\ chain' = chain
             /\ i \in DOMAIN pending' /\ pending'[i] = pending[i]
          \/ /\ DOMAIN chain' = DOMAIN chain \cup {Len(chain) + 1}
             /\ i \in DOMAIN chain'[Len(chain) + 1].txs
             /\ chain'[Len(chain) + 1].txs[i]
                  = [pending[i] EXCEPT !.status = "Settled"]]_vars

(* What a transaction earns a participant, in money and in energy.          *)
Earned(p, o) ==
  (IF o.seller = p THEN Cost(o) ELSE 0) - (IF o.buyer = p THEN Cost(o) ELSE 0)

Received(p, o) ==
  (IF o.buyer = p THEN o.mwh ELSE 0) - (IF o.seller = p THEN o.mwh ELSE 0)

(* The settled transactions of p since it was last registered, by position, *)
(* and what they come to.                                                   *)
SettledSince(p) ==
  {i \in ParticipantHistory(p) :
     /\ AllTransactions[i].status = "Settled"
     /\ AllTransactions[i].id >= opened[p].from}

MoneySince(p) ==
  LET money == [i \in SettledSince(p) |-> Earned(p, AllTransactions[i].terms)]
  IN  MapThenSumSet(LAMBDA i : money[i], SettledSince(p))

EnergySince(p) ==
  LET energy == [i \in SettledSince(p) |-> Received(p, AllTransactions[i].terms)]
  IN  MapThenSumSet(LAMBDA i : energy[i], SettledSince(p))

(* The account of a participant is what it was registered with, plus what   *)
(* the Settled part of its history since that registration earns, also when *)
(* it trades with itself or is registered again with transactions pending.  *)
(* Energy is counted in one direction for everybody; which one is left open *)
(* because ledger.rs:96 and ledger.rs:251 disagree on it.                   *)
BalancesReplayHistory ==
  /\ \A p \in DOMAIN participants :
       participants[p].balance = opened[p].account.balance + MoneySince(p)
  /\ \/ \A p \in DOMAIN participants :
          participants[p].energy = opened[p].account.energy + EnergySince(p)
     \/ \A p \in DOMAIN participants :
          participants[p].energy = opened[p].account.energy - EnergySince(p)

(* The ledger implements the transaction log: the log is the blocks' and    *)
(* the pool's transactions in sequence, sealed as far as the blocks reach.  *)
Log == INSTANCE TransactionLog
         WITH Terms <- Orders,
              log <- Hashed(AllTransactions),
              sealed <- nextTxId - Len(pending)

ImplementsLog == Log!Spec

==============================================================================
