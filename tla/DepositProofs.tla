--------------------------- MODULE DepositProofs ---------------------------
(***************************************************************************)
(* What the hot wallet knows of the deposits in the chain, for every       *)
(* number of deposits and blocks, and every way in which scans, polls,     *)
(* reorganisations and restarts take turns; and whose a deposit is, for    *)
(* every number of users, operators, addresses and payments.               *)
(***************************************************************************)
EXTENDS BtcScan, Addresses, FiniteSetTheorems, SequenceTheorems, TLAPS

-----------------------------------------------------------------------------
(* Numbers, sets and sequences.                                            *)
LEMMA LeastNumber == \A T \in SUBSET Nat : T # {} => \E x \in T : \A y \in T : x <= y
<1> SUFFICES ASSUME NEW T \in SUBSET Nat, T # {} PROVE \E x \in T : \A y \in T : x <= y
  OBVIOUS
<1>1. PICK x \in T : \A y \in T : ~ (<<y, x>> \in OpToRel(<, Nat))
  BY NatLessThanWellFounded, WFMin
<1>2. \A y \in T : ~ (y < x)
  BY <1>1 DEF OpToRel
<1> QED
  BY <1>2

(* SetToSeq lists a finite set.                                            *)
LEMMA SetToSeqFacts ==
    ASSUME NEW S, IsFiniteSet(S)
    PROVE  /\ SetToSeq(S) \in Seq(S)
           /\ \A x \in S : \E i \in DOMAIN SetToSeq(S) : SetToSeq(S)[i] = x
<1>1. Cardinality(S) \in Nat /\ ExistsBijection(1..Cardinality(S), S)
  BY FS_CardinalityType
<1>2. \E f \in [1..Cardinality(S) -> S] : IsInjective(f)
  BY <1>1 DEF ExistsBijection, Bijection, Injection
<1>3. SetToSeq(S) \in [1..Cardinality(S) -> S] /\ IsInjective(SetToSeq(S))
  BY <1>2 DEF SetToSeq
<1>4. PICK f : f = SetToSeq(S)
  OBVIOUS
<1>5. f \in Injection(1..Cardinality(S), S)
  BY <1>3, <1>4 DEF Injection
<1>6. Cardinality(1..Cardinality(S)) = Cardinality(S)
  BY <1>1, FS_Interval
<1>7. f \in Surjection(1..Cardinality(S), S)
  BY <1>5, <1>6, FS_Injection
<1>8. \A x \in S : \E i \in 1..Cardinality(S) : f[i] = x
  BY <1>7 DEF Surjection
<1> QED
  BY <1>1, <1>3, <1>4, <1>8

(* Fork is the height of the last block two branches share.                *)
LEMMA ForkFacts ==
    ASSUME NEW B, NEW a \in Seq(B), NEW b \in Seq(B)
    PROVE  /\ Fork(a, b) \in 0..Len(a)
           /\ Fork(a, b) <= Len(b)
           /\ \A i \in 1..Fork(a, b) : a[i] = b[i]
           /\ \A m \in 0..Len(a) : (m <= Len(b) /\ \A i \in 1..m : a[i] = b[i]) => m <= Fork(a, b)
<1> DEFINE Shared(n) == n <= Len(b) /\ \A i \in 1..n : a[i] = b[i]
           Slack == { d \in 0..Len(a) : Shared(Len(a) - d) }
<1>1. Len(a) \in Nat /\ Len(b) \in Nat
  OBVIOUS
<1>2. Shared(0) /\ Len(a) \in Slack
  BY <1>1
<1>3. PICK d \in Slack : \A e \in Slack : d <= e
  <2>1. Slack \in SUBSET Nat /\ Slack # {}
    BY <1>1, <1>2
  <2> HIDE DEF Slack
  <2> QED
    BY <2>1, LeastNumber
<1>4. Len(a) - d \in 0..Len(a) /\ Shared(Len(a) - d)
  BY <1>1, <1>3
<1>5. ASSUME NEW m \in 0..Len(a), Shared(m) PROVE m <= Len(a) - d
  <2>1. Len(a) - (Len(a) - m) = m /\ Len(a) - m \in 0..Len(a)
    BY <1>1
  <2>2. Len(a) - m \in Slack
    BY <1>5, <2>1
  <2>3. d <= Len(a) - m
    BY <1>3, <2>2
  <2>4. d \in Nat /\ m \in Nat
    BY <1>1, <1>3
  <2> QED
    BY <1>1, <2>3, <2>4
<1>6. \E n \in 0..Len(a) : Shared(n) /\ \A m \in 0..Len(a) : Shared(m) => m <= n
  BY <1>4, <1>5
<1>7. Fork(a, b) = CHOOSE n \in 0..Len(a) : Shared(n) /\ \A m \in 0..Len(a) : Shared(m) => m <= n
  BY DEF Fork
<1>8. /\ Fork(a, b) \in 0..Len(a)
      /\ Shared(Fork(a, b)) /\ \A m \in 0..Len(a) : Shared(m) => m <= Fork(a, b)
  <2> HIDE DEF Shared
  <2> QED
    BY <1>6, <1>7
<1> QED
  BY <1>8

-----------------------------------------------------------------------------
(* The state, and what is on its way to State.                             *)
Blocks == [ txs : SUBSET Txs, rivals : SUBSET Txs, number : Nat ]

Entries ==
    [ type : {"Update"}, tx : Txs, confirmations : Nat ] \union [ type : {"Cancel"}, tx : Txs ]

Typed ==
    /\ chain \in Seq(Blocks)
    /\ last_block \in Seq(Blocks)
    /\ mempool \in SUBSET Txs
    /\ mined \in Nat
    /\ events \in Seq(Entries)
    /\ updates \in Seq(Entries)
    /\ seen \in [Txs -> Nat \union {Absent}]
    /\ faults \in SUBSET FaultKinds

(* What a scan finds.                                                      *)
LEMMA DepositsFacts ==
    ASSUME NEW blocks \in Seq(Blocks), NEW from \in Nat \ {0}
    PROVE  /\ \A t : t \in Deposits(blocks, from) <=>
                        \E i \in DOMAIN blocks : i >= from /\ t \in blocks[i].txs
           /\ \A t : t \in Rivals(blocks, from) <=>
                        \E i \in DOMAIN blocks : i >= from /\ t \in blocks[i].rivals
           /\ Deposits(blocks, from) \in SUBSET Txs
           /\ Rivals(blocks, from) \in SUBSET Txs
<1>1. DOMAIN blocks = 1..Len(blocks) /\ Len(blocks) \in Nat
  OBVIOUS
<1>2. \A i \in DOMAIN blocks : blocks[i] \in Blocks
  OBVIOUS
<1>3. \A i : i \in from..Len(blocks) <=> i \in DOMAIN blocks /\ i >= from
  BY <1>1
<1>4. \A t : t \in Deposits(blocks, from) <=>
                 \E i \in DOMAIN blocks : i >= from /\ t \in blocks[i].txs
  BY <1>3 DEF Deposits
<1>5. \A t : t \in Rivals(blocks, from) <=>
                 \E i \in DOMAIN blocks : i >= from /\ t \in blocks[i].rivals
  BY <1>3 DEF Rivals
<1> QED
  BY <1>2, <1>4, <1>5 DEF Blocks

LEMMA FoundIsFinite ==
    ASSUME Typed, NEW n \in Nat
    PROVE  /\ IsFiniteSet(removed(n)) /\ removed(n) \subseteq Entries
           /\ IsFiniteSet(transactions(n)) /\ transactions(n) \subseteq Entries
<1> DEFINE Heights == 0..Len(chain)
           C == { TxCancel(t) : t \in Txs }
           U == { TxUpdate(p[1], p[2]) : p \in Txs \X Heights }
           fC == [t \in Txs |-> TxCancel(t)]
           fU == [p \in Txs \X Heights |-> TxUpdate(p[1], p[2])]
<1>1. Len(chain) \in Nat /\ IsFiniteSet(Txs) /\ IsFiniteSet(Heights)
  BY FS_Interval, BtcScanConstants DEF Typed
<1>2. IsFiniteSet(Txs \X Heights)
  BY <1>1, FS_Product
<1>3. fC \in Surjection(Txs, C) /\ fU \in Surjection(Txs \X Heights, U)
  BY DEF Surjection
<1>4. IsFiniteSet(C) /\ IsFiniteSet(U)
  BY <1>1, <1>2, <1>3, FS_Surjection
<1>5. removed(n) \subseteq C
  BY DepositsFacts DEF removed, Typed
<1>6. transactions(n) \subseteq U
  <2>1. ASSUME NEW t \in mempool PROVE TxUpdate(t, 0) \in U
    <3>1. <<t, 0>> \in Txs \X Heights
      BY <1>1, <2>1 DEF Typed
    <3> QED
      BY <3>1
  <2>2. ASSUME NEW i \in (n + 1)..Len(chain), NEW t \in chain[i].txs
        PROVE  TxUpdate(t, Len(chain) - i + 1) \in U
    <3>1. i \in DOMAIN chain /\ Len(chain) - i + 1 \in Heights
      BY <1>1, <2>2 DEF Typed
    <3>2. chain[i] \in Blocks
      BY <3>1 DEF Typed
    <3>3. <<t, Len(chain) - i + 1>> \in Txs \X Heights
      BY <3>1, <3>2, <2>2 DEF Blocks
    <3> QED
      BY <3>3
  <2> QED
    BY <2>1, <2>2 DEF transactions
<1>7. C \subseteq Entries /\ U \subseteq Entries
  BY DEF Entries, TxCancel, TxUpdate
<1> QED
  BY <1>4, <1>5, <1>6, <1>7, FS_Subset

-----------------------------------------------------------------------------
(* The inductive invariant.  A deposit is in one place: in the mempool, or *)
(* in one block of the chain.  The adapter's branch has it once as well.   *)
Spends(b) == b.txs \union b.rivals

DepositsAreOnce ==
    /\ \A i, j \in DOMAIN chain : i # j => Spends(chain[i]) \intersect Spends(chain[j]) = {}
    /\ \A i \in DOMAIN chain : Spends(chain[i]) \intersect mempool = {}
    /\ \A i, j \in DOMAIN last_block :
          i # j => last_block[i].txs \intersect last_block[j].txs = {}

(* The faults that each property leaves out.                               *)
NoDoubleSpends == "double spend" \notin faults

HotWalletStays == "hot wallet stops" \notin faults

NoReorgs == "reorg" \notin faults

OnlyReorgs == faults \subseteq {"reorg"}

RivalsAreDoubleSpends ==
    NoDoubleSpends => \A i \in DOMAIN chain : chain[i].rivals = {}

(* All that is on its way, the oldest first, and what State will have of a *)
(* deposit when it has come: the last word on it, or what State has now.   *)
Queue == updates \o events

Told(e) == IF e.type = "Update" THEN e.confirmations ELSE Absent

LastWord(k) == \A j \in DOMAIN Queue : j > k => Queue[j].tx # Queue[k].tx

WillSee(t, v) ==
    \/ \E k \in DOMAIN Queue : Queue[k].tx = t /\ Told(Queue[k]) = v /\ LastWord(k)
    \/ (\A k \in DOMAIN Queue : Queue[k].tx # t) /\ seen[t] = v

Confirmations == Nat \union {Absent}

(* State will have as confirmed what the adapter has in its branch.        *)
BranchWillBeSeen ==
    HotWalletStays =>
        \A t \in Deposits(last_block, 1), v \in Confirmations : WillSee(t, v) => v > 0

(* And nothing else, nor a deposit that no one knows of.                   *)
OnlyBranchWillBeSeen ==
    OnlyReorgs =>
        /\ Deposits(last_block, 1) \subseteq mempool \union Deposits(chain, 1)
        /\ \A t \in Txs, v \in Confirmations : WillSee(t, v) =>
              /\ v > 0 => t \in Deposits(last_block, 1)
              /\ v # Absent => t \in mempool \union Deposits(chain, 1)

(* Without a reorganisation the adapter's branch is a part of the chain,   *)
(* no report exceeds the depth of the block, and reports only grow.        *)
Reached(t, c) ==
    c <= 0 \/ \E i \in DOMAIN chain : t \in chain[i].txs /\ c <= Len(chain) - i + 1

ReportsGrow ==
    NoReorgs =>
        /\ Len(last_block) <= Len(chain)
        /\ \A i \in DOMAIN last_block : last_block[i] = chain[i]
        /\ \A k \in DOMAIN Queue :
              /\ Queue[k].type = "Update"
              /\ Reached(Queue[k].tx, Queue[k].confirmations)
              /\ seen[Queue[k].tx] <= Queue[k].confirmations
        /\ \A k, j \in DOMAIN Queue :
              j < k /\ Queue[j].tx = Queue[k].tx =>
                  Queue[j].confirmations <= Queue[k].confirmations
        /\ \A t \in Txs : Reached(t, seen[t])

ScanInv ==
    /\ Typed
    /\ DepositsAreOnce
    /\ RivalsAreDoubleSpends
    /\ BranchWillBeSeen
    /\ OnlyBranchWillBeSeen
    /\ ReportsGrow

-----------------------------------------------------------------------------
LEMMA ScanFacts ==
    ASSUME Typed
    PROVE  LET fork == Fork(chain, last_block)
           IN /\ fork \in Nat /\ fork <= Len(chain) /\ fork <= Len(last_block)
              /\ \A i \in 1..fork : chain[i] = last_block[i]
              /\ scan_from(fork) \in Seq(Entries)
<1> DEFINE fork == Fork(chain, last_block)
<1>1. fork \in 0..Len(chain) /\ fork <= Len(last_block) /\ \A i \in 1..fork : chain[i] = last_block[i]
  BY ForkFacts DEF Typed
<1>2. Len(chain) \in Nat
  BY DEF Typed
<1>3. fork \in Nat
  BY <1>1, <1>2
<1> HIDE DEF fork
<1>4. SetToSeq(removed(fork)) \in Seq(removed(fork)) /\ SetToSeq(transactions(fork)) \in Seq(transactions(fork))
  BY <1>3, FoundIsFinite, SetToSeqFacts
<1>5. removed(fork) \subseteq Entries /\ transactions(fork) \subseteq Entries
  BY <1>3, FoundIsFinite
<1>6. scan_from(fork) \in Seq(Entries)
  <2>1. PICK r, x : r = SetToSeq(removed(fork)) /\ x = SetToSeq(transactions(fork))
    OBVIOUS
  <2>2. r \in Seq(Entries) /\ x \in Seq(Entries)
    BY <1>4, <1>5, <2>1
  <2> QED
    BY <2>1, <2>2 DEF scan_from
<1> QED
  BY <1>1, <1>2, <1>3, <1>6 DEF fork

LEMMA TypedHolds == Typed /\ [ScanNext]_scanVars => Typed'
<1> SUFFICES ASSUME Typed, [ScanNext]_scanVars PROVE Typed'
  OBVIOUS
<1>1. ASSUME UNCHANGED scanVars PROVE Typed'
  BY <1>1 DEF Typed, scanVars, scanState
<1> SUFFICES ASSUME ScanNext PROVE Typed'
  BY <1>1
<1>2. UNCHANGED faults
  BY DEF ScanNext
<1>3. Deposits(chain, 1) \in SUBSET Txs /\ Rivals(chain, 1) \in SUBSET Txs
  BY DepositsFacts DEF Typed
<1>4. ASSUME NEW t \in Txs, Broadcast(t) PROVE Typed'
  BY <1>2, <1>4 DEF Typed, Broadcast
<1>5. ASSUME NEW txs \in SUBSET mempool, NEW rivals \in SUBSET mempool, Mine(txs, rivals)
      PROVE  Typed'
  <2>1. [ txs |-> txs, rivals |-> rivals, number |-> mined' ] \in Blocks /\ mined' \in Nat
    BY <1>5 DEF Typed, Mine, Blocks
  <2> QED
    BY <1>2, <1>5, <2>1 DEF Typed, Mine
<1>6. ASSUME NEW n \in 0..(Len(chain) - 1), Reorg(n) PROVE Typed'
  <2>1. Deposits(chain, n + 1) \in SUBSET Txs /\ Rivals(chain, n + 1) \in SUBSET Txs
    BY DepositsFacts DEF Typed
  <2>2. SubSeq(chain, 1, n) \in Seq(Blocks)
    BY DEF Typed
  <2> QED
    BY <1>2, <1>6, <2>1, <2>2 DEF Typed, Reorg
<1>7. CASE node_worker
  <2>1. scan_from(Fork(chain, last_block)) \in Seq(Entries)
    BY ScanFacts
  <2> QED
    BY <1>2, <1>7, <2>1 DEF Typed, node_worker
<1>8. CASE poll_events
  BY <1>2, <1>8 DEF Typed, poll_events
<1>9. CASE update_btc_tx
  <2>1. Head(updates) \in Entries /\ Tail(updates) \in Seq(Entries)
    BY <1>9 DEF Typed, update_btc_tx
  <2>2. Head(updates).tx \in Txs
        /\ (Head(updates).type = "Update" => Head(updates).confirmations \in Nat)
    BY <2>1 DEF Entries
  <2> QED
    BY <1>2, <1>9, <2>1, <2>2 DEF Typed, update_btc_tx
<1>10. CASE AdapterRestart
  <2>1. <<>> \in Seq(Entries) /\ <<>> \in Seq(Blocks)
    OBVIOUS
  <2> QED
    BY <1>2, <1>10, <2>1 DEF Typed, AdapterRestart
<1>11. CASE HotRestart
  <2>1. <<>> \in Seq(Entries)
    OBVIOUS
  <2> QED
    BY <1>2, <1>11, <2>1 DEF Typed, HotRestart
<1> QED
  BY <1>4, <1>5, <1>6, <1>7, <1>8, <1>9, <1>10, <1>11 DEF ScanNext, Node

LEMMA DepositsAreOnceHolds ==
    Typed /\ DepositsAreOnce /\ RivalsAreDoubleSpends /\ [ScanNext]_scanVars =>
        DepositsAreOnce' /\ RivalsAreDoubleSpends'
<1> DEFINE Inv == DepositsAreOnce /\ RivalsAreDoubleSpends
<1> SUFFICES ASSUME Typed, Inv, [ScanNext]_scanVars PROVE Inv'
  OBVIOUS
<1>1. NoDoubleSpends' <=> NoDoubleSpends
  BY DEF NoDoubleSpends, ScanNext, scanVars
<1>2. CASE UNCHANGED scanVars
  BY <1>2, <1>1 DEF DepositsAreOnce, RivalsAreDoubleSpends, scanVars, scanState
<1> SUFFICES ASSUME ScanNext PROVE Inv'
  BY <1>2
<1>3. CASE UNCHANGED <<chain, mempool, last_block>>
  BY <1>1, <1>3 DEF DepositsAreOnce, RivalsAreDoubleSpends
<1>4. ASSUME NEW t \in Txs, Broadcast(t) PROVE Inv'
  <2>1. \A i \in DOMAIN chain : t \notin Spends(chain[i])
    <3>1. \A i \in DOMAIN chain : i >= 1
      BY DEF Typed
    <3>2. /\ \A i \in DOMAIN chain : t \in chain[i].txs => t \in Deposits(chain, 1)
          /\ \A i \in DOMAIN chain : t \in chain[i].rivals => t \in Rivals(chain, 1)
      BY <3>1, DepositsFacts DEF Typed
    <3> QED
      BY <1>4, <3>2 DEF Broadcast, Spends
  <2>2. \A i \in DOMAIN chain : Spends(chain[i]) \intersect (mempool \union {t}) = {}
    BY <2>1 DEF DepositsAreOnce
  <2> QED
    BY <1>1, <1>4, <2>2 DEF DepositsAreOnce, RivalsAreDoubleSpends, Broadcast
<1>5. ASSUME NEW txs \in SUBSET mempool, NEW rivals \in SUBSET mempool,
             NoDoubleSpends => rivals = {}, Mine(txs, rivals)
      PROVE  Inv'
  <2> DEFINE b == [ txs |-> txs, rivals |-> rivals, number |-> mined' ]
  <2>1. /\ chain' = Append(chain, b) /\ mempool' = mempool \ (txs \union rivals)
        /\ last_block' = last_block
    BY <1>5 DEF Mine
  <2>2. b.txs = txs /\ b.rivals = rivals /\ Spends(b) = txs \union rivals
    BY DEF Spends
  <2>b. b \in Blocks
    <3>1. mined' = mined + 1
      BY <1>5 DEF Mine
    <3>2. mined \in Nat /\ mempool \in SUBSET Txs
      BY DEF Typed
    <3>3. mined' \in Nat /\ txs \in SUBSET Txs /\ rivals \in SUBSET Txs
      BY <3>1, <3>2
    <3> QED
      BY <3>3 DEF Blocks
  <2>3. Spends(b) \subseteq mempool /\ (NoDoubleSpends => b.rivals = {})
    BY <1>5, <2>2
  <2> HIDE DEF b
  <2>4. /\ Len(chain') = Len(chain) + 1
        /\ \A i \in DOMAIN chain' : (i \in DOMAIN chain /\ chain'[i] = chain[i]) \/ (i = Len(chain) + 1 /\ chain'[i] = b)
    <3>1. chain \in Seq(Blocks)
      BY DEF Typed
    <3>2. /\ Append(chain, b) \in Seq(Blocks) /\ Len(Append(chain, b)) = Len(chain) + 1
          /\ \A i \in 1..Len(chain) : Append(chain, b)[i] = chain[i]
          /\ Append(chain, b)[Len(chain) + 1] = b
      BY <2>b, <3>1, AppendProperties
    <3>3. DOMAIN chain = 1..Len(chain) /\ Len(chain) \in Nat /\ DOMAIN chain' = 1..(Len(chain) + 1)
      BY <2>1, <3>1, <3>2
    <3>4. \A i \in 1..(Len(chain) + 1) : i \in 1..Len(chain) \/ i = Len(chain) + 1
      BY <3>3
    <3> QED
      BY <2>1, <3>2, <3>3, <3>4
  <2>5. \A i, j \in DOMAIN chain' : i # j => Spends(chain'[i]) \intersect Spends(chain'[j]) = {}
    <3> SUFFICES ASSUME NEW i \in DOMAIN chain', NEW j \in DOMAIN chain', i # j
                 PROVE  Spends(chain'[i]) \intersect Spends(chain'[j]) = {}
      OBVIOUS
    <3>0. \A h \in DOMAIN chain' : h \in DOMAIN chain => chain'[h] = chain[h]
      BY <2>4 DEF Typed
    <3>1. CASE i \in DOMAIN chain /\ j \in DOMAIN chain
      BY <3>0, <3>1 DEF DepositsAreOnce
    <3>2. CASE i \in DOMAIN chain /\ j \notin DOMAIN chain
      BY <2>3, <2>4, <3>2 DEF DepositsAreOnce, Typed
    <3>3. CASE i \notin DOMAIN chain /\ j \in DOMAIN chain
      BY <2>3, <2>4, <3>3 DEF DepositsAreOnce, Typed
    <3>4. CASE i \notin DOMAIN chain /\ j \notin DOMAIN chain
      BY <2>4, <3>4
    <3> QED
      BY <3>1, <3>2, <3>3, <3>4
  <2>6. \A i \in DOMAIN chain' : Spends(chain'[i]) \intersect mempool' = {}
    BY <2>1, <2>2, <2>4 DEF DepositsAreOnce
  <2>7. NoDoubleSpends => \A i \in DOMAIN chain' : chain'[i].rivals = {}
    BY <2>3, <2>4 DEF RivalsAreDoubleSpends
  <2> QED
    BY <1>1, <2>1, <2>5, <2>6, <2>7 DEF DepositsAreOnce, RivalsAreDoubleSpends
<1>6. ASSUME NEW n \in 0..(Len(chain) - 1), Reorg(n) PROVE Inv'
  <2>1. /\ chain' = SubSeq(chain, 1, n) /\ last_block' = last_block
        /\ mempool' = mempool \union Deposits(chain, n + 1) \union Rivals(chain, n + 1)
    BY <1>6 DEF Reorg
  <2>2. \A i \in DOMAIN chain' : i \in DOMAIN chain /\ i <= n /\ chain'[i] = chain[i]
    BY <2>1 DEF Typed
  <2>3. \A x : x \in Deposits(chain, n + 1) \union Rivals(chain, n + 1) =>
                  \E j \in DOMAIN chain : j >= n + 1 /\ x \in Spends(chain[j])
    BY DepositsFacts DEF Typed, Spends
  <2>4. \A i \in DOMAIN chain' : Spends(chain'[i]) \intersect mempool' = {}
    <3> SUFFICES ASSUME NEW i \in DOMAIN chain', NEW x \in Spends(chain'[i]), x \in mempool'
                 PROVE  FALSE
      OBVIOUS
    <3>1. i \in DOMAIN chain /\ i <= n /\ x \in Spends(chain[i])
      BY <2>2
    <3>2. x \notin mempool
      BY <3>1 DEF DepositsAreOnce
    <3>3. PICK j \in DOMAIN chain : j >= n + 1 /\ x \in Spends(chain[j])
      BY <2>1, <2>3, <3>2
    <3>4. i # j
      BY <3>1, <3>3 DEF Typed
    <3> QED
      BY <3>1, <3>3, <3>4 DEF DepositsAreOnce
  <2>5. \A i, j \in DOMAIN chain' : i # j => Spends(chain'[i]) \intersect Spends(chain'[j]) = {}
    BY <2>2 DEF DepositsAreOnce
  <2>6. NoDoubleSpends => \A i \in DOMAIN chain' : chain'[i].rivals = {}
    BY <2>2 DEF RivalsAreDoubleSpends
  <2> QED
    BY <1>1, <2>1, <2>4, <2>5, <2>6 DEF DepositsAreOnce, RivalsAreDoubleSpends
<1>7. CASE node_worker
  <2>1. chain' = chain /\ mempool' = mempool /\ last_block' = chain
    BY <1>7 DEF node_worker
  <2> QED
    BY <1>1, <2>1 DEF DepositsAreOnce, RivalsAreDoubleSpends, Spends
<1>8. CASE AdapterRestart
  <2>1. chain' = chain /\ mempool' = mempool /\ last_block' = <<>>
    BY <1>8 DEF AdapterRestart
  <2>2. DOMAIN last_block' = {}
    BY <2>1
  <2> QED
    BY <1>1, <2>1, <2>2 DEF DepositsAreOnce, RivalsAreDoubleSpends
<1> QED
  BY <1>3, <1>4, <1>5, <1>6, <1>7, <1>8
     DEF ScanNext, Node, poll_events, update_btc_tx, HotRestart, NoDoubleSpends

-----------------------------------------------------------------------------
(* What a step does to the queue.                                          *)
LEMMA QueueTyped ==
    ASSUME Typed
    PROVE  /\ Queue \in Seq(Entries)
           /\ DOMAIN Queue = 1..Len(Queue) /\ Len(Queue) \in Nat
           /\ \A k \in DOMAIN Queue : Queue[k] \in Entries
<1>1. Queue \in Seq(Entries)
  BY DEF Typed, Queue
<1>2. PICK q : q = Queue
  OBVIOUS
<1> QED
  BY <1>1, <1>2

LEMMA ConcatIsBoth ==
    ASSUME NEW S, NEW p \in Seq(S), NEW q \in Seq(S)
    PROVE  /\ DOMAIN (p \o q) = 1..(Len(p) + Len(q)) /\ Len(p) \in Nat /\ Len(q) \in Nat
           /\ \A k \in DOMAIN p : k \in DOMAIN (p \o q) /\ (p \o q)[k] = p[k]
           /\ \A k \in DOMAIN q :
                 Len(p) + k \in DOMAIN (p \o q) /\ (p \o q)[Len(p) + k] = q[k]
           /\ \A k \in DOMAIN (p \o q) :
                 k \in DOMAIN p \/ \E j \in DOMAIN q : k = Len(p) + j
<1>1. /\ DOMAIN p = 1..Len(p) /\ DOMAIN q = 1..Len(q) /\ Len(p) \in Nat /\ Len(q) \in Nat
      /\ DOMAIN (p \o q) = 1..(Len(p) + Len(q))
  OBVIOUS
<1>2. /\ \A k \in 1..Len(p) : (p \o q)[k] = p[k]
      /\ \A k \in 1..Len(q) : (p \o q)[Len(p) + k] = q[k]
  OBVIOUS
<1>3. ASSUME NEW k \in 1..(Len(p) + Len(q)), k \notin 1..Len(p)
      PROVE  k - Len(p) \in 1..Len(q) /\ k = Len(p) + (k - Len(p))
  BY <1>1, <1>3
<1>4. /\ \A k \in 1..Len(p) : k \in 1..(Len(p) + Len(q))
      /\ \A k \in 1..Len(q) : Len(p) + k \in 1..(Len(p) + Len(q))
  BY <1>1
<1> QED
  BY <1>1, <1>2, <1>3, <1>4

LEMMA ScanAppends ==
    ASSUME Typed, node_worker
    PROVE  /\ Queue' = Queue \o scan_from(Fork(chain, last_block))
           /\ seen' = seen /\ last_block' = chain /\ chain' = chain /\ mempool' = mempool
<1>1. scan_from(Fork(chain, last_block)) \in Seq(Entries)
  BY ScanFacts
<1>2. PICK f : f = scan_from(Fork(chain, last_block))
  OBVIOUS
<1>3. updates' = updates /\ events' = events \o f
  BY <1>2 DEF node_worker
<1>4. updates \o (events \o f) = (updates \o events) \o f
  BY <1>1, <1>2, ConcatAssociative DEF Typed
<1> QED
  BY <1>2, <1>3, <1>4 DEF Queue, node_worker

LEMMA PollKeeps ==
    ASSUME Typed, poll_events
    PROVE  Queue' = Queue /\ UNCHANGED <<chain, mempool, last_block, seen>>
<1>1. updates' = updates \o events /\ events' = <<>>
  BY DEF poll_events
<1>2. updates \o events \in Seq(Entries)
  BY DEF Typed
<1>3. (updates \o events) \o <<>> = updates \o events
  BY <1>2, ConcatEmptySeq
<1> QED
  BY <1>1, <1>3 DEF Queue, poll_events

LEMMA UpdateTakesFirst ==
    ASSUME Typed, update_btc_tx
    PROVE  /\ Len(Queue) >= 1 /\ 1 \in DOMAIN Queue
           /\ Len(Queue') = Len(Queue) - 1 /\ DOMAIN Queue' = 1..(Len(Queue) - 1)
           /\ \A k \in DOMAIN Queue' : k + 1 \in DOMAIN Queue /\ Queue'[k] = Queue[k + 1]
           /\ seen' = [seen EXCEPT ![Queue[1].tx] = Told(Queue[1])]
           /\ UNCHANGED <<chain, mempool, last_block>>
<1>1. PICK u, e : u = updates /\ e = events
  OBVIOUS
<1>2. u \in Seq(Entries) /\ e \in Seq(Entries) /\ u # <<>>
  BY <1>1 DEF Typed, update_btc_tx
<1>3. Queue = u \o e /\ Queue' = Tail(u) \o e
  BY <1>1 DEF Queue, update_btc_tx
<1>4. /\ Len(u) \in Nat /\ Len(u) >= 1 /\ Len(e) \in Nat
      /\ Tail(u) \in Seq(Entries) /\ Len(Tail(u)) = Len(u) - 1 /\ Head(u) = u[1]
      /\ \A k \in 1..(Len(u) - 1) : Tail(u)[k] = u[k + 1]
  BY <1>2
<1>5. /\ Len(Queue) = Len(u) + Len(e) /\ Len(Queue') = Len(u) - 1 + Len(e)
      /\ DOMAIN Queue = 1..(Len(u) + Len(e)) /\ DOMAIN Queue' = 1..(Len(u) - 1 + Len(e))
  BY <1>2, <1>3, <1>4
<1>6. Queue[1] = Head(u)
  BY <1>2, <1>3, <1>4
<1>7. ASSUME NEW k \in DOMAIN Queue' PROVE k + 1 \in DOMAIN Queue /\ Queue'[k] = Queue[k + 1]
  <2>1. k \in 1..(Len(u) - 1 + Len(e)) /\ k + 1 \in DOMAIN Queue
    BY <1>4, <1>5, <1>7
  <2>2. CASE k <= Len(u) - 1
    <3>1. k \in 1..(Len(u) - 1) /\ k + 1 \in 1..Len(u)
      BY <1>4, <2>1, <2>2
    <3>2. Queue'[k] = Tail(u)[k] /\ Queue[k + 1] = u[k + 1]
      BY <1>2, <1>3, <1>4, <3>1
    <3> QED
      BY <1>4, <2>1, <3>1, <3>2
  <2>3. CASE k > Len(u) - 1
    <3>1. PICK j : j = k - (Len(u) - 1)
      OBVIOUS
    <3>2. j \in 1..Len(e) /\ k = Len(Tail(u)) + j /\ k + 1 = Len(u) + j
      BY <1>4, <2>1, <2>3, <3>1
    <3>3. Queue'[Len(Tail(u)) + j] = e[j] /\ Queue[Len(u) + j] = e[j]
      BY <1>2, <1>3, <1>4, <3>2
    <3> QED
      BY <2>1, <3>2, <3>3
  <2> QED
    BY <1>4, <2>1, <2>2, <2>3
<1>8. seen' = [seen EXCEPT ![Queue[1].tx] = Told(Queue[1])] /\ UNCHANGED <<chain, mempool, last_block>>
  BY <1>1, <1>6 DEF update_btc_tx, Told
<1> QED
  BY <1>4, <1>5, <1>7, <1>8

LEMMA RestartDrops ==
    ASSUME Typed, AdapterRestart \/ HotRestart
    PROVE  \E d \in Nat : \A k \in DOMAIN Queue' :
              k + d \in DOMAIN Queue /\ Queue'[k] = Queue[k + d]
<1>1. PICK u, e : u = updates /\ e = events
  OBVIOUS
<1>2. u \in Seq(Entries) /\ e \in Seq(Entries) /\ Queue = u \o e
  BY <1>1 DEF Typed, Queue
<1>3. Len(u) \in Nat /\ Len(e) \in Nat /\ DOMAIN u = 1..Len(u) /\ DOMAIN e = 1..Len(e)
  BY <1>2
<1>4. CASE Queue' = u
  <2>1. \A k \in DOMAIN u : k \in DOMAIN Queue /\ u[k] = Queue[k]
    BY <1>2, ConcatIsBoth
  <2>2. \A k \in DOMAIN u : k + 0 = k
    BY <1>3
  <2>3. \A k \in DOMAIN Queue' : k + 0 \in DOMAIN Queue /\ Queue'[k] = Queue[k + 0]
    BY <1>4, <2>1, <2>2
  <2> QED
    BY <2>3
<1>5. CASE Queue' = e
  <2>1. \A k \in DOMAIN e : Len(u) + k \in DOMAIN Queue /\ e[k] = Queue[Len(u) + k]
    BY <1>2, ConcatIsBoth
  <2>2. \A k \in DOMAIN e : k + Len(u) = Len(u) + k
    BY <1>3
  <2>3. \A k \in DOMAIN Queue' : k + Len(u) \in DOMAIN Queue /\ Queue'[k] = Queue[k + Len(u)]
    BY <1>5, <2>1, <2>2
  <2> QED
    BY <1>3, <2>3
<1>6. CASE Queue' = <<>>
  BY <1>6
<1>7. CASE AdapterRestart
  <2>1. Queue' = u \o <<>>
    BY <1>1, <1>7 DEF Queue, AdapterRestart
  <2> QED
    BY <1>2, <1>4, <2>1, ConcatEmptySeq
<1>8. CASE HotRestart
  <2>1. Queue' = <<>> \o e \/ Queue' = <<>> \o <<>>
    BY <1>1, <1>8 DEF Queue, HotRestart
  <2>2. <<>> \o e = e /\ <<>> \o <<>> = <<>>
    BY <1>2, ConcatEmptySeq
  <2> QED
    BY <1>5, <1>6, <2>1, <2>2
<1> QED
  BY <1>7, <1>8

-----------------------------------------------------------------------------
(* What a scan puts into the queue: the cancels first, and for a deposit   *)
(* in the mempool or in the new part of the chain one report.              *)
InNewPart(t, fork) == \E i \in DOMAIN chain : i > fork /\ t \in chain[i].txs

InLostPart(t, fork) == \E i \in DOMAIN last_block : i > fork /\ t \in last_block[i].txs

IsReport(e, fork) ==
    /\ e.type = "Update"
    /\ \/ e.confirmations = 0 /\ e.tx \in mempool
       \/ \E i \in DOMAIN chain :
             i > fork /\ e.tx \in chain[i].txs /\ e.confirmations = Len(chain) - i + 1

LEMMA RemovedFacts ==
    ASSUME Typed, NEW fork \in Nat
    PROVE  /\ \A e \in removed(fork) : e.type = "Cancel" /\ InLostPart(e.tx, fork)
           /\ \A t : InLostPart(t, fork) => TxCancel(t) \in removed(fork) /\ TxCancel(t).tx = t
<1>1. \A t : t \in Deposits(last_block, fork + 1) <=>
                \E i \in DOMAIN last_block : i >= fork + 1 /\ t \in last_block[i].txs
  BY DepositsFacts DEF Typed
<1>2. \A i \in DOMAIN last_block : i \in Nat /\ (i >= fork + 1 <=> i > fork)
  BY DEF Typed
<1>3. \A t : t \in Deposits(last_block, fork + 1) <=> InLostPart(t, fork)
  BY <1>1, <1>2 DEF InLostPart
<1>4. \A t : TxCancel(t).type = "Cancel" /\ TxCancel(t).tx = t
  BY DEF TxCancel
<1> QED
  BY <1>3, <1>4 DEF removed

LEMMA TransactionsFacts ==
    ASSUME Typed, NEW fork \in Nat
    PROVE  /\ \A e \in transactions(fork) : IsReport(e, fork)
           /\ \A t : t \in mempool \/ InNewPart(t, fork) =>
                 \E e \in transactions(fork) : e.tx = t
<1>1. \A t, c : /\ TxUpdate(t, c).type = "Update" /\ TxUpdate(t, c).tx = t
                /\ TxUpdate(t, c).confirmations = c
  BY DEF TxUpdate
<1>2. \A i : i \in (fork + 1)..Len(chain) <=> i \in DOMAIN chain /\ i > fork
  BY DEF Typed
<1>3. ASSUME NEW e \in transactions(fork) PROVE IsReport(e, fork)
  <2>1. CASE \E t \in mempool : e = TxUpdate(t, 0)
    BY <1>1, <2>1 DEF IsReport
  <2>2. CASE \E i \in (fork + 1)..Len(chain) : \E t \in chain[i].txs : e = TxUpdate(t, Len(chain) - i + 1)
    BY <1>1, <1>2, <2>2 DEF IsReport
  <2> QED
    BY <1>3, <2>1, <2>2 DEF transactions
<1>4. ASSUME NEW t \in mempool PROVE \E e \in transactions(fork) : e.tx = t
  BY <1>1 DEF transactions
<1>5. ASSUME NEW t, InNewPart(t, fork) PROVE \E e \in transactions(fork) : e.tx = t
  <2>1. PICK i \in (fork + 1)..Len(chain) : t \in chain[i].txs
    BY <1>2, <1>5 DEF InNewPart
  <2>2. TxUpdate(t, Len(chain) - i + 1) \in transactions(fork)
    BY <2>1 DEF transactions
  <2> QED
    BY <1>1, <2>2
<1> QED
  BY <1>3, <1>4, <1>5

LEMMA FoundFacts ==
    ASSUME Typed, NEW fork \in Nat
    PROVE  LET found == scan_from(fork)
           IN /\ \A k \in DOMAIN found :
                    \/ found[k].type = "Cancel" /\ InLostPart(found[k].tx, fork)
                    \/ IsReport(found[k], fork)
              /\ \A j, k \in DOMAIN found :
                    found[j].type = "Cancel" /\ found[k].type = "Update" => j < k
              /\ \A t : t \in mempool \/ InNewPart(t, fork) =>
                    \E k \in DOMAIN found : found[k].tx = t /\ found[k].type = "Update"
              /\ \A t : InLostPart(t, fork) => \E k \in DOMAIN found : found[k].tx = t
<1>1. PICK r, x : r = SetToSeq(removed(fork)) /\ x = SetToSeq(transactions(fork))
  OBVIOUS
<1>2. /\ r \in Seq(removed(fork)) /\ \A e \in removed(fork) : \E i \in DOMAIN r : r[i] = e
      /\ x \in Seq(transactions(fork)) /\ \A e \in transactions(fork) : \E i \in DOMAIN x : x[i] = e
  BY <1>1, FoundIsFinite, SetToSeqFacts
<1>3. r \in Seq(Entries) /\ x \in Seq(Entries)
  BY <1>2, FoundIsFinite
<1>4. PICK found : found = r \o x
  OBVIOUS
<1>5. scan_from(fork) = found
  BY <1>1, <1>4 DEF scan_from
<1>6. /\ \A k \in DOMAIN r : r[k].type = "Cancel" /\ InLostPart(r[k].tx, fork)
      /\ \A k \in DOMAIN x : IsReport(x[k], fork)
  BY <1>2, RemovedFacts, TransactionsFacts
<1>7. /\ \A k \in DOMAIN r : k \in DOMAIN found /\ found[k] = r[k]
      /\ \A k \in DOMAIN x : Len(r) + k \in DOMAIN found /\ found[Len(r) + k] = x[k]
      /\ \A k \in DOMAIN found : k \in DOMAIN r \/ \E j \in DOMAIN x : k = Len(r) + j
  BY <1>3, <1>4, ConcatIsBoth
<1>8. \A k \in DOMAIN found :
         \/ found[k].type = "Cancel" /\ InLostPart(found[k].tx, fork)
         \/ IsReport(found[k], fork)
  BY <1>6, <1>7
<1>9. ASSUME NEW j \in DOMAIN found, NEW k \in DOMAIN found,
             found[j].type = "Cancel", found[k].type = "Update"
      PROVE  j < k
  <2>1. j \in DOMAIN r
    BY <1>6, <1>7, <1>9 DEF IsReport
  <2>2. \E h \in DOMAIN x : k = Len(r) + h
    BY <1>6, <1>7, <1>9
  <2>3. DOMAIN r = 1..Len(r) /\ DOMAIN x = 1..Len(x) /\ Len(r) \in Nat /\ Len(x) \in Nat
    BY <1>3
  <2> QED
    BY <2>1, <2>2, <2>3
<1>10. ASSUME NEW t, t \in mempool \/ InNewPart(t, fork)
       PROVE  \E k \in DOMAIN found : found[k].tx = t /\ found[k].type = "Update"
  <2>1. PICK e \in transactions(fork) : e.tx = t
    BY <1>10, TransactionsFacts
  <2>2. PICK i \in DOMAIN x : x[i] = e
    BY <1>2, <2>1
  <2>3. e.type = "Update"
    BY <1>6, <2>2 DEF IsReport
  <2> QED
    BY <1>7, <2>1, <2>2, <2>3
<1>11. ASSUME NEW t, InLostPart(t, fork) PROVE \E k \in DOMAIN found : found[k].tx = t
  <2>1. PICK e \in removed(fork) : e.tx = t
    BY <1>11, RemovedFacts
  <2>2. PICK i \in DOMAIN r : r[i] = e
    BY <1>2, <2>1
  <2> QED
    BY <1>7, <2>1, <2>2
<1> QED
  BY <1>5, <1>8, <1>9, <1>10, <1>11

(* What State will have of a deposit after a scan: what the scan found, or *)
(* what it would have had.                                                 *)
LEMMA ScanTells ==
    ASSUME Typed, node_worker, NEW t, NEW v, WillSee(t, v)'
    PROVE  LET fork == Fork(chain, last_block)
           IN \/ v = 0 /\ t \in mempool
              \/ v > 0 /\ InNewPart(t, fork)
              \/ /\ v = Absent /\ InLostPart(t, fork)
                 /\ t \notin mempool /\ ~ InNewPart(t, fork)
              \/ /\ WillSee(t, v) /\ ~ InLostPart(t, fork)
                 /\ t \notin mempool /\ ~ InNewPart(t, fork)
<1>1. PICK fork : fork = Fork(chain, last_block)
  OBVIOUS
<1>2. fork \in Nat /\ scan_from(fork) \in Seq(Entries)
  BY <1>1, ScanFacts
<1>3. PICK found : found = scan_from(fork)
  OBVIOUS
<1>4. PICK q : q = Queue
  OBVIOUS
<1>5. found \in Seq(Entries) /\ q \in Seq(Entries) /\ Queue' = q \o found /\ seen' = seen
  BY <1>1, <1>2, <1>3, <1>4, ScanAppends, QueueTyped
<1>6. /\ DOMAIN q = 1..Len(q) /\ DOMAIN found = 1..Len(found) /\ Len(q) \in Nat /\ Len(found) \in Nat
      /\ DOMAIN Queue' = 1..(Len(q) + Len(found))
      /\ \A k \in DOMAIN q : k \in DOMAIN Queue' /\ Queue'[k] = q[k]
      /\ \A k \in DOMAIN found : Len(q) + k \in DOMAIN Queue' /\ Queue'[Len(q) + k] = found[k]
      /\ \A k \in DOMAIN Queue' : k \in DOMAIN q \/ \E j \in DOMAIN found : k = Len(q) + j
  BY <1>5, ConcatIsBoth
<1>7. /\ \A k \in DOMAIN found :
            \/ found[k].type = "Cancel" /\ InLostPart(found[k].tx, fork)
            \/ IsReport(found[k], fork)
      /\ \A j, k \in DOMAIN found :
            found[j].type = "Cancel" /\ found[k].type = "Update" => j < k
      /\ (t \in mempool \/ InNewPart(t, fork)) =>
            \E k \in DOMAIN found : found[k].tx = t /\ found[k].type = "Update"
      /\ InLostPart(t, fork) => \E k \in DOMAIN found : found[k].tx = t
  BY <1>2, <1>3, FoundFacts
<1>8. ASSUME \A k \in DOMAIN found : found[k].tx # t, WillSee(t, v)
      PROVE  /\ WillSee(t, v) /\ ~ InLostPart(t, fork)
             /\ t \notin mempool /\ ~ InNewPart(t, fork)
  BY <1>7, <1>8
<1>9. CASE \A k \in DOMAIN Queue' : Queue'[k].tx # t
  <2>1. \A k \in DOMAIN found : found[k].tx # t
    BY <1>6, <1>9
  <2>2. \A k \in DOMAIN Queue : Queue[k].tx # t
    BY <1>4, <1>6, <1>9
  <2>3. seen[t] = v
    BY <1>5, <1>9 DEF WillSee
  <2>4. WillSee(t, v)
    BY <2>2, <2>3 DEF WillSee
  <2> QED
    BY <1>1, <1>8, <2>1, <2>4
<1>10. ASSUME NEW k \in DOMAIN Queue', Queue'[k].tx = t, Told(Queue'[k]) = v,
              \A j \in DOMAIN Queue' : j > k => Queue'[j].tx # t
       PROVE  \/ v = 0 /\ t \in mempool
              \/ v > 0 /\ InNewPart(t, fork)
              \/ /\ v = Absent /\ InLostPart(t, fork)
                 /\ t \notin mempool /\ ~ InNewPart(t, fork)
              \/ /\ WillSee(t, v) /\ ~ InLostPart(t, fork)
                 /\ t \notin mempool /\ ~ InNewPart(t, fork)
  <2>1. CASE k \in DOMAIN q
    <3>1. \A j \in DOMAIN found : Len(q) + j > k /\ Len(q) + j \in DOMAIN Queue'
      BY <1>6, <2>1
    <3>2. \A j \in DOMAIN found : found[j].tx # t
      BY <1>6, <1>10, <3>1
    <3>3. q[k].tx = t /\ Told(q[k]) = v
      BY <1>6, <1>10, <2>1
    <3>4. \A j \in DOMAIN q : j > k => q[j].tx # t
      BY <1>6, <1>10
    <3>5. LastWord(k)
      BY <1>4, <3>3, <3>4 DEF LastWord
    <3>6. WillSee(t, v)
      BY <1>4, <2>1, <3>3, <3>5 DEF WillSee
    <3> QED
      BY <1>8, <3>2, <3>6
  <2>2. CASE k \notin DOMAIN q
    <3>1. PICK j \in DOMAIN found : k = Len(q) + j
      BY <1>6, <1>10, <2>2
    <3>2. found[j].tx = t /\ Told(found[j]) = v
      BY <1>6, <1>10, <3>1
    <3>3. \A h \in DOMAIN found : h > j => found[h].tx # t
      <4>1. \A h \in DOMAIN found : h > j => Len(q) + h > k
        BY <1>6, <3>1
      <4> QED
        BY <1>6, <1>10, <4>1
    <3>4. CASE found[j].type = "Cancel"
      <4>1. v = Absent /\ InLostPart(t, fork)
        BY <1>7, <3>2, <3>4 DEF Told, IsReport
      <4>2. ~ (t \in mempool \/ InNewPart(t, fork))
        BY <1>7, <3>3, <3>4
      <4> QED
        BY <4>1, <4>2
    <3>5. CASE IsReport(found[j], fork)
      <4>1. v = found[j].confirmations
        BY <3>2, <3>5 DEF Told, IsReport
      <4>2. CASE v = 0 /\ t \in mempool
        BY <4>2
      <4>3. CASE \E i \in DOMAIN chain : i > fork /\ t \in chain[i].txs /\ v = Len(chain) - i + 1
        <5>1. PICK i \in DOMAIN chain : i > fork /\ t \in chain[i].txs /\ v = Len(chain) - i + 1
          BY <4>3
        <5>2. v > 0
          BY <5>1 DEF Typed
        <5> QED
          BY <5>1, <5>2 DEF InNewPart
      <4> QED
        BY <3>2, <3>5, <4>1, <4>2, <4>3 DEF IsReport
    <3> QED
      BY <1>7, <3>4, <3>5
  <2> QED
    BY <2>1, <2>2
<1>11. \/ \E k \in DOMAIN Queue' : /\ Queue'[k].tx = t /\ Told(Queue'[k]) = v
                                   /\ \A j \in DOMAIN Queue' : j > k => Queue'[j].tx # t
       \/ \A k \in DOMAIN Queue' : Queue'[k].tx # t
  BY DEF WillSee, LastWord, Told
<1> QED
  BY <1>1, <1>9, <1>10, <1>11

(* update_worker changes nothing of what State will have.                  *)
LEMMA UpdateTells ==
    ASSUME Typed, update_btc_tx, NEW t \in Txs, NEW v, WillSee(t, v)'
    PROVE  WillSee(t, v)
<1>1. PICK q : q = Queue
  OBVIOUS
<1>2. /\ q \in Seq(Entries) /\ DOMAIN q = 1..Len(q) /\ Len(q) \in Nat /\ Len(q) >= 1 /\ 1 \in DOMAIN q
      /\ DOMAIN Queue' = 1..(Len(q) - 1)
      /\ \A k \in DOMAIN Queue' : k + 1 \in DOMAIN q /\ Queue'[k] = q[k + 1]
      /\ seen' = [seen EXCEPT ![q[1].tx] = Told(q[1])]
  BY <1>1, UpdateTakesFirst, QueueTyped
<1>3. \A j \in DOMAIN q : j > 1 => j - 1 \in DOMAIN Queue' /\ Queue'[j - 1] = q[j]
  <2>1. \A j \in DOMAIN q : j > 1 => j - 1 \in DOMAIN Queue' /\ (j - 1) + 1 = j
    BY <1>2
  <2> QED
    BY <1>2, <2>1
<1>4. ASSUME NEW k \in DOMAIN Queue', Queue'[k].tx = t, Told(Queue'[k]) = v,
             \A j \in DOMAIN Queue' : j > k => Queue'[j].tx # t
      PROVE  WillSee(t, v)
  <2>1. k + 1 \in DOMAIN q /\ q[k + 1].tx = t /\ Told(q[k + 1]) = v
    BY <1>2, <1>4
  <2>2. ASSUME NEW j \in DOMAIN q, j > k + 1 PROVE q[j].tx # t
    <3>1. j > 1 /\ j - 1 > k
      BY <1>2, <2>2
    <3> QED
      BY <1>3, <1>4, <3>1
  <2>3. LastWord(k + 1)
    BY <1>1, <2>1, <2>2 DEF LastWord
  <2> QED
    BY <1>1, <2>1, <2>3 DEF WillSee
<1>5. CASE (\A k \in DOMAIN Queue' : Queue'[k].tx # t) /\ seen'[t] = v
  <2>1. \A j \in DOMAIN q : j > 1 => q[j].tx # t
    BY <1>3, <1>5
  <2>2. CASE q[1].tx = t
    <3>1. Told(q[1]) = v
      BY <1>2, <1>5, <2>2 DEF Typed
    <3>2. LastWord(1)
      BY <1>1, <2>1, <2>2 DEF LastWord
    <3> QED
      BY <1>1, <1>2, <2>2, <3>1, <3>2 DEF WillSee
  <2>3. CASE q[1].tx # t
    <3>1. seen[t] = v
      BY <1>2, <1>5, <2>3 DEF Typed
    <3>2. \A j \in DOMAIN q : j = 1 \/ j > 1
      BY <1>2
    <3> QED
      BY <1>1, <2>1, <2>3, <3>1, <3>2 DEF WillSee
  <2> QED
    BY <2>2, <2>3
<1>6. \/ \E k \in DOMAIN Queue' : /\ Queue'[k].tx = t /\ Told(Queue'[k]) = v
                                  /\ \A j \in DOMAIN Queue' : j > k => Queue'[j].tx # t
      \/ (\A k \in DOMAIN Queue' : Queue'[k].tx # t) /\ seen'[t] = v
  BY DEF WillSee, LastWord, Told
<1> QED
  BY <1>4, <1>5, <1>6

(* Nor does a step that leaves the queue and seen alone.                   *)
LEMMA OthersTell ==
    ASSUME Queue' = Queue, seen' = seen, NEW t, NEW v, WillSee(t, v)'
    PROVE  WillSee(t, v)
BY DEF WillSee, LastWord, Told

(* The adapter's branch and the chain agree up to the fork, and what is in *)
(* them is nowhere else.                                                   *)
LEMMA SharedPart ==
    ASSUME Typed, DepositsAreOnce, NEW t
    PROVE  LET fork == Fork(chain, last_block)
           IN /\ t \in Deposits(chain, 1) => InNewPart(t, fork) \/ t \in Deposits(last_block, 1)
              /\ t \in Deposits(last_block, 1) => InLostPart(t, fork) \/ t \in Deposits(chain, 1)
              /\ InNewPart(t, fork) => t \in Deposits(chain, 1)
              /\ t \in Deposits(chain, 1) /\ InLostPart(t, fork) => InNewPart(t, fork)
              /\ t \in mempool => t \notin Deposits(chain, 1)
<1>1. PICK fork : fork = Fork(chain, last_block)
  OBVIOUS
<1>2. /\ fork \in Nat /\ fork <= Len(chain) /\ fork <= Len(last_block)
      /\ \A i \in 1..fork : chain[i] = last_block[i]
  BY <1>1, ScanFacts
<1>3. /\ DOMAIN chain = 1..Len(chain) /\ DOMAIN last_block = 1..Len(last_block)
      /\ Len(chain) \in Nat /\ Len(last_block) \in Nat
  BY DEF Typed
<1>4. /\ t \in Deposits(chain, 1) <=> \E i \in DOMAIN chain : i >= 1 /\ t \in chain[i].txs
      /\ t \in Deposits(last_block, 1) <=>
            \E i \in DOMAIN last_block : i >= 1 /\ t \in last_block[i].txs
  BY DepositsFacts DEF Typed
<1>5. /\ t \in Deposits(chain, 1) <=> \E i \in DOMAIN chain : t \in chain[i].txs
      /\ t \in Deposits(last_block, 1) <=> \E i \in DOMAIN last_block : t \in last_block[i].txs
  BY <1>3, <1>4
<1>6. \A i : i \in 1..fork => i \in DOMAIN chain /\ i \in DOMAIN last_block
  BY <1>2, <1>3
<1>7. /\ \A i \in DOMAIN chain : i > fork \/ i \in 1..fork
      /\ \A i \in DOMAIN last_block : i > fork \/ i \in 1..fork
  BY <1>2, <1>3
<1>8. t \in Deposits(chain, 1) => InNewPart(t, fork) \/ \E i \in 1..fork : t \in chain[i].txs
  BY <1>5, <1>7 DEF InNewPart
<1>9. t \in Deposits(last_block, 1) => InLostPart(t, fork) \/ \E i \in 1..fork : t \in last_block[i].txs
  BY <1>5, <1>7 DEF InLostPart
<1>10. t \in Deposits(chain, 1) => InNewPart(t, fork) \/ t \in Deposits(last_block, 1)
  BY <1>2, <1>5, <1>6, <1>8
<1>11. t \in Deposits(last_block, 1) => InLostPart(t, fork) \/ t \in Deposits(chain, 1)
  BY <1>2, <1>5, <1>6, <1>9
<1>12. ASSUME t \in Deposits(chain, 1), InLostPart(t, fork), ~ InNewPart(t, fork) PROVE FALSE
  <2>1. PICK i \in 1..fork : t \in last_block[i].txs
    BY <1>2, <1>8, <1>12
  <2>2. PICK j \in DOMAIN last_block : j > fork /\ t \in last_block[j].txs
    BY <1>12 DEF InLostPart
  <2>3. i # j /\ i \in DOMAIN last_block
    BY <1>2, <1>6, <2>1, <2>2
  <2> QED
    BY <2>1, <2>2, <2>3 DEF DepositsAreOnce
<1>13. t \in mempool => t \notin Deposits(chain, 1)
  BY <1>5 DEF DepositsAreOnce, Spends
<1> QED
  BY <1>1, <1>5, <1>10, <1>11, <1>12, <1>13 DEF InNewPart

-----------------------------------------------------------------------------
(* The steps of the node, and what they leave alone.                       *)
LEMMA NodeKeeps ==
    ASSUME Node
    PROVE  Queue' = Queue /\ UNCHANGED <<seen, last_block>>
BY DEF Node, Broadcast, Mine, Reorg, Queue

LEMMA BranchWillBeSeenHolds ==
    Typed /\ DepositsAreOnce /\ BranchWillBeSeen /\ [ScanNext]_scanVars => BranchWillBeSeen'
<1> SUFFICES ASSUME Typed, DepositsAreOnce, BranchWillBeSeen, [ScanNext]_scanVars
             PROVE  BranchWillBeSeen'
  OBVIOUS
<1>1. UNCHANGED faults
  BY DEF ScanNext, scanVars
<1> SUFFICES ASSUME HotWalletStays,
                    NEW t \in Deposits(last_block', 1), NEW v \in Confirmations, WillSee(t, v)'
             PROVE  v > 0
  BY <1>1 DEF BranchWillBeSeen, HotWalletStays, Deposits, Confirmations
<1>2. ASSUME last_block' = last_block, WillSee(t, v) PROVE v > 0
  BY <1>2 DEF BranchWillBeSeen
<1>3. CASE UNCHANGED scanVars
  BY <1>2, <1>3, OthersTell DEF scanVars, scanState, Queue
<1>4. CASE Node
  BY <1>2, <1>4, NodeKeeps, OthersTell
<1>5. CASE node_worker
  <2>1. PICK fork : fork = Fork(chain, last_block)
    OBVIOUS
  <2>2. t \in Deposits(chain, 1)
    BY <1>5 DEF node_worker
  <2>3. /\ InNewPart(t, fork) \/ t \in Deposits(last_block, 1)
        /\ InLostPart(t, fork) => InNewPart(t, fork)
        /\ t \notin mempool
    BY <2>1, <2>2, SharedPart
  <2>4. \/ v > 0
        \/ WillSee(t, v) /\ ~ InNewPart(t, fork)
    BY <1>5, <2>1, <2>3, ScanTells
  <2> QED
    BY <2>3, <2>4 DEF BranchWillBeSeen
<1>6. CASE poll_events
  BY <1>2, <1>6, PollKeeps, OthersTell
<1>7. CASE update_btc_tx
  <2>1. last_block' = last_block
    BY <1>7 DEF update_btc_tx
  <2>2. t \in Txs
    <3>1. Deposits(last_block, 1) \in SUBSET Txs
      BY DepositsFacts DEF Typed
    <3> QED
      BY <2>1, <3>1
  <2> QED
    BY <1>2, <1>7, <2>1, <2>2, UpdateTells
<1>8. CASE AdapterRestart
  <2>1. last_block' = <<>>
    BY <1>8 DEF AdapterRestart
  <2>2. Deposits(<<>>, 1) = {}
    BY DEF Deposits
  <2> QED
    BY <2>1, <2>2
<1>9. CASE HotRestart
  BY <1>9 DEF HotRestart, HotWalletStays
<1> QED
  BY <1>3, <1>4, <1>5, <1>6, <1>7, <1>8, <1>9 DEF ScanNext

(* A deposit the node has told of is in the mempool or in the chain, if    *)
(* nothing spends its coins.                                               *)
LEMMA NodeForgetsNothing ==
    ASSUME Typed, RivalsAreDoubleSpends, NoDoubleSpends, Node
    PROVE  mempool \union Deposits(chain, 1) \subseteq mempool' \union Deposits(chain', 1)
<1>1. /\ \A t : t \in Deposits(chain, 1) <=> \E i \in DOMAIN chain : i >= 1 /\ t \in chain[i].txs
      /\ DOMAIN chain = 1..Len(chain) /\ Len(chain) \in Nat
  BY DepositsFacts DEF Typed
<1>2. ASSUME NEW t \in Txs, Broadcast(t)
      PROVE  mempool \union Deposits(chain, 1) \subseteq mempool' \union Deposits(chain', 1)
  BY <1>2 DEF Broadcast
<1>3. ASSUME NEW txs \in SUBSET mempool, NEW rivals \in SUBSET mempool, rivals = {}, Mine(txs, rivals)
      PROVE  mempool \union Deposits(chain, 1) \subseteq mempool' \union Deposits(chain', 1)
  <2>1. PICK b : b = [ txs |-> txs, rivals |-> rivals, number |-> mined' ]
    OBVIOUS
  <2>2. b \in Blocks
    <3>1. mined' = mined + 1 /\ mined \in Nat /\ mempool \in SUBSET Txs
      BY <1>3 DEF Mine, Typed
    <3> QED
      BY <2>1, <3>1 DEF Blocks
  <2>3. chain' = Append(chain, b) /\ mempool' = mempool \ txs /\ b.txs = txs
    BY <1>3, <2>1 DEF Mine
  <2>4. /\ chain' \in Seq(Blocks) /\ DOMAIN chain' = 1..(Len(chain) + 1)
        /\ \A i \in DOMAIN chain : i \in DOMAIN chain' /\ chain'[i] = chain[i]
        /\ chain'[Len(chain) + 1] = b
    BY <1>1, <2>2, <2>3 DEF Typed
  <2>5. \A t : t \in Deposits(chain', 1) <=> \E i \in DOMAIN chain' : i >= 1 /\ t \in chain'[i].txs
    BY <2>4, DepositsFacts
  <2>6. Len(chain) + 1 \in DOMAIN chain' /\ Len(chain) + 1 >= 1
    BY <1>1, <2>4
  <2>7. txs \subseteq Deposits(chain', 1)
    BY <2>3, <2>4, <2>5, <2>6
  <2>8. Deposits(chain, 1) \subseteq Deposits(chain', 1)
    BY <1>1, <2>4, <2>5
  <2> QED
    BY <2>3, <2>7, <2>8
<1>4. ASSUME NEW n \in 0..(Len(chain) - 1), Reorg(n)
      PROVE  mempool \union Deposits(chain, 1) \subseteq mempool' \union Deposits(chain', 1)
  <2>1. /\ chain' = SubSeq(chain, 1, n)
        /\ mempool' = mempool \union Deposits(chain, n + 1) \union Rivals(chain, n + 1)
    BY <1>4 DEF Reorg
  <2>2. /\ chain' \in Seq(Blocks) /\ DOMAIN chain' = 1..n
        /\ \A i \in 1..n : chain'[i] = chain[i]
    BY <2>1 DEF Typed
  <2>3. \A t : t \in Deposits(chain', 1) <=> \E i \in DOMAIN chain' : i >= 1 /\ t \in chain'[i].txs
    BY <2>2, DepositsFacts
  <2>4. n \in Nat /\ n + 1 \in Nat \ {0}
    BY <1>1
  <2>5. \A t : t \in Deposits(chain, n + 1) <=> \E i \in DOMAIN chain : i >= n + 1 /\ t \in chain[i].txs
    BY <2>4, DepositsFacts DEF Typed
  <2>6. \A i \in DOMAIN chain : i >= n + 1 \/ (i \in 1..n /\ i >= 1)
    BY <1>1, <2>4
  <2>7. ASSUME NEW t \in Deposits(chain, 1) PROVE t \in mempool' \union Deposits(chain', 1)
    <3>1. PICK i \in DOMAIN chain : t \in chain[i].txs
      BY <1>1
    <3> QED
      BY <2>1, <2>2, <2>3, <2>5, <2>6, <3>1
  <2> QED
    BY <2>1, <2>7
<1> QED
  BY <1>2, <1>3, <1>4 DEF Node, NoDoubleSpends

LEMMA OnlyBranchWillBeSeenHolds ==
    Typed /\ DepositsAreOnce /\ RivalsAreDoubleSpends /\ OnlyBranchWillBeSeen /\ [ScanNext]_scanVars =>
        OnlyBranchWillBeSeen'
<1> DEFINE Known == mempool \union Deposits(chain, 1)
           Right(t, v) == /\ v > 0 => t \in Deposits(last_block, 1)
                          /\ v # Absent => t \in Known
<1> SUFFICES ASSUME Typed, DepositsAreOnce, RivalsAreDoubleSpends, OnlyBranchWillBeSeen,
                    [ScanNext]_scanVars
             PROVE  OnlyBranchWillBeSeen'
  OBVIOUS
<1>1. (OnlyReorgs' <=> OnlyReorgs) /\ (OnlyReorgs => NoDoubleSpends /\ HotWalletStays)
  BY DEF ScanNext, scanVars, OnlyReorgs, NoDoubleSpends, HotWalletStays
<1>2. CASE ~ OnlyReorgs
  BY <1>1, <1>2 DEF OnlyBranchWillBeSeen
<1> SUFFICES ASSUME OnlyReorgs PROVE OnlyBranchWillBeSeen'
  BY <1>2
<1>3. /\ Deposits(last_block, 1) \subseteq Known
      /\ \A t \in Txs, v \in Confirmations : WillSee(t, v) => Right(t, v)
  BY DEF OnlyBranchWillBeSeen
<1>4. SUFFICES /\ Deposits(last_block', 1) \subseteq Known'
               /\ \A t \in Txs, v \in Confirmations : WillSee(t, v)' => Right(t, v)'
  BY <1>1, <1>4 DEF OnlyBranchWillBeSeen, Confirmations, Deposits
<1>5. ASSUME last_block' = last_block, Known \subseteq Known',
             \A t \in Txs, v \in Confirmations : WillSee(t, v)' => WillSee(t, v)
      PROVE  /\ Deposits(last_block', 1) \subseteq Known'
             /\ \A t \in Txs, v \in Confirmations : WillSee(t, v)' => Right(t, v)'
  BY <1>3, <1>5
<1>6. CASE UNCHANGED scanVars
  BY <1>5, <1>6, OthersTell DEF scanVars, scanState, Queue
<1>7. CASE Node
  BY <1>1, <1>5, <1>7, NodeKeeps, NodeForgetsNothing, OthersTell
<1>8. CASE node_worker
  <2>1. PICK fork : fork = Fork(chain, last_block)
    OBVIOUS
  <2>2. last_block' = chain /\ chain' = chain /\ mempool' = mempool
    BY <1>8 DEF node_worker
  <2>3. ASSUME NEW t \in Txs, NEW v \in Confirmations, WillSee(t, v)'
        PROVE  (v > 0 => t \in Deposits(chain, 1)) /\ (v # Absent => t \in Known)
    <3>1. /\ t \in Deposits(last_block, 1) => InLostPart(t, fork) \/ t \in Deposits(chain, 1)
          /\ InNewPart(t, fork) => t \in Deposits(chain, 1)
      BY <2>1, SharedPart
    <3>2. ~ (0 > 0) /\ ~ (Absent > 0)
      BY DEF Absent
    <3>3. \/ v = 0 /\ t \in mempool
          \/ v > 0 /\ InNewPart(t, fork)
          \/ v = Absent
          \/ WillSee(t, v) /\ ~ InLostPart(t, fork)
      BY <1>8, <2>1, <2>3, ScanTells
    <3>4. CASE WillSee(t, v) /\ ~ InLostPart(t, fork)
      BY <1>3, <3>1, <3>4
    <3> QED
      BY <3>1, <3>2, <3>3, <3>4
  <2> QED
    BY <2>2, <2>3
<1>9. CASE poll_events
  BY <1>5, <1>9, PollKeeps, OthersTell
<1>10. CASE update_btc_tx
  BY <1>5, <1>10, UpdateTakesFirst, UpdateTells
<1>11. ~ AdapterRestart /\ ~ HotRestart
  BY DEF AdapterRestart, HotRestart, OnlyReorgs
<1> QED
  BY <1>6, <1>7, <1>8, <1>9, <1>10, <1>11 DEF ScanNext

-----------------------------------------------------------------------------
(* Without a reorganisation.                                               *)
QueueGrows(q, s) ==
    /\ \A k \in DOMAIN q : /\ q[k].type = "Update"
                           /\ Reached(q[k].tx, q[k].confirmations)
                           /\ s[q[k].tx] <= q[k].confirmations
    /\ \A k, j \in DOMAIN q :
          j < k /\ q[j].tx = q[k].tx => q[j].confirmations <= q[k].confirmations
    /\ \A t \in Txs : Reached(t, s[t])

LEMMA ReportsGrowIs ==
    ReportsGrow <=>
        (NoReorgs => /\ Len(last_block) <= Len(chain)
                     /\ \A i \in DOMAIN last_block : last_block[i] = chain[i]
                     /\ QueueGrows(Queue, seen))
BY DEF ReportsGrow, QueueGrows

(* A report tells of at least what was told before.                        *)
LEMMA ReportsAreNewer ==
    ASSUME Typed, DepositsAreOnce, NEW fork, NEW e \in Entries, IsReport(e, fork),
           NEW c \in Confirmations, Reached(e.tx, c)
    PROVE  c <= e.confirmations
<1>1. c \in Int /\ Len(chain) \in Nat /\ DOMAIN chain = 1..Len(chain)
  BY DEF Confirmations, Absent, Typed
<1>2. e.confirmations \in Nat
  BY DEF Entries, IsReport
<1>3. CASE c <= 0
  BY <1>1, <1>2, <1>3
<1>4. CASE \E i \in DOMAIN chain : e.tx \in chain[i].txs /\ c <= Len(chain) - i + 1
  <2>1. PICK i \in DOMAIN chain : e.tx \in chain[i].txs /\ c <= Len(chain) - i + 1
    BY <1>4
  <2>2. e.tx \notin mempool
    BY <2>1 DEF DepositsAreOnce, Spends
  <2>3. PICK j \in DOMAIN chain : e.tx \in chain[j].txs /\ e.confirmations = Len(chain) - j + 1
    BY <2>2 DEF IsReport
  <2>4. i = j
    BY <2>1, <2>3 DEF DepositsAreOnce, Spends
  <2> QED
    BY <2>1, <2>3, <2>4
<1> QED
  BY <1>3, <1>4 DEF Reached

LEMMA ReportsAreReached ==
    ASSUME Typed, NEW fork, NEW e \in Entries, IsReport(e, fork)
    PROVE  Reached(e.tx, e.confirmations)
<1>1. CASE e.confirmations = 0
  BY <1>1 DEF Reached
<1>2. CASE \E i \in DOMAIN chain : e.tx \in chain[i].txs /\ e.confirmations = Len(chain) - i + 1
  <2>1. PICK i \in DOMAIN chain : e.tx \in chain[i].txs /\ e.confirmations = Len(chain) - i + 1
    BY <1>2
  <2>2. e.confirmations <= Len(chain) - i + 1
    BY <2>1 DEF Typed
  <2> QED
    BY <2>1, <2>2 DEF Reached
<1> QED
  BY <1>1, <1>2 DEF IsReport

(* Reports are appended to the queue, and taken from it at either end.     *)
LEMMA GrowsByReports ==
    ASSUME Typed, DepositsAreOnce, NEW fork,
           NEW q \in Seq(Entries), QueueGrows(q, seen),
           NEW found \in Seq(Entries), \A k \in DOMAIN found : IsReport(found[k], fork)
    PROVE  QueueGrows(q \o found, seen)
<1>1. PICK r : r = q \o found
  OBVIOUS
<1>2. /\ DOMAIN q = 1..Len(q) /\ DOMAIN found = 1..Len(found) /\ Len(q) \in Nat /\ Len(found) \in Nat
      /\ \A k \in DOMAIN q : q[k] \in Entries
      /\ \A k \in DOMAIN found : found[k] \in Entries
  OBVIOUS
<1>3. /\ \A k \in DOMAIN q : k \in DOMAIN r /\ r[k] = q[k]
      /\ \A k \in DOMAIN found : Len(q) + k \in DOMAIN r /\ r[Len(q) + k] = found[k]
      /\ \A k \in DOMAIN r : k \in DOMAIN q \/ \E j \in DOMAIN found : k = Len(q) + j
  BY <1>1, ConcatIsBoth
<1>4. \A k \in DOMAIN r : r[k] \in Entries /\ (k \in DOMAIN q \/ IsReport(r[k], fork))
  BY <1>2, <1>3
<1>5. \A e \in Entries : e.type = "Update" => e.tx \in Txs /\ e.confirmations \in Confirmations
  BY DEF Entries, Confirmations
<1>6. \A t \in Txs : seen[t] \in Confirmations
  BY DEF Typed, Confirmations
<1>7. ASSUME NEW k \in DOMAIN r
      PROVE  /\ r[k].type = "Update"
             /\ Reached(r[k].tx, r[k].confirmations)
             /\ seen[r[k].tx] <= r[k].confirmations
  <2>1. CASE k \in DOMAIN q
    BY <1>3, <2>1 DEF QueueGrows
  <2>2. CASE IsReport(r[k], fork)
    <3>1. r[k] \in Entries /\ r[k].type = "Update" /\ r[k].tx \in Txs
      BY <1>4, <1>5, <2>2 DEF IsReport
    <3>2. Reached(r[k].tx, r[k].confirmations)
      BY <2>2, <3>1, ReportsAreReached
    <3>3. Reached(r[k].tx, seen[r[k].tx]) /\ seen[r[k].tx] \in Confirmations
      BY <1>6, <3>1 DEF QueueGrows
    <3> QED
      BY <2>2, <3>1, <3>2, <3>3, ReportsAreNewer
  <2> QED
    BY <1>4, <2>1, <2>2
<1>8. ASSUME NEW k \in DOMAIN r, NEW j \in DOMAIN r, j < k, r[j].tx = r[k].tx
      PROVE  r[j].confirmations <= r[k].confirmations
  <2>1. CASE k \in DOMAIN q
    <3>1. j \in DOMAIN q
      BY <1>2, <1>3, <1>8, <2>1
    <3> QED
      BY <1>3, <1>8, <2>1, <3>1 DEF QueueGrows
  <2>2. CASE IsReport(r[k], fork)
    <3>1. r[j].type = "Update" /\ Reached(r[k].tx, r[j].confirmations)
      BY <1>7, <1>8
    <3>2. r[k] \in Entries /\ r[j].confirmations \in Confirmations
      BY <1>4, <1>5, <3>1
    <3> QED
      BY <2>2, <3>1, <3>2, ReportsAreNewer
  <2> QED
    BY <1>4, <2>1, <2>2
<1>9. \A t \in Txs : Reached(t, seen[t])
  BY DEF QueueGrows
<1> QED
  BY <1>1, <1>7, <1>8, <1>9 DEF QueueGrows

LEMMA GrowsByRestart ==
    ASSUME NEW q, QueueGrows(q, seen), NEW d \in Nat, NEW r, DOMAIN r \subseteq Nat,
           \A k \in DOMAIN r : k + d \in DOMAIN q /\ r[k] = q[k + d]
    PROVE  QueueGrows(r, seen)
<1>1. \A k, j \in DOMAIN r : j < k => j + d < k + d
  OBVIOUS
<1> QED
  BY <1>1 DEF QueueGrows

LEMMA ChainGrows ==
    ASSUME Typed, NoReorgs, Node
    PROVE  /\ Len(chain') \in Nat /\ Len(chain) <= Len(chain')
           /\ \A i \in DOMAIN chain : i \in DOMAIN chain' /\ chain'[i] = chain[i]
<1>1. DOMAIN chain = 1..Len(chain) /\ Len(chain) \in Nat
  BY DEF Typed
<1>2. CASE chain' = chain
  BY <1>1, <1>2
<1>3. ASSUME NEW b \in Blocks, chain' = Append(chain, b)
      PROVE  /\ Len(chain') \in Nat /\ Len(chain) <= Len(chain')
             /\ \A i \in DOMAIN chain : i \in DOMAIN chain' /\ chain'[i] = chain[i]
  BY <1>1, <1>3 DEF Typed
<1>4. ASSUME NEW txs \in SUBSET mempool, NEW rivals \in SUBSET mempool, Mine(txs, rivals)
      PROVE  \E b \in Blocks : chain' = Append(chain, b)
  <2>1. mined' = mined + 1 /\ mined \in Nat /\ mempool \in SUBSET Txs
    BY <1>4 DEF Mine, Typed
  <2>2. [ txs |-> txs, rivals |-> rivals, number |-> mined' ] \in Blocks
    BY <2>1 DEF Blocks
  <2> QED
    BY <1>4, <2>2 DEF Mine
<1>5. \/ chain' = chain
      \/ \E txs \in SUBSET mempool : \E rivals \in SUBSET mempool : Mine(txs, rivals)
  <2>1. \A n : ~ Reorg(n)
    BY DEF Reorg, NoReorgs
  <2> QED
    BY <2>1 DEF Node, Broadcast
<1> QED
  BY <1>2, <1>3, <1>4, <1>5

LEMMA ReachedStays ==
    ASSUME Typed, NoReorgs, Node, NEW t, NEW c \in Confirmations, Reached(t, c)
    PROVE  Reached(t, c)'
<1>1. DOMAIN chain = 1..Len(chain) /\ Len(chain) \in Nat /\ c \in Int
  BY DEF Typed, Confirmations, Absent
<1>2. CASE c <= 0
  BY <1>2 DEF Reached
<1>3. CASE \E i \in DOMAIN chain : t \in chain[i].txs /\ c <= Len(chain) - i + 1
  <2>1. PICK i \in DOMAIN chain : t \in chain[i].txs /\ c <= Len(chain) - i + 1
    BY <1>3
  <2>2. /\ Len(chain') \in Nat /\ Len(chain) <= Len(chain')
        /\ i \in DOMAIN chain' /\ chain'[i] = chain[i]
    BY ChainGrows
  <2>3. c <= Len(chain') - i + 1
    BY <1>1, <2>1, <2>2
  <2> QED
    BY <2>1, <2>2, <2>3 DEF Reached
<1> QED
  BY <1>2, <1>3 DEF Reached

LEMMA QueueGrowsStays ==
    ASSUME Typed, NEW q \in Seq(Entries), QueueGrows(q, seen), seen' = seen,
           \A t \in Txs, c \in Confirmations : Reached(t, c) => Reached(t, c)'
    PROVE  QueueGrows(q, seen)'
<1>1. ASSUME NEW k \in DOMAIN q
      PROVE  /\ q[k].type = "Update"
             /\ Reached(q[k].tx, q[k].confirmations)'
             /\ seen'[q[k].tx] <= q[k].confirmations
  <2>1. q[k] \in Entries
    OBVIOUS
  <2>2. /\ q[k].type = "Update" /\ seen[q[k].tx] <= q[k].confirmations
        /\ Reached(q[k].tx, q[k].confirmations)
    BY DEF QueueGrows
  <2>3. q[k].tx \in Txs /\ q[k].confirmations \in Confirmations
    BY <2>1, <2>2 DEF Entries, Confirmations
  <2> QED
    BY <2>2, <2>3
<1>2. ASSUME NEW t \in Txs PROVE Reached(t, seen[t])'
  <2>1. PICK c : c = seen[t]
    OBVIOUS
  <2>2. c \in Confirmations /\ Reached(t, c)
    BY <2>1 DEF Typed, Confirmations, QueueGrows
  <2>3. Reached(t, c)'
    BY <2>2
  <2>4. seen'[t] = c
    BY <2>1
  <2> QED
    BY <2>3, <2>4 DEF Reached
<1>3. \A k, j \in DOMAIN q :
         j < k /\ q[j].tx = q[k].tx => q[j].confirmations <= q[k].confirmations
  BY DEF QueueGrows
<1> QED
  BY <1>1, <1>2, <1>3 DEF QueueGrows

LEMMA UpdateGrows ==
    ASSUME Typed, QueueGrows(Queue, seen), update_btc_tx
    PROVE  /\ QueueGrows(Queue, seen)'
           /\ \A t \in Txs : seen'[t] >= seen[t]
<1>1. PICK q : q = Queue
  OBVIOUS
<1>2. /\ q \in Seq(Entries) /\ DOMAIN q = 1..Len(q) /\ Len(q) \in Nat /\ 1 \in DOMAIN q
      /\ \A k \in DOMAIN q : q[k] \in Entries
      /\ DOMAIN Queue' = 1..(Len(q) - 1)
      /\ \A k \in DOMAIN Queue' : k + 1 \in DOMAIN q /\ Queue'[k] = q[k + 1]
      /\ seen' = [seen EXCEPT ![q[1].tx] = Told(q[1])] /\ chain' = chain
  BY <1>1, UpdateTakesFirst, QueueTyped
<1>3. PICK t1, c1 : t1 = q[1].tx /\ c1 = q[1].confirmations
  OBVIOUS
<1>4. /\ q[1].type = "Update" /\ q[1] \in Entries /\ Reached(t1, c1) /\ seen[t1] <= c1
  BY <1>1, <1>2, <1>3 DEF QueueGrows
<1>5. t1 \in Txs /\ c1 \in Nat /\ Told(q[1]) = c1
  BY <1>3, <1>4 DEF Entries, Told
<1>6. seen' = [seen EXCEPT ![t1] = c1] /\ DOMAIN seen = Txs
  BY <1>2, <1>3, <1>5 DEF Typed
<1>7. /\ seen'[t1] = c1 /\ \A t \in Txs \ {t1} : seen'[t] = seen[t]
      /\ \A t \in Txs : seen[t] \in Int
  BY <1>5, <1>6 DEF Typed, Absent
<1>8. ASSUME NEW t \in Txs PROVE seen'[t] >= seen[t] /\ Reached(t, seen'[t])
  <2>1. CASE t = t1
    BY <1>4, <1>5, <1>7, <2>1
  <2>2. CASE t # t1
    BY <1>1, <1>7, <2>2 DEF QueueGrows
  <2> QED
    BY <2>1, <2>2
<1>9. ASSUME NEW k \in DOMAIN Queue'
      PROVE  /\ Queue'[k].type = "Update"
             /\ Reached(Queue'[k].tx, Queue'[k].confirmations)
             /\ seen'[Queue'[k].tx] <= Queue'[k].confirmations
  <2>1. k + 1 \in DOMAIN q /\ Queue'[k] = q[k + 1] /\ 1 < k + 1
    BY <1>2
  <2>2. /\ q[k + 1].type = "Update" /\ seen[q[k + 1].tx] <= q[k + 1].confirmations
        /\ Reached(q[k + 1].tx, q[k + 1].confirmations)
    BY <1>1, <2>1 DEF QueueGrows
  <2>3. q[k + 1].tx \in Txs
    BY <1>2, <2>1, <2>2 DEF Entries
  <2>4. CASE q[k + 1].tx = t1
    <3>1. c1 <= q[k + 1].confirmations
      BY <1>1, <1>2, <1>3, <2>1, <2>4 DEF QueueGrows
    <3> QED
      BY <1>7, <2>1, <2>2, <2>4, <3>1
  <2>5. CASE q[k + 1].tx # t1
    BY <1>7, <2>1, <2>2, <2>3, <2>5
  <2> QED
    BY <2>4, <2>5
<1>10. ASSUME NEW k \in DOMAIN Queue', NEW j \in DOMAIN Queue', j < k, Queue'[j].tx = Queue'[k].tx
       PROVE  Queue'[j].confirmations <= Queue'[k].confirmations
  <2>1. /\ k + 1 \in DOMAIN q /\ Queue'[k] = q[k + 1] /\ j + 1 \in DOMAIN q /\ Queue'[j] = q[j + 1]
        /\ j + 1 < k + 1
    BY <1>2, <1>10
  <2> QED
    BY <1>1, <1>10, <2>1 DEF QueueGrows
<1>11. QueueGrows(Queue', seen')
  BY <1>8, <1>9, <1>10 DEF QueueGrows
<1>12. QueueGrows(Queue, seen)' <=> QueueGrows(Queue', seen')
  BY <1>2 DEF QueueGrows, Reached
<1> QED
  BY <1>8, <1>11, <1>12

LEMMA ReportsGrowHolds ==
    Typed /\ DepositsAreOnce /\ ReportsGrow /\ [ScanNext]_scanVars =>
        /\ ReportsGrow'
        /\ NoReorgs => \A t \in Txs : seen'[t] >= seen[t]
<1> SUFFICES ASSUME Typed, DepositsAreOnce, ReportsGrow, [ScanNext]_scanVars, NoReorgs
             PROVE  ReportsGrow' /\ \A t \in Txs : seen'[t] >= seen[t]
  BY DEF ReportsGrow, ScanNext, scanVars, NoReorgs
<1>1. /\ Len(last_block) <= Len(chain)
      /\ \A i \in DOMAIN last_block : last_block[i] = chain[i]
      /\ QueueGrows(Queue, seen)
  BY ReportsGrowIs
<1>2. /\ DOMAIN chain = 1..Len(chain) /\ Len(chain) \in Nat
      /\ DOMAIN last_block = 1..Len(last_block) /\ Len(last_block) \in Nat
      /\ Queue \in Seq(Entries) /\ DOMAIN Queue = 1..Len(Queue)
  BY QueueTyped DEF Typed
<1>3. \A t \in Txs : seen[t] \in Int /\ seen[t] >= seen[t]
  BY DEF Typed, Absent
<1>4. ASSUME Len(last_block') <= Len(chain'),
             \A i \in DOMAIN last_block' : last_block'[i] = chain'[i],
             QueueGrows(Queue, seen)'
      PROVE  ReportsGrow'
  <2>1. ( ReportsGrow <=>
            (NoReorgs => /\ Len(last_block) <= Len(chain)
                         /\ \A i \in DOMAIN last_block : last_block[i] = chain[i]
                         /\ QueueGrows(Queue, seen)) )'
    BY ReportsGrowIs, PTL
  <2> QED
    BY <1>4, <2>1
<1>5. CASE UNCHANGED scanVars
  <2>1. QueueGrows(Queue, seen)' <=> QueueGrows(Queue, seen)
    BY <1>5 DEF QueueGrows, Reached, Queue, scanVars, scanState
  <2> QED
    BY <1>1, <1>3, <1>4, <1>5, <2>1 DEF scanVars, scanState
<1>6. CASE Node
  <2>1. Queue' = Queue /\ seen' = seen /\ last_block' = last_block
    BY <1>6, NodeKeeps
  <2>2. PICK q : q = Queue
    OBVIOUS
  <2>3. \A t \in Txs, c \in Confirmations : Reached(t, c) => Reached(t, c)'
    BY <1>6, ReachedStays
  <2>4. QueueGrows(q, seen)'
    BY <1>1, <1>2, <2>1, <2>2, <2>3, QueueGrowsStays
  <2>5. QueueGrows(q, seen)' => QueueGrows(Queue, seen)'
    BY <2>1, <2>2 DEF QueueGrows, Reached
  <2>6. /\ Len(chain') \in Nat /\ Len(chain) <= Len(chain')
        /\ \A i \in DOMAIN chain : i \in DOMAIN chain' /\ chain'[i] = chain[i]
    BY <1>6, ChainGrows
  <2>7. Len(last_block) <= Len(chain') /\ \A i \in DOMAIN last_block : last_block[i] = chain'[i]
    BY <1>1, <1>2, <2>6
  <2> QED
    BY <1>3, <1>4, <2>1, <2>4, <2>5, <2>7
<1>7. CASE node_worker
  <2>1. PICK fork : fork = Fork(chain, last_block)
    OBVIOUS
  <2>2. PICK found : found = scan_from(fork)
    OBVIOUS
  <2>3. /\ Queue' = Queue \o found /\ seen' = seen /\ last_block' = chain
        /\ chain' = chain /\ mempool' = mempool
    BY <1>7, <2>1, <2>2, ScanAppends
  <2>4. fork \in Nat /\ found \in Seq(Entries)
    BY <2>1, <2>2, ScanFacts
  <2>5. Len(last_block) <= fork
    <3>1. Len(last_block) \in 0..Len(chain) /\ Len(last_block) <= Len(last_block)
      BY <1>1, <1>2
    <3>2. \A i \in 1..Len(last_block) : chain[i] = last_block[i]
      BY <1>1, <1>2
    <3>3. chain \in Seq(Blocks) /\ last_block \in Seq(Blocks)
      BY DEF Typed
    <3> QED
      BY <2>1, <3>1, <3>2, <3>3, ForkFacts
  <2>6. \A t : ~ InLostPart(t, fork)
    BY <1>2, <2>4, <2>5 DEF InLostPart
  <2>7. \A k \in DOMAIN found : IsReport(found[k], fork)
    BY <2>2, <2>4, <2>6, FoundFacts
  <2>8. QueueGrows(Queue \o found, seen)
    BY <1>1, <1>2, <2>4, <2>7, GrowsByReports
  <2>9. QueueGrows(Queue, seen)' <=> QueueGrows(Queue \o found, seen)
    BY <2>3 DEF QueueGrows, Reached
  <2>10. Len(chain) <= Len(chain)
    BY <1>2
  <2> QED
    BY <1>3, <1>4, <2>3, <2>8, <2>9, <2>10
<1>8. CASE poll_events
  <2>1. Queue' = Queue /\ UNCHANGED <<chain, mempool, last_block, seen>>
    BY <1>8, PollKeeps
  <2>2. QueueGrows(Queue, seen)' <=> QueueGrows(Queue, seen)
    BY <2>1 DEF QueueGrows, Reached
  <2> QED
    BY <1>1, <1>3, <1>4, <2>1, <2>2
<1>9. CASE update_btc_tx
  <2>1. UNCHANGED <<chain, mempool, last_block>>
    BY <1>9, UpdateTakesFirst
  <2> QED
    BY <1>1, <1>4, <1>9, <2>1, UpdateGrows
<1>10. CASE AdapterRestart \/ HotRestart
  <2>1. chain' = chain /\ seen' = seen /\ (last_block' = last_block \/ last_block' = <<>>)
    BY <1>10 DEF AdapterRestart, HotRestart
  <2>2. PICK d \in Nat : \A k \in DOMAIN Queue' :
                            k + d \in DOMAIN Queue /\ Queue'[k] = Queue[k + d]
    BY <1>10, RestartDrops
  <2>3. DOMAIN Queue' \subseteq Nat
    <3>1. Typed'
      BY TypedHolds
    <3>2. (Typed => DOMAIN Queue = 1..Len(Queue))'
      BY QueueTyped, PTL
    <3> QED
      BY <3>1, <3>2
  <2>4. QueueGrows(Queue', seen)
    BY <1>1, <2>2, <2>3, GrowsByRestart
  <2>5. QueueGrows(Queue, seen)' <=> QueueGrows(Queue', seen)
    BY <2>1 DEF QueueGrows, Reached
  <2>6. Len(<<>>) = 0 /\ DOMAIN <<>> = {}
    OBVIOUS
  <2>7. Len(last_block') <= Len(chain) /\ \A i \in DOMAIN last_block' : last_block'[i] = chain[i]
    BY <1>1, <1>2, <2>1, <2>6
  <2> QED
    BY <1>3, <1>4, <2>1, <2>4, <2>5, <2>7
<1> QED
  BY <1>5, <1>6, <1>7, <1>8, <1>9, <1>10 DEF ScanNext

-----------------------------------------------------------------------------
(* The invariant, and what follows from it.                                *)
LEMMA ScanInvInit == ScanInit => ScanInv
<1> SUFFICES ASSUME ScanInit PROVE ScanInv
  OBVIOUS
<1>1. Typed
  BY BtcScanConstants DEF ScanInit, Typed
<1>2. Queue = <<>> /\ DOMAIN <<>> = {} /\ Len(<<>>) = 0 /\ Deposits(<<>>, 1) = {}
  BY DEF ScanInit, Queue, Deposits
<1>3. chain = <<>> /\ last_block = <<>> /\ \A t \in Txs : seen[t] = Absent
  BY DEF ScanInit
<1>4. DepositsAreOnce /\ RivalsAreDoubleSpends /\ BranchWillBeSeen
  BY <1>2, <1>3 DEF DepositsAreOnce, RivalsAreDoubleSpends, BranchWillBeSeen
<1>5. OnlyBranchWillBeSeen
  <2>1. ASSUME NEW t \in Txs, NEW v, WillSee(t, v) PROVE v = Absent
    BY <1>2, <1>3, <2>1 DEF WillSee
  <2>2. ~ (Absent > 0)
    BY DEF Absent
  <2> QED
    BY <1>2, <1>3, <2>1, <2>2 DEF OnlyBranchWillBeSeen
<1>6. ReportsGrow
  <2>1. \A t \in Txs : Reached(t, seen[t])
    BY <1>3 DEF Reached, Absent
  <2> QED
    BY <1>2, <1>3, <2>1 DEF ReportsGrow
<1> QED
  BY <1>1, <1>4, <1>5, <1>6 DEF ScanInv

LEMMA ScanInvHolds == ScanSpec => []ScanInv
<1>1. ScanInv /\ [ScanNext]_scanVars => ScanInv'
  BY TypedHolds, DepositsAreOnceHolds, BranchWillBeSeenHolds, OnlyBranchWillBeSeenHolds,
     ReportsGrowHolds DEF ScanInv
<1> QED
  BY <1>1, ScanInvInit, PTL DEF ScanSpec

(* In step with the chain State has what it will have.                     *)
LEMMA InStepSees ==
    ASSUME Typed, InStep, NEW t \in Txs
    PROVE  seen[t] \in Confirmations /\ WillSee(t, seen[t]) /\ last_block = chain
<1>1. Queue = <<>> /\ DOMAIN <<>> = {}
  BY DEF InStep, Queue
<1> QED
  BY <1>1 DEF InStep, WillSee, Typed, Confirmations

(* When all the adapter has scanned has come to State, State has as        *)
(* confirmed the deposits in the chain and no others, and knows of none    *)
(* that is gone: whatever blocks came and went between the scans, and      *)
(* however events, updates and scans took turns.                           *)
THEOREM StateSeesTheChain == ScanSpec => []SeesTheChain
<1>1. ScanInv => SeesTheChain
  <2> SUFFICES ASSUME ScanInv, InStep, OnlyReorgs, NEW t \in Txs
               PROVE  /\ seen[t] > 0 <=> t \in Deposits(chain, 1)
                      /\ seen[t] # Absent => t \in mempool \union Deposits(chain, 1)
    BY DEF SeesTheChain, OnlyReorgs
  <2>1. seen[t] \in Confirmations /\ WillSee(t, seen[t]) /\ last_block = chain
    BY InStepSees DEF ScanInv
  <2>2. HotWalletStays
    BY DEF OnlyReorgs, HotWalletStays
  <2>3. /\ \A u \in Deposits(last_block, 1), v \in Confirmations : WillSee(u, v) => v > 0
        /\ \A v \in Confirmations : WillSee(t, v) =>
              /\ v > 0 => t \in Deposits(last_block, 1)
              /\ v # Absent => t \in mempool \union Deposits(chain, 1)
    BY <2>2 DEF ScanInv, BranchWillBeSeen, OnlyBranchWillBeSeen
  <2> QED
    BY <2>1, <2>3
<1> QED
  BY <1>1, ScanInvHolds, PTL

(* However often the adapter stops and starts again at the genesis block,  *)
(* and whatever is reorganised or spent twice, State in step with the      *)
(* chain has as confirmed every deposit in it.                             *)
THEOREM NoDepositIsMissed == ScanSpec => []NothingIsMissed
<1>1. ScanInv => NothingIsMissed
  <2> SUFFICES ASSUME ScanInv, InStep, HotWalletStays, NEW t \in Deposits(chain, 1)
               PROVE  seen[t] > 0
    BY DEF NothingIsMissed, HotWalletStays
  <2>1. t \in Txs
    BY DepositsFacts DEF ScanInv, Typed
  <2>2. seen[t] \in Confirmations /\ WillSee(t, seen[t]) /\ last_block = chain
    BY <2>1, InStepSees DEF ScanInv
  <2> QED
    BY <2>2 DEF ScanInv, BranchWillBeSeen
<1> QED
  BY <1>1, ScanInvHolds, PTL

(* While the chain loses no block, a deposit is in the chain with at least *)
(* the confirmations State has: a report on its way says what a scan found,*)
(* and the block has only become deeper since.                             *)
THEOREM NoConfirmationComesTooEarly == ScanSpec => []NothingTooEarly
<1>1. ScanInv => NothingTooEarly
  <2> SUFFICES ASSUME ScanInv, NoReorgs, NEW t \in Txs, seen[t] > 0
               PROVE  \E i \in DOMAIN chain : t \in chain[i].txs /\ seen[t] <= Len(chain) - i + 1
    BY DEF NothingTooEarly, NoReorgs
  <2>1. Reached(t, seen[t]) /\ seen[t] \in Int
    BY DEF ScanInv, ReportsGrow, Typed, Absent
  <2> QED
    BY <2>1 DEF Reached
<1> QED
  BY <1>1, ScanInvHolds, PTL

(* While the chain loses no block, no update lowers the confirmations of a *)
(* deposit in State, whoever stops: what a scan from the genesis block     *)
(* repeats is never older than what is on its way or applied.              *)
THEOREM ConfirmationsNeverDrop == ScanSpec => ConfirmationsOnlyGrow
<1>1. ScanInv /\ [ScanNext]_scanVars =>
        [ "reorg" \notin faults => \A t \in Txs : seen'[t] >= seen[t] ]_scanVars
  BY ReportsGrowHolds DEF ScanInv, NoReorgs
<1> QED
  BY <1>1, ScanInvHolds, PTL DEF ScanSpec, ConfirmationsOnlyGrow

-----------------------------------------------------------------------------
(* Addresses: what is on the channel, and whose an address is.             *)
AddressUpdates ==
    [ type : {"Address"}, account : Accounts, address : Nat ]
      \union [ type : {"Report"}, output : Outputs, confirmations : Depths \union {Unseen} ]

AddressTyped ==
    /\ deposit_info \in [Users -> SUBSET Nat]
    /\ exchange_address \in Nat
    /\ credited \in [Accounts -> [Outputs -> Depths \union {Unseen}]]
    /\ inbox \in Seq(AddressUpdates)
    /\ asking \in SUBSET Operators
    /\ holders \in Seq(Accounts)
    /\ pays \in [Outputs -> Nat]
    /\ reported \in [Outputs -> Depths \union {Unseen}]
    /\ mishaps \in SUBSET Mishaps

MadeFor(account, address) == address \in DOMAIN holders /\ holders[address] = account

IsAddress(k) == inbox[k].type = "Address"

IsExchangeAddress(k) == inbox[k].type = "Address" /\ inbox[k].account = Exchange

Reports(k, output) == inbox[k].type = "Report" /\ inbox[k].output = output

(* State and the channel have an address for the account it was made for.  *)
AddressesAreOwned ==
    /\ \A u \in Users : \A address \in deposit_info[u] : MadeFor(u, address)
    /\ exchange_address # NoAddress => MadeFor(Exchange, exchange_address)
    /\ \A k \in DOMAIN inbox :
          IsAddress(k) => MadeFor(inbox[k].account, inbox[k].address)

PaymentsAreToAddresses ==
    /\ \A o \in Outputs : pays[o] # NoAddress => pays[o] \in DOMAIN holders
    /\ \A o \in Outputs : pays[o] = NoAddress => reported[o] = Unseen
    /\ \A k \in DOMAIN inbox : \A o \in Outputs : Reports(k, o) => pays[o] # NoAddress

ExchangeAddressesInOrder ==
    /\ \A k \in DOMAIN inbox : IsExchangeAddress(k) => inbox[k].address > exchange_address
    /\ \A k \in DOMAIN inbox : \A j \in DOMAIN inbox :
          j < k /\ IsExchangeAddress(j) /\ IsExchangeAddress(k) =>
              inbox[j].address < inbox[k].address

(* No report is before the address it is about.                            *)
AddressesComeFirst ==
    \A k \in DOMAIN inbox : \A j \in DOMAIN inbox : \A o \in Outputs :
        j < k /\ IsAddress(k) /\ Reports(j, o) => pays[o] # inbox[k].address

NothingIsLost == mishaps \subseteq {"asked too soon"}

OneAtATime == "asked too soon" \notin mishaps

Queued(address) == \E k \in DOMAIN inbox : IsAddress(k) /\ inbox[k].address = address

InState(address) ==
    IF holders[address] = Exchange THEN exchange_address = address
    ELSE address \in deposit_info[holders[address]]

(* An address that nothing takes the place of.                             *)
Lasting(address) ==
    holders[address] = Exchange =>
        \A b \in DOMAIN holders : b > address => holders[b] # Exchange

AddressesAreKept ==
    NothingIsLost =>
        \A address \in DOMAIN holders :
            Lasting(address) => InState(address) \/ Queued(address)

OperatorsTakeTurns ==
    NothingIsLost /\ OneAtATime =>
        /\ \A p \in asking : \A q \in asking : p = q
        /\ asking # {} => \A a \in DOMAIN holders : holders[a] # Exchange
        /\ \A a \in DOMAIN holders : \A b \in DOMAIN holders :
              holders[a] = Exchange /\ holders[b] = Exchange => a = b

NoneReports(from, o) == \A j \in DOMAIN inbox : j > from => ~ Reports(j, o)

ReportsAreCurrent ==
    /\ \A k \in DOMAIN inbox : \A o \in Outputs :
          Reports(k, o) /\ NoneReports(k, o) => inbox[k].confirmations = reported[o]
    /\ NothingIsLost =>
          \A o \in Outputs :
              pays[o] # NoAddress /\ Lasting(pays[o]) /\ NoneReports(0, o) =>
                  credited[holders[pays[o]]][o] = reported[o]

AddressInv ==
    /\ AddressTyped
    /\ AddressesAreOwned
    /\ PaymentsAreToAddresses
    /\ CreditedToPayee
    /\ ExchangeAddressesInOrder
    /\ AddressesComeFirst
    /\ AddressesAreKept
    /\ OperatorsTakeTurns
    /\ ReportsAreCurrent

-----------------------------------------------------------------------------
(* What the channel is after an update was put on it or taken from it.     *)
LEMMA InboxGrows ==
    ASSUME AddressTyped, NEW e \in AddressUpdates, inbox' = Append(inbox, e)
    PROVE  /\ inbox' \in Seq(AddressUpdates)
           /\ DOMAIN inbox' = DOMAIN inbox \union {Len(inbox) + 1}
           /\ \A k \in DOMAIN inbox : inbox'[k] = inbox[k] /\ k < Len(inbox) + 1
           /\ inbox'[Len(inbox) + 1] = e
           /\ DOMAIN inbox \in SUBSET Nat /\ Len(inbox) \in Nat
           /\ \A k \in DOMAIN inbox : k > 0
<1>1. inbox \in Seq(AddressUpdates) /\ DOMAIN inbox = 1..Len(inbox) /\ Len(inbox) \in Nat
  BY DEF AddressTyped
<1>2. /\ inbox' \in Seq(AddressUpdates) /\ Len(inbox') = Len(inbox) + 1
      /\ \A k \in 1..Len(inbox) : inbox'[k] = inbox[k]
      /\ inbox'[Len(inbox) + 1] = e
  BY <1>1, AppendProperties
<1>3. DOMAIN inbox' = 1..Len(inbox')
  BY <1>2
<1> QED
  BY <1>1, <1>2, <1>3

LEMMA InboxShrinks ==
    ASSUME AddressTyped, inbox # <<>>, inbox' = Tail(inbox)
    PROVE  /\ inbox' \in Seq(AddressUpdates)
           /\ \A k \in DOMAIN inbox' : k + 1 \in DOMAIN inbox /\ inbox'[k] = inbox[k + 1]
           /\ \A k \in DOMAIN inbox : k # 1 => k - 1 \in DOMAIN inbox' /\ inbox'[k - 1] = inbox[k]
           /\ 1 \in DOMAIN inbox /\ Head(inbox) = inbox[1]
           /\ DOMAIN inbox \in SUBSET Nat /\ DOMAIN inbox' \in SUBSET Nat
           /\ \A k \in DOMAIN inbox' : k > 0
           /\ \A k \in DOMAIN inbox : k > 0
<1>1. inbox \in Seq(AddressUpdates) /\ DOMAIN inbox = 1..Len(inbox) /\ Len(inbox) \in Nat
  BY DEF AddressTyped
<1>2. /\ inbox' \in Seq(AddressUpdates) /\ Len(inbox') = Len(inbox) - 1
      /\ \A k \in 1..Len(inbox') : inbox'[k] = inbox[k + 1]
  BY <1>1, HeadTailProperties
<1>3. DOMAIN inbox' = 1..Len(inbox') /\ Len(inbox) # 0
  BY <1>1, <1>2, EmptySeq
<1> QED
  BY <1>1, <1>2, <1>3

LEMMA HoldersGrow ==
    ASSUME AddressTyped, NEW a \in Accounts, holders' = Append(holders, a)
    PROVE  /\ holders' \in Seq(Accounts)
           /\ DOMAIN holders' = DOMAIN holders \union {Len(holders) + 1}
           /\ \A b \in DOMAIN holders : holders'[b] = holders[b] /\ b < Len(holders) + 1
           /\ holders'[Len(holders) + 1] = a
           /\ DOMAIN holders \in SUBSET Nat /\ Len(holders) \in Nat
           /\ \A b \in DOMAIN holders : b > 0
<1>1. holders \in Seq(Accounts) /\ DOMAIN holders = 1..Len(holders) /\ Len(holders) \in Nat
  BY DEF AddressTyped
<1>2. /\ holders' \in Seq(Accounts) /\ Len(holders') = Len(holders) + 1
      /\ \A k \in 1..Len(holders) : holders'[k] = holders[k]
      /\ holders'[Len(holders) + 1] = a
  BY <1>1, AppendProperties
<1>3. DOMAIN holders' = 1..Len(holders')
  BY <1>2
<1> QED
  BY <1>1, <1>2, <1>3

LEMMA UpdateFacts ==
    /\ \A a \in Accounts, b \in Nat : AddressOf(a, b) \in AddressUpdates
    /\ \A o \in Outputs, c \in Depths \union {Unseen} : ReportOf(o, c) \in AddressUpdates
    /\ \A e \in AddressUpdates :
          \/ e.type = "Address" /\ e.account \in Accounts /\ e.address \in Nat
          \/ /\ e.type = "Report" /\ e.output \in Outputs
             /\ e.confirmations \in Depths \union {Unseen}
  BY DEF AddressUpdates, AddressOf, ReportOf

-----------------------------------------------------------------------------
(* The steps, without who takes them.                                      *)
Allocates == \E a \in Accounts : allocate_btc_address(a)

OnlyAsking ==
    UNCHANGED <<deposit_info, exchange_address, credited, inbox, holders, pays, reported>>

Pays == \E o \in Outputs, a \in 1..Len(holders) : Pay(o, a)

Tells == \E o \in Outputs, c \in Depths \union {Unseen} : process_btc_events(o, c)

LEMMA AddressSteps ==
    ASSUME [AddressNext]_addressVars
    PROVE  /\ mishaps' = mishaps
           /\ \/ Allocates \/ OnlyAsking \/ Pays \/ Tells
              \/ update_worker \/ update_worker_drops \/ HotWalletRestarts
<1>1. CASE UNCHANGED addressVars
  BY <1>1 DEF addressVars, addressState, OnlyAsking
<1>2. CASE AddressNext
  <2>1. mishaps' = mishaps
    BY <1>2 DEF AddressNext
  <2>2. ASSUME NEW u \in Users, get_deposit_address(u) PROVE Allocates
    BY <2>2 DEF get_deposit_address, Allocates, Accounts
  <2>3. ASSUME NEW p \in Operators, get_exchange_address(p) PROVE OnlyAsking
    BY <2>3 DEF get_exchange_address, OnlyAsking
  <2>4. ASSUME NEW p \in Operators, answer_operator(p) PROVE OnlyAsking \/ Allocates
    <3>1. Exchange \in Accounts
      BY DEF Accounts
    <3> QED
      BY <2>4, <3>1 DEF answer_operator, OnlyAsking, Allocates
  <2> QED
    BY <1>2, <2>1, <2>2, <2>3, <2>4 DEF AddressNext, Pays, Tells
<1> QED
  BY <1>1, <1>2

(* with_btc_tx credits one owner of the address, if there is one.          *)
LEMMA ReportApplied ==
    ASSUME AddressTyped, NEW e \in AddressUpdates, with_btc_tx(e)
    PROVE  /\ credited' \in [Accounts -> [Outputs -> Depths \union {Unseen}]]
           /\ \A h \in Accounts : \A o \in Outputs :
                 \/ credited'[h][o] = credited[h][o]
                 \/ /\ o = e.output /\ h \in Owners(pays[o])
                    /\ credited'[h][o] = e.confirmations
           /\ \A h \in Accounts :
                 Owners(pays[e.output]) = {h} => credited'[h][e.output] = e.confirmations
<1>1. /\ e.type = "Report" /\ e.output \in Outputs
      /\ e.confirmations \in Depths \union {Unseen}
  BY UpdateFacts DEF with_btc_tx
<1>2. credited \in [Accounts -> [Outputs -> Depths \union {Unseen}]]
  BY DEF AddressTyped
<1>3. CASE Owners(pays[e.output]) = {} /\ UNCHANGED credited
  BY <1>2, <1>3
<1>4. CASE \E a \in Owners(pays[e.output]) :
              credited' = [credited EXCEPT ![a][e.output] = e.confirmations]
  <2>1. PICK a \in Owners(pays[e.output]) :
            credited' = [credited EXCEPT ![a][e.output] = e.confirmations]
    BY <1>4
  <2>2. a \in Accounts
    BY <2>1 DEF Owners, Accounts
  <2>3. credited[a] \in [Outputs -> Depths \union {Unseen}]
    BY <1>2, <2>2
  <2>4. PICK row : row = [credited[a] EXCEPT ![e.output] = e.confirmations]
    OBVIOUS
  <2>5. credited' = [credited EXCEPT ![a] = row]
    BY <2>1, <2>4
  <2>6. /\ row \in [Outputs -> Depths \union {Unseen}]
        /\ row[e.output] = e.confirmations
        /\ \A o \in Outputs : o # e.output => row[o] = credited[a][o]
    BY <1>1, <2>3, <2>4
  <2>7. /\ credited' \in [Accounts -> [Outputs -> Depths \union {Unseen}]]
        /\ credited'[a] = row
        /\ \A h \in Accounts : h # a => credited'[h] = credited[h]
    BY <1>2, <2>2, <2>5, <2>6
  <2>8. ASSUME NEW h \in Accounts, NEW o \in Outputs
        PROVE  \/ credited'[h][o] = credited[h][o]
               \/ /\ o = e.output /\ h \in Owners(pays[o])
                  /\ credited'[h][o] = e.confirmations
    <3>1. CASE h = a /\ o = e.output
      BY <2>1, <2>6, <2>7, <3>1
    <3>2. CASE h = a /\ o # e.output
      BY <2>6, <2>7, <3>2
    <3>3. CASE h # a
      BY <2>7, <3>3
    <3> QED
      BY <3>1, <3>2, <3>3
  <2>9. ASSUME NEW h \in Accounts, Owners(pays[e.output]) = {h}
        PROVE  credited'[h][e.output] = e.confirmations
    <3>1. h = a
      BY <2>1, <2>9
    <3> QED
      BY <2>6, <2>7, <3>1
  <2> QED
    BY <2>7, <2>8, <2>9
<1> QED
  BY <1>3, <1>4 DEF with_btc_tx

LEMMA AddressTypedHolds ==
    ASSUME AddressTyped, [AddressNext]_addressVars
    PROVE  AddressTyped'
<1>1. asking' \in SUBSET Operators
  <2>1. asking \in SUBSET Operators
    BY DEF AddressTyped
  <2>2. CASE UNCHANGED addressVars
    BY <2>1, <2>2 DEF addressVars, addressState
  <2>3. CASE AddressNext
    BY <2>1, <2>3 DEF AddressNext, get_deposit_address, get_exchange_address, answer_operator,
         Pay, process_btc_events, update_worker, update_worker_drops, HotWalletRestarts
  <2> QED
    BY <2>2, <2>3
<1>2. mishaps' = mishaps
  BY AddressSteps
<1>3. CASE Allocates
  <2>1. PICK a \in Accounts : allocate_btc_address(a)
    BY <1>3 DEF Allocates
  <2>2. Len(holders) + 1 \in Nat
    BY DEF AddressTyped
  <2>3. inbox' \in Seq(AddressUpdates)
    BY <2>1, <2>2, UpdateFacts, InboxGrows DEF allocate_btc_address
  <2>4. holders' \in Seq(Accounts)
    BY <2>1, HoldersGrow DEF allocate_btc_address
  <2> QED
    BY <1>1, <1>2, <2>1, <2>3, <2>4 DEF AddressTyped, allocate_btc_address
<1>4. CASE OnlyAsking
  BY <1>1, <1>2, <1>4 DEF AddressTyped, OnlyAsking
<1>5. CASE Pays
  <2>1. PICK o \in Outputs, a \in 1..Len(holders) : Pay(o, a)
    BY <1>5 DEF Pays
  <2>2. a \in Nat
    OBVIOUS
  <2> QED
    BY <1>1, <1>2, <2>1, <2>2 DEF AddressTyped, Pay
<1>6. CASE Tells
  <2>1. PICK o \in Outputs, c \in Depths \union {Unseen} : process_btc_events(o, c)
    BY <1>6 DEF Tells
  <2>2. inbox' \in Seq(AddressUpdates)
    BY <2>1, UpdateFacts, InboxGrows DEF process_btc_events
  <2> QED
    BY <1>1, <1>2, <2>1, <2>2 DEF AddressTyped, process_btc_events
<1>7. CASE update_worker
  <2>1. inbox' \in Seq(AddressUpdates) /\ Head(inbox) = inbox[1] /\ 1 \in DOMAIN inbox
    BY <1>7, InboxShrinks DEF update_worker
  <2>2. PICK e : e = Head(inbox)
    OBVIOUS
  <2>3. e \in AddressUpdates
    BY <2>1, <2>2 DEF AddressTyped
  <2>4. with_deposit_address(e) \/ set_exchange_address(e) \/ with_btc_tx(e)
    BY <1>7, <2>2 DEF update_worker
  <2>5. UNCHANGED <<holders, pays, reported>>
    BY <1>7 DEF update_worker
  <2>6. CASE with_deposit_address(e)
    <3>1. e.account \in Users /\ e.address \in Nat
      BY <2>3, <2>6, UpdateFacts DEF with_deposit_address, Accounts
    <3>2. deposit_info' \in [Users -> SUBSET Nat]
      BY <2>6, <3>1 DEF with_deposit_address, AddressTyped
    <3> QED
      BY <1>1, <1>2, <2>1, <2>5, <2>6, <3>2 DEF with_deposit_address, AddressTyped
  <2>7. CASE set_exchange_address(e)
    <3>1. e.address \in Nat
      BY <2>3, <2>7, UpdateFacts DEF set_exchange_address
    <3> QED
      BY <1>1, <1>2, <2>1, <2>5, <2>7, <3>1 DEF set_exchange_address, AddressTyped
  <2>8. CASE with_btc_tx(e)
    <3>1. credited' \in [Accounts -> [Outputs -> Depths \union {Unseen}]]
      BY <2>3, <2>8, ReportApplied
    <3> QED
      BY <1>1, <1>2, <2>1, <2>5, <2>8, <3>1 DEF with_btc_tx, AddressTyped
  <2> QED
    BY <2>4, <2>6, <2>7, <2>8
<1>8. CASE update_worker_drops
  <2>1. inbox' \in Seq(AddressUpdates)
    BY <1>8, InboxShrinks DEF update_worker_drops
  <2> QED
    BY <1>1, <1>2, <1>8, <2>1 DEF update_worker_drops, AddressTyped
<1>9. CASE HotWalletRestarts
  <2>1. inbox' \in Seq(AddressUpdates)
    BY <1>9, EmptySeq DEF HotWalletRestarts
  <2> QED
    BY <1>1, <1>2, <1>9, <2>1 DEF HotWalletRestarts, AddressTyped
<1> QED
  BY <1>3, <1>4, <1>5, <1>6, <1>7, <1>8, <1>9, AddressSteps

-----------------------------------------------------------------------------
(* Whose an address is.  What was made for an account stays its own.       *)
LEMMA HoldersStay ==
    ASSUME AddressTyped, [AddressNext]_addressVars
    PROVE  /\ \A a \in DOMAIN holders : a \in DOMAIN holders' /\ holders'[a] = holders[a]
           /\ \A h, a : MadeFor(h, a) => MadeFor(h, a)'
<1>1. \/ UNCHANGED holders
      \/ \E a \in Accounts : holders' = Append(holders, a)
  BY AddressSteps DEF Allocates, allocate_btc_address, OnlyAsking, Pays, Pay, Tells,
     process_btc_events, update_worker, update_worker_drops, HotWalletRestarts
<1>2. \A a \in DOMAIN holders : a \in DOMAIN holders' /\ holders'[a] = holders[a]
  BY <1>1, HoldersGrow
<1> QED
  BY <1>2 DEF MadeFor

(* What the channel holds after a step: what it held, or one update more.  *)
OldOrNew(e) ==
    \/ \E k \in DOMAIN inbox : e = inbox[k]
    \/ Allocates /\ \E a \in Accounts : e = AddressOf(a, Len(holders) + 1) /\ holders' = Append(holders, a)
    \/ \E o \in Outputs, c \in Depths \union {Unseen} :
          process_btc_events(o, c) /\ e = ReportOf(o, c)

LEMMA OnTheChannel ==
    ASSUME AddressTyped, [AddressNext]_addressVars
    PROVE  \A k \in DOMAIN inbox' : OldOrNew(inbox'[k])
<1>1. CASE Allocates
  <2>1. PICK a \in Accounts : allocate_btc_address(a)
    BY <1>1 DEF Allocates
  <2>2. Len(holders) + 1 \in Nat
    BY DEF AddressTyped
  <2>3. /\ DOMAIN inbox' = DOMAIN inbox \union {Len(inbox) + 1}
        /\ \A k \in DOMAIN inbox : inbox'[k] = inbox[k]
        /\ inbox'[Len(inbox) + 1] = AddressOf(a, Len(holders) + 1)
    BY <2>1, <2>2, UpdateFacts, InboxGrows DEF allocate_btc_address
  <2>4. holders' = Append(holders, a)
    BY <2>1 DEF allocate_btc_address
  <2> QED
    BY <1>1, <2>3, <2>4 DEF OldOrNew
<1>2. CASE Tells
  <2>1. PICK o \in Outputs, c \in Depths \union {Unseen} : process_btc_events(o, c)
    BY <1>2 DEF Tells
  <2>2. /\ DOMAIN inbox' = DOMAIN inbox \union {Len(inbox) + 1}
        /\ \A k \in DOMAIN inbox : inbox'[k] = inbox[k]
        /\ inbox'[Len(inbox) + 1] = ReportOf(o, c)
    BY <2>1, UpdateFacts, InboxGrows DEF process_btc_events
  <2> QED
    BY <2>1, <2>2 DEF OldOrNew
<1>3. CASE OnlyAsking \/ Pays
  BY <1>3 DEF OnlyAsking, Pays, Pay, OldOrNew
<1>4. CASE update_worker \/ update_worker_drops
  <2>1. inbox # <<>> /\ inbox' = Tail(inbox)
    BY <1>4 DEF update_worker, update_worker_drops
  <2> QED
    BY <2>1, InboxShrinks DEF OldOrNew
<1>5. CASE HotWalletRestarts
  <2>1. inbox' \in Seq(AddressUpdates) /\ Len(inbox') = 0
    BY <1>5, EmptySeq DEF HotWalletRestarts
  <2> QED
    BY <2>1
<1> QED
  BY <1>1, <1>2, <1>3, <1>4, <1>5, AddressSteps

LEMMA AddressesAreOwnedHolds ==
    ASSUME AddressTyped, AddressesAreOwned, [AddressNext]_addressVars
    PROVE  AddressesAreOwned'
<1>1. /\ \A u \in Users : \A a \in deposit_info'[u] : MadeFor(u, a)
      /\ exchange_address' # NoAddress => MadeFor(Exchange, exchange_address')
  <2>1. CASE update_worker
    <3>1. PICK e : e = Head(inbox)
      OBVIOUS
    <3>2. inbox # <<>> /\ inbox' = Tail(inbox)
      BY <2>1 DEF update_worker
    <3>3. e = inbox[1] /\ 1 \in DOMAIN inbox
      BY <3>1, <3>2, InboxShrinks
    <3>4. e \in AddressUpdates
      BY <3>3 DEF AddressTyped
    <3>5. e.type = "Address" => MadeFor(e.account, e.address)
      BY <3>3 DEF AddressesAreOwned, IsAddress
    <3>6. CASE with_deposit_address(e)
      <4>1. e.account \in Users
        BY <3>4, <3>6, UpdateFacts DEF with_deposit_address, Accounts
      <4>2. deposit_info \in [Users -> SUBSET Nat]
        BY DEF AddressTyped
      <4>3. \A u \in Users : \A a \in deposit_info'[u] :
               a \in deposit_info[u] \/ (u = e.account /\ a = e.address)
        BY <3>6, <4>1, <4>2 DEF with_deposit_address
      <4> QED
        BY <3>5, <3>6, <4>3 DEF with_deposit_address, AddressesAreOwned
    <3>7. CASE set_exchange_address(e)
      BY <3>5, <3>7 DEF set_exchange_address, AddressesAreOwned
    <3>8. CASE with_btc_tx(e)
      BY <3>8 DEF with_btc_tx, AddressesAreOwned
    <3> QED
      BY <2>1, <3>1, <3>6, <3>7, <3>8 DEF update_worker
  <2>2. CASE UNCHANGED <<deposit_info, exchange_address>>
    BY <2>2 DEF AddressesAreOwned
  <2> QED
    BY <2>1, <2>2, AddressSteps DEF Allocates, allocate_btc_address, OnlyAsking, Pays, Pay,
       Tells, process_btc_events, update_worker_drops, HotWalletRestarts
<1>2. ASSUME NEW k \in DOMAIN inbox', IsAddress(k)'
      PROVE  MadeFor(inbox[k].account, inbox[k].address)'
  <2>1. OldOrNew(inbox'[k])
    BY OnTheChannel
  <2>2. CASE \E j \in DOMAIN inbox : inbox'[k] = inbox[j]
    <3>1. PICK j \in DOMAIN inbox : inbox'[k] = inbox[j]
      BY <2>2
    <3>2. MadeFor(inbox[j].account, inbox[j].address)
      BY <1>2, <3>1 DEF AddressesAreOwned, IsAddress
    <3> QED
      BY <3>1, <3>2, HoldersStay DEF MadeFor
  <2>3. CASE \E a \in Accounts : inbox'[k] = AddressOf(a, Len(holders) + 1) /\ holders' = Append(holders, a)
    BY <2>3, HoldersGrow DEF AddressOf, MadeFor
  <2>4. CASE \E o \in Outputs, c \in Depths \union {Unseen} : inbox'[k] = ReportOf(o, c)
    BY <1>2, <2>4 DEF IsAddress, ReportOf
  <2> QED
    BY <2>1, <2>2, <2>3, <2>4 DEF OldOrNew
<1>3. /\ (\A u \in Users : \A a \in deposit_info[u] : MadeFor(u, a))'
      /\ (exchange_address # NoAddress => MadeFor(Exchange, exchange_address))'
  BY <1>1, HoldersStay DEF MadeFor
<1> QED
  BY <1>2, <1>3 DEF AddressesAreOwned, MadeFor

LEMMA PaymentsAreToAddressesHolds ==
    ASSUME AddressTyped, PaymentsAreToAddresses, [AddressNext]_addressVars
    PROVE  PaymentsAreToAddresses'
<1> USE DEF NoAddress
<1>1. \A o \in Outputs : pays[o] # NoAddress => pays'[o] = pays[o]
  <2>1. CASE Pays
    <3>1. PICK o \in Outputs, a \in 1..Len(holders) : Pay(o, a)
      BY <2>1 DEF Pays
    <3> QED
      BY <3>1 DEF Pay, AddressTyped
  <2> QED
    BY <2>1, AddressSteps DEF Allocates, allocate_btc_address, OnlyAsking,
       Tells, process_btc_events, update_worker, update_worker_drops, HotWalletRestarts
<1>2. ASSUME NEW o \in Outputs, pays'[o] # NoAddress PROVE pays'[o] \in DOMAIN holders'
  <2>1. CASE Pays
    <3>1. PICK q \in Outputs, a \in 1..Len(holders) : Pay(q, a)
      BY <2>1 DEF Pays
    <3>2. \A x \in Outputs : pays'[x] = pays[x] \/ pays'[x] = a
      BY <3>1 DEF Pay, AddressTyped
    <3>3. a \in DOMAIN holders
      BY DEF AddressTyped
    <3> QED
      BY <1>2, <3>2, <3>3, HoldersStay DEF PaymentsAreToAddresses
  <2>2. CASE UNCHANGED pays
    BY <1>2, <2>2, HoldersStay DEF PaymentsAreToAddresses
  <2> QED
    BY <2>1, <2>2, AddressSteps DEF Allocates, allocate_btc_address, OnlyAsking,
       Tells, process_btc_events, update_worker, update_worker_drops, HotWalletRestarts
<1>3. ASSUME NEW o \in Outputs, pays'[o] = NoAddress PROVE reported'[o] = Unseen
  <2>1. pays[o] = NoAddress /\ reported[o] = Unseen
    BY <1>1, <1>3 DEF PaymentsAreToAddresses
  <2>2. CASE Tells
    <3>1. PICK q \in Outputs, c \in Depths \union {Unseen} : process_btc_events(q, c)
      BY <2>2 DEF Tells
    <3>2. q # o
      BY <2>1, <3>1 DEF process_btc_events
    <3> QED
      BY <2>1, <3>1, <3>2 DEF process_btc_events, AddressTyped
  <2> QED
    BY <2>1, <2>2, AddressSteps DEF Allocates, allocate_btc_address, OnlyAsking, Pays, Pay,
       update_worker, update_worker_drops, HotWalletRestarts
<1>4. ASSUME NEW k \in DOMAIN inbox', NEW o \in Outputs, Reports(k, o)'
      PROVE  pays'[o] # NoAddress
  <2>1. OldOrNew(inbox'[k])
    BY OnTheChannel
  <2>2. CASE \E j \in DOMAIN inbox : inbox'[k] = inbox[j]
    BY <1>1, <1>4, <2>2 DEF Reports, PaymentsAreToAddresses
  <2>3. CASE \E a \in Accounts : inbox'[k] = AddressOf(a, Len(holders) + 1)
    BY <1>4, <2>3 DEF Reports, AddressOf
  <2>4. CASE \E q \in Outputs, c \in Depths \union {Unseen} :
                process_btc_events(q, c) /\ inbox'[k] = ReportOf(q, c)
    BY <1>1, <1>4, <2>4 DEF Reports, ReportOf, process_btc_events
  <2> QED
    BY <2>1, <2>2, <2>3, <2>4 DEF OldOrNew
<1> QED
  BY <1>2, <1>3, <1>4 DEF PaymentsAreToAddresses

LEMMA PaysStay ==
    ASSUME AddressTyped, [AddressNext]_addressVars, NEW o \in Outputs, pays[o] # NoAddress
    PROVE  pays'[o] = pays[o]
<1>1. CASE Pays
  <2>1. PICK q \in Outputs, a \in 1..Len(holders) : Pay(q, a)
    BY <1>1 DEF Pays
  <2> QED
    BY <2>1 DEF Pay, AddressTyped
<1> QED
  BY <1>1, AddressSteps DEF Allocates, allocate_btc_address, OnlyAsking,
     Tells, process_btc_events, update_worker, update_worker_drops, HotWalletRestarts

LEMMA OwnersAreHolders ==
    ASSUME AddressesAreOwned, NEW a, a # NoAddress, NEW h \in Owners(a)
    PROVE  MadeFor(h, a)
  BY DEF Owners, AddressesAreOwned

LEMMA CreditedToPayeeHolds ==
    ASSUME AddressTyped, AddressesAreOwned, PaymentsAreToAddresses, CreditedToPayee,
           [AddressNext]_addressVars
    PROVE  CreditedToPayee'
<1> SUFFICES ASSUME NEW h \in Accounts, NEW o \in Outputs, credited'[h][o] # Unseen
             PROVE  pays'[o] # NoAddress /\ holders'[pays'[o]] = h
  BY DEF CreditedToPayee
<1>1. ASSUME pays[o] # NoAddress, holders[pays[o]] = h
      PROVE  pays'[o] # NoAddress /\ holders'[pays'[o]] = h
  <2>1. pays'[o] = pays[o]
    BY <1>1, PaysStay
  <2>2. pays[o] \in DOMAIN holders
    BY <1>1 DEF PaymentsAreToAddresses
  <2> QED
    BY <1>1, <2>1, <2>2, HoldersStay
<1>2. CASE credited'[h][o] = credited[h][o]
  BY <1>1, <1>2 DEF CreditedToPayee
<1>3. CASE credited'[h][o] # credited[h][o]
  <2>1. update_worker
    BY <1>3, AddressSteps DEF Allocates, allocate_btc_address, OnlyAsking, Pays, Pay,
       Tells, process_btc_events, update_worker_drops, HotWalletRestarts
  <2>2. PICK e : e = Head(inbox)
    OBVIOUS
  <2>3. e = inbox[1] /\ 1 \in DOMAIN inbox
    BY <2>1, <2>2, InboxShrinks DEF update_worker
  <2>4. with_btc_tx(e)
    BY <1>3, <2>1, <2>2 DEF update_worker, with_deposit_address, set_exchange_address
  <2>5. e \in AddressUpdates
    BY <2>3 DEF AddressTyped
  <2>6. o = e.output /\ h \in Owners(pays[o])
    BY <1>3, <2>4, <2>5, ReportApplied
  <2>7. pays[o] # NoAddress
    BY <2>3, <2>4, <2>6 DEF PaymentsAreToAddresses, Reports, with_btc_tx
  <2> QED
    BY <1>1, <2>6, <2>7, OwnersAreHolders DEF MadeFor
<1> QED
  BY <1>2, <1>3

-----------------------------------------------------------------------------
(* The order of the channel.                                               *)
TakesOne == inbox # <<>> /\ inbox' = Tail(inbox) /\ UNCHANGED <<holders, pays, reported>>

LEMMA WorkerTakesOne ==
    update_worker \/ update_worker_drops => TakesOne
  BY DEF update_worker, update_worker_drops, TakesOne

(* The address in State changes to that of the update that is taken.       *)
LEMMA ExchangeAddressIsSet ==
    ASSUME AddressTyped, [AddressNext]_addressVars, exchange_address' # exchange_address
    PROVE  /\ 1 \in DOMAIN inbox /\ IsExchangeAddress(1) /\ exchange_address' = inbox[1].address
           /\ update_worker
<1>1. update_worker
  BY AddressSteps DEF Allocates, allocate_btc_address, OnlyAsking, Pays, Pay,
     Tells, process_btc_events, update_worker_drops, HotWalletRestarts
<1>2. PICK e : e = Head(inbox)
  OBVIOUS
<1>3. e = inbox[1] /\ 1 \in DOMAIN inbox
  BY <1>1, <1>2, InboxShrinks DEF update_worker
<1>4. set_exchange_address(e)
  BY <1>1, <1>2 DEF update_worker, with_deposit_address, with_btc_tx
<1> QED
  BY <1>1, <1>3, <1>4 DEF set_exchange_address, IsExchangeAddress

LEMMA ExchangeAddressesInOrderHolds ==
    ASSUME AddressTyped, AddressesAreOwned, ExchangeAddressesInOrder, [AddressNext]_addressVars
    PROVE  ExchangeAddressesInOrder'
<1>1. ASSUME inbox' = inbox, exchange_address' = exchange_address
      PROVE  ExchangeAddressesInOrder'
  BY <1>1 DEF ExchangeAddressesInOrder, IsExchangeAddress
<1>2. CASE Allocates
  <2>1. PICK a \in Accounts : allocate_btc_address(a)
    BY <1>2 DEF Allocates
  <2>2. PICK e : e = AddressOf(a, Len(holders) + 1)
    OBVIOUS
  <2>3. e \in AddressUpdates /\ e.address = Len(holders) + 1
    <3>1. Len(holders) + 1 \in Nat
      BY DEF AddressTyped
    <3> QED
      BY <2>2, <3>1, UpdateFacts DEF AddressOf
  <2>4. /\ DOMAIN inbox' = DOMAIN inbox \union {Len(inbox) + 1}
        /\ \A k \in DOMAIN inbox : inbox'[k] = inbox[k] /\ k < Len(inbox) + 1
        /\ inbox'[Len(inbox) + 1] = e
        /\ DOMAIN inbox \in SUBSET Nat /\ Len(inbox) \in Nat
    BY <2>1, <2>2, <2>3, InboxGrows DEF allocate_btc_address
  <2>5. \A b \in DOMAIN holders : b < e.address
    BY <2>1, <2>3, HoldersGrow DEF allocate_btc_address
  <2>6. exchange_address' = exchange_address /\ exchange_address < e.address
    <3>1. exchange_address = 0 \/ exchange_address \in DOMAIN holders
      BY DEF AddressesAreOwned, MadeFor, NoAddress
    <3>2. Len(holders) \in Nat
      BY DEF AddressTyped
    <3> QED
      BY <2>1, <2>3, <2>5, <3>1, <3>2 DEF allocate_btc_address
  <2>7. \A k \in DOMAIN inbox : IsExchangeAddress(k) => inbox[k].address < e.address
    BY <2>5 DEF AddressesAreOwned, MadeFor, IsAddress, IsExchangeAddress
  <2>8. \A k \in DOMAIN inbox' : IsExchangeAddress(k)' => inbox'[k].address > exchange_address'
    BY <2>4, <2>6 DEF ExchangeAddressesInOrder, IsExchangeAddress
  <2>9. ASSUME NEW k \in DOMAIN inbox', NEW j \in DOMAIN inbox',
               j < k, IsExchangeAddress(j)', IsExchangeAddress(k)'
        PROVE  inbox'[j].address < inbox'[k].address
    <3>1. j \in DOMAIN inbox
      BY <2>4, <2>9
    <3>2. CASE k \in DOMAIN inbox
      BY <2>4, <2>9, <3>1, <3>2 DEF ExchangeAddressesInOrder, IsExchangeAddress
    <3>3. CASE k = Len(inbox) + 1
      BY <2>4, <2>7, <2>9, <3>1, <3>3 DEF IsExchangeAddress
    <3> QED
      BY <2>4, <3>2, <3>3
  <2> QED
    BY <2>8, <2>9 DEF ExchangeAddressesInOrder
<1>3. CASE OnlyAsking \/ Pays
  BY <1>1, <1>3 DEF OnlyAsking, Pays, Pay
<1>4. CASE Tells
  <2>1. PICK o \in Outputs, c \in Depths \union {Unseen} : process_btc_events(o, c)
    BY <1>4 DEF Tells
  <2>2. /\ DOMAIN inbox' = DOMAIN inbox \union {Len(inbox) + 1}
        /\ \A k \in DOMAIN inbox : inbox'[k] = inbox[k]
        /\ inbox'[Len(inbox) + 1].type = "Report"
    BY <2>1, UpdateFacts, InboxGrows DEF process_btc_events, ReportOf
  <2>3. exchange_address' = exchange_address
    BY <2>1 DEF process_btc_events
  <2> QED
    BY <2>2, <2>3 DEF ExchangeAddressesInOrder, IsExchangeAddress
<1>5. CASE update_worker \/ update_worker_drops
  <2>1. inbox # <<>> /\ inbox' = Tail(inbox)
    BY <1>5, WorkerTakesOne DEF TakesOne
  <2>2. /\ \A k \in DOMAIN inbox' : k + 1 \in DOMAIN inbox /\ inbox'[k] = inbox[k + 1]
        /\ 1 \in DOMAIN inbox /\ DOMAIN inbox' \in SUBSET Nat
        /\ \A k \in DOMAIN inbox' : k > 0
    BY <2>1, InboxShrinks
  <2>3. ASSUME NEW k \in DOMAIN inbox', IsExchangeAddress(k)'
        PROVE  inbox'[k].address > exchange_address'
    <3>1. k + 1 \in DOMAIN inbox /\ inbox'[k] = inbox[k + 1] /\ 1 < k + 1
      BY <2>2
    <3>2. IsExchangeAddress(k + 1)
      BY <2>3, <3>1 DEF IsExchangeAddress
    <3>3. CASE exchange_address' = exchange_address
      BY <3>1, <3>2, <3>3 DEF ExchangeAddressesInOrder
    <3>4. CASE exchange_address' # exchange_address
      <4>1. IsExchangeAddress(1) /\ exchange_address' = inbox[1].address
        BY <3>4, ExchangeAddressIsSet
      <4>2. inbox[1].address < inbox[k + 1].address
        BY <2>2, <3>1, <3>2, <4>1 DEF ExchangeAddressesInOrder
      <4>3. inbox[1].address \in Nat /\ inbox[k + 1].address \in Nat
        <5>1. inbox[1] \in AddressUpdates /\ inbox[k + 1] \in AddressUpdates
          BY <2>2, <3>1 DEF AddressTyped
        <5> QED
          BY <3>2, <4>1, <5>1, UpdateFacts DEF IsExchangeAddress
      <4> QED
        BY <3>1, <4>1, <4>2, <4>3
    <3> QED
      BY <3>3, <3>4
  <2>4. ASSUME NEW k \in DOMAIN inbox', NEW j \in DOMAIN inbox',
               j < k, IsExchangeAddress(j)', IsExchangeAddress(k)'
        PROVE  inbox'[j].address < inbox'[k].address
    <3>1. /\ k + 1 \in DOMAIN inbox /\ j + 1 \in DOMAIN inbox /\ j + 1 < k + 1
          /\ inbox'[k] = inbox[k + 1] /\ inbox'[j] = inbox[j + 1]
      BY <2>2, <2>4
    <3>2. IsExchangeAddress(k + 1) /\ IsExchangeAddress(j + 1)
      BY <2>4, <3>1 DEF IsExchangeAddress
    <3> QED
      BY <3>1, <3>2 DEF ExchangeAddressesInOrder
  <2> QED
    BY <2>3, <2>4 DEF ExchangeAddressesInOrder
<1>6. CASE HotWalletRestarts
  <2>1. inbox' \in Seq(AddressUpdates) /\ Len(inbox') = 0
    BY <1>6, EmptySeq DEF HotWalletRestarts
  <2>2. DOMAIN inbox' = {}
    BY <2>1
  <2> QED
    BY <2>2 DEF ExchangeAddressesInOrder
<1> QED
  BY <1>2, <1>3, <1>4, <1>5, <1>6, AddressSteps

LEMMA AddressesComeFirstHolds ==
    ASSUME AddressTyped, AddressesAreOwned, PaymentsAreToAddresses, AddressesComeFirst,
           [AddressNext]_addressVars
    PROVE  AddressesComeFirst'
<1> SUFFICES ASSUME NEW k \in DOMAIN inbox', NEW j \in DOMAIN inbox', NEW o \in Outputs,
                    j < k, IsAddress(k)', Reports(j, o)'
             PROVE  pays'[o] # inbox'[k].address
  BY DEF AddressesComeFirst
<1>1. CASE Allocates
  <2>1. PICK a \in Accounts : allocate_btc_address(a)
    BY <1>1 DEF Allocates
  <2>2. PICK e : e = AddressOf(a, Len(holders) + 1)
    OBVIOUS
  <2>3. e \in AddressUpdates /\ e.type = "Address" /\ e.address = Len(holders) + 1
    <3>1. Len(holders) + 1 \in Nat
      BY DEF AddressTyped
    <3> QED
      BY <2>2, <3>1, UpdateFacts DEF AddressOf
  <2>4. /\ DOMAIN inbox' = DOMAIN inbox \union {Len(inbox) + 1}
        /\ \A i \in DOMAIN inbox : inbox'[i] = inbox[i] /\ i < Len(inbox) + 1
        /\ inbox'[Len(inbox) + 1] = e
        /\ DOMAIN inbox \in SUBSET Nat /\ Len(inbox) \in Nat
    BY <2>1, <2>2, <2>3, InboxGrows DEF allocate_btc_address
  <2>5. pays' = pays
    BY <2>1 DEF allocate_btc_address
  <2>6. j \in DOMAIN inbox /\ Reports(j, o)
    BY <2>3, <2>4 DEF Reports
  <2>7. CASE k \in DOMAIN inbox
    BY <2>4, <2>5, <2>6, <2>7 DEF AddressesComeFirst, IsAddress
  <2>8. CASE k = Len(inbox) + 1
    <3>1. pays[o] \in DOMAIN holders
      BY <2>6 DEF PaymentsAreToAddresses
    <3>2. pays[o] < Len(holders) + 1 /\ pays[o] \in Nat
      BY <2>1, <3>1, HoldersGrow DEF allocate_btc_address
    <3> QED
      BY <2>3, <2>4, <2>5, <2>8, <3>2
  <2> QED
    BY <2>4, <2>7, <2>8
<1>2. CASE OnlyAsking
  BY <1>2 DEF OnlyAsking, AddressesComeFirst, IsAddress, Reports
<1>3. CASE Pays
  <2>1. inbox' = inbox
    BY <1>3 DEF Pays, Pay
  <2>2. Reports(j, o)
    BY <2>1 DEF Reports
  <2>3. pays'[o] = pays[o]
    BY <2>1, <2>2, PaysStay DEF PaymentsAreToAddresses
  <2> QED
    BY <2>1, <2>2, <2>3 DEF AddressesComeFirst, IsAddress
<1>4. CASE Tells
  <2>1. PICK q \in Outputs, c \in Depths \union {Unseen} : process_btc_events(q, c)
    BY <1>4 DEF Tells
  <2>2. /\ DOMAIN inbox' = DOMAIN inbox \union {Len(inbox) + 1}
        /\ \A i \in DOMAIN inbox : inbox'[i] = inbox[i] /\ i < Len(inbox) + 1
        /\ inbox'[Len(inbox) + 1].type = "Report"
        /\ DOMAIN inbox \in SUBSET Nat /\ Len(inbox) \in Nat
    BY <2>1, UpdateFacts, InboxGrows DEF process_btc_events, ReportOf
  <2>3. k \in DOMAIN inbox
    BY <2>2 DEF IsAddress
  <2>4. j \in DOMAIN inbox
    BY <2>2, <2>3
  <2>5. pays' = pays
    BY <2>1 DEF process_btc_events
  <2> QED
    BY <2>2, <2>3, <2>4, <2>5 DEF AddressesComeFirst, IsAddress, Reports
<1>5. CASE update_worker \/ update_worker_drops
  <2>1. inbox # <<>> /\ inbox' = Tail(inbox) /\ pays' = pays
    BY <1>5, WorkerTakesOne DEF TakesOne
  <2>2. /\ k + 1 \in DOMAIN inbox /\ j + 1 \in DOMAIN inbox /\ j + 1 < k + 1
        /\ inbox'[k] = inbox[k + 1] /\ inbox'[j] = inbox[j + 1]
    BY <2>1, InboxShrinks
  <2>3. IsAddress(k + 1) /\ Reports(j + 1, o)
    BY <2>2 DEF IsAddress, Reports
  <2> QED
    BY <2>1, <2>2, <2>3 DEF AddressesComeFirst
<1>6. CASE HotWalletRestarts
  <2>1. inbox' \in Seq(AddressUpdates) /\ Len(inbox') = 0
    BY <1>6, EmptySeq DEF HotWalletRestarts
  <2> QED
    BY <2>1
<1> QED
  BY <1>1, <1>2, <1>3, <1>4, <1>5, <1>6, AddressSteps

-----------------------------------------------------------------------------
(* No address is forgotten but for a later one of the exchange.            *)
LEMMA NothingLostIsKept ==
    ASSUME [AddressNext]_addressVars
    PROVE  /\ NothingIsLost' = NothingIsLost
           /\ NothingIsLost => ~ update_worker_drops /\ ~ HotWalletRestarts
  BY AddressSteps DEF NothingIsLost, update_worker_drops, HotWalletRestarts

LEMMA DepositInfoGrows ==
    ASSUME AddressTyped, [AddressNext]_addressVars, NEW u \in Users
    PROVE  deposit_info[u] \subseteq deposit_info'[u]
<1>1. CASE update_worker
  <2>1. PICK e : e = Head(inbox)
    OBVIOUS
  <2>2. CASE with_deposit_address(e)
    BY <2>2 DEF with_deposit_address, AddressTyped
  <2>3. CASE set_exchange_address(e) \/ with_btc_tx(e)
    BY <2>3 DEF set_exchange_address, with_btc_tx
  <2> QED
    BY <1>1, <2>1, <2>2, <2>3 DEF update_worker
<1> QED
  BY <1>1, AddressSteps DEF Allocates, allocate_btc_address, OnlyAsking, Pays, Pay,
     Tells, process_btc_events, update_worker_drops, HotWalletRestarts

LEMMA LastingWasLasting ==
    ASSUME AddressTyped, [AddressNext]_addressVars, NEW a \in DOMAIN holders, Lasting(a)'
    PROVE  Lasting(a) /\ a \in Nat /\ a > 0 /\ holders[a] \in Accounts
<1>1. Lasting(a)
  BY HoldersStay DEF Lasting
<1> QED
  BY <1>1 DEF AddressTyped

LEMMA AddressesAreKeptHolds ==
    ASSUME AddressTyped, AddressesAreOwned, ExchangeAddressesInOrder, AddressesAreKept,
           [AddressNext]_addressVars
    PROVE  AddressesAreKept'
<1> SUFFICES ASSUME NothingIsLost, NEW a \in DOMAIN holders', Lasting(a)'
             PROVE  InState(a)' \/ Queued(a)'
  BY NothingLostIsKept DEF AddressesAreKept
<1>1. CASE a \notin DOMAIN holders
  <2>1. Allocates
    BY <1>1, AddressSteps DEF OnlyAsking, Pays, Pay, Tells, process_btc_events,
       update_worker, update_worker_drops, HotWalletRestarts
  <2>2. PICK h \in Accounts : allocate_btc_address(h)
    BY <2>1 DEF Allocates
  <2>3. a = Len(holders) + 1 /\ a \in Nat
    BY <1>1, <2>2, HoldersGrow DEF allocate_btc_address
  <2>4. PICK e : e = AddressOf(h, a)
    OBVIOUS
  <2>5. e \in AddressUpdates /\ e.type = "Address" /\ e.address = a
    BY <2>3, <2>4, UpdateFacts DEF AddressOf
  <2>6. Len(inbox) + 1 \in DOMAIN inbox' /\ inbox'[Len(inbox) + 1] = e
    BY <2>2, <2>3, <2>4, <2>5, InboxGrows DEF allocate_btc_address
  <2> QED
    BY <2>5, <2>6 DEF Queued, IsAddress
<1>2. CASE a \in DOMAIN holders /\ InState(a)
  <2>1. /\ holders'[a] = holders[a] /\ a \in Nat /\ a > 0 /\ holders[a] \in Accounts
        /\ Lasting(a)
    BY <1>2, HoldersStay, LastingWasLasting
  <2>2. CASE holders[a] = Exchange
    <3>1. exchange_address = a
      BY <1>2, <2>2 DEF InState
    <3>2. ASSUME exchange_address' # exchange_address PROVE FALSE
      <4>1. 1 \in DOMAIN inbox /\ IsExchangeAddress(1)
        BY <3>2, ExchangeAddressIsSet
      <4>2. inbox[1].address > a
        BY <3>1, <4>1 DEF ExchangeAddressesInOrder
      <4>3. MadeFor(Exchange, inbox[1].address)
        BY <4>1 DEF AddressesAreOwned, IsAddress, IsExchangeAddress
      <4> QED
        BY <2>1, <2>2, <4>2, <4>3 DEF Lasting, MadeFor
    <3> QED
      BY <2>1, <2>2, <3>1, <3>2 DEF InState
  <2>3. CASE holders[a] # Exchange
    <3>1. holders[a] \in Users /\ a \in deposit_info[holders[a]]
      BY <1>2, <2>1, <2>3 DEF InState, Accounts
    <3>2. a \in deposit_info'[holders[a]]
      BY <3>1, DepositInfoGrows
    <3> QED
      BY <2>1, <2>3, <3>2 DEF InState
  <2> QED
    BY <2>2, <2>3
<1>3. CASE a \in DOMAIN holders /\ Queued(a)
  <2>1. PICK k \in DOMAIN inbox : IsAddress(k) /\ inbox[k].address = a
    BY <1>3 DEF Queued
  <2>2. CASE OnlyAsking \/ Pays
    BY <2>1, <2>2 DEF OnlyAsking, Pays, Pay, Queued, IsAddress
  <2>3. CASE Allocates \/ Tells
    <3>1. k \in DOMAIN inbox' /\ inbox'[k] = inbox[k]
      <4>1. \E e \in AddressUpdates : inbox' = Append(inbox, e)
        <5>1. Len(holders) + 1 \in Nat
          BY DEF AddressTyped
        <5> QED
          BY <2>3, <5>1, UpdateFacts DEF Allocates, Tells, allocate_btc_address, process_btc_events
      <4> QED
        BY <4>1, InboxGrows
    <3> QED
      BY <2>1, <3>1 DEF Queued, IsAddress
  <2>4. CASE update_worker
    <3>1. inbox # <<>> /\ inbox' = Tail(inbox) /\ holders' = holders
      BY <2>4, WorkerTakesOne DEF TakesOne
    <3>2. CASE k # 1
      <4>1. k - 1 \in DOMAIN inbox' /\ inbox'[k - 1] = inbox[k]
        BY <3>1, <3>2, InboxShrinks
      <4> QED
        BY <2>1, <4>1 DEF Queued, IsAddress
    <3>3. CASE k = 1
      <4>1. PICK e : e = inbox[1]
        OBVIOUS
      <4>2. e = Head(inbox) /\ e \in AddressUpdates /\ e.type = "Address" /\ e.address = a
        BY <2>1, <3>1, <3>3, <4>1, InboxShrinks DEF AddressTyped, IsAddress
      <4>3. MadeFor(e.account, a)
        BY <2>1, <3>3, <4>1, <4>2 DEF AddressesAreOwned
      <4>4. CASE with_deposit_address(e)
        <5>1. e.account \in Users
          BY <4>2, <4>4, UpdateFacts DEF with_deposit_address, Accounts
        <5>2. a \in deposit_info'[e.account]
          BY <4>2, <4>4, <5>1 DEF with_deposit_address, AddressTyped
        <5> QED
          BY <3>1, <4>3, <4>4, <5>2 DEF InState, MadeFor, with_deposit_address
      <4>5. CASE set_exchange_address(e)
        BY <3>1, <4>2, <4>3, <4>5 DEF InState, MadeFor, set_exchange_address
      <4>6. ~ with_btc_tx(e)
        BY <4>2 DEF with_btc_tx
      <4> QED
        BY <2>4, <4>2, <4>4, <4>5, <4>6 DEF update_worker
    <3> QED
      BY <3>2, <3>3
  <2> QED
    BY <2>2, <2>3, <2>4, AddressSteps, NothingLostIsKept
<1>4. a \in DOMAIN holders => InState(a) \/ Queued(a)
  BY LastingWasLasting DEF AddressesAreKept
<1> QED
  BY <1>1, <1>2, <1>3, <1>4

-----------------------------------------------------------------------------
(* Operators that take turns are all given the same address.               *)
LEMMA OperatorsTakeTurnsHolds ==
    ASSUME AddressTyped, AddressesAreOwned, AddressesAreKept, OperatorsTakeTurns,
           [AddressNext]_addressVars
    PROVE  OperatorsTakeTurns'
<1>1. OneAtATime' = OneAtATime
  BY AddressSteps DEF OneAtATime
<1> SUFFICES ASSUME NothingIsLost, OneAtATime
             PROVE  /\ \A p \in asking' : \A q \in asking' : p = q
                    /\ asking' # {} => \A a \in DOMAIN holders' : holders'[a] # Exchange
                    /\ \A a \in DOMAIN holders' : \A b \in DOMAIN holders' :
                          holders'[a] = Exchange /\ holders'[b] = Exchange => a = b
  BY <1>1, NothingLostIsKept DEF OperatorsTakeTurns
<1>2. /\ \A p \in asking : \A q \in asking : p = q
      /\ asking # {} => \A a \in DOMAIN holders : holders[a] # Exchange
      /\ \A a \in DOMAIN holders : \A b \in DOMAIN holders :
            holders[a] = Exchange /\ holders[b] = Exchange => a = b
  BY DEF OperatorsTakeTurns
<1>3. CASE asking' \in SUBSET asking /\ holders' = holders
  BY <1>2, <1>3
<1>4. ASSUME NEW u \in Users, get_deposit_address(u)
      PROVE  /\ asking' = asking
             /\ DOMAIN holders' = DOMAIN holders \union {Len(holders) + 1}
             /\ \A b \in DOMAIN holders : holders'[b] = holders[b]
             /\ holders'[Len(holders) + 1] # Exchange
  <2>1. u \in Accounts /\ u # Exchange
    BY AddressConstants DEF Accounts
  <2> QED
    BY <1>4, <2>1, HoldersGrow DEF get_deposit_address, allocate_btc_address
<1>5. ASSUME NEW p \in Operators, get_exchange_address(p)
      PROVE  /\ asking' = {p} /\ holders' = holders
             /\ \A a \in DOMAIN holders : holders[a] # Exchange
  <2>1. /\ asking' = {p} /\ holders' = holders
        /\ exchange_address = NoAddress /\ ~ ExchangeAddressQueued
    BY <1>5 DEF get_exchange_address, OneAtATime
  <2>2. ASSUME NEW a \in DOMAIN holders, holders[a] = Exchange PROVE FALSE
    <3>1. a \in Nat /\ a > 0
      BY DEF AddressTyped
    <3>2. Lasting(a)
      <4>1. \A b \in DOMAIN holders : b \in Nat /\ (holders[b] = Exchange => b = a)
        BY <1>2, <2>2 DEF AddressTyped
      <4> QED
        BY <3>1, <4>1 DEF Lasting
    <3>3. ~ InState(a)
      BY <2>1, <2>2, <3>1 DEF InState, NoAddress
    <3>4. PICK k \in DOMAIN inbox : IsAddress(k) /\ inbox[k].address = a
      BY <3>2, <3>3 DEF AddressesAreKept, Queued
    <3>5. inbox[k].account = Exchange
      BY <2>2, <3>4 DEF AddressesAreOwned, MadeFor
    <3> QED
      BY <2>1, <3>4, <3>5 DEF ExchangeAddressQueued, IsAddress
  <2> QED
    BY <2>1, <2>2
<1>6. ASSUME NEW p \in Operators, answer_operator(p), allocate_btc_address(Exchange)
      PROVE  /\ asking' = {}
             /\ DOMAIN holders' = DOMAIN holders \union {Len(holders) + 1}
             /\ \A b \in DOMAIN holders : holders'[b] = holders[b] /\ holders[b] # Exchange
  <2>1. p \in asking /\ asking' = asking \ {p}
    BY <1>6 DEF answer_operator
  <2>2. Exchange \in Accounts /\ holders' = Append(holders, Exchange)
    BY <1>6 DEF allocate_btc_address, Accounts
  <2> QED
    BY <1>2, <2>1, <2>2, HoldersGrow
<1>7. ASSUME NEW p \in Operators, answer_operator(p), ~ allocate_btc_address(Exchange)
      PROVE  asking' \in SUBSET asking /\ holders' = holders
  BY <1>7 DEF answer_operator
<1>8. CASE UNCHANGED addressVars
  BY <1>3, <1>8 DEF addressVars, addressState
<1>9. CASE AddressNext
  <2>1. CASE \E u \in Users : get_deposit_address(u)
    BY <1>2, <1>4, <2>1
  <2>2. CASE \E p \in Operators : get_exchange_address(p)
    BY <1>2, <1>5, <2>2
  <2>3. CASE \E p \in Operators : answer_operator(p)
    BY <1>2, <1>3, <1>6, <1>7, <2>3
  <2>4. CASE Pays \/ Tells \/ update_worker
    BY <1>3, <2>4 DEF Pays, Pay, Tells, process_btc_events, update_worker
  <2> QED
    BY <1>9, <2>1, <2>2, <2>3, <2>4, NothingLostIsKept DEF AddressNext, Pays, Tells
<1> QED
  BY <1>8, <1>9

-----------------------------------------------------------------------------
(* State has the last report of a payment, or it is on the channel.        *)
LEMMA LastReportIsCurrent ==
    ASSUME AddressTyped, ReportsAreCurrent, [AddressNext]_addressVars,
           NEW k \in DOMAIN inbox', NEW o \in Outputs, Reports(k, o)', NoneReports(k, o)'
    PROVE  inbox'[k].confirmations = reported'[o]
<1>1. CASE Allocates
  <2>1. PICK a \in Accounts : allocate_btc_address(a)
    BY <1>1 DEF Allocates
  <2>2. PICK e : e = AddressOf(a, Len(holders) + 1)
    OBVIOUS
  <2>3. e \in AddressUpdates /\ e.type = "Address"
    <3>1. Len(holders) + 1 \in Nat
      BY DEF AddressTyped
    <3> QED
      BY <2>2, <3>1, UpdateFacts DEF AddressOf
  <2>4. /\ DOMAIN inbox' = DOMAIN inbox \union {Len(inbox) + 1}
        /\ \A i \in DOMAIN inbox : inbox'[i] = inbox[i]
        /\ inbox'[Len(inbox) + 1] = e
    BY <2>1, <2>2, <2>3, InboxGrows DEF allocate_btc_address
  <2>5. k \in DOMAIN inbox /\ Reports(k, o) /\ NoneReports(k, o) /\ inbox'[k] = inbox[k]
    BY <2>3, <2>4 DEF Reports, NoneReports
  <2> QED
    BY <2>1, <2>5 DEF ReportsAreCurrent, allocate_btc_address
<1>2. CASE OnlyAsking \/ Pays
  BY <1>2 DEF OnlyAsking, Pays, Pay, ReportsAreCurrent, Reports, NoneReports
<1>3. CASE Tells
  <2>1. PICK q \in Outputs, c \in Depths \union {Unseen} : process_btc_events(q, c)
    BY <1>3 DEF Tells
  <2>2. PICK e : e = ReportOf(q, c)
    OBVIOUS
  <2>3. /\ e \in AddressUpdates /\ e.type = "Report" /\ e.output = q
        /\ e.confirmations = c
    BY <2>2, UpdateFacts DEF ReportOf
  <2>4. /\ DOMAIN inbox' = DOMAIN inbox \union {Len(inbox) + 1}
        /\ \A i \in DOMAIN inbox : inbox'[i] = inbox[i] /\ i < Len(inbox) + 1
        /\ inbox'[Len(inbox) + 1] = e
    BY <2>1, <2>2, <2>3, InboxGrows DEF process_btc_events
  <2>5. reported' = [reported EXCEPT ![q] = c]
    BY <2>1 DEF process_btc_events
  <2>6. CASE k \in DOMAIN inbox
    <3>1. o # q
      BY <2>3, <2>4, <2>6 DEF NoneReports, Reports
    <3>2. Reports(k, o) /\ NoneReports(k, o) /\ inbox'[k] = inbox[k]
      BY <2>4, <2>6 DEF Reports, NoneReports
    <3>3. reported'[o] = reported[o]
      BY <2>5, <3>1 DEF AddressTyped
    <3> QED
      BY <2>6, <3>2, <3>3 DEF ReportsAreCurrent
  <2>7. CASE k = Len(inbox) + 1
    BY <2>3, <2>4, <2>5, <2>7 DEF Reports, AddressTyped
  <2> QED
    BY <2>4, <2>6, <2>7
<1>4. CASE update_worker \/ update_worker_drops
  <2>1. inbox # <<>> /\ inbox' = Tail(inbox) /\ reported' = reported
    BY <1>4, WorkerTakesOne DEF TakesOne
  <2>2. /\ \A i \in DOMAIN inbox' : i + 1 \in DOMAIN inbox /\ inbox'[i] = inbox[i + 1]
        /\ \A i \in DOMAIN inbox : i # 1 => i - 1 \in DOMAIN inbox' /\ inbox'[i - 1] = inbox[i]
        /\ DOMAIN inbox \in SUBSET Nat /\ DOMAIN inbox' \in SUBSET Nat
        /\ \A i \in DOMAIN inbox' : i > 0
    BY <2>1, InboxShrinks
  <2>3. Reports(k + 1, o)
    BY <2>2 DEF Reports
  <2>4. ASSUME NEW j \in DOMAIN inbox, j > k + 1 PROVE ~ Reports(j, o)
    <3>1. j # 1 /\ j - 1 > k
      BY <2>2, <2>4
    <3> QED
      BY <2>2, <3>1 DEF NoneReports, Reports
  <2> QED
    BY <2>1, <2>2, <2>3, <2>4 DEF ReportsAreCurrent, NoneReports
<1>5. CASE HotWalletRestarts
  <2>1. inbox' \in Seq(AddressUpdates) /\ Len(inbox') = 0
    BY <1>5, EmptySeq DEF HotWalletRestarts
  <2> QED
    BY <2>1
<1> QED
  BY <1>1, <1>2, <1>3, <1>4, <1>5, AddressSteps

(* The account of an address that comes before its reports is found.       *)
LEMMA PayeeIsFound ==
    ASSUME AddressTyped, AddressesAreOwned, PaymentsAreToAddresses, AddressesComeFirst,
           AddressesAreKept, NothingIsLost, inbox # <<>>,
           NEW o \in Outputs, Reports(1, o), Lasting(pays[o])
    PROVE  Owners(pays[o]) = {holders[pays[o]]}
<1>1. 1 \in DOMAIN inbox /\ DOMAIN inbox \in SUBSET Nat /\ \A k \in DOMAIN inbox : k > 0
  <2>1. inbox \in Seq(AddressUpdates)
    BY DEF AddressTyped
  <2>2. Len(inbox) \in Nat /\ Len(inbox) # 0 /\ DOMAIN inbox = 1..Len(inbox)
    BY <2>1, EmptySeq
  <2> QED
    BY <2>2
<1>2. pays[o] # NoAddress /\ pays[o] \in DOMAIN holders
  BY <1>1 DEF PaymentsAreToAddresses
<1>3. ~ Queued(pays[o])
  <2>1. ASSUME NEW k \in DOMAIN inbox, IsAddress(k), inbox[k].address = pays[o] PROVE FALSE
    <3>1. k # 1
      BY <2>1 DEF IsAddress, Reports
    <3>2. 1 < k
      BY <1>1, <3>1
    <3> QED
      BY <1>1, <2>1, <3>2 DEF AddressesComeFirst
  <2> QED
    BY <2>1 DEF Queued
<1>4. InState(pays[o])
  BY <1>2, <1>3 DEF AddressesAreKept
<1>5. CASE holders[pays[o]] = Exchange
  BY <1>4, <1>5 DEF InState, Owners
<1>6. CASE holders[pays[o]] # Exchange
  <2>1. pays[o] \in deposit_info[holders[pays[o]]] /\ holders[pays[o]] \in Users
    BY <1>2, <1>4, <1>6 DEF InState, AddressTyped, Accounts
  <2>2. pays[o] # exchange_address
    BY <1>2, <1>6 DEF AddressesAreOwned, MadeFor
  <2>3. \A u \in Users : pays[o] \in deposit_info[u] => u = holders[pays[o]]
    BY DEF AddressesAreOwned, MadeFor
  <2> QED
    BY <2>1, <2>2, <2>3 DEF Owners
<1> QED
  BY <1>5, <1>6

LEMMA LastReportIsApplied ==
    ASSUME AddressTyped, AddressesAreOwned, PaymentsAreToAddresses, CreditedToPayee,
           AddressesComeFirst, AddressesAreKept, ReportsAreCurrent, [AddressNext]_addressVars,
           NothingIsLost, NEW o \in Outputs,
           pays'[o] # NoAddress, Lasting(pays[o])', NoneReports(0, o)'
    PROVE  credited'[holders'[pays'[o]]][o] = reported'[o]
<1>1. CASE pays[o] = NoAddress
  <2>1. Pays
    BY <1>1, AddressSteps DEF Allocates, allocate_btc_address, OnlyAsking, Tells,
       process_btc_events, update_worker, update_worker_drops, HotWalletRestarts
  <2>2. PICK q \in Outputs, a \in 1..Len(holders) : Pay(q, a)
    BY <2>1 DEF Pays
  <2>3. credited' = credited /\ reported' = reported /\ holders' = holders
    BY <2>2 DEF Pay
  <2>4. \A x \in Outputs : pays'[x] = pays[x] \/ pays'[x] = a
    BY <2>2 DEF Pay, AddressTyped
  <2>5. pays'[o] = a /\ holders[a] \in Accounts
    BY <1>1, <2>4 DEF AddressTyped
  <2>6. reported[o] = Unseen
    BY <1>1 DEF PaymentsAreToAddresses
  <2>7. credited[holders[a]][o] = Unseen
    BY <1>1, <2>5 DEF CreditedToPayee
  <2> QED
    BY <2>3, <2>5, <2>6, <2>7
<1>2. CASE pays[o] # NoAddress
  <2>1. pays'[o] = pays[o] /\ pays[o] \in DOMAIN holders
    BY <1>2, PaysStay DEF PaymentsAreToAddresses
  <2>2. PICK a : a = pays[o]
    OBVIOUS
  <2>3. holders'[a] = holders[a] /\ holders[a] \in Accounts /\ Lasting(a)
    <3>1. Lasting(a)'
      BY <2>1, <2>2 DEF Lasting
    <3> QED
      BY <2>1, <2>2, <3>1, HoldersStay, LastingWasLasting
  <2>4. ASSUME NoneReports(0, o) PROVE credited[holders[a]][o] = reported[o]
    BY <1>2, <2>2, <2>3, <2>4 DEF ReportsAreCurrent
  <2>5. SUFFICES credited'[holders[a]][o] = reported'[o]
    BY <2>1, <2>2, <2>3
  <2>6. CASE OnlyAsking \/ Pays
    <3>1. NoneReports(0, o)
      BY <2>6 DEF OnlyAsking, Pays, Pay, NoneReports, Reports
    <3> QED
      BY <2>4, <2>6, <3>1 DEF OnlyAsking, Pays, Pay
  <2>7. ASSUME NEW e \in AddressUpdates, inbox' = Append(inbox, e)
        PROVE  NoneReports(0, o) /\ ~ (e.type = "Report" /\ e.output = o)
    <3>1. /\ DOMAIN inbox' = DOMAIN inbox \union {Len(inbox) + 1}
          /\ \A i \in DOMAIN inbox : inbox'[i] = inbox[i]
          /\ inbox'[Len(inbox) + 1] = e
          /\ Len(inbox) \in Nat
      BY <2>7, InboxGrows
    <3> QED
      BY <3>1 DEF NoneReports, Reports
  <2>8. CASE Allocates
    <3>1. PICK h \in Accounts : allocate_btc_address(h)
      BY <2>8 DEF Allocates
    <3>2. Len(holders) + 1 \in Nat
      BY DEF AddressTyped
    <3>3. NoneReports(0, o)
      BY <2>7, <3>1, <3>2, UpdateFacts DEF allocate_btc_address
    <3> QED
      BY <2>4, <3>1, <3>3 DEF allocate_btc_address
  <2>9. CASE Tells
    <3>1. PICK q \in Outputs, c \in Depths \union {Unseen} : process_btc_events(q, c)
      BY <2>9 DEF Tells
    <3>2. NoneReports(0, o) /\ q # o
      BY <2>7, <3>1, UpdateFacts DEF process_btc_events, ReportOf
    <3>3. reported'[o] = reported[o] /\ credited' = credited
      BY <3>1, <3>2 DEF process_btc_events, AddressTyped
    <3> QED
      BY <2>4, <3>2, <3>3
  <2>10. CASE update_worker
    <3>1. inbox # <<>> /\ inbox' = Tail(inbox) /\ reported' = reported
      BY <2>10, WorkerTakesOne DEF TakesOne
    <3>2. /\ \A i \in DOMAIN inbox : i # 1 => i - 1 \in DOMAIN inbox' /\ inbox'[i - 1] = inbox[i]
          /\ 1 \in DOMAIN inbox /\ Head(inbox) = inbox[1]
          /\ DOMAIN inbox \in SUBSET Nat /\ \A i \in DOMAIN inbox : i > 0
      BY <3>1, InboxShrinks
    <3>3. NoneReports(1, o)
      <4>1. ASSUME NEW j \in DOMAIN inbox, j > 1 PROVE ~ Reports(j, o)
        <5>1. j # 1 /\ j - 1 > 0
          BY <3>2, <4>1
        <5> QED
          BY <3>2, <5>1 DEF NoneReports, Reports
      <4> QED
        BY <4>1 DEF NoneReports
    <3>4. PICK e : e = Head(inbox)
      OBVIOUS
    <3>5. e = inbox[1] /\ e \in AddressUpdates
      BY <3>2, <3>4 DEF AddressTyped
    <3>6. with_deposit_address(e) \/ set_exchange_address(e) \/ with_btc_tx(e)
      BY <2>10, <3>4 DEF update_worker
    <3>7. CASE Reports(1, o)
      <4>1. e.type = "Report" /\ e.output = o
        BY <3>5, <3>7 DEF Reports
      <4>2. with_btc_tx(e)
        BY <3>6, <4>1 DEF with_deposit_address, set_exchange_address
      <4>3. e.confirmations = reported[o]
        BY <3>2, <3>3, <3>5, <3>7 DEF ReportsAreCurrent
      <4>4. Owners(a) = {holders[a]}
        BY <2>2, <2>3, <3>1, <3>7, PayeeIsFound
      <4> QED
        BY <2>2, <2>3, <3>1, <3>5, <4>1, <4>2, <4>3, <4>4, ReportApplied
    <3>8. CASE ~ Reports(1, o)
      <4>1. NoneReports(0, o)
        <5>1. ASSUME NEW j \in DOMAIN inbox PROVE ~ Reports(j, o)
          <6>1. j = 1 \/ j > 1
            BY <3>2
          <6> QED
            BY <3>3, <3>8, <6>1 DEF NoneReports
        <5> QED
          BY <5>1 DEF NoneReports
      <4>2. CASE with_btc_tx(e)
        <5>1. e.output # o
          BY <3>5, <3>8, <4>2 DEF Reports, with_btc_tx
        <5> QED
          BY <2>3, <2>4, <3>1, <3>5, <4>1, <4>2, <5>1, ReportApplied
      <4>3. CASE with_deposit_address(e) \/ set_exchange_address(e)
        BY <2>4, <3>1, <4>1, <4>3 DEF with_deposit_address, set_exchange_address
      <4> QED
        BY <3>6, <4>2, <4>3
    <3> QED
      BY <3>7, <3>8
  <2> QED
    BY <2>6, <2>8, <2>9, <2>10, AddressSteps, NothingLostIsKept
<1> QED
  BY <1>1, <1>2

LEMMA ReportsAreCurrentHolds ==
    ASSUME AddressTyped, AddressesAreOwned, PaymentsAreToAddresses, CreditedToPayee,
           AddressesComeFirst, AddressesAreKept, ReportsAreCurrent, [AddressNext]_addressVars
    PROVE  ReportsAreCurrent'
<1>1. \A k \in DOMAIN inbox' : \A o \in Outputs :
         Reports(k, o)' /\ NoneReports(k, o)' => inbox'[k].confirmations = reported'[o]
  BY LastReportIsCurrent
<1>2. ASSUME NothingIsLost
      PROVE  \A o \in Outputs :
                pays'[o] # NoAddress /\ Lasting(pays[o])' /\ NoneReports(0, o)' =>
                    credited'[holders'[pays'[o]]][o] = reported'[o]
  BY <1>2, LastReportIsApplied
<1> QED
  BY <1>1, <1>2, NothingLostIsKept DEF ReportsAreCurrent

-----------------------------------------------------------------------------
LEMMA AddressInvInit == AddressInit => AddressInv
<1> SUFFICES ASSUME AddressInit PROVE AddressInv
  OBVIOUS
<1> USE DEF AddressInit, NoAddress
<1>1. /\ inbox \in Seq(AddressUpdates) /\ DOMAIN inbox = {}
      /\ holders \in Seq(Accounts) /\ DOMAIN holders = {}
  <2>1. inbox \in Seq(AddressUpdates) /\ Len(inbox) = 0 /\ holders \in Seq(Accounts) /\ Len(holders) = 0
    BY EmptySeq
  <2> QED
    BY <2>1
<1>2. AddressTyped
  BY <1>1, AddressConstants DEF AddressTyped
<1>3. AddressesAreOwned /\ PaymentsAreToAddresses
  BY <1>1 DEF AddressesAreOwned, PaymentsAreToAddresses
<1>4. CreditedToPayee
  BY DEF CreditedToPayee
<1>5. ExchangeAddressesInOrder /\ AddressesComeFirst /\ AddressesAreKept
  BY <1>1 DEF ExchangeAddressesInOrder, AddressesComeFirst, AddressesAreKept
<1>6. OperatorsTakeTurns /\ ReportsAreCurrent
  BY <1>1 DEF OperatorsTakeTurns, ReportsAreCurrent
<1> QED
  BY <1>2, <1>3, <1>4, <1>5, <1>6 DEF AddressInv

LEMMA AddressInvHolds == AddressSpec => []AddressInv
<1>1. ASSUME AddressInv, [AddressNext]_addressVars PROVE AddressInv'
  <2> USE DEF AddressInv
  <2>1. AddressTyped'
    BY <1>1, AddressTypedHolds
  <2>2. AddressesAreOwned' /\ PaymentsAreToAddresses'
    BY <1>1, AddressesAreOwnedHolds, PaymentsAreToAddressesHolds
  <2>3. CreditedToPayee'
    BY <1>1, CreditedToPayeeHolds
  <2>4. ExchangeAddressesInOrder' /\ AddressesComeFirst'
    BY <1>1, ExchangeAddressesInOrderHolds, AddressesComeFirstHolds
  <2>5. AddressesAreKept' /\ OperatorsTakeTurns'
    BY <1>1, AddressesAreKeptHolds, OperatorsTakeTurnsHolds
  <2>6. ReportsAreCurrent'
    BY <1>1, ReportsAreCurrentHolds
  <2> QED
    BY <2>1, <2>2, <2>3, <2>4, <2>5, <2>6
<1> QED
  BY <1>1, AddressInvInit, PTL DEF AddressSpec

(* Whatever is lost, and however many addresses the exchange is given, a   *)
(* payment is credited to the account its address was made for, or not at  *)
(* all: with_btc_tx_update asks is_exchange_address before                 *)
(* find_user_address, and no address is in both.                           *)
THEOREM PaymentsReachTheirPayee == AddressSpec => []CreditedToPayee
<1>1. AddressInv => CreditedToPayee
  BY DEF AddressInv
<1> QED
  BY <1>1, AddressInvHolds, PTL

(* The last of the addresses made for the exchange.                        *)
LEMMA LastExchangeAddress ==
    ASSUME AddressTyped, NEW b \in DOMAIN holders, holders[b] = Exchange
    PROVE  \E m \in DOMAIN holders :
              /\ holders[m] = Exchange /\ m >= b
              /\ \A c \in DOMAIN holders : holders[c] = Exchange => c <= m
<1> DEFINE Later == { d \in 0..Len(holders) :
                        /\ Len(holders) - d \in DOMAIN holders
                        /\ holders[Len(holders) - d] = Exchange }
<1>1. DOMAIN holders = 1..Len(holders) /\ Len(holders) \in Nat
  BY DEF AddressTyped
<1>2. Len(holders) - b \in Later
  <2>1. b \in Nat /\ Len(holders) - (Len(holders) - b) = b
        /\ Len(holders) - b \in 0..Len(holders)
    BY <1>1
  <2> QED
    BY <2>1
<1>3. Later \in SUBSET Nat
  BY <1>1
<1>4. PICK d \in Later : \A x \in Later : d <= x
  <2> HIDE DEF Later
  <2> QED
    BY <1>2, <1>3, LeastNumber
<1>5. ASSUME NEW c \in DOMAIN holders, holders[c] = Exchange
      PROVE  c <= Len(holders) - d
  <2>1. c \in Nat /\ Len(holders) - (Len(holders) - c) = c
        /\ Len(holders) - c \in 0..Len(holders)
    BY <1>1
  <2>2. Len(holders) - c \in Later
    BY <1>5, <2>1
  <2>3. d <= Len(holders) - c /\ d \in Nat
    BY <1>4, <2>2
  <2> QED
    BY <1>1, <2>1, <2>3
<1>6. Len(holders) - d \in DOMAIN holders /\ holders[Len(holders) - d] = Exchange
  BY <1>4
<1>7. Len(holders) - d >= b
  BY <1>1, <1>5, <1>6
<1> QED
  BY <1>5, <1>6, <1>7

LEMMA EmptyDomain == ASSUME NEW S, NEW s \in Seq(S), Len(s) = 0 PROVE DOMAIN s = {}
  OBVIOUS

(* The address is put on the channel before anybody can pay to it, so the  *)
(* reports of a payment find the account; only an address of the exchange  *)
(* that a later one took the place of is not found.                        *)
THEOREM DepositsReachTheirAccount == AddressSpec => []DepositsAreCredited
<1>1. AddressInv => DepositsAreCredited
  <2> SUFFICES ASSUME AddressInv PROVE DepositsAreCredited
    OBVIOUS
  <2>1. AddressTyped /\ inbox \in Seq(AddressUpdates) /\ holders \in Seq(Accounts)
    BY DEF AddressInv, AddressTyped
  <2>2. \A b \in DOMAIN holders : b \in Nat
    BY <2>1
  <2>3. inbox = <<>> => DOMAIN inbox = {}
    BY <2>1, EmptySeq, EmptyDomain
  <2>4. ASSUME NEW o \in Outputs, pays[o] # NoAddress, DOMAIN inbox = {}, NothingIsLost,
               \/ holders[pays[o]] # Exchange
               \/ pays[o] = exchange_address
               \/ OneAtATime
        PROVE  credited[holders[pays[o]]][o] = reported[o]
    <3>1. NoneReports(0, o) /\ \A a : ~ Queued(a)
      BY <2>4 DEF NoneReports, Queued
    <3>2. pays[o] \in DOMAIN holders
      BY <2>4 DEF AddressInv, PaymentsAreToAddresses
    <3>3. CASE holders[pays[o]] # Exchange
      <4>1. Lasting(pays[o])
        BY <3>3 DEF Lasting
      <4> QED
        BY <2>4, <3>1, <4>1 DEF AddressInv, ReportsAreCurrent
    (* An address of the exchange that came later would be in State.       *)
    <3>4. CASE pays[o] = exchange_address
      <4>1. ASSUME NEW b \in DOMAIN holders, b > pays[o], holders[b] = Exchange PROVE FALSE
        <5>1. PICK m \in DOMAIN holders :
                  /\ holders[m] = Exchange /\ m >= b
                  /\ \A c \in DOMAIN holders : holders[c] = Exchange => c <= m
          BY <2>1, <4>1, LastExchangeAddress
        <5>2. m \in Nat /\ b \in Nat /\ pays[o] \in Nat
          BY <2>2, <3>2
        <5>3. \A c \in DOMAIN holders : c > m => holders[c] # Exchange
          BY <2>2, <5>1, <5>2
        <5>4. Lasting(m) /\ m # exchange_address
          BY <3>4, <4>1, <5>1, <5>2, <5>3 DEF Lasting
        <5>5. ~ InState(m)
          BY <5>1, <5>4 DEF InState
        <5> QED
          BY <2>4, <3>1, <5>1, <5>4, <5>5 DEF AddressInv, AddressesAreKept
      <4>2. Lasting(pays[o])
        BY <4>1 DEF Lasting
      <4> QED
        BY <2>4, <3>1, <4>2 DEF AddressInv, ReportsAreCurrent
    <3>5. CASE OneAtATime /\ holders[pays[o]] = Exchange
      <4>1. \A b \in DOMAIN holders : holders[b] = Exchange => b = pays[o]
        BY <2>4, <3>2, <3>5 DEF AddressInv, OperatorsTakeTurns
      <4>2. Lasting(pays[o])
        BY <2>2, <3>2, <4>1 DEF Lasting
      <4> QED
        BY <2>4, <3>1, <4>2 DEF AddressInv, ReportsAreCurrent
    <3> QED
      BY <2>4, <3>3, <3>4, <3>5
  <2>5. Exchange \notin Users
    BY AddressConstants
  <2> QED
    BY <2>3, <2>4, <2>5 DEF DepositsAreCredited, NothingIsLost, OneAtATime
<1> QED
  BY <1>1, AddressInvHolds, PTL
=============================================================================
