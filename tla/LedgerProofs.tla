---------------------------- MODULE LedgerProofs ----------------------------
(***************************************************************************)
(* The money of the user and of the exchange wallet, for every number of   *)
(* outputs, orders, withdrawals and tokens and every amount: the running   *)
(* balance, what an exchange conserves, and that orders are covered.       *)
(*                                                                         *)
(* Balances are sums over orders.  The first part proves what the proofs   *)
(* need of sums over a finite set: that their order does not matter, and   *)
(* how a sum changes with one of its terms.                                *)
(***************************************************************************)
EXTENDS Ledger, FiniteSetTheorems, WellFoundedInduction, TLAPS

(* Every non-empty set of numbers has a least one.                         *)
LEMMA LeastOf == \A T \in SUBSET Nat : T # {} => \E x \in T : \A y \in T : x <= y
<1> SUFFICES ASSUME NEW T \in SUBSET Nat, T # {} PROVE \E x \in T : \A y \in T : x <= y
  OBVIOUS
<1>1. PICK x \in T : \A y \in T : ~ (<<y, x>> \in OpToRel(<, Nat))
  BY NatLessThanWellFounded, WFMin
<1>2. \A y \in T : ~ (y < x)
  BY <1>1 DEF OpToRel
<1> QED
  BY <1>2

-----------------------------------------------------------------------------
(* s gives the sum of f over every set of sets, one element at a time.     *)
Any(T) == CHOOSE x \in T : TRUE

IsSum(s, f, sets) ==
    s = [T \in sets |-> IF T = {} THEN 0 ELSE f[Any(T)] + s[T \ {Any(T)}]]

NumbersOn(S, f) == \A x \in S : f[x] \in Int

EqualBut(S, y, f, g) == \A x \in S : x # y => f[x] = g[x]

EqualOn(S, f, g) == \A x \in S : f[x] = g[x]

Small(S, k) == { T \in SUBSET S : Cardinality(T) <= k }

(* Taking one element out leaves one less.                                 *)
LEMMA OneLess ==
    ASSUME NEW T, IsFiniteSet(T), T # {}
    PROVE  /\ Any(T) \in T /\ IsFiniteSet(T \ {Any(T)})
           /\ Cardinality(T) \in Nat /\ Cardinality(T) >= 1
           /\ Cardinality(T \ {Any(T)}) = Cardinality(T) - 1
<1>1. Any(T) \in T
  BY DEF Any
<1> QED
  BY <1>1, FS_RemoveElement, FS_CardinalityType, FS_EmptySet

LEMMA SumsExist ==
    ASSUME NEW f, NEW S, IsFiniteSet(S)
    PROVE  \A k \in Nat : \E s : IsSum(s, f, Small(S, k))
<1> DEFINE N == { k \in Nat : ~\E s : IsSum(s, f, Small(S, k)) }
<1> SUFFICES ASSUME N # {} PROVE FALSE
  OBVIOUS
<1>1. N \in SUBSET Nat
  OBVIOUS
<1>2. PICK k \in N : \A m \in N : k <= m
  BY <1>1, LeastOf
<1>3. k \in Nat /\ ~\E s : IsSum(s, f, Small(S, k))
  OBVIOUS
<1>4. \A T \in SUBSET S : IsFiniteSet(T)
  BY FS_Subset
<1>5. CASE k = 0
  <2> DEFINE s == [T \in Small(S, k) |-> 0]
  <2>1. ASSUME NEW T \in Small(S, k) PROVE T = {}
    <3>1. IsFiniteSet(T) /\ Cardinality(T) <= 0
      BY <1>4, <1>5 DEF Small
    <3>2. T # {} => Cardinality(T) \in Nat /\ Cardinality(T) >= 1
      BY <3>1, OneLess
    <3> QED
      BY <3>1, <3>2
  <2>2. IsSum(s, f, Small(S, k))
    BY <2>1 DEF IsSum
  <2> QED
    BY <1>3, <2>2
<1>6. CASE k # 0
  <2>1. k - 1 \in Nat /\ k - 1 \notin N
    BY <1>2, <1>3, <1>6
  <2>2. PICK r : IsSum(r, f, Small(S, k - 1))
    BY <2>1
  <2> DEFINE s == [T \in Small(S, k) |-> IF T = {} THEN 0 ELSE f[Any(T)] + r[T \ {Any(T)}]]
             t == [T \in Small(S, k) |-> IF T = {} THEN 0 ELSE f[Any(T)] + s[T \ {Any(T)}]]
  <2>3. ASSUME NEW T \in Small(S, k - 1) PROVE T \in Small(S, k) /\ s[T] = r[T]
    <3>1. T \in Small(S, k)
      BY <1>3, <1>4, <2>3, FS_CardinalityType DEF Small
    <3> QED
      BY <2>2, <3>1 DEF IsSum
  <2>4. ASSUME NEW T \in Small(S, k), T # {} PROVE T \ {Any(T)} \in Small(S, k - 1)
    <3>1. T \in SUBSET S /\ IsFiniteSet(T) /\ Cardinality(T) <= k
      BY <1>4 DEF Small
    <3>2. Cardinality(T) \in Nat /\ Cardinality(T \ {Any(T)}) = Cardinality(T) - 1
      BY <2>4, <3>1, OneLess
    <3>3. T \ {Any(T)} \in SUBSET S /\ Cardinality(T \ {Any(T)}) <= k - 1
      BY <1>3, <3>1, <3>2
    <3> QED
      BY <3>3 DEF Small
  <2>5. \A T \in Small(S, k) : s[T] = t[T]
    BY <2>3, <2>4
  <2>6. s = t
    BY <2>5
  <2> HIDE DEF s
  <2>7. IsSum(s, f, Small(S, k))
    BY <2>6 DEF IsSum
  <2> QED
    BY <1>3, <2>7
<1> QED
  BY <1>5, <1>6

(* Sums of functions that agree agree.                                     *)
LEMMA SumsAgree ==
    ASSUME NEW f, NEW g, NEW s, NEW r, NEW A, NEW B, NEW S, IsFiniteSet(S),
           IsSum(s, f, A), IsSum(r, g, B),
           SUBSET S \subseteq A, SUBSET S \subseteq B, EqualOn(S, f, g)
    PROVE  s[S] = r[S]
<1> DEFINE N == { k \in Nat : \E T \in SUBSET S : Cardinality(T) = k /\ s[T] # r[T] }
<1>1. \A T \in SUBSET S : IsFiniteSet(T) /\ Cardinality(T) \in Nat
  BY FS_Subset, FS_CardinalityType
<1>2. SUFFICES ASSUME N # {} PROVE FALSE
  BY <1>1
<1>3. N \in SUBSET Nat
  OBVIOUS
<1>4. PICK k \in N : \A m \in N : k <= m
  BY <1>2, <1>3, LeastOf
<1>5. PICK T \in SUBSET S : Cardinality(T) = k /\ s[T] # r[T]
  OBVIOUS
<1>6. /\ s[T] = IF T = {} THEN 0 ELSE f[Any(T)] + s[T \ {Any(T)}]
      /\ r[T] = IF T = {} THEN 0 ELSE g[Any(T)] + r[T \ {Any(T)}]
  BY DEF IsSum
<1>7. T # {}
  BY <1>5, <1>6
<1> DEFINE R == T \ {Any(T)}
<1>8. /\ R \in SUBSET S /\ Any(T) \in S
      /\ Cardinality(R) \in Nat /\ ~(k <= Cardinality(R))
  BY <1>1, <1>5, <1>7, OneLess
<1>9. s[R] = r[R]
  BY <1>4, <1>8
<1> QED
  BY <1>5, <1>6, <1>7, <1>8, <1>9 DEF EqualOn

-----------------------------------------------------------------------------
(* SumFunctionOnSet is such a sum.                                         *)
LEMMA SumIsSum ==
    ASSUME NEW f, NEW S, IsFiniteSet(S)
    PROVE  \E s : IsSum(s, f, SUBSET S) /\ SumFunctionOnSet(f, S) = s[S]
<1>1. Small(S, Cardinality(S)) = SUBSET S
  BY FS_Subset, FS_CardinalityType DEF Small
<1>2. \E s : IsSum(s, f, SUBSET S)
  <2>1. Cardinality(S) \in Nat
    BY FS_CardinalityType
  <2>2. \E s : IsSum(s, f, Small(S, Cardinality(S)))
    BY <2>1, SumsExist
  <2> QED
    BY <1>1, <2>2
<1> DEFINE s == CHOOSE s : IsSum(s, f, SUBSET S)
<1>3. IsSum(s, f, SUBSET S)
  BY <1>2
<1>4. SumFunctionOnSet(f, S) = s[S]
  BY DEF SumFunctionOnSet, FoldFunctionOnSet, MapThenFoldSet, IsSum, Any
<1> QED
  BY <1>3, <1>4

(* Sums of equal terms are equal, and the sum of no terms is zero.         *)
LEMMA SumOfEqual ==
    ASSUME NEW f, NEW g, NEW S, IsFiniteSet(S), EqualOn(S, f, g)
    PROVE  SumFunctionOnSet(f, S) = SumFunctionOnSet(g, S)
<1>1. PICK s : IsSum(s, f, SUBSET S) /\ SumFunctionOnSet(f, S) = s[S]
  BY SumIsSum
<1>2. PICK r : IsSum(r, g, SUBSET S) /\ SumFunctionOnSet(g, S) = r[S]
  BY SumIsSum
<1>3. s[S] = r[S]
  <2> DEFINE A == SUBSET S
  <2>1. IsSum(s, f, A) /\ IsSum(r, g, A) /\ SUBSET S \subseteq A
    BY <1>1, <1>2
  <2> HIDE DEF A
  <2> QED
    BY <2>1, SumsAgree
<1> QED
  BY <1>1, <1>2, <1>3

LEMMA SumOfNothing == ASSUME NEW f PROVE SumFunctionOnSet(f, {}) = 0
<1>1. PICK s : IsSum(s, f, SUBSET {}) /\ SumFunctionOnSet(f, {}) = s[{}]
  BY SumIsSum, FS_EmptySet
<1> QED
  BY <1>1 DEF IsSum

(* The element that is taken first is a term of the sum.                   *)
LEMMA SumFirst ==
    ASSUME NEW f, NEW S, IsFiniteSet(S), S # {}
    PROVE  SumFunctionOnSet(f, S) = f[Any(S)] + SumFunctionOnSet(f, S \ {Any(S)})
<1> DEFINE R == S \ {Any(S)}
<1>1. IsFiniteSet(R) /\ R \in SUBSET S
  BY OneLess
<1>2. PICK s : IsSum(s, f, SUBSET S) /\ SumFunctionOnSet(f, S) = s[S]
  BY SumIsSum
<1>3. PICK r : IsSum(r, f, SUBSET R) /\ SumFunctionOnSet(f, R) = r[R]
  BY <1>1, SumIsSum
<1>4. s[R] = r[R]
  BY <1>1, <1>2, <1>3, SumsAgree DEF EqualOn
<1>5. s[S] = f[Any(S)] + s[R]
  BY <1>2 DEF IsSum
<1> QED
  BY <1>2, <1>3, <1>4, <1>5

(* Every element can be taken first: the order does not matter.            *)
LEMMA SumSplits ==
    ASSUME NEW f, NEW S, IsFiniteSet(S), NumbersOn(S, f)
    PROVE  /\ SumFunctionOnSet(f, S) \in Int
           /\ \A y \in S : SumFunctionOnSet(f, S) = f[y] + SumFunctionOnSet(f, S \ {y})
<1> DEFINE Good(T) == /\ SumFunctionOnSet(f, T) \in Int
                      /\ \A y \in T : SumFunctionOnSet(f, T) = f[y] + SumFunctionOnSet(f, T \ {y})
           N == { k \in Nat : \E T \in SUBSET S : Cardinality(T) = k /\ ~Good(T) }
<1>1. \A T \in SUBSET S : IsFiniteSet(T) /\ Cardinality(T) \in Nat
  BY FS_Subset, FS_CardinalityType
<1>2. SUFFICES ASSUME N # {} PROVE FALSE
  BY <1>1
<1>3. N \in SUBSET Nat
  OBVIOUS
<1>4. PICK k \in N : \A m \in N : k <= m
  BY <1>2, <1>3, LeastOf
<1>5. PICK T \in SUBSET S : Cardinality(T) = k /\ ~Good(T)
  OBVIOUS
<1> HIDE DEF Good
<1>6. \A R \in SUBSET S : Cardinality(R) < Cardinality(T) => Good(R)
  BY <1>1, <1>4, <1>5
<1> HIDE DEF N
<1>7. T # {}
  <2>1. Good({})
    BY SumOfNothing DEF Good
  <2> QED
    BY <1>5, <2>1
<1>8. \A y \in T : /\ T \ {y} \in SUBSET S /\ IsFiniteSet(T \ {y})
                   /\ Cardinality(T \ {y}) = Cardinality(T) - 1
  BY <1>1, FS_RemoveElement
<1>9. \A y \in T : Good(T \ {y})
  BY <1>1, <1>6, <1>8
<1>10. PICK a : a = Any(T)
  OBVIOUS
<1>11. a \in T /\ a \in S /\ SumFunctionOnSet(f, T) = f[a] + SumFunctionOnSet(f, T \ {a})
  BY <1>1, <1>7, <1>10, SumFirst, OneLess
<1>12. SumFunctionOnSet(f, T) \in Int
  BY <1>9, <1>11 DEF Good, NumbersOn
<1>13. ASSUME NEW y \in T, y # a
       PROVE  SumFunctionOnSet(f, T) = f[y] + SumFunctionOnSet(f, T \ {y})
  <2>1. PICK q : q = SumFunctionOnSet(f, (T \ {a}) \ {y})
    OBVIOUS
  <2>2. SumFunctionOnSet(f, T \ {a}) = f[y] + q
    BY <1>9, <1>11, <1>13, <2>1 DEF Good
  <2>3. SumFunctionOnSet(f, T \ {y}) = f[a] + q
    <3>1. (T \ {a}) \ {y} = (T \ {y}) \ {a}
      OBVIOUS
    <3>2. SumFunctionOnSet(f, T \ {y}) = f[a] + SumFunctionOnSet(f, (T \ {y}) \ {a})
      BY <1>9, <1>11, <1>13 DEF Good
    <3> QED
      BY <2>1, <3>1, <3>2
  <2>4. q \in Int
    <3>1. /\ IsFiniteSet(T \ {a}) /\ y \in T \ {a}
          /\ Cardinality(T \ {a}) = Cardinality(T) - 1 /\ Cardinality(T) \in Nat
      BY <1>1, <1>8, <1>11, <1>13
    <3>2. Cardinality((T \ {a}) \ {y}) = Cardinality(T \ {a}) - 1
      BY <3>1, FS_RemoveElement
    <3>3. (T \ {a}) \ {y} \in SUBSET S /\ Cardinality((T \ {a}) \ {y}) < Cardinality(T)
      BY <3>1, <3>2
    <3> QED
      BY <1>6, <2>1, <3>3 DEF Good
  <2>5. f[a] \in Int /\ f[y] \in Int
    BY <1>11 DEF NumbersOn
  <2> QED
    BY <1>11, <2>2, <2>3, <2>4, <2>5
<1> QED
  BY <1>5, <1>11, <1>12, <1>13 DEF Good

-----------------------------------------------------------------------------
(* A sum changes by what one of its terms changes.                         *)
LEMMA SumChanges ==
    ASSUME NEW S, IsFiniteSet(S), NEW f, NEW g, NEW y \in S,
           NumbersOn(S, f), NumbersOn(S, g), EqualBut(S, y, f, g)
    PROVE  /\ SumFunctionOnSet(f, S) \in Int /\ SumFunctionOnSet(g, S) \in Int
           /\ SumFunctionOnSet(g, S) = (SumFunctionOnSet(f, S) - f[y]) + g[y]
<1> DEFINE R == S \ {y}
<1>1. IsFiniteSet(R) /\ R \in SUBSET S
  BY FS_Subset
<1>2. SumFunctionOnSet(f, R) = SumFunctionOnSet(g, R)
  BY <1>1, SumOfEqual DEF EqualBut, EqualOn
<1>3. /\ SumFunctionOnSet(f, S) = f[y] + SumFunctionOnSet(f, R)
      /\ SumFunctionOnSet(g, S) = g[y] + SumFunctionOnSet(g, R)
      /\ SumFunctionOnSet(f, S) \in Int /\ SumFunctionOnSet(g, S) \in Int
  BY SumSplits
<1>4. SumFunctionOnSet(f, R) \in Int
  BY <1>1, SumSplits DEF NumbersOn
<1>5. f[y] \in Int /\ g[y] \in Int
  BY DEF NumbersOn
<1> QED
  BY <1>2, <1>3, <1>4, <1>5

(* A sum of zeros is zero.                                                 *)
LEMMA SumOfZeros ==
    ASSUME NEW S, IsFiniteSet(S), NEW f, \A x \in S : f[x] = 0
    PROVE  SumFunctionOnSet(f, S) = 0
<1>1. PICK s : IsSum(s, f, SUBSET S) /\ SumFunctionOnSet(f, S) = s[S]
  BY SumIsSum
<1> DEFINE r == [T \in SUBSET S |-> 0]
           t == [T \in SUBSET S |-> IF T = {} THEN 0 ELSE f[Any(T)] + r[T \ {Any(T)}]]
<1>2. \A T \in SUBSET S : T # {} => Any(T) \in S /\ T \ {Any(T)} \in SUBSET S
  BY FS_Subset, OneLess
<1>3. \A T \in SUBSET S : r[T] = t[T]
  BY <1>2
<1>4. r = t
  BY <1>3
<1> HIDE DEF r
<1>5. IsSum(r, f, SUBSET S)
  BY <1>4 DEF IsSum
<1>6. s[S] = r[S]
  BY <1>1, <1>5, SumsAgree DEF EqualOn
<1> QED
  BY <1>1, <1>6 DEF r

(* A sum of naturals is one.                                               *)
LEMMA SumOfNaturals ==
    ASSUME NEW S, IsFiniteSet(S), NEW f, \A x \in S : f[x] \in Nat
    PROVE  SumFunctionOnSet(f, S) \in Nat
<1> DEFINE N == { k \in Nat : \E T \in SUBSET S :
                     Cardinality(T) = k /\ SumFunctionOnSet(f, T) \notin Nat }
<1>1. \A T \in SUBSET S : IsFiniteSet(T) /\ Cardinality(T) \in Nat
  BY FS_Subset, FS_CardinalityType
<1>2. SUFFICES ASSUME N # {} PROVE FALSE
  BY <1>1
<1>3. PICK k \in N : \A m \in N : k <= m
  BY <1>2, LeastOf
<1>4. PICK T \in SUBSET S : Cardinality(T) = k /\ SumFunctionOnSet(f, T) \notin Nat
  OBVIOUS
<1>5. \A R \in SUBSET S : Cardinality(R) < Cardinality(T) => SumFunctionOnSet(f, R) \in Nat
  BY <1>1, <1>3, <1>4
<1> HIDE DEF N
<1>6. T # {}
  BY <1>4, SumOfNothing
<1>7. PICK a : a = Any(T)
  OBVIOUS
<1>8. /\ a \in T /\ T \ {a} \in SUBSET S
      /\ Cardinality(T) \in Nat /\ Cardinality(T \ {a}) = Cardinality(T) - 1
      /\ SumFunctionOnSet(f, T) = f[a] + SumFunctionOnSet(f, T \ {a})
  BY <1>1, <1>6, <1>7, OneLess, SumFirst
<1>9. SumFunctionOnSet(f, T \ {a}) \in Nat
  BY <1>5, <1>8
<1> QED
  BY <1>4, <1>8, <1>9

-----------------------------------------------------------------------------
(* What an order takes, what an exchange brought the user, and what a      *)
(* completed order brought to and took from the exchange wallet.           *)
Taken(o, statuses, c) ==
    IF o # None /\ o.status \in statuses /\ o.currency_from = c THEN o.amount_from ELSE 0

Got(i, c) == IF i # None /\ i.currency = c THEN i.amount ELSE 0

Sold(o, c) == IF o # None /\ o.currency_from = c THEN o.amount_from ELSE 0

Bought(o, c) == IF o # None /\ o.currency_to = c THEN o.amount_to ELSE 0

TakenSum(q, statuses, c) ==
    SumFunctionOnSet([id \in OrderIds |-> Taken(q[id], statuses, c)], OrderIds)

GotSum(q, c) == SumFunctionOnSet([id \in OrderIds |-> Got(q[id], c)], OrderIds)

SoldSum(q, c) == SumFunctionOnSet([id \in OrderIds |-> Sold(q[id], c)], OrderIds)

BoughtSum(q, c) == SumFunctionOnSet([id \in OrderIds |-> Bought(q[id], c)], OrderIds)

OrderMap == [OrderIds -> ExchangeOrder \union {None}]

IncomingMap == [OrderIds -> IncomingOrder \union {None}]

LEMMA Worths ==
    /\ \A o \in ExchangeOrder \union {None} : \A statuses, c :
          Taken(o, statuses, c) \in Nat /\ Sold(o, c) \in Nat /\ Bought(o, c) \in Nat
    /\ \A i \in IncomingOrder \union {None} : \A c : Got(i, c) \in Nat
<1>1. Amounts \subseteq Nat
  BY LedgerConstants
<1> QED
  BY <1>1 DEF Taken, Sold, Bought, Got, ExchangeOrder, IncomingOrder

(* One entry of a map of orders is replaced.                               *)
LEMMA TakenChanges ==
    ASSUME NEW q \in OrderMap, NEW id \in OrderIds, NEW o \in ExchangeOrder \union {None},
           NEW statuses, NEW c
    PROVE  /\ TakenSum(q, statuses, c) \in Int
           /\ TakenSum([q EXCEPT ![id] = o], statuses, c)
                = (TakenSum(q, statuses, c) - Taken(q[id], statuses, c)) + Taken(o, statuses, c)
<1> DEFINE r == [q EXCEPT ![id] = o]
           f == [x \in OrderIds |-> Taken(q[x], statuses, c)]
           g == [x \in OrderIds |-> Taken(r[x], statuses, c)]
<1>1. /\ f[id] = Taken(q[id], statuses, c) /\ g[id] = Taken(o, statuses, c)
      /\ EqualBut(OrderIds, id, f, g)
  BY DEF OrderMap, EqualBut
<1>2. NumbersOn(OrderIds, f) /\ NumbersOn(OrderIds, g) /\ IsFiniteSet(OrderIds)
  BY Worths, LedgerConstants DEF OrderMap, NumbersOn
<1> HIDE DEF f, g
<1>3. /\ SumFunctionOnSet(f, OrderIds) \in Int
      /\ SumFunctionOnSet(g, OrderIds) = (SumFunctionOnSet(f, OrderIds) - f[id]) + g[id]
  BY <1>1, <1>2, SumChanges
<1> QED
  BY <1>1, <1>3 DEF TakenSum, f, g

LEMMA GotChanges ==
    ASSUME NEW q \in IncomingMap, NEW id \in OrderIds, NEW o \in IncomingOrder \union {None}, NEW c
    PROVE  /\ GotSum(q, c) \in Int
           /\ GotSum([q EXCEPT ![id] = o], c) = (GotSum(q, c) - Got(q[id], c)) + Got(o, c)
<1> DEFINE r == [q EXCEPT ![id] = o]
           f == [x \in OrderIds |-> Got(q[x], c)]
           g == [x \in OrderIds |-> Got(r[x], c)]
<1>1. /\ f[id] = Got(q[id], c) /\ g[id] = Got(o, c)
      /\ EqualBut(OrderIds, id, f, g)
  BY DEF IncomingMap, EqualBut
<1>2. NumbersOn(OrderIds, f) /\ NumbersOn(OrderIds, g) /\ IsFiniteSet(OrderIds)
  BY Worths, LedgerConstants DEF IncomingMap, NumbersOn
<1> HIDE DEF f, g
<1>3. /\ SumFunctionOnSet(f, OrderIds) \in Int
      /\ SumFunctionOnSet(g, OrderIds) = (SumFunctionOnSet(f, OrderIds) - f[id]) + g[id]
  BY <1>1, <1>2, SumChanges
<1> QED
  BY <1>1, <1>3 DEF GotSum, f, g

LEMMA SoldChanges ==
    ASSUME NEW q \in OrderMap, NEW id \in OrderIds, NEW o \in ExchangeOrder \union {None}, NEW c
    PROVE  /\ SoldSum(q, c) \in Int
           /\ SoldSum([q EXCEPT ![id] = o], c) = (SoldSum(q, c) - Sold(q[id], c)) + Sold(o, c)
<1> DEFINE r == [q EXCEPT ![id] = o]
           f == [x \in OrderIds |-> Sold(q[x], c)]
           g == [x \in OrderIds |-> Sold(r[x], c)]
<1>1. /\ f[id] = Sold(q[id], c) /\ g[id] = Sold(o, c)
      /\ EqualBut(OrderIds, id, f, g)
  BY DEF OrderMap, EqualBut
<1>2. NumbersOn(OrderIds, f) /\ NumbersOn(OrderIds, g) /\ IsFiniteSet(OrderIds)
  BY Worths, LedgerConstants DEF OrderMap, NumbersOn
<1> HIDE DEF f, g
<1>3. /\ SumFunctionOnSet(f, OrderIds) \in Int
      /\ SumFunctionOnSet(g, OrderIds) = (SumFunctionOnSet(f, OrderIds) - f[id]) + g[id]
  BY <1>1, <1>2, SumChanges
<1> QED
  BY <1>1, <1>3 DEF SoldSum, f, g

LEMMA BoughtChanges ==
    ASSUME NEW q \in OrderMap, NEW id \in OrderIds, NEW o \in ExchangeOrder \union {None}, NEW c
    PROVE  /\ BoughtSum(q, c) \in Int
           /\ BoughtSum([q EXCEPT ![id] = o], c) = (BoughtSum(q, c) - Bought(q[id], c)) + Bought(o, c)
<1> DEFINE r == [q EXCEPT ![id] = o]
           f == [x \in OrderIds |-> Bought(q[x], c)]
           g == [x \in OrderIds |-> Bought(r[x], c)]
<1>1. /\ f[id] = Bought(q[id], c) /\ g[id] = Bought(o, c)
      /\ EqualBut(OrderIds, id, f, g)
  BY DEF OrderMap, EqualBut
<1>2. NumbersOn(OrderIds, f) /\ NumbersOn(OrderIds, g) /\ IsFiniteSet(OrderIds)
  BY Worths, LedgerConstants DEF OrderMap, NumbersOn
<1> HIDE DEF f, g
<1>3. /\ SumFunctionOnSet(f, OrderIds) \in Int
      /\ SumFunctionOnSet(g, OrderIds) = (SumFunctionOnSet(f, OrderIds) - f[id]) + g[id]
  BY <1>1, <1>2, SumChanges
<1> QED
  BY <1>1, <1>3 DEF BoughtSum, f, g

(* All orders out of c are taken away: nothing is taken from c, and as     *)
(* much as before from the other currencies.                               *)
LEMMA TakenAway ==
    ASSUME NEW q \in OrderMap, NEW r \in OrderMap, NEW d,
           \A id \in OrderIds : r[id] = IF q[id] # None /\ q[id].currency_from = d THEN None ELSE q[id],
           NEW statuses
    PROVE  /\ TakenSum(r, statuses, d) = 0
           /\ \A c : c # d => TakenSum(r, statuses, c) = TakenSum(q, statuses, c)
<1>1. \A id \in OrderIds : Taken(r[id], statuses, d) = 0
  BY DEF Taken
<1>2. TakenSum(r, statuses, d) = 0
  <2> DEFINE f == [id \in OrderIds |-> Taken(r[id], statuses, d)]
  <2>1. \A id \in OrderIds : f[id] = 0
    BY <1>1
  <2> HIDE DEF f
  <2>2. SumFunctionOnSet(f, OrderIds) = 0
    BY <2>1, SumOfZeros, LedgerConstants
  <2> QED
    BY <2>2 DEF TakenSum, f
<1>3. ASSUME NEW c, c # d PROVE TakenSum(r, statuses, c) = TakenSum(q, statuses, c)
  <2>1. \A id \in OrderIds : Taken(r[id], statuses, c) = Taken(q[id], statuses, c)
    BY <1>3 DEF Taken
  <2>2. [id \in OrderIds |-> Taken(r[id], statuses, c)] = [id \in OrderIds |-> Taken(q[id], statuses, c)]
    BY <2>1
  <2> QED
    BY <2>2 DEF TakenSum
<1> QED
  BY <1>2, <1>3

LEMMA GotAway ==
    ASSUME NEW q \in IncomingMap, NEW r \in IncomingMap, NEW d,
           \A id \in OrderIds : r[id] = IF q[id] # None /\ q[id].currency = d THEN None ELSE q[id]
    PROVE  /\ GotSum(r, d) = 0
           /\ \A c : c # d => GotSum(r, c) = GotSum(q, c)
<1>1. \A id \in OrderIds : Got(r[id], d) = 0
  BY DEF Got
<1>2. GotSum(r, d) = 0
  <2> DEFINE f == [id \in OrderIds |-> Got(r[id], d)]
  <2>1. \A id \in OrderIds : f[id] = 0
    BY <1>1
  <2> HIDE DEF f
  <2>2. SumFunctionOnSet(f, OrderIds) = 0
    BY <2>1, SumOfZeros, LedgerConstants
  <2> QED
    BY <2>2 DEF GotSum, f
<1>3. ASSUME NEW c, c # d PROVE GotSum(r, c) = GotSum(q, c)
  <2>1. \A id \in OrderIds : Got(r[id], c) = Got(q[id], c)
    BY <1>3 DEF Got
  <2>2. [id \in OrderIds |-> Got(r[id], c)] = [id \in OrderIds |-> Got(q[id], c)]
    BY <2>1
  <2> QED
    BY <2>2 DEF GotSum
<1> QED
  BY <1>2, <1>3

(* Nothing has been ordered.                                               *)
LEMMA NothingOrdered ==
    ASSUME NEW c, NEW statuses
    PROVE  /\ TakenSum([id \in OrderIds |-> None], statuses, c) = 0
           /\ GotSum([id \in OrderIds |-> None], c) = 0
           /\ SoldSum([id \in OrderIds |-> None], c) = 0
           /\ BoughtSum([id \in OrderIds |-> None], c) = 0
<1> DEFINE z == [id \in OrderIds |-> 0]
           n == [id \in OrderIds |-> None]
<1>1. /\ [id \in OrderIds |-> Taken(n[id], statuses, c)] = z
      /\ [id \in OrderIds |-> Got(n[id], c)] = z
      /\ [id \in OrderIds |-> Sold(n[id], c)] = z
      /\ [id \in OrderIds |-> Bought(n[id], c)] = z
  BY DEF Taken, Got, Sold, Bought
<1>2. \A id \in OrderIds : z[id] = 0
  OBVIOUS
<1> HIDE DEF z
<1>3. SumFunctionOnSet(z, OrderIds) = 0
  BY <1>2, SumOfZeros, LedgerConstants
<1> QED
  BY <1>1, <1>3 DEF TakenSum, GotSum, SoldSum, BoughtSum

LEMMA SumsAreNumbers ==
    /\ \A q \in OrderMap : \A c, statuses :
          TakenSum(q, statuses, c) \in Int /\ SoldSum(q, c) \in Int /\ BoughtSum(q, c) \in Int
    /\ \A q \in IncomingMap : \A c : GotSum(q, c) \in Int
<1>0. IsFiniteSet(OrderIds)
  BY LedgerConstants
<1>1. ASSUME NEW q \in OrderMap, NEW c, NEW statuses
      PROVE  TakenSum(q, statuses, c) \in Int /\ SoldSum(q, c) \in Int /\ BoughtSum(q, c) \in Int
  <2> DEFINE f == [id \in OrderIds |-> Taken(q[id], statuses, c)]
             g == [id \in OrderIds |-> Sold(q[id], c)]
             h == [id \in OrderIds |-> Bought(q[id], c)]
  <2>1. NumbersOn(OrderIds, f) /\ NumbersOn(OrderIds, g) /\ NumbersOn(OrderIds, h)
    BY Worths DEF OrderMap, NumbersOn
  <2> HIDE DEF f, g, h
  <2>2. /\ SumFunctionOnSet(f, OrderIds) \in Int
        /\ SumFunctionOnSet(g, OrderIds) \in Int
        /\ SumFunctionOnSet(h, OrderIds) \in Int
    BY <1>0, <2>1, SumSplits
  <2> QED
    BY <2>2 DEF TakenSum, SoldSum, BoughtSum, f, g, h
<1>2. ASSUME NEW q \in IncomingMap, NEW c PROVE GotSum(q, c) \in Int
  <2> DEFINE f == [id \in OrderIds |-> Got(q[id], c)]
  <2>1. NumbersOn(OrderIds, f)
    BY Worths DEF IncomingMap, NumbersOn
  <2> HIDE DEF f
  <2>2. SumFunctionOnSet(f, OrderIds) \in Int
    BY <1>0, <2>1, SumSplits
  <2> QED
    BY <2>2 DEF GotSum, f
<1> QED
  BY <1>1, <1>2

-----------------------------------------------------------------------------
(* The updates of the user's handlers.                                     *)
OrderUpds ==
    [ type : {"order"}, id : OrderIds, currency_from : Currencies, currency_to : Currencies,
      amount_from : Amounts, amount_to : Amounts ]

Withdraws ==
    [ type : {"withdraw"}, id : RequestIds, currency : Currencies, amount : Amounts ]

TokenUpdates == [ type : {"enable", "disable"}, id : Tokens ]

Typed ==
    /\ transactions \in [UserTxs -> TxStates]
    /\ deposits \in [ExchangeTxs -> TxStates]
    /\ orders \in OrderMap
    /\ incoming \in IncomingMap
    /\ exchanges \in OrderMap
    /\ balances \in [Currencies -> Int \union {None}]
    /\ \A c \in Currencies \intersect Supported : balances[c] \in Int
    /\ withdrawals \in [RequestIds -> WithdrawalRequest \union {None}]
    /\ inbox \in SUBSET (OrderUpds \union Withdraws \union TokenUpdates)
    /\ lost \in [Tokens -> Int]

(* An order on its way is a new one, and one in progress has not been paid *)
(* out.                                                                    *)
NewOrders ==
    /\ \A u \in inbox \intersect OrderUpds : orders[u.id] = None /\ exchanges[u.id] = None
    /\ \A u, v \in inbox \intersect OrderUpds : u.id = v.id => u = v
    /\ \A id \in OrderIds :
          /\ orders[id] # None /\ orders[id].status = "InProgress" => exchanges[id] = None
          /\ exchanges[id] = None => incoming[id] = None

Seen == { t \in ExchangeTxs : deposits[t] # "absent" }

Counted == { t \in UserTxs : transactions[t] \in {"unconfirmed", "finalized"} }

Quiet == "reorg" \notin scenario

Honest == "altered" \notin scenario

(* The properties, in the sums above.                                      *)
RunningBooks ==
    \A c \in Currencies \intersect Supported :
        balances[c] = (IF c = "BTC" THEN Deposit * Cardinality(Seen) ELSE 0)
                        + (SoldSum(exchanges, c) - BoughtSum(exchanges, c))

ConservedBooks ==
    Honest => \A c \in Tokens \intersect Supported :
        (GotSum(incoming, c) - TakenSum(orders, NotRejected, c)) + balances[c]
          + TakenSum(orders, {"InProgress"}, c) + lost[c] = 0

CoveredTokens ==
    \A c \in Tokens : GotSum(incoming, c) - TakenSum(orders, NotRejected, c) >= 0

CoveredBtc ==
    Quiet =>
        (GotSum(incoming, "BTC") - TakenSum(orders, NotRejected, "BTC"))
          + Deposit * Cardinality(Counted) >= 0

(* Without reorganisations no deposit is taken back.                       *)
QuietDeposits == Quiet => \A t \in UserTxs : transactions[t] # "conflicted"

LedgerInv ==
    /\ Typed /\ NewOrders
    /\ RunningBooks /\ ConservedBooks
    /\ CoveredTokens /\ CoveredBtc /\ QuietDeposits

(* The sums of Ledger are the sums above.                                  *)
LEMMA LedgerSums ==
    /\ \A c, statuses : AmountFrom(statuses, c) = TakenSum(orders, statuses, c)
    /\ \A c : Incoming(c) = GotSum(incoming, c)
    /\ \A c : Earned(c) = SoldSum(exchanges, c) - BoughtSum(exchanges, c)
<1>1. ASSUME NEW c, NEW statuses PROVE AmountFrom(statuses, c) = TakenSum(orders, statuses, c)
  <2> DEFINE f == [id \in OrderIds |->
                     IF id \in Orders /\ orders[id].status \in statuses /\ orders[id].currency_from = c
                     THEN orders[id].amount_from ELSE 0]
  <2>1. f = [id \in OrderIds |-> Taken(orders[id], statuses, c)]
    BY DEF Taken, Orders
  <2>2. DOMAIN f = OrderIds
    OBVIOUS
  <2> HIDE DEF f
  <2>3. SumFunction(f) = TakenSum(orders, statuses, c)
    BY <2>1, <2>2 DEF SumFunction, TakenSum
  <2> QED
    BY <2>3 DEF AmountFrom, f
<1>2. ASSUME NEW c PROVE Incoming(c) = GotSum(incoming, c)
  <2> DEFINE f == [id \in OrderIds |->
                     IF incoming[id] # None /\ incoming[id].currency = c
                     THEN incoming[id].amount ELSE 0]
  <2>1. f = [id \in OrderIds |-> Got(incoming[id], c)]
    BY DEF Got
  <2>2. DOMAIN f = OrderIds
    OBVIOUS
  <2> HIDE DEF f
  <2>3. SumFunction(f) = GotSum(incoming, c)
    BY <2>1, <2>2 DEF SumFunction, GotSum
  <2> QED
    BY <2>3 DEF Incoming, f
<1>3. ASSUME NEW c PROVE Earned(c) = SoldSum(exchanges, c) - BoughtSum(exchanges, c)
  <2> DEFINE f == [id \in OrderIds |->
                     IF exchanges[id] # None /\ exchanges[id].currency_from = c
                     THEN exchanges[id].amount_from ELSE 0]
             g == [id \in OrderIds |->
                     IF exchanges[id] # None /\ exchanges[id].currency_to = c
                     THEN exchanges[id].amount_to ELSE 0]
  <2>1. /\ f = [id \in OrderIds |-> Sold(exchanges[id], c)]
        /\ g = [id \in OrderIds |-> Bought(exchanges[id], c)]
    BY DEF Sold, Bought
  <2>2. DOMAIN f = OrderIds /\ DOMAIN g = OrderIds
    OBVIOUS
  <2> HIDE DEF f, g
  <2>3. SumFunction(f) = SoldSum(exchanges, c) /\ SumFunction(g) = BoughtSum(exchanges, c)
    BY <2>1, <2>2 DEF SumFunction, SoldSum, BoughtSum
  <2> QED
    BY <2>3 DEF Earned, f, g
<1> QED
  BY <1>1, <1>2, <1>3

(* What is in withdrawals is not negative.                                 *)
LEMMA PendingNumber == ASSUME Typed, NEW c PROVE PendingWithdrawals(c) \in Nat
<1> DEFINE f == [id \in RequestIds |->
                   IF /\ withdrawals[id] # None
                      /\ withdrawals[id].status # "rejected" /\ withdrawals[id].currency = c
                   THEN withdrawals[id].amount + withdrawals[id].fee ELSE 0]
<1>1. \A id \in RequestIds : f[id] \in Nat
  <2>1. \A w \in WithdrawalRequest : w.amount \in Nat /\ w.fee \in Nat
    <3>1. Amounts \subseteq Nat /\ Fees \union {0} \subseteq Nat
      BY LedgerConstants
    <3> QED
      BY <3>1 DEF WithdrawalRequest
  <2>2. \A id \in RequestIds : withdrawals[id] # None => withdrawals[id] \in WithdrawalRequest
    BY DEF Typed
  <2> QED
    BY <2>1, <2>2
<1>2. DOMAIN f = RequestIds
  OBVIOUS
<1> HIDE DEF f
<1>3. SumFunctionOnSet(f, RequestIds) \in Nat
  BY <1>1, SumOfNaturals, LedgerConstants
<1>4. SumFunction(f) \in Nat
  BY <1>2, <1>3 DEF SumFunction
<1> QED
  BY <1>4 DEF PendingWithdrawals, f

(* What Net is of a token, and of BTC.                                     *)
LEMMA NetOfToken ==
    ASSUME Typed, NEW c \in Tokens, NEW counted
    PROVE  /\ Net(c, counted) = (GotSum(incoming, c) - TakenSum(orders, NotRejected, c))
                                   - PendingWithdrawals(c)
           /\ GotSum(incoming, c) - TakenSum(orders, NotRejected, c) \in Int
<1>1. c # "BTC"
  BY LedgerConstants
<1>2. GotSum(incoming, c) \in Int /\ TakenSum(orders, NotRejected, c) \in Int
      /\ PendingWithdrawals(c) \in Nat
  BY SumsAreNumbers, PendingNumber DEF Typed
<1>3. Net(c, counted) = Incoming(c) - AmountFrom(NotRejected, c) - PendingWithdrawals(c) + 0
  BY <1>1 DEF Net
<1>4. Incoming(c) = GotSum(incoming, c) /\ AmountFrom(NotRejected, c) = TakenSum(orders, NotRejected, c)
  BY LedgerSums
<1> QED
  BY <1>2, <1>3, <1>4

LEMMA CountedNumber == Typed => Cardinality(Counted) \in Nat /\ Cardinality(Seen) \in Nat
                                /\ IsFiniteSet(Counted) /\ IsFiniteSet(Seen)
<1>1. IsFiniteSet(Counted) /\ IsFiniteSet(Seen)
  BY FS_Subset, LedgerConstants DEF Counted, Seen
<1> QED
  BY <1>1, FS_CardinalityType

LEMMA NetOfBtc ==
    ASSUME Typed
    PROVE  /\ Net("BTC", {"unconfirmed", "finalized"})
                = ((GotSum(incoming, "BTC") - TakenSum(orders, NotRejected, "BTC"))
                     + Deposit * Cardinality(Counted)) - PendingWithdrawals("BTC")
           /\ GotSum(incoming, "BTC") - TakenSum(orders, NotRejected, "BTC") \in Int
           /\ Deposit * Cardinality(Counted) \in Int
<1>1. GotSum(incoming, "BTC") \in Int /\ TakenSum(orders, NotRejected, "BTC") \in Int
  BY SumsAreNumbers DEF Typed
<1>2. Cardinality(Counted) \in Nat /\ PendingWithdrawals("BTC") \in Nat
  BY CountedNumber, PendingNumber
<1>3. Net("BTC", {"unconfirmed", "finalized"})
        = Incoming("BTC") - AmountFrom(NotRejected, "BTC") - PendingWithdrawals("BTC")
            + Deposit * Cardinality(Counted)
  BY DEF Net, Counted
<1>4. Deposit * Cardinality(Counted) \in Int
  BY <1>2 DEF Deposit
<1>5. Incoming("BTC") = GotSum(incoming, "BTC")
      /\ AmountFrom(NotRejected, "BTC") = TakenSum(orders, NotRejected, "BTC")
  BY LedgerSums
<1> QED
  BY <1>1, <1>2, <1>3, <1>4, <1>5

(* What is clamped at zero and covers a positive amount was not clamped,   *)
(* and withdrawals have only made it smaller.                              *)
LEMMA BalanceCovers ==
    ASSUME Typed, NEW a \in Amounts, a > 0
    PROVE  /\ \A c \in Tokens : balance(c) >= a =>
                 GotSum(incoming, c) - TakenSum(orders, NotRejected, c) >= a
           /\ balance("BTC") >= a =>
                 (GotSum(incoming, "BTC") - TakenSum(orders, NotRejected, "BTC"))
                   + Deposit * Cardinality(Counted) >= a
<1>1. a \in Nat
  BY LedgerConstants
<1>2. ASSUME NEW c \in Tokens, balance(c) >= a
      PROVE  GotSum(incoming, c) - TakenSum(orders, NotRejected, c) >= a
  <2>1. PICK n : n = GotSum(incoming, c) - TakenSum(orders, NotRejected, c)
    OBVIOUS
  <2>2. /\ Net(c, {"unconfirmed", "finalized"}) = n - PendingWithdrawals(c)
        /\ n \in Int /\ PendingWithdrawals(c) \in Nat
    BY <2>1, NetOfToken, PendingNumber
  <2> QED
    BY <1>1, <1>2, <2>1, <2>2 DEF balance
<1>3. ASSUME balance("BTC") >= a
      PROVE  (GotSum(incoming, "BTC") - TakenSum(orders, NotRejected, "BTC"))
               + Deposit * Cardinality(Counted) >= a
  <2>1. PICK n : n = (GotSum(incoming, "BTC") - TakenSum(orders, NotRejected, "BTC"))
                       + Deposit * Cardinality(Counted)
    OBVIOUS
  <2>2. /\ Net("BTC", {"unconfirmed", "finalized"}) = n - PendingWithdrawals("BTC")
        /\ n \in Int /\ PendingWithdrawals("BTC") \in Nat
    BY <2>1, NetOfBtc, PendingNumber
  <2> QED
    BY <1>1, <1>3, <2>1, <2>2 DEF balance
<1> QED
  BY <1>2, <1>3

-----------------------------------------------------------------------------
LEMMA LedgerStarts == LedgerInit => LedgerInv
<1> SUFFICES ASSUME LedgerInit PROVE LedgerInv
  OBVIOUS
<1>1. /\ orders \in OrderMap /\ incoming \in IncomingMap /\ exchanges \in OrderMap
      /\ withdrawals \in [RequestIds -> WithdrawalRequest \union {None}]
      /\ transactions \in [UserTxs -> TxStates] /\ deposits \in [ExchangeTxs -> TxStates]
      /\ balances \in [Currencies -> Int \union {None}] /\ lost \in [Tokens -> Int]
  BY DEF LedgerInit, OrderMap, IncomingMap, TxStates
<1>2. \A c \in Currencies \intersect Supported : balances[c] = 0
  BY DEF LedgerInit
<1>3. Typed
  BY <1>1, <1>2 DEF Typed, LedgerInit
<1>4. NewOrders
  BY DEF NewOrders, LedgerInit
<1>5. \A c, statuses : /\ TakenSum(orders, statuses, c) = 0 /\ GotSum(incoming, c) = 0
                       /\ SoldSum(exchanges, c) = 0 /\ BoughtSum(exchanges, c) = 0
  BY NothingOrdered DEF LedgerInit
<1>6. Seen = {} /\ Cardinality(Seen) = 0
  BY FS_EmptySet DEF LedgerInit, Seen
<1>7. RunningBooks
  BY <1>2, <1>5, <1>6 DEF RunningBooks, Deposit
<1>8. ConservedBooks
  BY <1>2, <1>5 DEF ConservedBooks, LedgerInit, Currencies
<1>9. CoveredTokens /\ CoveredBtc
  <2>1. Cardinality(Counted) \in Nat
    BY <1>3, CountedNumber
  <2> QED
    BY <1>5, <2>1 DEF CoveredTokens, CoveredBtc, Deposit
<1>10. QuietDeposits
  BY DEF QuietDeposits, LedgerInit
<1> QED
  BY <1>3, <1>4, <1>7, <1>8, <1>9, <1>10 DEF LedgerInv

-----------------------------------------------------------------------------
(* The user's deposits: without reorganisations they only add.             *)
LEMMA UserDepositSteps ==
    ASSUME LedgerInv, NEW t \in UserTxs, NEW s \in TxStates,
           update_btc_tx(t, s) \/ user_cancel_btc_tx(t),
           UNCHANGED <<balances, scenario>>
    PROVE  LedgerInv'
<1>1. /\ UNCHANGED <<orders, incoming, exchanges, balances, deposits, withdrawals, inbox, lost, scenario>>
      /\ transactions' \in [UserTxs -> TxStates]
  BY DEF update_btc_tx, user_cancel_btc_tx, exchangeVars, TxStates, LedgerInv, Typed
<1>2. Typed' /\ NewOrders'
  BY <1>1 DEF LedgerInv, Typed, NewOrders
<1>3. RunningBooks' /\ ConservedBooks' /\ CoveredTokens'
  BY <1>1 DEF LedgerInv, RunningBooks, ConservedBooks, CoveredTokens, Seen, Honest
<1>4. ASSUME Quiet
      PROVE  /\ transactions' = [transactions EXCEPT ![t] = s]
             /\ s \in {"unconfirmed", "finalized"}
  BY <1>4 DEF update_btc_tx, user_cancel_btc_tx, Quiet, TxStates
<1>5. QuietDeposits'
  <2> SUFFICES ASSUME Quiet PROVE \A x \in UserTxs : transactions'[x] # "conflicted"
    BY <1>1 DEF QuietDeposits, Quiet
  <2> QED
    BY <1>4 DEF LedgerInv, QuietDeposits, Typed
<1>6. CoveredBtc'
  <2> SUFFICES ASSUME Quiet
               PROVE  (GotSum(incoming, "BTC") - TakenSum(orders, NotRejected, "BTC"))
                        + Deposit * Cardinality(Counted') >= 0
    BY <1>1 DEF CoveredBtc, Quiet
  <2>1. Counted \subseteq Counted'
    BY <1>4 DEF Counted, LedgerInv, Typed
  <2>2. /\ IsFiniteSet(Counted) /\ Cardinality(Counted) \in Nat
        /\ (IsFiniteSet(Counted) /\ Cardinality(Counted) \in Nat)'
    <3>1. (Typed => IsFiniteSet(Counted) /\ Cardinality(Counted) \in Nat)'
      <4>1. Typed => IsFiniteSet(Counted) /\ Cardinality(Counted) \in Nat
        BY CountedNumber
      <4> QED
        BY <4>1, CountedNumber, PTL
    <3> QED
      BY <1>2, <3>1, CountedNumber DEF LedgerInv
  <2>3. Cardinality(Counted) <= Cardinality(Counted')
    BY <2>1, <2>2, FS_Subset
  <2>4. GotSum(incoming, "BTC") \in Int /\ TakenSum(orders, NotRejected, "BTC") \in Int
    BY SumsAreNumbers DEF LedgerInv, Typed
  <2>5. (GotSum(incoming, "BTC") - TakenSum(orders, NotRejected, "BTC"))
           + Deposit * Cardinality(Counted) >= 0
    BY DEF LedgerInv, CoveredBtc
  <2> QED
    BY <2>2, <2>3, <2>4, <2>5 DEF Deposit
<1> QED
  BY <1>2, <1>3, <1>5, <1>6 DEF LedgerInv

(* The deposits of the exchange wallet: each output is counted once.       *)
LEMMA ExchangeDepositSteps ==
    ASSUME LedgerInv, NEW t \in ExchangeTxs, NEW s \in TxStates,
           process_incoming_btc_tx(t, s) \/ cancel_btc_tx(t),
           UNCHANGED scenario
    PROVE  LedgerInv'
<1>1. UNCHANGED <<transactions, orders, incoming, exchanges, withdrawals, inbox, lost, scenario>>
  BY DEF process_incoming_btc_tx, cancel_btc_tx
<1>2. /\ deposits \in [ExchangeTxs -> TxStates]
      /\ balances \in [Currencies -> Int \union {None}]
      /\ "BTC" \in Currencies \intersect Supported
      /\ \A c \in Currencies \intersect Supported : balances[c] \in Int
      /\ balances["BTC"] # None
  BY LedgerConstants, NoneIsAbsent DEF LedgerInv, Typed, Currencies
<1>3. IsFiniteSet(Seen) /\ Cardinality(Seen) \in Nat
  BY CountedNumber DEF LedgerInv
<1> DEFINE Moves(n) ==
         /\ balances' = [balances EXCEPT !["BTC"] = @ + n]
         /\ Deposit * Cardinality(Seen') = Deposit * Cardinality(Seen) + n
         /\ deposits' \in [ExchangeTxs -> TxStates]
<1>4. Moves(2) \/ Moves(-2) \/ Moves(0)
  <2>1. CASE process_incoming_btc_tx(t, s) /\ deposits[t] = "absent"
    <3>1. Seen' = Seen \union {t} /\ t \notin Seen
      BY <1>2, <2>1 DEF process_incoming_btc_tx, Seen
    <3>2. Cardinality(Seen') = Cardinality(Seen) + 1
      BY <1>3, <3>1, FS_AddElement
    <3>3. balances' = [balances EXCEPT !["BTC"] = @ + 2]
      BY <1>2, <2>1 DEF process_incoming_btc_tx, Add, Deposit
    <3>4. deposits' \in [ExchangeTxs -> TxStates]
      BY <1>2, <2>1 DEF process_incoming_btc_tx
    <3>5. Deposit * Cardinality(Seen') = Deposit * Cardinality(Seen) + 2
      BY <1>3, <3>2 DEF Deposit
    <3> QED
      BY <3>3, <3>4, <3>5
  <2>2. CASE cancel_btc_tx(t) /\ deposits[t] # "absent"
    <3>1. Seen' = Seen \ {t} /\ t \in Seen
      BY <1>2, <2>2 DEF cancel_btc_tx, Seen
    <3>2. Cardinality(Seen') = Cardinality(Seen) - 1
      BY <1>3, <3>1, FS_RemoveElement
    <3>3. balances' = [balances EXCEPT !["BTC"] = @ + (-2)]
      BY <1>2, <2>2 DEF cancel_btc_tx, Add, Deposit
    <3>4. deposits' \in [ExchangeTxs -> TxStates]
      BY <1>2, <2>2 DEF cancel_btc_tx, TxStates
    <3>5. Deposit * Cardinality(Seen') = Deposit * Cardinality(Seen) + (-2)
      BY <1>3, <3>2 DEF Deposit
    <3> QED
      BY <3>3, <3>4, <3>5
  <2>3. CASE \/ process_incoming_btc_tx(t, s) /\ deposits[t] # "absent"
             \/ cancel_btc_tx(t) /\ deposits[t] = "absent"
    <3>1. Seen' = Seen /\ balances' = balances
      BY <1>2, <2>3 DEF process_incoming_btc_tx, cancel_btc_tx, Seen
    <3>2. balances' = [balances EXCEPT !["BTC"] = @ + 0]
      BY <1>2, <3>1
    <3>3. deposits' \in [ExchangeTxs -> TxStates]
      BY <1>2, <2>3 DEF process_incoming_btc_tx, cancel_btc_tx, TxStates
    <3>4. Deposit * Cardinality(Seen') = Deposit * Cardinality(Seen) + 0
      BY <1>3, <3>1 DEF Deposit
    <3> QED
      BY <3>2, <3>3, <3>4
  <2> QED
    BY <2>1, <2>2, <2>3
<1>10. PICK n \in Int : Moves(n)
  <2> HIDE DEF Moves
  <2> QED
    BY <1>4
<1>5. /\ balances' \in [Currencies -> Int \union {None}]
      /\ balances'["BTC"] = balances["BTC"] + n
      /\ \A c \in Currencies : c # "BTC" => balances'[c] = balances[c]
      /\ \A c \in Currencies \intersect Supported : balances'[c] \in Int
  BY <1>2, <1>10
<1>6. Typed' /\ NewOrders'
  BY <1>1, <1>10, <1>5 DEF LedgerInv, Typed, NewOrders
<1>7. RunningBooks'
  <2> SUFFICES ASSUME NEW c \in Currencies \intersect Supported
               PROVE  balances'[c] = (IF c = "BTC" THEN Deposit * Cardinality(Seen') ELSE 0)
                                       + (SoldSum(exchanges, c) - BoughtSum(exchanges, c))
    BY <1>1 DEF RunningBooks
  <2>1. SoldSum(exchanges, c) \in Int /\ BoughtSum(exchanges, c) \in Int
    BY SumsAreNumbers DEF LedgerInv, Typed
  <2>2. balances[c] = (IF c = "BTC" THEN Deposit * Cardinality(Seen) ELSE 0)
                        + (SoldSum(exchanges, c) - BoughtSum(exchanges, c))
    BY DEF LedgerInv, RunningBooks
  <2>3. Deposit * Cardinality(Seen) \in Int
    BY <1>3 DEF Deposit
  <2> QED
    BY <1>5, <1>10, <2>1, <2>2, <2>3
<1>8. ConservedBooks'
  <2>1. \A c \in Tokens \intersect Supported : balances'[c] = balances[c]
    BY <1>5, LedgerConstants DEF Currencies
  <2> QED
    BY <1>1, <2>1 DEF LedgerInv, ConservedBooks, Honest
<1>9. CoveredTokens' /\ CoveredBtc' /\ QuietDeposits'
  BY <1>1 DEF LedgerInv, CoveredTokens, CoveredBtc, QuietDeposits, Quiet, Counted
<1> QED
  BY <1>6, <1>7, <1>8, <1>9 DEF LedgerInv

-----------------------------------------------------------------------------
(* What a handler sends, what is lost on the way and what is withdrawn     *)
(* moves no money between the user and the exchange wallet.                *)
LEMMA MoneyStays ==
    ASSUME LedgerInv,
           UNCHANGED <<transactions, deposits, orders, incoming, exchanges, balances, lost, scenario>>
    PROVE  /\ RunningBooks' /\ ConservedBooks'
           /\ CoveredTokens' /\ CoveredBtc' /\ QuietDeposits'
<1>1. RunningBooks'
  BY DEF LedgerInv, RunningBooks, Seen
<1>2. ConservedBooks' /\ CoveredTokens' /\ QuietDeposits'
  BY DEF LedgerInv, ConservedBooks, CoveredTokens, QuietDeposits, Quiet, Honest
<1>3. CoveredBtc'
  BY DEF LedgerInv, CoveredBtc, Counted, Quiet
<1> QED
  BY <1>1, <1>2, <1>3

LEMMA OrderSent ==
    ASSUME LedgerInv, UNCHANGED scenario,
           NEW id \in OrderIds, NEW from \in Currencies, NEW to \in Currencies,
           NEW a \in Amounts, NEW b \in Amounts, order_exchange(id, from, to, a, b)
    PROVE  LedgerInv'
<1>1. PICK u : u = OrderUpd(id, from, to, a, b)
  OBVIOUS
<1>2. u \in OrderUpds /\ u.id = id
  BY <1>1 DEF OrderUpd, OrderUpds
<1>3. /\ inbox' = inbox \union {u}
      /\ UNCHANGED <<transactions, deposits, orders, incoming, exchanges, balances, withdrawals, lost, scenario>>
      /\ orders[id] = None /\ exchanges[id] = None
      /\ \A v \in inbox : v.id # id
  BY <1>1 DEF order_exchange, exchangeVars
<1>4. Typed'
  BY <1>2, <1>3 DEF LedgerInv, Typed
<1>5. NewOrders'
  <2>1. inbox' \intersect OrderUpds = (inbox \intersect OrderUpds) \union {u}
    BY <1>2, <1>3
  <2> QED
    BY <1>2, <1>3, <2>1 DEF LedgerInv, NewOrders
<1> QED
  BY <1>3, <1>4, <1>5, MoneyStays DEF LedgerInv

LEMMA WithdrawalSent ==
    ASSUME LedgerInv, UNCHANGED scenario,
           NEW id \in RequestIds, NEW c \in Currencies, NEW a \in Amounts, NEW fee,
           post_withdraw(id, c, a, fee)
    PROVE  LedgerInv'
<1>1. PICK u : u = Withdraw(id, c, a)
  OBVIOUS
<1>2. u \in Withdraws /\ u \notin OrderUpds
  BY <1>1 DEF Withdraw, Withdraws, OrderUpds
<1>3. /\ inbox' = inbox \union {u}
      /\ UNCHANGED <<transactions, deposits, orders, incoming, exchanges, balances, withdrawals, lost, scenario>>
  BY <1>1 DEF post_withdraw, exchangeVars
<1>4. Typed'
  BY <1>2, <1>3 DEF LedgerInv, Typed
<1>5. NewOrders'
  <2>1. inbox' \intersect OrderUpds = inbox \intersect OrderUpds
    BY <1>2, <1>3
  <2> QED
    BY <1>3, <2>1 DEF LedgerInv, NewOrders
<1> QED
  BY <1>3, <1>4, <1>5, MoneyStays DEF LedgerInv

LEMMA SwitchSent ==
    ASSUME LedgerInv, UNCHANGED scenario, NEW c \in Tokens, token_handler(c)
    PROVE  LedgerInv'
<1>1. PICK u : u = IF c \in currencies THEN TokenUpdate("disable", c) ELSE TokenUpdate("enable", c)
  OBVIOUS
<1>2. u \in TokenUpdates /\ u \notin OrderUpds
  BY <1>1 DEF TokenUpdate, TokenUpdates, OrderUpds
<1>3. /\ inbox' = inbox \union {u}
      /\ UNCHANGED <<transactions, deposits, orders, incoming, exchanges, balances, withdrawals, lost, scenario>>
  BY <1>1 DEF token_handler, exchangeVars
<1>4. Typed'
  BY <1>2, <1>3 DEF LedgerInv, Typed
<1>5. NewOrders'
  <2>1. inbox' \intersect OrderUpds = inbox \intersect OrderUpds
    BY <1>2, <1>3
  <2> QED
    BY <1>3, <2>1 DEF LedgerInv, NewOrders
<1> QED
  BY <1>3, <1>4, <1>5, MoneyStays DEF LedgerInv

(* An update that fails is gone; a token switched on gets an empty entry.  *)
LEMMA UpdateGone ==
    ASSUME LedgerInv, UNCHANGED scenario, NEW u \in inbox, Fails(u) \/ enable(u)
    PROVE  LedgerInv'
<1>1. /\ inbox' = inbox \ {u}
      /\ UNCHANGED <<transactions, deposits, orders, incoming, exchanges, balances, withdrawals, lost, scenario>>
  BY DEF Fails, enable, exchangeVars
<1>2. Typed' /\ NewOrders'
  BY <1>1 DEF LedgerInv, Typed, NewOrders
<1> QED
  BY <1>1, <1>2, MoneyStays DEF LedgerInv

(* A withdrawal is applied and ends; no sum above counts it.               *)
LEMMA WithdrawalApplied ==
    ASSUME LedgerInv, UNCHANGED scenario, NEW u \in inbox, with_new_withdrawal_request(u)
    PROVE  LedgerInv'
<1>1. u \in Withdraws
  BY DEF with_new_withdrawal_request, LedgerInv, Typed, OrderUpds, TokenUpdates
<1>2. PICK w : w = [ currency |-> u.currency, amount |-> u.amount, fee |-> 0, status |-> "open" ]
  OBVIOUS
<1>3. u.id \in RequestIds /\ w \in WithdrawalRequest
  BY <1>1, <1>2 DEF Withdraws, WithdrawalRequest
<1>4. /\ inbox' = inbox \ {u}
      /\ withdrawals' = [withdrawals EXCEPT ![u.id] = w]
      /\ UNCHANGED <<transactions, deposits, orders, incoming, exchanges, balances, lost, scenario>>
  BY <1>2 DEF with_new_withdrawal_request, exchangeVars
<1>5. Typed' /\ NewOrders'
  BY <1>3, <1>4 DEF LedgerInv, Typed, NewOrders
<1> QED
  BY <1>4, <1>5, MoneyStays DEF LedgerInv

LEMMA WithdrawalEnds ==
    ASSUME LedgerInv, UNCHANGED scenario, NEW id \in RequestIds,
           withdrawal_rejected(id) \/ \E fee \in Fees : withdrawal_completed(id, fee)
    PROVE  LedgerInv'
<1>1. PICK status \in {"completed", "rejected"}, fee \in Fees \union {0} :
          /\ withdrawals[id] # None
          /\ withdrawals' = [withdrawals EXCEPT ![id].status = status, ![id].fee = fee]
  BY DEF withdrawal_rejected, withdrawal_completed
<1>2. UNCHANGED <<transactions, deposits, orders, incoming, exchanges, balances, inbox, lost, scenario>>
  BY DEF withdrawal_rejected, withdrawal_completed, exchangeVars
<1>3. withdrawals[id] \in WithdrawalRequest
  BY <1>1 DEF LedgerInv, Typed
<1>4. [withdrawals[id] EXCEPT !.status = status, !.fee = fee] \in WithdrawalRequest
  BY <1>3 DEF WithdrawalRequest
<1>5. withdrawals' = [withdrawals EXCEPT ![id] = [withdrawals[id] EXCEPT !.status = status, !.fee = fee]]
  BY <1>1 DEF LedgerInv, Typed
<1>6. Typed' /\ NewOrders'
  BY <1>2, <1>4, <1>5 DEF LedgerInv, Typed, NewOrders
<1> QED
  BY <1>2, <1>6, MoneyStays DEF LedgerInv

-----------------------------------------------------------------------------
(* An order is applied only if the balance covers it.                      *)
LEMMA OrderApplied ==
    ASSUME LedgerInv, UNCHANGED scenario, NEW u \in inbox, add_exchange_request(u)
    PROVE  LedgerInv'
<1>1. u \in inbox \intersect OrderUpds
  BY DEF add_exchange_request, LedgerInv, Typed, Withdraws, TokenUpdates
<1>2. PICK o : o = [ currency_from |-> u.currency_from, currency_to |-> u.currency_to,
                     amount_from |-> u.amount_from, amount_to |-> u.amount_to,
                     status |-> "InProgress" ]
  OBVIOUS
<1>3. /\ u.id \in OrderIds /\ o \in ExchangeOrder /\ o # None
      /\ o.currency_from = u.currency_from /\ o.amount_from = u.amount_from
      /\ o.status = "InProgress"
      /\ u.currency_from \in Currencies /\ u.amount_from \in Amounts
      /\ u.amount_from \in Nat
  BY <1>1, <1>2, NoneIsAbsent, LedgerConstants DEF OrderUpds, ExchangeOrder
<1>4. /\ inbox' = inbox \ {u}
      /\ orders' = [orders EXCEPT ![u.id] = o]
      /\ balance(u.currency_from) >= u.amount_from
      /\ UNCHANGED <<transactions, deposits, incoming, exchanges, balances, withdrawals, lost, scenario>>
  BY <1>2 DEF add_exchange_request
<1>5. orders[u.id] = None /\ exchanges[u.id] = None
  BY <1>1 DEF LedgerInv, NewOrders
<1>6. Typed'
  <2>1. orders' \in OrderMap
    BY <1>3, <1>4 DEF LedgerInv, Typed, OrderMap
  <2> QED
    BY <1>4, <2>1 DEF LedgerInv, Typed
<1>7. NewOrders'
  <2>1. \A v \in inbox' \intersect OrderUpds : v \in inbox \intersect OrderUpds /\ v.id # u.id
    BY <1>1, <1>4 DEF LedgerInv, NewOrders
  <2>2. \A v \in inbox' \intersect OrderUpds : v.id \in OrderIds
    BY DEF OrderUpds
  <2>3. orders \in OrderMap
    BY DEF LedgerInv, Typed
  <2> QED
    BY <1>3, <1>4, <1>5, <2>1, <2>2, <2>3 DEF LedgerInv, NewOrders, OrderMap
<1>8. \A c : /\ TakenSum(orders', NotRejected, c)
                  = TakenSum(orders, NotRejected, c) + (IF c = u.currency_from THEN u.amount_from ELSE 0)
             /\ TakenSum(orders', {"InProgress"}, c)
                  = TakenSum(orders, {"InProgress"}, c) + (IF c = u.currency_from THEN u.amount_from ELSE 0)
  <2> SUFFICES ASSUME NEW c
               PROVE  /\ TakenSum(orders', NotRejected, c)
                           = TakenSum(orders, NotRejected, c) + (IF c = u.currency_from THEN u.amount_from ELSE 0)
                      /\ TakenSum(orders', {"InProgress"}, c)
                           = TakenSum(orders, {"InProgress"}, c) + (IF c = u.currency_from THEN u.amount_from ELSE 0)
    OBVIOUS
  <2>0. orders \in OrderMap /\ o \in ExchangeOrder \union {None}
    BY <1>3 DEF LedgerInv, Typed
  <2>1. ASSUME NEW statuses
        PROVE  /\ TakenSum(orders, statuses, c) \in Int
               /\ TakenSum(orders', statuses, c)
                    = (TakenSum(orders, statuses, c) - Taken(None, statuses, c)) + Taken(o, statuses, c)
    <3>1. TakenSum([orders EXCEPT ![u.id] = o], statuses, c)
            = (TakenSum(orders, statuses, c) - Taken(orders[u.id], statuses, c)) + Taken(o, statuses, c)
      BY <1>3, <2>0, TakenChanges
    <3> QED
      BY <1>4, <1>5, <2>0, <3>1, SumsAreNumbers
  <2>2. \A statuses : Taken(None, statuses, c) = 0
    BY DEF Taken
  <2>3. /\ Taken(o, NotRejected, c) = IF c = u.currency_from THEN u.amount_from ELSE 0
        /\ Taken(o, {"InProgress"}, c) = IF c = u.currency_from THEN u.amount_from ELSE 0
    BY <1>3 DEF Taken, NotRejected
  <2> QED
    BY <1>3, <2>1, <2>2, <2>3
<1>9. RunningBooks' /\ QuietDeposits'
  BY <1>4 DEF LedgerInv, RunningBooks, Seen, QuietDeposits, Quiet
<1>10. \A c : TakenSum(orders, NotRejected, c) \in Int /\ TakenSum(orders, {"InProgress"}, c) \in Int
              /\ GotSum(incoming, c) \in Int
  BY SumsAreNumbers DEF LedgerInv, Typed
<1>11. ConservedBooks'
  <2> SUFFICES ASSUME Honest, NEW c \in Tokens \intersect Supported
               PROVE  (GotSum(incoming, c) - TakenSum(orders', NotRejected, c)) + balances[c]
                         + TakenSum(orders', {"InProgress"}, c) + lost[c] = 0
    BY <1>4 DEF ConservedBooks, Honest
  <2>1. (GotSum(incoming, c) - TakenSum(orders, NotRejected, c)) + balances[c]
           + TakenSum(orders, {"InProgress"}, c) + lost[c] = 0
    BY DEF LedgerInv, ConservedBooks
  <2>2. balances[c] \in Int /\ lost[c] \in Int
    BY DEF LedgerInv, Typed, Currencies
  <2> QED
    BY <1>3, <1>8, <1>10, <2>1, <2>2
<1>12. CoveredTokens'
  <2> SUFFICES ASSUME NEW c \in Tokens
               PROVE  GotSum(incoming, c) - TakenSum(orders', NotRejected, c) >= 0
    BY <1>4 DEF CoveredTokens
  <2>1. GotSum(incoming, c) - TakenSum(orders, NotRejected, c) >= 0
    BY DEF LedgerInv, CoveredTokens
  <2>2. c = u.currency_from /\ u.amount_from > 0
        => GotSum(incoming, c) - TakenSum(orders, NotRejected, c) >= u.amount_from
    BY <1>3, <1>4, BalanceCovers DEF LedgerInv
  <2> QED
    BY <1>3, <1>8, <1>10, <2>1, <2>2
<1>13. CoveredBtc'
  <2> SUFFICES ASSUME Quiet
               PROVE  (GotSum(incoming, "BTC") - TakenSum(orders', NotRejected, "BTC"))
                         + Deposit * Cardinality(Counted) >= 0
    BY <1>4 DEF CoveredBtc, Counted, Quiet
  <2>1. (GotSum(incoming, "BTC") - TakenSum(orders, NotRejected, "BTC"))
            + Deposit * Cardinality(Counted) >= 0
    BY DEF LedgerInv, CoveredBtc
  <2>2. "BTC" = u.currency_from /\ u.amount_from > 0 =>
           (GotSum(incoming, "BTC") - TakenSum(orders, NotRejected, "BTC"))
              + Deposit * Cardinality(Counted) >= u.amount_from
    BY <1>3, <1>4, BalanceCovers DEF LedgerInv
  <2>3. Deposit * Cardinality(Counted) \in Int
    BY CountedNumber DEF LedgerInv, Deposit
  <2> QED
    BY <1>3, <1>8, <1>10, <2>1, <2>2, <2>3
<1> QED
  BY <1>6, <1>7, <1>9, <1>11, <1>12, <1>13 DEF LedgerInv

(* A rejected order gives back what it took.                               *)
LEMMA OrderRejected ==
    ASSUME LedgerInv, UNCHANGED scenario, NEW id \in OrderIds, reject_exchange(id)
    PROVE  LedgerInv'
<1>1. PICK o : o = [orders[id] EXCEPT !.status = "Rejected"]
  OBVIOUS
<1>2. /\ orders[id] \in ExchangeOrder /\ orders[id] # None /\ orders[id].status = "InProgress"
      /\ o \in ExchangeOrder /\ o # None /\ o.status = "Rejected"
      /\ orders' = [orders EXCEPT ![id] = o]
      /\ UNCHANGED <<transactions, deposits, incoming, exchanges, balances, withdrawals, inbox, lost, scenario>>
  BY <1>1, NoneIsAbsent DEF reject_exchange, Orders, LedgerInv, Typed, OrderMap, ExchangeOrder
<1>3. Typed'
  <2>1. orders' \in OrderMap
    BY <1>2 DEF LedgerInv, Typed, OrderMap
  <2> QED
    BY <1>2, <2>1 DEF LedgerInv, Typed
<1>4. NewOrders'
  <2>1. \A v \in inbox \intersect OrderUpds : v.id \in OrderIds /\ v.id # id
    BY <1>2 DEF OrderUpds, LedgerInv, NewOrders
  <2> QED
    BY <1>2, <2>1 DEF LedgerInv, Typed, OrderMap, NewOrders
<1>5. PICK back : /\ back = orders[id].amount_from /\ back \in Nat
  BY <1>2, LedgerConstants DEF ExchangeOrder
<1>6. \A c : /\ TakenSum(orders', NotRejected, c)
                  = TakenSum(orders, NotRejected, c) - (IF c = orders[id].currency_from THEN back ELSE 0)
             /\ TakenSum(orders', {"InProgress"}, c)
                  = TakenSum(orders, {"InProgress"}, c) - (IF c = orders[id].currency_from THEN back ELSE 0)
             /\ TakenSum(orders, NotRejected, c) \in Int /\ TakenSum(orders, {"InProgress"}, c) \in Int
             /\ GotSum(incoming, c) \in Int
  <2> SUFFICES ASSUME NEW c
               PROVE  /\ TakenSum(orders', NotRejected, c)
                           = TakenSum(orders, NotRejected, c) - (IF c = orders[id].currency_from THEN back ELSE 0)
                      /\ TakenSum(orders', {"InProgress"}, c)
                           = TakenSum(orders, {"InProgress"}, c) - (IF c = orders[id].currency_from THEN back ELSE 0)
                      /\ TakenSum(orders, NotRejected, c) \in Int /\ TakenSum(orders, {"InProgress"}, c) \in Int
                      /\ GotSum(incoming, c) \in Int
    OBVIOUS
  <2>0. orders \in OrderMap /\ o \in ExchangeOrder \union {None}
    BY <1>2 DEF LedgerInv, Typed
  <2>1. ASSUME NEW statuses
        PROVE  /\ TakenSum(orders, statuses, c) \in Int
               /\ TakenSum(orders', statuses, c)
                    = (TakenSum(orders, statuses, c) - Taken(orders[id], statuses, c)) + Taken(o, statuses, c)
    <3>0. \A x \in OrderIds :
             TakenSum([orders EXCEPT ![x] = o], statuses, c)
               = (TakenSum(orders, statuses, c) - Taken(orders[x], statuses, c)) + Taken(o, statuses, c)
      BY <2>0, TakenChanges
    <3>1. TakenSum([orders EXCEPT ![id] = o], statuses, c)
            = (TakenSum(orders, statuses, c) - Taken(orders[id], statuses, c)) + Taken(o, statuses, c)
      BY <3>0
    <3> QED
      BY <1>2, <2>0, <3>1, SumsAreNumbers
  <2>2. /\ Taken(orders[id], NotRejected, c) = IF c = orders[id].currency_from THEN back ELSE 0
        /\ Taken(orders[id], {"InProgress"}, c) = IF c = orders[id].currency_from THEN back ELSE 0
        /\ Taken(o, NotRejected, c) = 0 /\ Taken(o, {"InProgress"}, c) = 0
    BY <1>2, <1>5 DEF Taken, NotRejected
  <2>3. GotSum(incoming, c) \in Int
    BY SumsAreNumbers DEF LedgerInv, Typed
  <2> QED
    BY <1>5, <2>1, <2>2, <2>3
<1>7. RunningBooks' /\ QuietDeposits'
  BY <1>2 DEF LedgerInv, RunningBooks, Seen, QuietDeposits, Quiet
<1>8. ConservedBooks'
  <2> SUFFICES ASSUME Honest, NEW c \in Tokens \intersect Supported
               PROVE  (GotSum(incoming, c) - TakenSum(orders', NotRejected, c)) + balances[c]
                         + TakenSum(orders', {"InProgress"}, c) + lost[c] = 0
    BY <1>2 DEF ConservedBooks, Honest
  <2>1. (GotSum(incoming, c) - TakenSum(orders, NotRejected, c)) + balances[c]
           + TakenSum(orders, {"InProgress"}, c) + lost[c] = 0
    BY DEF LedgerInv, ConservedBooks
  <2>2. balances[c] \in Int /\ lost[c] \in Int
    BY DEF LedgerInv, Typed, Currencies
  <2> QED
    BY <1>5, <1>6, <2>1, <2>2
<1>9. CoveredTokens'
  <2> SUFFICES ASSUME NEW c \in Tokens
               PROVE  GotSum(incoming, c) - TakenSum(orders', NotRejected, c) >= 0
    BY <1>2 DEF CoveredTokens
  <2>1. GotSum(incoming, c) - TakenSum(orders, NotRejected, c) >= 0
    BY DEF LedgerInv, CoveredTokens
  <2> QED
    BY <1>5, <1>6, <2>1
<1>10. CoveredBtc'
  <2> SUFFICES ASSUME Quiet
               PROVE  (GotSum(incoming, "BTC") - TakenSum(orders', NotRejected, "BTC"))
                         + Deposit * Cardinality(Counted) >= 0
    BY <1>2 DEF CoveredBtc, Counted, Quiet
  <2>1. (GotSum(incoming, "BTC") - TakenSum(orders, NotRejected, "BTC"))
            + Deposit * Cardinality(Counted) >= 0
    BY DEF LedgerInv, CoveredBtc
  <2>2. Deposit * Cardinality(Counted) \in Int
    BY CountedNumber DEF LedgerInv, Deposit
  <2> QED
    BY <1>5, <1>6, <2>1, <2>2
<1> QED
  BY <1>3, <1>4, <1>7, <1>8, <1>9, <1>10 DEF LedgerInv

(* A completed order: the user gets what the decision says, which is what  *)
(* the exchange wallet gives when the decision repeats the order, and the  *)
(* wallet what was taken from the user.                                    *)
LEMMA OrderConfirmed ==
    ASSUME LedgerInv, UNCHANGED scenario, NEW id \in OrderIds, confirm_exchange(id)
    PROVE  LedgerInv'
<1>0. PICK req \in ExchangeDecisions(id) : add_incoming_exchange(req)
  BY DEF confirm_exchange
<1>1. PICK o, d, i : /\ o = orders[id]
                     /\ d = [o EXCEPT !.status = "Completed"]
                     /\ i = [ currency |-> req.currency, amount |-> req.amount ]
  OBVIOUS
<1>2. orders \in OrderMap /\ incoming \in IncomingMap /\ exchanges \in OrderMap
  BY DEF LedgerInv, Typed
<1>3. /\ o \in ExchangeOrder /\ o # None /\ o.status = "InProgress"
      /\ o.currency_from \in Currencies /\ o.currency_to \in Currencies
      /\ o.amount_from \in Nat /\ o.amount_to \in Nat
  BY <1>1, <1>2, NoneIsAbsent, LedgerConstants
     DEF confirm_exchange, Orders, OrderMap, ExchangeOrder
<1>4. /\ d \in ExchangeOrder /\ d # None /\ d.status = "Completed"
      /\ d.currency_from = o.currency_from /\ d.amount_from = o.amount_from
      /\ i \in IncomingOrder /\ i # None
      /\ Honest => i.currency = o.currency_to /\ i.amount = o.amount_to
  BY <1>1, <1>3, NoneIsAbsent DEF ExchangeOrder, IncomingOrder, ExchangeDecisions, Honest
<1>5. /\ orders' = [orders EXCEPT ![id] = d]
      /\ exchanges' = [exchanges EXCEPT ![id] = o]
      /\ incoming' = [incoming EXCEPT ![id] = i]
      /\ UNCHANGED <<transactions, deposits, withdrawals, inbox, lost, scenario>>
  BY <1>0, <1>1, <1>2
     DEF confirm_exchange, process_order, add_incoming_exchange, ExchangeDecisions, OrderMap
<1>6. balances' = Add(Add(balances, o.currency_from, o.amount_from, o.amount_from),
                      o.currency_to, -o.amount_to, o.amount_to)
  BY <1>1 DEF confirm_exchange, process_order
<1>7. exchanges[id] = None /\ incoming[id] = None
  BY <1>1, <1>3 DEF LedgerInv, NewOrders
<1>8. /\ balances' \in [Currencies -> Int \union {None}]
      /\ \A c \in Currencies \intersect Supported :
            /\ balances[c] \in Int /\ balances'[c] \in Int
            /\ balances'[c] = (balances[c] + Sold(o, c)) - Bought(o, c)
  <2>1. PICK b : b = Add(balances, o.currency_from, o.amount_from, o.amount_from)
    OBVIOUS
  <2>2. /\ balances \in [Currencies -> Int \union {None}]
        /\ \A c \in Currencies \intersect Supported : balances[c] \in Int
    BY DEF LedgerInv, Typed
  <2>3. None \notin Int
    BY NoneIsAbsent
  <2>4. /\ b \in [Currencies -> Int \union {None}]
        /\ \A c \in Currencies \intersect Supported : b[c] \in Int /\ b[c] = balances[c] + Sold(o, c)
    BY <1>3, <2>1, <2>2, <2>3 DEF Add, Sold
  <2>5. /\ balances' \in [Currencies -> Int \union {None}]
        /\ \A c \in Currencies \intersect Supported :
              balances'[c] \in Int /\ balances'[c] = b[c] - Bought(o, c)
    BY <1>3, <1>6, <2>1, <2>3, <2>4 DEF Add, Bought
  <2> QED
    BY <2>2, <2>4, <2>5
<1>9. Typed'
  <2>1. orders' \in OrderMap /\ exchanges' \in OrderMap /\ incoming' \in IncomingMap
    BY <1>2, <1>3, <1>4, <1>5 DEF OrderMap, IncomingMap
  <2> QED
    BY <1>5, <1>8, <2>1 DEF LedgerInv, Typed
<1>10. NewOrders'
  <2>1. \A v \in inbox \intersect OrderUpds : v.id \in OrderIds /\ v.id # id
    BY <1>1, <1>3 DEF OrderUpds, LedgerInv, NewOrders
  <2> QED
    BY <1>2, <1>3, <1>4, <1>5, <2>1 DEF LedgerInv, OrderMap, IncomingMap, NewOrders
<1>11. \A c : /\ TakenSum(orders', NotRejected, c) = TakenSum(orders, NotRejected, c)
              /\ TakenSum(orders', {"InProgress"}, c) = TakenSum(orders, {"InProgress"}, c) - Sold(o, c)
              /\ TakenSum(orders, NotRejected, c) \in Int /\ TakenSum(orders, {"InProgress"}, c) \in Int
  <2> SUFFICES ASSUME NEW c
               PROVE  /\ TakenSum(orders', NotRejected, c) = TakenSum(orders, NotRejected, c)
                      /\ TakenSum(orders', {"InProgress"}, c) = TakenSum(orders, {"InProgress"}, c) - Sold(o, c)
                      /\ TakenSum(orders, NotRejected, c) \in Int /\ TakenSum(orders, {"InProgress"}, c) \in Int
    OBVIOUS
  <2>1. d \in ExchangeOrder \union {None}
    BY <1>4
  <2>2. ASSUME NEW statuses
        PROVE  /\ TakenSum(orders, statuses, c) \in Int
               /\ TakenSum(orders', statuses, c)
                    = (TakenSum(orders, statuses, c) - Taken(o, statuses, c)) + Taken(d, statuses, c)
    <3>1. \A x \in OrderIds :
             TakenSum([orders EXCEPT ![x] = d], statuses, c)
               = (TakenSum(orders, statuses, c) - Taken(orders[x], statuses, c)) + Taken(d, statuses, c)
      BY <1>2, <2>1, TakenChanges
    <3> QED
      BY <1>1, <1>2, <1>5, <3>1, SumsAreNumbers
  <2>3. /\ Taken(o, NotRejected, c) = Taken(d, NotRejected, c)
        /\ Taken(o, NotRejected, c) \in Nat
        /\ Taken(o, {"InProgress"}, c) = Sold(o, c) /\ Taken(d, {"InProgress"}, c) = 0
        /\ Sold(o, c) \in Nat
    BY <1>3, <1>4 DEF Taken, Sold, NotRejected
  <2> QED
    BY <2>2, <2>3
<1>12. \A c : /\ GotSum(incoming', c) = GotSum(incoming, c) + Got(i, c)
              /\ Honest => Got(i, c) = Bought(o, c)
              /\ GotSum(incoming, c) \in Int
              /\ Got(i, c) \in Nat /\ Bought(o, c) \in Nat /\ Sold(o, c) \in Nat
  <2> SUFFICES ASSUME NEW c
               PROVE  /\ GotSum(incoming', c) = GotSum(incoming, c) + Got(i, c)
                      /\ Honest => Got(i, c) = Bought(o, c)
                      /\ GotSum(incoming, c) \in Int
                      /\ Got(i, c) \in Nat /\ Bought(o, c) \in Nat /\ Sold(o, c) \in Nat
    OBVIOUS
  <2>1. i \in IncomingOrder \union {None}
    BY <1>4
  <2>2. \A x \in OrderIds :
           GotSum([incoming EXCEPT ![x] = i], c) = (GotSum(incoming, c) - Got(incoming[x], c)) + Got(i, c)
    BY <1>2, <2>1, GotChanges
  <2>3. GotSum(incoming', c) = (GotSum(incoming, c) - Got(None, c)) + Got(i, c)
    BY <1>5, <1>7, <2>2
  <2>4. /\ Got(None, c) = 0 /\ (Honest => Got(i, c) = Bought(o, c))
        /\ Bought(o, c) \in Nat /\ Sold(o, c) \in Nat
    BY <1>3, <1>4 DEF Got, Bought, Sold
  <2>6. Got(i, c) \in Nat
    BY <2>1, Worths
  <2>5. GotSum(incoming, c) \in Int
    BY <1>2, SumsAreNumbers
  <2> QED
    BY <2>3, <2>4, <2>5, <2>6
<1>13. \A c : /\ SoldSum(exchanges', c) = SoldSum(exchanges, c) + Sold(o, c)
              /\ BoughtSum(exchanges', c) = BoughtSum(exchanges, c) + Bought(o, c)
              /\ SoldSum(exchanges, c) \in Int /\ BoughtSum(exchanges, c) \in Int
  <2> SUFFICES ASSUME NEW c
               PROVE  /\ SoldSum(exchanges', c) = SoldSum(exchanges, c) + Sold(o, c)
                      /\ BoughtSum(exchanges', c) = BoughtSum(exchanges, c) + Bought(o, c)
                      /\ SoldSum(exchanges, c) \in Int /\ BoughtSum(exchanges, c) \in Int
    OBVIOUS
  <2>1. o \in ExchangeOrder \union {None}
    BY <1>3
  <2>2. \A x \in OrderIds :
           SoldSum([exchanges EXCEPT ![x] = o], c) = (SoldSum(exchanges, c) - Sold(exchanges[x], c)) + Sold(o, c)
    BY <1>2, <2>1, SoldChanges
  <2>3. \A x \in OrderIds :
           BoughtSum([exchanges EXCEPT ![x] = o], c)
             = (BoughtSum(exchanges, c) - Bought(exchanges[x], c)) + Bought(o, c)
    BY <1>2, <2>1, BoughtChanges
  <2>4. /\ SoldSum(exchanges', c) = (SoldSum(exchanges, c) - Sold(None, c)) + Sold(o, c)
        /\ BoughtSum(exchanges', c) = (BoughtSum(exchanges, c) - Bought(None, c)) + Bought(o, c)
    BY <1>5, <1>7, <2>2, <2>3
  <2>5. Sold(None, c) = 0 /\ Bought(None, c) = 0
    BY DEF Sold, Bought
  <2>6. SoldSum(exchanges, c) \in Int /\ BoughtSum(exchanges, c) \in Int
    BY <1>2, SumsAreNumbers
  <2> QED
    BY <1>12, <2>4, <2>5, <2>6
<1>14. RunningBooks'
  <2> SUFFICES ASSUME NEW c \in Currencies \intersect Supported
               PROVE  balances'[c] = (IF c = "BTC" THEN Deposit * Cardinality(Seen) ELSE 0)
                                       + (SoldSum(exchanges', c) - BoughtSum(exchanges', c))
    BY <1>5 DEF RunningBooks, Seen
  <2>1. balances[c] = (IF c = "BTC" THEN Deposit * Cardinality(Seen) ELSE 0)
                        + (SoldSum(exchanges, c) - BoughtSum(exchanges, c))
    BY DEF LedgerInv, RunningBooks
  <2>2. PICK p : p = IF c = "BTC" THEN Deposit * Cardinality(Seen) ELSE 0
    OBVIOUS
  <2>3. p \in Int
    BY <2>2, CountedNumber DEF LedgerInv, Deposit
  <2> QED
    BY <1>8, <1>12, <1>13, <2>1, <2>2, <2>3
<1>15. ConservedBooks'
  <2> SUFFICES ASSUME Honest, NEW c \in Tokens \intersect Supported
               PROVE  (GotSum(incoming', c) - TakenSum(orders', NotRejected, c)) + balances'[c]
                         + TakenSum(orders', {"InProgress"}, c) + lost[c] = 0
    BY <1>5 DEF ConservedBooks, Honest
  <2>1. (GotSum(incoming, c) - TakenSum(orders, NotRejected, c)) + balances[c]
           + TakenSum(orders, {"InProgress"}, c) + lost[c] = 0
    BY DEF LedgerInv, ConservedBooks
  <2>2. c \in Currencies \intersect Supported /\ lost[c] \in Int
    BY DEF LedgerInv, Typed, Currencies
  <2> QED
    BY <1>8, <1>11, <1>12, <2>1, <2>2
<1>16. CoveredTokens'
  <2> SUFFICES ASSUME NEW c \in Tokens
               PROVE  GotSum(incoming', c) - TakenSum(orders', NotRejected, c) >= 0
    BY DEF CoveredTokens
  <2>1. GotSum(incoming, c) - TakenSum(orders, NotRejected, c) >= 0
    BY DEF LedgerInv, CoveredTokens
  <2> QED
    BY <1>11, <1>12, <2>1
<1>17. CoveredBtc'
  <2> SUFFICES ASSUME Quiet
               PROVE  (GotSum(incoming', "BTC") - TakenSum(orders', NotRejected, "BTC"))
                         + Deposit * Cardinality(Counted) >= 0
    BY <1>5 DEF CoveredBtc, Counted, Quiet
  <2>1. (GotSum(incoming, "BTC") - TakenSum(orders, NotRejected, "BTC"))
            + Deposit * Cardinality(Counted) >= 0
    BY DEF LedgerInv, CoveredBtc
  <2>2. Deposit * Cardinality(Counted) \in Int
    BY CountedNumber DEF LedgerInv, Deposit
  <2> QED
    BY <1>11, <1>12, <2>1, <2>2
<1>18. QuietDeposits'
  BY <1>5 DEF LedgerInv, QuietDeposits, Quiet
<1> QED
  BY <1>9, <1>10, <1>14, <1>15, <1>16, <1>17, <1>18 DEF LedgerInv

(* A token that is switched off: its balance was zero, so no more came in  *)
(* than is in orders and withdrawals.  What goes with the entry is what is *)
(* in progress of it and what came in and was not ordered.                 *)
LEMMA TokenDisabled ==
    ASSUME LedgerInv, UNCHANGED scenario, NEW u \in inbox, disable(u)
    PROVE  LedgerInv'
<1>1. u \in TokenUpdates
  BY DEF disable, LedgerInv, Typed, Withdraws, OrderUpds
<1>2. PICK d : d = u.id
  OBVIOUS
<1>3. d \in Tokens /\ d # "BTC" /\ d \in Currencies
  BY <1>1, <1>2, LedgerConstants DEF TokenUpdates, Currencies
<1>4. orders \in OrderMap /\ incoming \in IncomingMap /\ lost \in [Tokens -> Int]
  BY DEF LedgerInv, Typed
<1>5. /\ inbox' = inbox \ {u}
      /\ UNCHANGED <<transactions, deposits, exchanges, balances, scenario>>
      /\ balance(d) = 0
      /\ lost' = [lost EXCEPT ![d] =
                     @ + TakenSum(orders, {"InProgress"}, d) + PendingWithdrawals(d) - Debt(d)]
      /\ withdrawals' = [id \in RequestIds |->
                            IF withdrawals[id] # None /\ withdrawals[id].currency = d THEN None
                            ELSE withdrawals[id]]
  BY <1>2, LedgerSums DEF disable, remove_currency
<1>6. /\ orders' = [id \in OrderIds |->
                      IF id \in Orders /\ orders[id].currency_from = d THEN None ELSE orders[id]]
      /\ incoming' = [id \in OrderIds |->
                        IF incoming[id] # None /\ incoming[id].currency = d THEN None ELSE incoming[id]]
  BY <1>2 DEF disable, remove_currency
<1>7. /\ orders' \in OrderMap /\ incoming' \in IncomingMap
      /\ \A id \in OrderIds : orders'[id] = IF orders[id] # None /\ orders[id].currency_from = d
                                            THEN None ELSE orders[id]
      /\ \A id \in OrderIds : incoming'[id] = IF incoming[id] # None /\ incoming[id].currency = d
                                              THEN None ELSE incoming[id]
  BY <1>4, <1>6 DEF OrderMap, IncomingMap, Orders
<1>8. \A statuses : /\ TakenSum(orders', statuses, d) = 0
                    /\ \A c : c # d => TakenSum(orders', statuses, c) = TakenSum(orders, statuses, c)
  BY <1>4, <1>7, TakenAway
<1>9. /\ GotSum(incoming', d) = 0
      /\ \A c : c # d => GotSum(incoming', c) = GotSum(incoming, c)
  <2>1. PICK q, r : q = incoming /\ r = incoming'
    OBVIOUS
  <2>2. /\ q \in IncomingMap /\ r \in IncomingMap
        /\ \A id \in OrderIds : r[id] = IF q[id] # None /\ q[id].currency = d THEN None ELSE q[id]
    BY <1>4, <1>7, <2>1
  <2>3. /\ GotSum(r, d) = 0
        /\ \A c : c # d => GotSum(r, c) = GotSum(q, c)
    BY <2>2, GotAway
  <2> QED
    BY <2>1, <2>3
<1>10. \A c : TakenSum(orders, NotRejected, c) \in Int /\ TakenSum(orders, {"InProgress"}, c) \in Int
              /\ GotSum(incoming, c) \in Int
  BY <1>4, SumsAreNumbers
<1>14. lost' = [lost EXCEPT ![d] = @ + (TakenSum(orders, {"InProgress"}, d)
                                            + (GotSum(incoming, d) - TakenSum(orders, NotRejected, d)))]
  <2>1. PICK n, p, m : /\ n = GotSum(incoming, d) - TakenSum(orders, NotRejected, d)
                       /\ p = PendingWithdrawals(d) /\ m = TakenSum(orders, {"InProgress"}, d)
    OBVIOUS
  <2>2. /\ Net(d, {"unconfirmed", "finalized"}) = n - p /\ Net(d, {}) = n - p
        /\ n \in Int /\ p \in Nat /\ m \in Int
    BY <1>3, <1>10, <2>1, NetOfToken, PendingNumber DEF LedgerInv
  <2>3. Debt(d) = p - n
    BY <1>5, <2>2 DEF balance, Debt
  <2>4. lost[d] \in Int /\ lost' = [lost EXCEPT ![d] = lost[d] + m + p - Debt(d)]
    BY <1>3, <1>4, <1>5, <2>1
  <2>5. lost[d] + m + p - Debt(d) = lost[d] + (m + n)
    BY <2>2, <2>3, <2>4
  <2> QED
    BY <2>1, <2>4, <2>5
<1>11. Typed'
  <2>1. PICK n : n = TakenSum(orders, {"InProgress"}, d)
                       + (GotSum(incoming, d) - TakenSum(orders, NotRejected, d))
    OBVIOUS
  <2>2. n \in Int /\ lost' = [lost EXCEPT ![d] = @ + n]
    BY <1>10, <1>14, <2>1
  <2>3. lost' \in [Tokens -> Int]
    BY <1>3, <1>4, <2>2
  <2>4. withdrawals' \in [RequestIds -> WithdrawalRequest \union {None}]
    BY <1>5 DEF LedgerInv, Typed
  <2> QED
    BY <1>5, <1>7, <2>3, <2>4 DEF LedgerInv, Typed
<1>12. NewOrders'
  <2>1. \A v \in inbox' \intersect OrderUpds : v.id \in OrderIds /\ v \in inbox \intersect OrderUpds
    BY <1>5 DEF OrderUpds
  <2>2. \A id \in OrderIds : /\ orders'[id] = None \/ orders'[id] = orders[id]
                             /\ incoming'[id] = None \/ incoming'[id] = incoming[id]
                             /\ orders[id] = None => orders'[id] = None
    BY <1>7
  <2> QED
    BY <1>5, <2>1, <2>2 DEF LedgerInv, NewOrders
<1>13. RunningBooks'
  BY <1>5 DEF LedgerInv, RunningBooks, Seen
<1>15. ConservedBooks'
  <2> SUFFICES ASSUME Honest, NEW c \in Tokens \intersect Supported
               PROVE  (GotSum(incoming', c) - TakenSum(orders', NotRejected, c)) + balances[c]
                         + TakenSum(orders', {"InProgress"}, c) + lost'[c] = 0
    BY <1>5 DEF ConservedBooks, Honest
  <2>1. (GotSum(incoming, c) - TakenSum(orders, NotRejected, c)) + balances[c]
           + TakenSum(orders, {"InProgress"}, c) + lost[c] = 0
    BY DEF LedgerInv, ConservedBooks
  <2>2. balances[c] \in Int /\ lost[c] \in Int
    BY DEF LedgerInv, Typed, Currencies
  <2>3. CASE c # d
    <3>1. lost'[c] = lost[c]
      BY <1>4, <1>14, <2>3
    <3> QED
      BY <1>8, <1>9, <2>1, <2>3, <3>1
  <2>4. CASE c = d
    <3>1. lost'[d] = lost[d] + (TakenSum(orders, {"InProgress"}, d)
                                  + (GotSum(incoming, d) - TakenSum(orders, NotRejected, d)))
      BY <1>3, <1>4, <1>14
    <3> QED
      BY <1>8, <1>9, <1>10, <2>1, <2>2, <2>4, <3>1
  <2> QED
    BY <2>3, <2>4
<1>16. CoveredTokens'
  <2> SUFFICES ASSUME NEW c \in Tokens
               PROVE  GotSum(incoming', c) - TakenSum(orders', NotRejected, c) >= 0
    BY DEF CoveredTokens
  <2>1. GotSum(incoming, c) - TakenSum(orders, NotRejected, c) >= 0
    BY DEF LedgerInv, CoveredTokens
  <2> QED
    BY <1>8, <1>9, <2>1
<1>17. CoveredBtc'
  <2>1. /\ GotSum(incoming', "BTC") = GotSum(incoming, "BTC")
        /\ TakenSum(orders', NotRejected, "BTC") = TakenSum(orders, NotRejected, "BTC")
    BY <1>3, <1>8, <1>9
  <2> QED
    BY <1>5, <2>1 DEF LedgerInv, CoveredBtc, Counted, Quiet
<1>18. QuietDeposits'
  BY <1>5 DEF LedgerInv, QuietDeposits, Quiet
<1> QED
  BY <1>11, <1>12, <1>13, <1>15, <1>16, <1>17, <1>18 DEF LedgerInv

-----------------------------------------------------------------------------
LEMMA LedgerInvariant == LedgerInv /\ [LedgerNext]_ledgerVars => LedgerInv'
<1> SUFFICES ASSUME LedgerInv, [LedgerNext]_ledgerVars PROVE LedgerInv'
  OBVIOUS
<1>1. CASE UNCHANGED ledgerVars
  <2>1. UNCHANGED <<transactions, deposits, orders, incoming, exchanges, balances, withdrawals,
                    inbox, lost, scenario>>
    BY <1>1 DEF ledgerVars
  <2>2. Typed' /\ NewOrders'
    BY <2>1 DEF LedgerInv, Typed, NewOrders
  <2> QED
    BY <2>1, <2>2, MoneyStays DEF LedgerInv
<1>2. CASE LedgerNext
  <2>0. UNCHANGED scenario
    BY <1>2 DEF LedgerNext
  <2>1. ASSUME NEW t \in UserTxs,
               user_cancel_btc_tx(t) \/ \E s \in TxStates : update_btc_tx(t, s)
        PROVE  LedgerInv'
    <3>1. PICK s \in TxStates : user_cancel_btc_tx(t) \/ update_btc_tx(t, s)
      BY <2>1 DEF TxStates
    <3>2. UNCHANGED balances
      BY <3>1 DEF user_cancel_btc_tx, update_btc_tx, exchangeVars
    <3> QED
      BY <2>0, <3>1, <3>2, UserDepositSteps
  <2>2. ASSUME NEW t \in ExchangeTxs,
               cancel_btc_tx(t) \/ \E s \in TxStates : process_incoming_btc_tx(t, s)
        PROVE  LedgerInv'
    <3>1. PICK s \in TxStates : cancel_btc_tx(t) \/ process_incoming_btc_tx(t, s)
      BY <2>2 DEF TxStates
    <3> QED
      BY <2>0, <3>1, ExchangeDepositSteps
  <2>3. ASSUME NEW id \in OrderIds, NEW from \in Currencies, NEW to \in Currencies,
               NEW a \in Amounts, NEW b \in Amounts, order_exchange(id, from, to, a, b)
        PROVE  LedgerInv'
    BY <2>0, <2>3, OrderSent
  <2>4. ASSUME NEW id \in RequestIds, NEW c \in Currencies, NEW a \in Amounts, NEW fee \in Fees,
               post_withdraw(id, c, a, fee)
        PROVE  LedgerInv'
    BY <2>0, <2>4, WithdrawalSent
  <2>5. ASSUME NEW u \in inbox,
               \/ add_exchange_request(u) \/ with_new_withdrawal_request(u)
               \/ enable(u) \/ disable(u) \/ Fails(u)
        PROVE  LedgerInv'
    BY <2>0, <2>5, OrderApplied, WithdrawalApplied, TokenDisabled, UpdateGone
  <2>6. ASSUME NEW c \in Tokens, token_handler(c) PROVE LedgerInv'
    BY <2>0, <2>6, SwitchSent
  <2>7. ASSUME NEW id \in OrderIds, decide_exchange(id) PROVE LedgerInv'
    BY <2>0, <2>7, OrderConfirmed, OrderRejected DEF decide_exchange
  <2>8. ASSUME NEW id \in RequestIds,
               withdrawal_rejected(id) \/ \E fee \in Fees : withdrawal_completed(id, fee)
        PROVE  LedgerInv'
    BY <2>0, <2>8, WithdrawalEnds
  <2> QED
    BY <1>2, <2>1, <2>2, <2>3, <2>4, <2>5, <2>6, <2>7, <2>8 DEF LedgerNext
<1> QED
  BY <1>1, <1>2

LEMMA LedgerAlways == LedgerSpec => []LedgerInv
<1> QED
  BY LedgerStarts, LedgerInvariant, PTL DEF LedgerSpec

(* "We keep running balance, as to not calculate it each time" (state/     *)
(* exchange.rs): process_incoming_btc_tx, cancel_btc_tx and process_order  *)
(* keep the balance of the exchange wallet equal to what its deposits and  *)
(* its completed orders add up to, for any outputs, orders and amounts.    *)
THEOREM RunningBalanceCorrect == LedgerSpec => []RunningBalance
<1>1. LedgerInv => RunningBalance
  <2> SUFFICES ASSUME LedgerInv, NEW c \in Currencies \intersect Supported
               PROVE  balances[c] = (IF c = "BTC" THEN Deposit * Cardinality(Seen) ELSE 0) + Earned(c)
    BY DEF RunningBalance, Seen
  <2>1. Earned(c) = SoldSum(exchanges, c) - BoughtSum(exchanges, c)
    BY LedgerSums
  <2> QED
    BY <2>1 DEF LedgerInv, RunningBooks
<1> QED
  BY <1>1, LedgerAlways, PTL

(* add_incoming_exchange gives the user what the decision says, and        *)
(* process_order takes from the wallet what the order says; nothing in the *)
(* code compares the two.  When operators sign what the orders say, a      *)
(* completed order only moves money: per token, what both have, with what  *)
(* is in orders in progress and in withdrawals and what went with the      *)
(* entry when the token was switched off, adds up to nothing.              *)
THEOREM ExchangeCreatesNoMoney == LedgerSpec => []ExchangeConserves
<1>1. LedgerInv => ExchangeConserves
  <2> SUFFICES ASSUME LedgerInv, Honest, NEW c \in Tokens \intersect Supported
               PROVE  Net(c, {"finalized"}) + PendingWithdrawals(c) + AmountFrom({"InProgress"}, c)
                        + balances[c] + lost[c] = 0
    BY DEF ExchangeConserves, Honest
  <2>1. PICK n, m : /\ n = GotSum(incoming, c) - TakenSum(orders, NotRejected, c)
                    /\ m = TakenSum(orders, {"InProgress"}, c)
    OBVIOUS
  <2>2. /\ Net(c, {"finalized"}) = n - PendingWithdrawals(c) /\ n \in Int
        /\ PendingWithdrawals(c) \in Nat
    BY <2>1, NetOfToken, PendingNumber DEF LedgerInv
  <2>3. AmountFrom({"InProgress"}, c) = m /\ m \in Int
    BY <2>1, LedgerSums, SumsAreNumbers DEF LedgerInv, Typed
  <2>4. balances[c] \in Int /\ lost[c] \in Int
    BY DEF LedgerInv, Typed, Currencies
  <2>5. n + balances[c] + m + lost[c] = 0
    BY <2>1 DEF LedgerInv, ConservedBooks
  <2> QED
    BY <2>2, <2>3, <2>4, <2>5
<1> QED
  BY <1>1, LedgerAlways, PTL

(* InsufficientFunds: order_exchange looks at a copy of the user, and many *)
(* orders can be on their way at a time, but add_exchange_request looks    *)
(* again, so no order takes more than came in.  Withdrawals may, which     *)
(* nobody looks at again, or not at all in ETH and ERC20.                  *)
THEOREM OrdersCovered == LedgerSpec => []OrdersAreCovered
<1>1. LedgerInv => OrdersAreCovered
  <2> SUFFICES ASSUME LedgerInv PROVE OrdersAreCovered
    OBVIOUS
  <2>1. ASSUME NEW c \in Tokens
        PROVE  Net(c, {"unconfirmed", "finalized"}) + PendingWithdrawals(c) >= 0
    <3>1. PICK n : n = GotSum(incoming, c) - TakenSum(orders, NotRejected, c)
      OBVIOUS
    <3>2. /\ Net(c, {"unconfirmed", "finalized"}) = n - PendingWithdrawals(c)
          /\ n \in Int /\ PendingWithdrawals(c) \in Nat
      BY <3>1, NetOfToken, PendingNumber DEF LedgerInv
    <3>3. n >= 0
      BY <3>1 DEF LedgerInv, CoveredTokens
    <3> QED
      BY <3>2, <3>3
  <2>2. ASSUME Quiet
        PROVE  Net("BTC", {"unconfirmed", "finalized"}) + PendingWithdrawals("BTC") >= 0
    <3>1. PICK n : n = (GotSum(incoming, "BTC") - TakenSum(orders, NotRejected, "BTC"))
                         + Deposit * Cardinality(Counted)
      OBVIOUS
    <3>2. /\ Net("BTC", {"unconfirmed", "finalized"}) = n - PendingWithdrawals("BTC")
          /\ n \in Int /\ PendingWithdrawals("BTC") \in Nat
      BY <3>1, NetOfBtc, PendingNumber DEF LedgerInv
    <3>3. n >= 0
      BY <2>2, <3>1 DEF LedgerInv, CoveredBtc
    <3> QED
      BY <3>2, <3>3
  <2> QED
    BY <2>1, <2>2 DEF OrdersAreCovered, Currencies, Quiet
<1> QED
  BY <1>1, LedgerAlways, PTL
=============================================================================
