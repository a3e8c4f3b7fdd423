----------------------- MODULE TransactionPool_proofs -----------------------
(***************************************************************************)
(* Proofs that no transaction is applied twice, that the pool agrees with  *)
(* the chain, and that no pending transaction is lost, for all sets of     *)
(* transactions, expirations and bounds.                                   *)
(***************************************************************************)
EXTENDS TransactionPool, Induction

Coin == Funds \cup { Output[t] : t \in Tx }

BlockType == [time : Nat, txs : Seq(Tx)]

ChainType == Seq(BlockType)

DatabaseType == [coins : SUBSET Coin, known : SUBSET Tx]

PoolType ==
    [ pending : Seq(Tx), open : BOOLEAN, coins : SUBSET Coin,
      known : SUBSET Tx, size : Nat ]

-----------------------------------------------------------------------------
(***************************************************************************)
(* The recursive functions of the model.                                   *)
(***************************************************************************)

\* apply_operation() leaves coins.
LEMMA SpendType ==
    ASSUME NEW coins \in SUBSET Coin, NEW t \in Tx
    PROVE  Spend(coins, t) \in SUBSET Coin
BY DEF Spend, Coin

\* The coins after each transaction of a block.
LEMMA SpentIs ==
    ASSUME NEW coins \in SUBSET Coin, NEW txs \in Seq(Tx)
    PROVE  Spent(coins, txs) \in [0 .. Len(txs) -> SUBSET Coin]
<1> DEFINE n == Len(txs)
           V == SUBSET Coin
           base == coins
           E(v, i) == Spend(v, txs[i])
           F(f) == [i \in 0 .. n |-> IF i = 0 THEN base ELSE E(f[i - 1], i)]
           step == [i \in 1 .. n |-> [v \in V |-> E(v, i)]]
           S == Spent(coins, txs)
<1>1. n \in Nat /\ base \in V
  OBVIOUS
<1>2. ASSUME NEW i \in 1 .. n, NEW v \in V
      PROVE  E(v, i) \in V
  BY SpendType
<1>3. S = CHOOSE f : f = F(f)
  BY DEF Spent
<1> HIDE DEF S, n, V, base, E
<1>4. StepFunction(step, n, V)
  BY <1>2 DEF StepFunction
<1>5. \A i \in 1 .. n : \A v \in V : step[i][v] = E(v, i)
  OBVIOUS
<1> HIDE DEF step
<1>6. PICK g : Recursive(g, n, V, base, step)
  BY <1>1, <1>4, RecursionExists
<1>7. g = F(g)
  <2>1. \A i \in 1 .. n : g[i] = E(g[i - 1], i)
    BY <1>1, <1>5, <1>6 DEF Recursive
  <2>2. g = [i \in 0 .. n |-> g[i]] /\ g[0] = base
    BY <1>6 DEF Recursive
  <2>3. \A i \in 0 .. n : g[i] = IF i = 0 THEN base ELSE E(g[i - 1], i)
    <3> TAKE i \in 0 .. n
    <3>1. CASE i = 0
      BY <2>2, <3>1
    <3>2. CASE i \in 1 .. n
      BY <1>1, <2>1, <3>2
    <3> QED
      BY <1>1, <3>1, <3>2
  <2> QED
    BY <2>2, <2>3
<1>8. S = F(S)
  BY <1>3, <1>7
<1>9. \A i \in 0 .. n : S[i] = IF i = 0 THEN base ELSE E(S[i - 1], i)
  BY <1>8
<1>10. S = [i \in 0 .. n |-> S[i]]
  BY <1>8, <1>9
<1>11. S[0] = base /\ \A i \in 1 .. n : S[i] = E(S[i - 1], i)
  BY <1>1, <1>9
<1>12. Recursive(S, n, V, base, step)
  BY <1>1, <1>4, <1>5, <1>10, <1>11, RecursionTyped
<1> QED
  BY <1>11, <1>12 DEF Recursive, V, n, S, base, E

\* The coins after each block of a chain.
LEMMA CoinsAfterIs ==
    ASSUME NEW c \in ChainType
    PROVE  CoinsAfter(c) \in [0 .. Len(c) -> SUBSET Coin]
<1> DEFINE n == Len(c)
           V == SUBSET Coin
           base == Funds
           E(v, i) == Spent(v, c[i].txs)[Len(c[i].txs)]
           F(f) == [i \in 0 .. n |-> IF i = 0 THEN base ELSE E(f[i - 1], i)]
           step == [i \in 1 .. n |-> [v \in V |-> E(v, i)]]
           S == CoinsAfter(c)
<1>1. n \in Nat /\ base \in V
  BY DEF Coin, ChainType
<1>2. ASSUME NEW i \in 1 .. n, NEW v \in V
      PROVE  E(v, i) \in V
  <2>1. c[i] \in BlockType
    BY DEF ChainType
  <2>2. c[i].txs \in Seq(Tx)
    BY <2>1 DEF BlockType
  <2>3. Len(c[i].txs) \in 0 .. Len(c[i].txs)
    BY <2>2
  <2> QED
    BY <2>2, <2>3, SpentIs
<1>3. S = CHOOSE f : f = F(f)
  BY DEF CoinsAfter
<1> HIDE DEF S, n, V, base, E
<1>4. StepFunction(step, n, V)
  BY <1>2 DEF StepFunction
<1>5. \A i \in 1 .. n : \A v \in V : step[i][v] = E(v, i)
  OBVIOUS
<1> HIDE DEF step
<1>6. PICK g : Recursive(g, n, V, base, step)
  BY <1>1, <1>4, RecursionExists
<1>7. g = F(g)
  <2>1. \A i \in 1 .. n : g[i] = E(g[i - 1], i)
    BY <1>1, <1>5, <1>6 DEF Recursive
  <2>2. g = [i \in 0 .. n |-> g[i]] /\ g[0] = base
    BY <1>6 DEF Recursive
  <2>3. \A i \in 0 .. n : g[i] = IF i = 0 THEN base ELSE E(g[i - 1], i)
    <3> TAKE i \in 0 .. n
    <3>1. CASE i = 0
      BY <2>2, <3>1
    <3>2. CASE i \in 1 .. n
      BY <1>1, <2>1, <3>2
    <3> QED
      BY <1>1, <3>1, <3>2
  <2> QED
    BY <2>2, <2>3
<1>8. S = F(S)
  BY <1>3, <1>7
<1>9. \A i \in 0 .. n : S[i] = IF i = 0 THEN base ELSE E(S[i - 1], i)
  BY <1>8
<1>10. S = [i \in 0 .. n |-> S[i]]
  BY <1>8, <1>9
<1>11. S[0] = base /\ \A i \in 1 .. n : S[i] = E(S[i - 1], i)
  BY <1>1, <1>9
<1>12. Recursive(S, n, V, base, step)
  BY <1>1, <1>4, <1>5, <1>10, <1>11, RecursionTyped
<1> QED
  BY <1>11, <1>12 DEF Recursive, V, n, S, base, E

\* The coins of the database at the head of a chain.
LEMMA CoinsType ==
    ASSUME NEW c \in ChainType
    PROVE  Coins(c) \in SUBSET Coin
<1>1. Len(c) \in 0 .. Len(c)
  BY DEF ChainType
<1> QED
  BY <1>1, CoinsAfterIs DEF Coins

\* The time of the head block.
LEMMA NowType ==
    ASSUME NEW c \in ChainType
    PROVE  Now(c) \in Nat
<1>1. CASE c = <<>>
  BY <1>1 DEF Now
<1>2. CASE c # <<>>
  <2>1. c[Len(c)] \in BlockType
    BY <1>2 DEF ChainType
  <2> QED
    BY <1>2, <2>1 DEF Now, Last, BlockType
<1> QED
  BY <1>1, <1>2

\* What is applied on a chain is what its blocks hold.
LEMMA AppliedType ==
    ASSUME NEW c \in ChainType
    PROVE  /\ Applied(c) \subseteq Tx
           /\ Known(c) \subseteq Applied(c)
           /\ \A t : t \in Applied(c) <=>
                 \E i \in 1 .. Len(c) : \E m \in 1 .. Len(c[i].txs) :
                     t = c[i].txs[m]
<1>1. \A i \in 1 .. Len(c) : c[i] \in BlockType
  BY DEF ChainType
<1>2. \A i \in 1 .. Len(c) : c[i].txs \in Seq(Tx)
  BY <1>1 DEF BlockType
<1>3. DOMAIN c = 1 .. Len(c)
  BY DEF ChainType
<1>4. \A i \in 1 .. Len(c) : /\ DOMAIN c[i].txs = 1 .. Len(c[i].txs)
                            /\ Range(c[i].txs) \subseteq Tx
  BY <1>2 DEF Range
<1>5. Applied(c) \subseteq Tx
  BY <1>3, <1>4 DEF Applied
<1>6. Known(c) \subseteq Applied(c)
  BY DEF Known
<1>7. ASSUME NEW t
      PROVE  t \in Applied(c) <=>
                 \E i \in 1 .. Len(c) : \E m \in 1 .. Len(c[i].txs) :
                     t = c[i].txs[m]
  BY <1>3, <1>4 DEF Applied, Range
<1> QED
  BY <1>5, <1>6, <1>7

\* A transaction that is in time and on the chain has its transaction object:
\* clear_expired_transactions() removes it only when its expiration is past.
LEMMA InTimeKnown ==
    ASSUME NEW c \in ChainType, NEW t \in Tx, InTime(c, t),
           t \notin Known(c)
    PROVE  t \notin Applied(c)
<1>1. CASE c = <<>>
  BY <1>1, AppliedType
<1>2. CASE c # <<>>
  BY <1>2 DEF InTime, Known
<1> QED
  BY <1>1, <1>2

\* The database at the head of a chain.
LEMMA DatabaseOK ==
    ASSUME NEW c \in ChainType
    PROVE  Database(c) \in DatabaseType /\ Database(c).known = Known(c)
<1>1. Coins(c) \in SUBSET Coin
  BY CoinsType
<1>2. Known(c) \in SUBSET Tx
  BY AppliedType
<1> QED
  BY <1>1, <1>2 DEF Database, DatabaseType

\* _apply_transaction() leaves a transaction object.
LEMMA ExecutedIs ==
    ASSUME NEW d \in DatabaseType, NEW t \in Tx
    PROVE  /\ Executed(d, t) \in DatabaseType
           /\ Executed(d, t).known = d.known \cup {t}
<1>1. Spend(d.coins, t) \in SUBSET Coin
  BY SpendType DEF DatabaseType
<1> QED
  BY <1>1 DEF Executed, DatabaseType

\* The database after each transaction of a block.
LEMMA DatabasesAre ==
    ASSUME NEW c \in ChainType, NEW txs \in Seq(Tx)
    PROVE  /\ Databases(c, txs) \in [0 .. Len(txs) -> DatabaseType]
           /\ Databases(c, txs)[0] = Database(c)
           /\ \A i \in 1 .. Len(txs) :
                 Databases(c, txs)[i] = Executed(Databases(c, txs)[i - 1], txs[i])
<1> DEFINE n == Len(txs)
           V == DatabaseType
           base == Database(c)
           E(v, i) == Executed(v, txs[i])
           F(f) == [i \in 0 .. n |-> IF i = 0 THEN base ELSE E(f[i - 1], i)]
           step == [i \in 1 .. n |-> [v \in V |-> E(v, i)]]
           S == Databases(c, txs)
<1>1. n \in Nat /\ base \in V
  BY DatabaseOK
<1>2. ASSUME NEW i \in 1 .. n, NEW v \in V
      PROVE  E(v, i) \in V
  BY ExecutedIs
<1>3. S = CHOOSE f : f = F(f)
  BY DEF Databases
<1> HIDE DEF S, n, V, base, E
<1>4. StepFunction(step, n, V)
  BY <1>2 DEF StepFunction
<1>5. \A i \in 1 .. n : \A v \in V : step[i][v] = E(v, i)
  OBVIOUS
<1> HIDE DEF step
<1>6. PICK g : Recursive(g, n, V, base, step)
  BY <1>1, <1>4, RecursionExists
<1>7. g = F(g)
  <2>1. \A i \in 1 .. n : g[i] = E(g[i - 1], i)
    BY <1>1, <1>5, <1>6 DEF Recursive
  <2>2. g = [i \in 0 .. n |-> g[i]] /\ g[0] = base
    BY <1>6 DEF Recursive
  <2>3. \A i \in 0 .. n : g[i] = IF i = 0 THEN base ELSE E(g[i - 1], i)
    <3> TAKE i \in 0 .. n
    <3>1. CASE i = 0
      BY <2>2, <3>1
    <3>2. CASE i \in 1 .. n
      BY <1>1, <2>1, <3>2
    <3> QED
      BY <1>1, <3>1, <3>2
  <2> QED
    BY <2>2, <2>3
<1>8. S = F(S)
  BY <1>3, <1>7
<1>9. \A i \in 0 .. n : S[i] = IF i = 0 THEN base ELSE E(S[i - 1], i)
  BY <1>8
<1>10. S = [i \in 0 .. n |-> S[i]]
  BY <1>8, <1>9
<1>11. S[0] = base /\ \A i \in 1 .. n : S[i] = E(S[i - 1], i)
  BY <1>1, <1>9
<1>12. Recursive(S, n, V, base, step)
  BY <1>1, <1>4, <1>5, <1>10, <1>11, RecursionTyped
<1> QED
  BY <1>11, <1>12 DEF Recursive, V, n, S, base, E

-----------------------------------------------------------------------------
(***************************************************************************)
(* What a block may hold.                                                  *)
(***************************************************************************)

\* No transaction of a block is in it twice or on the chain already.
Fresh(c, txs) == Distinct(txs) /\ Range(txs) \cap Applied(c) = {}

\* No transaction is on a chain twice.
Once(c) ==
    \A i, j \in DOMAIN c :
        \A m \in DOMAIN c[i].txs, n \in DOMAIN c[j].txs :
            c[i].txs[m] = c[j].txs[n] => i = j /\ m = n

\* The transactions of a block that applies are new to the chain.
LEMMA AppliesFresh ==
    ASSUME NEW c \in ChainType, NEW txs \in Seq(Tx), Applies(c, txs)
    PROVE  Fresh(c, txs)
<1> DEFINE n == Len(txs)
           D == Databases(c, txs)
           Has(i) == /\ Known(c) \subseteq D[i].known
                     /\ \A j \in 1 .. i : txs[j] \in D[i].known
           T == { i \in 0 .. n : Has(i) }
<1>1. n \in Nat /\ \A i \in 1 .. n : txs[i] \in Tx
  OBVIOUS
<1>2. /\ D \in [0 .. n -> DatabaseType]
      /\ D[0] = Database(c)
      /\ \A i \in 1 .. n : D[i] = Executed(D[i - 1], txs[i])
  BY DatabasesAre
<1>3. \A i \in 1 .. n : Admitted(c, D[i - 1], txs[i])
  BY DEF Applies
<1> HIDE DEF n, D
<1>4. 0 .. n \subseteq T
  <2>1. 0 \in T
    BY <1>1, <1>2, DatabaseOK
  <2>2. ASSUME NEW i \in 1 .. n, i - 1 \in T
        PROVE  i \in T
    <3>1. D[i].known = D[i - 1].known \cup {txs[i]}
      BY <1>1, <1>2, ExecutedIs
    <3>2. Has(i - 1)
      BY <2>2
    <3>3. Has(i)
      BY <1>1, <3>1, <3>2
    <3> QED
      BY <1>1, <3>3
  <2> HIDE DEF T
  <2> QED
    BY <1>1, <2>1, <2>2, IntervalInduction
<1>5. ASSUME NEW i \in 1 .. n
      PROVE  /\ \A j \in 1 .. i - 1 : txs[j] # txs[i]
             /\ txs[i] \notin Applied(c)
  <2>1. Has(i - 1)
    BY <1>1, <1>4
  <2>2. txs[i] \notin D[i - 1].known /\ InTime(c, txs[i])
    BY <1>3 DEF Admitted
  <2>3. txs[i] \notin Known(c)
    BY <2>1, <2>2
  <2> QED
    BY <1>1, <2>1, <2>2, <2>3, InTimeKnown
<1>6. Distinct(txs)
  BY <1>1, <1>5 DEF Distinct, n
<1>7. Range(txs) \cap Applied(c) = {}
  BY <1>5 DEF Range, n
<1> QED
  BY <1>6, <1>7 DEF Fresh

\* A transaction that is not in a sequence can be put at its end.
LEMMA AppendDistinct ==
    ASSUME NEW txs \in Seq(Tx), NEW t \in Tx, Distinct(txs), t \notin Range(txs)
    PROVE  /\ Append(txs, t) \in Seq(Tx)
           /\ Distinct(Append(txs, t))
           /\ Range(Append(txs, t)) = Range(txs) \cup {t}
<1> DEFINE a == Append(txs, t)
           n == Len(txs)
<1>1. /\ n \in Nat /\ a \in Seq(Tx) /\ Len(a) = n + 1
      /\ \A i \in 1 .. n : a[i] = txs[i]
      /\ a[n + 1] = t
      /\ DOMAIN a = 1 .. n + 1 /\ DOMAIN txs = 1 .. n
  OBVIOUS
<1> HIDE DEF a, n
<1>2. Range(a) = Range(txs) \cup {t}
  BY <1>1 DEF Range
<1>3. \A i \in 1 .. n : a[i] # t
  BY <1>1 DEF Range
<1>4. Distinct(a)
  BY <1>1, <1>3 DEF Distinct
<1> QED
  BY <1>1, <1>2, <1>4 DEF a

\* The block after each transaction that _try_apply_block() tries.
LEMMA TryingIs ==
    ASSUME NEW c \in ChainType, NEW txs \in Seq(Tx)
    PROVE  /\ Trying(c, txs) \in
                 [0 .. Len(txs) -> [d : DatabaseType, txs : Seq(Tx)]]
           /\ Trying(c, txs)[0] = [d |-> Database(c), txs |-> <<>>]
           /\ \A i \in 1 .. Len(txs) :
                 LET r == Trying(c, txs)[i - 1]
                     t == txs[i]
                 IN  Trying(c, txs)[i] =
                         IF Admitted(c, r.d, t) /\ Executes(r.d, t)
                         THEN [d |-> Executed(r.d, t), txs |-> Append(r.txs, t)]
                         ELSE r
<1> DEFINE n == Len(txs)
           V == [d : DatabaseType, txs : Seq(Tx)]
           base == [d |-> Database(c), txs |-> <<>>]
           E(v, i) == 
               IF Admitted(c, v.d, txs[i]) /\ Executes(v.d, txs[i])
               THEN [d |-> Executed(v.d, txs[i]), txs |-> Append(v.txs, txs[i])]
               ELSE v
           F(f) == [i \in 0 .. n |-> IF i = 0 THEN base ELSE E(f[i - 1], i)]
           step == [i \in 1 .. n |-> [v \in V |-> E(v, i)]]
           S == Trying(c, txs)
<1>1. n \in Nat /\ base \in V
  BY DatabaseOK
<1>2. ASSUME NEW i \in 1 .. n, NEW v \in V
      PROVE  E(v, i) \in V
  <2>1. Executed(v.d, txs[i]) \in DatabaseType
    BY ExecutedIs
  <2>2. Append(v.txs, txs[i]) \in Seq(Tx)
    OBVIOUS
  <2> QED
    BY <2>1, <2>2
<1>3. S = CHOOSE f : f = F(f)
  BY DEF Trying
<1> HIDE DEF S, n, V, base, E
<1>4. StepFunction(step, n, V)
  BY <1>2 DEF StepFunction
<1>5. \A i \in 1 .. n : \A v \in V : step[i][v] = E(v, i)
  OBVIOUS
<1> HIDE DEF step
<1>6. PICK g : Recursive(g, n, V, base, step)
  BY <1>1, <1>4, RecursionExists
<1>7. g = F(g)
  <2>1. \A i \in 1 .. n : g[i] = E(g[i - 1], i)
    BY <1>1, <1>5, <1>6 DEF Recursive
  <2>2. g = [i \in 0 .. n |-> g[i]] /\ g[0] = base
    BY <1>6 DEF Recursive
  <2>3. \A i \in 0 .. n : g[i] = IF i = 0 THEN base ELSE E(g[i - 1], i)
    <3> TAKE i \in 0 .. n
    <3>1. CASE i = 0
      BY <2>2, <3>1
    <3>2. CASE i \in 1 .. n
      BY <1>1, <2>1, <3>2
    <3> QED
      BY <1>1, <3>1, <3>2
  <2> QED
    BY <2>2, <2>3
<1>8. S = F(S)
  BY <1>3, <1>7
<1>9. \A i \in 0 .. n : S[i] = IF i = 0 THEN base ELSE E(S[i - 1], i)
  BY <1>8
<1>10. S = [i \in 0 .. n |-> S[i]]
  BY <1>8, <1>9
<1>11. S[0] = base /\ \A i \in 1 .. n : S[i] = E(S[i - 1], i)
  BY <1>1, <1>9
<1>12. Recursive(S, n, V, base, step)
  BY <1>1, <1>4, <1>5, <1>10, <1>11, RecursionTyped
<1> QED
  BY <1>11, <1>12 DEF Recursive, V, n, S, base, E

\* What _try_apply_block() leaves in a block is new to the chain.
LEMMA TriedFresh ==
    ASSUME NEW c \in ChainType, NEW txs \in Seq(Tx)
    PROVE  Tried(c, txs) \in Seq(Tx) /\ Fresh(c, Tried(c, txs))
<1> DEFINE n == Len(txs)
           R == Trying(c, txs)
           Has(r) == /\ Known(c) \subseteq r.d.known
                     /\ Range(r.txs) \subseteq r.d.known
                     /\ Fresh(c, r.txs)
           T == { i \in 0 .. n : Has(R[i]) }
<1>1. n \in Nat /\ \A i \in 1 .. n : txs[i] \in Tx
  OBVIOUS
<1>2. /\ R \in [0 .. n -> [d : DatabaseType, txs : Seq(Tx)]]
      /\ R[0] = [d |-> Database(c), txs |-> <<>>]
      /\ \A i \in 1 .. n :
            LET r == R[i - 1]
                t == txs[i]
            IN  R[i] = IF Admitted(c, r.d, t) /\ Executes(r.d, t)
                       THEN [d |-> Executed(r.d, t), txs |-> Append(r.txs, t)]
                       ELSE r
  BY TryingIs
<1>3. Tried(c, txs) = R[n].txs
  BY DEF Tried
<1> HIDE DEF n, R
<1>4. 0 .. n \subseteq T
  <2>1. 0 \in T
    <3>1. R[0].d = Database(c) /\ R[0].txs = <<>>
      BY <1>2
    <3>2. Fresh(c, <<>>) /\ Range(<<>>) = {}
      BY DEF Fresh, Distinct, Range
    <3> QED
      BY <1>1, <3>1, <3>2, DatabaseOK
  <2>2. ASSUME NEW i \in 1 .. n, i - 1 \in T
        PROVE  i \in T
    <3> DEFINE r == R[i - 1]
               t == txs[i]
    <3>1. /\ Has(r) /\ t \in Tx
          /\ r.d \in DatabaseType /\ r.txs \in Seq(Tx)
      BY <1>1, <1>2, <2>2
    <3>2. R[i] = IF Admitted(c, r.d, t) /\ Executes(r.d, t)
                 THEN [d |-> Executed(r.d, t), txs |-> Append(r.txs, t)]
                 ELSE r
      BY <1>2
    <3> HIDE DEF r, t
    <3>3. CASE Admitted(c, r.d, t) /\ Executes(r.d, t)
      <4>1. R[i].d = Executed(r.d, t) /\ R[i].txs = Append(r.txs, t)
        BY <3>2, <3>3
      <4>2. t \notin r.d.known /\ InTime(c, t)
        BY <3>3 DEF Admitted
      <4>3. t \notin Known(c) /\ t \notin Range(r.txs)
        BY <3>1, <4>2
      <4>4. t \notin Applied(c)
        BY <3>1, <4>2, <4>3, InTimeKnown
      <4>5. Distinct(r.txs) /\ Range(r.txs) \cap Applied(c) = {}
        BY <3>1 DEF Fresh
      <4>6. /\ Distinct(Append(r.txs, t))
            /\ Range(Append(r.txs, t)) = Range(r.txs) \cup {t}
        BY <3>1, <4>3, <4>5, AppendDistinct
      <4>7. Fresh(c, R[i].txs)
        BY <4>1, <4>4, <4>5, <4>6 DEF Fresh
      <4>8. R[i].d.known = r.d.known \cup {t}
        BY <3>1, <4>1, ExecutedIs
      <4>9. Range(R[i].txs) = Range(r.txs) \cup {t}
        BY <4>1, <4>6
      <4>10. Has(R[i])
        BY <3>1, <4>7, <4>8, <4>9
      <4> QED
        BY <1>1, <4>10
    <3>4. CASE ~(Admitted(c, r.d, t) /\ Executes(r.d, t))
      BY <1>1, <3>1, <3>2, <3>4
    <3> QED
      BY <3>3, <3>4
  <2> HIDE DEF T
  <2> QED
    BY <1>1, <2>1, <2>2, IntervalInduction
<1>5. n \in 0 .. n
  BY <1>1
<1> QED
  BY <1>2, <1>3, <1>4, <1>5

\* A block of new transactions leaves a chain without repetitions.
LEMMA AppendOnce ==
    ASSUME NEW c \in ChainType, Once(c),
           NEW time \in Nat, NEW txs \in Seq(Tx), Fresh(c, txs)
    PROVE  LET a == Append(c, Block(time, txs))
           IN  a \in ChainType /\ Once(a)
<1> DEFINE b == Block(time, txs)
           a == Append(c, b)
           n == Len(c)
<1>1. b \in BlockType /\ b.txs = txs
  BY DEF Block, BlockType
<1> HIDE DEF b
<1>2. /\ n \in Nat /\ a \in ChainType
      /\ \A i \in 1 .. n : a[i] = c[i]
      /\ a[n + 1] = b
      /\ DOMAIN a = 1 .. n + 1 /\ DOMAIN c = 1 .. n
  BY <1>1 DEF ChainType
<1>3. \A i \in 1 .. n : DOMAIN c[i].txs = 1 .. Len(c[i].txs)
  BY DEF ChainType, BlockType
<1>4. DOMAIN txs = 1 .. Len(txs)
  OBVIOUS
<1>5. \A i \in 1 .. n : \A m \in DOMAIN c[i].txs : c[i].txs[m] \in Applied(c)
  BY <1>3, AppliedType
<1>6. \A m \in DOMAIN txs : txs[m] \notin Applied(c)
  BY DEF Fresh, Range
<1> HIDE DEF a, n
<1>7. ASSUME NEW i \in 1 .. n + 1, NEW j \in 1 .. n + 1,
             NEW m \in DOMAIN a[i].txs, NEW k \in DOMAIN a[j].txs,
             a[i].txs[m] = a[j].txs[k]
      PROVE  i = j /\ m = k
  <2>1. CASE i \in 1 .. n /\ j \in 1 .. n
    BY <1>2, <1>7, <2>1 DEF Once
  <2>2. CASE i = n + 1 /\ j = n + 1
    BY <1>1, <1>2, <1>7, <2>2 DEF Fresh, Distinct
  <2>3. CASE i \in 1 .. n /\ j = n + 1
    BY <1>1, <1>2, <1>5, <1>6, <1>7, <2>3
  <2>4. CASE i = n + 1 /\ j \in 1 .. n
    BY <1>1, <1>2, <1>5, <1>6, <1>7, <2>4
  <2> QED
    BY <1>2, <2>1, <2>2, <2>3, <2>4
<1>8. Once(a)
  BY <1>2, <1>7 DEF Once
<1> QED
  BY <1>2, <1>8 DEF a, b

\* A chain without repetitions has none after blocks are popped.
LEMMA PopOnce ==
    ASSUME NEW c \in ChainType, Once(c), NEW n \in 0 .. Len(c)
    PROVE  SubSeq(c, 1, n) \in ChainType /\ Once(SubSeq(c, 1, n))
<1> DEFINE a == SubSeq(c, 1, n)
<1>1. /\ a \in ChainType /\ DOMAIN a = 1 .. n
      /\ \A i \in 1 .. n : a[i] = c[i]
      /\ DOMAIN c = 1 .. Len(c) /\ Len(c) \in Nat
  BY DEF ChainType
<1> HIDE DEF a
<1>2. 1 .. n \subseteq DOMAIN c
  BY <1>1
<1>3. Once(a)
  BY <1>1, <1>2 DEF Once
<1> QED
  BY <1>1, <1>3 DEF a

-----------------------------------------------------------------------------
(***************************************************************************)
(* What the calls on the pool keep.                                        *)
(***************************************************************************)

\* The pending transactions are new to the chain, and the session knows them
\* and the transaction objects of the chain, no others.
PoolOK(c, p) ==
    /\ Fresh(c, p.pending)
    /\ p.known = Known(c) \cup Range(p.pending)
    /\ p.pending # <<>> => p.open

PoolsOK(c) == { p \in PoolType : PoolOK(c, p) }

OpenPools(c) == { p \in PoolsOK(c) : p.open = TRUE }

\* Opening the session changes nothing else.
LEMMA OpenedOK ==
    ASSUME NEW c \in ChainType, NEW p \in PoolsOK(c)
    PROVE  /\ Opened(p) \in OpenPools(c)
           /\ Opened(p).pending = p.pending
           /\ Opened(p).known = p.known
BY DEF OpenPools, PoolsOK, PoolOK, Opened, PoolType

\* A transaction that the session does not know can be queued.
LEMMA QueuedOK ==
    ASSUME NEW c \in ChainType, NEW p \in OpenPools(c),
           NEW t \in Tx, t \notin p.known, InTime(c, t)
    PROVE  /\ Queued(p, t) \in PoolsOK(c)
           /\ Range(Queued(p, t).pending) = Range(p.pending) \cup {t}
           /\ Queued(p, t).known = p.known \cup {t}
           /\ Queued(p, t).coins = p.coins
<1> DEFINE q == Queued(p, t)
<1>1. p \in PoolType /\ PoolOK(c, p) /\ p.open = TRUE
  BY DEF OpenPools, PoolsOK
<1>2. /\ p.pending \in Seq(Tx) /\ p.known \in SUBSET Tx
      /\ p.coins \in SUBSET Coin /\ p.size \in Nat
  BY <1>1 DEF PoolType
<1>3. /\ q.pending = Append(p.pending, t)
      /\ q.known = p.known \cup {t}
      /\ q.open = TRUE /\ q.coins = p.coins
  BY <1>1 DEF Queued, PoolType
<1>4. t \notin Known(c) /\ t \notin Range(p.pending)
  BY <1>1 DEF PoolOK
<1>5. t \notin Applied(c)
  BY <1>4, InTimeKnown
<1>6. Distinct(p.pending) /\ Range(p.pending) \cap Applied(c) = {}
  BY <1>1 DEF PoolOK, Fresh
<1>7. /\ Append(p.pending, t) \in Seq(Tx)
      /\ Distinct(Append(p.pending, t))
      /\ Range(Append(p.pending, t)) = Range(p.pending) \cup {t}
  BY <1>2, <1>4, <1>6, AppendDistinct
<1>8. q \in PoolType
  BY <1>1, <1>2, <1>7 DEF Queued, PoolType
<1> HIDE DEF q
<1>9. Range(q.pending) = Range(p.pending) \cup {t}
  BY <1>3, <1>7
<1>10. Fresh(c, q.pending)
  BY <1>3, <1>5, <1>6, <1>7 DEF Fresh
<1>11. p.known = Known(c) \cup Range(p.pending)
  BY <1>1 DEF PoolOK
<1>12. q.known = Known(c) \cup Range(q.pending)
  BY <1>3, <1>9, <1>11
<1>13. q \in PoolsOK(c)
  BY <1>3, <1>8, <1>10, <1>12 DEF PoolsOK, PoolOK
<1> QED
  BY <1>3, <1>9, <1>13 DEF q

\* The coins and the size of a pool do not matter to it.
LEMMA MergedOK ==
    ASSUME NEW c \in ChainType, NEW p \in OpenPools(c),
           NEW t \in Tx, t \notin p.known, InTime(c, t)
    PROVE  /\ Merged(p, t) \in PoolsOK(c)
           /\ Range(Merged(p, t).pending) = Range(p.pending) \cup {t}
           /\ Merged(p, t).known = p.known \cup {t}
<1> DEFINE q == Queued(p, t)
<1>1. /\ q \in PoolsOK(c)
      /\ Range(q.pending) = Range(p.pending) \cup {t}
      /\ q.known = p.known \cup {t}
  BY QueuedOK
<1>2. Merged(p, t) = IF t \in Delegated THEN q
                     ELSE [q EXCEPT !.coins = Spend(q.coins, t)]
  BY DEF Merged
<1> HIDE DEF q
<1>3. q \in PoolType /\ PoolOK(c, q)
  BY <1>1 DEF PoolsOK
<1>4. Spend(q.coins, t) \in SUBSET Coin
  BY <1>3, SpendType DEF PoolType
<1> DEFINE x == [q EXCEPT !.coins = Spend(q.coins, t)]
<1>5. /\ x \in PoolType /\ x.pending = q.pending
      /\ x.known = q.known /\ x.open = q.open
  BY <1>3, <1>4 DEF PoolType
<1> HIDE DEF x
<1>6. x \in PoolsOK(c)
  BY <1>3, <1>5 DEF PoolsOK, PoolOK
<1>7. Merged(p, t) = q \/ Merged(p, t) = x
  BY <1>2 DEF x
<1> QED
  BY <1>1, <1>5, <1>6, <1>7

\* push_transaction() of a peer keeps what is pending.
LEMMA PushFromNetOK ==
    ASSUME NEW c \in ChainType, NEW p \in PoolsOK(c), NEW t \in Tx
    PROVE  /\ PushFromNet(c, p, t) \in PoolsOK(c)
           /\ Range(p.pending) \subseteq Range(PushFromNet(c, p, t).pending)
           /\ p.known \subseteq PushFromNet(c, p, t).known
<1> DEFINE o == Opened(p)
<1>1. /\ o \in OpenPools(c)
      /\ o.pending = p.pending /\ o.known = p.known
  BY OpenedOK
<1> HIDE DEF o
<1>2. \/ PushFromNet(c, p, t) = o
      \/ /\ Admitted(c, p, t)
         /\ \/ PushFromNet(c, p, t) = Queued(o, t)
            \/ PushFromNet(c, p, t) = Merged(o, t)
  BY DEF PushFromNet, o
<1>3. CASE PushFromNet(c, p, t) = o
  BY <1>1, <1>3 DEF OpenPools
<1>4. CASE Admitted(c, p, t)
  <2>1. t \notin o.known /\ InTime(c, t)
    BY <1>1, <1>4 DEF Admitted
  <2>2. CASE PushFromNet(c, p, t) = Queued(o, t)
    BY <1>1, <2>1, <2>2, QueuedOK
  <2>3. CASE PushFromNet(c, p, t) = Merged(o, t)
    BY <1>1, <2>1, <2>3, MergedOK
  <2> QED
    BY <1>2, <1>3, <2>2, <2>3
<1> QED
  BY <1>2, <1>3, <1>4

\* push_transaction() of a client keeps what is pending.
LEMMA PushFromMeOK ==
    ASSUME NEW c \in ChainType, NEW p \in PoolsOK(c), NEW t \in Tx
    PROVE  /\ PushFromMe(c, p, t) \in PoolsOK(c)
           /\ Range(p.pending) \subseteq Range(PushFromMe(c, p, t).pending)
<1> DEFINE u == Opened(p)
           k == CachedSize(p)
           o == [u EXCEPT !.size = k]
<1>1. /\ u \in OpenPools(c)
      /\ u.pending = p.pending /\ u.known = p.known
  BY OpenedOK
<1>2. k \in Nat
  <2> DEFINE a == p.size
             b == Len(p.pending)
  <2>1. a \in Nat /\ b \in Nat
    BY DEF PoolsOK, PoolType
  <2> HIDE DEF a, b
  <2>2. \E x \in {a, b} : \A y \in {a, b} : x >= y
    BY <2>1
  <2>3. Max({a, b}) \in {a, b}
    BY <2>2 DEF Max
  <2> QED
    BY <2>1, <2>3 DEF CachedSize, a, b
<1>3. PushFromMe(c, p, t) = IF Limit > 0 /\ o.size > Limit THEN o
                            ELSE IF Admitted(c, p, t) /\ Executes(p, t)
                                 THEN Merged(o, t) ELSE o
  BY DEF PushFromMe
<1> HIDE DEF u, k
<1>4. u \in PoolType /\ PoolOK(c, u) /\ u.open = TRUE
  BY <1>1 DEF OpenPools, PoolsOK
<1>5. /\ o \in PoolType /\ o.open = TRUE
      /\ o.pending = u.pending /\ o.known = u.known
  BY <1>2, <1>4 DEF PoolType
<1> HIDE DEF o
<1>6. o \in PoolsOK(c) /\ o \in OpenPools(c)
  BY <1>4, <1>5 DEF OpenPools, PoolsOK, PoolOK
<1>7. CASE PushFromMe(c, p, t) = o
  BY <1>1, <1>5, <1>6, <1>7
<1>8. CASE PushFromMe(c, p, t) = Merged(o, t) /\ Admitted(c, p, t)
  <2>1. t \notin o.known /\ InTime(c, t)
    BY <1>1, <1>5, <1>8 DEF Admitted
  <2> QED
    BY <1>1, <1>5, <1>6, <1>8, <2>1, MergedOK
<1> QED
  BY <1>3, <1>7, <1>8

\* clear_pending() leaves what the chain knows.
LEMMA ClearedOK ==
    ASSUME NEW c \in ChainType, NEW size \in Nat
    PROVE  Cleared(c, size) \in PoolsOK(c)
<1> DEFINE q == Cleared(c, size)
<1>1. Coins(c) \in SUBSET Coin /\ Known(c) \in SUBSET Tx
  BY CoinsType, AppliedType
<1>2. q \in PoolType
  BY <1>1 DEF Cleared, PoolType
<1>3. q.pending = <<>> /\ q.known = Known(c)
  BY DEF Cleared
<1> HIDE DEF q
<1>4. Fresh(c, <<>>) /\ Range(<<>>) = {}
  BY DEF Fresh, Distinct, Range
<1>5. PoolOK(c, q)
  BY <1>3, <1>4 DEF PoolOK
<1> QED
  BY <1>2, <1>5 DEF PoolsOK, q

\* One transaction is restored: what was pending is known afterwards unless
\* its expiration is out of range.
LEMMA RestoreOK ==
    ASSUME NEW c \in ChainType, NEW q \in PoolsOK(c), NEW t \in Tx,
           NEW wasPopped \in BOOLEAN
    PROVE  /\ Restore(c, q, t, wasPopped) \in PoolsOK(c)
           /\ q.known \subseteq Restore(c, q, t, wasPopped).known
           /\ ~wasPopped /\ InTime(c, t) =>
                 t \in Restore(c, q, t, wasPopped).known
<1> DEFINE r == Restore(c, q, t, wasPopped)
<1>1. CASE t \in q.known
  BY <1>1 DEF Restore
<1>2. CASE t \notin q.known /\ wasPopped
  <2>1. r = PushFromNet(c, q, t)
    BY <1>2 DEF Restore
  <2> HIDE DEF r
  <2>2. r \in PoolsOK(c) /\ q.known \subseteq r.known
    BY <2>1, PushFromNetOK
  <2> QED
    BY <1>2, <2>2 DEF r
<1>3. CASE t \notin q.known /\ ~wasPopped
  <2> DEFINE o == Opened(q)
  <2>1. o \in OpenPools(c) /\ o.known = q.known
    BY OpenedOK
  <2>2. r = IF InTime(c, t) THEN Queued(o, t) ELSE o
    BY <1>3 DEF Restore, RePush
  <2> HIDE DEF r, o
  <2>3. CASE InTime(c, t)
    <3>1. r = Queued(o, t) /\ t \notin o.known
      BY <1>3, <2>1, <2>2, <2>3
    <3>2. Queued(o, t) \in PoolsOK(c) /\ Queued(o, t).known = o.known \cup {t}
      BY <2>1, <2>3, <3>1, QueuedOK
    <3>3. r \in PoolsOK(c) /\ r.known = q.known \cup {t}
      BY <2>1, <3>1, <3>2
    <3> QED
      BY <3>3 DEF r
  <2>4. CASE ~InTime(c, t)
    <3>1. r \in PoolsOK(c) /\ r.known = q.known
      BY <2>1, <2>2, <2>4 DEF OpenPools
    <3> QED
      BY <2>4, <3>1 DEF r
  <2> QED
    BY <2>3, <2>4
<1> QED
  BY <1>1, <1>2, <1>3

\* The pool after each transaction that is restored.
LEMMA RestoringIs ==
    ASSUME NEW c \in ChainType, NEW popped \in Seq(Tx), NEW p \in PoolType
    PROVE  LET txs == ToRestore(popped, p)
               R == Restoring(c, popped, p)
           IN  /\ R \in [0 .. Len(txs) -> PoolsOK(c)]
               /\ \A i \in 1 .. Len(txs) :
                     R[i] = Restore(c, R[i - 1], txs[i], i <= Len(popped))
<1> DEFINE n == Len(ToRestore(popped, p))
           V == PoolsOK(c)
           base == Cleared(c, Len(p.pending))
           E(v, i) == Restore(c, v, ToRestore(popped, p)[i], i <= Len(popped))
           F(f) == [i \in 0 .. n |-> IF i = 0 THEN base ELSE E(f[i - 1], i)]
           step == [i \in 1 .. n |-> [v \in V |-> E(v, i)]]
           S == Restoring(c, popped, p)
<1>1. n \in Nat /\ base \in V
  <2>1. p.pending \in Seq(Tx)
    BY DEF PoolType
  <2>2. ToRestore(popped, p) \in Seq(Tx) /\ Len(p.pending) \in Nat
    BY <2>1 DEF ToRestore
  <2> QED
    BY <2>2, ClearedOK
<1>2. ASSUME NEW i \in 1 .. n, NEW v \in V
      PROVE  E(v, i) \in V
  <2>1. p.pending \in Seq(Tx)
    BY DEF PoolType
  <2>2. ToRestore(popped, p) \in Seq(Tx)
    BY <2>1 DEF ToRestore
  <2>3. ToRestore(popped, p)[i] \in Tx
    BY <2>2
  <2>4. (i <= Len(popped)) \in BOOLEAN
    OBVIOUS
  <2> HIDE DEF V
  <2>5. v \in PoolsOK(c)
    BY DEF V
  <2> QED
    BY <2>3, <2>4, <2>5, RestoreOK DEF V
<1>3. S = CHOOSE f : f = F(f)
  BY DEF Restoring
<1> HIDE DEF S, n, V, base, E
<1>4. StepFunction(step, n, V)
  BY <1>2 DEF StepFunction
<1>5. \A i \in 1 .. n : \A v \in V : step[i][v] = E(v, i)
  OBVIOUS
<1> HIDE DEF step
<1>6. PICK g : Recursive(g, n, V, base, step)
  BY <1>1, <1>4, RecursionExists
<1>7. g = F(g)
  <2>1. \A i \in 1 .. n : g[i] = E(g[i - 1], i)
    BY <1>1, <1>5, <1>6 DEF Recursive
  <2>2. g = [i \in 0 .. n |-> g[i]] /\ g[0] = base
    BY <1>6 DEF Recursive
  <2>3. \A i \in 0 .. n : g[i] = IF i = 0 THEN base ELSE E(g[i - 1], i)
    <3> TAKE i \in 0 .. n
    <3>1. CASE i = 0
      BY <2>2, <3>1
    <3>2. CASE i \in 1 .. n
      BY <1>1, <2>1, <3>2
    <3> QED
      BY <1>1, <3>1, <3>2
  <2> QED
    BY <2>2, <2>3
<1>8. S = F(S)
  BY <1>3, <1>7
<1>9. \A i \in 0 .. n : S[i] = IF i = 0 THEN base ELSE E(S[i - 1], i)
  BY <1>8
<1>10. S = [i \in 0 .. n |-> S[i]]
  BY <1>8, <1>9
<1>11. S[0] = base /\ \A i \in 1 .. n : S[i] = E(S[i - 1], i)
  BY <1>1, <1>9
<1>12. Recursive(S, n, V, base, step)
  BY <1>1, <1>4, <1>5, <1>10, <1>11, RecursionTyped
<1> QED
  BY <1>11, <1>12 DEF Recursive, V, n, S, base, E

\* The restorer leaves a pool that agrees with the chain and has everything
\* that was pending before, but for what the chain has or what is out of time.
LEMMA RestoredOK ==
    ASSUME NEW c \in ChainType, NEW popped \in Seq(Tx), NEW p \in PoolType
    PROVE  /\ Restored(c, popped, p) \in PoolsOK(c)
           /\ \A t \in Range(p.pending) :
                 \/ t \in Range(Restored(c, popped, p).pending)
                 \/ t \in Applied(c)
                 \/ ~InTime(c, t)
<1> DEFINE txs == ToRestore(popped, p)
           n == Len(txs)
           l == Len(popped)
           R == Restoring(c, popped, p)
           Has(i) == \A j \in 1 .. i :
                         j > l /\ InTime(c, txs[j]) => txs[j] \in R[i].known
           T == { i \in 0 .. n : Has(i) }
<1>1. p.pending \in Seq(Tx)
  BY DEF PoolType
<1>2. /\ txs \in Seq(Tx) /\ l \in Nat
      /\ n = l + Len(p.pending) /\ Len(p.pending) \in Nat
      /\ \A i \in 1 .. Len(p.pending) : txs[l + i] = p.pending[i]
  BY <1>1 DEF ToRestore
<1>3. /\ R \in [0 .. n -> PoolsOK(c)]
      /\ \A i \in 1 .. n : R[i] = Restore(c, R[i - 1], txs[i], i <= l)
  BY RestoringIs
<1>4. Restored(c, popped, p) = R[n]
  BY DEF Restored
<1>5. n \in Nat /\ \A i \in 1 .. n : txs[i] \in Tx
  BY <1>2
<1> HIDE DEF txs, n, l, R
<1>6. 0 .. n \subseteq T
  <2>1. 0 \in T
    BY <1>5
  <2>2. ASSUME NEW i \in 1 .. n, i - 1 \in T
        PROVE  i \in T
    <3> DEFINE q == R[i - 1]
               w == i <= l
    <3>1. q \in PoolsOK(c) /\ w \in BOOLEAN /\ Has(i - 1) /\ txs[i] \in Tx
      BY <1>3, <1>5, <2>2
    <3>2. R[i] = Restore(c, q, txs[i], w)
      BY <1>3
    <3> HIDE DEF q, w
    <3>3. /\ q.known \subseteq R[i].known
          /\ ~w /\ InTime(c, txs[i]) => txs[i] \in R[i].known
      BY <3>1, <3>2, RestoreOK
    <3>4. ASSUME NEW j \in 1 .. i, j > l, InTime(c, txs[j])
          PROVE  txs[j] \in R[i].known
      <4>1. CASE j = i
        BY <1>2, <1>5, <3>3, <3>4, <4>1 DEF w
      <4>2. CASE j \in 1 .. i - 1
        BY <3>1, <3>3, <3>4, <4>2 DEF q
      <4> QED
        BY <1>5, <4>1, <4>2
    <3> QED
      BY <1>5, <3>4
  <2> HIDE DEF T
  <2> QED
    BY <1>5, <2>1, <2>2, IntervalInduction
<1>7. Has(n) /\ R[n] \in PoolsOK(c)
  BY <1>3, <1>5, <1>6
<1>8. R[n].known = Known(c) \cup Range(R[n].pending)
  BY <1>7 DEF PoolsOK, PoolOK
<1>9. ASSUME NEW t \in Range(p.pending), InTime(c, t)
      PROVE  t \in Range(R[n].pending) \/ t \in Applied(c)
  <2>1. PICK i \in 1 .. Len(p.pending) : t = p.pending[i]
    BY <1>1 DEF Range
  <2>2. l + i \in 1 .. n /\ l + i > l /\ t = txs[l + i]
    BY <1>2, <1>5, <2>1
  <2>3. t \in R[n].known
    BY <1>7, <1>9, <2>2
  <2> QED
    BY <1>8, <2>3, AppliedType
<1> QED
  BY <1>4, <1>7, <1>9

\* What a block holds after each pending transaction.
LEMMA SelectingIs ==
    ASSUME NEW c \in ChainType, NEW p \in PoolType
    PROVE  Selecting(p, c) \in [0 .. Len(p.pending) -> Seq(Tx)]
<1> DEFINE n == Len(p.pending)
           V == Seq(Tx)
           base == <<>>
           E(v, i) == 
               IF Len(v) < BlockTxs /\ InTime(c, p.pending[i])
               THEN Append(v, p.pending[i]) ELSE v
           F(f) == [i \in 0 .. n |-> IF i = 0 THEN base ELSE E(f[i - 1], i)]
           step == [i \in 1 .. n |-> [v \in V |-> E(v, i)]]
           S == Selecting(p, c)
<1>1. n \in Nat /\ base \in V
  BY DEF PoolType
<1>2. ASSUME NEW i \in 1 .. n, NEW v \in V
      PROVE  E(v, i) \in V
  <2>1. p.pending \in Seq(Tx)
    BY DEF PoolType
  <2>2. p.pending[i] \in Tx
    BY <2>1
  <2>3. Append(v, p.pending[i]) \in Seq(Tx)
    BY <2>2
  <2> QED
    BY <2>3
<1>3. S = CHOOSE f : f = F(f)
  BY DEF Selecting
<1> HIDE DEF S, n, V, base, E
<1>4. StepFunction(step, n, V)
  BY <1>2 DEF StepFunction
<1>5. \A i \in 1 .. n : \A v \in V : step[i][v] = E(v, i)
  OBVIOUS
<1> HIDE DEF step
<1>6. PICK g : Recursive(g, n, V, base, step)
  BY <1>1, <1>4, RecursionExists
<1>7. g = F(g)
  <2>1. \A i \in 1 .. n : g[i] = E(g[i - 1], i)
    BY <1>1, <1>5, <1>6 DEF Recursive
  <2>2. g = [i \in 0 .. n |-> g[i]] /\ g[0] = base
    BY <1>6 DEF Recursive
  <2>3. \A i \in 0 .. n : g[i] = IF i = 0 THEN base ELSE E(g[i - 1], i)
    <3> TAKE i \in 0 .. n
    <3>1. CASE i = 0
      BY <2>2, <3>1
    <3>2. CASE i \in 1 .. n
      BY <1>1, <2>1, <3>2
    <3> QED
      BY <1>1, <3>1, <3>2
  <2> QED
    BY <2>2, <2>3
<1>8. S = F(S)
  BY <1>3, <1>7
<1>9. \A i \in 0 .. n : S[i] = IF i = 0 THEN base ELSE E(S[i - 1], i)
  BY <1>8
<1>10. S = [i \in 0 .. n |-> S[i]]
  BY <1>8, <1>9
<1>11. S[0] = base /\ \A i \in 1 .. n : S[i] = E(S[i - 1], i)
  BY <1>1, <1>9
<1>12. Recursive(S, n, V, base, step)
  BY <1>1, <1>4, <1>5, <1>10, <1>11, RecursionTyped
<1> QED
  BY <1>11, <1>12 DEF Recursive, V, n, S, base, E

\* The chain after each block of a branch.
LEMMA ExtendedIs ==
    ASSUME NEW c \in ChainType, NEW branch \in Seq(Seq(Tx))
    PROVE  LET X == Extended(c, branch)
           IN  /\ X \in [0 .. Len(branch) -> ChainType]
               /\ X[0] = c
               /\ \A i \in 1 .. Len(branch) :
                     X[i] = Append(X[i - 1], Block(Now(X[i - 1]) + 1, branch[i]))
<1> DEFINE n == Len(branch)
           V == ChainType
           base == c
           E(v, i) == Append(v, Block(Now(v) + 1, branch[i]))
           F(f) == [i \in 0 .. n |-> IF i = 0 THEN base ELSE E(f[i - 1], i)]
           step == [i \in 1 .. n |-> [v \in V |-> E(v, i)]]
           S == Extended(c, branch)
<1>1. n \in Nat /\ base \in V
  OBVIOUS
<1>2. ASSUME NEW i \in 1 .. n, NEW v \in V
      PROVE  E(v, i) \in V
  <2>1. branch[i] \in Seq(Tx) /\ Now(v) + 1 \in Nat
    BY NowType
  <2>2. Block(Now(v) + 1, branch[i]) \in BlockType
    BY <2>1 DEF Block, BlockType
  <2> QED
    BY <2>2 DEF ChainType
<1>3. S = CHOOSE f : f = F(f)
  BY DEF Extended
<1> HIDE DEF S, n, V, base, E
<1>4. StepFunction(step, n, V)
  BY <1>2 DEF StepFunction
<1>5. \A i \in 1 .. n : \A v \in V : step[i][v] = E(v, i)
  OBVIOUS
<1> HIDE DEF step
<1>6. PICK g : Recursive(g, n, V, base, step)
  BY <1>1, <1>4, RecursionExists
<1>7. g = F(g)
  <2>1. \A i \in 1 .. n : g[i] = E(g[i - 1], i)
    BY <1>1, <1>5, <1>6 DEF Recursive
  <2>2. g = [i \in 0 .. n |-> g[i]] /\ g[0] = base
    BY <1>6 DEF Recursive
  <2>3. \A i \in 0 .. n : g[i] = IF i = 0 THEN base ELSE E(g[i - 1], i)
    <3> TAKE i \in 0 .. n
    <3>1. CASE i = 0
      BY <2>2, <3>1
    <3>2. CASE i \in 1 .. n
      BY <1>1, <2>1, <3>2
    <3> QED
      BY <1>1, <3>1, <3>2
  <2> QED
    BY <2>2, <2>3
<1>8. S = F(S)
  BY <1>3, <1>7
<1>9. \A i \in 0 .. n : S[i] = IF i = 0 THEN base ELSE E(S[i - 1], i)
  BY <1>8
<1>10. S = [i \in 0 .. n |-> S[i]]
  BY <1>8, <1>9
<1>11. S[0] = base /\ \A i \in 1 .. n : S[i] = E(S[i - 1], i)
  BY <1>1, <1>9
<1>12. Recursive(S, n, V, base, step)
  BY <1>1, <1>4, <1>5, <1>10, <1>11, RecursionTyped
<1> QED
  BY <1>11, <1>12 DEF Recursive, V, n, S, base, E

\* A branch whose blocks all apply leaves a chain without repetitions.
LEMMA ExtendedOnce ==
    ASSUME NEW c \in ChainType, Once(c), NEW branch \in Seq(Seq(Tx)),
           \A i \in 1 .. Len(branch) :
               Applies(Extended(c, branch)[i - 1], branch[i])
    PROVE  LET X == Extended(c, branch)
           IN  X[Len(branch)] \in ChainType /\ Once(X[Len(branch)])
<1> DEFINE n == Len(branch)
           X == Extended(c, branch)
           T == { i \in 0 .. n : Once(X[i]) }
<1>1. n \in Nat /\ \A i \in 1 .. n : branch[i] \in Seq(Tx)
  OBVIOUS
<1>2. /\ X \in [0 .. n -> ChainType]
      /\ X[0] = c
      /\ \A i \in 1 .. n :
            X[i] = Append(X[i - 1], Block(Now(X[i - 1]) + 1, branch[i]))
  BY ExtendedIs
<1>3. \A i \in 1 .. n : Applies(X[i - 1], branch[i])
  OBVIOUS
<1> HIDE DEF n, X
<1>4. 0 .. n \subseteq T
  <2>1. 0 \in T
    BY <1>1, <1>2
  <2>2. ASSUME NEW i \in 1 .. n, i - 1 \in T
        PROVE  i \in T
    <3> DEFINE b == X[i - 1]
               txs == branch[i]
               time == Now(b) + 1
    <3>1. b \in ChainType /\ Once(b) /\ txs \in Seq(Tx) /\ Applies(b, txs)
      BY <1>1, <1>2, <1>3, <2>2
    <3>2. X[i] = Append(b, Block(time, txs))
      BY <1>2
    <3> HIDE DEF b, txs
    <3>3. time \in Nat
      BY <3>1, NowType
    <3> HIDE DEF time
    <3>4. Fresh(b, txs)
      BY <3>1, AppliesFresh
    <3>5. Once(X[i])
      BY <3>1, <3>2, <3>3, <3>4, AppendOnce
    <3> QED
      BY <1>1, <3>5
  <2> HIDE DEF T
  <2> QED
    BY <1>1, <2>1, <2>2, IntervalInduction
<1>5. n \in 0 .. n
  BY <1>1
<1> QED
  BY <1>2, <1>4, <1>5 DEF X, n

-----------------------------------------------------------------------------
(***************************************************************************)
(* The inductive invariant and the theorems.                               *)
(***************************************************************************)

\* The chain repeats no transaction and the pool agrees with it.
IInv ==
    /\ chain \in ChainType
    /\ Once(chain)
    /\ pool \in PoolsOK(chain)
    /\ deduce \in BOOLEAN

\* The chain is empty at first.
LEMMA InitIInv == Init => IInv
<1> SUFFICES ASSUME Init PROVE IInv
  OBVIOUS
<1>1. <<>> \in ChainType /\ Once(<<>>)
  BY DEF ChainType, Once
<1>2. Cleared(<<>>, 0) \in PoolsOK(<<>>)
  BY <1>1, ClearedOK
<1> QED
  BY <1>1, <1>2 DEF Init, IInv

\* What one step does to the pending transactions.
Kept ==
    \A t \in Range(pool.pending) :
        \/ t \in Range(pool'.pending)
        \/ t \in Applied(chain')
        \/ ~InTime(chain', t)

\* A call that leaves a chain without repetitions and restores the pool.
LEMMA RestoredIInv ==
    ASSUME IInv, chain' \in ChainType, Once(chain'), UNCHANGED deduce,
           NEW popped \in Seq(Tx), pool' = Restored(chain', popped, pool)
    PROVE  IInv' /\ Kept
<1>1. pool \in PoolType
  BY DEF IInv, PoolsOK
<1> DEFINE c == chain'
<1>2. c \in ChainType /\ pool' = Restored(c, popped, pool)
  OBVIOUS
<1> HIDE DEF c
<1>3. /\ pool' \in PoolsOK(c)
      /\ \A t \in Range(pool.pending) :
            t \in Range(pool'.pending) \/ t \in Applied(c) \/ ~InTime(c, t)
  BY <1>1, <1>2, RestoredOK
<1>4. deduce' \in BOOLEAN
  BY DEF IInv
<1>5. pool' \in PoolsOK(chain')
  BY <1>3 DEF c
<1>6. Kept
  BY <1>3 DEF Kept, c
<1> QED
  BY <1>4, <1>5, <1>6 DEF IInv

\* A transaction of a client or of a peer.
LEMMA TransactionIInv ==
    ASSUME IInv, NEW t \in Tx, ClientTransaction(t) \/ PeerTransaction(t)
    PROVE  IInv' /\ Kept
<1>1. chain \in ChainType /\ pool \in PoolsOK(chain)
  BY DEF IInv
<1>2. /\ pool' \in PoolsOK(chain)
      /\ Range(pool.pending) \subseteq Range(pool'.pending)
  <2>1. CASE ClientTransaction(t)
    BY <1>1, <2>1, PushFromMeOK DEF ClientTransaction
  <2>2. CASE PeerTransaction(t)
    BY <1>1, <2>2, PushFromNetOK DEF PeerTransaction
  <2> QED
    BY <2>1, <2>2
<1>3. UNCHANGED <<chain, deduce>>
  BY DEF ClientTransaction, PeerTransaction
<1> QED
  BY <1>2, <1>3 DEF IInv, Kept

\* A block of another witness.
LEMMA PushBlockIInv ==
    ASSUME IInv, NEW time \in 1 .. MaxTime, NEW txs \in PeerBlocks,
           PushBlock(time, txs)
    PROVE  IInv' /\ Kept
<1>1. txs \in Seq(Tx) /\ time \in Nat
  BY PoolAssumption
<1>2. chain \in ChainType /\ Once(chain)
  BY DEF IInv
<1>3. chain' \in ChainType /\ Once(chain')
  <2>1. CASE Applies(chain, txs)
    <3>1. Fresh(chain, txs)
      BY <1>1, <1>2, <2>1, AppliesFresh
    <3>2. chain' = Append(chain, Block(time, txs))
      BY <2>1 DEF PushBlock
    <3> QED
      BY <1>1, <1>2, <3>1, <3>2, AppendOnce
  <2>2. CASE ~Applies(chain, txs)
    BY <1>2, <2>2 DEF PushBlock
  <2> QED
    BY <2>1, <2>2
<1>4. pool' = Restored(chain', <<>>, pool) /\ UNCHANGED deduce
  BY DEF PushBlock
<1>5. <<>> \in Seq(Tx)
  OBVIOUS
<1> QED
  BY <1>3, <1>4, <1>5, RestoredIInv

\* A block that makes another fork longer.
LEMMA SwitchForksIInv ==
    ASSUME IInv, NEW k \in 1 .. MaxPop,
           NEW branch \in [1 .. k + 1 -> PeerBlocks], SwitchForks(k, branch)
    PROVE  IInv' /\ Kept
<1> DEFINE n == Len(chain) - k
           base == SubSeq(chain, 1, n)
           ext == Extended(base, branch)
           ok == \A i \in 1 .. Len(branch) : Applies(ext[i - 1], branch[i])
           popped == IF ~ok /\ Applies(base, branch[1]) THEN branch[1]
                     ELSE chain[n + 1].txs
<1>1. /\ k \in 1 .. Len(chain)
      /\ Len(branch) = k + 1
      /\ chain' = IF ok THEN ext[Len(branch)] ELSE chain
      /\ pool' = Restored(chain', popped, pool)
      /\ UNCHANGED deduce
  BY DEF SwitchForks
<1>2. chain \in ChainType /\ Once(chain) /\ Len(chain) \in Nat
  BY DEF IInv, ChainType
<1>3. n \in 0 .. Len(chain) /\ n + 1 \in 1 .. Len(chain)
  BY <1>1, <1>2
<1>4. /\ branch \in Seq(Seq(Tx))
      /\ branch[1] \in Seq(Tx)
  <2>1. k + 1 \in Nat /\ 1 \in 1 .. k + 1
    BY PoolAssumption
  <2>2. branch \in [1 .. k + 1 -> Seq(Tx)]
    BY PoolAssumption
  <2> QED
    BY <2>1, <2>2
<1> HIDE DEF n
<1>5. base \in ChainType /\ Once(base)
  BY <1>2, <1>3, PopOnce
<1>6. chain[n + 1].txs \in Seq(Tx)
  <2>1. chain[n + 1] \in BlockType
    BY <1>2, <1>3 DEF ChainType
  <2> QED
    BY <2>1 DEF BlockType
<1> HIDE DEF base
<1>7. popped \in Seq(Tx)
  <2> HIDE DEF ok
  <2> QED
    BY <1>4, <1>6
<1>8. chain' \in ChainType /\ Once(chain')
  <2>1. CASE ok
    BY <1>1, <1>4, <1>5, <2>1, ExtendedOnce
  <2>2. CASE ~ok
    BY <1>1, <1>2, <2>2
  <2> QED
    BY <2>1, <2>2
<1> HIDE DEF popped
<1> QED
  BY <1>1, <1>7, <1>8, RestoredIInv

\* A block of this node.
LEMMA GenerateBlockIInv ==
    ASSUME IInv, NEW time \in 1 .. MaxTime, NEW n \in 0 .. BlockTxs,
           GenerateBlock(time, n)
    PROVE  IInv' /\ Kept
<1> DEFINE txs == Selected(pool, chain)
           tried == Tried(chain, SubSeq(txs, 1, n))
<1>1. /\ n \in 0 .. Len(txs)
      /\ chain' = Append(chain, Block(time, tried))
      /\ pool' = Restored(chain', <<>>, pool)
      /\ UNCHANGED deduce
  BY DEF GenerateBlock
<1>2. chain \in ChainType /\ Once(chain) /\ pool \in PoolType
  BY DEF IInv, PoolsOK
<1>3. txs \in Seq(Tx)
  <2>1. Len(pool.pending) \in 0 .. Len(pool.pending)
    BY <1>2 DEF PoolType
  <2> QED
    BY <1>2, <2>1, SelectingIs DEF Selected
<1>4. time \in Nat /\ <<>> \in Seq(Tx)
  BY PoolAssumption
<1> HIDE DEF txs
<1>5. SubSeq(txs, 1, n) \in Seq(Tx)
  BY <1>1, <1>3
<1>6. tried \in Seq(Tx) /\ Fresh(chain, tried)
  BY <1>2, <1>5, TriedFresh
<1> HIDE DEF tried
<1>7. chain' \in ChainType /\ Once(chain')
  BY <1>1, <1>2, <1>4, <1>6, AppendOnce
<1> QED
  BY <1>1, <1>4, <1>7, RestoredIInv

\* Every step keeps the invariant and the pending transactions.
LEMMA NextIInv == IInv /\ [Next]_vars => IInv' /\ (Next => Kept)
<1> SUFFICES ASSUME IInv, [Next]_vars PROVE IInv' /\ (Next => Kept)
  OBVIOUS
<1>1. ASSUME NEW t \in Tx, ClientTransaction(t) \/ PeerTransaction(t)
      PROVE  IInv' /\ Kept
  BY <1>1, TransactionIInv
<1>2. CASE SetDeduce
  <2>1. UNCHANGED <<chain, pool>> /\ deduce' = ~deduce
    BY <1>2 DEF SetDeduce
  <2>2. IInv'
    BY <2>1 DEF IInv
  <2>3. Kept
    BY <2>1 DEF Kept
  <2> QED
    BY <2>2, <2>3
<1>3. ASSUME NEW time \in 1 .. MaxTime, NEW txs \in PeerBlocks,
             PushBlock(time, txs)
      PROVE  IInv' /\ Kept
  BY <1>3, PushBlockIInv
<1>4. ASSUME NEW k \in 1 .. MaxPop,
             NEW branch \in [1 .. k + 1 -> PeerBlocks], SwitchForks(k, branch)
      PROVE  IInv' /\ Kept
  BY <1>4, SwitchForksIInv
<1>5. ASSUME NEW time \in 1 .. MaxTime, NEW n \in 0 .. BlockTxs,
             GenerateBlock(time, n)
      PROVE  IInv' /\ Kept
  BY <1>5, GenerateBlockIInv
<1>6. CASE UNCHANGED vars
  <2>1. UNCHANGED <<chain, pool, deduce>>
    BY <1>6 DEF vars
  <2>2. IInv'
    BY <2>1 DEF IInv
  <2>3. Kept
    BY <2>1 DEF Kept
  <2> QED
    BY <2>2, <2>3
<1>7. Next => IInv' /\ Kept
  BY <1>1, <1>2, <1>3, <1>4, <1>5 DEF Next
<1> QED
  BY <1>6, <1>7

\* The chain repeats no transaction and the pool agrees with it, whatever is
\* sent, produced, popped and restored.
THEOREM PoolInvariant == Spec => []IInv
BY InitIInv, NextIInv, PTL DEF Spec

\* No transaction is applied twice: clear_expired_transactions() keeps its
\* object for as long as its expiration lets it in, on every fork.
THEOREM TransactionsApplyOnce == Spec => []AppliedOnce
<1>1. IInv => AppliedOnce
  BY DEF IInv, Once, AppliedOnce
<1> QED
  BY <1>1, PoolInvariant, PTL

\* The pool holds nothing twice and nothing that the chain has, and clear_pending()
\* finds its session open.
THEOREM PoolIsConsistent == Spec => []PoolConsistent
<1>1. IInv => PoolConsistent
  BY DEF IInv, PoolsOK, PoolOK, Fresh, PoolConsistent
<1> QED
  BY <1>1, PoolInvariant, PTL

\* pending_transactions_restorer loses no pending transaction, whatever
\* happens to the chain in between.
THEOREM PendingTransactionsKept == Spec => PendingKept
<1> DEFINE A == \A t \in Range(pool.pending) :
                    \/ t \in Range(pool'.pending)
                    \/ t \in Applied(chain')
                    \/ ~InTime(chain', t)
<1>1. IInv /\ [Next]_vars => [A]_vars
  <2>1. Kept => A
    BY DEF Kept
  <2> HIDE DEF A
  <2> QED
    BY <2>1, NextIInv
<1>2. Spec => [][A]_vars
  <2> HIDE DEF A
  <2> QED
    BY <1>1, PoolInvariant, PTL DEF Spec
<1> QED
  BY <1>2 DEF PendingKept
=============================================================================
