------------------------ MODULE ChainDatabase_proofs ------------------------
(***************************************************************************)
(* Proofs about the chain database, for all trees of blocks, numbers of    *)
(* witnesses and orders of delivery: how far a running node can go back,   *)
(* the links of its fork database, the chain on its disk, and what it does *)
(* with that when it starts again.                                         *)
(*                                                                         *)
(* A call is a function from node to node, so most lemmas say that a call  *)
(* does not lead out of a set of nodes (Closed), and the invariants of the *)
(* specification follow from the membership of `node' in such sets.        *)
(***************************************************************************)
EXTENDS ChainDatabase, Induction, FiniteSetTheorems

BlockOrGenesis == 0 .. NumBlocks

-----------------------------------------------------------------------------
(***************************************************************************)
(* The tree.                                                               *)
(***************************************************************************)
\* The path to a block leads through the paths of its ancestors.
TreeOK ==
    /\ path \in [BlockOrGenesis -> Seq(Block)]
    /\ PathsUpTo(path, NumBlocks)
    /\ bad \subseteq Block

\* The blocks that witnesses sign form a tree.
LEMMA TreeInitOK == TreeInit => TreeOK
<1> SUFFICES ASSUME NEW parent \in [Block -> 0 .. NumBlocks - 1],
                    \A b \in Block : parent[b] < b,
                    path = PathsOf(parent), bad \subseteq Block
             PROVE  TreeOK
  BY DEF TreeInit
<1> DEFINE S == CHOOSE f : f = [i \in 0 .. NumBlocks |->
                   IF i = 0 THEN [b \in 0 .. NumBlocks |-> <<>>]
                   ELSE [f[i - 1] EXCEPT ![i] = Append(f[i - 1][parent[i]], i)]]
<1>1. path = S[NumBlocks]
  BY DEF PathsOf
<1>2. NumBlocks \in Nat /\ Parents(NumBlocks, parent)
  BY TreeAssumption DEF Parents, Block
<1>3. /\ S[NumBlocks] \in [0 .. NumBlocks -> Seq(1 .. NumBlocks)]
      /\ PathsUpTo(S[NumBlocks], NumBlocks)
  <2>1. S = CHOOSE f : f = [i \in 0 .. NumBlocks |->
                   IF i = 0 THEN [b \in 0 .. NumBlocks |-> <<>>]
                   ELSE [f[i - 1] EXCEPT ![i] = Append(f[i - 1][parent[i]], i)]]
    OBVIOUS
  <2> HIDE DEF S
  <2> QED
    BY ONLY <1>2, <2>1, PathsOfTree, ZenonT(60)
<1> HIDE DEF S
<1> QED
  BY <1>1, <1>3 DEF TreeOK, Block, BlockOrGenesis

\* The path to b and the blocks on it.
LEMMA OnPath ==
    ASSUME TreeOK, NEW b \in Block
    PROVE  /\ path[b] \in Seq(Block) /\ Num(b) \in Nat \ {0}
           /\ path[b][Num(b)] = b
           /\ \A i \in 1 .. Num(b) : /\ path[b][i] \in Block /\ path[b][i] <= b
                                     /\ Num(path[b][i]) = i
                                     /\ path[path[b][i]] = SubSeq(path[b], 1, i)
<1>1. PathIn(path, b) /\ path[b] \in Seq(Block)
  BY TreeAssumption DEF TreeOK, PathsUpTo, Block, BlockOrGenesis
<1>2. path[b] # <<>> /\ Len(path[b]) \in Nat \ {0} /\ path[b][Len(path[b])] = b
  BY <1>1 DEF PathIn
<1>3. ASSUME NEW i \in 1 .. Num(b)
      PROVE  /\ path[b][i] \in Block /\ path[b][i] <= b
             /\ Num(path[b][i]) = i
             /\ path[path[b][i]] = SubSeq(path[b], 1, i)
  <2>1. path[path[b][i]] = SubSeq(path[b], 1, i) /\ path[b][i] \in 1 .. b
    BY <1>1, <1>3 DEF PathIn, Num
  <2>2. Len(SubSeq(path[b], 1, i)) = i /\ path[b][i] \in Block
    BY <1>1, <1>2, <1>3 DEF Num
  <2>3. path[b][i] <= b
    BY <2>1 DEF Block
  <2> QED
    BY <2>1, <2>2, <2>3 DEF Num
<1> QED
  BY <1>1, <1>2, <1>3 DEF Num

\* The parent of a block: one lower, on the same path.
LEMMA PrevOK ==
    ASSUME TreeOK, NEW b \in Block
    PROVE  /\ Prev(b) \in BlockOrGenesis /\ Prev(b) # b /\ Prev(b) <= b
           /\ Num(Prev(b)) = Num(b) - 1
           /\ \A i \in 1 .. Num(b) - 1 : path[Prev(b)][i] = path[b][i]
<1>1. /\ path[b] \in Seq(Block) /\ Num(b) \in Nat \ {0} /\ b \in Nat
      /\ path[b][Num(b)] = b
      /\ \A i \in 1 .. Num(b) : /\ path[b][i] \in Block /\ path[b][i] <= b
                                /\ Num(path[b][i]) = i
                                /\ path[path[b][i]] = SubSeq(path[b], 1, i)
  BY OnPath DEF Block
<1>2. NumBlocks \in Nat /\ Block \subseteq BlockOrGenesis /\ 0 \in BlockOrGenesis
  BY TreeAssumption DEF Block, BlockOrGenesis
<1>3. CASE Num(b) = 1
  <2>1. Prev(b) = 0 /\ Num(0) = 0
    BY <1>3 DEF Prev, Genesis, TreeOK, PathsUpTo, Num
  <2> QED
    BY <1>1, <1>2, <1>3, <2>1 DEF Block
<1>4. CASE Num(b) > 1
  <2> DEFINE c == path[b][Num(b) - 1]
  <2>1. /\ c \in Block /\ c <= b /\ Num(c) = Num(b) - 1
        /\ path[c] = SubSeq(path[b], 1, Num(b) - 1) /\ Prev(b) = c
    BY <1>1, <1>4 DEF Prev
  <2> HIDE DEF c
  <2>2. \A i \in 1 .. Num(b) - 1 : path[c][i] = path[b][i]
    BY <1>1, <2>1 DEF Num
  <2> QED
    BY <1>1, <1>2, <2>1, <2>2
<1> QED
  BY <1>1, <1>3, <1>4

\* Blocks are numbered from 1 to at most NumBlocks, the genesis state is 0.
LEMMA NumTyped ==
    ASSUME TreeOK
    PROVE  /\ Num(Genesis) = 0
           /\ \A b \in Block : Num(b) \in Block
           /\ \A b \in BlockOrGenesis : Num(b) \in BlockOrGenesis
           /\ \A b \in BlockOrGenesis : b # Genesis => b \in Block
           /\ Block \subseteq BlockOrGenesis /\ Genesis \in BlockOrGenesis
           /\ Genesis \notin Block /\ NumBlocks \in Nat
<1>1. /\ NumBlocks \in Nat /\ Genesis \notin Block
      /\ Block \subseteq BlockOrGenesis /\ Genesis \in BlockOrGenesis
      /\ \A b \in BlockOrGenesis : b # Genesis => b \in Block
  BY TreeAssumption DEF Block, BlockOrGenesis, Genesis
<1>2. Num(Genesis) = 0
  BY DEF Genesis, TreeOK, PathsUpTo, Num
<1> DEFINE T == { k \in BlockOrGenesis : \A b \in 1 .. k : Num(b) <= b }
<1>3. 0 \in T
  <2>1. 1 .. 0 = {}
    OBVIOUS
  <2> QED
    BY <1>1, <2>1 DEF Genesis
<1>4. ASSUME NEW k \in 1 .. NumBlocks, k - 1 \in T
      PROVE  k \in T
  <2>1. k \in Block /\ k \in BlockOrGenesis /\ k \in Nat \ {0}
    BY <1>1 DEF Block, BlockOrGenesis
  <2>2. /\ Prev(k) \in BlockOrGenesis /\ Prev(k) # k /\ Prev(k) <= k
        /\ Num(Prev(k)) = Num(k) - 1 /\ Num(k) \in Nat \ {0}
    BY <2>1, PrevOK, OnPath
  <2>3. Num(k) <= k
    <3>1. CASE Prev(k) = 0
      BY <1>2, <2>1, <2>2, <3>1 DEF Genesis
    <3>2. CASE Prev(k) # 0
      <4>1. Prev(k) \in 1 .. k - 1
        BY <1>1, <2>1, <2>2, <3>2 DEF BlockOrGenesis
      <4>2. Num(Prev(k)) <= Prev(k)
        BY <1>4, <4>1
      <4> QED
        BY <2>1, <2>2, <4>1, <4>2
    <3> QED
      BY <3>1, <3>2
  <2>4. \A b \in 1 .. k : b = k \/ b \in 1 .. k - 1
    BY <2>1
  <2> QED
    BY <1>4, <2>1, <2>3, <2>4
<1>5. 0 .. NumBlocks \subseteq T
  <2> HIDE DEF T
  <2> QED
    BY <1>1, <1>3, <1>4, IntervalInduction
<1>6. \A b \in Block : Num(b) \in Block
  <2> TAKE b \in Block
  <2>1. Num(b) \in Nat \ {0}
    BY OnPath
  <2>2. b \in 0 .. NumBlocks /\ b \in 1 .. b /\ b \in Nat /\ b <= NumBlocks
    BY <1>1 DEF Block
  <2>3. b \in T
    BY <1>5, <2>2
  <2>4. Num(b) <= b
    BY <2>2, <2>3
  <2> QED
    BY <1>1, <2>1, <2>2, <2>4 DEF Block
<1>7. \A b \in BlockOrGenesis : Num(b) \in BlockOrGenesis
  <2> TAKE b \in BlockOrGenesis
  <2>1. CASE b = Genesis
    BY <1>1, <1>2, <2>1 DEF Genesis
  <2>2. CASE b # Genesis
    BY <1>1, <1>6, <2>2
  <2> QED
    BY <2>1, <2>2
<1> HIDE DEF T
<1> QED
  BY <1>1, <1>2, <1>6, <1>7

-----------------------------------------------------------------------------
(***************************************************************************)
(* Irreversible blocks.                                                    *)
(***************************************************************************)
\* The larger of two numbers.
LEMMA MaxOfTwo ==
    ASSUME NEW m \in Int, NEW n \in Int
    PROVE  Max({m, n}) = IF m <= n THEN n ELSE m
<1> DEFINE x == IF m <= n THEN n ELSE m
<1>1. x \in {m, n} /\ \A y \in {m, n} : x >= y
  OBVIOUS
<1>2. \A z \in {m, n} : (\A y \in {m, n} : z >= y) => z = x
  OBVIOUS
<1> HIDE DEF x
<1>3. Max({m, n}) = x
  BY <1>1, <1>2 DEF Max
<1> QED
  BY <1>3 DEF x

Witnesses == 0 .. NumWitnesses - 1

\* The numbers of the blocks on the chain to b that w has signed, and 0.
ConfirmedNums(b, w) ==
    {0} \cup { Num(c) : c \in { path[b][i] : i \in 1 .. Num(b) }
                              \cap { x \in Block : Witness(x) = w } }

\* The last block that a witness has confirmed is on the chain, and no later
\* than the one it has confirmed on a longer chain.
LEMMA LastConfirmedOK ==
    ASSUME TreeOK, NEW b \in BlockOrGenesis, NEW w
    PROVE  /\ LastConfirmed(b, w) \in 0 .. Num(b)
           /\ b # Genesis => LastConfirmed(Prev(b), w) <= LastConfirmed(b, w)
<1>1. ASSUME NEW c \in BlockOrGenesis
      PROVE  /\ Num(c) \in Nat
             /\ ConfirmedNums(c, w) \in SUBSET (0 .. Num(c))
             /\ LastConfirmed(c, w) \in ConfirmedNums(c, w)
             /\ \A y \in ConfirmedNums(c, w) : LastConfirmed(c, w) >= y
  <2> DEFINE S == ConfirmedNums(c, w)
  <2>1. Num(c) \in Nat
    BY NumTyped, TreeAssumption DEF BlockOrGenesis
  <2>2. S \in SUBSET (0 .. Num(c))
    <3>1. CASE c = Genesis
      BY <2>1, <3>1, NumTyped DEF ConfirmedNums
    <3>2. CASE c # Genesis
      <4>1. c \in Block
        BY <3>2, NumTyped
      <4>2. \A i \in 1 .. Num(c) : Num(path[c][i]) = i
        BY <4>1, OnPath
      <4> QED
        BY <2>1, <4>2 DEF ConfirmedNums
    <3> QED
      BY <3>1, <3>2
  <2>3. S # {}
    BY DEF ConfirmedNums
  <2>4. LastConfirmed(c, w) = Max(S)
    BY DEF LastConfirmed, ConfirmedNums
  <2> HIDE DEF S
  <2>5. \E x \in S : \A y \in S : x >= y
    BY <2>1, <2>2, <2>3, Extremes
  <2>6. Max(S) \in S /\ \A y \in S : Max(S) >= y
    BY <2>5 DEF Max
  <2> QED
    BY <2>1, <2>2, <2>4, <2>6 DEF S
<1>2. LastConfirmed(b, w) \in 0 .. Num(b)
  BY <1>1
<1>3. ASSUME b # Genesis
      PROVE  LastConfirmed(Prev(b), w) <= LastConfirmed(b, w)
  <2>1. b \in Block
    BY <1>3, NumTyped
  <2>2. /\ Prev(b) \in BlockOrGenesis /\ Num(Prev(b)) = Num(b) - 1
        /\ \A i \in 1 .. Num(b) - 1 : path[Prev(b)][i] = path[b][i]
    BY <2>1, PrevOK
  <2>3. Num(b) \in Nat
    BY <1>1
  <2>4. ConfirmedNums(Prev(b), w) \subseteq ConfirmedNums(b, w)
    <3>1. \A i \in 1 .. Num(Prev(b)) :
            i \in 1 .. Num(b) /\ path[Prev(b)][i] = path[b][i]
      BY <2>2, <2>3
    <3>2. { path[Prev(b)][i] : i \in 1 .. Num(Prev(b)) }
              \subseteq { path[b][i] : i \in 1 .. Num(b) }
      BY <3>1
    <3> QED
      BY <3>2 DEF ConfirmedNums
  <2>5. LastConfirmed(Prev(b), w) \in ConfirmedNums(Prev(b), w)
    BY <1>1, <2>2
  <2>6. LastConfirmed(Prev(b), w) \in ConfirmedNums(b, w)
    BY <2>4, <2>5
  <2>7. /\ LastConfirmed(b, w) >= LastConfirmed(Prev(b), w)
        /\ LastConfirmed(b, w) \in Int /\ LastConfirmed(Prev(b), w) \in Int
    <3>1. LastConfirmed(b, w) >= LastConfirmed(Prev(b), w)
      BY <1>1, <2>6
    <3>2. LastConfirmed(b, w) \in 0 .. Num(b)
      BY <1>1
    <3>3. LastConfirmed(Prev(b), w) \in 0 .. Num(Prev(b))
      BY <1>1, <2>2
    <3> QED
      BY <3>1, <3>2, <3>3
  <2> QED
    BY <2>7
<1> QED
  BY <1>2, <1>3

\* The witnesses that have confirmed no block after number n.
Behind(b, n) == { w \in Witnesses : LastConfirmed(b, w) <= n }

StandsAtOffset(b, n) ==
    /\ \E w \in Witnesses : LastConfirmed(b, w) = n
    /\ Cardinality({ w \in Witnesses : LastConfirmed(b, w) < n }) <= Offset
    /\ Cardinality(Behind(b, n)) > Offset

\* Fewer witnesses than there are stand before the offset.
LEMMA OffsetOK == /\ Offset \in Nat /\ Offset < NumWitnesses
                  /\ IsFiniteSet(Witnesses) /\ Cardinality(Witnesses) = NumWitnesses
<1>1. NumWitnesses \in Nat \ {0}
  BY TreeAssumption
<1>2. Offset \in Nat /\ Offset < NumWitnesses
  BY <1>1 DEF Offset
<1>3. /\ IsFiniteSet(0 .. NumWitnesses - 1)
      /\ Cardinality(0 .. NumWitnesses - 1) = NumWitnesses
  <2>1. 0 \in Int /\ NumWitnesses - 1 \in Int
    BY <1>1
  <2>2. /\ IsFiniteSet(0 .. NumWitnesses - 1)
        /\ Cardinality(0 .. NumWitnesses - 1) =
              IF 0 > NumWitnesses - 1 THEN 0 ELSE (NumWitnesses - 1) - 0 + 1
    BY <2>1, FS_Interval
  <2> QED
    BY <1>1, <2>2
<1> QED
  BY <1>2, <1>3 DEF Witnesses

\* A part of the witnesses.
LEMMA PartOfWitnesses ==
    ASSUME NEW S \in SUBSET Witnesses, NEW R \in SUBSET S
    PROVE  /\ Cardinality(S) \in Nat /\ Cardinality(R) \in Nat
           /\ Cardinality(R) <= Cardinality(S)
<1>1. IsFiniteSet(S)
  BY OffsetOK, FS_Subset
<1>2. IsFiniteSet(R) /\ Cardinality(R) <= Cardinality(S)
  BY <1>1, FS_Subset
<1> QED
  BY <1>1, <1>2, FS_CardinalityType

\* update_last_irreversible_block() finds a number of a witness at the offset.
LEMMA LastIrreversibleExists ==
    ASSUME TreeOK, NEW b \in BlockOrGenesis
    PROVE  LastIrreversible(b) \in 0 .. NumBlocks
           /\ StandsAtOffset(b, LastIrreversible(b))
<1>1. /\ NumBlocks \in Nat /\ Num(b) \in Nat /\ Num(b) <= NumBlocks
      /\ \A w : LastConfirmed(b, w) \in 0 .. Num(b)
  BY NumTyped, LastConfirmedOK DEF BlockOrGenesis
<1> DEFINE T == { n \in 0 .. NumBlocks : Cardinality(Behind(b, n)) > Offset }
<1>2. NumBlocks \in T
  <2>1. Behind(b, NumBlocks) = Witnesses
    BY <1>1 DEF Behind
  <2> QED
    BY <1>1, <2>1, OffsetOK
<1>3. T \in SUBSET (0 .. NumBlocks) /\ T # {}
  BY <1>2
<1>4. PICK n \in T : \A y \in T : n <= y
  <2> HIDE DEF T
  <2> QED
    BY <1>1, <1>3, Extremes
<1>5. n \in 0 .. NumBlocks /\ Cardinality(Behind(b, n)) > Offset
  OBVIOUS
<1> DEFINE R == { w \in Witnesses : LastConfirmed(b, w) < n }
<1>6. Cardinality(R) <= Offset
  <2>1. CASE n = 0
    <3>1. R = {}
      BY <1>1, <2>1
    <3> QED
      BY <3>1, FS_EmptySet, OffsetOK
  <2>2. CASE n # 0
    <3>1. n - 1 \in 0 .. NumBlocks /\ ~ (n <= n - 1)
      BY <1>1, <1>5, <2>2
    <3>2. n - 1 \notin T
      BY <1>4, <3>1
    <3>3. R = Behind(b, n - 1)
      BY <1>1, <1>5 DEF Behind
    <3>4. Cardinality(Behind(b, n - 1)) \in Nat
      BY PartOfWitnesses DEF Behind
    <3> QED
      <4>1. ~ (Cardinality(Behind(b, n - 1)) > Offset)
        BY <3>1, <3>2
      <4>2. Cardinality(Behind(b, n - 1)) <= Offset
        BY <3>4, <4>1, OffsetOK
      <4> QED
        BY <3>3, <4>2
  <2> QED
    BY <2>1, <2>2
<1>7. \E w \in Witnesses : LastConfirmed(b, w) = n
  <2> SUFFICES ASSUME \A w \in Witnesses : LastConfirmed(b, w) # n
               PROVE  FALSE
    OBVIOUS
  <2>1. R = Behind(b, n)
    BY <1>1, <1>5 DEF Behind
  <2>2. Cardinality(Behind(b, n)) \in Nat
    BY PartOfWitnesses DEF Behind
  <2> QED
    BY <1>5, <1>6, <2>1, <2>2, OffsetOK
<1>8. StandsAtOffset(b, n)
  BY <1>5, <1>6, <1>7 DEF StandsAtOffset
<1>9. LastIrreversible(b) = CHOOSE m \in 0 .. NumBlocks : StandsAtOffset(b, m)
  BY DEF LastIrreversible, StandsAtOffset, Behind, Witnesses
<1> HIDE DEF T, R
<1> QED
  BY <1>5, <1>8, <1>9

\* The last irreversible block is on the chain, and never moves back along it.
LEMMA LastIrreversibleOK ==
    ASSUME TreeOK, NEW b \in BlockOrGenesis
    PROVE  /\ LastIrreversible(b) \in Nat /\ LastIrreversible(b) <= Num(b)
           /\ b # Genesis => LastIrreversible(Prev(b)) <= LastIrreversible(b)
<1> DEFINE n == LastIrreversible(b)
<1>1. n \in 0 .. NumBlocks /\ StandsAtOffset(b, n) /\ NumBlocks \in Nat
  BY LastIrreversibleExists, NumTyped
<1>2. Num(b) \in Nat /\ \A w : LastConfirmed(b, w) \in 0 .. Num(b)
  BY NumTyped, LastConfirmedOK DEF BlockOrGenesis
<1>3. n \in Nat /\ n <= Num(b)
  BY <1>1, <1>2 DEF StandsAtOffset
<1>4. ASSUME b # Genesis
      PROVE  LastIrreversible(Prev(b)) <= n
  <2> DEFINE m == LastIrreversible(Prev(b))
  <2>1. b \in Block /\ Prev(b) \in BlockOrGenesis
    BY <1>4, NumTyped, PrevOK
  <2>2. m \in 0 .. NumBlocks /\ StandsAtOffset(Prev(b), m)
    BY <2>1, LastIrreversibleExists
  <2>3. \A w : LastConfirmed(Prev(b), w) \in Nat
    BY <2>1, NumTyped, LastConfirmedOK DEF BlockOrGenesis
  <2> HIDE DEF n, m
  <2> SUFFICES ASSUME n < m PROVE FALSE
    BY <1>1, <2>2 DEF m
  <2> DEFINE S == { w \in Witnesses : LastConfirmed(Prev(b), w) < m }
  <2>4. Behind(b, n) \subseteq S
    <3> SUFFICES ASSUME NEW w \in Witnesses, LastConfirmed(b, w) <= n
                 PROVE  LastConfirmed(Prev(b), w) < m
      BY DEF Behind
    <3>1. LastConfirmed(Prev(b), w) <= LastConfirmed(b, w)
      BY <1>4, LastConfirmedOK
    <3> QED
      BY <1>2, <1>3, <2>2, <2>3, <3>1
  <2>5. /\ Cardinality(S) \in Nat /\ Cardinality(Behind(b, n)) \in Nat
        /\ Cardinality(Behind(b, n)) <= Cardinality(S)
    BY <2>4, PartOfWitnesses
  <2> QED
    BY <1>1, <2>2, <2>5, OffsetOK DEF StandsAtOffset
<1> QED
  BY <1>3, <1>4

-----------------------------------------------------------------------------
(***************************************************************************)
(* Types.                                                                  *)
(***************************************************************************)
Forks == [ index : SUBSET Block, linked : SUBSET Block, head : BlockOrGenesis,
           held : BOOLEAN, headLinked : BOOLEAN ]

Entries == [id : BlockOrGenesis, data : BlockOrGenesis]

Nodes == [ head : BlockOrGenesis, undo : Int, max_size : Int, fork : Forks,
           blocks : [Block -> Entries], tail : [num : Int, old : Entries],
           lib : Int, ok : BOOLEAN ]

\* What is left of a fork database is one.
LEMMA EraseTyped ==
    ASSUME NEW f \in Forks, NEW gone
    PROVE  /\ Erase(f, gone) \in Forks
           /\ Erase(f, gone).index = f.index \ gone
           /\ Erase(f, gone).head = f.head
  BY DEF Erase, Forks

\* _head moves to another block, or to the genesis state.
LEMMA MoveHeadTyped ==
    ASSUME NEW f \in Forks, NEW h \in BlockOrGenesis,
           NEW indexed \in BOOLEAN, NEW live \in BOOLEAN
    PROVE  MoveHead(f, h, indexed, live) \in Forks
  BY DEF MoveHead, Forks

\* The parent of any block, and of the genesis state.
LEMMA PrevTyped ==
    ASSUME TreeOK, NEW b \in BlockOrGenesis
    PROVE  Prev(b) \in BlockOrGenesis
<1>1. CASE b = Genesis
  BY <1>1, NumTyped DEF Prev
<1>2. CASE b # Genesis
  BY <1>2, NumTyped, PrevOK
<1> QED
  BY <1>1, <1>2

\* The operations of the fork database.
LEMMA ForkTyped ==
    ASSUME TreeOK, NEW f \in Forks
    PROVE  /\ \A b \in BlockOrGenesis : set_head(f, b) \in Forks
           /\ pop_block(f) \in Forks
           /\ \A b : remove(f, b) \in Forks
           /\ \A size : set_max_size(f, size) \in Forks
<1>1. ASSUME NEW b \in BlockOrGenesis
      PROVE  set_head(f, b) \in Forks
  <2> DEFINE i == b \in f.index
             l == b \in f.linked
  <2>1. i \in BOOLEAN /\ l \in BOOLEAN /\ set_head(f, b) = MoveHead(f, b, i, l)
    BY DEF set_head
  <2> HIDE DEF i, l
  <2> QED
    BY <2>1, MoveHeadTyped
<1>2. pop_block(f) \in Forks
  <2>1. f.head \in BlockOrGenesis
    BY DEF Forks
  <2> QED
    BY <1>1, <2>1, PrevTyped DEF pop_block
<1>3. \A b : remove(f, b) \in Forks
  BY EraseTyped DEF remove
<1>4. \A size : set_max_size(f, size) \in Forks
  BY EraseTyped DEF set_max_size
<1> QED
  BY <1>1, <1>2, <1>3, <1>4

\* push_block() before it moves _head.
Indexed(f, b) ==
    LET links == f.head # Genesis /\ Prev(b) # Genesis
    IN  [f EXCEPT !.index = f.index \cup {b},
                  !.linked = IF links /\ b \notin f.index THEN f.linked \cup {b}
                             ELSE f.linked]

\* It adds the block, and the link to its parent if there is one.
LEMMA IndexedTyped ==
    ASSUME NEW f \in Forks, NEW b \in Block
    PROVE  /\ Indexed(f, b) \in Forks
           /\ Indexed(f, b).index = f.index \cup {b}
           /\ Indexed(f, b).head = f.head /\ Indexed(f, b).held = f.held
           /\ Indexed(f, b).headLinked = f.headLinked
           /\ f.linked \subseteq Indexed(f, b).linked
           /\ Indexed(f, b).linked \subseteq f.linked \cup {b}
           /\ b \in Indexed(f, b).linked /\ b \notin f.linked => Prev(b) # Genesis
           /\ f.head # Genesis /\ Prev(b) # Genesis /\ b \notin f.index
                => b \in Indexed(f, b).linked
<1> DEFINE l == IF f.head # Genesis /\ Prev(b) # Genesis /\ b \notin f.index
                THEN f.linked \cup {b} ELSE f.linked
<1>1. l \in SUBSET Block /\ f.index \cup {b} \in SUBSET Block
  BY DEF Forks
<1>2. Indexed(f, b) = [f EXCEPT !.index = f.index \cup {b}, !.linked = l]
  BY DEF Indexed
<1>3. /\ f.linked \subseteq l /\ l \subseteq f.linked \cup {b}
      /\ b \in l /\ b \notin f.linked => Prev(b) # Genesis
      /\ f.head # Genesis /\ Prev(b) # Genesis /\ b \notin f.index => b \in l
  OBVIOUS
<1> HIDE DEF l
<1>4. /\ Indexed(f, b) \in Forks
      /\ Indexed(f, b).index = f.index \cup {b}
      /\ Indexed(f, b).head = f.head /\ Indexed(f, b).held = f.held
      /\ Indexed(f, b).headLinked = f.headLinked
      /\ Indexed(f, b).linked = l
  BY <1>1, <1>2 DEF Forks
<1> QED
  BY <1>3, <1>4

\* push_block() adds the block; it becomes the head if it is higher.
LEMMA PushTyped ==
    ASSUME TreeOK, NEW f \in Forks, NEW b \in Block, NEW size \in Int
    PROVE  /\ push_block(f, b, size) \in Forks
           /\ push_block(f, b, size) =
                LET links == f.head # Genesis /\ Prev(b) # Genesis
                    g == Indexed(f, b)
                IN  IF f.head = Genesis THEN MoveHead(g, b, TRUE, links)
                    ELSE IF Num(b) > Num(f.head)
                    THEN Erase(MoveHead(g, b, b \notin f.index, links),
                               TooOld(g, Num(b) - size))
                    ELSE g
           /\ push_block(f, b, size).head =
                IF f.head = Genesis \/ Num(b) > Num(f.head) THEN b ELSE f.head
<1> DEFINE links == f.head # Genesis /\ Prev(b) # Genesis
           g == Indexed(f, b)
           p == push_block(f, b, size)
<1>1. p = IF f.head = Genesis THEN MoveHead(g, b, TRUE, links)
          ELSE IF Num(b) > Num(f.head)
          THEN Erase(MoveHead(g, b, b \notin f.index, links),
                     TooOld(g, Num(b) - size))
          ELSE g
  BY DEF push_block, Indexed
<1>2. g \in Forks /\ g.head = f.head /\ b \in BlockOrGenesis
  BY IndexedTyped, NumTyped
<1> HIDE DEF g, p
<1>3. ASSUME NEW i \in BOOLEAN, NEW l \in BOOLEAN
      PROVE  MoveHead(g, b, i, l) \in Forks /\ MoveHead(g, b, i, l).head = b
  BY <1>2, MoveHeadTyped DEF MoveHead
<1>4. p \in Forks
  BY <1>1, <1>2, <1>3, EraseTyped
<1>5. p.head = IF f.head = Genesis \/ Num(b) > Num(f.head) THEN b ELSE f.head
  <2>1. CASE f.head = Genesis
    BY <1>1, <1>3, <2>1
  <2>2. CASE f.head # Genesis /\ Num(b) > Num(f.head)
    <3> DEFINE i == b \notin f.index
               x == MoveHead(g, b, i, links)
               old == TooOld(g, Num(b) - size)
    <3>1. p = Erase(x, old) /\ i \in BOOLEAN /\ links \in BOOLEAN
      BY <1>1, <2>2
    <3> HIDE DEF i, links
    <3>2. x \in Forks /\ x.head = b
      BY <1>3, <3>1
    <3> HIDE DEF x, old
    <3> QED
      BY <2>2, <3>1, <3>2, EraseTyped
  <2>3. CASE f.head # Genesis /\ ~(Num(b) > Num(f.head))
    BY <1>1, <1>2, <2>3
  <2> QED
    BY <2>1, <2>2, <2>3
<1> QED
  BY <1>1, <1>4, <1>5 DEF p, g

-----------------------------------------------------------------------------
(***************************************************************************)
(* What the calls do to the node, field by field.                          *)
(***************************************************************************)
\* Two nodes that differ in the undo log and in the result of the call.
Alike(n, r) ==
    /\ r.head = n.head /\ r.max_size = n.max_size /\ r.fork = n.fork
    /\ r.blocks = n.blocks /\ r.tail = n.tail /\ r.lib = n.lib

Sessions == IF Transactions THEN 1 ELSE 0

\* The undo log after start_undo_session().
Kept(n, k) == Least(n.undo, n.max_size - k)

\* A new session costs history only.
LEMMA TrimmedOK ==
    ASSUME NEW n \in Nodes, NEW k \in Int
    PROVE  LET r == Trimmed(n, k)
           IN  /\ r \in Nodes /\ Alike(n, r) /\ r.ok = n.ok
               /\ r.undo = Kept(n, k)
  BY DEF Trimmed, Least, Nodes, Alike, Kept

\* A call that throws changes nothing else.
LEMMA ThrowOK ==
    ASSUME NEW n \in Nodes
    PROVE  LET r == Throw(n)
           IN  r \in Nodes /\ Alike(n, r) /\ r.ok = FALSE /\ r.undo = n.undo
  BY DEF Throw, Nodes, Alike

\* r is the node n with block b applied, stored under the name id, committed.
HasApplied(n, b, id, r) ==
    /\ Prev(b) = n.head /\ b \notin bad
    /\ Num(b) - LastIrreversible(n.head) < MaxUndoHistory
    /\ r.head = b
    /\ r.max_size = Num(b) - LastIrreversible(n.head) + 1
    /\ r.fork = set_max_size(n.fork, r.max_size)
    /\ r.blocks = store(n.blocks, id, b)
    /\ r.tail = [num |-> Num(id), old |-> n.blocks[Num(id)]]
    /\ r.lib = Max({n.lib, LastIrreversible(b)})
    /\ r.undo = Kept(n, Sessions) + 1

\* A block is applied and stored, or it is refused and the node keeps all but
\* the history that the sessions cost.
LEMMA ApplyAndStoreOK ==
    ASSUME TreeOK, NEW n \in Nodes, n.ok, NEW b \in Block, NEW id \in Block
    PROVE  LET r == ApplyAndStore(n, b, id)
           IN  /\ r \in Nodes
               /\ r.ok => HasApplied(n, b, id, r)
               /\ ~r.ok => Alike(n, r) /\ r.undo = Kept(n, Sessions) /\ Rejected(n, b)
<1> DEFINE s == StartBlock(n)
           r == ApplyAndStore(n, b, id)
<1>1. s \in Nodes /\ Alike(n, s) /\ s.ok /\ s.undo = Kept(n, Sessions)
  <2>1. Sessions \in Int /\ s = Trimmed(n, Sessions)
    BY DEF StartBlock, Sessions
  <2> HIDE DEF s
  <2> QED
    BY <2>1, TrimmedOK
<1>2. CASE Rejected(s, b)
  <2>1. r = Throw(s) /\ ~r.ok /\ r \in Nodes /\ Alike(s, r) /\ r.undo = s.undo
    <3>1. ~Throw(s).ok /\ Throw(s) \in Nodes /\ Alike(s, Throw(s)) /\ Throw(s).undo = s.undo
      BY <1>1, ThrowOK
    <3>2. apply_block(s, b) = Throw(s)
      BY <1>2 DEF apply_block
    <3> HIDE DEF s
    <3>3. r = Throw(s)
      BY <3>1, <3>2 DEF ApplyAndStore, s
    <3> HIDE DEF r
    <3> QED
      BY <3>1, <3>3
  <2>2. Rejected(n, b)
    BY <1>1, <1>2 DEF Rejected, Alike
  <2> HIDE DEF s, r
  <2> QED
    BY <1>1, <2>1, <2>2 DEF Alike, r
<1>3. CASE ~Rejected(s, b)
  <2> DEFINE size == Num(b) - LastIrreversible(s.head) + 1
             fork == set_max_size(s.fork, size)
             lib == Max({s.lib, LastIrreversible(b)})
             a1 == [s EXCEPT !.head = b]
             a2 == [a1 EXCEPT !.max_size = size]
             a3 == [a2 EXCEPT !.fork = fork]
             a == [a3 EXCEPT !.lib = lib]
  <2>1. a = apply_block(s, b)
    BY <1>3 DEF apply_block
  <2>2. /\ size \in Int /\ fork \in Forks /\ lib \in Int /\ b \in BlockOrGenesis
        /\ Num(b) \in Block /\ Num(id) \in Block
    <3>1. s.head \in BlockOrGenesis /\ s.fork \in Forks /\ s.lib \in Int
      BY <1>1 DEF Nodes
    <3> HIDE DEF s
    <3>2. b \in BlockOrGenesis /\ Num(b) \in Block /\ Num(id) \in Block
      BY NumTyped
    <3>3. LastIrreversible(s.head) \in Nat /\ LastIrreversible(b) \in Nat /\ Num(b) \in Int
      <4>1. Num(b) \in Int
        BY <3>2 DEF Block
      <4> QED
        BY <3>1, <3>2, <4>1, LastIrreversibleOK
    <3>4. size \in Int
      BY <3>3
    <3>5. lib \in Int
      BY <3>1, <3>3, MaxOfTwo
    <3> HIDE DEF size, lib
    <3> QED
      BY <3>1, <3>2, <3>4, <3>5, ForkTyped
  <2> HIDE DEF s, size, fork, lib
  <2>3. /\ a1 \in Nodes /\ a1.head = b /\ a1.undo = s.undo /\ a1.blocks = s.blocks
        /\ a1.ok = s.ok
    BY <1>1, <2>2 DEF Nodes
  <2> HIDE DEF a1
  <2>4. /\ a2 \in Nodes /\ a2.head = b /\ a2.undo = s.undo /\ a2.blocks = s.blocks
        /\ a2.ok = s.ok /\ a2.max_size = size
    BY <2>2, <2>3 DEF Nodes
  <2> HIDE DEF a2
  <2>5. /\ a3 \in Nodes /\ a3.head = b /\ a3.undo = s.undo /\ a3.blocks = s.blocks
        /\ a3.ok = s.ok /\ a3.max_size = size /\ a3.fork = fork
    BY <2>2, <2>4 DEF Nodes
  <2> HIDE DEF a3
  <2>6. /\ a \in Nodes /\ a.head = b /\ a.undo = s.undo /\ a.blocks = s.blocks
        /\ a.ok = s.ok /\ a.max_size = size /\ a.fork = fork /\ a.lib = lib
    BY <2>2, <2>5 DEF Nodes
  <2> HIDE DEF a
  <2> DEFINE new == store(a.blocks, id, b)
             tail == [num |-> Num(id), old |-> a.blocks[Num(id)]]
             u == a.undo + 1
             r1 == [a EXCEPT !.blocks = new]
             r2 == [r1 EXCEPT !.tail = tail]
             r3 == [r2 EXCEPT !.undo = u]
  <2>7. r = r3
    <3>1. r = [a EXCEPT !.blocks = new, !.tail = tail, !.undo = @ + 1]
      BY <1>1, <2>1, <2>6 DEF ApplyAndStore, s
    <3> QED
      BY <2>6, <3>1 DEF Nodes
  <2>8. new \in [Block -> Entries] /\ tail \in [num : Int, old : Entries] /\ u \in Int
    <3>1. a.blocks \in [Block -> Entries] /\ a.undo \in Int
      BY <2>6 DEF Nodes
    <3>2. [id |-> id, data |-> b] \in Entries
      BY NumTyped DEF Entries
    <3>3. Num(id) \in Int
      BY <2>2 DEF Block
    <3> QED
      BY <2>2, <3>1, <3>2, <3>3 DEF store
  <2> HIDE DEF r, new, tail, u
  <2>9. /\ r1 \in Nodes /\ r1.blocks = new /\ r1.ok = a.ok /\ r1.head = a.head
        /\ r1.max_size = a.max_size /\ r1.fork = a.fork /\ r1.lib = a.lib
    BY <2>6, <2>8 DEF Nodes
  <2> HIDE DEF r1
  <2>10. /\ r2 \in Nodes /\ r2.tail = tail /\ r2.blocks = new /\ r2.ok = a.ok /\ r2.head = a.head
         /\ r2.max_size = a.max_size /\ r2.fork = a.fork /\ r2.lib = a.lib
    BY <2>8, <2>9 DEF Nodes
  <2> HIDE DEF r2
  <2>11. /\ r3 \in Nodes /\ r3.tail = tail /\ r3.blocks = new /\ r3.ok = a.ok /\ r3.head = a.head
         /\ r3.max_size = a.max_size /\ r3.fork = a.fork /\ r3.lib = a.lib
         /\ r3.undo = u
    BY <2>8, <2>10 DEF Nodes
  <2> HIDE DEF r3
  <2>12. /\ Prev(b) = n.head /\ b \notin bad
         /\ Num(b) - LastIrreversible(n.head) < MaxUndoHistory
    <3>1. s.head = n.head
      BY <1>1 DEF Alike
    <3>2. Num(b) \in Int /\ LastIrreversible(n.head) \in Int /\ MaxUndoHistory \in Int
      <4>1. b \in BlockOrGenesis /\ Num(b) \in Block /\ n.head \in BlockOrGenesis
        BY NumTyped DEF Nodes
      <4>2. LastIrreversible(n.head) \in Nat
        BY <4>1, LastIrreversibleOK
      <4>3. Num(b) \in Int /\ MaxUndoHistory \in Int
        BY <4>1, ChainAssumption DEF Block
      <4> QED
        BY <4>2, <4>3
    <3> QED
      BY <1>3, <3>1, <3>2 DEF Rejected
  <2>13. r.ok /\ r \in Nodes /\ HasApplied(n, b, id, r)
    <3>1. r.ok /\ r \in Nodes
      BY <1>1, <2>6, <2>7, <2>11
    <3>2. r.undo = Kept(n, Sessions) + 1
      BY <1>1, <2>6, <2>7, <2>11 DEF u
    <3>3. r.blocks = store(n.blocks, id, b)
      BY <1>1, <2>6, <2>7, <2>11 DEF new, Alike
    <3>4. r.lib = Max({n.lib, LastIrreversible(b)})
      BY <1>1, <2>6, <2>7, <2>11 DEF lib, Alike
    <3>5. r.max_size = Num(b) - LastIrreversible(n.head) + 1 /\ r.max_size = size
      BY <1>1, <2>6, <2>7, <2>11 DEF size, Alike
    <3>6. r.fork = set_max_size(n.fork, r.max_size)
      BY <1>1, <2>6, <2>7, <2>11, <3>5 DEF fork, Alike
    <3>7. r.head = b
      BY <2>6, <2>7, <2>11
    <3>8. r.tail = [num |-> Num(id), old |-> n.blocks[Num(id)]]
      BY <1>1, <2>6, <2>7, <2>11 DEF tail, Alike
    <3> QED
      BY <2>12, <3>8, <3>1, <3>2, <3>3, <3>4, <3>5, <3>6, <3>7 DEF HasApplied
  <2> QED
    BY <2>13 DEF r
<1> HIDE DEF r
<1> QED
  BY <1>2, <1>3 DEF r

\* r is the node n with its head popped.
HasPopped(n, r) ==
    /\ n.head \in Block /\ CanPop(n.fork) /\ n.undo # 0
    /\ r.head = Prev(n.head)
    /\ r.undo = n.undo - 1
    /\ r.fork = pop_block(n.fork)
    /\ r.max_size = n.max_size /\ r.blocks = n.blocks /\ r.tail = n.tail
    /\ r.lib = n.lib

\* The head is popped, or the node keeps its chain.
LEMMA PopBlockOK ==
    ASSUME TreeOK, NEW n \in Nodes, n.ok
    PROVE  LET r == database_pop_block(n)
           IN  /\ r \in Nodes
               /\ r.ok => HasPopped(n, r)
               /\ ~r.ok => /\ r.head = n.head /\ r.max_size = n.max_size
                           /\ r.blocks = n.blocks /\ r.tail = n.tail
                           /\ r.lib = n.lib /\ r.undo = n.undo
<1> DEFINE f == pop_block(n.fork)
           p == [n EXCEPT !.fork = f]
           r == database_pop_block(n)
<1>1. n.fork \in Forks /\ n.head \in BlockOrGenesis /\ n.undo \in Int
  BY DEF Nodes
<1>2. f \in Forks
  BY <1>1, ForkTyped
<1>3. r = IF ~Fetchable(n, n.head) \/ ~CanPop(n.fork) THEN Throw(n)
          ELSE IF n.undo = 0 THEN Throw(p)
          ELSE [p EXCEPT !.head = Prev(n.head), !.undo = @ - 1]
  BY DEF database_pop_block
<1> HIDE DEF f, r
<1>4. /\ p \in Nodes /\ p.head = n.head /\ p.max_size = n.max_size
      /\ p.blocks = n.blocks /\ p.tail = n.tail /\ p.lib = n.lib /\ p.undo = n.undo /\ p.fork = f
      /\ p.ok = n.ok
  BY <1>2 DEF Nodes
<1> HIDE DEF p
<1>5. CASE ~Fetchable(n, n.head) \/ ~CanPop(n.fork)
  <2>1. r = Throw(n)
    BY <1>3, <1>5
  <2>2. r \in Nodes /\ Alike(n, r) /\ r.ok = FALSE /\ r.undo = n.undo
    BY <2>1, ThrowOK
  <2> QED
    BY <2>2 DEF Alike, r
<1>6. CASE Fetchable(n, n.head) /\ CanPop(n.fork) /\ n.undo = 0
  <2>1. r = Throw(p)
    BY <1>3, <1>6
  <2>2. r \in Nodes /\ Alike(p, r) /\ r.ok = FALSE /\ r.undo = p.undo
    BY <1>4, <2>1, ThrowOK
  <2> QED
    BY <1>4, <2>2 DEF Alike, r
<1>7. CASE Fetchable(n, n.head) /\ CanPop(n.fork) /\ n.undo # 0
  <2> DEFINE h == Prev(n.head)
             u == p.undo - 1
             q == [p EXCEPT !.head = h]
             t == [q EXCEPT !.undo = u]
  <2>1. r = t
    BY <1>3, <1>4, <1>7 DEF Nodes
  <2>2. n.head \in Block
    BY <1>1, <1>7, NumTyped DEF Fetchable, Forks
  <2>3. h \in BlockOrGenesis /\ u \in Int /\ u = n.undo - 1
    BY <1>1, <1>4, PrevTyped
  <2> HIDE DEF h, u
  <2>4. /\ q \in Nodes /\ q.head = h /\ q.max_size = p.max_size
        /\ q.blocks = p.blocks /\ q.tail = p.tail /\ q.lib = p.lib /\ q.fork = p.fork
        /\ q.ok = p.ok
    BY <1>4, <2>3 DEF Nodes
  <2> HIDE DEF q
  <2>5. /\ t \in Nodes /\ t.head = h /\ t.max_size = p.max_size
        /\ t.blocks = p.blocks /\ t.tail = p.tail /\ t.lib = p.lib /\ t.fork = p.fork
        /\ t.undo = u /\ t.ok = p.ok
    BY <2>3, <2>4 DEF Nodes
  <2> HIDE DEF t
  <2>6. HasPopped(n, r)
    BY <1>4, <1>7, <2>1, <2>2, <2>3, <2>5 DEF HasPopped, h, f
  <2> QED
    BY <1>4, <2>1, <2>5, <2>6 DEF r
<1> QED
  BY <1>5, <1>6, <1>7

-----------------------------------------------------------------------------
(***************************************************************************)
(* Loops of calls.                                                         *)
(***************************************************************************)
\* A set of nodes that pop_block() does not lead out of.
PopClosed(V) == \A m \in V : Popped(m) \in V

PopLoop(V, n, base, g) ==
    LET k == Num(n.head) - Num(base)
    IN  /\ g \in [0 .. k -> V] /\ g[0] = n
        /\ \A i \in 1 .. k : g[i] = Popped(g[i - 1])
        /\ PopTo(n, base) = g[k]

\* The nodes that the loop of pop_block() goes through.
LEMMA PopToIs ==
    ASSUME NEW V, PopClosed(V), NEW n \in V, NEW base,
           Num(n.head) - Num(base) \in Nat
    PROVE  \E g : PopLoop(V, n, base, g)
<1> DEFINE k == Num(n.head) - Num(base)
           E(v, i) == Popped(v)
           F(f) == [i \in 0 .. k |-> IF i = 0 THEN n ELSE E(f[i - 1], i)]
           step == [i \in 1 .. k |-> [v \in V |-> E(v, i)]]
           S == CHOOSE f : f = F(f)
<1>1. k \in Nat
  OBVIOUS
<1>2. \A i \in 1 .. k : \A v \in V : E(v, i) \in V
  BY DEF PopClosed
<1>3. S = CHOOSE f : f = F(f)
  OBVIOUS
<1>31. PopTo(n, base) = S[k]
  BY DEF PopTo, Repeated
<1> HIDE DEF S, k, E
<1>4. StepFunction(step, k, V)
  BY <1>2 DEF StepFunction
<1>5. \A i \in 1 .. k : \A v \in V : step[i][v] = E(v, i)
  OBVIOUS
<1> HIDE DEF step
<1>6. PICK g : Recursive(g, k, V, n, step)
  BY <1>1, <1>4, RecursionExists
<1>7. g = F(g)
  <2>1. \A i \in 1 .. k : g[i] = E(g[i - 1], i)
    <3> TAKE i \in 1 .. k
    <3>1. g[i] = step[i][g[i - 1]] /\ g[i - 1] \in V
      BY <1>1, <1>6 DEF Recursive
    <3> QED
      BY <1>5, <3>1
  <2>2. g = [i \in 0 .. k |-> g[i]] /\ g[0] = n
    BY <1>6 DEF Recursive
  <2>3. \A i \in 0 .. k : g[i] = IF i = 0 THEN n ELSE E(g[i - 1], i)
    <3> TAKE i \in 0 .. k
    <3>1. CASE i = 0
      BY <2>2, <3>1
    <3>2. CASE i \in 1 .. k
      BY <1>1, <2>1, <3>2
    <3> QED
      BY <1>1, <3>1, <3>2
  <2> QED
    BY <2>2, <2>3
<1>8. S = F(S)
  BY <1>3, <1>7
<1>9. \A i \in 0 .. k : S[i] = IF i = 0 THEN n ELSE E(S[i - 1], i)
  BY <1>8
<1>10. S = [i \in 0 .. k |-> S[i]]
  BY <1>8, <1>9
<1>11. S[0] = n /\ \A i \in 1 .. k : S[i] = E(S[i - 1], i)
  BY <1>1, <1>9
<1>12. Recursive(S, k, V, n, step)
  BY <1>1, <1>4, <1>5, <1>10, <1>11, RecursionTyped
<1>13. S \in [0 .. k -> V]
  BY <1>12 DEF Recursive
<1>14. PopLoop(V, n, base, S)
  BY <1>31, <1>11, <1>13 DEF k, E, PopLoop
<1> QED
  BY <1>14

\* A set of nodes that the blocks of a branch do not lead out of.
ApplyClosed(V, branch, ids) ==
    \A m \in V : \A i \in 1 .. Len(branch) :
        Applied(m, branch[i], ids[i]) \in V

ApplyLoop(V, n, branch, ids, g) ==
    LET k == Len(branch)
    IN  /\ g \in [0 .. k -> V] /\ g[0] = n
        /\ \A i \in 1 .. k : g[i] = Applied(g[i - 1], branch[i], ids[i])
        /\ ApplyBranch(n, branch, ids) = g[k]

\* The nodes that the loop over a branch goes through.
LEMMA ApplyBranchIs ==
    ASSUME NEW V, NEW n \in V, NEW branch, NEW ids, Len(branch) \in Nat,
           ApplyClosed(V, branch, ids)
    PROVE  \E g : ApplyLoop(V, n, branch, ids, g)
<1> DEFINE k == Len(branch)
           E(v, i) == Applied(v, branch[i], ids[i])
           F(f) == [i \in 0 .. k |-> IF i = 0 THEN n ELSE E(f[i - 1], i)]
           step == [i \in 1 .. k |-> [v \in V |-> E(v, i)]]
           S == CHOOSE f : f = F(f)
<1>1. k \in Nat
  OBVIOUS
<1>2. \A i \in 1 .. k : \A v \in V : E(v, i) \in V
  BY DEF ApplyClosed
<1>3. S = CHOOSE f : f = F(f)
  OBVIOUS
<1>31. ApplyBranch(n, branch, ids) = S[k]
  BY DEF ApplyBranch, Repeated
<1> HIDE DEF S, k, E
<1>4. StepFunction(step, k, V)
  BY <1>2 DEF StepFunction
<1>5. \A i \in 1 .. k : \A v \in V : step[i][v] = E(v, i)
  OBVIOUS
<1> HIDE DEF step
<1>6. PICK g : Recursive(g, k, V, n, step)
  BY <1>1, <1>4, RecursionExists
<1>7. g = F(g)
  <2>1. \A i \in 1 .. k : g[i] = E(g[i - 1], i)
    <3> TAKE i \in 1 .. k
    <3>1. g[i] = step[i][g[i - 1]] /\ g[i - 1] \in V
      BY <1>1, <1>6 DEF Recursive
    <3> QED
      BY <1>5, <3>1
  <2>2. g = [i \in 0 .. k |-> g[i]] /\ g[0] = n
    BY <1>6 DEF Recursive
  <2>3. \A i \in 0 .. k : g[i] = IF i = 0 THEN n ELSE E(g[i - 1], i)
    <3> TAKE i \in 0 .. k
    <3>1. CASE i = 0
      BY <2>2, <3>1
    <3>2. CASE i \in 1 .. k
      BY <1>1, <2>1, <3>2
    <3> QED
      BY <1>1, <3>1, <3>2
  <2> QED
    BY <2>2, <2>3
<1>8. S = F(S)
  BY <1>3, <1>7
<1>9. \A i \in 0 .. k : S[i] = IF i = 0 THEN n ELSE E(S[i - 1], i)
  BY <1>8
<1>10. S = [i \in 0 .. k |-> S[i]]
  BY <1>8, <1>9
<1>11. S[0] = n /\ \A i \in 1 .. k : S[i] = E(S[i - 1], i)
  BY <1>1, <1>9
<1>12. Recursive(S, k, V, n, step)
  BY <1>1, <1>4, <1>5, <1>10, <1>11, RecursionTyped
<1>13. S \in [0 .. k -> V]
  BY <1>12 DEF Recursive
<1>14. ApplyLoop(V, n, branch, ids, S)
  BY <1>31, <1>11, <1>13 DEF k, E, ApplyLoop
<1> QED
  BY <1>14

\* Where the loop of pop_block() ends.
LEMMA PopToOK ==
    ASSUME TreeOK, NEW V \in SUBSET Nodes, PopClosed(V),
           NEW n \in V, NEW base \in BlockOrGenesis, Num(base) <= Num(n.head)
    PROVE  LET p == PopTo(n, base)
           IN  p \in V /\ (p.ok => Num(p.head) = Num(base))
<1> DEFINE k == Num(n.head) - Num(base)
<1>1. Num(n.head) \in Nat /\ Num(base) \in Nat /\ k \in Nat
  BY NumTyped DEF Nodes, BlockOrGenesis
<1>21. PICK g : PopLoop(V, n, base, g)
  BY <1>1, PopToIs
<1>2. /\ g \in [0 .. k -> V] /\ g[0] = n
      /\ \A i \in 1 .. k : g[i] = Popped(g[i - 1])
      /\ PopTo(n, base) = g[k]
  BY <1>21 DEF PopLoop
<1> HIDE DEF k
<1> DEFINE T == { i \in 0 .. k : g[i].ok => Num(g[i].head) = Num(n.head) - i }
<1>3. 0 \in T
  BY <1>1, <1>2
<1>4. ASSUME NEW i \in 1 .. k, i - 1 \in T
      PROVE  i \in T
  <2> DEFINE m == g[i - 1]
             r == g[i]
  <2>1. i \in 0 .. k /\ i - 1 \in 0 .. k /\ m \in Nodes /\ r = Popped(m)
    BY <1>1, <1>2
  <2>2. ASSUME m.ok, r.ok
        PROVE  Num(r.head) = Num(n.head) - i
    <3>1. r = database_pop_block(m)
      BY <2>1, <2>2 DEF Popped
    <3> HIDE DEF m, r
    <3>2. HasPopped(m, r)
      BY <2>1, <2>2, <3>1, PopBlockOK
    <3>3. m.head \in Block /\ r.head = Prev(m.head)
      BY <3>2 DEF HasPopped
    <3>4. Num(r.head) = Num(m.head) - 1
      BY <3>3, PrevOK
    <3>5. Num(m.head) = Num(n.head) - (i - 1)
      BY <1>4, <2>2 DEF m
    <3> QED
      BY <1>1, <3>4, <3>5
  <2>3. r.ok => m.ok
    BY <2>1 DEF Popped
  <2> QED
    BY <2>1, <2>2, <2>3
<1>5. 0 .. k \subseteq T
  <2> HIDE DEF T
  <2> QED
    BY <1>1, <1>3, <1>4, IntervalInduction
<1>6. k \in 0 .. k
  BY <1>1
<1>7. k \in T /\ g[k] \in V
  BY <1>2, <1>5, <1>6
<1> QED
  BY <1>1, <1>2, <1>7 DEF k

\* Where the loop over a branch ends: the head is the last block of the
\* branch, if no block was refused.
LEMMA ApplyBranchOK ==
    ASSUME TreeOK, NEW V \in SUBSET Nodes, NEW n \in V,
           NEW branch \in Seq(Block), NEW ids,
           \A i \in 1 .. Len(branch) : ids[i] \in Block,
           ApplyClosed(V, branch, ids)
    PROVE  LET a == ApplyBranch(n, branch, ids)
           IN  /\ a \in V
               /\ a.ok => n.ok
               /\ a.ok /\ branch # <<>> => a.head = branch[Len(branch)]
<1> DEFINE k == Len(branch)
<1>1. k \in Nat
  OBVIOUS
<1>21. PICK g : ApplyLoop(V, n, branch, ids, g)
  BY <1>1, ApplyBranchIs
<1>2. /\ g \in [0 .. k -> V] /\ g[0] = n
      /\ \A i \in 1 .. k : g[i] = Applied(g[i - 1], branch[i], ids[i])
      /\ ApplyBranch(n, branch, ids) = g[k]
  BY <1>21 DEF ApplyLoop
<1>3. branch # <<>> => k \in 1 .. k
  BY <1>1
<1> HIDE DEF k
<1>4. g[k] \in V
  BY <1>1, <1>2
<1>5. ASSUME branch # <<>>, g[k].ok
      PROVE  g[k].head = branch[k]
  <2> DEFINE m == g[k - 1]
             r == g[k]
  <2>1. k \in 1 .. k /\ k - 1 \in 0 .. k
    BY <1>1, <1>3, <1>5
  <2>2. m \in Nodes /\ r = Applied(m, branch[k], ids[k])
    BY <1>2, <2>1
  <2>3. branch[k] \in Block /\ ids[k] \in Block
    BY <2>1 DEF k
  <2> HIDE DEF m, r
  <2>4. m.ok /\ r = ApplyAndStore(m, branch[k], ids[k])
    BY <1>5, <2>2 DEF Applied, r
  <2>5. HasApplied(m, branch[k], ids[k], r)
    BY <1>5, <2>2, <2>3, <2>4, ApplyAndStoreOK DEF r
  <2> QED
    BY <2>5 DEF HasApplied, r
<1> DEFINE T == { i \in 0 .. k : g[i].ok => n.ok }
<1>6. 0 \in T
  BY <1>1, <1>2
<1>7. ASSUME NEW i \in 1 .. k, i - 1 \in T
      PROVE  i \in T
  <2>1. i \in 0 .. k /\ i - 1 \in 0 .. k
    BY <1>1
  <2>2. g[i].ok => g[i - 1].ok
    BY <1>2 DEF Applied
  <2> QED
    BY <1>7, <2>1, <2>2
<1>8. 0 .. k \subseteq T
  <2> HIDE DEF T
  <2> QED
    BY <1>1, <1>6, <1>7, IntervalInduction
<1>9. g[k].ok => n.ok
  BY <1>1, <1>8
<1> QED
  BY <1>2, <1>4, <1>5, <1>9 DEF k

-----------------------------------------------------------------------------
(***************************************************************************)
(* How far the undo log reaches back.                                      *)
(***************************************************************************)
\* The undo log reaches back to the highest block that was irreversible, and
\* its limit is such that trimming it does not change this.
History(n, l) ==
    /\ Num(n.head) - n.undo <= n.lib + Sessions
    /\ Num(n.head) - n.max_size <= n.lib - 1
    /\ LastIrreversible(n.head) <= n.lib
    /\ n.max_size >= 1
    /\ l <= n.lib

WithHistory(l) == { n \in Nodes : History(n, l) }

\* The numbers in a node.
LEMMA NodeNumbers ==
    ASSUME TreeOK, NEW n \in Nodes
    PROVE  /\ n.head \in BlockOrGenesis /\ Num(n.head) \in Nat
           /\ n.undo \in Int /\ n.max_size \in Int /\ n.lib \in Int
           /\ LastIrreversible(n.head) \in Nat
           /\ LastIrreversible(n.head) <= Num(n.head)
           /\ Sessions \in 0 .. 1
<1>1. n.head \in BlockOrGenesis /\ n.undo \in Int /\ n.max_size \in Int /\ n.lib \in Int
  BY DEF Nodes
<1>2. Num(n.head) \in Nat
  BY <1>1, NumTyped DEF BlockOrGenesis
<1>3. Sessions \in 0 .. 1
  BY DEF Sessions
<1> QED
  BY <1>1, <1>2, <1>3, LastIrreversibleOK

\* A node with the same head and the same numbers.
LEMMA SameHistory ==
    ASSUME NEW l, NEW n \in WithHistory(l), NEW r \in Nodes,
           r.head = n.head, r.undo = n.undo, r.max_size = n.max_size,
           r.lib = n.lib
    PROVE  r \in WithHistory(l)
  BY DEF WithHistory, History

\* New sessions, not more than those of a client's transaction.
LEMMA HistoryTrimmed ==
    ASSUME TreeOK, NEW l \in Int, NEW n \in WithHistory(l), NEW r \in Nodes,
           Alike(n, r), NEW k \in Int, k <= Sessions + 1, r.undo = Kept(n, k)
    PROVE  r \in WithHistory(l)
<1>1. n \in Nodes /\ History(n, l)
  BY DEF WithHistory
<1>2. /\ Num(n.head) \in Nat /\ n.undo \in Int /\ n.max_size \in Int
      /\ n.lib \in Int /\ Sessions \in Int
  BY <1>1, NodeNumbers
<1>3. r.undo = n.undo \/ r.undo = n.max_size - k
  BY DEF Kept, Least
<1>4. Num(n.head) - r.undo <= n.lib + Sessions
  BY <1>1, <1>2, <1>3 DEF History
<1> QED
  BY <1>1, <1>4 DEF WithHistory, History, Alike

\* pop_block() gives up a block and the state before it.
LEMMA HistoryPopped ==
    ASSUME TreeOK, NEW l \in Int
    PROVE  PopClosed(WithHistory(l))
<1> SUFFICES ASSUME NEW n \in WithHistory(l)
             PROVE  Popped(n) \in WithHistory(l)
  BY DEF PopClosed
<1>1. n \in Nodes /\ History(n, l)
  BY DEF WithHistory
<1>2. CASE ~n.ok
  BY <1>2 DEF Popped
<1>3. CASE n.ok
  <2> DEFINE r == database_pop_block(n)
  <2>1. Popped(n) = r
    BY <1>3 DEF Popped
  <2>2. /\ r \in Nodes
        /\ r.ok => HasPopped(n, r)
        /\ ~r.ok => /\ r.head = n.head /\ r.max_size = n.max_size
                    /\ r.lib = n.lib /\ r.undo = n.undo
    BY <1>1, <1>3, PopBlockOK
  <2> HIDE DEF r
  <2>3. CASE ~r.ok
    BY <2>1, <2>2, <2>3, SameHistory
  <2>4. CASE r.ok
    <3>1. /\ n.head \in Block /\ r.head = Prev(n.head) /\ r.undo = n.undo - 1
          /\ r.max_size = n.max_size /\ r.lib = n.lib
      BY <2>2, <2>4 DEF HasPopped
    <3>2. n.head \in BlockOrGenesis /\ n.head # Genesis
      BY <3>1, NumTyped
    <3>3. Num(r.head) = Num(n.head) - 1
      BY <3>1, PrevOK
    <3>4. LastIrreversible(r.head) <= LastIrreversible(n.head)
      BY <3>1, <3>2, LastIrreversibleOK
    <3>5. /\ Num(n.head) \in Nat /\ n.undo \in Int /\ n.max_size \in Int
          /\ n.lib \in Int /\ Sessions \in Int /\ LastIrreversible(n.head) \in Nat
      BY <1>1, NodeNumbers
    <3>6. LastIrreversible(r.head) \in Nat
      BY <2>2, NodeNumbers
    <3>7. /\ Num(n.head) - n.undo <= n.lib + Sessions
          /\ Num(n.head) - n.max_size <= n.lib - 1
          /\ LastIrreversible(n.head) <= n.lib
          /\ n.max_size >= 1 /\ l <= n.lib
      BY <1>1 DEF History
    <3>8. /\ Num(r.head) - r.undo <= r.lib + Sessions
          /\ Num(r.head) - r.max_size <= r.lib - 1
          /\ LastIrreversible(r.head) <= r.lib
      BY <3>1, <3>3, <3>4, <3>5, <3>6, <3>7
    <3> QED
      BY <2>1, <2>2, <3>1, <3>7, <3>8 DEF WithHistory, History
  <2> QED
    BY <2>3, <2>4
<1> QED
  BY <1>2, <1>3

\* What the numbers are after a block was applied.
LEMMA AppliedNumbers ==
    ASSUME TreeOK, NEW n \in Nodes, NEW r \in Nodes, NEW b \in Block, NEW id,
           HasApplied(n, b, id, r)
    PROVE  /\ Num(b) = Num(n.head) + 1
           /\ Num(b) - r.max_size = LastIrreversible(n.head) - 1
           /\ r.max_size >= 2
           /\ n.lib <= r.lib /\ LastIrreversible(b) <= r.lib
           /\ LastIrreversible(n.head) <= LastIrreversible(b)
<1>1. /\ Num(n.head) \in Nat /\ n.lib \in Int /\ LastIrreversible(n.head) \in Nat
      /\ LastIrreversible(n.head) <= Num(n.head)
  BY NodeNumbers
<1>2. b \in BlockOrGenesis /\ b # Genesis
  BY NumTyped
<1>3. /\ Prev(b) = n.head /\ r.max_size = Num(b) - LastIrreversible(n.head) + 1
      /\ r.lib = Max({n.lib, LastIrreversible(b)})
  BY DEF HasApplied
<1>4. Num(n.head) = Num(b) - 1 /\ Num(b) \in Nat
  <2>1. Num(b) \in Nat
    BY <1>2, NumTyped DEF BlockOrGenesis
  <2> QED
    BY <1>3, <2>1, PrevOK
<1>5. LastIrreversible(n.head) <= LastIrreversible(b) /\ LastIrreversible(b) \in Nat
  BY <1>2, <1>3, LastIrreversibleOK
<1>6. n.lib <= r.lib /\ LastIrreversible(b) <= r.lib
  <2>1. r.lib = IF n.lib <= LastIrreversible(b) THEN LastIrreversible(b) ELSE n.lib
    BY <1>1, <1>3, <1>5, MaxOfTwo
  <2> QED
    BY <1>1, <1>5, <2>1
<1> QED
  BY <1>1, <1>3, <1>4, <1>5, <1>6

\* A block is applied, in a session of its own.
LEMMA HistoryApplied ==
    ASSUME TreeOK, NEW l \in Int, NEW n \in WithHistory(l),
           NEW b \in Block, NEW id \in Block
    PROVE  /\ Applied(n, b, id) \in WithHistory(l)
           /\ n.ok => ApplyAndStore(n, b, id) \in WithHistory(l)
<1>1. n \in Nodes /\ History(n, l)
  BY DEF WithHistory
<1>2. CASE ~n.ok
  BY <1>2 DEF Applied
<1>3. CASE n.ok
  <2> DEFINE r == ApplyAndStore(n, b, id)
  <2>1. Applied(n, b, id) = r
    BY <1>3 DEF Applied
  <2>2. /\ r \in Nodes
        /\ r.ok => HasApplied(n, b, id, r)
        /\ ~r.ok => Alike(n, r) /\ r.undo = Kept(n, Sessions)
    BY <1>1, <1>3, ApplyAndStoreOK
  <2>3. Sessions \in Int /\ Sessions <= Sessions + 1
    BY DEF Sessions
  <2> HIDE DEF r
  <2>4. CASE ~r.ok
    <3>1. r \in WithHistory(l)
      BY <2>2, <2>3, <2>4, HistoryTrimmed
    <3> QED
      BY <2>1, <3>1 DEF r
  <2>5. CASE r.ok
    <3>1. HasApplied(n, b, id, r)
      BY <2>2, <2>5
    <3>2. /\ Num(b) = Num(n.head) + 1
          /\ Num(b) - r.max_size = LastIrreversible(n.head) - 1
          /\ r.max_size >= 2
          /\ n.lib <= r.lib /\ LastIrreversible(b) <= r.lib
          /\ LastIrreversible(n.head) <= LastIrreversible(b)
      BY <1>1, <2>2, <3>1, AppliedNumbers
    <3>3. r.head = b /\ r.undo = Kept(n, Sessions) + 1
      BY <3>1 DEF HasApplied
    <3>4. /\ Num(n.head) \in Nat /\ n.undo \in Int /\ n.max_size \in Int
          /\ n.lib \in Int /\ Sessions \in Int /\ LastIrreversible(n.head) \in Nat
      BY <1>1, NodeNumbers
    <3>5. r.lib \in Int /\ r.max_size \in Int /\ LastIrreversible(r.head) \in Nat
      BY <2>2, NodeNumbers
    <3>6. /\ Num(n.head) - n.undo <= n.lib + Sessions
          /\ Num(n.head) - n.max_size <= n.lib - 1
          /\ LastIrreversible(n.head) <= n.lib /\ l <= n.lib
      BY <1>1 DEF History
    <3>7. Kept(n, Sessions) = n.undo \/ Kept(n, Sessions) = n.max_size - Sessions
      BY DEF Kept, Least
    <3>8. Num(r.head) - r.undo <= r.lib + Sessions
      BY <3>2, <3>3, <3>4, <3>5, <3>6, <3>7
    <3>9. /\ Num(r.head) - r.max_size <= r.lib - 1
          /\ LastIrreversible(r.head) <= r.lib
          /\ r.max_size >= 1 /\ l <= r.lib
      BY <3>2, <3>3, <3>4, <3>5, <3>6
    <3>10. r \in WithHistory(l)
      BY <2>2, <3>8, <3>9 DEF WithHistory, History
    <3> QED
      BY <2>1, <3>10 DEF r
  <2> QED
    BY <2>4, <2>5
<1> QED
  BY <1>2, <1>3


-----------------------------------------------------------------------------
(***************************************************************************)
(* Sets of nodes that no call leads out of.                                *)
(***************************************************************************)
SameNumbers(n, r) ==
    /\ r.head = n.head /\ r.undo = n.undo /\ r.max_size = n.max_size
    /\ r.lib = n.lib

\* What is in such a set depends on the numbers of a node, and blocks that are
\* popped or applied, and sessions that are started, do not lead out of it.
Closed(V) ==
    /\ V \in SUBSET Nodes
    /\ PopClosed(V)
    /\ \A n \in V : \A b, id \in Block : n.ok => ApplyAndStore(n, b, id) \in V
    /\ \A n \in V : \A k \in 0 .. Sessions + 1 : Trimmed(n, k) \in V
    /\ \A n \in V : \A r \in Nodes : SameNumbers(n, r) => r \in V

\* The nodes that reach back to the highest irreversible block are such a set.
LEMMA HistoryClosed ==
    ASSUME TreeOK, NEW l \in Int
    PROVE  Closed(WithHistory(l))
<1> DEFINE V == WithHistory(l)
<1>1. V \in SUBSET Nodes
  BY DEF WithHistory
<1>2. \A n \in V : \A b, id \in Block : n.ok => ApplyAndStore(n, b, id) \in V
  BY HistoryApplied
<1>3. ASSUME NEW n \in V, NEW k \in 0 .. Sessions + 1
      PROVE  Trimmed(n, k) \in V
  <2> DEFINE r == Trimmed(n, k)
  <2>1. k \in Int /\ k <= Sessions + 1
    BY DEF Sessions
  <2>2. r \in Nodes /\ Alike(n, r) /\ r.undo = Kept(n, k)
    BY <1>1, <2>1, TrimmedOK
  <2> HIDE DEF r
  <2>3. r \in V
    BY <2>1, <2>2, HistoryTrimmed
  <2> QED
    BY <2>3 DEF r
<1>4. \A n \in V : \A r \in Nodes : SameNumbers(n, r) => r \in V
  BY SameHistory DEF SameNumbers
<1>5. PopClosed(V)
  BY HistoryPopped
<1> HIDE DEF V
<1>6. Closed(V)
  BY <1>1, <1>2, <1>3, <1>4, <1>5 DEF Closed
<1> QED
  BY <1>6 DEF V

\* A node that differs in the fork database, the blocks or the result.
LEMMA SameIn ==
    ASSUME NEW V, Closed(V), NEW n \in V, NEW r \in Nodes,
           r.head = n.head, r.undo = n.undo, r.max_size = n.max_size,
           r.lib = n.lib
    PROVE  r \in V
  BY DEF Closed, SameNumbers

\* A block is applied, or refused.
LEMMA AppliedIn ==
    ASSUME NEW V, Closed(V), NEW n \in V, NEW b \in Block, NEW id \in Block
    PROVE  /\ Applied(n, b, id) \in V
           /\ n.ok => ApplyAndStore(n, b, id) \in V
  BY DEF Closed, Applied

\* Sessions are started, not more than those of a client's transaction.
LEMMA TrimmedIn ==
    ASSUME NEW V, Closed(V), NEW n \in V, NEW k \in Int, 0 <= k, k <= Sessions + 1
    PROVE  Trimmed(n, k) \in V
<1>1. k \in 0 .. Sessions + 1
  BY DEF Sessions
<1> QED
  BY <1>1 DEF Closed
-----------------------------------------------------------------------------
(***************************************************************************)
(* Branches.                                                               *)
(***************************************************************************)
\* Two branches meet on the lower one.
LEMMA MeetOK ==
    ASSUME TreeOK, NEW x, NEW y \in Block
    PROVE  Meet(x, y) \in 1 .. Num(y)
<1> DEFINE S == { i \in 1 .. Num(y) : i = 1 \/ path[x][i - 1] = path[y][i - 1] }
<1>1. Num(y) \in Nat \ {0}
  BY OnPath
<1>2. S \in SUBSET (0 .. Num(y)) /\ S # {} /\ S \subseteq 1 .. Num(y)
  <2>1. 1 \in S
    BY <1>1
  <2> QED
    BY <1>1, <2>1
<1>3. Meet(x, y) = Max(S)
  BY DEF Meet
<1> HIDE DEF S
<1>4. \E m \in S : \A i \in S : m >= i
  BY <1>1, <1>2, Extremes
<1>5. Max(S) \in S
  BY <1>4 DEF Max
<1> QED
  BY <1>2, <1>3, <1>5

\* The branch of a block from its i-th block on, and the block it starts from.
LEMMA BranchOK ==
    ASSUME TreeOK, NEW x \in Block, NEW i \in 1 .. Num(x)
    PROVE  /\ Branch(x, i) \in Seq(Block) /\ Branch(x, i) # <<>>
           /\ Len(Branch(x, i)) = Num(x) - i + 1
           /\ Branch(x, i)[Len(Branch(x, i))] = x
           /\ Prev(path[x][i]) \in BlockOrGenesis
           /\ Num(Prev(path[x][i])) = i - 1
<1>1. /\ path[x] \in Seq(Block) /\ Num(x) \in Nat \ {0} /\ path[x][Num(x)] = x
      /\ path[x][i] \in Block /\ Num(path[x][i]) = i
  BY OnPath
<1>2. Len(path[x]) = Num(x)
  BY DEF Num
<1> DEFINE s == SubSeq(path[x], i, Num(x))
<1>3. s \in Seq(Block) /\ Len(s) = Num(x) - i + 1
  BY <1>1, <1>2
<1>4. s[Len(s)] = path[x][Num(x)] /\ s # <<>>
  <2>1. \A j \in 1 .. Len(s) : s[j] = path[x][i + j - 1]
    BY <1>1, <1>2, <1>3
  <2> HIDE DEF s
  <2>2. Len(s) \in 1 .. Len(s) /\ i + Len(s) - 1 = Num(x)
    BY <1>1, <1>3
  <2>3. s # <<>>
    BY <2>2
  <2> QED
    BY <2>1, <2>2, <2>3
<1>5. Prev(path[x][i]) \in BlockOrGenesis /\ Num(Prev(path[x][i])) = i - 1
  BY <1>1, PrevOK
<1> QED
  BY <1>1, <1>3, <1>4, <1>5 DEF Branch

\* The old fork is restored after the new one has failed.
LEMMA RestoredIn ==
    ASSUME TreeOK, NEW V, Closed(V), NEW a \in V, NEW new_block \in Block,
           NEW new_head \in Block, NEW old_head \in Block,
           NEW from \in 1 .. Num(old_head), from - 1 <= Num(a.head)
    PROVE  LET r == RestoreGoodFork(a, new_block, new_head, old_head, from)
           IN  r \in V /\ ~r.ok
<1> DEFINE base == Prev(path[old_head][from])
           rest == { path[new_head][i] : i \in Num(a.head) + 1 .. Num(new_head) }
           f == set_head(Erase(a.fork, rest \cap a.fork.index), old_head)
           x == [a EXCEPT !.fork = f, !.ok = TRUE]
           r == PopTo(x, base)
           branch == Branch(old_head, from)
           ids == [i \in 1 .. Num(old_head) |-> new_block]
           z == ApplyBranch(r, branch, ids)
<1>1. RestoreGoodFork(a, new_block, new_head, old_head, from) =
          IF ~r.ok THEN r ELSE Throw(z)
  BY DEF RestoreGoodFork
<1>2. V \in SUBSET Nodes /\ a \in Nodes
  BY DEF Closed
<1>3. a.fork \in Forks /\ old_head \in BlockOrGenesis
  BY <1>2, NumTyped DEF Nodes
<1>4. f \in Forks
  <2> DEFINE e == Erase(a.fork, rest \cap a.fork.index)
  <2>1. e \in Forks
    BY <1>3, EraseTyped
  <2> HIDE DEF e
  <2>2. set_head(e, old_head) \in Forks
    BY <1>3, <2>1, ForkTyped
  <2> QED
    BY <2>2 DEF e
<1> HIDE DEF f
<1>5. /\ x \in Nodes /\ x.head = a.head /\ x.undo = a.undo
      /\ x.max_size = a.max_size /\ x.lib = a.lib
  BY <1>2, <1>4 DEF Nodes
<1> HIDE DEF x
<1>6. x \in V
  BY <1>5, SameIn
<1>7. /\ branch \in Seq(Block) /\ Len(branch) = Num(old_head) - from + 1
      /\ base \in BlockOrGenesis /\ Num(base) = from - 1
  BY BranchOK
<1>8. PopClosed(V)
  BY DEF Closed
<1> HIDE DEF base, branch
<1>9. Num(base) <= Num(x.head)
  BY <1>5, <1>7
<1>10. r \in V
  <2> QED
    BY <1>2, <1>6, <1>7, <1>8, <1>9, PopToOK
<1> HIDE DEF r
<1>11. Num(old_head) \in Nat
  BY OnPath
<1>12. \A i \in 1 .. Len(branch) : ids[i] \in Block /\ branch[i] \in Block
  BY <1>7, <1>11
<1> HIDE DEF ids
<1>13. ApplyClosed(V, branch, ids)
  BY <1>12, AppliedIn DEF ApplyClosed
<1>14. z \in V
  <2> QED
    BY <1>2, <1>7, <1>10, <1>12, <1>13, ApplyBranchOK
<1> HIDE DEF z
<1>15. Throw(z) \in V /\ ~Throw(z).ok
  <2>1. z \in Nodes
    BY <1>2, <1>14
  <2>2. /\ Throw(z) \in Nodes /\ Alike(z, Throw(z)) /\ Throw(z).undo = z.undo
        /\ ~Throw(z).ok
    BY <2>1, ThrowOK
  <2> QED
    BY <1>14, <2>2, SameIn DEF Alike
<1> QED
  BY <1>1, <1>10, <1>15

\* r is the node n with some blocks popped and a branch up to new_head applied.
SwitchedTo(n, new_head, r) ==
    n.head \in Block /\ \E base \in BlockOrGenesis, branch \in Seq(Block) :
        /\ Num(base) <= Num(n.head)
        /\ branch # <<>> /\ branch[Len(branch)] = new_head
        /\ r = ApplyBranch(PopTo(n, base), branch, branch)

\* A change of forks, whether it succeeds or fails.
LEMMA SwitchedIn ==
    ASSUME TreeOK, NEW V, Closed(V), NEW n \in V, n.ok,
           NEW new_block \in Block, NEW new_head \in Block,
           Num(new_head) > Num(n.head)
    PROVE  LET r == SwitchForks(n, new_block, new_head)
           IN  /\ r \in V
               /\ r.ok => SwitchedTo(n, new_head, r)
<1> DEFINE from == Meet(new_head, n.head)
           base == Prev(path[n.head][from])
           p == PopTo(n, base)
           branch == Branch(new_head, from)
           a == ApplyBranch(p, branch, branch)
<1>1. SwitchForks(n, new_block, new_head) =
          IF ~CanFetchBranch(n.fork, new_head, n.head) THEN Throw(n)
          ELSE IF ~p.ok \/ a.ok THEN a
          ELSE RestoreGoodFork(a, new_block, new_head, n.head, from)
  BY DEF SwitchForks
<1>2. V \in SUBSET Nodes /\ n \in Nodes /\ n \in V
  BY DEF Closed
<1>3. CASE ~CanFetchBranch(n.fork, new_head, n.head)
  <2>1. /\ Throw(n) \in Nodes /\ Alike(n, Throw(n)) /\ Throw(n).undo = n.undo
        /\ ~Throw(n).ok
    BY <1>2, ThrowOK
  <2>2. Throw(n) \in V
    BY <2>1, SameIn DEF Alike
  <2> QED
    BY <1>1, <1>3, <2>1, <2>2
<1>4. CASE CanFetchBranch(n.fork, new_head, n.head)
  <2>1. n.head \in Block
    BY <1>2, <1>4 DEF CanFetchBranch, Nodes, Forks
  <2>2. from \in 1 .. Num(n.head) /\ Num(n.head) \in Nat /\ Num(new_head) \in Nat
    BY <2>1, MeetOK, OnPath
  <2>3. from \in 1 .. Num(new_head)
    BY <2>2
  <2> HIDE DEF from
  <2>4. base \in BlockOrGenesis /\ Num(base) = from - 1
    BY <2>1, <2>2, BranchOK
  <2>5. branch \in Seq(Block) /\ branch # <<>> /\ branch[Len(branch)] = new_head
    BY <2>3, BranchOK
  <2> HIDE DEF base, branch
  <2>6. Num(base) <= Num(n.head)
    BY <2>2, <2>4
  <2>7. PopClosed(V)
    BY DEF Closed
  <2>8. p \in V /\ (p.ok => Num(p.head) = Num(base))
    <3> QED
      BY <1>2, <2>4, <2>6, <2>7, PopToOK
  <2>81. SwitchedTo(n, new_head, a)
    BY <2>1, <2>4, <2>5, <2>6 DEF SwitchedTo
  <2> HIDE DEF p
  <2>9. \A i \in 1 .. Len(branch) : branch[i] \in Block
    BY <2>5
  <2>10. a \in V
    <3>1. ApplyClosed(V, branch, branch)
      BY <2>9, AppliedIn DEF ApplyClosed
    <3> QED
      BY <1>2, <2>5, <2>8, <2>9, <3>1, ApplyBranchOK
  <2>11. ASSUME p.ok
         PROVE  from - 1 <= Num(a.head)
    <3> DEFINE W == { m \in V : from - 1 <= Num(m.head) }
    <3>1. p \in W /\ W \in SUBSET Nodes
      <4>1. Num(p.head) \in Int /\ from - 1 \in Int
        BY <1>2, <2>2, <2>8, NodeNumbers
      <4> QED
        BY <1>2, <2>4, <2>8, <2>11, <4>1
    <3>2. ASSUME NEW m \in W, NEW b \in Block
          PROVE  Applied(m, b, b) \in W
      <4> DEFINE r == ApplyAndStore(m, b, b)
      <4>1. Applied(m, b, b) \in V /\ m \in Nodes
        BY <1>2, AppliedIn
      <4>2. CASE ~m.ok
        BY <4>2 DEF Applied
      <4>3. CASE m.ok
        <5>1. Applied(m, b, b) = r
          BY <4>3 DEF Applied
        <5>2. r \in Nodes /\ (r.ok => HasApplied(m, b, b, r)) /\ (~r.ok => Alike(m, r))
          BY <4>1, <4>3, ApplyAndStoreOK
        <5> HIDE DEF r
        <5>3. Num(r.head) = Num(m.head) \/ Num(r.head) = Num(m.head) + 1
          <6>1. CASE r.ok
            BY <4>1, <5>2, <6>1, AppliedNumbers DEF HasApplied
          <6>2. CASE ~r.ok
            BY <5>2, <6>2 DEF Alike
          <6> QED
            BY <6>1, <6>2
        <5>4. Num(m.head) \in Nat /\ from - 1 <= Num(m.head) /\ from \in Int
          BY <2>2, <4>1, NodeNumbers
        <5> QED
          BY <4>1, <5>1, <5>3, <5>4
      <4> QED
        BY <4>2, <4>3
    <3>3. ApplyClosed(W, branch, branch)
      BY <2>9, <3>2 DEF ApplyClosed
    <3> HIDE DEF W
    <3>4. a \in W
      BY <2>5, <2>9, <3>1, <3>3, ApplyBranchOK
    <3> QED
      BY <3>4 DEF W
  <2> HIDE DEF a
  <2>12. CASE ~p.ok \/ a.ok
    BY <1>1, <1>4, <2>81, <2>10, <2>12
  <2>13. CASE p.ok /\ ~a.ok
    <3> DEFINE g == RestoreGoodFork(a, new_block, new_head, n.head, from)
    <3>1. g \in V /\ ~g.ok
      BY <2>1, <2>2, <2>10, <2>11, <2>13, RestoredIn
    <3> HIDE DEF g
    <3>2. SwitchForks(n, new_block, new_head) = g
      BY <1>1, <1>4, <2>13 DEF g
    <3> QED
      BY <3>1, <3>2
  <2> QED
    BY <2>12, <2>13
<1> QED
  BY <1>3, <1>4

-----------------------------------------------------------------------------
(***************************************************************************)
(* The calls that move the chain.                                          *)
(***************************************************************************)
\* The fork database of a node is replaced.
LEMMA LinkedOK ==
    ASSUME TreeOK, NEW n \in Nodes, NEW b \in Block
    PROVE  LET r == Linked(n, b)
           IN  /\ r \in Nodes /\ r.fork = push_block(n.fork, b, n.max_size)
               /\ r.head = n.head /\ r.undo = n.undo /\ r.max_size = n.max_size
               /\ r.blocks = n.blocks /\ r.tail = n.tail /\ r.lib = n.lib
               /\ r.ok = n.ok
<1> DEFINE f == push_block(n.fork, b, n.max_size)
<1>1. n.fork \in Forks /\ n.max_size \in Int
  BY DEF Nodes
<1>2. f \in Forks
  BY <1>1, PushTyped
<1>3. Linked(n, b) = [n EXCEPT !.fork = f]
  BY DEF Linked
<1> HIDE DEF f
<1> QED
  BY <1>2, <1>3 DEF Nodes, f

\* Extend() either applies the block or takes it out of the fork database.
LEMMA ExtendOK ==
    ASSUME TreeOK, NEW n \in Nodes, n.ok, NEW b \in Block
    PROVE  LET r == Extend(n, b)
               a == ApplyAndStore(n, b, b)
           IN  /\ r \in Nodes /\ r.ok = a.ok
               /\ r.head = a.head /\ r.undo = a.undo /\ r.max_size = a.max_size
               /\ r.blocks = a.blocks /\ r.lib = a.lib
               /\ r.ok => r = a /\ HasApplied(n, b, b, r)
<1> DEFINE a == ApplyAndStore(n, b, b)
           f == remove(a.fork, b)
<1>1. a \in Nodes /\ (a.ok => HasApplied(n, b, b, a))
  BY ApplyAndStoreOK
<1>2. Extend(n, b) = IF a.ok THEN a ELSE [a EXCEPT !.fork = f]
  BY DEF Extend
<1> HIDE DEF a
<1>3. f \in Forks
  BY <1>1, ForkTyped DEF Nodes
<1> HIDE DEF f
<1>4. CASE a.ok
  BY <1>1, <1>2, <1>4 DEF a
<1>5. CASE ~a.ok
  <2> DEFINE r == [a EXCEPT !.fork = f]
  <2>1. /\ r \in Nodes /\ r.ok = a.ok
        /\ r.head = a.head /\ r.undo = a.undo /\ r.max_size = a.max_size
        /\ r.blocks = a.blocks /\ r.lib = a.lib
    BY <1>1, <1>3 DEF Nodes
  <2>2. Extend(n, b) = r
    BY <1>2, <1>5
  <2> HIDE DEF r
  <2> QED
    BY <1>5, <2>1, <2>2 DEF a
<1> QED
  BY <1>4, <1>5

\* A block on top of the head, applied or refused.
LEMMA ExtendedIn ==
    ASSUME TreeOK, NEW V, Closed(V), NEW n \in V, n.ok, NEW b \in Block
    PROVE  Extend(n, b) \in V
<1> DEFINE a == ApplyAndStore(n, b, b)
           r == Extend(n, b)
<1>1. n \in Nodes
  BY DEF Closed
<1>2. /\ r \in Nodes /\ r.head = a.head /\ r.undo = a.undo
      /\ r.max_size = a.max_size /\ r.lib = a.lib
  BY <1>1, ExtendOK
<1>3. a \in V
  BY AppliedIn
<1> HIDE DEF a, r
<1>4. r \in V
  BY <1>2, <1>3, SameIn
<1> QED
  BY <1>4 DEF r

\* push_block(), on every path through it.
LEMMA PushedIn ==
    ASSUME TreeOK, NEW V, Closed(V), NEW n \in V, n.ok, NEW b \in Block
    PROVE  database_push_block(n, b) \in V
<1> DEFINE x == Linked(n, b)
           new_head == x.fork.head
<1>1. n \in Nodes
  BY DEF Closed
<1>2. database_push_block(n, b) =
          IF ~Acceptable(n.fork, b, n.max_size) THEN Throw(n)
          ELSE IF Prev(new_head) = n.head THEN Extend(x, b)
          ELSE IF Num(new_head) > Num(n.head) THEN SwitchForks(x, b, new_head)
          ELSE x
  BY DEF database_push_block
<1>3. /\ x \in Nodes /\ x.head = n.head /\ x.undo = n.undo
      /\ x.max_size = n.max_size /\ x.lib = n.lib /\ x.ok
  BY <1>1, LinkedOK
<1> HIDE DEF x
<1>4. x \in V
  BY <1>3, SameIn
<1>5. Throw(n) \in V
  <2>1. Throw(n) \in Nodes /\ Alike(n, Throw(n)) /\ Throw(n).undo = n.undo
    BY <1>1, ThrowOK
  <2> QED
    BY <2>1, SameIn DEF Alike
<1>6. Extend(x, b) \in V
  BY <1>3, <1>4, ExtendedIn
<1>7. ASSUME Num(new_head) > Num(n.head)
      PROVE  SwitchForks(x, b, new_head) \in V
  <2>1. new_head \in BlockOrGenesis
    BY <1>3 DEF Nodes, Forks
  <2> HIDE DEF new_head
  <2>2. Num(n.head) \in Nat
    BY <1>1, NodeNumbers
  <2>3. new_head \in Block /\ Num(new_head) > Num(x.head)
    BY <1>3, <1>7, <2>1, <2>2, NumTyped
  <2> QED
    BY <1>3, <1>4, <2>3, SwitchedIn
<1> HIDE DEF new_head
<1> QED
  BY <1>2, <1>4, <1>5, <1>6, <1>7

\* generate_block() and the block it validates.
LEMMA ValidatedIn ==
    ASSUME TreeOK, NEW V, Closed(V), NEW n \in V, n.ok, NEW b \in Block
    PROVE  validate_block(n, b) \in V
<1> DEFINE k == IF Transactions THEN 2 ELSE 0
           s == Trimmed(n, k)
           x == Linked(s, b)
           f == remove(n.fork, b)
           t == Throw(s)
           u == [t EXCEPT !.fork = f]
<1>1. n \in Nodes /\ n.fork \in Forks
  BY DEF Closed, Nodes
<1>2. validate_block(n, b) =
          IF ~Acceptable(n.fork, b, n.max_size) THEN u ELSE Extend(x, b)
  BY DEF validate_block
<1>3. k \in Int /\ 0 <= k /\ k <= Sessions + 1
  BY DEF Sessions
<1>4. f \in Forks
  BY <1>1, ForkTyped
<1> HIDE DEF k, f
<1>5. s \in Nodes /\ Alike(n, s) /\ s.ok = n.ok
  BY <1>1, <1>3, TrimmedOK
<1>6. s \in V
  BY <1>3, TrimmedIn
<1> HIDE DEF s
<1>7. u \in V
  <2>1. t \in Nodes /\ Alike(s, t) /\ t.undo = s.undo
    BY <1>5, ThrowOK
  <2> HIDE DEF t
  <2>2. /\ u \in Nodes /\ u.head = t.head /\ u.undo = t.undo
        /\ u.max_size = t.max_size /\ u.lib = t.lib
    BY <1>4, <2>1 DEF Nodes
  <2> HIDE DEF u
  <2> QED
    BY <1>6, <2>1, <2>2, SameIn DEF Alike
<1>8. /\ x \in Nodes /\ x.head = s.head /\ x.undo = s.undo
      /\ x.max_size = s.max_size /\ x.lib = s.lib /\ x.ok
  BY <1>5, LinkedOK
<1> HIDE DEF x, u, t
<1>9. x \in V
  BY <1>6, <1>8, SameIn
<1> QED
  BY <1>2, <1>7, <1>8, <1>9, ExtendedIn

-----------------------------------------------------------------------------
(***************************************************************************)
(* The running node.                                                       *)
(***************************************************************************)
HInv == TreeOK /\ up /\ saved = Genesis /\ node \in WithHistory(0)

\* A node that starts for the first time has nothing to undo.
LEMMA InitHInv == Init => HInv
<1> SUFFICES ASSUME Init PROVE HInv
  OBVIOUS
<1>1. TreeOK /\ up /\ saved = Genesis
  BY TreeInitOK DEF Init
<1>2. node = Fresh(Genesis, EmptyBlocks, 0)
  BY DEF Init
<1>3. /\ node.head = Genesis /\ node.undo = 0 /\ node.max_size = InitSize
      /\ node.lib = 0
  BY <1>2 DEF Fresh
<1>4. /\ NumBlocks \in Nat /\ Genesis \in BlockOrGenesis /\ Num(Genesis) = 0
      /\ InitSize \in Nat /\ InitSize > NumBlocks
  BY <1>1, NumTyped, ChainAssumption
<1>5. node \in Nodes
  <2>1. NoFork \in Forks
    BY <1>4 DEF NoFork, Forks
  <2>2. NoEntry \in Entries
    BY <1>4 DEF NoEntry, Entries, Lost, Genesis
  <2>3. EmptyBlocks \in [Block -> Entries]
    BY <2>2 DEF EmptyBlocks
  <2>4. [num |-> 0, old |-> NoEntry] \in [num : Int, old : Entries]
    BY <2>2
  <2> QED
    BY <1>2, <1>4, <2>1, <2>3, <2>4 DEF Fresh, Nodes
<1>6. LastIrreversible(Genesis) \in Nat /\ LastIrreversible(Genesis) <= 0
  BY <1>1, <1>4, LastIrreversibleOK
<1>7. Sessions \in 0 .. 1
  BY DEF Sessions
<1>8. LastIrreversible(node.head) <= node.lib
  BY <1>3, <1>6
<1>9. /\ Num(node.head) - node.undo <= node.lib + Sessions
      /\ Num(node.head) - node.max_size <= node.lib - 1
      /\ node.max_size >= 1 /\ 0 <= node.lib
  BY <1>3, <1>4, <1>7
<1>10. node \in WithHistory(0)
  BY <1>5, <1>8, <1>9 DEF WithHistory, History
<1> QED
  BY <1>1, <1>10 DEF HInv

\* What the pending transactions leave of the history.
LEMMA RunsIn ==
    ASSUME TreeOK, NEW V, Closed(V), NEW n \in V, Runs(n)
    PROVE  /\ node' \in V /\ Alike(n, node') /\ node'.ok = n.ok
           /\ UNCHANGED <<path, bad, saved>>
<1>1. n \in Nodes
  BY DEF Closed
<1>2. UNCHANGED <<path, bad, saved>>
  BY DEF Runs, tree
<1>3. CASE node' = n
  BY <1>2, <1>3 DEF Alike
<1>4. ASSUME Transactions, NEW k \in 1 .. 2, node' = Trimmed(n, k)
      PROVE  node' \in V /\ Alike(n, node') /\ node'.ok = n.ok
  <2>1. k \in Int /\ 0 <= k /\ k <= Sessions + 1
    BY <1>4 DEF Sessions
  <2>2. Alike(n, node') /\ node'.ok = n.ok
    BY <1>1, <1>4, <2>1, TrimmedOK
  <2> QED
    BY <1>4, <2>1, <2>2, TrimmedIn
<1>5. node' = n \/ (Transactions /\ \E k \in 1 .. 2 : node' = Trimmed(n, k))
  BY DEF Runs, Restored
<1> QED
  BY <1>2, <1>3, <1>4, <1>5

\* The call of a step of a running node.
Called(b) ==
    LET n == [node EXCEPT !.ok = TRUE]
    IN  \/ Runs(database_push_block(n, b))
        \/ Runs(validate_block(n, b)) /\ Prev(b) = node.head

\* What a running node does.
LEMMA RunningSteps ==
    ASSUME Next, up, up'
    PROVE  \/ \E b \in Block : Called(b)
           \/ /\ Transactions
              /\ \E k \in 1 .. 2 : node' = [Trimmed(node, k) EXCEPT !.ok = TRUE]
              /\ UNCHANGED <<path, bad, saved>>
<1>1. \/ \E b \in Block : PushBlock(b) \/ GenerateBlock(b)
      \/ PushTransaction
  BY DEF Next, Close, Crash, Wipe, CrashInSwitch, Open, OpenFails, Stop
<1>2. ASSUME NEW b \in Block, PushBlock(b) \/ GenerateBlock(b)
      PROVE  Called(b)
  <2>1. CASE PushBlock(b)
    BY <2>1 DEF PushBlock, Called
  <2>2. CASE GenerateBlock(b)
    BY <2>2 DEF GenerateBlock, Called
  <2> QED
    BY <1>2, <2>1, <2>2
<1>3. ASSUME PushTransaction
      PROVE  /\ Transactions
             /\ \E k \in 1 .. 2 : node' = [Trimmed(node, k) EXCEPT !.ok = TRUE]
             /\ UNCHANGED <<path, bad, saved>>
  BY <1>3 DEF PushTransaction, tree
<1> QED
  BY <1>1, <1>2, <1>3

\* A step of a running node does not lead out of such a set.
LEMMA StepIn ==
    ASSUME TreeOK, NEW V, Closed(V), node \in V, Next, up, up'
    PROVE  node' \in V /\ UNCHANGED <<path, bad, saved>>
<1> DEFINE n == [node EXCEPT !.ok = TRUE]
<1>1. node \in Nodes
  BY DEF Closed
<1>2. /\ n \in Nodes /\ n.ok /\ n.head = node.head /\ n.undo = node.undo
      /\ n.max_size = node.max_size /\ n.lib = node.lib
  BY <1>1 DEF Nodes
<1> HIDE DEF n
<1>3. n \in V
  BY <1>2, SameIn
<1>4. ASSUME NEW b \in Block, Called(b)
      PROVE  node' \in V /\ UNCHANGED <<path, bad, saved>>
  <2>1. PICK r \in V : Runs(r)
    <3>1. database_push_block(n, b) \in V
      BY <1>2, <1>3, PushedIn
    <3>2. validate_block(n, b) \in V
      BY <1>2, <1>3, ValidatedIn
    <3>3. Runs(database_push_block(n, b)) \/ Runs(validate_block(n, b))
      BY <1>4 DEF Called, n
    <3> QED
      BY <3>1, <3>2, <3>3
  <2> QED
    BY <2>1, RunsIn
<1>5. ASSUME Transactions, NEW k \in 1 .. 2,
             node' = [Trimmed(node, k) EXCEPT !.ok = TRUE]
      PROVE  node' \in V
  <2> DEFINE t == Trimmed(node, k)
  <2>1. k \in Int /\ 0 <= k /\ k <= Sessions + 1
    BY <1>5 DEF Sessions
  <2>2. t \in Nodes
    BY <1>1, <2>1, TrimmedOK
  <2>3. t \in V
    BY <2>1, TrimmedIn
  <2> HIDE DEF t
  <2>4. node' = [t EXCEPT !.ok = TRUE]
    BY <1>5 DEF t
  <2>5. /\ node' \in Nodes /\ node'.head = t.head /\ node'.undo = t.undo
        /\ node'.max_size = t.max_size /\ node'.lib = t.lib
    BY <2>2, <2>4 DEF Nodes
  <2> QED
    BY <2>3, <2>5, SameIn
<1> QED
  BY <1>4, <1>5, RunningSteps

\* A step of a running node keeps its history.
LEMMA HistoryStep ==
    ASSUME TreeOK, NEW l \in Int, node \in WithHistory(l), Next, up, up'
    PROVE  node' \in WithHistory(l) /\ UNCHANGED <<path, bad, saved>>
<1> DEFINE V == WithHistory(l)
<1>1. Closed(V) /\ node \in V
  BY HistoryClosed
<1> HIDE DEF V
<1>2. node' \in V /\ UNCHANGED <<path, bad, saved>>
  BY <1>1, StepIn
<1> QED
  BY <1>2 DEF V

\* WithHistory and TreeOK are about the tree, which no step changes.
LEMMA HInvStep ==
    ASSUME HInv, [Next]_vars, up'
    PROVE  HInv'
<1>1. CASE UNCHANGED vars
  <2>1. UNCHANGED <<path, bad, node, saved, up>>
    BY <1>1 DEF vars
  <2> QED
    BY <2>1 DEF HInv, TreeOK, WithHistory, History, Num,
              LastIrreversible, LastConfirmed, Witness, PathsUpTo, PathIn
<1>2. CASE Next
  <2>1. node' \in WithHistory(0) /\ UNCHANGED <<path, bad, saved>>
    BY <1>2, HistoryStep DEF HInv
  <2> QED
    BY <2>1 DEF HInv, TreeOK, WithHistory, History, Num,
              LastIrreversible, LastConfirmed, Witness, PathsUpTo, PathIn
<1> QED
  BY <1>1, <1>2

\* Every block above the highest one that was ever irreversible can be popped
\* from a node that runs, whatever blocks it is sent, valid or not, in any
\* order, and however many transactions come between them (the limit that
\* update_global_dynamic_data() gives the undo log).
THEOREM RunningHistory == Spec /\ []up => []HistoryReachesIrreversible
<1>1. HInv => HistoryReachesIrreversible
  <2> SUFFICES ASSUME HInv PROVE HistoryReachesIrreversible
    OBVIOUS
  <2>1. node \in Nodes /\ TreeOK /\ Num(saved) = 0 /\ History(node, 0)
    BY NumTyped DEF HInv, WithHistory
  <2>2. /\ Num(node.head) \in Nat /\ node.undo \in Int /\ node.lib \in Int
        /\ Sessions \in Int
    BY <2>1, NodeNumbers
  <2>3. Max({node.lib, Num(saved)}) = node.lib
    BY <2>1, <2>2, MaxOfTwo DEF History
  <2>4. Num(node.head) - node.undo <= node.lib + Sessions
    BY <2>1 DEF History
  <2> QED
    BY <2>3, <2>4 DEF HistoryReachesIrreversible, Sessions
<1> QED
  BY <1>1, InitHInv, HInvStep, PTL DEF Spec

-----------------------------------------------------------------------------
(***************************************************************************)
(* What a call that succeeds has done.                                     *)
(***************************************************************************)
\* x is the node after the block has reached the fork database: the block is
\* applied, or a fork with a higher head, or nothing.
Outcome(x, b, r) ==
    \/ HasApplied(x, b, b, r)
    \/ /\ x.fork.head \in Block /\ Num(x.fork.head) > Num(x.head)
       /\ Prev(x.fork.head) # x.head
       /\ SwitchedTo(x, x.fork.head, r)
    \/ ~(Num(x.fork.head) > Num(x.head)) /\ r = x

\* The call was made on a node s, like n, and left the node r.
Succeeded(n, s, b, r) ==
    /\ Alike(n, s) /\ s.ok /\ r.ok
    /\ Acceptable(s.fork, b, s.max_size)
    /\ Outcome(Linked(s, b), b, r)

\* push_block() that succeeds.
LEMMA PushOutcome ==
    ASSUME TreeOK, NEW V, Closed(V), NEW n \in V, n.ok, NEW b \in Block,
           database_push_block(n, b).ok
    PROVE  Succeeded(n, n, b, database_push_block(n, b))
<1> DEFINE x == Linked(n, b)
           new_head == x.fork.head
           r == database_push_block(n, b)
<1>1. n \in Nodes
  BY DEF Closed
<1>2. r = IF ~Acceptable(n.fork, b, n.max_size) THEN Throw(n)
          ELSE IF Prev(new_head) = n.head THEN Extend(x, b)
          ELSE IF Num(new_head) > Num(n.head) THEN SwitchForks(x, b, new_head)
          ELSE x
  BY DEF database_push_block
<1>3. /\ x \in Nodes /\ x.head = n.head /\ x.undo = n.undo
      /\ x.max_size = n.max_size /\ x.lib = n.lib /\ x.ok
  BY <1>1, LinkedOK
<1>4. r.ok
  OBVIOUS
<1> HIDE DEF x, r
<1>5. x \in V
  BY <1>3, SameIn
<1>6. Acceptable(n.fork, b, n.max_size)
  <2>1. ~Throw(n).ok
    BY <1>1, ThrowOK
  <2> QED
    BY <1>2, <1>4, <2>1
<1>7. CASE Prev(new_head) = n.head
  <2>1. r = Extend(x, b)
    BY <1>2, <1>6, <1>7
  <2>2. HasApplied(x, b, b, r)
    BY <1>3, <1>4, <2>1, ExtendOK
  <2> QED
    BY <1>4, <1>6, <2>2 DEF Succeeded, Outcome, Alike, x, r
<1>8. CASE Prev(new_head) # n.head /\ Num(new_head) > Num(n.head)
  <2>1. new_head \in BlockOrGenesis
    BY <1>3 DEF Nodes, Forks
  <2>2. Num(n.head) \in Nat
    BY <1>1, NodeNumbers
  <2>3. r = SwitchForks(x, b, new_head)
    BY <1>2, <1>6, <1>8
  <2> HIDE DEF new_head
  <2>4. new_head \in Block /\ Num(new_head) > Num(x.head)
    BY <1>3, <1>8, <2>1, <2>2, NumTyped
  <2>5. SwitchedTo(x, new_head, r)
    BY <1>3, <1>4, <1>5, <2>3, <2>4, SwitchedIn
  <2> QED
    BY <1>3, <1>4, <1>6, <1>8, <2>4, <2>5
       DEF Succeeded, Outcome, Alike, x, r, new_head
<1>9. CASE Prev(new_head) # n.head /\ ~(Num(new_head) > Num(n.head))
  <2>1. r = x
    BY <1>2, <1>6, <1>9
  <2>2. Outcome(x, b, r)
    BY <1>3, <1>9, <2>1 DEF Outcome
  <2> QED
    BY <1>4, <1>6, <2>2 DEF Succeeded, Alike, x, r
<1> QED
  BY <1>7, <1>8, <1>9

\* _validate_block() that succeeds.
LEMMA ValidateOutcome ==
    ASSUME TreeOK, NEW V, Closed(V), NEW n \in V, n.ok, NEW b \in Block,
           validate_block(n, b).ok
    PROVE  \E s \in V : Succeeded(n, s, b, validate_block(n, b))
<1> DEFINE k == IF Transactions THEN 2 ELSE 0
           s == Trimmed(n, k)
           x == Linked(s, b)
           f == remove(n.fork, b)
           t == Throw(s)
           u == [t EXCEPT !.fork = f]
           r == validate_block(n, b)
<1>1. n \in Nodes /\ n.fork \in Forks
  BY DEF Closed, Nodes
<1>2. r = IF ~Acceptable(n.fork, b, n.max_size) THEN u ELSE Extend(x, b)
  BY DEF validate_block
<1>3. k \in Int /\ 0 <= k /\ k <= Sessions + 1 /\ r.ok
  BY DEF Sessions
<1>4. f \in Forks
  BY <1>1, ForkTyped
<1> HIDE DEF k, f, r
<1>5. s \in Nodes /\ Alike(n, s) /\ s.ok = n.ok
  BY <1>1, <1>3, TrimmedOK
<1>6. s \in V
  BY <1>3, TrimmedIn
<1> HIDE DEF s
<1>7. ~u.ok
  <2>1. t \in Nodes /\ ~t.ok
    BY <1>5, ThrowOK
  <2> HIDE DEF t
  <2> QED
    BY <1>4, <2>1 DEF Nodes
<1> HIDE DEF u
<1>8. Acceptable(n.fork, b, n.max_size) /\ r = Extend(x, b)
  BY <1>2, <1>3, <1>7
<1>9. x \in Nodes /\ x.ok
  BY <1>5, LinkedOK
<1> HIDE DEF x
<1>10. HasApplied(x, b, b, r)
  BY <1>3, <1>8, <1>9, ExtendOK
<1>11. Acceptable(s.fork, b, s.max_size)
  BY <1>5, <1>8 DEF Alike
<1>12. Succeeded(n, s, b, r)
  BY <1>3, <1>5, <1>10, <1>11 DEF Succeeded, Outcome, x
<1> QED
  BY <1>6, <1>12 DEF r

\* A step of a running node: a call that succeeded, one that failed, or one
\* that pushed a transaction.
LEMMA StepOutcome ==
    ASSUME TreeOK, NEW V, Closed(V), node \in V, Next, up, up'
    PROVE  \/ ~node'.ok
           \/ Alike(node, node')
           \/ \E b \in Block, s \in V, r \in V :
                 Succeeded(node, s, b, r) /\ Alike(r, node')
<1> DEFINE n == [node EXCEPT !.ok = TRUE]
<1>1. node \in Nodes
  BY DEF Closed
<1>2. n \in Nodes /\ n.ok /\ Alike(node, n) /\ n.undo = node.undo
  BY <1>1 DEF Nodes, Alike
<1> HIDE DEF n
<1>3. n \in V
  BY <1>2, SameIn DEF Alike
<1>4. ASSUME NEW b \in Block, Called(b), node'.ok
      PROVE  \E s \in V, r \in V :
                 Succeeded(node, s, b, r) /\ Alike(r, node')
  <2>1. PICK r : /\ Runs(r)
                 /\ r = database_push_block(n, b) \/ r = validate_block(n, b)
    BY <1>4 DEF Called, n
  <2>2. r \in V
    BY <1>2, <1>3, <2>1, PushedIn, ValidatedIn
  <2>3. Alike(r, node') /\ node'.ok = r.ok
    BY <2>1, <2>2, RunsIn
  <2>4. r.ok
    BY <1>4, <2>3
  <2>5. PICK s \in V : Succeeded(n, s, b, r)
    <3>1. CASE r = database_push_block(n, b)
      BY <1>2, <1>3, <2>4, <3>1, PushOutcome
    <3>2. CASE r = validate_block(n, b)
      BY <1>2, <1>3, <2>4, <3>2, ValidateOutcome
    <3> QED
      BY <2>1, <3>1, <3>2
  <2>6. Succeeded(node, s, b, r)
    BY <1>2, <2>5 DEF Succeeded, Alike
  <2> QED
    BY <2>2, <2>3, <2>6
<1>5. ASSUME NEW k \in 1 .. 2, node' = [Trimmed(node, k) EXCEPT !.ok = TRUE]
      PROVE  Alike(node, node')
  <2> DEFINE t == Trimmed(node, k)
  <2>1. t \in Nodes /\ Alike(node, t)
    BY <1>1, TrimmedOK
  <2> HIDE DEF t
  <2>2. node' = [t EXCEPT !.ok = TRUE]
    BY <1>5 DEF t
  <2> QED
    BY <2>1, <2>2 DEF Nodes, Alike
<1> QED
  BY <1>4, <1>5, RunningSteps

-----------------------------------------------------------------------------
(***************************************************************************)
(* The block database.                                                     *)
(***************************************************************************)
Entry(b) == [id |-> b, data |-> b]

\* The block database of a node with head h.
Mirror(h) == [i \in Block |-> IF i <= Num(h) THEN Entry(path[h][i]) ELSE NoEntry]

\* During a change of forks: the chain up to the head, and above it what is
\* left of the chain to `old'.  A block above both went to a free slot.
Overlay(n, old) ==
    /\ n.blocks = [i \in Block |-> IF i <= Num(n.head) THEN Entry(path[n.head][i])
                                   ELSE Mirror(old)[i]]
    /\ Num(n.head) > Num(old) => n.tail = [num |-> Num(n.head), old |-> NoEntry]

\* A node on the way down the chain to `old'.
Descends(n, old) == n.blocks = Mirror(old) /\ OnChain(n.head, old)

\* The paths of the blocks on a chain agree with it.
LEMMA OnChainPath ==
    ASSUME TreeOK, NEW h \in BlockOrGenesis, NEW old \in BlockOrGenesis,
           OnChain(h, old)
    PROVE  /\ Num(h) <= Num(old)
           /\ \A i \in Block : i <= Num(h) => path[h][i] = path[old][i]
           /\ h # Genesis => OnChain(Prev(h), old)
<1>1. Num(h) \in Nat /\ Num(old) \in Nat /\ Num(Genesis) = 0
  BY NumTyped DEF BlockOrGenesis
<1>2. CASE h = Genesis
  BY <1>1, <1>2 DEF Block
<1>3. CASE h # Genesis
  <2>1. h \in Block /\ Num(h) <= Num(old) /\ path[old][Num(h)] = h
    BY <1>3, NumTyped DEF OnChain
  <2>2. Num(h) \in 1 .. Num(old) /\ old \in Block
    BY <1>1, <2>1, NumTyped, OnPath
  <2>3. path[h] = SubSeq(path[old], 1, Num(h)) /\ path[old] \in Seq(Block)
    BY <2>1, <2>2, OnPath
  <2>4. \A i \in Block : i <= Num(h) => path[h][i] = path[old][i]
    BY <1>1, <2>2, <2>3 DEF Block, Num
  <2>5. /\ Prev(h) = IF Num(h) <= 1 THEN Genesis ELSE path[h][Num(h) - 1]
        /\ Num(Prev(h)) = Num(h) - 1
    BY <2>1, PrevOK DEF Prev
  <2>6. Num(h) > 1 => path[h][Num(h) - 1] = path[old][Num(h) - 1]
    <3>1. Num(h) > 1 => Num(h) - 1 \in Block /\ Num(h) - 1 <= Num(h)
      <4>1. Num(h) \in Block /\ NumBlocks \in Nat
        BY <2>1, NumTyped
      <4> QED
        BY <4>1 DEF Block
    <3> QED
      BY <2>4, <3>1
  <2>7. OnChain(Prev(h), old)
    BY <1>1, <2>1, <2>5, <2>6 DEF OnChain
  <2> QED
    BY <2>1, <2>4, <2>7
<1> QED
  BY <1>2, <1>3

\* pop_block() goes down the chain and leaves the blocks.
LEMMA DescendsPopped ==
    ASSUME TreeOK, NEW old \in BlockOrGenesis
    PROVE  PopClosed({ n \in Nodes : Descends(n, old) })
<1> SUFFICES ASSUME NEW n \in Nodes, Descends(n, old)
             PROVE  Popped(n) \in Nodes /\ Descends(Popped(n), old)
  BY DEF PopClosed
<1> DEFINE r == database_pop_block(n)
<1>1. CASE ~n.ok
  BY <1>1 DEF Popped
<1>2. CASE n.ok
  <2>1. Popped(n) = r
    BY <1>2 DEF Popped
  <2>2. /\ r \in Nodes /\ (r.ok => HasPopped(n, r))
        /\ ~r.ok => r.head = n.head /\ r.blocks = n.blocks
    BY <1>2, PopBlockOK
  <2> HIDE DEF r
  <2>3. CASE ~r.ok
    BY <2>1, <2>2, <2>3 DEF Descends
  <2>4. CASE r.ok
    <3>1. n.head \in Block /\ r.head = Prev(n.head) /\ r.blocks = n.blocks
      BY <2>2, <2>4 DEF HasPopped
    <3>2. n.head \in BlockOrGenesis /\ n.head # Genesis
      BY <3>1, NumTyped
    <3>3. OnChain(r.head, old)
      BY <3>1, <3>2, OnChainPath DEF Descends
    <3> QED
      BY <2>1, <2>2, <3>1, <3>3 DEF Descends
  <2> QED
    BY <2>3, <2>4
<1> QED
  BY <1>1, <1>2

\* Further down, the chain is what the old chain was.
LEMMA DescendsOverlay ==
    ASSUME TreeOK, NEW old \in BlockOrGenesis, NEW n \in Nodes, Descends(n, old)
    PROVE  Overlay(n, old)
<1>1. n.head \in BlockOrGenesis /\ OnChain(n.head, old) /\ n.blocks = Mirror(old)
  BY DEF Nodes, Descends
<1>2. /\ Num(n.head) <= Num(old)
      /\ \A i \in Block : i <= Num(n.head) => path[n.head][i] = path[old][i]
  BY <1>1, OnChainPath
<1>3. Num(n.head) \in Int /\ Num(old) \in Int
  BY <1>1, NumTyped DEF BlockOrGenesis
<1>4. ASSUME NEW i \in Block
      PROVE  Mirror(old)[i] = IF i <= Num(n.head) THEN Entry(path[n.head][i])
                              ELSE Mirror(old)[i]
  <2>1. CASE i <= Num(n.head)
    <3>1. i <= Num(old) /\ path[n.head][i] = path[old][i]
      BY <1>2, <1>3, <2>1 DEF Block
    <3> QED
      BY <2>1, <3>1 DEF Mirror
  <2>2. CASE ~(i <= Num(n.head))
    BY <2>2
  <2> QED
    BY <2>1, <2>2
<1>5. Mirror(old) = [i \in Block |-> Mirror(old)[i]]
  BY DEF Mirror
<1>6. ~(Num(n.head) > Num(old))
  BY <1>2, <1>3
<1> QED
  BY <1>1, <1>4, <1>5, <1>6 DEF Overlay

\* Each block that is applied goes to the slot after the head.
LEMMA OverlayApplied ==
    ASSUME TreeOK, NEW old \in BlockOrGenesis, NEW n \in Nodes, Overlay(n, old),
           NEW r \in Nodes, NEW b \in Block, HasApplied(n, b, b, r)
    PROVE  Overlay(r, old)
<1>1. /\ Prev(b) = n.head /\ r.head = b /\ r.blocks = store(n.blocks, b, b)
  BY DEF HasApplied
<1>2. /\ Num(n.head) = Num(b) - 1
      /\ \A i \in 1 .. Num(b) - 1 : path[n.head][i] = path[b][i]
      /\ path[b][Num(b)] = b
  <2>1. Num(Prev(b)) = Num(b) - 1 /\ \A i \in 1 .. Num(b) - 1 : path[Prev(b)][i] = path[b][i]
    BY PrevOK
  <2>2. path[b][Num(b)] = b
    BY OnPath
  <2> QED
    BY <1>1, <2>1, <2>2
<1>3. Num(b) \in Block
  BY NumTyped
<1>4. r.blocks = [n.blocks EXCEPT ![Num(b)] = Entry(b)]
  BY <1>1 DEF store, Entry
<1> DEFINE new(i) == IF i <= Num(r.head) THEN Entry(path[r.head][i]) ELSE Mirror(old)[i]
<1>5. ASSUME NEW i \in Block
      PROVE  r.blocks[i] = new(i)
  <2>1. CASE i = Num(b)
    <3>1. r.blocks[i] = Entry(b)
      BY <1>3, <1>4, <2>1 DEF Overlay
    <3>2. i <= Num(b) /\ path[b][i] = b
      BY <1>2, <1>3, <2>1 DEF Block
    <3> QED
      BY <1>1, <3>1, <3>2
  <2>2. CASE i # Num(b)
    <3>1. r.blocks[i] = n.blocks[i]
      BY <1>4, <2>2 DEF Overlay
    <3>2. CASE i <= Num(n.head)
      <4>1. i <= Num(b) /\ i \in 1 .. Num(b) - 1
        BY <1>2, <1>3, <3>2 DEF Block
      <4>2. n.blocks[i] = Entry(path[n.head][i])
        BY <3>2 DEF Overlay
      <4> QED
        BY <1>1, <1>2, <3>1, <4>1, <4>2
    <3>3. CASE ~(i <= Num(n.head))
      <4>1. ~(i <= Num(b))
        BY <1>2, <1>3, <2>2, <3>3 DEF Block
      <4>2. n.blocks[i] = Mirror(old)[i]
        BY <3>3 DEF Overlay
      <4> QED
        BY <1>1, <3>1, <4>1, <4>2
    <3> QED
      BY <3>2, <3>3
  <2> QED
    BY <2>1, <2>2
<1>6. r.blocks = [i \in Block |-> r.blocks[i]]
  BY <1>4 DEF Overlay
<1>7. ASSUME Num(r.head) > Num(old)
      PROVE  r.tail = [num |-> Num(r.head), old |-> NoEntry]
  <2>1. r.tail = [num |-> Num(b), old |-> n.blocks[Num(b)]]
    BY DEF HasApplied
  <2>2. ~(Num(b) <= Num(n.head)) /\ ~(Num(b) <= Num(old))
    <3>1. Num(old) \in Int /\ Num(b) \in Int
      BY <1>3, NumTyped DEF BlockOrGenesis, Block
    <3> QED
      BY <1>1, <1>2, <1>7, <3>1
  <2>3. n.blocks[Num(b)] = NoEntry
    BY <1>3, <2>2 DEF Overlay, Mirror
  <2> QED
    BY <1>1, <2>1, <2>3
<1> QED
  BY <1>5, <1>6, <1>7 DEF Overlay

\* A head above the old one leaves nothing of the old chain.
LEMMA OverlayIsMirror ==
    ASSUME TreeOK, NEW old \in BlockOrGenesis, NEW n \in Nodes, Overlay(n, old),
           Num(n.head) > Num(old)
    PROVE  n.blocks = Mirror(n.head)
<1>1. Num(n.head) \in Int /\ Num(old) \in Int
  BY NumTyped DEF BlockOrGenesis, Nodes
<1>2. ASSUME NEW i \in Block, ~(i <= Num(n.head))
      PROVE  Mirror(old)[i] = NoEntry
  <2>1. ~(i <= Num(old))
    BY <1>1, <1>2 DEF Block
  <2> QED
    BY <2>1 DEF Mirror
<1> QED
  BY <1>2 DEF Overlay, Mirror

\* The last block that was stored is the new head, higher than the old one.
HasStored(n, r) ==
    /\ Num(r.head) > Num(n.head)
    /\ r.tail = [num |-> Num(r.head), old |-> NoEntry]

\* The node after a call that succeeded.
LEMMA MirrorOutcome ==
    ASSUME TreeOK, NEW x \in Nodes, x.ok, x.blocks = Mirror(x.head), NEW b \in Block,
           NEW r \in Nodes, r.ok, Outcome(x, b, r)
    PROVE  /\ r.blocks = Mirror(r.head)
           /\ r = x \/ HasStored(x, r)
<1> DEFINE old == x.head
<1>1. old \in BlockOrGenesis /\ Num(old) \in Int
  BY NumTyped DEF BlockOrGenesis, Nodes
<1>2. OnChain(old, old)
  <2>1. CASE old = Genesis
    BY <2>1 DEF OnChain
  <2>2. CASE old # Genesis
    <3>1. old \in Block
      BY <1>1, <2>2, NumTyped
    <3> QED
      BY <1>1, <3>1, OnPath DEF OnChain
  <2> QED
    BY <2>1, <2>2
<1>3. Descends(x, old)
  BY <1>2 DEF Descends
<1>4. CASE HasApplied(x, b, b, r)
  <2>1. Overlay(r, old)
    BY <1>1, <1>3, <1>4, DescendsOverlay, OverlayApplied
  <2>2. r.head = b /\ Num(b) = Num(old) + 1
    BY <1>4, AppliedNumbers DEF HasApplied
  <2>3. Num(r.head) > Num(old)
    BY <1>1, <2>2
  <2> QED
    BY <1>1, <2>1, <2>3, OverlayIsMirror DEF Overlay, HasStored
<1>5. CASE /\ x.fork.head \in Block /\ Num(x.fork.head) > Num(x.head)
           /\ Prev(x.fork.head) # x.head
           /\ SwitchedTo(x, x.fork.head, r)
  <2>1. PICK base \in BlockOrGenesis, branch \in Seq(Block) :
          /\ Num(base) <= Num(x.head)
          /\ branch # <<>> /\ branch[Len(branch)] = x.fork.head
          /\ r = ApplyBranch(PopTo(x, base), branch, branch)
    BY <1>5 DEF SwitchedTo
  <2> DEFINE V == { n \in Nodes : Descends(n, old) }
             W == { n \in Nodes : Overlay(n, old) }
             p == PopTo(x, base)
  <2>2. V \in SUBSET Nodes /\ W \in SUBSET Nodes /\ x \in V /\ PopClosed(V)
    BY <1>1, <1>3, DescendsPopped
  <2>3. V \subseteq W
    BY <1>1, DescendsOverlay
  <2>4. p \in V
    <3> HIDE DEF V, W, old
    <3> QED
      BY <2>1, <2>2, PopToOK
  <2>5. ASSUME NEW m \in W, NEW c \in Block
        PROVE  Applied(m, c, c) \in W
    <3> DEFINE t == ApplyAndStore(m, c, c)
    <3>1. CASE ~m.ok
      BY <3>1 DEF Applied
    <3>2. CASE m.ok
      <4>1. Applied(m, c, c) = t
        BY <3>2 DEF Applied
      <4>2. t \in Nodes /\ (t.ok => HasApplied(m, c, c, t)) /\ (~t.ok => Alike(m, t))
        BY <3>2, ApplyAndStoreOK
      <4> HIDE DEF t
      <4>3. Overlay(t, old)
        <5>1. CASE t.ok
          BY <1>1, <4>2, <5>1, OverlayApplied
        <5>2. CASE ~t.ok
          BY <4>2, <5>2 DEF Alike, Overlay
        <5> QED
          BY <5>1, <5>2
      <4> QED
        BY <4>1, <4>2, <4>3
    <3> QED
      BY <3>1, <3>2
  <2>6. ApplyClosed(W, branch, branch) /\ \A i \in 1 .. Len(branch) : branch[i] \in Block
    <3>1. \A i \in 1 .. Len(branch) : branch[i] \in Block
      OBVIOUS
    <3> HIDE DEF W
    <3> QED
      BY <2>5, <3>1 DEF ApplyClosed
  <2>7. p \in W
    BY <2>3, <2>4
  <2> HIDE DEF V, W, p
  <2>8. r = ApplyBranch(p, branch, branch)
    BY <2>1 DEF p
  <2>9. r \in W /\ r.head = x.fork.head
    BY <2>1, <2>2, <2>6, <2>7, <2>8, ApplyBranchOK
  <2>10. Overlay(r, old) /\ Num(r.head) > Num(old)
    BY <1>5, <2>9 DEF W
  <2>11. HasStored(x, r)
    BY <2>10 DEF Overlay, HasStored
  <2> HIDE DEF old
  <2> QED
    BY <1>1, <2>10, <2>11, OverlayIsMirror
<1>6. CASE r = x
  BY <1>6
<1> QED
  BY <1>4, <1>5, <1>6 DEF Outcome

\* A call that fails has left the chain and the block database alone.  (A
\* change of forks that fails after its first block has not.)
FailsClean ==
    \/ node'.ok
    \/ /\ node'.head = node.head /\ node'.blocks = node.blocks
       /\ node'.tail = node.tail

\* A step of a running node keeps the block database in line with the chain.
LEMMA MirrorStep ==
    ASSUME TreeOK, NEW V, Closed(V), node \in V,
           node.blocks = Mirror(node.head), Next, up, up', FailsClean
    PROVE  /\ node'.blocks = Mirror(node'.head)
           /\ \/ node'.head = node.head /\ node'.tail = node.tail
              \/ HasStored(node, node')
<1>1. ASSUME NEW b \in Block, NEW s \in V, NEW r \in V,
             Succeeded(node, s, b, r), Alike(r, node')
      PROVE  /\ node'.blocks = Mirror(node'.head)
             /\ \/ node'.head = node.head /\ node'.tail = node.tail
                \/ HasStored(node, node')
  <2> DEFINE x == Linked(s, b)
  <2>1. /\ s \in Nodes /\ r \in Nodes /\ Alike(node, s) /\ s.ok /\ r.ok
        /\ Outcome(x, b, r)
    BY <1>1 DEF Succeeded, Closed
  <2>2. x \in Nodes /\ x.ok /\ x.head = s.head /\ x.blocks = s.blocks
        /\ x.tail = s.tail
    BY <2>1, LinkedOK
  <2> HIDE DEF x
  <2>3. x.blocks = Mirror(x.head)
    BY <2>1, <2>2 DEF Alike
  <2>4. r.blocks = Mirror(r.head) /\ (r = x \/ HasStored(x, r))
    BY <2>1, <2>2, <2>3, MirrorOutcome
  <2> QED
    BY <1>1, <2>1, <2>2, <2>4 DEF Alike, HasStored
<1>2. CASE ~node'.ok
  BY <1>2 DEF FailsClean
<1>3. CASE Alike(node, node')
  BY <1>3 DEF Alike
<1> QED
  BY <1>1, <1>2, <1>3, StepOutcome
-----------------------------------------------------------------------------
(***************************************************************************)
(* The fork database.                                                      *)
(***************************************************************************)
\* The blocks of a fork database, none higher than M, form a tree above l.
TreeLinked(f, l, M) ==
    /\ f.linked \subseteq f.index
    /\ \A b \in f.linked : Prev(b) \in f.index
    /\ f.headLinked => Prev(f.head) # Genesis
    /\ f.head \in f.index /\ f.headLinked => Prev(f.head) \in f.index
    /\ \A b \in f.index :
          Num(b) > l /\ Num(b) > 1 => Prev(b) \in f.index /\ b \in f.linked
    /\ \A b \in f.index : Num(b) <= M

\* The numbers of the blocks of a fork database.
LEMMA ForkNumbers ==
    ASSUME TreeOK, NEW f \in Forks
    PROVE  /\ f.index \subseteq Block /\ f.linked \subseteq Block
           /\ f.head \in BlockOrGenesis /\ Num(f.head) \in Nat
           /\ \A b \in Block : /\ Num(b) \in Nat \ {0} /\ Num(Prev(b)) = Num(b) - 1
                               /\ Prev(b) # b /\ (Prev(b) = Genesis <=> Num(b) = 1)
<1>1. f.index \subseteq Block /\ f.linked \subseteq Block /\ f.head \in BlockOrGenesis
  BY DEF Forks
<1>2. Num(f.head) \in Nat
  BY <1>1, NumTyped DEF BlockOrGenesis
<1>3. ASSUME NEW b \in Block
      PROVE  /\ Num(b) \in Nat \ {0} /\ Num(Prev(b)) = Num(b) - 1
             /\ Prev(b) # b /\ (Prev(b) = Genesis <=> Num(b) = 1)
  <2>1. /\ Num(b) \in Nat \ {0} /\ Num(Prev(b)) = Num(b) - 1
        /\ Prev(b) # b /\ Prev(b) \in BlockOrGenesis
    BY OnPath, PrevOK
  <2>2. Prev(b) = Genesis => Num(b) = 1
    BY <2>1, NumTyped
  <2>3. Num(b) = 1 => Prev(b) = Genesis
    BY DEF Prev
  <2> QED
    BY <2>1, <2>2, <2>3
<1> QED
  BY <1>1, <1>2, <1>3

\* More may be irreversible, and the head may be higher.
LEMMA TreeLinkedMore ==
    ASSUME TreeOK, NEW f \in Forks, NEW l \in Int, NEW M \in Int, TreeLinked(f, l, M),
           NEW k \in Int, l <= k, NEW N \in Int, M <= N
    PROVE  TreeLinked(f, k, N)
<1>1. \A b \in f.index : Num(b) \in Int
  BY ForkNumbers
<1>2. \A b \in f.index : Num(b) > k => Num(b) > l
  BY <1>1
<1>3. \A b \in f.index : Num(b) <= N
  BY <1>1 DEF TreeLinked
<1> QED
  BY <1>2, <1>3 DEF TreeLinked

\* Blocks that are too old leave: their children are irreversible.
LEMMA TreeErased ==
    ASSUME TreeOK, NEW f \in Forks, NEW l \in Int, NEW M \in Int, TreeLinked(f, l, M),
           NEW t \in Int, t <= l, t <= Num(f.head)
    PROVE  LET e == Erase(f, TooOld(f, t))
           IN  /\ e \in Forks /\ TreeLinked(e, l, M) /\ e.head = f.head
               /\ e.index \subseteq f.index
               /\ f.head \in f.index => e.head \in e.index
<1> DEFINE gone == TooOld(f, t)
           e == Erase(f, gone)
           dead == IF f.held THEN gone \ {f.head} ELSE gone
<1>1. /\ e \in Forks /\ e.index = f.index \ gone /\ e.head = f.head
      /\ e.linked = { b \in f.linked \ gone : Prev(b) \notin dead }
      /\ e.headLinked = (f.headLinked /\ Prev(f.head) \notin dead)
  BY EraseTyped DEF Erase
<1>2. /\ f.index \subseteq Block /\ f.linked \subseteq Block /\ Num(f.head) \in Nat
      /\ \A b \in Block : /\ Num(b) \in Nat \ {0} /\ Num(Prev(b)) = Num(b) - 1
                          /\ Prev(b) # b
  BY ForkNumbers
<1>3. f.head \notin gone /\ gone = { b \in f.index : Num(b) < t }
  BY <1>2 DEF TooOld
<1>4. dead = gone
  BY <1>3
<1>5. \A b \in f.index : Num(b) > l => Prev(b) \notin gone
  <2> SUFFICES ASSUME NEW b \in f.index, Num(b) > l
               PROVE  ~(Num(Prev(b)) < t)
    BY <1>3
  <2>1. Num(b) \in Nat /\ Num(Prev(b)) = Num(b) - 1
    BY <1>2
  <2> QED
    BY <2>1
<1> HIDE DEF gone, e, dead
<1>6. e.linked \subseteq e.index /\ \A b \in e.linked : Prev(b) \in e.index
  BY <1>1, <1>4 DEF TreeLinked
<1>7. /\ e.headLinked => Prev(e.head) # Genesis
      /\ e.head \in e.index /\ e.headLinked => Prev(e.head) \in e.index
  BY <1>1, <1>4 DEF TreeLinked
<1>8. \A b \in e.index :
          Num(b) > l /\ Num(b) > 1 => Prev(b) \in e.index /\ b \in e.linked
  BY <1>1, <1>4, <1>5 DEF TreeLinked
<1>9. \A b \in e.index : Num(b) <= M
  BY <1>1 DEF TreeLinked
<1>10. TreeLinked(e, l, M)
  BY <1>6, <1>7, <1>8, <1>9 DEF TreeLinked
<1> QED
  BY <1>1, <1>3, <1>10 DEF e, gone

\* _head moves to a block of the index.
LEMMA TreeMoved ==
    ASSUME TreeOK, NEW f \in Forks, NEW l, NEW M, TreeLinked(f, l, M),
           NEW h \in f.index, NEW i \in BOOLEAN, NEW live \in BOOLEAN,
           live => Prev(h) \in f.index
    PROVE  LET e == MoveHead(f, h, i, live)
           IN  /\ e \in Forks /\ TreeLinked(e, l, M) /\ e.head = h
               /\ e.index = f.index
<1> DEFINE e == MoveHead(f, h, i, live)
           dead == {f.head} \ f.index
<1>1. h \in BlockOrGenesis
  BY NumTyped DEF Forks
<1>2. e \in Forks
  BY <1>1, MoveHeadTyped
<1>3. /\ e.index = f.index /\ e.head = h
      /\ e.linked = { b \in f.linked : Prev(b) \notin dead }
      /\ e.headLinked => live
  BY DEF MoveHead
<1>4. e.linked = f.linked
  BY <1>3 DEF TreeLinked
<1>5. f.index \subseteq Block /\ Genesis \notin Block
  BY NumTyped DEF Forks
<1> HIDE DEF e, dead
<1>6. TreeLinked(e, l, M)
  BY <1>3, <1>4, <1>5 DEF TreeLinked
<1> QED
  BY <1>2, <1>3, <1>6 DEF e

\* Another block, whose parent is there.
LEMMA TreeIndexed ==
    ASSUME TreeOK, NEW f \in Forks, NEW l, NEW M \in Int, TreeLinked(f, l, M),
           f.head # Genesis, NEW b \in Block, Num(b) <= M,
           Prev(b) # Genesis => Prev(b) \in f.index
    PROVE  TreeLinked(Indexed(f, b), l, M)
<1> DEFINE g == Indexed(f, b)
<1>1. /\ g \in Forks /\ g.index = f.index \cup {b}
      /\ g.head = f.head /\ g.headLinked = f.headLinked
      /\ f.linked \subseteq g.linked
      /\ g.linked \subseteq f.linked \cup {b}
      /\ b \in g.linked /\ b \notin f.linked => Prev(b) # Genesis
      /\ f.head # Genesis /\ Prev(b) # Genesis /\ b \notin f.index
            => b \in g.linked
  BY IndexedTyped
<1> HIDE DEF g
<1>2. Prev(b) = Genesis <=> Num(b) = 1
  BY ForkNumbers
<1>3. g.linked \subseteq g.index /\ \A c \in g.linked : Prev(c) \in g.index
  BY <1>1 DEF TreeLinked
<1>4. /\ g.headLinked => Prev(g.head) # Genesis
      /\ g.head \in g.index /\ g.headLinked => Prev(g.head) \in g.index
  BY <1>1 DEF TreeLinked
<1>5. ASSUME NEW c \in g.index, Num(c) > l, Num(c) > 1
      PROVE  Prev(c) \in g.index /\ c \in g.linked
  <2>1. CASE c \in f.index
    BY <1>1, <1>5, <2>1 DEF TreeLinked
  <2>2. CASE c = b /\ b \notin f.index
    BY <1>1, <1>2, <1>5, <2>2
  <2> QED
    BY <1>1, <2>1, <2>2
<1>6. \A c \in g.index : Num(c) <= M
  BY <1>1 DEF TreeLinked
<1>7. TreeLinked(g, l, M)
  BY <1>3, <1>4, <1>5, <1>6 DEF TreeLinked
<1> QED
  BY <1>7 DEF g


\* push_block() of a block whose parent is there.
LEMMA TreePushed ==
    ASSUME TreeOK, NEW f \in Forks, f.head \in Block, NEW l \in Int, NEW M \in Int,
           TreeLinked(f, l, M), NEW b \in Block, Num(b) <= M,
           NEW size \in Int, size >= 1, Num(b) - size <= l,
           Acceptable(f, b, size)
    PROVE  LET p == push_block(f, b, size)
           IN  /\ p \in Forks /\ TreeLinked(p, l, M)
               /\ Num(b) > Num(f.head) => p.head = b /\ b \in p.index
               /\ ~(Num(b) > Num(f.head)) => p = Indexed(f, b) /\ p.head = f.head
<1> DEFINE p == push_block(f, b, size)
           g == Indexed(f, b)
           i == b \notin f.index
           live == f.head # Genesis /\ Prev(b) # Genesis
           x == MoveHead(g, b, i, live)
           t == Num(b) - size
<1>1. f.head # Genesis /\ Num(b) \in Nat /\ t \in Int /\ t <= Num(b) /\ t <= l
  <2>1. f.head # Genesis /\ Num(b) \in Nat
    BY NumTyped, ForkNumbers
  <2> QED
    BY <2>1
<1>2. /\ p \in Forks
      /\ p = IF Num(b) > Num(f.head) THEN Erase(x, TooOld(g, t)) ELSE g
      /\ p.head = IF Num(b) > Num(f.head) THEN b ELSE f.head
  BY <1>1, PushTyped
<1>3. Prev(b) # Genesis => Prev(b) \in f.index
  BY <1>1 DEF Acceptable
<1>4. TreeLinked(g, l, M) /\ g \in Forks /\ g.index = f.index \cup {b}
  BY <1>1, <1>3, TreeIndexed, IndexedTyped
<1>5. i \in BOOLEAN /\ live \in BOOLEAN /\ (live => Prev(b) \in g.index) /\ b \in g.index
  BY <1>3, <1>4
<1> HIDE DEF g, i, live, t
<1>6. x \in Forks /\ TreeLinked(x, l, M) /\ x.head = b /\ x.index = g.index
  BY <1>4, <1>5, TreeMoved
<1>7. TooOld(g, t) = TooOld(x, t)
  BY <1>6 DEF TooOld
<1> HIDE DEF x
<1>8. CASE Num(b) > Num(f.head)
  <2> DEFINE e == Erase(x, TooOld(x, t))
  <2>1. TreeLinked(e, l, M) /\ e.head = x.head /\ (x.head \in x.index => e.head \in e.index)
    BY <1>1, <1>6, TreeErased
  <2>2. p = e
    BY <1>2, <1>7, <1>8
  <2> HIDE DEF e, p
  <2> QED
    BY <1>2, <1>5, <1>6, <1>8, <2>1, <2>2 DEF p
<1>9. CASE ~(Num(b) > Num(f.head))
  <2>1. p = g
    BY <1>2, <1>9
  <2> HIDE DEF p
  <2> QED
    BY <1>2, <1>4, <1>9, <2>1 DEF p, g
<1> QED
  BY <1>8, <1>9

\* pop_block() moves _head to its parent.
LEMMA TreePopped ==
    ASSUME TreeOK, NEW f \in Forks, NEW l, NEW M, TreeLinked(f, l, M),
           f.head \in f.index, CanPop(f)
    PROVE  LET p == pop_block(f)
           IN  /\ TreeLinked(p, l, M) /\ p.head \in p.index
               /\ Num(p.head) = Num(f.head) - 1
<1> DEFINE h == Prev(f.head)
           i == h \in f.index
           live == h \in f.linked
           p == MoveHead(f, h, i, live)
<1>1. h \in f.index /\ f.head \in Block
  BY ForkNumbers DEF CanPop, TreeLinked
<1>2. i \in BOOLEAN /\ live \in BOOLEAN /\ (live => Prev(h) \in f.index)
  BY DEF TreeLinked
<1>3. pop_block(f) = p
  BY DEF pop_block, set_head
<1>4. Num(h) = Num(f.head) - 1
  BY <1>1, ForkNumbers
<1> HIDE DEF h, i, live
<1>5. TreeLinked(p, l, M) /\ p.head = h /\ p.index = f.index
  BY <1>1, <1>2, TreeMoved
<1> HIDE DEF p
<1> QED
  BY <1>1, <1>3, <1>4, <1>5

\* set_max_size() when a block is applied.
LEMMA TreeResized ==
    ASSUME TreeOK, NEW f \in Forks, f.head \in Block, NEW l \in Int, NEW M \in Int,
           TreeLinked(f, l, M), NEW size \in Int, size >= 0, Num(f.head) - size <= l
    PROVE  LET e == set_max_size(f, size)
           IN  /\ TreeLinked(e, l, M) /\ e.head = f.head
               /\ f.head \in f.index => e.head \in e.index
<1> DEFINE t == Num(f.head) - size
           e == Erase(f, TooOld(f, t))
<1>1. f.head # Genesis /\ Num(f.head) \in Nat
  BY NumTyped, ForkNumbers
<1>2. set_max_size(f, size) = e
  BY <1>1 DEF set_max_size
<1>3. t \in Int /\ t <= l /\ t <= Num(f.head)
  BY <1>1
<1> HIDE DEF t
<1>4. TreeLinked(e, l, M) /\ e.head = f.head /\ (f.head \in f.index => e.head \in e.index)
  BY <1>3, TreeErased
<1> HIDE DEF e
<1> QED
  BY <1>2, <1>4

\* The nodes that a change of forks goes through: the tree is linked, _head
\* is in it and at most one block above the chain.
WithTree(M) ==
    { m \in WithHistory(0) :
        m.ok => /\ TreeLinked(m.fork, m.lib, M)
                /\ m.fork.head \in m.fork.index
                /\ Num(m.fork.head) <= Num(m.head) + 1 }

\* A block is popped from both.
LEMMA WithTreePopped ==
    ASSUME TreeOK, NEW M \in Int
    PROVE  PopClosed(WithTree(M))
<1> SUFFICES ASSUME NEW n \in WithTree(M)
             PROVE  Popped(n) \in WithTree(M)
  BY DEF PopClosed
<1>1. n \in WithHistory(0) /\ n \in Nodes
  BY DEF WithTree, WithHistory
<1>2. Popped(n) \in WithHistory(0)
  BY <1>1, HistoryPopped DEF PopClosed
<1>3. CASE ~n.ok
  BY <1>3 DEF Popped
<1>4. CASE n.ok
  <2> DEFINE r == database_pop_block(n)
  <2>1. Popped(n) = r
    BY <1>4 DEF Popped
  <2>2. r \in Nodes /\ (r.ok => HasPopped(n, r))
    BY <1>1, <1>4, PopBlockOK
  <2> HIDE DEF r
  <2>3. ASSUME r.ok
        PROVE  /\ TreeLinked(r.fork, r.lib, M)
               /\ r.fork.head \in r.fork.index
               /\ Num(r.fork.head) <= Num(r.head) + 1
    <3>1. /\ n.head \in Block /\ CanPop(n.fork) /\ r.head = Prev(n.head)
          /\ r.fork = pop_block(n.fork) /\ r.lib = n.lib
      BY <2>2, <2>3 DEF HasPopped
    <3>2. /\ TreeLinked(n.fork, n.lib, M) /\ n.fork.head \in n.fork.index
          /\ Num(n.fork.head) <= Num(n.head) + 1 /\ n.fork \in Forks
      BY <1>1, <1>4 DEF WithTree, Nodes
    <3> DEFINE p == pop_block(n.fork)
    <3>3. /\ TreeLinked(p, n.lib, M) /\ p.head \in p.index
          /\ Num(p.head) = Num(n.fork.head) - 1
      BY <3>1, <3>2, TreePopped
    <3> HIDE DEF p
    <3>4. Num(r.head) = Num(n.head) - 1
      BY <3>1, PrevOK
    <3>5. Num(n.head) \in Int /\ Num(n.fork.head) \in Int
      BY <1>1, <3>2, NodeNumbers, ForkNumbers
    <3>6. Num(p.head) <= Num(r.head) + 1
      BY <3>2, <3>3, <3>4, <3>5
    <3> QED
      BY <3>1, <3>3, <3>6 DEF p
  <2> QED
    BY <1>2, <2>1, <2>3 DEF WithTree
<1> QED
  BY <1>3, <1>4

\* A block is applied, and the fork database loses what is too old by then.
LEMMA TreeApplied ==
    ASSUME TreeOK, NEW n \in WithHistory(0), NEW M \in Int, NEW b \in Block,
           n.fork.head \in Block, TreeLinked(n.fork, n.lib, M),
           Num(n.fork.head) <= Num(n.head) + 1,
           NEW r \in Nodes, NEW id, HasApplied(n, b, id, r)
    PROVE  /\ TreeLinked(r.fork, r.lib, M) /\ r.fork.head = n.fork.head
           /\ n.fork.head \in n.fork.index => r.fork.head \in r.fork.index
           /\ Num(r.fork.head) <= Num(r.head) /\ Num(r.head) = Num(n.head) + 1
<1> DEFINE e == set_max_size(n.fork, r.max_size)
<1>1. n \in Nodes /\ n.fork \in Forks /\ r.fork \in Forks /\ n.lib \in Int /\ r.lib \in Int
  BY DEF WithHistory, Nodes
<1>2. /\ Num(b) = Num(n.head) + 1
      /\ Num(b) - r.max_size = LastIrreversible(n.head) - 1
      /\ r.max_size >= 2 /\ n.lib <= r.lib
  BY <1>1, AppliedNumbers
<1>3. LastIrreversible(n.head) <= n.lib
  BY DEF WithHistory, History
<1>4. /\ Num(n.head) \in Nat /\ LastIrreversible(n.head) \in Nat
      /\ r.max_size \in Int /\ Num(n.fork.head) \in Nat
  BY <1>1, NodeNumbers, ForkNumbers
<1>5. r.head = b /\ r.fork = e
  BY DEF HasApplied
<1>6. Num(n.fork.head) - r.max_size <= n.lib /\ r.max_size >= 0
  BY <1>1, <1>2, <1>3, <1>4
<1>7. /\ TreeLinked(e, n.lib, M) /\ e.head = n.fork.head
      /\ n.fork.head \in n.fork.index => e.head \in e.index
  BY <1>1, <1>4, <1>6, TreeResized
<1> HIDE DEF e
<1>8. TreeLinked(r.fork, r.lib, M)
  <2>1. TreeLinked(r.fork, n.lib, M) /\ M <= M
    BY <1>5, <1>7
  <2> QED
    BY <1>1, <1>2, <2>1, TreeLinkedMore
<1>9. Num(r.fork.head) <= Num(r.head) /\ Num(r.head) = Num(n.head) + 1
  BY <1>2, <1>5, <1>7
<1> QED
  BY <1>5, <1>7, <1>8, <1>9

\* A branch that is applied does not lead out of the set.
LEMMA WithTreeApplied ==
    ASSUME TreeOK, NEW M \in Int, NEW n \in WithTree(M), NEW b \in Block
    PROVE  Applied(n, b, b) \in WithTree(M)
<1>1. n \in WithHistory(0) /\ n \in Nodes
  BY DEF WithTree, WithHistory
<1>2. Applied(n, b, b) \in WithHistory(0)
  BY <1>1, HistoryApplied
<1>3. CASE ~n.ok
  BY <1>3 DEF Applied
<1>4. CASE n.ok
  <2> DEFINE r == ApplyAndStore(n, b, b)
  <2>1. Applied(n, b, b) = r
    BY <1>4 DEF Applied
  <2>2. r \in Nodes /\ (r.ok => HasApplied(n, b, b, r))
    BY <1>1, <1>4, ApplyAndStoreOK
  <2> HIDE DEF r
  <2>3. ASSUME r.ok
        PROVE  /\ TreeLinked(r.fork, r.lib, M)
               /\ r.fork.head \in r.fork.index
               /\ Num(r.fork.head) <= Num(r.head) + 1
    <3>1. /\ TreeLinked(n.fork, n.lib, M) /\ n.fork.head \in n.fork.index
          /\ Num(n.fork.head) <= Num(n.head) + 1 /\ n.fork \in Forks
      BY <1>1, <1>4 DEF WithTree, Nodes
    <3>2. n.fork.head \in Block
      BY <3>1 DEF Forks
    <3>3. /\ TreeLinked(r.fork, r.lib, M) /\ r.fork.head \in r.fork.index
          /\ Num(r.fork.head) <= Num(r.head)
      BY <1>1, <2>2, <2>3, <3>1, <3>2, TreeApplied
    <3>4. Num(r.fork.head) \in Int /\ Num(r.head) \in Int
      BY <2>2, NodeNumbers, ForkNumbers DEF Nodes
    <3> QED
      BY <3>3, <3>4
  <2> QED
    BY <1>2, <2>1, <2>3 DEF WithTree
<1> QED
  BY <1>3, <1>4

\* A new block on top of the head is refused: it was pushed to the fork
\* database and is removed again, but stays its head.
LEMMA TreeRefused ==
    ASSUME TreeOK, NEW f \in Forks, f.head \in Block, NEW l \in Int, NEW M \in Int,
           TreeLinked(f, l, M), NEW b \in Block, Num(b) <= M + 1, b \notin f.index,
           NEW size \in Int, size >= 1, Num(b) - size <= l,
           Acceptable(f, b, size)
    PROVE  LET e == remove(push_block(f, b, size), b)
           IN  /\ TreeLinked(e, l, M)
               /\ e.head = IF Num(b) > Num(f.head) THEN b ELSE f.head
<1> DEFINE p == push_block(f, b, size)
           e == remove(p, b)
<1>0. M <= M + 1 /\ M + 1 \in Int /\ l <= l
  OBVIOUS
<1>1. TreeLinked(f, l, M + 1)
  BY <1>0, TreeLinkedMore
<1>2. /\ p \in Forks /\ TreeLinked(p, l, M + 1)
      /\ Num(b) > Num(f.head) => p.head = b /\ b \in p.index
      /\ ~(Num(b) > Num(f.head)) => p = Indexed(f, b) /\ p.head = f.head
  BY <1>0, <1>1, TreePushed
<1>3. f.head # Genesis /\ p = IF Num(b) > Num(f.head)
                    THEN Erase(MoveHead(Indexed(f, b), b, TRUE, f.head # Genesis /\ Prev(b) # Genesis),
                               TooOld(Indexed(f, b), Num(b) - size))
                    ELSE Indexed(f, b)
  BY NumTyped, PushTyped
<1>4. /\ Indexed(f, b) \in Forks /\ Indexed(f, b).index = f.index \cup {b}
      /\ Indexed(f, b).held = f.held
      /\ Indexed(f, b).linked \subseteq f.linked \cup {b}
  BY IndexedTyped
<1>5. /\ p.index \subseteq f.index \cup {b} /\ p.linked \subseteq f.linked \cup {b}
      /\ Num(b) > Num(f.head) => p.held
  <2>1. CASE Num(b) > Num(f.head)
    <3> DEFINE g == Indexed(f, b)
               live == f.head # Genesis /\ Prev(b) # Genesis
               x == MoveHead(g, b, TRUE, live)
               gone == TooOld(g, Num(b) - size)
    <3>1. p = Erase(x, gone)
      BY <1>3, <2>1
    <3> HIDE DEF g, live, gone
    <3>2. /\ x.index = g.index /\ x.linked \subseteq g.linked /\ x.held = TRUE
          /\ x.head = b
      BY DEF MoveHead
    <3>3. b \notin gone
      BY <1>2, <2>1, <3>1, <3>2 DEF Erase
    <3> HIDE DEF x, p
    <3> QED
      BY <1>4, <3>1, <3>2, <3>3 DEF Erase, g
  <2>2. CASE ~(Num(b) > Num(f.head))
    BY <1>2, <1>4, <2>2
  <2> QED
    BY <2>1, <2>2
<1> HIDE DEF p
<1>6. b \in p.index
  BY <1>2, <1>4
<1> DEFINE dead == IF p.held THEN {b} \ {p.head} ELSE {b}
<1>7. /\ e.index = p.index \ {b} /\ e.head = p.head
      /\ e.linked = { c \in p.linked \ {b} : Prev(c) \notin dead }
      /\ e.headLinked = (p.headLinked /\ Prev(p.head) \notin dead)
  <2>1. {b} \cap p.index = {b}
    BY <1>6
  <2> QED
    BY <2>1 DEF remove, Erase
<1>8. ASSUME NEW c \in f.index, c \in f.linked \/ (Num(c) > l /\ Num(c) > 1)
      PROVE  Prev(c) \in f.index /\ Prev(c) # b
  BY <1>8 DEF TreeLinked
<1>9. dead \subseteq {b} /\ (Num(b) > Num(f.head) => dead = {})
  BY <1>2, <1>5
<1> HIDE DEF e, dead
<1>10. e.linked \subseteq e.index /\ \A c \in e.linked : Prev(c) \in e.index
  <2>1. ASSUME NEW c \in e.linked
        PROVE  c \in e.index /\ Prev(c) \in e.index
    <3>1. c \in p.linked /\ c # b
      BY <1>7, <2>1
    <3>2. c \in f.linked /\ c \in f.index
      BY <1>5, <3>1 DEF TreeLinked
    <3>3. Prev(c) # b
      BY <1>8, <3>2
    <3> QED
      BY <1>2, <1>7, <3>1, <3>3 DEF TreeLinked
  <2> QED
    BY <2>1
<1>11. /\ e.headLinked => Prev(e.head) # Genesis
       /\ e.head \in e.index /\ e.headLinked => Prev(e.head) \in e.index
  <2>1. e.headLinked => p.headLinked /\ Prev(e.head) # Genesis
    BY <1>2, <1>7 DEF TreeLinked
  <2>2. ASSUME e.head \in e.index, e.headLinked
        PROVE  Prev(e.head) \in e.index
    <3>1. p.head \in p.index /\ p.head # b /\ p.headLinked
      BY <1>7, <2>2
    <3>2. Prev(p.head) \in p.index
      BY <1>2, <3>1 DEF TreeLinked
    <3>3. ~(Num(b) > Num(f.head)) /\ p.head = f.head /\ p = Indexed(f, b)
      BY <1>2, <3>1
    <3>4. f.headLinked /\ f.head \in f.index
      BY <1>5, <3>1, <3>3, IndexedTyped
    <3>5. Prev(p.head) # b
      BY <3>3, <3>4 DEF TreeLinked
    <3> QED
      BY <1>7, <3>2, <3>5
  <2> QED
    BY <2>1, <2>2
<1>12. ASSUME NEW c \in e.index
       PROVE  /\ Num(c) > l /\ Num(c) > 1 => Prev(c) \in e.index /\ c \in e.linked
              /\ Num(c) <= M
  <2>1. c \in p.index /\ c # b /\ c \in f.index
    BY <1>5, <1>7, <1>12
  <2>2. Num(c) <= M
    BY <2>1 DEF TreeLinked
  <2>3. ASSUME Num(c) > l, Num(c) > 1
        PROVE  Prev(c) \in e.index /\ c \in e.linked
    <3>1. Prev(c) # b
      BY <1>8, <2>1, <2>3
    <3>2. Prev(c) \in p.index /\ c \in p.linked
      BY <1>2, <2>1, <2>3 DEF TreeLinked
    <3> QED
      BY <1>7, <1>9, <2>1, <3>1, <3>2
  <2> QED
    BY <2>2, <2>3
<1>13. TreeLinked(e, l, M)
  BY <1>10, <1>11, <1>12 DEF TreeLinked
<1> QED
  BY <1>2, <1>7, <1>13 DEF e, p

\* Between two calls: nothing was pushed yet, or the fork database is a tree
\* no higher than the chain, and its head too, unless it is a block that was
\* refused on top of the chain.
TreeInv(n) ==
    \/ /\ n.head = Genesis /\ n.fork.head = Genesis
       /\ n.fork.index = {} /\ n.fork.linked = {}
    \/ /\ n.fork.head \in Block
       /\ TreeLinked(n.fork, n.lib, Num(n.head))
       /\ Num(n.fork.head) <= Num(n.head) \/ Prev(n.fork.head) = n.head

\* The first block of all.
LEMMA FirstPushed ==
    ASSUME TreeOK, NEW f \in Forks, f.head = Genesis, f.index = {}, f.linked = {},
           NEW l \in Int, NEW b \in Block, NEW size \in Int
    PROVE  LET p == push_block(f, b, size)
           IN  /\ p.head = b /\ p.index = {b} /\ p.linked = {} /\ ~p.headLinked
               /\ p.held /\ (Prev(b) = Genesis => TreeLinked(p, l, 1))
<1> DEFINE p == push_block(f, b, size)
           g == Indexed(f, b)
           live == f.head # Genesis /\ Prev(b) # Genesis
<1>1. p = MoveHead(g, b, TRUE, live) /\ live = FALSE
  BY PushTyped
<1>2. g.index = {b} /\ g.linked = {}
  BY DEF Indexed, Forks
<1> HIDE DEF g, live
<1>3. p.head = b /\ p.index = {b} /\ p.linked = {} /\ ~p.headLinked /\ p.held
  <2>1. p = MoveHead(g, b, TRUE, FALSE)
    BY <1>1
  <2> DEFINE q == MoveHead(g, b, TRUE, FALSE)
  <2>2. q.head = b /\ q.index = {b} /\ q.linked = {} /\ q.held = TRUE
    BY <1>2 DEF MoveHead
  <2>3. q.headLinked = FALSE
    BY DEF MoveHead
  <2> HIDE DEF q, p
  <2>4. p = q
    BY <2>1 DEF q
  <2> QED
    BY <2>2, <2>3, <2>4
<1>4. Prev(b) = Genesis => Num(b) = 1
  BY ForkNumbers
<1> HIDE DEF p
<1>5. Prev(b) = Genesis => TreeLinked(p, l, 1)
  BY <1>3, <1>4 DEF TreeLinked
<1> QED
  BY <1>3, <1>5 DEF p

\* A block that is acceptable is at most one above the chain.
LEMMA AcceptableNumber ==
    ASSUME TreeOK, NEW f \in Forks, f.head \in Block, NEW l, NEW M \in Nat,
           TreeLinked(f, l, M), NEW b \in Block, NEW size, Acceptable(f, b, size)
    PROVE  Num(b) <= M + 1
<1>1. /\ Num(b) \in Nat /\ Num(Prev(b)) = Num(b) - 1 /\ (Prev(b) = Genesis => Num(b) = 1)
      /\ f.head # Genesis
  BY ForkNumbers, NumTyped
<1>2. Prev(b) # Genesis => Num(Prev(b)) <= M
  BY <1>1 DEF Acceptable, TreeLinked
<1> QED
  BY <1>1, <1>2

\* A call that succeeds keeps the tree.
LEMMA TreeOutcome ==
    ASSUME TreeOK, NEW s \in WithHistory(0), s.ok, TreeInv(s), NEW b \in Block,
           Acceptable(s.fork, b, s.max_size),
           NEW r \in WithHistory(0), r.ok, Outcome(Linked(s, b), b, r)
    PROVE  TreeInv(r)
<1> DEFINE x == Linked(s, b)
<1>1. s \in Nodes /\ r \in Nodes /\ s.fork \in Forks
  BY DEF WithHistory, Nodes
<1>2. /\ x \in Nodes /\ x.fork = push_block(s.fork, b, s.max_size)
      /\ x.head = s.head /\ x.undo = s.undo /\ x.max_size = s.max_size
      /\ x.lib = s.lib /\ x.ok
  BY <1>1, LinkedOK
<1>21. Outcome(x, b, r)
  OBVIOUS
<1> HIDE DEF x
<1>3. x \in WithHistory(0)
  BY <1>2, SameHistory
<1>4. /\ Num(s.head) \in Nat /\ s.lib \in Int /\ s.max_size \in Int
      /\ s.max_size >= 1 /\ Num(s.head) - s.max_size <= s.lib - 1
      /\ Num(b) \in Nat \ {0} /\ Num(Genesis) = 0 /\ Genesis \notin Block
  BY <1>1, NodeNumbers, ForkNumbers, NumTyped DEF WithHistory, History
<1>5. ASSUME NEW M \in Int, HasApplied(x, b, b, r), x.fork.head \in Block,
             TreeLinked(x.fork, x.lib, M), Num(x.fork.head) <= Num(x.head) + 1,
             M = Num(x.head) + 1
      PROVE  TreeInv(r)
  <2>1. /\ TreeLinked(r.fork, r.lib, M) /\ r.fork.head = x.fork.head
        /\ Num(r.fork.head) <= Num(r.head) /\ Num(r.head) = M
    BY <1>1, <1>3, <1>5, TreeApplied
  <2> QED
    BY <1>5, <2>1 DEF TreeInv
<1>6. CASE /\ s.head = Genesis /\ s.fork.head = Genesis
           /\ s.fork.index = {} /\ s.fork.linked = {}
  <2> DEFINE p == push_block(s.fork, b, s.max_size)
  <2>1. p.head = b /\ (Prev(b) = Genesis => TreeLinked(p, s.lib, 1))
    BY <1>1, <1>4, <1>6, FirstPushed
  <2> HIDE DEF p
  <2>2. x.fork.head = b /\ (Prev(b) = Genesis => TreeLinked(x.fork, x.lib, 1))
    BY <1>2, <2>1 DEF p
  <2>3. CASE HasApplied(x, b, b, r)
    <3>1. Prev(b) = Genesis
      BY <1>2, <1>6, <2>3 DEF HasApplied
    <3>2. Num(b) = 1
      BY <1>1, <3>1, ForkNumbers
    <3> QED
      BY <1>2, <1>4, <1>5, <1>6, <2>2, <2>3, <3>1, <3>2
  <2>4. CASE SwitchedTo(x, x.fork.head, r)
    BY <1>2, <1>4, <1>6, <2>4 DEF SwitchedTo
  <2>5. CASE ~(Num(x.fork.head) > Num(x.head))
    BY <1>2, <1>4, <1>6, <2>2, <2>5
  <2> QED
    BY <1>21, <2>3, <2>4, <2>5 DEF Outcome
<1>7. CASE /\ s.fork.head \in Block
           /\ TreeLinked(s.fork, s.lib, Num(s.head))
           /\ Num(s.fork.head) <= Num(s.head) \/ Prev(s.fork.head) = s.head
  <2> DEFINE f == s.fork
             h == Num(s.head)
             M == h + 1
  <2>1. Num(b) <= M
    BY <1>1, <1>4, <1>7, AcceptableNumber
  <2>2. Num(b) - s.max_size <= s.lib
    BY <1>4, <2>1
  <2>3. Num(f.head) \in Nat /\ Num(f.head) <= M
    <3>1. Num(f.head) \in Nat /\ Num(Prev(f.head)) = Num(f.head) - 1
      BY <1>1, <1>7, ForkNumbers
    <3> QED
      BY <1>4, <1>7, <3>1
  <2>4. M \in Int /\ h \in Int /\ h <= M /\ s.lib <= s.lib
    BY <1>4
  <2>5. TreeLinked(f, s.lib, M)
    BY <1>1, <1>4, <1>7, <2>4, TreeLinkedMore
  <2> DEFINE p == push_block(f, b, s.max_size)
  <2>6. /\ TreeLinked(p, s.lib, M)
        /\ Num(b) > Num(f.head) => p.head = b /\ b \in p.index
        /\ ~(Num(b) > Num(f.head)) => p.head = f.head
    BY <1>1, <1>4, <1>7, <2>1, <2>2, <2>4, <2>5, TreePushed
  <2>7. Num(b) <= h => TreeLinked(p, s.lib, h)
    BY <1>1, <1>4, <1>7, <2>2, <2>4, TreePushed
  <2>8. x.fork = p
    BY <1>2
  <2> HIDE DEF p
  <2>9. x.fork.head \in Block /\ Num(x.fork.head) <= M /\ Num(b) <= Num(x.fork.head)
    BY <1>4, <1>7, <2>1, <2>3, <2>6, <2>8
  <2>10. CASE HasApplied(x, b, b, r)
    BY <1>2, <1>5, <2>4, <2>6, <2>8, <2>9, <2>10
  <2>11. CASE /\ Num(x.fork.head) > Num(x.head) /\ Prev(x.fork.head) # x.head
              /\ SwitchedTo(x, x.fork.head, r)
    <3>1. x.fork.head = b /\ b \in x.fork.index /\ Num(b) = M
      <4>1. ~(Num(b) > Num(f.head)) => x.fork.head = f.head
        BY <2>6, <2>8
      <4>2. Num(b) > Num(f.head)
        BY <1>2, <1>4, <1>7, <2>3, <2>11, <4>1
      <4>3. Num(b) > h
        BY <1>2, <2>6, <2>8, <2>11, <4>2
      <4> QED
        BY <1>4, <2>1, <2>6, <2>8, <4>2, <4>3
    <3> DEFINE V == WithTree(M)
    <3>2. x \in V /\ V \in SUBSET Nodes /\ PopClosed(V)
      <4>1. x \in V
        BY <1>2, <1>3, <2>6, <2>8, <2>9, <3>1 DEF WithTree
      <4>2. V \in SUBSET Nodes
        BY DEF WithTree, WithHistory
      <4>3. PopClosed(V)
        BY <2>4, WithTreePopped
      <4> QED
        BY <4>1, <4>2, <4>3
    <3>3. PICK base \in BlockOrGenesis, branch \in Seq(Block) :
            /\ Num(base) <= Num(x.head)
            /\ branch # <<>> /\ branch[Len(branch)] = x.fork.head
            /\ r = ApplyBranch(PopTo(x, base), branch, branch)
      BY <2>11 DEF SwitchedTo
    <3> DEFINE q == PopTo(x, base)
    <3>4. \A i \in 1 .. Len(branch) : branch[i] \in Block
      OBVIOUS
    <3>5. ApplyClosed(V, branch, branch)
      <4>1. \A m \in V : \A c \in Block : Applied(m, c, c) \in V
        BY <2>4, WithTreeApplied
      <4> HIDE DEF V
      <4> QED
        BY <3>4, <4>1 DEF ApplyClosed
    <3> HIDE DEF V
    <3>6. q \in V
      BY <3>2, <3>3, PopToOK
    <3>7. r = ApplyBranch(q, branch, branch)
      BY <3>3
    <3> HIDE DEF q
    <3>8. r \in V /\ r.head = b
      BY <3>1, <3>2, <3>3, <3>4, <3>5, <3>6, <3>7, ApplyBranchOK
    <3>9. TreeLinked(r.fork, r.lib, Num(r.head)) /\ r.fork.head \in r.fork.index
      BY <3>1, <3>8 DEF V, WithTree
    <3>10. r.fork.head \in Block /\ Num(r.fork.head) <= Num(r.head)
      BY <1>1, <3>9 DEF TreeLinked, Nodes, Forks
    <3> QED
      BY <3>9, <3>10 DEF TreeInv
  <2>12. CASE ~(Num(x.fork.head) > Num(x.head)) /\ r = x
    <3>1. Num(x.fork.head) \in Nat
      BY <1>2, ForkNumbers DEF Nodes
    <3>2. Num(x.fork.head) <= h
      BY <1>2, <1>4, <2>12, <3>1
    <3>3. Num(b) <= h
      BY <1>4, <2>9, <3>1, <3>2
    <3>4. TreeLinked(x.fork, x.lib, Num(x.head))
      BY <1>2, <2>7, <2>8, <3>3
    <3> QED
      BY <1>2, <2>9, <2>12, <3>2, <3>4 DEF TreeInv
  <2> QED
    BY <1>21, <2>10, <2>11, <2>12 DEF Outcome
<1> QED
  BY <1>6, <1>7 DEF TreeInv

\* A call that fails has left the chain and the fork database alone, or it
\* has refused a block it did not know on top of the chain.  (A change of
\* forks that fails removes blocks whose children stay; so does a block that
\* is sent again after another one was refused.)
RefusesOnTop ==
    \/ node'.ok
    \/ node'.head = node.head /\ node'.fork = node.fork
    \/ \E b \in Block \ node.fork.index :
          /\ Prev(b) = node.head /\ node'.head = node.head
          /\ Acceptable(node.fork, b, node.max_size)
          /\ node'.fork = remove(push_block(node.fork, b, node.max_size), b)

\* The block that was refused stays the head of the fork database.
LEMMA TreeInvRefused ==
    ASSUME TreeOK, NEW n \in WithHistory(0), TreeInv(n),
           NEW b \in Block, b \notin n.fork.index, Prev(b) = n.head,
           Acceptable(n.fork, b, n.max_size), NEW r \in Nodes, r.head = n.head,
           r.fork = remove(push_block(n.fork, b, n.max_size), b), n.lib <= r.lib
    PROVE  TreeInv(r)
<1> DEFINE f == n.fork
           p == push_block(f, b, n.max_size)
           e == remove(p, b)
<1>1. n \in Nodes /\ f \in Forks /\ n.lib \in Int /\ r.lib \in Int /\ r.fork \in Forks
  BY DEF WithHistory, Nodes
<1>2. /\ Num(n.head) \in Nat /\ n.max_size \in Int
      /\ n.max_size >= 1 /\ Num(n.head) - n.max_size <= n.lib - 1
      /\ Num(b) \in Nat /\ Num(b) = Num(n.head) + 1
  <2>1. Num(b) \in Nat /\ Num(n.head) = Num(b) - 1
    BY <1>1, ForkNumbers
  <2> QED
    BY <1>1, <2>1, NodeNumbers DEF WithHistory, History
<1>3. CASE /\ n.head = Genesis /\ f.head = Genesis
           /\ f.index = {} /\ f.linked = {}
  <2>1. /\ p.head = b /\ p.index = {b} /\ p.linked = {} /\ ~p.headLinked
    BY <1>1, <1>2, <1>3, FirstPushed
  <2> HIDE DEF p
  <2>2. e.head = b /\ e.index = {} /\ e.linked = {} /\ ~e.headLinked
    BY <2>1 DEF remove, Erase
  <2>3. r.fork = e
    BY DEF p
  <2> HIDE DEF e
  <2>4. TreeLinked(r.fork, r.lib, Num(r.head))
    BY <2>2, <2>3 DEF TreeLinked
  <2> QED
    BY <2>2, <2>3, <2>4 DEF TreeInv
<1>4. CASE /\ f.head \in Block
           /\ TreeLinked(f, n.lib, Num(n.head))
           /\ Num(f.head) <= Num(n.head) \/ Prev(f.head) = n.head
  <2>1. Num(b) - n.max_size <= n.lib /\ Num(b) <= Num(n.head) + 1 /\ Num(n.head) \in Int
    BY <1>1, <1>2
  <2>2. /\ TreeLinked(e, n.lib, Num(n.head))
        /\ e.head = IF Num(b) > Num(f.head) THEN b ELSE f.head
    BY <1>1, <1>2, <1>4, <2>1, TreeRefused
  <2>3. r.fork = e
    OBVIOUS
  <2> HIDE DEF e, p, f
  <2>4. TreeLinked(r.fork, n.lib, Num(n.head)) /\ Num(n.head) <= Num(n.head)
    BY <1>2, <2>2, <2>3
  <2>5. TreeLinked(r.fork, r.lib, Num(r.head))
    BY <1>1, <1>2, <2>4, TreeLinkedMore
  <2>6. Num(f.head) \in Nat
    BY <1>1, ForkNumbers
  <2>7. /\ r.fork.head \in Block
        /\ Num(r.fork.head) <= Num(r.head) \/ Prev(r.fork.head) = r.head
    BY <1>2, <1>4, <2>2, <2>3
  <2> QED
    BY <2>5, <2>7 DEF TreeInv
<1> QED
  BY <1>3, <1>4 DEF TreeInv

\* A step of a running node keeps the tree.
LEMMA TreeStep ==
    ASSUME HInv, TreeInv(node), Next, up', RefusesOnTop
    PROVE  TreeInv(node')
<1>1. TreeOK /\ node \in WithHistory(0) /\ up /\ node \in Nodes /\ node.lib \in Int
  BY DEF HInv, WithHistory, Nodes
<1>2. node' \in WithHistory(0)
  BY <1>1, HistoryStep
<1>3. node' \in Nodes /\ node.lib <= node'.lib
  <2>1. node \in WithHistory(node.lib)
    BY <1>1 DEF WithHistory, History
  <2>2. node' \in WithHistory(node.lib)
    BY <1>1, <2>1, HistoryStep
  <2> QED
    BY <2>2 DEF WithHistory, History
<1>4. ASSUME node'.head = node.head, node'.fork = node.fork
      PROVE  TreeInv(node')
  <2>1. /\ node.fork \in Forks /\ node'.lib \in Int /\ Num(node.head) \in Int
        /\ Num(node.head) <= Num(node.head)
    BY <1>1, <1>3, NodeNumbers DEF Nodes
  <2>2. TreeLinked(node.fork, node.lib, Num(node.head))
            => TreeLinked(node.fork, node'.lib, Num(node.head))
    BY <1>1, <1>3, <2>1, TreeLinkedMore
  <2> QED
    BY <1>4, <2>2 DEF TreeInv
<1>5. ASSUME NEW b \in Block, NEW s \in WithHistory(0), NEW r \in WithHistory(0),
             Succeeded(node, s, b, r), Alike(r, node')
      PROVE  TreeInv(node')
  <2>1. /\ Alike(node, s) /\ s.ok /\ r.ok /\ Acceptable(s.fork, b, s.max_size)
        /\ Outcome(Linked(s, b), b, r)
    BY <1>5 DEF Succeeded
  <2>2. TreeInv(s)
    BY <2>1 DEF Alike, TreeInv
  <2>3. TreeInv(r)
    BY <1>1, <2>1, <2>2, TreeOutcome
  <2> QED
    BY <1>5, <2>3 DEF Alike, TreeInv
<1>6. CASE ~node'.ok
  <2>1. ASSUME NEW b \in Block \ node.fork.index,
               Prev(b) = node.head, node'.head = node.head,
               Acceptable(node.fork, b, node.max_size),
               node'.fork = remove(push_block(node.fork, b, node.max_size), b)
        PROVE  TreeInv(node')
    BY <1>1, <1>3, <2>1, TreeInvRefused
  <2> QED
    BY <1>4, <1>6, <2>1 DEF RefusesOnTop
<1>7. CASE Alike(node, node')
  BY <1>4, <1>7 DEF Alike
<1> DEFINE V == WithHistory(0)
<1>8. Closed(V)
  BY <1>1, HistoryClosed
<1>9. \A s, r \in V : \A b \in Block :
          Succeeded(node, s, b, r) /\ Alike(r, node') => TreeInv(node')
  BY <1>5
<1>10. node \in V
  BY <1>1
<1> HIDE DEF V
<1> QED
  BY <1>1, <1>6, <1>7, <1>8, <1>9, <1>10, StepOutcome

\* The fork database of a running node is a tree above the last irreversible
\* block, with live links all the way down, whatever forks it has switched
\* between and however often a bad block on top of its chain was refused, as
\* long as no change of forks fails.
THEOREM RunningForkTree ==
    Spec /\ []up /\ [][RefusesOnTop]_vars => []ForkTreeLinked
<1> DEFINE T == TreeInv(node)
<1>1. Init => T
  BY DEF Init, Fresh, NoFork, TreeInv
<1>2. ASSUME HInv, T, [Next]_vars, up', [RefusesOnTop]_vars
      PROVE  T'
  <2>1. CASE UNCHANGED vars
    BY <1>2, <2>1 DEF vars, TreeInv, TreeLinked, Num, Prev
  <2>2. CASE Next /\ ~UNCHANGED vars
    <3>1. TreeInv(node') /\ UNCHANGED path
      BY <1>2, <2>2, TreeStep, HistoryStep DEF HInv
    <3> QED
      BY <3>1 DEF TreeInv, TreeLinked, Num, Prev
  <2> QED
    BY <1>2, <2>1, <2>2
<1>3. HInv /\ T => ForkTreeLinked
  <2> SUFFICES ASSUME HInv, T, NEW b \in node.fork.index,
                      Num(b) > Max({node.lib, 1})
               PROVE  Prev(b) \in node.fork.index /\ b \in node.fork.linked
    BY DEF ForkTreeLinked
  <2>1. node \in Nodes /\ TreeOK /\ node.lib \in Int /\ node.fork \in Forks
    BY DEF HInv, WithHistory, Nodes
  <2>2. Max({node.lib, 1}) = IF node.lib <= 1 THEN 1 ELSE node.lib
    BY <2>1, MaxOfTwo
  <2>3. Num(b) \in Nat
    BY <2>1, ForkNumbers
  <2>4. Num(b) > node.lib /\ Num(b) > 1
    BY <2>1, <2>2, <2>3
  <2> QED
    BY <2>4 DEF TreeInv, TreeLinked
<1> HIDE DEF T
<1> QED
  BY <1>1, <1>2, <1>3, InitHInv, HInvStep, PTL DEF Spec

-----------------------------------------------------------------------------
(***************************************************************************)
(* Stopping and starting.                                                  *)
(***************************************************************************)
\* apply_block() accepts b on top of its parent.
Fit(b) == b \notin bad /\ Num(b) - LastIrreversible(Prev(b)) < MaxUndoHistory

\* Every block of the chain to h could be applied.
FitChain(h) == \A b \in Block : OnChain(b, h) => Fit(b)

\* A node whose chain starts with that of `base', and which has undo states
\* for blocks above it only.
AboveBase(n, base) ==
    /\ OnChain(base, n.head)
    /\ FitChain(n.head)
    /\ n.undo <= Num(n.head) - Num(base)
    /\ Block # {} => n.undo >= 0 /\ n.max_size >= 2

WithBase(base) == { n \in Nodes : AboveBase(n, base) }

\* Chains and parents.
LEMMA OnChainStep ==
    ASSUME TreeOK, NEW b \in Block, NEW a \in BlockOrGenesis
    PROVE  /\ OnChain(Prev(b), b) /\ OnChain(b, b)
           /\ OnChain(a, b) <=> a = b \/ OnChain(a, Prev(b))
<1>1. /\ path[b][Num(b)] = b /\ Num(b) \in Nat \ {0}
      /\ \A i \in 1 .. Num(b) : Num(path[b][i]) = i
  BY OnPath
<1>2. /\ Prev(b) \in BlockOrGenesis /\ Num(Prev(b)) = Num(b) - 1
      /\ \A i \in 1 .. Num(b) - 1 : path[Prev(b)][i] = path[b][i]
  BY PrevOK
<1>3. OnChain(b, b)
  BY <1>1 DEF OnChain
<1>4. b \in BlockOrGenesis /\ b # Genesis
  BY NumTyped
<1>5. OnChain(Prev(b), b)
  BY <1>3, <1>4, OnChainPath
<1>6. CASE a = Genesis
  BY <1>3, <1>5, <1>6 DEF OnChain
<1>7. CASE a # Genesis
  <2>1. a \in Block /\ Num(a) \in Nat \ {0} /\ path[a][Num(a)] = a
    BY <1>7, NumTyped, OnPath
  <2>2. ASSUME OnChain(a, b), a # b
        PROVE  OnChain(a, Prev(b))
    <3>1. Num(a) <= Num(b) /\ path[b][Num(a)] = a
      BY <1>7, <2>2 DEF OnChain
    <3>2. Num(a) # Num(b)
      BY <1>1, <2>2, <3>1
    <3>3. Num(a) \in 1 .. Num(b) - 1
      BY <1>1, <2>1, <3>1, <3>2
    <3> QED
      BY <1>1, <1>2, <3>1, <3>3 DEF OnChain
  <2>3. ASSUME OnChain(a, Prev(b))
        PROVE  OnChain(a, b)
    <3>1. Num(a) <= Num(Prev(b)) /\ path[Prev(b)][Num(a)] = a
      BY <1>7, <2>3 DEF OnChain
    <3>2. Num(a) \in 1 .. Num(b) - 1
      BY <1>1, <1>2, <2>1, <3>1
    <3> QED
      BY <1>1, <1>2, <3>1, <3>2 DEF OnChain
  <2> QED
    BY <1>3, <1>5, <2>2, <2>3
<1> QED
  BY <1>6, <1>7

\* A chain that goes on, or loses its head, can be applied.
LEMMA FitChainStep ==
    ASSUME TreeOK, NEW b \in Block
    PROVE  /\ FitChain(b) => FitChain(Prev(b))
           /\ FitChain(Prev(b)) /\ Fit(b) => FitChain(b)
<1>1. \A c \in Block : OnChain(c, b) <=> c = b \/ OnChain(c, Prev(b))
  BY OnChainStep, NumTyped
<1> QED
  BY <1>1 DEF FitChain

\* No call leads below the base.
LEMMA BaseClosed ==
    ASSUME TreeOK, NEW base \in BlockOrGenesis
    PROVE  Closed(WithBase(base))
<1> DEFINE V == WithBase(base)
<1>1. V \in SUBSET Nodes
  BY DEF WithBase
<1>2. ASSUME NEW n \in V
      PROVE  /\ n \in Nodes /\ AboveBase(n, base)
             /\ Num(n.head) \in Nat /\ n.undo \in Int /\ n.max_size \in Int
             /\ Num(base) \in Nat /\ Sessions \in 0 .. 1
  BY <1>1, NodeNumbers, NumTyped DEF WithBase, BlockOrGenesis
<1>3. ASSUME NEW n \in V, n.ok, NEW b \in Block, NEW id \in Block
      PROVE  ApplyAndStore(n, b, id) \in V
  <2> DEFINE r == ApplyAndStore(n, b, id)
  <2>1. /\ r \in Nodes /\ (r.ok => HasApplied(n, b, id, r))
        /\ ~r.ok => Alike(n, r) /\ r.undo = Kept(n, Sessions)
    BY <1>2, <1>3, ApplyAndStoreOK
  <2> HIDE DEF r
  <2>2. Kept(n, Sessions) \in Int /\ Kept(n, Sessions) <= n.undo /\ Kept(n, Sessions) >= 0
    BY <1>2 DEF Kept, Least, AboveBase
  <2>3. CASE ~r.ok
    <3>1. r.undo <= Num(n.head) - Num(base)
      BY <1>2, <2>1, <2>2, <2>3 DEF AboveBase
    <3> QED
      BY <1>2, <2>1, <2>2, <2>3, <3>1 DEF WithBase, AboveBase, Alike, r
  <2>4. CASE r.ok
    <3>1. /\ Prev(b) = n.head /\ r.head = b /\ r.undo = Kept(n, Sessions) + 1
          /\ Fit(b)
      BY <2>1, <2>4 DEF HasApplied, Fit
    <3>2. Num(b) = Num(n.head) + 1 /\ r.max_size >= 2
      BY <1>2, <2>1, <2>4, AppliedNumbers
    <3>3. OnChain(base, b) /\ FitChain(b)
      BY <1>2, <3>1, OnChainStep, FitChainStep DEF AboveBase
    <3>4. r.undo <= Num(b) - Num(base) /\ r.undo >= 0
      BY <1>2, <2>2, <3>1, <3>2 DEF AboveBase
    <3> QED
      BY <2>1, <3>1, <3>2, <3>3, <3>4 DEF WithBase, AboveBase, r
  <2> QED
    BY <2>3, <2>4
<1>4. ASSUME NEW n \in V, NEW k \in 0 .. Sessions + 1
      PROVE  Trimmed(n, k) \in V
  <2> DEFINE r == Trimmed(n, k)
  <2>1. k \in 0 .. 2
    BY DEF Sessions
  <2>2. r \in Nodes /\ Alike(n, r) /\ r.undo = Kept(n, k)
    BY <1>2, <2>1, TrimmedOK
  <2> HIDE DEF r
  <2>3. r.undo <= n.undo /\ (Block # {} => r.undo >= 0) /\ r.undo \in Int
    BY <1>2, <2>1, <2>2 DEF Kept, Least, AboveBase
  <2>4. r.undo <= Num(n.head) - Num(base)
    BY <1>2, <2>3 DEF AboveBase
  <2> QED
    BY <1>2, <2>2, <2>3, <2>4 DEF WithBase, AboveBase, Alike, r
<1>5. ASSUME NEW n \in V, NEW r \in Nodes, SameNumbers(n, r)
      PROVE  r \in V
  BY <1>2, <1>5 DEF WithBase, AboveBase, SameNumbers
<1>6. ASSUME NEW n \in V
      PROVE  Popped(n) \in V
  <2> DEFINE r == database_pop_block(n)
  <2>1. CASE ~n.ok
    BY <2>1 DEF Popped
  <2>2. CASE n.ok
    <3>1. /\ r \in Nodes /\ (r.ok => HasPopped(n, r))
          /\ ~r.ok => /\ r.head = n.head /\ r.max_size = n.max_size
                      /\ r.undo = n.undo
      BY <1>2, <2>2, PopBlockOK
    <3>2. Popped(n) = r
      BY <2>2 DEF Popped
    <3> HIDE DEF r
    <3>3. CASE ~r.ok
      BY <1>2, <3>1, <3>2, <3>3 DEF WithBase, AboveBase
    <3>4. CASE r.ok
      <4>1. /\ n.head \in Block /\ n.undo # 0 /\ r.head = Prev(n.head)
            /\ r.undo = n.undo - 1 /\ r.max_size = n.max_size
        BY <3>1, <3>4 DEF HasPopped
      <4>2. Num(r.head) = Num(n.head) - 1 /\ r.undo >= 0
        BY <1>2, <4>1, PrevOK DEF AboveBase
      <4>3. Num(base) < Num(n.head)
        BY <1>2, <4>1 DEF AboveBase
      <4>4. OnChain(base, r.head) /\ FitChain(r.head)
        BY <1>2, <4>1, <4>3, OnChainStep, FitChainStep DEF AboveBase
      <4>5. r.undo <= Num(r.head) - Num(base)
        BY <1>2, <4>1, <4>2 DEF AboveBase
      <4> QED
        BY <1>2, <3>1, <3>2, <4>1, <4>2, <4>4, <4>5 DEF WithBase, AboveBase
    <3> QED
      BY <3>3, <3>4
  <2> QED
    BY <2>1, <2>2
<1>7. PopClosed(V)
  BY <1>6 DEF PopClosed
<1> HIDE DEF V
<1>8. Closed(V)
  BY <1>1, <1>3, <1>4, <1>5, <1>7 DEF Closed
<1> QED
  BY <1>8 DEF V

\* The entries of a block database in line with a chain.
LEMMA MirrorEntries ==
    ASSUME TreeOK, NEW h \in BlockOrGenesis, NEW i \in Block
    PROVE  /\ Mirror(h) \in [Block -> Entries]
           /\ Readable(Mirror(h), i) <=> i <= Num(h)
           /\ i <= Num(h) => /\ Mirror(h)[i] = Entry(path[h][i])
                             /\ path[h][i] \in Block /\ Num(path[h][i]) = i
                             /\ OnChain(path[h][i], h)
           /\ ~(i <= Num(h)) => Mirror(h)[i] = NoEntry
<1>1. Num(h) \in Nat /\ Num(Genesis) = 0 /\ Genesis \notin Block /\ Block \subseteq BlockOrGenesis
  BY NumTyped DEF BlockOrGenesis
<1>2. ASSUME NEW j \in Block, j <= Num(h)
      PROVE  /\ path[h][j] \in Block /\ Num(path[h][j]) = j
             /\ Mirror(h)[j] = Entry(path[h][j]) /\ OnChain(path[h][j], h)
  <2>1. h \in Block /\ j \in 1 .. Num(h)
    BY <1>1, <1>2, NumTyped DEF Block
  <2>2. path[h][j] \in Block /\ Num(path[h][j]) = j
    BY <2>1, OnPath
  <2> QED
    BY <1>2, <2>2 DEF Mirror, OnChain
<1>3. \A j \in Block : ~(j <= Num(h)) => Mirror(h)[j] = NoEntry
  BY DEF Mirror
<1>4. NoEntry \in Entries /\ \A b \in Block : Entry(b) \in Entries
  BY <1>1, NumTyped DEF NoEntry, Entries, Entry, Lost, Genesis
<1>5. Mirror(h) \in [Block -> Entries]
  <2>1. \A j \in Block : Mirror(h)[j] \in Entries
    BY <1>2, <1>3, <1>4
  <2>2. Mirror(h) = [j \in Block |-> Mirror(h)[j]]
    BY DEF Mirror
  <2> QED
    BY <2>1, <2>2
<1>6. Readable(Mirror(h), i) <=> i <= Num(h)
  <2>1. CASE i <= Num(h)
    <3>1. Mirror(h)[i] = Entry(path[h][i]) /\ path[h][i] # Genesis
      BY <1>1, <1>2, <2>1
    <3> HIDE DEF Mirror
    <3>2. Mirror(h)[i].id = path[h][i] /\ Mirror(h)[i].data = path[h][i]
      BY <3>1 DEF Entry
    <3> QED
      BY <2>1, <3>1, <3>2 DEF Readable
  <2>2. CASE ~(i <= Num(h))
    BY <1>3, <2>2 DEF Readable, NoEntry
  <2> QED
    BY <2>1, <2>2
<1> QED
  BY <1>2, <1>3, <1>5, <1>6

\* last_index_entry() finds the end of the readable entries.
LEMMA LastIs ==
    ASSUME NEW D, NEW m \in BlockOrGenesis, NumBlocks \in Nat,
           \A i \in Block : Readable(D, i) <=> i <= m
    PROVE  last(D) = m
<1> DEFINE S == {0} \cup { n \in Block : Readable(D, n) }
<1>1. S = 0 .. m
  BY DEF Block, BlockOrGenesis
<1>2. m \in Nat
  BY DEF BlockOrGenesis
<1>3. m \in S /\ \A y \in S : m >= y
  BY <1>1, <1>2
<1>4. \A z \in S : (\A y \in S : z >= y) => z = m
  BY <1>1, <1>2
<1>5. last(D) = Max(S)
  BY DEF last
<1> HIDE DEF S
<1> QED
  BY <1>3, <1>4, <1>5 DEF Max

\* What the disk holds after the node went down with head h: its chain, or
\* the chain without the last block, if that one was stored since the node
\* has started from `base', or with a block that cannot be read.
Stored(D, h, base) ==
    \/ D = Mirror(h)
    \/ /\ Num(base) < Num(h)
       /\ D = Mirror(Prev(h)) \/ D = [Mirror(h) EXCEPT ![Num(h)].data = Lost]

\* Opening the block database.
LEMMA StoredTruncated ==
    ASSUME TreeOK, NEW h \in BlockOrGenesis, NEW base \in BlockOrGenesis,
           NEW D, Stored(D, h, base), OnChain(base, h)
    PROVE  \E k \in BlockOrGenesis :
              /\ truncated(D) = Mirror(k) /\ OnChain(base, k)
              /\ k = h \/ (h \in Block /\ k = Prev(h))
<1>1. NumBlocks \in Nat /\ Num(h) \in BlockOrGenesis /\ Num(Genesis) = 0
  BY NumTyped
<1>2. ASSUME NEW k \in BlockOrGenesis
      PROVE  truncated(Mirror(k)) = Mirror(k)
  <2>1. Num(k) \in BlockOrGenesis /\ \A i \in Block : Readable(Mirror(k), i) <=> i <= Num(k)
    BY NumTyped, MirrorEntries
  <2>2. last(Mirror(k)) = Num(k)
    BY <1>1, <2>1, LastIs
  <2>3. \A i \in Block : (IF i > Num(k) THEN NoEntry ELSE Mirror(k)[i]) = Mirror(k)[i]
    <3> TAKE i \in Block
    <3>1. i > Num(k) <=> ~(i <= Num(k))
      BY <2>1 DEF Block, BlockOrGenesis
    <3> QED
      BY <3>1, MirrorEntries
  <2>4. Mirror(k) = [i \in Block |-> Mirror(k)[i]]
    BY DEF Mirror
  <2> QED
    BY <2>2, <2>3, <2>4 DEF truncated
<1>3. CASE D = Mirror(h)
  BY <1>2, <1>3
<1>4. CASE Num(base) < Num(h)
  <2>1. h \in Block /\ Num(base) \in Nat /\ Num(h) \in Nat
    <3>1. Num(base) \in Nat /\ Num(h) \in Nat
      BY <1>1, NumTyped DEF BlockOrGenesis
    <3> QED
      BY <1>1, <1>4, <3>1, NumTyped
  <2>2. /\ Prev(h) \in BlockOrGenesis /\ Num(Prev(h)) = Num(h) - 1
        /\ \A i \in 1 .. Num(h) - 1 : path[Prev(h)][i] = path[h][i]
    BY <2>1, PrevOK
  <2>3. OnChain(base, Prev(h))
    BY <1>4, <2>1, OnChainStep
  <2>4. CASE D = Mirror(Prev(h))
    BY <1>2, <2>1, <2>2, <2>3, <2>4
  <2>5. CASE D = [Mirror(h) EXCEPT ![Num(h)].data = Lost]
    <3>1. Num(h) \in Block /\ Mirror(h) \in [Block -> Entries]
      BY <2>1, NumTyped, MirrorEntries
    <3>2. /\ D[Num(h)].data = Lost
          /\ \A i \in Block : i # Num(h) => D[i] = Mirror(h)[i]
          /\ D[Num(h)].id = Mirror(h)[Num(h)].id
      BY <2>5, <3>1 DEF Entries
    <3>3. \A i \in Block : Readable(D, i) <=> i <= Num(h) - 1
      <4> TAKE i \in Block
      <4>1. CASE i = Num(h)
        <5>1. ~Readable(D, i)
          BY <3>2, <4>1 DEF Readable, Lost, Genesis
        <5> QED
          BY <2>1, <4>1, <5>1
      <4>2. CASE i # Num(h)
        <5>1. Readable(D, i) <=> i <= Num(h)
          BY <3>2, <4>2, MirrorEntries DEF Readable
        <5> QED
          BY <2>1, <4>2, <5>1 DEF Block
      <4> QED
        BY <4>1, <4>2
    <3>4. Num(h) - 1 \in BlockOrGenesis
      BY <1>1, <3>1 DEF Block, BlockOrGenesis
    <3>5. last(D) = Num(h) - 1
      BY <1>1, <3>3, <3>4, LastIs
    <3>6. ASSUME NEW i \in Block
          PROVE  (IF i > last(D) THEN NoEntry ELSE D[i]) = Mirror(Prev(h))[i]
      <4>1. CASE i > Num(h) - 1
        <5>1. ~(i <= Num(Prev(h)))
          BY <2>1, <2>2, <4>1 DEF Block
        <5> QED
          BY <3>5, <4>1, <5>1 DEF Mirror
      <4>2. CASE ~(i > Num(h) - 1)
        <5>1. i \in 1 .. Num(h) - 1 /\ i <= Num(Prev(h)) /\ i # Num(h) /\ i <= Num(h)
          BY <2>1, <2>2, <4>2 DEF Block
        <5>2. D[i] = Entry(path[h][i]) /\ path[Prev(h)][i] = path[h][i]
          BY <2>2, <3>2, <5>1 DEF Mirror
        <5> QED
          BY <3>5, <4>2, <5>1, <5>2 DEF Mirror
      <4> QED
        BY <4>1, <4>2
    <3>7. Mirror(Prev(h)) = [i \in Block |-> Mirror(Prev(h))[i]]
      BY DEF Mirror
    <3>8. truncated(D) = Mirror(Prev(h))
      BY <3>6, <3>7 DEF truncated
    <3> QED
      BY <2>1, <2>2, <2>3, <3>8
  <2> QED
    BY <1>4, <1>3, <2>4, <2>5 DEF Stored
<1> QED
  BY <1>3, <1>4 DEF Stored

\* The option roll-back-at-height: what is left is the chain up to it.
LEMMA MirrorRemoved ==
    ASSUME TreeOK, NEW k \in BlockOrGenesis, NEW top \in 1 .. Num(k)
    PROVE  removed(Mirror(k), Num(k) - top) = Mirror(path[k][top])
<1> DEFINE h == path[k][top]
           D == Mirror(k)
           c == Num(k) - top
<1>1. Num(k) \in Nat /\ NumBlocks \in Nat /\ Num(k) \in BlockOrGenesis
  BY NumTyped DEF BlockOrGenesis
<1>2. k \in Block /\ top \in Block
  BY <1>1, NumTyped DEF Block, BlockOrGenesis
<1>3. h \in Block /\ Num(h) = top /\ OnChain(h, k)
  BY <1>2, MirrorEntries
<1>4. h \in BlockOrGenesis /\ k \in BlockOrGenesis
  BY <1>3, NumTyped
<1>5. last(D) = Num(k)
  BY <1>1, MirrorEntries, LastIs
<1>6. \A i \in Block : i <= top => path[h][i] = path[k][i]
  BY <1>3, <1>4, OnChainPath
<1> HIDE DEF h
<1>7. ASSUME NEW n \in Block
      PROVE  (IF Cardinality({ m \in n .. Num(k) : Readable(D, m) }) > c THEN D[n]
              ELSE NoEntry) = Mirror(h)[n]
  <2>1. { m \in n .. Num(k) : Readable(D, m) } = n .. Num(k)
    <3>1. \A m \in n .. Num(k) : m \in Block /\ m <= Num(k)
      BY <1>1 DEF Block, BlockOrGenesis
    <3> QED
      BY <3>1, MirrorEntries
  <2>2. n \in Int /\ n >= 1
    BY <1>1 DEF Block
  <2>3. Cardinality(n .. Num(k)) = IF n > Num(k) THEN 0 ELSE Num(k) - n + 1
    <3>1. Num(k) \in Int
      BY <1>1
    <3> HIDE DEF Num
    <3> QED
      BY ONLY <2>2, <3>1, FS_Interval
  <2>4. CASE n <= top
    <3>1. Cardinality(n .. Num(k)) > c
      BY <1>1, <2>2, <2>3, <2>4
    <3>2. D[n] = Entry(path[k][n]) /\ Mirror(h)[n] = Entry(path[h][n])
      <4>1. n <= Num(k) /\ n <= Num(h)
        BY <1>1, <1>3, <2>2, <2>4
      <4> QED
        BY <4>1 DEF Mirror
    <3> QED
      BY <1>6, <2>1, <2>4, <3>1, <3>2
  <2>5. CASE ~(n <= top)
    <3>1. ~(Cardinality(n .. Num(k)) > c)
      BY <1>1, <2>2, <2>3, <2>5
    <3>2. Mirror(h)[n] = NoEntry
      BY <1>3, <2>5 DEF Mirror
    <3> QED
      BY <2>1, <3>1, <3>2
  <2> QED
    BY <2>4, <2>5
<1>8. Mirror(h) = [n \in Block |-> Mirror(h)[n]]
  BY DEF Mirror
<1> HIDE DEF D, c
<1>9. removed(D, c) = Mirror(h)
  BY <1>5, <1>7, <1>8 DEF removed
<1> QED
  BY <1>9 DEF D, c, h

\* Chains within a chain.
LEMMA OnChainWithin ==
    ASSUME TreeOK, NEW a \in BlockOrGenesis, NEW h \in BlockOrGenesis,
           NEW k \in BlockOrGenesis, OnChain(h, k)
    PROVE  /\ OnChain(a, k) /\ Num(a) <= Num(h) => OnChain(a, h)
           /\ OnChain(a, h) => OnChain(a, k)
           /\ Num(h) = Num(k) => h = k
<1>1. /\ Num(a) \in Nat /\ Num(h) \in Nat /\ Num(k) \in Nat
      /\ Num(Genesis) = 0 /\ \A b \in Block : Num(b) \in Block
      /\ a # Genesis => a \in Block
      /\ h # Genesis => h \in Block
      /\ k # Genesis => k \in Block
  BY NumTyped DEF BlockOrGenesis
<1>2. /\ Num(h) <= Num(k)
      /\ \A i \in Block : i <= Num(h) => path[h][i] = path[k][i]
  BY OnChainPath
<1>3. ASSUME OnChain(a, k), Num(a) <= Num(h)
      PROVE  OnChain(a, h)
  BY <1>1, <1>2, <1>3 DEF OnChain
<1>4. ASSUME OnChain(a, h)
      PROVE  OnChain(a, k)
  <2>1. CASE a = Genesis
    BY <2>1 DEF OnChain
  <2>2. CASE a # Genesis
    <3>1. Num(a) <= Num(h) /\ path[h][Num(a)] = a /\ Num(a) \in Block
      BY <1>1, <1>4, <2>2 DEF OnChain
    <3>2. Num(a) <= Num(k) /\ path[k][Num(a)] = a
      BY <1>1, <1>2, <3>1
    <3> QED
      BY <3>2 DEF OnChain
  <2> QED
    BY <2>1, <2>2
<1>5. ASSUME Num(h) = Num(k)
      PROVE  h = k
  <2>1. CASE k = Genesis
    <3>1. Num(h) = 0
      BY <1>1, <1>5, <2>1
    <3>2. h \notin Block
      BY <1>1, <3>1 DEF Block
    <3> QED
      BY <1>1, <2>1, <3>2
  <2>2. CASE k # Genesis
    <3>1. k \in Block /\ path[k][Num(k)] = k /\ Num(k) \in Block
      BY <1>1, <2>2, OnPath
    <3>2. h # Genesis
      BY <1>1, <1>5, <3>1 DEF Block
    <3> QED
      BY <1>5, <3>1, <3>2 DEF OnChain
  <2> QED
    BY <2>1, <2>2
<1> QED
  BY <1>3, <1>4, <1>5

\* The block after the head, on the way up the chain to h.
LEMMA NextOnChain ==
    ASSUME TreeOK, NEW h \in BlockOrGenesis, NEW a \in BlockOrGenesis,
           OnChain(a, h), FitChain(h), Num(a) < Num(h)
    PROVE  LET b == path[h][Num(a) + 1]
           IN  /\ b \in Block /\ Prev(b) = a /\ Num(b) = Num(a) + 1
               /\ OnChain(b, h) /\ Fit(b)
               /\ Num(b) <= Num(h) /\ Mirror(h)[Num(b)] = Entry(b)
<1> DEFINE i == Num(a) + 1
           b == path[h][i]
<1>1. Num(a) \in Nat /\ Num(h) \in Nat /\ Num(h) \in BlockOrGenesis /\ NumBlocks \in Nat
  BY NumTyped DEF BlockOrGenesis
<1>2. i \in Block /\ i <= Num(h)
  BY <1>1 DEF Block, BlockOrGenesis
<1>3. /\ b \in Block /\ Num(b) = i /\ OnChain(b, h)
      /\ Mirror(h)[i] = Entry(b)
  BY <1>2, MirrorEntries
<1> HIDE DEF b
<1>4. /\ Prev(b) \in BlockOrGenesis /\ b \in BlockOrGenesis
      /\ OnChain(Prev(b), b) /\ Num(Prev(b)) = Num(b) - 1
  BY <1>3, PrevOK, NumTyped, OnChainStep
<1>5. OnChain(a, b)
  <2>1. Num(a) <= Num(b)
    BY <1>1, <1>3
  <2> QED
    BY <1>3, <1>4, <2>1, OnChainWithin
<1>6. a # b
  BY <1>1, <1>3
<1>7. OnChain(a, Prev(b))
  BY <1>3, <1>5, <1>6, OnChainStep
<1>8. Num(a) = Num(Prev(b))
  BY <1>1, <1>3, <1>4
<1>9. Prev(b) = a
  BY <1>4, <1>7, <1>8, OnChainWithin
<1>10. Fit(b)
  BY <1>3 DEF FitChain
<1> QED
  BY <1>2, <1>3, <1>9, <1>10 DEF b

-----------------------------------------------------------------------------
\* The node in reindex(), after i blocks on the way from `base' to h; those
\* below `point' are applied without undo.
Replays(n, h, base, point, i) ==
    /\ n.ok /\ n.blocks = Mirror(h)
    /\ OnChain(n.head, h) /\ Num(n.head) = Num(base) + i
    /\ n.undo \in 0 .. i /\ n.max_size >= 2
    /\ n.fork.head = Genesis \/ (n.fork.head = n.head /\ n.head \in n.fork.index)
    /\ n.tail.num = 0 \/ (n.tail = [num |-> Num(n.head), old |-> Entry(n.head)] /\ i > 0)
    /\ Num(base) + i < point => n.fork.head = Genesis /\ n.tail.num = 0

\* apply_block() outside a session.
LEMMA ApplyOnly ==
    ASSUME TreeOK, NEW n \in Nodes, n.ok, NEW b \in Block, ~Rejected(n, b),
           n.fork.head = Genesis
    PROVE  LET a == apply_block(n, b)
           IN  /\ a \in Nodes /\ a.ok /\ a.head = b /\ a.undo = n.undo
               /\ a.max_size = Num(b) - LastIrreversible(n.head) + 1
               /\ a.fork = n.fork /\ a.blocks = n.blocks /\ a.tail = n.tail
<1> DEFINE size == Num(b) - LastIrreversible(n.head) + 1
           lib == Max({n.lib, LastIrreversible(b)})
           f == set_max_size(n.fork, size)
           a1 == [n EXCEPT !.head = b]
           a2 == [a1 EXCEPT !.max_size = size]
           a3 == [a2 EXCEPT !.fork = f]
           a == [a3 EXCEPT !.lib = lib]
<1>1. a = apply_block(n, b)
  BY DEF apply_block
<1>2. f = n.fork
  BY DEF set_max_size
<1>3. size \in Int /\ lib \in Int /\ b \in BlockOrGenesis /\ n.fork \in Forks
  <2>1. n.head \in BlockOrGenesis /\ n.lib \in Int /\ n.fork \in Forks
    BY DEF Nodes
  <2>2. b \in BlockOrGenesis /\ Num(b) \in Int
    BY NumTyped DEF Block
  <2>3. LastIrreversible(n.head) \in Nat /\ LastIrreversible(b) \in Nat
    BY <2>1, <2>2, LastIrreversibleOK
  <2>4. lib \in Int
    BY <2>1, <2>3, MaxOfTwo
  <2> QED
    BY <2>1, <2>2, <2>3, <2>4
<1> HIDE DEF size, lib, f
<1>4. /\ a1 \in Nodes /\ a1.head = b /\ a1.undo = n.undo /\ a1.blocks = n.blocks
      /\ a1.ok = n.ok /\ a1.tail = n.tail /\ a1.fork = n.fork
  BY <1>3 DEF Nodes
<1> HIDE DEF a1
<1>5. /\ a2 \in Nodes /\ a2.head = b /\ a2.undo = n.undo /\ a2.blocks = n.blocks
      /\ a2.ok = n.ok /\ a2.tail = n.tail /\ a2.fork = n.fork /\ a2.max_size = size
  BY <1>3, <1>4 DEF Nodes
<1> HIDE DEF a2
<1>6. /\ a3 \in Nodes /\ a3.head = b /\ a3.undo = n.undo /\ a3.blocks = n.blocks
      /\ a3.ok = n.ok /\ a3.tail = n.tail /\ a3.fork = n.fork /\ a3.max_size = size
  BY <1>2, <1>3, <1>5 DEF Nodes
<1> HIDE DEF a3
<1>7. /\ a \in Nodes /\ a.head = b /\ a.undo = n.undo /\ a.blocks = n.blocks
      /\ a.ok = n.ok /\ a.tail = n.tail /\ a.fork = n.fork /\ a.max_size = size
  BY <1>3, <1>6 DEF Nodes
<1> HIDE DEF a
<1> QED
  BY <1>1, <1>7 DEF size

\* push_block() of the block after the head, when the fork database is empty
\* or has the same head.
LEMMA PushOnly ==
    ASSUME TreeOK, NEW n \in Nodes, n.ok, NEW b \in Block, ~Rejected(n, b),
           n.max_size >= 2,
           n.fork.head = Genesis \/ (n.fork.head = n.head /\ n.head \in n.fork.index)
    PROVE  LET r == database_push_block(n, b)
           IN  /\ r \in Nodes /\ r.ok /\ r.head = b /\ r.undo = Kept(n, Sessions) + 1
               /\ r.max_size = Num(b) - LastIrreversible(n.head) + 1
               /\ r.fork.head = b /\ b \in r.fork.index
               /\ r.blocks = store(n.blocks, b, b)
               /\ r.tail = [num |-> Num(b), old |-> n.blocks[Num(b)]]
<1> DEFINE f == n.fork
           size == n.max_size
           l == Linked(n, b)
           r == database_push_block(n, b)
<1>1. /\ f \in Forks /\ size \in Int /\ Num(n.head) \in Nat /\ Num(b) \in Nat
      /\ Prev(b) = n.head /\ Num(b) = Num(n.head) + 1 /\ Genesis \notin Block
      /\ LastIrreversible(n.head) \in Nat /\ LastIrreversible(n.head) <= Num(n.head)
  <2>1. f \in Forks /\ size \in Int
    BY DEF Nodes
  <2>2. Num(b) \in Nat /\ Genesis \notin Block
    BY NumTyped DEF Block
  <2>3. Prev(b) = n.head /\ Num(Prev(b)) = Num(b) - 1
    BY PrevOK DEF Rejected
  <2>4. /\ Num(n.head) \in Nat /\ LastIrreversible(n.head) \in Nat
        /\ LastIrreversible(n.head) <= Num(n.head)
    BY NodeNumbers
  <2>5. Num(b) = Num(n.head) + 1
    BY <2>2, <2>3, <2>4
  <2> QED
    BY <2>1, <2>2, <2>3, <2>4, <2>5
<1>2. Acceptable(f, b, size)
  <2>1. f.head = n.head => Num(b) > Num(f.head) - size
    BY <1>1
  <2> QED
    BY <1>1, <2>1 DEF Acceptable
<1>3. /\ l \in Nodes /\ l.fork = push_block(f, b, size) /\ l.head = n.head
      /\ l.undo = n.undo /\ l.max_size = size /\ l.blocks = n.blocks /\ l.ok
  BY LinkedOK
<1>4. l.fork.head = b
  <2>1. push_block(f, b, size).head =
          IF f.head = Genesis \/ Num(b) > Num(f.head) THEN b ELSE f.head
    BY <1>1, PushTyped
  <2>2. f.head = n.head => Num(b) > Num(f.head)
    BY <1>1
  <2> QED
    BY <1>3, <2>1, <2>2
<1>5. b \in l.fork.index
  <2> DEFINE links == f.head # Genesis /\ Prev(b) # Genesis
             g == Indexed(f, b)
             i == b \notin f.index
  <2>1. push_block(f, b, size) =
           IF f.head = Genesis THEN MoveHead(g, b, TRUE, links)
           ELSE IF Num(b) > Num(f.head)
           THEN Erase(MoveHead(g, b, i, links), TooOld(g, Num(b) - size))
           ELSE g
    BY DEF push_block, Indexed
  <2>2. g \in Forks /\ g.index = f.index \cup {b}
    BY <1>1, IndexedTyped
  <2>3. links \in BOOLEAN /\ i \in BOOLEAN /\ b \in BlockOrGenesis
    BY NumTyped
  <2> HIDE DEF g, links, i
  <2>4. ASSUME NEW x \in BOOLEAN
        PROVE  MoveHead(g, b, x, links) \in Forks /\ MoveHead(g, b, x, links).index = g.index
    BY <2>2, <2>3, MoveHeadTyped DEF MoveHead
  <2>5. b \notin TooOld(g, Num(b) - size)
    BY <1>1 DEF TooOld
  <2>6. b \in Erase(MoveHead(g, b, i, links), TooOld(g, Num(b) - size)).index
    BY <2>2, <2>3, <2>4, <2>5, EraseTyped
  <2>7. b \in MoveHead(g, b, TRUE, links).index
    BY <2>2, <2>4
  <2>8. b \in push_block(f, b, size).index
    BY <2>1, <2>2, <2>6, <2>7
  <2> QED
    BY <1>3, <2>8
<1>6. r = Extend(l, b)
  BY <1>1, <1>2, <1>4 DEF database_push_block
<1> HIDE DEF l, r
<1>7. ~Rejected(l, b)
  BY <1>3 DEF Rejected
<1> DEFINE a == ApplyAndStore(l, b, b)
<1>8. /\ a \in Nodes /\ (a.ok => HasApplied(l, b, b, a))
      /\ ~a.ok => Rejected(l, b)
  BY <1>3, ApplyAndStoreOK
<1>9. r = a
  BY <1>6, <1>7, <1>8 DEF Extend
<1> HIDE DEF a
<1>10. r \in Nodes /\ r.ok /\ HasApplied(l, b, b, r)
  BY <1>7, <1>8, <1>9
<1>11. /\ r.head = b /\ r.undo = Kept(l, Sessions) + 1
       /\ r.max_size = Num(b) - LastIrreversible(n.head) + 1
       /\ r.fork = set_max_size(l.fork, r.max_size)
       /\ r.blocks = store(n.blocks, b, b)
       /\ r.tail = [num |-> Num(b), old |-> n.blocks[Num(b)]]
  BY <1>3, <1>10 DEF HasApplied
<1>12. Kept(l, Sessions) = Kept(n, Sessions)
  BY <1>3 DEF Kept
<1>13. r.fork.head = b /\ b \in r.fork.index
  <2> DEFINE old == TooOld(l.fork, Num(b) - r.max_size)
  <2>1. r.fork = Erase(l.fork, old) /\ l.fork \in Forks
    <3>1. b # Genesis /\ l.fork \in Forks
      BY <1>1, <1>3 DEF Nodes
    <3> QED
      BY <1>4, <1>11, <3>1 DEF set_max_size
  <2>2. b \notin old
    <3>1. r.max_size \in Int /\ r.max_size >= 0
      BY <1>1, <1>11
    <3> QED
      BY <1>1, <3>1 DEF TooOld
  <2> HIDE DEF old
  <2> QED
    BY <1>4, <1>5, <2>1, <2>2, EraseTyped
<1> QED
  BY <1>10, <1>11, <1>12, <1>13 DEF r

\* One turn of the loop of reindex().
LEMMA ReplayedBlock ==
    ASSUME TreeOK, NEW h \in BlockOrGenesis, FitChain(h),
           NEW base \in BlockOrGenesis, NEW point \in Int,
           NEW i \in Nat, i >= 1, Num(base) + i <= Num(h),
           NEW n \in Nodes, Replays(n, h, base, point, i - 1)
    PROVE  LET r == Replay(n, Num(base) + i, point)
           IN  r \in Nodes /\ Replays(r, h, base, point, i)
<1> DEFINE a == n.head
           b == path[h][Num(a) + 1]
           j == Num(base) + i
           r == Replay(n, j, point)
<1>1. /\ a \in BlockOrGenesis /\ Num(a) \in Nat /\ Num(base) \in Nat /\ Num(h) \in Nat
      /\ n.undo \in Int /\ n.max_size \in Int /\ Sessions \in 0 .. 1
      /\ LastIrreversible(a) \in Nat /\ LastIrreversible(a) <= Num(a)
  BY NodeNumbers, NumTyped DEF BlockOrGenesis
<1>2. /\ n.ok /\ n.blocks = Mirror(h) /\ OnChain(a, h) /\ Num(a) = Num(base) + (i - 1)
      /\ n.undo \in 0 .. i - 1 /\ n.max_size >= 2
      /\ n.fork.head = Genesis \/ (n.fork.head = a /\ a \in n.fork.index)
      /\ Num(base) + (i - 1) < point => n.fork.head = Genesis /\ n.tail.num = 0
  BY DEF Replays
<1>3. j \in Nat /\ Num(a) + 1 = j /\ Num(a) < Num(h) /\ Num(base) + (i - 1) = j - 1
  BY <1>1, <1>2
<1>4. /\ b \in Block /\ Prev(b) = a /\ Num(b) = Num(a) + 1
      /\ OnChain(b, h) /\ Fit(b)
      /\ Num(b) <= Num(h) /\ Mirror(h)[Num(b)] = Entry(b)
  BY <1>1, <1>2, <1>3, NextOnChain
<1> HIDE DEF b
<1>5. ~Rejected(n, b)
  <2>1. MaxUndoHistory \in Int /\ Num(b) - LastIrreversible(a) \in Int
    BY <1>1, <1>4, ChainAssumption
  <2>2. b \notin bad /\ Num(b) - LastIrreversible(a) < MaxUndoHistory
    BY <1>4 DEF Fit
  <2>3. ~(Num(b) - LastIrreversible(a) >= MaxUndoHistory)
    BY <2>1, <2>2
  <2> QED
    BY <1>4, <2>2, <2>3 DEF Rejected
<1>6. n.blocks[j].data = b
  <2>1. n.blocks[j] = Entry(b)
    BY <1>2, <1>3, <1>4
  <2> QED
    BY <2>1 DEF Entry
<1>7. r = IF j < point THEN apply_block(n, b) ELSE database_push_block(n, b)
  BY <1>2, <1>6 DEF Replay
<1>8. Num(b) = Num(base) + i /\ Num(b) - LastIrreversible(a) + 1 >= 2 /\ i > 0
  BY <1>1, <1>3, <1>4
<1> HIDE DEF r, j
<1>9. CASE j < point
  <2>1. n.fork.head = Genesis /\ n.tail.num = 0
    <3>1. Num(base) + (i - 1) < point
      BY <1>3, <1>9
    <3> QED
      BY <1>2, <3>1
  <2> DEFINE x == apply_block(n, b)
  <2>2. /\ x \in Nodes /\ x.ok /\ x.head = b /\ x.undo = n.undo
        /\ x.max_size = Num(b) - LastIrreversible(a) + 1
        /\ x.fork = n.fork /\ x.blocks = n.blocks /\ x.tail = n.tail
    BY <1>2, <1>4, <1>5, <2>1, ApplyOnly
  <2> HIDE DEF x
  <2>3. r = x
    BY <1>7, <1>9 DEF x
  <2>4. r.undo \in 0 .. i
    BY <1>1, <1>2, <2>2, <2>3
  <2>5. Replays(r, h, base, point, i)
    BY <1>2, <1>4, <1>8, <2>1, <2>2, <2>3, <2>4 DEF Replays
  <2> QED
    BY <2>2, <2>3, <2>5 DEF r, j
<1>10. CASE ~(j < point)
  <2> DEFINE x == database_push_block(n, b)
  <2>1. /\ x \in Nodes /\ x.ok /\ x.head = b /\ x.undo = Kept(n, Sessions) + 1
        /\ x.max_size = Num(b) - LastIrreversible(a) + 1
        /\ x.fork.head = b /\ b \in x.fork.index
        /\ x.blocks = store(n.blocks, b, b)
        /\ x.tail = [num |-> Num(b), old |-> n.blocks[Num(b)]]
    BY <1>2, <1>4, <1>5, PushOnly
  <2> HIDE DEF x
  <2>2. r = x
    BY <1>7, <1>10 DEF x
  <2>3. r.undo \in 0 .. i
    <3>1. Kept(n, Sessions) \in 0 .. i - 1
      BY <1>1, <1>2 DEF Kept, Least
    <3> QED
      BY <2>1, <2>2, <3>1
  <2>4. store(n.blocks, b, b) = Mirror(h)
    <3>1. Mirror(h) \in [Block -> Entries] /\ Num(b) \in Block
      BY <1>4, NumTyped, MirrorEntries
    <3> HIDE DEF Mirror
    <3>2. [Mirror(h) EXCEPT ![Num(b)] = Entry(b)] = Mirror(h)
      BY <1>4, <3>1
    <3> QED
      BY <1>2, <3>2 DEF store, Entry
  <2>5. r.tail = [num |-> Num(b), old |-> Entry(b)]
    BY <1>2, <1>4, <2>1, <2>2
  <2>6. ~(Num(base) + i < point)
    BY <1>10 DEF j
  <2>7. Replays(r, h, base, point, i)
    BY <1>4, <1>8, <2>1, <2>2, <2>3, <2>4, <2>5, <2>6 DEF Replays
  <2> QED
    BY <2>1, <2>2, <2>7 DEF r, j
<1> QED
  BY <1>9, <1>10

\* The loop of reindex().
Replayed(s, first, point, k) ==
    LET after[i \in 0 .. k] ==
            IF i = 0 THEN s ELSE Replay(after[i - 1], first + i, point)
    IN  after[k]

\* It arrives at the block it was to replay.
LEMMA ReplayLoop ==
    ASSUME TreeOK, NEW h \in BlockOrGenesis, FitChain(h),
           NEW base \in BlockOrGenesis, NEW point \in Int,
           NEW s \in Nodes, Replays(s, h, base, point, 0),
           NEW k \in Nat, Num(base) + k <= Num(h)
    PROVE  LET r == Replayed(s, Num(base), point, k)
           IN  r \in Nodes /\ Replays(r, h, base, point, k)
<1> DEFINE first == Num(base)
           E(v, i) == Replay(v, first + i, point)
           P(v, i) == v \in Nodes /\ Replays(v, h, base, point, i)
           F(f) == [i \in 0 .. k |-> IF i = 0 THEN s ELSE E(f[i - 1], i)]
           V == { v \in Nodes : \E i \in 0 .. k : P(v, i) }
           G(v, i) == IF P(v, i - 1) THEN E(v, i) ELSE v
           step == [i \in 1 .. k |-> [v \in V |-> G(v, i)]]
           S == CHOOSE f : f = F(f)
<1>1. S = CHOOSE f : f = F(f)
  OBVIOUS
<1>2. Replayed(s, first, point, k) = S[k]
  BY DEF Replayed
<1>3. first \in Nat /\ Num(h) \in Nat
  BY NumTyped DEF BlockOrGenesis
<1>4. P(s, 0) /\ 0 \in 0 .. k
  OBVIOUS
<1>5. ASSUME NEW i \in 1 .. k, NEW v, P(v, i - 1)
      PROVE  P(E(v, i), i)
  <2>1. i \in Nat /\ i >= 1 /\ first + i <= Num(h)
    BY <1>3
  <2> QED
    BY <1>5, <2>1, ReplayedBlock
<1> HIDE DEF S, P, E, first
<1>6. s \in V
  BY <1>4
<1>7. ASSUME NEW i \in 1 .. k, NEW v \in V
      PROVE  G(v, i) \in V
  <2>1. CASE P(v, i - 1)
    <3>1. P(E(v, i), i) /\ i \in 0 .. k
      BY <1>5, <2>1
    <3>2. E(v, i) \in Nodes
      BY <3>1 DEF P
    <3>3. G(v, i) = E(v, i)
      BY <2>1
    <3> QED
      BY <3>1, <3>2, <3>3
  <2>2. CASE ~P(v, i - 1)
    BY <2>2
  <2> QED
    BY <2>1, <2>2
<1> HIDE DEF V, G
<1>8. StepFunction(step, k, V)
  BY <1>7 DEF StepFunction
<1>9. \A i \in 1 .. k : \A v \in V : step[i][v] = G(v, i)
  OBVIOUS
<1> HIDE DEF step
<1>10. PICK g : Recursive(g, k, V, s, step)
  BY <1>6, <1>8, RecursionExists
<1>11. /\ g \in [0 .. k -> V] /\ g[0] = s
       /\ \A i \in 1 .. k : g[i] = G(g[i - 1], i)
  <2>1. g \in [0 .. k -> V] /\ g[0] = s /\ \A i \in 1 .. k : g[i] = step[i][g[i - 1]]
    BY <1>10 DEF Recursive
  <2>2. \A i \in 1 .. k : g[i - 1] \in V
    BY <2>1
  <2> QED
    BY <1>9, <2>1, <2>2
<1> DEFINE T == { i \in 0 .. k : P(g[i], i) }
<1>12. 0 \in T
  BY <1>4, <1>11
<1>13. ASSUME NEW i \in 1 .. k, i - 1 \in T
       PROVE  i \in T
  <2>1. P(g[i - 1], i - 1) /\ i \in 0 .. k
    BY <1>13
  <2>2. g[i] = E(g[i - 1], i)
    BY <1>11, <2>1 DEF G
  <2> QED
    BY <1>5, <2>1, <2>2
<1>14. 0 .. k \subseteq T
  <2> HIDE DEF T
  <2> QED
    BY <1>12, <1>13, IntervalInduction
<1>15. \A i \in 1 .. k : g[i] = E(g[i - 1], i)
  <2> TAKE i \in 1 .. k
  <2>1. i - 1 \in 0 .. k
    OBVIOUS
  <2>2. P(g[i - 1], i - 1)
    BY <1>14, <2>1
  <2> QED
    BY <1>11, <2>2 DEF G
<1> HIDE DEF T
<1>16. g = F(g)
  <2>1. g = [i \in 0 .. k |-> g[i]]
    BY <1>11
  <2>2. \A i \in 0 .. k : g[i] = IF i = 0 THEN s ELSE E(g[i - 1], i)
    <3> TAKE i \in 0 .. k
    <3>1. CASE i = 0
      BY <1>11, <3>1
    <3>2. CASE i \in 1 .. k
      BY <1>15, <3>2
    <3> QED
      BY <3>1, <3>2
  <2> QED
    BY <2>1, <2>2
<1>17. S = F(S)
  BY <1>1, <1>16
<1>18. S[0] = s /\ \A i \in 1 .. k : S[i] = E(S[i - 1], i)
  <2>1. \A i \in 0 .. k : S[i] = IF i = 0 THEN s ELSE E(S[i - 1], i)
    BY <1>17
  <2> QED
    BY <2>1
<1> DEFINE U == { i \in 0 .. k : P(S[i], i) }
<1>19. 0 \in U
  BY <1>4, <1>18
<1>20. ASSUME NEW i \in 1 .. k, i - 1 \in U
       PROVE  i \in U
  <2>1. P(S[i - 1], i - 1) /\ i \in 0 .. k
    BY <1>20
  <2> QED
    BY <1>5, <1>18, <2>1
<1>21. 0 .. k \subseteq U
  <2> HIDE DEF U
  <2> QED
    BY <1>19, <1>20, IntervalInduction
<1>22. P(S[k], k)
  BY <1>21
<1> QED
  BY <1>2, <1>22 DEF P, first

-----------------------------------------------------------------------------
\* The last block stored is the head, and was stored since the start; its slot
\* was free, or held the same block.
TailOK(n, base) ==
    \/ n.tail.num = 0
    \/ /\ n.tail.num = Num(n.head) /\ Num(base) < Num(n.head)
       /\ n.tail.old \in {NoEntry, Entry(n.head)}

\* A node that has started from `base', found the chain to k on the disk, and
\* was asked to roll back to height r.
Opened(o, base, k, r) ==
    /\ o \in WithBase(base) /\ o.blocks = Mirror(o.head) /\ TailOK(o, base)
    /\ OnChain(o.head, k)
    /\ o.head = k \/ (Num(o.head) = r /\ r # 0)

\* A node before it has done anything.
IsFresh(n, base, D) ==
    /\ n \in Nodes /\ n.head = base /\ n.undo = 0 /\ n.fork = NoFork
    /\ n.blocks = D /\ n.tail.num = 0 /\ n.ok
    /\ Block # {} => n.max_size >= 2

\* That is what open() starts with.
LEMMA FreshOK ==
    ASSUME TreeOK, NEW base \in BlockOrGenesis, NEW D \in [Block -> Entries], NEW l \in Int
    PROVE  IsFresh(Fresh(base, D, l), base, D)
<1>1. NoFork \in Forks /\ NoEntry \in Entries /\ InitSize \in Int
  BY NumTyped, ChainAssumption DEF NoFork, Forks, NoEntry, Entries, Lost, Genesis
<1>2. Block # {} => InitSize >= 2
  BY NumTyped, ChainAssumption DEF Block
<1> QED
  BY <1>1, <1>2 DEF Fresh, Nodes, IsFresh

\* It starts from what it has found, if that is the chain on the disk.
LEMMA FreshOpened ==
    ASSUME TreeOK, NEW k \in BlockOrGenesis, FitChain(k), NEW l \in Int, NEW r
    PROVE  LET n == Fresh(k, Mirror(k), l) IN n.ok /\ Opened(n, k, k, r)
<1> DEFINE D == Mirror(k)
           n == Fresh(k, D, l)
<1>1. Mirror(k) \in [Block -> Entries]
  <2>1. CASE Block = {}
    BY <2>1 DEF Mirror
  <2>2. CASE Block # {}
    BY <2>2, MirrorEntries
  <2> QED
    BY <2>1, <2>2
<1>2. /\ n \in Nodes /\ n.head = k /\ n.undo = 0 /\ n.blocks = D
      /\ n.tail.num = 0 /\ n.ok /\ (Block # {} => n.max_size >= 2)
  <2>1. D \in [Block -> Entries]
    BY <1>1
  <2> HIDE DEF D
  <2> QED
    BY <2>1, FreshOK DEF IsFresh
<1> HIDE DEF n
<1>3. OnChain(k, k)
  BY OnChainStep, NumTyped DEF OnChain
<1>4. Num(k) \in Nat
  BY NumTyped DEF BlockOrGenesis
<1>5. n.undo <= Num(n.head) - Num(k) /\ n.undo >= 0
  BY <1>2, <1>4
<1>6. AboveBase(n, k)
  BY <1>2, <1>3, <1>5 DEF AboveBase
<1> QED
  BY <1>2, <1>3, <1>6 DEF Opened, WithBase, TailOK, n

\* The start of the loop of reindex(): the fork database is empty, or starts
\* with the last block of the object database.
LEMMA ReplayStarts ==
    ASSUME TreeOK, NEW base \in BlockOrGenesis, NEW h \in Block, OnChain(base, h),
           NEW n \in Nodes, n.ok, n.head = base, n.undo = 0, n.max_size >= 2,
           n.fork = NoFork, n.tail.num = 0,
           NEW starts \in BOOLEAN, NEW point \in Int,
           starts => base # Genesis,
           ~starts => Num(base) < point \/ base = Genesis,
           Num(base) < point => ~starts
    PROVE  LET s == [n EXCEPT !.blocks = Mirror(h),
                              !.fork = IF starts THEN start_block(@, base) ELSE @]
           IN  s \in Nodes /\ Replays(s, h, base, point, 0)
<1> DEFINE g == [NoFork EXCEPT !.index = NoFork.index \cup {base}]
           sf == start_block(NoFork, base)
           f == IF starts THEN sf ELSE NoFork
           D == Mirror(h)
           t == [n EXCEPT !.blocks = D]
           s == [t EXCEPT !.fork = f]
<1>1. h \in BlockOrGenesis /\ NoFork \in Forks
  BY NumTyped DEF NoFork, Forks
<1>2. D \in [Block -> Entries]
  BY <1>1, MirrorEntries
<1>3. starts => sf \in Forks /\ sf.head = base /\ base \in sf.index
  <2> SUFFICES ASSUME starts
               PROVE  sf \in Forks /\ sf.head = base /\ base \in sf.index
    OBVIOUS
  <2>1. base \in Block
    BY NumTyped
  <2>2. g \in Forks /\ base \in g.index
    BY <1>1, <2>1 DEF NoFork, Forks
  <2>3. sf = MoveHead(g, base, TRUE, FALSE)
    BY DEF start_block
  <2> HIDE DEF g, sf
  <2>4. sf \in Forks
    BY <2>2, <2>3, MoveHeadTyped
  <2> QED
    BY <2>2, <2>3, <2>4 DEF MoveHead
<1> HIDE DEF sf
<1>4. f \in Forks /\ (starts => f.head = base /\ base \in f.index)
      /\ (~starts => f.head = Genesis)
  BY <1>1, <1>3 DEF NoFork
<1>5. [n EXCEPT !.blocks = Mirror(h),
                !.fork = IF starts THEN start_block(@, base) ELSE @] = s
  BY DEF Nodes, sf
<1> HIDE DEF f, D
<1>6. /\ t \in Nodes /\ t.head = base /\ t.undo = 0 /\ t.max_size = n.max_size
      /\ t.blocks = D /\ t.tail = n.tail /\ t.ok
  BY <1>2 DEF Nodes
<1> HIDE DEF t
<1>7. /\ s \in Nodes /\ s.head = base /\ s.undo = 0 /\ s.max_size = n.max_size
      /\ s.blocks = D /\ s.tail = n.tail /\ s.ok /\ s.fork = f
  BY <1>4, <1>6 DEF Nodes
<1> HIDE DEF s
<1>8. Num(base) \in Nat /\ Num(base) = Num(base) + 0 /\ 0 \in 0 .. 0
  BY NumTyped DEF BlockOrGenesis
<1>9. Replays(s, h, base, point, 0)
  BY <1>4, <1>7, <1>8 DEF Replays, D
<1> QED
  BY <1>5, <1>7, <1>9

\* The node at the end of the loop of reindex().
LEMMA ReplayEnds ==
    ASSUME TreeOK, NEW base \in BlockOrGenesis, NEW h \in Block, OnChain(base, h),
           FitChain(h), NEW point \in Int, NEW n \in Nodes,
           NEW i \in Nat, Num(base) + i = Num(h), Replays(n, h, base, point, i),
           NEW r
    PROVE  n.ok /\ n.head = h /\ Opened(n, base, h, r)
<1>1. h \in BlockOrGenesis /\ n.head \in BlockOrGenesis
  BY NumTyped DEF Nodes
<1>2. /\ n.ok /\ n.blocks = Mirror(h) /\ OnChain(n.head, h) /\ Num(n.head) = Num(h)
      /\ n.undo \in 0 .. i /\ n.max_size >= 2
      /\ n.tail.num = 0 \/ (n.tail = [num |-> Num(n.head), old |-> Entry(n.head)] /\ i > 0)
  BY DEF Replays
<1>3. n.head = h
  BY <1>1, <1>2, OnChainWithin
<1>4. Num(base) \in Nat /\ Num(h) \in Nat /\ n.undo \in Int
  BY <1>1, NumTyped DEF BlockOrGenesis, Nodes
<1>5. n.undo <= Num(n.head) - Num(base) /\ n.undo >= 0
  BY <1>2, <1>4
<1>6. AboveBase(n, base)
  BY <1>2, <1>3, <1>5 DEF AboveBase
<1>7. TailOK(n, base)
  <2>1. i > 0 => Num(base) < Num(n.head)
    BY <1>2, <1>4
  <2> QED
    BY <1>2, <2>1 DEF TailOK
<1> QED
  BY <1>2, <1>3, <1>6, <1>7 DEF Opened, WithBase

\* reindex() with the chain to k on the disk, of which the object database has
\* only a part.
LEMMA ReindexOK ==
    ASSUME TreeOK, NEW base \in BlockOrGenesis, NEW k \in BlockOrGenesis,
           OnChain(base, k), FitChain(k), Num(base) < Num(k),
           NEW l \in Int, NEW r \in Nat
    PROVE  LET o == reindex(Fresh(base, Mirror(k), l), r)
           IN  /\ o.ok => Opened(o, base, k, r)
               /\ r = 0 => o.ok
<1> DEFINE K == Mirror(k)
           n == Fresh(base, K, l)
           all == last(n.blocks)
           first == Num(n.head)
           rolls == r > 0 /\ r <= all
           top == IF rolls THEN r ELSE all
           d == IF rolls THEN removed(n.blocks, all - top) ELSE n.blocks
           gap == Min({top + 1} \cup { i \in first + 1 .. top : ~Readable(d, i) })
           point == IF top < UndoWindow THEN 0 ELSE top - UndoWindow
           starts == first >= point /\ first > 0
           s == [n EXCEPT !.blocks = d,
                          !.fork = IF starts THEN start_block(@, d[first].data) ELSE @]
           turns == Max({first, gap - 1}) - first
           q == Replayed(s, first, point, turns)
           o == reindex(n, r)
<1>1. o = IF all <= first THEN n
          ELSE IF starts /\ ~Readable(d, first) THEN Throw([n EXCEPT !.blocks = d])
          ELSE IF q.ok /\ gap <= top
          THEN [q EXCEPT !.blocks = dropped_after(@, gap)]
          ELSE q
  BY DEF reindex, Replayed, Repeated
<1>2. /\ Num(base) \in Nat /\ Num(k) \in Nat /\ Num(k) \in BlockOrGenesis
      /\ NumBlocks \in Nat /\ UndoWindow \in Nat /\ k \in Block
  <2>1. Num(base) \in Nat /\ Num(k) \in Nat /\ Num(k) \in BlockOrGenesis
    BY NumTyped DEF BlockOrGenesis
  <2>2. k # Genesis
    BY <2>1, NumTyped
  <2> QED
    BY <2>1, <2>2, NumTyped, ChainAssumption
<1>3. K \in [Block -> Entries] /\ \A i \in Block : Readable(K, i) <=> i <= Num(k)
  BY <1>2, MirrorEntries
<1>4. last(K) = Num(k)
  <2> HIDE DEF K
  <2> QED
    BY <1>2, <1>3, LastIs
<1> HIDE DEF K
<1>5. IsFresh(n, base, K)
  BY <1>3, FreshOK
<1>6. /\ n \in Nodes /\ n.head = base /\ n.undo = 0 /\ n.fork = NoFork
      /\ n.blocks = K /\ n.tail.num = 0 /\ n.ok /\ n.max_size >= 2
  BY <1>2, <1>5 DEF IsFresh
<1> HIDE DEF n
<1>7. all = Num(k) /\ first = Num(base)
  BY <1>4, <1>6
<1>8. top \in 1 .. Num(k) /\ (~rolls => top = Num(k)) /\ (rolls => top = r /\ r # 0)
  BY <1>2, <1>7
<1> DEFINE h == IF rolls THEN path[k][top] ELSE k
<1>9. /\ h \in Block /\ Num(h) = top /\ OnChain(h, k) /\ d = Mirror(h)
      /\ ~rolls => h = k
  <2>1. CASE rolls
    <3>1. top \in Block /\ top <= Num(k)
      BY <1>2, <1>8 DEF Block, BlockOrGenesis
    <3>2. path[k][top] \in Block /\ Num(path[k][top]) = top /\ OnChain(path[k][top], k)
      BY <3>1, MirrorEntries
    <3>3. removed(Mirror(k), Num(k) - top) = Mirror(path[k][top])
      BY <1>8, MirrorRemoved
    <3>4. d = removed(K, Num(k) - top)
      BY <1>6, <1>7, <2>1
    <3> HIDE DEF top, rolls, d
    <3> QED
      BY <2>1, <3>2, <3>3, <3>4 DEF K
  <2>2. CASE ~rolls
    <3>1. h = k /\ d = K /\ top = Num(k)
      BY <1>6, <1>8, <2>2
    <3>2. OnChain(k, k)
      BY <1>2, OnChainStep
    <3> QED
      BY <1>2, <2>2, <3>1, <3>2 DEF K
  <2> QED
    BY <2>1, <2>2
<1>10. r = 0 => ~rolls
  OBVIOUS
<1>11. ~(all <= first)
  BY <1>2, <1>7
<1> HIDE DEF all, rolls
<1>12. \A i \in Block : Readable(d, i) <=> i <= top
  BY <1>9, NumTyped, MirrorEntries
<1>13. gap = top + 1
  <2>1. \A i \in first + 1 .. top : i \in Block /\ i <= top
    <3> HIDE DEF top
    <3> QED
      BY <1>2, <1>7, <1>8 DEF Block, BlockOrGenesis
  <2>2. { i \in first + 1 .. top : ~Readable(d, i) } = {}
    BY <1>12, <2>1
  <2>3. gap = Min({top + 1})
    BY <2>2
  <2>4. top + 1 \in Int
    BY <1>2, <1>8
  <2> HIDE DEF top, gap
  <2> QED
    BY <2>3, <2>4 DEF Min
<1>14. point \in Int /\ point <= top
  <2> HIDE DEF top
  <2> QED
    BY <1>2, <1>8
<1> DEFINE m == Max({first, top})
<1>15. /\ turns = m - first
       /\ first <= top => m = top
       /\ ~(first <= top) => m = first
  <2>1. gap - 1 = top /\ first \in Int /\ top \in Int
    <3> HIDE DEF top, gap
    <3> QED
      BY <1>2, <1>7, <1>8, <1>13
  <2>2. turns = m - first
    <3> HIDE DEF top, gap
    <3> QED
      BY <2>1
  <2> HIDE DEF top, turns
  <2> QED
    BY <2>1, <2>2, MaxOfTwo
<1> HIDE DEF h, d, gap, top, m
<1>16. CASE ~(first <= top)
  <2>1. starts
    BY <1>2, <1>7, <1>8, <1>14, <1>16
  <2>2. ~Readable(d, first)
    <3>1. first \in Block /\ ~(first <= top)
      BY <1>2, <1>7, <1>8, <1>16 DEF Block, BlockOrGenesis
    <3> QED
      BY <1>12, <3>1
  <2>3. o = Throw([n EXCEPT !.blocks = d])
    BY <1>1, <1>11, <2>1, <2>2
  <2>4. ~o.ok
    <3> DEFINE x == [n EXCEPT !.blocks = d]
    <3>1. x \in Nodes
      <4>1. d \in [Block -> Entries]
        BY <1>9, NumTyped, MirrorEntries
      <4> QED
        BY <1>6, <4>1 DEF Nodes
    <3> HIDE DEF x, o
    <3>2. o = Throw(x) /\ Throw(x).ok = FALSE
      BY <2>3, <3>1, ThrowOK DEF x
    <3> QED
      BY <3>2
  <2>5. r # 0
    <3>1. r = 0 => top = Num(k)
      BY <1>8, <1>10
    <3> QED
      BY <1>2, <1>7, <1>16, <3>1
  <2> QED
    BY <2>4, <2>5 DEF K, n, o
<1>17. CASE first <= top
  <2>1. turns = top - first /\ turns \in Nat /\ Num(base) + turns = Num(h)
    <3> HIDE DEF turns
    <3> QED
      BY <1>2, <1>7, <1>8, <1>9, <1>15, <1>17
  <2>2. h \in BlockOrGenesis /\ OnChain(base, h) /\ FitChain(h)
    <3>1. h \in BlockOrGenesis
      BY <1>9, NumTyped
    <3>2. OnChain(base, h)
      BY <1>7, <1>9, <1>17, <3>1, OnChainWithin
    <3>3. \A b \in Block : OnChain(b, h) => OnChain(b, k)
      BY <1>9, <3>1, NumTyped, OnChainWithin
    <3> QED
      BY <3>1, <3>2, <3>3 DEF FitChain
  <2>3. starts => base \in Block /\ d[first].data = base /\ Readable(d, first)
    <3> SUFFICES ASSUME starts
                 PROVE  base \in Block /\ d[first].data = base /\ Readable(d, first)
      OBVIOUS
    <3>1. first > 0 /\ first \in Nat
      BY <1>2, <1>7
    <3>2. base \in Block
      BY <1>7, <3>1, NumTyped
    <3>3. first \in Block /\ first = Num(base)
      BY <1>7, <3>2, NumTyped
    <3>4. Mirror(h)[first] = Entry(path[h][first]) /\ path[h][first] = base
      <4>1. Mirror(h)[first] = Entry(path[h][first])
        BY <1>9, <1>17, <2>2, <3>3, MirrorEntries
      <4>2. base # Genesis
        BY <3>2, NumTyped
      <4> QED
        BY <2>2, <3>3, <4>1, <4>2 DEF OnChain
    <3>5. d[first] = Entry(base)
      BY <1>9, <3>4
    <3> QED
      BY <1>12, <1>17, <3>2, <3>3, <3>5 DEF Entry
  <2>4. s \in Nodes /\ Replays(s, h, base, point, 0)
    <3> DEFINE st == starts
               s2 == [n EXCEPT !.blocks = Mirror(h),
                               !.fork = IF st THEN start_block(@, base) ELSE @]
    <3>1. s = s2
      BY <1>9, <2>3
    <3>2. /\ st \in BOOLEAN /\ (st => base # Genesis)
          /\ ~st => Num(base) < point \/ base = Genesis
          /\ Num(base) < point => ~st
      <4>1. st => base # Genesis
        BY <2>3, NumTyped
      <4>2. ~st => Num(base) < point \/ Num(base) = 0
        <5> HIDE DEF point
        <5> QED
          BY <1>2, <1>7, <1>14
      <4>3. Num(base) < point => ~st
        <5> HIDE DEF point
        <5> QED
          BY <1>2, <1>7, <1>14
      <4>4. Num(base) = 0 => base = Genesis
        BY NumTyped DEF Block
      <4> QED
        BY <4>1, <4>2, <4>3, <4>4
    <3> HIDE DEF st, s, point
    <3>3. s2 \in Nodes /\ Replays(s2, h, base, point, 0)
      BY <1>6, <1>9, <1>14, <2>2, <3>2, ReplayStarts
    <3> HIDE DEF s2
    <3> QED
      BY <3>1, <3>3
  <2> HIDE DEF s, point, turns, starts
  <2>5. q \in Nodes /\ Replays(q, h, base, point, turns)
    <3>1. q = Replayed(s, Num(base), point, turns)
      BY <1>7
    <3>2. Num(base) + turns <= Num(h)
      BY <1>2, <1>8, <1>9, <2>1
    <3> HIDE DEF q
    <3> QED
      BY <1>14, <2>1, <2>2, <2>4, <3>1, <3>2, ReplayLoop
  <2> HIDE DEF q, o
  <2>6. q.ok /\ q.head = h /\ Opened(q, base, h, r)
    BY <1>9, <1>14, <2>1, <2>2, <2>5, ReplayEnds
  <2>7. ~(gap <= top)
    BY <1>2, <1>8, <1>13
  <2>8. o = q
    BY <1>1, <1>11, <2>3, <2>7
  <2>9. OnChain(q.head, k) /\ (q.head = k \/ (Num(q.head) = r /\ r # 0))
    BY <1>8, <1>9, <2>6
  <2>10. o.ok /\ Opened(o, base, k, r)
    BY <2>6, <2>8, <2>9 DEF Opened
  <2> QED
    BY <2>10 DEF K, n, o
<1> QED
  BY <1>16, <1>17

\* open() of a database that went down in order.
LEMMA OpenOK ==
    ASSUME TreeOK, saved \in BlockOrGenesis, was \in BlockOrGenesis,
           OnChain(saved, was), FitChain(was), Stored(node.blocks, was, saved),
           node.lib \in Int, NEW r \in Nat
    PROVE  /\ open(r).ok => \E k \in BlockOrGenesis :
                 /\ Opened(open(r), saved, k, r)
                 /\ k = was \/ (was \in Block /\ k = Prev(was))
           /\ r = 0 => open(r).ok
<1> DEFINE l == node.lib
<1>1. PICK k \in BlockOrGenesis :
        /\ truncated(node.blocks) = Mirror(k) /\ OnChain(saved, k)
        /\ k = was \/ (was \in Block /\ k = Prev(was))
  BY StoredTruncated
<1>2. FitChain(k)
  BY <1>1, FitChainStep
<1>3. Num(k) \in Nat /\ Num(saved) \in Nat /\ Num(saved) <= Num(k) /\ l \in Int
  BY <1>1, NumTyped, OnChainPath DEF BlockOrGenesis
<1> HIDE DEF l
<1> DEFINE K == Mirror(k)
           n == Fresh(saved, K, l)
           o == open(r)
<1>4. o = IF last(n.blocks) = 0 THEN n
          ELSE IF ~NotAfter(saved, n.blocks[last(n.blocks)].id) THEN Throw(n)
          ELSE reindex(n, r)
  BY <1>1 DEF open, l
<1>5. n.blocks = K
  BY DEF Fresh
<1>6. last(K) = Num(k)
  <2>1. Num(k) \in BlockOrGenesis /\ NumBlocks \in Nat
    BY NumTyped
  <2>2. \A i \in Block : Readable(K, i) <=> i <= Num(k)
    BY MirrorEntries
  <2> HIDE DEF K
  <2> QED
    BY <2>1, <2>2, LastIs
<1>7. k # Genesis => K[Num(k)].id = k
  <2> SUFFICES ASSUME k # Genesis PROVE K[Num(k)].id = k
    OBVIOUS
  <2>1. k \in Block /\ Num(k) \in Block /\ path[k][Num(k)] = k
    BY NumTyped, OnPath
  <2>2. K[Num(k)] = Entry(k)
    BY <1>3, <2>1, MirrorEntries
  <2> HIDE DEF K
  <2> QED
    BY <2>2 DEF Entry
<1>8. Num(saved) = Num(k) => saved = k
  BY <1>1, OnChainWithin
<1>9. Num(k) = 0 => k = Genesis
  BY NumTyped DEF Block
<1>10. Num(k) # 0 => NotAfter(saved, n.blocks[last(n.blocks)].id)
  <2> SUFFICES ASSUME Num(k) # 0 PROVE NotAfter(saved, n.blocks[last(n.blocks)].id)
    OBVIOUS
  <2>1. n.blocks[last(n.blocks)].id = k
    <3> HIDE DEF K, n
    <3>1. k # Genesis
      BY NumTyped
    <3> QED
      BY <1>5, <1>6, <1>7, <3>1
  <2>2. saved <= saved
    BY DEF BlockOrGenesis
  <2> HIDE DEF n, K
  <2> QED
    BY <1>3, <1>8, <2>1, <2>2 DEF NotAfter
<1>11. o = IF Num(k) = 0 THEN n ELSE reindex(n, r)
  <2> HIDE DEF K, n, o
  <2> QED
    BY <1>4, <1>5, <1>6, <1>10
<1>12. CASE Num(saved) = Num(k)
  <2>1. saved = k
    BY <1>8, <1>12
  <2>2. n.ok /\ Opened(n, k, k, r)
    BY <1>2, <1>3, <2>1, FreshOpened
  <2>3. reindex(n, r) = n
    <3>1. last(n.blocks) <= Num(n.head)
      <4>1. n.head = k
        BY <2>1 DEF Fresh
      <4> HIDE DEF n, K
      <4> QED
        BY <1>3, <1>5, <1>6, <4>1
    <3> HIDE DEF n, K
    <3> QED
      BY <3>1 DEF reindex
  <2>4. o = n
    <3> HIDE DEF n, o
    <3> QED
      BY <1>11, <2>3
  <2> HIDE DEF n, o
  <2>5. o.ok /\ Opened(o, saved, k, r)
    BY <2>1, <2>2, <2>4
  <2> QED
    BY <1>1, <2>5 DEF o
<1>13. CASE Num(saved) # Num(k)
  <2>1. Num(saved) < Num(k) /\ Num(k) # 0
    BY <1>3, <1>13
  <2> DEFINE x == reindex(n, r)
  <2>2. (x.ok => Opened(x, saved, k, r)) /\ (r = 0 => x.ok)
    BY <1>1, <1>2, <1>3, <2>1, ReindexOK
  <2> HIDE DEF x, n, o
  <2>3. o = x
    BY <1>11, <2>1 DEF x
  <2>4. (o.ok => Opened(o, saved, k, r)) /\ (r = 0 => o.ok)
    BY <2>2, <2>3
  <2> QED
    BY <1>1, <2>4 DEF o
<1> QED
  BY <1>12, <1>13

-----------------------------------------------------------------------------
\* close() goes down the chain.
LEMMA RewoundStep ==
    ASSUME TreeOK, NEW old \in BlockOrGenesis, NEW n \in Nodes, OnChain(n.head, old)
    PROVE  PoppedAndRemoved(n) \in Nodes /\ OnChain(PoppedAndRemoved(n).head, old)
<1> DEFINE p == database_pop_block(n)
           f == remove(p.fork, n.head)
           r == [p EXCEPT !.fork = f]
<1>1. CASE ~n.ok
  BY <1>1 DEF PoppedAndRemoved
<1>2. CASE n.ok
  <2>1. /\ p \in Nodes /\ (p.ok => HasPopped(n, p)) /\ (~p.ok => p.head = n.head)
    BY <1>2, PopBlockOK
  <2>2. PoppedAndRemoved(n) = IF ~p.ok THEN p ELSE r
    BY <1>2 DEF PoppedAndRemoved
  <2> HIDE DEF p
  <2>3. OnChain(p.head, old)
    <3>1. CASE ~p.ok
      BY <2>1, <3>1
    <3>2. CASE p.ok
      <4>1. n.head \in Block /\ p.head = Prev(n.head)
        BY <2>1, <3>2 DEF HasPopped
      <4>2. n.head \in BlockOrGenesis /\ n.head # Genesis
        BY <4>1, NumTyped
      <4> QED
        BY <4>1, <4>2, OnChainPath
    <3> QED
      BY <3>1, <3>2
  <2>4. f \in Forks
    <3>1. p.fork \in Forks
      BY <2>1 DEF Nodes
    <3> QED
      BY <3>1, ForkTyped
  <2> HIDE DEF f
  <2>5. r \in Nodes /\ r.head = p.head
    BY <2>1, <2>4 DEF Nodes
  <2> HIDE DEF r
  <2> QED
    BY <2>1, <2>2, <2>3, <2>5
<1> QED
  BY <1>1, <1>2

\* What it writes to disk is a block of the chain.
LEMMA RewoundOK ==
    ASSUME TreeOK, NEW n \in Nodes
    PROVE  Rewound(n).head \in BlockOrGenesis /\ OnChain(Rewound(n).head, n.head)
<1> DEFINE old == n.head
           k == Num(n.head) - LastIrreversible(n.head)
           s == [n EXCEPT !.ok = TRUE]
           V == { m \in Nodes : OnChain(m.head, old) }
           E(v, i) == PoppedAndRemoved(v)
           F(f) == [i \in 0 .. k |-> IF i = 0 THEN s ELSE E(f[i - 1], i)]
           step == [i \in 1 .. k |-> [v \in V |-> E(v, i)]]
           S == CHOOSE f : f = F(f)
<1>1. k \in Nat /\ old \in BlockOrGenesis
  <2>1. /\ Num(n.head) \in Nat /\ LastIrreversible(n.head) \in Nat
        /\ LastIrreversible(n.head) <= Num(n.head) /\ n.head \in BlockOrGenesis
    BY NodeNumbers
  <2> QED
    BY <2>1
<1>2. s \in V
  <2>1. s \in Nodes /\ s.head = old
    BY DEF Nodes
  <2>2. OnChain(old, old)
    BY <1>1, OnChainStep, NumTyped DEF OnChain
  <2> QED
    BY <2>1, <2>2
<1>3. \A i \in 1 .. k : \A v \in V : E(v, i) \in V
  BY <1>1, RewoundStep
<1>4. S = CHOOSE f : f = F(f)
  OBVIOUS
<1>5. Rewound(n) = S[k]
  BY DEF Rewound, Repeated
<1>6. \A v \in V : v.head \in BlockOrGenesis /\ OnChain(v.head, old)
  BY DEF Nodes
<1> HIDE DEF S, k, E, s, V, old
<1>7. StepFunction(step, k, V)
  BY <1>3 DEF StepFunction
<1>8. \A i \in 1 .. k : \A v \in V : step[i][v] = E(v, i)
  OBVIOUS
<1> HIDE DEF step
<1>9. PICK g : Recursive(g, k, V, s, step)
  BY <1>1, <1>2, <1>7, RecursionExists
<1>10. g = F(g)
  <2>1. \A i \in 1 .. k : g[i] = E(g[i - 1], i)
    <3> TAKE i \in 1 .. k
    <3>1. g[i] = step[i][g[i - 1]] /\ g[i - 1] \in V
      BY <1>1, <1>9 DEF Recursive
    <3> QED
      BY <1>8, <3>1
  <2>2. g = [i \in 0 .. k |-> g[i]] /\ g[0] = s
    BY <1>9 DEF Recursive
  <2>3. \A i \in 0 .. k : g[i] = IF i = 0 THEN s ELSE E(g[i - 1], i)
    <3> TAKE i \in 0 .. k
    <3>1. CASE i = 0
      BY <2>2, <3>1
    <3>2. CASE i \in 1 .. k
      BY <1>1, <2>1, <3>2
    <3> QED
      BY <1>1, <3>1, <3>2
  <2> QED
    BY <2>2, <2>3
<1>11. S = F(S)
  BY <1>4, <1>10
<1>12. S[0] = s /\ \A i \in 1 .. k : S[i] = E(S[i - 1], i)
  <2>1. \A i \in 0 .. k : S[i] = IF i = 0 THEN s ELSE E(S[i - 1], i)
    BY <1>11
  <2> QED
    BY <1>1, <2>1
<1> DEFINE T == { i \in 0 .. k : S[i] \in V }
<1>13. 0 \in T
  BY <1>1, <1>2, <1>12
<1>14. ASSUME NEW i \in 1 .. k, i - 1 \in T
       PROVE  i \in T
  <2>1. S[i - 1] \in V /\ i \in 0 .. k
    BY <1>1, <1>14
  <2> QED
    BY <1>3, <1>12, <2>1
<1>15. 0 .. k \subseteq T
  <2> HIDE DEF T
  <2> QED
    BY <1>1, <1>13, <1>14, IntervalInduction
<1>16. S[k] \in V
  BY <1>1, <1>15
<1> QED
  BY <1>5, <1>6, <1>16 DEF old

\* What a crash leaves on the disk.
LEMMA CrashStored ==
    ASSUME TreeOK, NEW base \in BlockOrGenesis, NEW n \in Nodes,
           n.blocks = Mirror(n.head), TailOK(n, base),
           NEW D \in AfterCrash(n)
    PROVE  Stored(D, n.head, base)
<1> DEFINE h == n.head
           t == Num(h)
<1>1. CASE n.tail.num = 0
  BY <1>1 DEF AfterCrash, Stored
<1>2. CASE n.tail.num # 0
  <2>1. n.tail.num = t /\ Num(base) < t /\ n.tail.old \in {NoEntry, Entry(h)}
    BY <1>2 DEF TailOK
  <2>2. h \in BlockOrGenesis /\ Num(h) \in Nat /\ Num(base) \in Nat
    BY NumTyped DEF Nodes, BlockOrGenesis
  <2>3. h \in Block /\ t \in Block
    BY <2>1, <2>2, NumTyped
  <2>4. /\ Mirror(h) \in [Block -> Entries] /\ Mirror(h)[t] = Entry(path[h][t])
        /\ path[h][t] = h
    BY <2>2, <2>3, MirrorEntries, OnPath
  <2>5. /\ Prev(h) \in BlockOrGenesis /\ Num(Prev(h)) = t - 1
        /\ \A i \in 1 .. t - 1 : path[Prev(h)][i] = path[h][i]
    BY <2>3, PrevOK
  <2>6. [Mirror(h) EXCEPT ![t] = Entry(h)] = Mirror(h)
    <3> HIDE DEF Mirror
    <3> QED
      BY <2>3, <2>4
  <2>7. [Mirror(h) EXCEPT ![t] = NoEntry] = Mirror(Prev(h))
    <3> DEFINE x == [Mirror(h) EXCEPT ![t] = NoEntry]
    <3>1. ASSUME NEW i \in Block
          PROVE  x[i] = Mirror(Prev(h))[i]
      <4>1. CASE i = t
        <5>1. ~(i <= Num(Prev(h)))
          BY <2>2, <2>5, <4>1
        <5> QED
          BY <4>1, <5>1 DEF Mirror
      <4>2. CASE i # t
        <5>1. x[i] = Mirror(h)[i]
          BY <2>4, <4>2
        <5>2. CASE i < t
          <6>1. i \in 1 .. t - 1 /\ i <= Num(Prev(h)) /\ i <= Num(h)
            BY <2>2, <2>5, <5>2 DEF Block
          <6> QED
            BY <2>5, <5>1, <6>1 DEF Mirror
        <5>3. CASE ~(i < t)
          <6>1. ~(i <= Num(Prev(h))) /\ ~(i <= Num(h))
            BY <2>2, <2>5, <4>2, <5>3 DEF Block
          <6> QED
            BY <5>1, <6>1 DEF Mirror
        <5> QED
          BY <5>2, <5>3
      <4> QED
        BY <4>1, <4>2
    <3>2. x = [i \in Block |-> x[i]]
      BY DEF Mirror
    <3>3. Mirror(Prev(h)) = [i \in Block |-> Mirror(Prev(h))[i]]
      BY DEF Mirror
    <3> QED
      BY <3>1, <3>2, <3>3
  <2>8. \/ D = Mirror(h)
        \/ D = [Mirror(h) EXCEPT ![t] = n.tail.old]
        \/ D = [Mirror(h) EXCEPT ![t].data = Lost]
    BY <1>2, <2>1 DEF AfterCrash
  <2> HIDE DEF Mirror
  <2> QED
    BY <2>1, <2>6, <2>7, <2>8 DEF Stored
<1> QED
  BY <1>1, <1>2

\* The inductive invariant of a node that is never killed in the middle of a
\* change of forks.  While it runs, the chain on the disk is its chain; when
\* it is down, that chain less its last block at most.
Recoverable(n, running, base, h) ==
    /\ base \in BlockOrGenesis
    /\ running => /\ n \in WithBase(base) /\ n.blocks = Mirror(n.head)
                  /\ TailOK(n, base)
    /\ ~running => /\ h \in BlockOrGenesis /\ FitChain(h) /\ OnChain(base, h)
                   /\ Stored(n.blocks, h, base) /\ n.lib \in Int

RInv == TreeOK /\ Recoverable(node, up, saved, was)

\* The tree of blocks does not change.
LEMMA RInvPrimed ==
    ASSUME TreeOK, UNCHANGED <<path, bad>>,
           Recoverable(node', up', saved', was')
    PROVE  RInv'
<1>1. path' = path /\ bad' = bad
  OBVIOUS
<1>2. TreeOK'
  BY <1>1 DEF TreeOK, PathsUpTo, PathIn
<1>3. saved' \in BlockOrGenesis
  BY DEF Recoverable
<1>31. ASSUME NEW b \in Block
       PROVE  (Fit(b))' <=> Fit(b)
  <2>1. (LastIrreversible(Prev(b)))' = LastIrreversible(Prev(b))
    BY <1>1 DEF LastIrreversible, LastConfirmed, Witness, Prev, Num
  <2>2. (Num(b))' = Num(b)
    BY <1>1 DEF Num
  <2> QED
    BY <1>1, <2>1, <2>2 DEF Fit
<1>32. ASSUME NEW h, FitChain(h)
       PROVE  (FitChain(h))'
  <2>1. \A b \in Block : (OnChain(b, h))' <=> OnChain(b, h)
    BY <1>1 DEF OnChain, Num
  <2> QED
    BY <1>31, <1>32, <2>1 DEF FitChain
<1>4. ASSUME up'
      PROVE  (node \in WithBase(saved) /\ node.blocks = Mirror(node.head) /\ TailOK(node, saved))'
  <2>1. /\ node' \in Nodes /\ AboveBase(node', saved') /\ node'.blocks = Mirror(node'.head)
        /\ TailOK(node', saved')
    BY <1>4 DEF Recoverable, WithBase
  <2>2. (TailOK(node, saved))'
    BY <1>1, <2>1 DEF TailOK, Num
  <2>3. (node.blocks = Mirror(node.head))'
    BY <1>1, <2>1 DEF Mirror, Num
  <2>4. (OnChain(saved, node.head))' /\ (node.undo <= Num(node.head) - Num(saved))'
    BY <1>1, <2>1 DEF AboveBase, OnChain, Num
  <2>5. (FitChain(node.head))'
    <3>1. FitChain(node'.head)
      BY <2>1 DEF AboveBase
    <3>2. PICK h : h = node'.head
      OBVIOUS
    <3>3. (FitChain(h))'
      BY <1>32, <3>1, <3>2
    <3> QED
      BY <3>2, <3>3 DEF FitChain, OnChain
  <2>6. (AboveBase(node, saved))'
    BY <2>1, <2>4, <2>5 DEF AboveBase
  <2> QED
    BY <2>1, <2>2, <2>3, <2>6 DEF WithBase
<1>5. ASSUME ~up'
      PROVE  (/\ was \in BlockOrGenesis /\ FitChain(was) /\ OnChain(saved, was)
              /\ Stored(node.blocks, was, saved) /\ node.lib \in Int)'
  <2>1. /\ was' \in BlockOrGenesis /\ FitChain(was') /\ OnChain(saved', was')
        /\ Stored(node'.blocks, was', saved') /\ node'.lib \in Int
    BY <1>5 DEF Recoverable
  <2>2. (OnChain(saved, was))'
    BY <1>1, <2>1 DEF OnChain, Num
  <2>3. (FitChain(was))'
    <3>1. PICK h : h = was'
      OBVIOUS
    <3>2. (FitChain(h))'
      BY <1>32, <2>1, <3>1
    <3> QED
      BY <3>1, <3>2 DEF FitChain, OnChain
  <2>4. (Stored(node.blocks, was, saved))'
    BY <1>1, <2>1 DEF Stored, Mirror, Num, Prev
  <2> QED
    BY <2>1, <2>2, <2>3, <2>4
<1>6. Recoverable(node, up, saved, was)'
  BY <1>3, <1>4, <1>5 DEF Recoverable
<1> QED
  BY <1>2, <1>6 DEF RInv

\* It starts with the genesis state.
LEMMA InitRInv == Init => RInv
<1> SUFFICES ASSUME Init PROVE RInv
  OBVIOUS
<1>1. TreeOK
  BY TreeInitOK DEF Init
<1>2. node = Fresh(Genesis, EmptyBlocks, 0) /\ up = TRUE /\ saved = Genesis
  BY DEF Init
<1>3. Num(Genesis) = 0 /\ Genesis \in BlockOrGenesis /\ Genesis \notin Block
  BY <1>1, NumTyped
<1>4. EmptyBlocks = Mirror(Genesis)
  <2>1. \A i \in Block : ~(i <= 0)
    BY DEF Block
  <2> QED
    BY <1>3, <2>1 DEF Mirror, EmptyBlocks
<1>5. FitChain(Genesis)
  <2> SUFFICES ASSUME NEW b \in Block, OnChain(b, Genesis) PROVE FALSE
    BY DEF FitChain
  <2>1. Num(b) <= 0 /\ Num(b) \in Block
    BY <1>1, <1>3, NumTyped DEF OnChain
  <2> QED
    BY <2>1 DEF Block
<1>6. Opened(node, Genesis, Genesis, 0)
  BY <1>1, <1>2, <1>3, <1>4, <1>5, FreshOpened
<1> QED
  BY <1>1, <1>2, <1>3, <1>6 DEF RInv, Recoverable, Opened

\* A step of a running node.
LEMMA RInvRuns ==
    ASSUME RInv, Next, up, up', FailsClean
    PROVE  Recoverable(node', up', saved', was') /\ UNCHANGED <<path, bad>>
<1> DEFINE V == WithBase(saved)
<1>1. /\ TreeOK /\ saved \in BlockOrGenesis /\ node \in V
      /\ node.blocks = Mirror(node.head) /\ TailOK(node, saved)
  BY DEF RInv, Recoverable
<1>2. Closed(V)
  BY <1>1, BaseClosed
<1>3. node \in Nodes /\ OnChain(saved, node.head) /\ node.head \in BlockOrGenesis
  BY <1>1 DEF WithBase, AboveBase, Nodes
<1> HIDE DEF V
<1>4. node' \in V /\ UNCHANGED <<path, bad, saved>>
  BY <1>1, <1>2, StepIn
<1>5. /\ node'.blocks = Mirror(node'.head)
      /\ \/ node'.head = node.head /\ node'.tail = node.tail
         \/ HasStored(node, node')
  BY <1>1, <1>2, MirrorStep
<1>6. TailOK(node', saved)
  <2>1. CASE node'.head = node.head /\ node'.tail = node.tail
    BY <1>1, <2>1 DEF TailOK
  <2>2. CASE HasStored(node, node')
    <3>1. Num(saved) <= Num(node.head)
      BY <1>1, <1>3, OnChainPath
    <3>2. node'.head \in BlockOrGenesis
      BY <1>4 DEF V, WithBase, Nodes
    <3>3. Num(saved) \in Int /\ Num(node.head) \in Int /\ Num(node'.head) \in Int
      BY <1>1, <1>3, <3>2, NumTyped DEF BlockOrGenesis
    <3>4. Num(saved) < Num(node'.head)
      BY <2>2, <3>1, <3>3 DEF HasStored
    <3> QED
      BY <2>2, <3>4 DEF TailOK, HasStored
  <2> QED
    BY <1>5, <2>1, <2>2
<1>7. saved' = saved /\ up' = TRUE
  BY <1>4
<1> QED
  BY <1>1, <1>4, <1>5, <1>6, <1>7 DEF Recoverable, V

\* The node goes down.
LEMMA RInvStops ==
    ASSUME RInv, Close \/ Crash
    PROVE  Recoverable(node', up', saved', was') /\ UNCHANGED <<path, bad>>
<1>1. up /\ up' = FALSE /\ was' = node.head /\ UNCHANGED <<path, bad>>
  BY DEF Close, Crash, Stop, tree
<1>2. /\ TreeOK /\ saved \in BlockOrGenesis /\ node \in WithBase(saved)
      /\ node.blocks = Mirror(node.head) /\ TailOK(node, saved)
  BY <1>1 DEF RInv, Recoverable
<1>3. /\ node \in Nodes /\ OnChain(saved, node.head) /\ FitChain(node.head)
      /\ node.head \in BlockOrGenesis /\ node.lib \in Int
  BY <1>2 DEF WithBase, AboveBase, Nodes
<1>4. CASE Close
  <2>1. saved' = Rewound(node).head /\ node' = Fresh(saved', node.blocks, node.lib)
    BY <1>4 DEF Close
  <2>2. saved' \in BlockOrGenesis /\ OnChain(saved', node.head)
    BY <1>2, <1>3, <2>1, RewoundOK
  <2>3. node'.blocks = Mirror(node.head) /\ node'.lib = node.lib
    BY <1>2, <2>1 DEF Fresh
  <2> QED
    BY <1>1, <1>3, <2>2, <2>3 DEF Recoverable, Stored
<1>5. CASE Crash
  <2>1. PICK D \in AfterCrash(node) : node' = Fresh(saved, D, node.lib)
    BY <1>5 DEF Crash
  <2>2. saved' = saved
    BY <1>5 DEF Crash
  <2>3. Stored(D, node.head, saved)
    BY <1>2, <1>3, CrashStored
  <2>4. node'.blocks = D /\ node'.lib = node.lib
    BY <2>1 DEF Fresh
  <2> QED
    BY <1>1, <1>2, <1>3, <2>2, <2>3, <2>4 DEF Recoverable
<1> QED
  BY <1>4, <1>5

\* The object database is wiped.
LEMMA RInvWiped ==
    ASSUME RInv, Wipe
    PROVE  Recoverable(node', up', saved', was') /\ UNCHANGED <<path, bad>>
<1>1. /\ ~up /\ up' = up /\ was' = was /\ saved' = Genesis /\ UNCHANGED <<path, bad>>
      /\ node' = Fresh(Genesis, node.blocks, node.lib)
  BY DEF Wipe, tree
<1>2. /\ TreeOK /\ saved \in BlockOrGenesis /\ was \in BlockOrGenesis /\ FitChain(was)
      /\ Stored(node.blocks, was, saved) /\ node.lib \in Int
  BY <1>1 DEF RInv, Recoverable
<1>3. node'.blocks = node.blocks /\ node'.lib = node.lib
  BY <1>1 DEF Fresh
<1>4. Genesis \in BlockOrGenesis /\ OnChain(Genesis, was)
  BY <1>2, NumTyped DEF OnChain
<1>5. Num(saved) < Num(was) => Num(Genesis) < Num(was)
  <2>1. Num(saved) \in Nat /\ Num(was) \in Nat /\ Num(Genesis) = 0
    BY <1>2, NumTyped DEF BlockOrGenesis
  <2> QED
    BY <2>1
<1>6. Stored(node.blocks, was, Genesis)
  BY <1>2, <1>5 DEF Stored
<1> QED
  BY <1>1, <1>2, <1>3, <1>4, <1>6 DEF Recoverable

\* It starts.
LEMMA RInvOpens ==
    ASSUME RInv, NEW r \in RollBackHeights, Open(r)
    PROVE  /\ Recoverable(node', up', saved', was') /\ UNCHANGED <<path, bad>>
           /\ OnChain(node'.head, was)
           /\ \/ Num(node'.head) >= Num(was) - 1
              \/ Num(node'.head) \in RollBackHeights \ {0}
<1>1. /\ ~up /\ up' = TRUE /\ saved' = saved /\ UNCHANGED <<path, bad>>
      /\ node' = open(r) /\ open(r).ok /\ r \in Nat
  BY ChainAssumption DEF Open, tree
<1>2. /\ TreeOK /\ saved \in BlockOrGenesis /\ was \in BlockOrGenesis /\ FitChain(was)
      /\ OnChain(saved, was)
      /\ Stored(node.blocks, was, saved) /\ node.lib \in Int
  BY <1>1 DEF RInv, Recoverable
<1>3. PICK k \in BlockOrGenesis :
        /\ Opened(open(r), saved, k, r)
        /\ k = was \/ (was \in Block /\ k = Prev(was))
  BY <1>1, <1>2, OpenOK
<1>4. Opened(node', saved, k, r)
  BY <1>1, <1>3
<1>5. Recoverable(node', up', saved', was')
  BY <1>1, <1>2, <1>4 DEF Recoverable, Opened
<1>6. node'.head \in BlockOrGenesis /\ OnChain(node'.head, k)
  BY <1>4 DEF Opened, WithBase, Nodes
<1>7. OnChain(k, was) /\ Num(k) >= Num(was) - 1
  <2>1. Num(was) \in Nat
    BY <1>2, NumTyped DEF BlockOrGenesis
  <2>2. CASE k = was
    <3>1. OnChain(k, k)
      BY <1>2, OnChainStep, NumTyped DEF OnChain
    <3> QED
      BY <2>1, <2>2, <3>1
  <2>3. CASE was \in Block /\ k = Prev(was)
    <3>1. OnChain(Prev(was), was) /\ Num(Prev(was)) = Num(was) - 1
      BY <1>2, <2>3, OnChainStep, PrevOK
    <3> QED
      BY <2>1, <2>3, <3>1
  <2> QED
    BY <1>3, <2>2, <2>3
<1>8. OnChain(node'.head, was)
  BY <1>2, <1>6, <1>7, OnChainWithin
<1>9. \/ Num(node'.head) >= Num(was) - 1
      \/ Num(node'.head) \in RollBackHeights \ {0}
  BY <1>4, <1>7 DEF Opened
<1> QED
  BY <1>1, <1>5, <1>8, <1>9

\* Steps of a node that is never killed in the middle of a change of forks.
LEMMA OrderlySteps ==
    ASSUME Next, ~torn'
    PROVE  \/ up /\ up'
           \/ Close \/ Crash \/ Wipe
           \/ \E r \in RollBackHeights : Open(r)
<1>1. ASSUME NEW b \in Block, PushBlock(b) \/ GenerateBlock(b)
      PROVE  up /\ up'
  BY <1>1 DEF PushBlock, GenerateBlock, Runs
<1>2. ASSUME PushTransaction
      PROVE  up /\ up'
  BY <1>2 DEF PushTransaction
<1>3. \A b, k : ~CrashInSwitch(b, k)
  BY DEF CrashInSwitch
<1>4. \A r : ~OpenFails(r)
  BY DEF OpenFails
<1> QED
  BY <1>1, <1>2, <1>3, <1>4 DEF Next

\* The invariant is kept.
LEMMA RInvStep ==
    ASSUME RInv, [Next]_vars, ~torn', [FailsClean]_vars
    PROVE  RInv'
<1>1. TreeOK
  BY DEF RInv
<1>2. CASE UNCHANGED vars
  <2>1. UNCHANGED <<path, bad>> /\ Recoverable(node', up', saved', was')
    <3>1. path' = path /\ bad' = bad /\ node' = node /\ up' = up /\ saved' = saved /\ was' = was
      BY <1>2 DEF vars
    <3> QED
      BY <3>1 DEF RInv
  <2> QED
    BY <1>1, <2>1, RInvPrimed
<1>3. CASE Next /\ ~UNCHANGED vars
  <2>1. Next /\ FailsClean
    BY <1>3
  <2>2. Recoverable(node', up', saved', was') /\ UNCHANGED <<path, bad>>
    BY <2>1, OrderlySteps, RInvRuns, RInvStops, RInvWiped, RInvOpens
  <2> QED
    BY <1>1, <2>2, RInvPrimed
<1> QED
  BY <1>2, <1>3

\* The block database holds the chain of the node, slot by slot, after every
\* change of forks and every restart, as long as no change of forks fails or
\* is killed half way.
THEOREM BlocksMirrorChain ==
    Spec /\ []~torn /\ [][FailsClean]_vars => []BlockDbMirrorsChain
<1>1. RInv => BlockDbMirrorsChain
  BY DEF RInv, Recoverable, BlockDbMirrorsChain, Mirror, Entry
<1> QED
  BY <1>1, InitRInv, RInvStep, PTL DEF Spec

\* A node that was closed, or killed at any moment outside a change of forks,
\* starts again: whatever the crash took from the end of the files, reindex()
\* finds every block it needs and replays it without an exception.
THEOREM RestartSucceeds ==
    Spec /\ []~torn /\ [][FailsClean]_vars => []OpenSucceeds
<1>1. RInv => OpenSucceeds
  <2> SUFFICES ASSUME RInv, ~up PROVE open(0).ok
    BY DEF OpenSucceeds
  <2>1. /\ TreeOK /\ saved \in BlockOrGenesis /\ was \in BlockOrGenesis /\ FitChain(was)
        /\ OnChain(saved, was)
        /\ Stored(node.blocks, was, saved) /\ node.lib \in Int
    BY DEF RInv, Recoverable
  <2> QED
    BY <2>1, OpenOK
<1> QED
  BY <1>1, InitRInv, RInvStep, PTL DEF Spec

\* The node that has started has the chain it had when it went down, less its
\* last block at most, unless it was asked to roll back.
THEOREM RestartKeepsChain ==
    Spec /\ []~torn /\ [][FailsClean]_vars => RestartRecovers
<1> DEFINE A == ~up /\ up' /\ ~torn =>
                  /\ OnChain(node'.head, was)
                  /\ \/ Num(node'.head) >= Num(was) - 1
                     \/ Num(node'.head) \in RollBackHeights \ {0}
<1>1. RInv /\ [Next]_vars => [A]_vars
  <2> SUFFICES ASSUME RInv, Next, ~up, up'
               PROVE  A
    BY DEF vars
  <2>1. \E r \in RollBackHeights : Open(r)
    BY DEF Next, PushBlock, GenerateBlock, PushTransaction, Close, Crash, Stop, Wipe,
           CrashInSwitch, OpenFails
  <2> QED
    BY <2>1, RInvOpens
<1> QED
  BY <1>1, InitRInv, RInvStep, PTL DEF Spec, RestartRecovers
=============================================================================
