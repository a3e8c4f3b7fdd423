------------------------- MODULE Governance_proofs -------------------------
(***************************************************************************)
(* The theorems about Governance: locks, votes and the core asset add up   *)
(* for any number of accounts, any amounts and any history, failed         *)
(* maintenances included.                                                  *)
(***************************************************************************)
EXTENDS Governance, Induction, FiniteSetTheorems

-----------------------------------------------------------------------------
(***************************************************************************)
(* Sums over all accounts.                                                 *)
(***************************************************************************)
\* An amount for each account.
Amount == [Account -> Int]

\* The partial sums.
LEMMA PartialIs ==
    ASSUME NEW f \in Amount
    PROVE  /\ Partial(f) \in [0 .. NumAccounts -> Int] /\ Partial(f)[0] = 0
           /\ \A i \in 1 .. NumAccounts : Partial(f)[i] = Partial(f)[i - 1] + f[i]
<1> DEFINE n == NumAccounts
           V == Int
           base == 0
           E(v, i) == v + f[i]
           F(u) == [i \in 0 .. n |-> IF i = 0 THEN base ELSE E(u[i - 1], i)]
           step == [i \in 1 .. n |-> [v \in V |-> E(v, i)]]
           S == Partial(f)
<1>1. n \in Nat /\ base \in V
  BY GovernanceConstants
<1>2. ASSUME NEW i \in 1 .. n, NEW v \in V
      PROVE  E(v, i) \in V
  BY DEF Amount, Account
<1>3. S = CHOOSE u : u = F(u)
  BY DEF Partial
<1> HIDE DEF S, n, V, base, E
<1>4. StepFunction(step, n, V)
  BY <1>2 DEF StepFunction
<1>5. \A i \in 1 .. n : \A v \in V : step[i][v] = E(v, i)
  OBVIOUS
<1> HIDE DEF step
<1>6. PICK g : Recursive(g, n, V, base, step)
  BY <1>1, <1>4, RecursionExists
<1>7. g = F(g)
  <2>1. \A i \in 1 .. n : g[i] = E(g[i - 1], i)
    BY <1>1, <1>5, <1>6 DEF Recursive
  <2>2. g = [i \in 0 .. n |-> g[i]] /\ g[0] = base
    BY <1>6 DEF Recursive
  <2>3. \A i \in 0 .. n : g[i] = IF i = 0 THEN base ELSE E(g[i - 1], i)
    <3> TAKE i \in 0 .. n
    <3>1. CASE i = 0
      BY <2>2, <3>1
    <3>2. CASE i \in 1 .. n
      BY <1>1, <2>1, <3>2
    <3> QED
      BY <1>1, <3>1, <3>2
  <2> QED
    BY <2>2, <2>3
<1>8. S = F(S)
  BY <1>3, <1>7
<1>9. \A i \in 0 .. n : S[i] = IF i = 0 THEN base ELSE E(S[i - 1], i)
  BY <1>8
<1>10. S = [i \in 0 .. n |-> S[i]]
  BY <1>8, <1>9
<1>11. S[0] = base /\ \A i \in 1 .. n : S[i] = E(S[i - 1], i)
  BY <1>1, <1>9
<1>12. Recursive(S, n, V, base, step)
  BY <1>1, <1>4, <1>5, <1>10, <1>11, RecursionTyped
<1> QED
  BY <1>11, <1>12 DEF Recursive, V, n, S, base, E

\* A sum is an integer.
LEMMA TotalType ==
    ASSUME NEW f \in Amount
    PROVE  Total(f) \in Int
<1>1. NumAccounts \in 0 .. NumAccounts
  BY GovernanceConstants
<1>2. Partial(f)[NumAccounts] \in Int
  BY <1>1, PartialIs
<1> QED
  BY <1>2 DEF Total

\* A sum in which one term changes.
LEMMA TotalAt ==
    ASSUME NEW f \in Amount, NEW g \in Amount, NEW a \in Account,
           \A b \in Account \ {a} : g[b] = f[b]
    PROVE  Total(g) = Total(f) + g[a] - f[a]
<1> DEFINE F == Partial(f)
           G == Partial(g)
           T == { i \in 0 .. NumAccounts :
                    G[i] = F[i] + (IF a <= i THEN g[a] - f[a] ELSE 0) }
<1>1. NumAccounts \in Nat
  BY GovernanceConstants
<1>2. /\ F \in [0 .. NumAccounts -> Int] /\ F[0] = 0
      /\ \A i \in 1 .. NumAccounts : F[i] = F[i - 1] + f[i]
  BY PartialIs
<1>3. /\ G \in [0 .. NumAccounts -> Int] /\ G[0] = 0
      /\ \A i \in 1 .. NumAccounts : G[i] = G[i - 1] + g[i]
  BY PartialIs
<1>4. Total(f) = F[NumAccounts] /\ Total(g) = G[NumAccounts]
  BY DEF Total
<1> HIDE DEF F, G
<1>5. 0 \in T
  BY <1>1, <1>2, <1>3 DEF Account
<1>6. ASSUME NEW i \in 1 .. NumAccounts, i - 1 \in T
      PROVE  i \in T
  <2>1. /\ F[i] = F[i - 1] + f[i] /\ G[i] = G[i - 1] + g[i]
        /\ F[i - 1] \in Int /\ G[i - 1] \in Int
        /\ f[i] \in Int /\ g[i] \in Int /\ f[a] \in Int /\ g[a] \in Int
    <3>1. i - 1 \in 0 .. NumAccounts /\ i \in Account
      BY <1>1 DEF Account
    <3>2. f[i] \in Int /\ g[i] \in Int /\ f[a] \in Int /\ g[a] \in Int
      BY <3>1 DEF Amount
    <3> QED
      BY <1>2, <1>3, <3>1, <3>2
  <2>2. G[i - 1] = F[i - 1] + (IF a <= i - 1 THEN g[a] - f[a] ELSE 0)
    BY <1>6
  <2>3. CASE i = a
    BY <2>1, <2>2, <2>3 DEF Account
  <2>4. CASE i # a
    <3>1. g[i] = f[i]
      BY <2>4 DEF Account
    <3> QED
      BY <2>1, <2>2, <2>4, <3>1 DEF Account
  <2> QED
    BY <2>3, <2>4
<1>7. 0 .. NumAccounts \subseteq T
  <2> HIDE DEF T
  <2> QED
    BY <1>1, <1>5, <1>6, IntervalInduction
<1> QED
  <2>1. NumAccounts \in T
    BY <1>1, <1>7
  <2>2. G[NumAccounts] = F[NumAccounts] + g[a] - f[a]
    BY <1>1, <1>2, <2>1 DEF Account, Amount
  <2> QED
    BY <1>4, <2>2

\* The sum of sums.
LEMMA TotalAdd ==
    ASSUME NEW f \in Amount, NEW g \in Amount, NEW h \in Amount,
           \A b \in Account : h[b] = f[b] + g[b]
    PROVE  Total(h) = Total(f) + Total(g)
<1> DEFINE F == Partial(f)
           G == Partial(g)
           H == Partial(h)
           T == { i \in 0 .. NumAccounts : H[i] = F[i] + G[i] }
<1>1. NumAccounts \in Nat
  BY GovernanceConstants
<1>2. /\ F \in [0 .. NumAccounts -> Int] /\ F[0] = 0
      /\ \A i \in 1 .. NumAccounts : F[i] = F[i - 1] + f[i]
  BY PartialIs
<1>3. /\ G \in [0 .. NumAccounts -> Int] /\ G[0] = 0
      /\ \A i \in 1 .. NumAccounts : G[i] = G[i - 1] + g[i]
  BY PartialIs
<1>4. /\ H \in [0 .. NumAccounts -> Int] /\ H[0] = 0
      /\ \A i \in 1 .. NumAccounts : H[i] = H[i - 1] + h[i]
  BY PartialIs
<1>5. /\ Total(f) = F[NumAccounts] /\ Total(g) = G[NumAccounts]
      /\ Total(h) = H[NumAccounts]
  BY DEF Total
<1> HIDE DEF F, G, H
<1>6. 0 \in T
  BY <1>1, <1>2, <1>3, <1>4
<1>7. ASSUME NEW i \in 1 .. NumAccounts, i - 1 \in T
      PROVE  i \in T
  <2>1. /\ F[i] = F[i - 1] + f[i] /\ G[i] = G[i - 1] + g[i]
        /\ H[i] = H[i - 1] + h[i] /\ h[i] = f[i] + g[i]
        /\ F[i - 1] \in Int /\ G[i - 1] \in Int
        /\ f[i] \in Int /\ g[i] \in Int
    BY <1>1, <1>2, <1>3, <1>4, SMTT(30) DEF Amount, Account
  <2>2. H[i - 1] = F[i - 1] + G[i - 1]
    BY <1>7
  <2> QED
    BY <2>1, <2>2
<1>8. 0 .. NumAccounts \subseteq T
  <2> HIDE DEF T
  <2> QED
    BY <1>1, <1>6, <1>7, IntervalInduction
<1> QED
  BY <1>1, <1>5, <1>8

\* The sum of natural numbers.
LEMMA TotalNat ==
    ASSUME NEW f \in [Account -> Nat]
    PROVE  f \in Amount /\ Total(f) \in Nat
<1> DEFINE F == Partial(f)
           T == { i \in 0 .. NumAccounts : F[i] >= 0 }
<1>1. NumAccounts \in Nat /\ f \in Amount
  BY GovernanceConstants DEF Amount
<1>2. /\ F \in [0 .. NumAccounts -> Int] /\ F[0] = 0
      /\ \A i \in 1 .. NumAccounts : F[i] = F[i - 1] + f[i]
  BY <1>1, PartialIs
<1>3. Total(f) = F[NumAccounts]
  BY DEF Total
<1> HIDE DEF F
<1>4. 0 \in T
  BY <1>1, <1>2
<1>5. ASSUME NEW i \in 1 .. NumAccounts, i - 1 \in T
      PROVE  i \in T
  <2>1. F[i] = F[i - 1] + f[i] /\ F[i - 1] \in Int /\ f[i] \in Nat
    BY <1>1, <1>2 DEF Account
  <2> QED
    BY <1>5, <2>1
<1>6. 0 .. NumAccounts \subseteq T
  <2> HIDE DEF T
  <2> QED
    BY <1>1, <1>4, <1>5, IntervalInduction
<1> QED
  BY <1>1, <1>2, <1>3, <1>6

\* The sum of the same number for each account.
LEMMA TotalSame ==
    ASSUME NEW c \in Int, NEW f \in Amount, \A b \in Account : f[b] = c
    PROVE  Total(f) = c * NumAccounts
<1> DEFINE F == Partial(f)
           T == { i \in 0 .. NumAccounts : F[i] = c * i }
<1>1. NumAccounts \in Nat
  BY GovernanceConstants
<1>2. /\ F \in [0 .. NumAccounts -> Int] /\ F[0] = 0
      /\ \A i \in 1 .. NumAccounts : F[i] = F[i - 1] + f[i]
  BY PartialIs
<1>3. Total(f) = F[NumAccounts]
  BY DEF Total
<1> HIDE DEF F
<1>4. 0 \in T
  BY <1>1, <1>2
<1>5. ASSUME NEW i \in 1 .. NumAccounts, i - 1 \in T
      PROVE  i \in T
  <2>1. F[i] = F[i - 1] + c
    BY <1>2 DEF Account
  <2>2. F[i - 1] = c * (i - 1)
    BY <1>5
  <2>3. c * (i - 1) + c = c * i
    BY <1>1
  <2> QED
    BY <2>1, <2>2, <2>3
<1>6. 0 .. NumAccounts \subseteq T
  <2> HIDE DEF T
  <2> QED
    BY <1>1, <1>4, <1>5, IntervalInduction
<1> QED
  BY <1>1, <1>3, <1>6

-----------------------------------------------------------------------------
(***************************************************************************)
(* The inductive invariant.                                                *)
(***************************************************************************)
\* The values of the variables.
Wallet == [bal : Int, vest : Int, votes : SUBSET (Kind \X Account),
           locked : Int, frozen : [Kind -> Nat], stake : [Kind -> Nat]]
Candidate == [id : Nat, working : BOOLEAN, votes : Int, changed : BOOLEAN]
Core == [supply : Int, max : Int, fees : Int, witness : Int, records : Nat,
         worker : Int, award : Nat, burned : Int, lastBudget : Int]
Worker == [plan : Plan, completed : BOOLEAN]
HeadBlock == [time : Int, height : Int, next : Int, elected : Int,
              active : [Kind -> SUBSET Account], schedule : SUBSET Account,
              losers : SUBSET Account]

Wallets == [Account -> Wallet]
Candidates == [Kind -> [Account -> Candidate]]

\* The type invariant.
TypeOK ==
    /\ acct \in Wallets /\ cand \in Candidates /\ core \in Core
    /\ workers \in Seq(Worker) /\ head \in HeadBlock
    /\ refs \in [Kind -> [Account -> Nat]]

\* There is nothing to pay out before there is a budget.
NoBudgetYet == core.records = 0 => core.worker = 0 /\ core.award = 0

\* Only a candidate works as one.
CandidatesKnown ==
    \A k \in Kind, a \in Account : cand[k][a].id = 0 => ~cand[k][a].working

\* The inductive invariant: each of the three properties needs the others.
IInv ==
    /\ TypeOK /\ NoBudgetYet /\ CandidatesKnown
    /\ LocksJustified /\ VotesAreStakes /\ SupplyAddsUp

-----------------------------------------------------------------------------
(***************************************************************************)
(* The properties, of given wallets and candidates.                        *)
(***************************************************************************)
\* The locks of one account, which as a candidate is y[k].
LocksOK(x, y) ==
    /\ x.locked = x.frozen["witness"] + x.stake["witness"]
                    + x.frozen["committee"] + x.stake["committee"]
    /\ x.locked <= x.bal
    /\ \A k \in Kind : /\ x.frozen[k] > 0 <=> y[k].working
                       /\ x.stake[k] > 0 <=> { v \in x.votes : v[1] = k } # {}

\* The locks of every account.
AllLocksOK(ac, ca) ==
    \A a \in Account : LocksOK(ac[a], [ k \in Kind |-> ca[k][a] ])

\* The stakes that accounts have given to candidate b.
StakeFor(ac, k, b) ==
    [ a \in Account |-> IF <<k, b>> \in ac[a].votes THEN ac[a].stake[k] ELSE 0 ]

\* The total of one candidate, and of all.
VotesOK(ac, ca, k, b) ==
    ca[k][b].votes = Total(StakeFor(ac, k, b)) + ac[b].frozen[k]

AllVotesOK(ac, ca) == \A k \in Kind, b \in Account : VotesOK(ac, ca, k, b)

\* What the accounts have, in balances and vesting balances.
Worth(ac) == Total([ a \in Account |-> ac[a].bal + ac[a].vest ])

\* The properties of Governance in these terms.
LEMMA LocksAre == LocksJustified <=> AllLocksOK(acct, cand)
BY DEF LocksJustified, AllLocksOK, LocksOK, VotesOf, Kind

\* VotesAreStakes, of the present wallets and candidates.
LEMMA VotesAre == VotesAreStakes <=> AllVotesOK(acct, cand)
BY DEF VotesAreStakes, AllVotesOK, VotesOK, StakeFor

\* SupplyAddsUp, with what the accounts have as one amount.
LEMMA SupplyIs ==
    SupplyAddsUp <=> core.supply = Worth(acct) + core.fees + core.witness
                                     + core.worker + core.award + core.burned
BY DEF SupplyAddsUp, Worth

\* The stakes for a candidate are natural numbers.
LEMMA StakesType ==
    ASSUME NEW ac \in Wallets, NEW k \in Kind, NEW b \in Account
    PROVE  /\ StakeFor(ac, k, b) \in [Account -> Nat]
           /\ StakeFor(ac, k, b) \in Amount
           /\ Total(StakeFor(ac, k, b)) \in Nat
<1>1. StakeFor(ac, k, b) \in [Account -> Nat]
  BY DEF StakeFor, Wallets, Wallet
<1> QED
  BY <1>1, TotalNat

\* What the accounts have is an integer.
LEMMA WorthType ==
    ASSUME NEW ac \in Wallets
    PROVE  [ a \in Account |-> ac[a].bal + ac[a].vest ] \in Amount
BY DEF Wallets, Wallet, Amount

\* What the accounts have together is an integer.
LEMMA WorthInt ==
    ASSUME NEW ac \in Wallets
    PROVE  Worth(ac) \in Int
<1> DEFINE f == [ a \in Account |-> ac[a].bal + ac[a].vest ]
<1>1. f \in Amount
  BY WorthType
<1> HIDE DEF f
<1>2. Total(f) \in Int
  BY <1>1, TotalType
<1> QED
  BY <1>2 DEF Worth, f

\* Only one account has more or less than before.
LEMMA WorthAt ==
    ASSUME NEW ac \in Wallets, NEW bc \in Wallets, NEW a \in Account,
           \A b \in Account \ {a} : /\ bc[b].bal = ac[b].bal
                                    /\ bc[b].vest = ac[b].vest
    PROVE  Worth(bc) = Worth(ac) + (bc[a].bal + bc[a].vest) - (ac[a].bal + ac[a].vest)
<1> DEFINE f == [ b \in Account |-> ac[b].bal + ac[b].vest ]
           g == [ b \in Account |-> bc[b].bal + bc[b].vest ]
<1>1. f \in Amount /\ g \in Amount
  BY WorthType
<1>2. \A b \in Account \ {a} : g[b] = f[b]
  OBVIOUS
<1>3. g[a] = bc[a].bal + bc[a].vest /\ f[a] = ac[a].bal + ac[a].vest
  OBVIOUS
<1>4. Worth(ac) = Total(f) /\ Worth(bc) = Total(g)
  BY DEF Worth
<1> HIDE DEF f, g
<1>5. Total(g) = Total(f) + g[a] - f[a]
  BY <1>1, <1>2, TotalAt
<1> QED
  BY <1>3, <1>4, <1>5

\* The votes and locks of an account stay as they are.
SameLocks(x, y) ==
    /\ y.votes = x.votes /\ y.locked = x.locked
    /\ y.frozen = x.frozen /\ y.stake = x.stake

\* A candidate keeps all but the mark of a change.
SameCandidate(x, y) ==
    (y.id = x.id /\ y.votes = x.votes) /\ (y.working <=> x.working)

\* Payments that leave enough to cover the locks disturb neither locks nor
\* votes.
LEMMA PaymentsOK ==
    ASSUME NEW ac \in Wallets, NEW bc \in Wallets,
           NEW ca \in Candidates, NEW da \in Candidates,
           \A a \in Account : SameLocks(ac[a], bc[a]) /\ bc[a].locked <= bc[a].bal,
           \A k \in Kind, a \in Account : SameCandidate(ca[k][a], da[k][a]),
           AllLocksOK(ac, ca), AllVotesOK(ac, ca)
    PROVE  AllLocksOK(bc, da) /\ AllVotesOK(bc, da)
<1>1. ASSUME NEW a \in Account
      PROVE  LocksOK(bc[a], [ k \in Kind |-> da[k][a] ])
  <2>1. LocksOK(ac[a], [ k \in Kind |-> ca[k][a] ])
    BY DEF AllLocksOK
  <2>2. SameLocks(ac[a], bc[a]) /\ bc[a].locked <= bc[a].bal
    OBVIOUS
  <2>3. \A k \in Kind : da[k][a].working <=> ca[k][a].working
    BY DEF SameCandidate
  <2> QED
    BY <2>1, <2>2, <2>3 DEF LocksOK, SameLocks
<1>2. ASSUME NEW k \in Kind, NEW b \in Account
      PROVE  VotesOK(bc, da, k, b)
  <2>1. \A a \in Account : bc[a].votes = ac[a].votes /\ bc[a].stake = ac[a].stake
    BY DEF SameLocks
  <2>2. StakeFor(bc, k, b) = StakeFor(ac, k, b)
    BY <2>1 DEF StakeFor
  <2>3. bc[b].frozen = ac[b].frozen
    BY DEF SameLocks
  <2>4. da[k][b].votes = ca[k][b].votes
    BY DEF SameCandidate
  <2>5. VotesOK(ac, ca, k, b)
    BY DEF AllVotesOK
  <2> QED
    BY <2>2, <2>3, <2>4, <2>5 DEF VotesOK
<1> QED
  BY <1>1, <1>2 DEF AllLocksOK, AllVotesOK

\* The invariant of the next state, in these terms.
LEMMA NextIInv ==
    ASSUME TypeOK', NoBudgetYet', CandidatesKnown',
           AllLocksOK(acct', cand'), AllVotesOK(acct', cand'),
           core'.supply = Worth(acct') + core'.fees + core'.witness
                            + core'.worker + core'.award + core'.burned
    PROVE  IInv'
<1>1. LocksJustified'
  BY DEF LocksJustified, AllLocksOK, LocksOK, VotesOf, Kind
<1>2. VotesAreStakes'
  BY DEF VotesAreStakes, AllVotesOK, VotesOK, StakeFor
<1>3. SupplyAddsUp'
  BY DEF SupplyAddsUp, Worth
<1> QED
  BY <1>1, <1>2, <1>3 DEF IInv

\* What the invariant says, in these terms.
LEMMA IInvIs ==
    ASSUME IInv
    PROVE  /\ acct \in Wallets /\ cand \in Candidates /\ core \in Core
           /\ AllLocksOK(acct, cand) /\ AllVotesOK(acct, cand)
           /\ core.supply = Worth(acct) + core.fees + core.witness
                              + core.worker + core.award + core.burned
BY LocksAre, VotesAre, SupplyIs DEF IInv, TypeOK

\* A step that changes nothing keeps the invariant.
LEMMA StutterIInv ==
    ASSUME IInv, UNCHANGED vars
    PROVE  IInv'
<1>1. TypeOK' /\ NoBudgetYet' /\ CandidatesKnown'
  BY DEF IInv, TypeOK, NoBudgetYet, CandidatesKnown, vars
<1>2. acct' = acct /\ cand' = cand /\ core' = core
  BY DEF vars
<1> QED
  BY <1>1, <1>2, IInvIs, NextIInv

-----------------------------------------------------------------------------
(***************************************************************************)
(* Operations that pay.                                                    *)
(***************************************************************************)
\* Setting what an account has.
LEMMA BalSet ==
    ASSUME NEW w \in Wallet, NEW n \in Int
    PROVE  LET x == [w EXCEPT !.bal = n]
           IN  x \in Wallet /\ SameLocks(w, x) /\ x.bal = n /\ x.vest = w.vest
BY DEF Wallet, SameLocks

\* Another vesting balance changes nothing else of an account.
LEMMA VestSet ==
    ASSUME NEW w \in Wallet, NEW n \in Int
    PROVE  LET x == [w EXCEPT !.vest = n]
           IN  x \in Wallet /\ SameLocks(w, x) /\ x.vest = n /\ x.bal = w.bal
BY DEF Wallet, SameLocks

\* Account a has x now, and as much as before is locked.
Moved(ac, bc, a, x) ==
    /\ bc \in Wallets /\ bc[a] = x
    /\ \A b \in Account \ {a} : bc[b] = ac[b]
    /\ \A b \in Account : SameLocks(ac[b], bc[b])
    /\ Worth(bc) = Worth(ac) + (x.bal + x.vest) - (ac[a].bal + ac[a].vest)

\* Replacing the wallet of one account changes what all have by that much.
LEMMA MovedIs ==
    ASSUME NEW ac \in Wallets, NEW a \in Account, NEW x \in Wallet,
           SameLocks(ac[a], x)
    PROVE  Moved(ac, [ac EXCEPT ![a] = x], a, x)
<1> DEFINE bc == [ac EXCEPT ![a] = x]
<1>1. /\ bc \in Wallets /\ bc[a] = x
      /\ \A b \in Account \ {a} : bc[b] = ac[b]
  BY DEF Wallets
<1>2. \A b \in Account : SameLocks(ac[b], bc[b])
  BY <1>1 DEF SameLocks
<1> HIDE DEF bc
<1>3. Worth(bc) = Worth(ac) + (x.bal + x.vest) - (ac[a].bal + ac[a].vest)
  BY <1>1, WorthAt
<1>4. Moved(ac, bc, a, x)
  BY <1>1, <1>2, <1>3 DEF Moved
<1> QED
  BY <1>4 DEF bc

\* A step that only pays: what accounts and the core asset have changes, what
\* is locked stays covered.
LEMMA PayStep ==
    ASSUME IInv, acct' \in Wallets, core' \in Core, NoBudgetYet',
           \A a \in Account : /\ SameLocks(acct[a], acct'[a])
                              /\ acct'[a].locked <= acct'[a].bal,
           core'.supply = Worth(acct') + core'.fees + core'.witness
                            + core'.worker + core'.award + core'.burned,
           UNCHANGED <<cand, workers, head, refs>>
    PROVE  IInv'
<1>1. TypeOK' /\ CandidatesKnown'
  BY DEF IInv, TypeOK, CandidatesKnown
<1>2. \A k \in Kind, a \in Account : SameCandidate(cand[k][a], cand'[k][a])
  BY DEF SameCandidate
<1>3. AllLocksOK(acct', cand') /\ AllVotesOK(acct', cand')
  <2>1. cand' \in Candidates
    BY IInvIs
  <2> QED
    BY <1>2, <2>1, IInvIs, PaymentsOK
<1> QED
  BY <1>1, <1>3, NextIInv

\* The locks of every account are covered.
LEMMA LocksCovered ==
    ASSUME IInv, NEW a \in Account
    PROVE  acct[a] \in Wallet /\ acct[a].locked <= acct[a].bal
BY IInvIs DEF Wallets, AllLocksOK, LocksOK

\* Transfer moves an amount between two accounts.
LEMMA TransferIInv ==
    ASSUME IInv, NEW a \in Account, NEW b \in Account, NEW n \in Nat,
           Transfer(a, b, n)
    PROVE  IInv'
<1> DEFINE x == [acct[a] EXCEPT !.bal = @ - n]
           y == [acct[b] EXCEPT !.bal = @ + n]
           bc == [acct EXCEPT ![a] = x]
           cc == [bc EXCEPT ![b] = y]
<1>0. acct \in Wallets /\ acct[a] \in Wallet /\ acct[b] \in Wallet /\ a # b
  BY IInvIs DEF Wallets, Transfer
<1>a. /\ acct[a].bal \in Int /\ acct[a].vest \in Int /\ acct[a].locked \in Int
      /\ acct[b].bal \in Int /\ acct[b].vest \in Int /\ acct[b].locked \in Int
  BY <1>0 DEF Wallet
<1>1. /\ x \in Wallet /\ SameLocks(acct[a], x) /\ x.bal = acct[a].bal - n
      /\ x.vest = acct[a].vest
  <2>1. acct[a].bal - n \in Int
    BY <1>a
  <2> QED
    BY <1>0, <2>1, BalSet
<1>2. /\ y \in Wallet /\ SameLocks(acct[b], y) /\ y.bal = acct[b].bal + n
      /\ y.vest = acct[b].vest
  BY <1>0, <1>a, BalSet
<1>3. acct' = cc
  <2>1. acct' = [acct EXCEPT ![a].bal = @ - n, ![b].bal = @ + n]
    BY DEF Transfer
  <2>2. bc[b] = acct[b]
    BY <1>0 DEF Wallets
  <2> QED
    BY <1>0, <2>1, <2>2
<1> HIDE DEF x, y
<1>4. Moved(acct, bc, a, x)
  BY <1>0, <1>1, MovedIs
<1> HIDE DEF bc
<1>5. bc \in Wallets /\ bc[b] = acct[b]
  BY <1>0, <1>4 DEF Moved
<1>6. Moved(bc, cc, b, y)
  BY <1>2, <1>5, MovedIs
<1> HIDE DEF cc
<1>7. Worth(cc) = Worth(acct)
  <2>1. Worth(bc) = Worth(acct) + (x.bal + x.vest) - (acct[a].bal + acct[a].vest)
    BY <1>4 DEF Moved
  <2>2. Worth(cc) = Worth(bc) + (y.bal + y.vest) - (acct[b].bal + acct[b].vest)
    BY <1>5, <1>6 DEF Moved
  <2>3. Worth(acct) \in Int
    BY <1>0, WorthInt
  <2> QED
    BY <1>1, <1>2, <1>a, <2>1, <2>2, <2>3
<1>8. ASSUME NEW c \in Account
      PROVE  SameLocks(acct[c], cc[c]) /\ cc[c].locked <= cc[c].bal
  <2>1. SameLocks(acct[c], cc[c])
    BY <1>4, <1>6 DEF Moved, SameLocks
  <2>2. acct[c] \in Wallet /\ acct[c].locked <= acct[c].bal
    BY LocksCovered
  <2>3. acct[c].bal \in Int /\ acct[c].locked \in Int
    BY <2>2 DEF Wallet
  <2>4. acct[a].bal - n >= acct[a].locked
    BY DEF Transfer, CanPay
  <2>5. cc[c].locked = acct[c].locked
    BY <2>1 DEF SameLocks
  <2>6. CASE c = a
    <3>1. cc[c] = x
      BY <1>0, <1>4, <1>6, <2>6 DEF Moved
    <3> QED
      BY <1>1, <2>1, <2>3, <2>4, <2>5, <2>6, <3>1
  <2>7. CASE c = b
    <3>1. cc[c] = y
      BY <1>6, <2>7 DEF Moved
    <3> QED
      BY <1>2, <2>1, <2>2, <2>3, <2>5, <2>7, <3>1
  <2>8. CASE c # a /\ c # b
    <3>1. cc[c] = acct[c]
      BY <1>4, <1>6, <2>8 DEF Moved
    <3> QED
      BY <2>1, <2>2, <3>1
  <2> QED
    BY <2>6, <2>7, <2>8
<1>9. cc \in Wallets
  BY <1>6 DEF Moved
<1>10. core' = core /\ NoBudgetYet' /\ UNCHANGED <<cand, workers, head, refs>>
  BY DEF Transfer, Operation, IInv, NoBudgetYet
<1> QED
  BY <1>3, <1>7, <1>8, <1>9, <1>10, IInvIs, PayStep

\* One account pays or is paid.
LEMMA OnePays ==
    ASSUME IInv, NEW a \in Account, NEW x, x \in Wallet, SameLocks(acct[a], x),
           x.locked <= x.bal,
           acct' = [acct EXCEPT ![a] = x], core' \in Core, NoBudgetYet',
           core'.supply = Worth(acct) + (x.bal + x.vest)
                            - (acct[a].bal + acct[a].vest)
                            + core'.fees + core'.witness
                            + core'.worker + core'.award + core'.burned,
           UNCHANGED <<cand, workers, head, refs>>
    PROVE  IInv'
<1>1. Moved(acct, acct', a, x)
  BY IInvIs, MovedIs
<1>2. acct' \in Wallets
  BY <1>1 DEF Moved
<1>3. ASSUME NEW c \in Account
      PROVE  SameLocks(acct[c], acct'[c]) /\ acct'[c].locked <= acct'[c].bal
  BY <1>1, LocksCovered DEF Moved
<1>4. Worth(acct') = Worth(acct) + (x.bal + x.vest) - (acct[a].bal + acct[a].vest)
  BY <1>1 DEF Moved
<1> QED
  BY <1>2, <1>3, <1>4, PayStep

\* A fee moves from an account to the fees.
LEMMA PayFeeIInv ==
    ASSUME IInv, NEW a \in Account, NEW n \in Nat, PayFee(a, n)
    PROVE  IInv'
<1> DEFINE x == [acct[a] EXCEPT !.bal = @ - n]
<1>0. acct \in Wallets /\ acct[a] \in Wallet /\ core \in Core
  BY IInvIs DEF Wallets
<1>a. /\ acct[a].bal \in Int /\ acct[a].vest \in Int /\ acct[a].locked \in Int
      /\ acct[a].bal - n >= acct[a].locked
  BY <1>0 DEF Wallet, PayFee, CanPay
<1>1. /\ x \in Wallet /\ SameLocks(acct[a], x) /\ x.bal = acct[a].bal - n
      /\ x.vest = acct[a].vest
  BY <1>0, <1>a, BalSet
<1>2. acct' = [acct EXCEPT ![a] = x]
  BY DEF PayFee
<1> HIDE DEF x
<1>3. core' = [core EXCEPT !.fees = @ + n]
  BY DEF PayFee
<1>4. /\ core' \in Core /\ core'.fees = core.fees + n
      /\ core'.supply = core.supply /\ core'.witness = core.witness
      /\ core'.worker = core.worker /\ core'.award = core.award
      /\ core'.burned = core.burned /\ core'.records = core.records
  BY <1>0, <1>3 DEF Core
<1>5. core'.supply = Worth(acct) + (x.bal + x.vest) - (acct[a].bal + acct[a].vest)
                       + core'.fees + core'.witness
                       + core'.worker + core'.award + core'.burned
  <2>1. /\ core.fees \in Int /\ core.witness \in Int
        /\ core.worker \in Int /\ core.award \in Int /\ core.burned \in Int
    BY <1>0 DEF Core
  <2>2. Worth(acct) \in Int
    BY <1>0, WorthInt
  <2> QED
    BY <1>1, <1>a, <1>4, <2>1, <2>2, IInvIs
<1>6. x.locked <= x.bal
  BY <1>1, <1>a DEF SameLocks
<1>7. NoBudgetYet' /\ UNCHANGED <<cand, workers, head, refs>>
  BY <1>4 DEF PayFee, Operation, IInv, NoBudgetYet
<1> QED
  BY <1>1, <1>2, <1>4, <1>5, <1>6, <1>7, OnePays

\* A withdrawal moves an amount within an account.
LEMMA VestingWithdrawIInv ==
    ASSUME IInv, NEW a \in Account, NEW n \in Nat, VestingWithdraw(a, n)
    PROVE  IInv'
<1> DEFINE w == [acct[a] EXCEPT !.vest = @ - n]
           x == [w EXCEPT !.bal = @ + n]
<1>0. acct \in Wallets /\ acct[a] \in Wallet /\ core \in Core
  BY IInvIs DEF Wallets
<1>a. /\ acct[a].bal \in Int /\ acct[a].vest \in Int /\ acct[a].locked \in Int
      /\ acct[a].locked <= acct[a].bal
  BY <1>0, LocksCovered DEF Wallet
<1>1. /\ w \in Wallet /\ SameLocks(acct[a], w) /\ w.bal = acct[a].bal
      /\ w.vest = acct[a].vest - n
  BY <1>0, <1>a, VestSet
<1>2. acct' = [acct EXCEPT ![a] = x]
  BY <1>0 DEF VestingWithdraw
<1> HIDE DEF w
<1>3. /\ x \in Wallet /\ SameLocks(w, x) /\ x.bal = acct[a].bal + n
      /\ x.vest = acct[a].vest - n
  BY <1>1, <1>a, BalSet
<1> HIDE DEF x
<1>4. SameLocks(acct[a], x) /\ x.locked <= x.bal
  BY <1>1, <1>3, <1>a DEF SameLocks
<1>5. core' = core /\ NoBudgetYet' /\ UNCHANGED <<cand, workers, head, refs>>
  BY DEF VestingWithdraw, Operation, IInv, NoBudgetYet
<1>6. core'.supply = Worth(acct) + (x.bal + x.vest) - (acct[a].bal + acct[a].vest)
                       + core'.fees + core'.witness
                       + core'.worker + core'.award + core'.burned
  <2>1. Worth(acct) \in Int
    BY <1>0, WorthInt
  <2> QED
    BY <1>3, <1>5, <1>a, <2>1, IInvIs
<1> QED
  BY <1>0, <1>2, <1>3, <1>4, <1>5, <1>6, OnePays

-----------------------------------------------------------------------------
(***************************************************************************)
(* Votes.                                                                  *)
(***************************************************************************)
\* The votes for one kind of candidate.
OfKind(votes, k) == { v \in votes : v[1] = k }

\* What modify_candidate() does is to replace the old weight by the new one.
LEMMA TallyIs ==
    ASSUME NEW c \in Int, NEW v, NEW S, NEW old, NEW n \in Nat, NEW held \in Nat,
           v \in old => held > 0
    PROVE  Tally(c, v, S, old, n, held)
             = c + (IF v \in S THEN n ELSE 0) - (IF v \in old THEN held ELSE 0)
<1>1. CASE v \in S /\ v \in old
  BY <1>1 DEF Tally
<1>2. CASE v \in S /\ v \notin old
  BY <1>2 DEF Tally
<1>3. CASE v \notin S /\ v \in old
  BY <1>3 DEF Tally
<1>4. CASE v \notin S /\ v \notin old
  BY <1>4 DEF Tally
<1> QED
  BY <1>1, <1>2, <1>3, <1>4

\* An account that votes for S with n locks n in place of what it held.
LEMMA RestakedIs ==
    ASSUME NEW x \in Wallet, NEW k \in Kind, NEW n \in Nat,
           NEW S \in SUBSET ({k} \X Account)
    PROVE  LET y == [Restaked(x, k, n) EXCEPT !.votes = (@ \ OfKind(x.votes, k)) \cup S]
           IN  /\ y \in Wallet
               /\ y.stake = [x.stake EXCEPT ![k] = n]
               /\ y.locked = x.locked + n - x.stake[k]
               /\ y.bal + y.vest = x.bal + x.vest
               /\ y.frozen = x.frozen
               /\ y.votes = (x.votes \ OfKind(x.votes, k)) \cup S
               /\ y.locked = Restaked(x, k, n).locked
               /\ y.bal = Restaked(x, k, n).bal
<1> DEFINE held == x.stake[k]
           back == IF n < held THEN held - n ELSE 0
           x1 == [x EXCEPT !.stake[k] = n]
           x2 == [x1 EXCEPT !.locked = @ + n - held]
           x3 == [x2 EXCEPT !.vest = @ + back]
           x4 == [x3 EXCEPT !.bal = @ - back]
           V == (x.votes \ OfKind(x.votes, k)) \cup S
           y == [x4 EXCEPT !.votes = V]
<1>0. /\ x.stake \in [Kind -> Nat] /\ x.locked \in Int /\ x.bal \in Int
      /\ x.vest \in Int /\ x.votes \in SUBSET (Kind \X Account)
      /\ x.frozen \in [Kind -> Nat]
  BY DEF Wallet
<1>1. held \in Nat /\ back \in Int
  BY <1>0
<1>2. V \in SUBSET (Kind \X Account)
  BY <1>0
<1>3. Restaked(x, k, n) = x4
  BY DEF Restaked
<1> HIDE DEF held, back, V
<1>4. /\ x1 \in Wallet /\ x1.stake = [x.stake EXCEPT ![k] = n]
      /\ x1.locked = x.locked /\ x1.bal = x.bal /\ x1.vest = x.vest
      /\ x1.frozen = x.frozen /\ x1.votes = x.votes
  BY <1>0 DEF Wallet
<1> HIDE DEF x1
<1>5. /\ x2 \in Wallet /\ x2.stake = x1.stake
      /\ x2.locked = x1.locked + n - held /\ x2.bal = x1.bal /\ x2.vest = x1.vest
      /\ x2.frozen = x1.frozen /\ x2.votes = x1.votes
  BY <1>1, <1>4 DEF Wallet
<1> HIDE DEF x2
<1>6. /\ x3 \in Wallet /\ x3.stake = x2.stake
      /\ x3.locked = x2.locked /\ x3.bal = x2.bal /\ x3.vest = x2.vest + back
      /\ x3.frozen = x2.frozen /\ x3.votes = x2.votes
  BY <1>1, <1>5 DEF Wallet
<1> HIDE DEF x3
<1>7. /\ x4 \in Wallet /\ x4.stake = x3.stake
      /\ x4.locked = x3.locked /\ x4.bal = x3.bal - back /\ x4.vest = x3.vest
      /\ x4.frozen = x3.frozen /\ x4.votes = x3.votes
  BY <1>1, <1>6 DEF Wallet
<1> HIDE DEF x4
<1>8. /\ y \in Wallet /\ y.stake = x4.stake
      /\ y.locked = x4.locked /\ y.bal = x4.bal /\ y.vest = x4.vest
      /\ y.frozen = x4.frozen /\ y.votes = V
  BY <1>2, <1>7 DEF Wallet
<1>9. y = [Restaked(x, k, n) EXCEPT !.votes = (@ \ OfKind(x.votes, k)) \cup S]
  BY <1>3, <1>4, <1>5, <1>6, <1>7 DEF V
<1> HIDE DEF y
<1>10. y.bal + y.vest = x.bal + x.vest
  BY <1>0, <1>1, <1>4, <1>5, <1>6, <1>7, <1>8
<1>11. /\ y.stake = [x.stake EXCEPT ![k] = n] /\ y.frozen = x.frozen
       /\ y.votes = V /\ y.locked = x.locked + n - held
       /\ y.locked = x4.locked /\ y.bal = x4.bal
  BY <1>4, <1>5, <1>6, <1>7, <1>8
<1> QED
  BY <1>3, <1>8, <1>9, <1>10, <1>11 DEF V, held

\* The locks of an account that votes are those it should have.
LEMMA RestakedLocks ==
    ASSUME NEW x \in Wallet, NEW y \in Wallet, NEW c, NEW k \in Kind, NEW n \in Nat,
           NEW S \in SUBSET ({k} \X Account),
           n = 0 <=> S = {}, LocksOK(x, c),
           y.stake = [x.stake EXCEPT ![k] = n],
           y.locked = x.locked + n - x.stake[k],
           y.frozen = x.frozen, y.locked <= y.bal,
           y.votes = (x.votes \ OfKind(x.votes, k)) \cup S
    PROVE  LocksOK(y, c)
<1>0. /\ x.stake \in [Kind -> Nat] /\ x.locked \in Int
      /\ x.votes \in SUBSET (Kind \X Account)
      /\ x.frozen \in [Kind -> Nat]
  BY DEF Wallet
<1>1. y.locked = y.frozen["witness"] + y.stake["witness"]
                    + y.frozen["committee"] + y.stake["committee"]
  <2>0. /\ x.locked = x.frozen["witness"] + x.stake["witness"]
                        + x.frozen["committee"] + x.stake["committee"]
        /\ {"witness", "committee"} \subseteq Kind
    BY DEF LocksOK, Kind
  <2>1. CASE k = "witness"
    BY <1>0, <2>0, <2>1
  <2>2. CASE k = "committee"
    BY <1>0, <2>0, <2>2
  <2> QED
    BY <2>1, <2>2 DEF Kind
<1>2. ASSUME NEW j \in Kind
      PROVE  y.frozen[j] > 0 <=> c[j].working
  BY DEF LocksOK
<1>3. ASSUME NEW j \in Kind
      PROVE  y.stake[j] > 0 <=> OfKind(y.votes, j) # {}
  <2>1. CASE j = k
    <3>1. OfKind(y.votes, j) = S
      BY <2>1 DEF OfKind
    <3>2. y.stake[j] = n
      BY <1>0, <2>1
    <3> QED
      BY <3>1, <3>2
  <2>2. CASE j # k
    <3>1. OfKind(y.votes, j) = OfKind(x.votes, j)
      BY <2>2 DEF OfKind
    <3>2. y.stake[j] = x.stake[j]
      BY <1>0, <2>2
    <3>3. x.stake[j] > 0 <=> OfKind(x.votes, j) # {}
      BY DEF LocksOK, OfKind
    <3> QED
      BY <3>1, <3>2, <3>3
  <2> QED
    BY <2>1, <2>2
<1> QED
  BY <1>1, <1>2, <1>3 DEF LocksOK, OfKind

\* What an account votes for, and with what, before and after.
LEMMA StakeForAt ==
    ASSUME NEW ac \in Wallets, NEW bc \in Wallets, NEW a \in Account,
           \A b \in Account \ {a} : bc[b] = ac[b],
           NEW k \in Kind, NEW b \in Account
    PROVE  Total(StakeFor(bc, k, b)) = Total(StakeFor(ac, k, b))
             + (IF <<k, b>> \in bc[a].votes THEN bc[a].stake[k] ELSE 0)
             - (IF <<k, b>> \in ac[a].votes THEN ac[a].stake[k] ELSE 0)
<1> DEFINE f == StakeFor(ac, k, b)
           g == StakeFor(bc, k, b)
<1>1. f \in Amount /\ g \in Amount
  BY StakesType
<1>2. /\ \A c \in Account \ {a} : g[c] = f[c]
      /\ g[a] = IF <<k, b>> \in bc[a].votes THEN bc[a].stake[k] ELSE 0
      /\ f[a] = IF <<k, b>> \in ac[a].votes THEN ac[a].stake[k] ELSE 0
  BY DEF StakeFor
<1> HIDE DEF f, g
<1>3. Total(g) = Total(f) + g[a] - f[a]
  BY <1>1, <1>2, TotalAt
<1> QED
  BY <1>2, <1>3 DEF f, g

\* The candidates after an account has voted.
Voted(ca, k, S, old, n, held) ==
    [ca EXCEPT ![k] = [ b \in Account |-> [ca[k][b] EXCEPT !.votes =
                          Tally(@, <<k, b>>, S, old, n, held)] ]]

\* Candidates da after the votes of AccountUpdate.
VotedOK(ca, da, k, S, old, n, held) ==
    /\ da \in Candidates
    /\ \A j \in Kind, b \in Account :
         /\ da[j][b].id = ca[j][b].id
         /\ da[j][b].working <=> ca[j][b].working
    /\ \A j \in Kind \ {k}, b \in Account : da[j][b] = ca[j][b]
    /\ \A b \in Account : da[k][b].votes
         = ca[k][b].votes + (IF <<k, b>> \in S THEN n ELSE 0)
                          - (IF <<k, b>> \in old THEN held ELSE 0)

\* AccountUpdate gives every candidate of the kind its new total.
LEMMA VotedIs ==
    ASSUME NEW ca \in Candidates, NEW k \in Kind, NEW S, NEW old,
           NEW n \in Nat, NEW held \in Nat,
           \A b \in Account : <<k, b>> \in old => held > 0
    PROVE  VotedOK(ca, Voted(ca, k, S, old, n, held), k, S, old, n, held)
<1> DEFINE da == Voted(ca, k, S, old, n, held)
           row == [ b \in Account |-> [ca[k][b] EXCEPT !.votes =
                      Tally(@, <<k, b>>, S, old, n, held)] ]
<1>1. da = [ca EXCEPT ![k] = row]
  BY DEF Voted
<1>2. ASSUME NEW b \in Account
      PROVE  /\ row[b] \in Candidate /\ row[b].id = ca[k][b].id
             /\ row[b].working <=> ca[k][b].working
             /\ row[b].votes
                    = ca[k][b].votes + (IF <<k, b>> \in S THEN n ELSE 0)
                                     - (IF <<k, b>> \in old THEN held ELSE 0)
  <2> DEFINE c == ca[k][b]
             t == Tally(c.votes, <<k, b>>, S, old, n, held)
  <2>1. c \in Candidate /\ c.votes \in Int
    BY DEF Candidates, Candidate
  <2>2. \A i \in Int : Tally(i, <<k, b>>, S, old, n, held)
            = i + (IF <<k, b>> \in S THEN n ELSE 0)
                - (IF <<k, b>> \in old THEN held ELSE 0)
    <3>1. <<k, b>> \in old => held > 0
      OBVIOUS
    <3> DEFINE v == <<k, b>>
    <3> HIDE DEF v
    <3>2. \A i \in Int : Tally(i, v, S, old, n, held)
            = i + (IF v \in S THEN n ELSE 0) - (IF v \in old THEN held ELSE 0)
      BY <3>1, TallyIs DEF v
    <3> QED
      BY <3>2 DEF v
  <2>3. row[b] = [c EXCEPT !.votes = t]
    OBVIOUS
  <2>4. t = c.votes + (IF <<k, b>> \in S THEN n ELSE 0)
                    - (IF <<k, b>> \in old THEN held ELSE 0)
    <3> HIDE DEF c
    <3> QED
      BY <2>1, <2>2
  <2> HIDE DEF c, t
  <2>5. t \in Int
    BY <2>1, <2>4
  <2>6. /\ [c EXCEPT !.votes = t] \in Candidate
        /\ [c EXCEPT !.votes = t].id = c.id
        /\ [c EXCEPT !.votes = t].working = c.working
        /\ [c EXCEPT !.votes = t].votes = t
    BY <2>1, <2>5 DEF Candidate
  <2> QED
    BY <2>3, <2>6, <2>4 DEF c
<1>3. row = [ b \in Account |-> row[b] ]
  OBVIOUS
<1> HIDE DEF row, da
<1>4. /\ da \in Candidates /\ da[k] = row
      /\ \A j \in Kind \ {k} : da[j] = ca[j]
  BY <1>1, <1>2, <1>3 DEF Candidates
<1>5. ASSUME NEW j \in Kind, NEW b \in Account
      PROVE  /\ da[j][b].id = ca[j][b].id
             /\ da[j][b].working <=> ca[j][b].working
  <2>1. CASE j = k
    BY <1>2, <1>4, <2>1
  <2>2. CASE j # k
    BY <1>4, <2>2
  <2> QED
    BY <2>1, <2>2
<1> QED
  BY <1>2, <1>4, <1>5 DEF da, VotedOK

\* A vote keeps locks and totals right.
LEMMA AccountUpdateIInv ==
    ASSUME IInv, NEW a \in Account, NEW k \in Kind, NEW n \in Nat,
           NEW S \in SUBSET ({k} \X Account), AccountUpdate(a, k, S, n)
    PROVE  IInv'
<1> DEFINE x == acct[a]
           old == OfKind(x.votes, k)
           held == x.stake[k]
           y == [Restaked(x, k, n) EXCEPT !.votes = (@ \ old) \cup S]
           da == Voted(cand, k, S, old, n, held)
<1>0. acct \in Wallets /\ x \in Wallet /\ core \in Core /\ cand \in Candidates
  BY IInvIs DEF Wallets
<1>1. VotesOf(a, k) = old
  BY DEF VotesOf, OfKind
<1>2. /\ acct' = [acct EXCEPT ![a] = y] /\ cand' = da
      /\ UNCHANGED <<core, workers, head, refs>>
      /\ n = 0 <=> S = {}
      /\ Covered(Restaked(x, k, n))
  BY <1>1 DEF AccountUpdate, Operation, Voted
<1>3. /\ y \in Wallet
      /\ y.stake = [x.stake EXCEPT ![k] = n]
      /\ y.locked = x.locked + n - x.stake[k]
      /\ y.bal + y.vest = x.bal + x.vest
      /\ y.frozen = x.frozen
      /\ y.votes = (x.votes \ old) \cup S
      /\ y.locked = Restaked(x, k, n).locked
      /\ y.bal = Restaked(x, k, n).bal
  BY <1>0, RestakedIs
<1> HIDE DEF y
<1>4. y.locked <= y.bal
  <2>1. y.locked \in Int /\ y.bal \in Int /\ y.locked \in 0 .. y.bal
    BY <1>2, <1>3 DEF Covered, Wallet
  <2> QED
    BY <2>1
<1>5. LocksOK(x, [ j \in Kind |-> cand[j][a] ])
  BY IInvIs DEF AllLocksOK
<1>6. held \in Nat /\ \A b \in Account : <<k, b>> \in old => held > 0
  BY <1>0, <1>5 DEF LocksOK, OfKind, Wallet
<1> HIDE DEF x, held, old
<1>7. VotedOK(cand, da, k, S, old, n, held)
  BY <1>0, <1>6, VotedIs
<1> HIDE DEF da
<1>8. /\ acct' \in Wallets /\ acct'[a] = y
      /\ \A b \in Account \ {a} : acct'[b] = acct[b]
  BY <1>0, <1>2, <1>3 DEF Wallets
<1>9. AllLocksOK(acct', cand')
  <2>1. ASSUME NEW b \in Account
        PROVE  LocksOK(acct'[b], [ j \in Kind |-> cand'[j][b] ])
    <3> DEFINE c == [ j \in Kind |-> cand[j][b] ]
               d == [ j \in Kind |-> cand'[j][b] ]
    <3>1. \A j \in Kind : d[j].working <=> c[j].working
      BY <1>2, <1>7 DEF VotedOK
    <3>2. LocksOK(acct[b], c)
      BY IInvIs DEF AllLocksOK
    <3> HIDE DEF c, d
    <3>3. LocksOK(acct'[b], c)
      <4>1. CASE b = a
        <5>1. LocksOK(x, c)
          BY <3>2, <4>1 DEF x
        <5>2. LocksOK(y, c)
          BY <1>0, <1>2, <1>3, <1>4, <5>1, RestakedLocks DEF old
        <5> QED
          BY <1>8, <4>1, <5>2
      <4>2. CASE b # a
        BY <1>8, <3>2, <4>2
      <4> QED
        BY <4>1, <4>2
    <3>4. LocksOK(acct'[b], d)
      BY <3>1, <3>3 DEF LocksOK
    <3> QED
      BY <3>4 DEF d
  <2> QED
    BY <2>1 DEF AllLocksOK
<1>10. AllVotesOK(acct', cand')
  <2>1. ASSUME NEW j \in Kind, NEW b \in Account
        PROVE  VotesOK(acct', cand', j, b)
    <3>1. cand[j][b].votes = Total(StakeFor(acct, j, b)) + acct[b].frozen[j]
      BY IInvIs DEF AllVotesOK, VotesOK
    <3>2. Total(StakeFor(acct', j, b)) = Total(StakeFor(acct, j, b))
             + (IF <<j, b>> \in y.votes THEN y.stake[j] ELSE 0)
             - (IF <<j, b>> \in x.votes THEN x.stake[j] ELSE 0)
      BY <1>0, <1>8, StakeForAt DEF x
    <3>3. acct'[b].frozen = acct[b].frozen
      BY <1>3, <1>8 DEF x
    <3>4. /\ Total(StakeFor(acct, j, b)) \in Int
          /\ acct[b].frozen[j] \in Int /\ x.stake \in [Kind -> Nat]
      BY <1>0, StakesType DEF Wallets, Wallet
    <3>5. CASE j = k
      <4>1. /\ <<j, b>> \in y.votes <=> <<k, b>> \in S
            /\ <<j, b>> \in x.votes <=> <<k, b>> \in old
        BY <1>3, <3>5 DEF OfKind, old
      <4>2. y.stake[j] = n /\ x.stake[j] = held
        BY <1>3, <3>4, <3>5 DEF held
      <4>3. cand'[j][b].votes
              = cand[j][b].votes + (IF <<k, b>> \in S THEN n ELSE 0)
                                 - (IF <<k, b>> \in old THEN held ELSE 0)
        BY <1>2, <1>7, <3>5 DEF VotedOK
      <4>4. cand'[j][b].votes = Total(StakeFor(acct', j, b)) + acct'[b].frozen[j]
        BY <1>6, <3>1, <3>2, <3>3, <3>4, <4>1, <4>2, <4>3
      <4> QED
        BY <4>4 DEF VotesOK
    <3>6. CASE j # k
      <4>1. <<j, b>> \in y.votes <=> <<j, b>> \in x.votes
        BY <1>3, <3>6 DEF OfKind, old
      <4>2. y.stake[j] = x.stake[j] /\ x.stake[j] \in Int
        BY <1>3, <3>4, <3>6
      <4>3. cand'[j][b].votes = cand[j][b].votes
        BY <1>2, <1>7, <3>6 DEF VotedOK
      <4>4. cand'[j][b].votes = Total(StakeFor(acct', j, b)) + acct'[b].frozen[j]
        BY <3>1, <3>2, <3>3, <3>4, <4>1, <4>2, <4>3
      <4> QED
        BY <4>4 DEF VotesOK
    <3> QED
      BY <3>5, <3>6
  <2> QED
    BY <2>1 DEF AllVotesOK
<1>11. Worth(acct') = Worth(acct)
  <2>1. Worth(acct') = Worth(acct) + (acct'[a].bal + acct'[a].vest)
                         - (acct[a].bal + acct[a].vest)
    BY <1>0, <1>8, WorthAt
  <2>2. Worth(acct) \in Int
    BY <1>0, WorthInt
  <2>3. acct[a].bal \in Int /\ acct[a].vest \in Int
    BY <1>0 DEF Wallet, x
  <2> QED
    BY <1>3, <1>8, <2>1, <2>2, <2>3 DEF x
<1>12. TypeOK' /\ NoBudgetYet' /\ CandidatesKnown'
  <2>1. cand' \in Candidates
    BY <1>2, <1>7, <1>8 DEF VotedOK
  <2>2. TypeOK' /\ NoBudgetYet'
    BY <1>2, <1>8, <2>1 DEF IInv, TypeOK, NoBudgetYet
  <2>3. CandidatesKnown'
    BY <1>2, <1>7, <1>8 DEF VotedOK, IInv, CandidatesKnown
  <2> QED
    BY <2>2, <2>3
<1> QED
  BY <1>2, <1>9, <1>10, <1>11, <1>12, IInvIs, NextIInv

-----------------------------------------------------------------------------
(***************************************************************************)
(* Candidates.                                                             *)
(***************************************************************************)
\* The wallet of an account whose freeze of kind k becomes f.
Refrozen(x, k, d, f) == [x EXCEPT !.locked = @ + d, !.frozen[k] = f]

\* Wallet y is x with another freeze.
RefrozenOK(x, y, k, d, f) ==
    /\ y \in Wallet
    /\ y.bal = x.bal /\ y.vest = x.vest /\ y.stake = x.stake /\ y.votes = x.votes
    /\ y.locked = x.locked + d
    /\ y.frozen = [x.frozen EXCEPT ![k] = f]

\* SetStatus changes one freeze and the lock that goes with it.
LEMMA RefrozenIs ==
    ASSUME NEW x \in Wallet, NEW k \in Kind, NEW d \in Int, NEW f \in Nat
    PROVE  RefrozenOK(x, Refrozen(x, k, d, f), k, d, f)
<1> DEFINE x1 == [x EXCEPT !.locked = @ + d]
           y == [x1 EXCEPT !.frozen[k] = f]
<1>1. Refrozen(x, k, d, f) = y
  BY DEF Refrozen
<1>2. /\ x1 \in Wallet /\ x1.stake = x.stake /\ x1.locked = x.locked + d
      /\ x1.bal = x.bal /\ x1.vest = x.vest
      /\ x1.frozen = x.frozen /\ x1.votes = x.votes
  BY DEF Wallet
<1> HIDE DEF x1
<1>3. /\ y \in Wallet /\ y.stake = x1.stake /\ y.locked = x1.locked
      /\ y.bal = x1.bal /\ y.vest = x1.vest
      /\ y.frozen = [x1.frozen EXCEPT ![k] = f] /\ y.votes = x1.votes
  BY <1>2 DEF Wallet
<1> HIDE DEF y
<1> QED
  BY <1>1, <1>2, <1>3 DEF RefrozenOK

\* The locks of an account whose status changes are those it should have.
LEMMA RefrozenLocks ==
    ASSUME NEW x \in Wallet, NEW y, NEW c, NEW e, NEW k \in Kind,
           NEW d \in Int, NEW f \in Nat,
           RefrozenOK(x, y, k, d, f), LocksOK(x, c),
           f = x.frozen[k] + d, y.locked <= y.bal,
           f > 0 <=> e[k].working,
           \A j \in Kind \ {k} : e[j].working <=> c[j].working
    PROVE  LocksOK(y, e)
<1>0. x.frozen \in [Kind -> Nat] /\ x.stake \in [Kind -> Nat] /\ x.locked \in Int
  BY DEF Wallet
<1>1. y.locked = y.frozen["witness"] + y.stake["witness"]
                    + y.frozen["committee"] + y.stake["committee"]
  <2>0. /\ x.locked = x.frozen["witness"] + x.stake["witness"]
                        + x.frozen["committee"] + x.stake["committee"]
        /\ {"witness", "committee"} \subseteq Kind
    BY DEF LocksOK, Kind
  <2>a. /\ y.locked = x.locked + d /\ y.stake = x.stake
        /\ y.frozen = [x.frozen EXCEPT ![k] = f]
    BY DEF RefrozenOK
  <2>1. CASE k = "witness"
    BY <1>0, <2>0, <2>1, <2>a
  <2>2. CASE k = "committee"
    BY <1>0, <2>0, <2>2, <2>a
  <2> QED
    BY <2>1, <2>2 DEF Kind
<1>2. ASSUME NEW j \in Kind
      PROVE  y.frozen[j] > 0 <=> e[j].working
  <2>1. CASE j = k
    <3>1. y.frozen[j] = f
      BY <1>0, <2>1 DEF RefrozenOK
    <3> QED
      BY <2>1, <3>1
  <2>2. CASE j # k
    <3>1. y.frozen[j] = x.frozen[j]
      BY <1>0, <2>2 DEF RefrozenOK
    <3> QED
      BY <2>2, <3>1 DEF LocksOK
  <2> QED
    BY <2>1, <2>2
<1>3. ASSUME NEW j \in Kind
      PROVE  y.stake[j] > 0 <=> { v \in y.votes : v[1] = j } # {}
  BY DEF RefrozenOK, LocksOK
<1> QED
  BY <1>1, <1>2, <1>3 DEF LocksOK

\* The entry of one candidate is replaced.
CandidateSet(ca, da, k, a, e) ==
    /\ da \in Candidates /\ da[k][a] = e
    /\ \A j \in Kind, b \in Account : j # k \/ b # a => da[j][b] = ca[j][b]

\* SetStatus changes one candidate only.
LEMMA CandidateAt ==
    ASSUME NEW ca \in Candidates, NEW k \in Kind, NEW a \in Account,
           NEW e \in Candidate
    PROVE  CandidateSet(ca, [ca EXCEPT ![k][a] = e], k, a, e)
BY DEF Candidates, CandidateSet

\* A change of status locks or releases the freeze and counts it as votes.
LEMMA StatusIInv ==
    ASSUME IInv, NEW k \in Kind, NEW a \in Account, NEW on \in BOOLEAN,
           NEW id \in Nat \ {0}, on <=> ~cand[k][a].working,
           SetStatus(k, a, on, id), UNCHANGED <<core, workers, head, refs>>
    PROVE  IInv'
<1> DEFINE x == acct[a]
           d == IF on THEN Freeze[k] ELSE -x.frozen[k]
           f == IF on THEN Freeze[k] ELSE 0
           y == Refrozen(x, k, d, f)
           e == [id |-> id, working |-> on, changed |-> TRUE,
                 votes |-> cand[k][a].votes + d]
<1>0. /\ acct \in Wallets /\ x \in Wallet /\ core \in Core /\ cand \in Candidates
      /\ cand[k][a] \in Candidate
  BY IInvIs DEF Wallets, Candidates
<1>1. /\ acct' = [acct EXCEPT ![a] = y] /\ cand' = [cand EXCEPT ![k][a] = e]
      /\ acct'[a].locked \in 0 .. acct'[a].bal
  BY DEF SetStatus, Refrozen, Covered
<1>2. LocksOK(x, [ j \in Kind |-> cand[j][a] ])
  BY IInvIs DEF AllLocksOK
<1>3. Freeze[k] \in Nat \ {0} /\ x.frozen \in [Kind -> Nat] /\ x.frozen[k] \in Nat
  BY <1>0, GovernanceConstants DEF Wallet
<1>4. x.frozen[k] > 0 <=> cand[k][a].working
  BY <1>2 DEF LocksOK
<1>5. /\ d \in Int /\ f \in Nat /\ f = x.frozen[k] + d
      /\ f > 0 <=> on
  <2>1. CASE on
    <3>1. x.frozen[k] = 0
      BY <1>3, <1>4, <2>1
    <3> QED
      BY <1>3, <2>1, <3>1
  <2>2. CASE ~on
    BY <1>3, <2>2
  <2> QED
    BY <2>1, <2>2
<1>6. cand[k][a].votes \in Int
  BY <1>0 DEF Candidate
<1> HIDE DEF x, d, f
<1>7. RefrozenOK(x, y, k, d, f)
  BY <1>0, <1>5, RefrozenIs
<1>8. /\ e \in Candidate /\ e.id = id /\ e.votes = cand[k][a].votes + d
      /\ e.working = on
  BY <1>5, <1>6 DEF Candidate
<1> HIDE DEF y, e
<1>9. y \in Wallet
  BY <1>7 DEF RefrozenOK
<1>10. /\ acct' \in Wallets /\ acct'[a] = y
       /\ \A b \in Account \ {a} : acct'[b] = acct[b]
  BY <1>0, <1>1, <1>9 DEF Wallets
<1>11. /\ cand' \in Candidates /\ cand'[k][a] = e
       /\ \A j \in Kind, b \in Account :
                    j # k \/ b # a => cand'[j][b] = cand[j][b]
  <2>1. cand \in Candidates /\ e \in Candidate /\ cand' = [cand EXCEPT ![k][a] = e]
    BY <1>0, <1>1, <1>8
  <2>2. CandidateSet(cand, cand', k, a, e)
    BY <2>1, CandidateAt
  <2> QED
    BY <2>2 DEF CandidateSet
<1>12. AllLocksOK(acct', cand')
  <2>1. ASSUME NEW b \in Account
        PROVE  LocksOK(acct'[b], [ j \in Kind |-> cand'[j][b] ])
    <3> DEFINE c == [ j \in Kind |-> cand[j][b] ]
               g == [ j \in Kind |-> cand'[j][b] ]
    <3>1. LocksOK(acct[b], c)
      BY IInvIs DEF AllLocksOK
    <3>2. CASE b = a
      <4>1. g[k] = e /\ \A j \in Kind \ {k} : g[j] = c[j]
        BY <1>11, <3>2
      <4>2. f > 0 <=> g[k].working
        BY <1>5, <1>8, <4>1
      <4>3. LocksOK(x, c)
        BY <3>1, <3>2 DEF x
      <4>4. y.locked <= y.bal
        <5>1. y.locked \in Int /\ y.bal \in Int /\ y.locked \in 0 .. y.bal
          BY <1>1, <1>9, <1>10 DEF Wallet
        <5> QED
          BY <5>1
      <4> HIDE DEF c, g
      <4>5. LocksOK(y, g)
        BY <1>0, <1>5, <1>7, <4>1, <4>2, <4>3, <4>4, RefrozenLocks
      <4> QED
        BY <1>10, <3>2, <4>5 DEF g
    <3>3. CASE b # a
      <4>1. g = c
        BY <1>11, <3>3
      <4> QED
        BY <1>10, <3>1, <3>3, <4>1
    <3> QED
      BY <3>2, <3>3
  <2> QED
    BY <2>1 DEF AllLocksOK
<1>13. AllVotesOK(acct', cand')
  <2>1. ASSUME NEW j \in Kind, NEW b \in Account
        PROVE  VotesOK(acct', cand', j, b)
    <3>1. cand[j][b].votes = Total(StakeFor(acct, j, b)) + acct[b].frozen[j]
      BY IInvIs DEF AllVotesOK, VotesOK
    <3>2. StakeFor(acct', j, b) = StakeFor(acct, j, b)
      <4>1. \A c \in Account : /\ acct'[c].votes = acct[c].votes
                               /\ acct'[c].stake = acct[c].stake
        BY <1>7, <1>10 DEF RefrozenOK, x
      <4> QED
        BY <4>1 DEF StakeFor
    <3>3. /\ Total(StakeFor(acct, j, b)) \in Int
          /\ acct[b].frozen[j] \in Int
      BY <1>0, StakesType DEF Wallets, Wallet
    <3>4. CASE j = k /\ b = a
      <4>1. cand'[j][b].votes = cand[j][b].votes + d
        BY <1>8, <1>11, <3>4
      <4>2. acct'[b].frozen[j] = f
        BY <1>3, <1>7, <1>10, <3>4 DEF RefrozenOK
      <4>3. f = acct[b].frozen[j] + d
        BY <1>5, <3>4 DEF x
      <4>4. cand'[j][b].votes = Total(StakeFor(acct', j, b)) + acct'[b].frozen[j]
        BY <1>5, <3>1, <3>2, <3>3, <4>1, <4>2, <4>3
      <4> QED
        BY <4>4 DEF VotesOK
    <3>5. CASE ~(j = k /\ b = a)
      <4>1. cand'[j][b] = cand[j][b]
        BY <1>11, <3>5
      <4>2. acct'[b].frozen[j] = acct[b].frozen[j]
        BY <1>3, <1>7, <1>10, <3>5 DEF RefrozenOK, x
      <4> QED
        BY <3>1, <3>2, <4>1, <4>2 DEF VotesOK
    <3> QED
      BY <3>4, <3>5
  <2> QED
    BY <2>1 DEF AllVotesOK
<1>14. Worth(acct') = Worth(acct)
  <2>1. Worth(acct') = Worth(acct) + (acct'[a].bal + acct'[a].vest)
                         - (acct[a].bal + acct[a].vest)
    BY <1>0, <1>10, WorthAt
  <2>2. Worth(acct) \in Int
    BY <1>0, WorthInt
  <2>3. acct[a].bal \in Int /\ acct[a].vest \in Int
    BY <1>0 DEF Wallet, x
  <2>4. acct'[a].bal = acct[a].bal /\ acct'[a].vest = acct[a].vest
    BY <1>7, <1>10 DEF RefrozenOK, x
  <2> QED
    BY <2>1, <2>2, <2>3, <2>4
<1>15. CandidatesKnown'
  <2>1. ASSUME NEW j \in Kind, NEW b \in Account, cand'[j][b].id = 0
        PROVE  ~cand'[j][b].working
    <3>1. ~(j = k /\ b = a)
      BY <1>8, <1>11, <2>1
    <3>2. cand'[j][b] = cand[j][b]
      BY <1>11, <3>1
    <3> QED
      BY <2>1, <3>2 DEF IInv, CandidatesKnown
  <2> QED
    BY <2>1 DEF CandidatesKnown
<1>16. TypeOK' /\ NoBudgetYet'
  BY <1>10, <1>11 DEF IInv, TypeOK, NoBudgetYet
<1> QED
  BY <1>12, <1>13, <1>14, <1>15, <1>16, IInvIs, NextIInv

\* The number of some of the accounts.
LEMMA SomeAccounts ==
    ASSUME NEW S, S \subseteq Account
    PROVE  IsFiniteSet(S) /\ Cardinality(S) \in Nat
<1>1. IsFiniteSet(Account)
  BY FS_Interval, GovernanceConstants DEF Account
<1> QED
  BY <1>1, FS_Subset, FS_CardinalityType

\* witness_create, committee_member_create.
LEMMA CandidateCreateIInv ==
    ASSUME IInv, NEW k \in Kind, NEW a \in Account, CandidateCreate(k, a)
    PROVE  IInv'
<1> DEFINE known == {b \in Account : cand[k][b].id > 0}
           id == 1 + Cardinality(known)
<1>1. id \in Nat \ {0}
  <2>1. known \subseteq Account
    OBVIOUS
  <2> HIDE DEF known
  <2>2. Cardinality(known) \in Nat
    BY <2>1, SomeAccounts
  <2> QED
    BY <2>2
<1>2. SetStatus(k, a, TRUE, id) /\ UNCHANGED <<core, workers, head, refs>>
  BY DEF CandidateCreate, Operation
<1>3. ~cand[k][a].working
  BY DEF CandidateCreate, IInv, CandidatesKnown
<1> HIDE DEF id
<1> QED
  BY <1>1, <1>2, <1>3, StatusIInv

\* witness_update, committee_member_update.
LEMMA CandidateUpdateIInv ==
    ASSUME IInv, NEW k \in Kind, NEW a \in Account, CandidateUpdate(k, a)
    PROVE  IInv'
<1> DEFINE id == cand[k][a].id
           on == ~cand[k][a].working
<1>1. cand[k][a] \in Candidate
  BY IInvIs DEF Candidates
<1>2. id \in Nat \ {0}
  BY <1>1 DEF Candidate, CandidateUpdate
<1>3. SetStatus(k, a, on, id) /\ UNCHANGED <<core, workers, head, refs>>
  BY DEF CandidateUpdate, Operation
<1>4. on \in BOOLEAN /\ (on <=> ~cand[k][a].working)
  OBVIOUS
<1> HIDE DEF id, on
<1> QED
  BY <1>2, <1>3, <1>4, StatusIInv

\* A worker comes into being without being paid.
LEMMA WorkerCreateIInv ==
    ASSUME IInv, NEW p \in WorkerPlans, WorkerCreate(p)
    PROVE  IInv'
<1> DEFINE no == FALSE
           w == [plan |-> p, completed |-> no]
<1>1. workers' = Append(workers, w) /\ UNCHANGED <<acct, cand, core, head, refs>>
  BY DEF WorkerCreate, Operation
<1>2. no \in BOOLEAN
  OBVIOUS
<1> HIDE DEF no
<1>3. w \in Worker
  BY <1>2, GovernanceConstants DEF Worker
<1> HIDE DEF w
<1>4. workers' \in Seq(Worker)
  BY <1>1, <1>3 DEF IInv, TypeOK
<1>5. TypeOK' /\ NoBudgetYet' /\ CandidatesKnown'
  BY <1>1, <1>4 DEF IInv, TypeOK, NoBudgetYet, CandidatesKnown
<1> QED
  BY <1>1, <1>5, IInvIs, NextIInv

\* The genesis state.
LEMMA InitIInv == Init => IInv
<1> SUFFICES ASSUME Init PROVE IInv
  OBVIOUS
<1> DEFINE both == Freeze["witness"] + Freeze["committee"]
           stakes == [k \in Kind |-> 0]
           frozen(a) == [k \in Kind |-> IF a \in Initial THEN Freeze[k] ELSE 0]
           locked(a) == IF a \in Initial THEN both ELSE 0
<1>0. /\ Freeze["witness"] \in Nat \ {0} /\ Freeze["committee"] \in Nat \ {0}
      /\ \A k \in Kind : Freeze[k] \in Nat \ {0}
      /\ both <= Funds /\ Funds \in Nat /\ NumAccounts \in Nat /\ MaxSupply \in Nat
      /\ Initial \subseteq Account
  BY GovernanceConstants DEF Kind
<1>1. ASSUME NEW a \in Account
      PROVE  /\ frozen(a) \in [Kind -> Nat] /\ stakes \in [Kind -> Nat]
             /\ locked(a) \in Int
  BY <1>0
<1>2. ASSUME NEW a \in Account
      PROVE  /\ acct[a] \in Wallet /\ acct[a].votes = {} /\ acct[a].bal = Funds
             /\ acct[a].vest = 0 /\ acct[a].stake = stakes
             /\ acct[a].frozen = frozen(a) /\ acct[a].locked = locked(a)
  <2>1. acct[a] = [bal |-> Funds, vest |-> 0, votes |-> {}, locked |-> locked(a),
                   frozen |-> frozen(a), stake |-> stakes]
    BY DEF Init
  <2>2. frozen(a) \in [Kind -> Nat] /\ stakes \in [Kind -> Nat] /\ locked(a) \in Int
    BY <1>1
  <2> HIDE DEF frozen, stakes, locked
  <2> QED
    BY <1>0, <2>1, <2>2 DEF Wallet
<1>3. acct \in Wallets
  BY <1>2 DEF Init, Wallets
<1>4. ASSUME NEW k \in Kind, NEW a \in Account
      PROVE  /\ cand[k][a] \in Candidate
             /\ cand[k][a].working <=> a \in Initial
             /\ cand[k][a].id = 0 => a \notin Initial
             /\ cand[k][a].votes = frozen(a)[k]
  <2> DEFINE n == Cardinality({b \in Initial : b <= a})
             yes == TRUE
             no == FALSE
  <2>1. n \in Nat \ {0} \/ a \notin Initial
    <3> DEFINE I == {b \in Initial : b <= a}
    <3>1. IsFiniteSet(I) /\ Cardinality(I) \in Nat
      BY <1>0, SomeAccounts
    <3>2. a \in Initial => a \in I
      BY <1>0 DEF Account
    <3> HIDE DEF I
    <3>3. a \in Initial => Cardinality(I) # 0
      BY <3>1, <3>2, FS_EmptySet
    <3> QED
      BY <3>1, <3>3 DEF I
  <2>2. /\ a \in Initial => cand[k][a] = [id |-> n, working |-> yes,
                               votes |-> Freeze[k], changed |-> yes]
        /\ a \notin Initial => cand[k][a] = [id |-> 0, working |-> no,
                               votes |-> 0, changed |-> no]
    BY DEF Init, NotKnown
  <2>3. yes \in BOOLEAN /\ no \in BOOLEAN /\ yes /\ ~no
    OBVIOUS
  <2>4. frozen(a)[k] = IF a \in Initial THEN Freeze[k] ELSE 0
    OBVIOUS
  <2> HIDE DEF n, yes, no, frozen
  <2>5. CASE a \in Initial
    <3>1. n \in Nat \ {0} /\ Freeze[k] \in Int
      BY <1>0, <2>1, <2>5
    <3>2. cand[k][a] = [id |-> n, working |-> yes, votes |-> Freeze[k], changed |-> yes]
      BY <2>2, <2>5
    <3>3. cand[k][a] \in Candidate
      BY <2>3, <3>1, <3>2 DEF Candidate
    <3>4. /\ cand[k][a].id = n /\ cand[k][a].working = yes
          /\ cand[k][a].votes = Freeze[k]
      BY <3>2
    <3> QED
      BY <2>3, <2>4, <2>5, <3>1, <3>3, <3>4
  <2>6. CASE a \notin Initial
    BY <2>2, <2>3, <2>4, <2>6 DEF Candidate
  <2> QED
    BY <2>5, <2>6
<1>5. cand \in Candidates
  BY <1>4 DEF Init, Candidates
<1>6. CandidatesKnown
  BY <1>4 DEF CandidatesKnown
<1>7. AllLocksOK(acct, cand)
  <2>1. ASSUME NEW a \in Account
        PROVE  LocksOK(acct[a], [ k \in Kind |-> cand[k][a] ])
    <3>1. /\ acct[a].locked = acct[a].frozen["witness"] + acct[a].stake["witness"]
                    + acct[a].frozen["committee"] + acct[a].stake["committee"]
          /\ acct[a].locked <= acct[a].bal
      <4>1. acct[a].bal = Funds /\ acct[a].locked = locked(a)
        BY <1>2
      <4>2. /\ acct[a].frozen["witness"] = IF a \in Initial THEN Freeze["witness"] ELSE 0
            /\ acct[a].frozen["committee"] = IF a \in Initial THEN Freeze["committee"] ELSE 0
            /\ acct[a].stake["witness"] = 0 /\ acct[a].stake["committee"] = 0
        BY <1>2, ZenonT(60) DEF Kind
      <4> QED
        BY <1>0, <4>1, <4>2
    <3>2. ASSUME NEW k \in Kind
          PROVE  /\ acct[a].frozen[k] > 0 <=> cand[k][a].working
                 /\ acct[a].stake[k] > 0 <=> { v \in acct[a].votes : v[1] = k } # {}
      <4>1. acct[a].frozen[k] = IF a \in Initial THEN Freeze[k] ELSE 0
        BY <1>2
      <4>2. acct[a].stake[k] = 0 /\ { v \in acct[a].votes : v[1] = k } = {}
        BY <1>2
      <4> QED
        BY <1>0, <1>4, <4>1, <4>2
    <3> QED
      BY <3>1, <3>2 DEF LocksOK
  <2> QED
    BY <2>1 DEF AllLocksOK
<1>8. AllVotesOK(acct, cand)
  <2>1. ASSUME NEW k \in Kind, NEW b \in Account
        PROVE  VotesOK(acct, cand, k, b)
    <3> DEFINE f == StakeFor(acct, k, b)
    <3>1. f \in Amount
      BY <1>3, StakesType
    <3>2. \A a \in Account : f[a] = 0
      BY <1>2 DEF StakeFor
    <3> HIDE DEF f
    <3>3. Total(f) = 0 * NumAccounts
      BY <3>1, <3>2, TotalSame
    <3>4. 0 * NumAccounts = 0
      BY <1>0
    <3>5. acct[b].frozen[k] = cand[k][b].votes /\ acct[b].frozen[k] \in Nat
      <4>1. acct[b].frozen = frozen(b) /\ cand[k][b].votes = frozen(b)[k]
        BY <1>2, <1>4
      <4>2. frozen(b)[k] \in Nat
        BY <1>1
      <4> HIDE DEF frozen
      <4> QED
        BY <4>1, <4>2
    <3> QED
      BY <3>3, <3>4, <3>5 DEF VotesOK, f
  <2> QED
    BY <2>1 DEF AllVotesOK
<1>9. Worth(acct) = Funds * NumAccounts
  <2> DEFINE f == [ a \in Account |-> acct[a].bal + acct[a].vest ]
  <2>1. f \in Amount
    BY <1>3, WorthType
  <2>2. \A a \in Account : f[a] = Funds
    <3> TAKE a \in Account
    <3>1. acct[a].bal = Funds /\ acct[a].vest = 0
      BY <1>2
    <3> QED
      BY <1>0, <3>1
  <2> HIDE DEF f
  <2>3. Total(f) = Funds * NumAccounts
    BY <1>0, <2>1, <2>2, TotalSame
  <2> QED
    BY <2>3 DEF Worth, f
<1>10. Funds * NumAccounts \in Nat
  BY <1>0
<1>11. /\ core \in Core /\ NoBudgetYet
       /\ core.supply = Worth(acct) + core.fees + core.witness
                            + core.worker + core.award + core.burned
  <2> DEFINE all == Funds * NumAccounts
  <2>1. core = [supply |-> all, max |-> MaxSupply, fees |-> 0,
             witness |-> 0, records |-> 0, worker |-> 0, award |-> 0,
             burned |-> 0, lastBudget |-> 0]
    BY DEF Init
  <2>2. all \in Nat /\ Worth(acct) = all
    BY <1>9, <1>10
  <2> HIDE DEF all
  <2> QED
    BY <1>0, <2>1, <2>2 DEF Core, NoBudgetYet
<1>12. workers \in Seq(Worker) /\ refs \in [Kind -> [Account -> Nat]]
  BY DEF Init, NoRefs
<1>13. head \in HeadBlock
  BY <1>0 DEF Init, HeadBlock
<1> QED
  BY <1>3, <1>5, <1>6, <1>7, <1>8, <1>11, <1>12, <1>13,
     LocksAre, VotesAre, SupplyIs DEF IInv, TypeOK

-----------------------------------------------------------------------------
(***************************************************************************)
(* What a block pays.                                                      *)
(***************************************************************************)
\* The state within a block: accounts are only paid.
State(s) ==
    s = [acct |-> s.acct, core |-> s.core, workers |-> s.workers,
         head |-> s.head, due |-> s.due, left |-> s.left, ok |-> s.ok]

\* A wallet after payments.
Richer(x, y) == SameLocks(x, y) /\ y.bal >= x.bal

\* Its type; the accounts have what they had before the block, or more.
StateOK(s) ==
    /\ State(s)
    /\ s.acct \in Wallets /\ s.core \in Core /\ s.workers \in Seq(Worker)
    /\ s.head \in HeadBlock /\ s.left \in Int
    /\ \A a \in Account : Richer(acct[a], s.acct[a])

\* What workers and candidates are paid out of is left, paid or burned.
Held(s) == Worth(s.acct) + s.core.burned + s.left

\* The budgets stay as they are.
SameBudget(c, d) ==
    /\ d.supply = c.supply /\ d.fees = c.fees /\ d.witness = c.witness
    /\ d.worker = c.worker /\ d.award = c.award /\ d.records = c.records

\* The fields of a state.
LEMMA LeftSet ==
    ASSUME NEW s, StateOK(s), NEW n \in Int
    PROVE  LET r == [s EXCEPT !.left = n]
           IN  /\ StateOK(r) /\ r.left = n /\ r.acct = s.acct /\ r.core = s.core
               /\ r.ok = s.ok /\ r.head = s.head /\ r.workers = s.workers
BY DEF StateOK, State

\* The wallets within a block.
LEMMA AcctSet ==
    ASSUME NEW s, StateOK(s), NEW ac \in Wallets,
           \A a \in Account : Richer(acct[a], ac[a])
    PROVE  LET r == [s EXCEPT !.acct = ac]
           IN  /\ StateOK(r) /\ r.left = s.left /\ r.acct = ac /\ r.core = s.core
               /\ r.ok = s.ok /\ r.head = s.head /\ r.workers = s.workers
BY DEF StateOK, State

\* The core asset within a block.
LEMMA CoreSet ==
    ASSUME NEW s, StateOK(s), NEW c \in Core
    PROVE  LET r == [s EXCEPT !.core = c]
           IN  /\ StateOK(r) /\ r.left = s.left /\ r.acct = s.acct /\ r.core = c
               /\ r.ok = s.ok /\ r.head = s.head /\ r.workers = s.workers
BY DEF StateOK, State

\* The workers within a block.
LEMMA WorkersSet ==
    ASSUME NEW s, StateOK(s), NEW v \in Seq(Worker)
    PROVE  LET r == [s EXCEPT !.workers = v]
           IN  /\ StateOK(r) /\ r.left = s.left /\ r.acct = s.acct
               /\ r.core = s.core /\ r.head = s.head /\ r.workers = v
BY DEF StateOK, State

\* The head within a block.
LEMMA HeadSet ==
    ASSUME NEW s, StateOK(s), NEW h \in HeadBlock
    PROVE  LET r == [s EXCEPT !.head = h]
           IN  /\ StateOK(r) /\ r.left = s.left /\ r.acct = s.acct
               /\ r.core = s.core /\ r.head = h /\ r.workers = s.workers
BY DEF StateOK, State

\* The flags within a block.
LEMMA FlagSet ==
    ASSUME NEW s, StateOK(s), NEW b
    PROVE  /\ LET r == [s EXCEPT !.ok = b]
              IN  /\ StateOK(r) /\ r.left = s.left /\ r.acct = s.acct
                  /\ r.core = s.core /\ r.head = s.head /\ r.workers = s.workers
           /\ LET r == [s EXCEPT !.due = b]
              IN  /\ StateOK(r) /\ r.left = s.left /\ r.acct = s.acct
                  /\ r.core = s.core /\ r.head = s.head /\ r.workers = s.workers
BY DEF StateOK, State

\* The lesser of two integers.
LEMMA LeastIs ==
    ASSUME NEW a \in Int, NEW b \in Int
    PROVE  Least(a, b) \in Int /\ Least(a, b) <= a /\ Least(a, b) <= b
BY DEF Least

\* A part of a budget.
LEMMA DivInt ==
    ASSUME NEW n \in Int, NEW d \in Nat \ {0}
    PROVE  n \div d \in Int
OBVIOUS

\* A quotient of natural numbers.
LEMMA DivNat ==
    ASSUME NEW n \in Nat, NEW d \in Nat \ {0}
    PROVE  n \div d \in Nat
OBVIOUS

\* A product of natural numbers.
LEMMA MulNat ==
    ASSUME NEW m \in Nat, NEW n \in Nat
    PROVE  m * n \in Nat
OBVIOUS

\* A percentage of an amount is at most that amount.
LEMMA Percent ==
    ASSUME NEW n \in Nat, NEW p \in 0 .. 100
    PROVE  (n * p) \div 100 \in 0 .. n
<1>1. n * (100 - p) >= 0 /\ n * (100 - p) = n * 100 - n * p /\ n * p \in Nat
  OBVIOUS
<1>2. n * p <= n * 100
  BY <1>1
<1> DEFINE m == n * p
<1> HIDE DEF m
<1>3. m \div 100 \in 0 .. n
  BY <1>1, <1>2 DEF m
<1> QED
  BY <1>3 DEF m

\* A vesting balance of one account changes.
LEMMA VestAt ==
    ASSUME NEW ac \in Wallets, NEW a \in Account, NEW n \in Int,
           \A b \in Account : Richer(acct[b], ac[b])
    PROVE  LET bc == [ac EXCEPT ![a].vest = @ + n]
           IN  /\ bc \in Wallets /\ Worth(bc) = Worth(ac) + n
               /\ \A b \in Account : Richer(acct[b], bc[b])
<1> DEFINE x == [ac[a] EXCEPT !.vest = @ + n]
           bc == [ac EXCEPT ![a] = x]
<1>0. ac[a] \in Wallet /\ ac[a].bal \in Int /\ ac[a].vest \in Int
  BY DEF Wallets, Wallet
<1>1. ac[a].vest + n \in Int
  BY <1>0
<1>2. /\ x \in Wallet /\ SameLocks(ac[a], x) /\ x.vest = ac[a].vest + n
      /\ x.bal = ac[a].bal
  BY <1>0, <1>1, VestSet
<1>3. bc = [ac EXCEPT ![a].vest = @ + n]
  OBVIOUS
<1> HIDE DEF x
<1>4. Moved(ac, bc, a, x)
  BY <1>2, MovedIs
<1> HIDE DEF bc
<1>5. bc \in Wallets /\ bc[a] = x /\ \A b \in Account \ {a} : bc[b] = ac[b]
  BY <1>4 DEF Moved
<1>6. Worth(bc) = Worth(ac) + n
  <2>1. Worth(bc) = Worth(ac) + (x.bal + x.vest) - (ac[a].bal + ac[a].vest)
    BY <1>4 DEF Moved
  <2>2. Worth(ac) \in Int
    BY WorthInt
  <2> QED
    BY <1>0, <1>2, <2>1, <2>2
<1>7. ASSUME NEW b \in Account
      PROVE  Richer(acct[b], bc[b])
  <2>1. Richer(acct[b], ac[b])
    OBVIOUS
  <2>2. SameLocks(ac[b], bc[b]) /\ bc[b].bal = ac[b].bal
    BY <1>2, <1>4, <1>5 DEF Moved
  <2> QED
    BY <2>1, <2>2 DEF Richer, SameLocks
<1> QED
  BY <1>3, <1>5, <1>6, <1>7

\* Setting one field of the core asset.
LEMMA BurnedSet ==
    ASSUME NEW c \in Core, NEW n \in Int
    PROVE  LET d == [c EXCEPT !.burned = n]
           IN  d \in Core /\ SameBudget(c, d) /\ d.burned = n
BY DEF Core, SameBudget

\* Another max_supply leaves the budgets.
LEMMA MaxSet ==
    ASSUME NEW c \in Core, NEW n \in Int
    PROVE  LET d == [c EXCEPT !.max = n]
           IN  d \in Core /\ SameBudget(c, d) /\ d.burned = c.burned
BY DEF Core, SameBudget

\* Another budget for witnesses leaves the other budgets.
LEMMA WitnessSet ==
    ASSUME NEW c \in Core, NEW n \in Int
    PROVE  LET d == [c EXCEPT !.witness = n]
           IN  /\ d \in Core /\ d.witness = n /\ d.burned = c.burned
               /\ d.supply = c.supply /\ d.fees = c.fees
               /\ d.worker = c.worker /\ d.award = c.award
               /\ d.records = c.records
BY DEF Core

\* What the state is worth is an integer.
LEMMA StateInt ==
    ASSUME NEW s, StateOK(s)
    PROVE  /\ Worth(s.acct) \in Int /\ s.core.burned \in Int /\ s.left \in Int
           /\ s.core.max \in Int /\ s.core.supply \in Int
<1>1. s.acct \in Wallets /\ s.core \in Core /\ s.left \in Int
  BY DEF StateOK
<1>2. Worth(s.acct) \in Int
  BY <1>1, WorthInt
<1> QED
  BY <1>1, <1>2 DEF Core

\* A state after which as much is left, paid or burned as before.
Kept(s, r) ==
    /\ StateOK(r) /\ Held(r) = Held(s) /\ SameBudget(s.core, r.core)
    /\ r.head = s.head

\* Two payments keep what each of them keeps.
LEMMA KeptTwice ==
    ASSUME NEW s, NEW r, NEW q, Kept(s, r), Kept(r, q)
    PROVE  Kept(s, q)
BY DEF Kept, SameBudget

\* Paying nothing keeps everything.
LEMMA KeptSame ==
    ASSUME NEW s, StateOK(s)
    PROVE  Kept(s, s)
BY DEF Kept, SameBudget

\* A worker is paid out of what is left, or changes max_supply only.
LEMMA PayWorkerKept ==
    ASSUME NEW s, StateOK(s), NEW w \in Worker, NEW elapsed \in Int
    PROVE  Kept(s, PayWorker(s, w, elapsed))
<1> DEFINE pay == Least(s.left, (w.plan.daily * elapsed) \div Day)
           t == w.plan.type
           to == w.plan.to
           p == [s EXCEPT !.left = @ - pay]
<1>0. /\ w.plan \in Plan /\ w.plan.daily \in Nat /\ to \in Account
      /\ t \in {"vesting", "burn", "issuance", "destroy"}
  BY DEF Worker, Plan
<1>1. pay \in Int
  <2>1. w.plan.daily * elapsed \in Int /\ Day \in Nat \ {0}
    BY <1>0, GovernanceConstants
  <2>2. (w.plan.daily * elapsed) \div Day \in Int
    BY <2>1, DivInt
  <2> QED
    BY <2>2, StateInt, LeastIs
<1>2. /\ Worth(s.acct) \in Int /\ s.core.burned \in Int /\ s.left \in Int
      /\ s.core.max \in Int /\ s.core.supply \in Int
      /\ s.acct \in Wallets /\ s.core \in Core
      /\ \A a \in Account : Richer(acct[a], s.acct[a])
  BY StateInt DEF StateOK
<1> DEFINE mint == t \in {"issuance", "destroy"}
           q == IF mint THEN s ELSE p
<1>3. PayWorker(s, w, elapsed) =
        IF s.left <= 0 /\ ~mint THEN s
        ELSE CASE t = "vesting" -> [q EXCEPT !.acct[to].vest = @ + pay]
               [] t = "burn" -> [q EXCEPT !.core.burned = @ + pay]
               [] t = "issuance" -> [q EXCEPT !.core.max = @ + pay]
               [] t = "destroy" -> [q EXCEPT !.core.max = @ - pay,
                                      !.ok = @ /\ s.core.max - s.core.supply >= pay]
  BY Zenon DEF PayWorker, MintingWorker
<1>m. mint <=> t \in {"issuance", "destroy"}
  OBVIOUS
<1>q. /\ mint => q = s
      /\ ~mint => q = p
  OBVIOUS
<1> HIDE DEF mint, q
<1> HIDE DEF pay, t, to
<1>4. CASE s.left <= 0 /\ ~mint
  <2>1. PayWorker(s, w, elapsed) = s
    BY <1>3, <1>4
  <2> QED
    BY <2>1, KeptSame
<1>5. CASE t = "vesting" /\ ~(s.left <= 0)
  <2> DEFINE bc == [s.acct EXCEPT ![to].vest = @ + pay]
             r == [p EXCEPT !.acct = bc]
  <2>1. /\ StateOK(p) /\ p.left = s.left - pay /\ p.acct = s.acct
        /\ p.core = s.core /\ p.head = s.head /\ p.workers = s.workers
    BY <1>1, <1>2, LeftSet
  <2>2. PayWorker(s, w, elapsed) = r
    BY <1>3, <1>5, <1>m, <1>q, <2>1
  <2>3. /\ bc \in Wallets /\ Worth(bc) = Worth(s.acct) + pay
        /\ \A a \in Account : Richer(acct[a], bc[a])
    BY <1>0, <1>1, <1>2, VestAt
  <2> HIDE DEF bc, p
  <2>4. /\ StateOK(r) /\ r.left = p.left /\ r.acct = bc /\ r.core = p.core
        /\ r.head = p.head /\ r.workers = p.workers
    BY <2>1, <2>3, AcctSet
  <2> HIDE DEF r
  <2>5. Held(r) = Held(s)
    BY <1>1, <1>2, <2>1, <2>3, <2>4 DEF Held
  <2>6. Kept(s, r)
    BY <2>1, <2>4, <2>5 DEF Kept, SameBudget
  <2> QED
    BY <2>2, <2>6
<1>6. CASE t = "burn" /\ ~(s.left <= 0)
  <2> DEFINE c == [s.core EXCEPT !.burned = @ + pay]
             r == [p EXCEPT !.core = c]
  <2>1. /\ StateOK(p) /\ p.left = s.left - pay /\ p.acct = s.acct
        /\ p.core = s.core /\ p.head = s.head /\ p.workers = s.workers
    BY <1>1, <1>2, LeftSet
  <2>2. PayWorker(s, w, elapsed) = r
    BY <1>3, <1>6, <1>m, <1>q, <2>1
  <2>3. c \in Core /\ SameBudget(s.core, c) /\ c.burned = s.core.burned + pay
    BY <1>1, <1>2, BurnedSet, SMTT(30)
  <2> HIDE DEF c, p
  <2>4. /\ StateOK(r) /\ r.left = p.left /\ r.acct = p.acct /\ r.core = c
        /\ r.head = p.head /\ r.workers = p.workers
    BY <2>1, <2>3, CoreSet
  <2> HIDE DEF r
  <2>5. Held(r) = Held(s)
    BY <1>1, <1>2, <2>1, <2>3, <2>4 DEF Held
  <2>6. Kept(s, r)
    BY <2>1, <2>3, <2>4, <2>5 DEF Kept
  <2> QED
    BY <2>2, <2>6
<1>7. CASE t = "issuance"
  <2> DEFINE c == [s.core EXCEPT !.max = @ + pay]
             r == [s EXCEPT !.core = c]
  <2>1. PayWorker(s, w, elapsed) = r
    BY <1>3, <1>7, <1>m, <1>q
  <2>2. c \in Core /\ SameBudget(s.core, c) /\ c.burned = s.core.burned
    BY <1>1, <1>2, MaxSet
  <2> HIDE DEF c
  <2>3. /\ StateOK(r) /\ r.left = s.left /\ r.acct = s.acct /\ r.core = c
        /\ r.head = s.head /\ r.workers = s.workers
    BY <2>2, CoreSet
  <2> HIDE DEF r
  <2>4. Kept(s, r)
    BY <2>2, <2>3 DEF Kept, Held
  <2> QED
    BY <2>1, <2>4
<1>8. CASE t = "destroy"
  <2> DEFINE c == [s.core EXCEPT !.max = @ - pay]
             e == [s EXCEPT !.core = c]
             b == s.ok /\ s.core.max - s.core.supply >= pay
             r == [e EXCEPT !.ok = b]
  <2>1. PayWorker(s, w, elapsed) = r
    BY <1>3, <1>8, <1>m, <1>q
  <2>2. c \in Core /\ SameBudget(s.core, c) /\ c.burned = s.core.burned
    BY <1>1, <1>2, MaxSet
  <2> HIDE DEF c, b
  <2>3. /\ StateOK(e) /\ e.left = s.left /\ e.acct = s.acct /\ e.core = c
        /\ e.head = s.head /\ e.workers = s.workers
    BY <2>2, CoreSet
  <2> HIDE DEF e
  <2>4. /\ StateOK(r) /\ r.left = e.left /\ r.acct = e.acct /\ r.core = e.core
        /\ r.head = e.head /\ r.workers = e.workers
    BY <2>3, FlagSet
  <2> HIDE DEF r
  <2>5. Kept(s, r)
    BY <2>2, <2>3, <2>4 DEF Kept, Held
  <2> QED
    BY <2>1, <2>5
<1> QED
  BY <1>0, <1>4, <1>5, <1>6, <1>7, <1>8, <1>m DEF t

\* The least of some indices is one of them.
LEMMA MinIs ==
    ASSUME NEW S, S \subseteq Nat, S # {}
    PROVE  Min(S) \in S
<1> DEFINE R == OpToRel(<, Nat)
<1>1. PICK x \in S : \A y \in S : ~(<<y, x>> \in R)
  BY NatLessThanWellFounded, WFMin
<1>2. ASSUME NEW y \in S
      PROVE  x <= y
  <2>1. x \in Nat /\ y \in Nat
    OBVIOUS
  <2>2. ~(y < x)
    BY <1>1, <2>1 DEF OpToRel
  <2> QED
    BY <2>1, <2>2
<1> QED
  BY <1>1, <1>2 DEF Min

\* pay_workers() pays every worker out of what is left.
LEMMA PayWorkersKept ==
    ASSUME IInv, NEW s, StateOK(s), NEW now \in Int
    PROVE  Kept(s, PayWorkers(s, now))
<1> DEFINE ended == {i \in DOMAIN workers : ~workers[i].completed /\ workers[i].plan.end <= now}
           until == IF ended = {} THEN now ELSE workers[Min(ended)].plan.end
           elapsed == until - core.lastBudget
           Due(i) == /\ ~workers[i].completed
                     /\ now \in workers[i].plan.begin .. workers[i].plan.end
                     /\ \A j \in ended : i < j
           Turn(r, i) == IF i \in DOMAIN workers /\ Due(i)
                         THEN PayWorker(r, workers[i], elapsed) ELSE r
           first == Turn(s, 1)
           paid == Turn(first, 2)
           m == Min(ended)
<1>1. PayWorkers(s, now) = IF ended = {} THEN paid
                           ELSE [paid EXCEPT !.workers[m].completed = TRUE]
  BY DEF PayWorkers
<1>2. workers \in Seq(Worker) /\ core.lastBudget \in Int
  BY IInvIs DEF IInv, TypeOK, Core
<1>3. \A i \in DOMAIN workers : i \in Nat /\ workers[i] \in Worker
  BY <1>2
<1>4. ended # {} => m \in DOMAIN workers
  <2>1. ended \subseteq Nat
    BY <1>3
  <2> QED
    BY <2>1, MinIs
<1>5. elapsed \in Int
  <2>1. CASE ended = {}
    BY <2>1, <1>2
  <2>2. CASE ended # {}
    <3>1. workers[m].plan.end \in Nat
      BY <1>3, <1>4, <2>2 DEF Worker, Plan
    <3> QED
      BY <1>2, <2>2, <3>1
  <2> QED
    BY <2>1, <2>2
<1> HIDE DEF elapsed, Due, m
<1>6. ASSUME NEW r, StateOK(r), NEW i
      PROVE  Kept(r, Turn(r, i)) /\ StateOK(Turn(r, i))
  <2>1. CASE i \in DOMAIN workers /\ Due(i)
    <3>1. workers[i] \in Worker
      BY <1>3, <2>1
    <3>2. Kept(r, PayWorker(r, workers[i], elapsed))
      BY <1>5, <1>6, <3>1, PayWorkerKept
    <3> QED
      BY <2>1, <3>2 DEF Kept
  <2>2. CASE ~(i \in DOMAIN workers /\ Due(i))
    BY <1>6, <2>2, KeptSame
  <2> QED
    BY <2>1, <2>2
<1> HIDE DEF Turn
<1>7. Kept(s, paid) /\ StateOK(paid)
  <2>1. Kept(s, first) /\ StateOK(first)
    BY <1>6
  <2> HIDE DEF first
  <2>2. Kept(first, paid) /\ StateOK(paid)
    BY <1>6, <2>1
  <2> QED
    BY <2>1, <2>2, KeptTwice
<1> HIDE DEF paid, ended
<1>8. CASE ended = {}
  BY <1>1, <1>7, <1>8
<1>9. CASE ended # {}
  <2> DEFINE b == TRUE
             x == [paid.workers[m] EXCEPT !.completed = b]
             v == [paid.workers EXCEPT ![m] = x]
             r == [paid EXCEPT !.workers = v]
  <2>1. PayWorkers(s, now) = r
    BY <1>1, <1>9
  <2>2. paid.workers \in Seq(Worker) /\ b \in BOOLEAN
    BY <1>7 DEF StateOK
  <2> HIDE DEF b
  <2>3. v \in Seq(Worker)
    <3>1. CASE m \in DOMAIN paid.workers
      <4>1. paid.workers[m] \in Worker
        BY <2>2, <3>1
      <4>2. x \in Worker
        BY <2>2, <4>1 DEF Worker
      <4> HIDE DEF x
      <4> QED
        BY <2>2, <3>1, <4>2
    <3>2. CASE m \notin DOMAIN paid.workers
      <4> HIDE DEF x
      <4>1. v = paid.workers
        BY <2>2, <3>2
      <4> QED
        BY <2>2, <4>1
    <3> QED
      BY <3>1, <3>2
  <2> HIDE DEF v
  <2>4. /\ StateOK(r) /\ r.left = paid.left /\ r.acct = paid.acct
        /\ r.core = paid.core /\ r.head = paid.head
    BY <1>7, <2>3, WorkersSet
  <2> HIDE DEF r
  <2>5. Kept(paid, r)
    BY <2>4 DEF Kept, Held, SameBudget
  <2> QED
    BY <1>7, <2>1, <2>5, KeptTwice
<1> QED
  BY <1>8, <1>9

-----------------------------------------------------------------------------
(***************************************************************************)
(* What candidates are paid is never negative: no account is charged for   *)
(* an election, whatever the votes are and whoever failed maintenances     *)
(* have left in the vectors.                                               *)
(***************************************************************************)
\* The total votes of a candidate are a natural number.
LEMMA VotesNat ==
    ASSUME IInv, NEW k \in Kind, NEW b \in Account
    PROVE  cand[k][b].votes \in Nat
<1>1. acct \in Wallets /\ VotesOK(acct, cand, k, b)
  BY IInvIs DEF AllVotesOK
<1>2. Total(StakeFor(acct, k, b)) \in Nat
  BY <1>1, StakesType
<1>3. acct[b].frozen[k] \in Nat
  BY <1>1 DEF Wallets, Wallet
<1> QED
  BY <1>1, <1>2, <1>3 DEF VotesOK

\* How often the vectors hold a candidate is a natural number.
LEMMA CountNat ==
    ASSUME IInv, NEW k \in Kind, NEW a \in Account
    PROVE  Count(k, a) \in Nat
<1>1. refs[k][a] \in Nat
  BY DEF IInv, TypeOK
<1> QED
  BY <1>1 DEF Count

\* What a failed maintenance leaves in the vectors is counted.
LEMMA CollectedType ==
    ASSUME IInv
    PROVE  Collected \in [Kind -> [Account -> Nat]]
BY CountNat DEF Collected

\* The lesser of two natural numbers.
LEMMA LeastNat ==
    ASSUME NEW a \in Nat, NEW b \in Nat
    PROVE  Least(a, b) \in Nat
BY DEF Least

\* A remainder is a natural number.
LEMMA ModNat ==
    ASSUME NEW n \in Int, NEW d \in Nat \ {0}
    PROVE  n % d \in Nat
OBVIOUS

\* The seats of each candidate.
LEMMA SeatsType ==
    ASSUME IInv, NEW k \in Kind
    PROVE  Seats(k) \in [Account -> Nat]
<1> DEFINE n == Least(Elected[k], Total(Collected[k]))
           open == IF n \div 2 = 0 THEN n - 1 ELSE n
           Taken(before, count) == IF before >= open THEN 0
                                   ELSE Least(count, open - before)
<1>1. n \in Nat
  <2>1. Elected[k] \in Nat
    BY GovernanceConstants
  <2>2. Total(Collected[k]) \in Nat
    <3>1. Collected[k] \in [Account -> Nat]
      BY CollectedType
    <3> QED
      BY <3>1, TotalNat
  <2> QED
    BY <2>1, <2>2, LeastNat
<1> HIDE DEF n
<1>2. open \in Int
  <2>1. n - 1 \in Int
    BY <1>1
  <2> QED
    BY <1>1, <2>1
<1> HIDE DEF open
<1>3. ASSUME NEW a \in Account
      PROVE  Taken(Place(k, a), Count(k, a)) \in Nat
  <2> DEFINE f == [b \in Account |-> IF Before(k, b, a) THEN Count(k, b) ELSE 0]
             before == Place(k, a)
  <2>1. f \in [Account -> Nat]
    BY CountNat
  <2>2. before \in Nat
    <3> HIDE DEF f
    <3>1. Total(f) \in Nat
      BY <2>1, TotalNat
    <3> QED
      BY <3>1 DEF Place, f
  <2> HIDE DEF before
  <2>3. CASE before >= open
    BY <2>3 DEF before
  <2>4. CASE ~(before >= open)
    <3>1. open - before \in Nat
      BY <1>2, <2>2, <2>4
    <3>2. Least(Count(k, a), open - before) \in Nat
      BY <3>1, CountNat, LeastNat
    <3> QED
      BY <2>4, <3>2 DEF before
  <2> QED
    BY <2>3, <2>4
<1>4. Seats(k) = [a \in Account |-> Taken(Place(k, a), Count(k, a))]
  BY DEF Seats, n, open
<1> QED
  BY <1>3, <1>4

\* How many seats each candidate has.
SeatsOK(seats) == seats \in [Kind -> [Account -> Nat]]

\* What the votes of the elected are divided by is not 0.
LEMMA ThresholdType ==
    ASSUME IInv, NEW seats, SeatsOK(seats), NEW k \in Kind
    PROVE  Threshold(k, seats) \in Nat \ {0}
<1> DEFINE f == [a \in Account |-> seats[k][a] * cand[k][a].votes]
<1>1. f \in [Account -> Nat]
  <2>1. ASSUME NEW a \in Account
        PROVE  seats[k][a] * cand[k][a].votes \in Nat
    <3>1. seats[k][a] \in Nat
      BY DEF SeatsOK
    <3> QED
      BY <3>1, VotesNat, MulNat
  <2> QED
    BY <2>1
<1> HIDE DEF f
<1>2. Total(f) \in Nat
  BY <1>1, TotalNat
<1>3. Total(f) \div 2 \in Nat
  BY <1>2, DivNat
<1>4. Threshold(k, seats) = Total(f) \div 2 + 1
  BY DEF Threshold, f
<1> QED
  BY <1>3, <1>4

\* The votes of a loser are an unsigned integer, even if the freeze is gone.
LEMMA LoserVotesNat ==
    ASSUME IInv, NEW a \in Account
    PROVE  LoserVotes(a) \in Nat
<1>1. ASSUME NEW k \in Kind
      PROVE  Extra(k, a) \in Nat
  <2>1. cand[k][a].votes - Freeze[k] \in Int /\ Word \in Nat \ {0}
    <3>1. cand[k][a].votes \in Int /\ Freeze[k] \in Int
      BY VotesNat, GovernanceConstants
    <3> QED
      BY <3>1, GovernanceConstants
  <2>2. (cand[k][a].votes - Freeze[k]) % Word \in Nat
    BY <2>1, ModNat
  <2> QED
    BY <2>2 DEF Extra
<1>2. Extra("witness", a) \in Nat /\ Extra("committee", a) \in Nat
  BY <1>1 DEF Kind
<1> QED
  BY <1>2 DEF LoserVotes

\* The votes of all losers are an unsigned integer.
LEMMA AllLoserVotesNat ==
    ASSUME IInv, NEW losers
    PROVE  AllLoserVotes(losers) \in Nat
<1> DEFINE f == [a \in Account |-> IF a \in losers THEN LoserVotes(a) ELSE 0]
<1>1. f \in [Account -> Nat]
  BY LoserVotesNat
<1> HIDE DEF f
<1>2. Total(f) \in Int /\ Word \in Nat \ {0}
  BY <1>1, TotalNat, GovernanceConstants
<1>3. Total(f) % Word \in Nat
  BY <1>2, ModNat
<1> QED
  BY <1>3 DEF AllLoserVotes, f

\* The part of a winner.
LEMMA WinnerShareNat ==
    ASSUME IInv, NEW seats, NEW k \in Kind, NEW a \in Account,
           NEW amount \in Nat, NEW threshold \in Nat \ {0}
    PROVE  WinnerShare(seats, k, a, amount, threshold) \in Nat
<1>1. cand[k][a].votes * amount \in Nat
  BY VotesNat, MulNat
<1>2. 2 * threshold \in Nat \ {0}
  OBVIOUS
<1>3. (cand[k][a].votes * amount) \div (2 * threshold) \in Nat
  BY <1>1, <1>2, DivNat
<1> QED
  BY <1>3 DEF WinnerShare

\* The part of a loser.
LEMMA LoserShareNat ==
    ASSUME IInv, NEW losers, losers \subseteq Account, NEW a \in Account,
           NEW amount \in Nat, NEW height, NEW votes \in Nat
    PROVE  LoserShare(losers, a, amount, height, votes) \in Nat
<1>1. CASE a \notin losers
  BY <1>1 DEF LoserShare
<1>2. CASE a \in losers
  <2>1. Cardinality(losers) \in Nat \ {0}
    BY <1>2, SomeAccounts, FS_EmptySet
  <2>2. amount \div Cardinality(losers) \in Nat
    BY <2>1, DivNat
  <2>3. votes # 0 => (amount * LoserVotes(a)) \div votes \in Nat
    <3>1. amount * LoserVotes(a) \in Nat
      BY LoserVotesNat, MulNat
    <3> QED
      BY <3>1, DivNat
  <2> QED
    BY <1>2, <2>2, <2>3 DEF LoserShare
<1> QED
  BY <1>1, <1>2

\* What pay_candidates() pays to each account.
LEMMA SharesType ==
    ASSUME IInv, NEW budget \in Nat, NEW seats, SeatsOK(seats),
           NEW losers, losers \subseteq Account, NEW height
    PROVE  Shares(budget, seats, losers, height) \in [Account -> Nat]
<1> DEFINE committee == (budget * CommitteePct) \div 100
           forLosers == ((budget - committee) * LoserPct) \div 100
           witness == budget - committee - forLosers
           half1 == Threshold("committee", seats)
           half2 == Threshold("witness", seats)
           votes == AllLoserVotes(losers)
           C(a) == WinnerShare(seats, "committee", a, committee, half1)
           W(a) == WinnerShare(seats, "witness", a, witness, half2)
           L(a) == LoserShare(losers, a, forLosers, height, votes)
<1>1. Shares(budget, seats, losers, height) = [a \in Account |-> C(a) + W(a) + L(a)]
  BY DEF Shares
<1>2. committee \in 0 .. budget
  <2>1. CommitteePct \in 0 .. 100
    BY GovernanceConstants
  <2> QED
    BY <2>1, Percent
<1> HIDE DEF committee
<1>3. forLosers \in 0 .. (budget - committee)
  <2>1. LoserPct \in 0 .. 100 /\ budget - committee \in Nat
    BY <1>2, GovernanceConstants
  <2> QED
    BY <2>1, Percent
<1> HIDE DEF forLosers
<1>4. committee \in Nat /\ forLosers \in Nat /\ witness \in Nat
  BY <1>2, <1>3
<1> HIDE DEF witness
<1>5. half1 \in Nat \ {0} /\ half2 \in Nat \ {0}
  BY ThresholdType DEF Kind
<1>6. votes \in Nat
  BY AllLoserVotesNat
<1> HIDE DEF half1, half2, votes
<1>7. ASSUME NEW a \in Account
      PROVE  C(a) + W(a) + L(a) \in Nat
  <2>1. C(a) \in Nat /\ W(a) \in Nat
    BY <1>4, <1>5, WinnerShareNat DEF Kind
  <2>2. L(a) \in Nat
    BY <1>4, <1>6, LoserShareNat
  <2> HIDE DEF C, W, L
  <2> QED
    BY <2>1, <2>2
<1> HIDE DEF C, W, L
<1> QED
  BY <1>1, <1>7

\* Paying every account its share.
LEMMA SharesPaid ==
    ASSUME NEW ac \in Wallets, NEW share \in [Account -> Nat],
           \A b \in Account : Richer(acct[b], ac[b]), acct \in Wallets
    PROVE  LET bc == [a \in Account |-> [ac[a] EXCEPT !.bal = @ + share[a]]]
           IN  /\ bc \in Wallets /\ Worth(bc) = Worth(ac) + Total(share)
               /\ \A b \in Account : Richer(acct[b], bc[b])
<1> DEFINE bc == [a \in Account |-> [ac[a] EXCEPT !.bal = @ + share[a]]]
<1>1. ASSUME NEW a \in Account
      PROVE  /\ bc[a] \in Wallet /\ SameLocks(ac[a], bc[a])
             /\ bc[a].bal = ac[a].bal + share[a] /\ bc[a].vest = ac[a].vest
             /\ ac[a].bal \in Int /\ ac[a].vest \in Int
  <2>1. ac[a] \in Wallet /\ ac[a].bal \in Int /\ ac[a].vest \in Int
    BY DEF Wallets, Wallet
  <2>2. ac[a].bal + share[a] \in Int
    BY <2>1
  <2>3. bc[a] = [ac[a] EXCEPT !.bal = ac[a].bal + share[a]]
    OBVIOUS
  <2> HIDE DEF bc
  <2> QED
    BY <2>1, <2>2, <2>3, BalSet
<1>2. bc \in Wallets
  BY <1>1 DEF Wallets
<1> HIDE DEF bc
<1>3. Worth(bc) = Worth(ac) + Total(share)
  <2> DEFINE f == [a \in Account |-> ac[a].bal + ac[a].vest]
             h == [a \in Account |-> bc[a].bal + bc[a].vest]
  <2>1. f \in Amount /\ h \in Amount
    BY <1>2, WorthType
  <2>2. share \in Amount
    BY TotalNat
  <2>3. \A a \in Account : h[a] = f[a] + share[a]
    <3>1. ASSUME NEW a \in Account PROVE h[a] = f[a] + share[a]
      BY <1>1
    <3> QED
      BY <3>1
  <2>4. Worth(ac) = Total(f) /\ Worth(bc) = Total(h)
    BY DEF Worth
  <2> HIDE DEF f, h
  <2>5. Total(h) = Total(f) + Total(share)
    BY <2>1, <2>2, <2>3, TotalAdd
  <2> QED
    BY <2>4, <2>5
<1>4. ASSUME NEW b \in Account
      PROVE  Richer(acct[b], bc[b])
  <2>1. Richer(acct[b], ac[b])
    OBVIOUS
  <2>2. acct[b].bal \in Int
    BY DEF Wallets, Wallet
  <2> QED
    BY <1>1, <2>1, <2>2 DEF Richer, SameLocks
<1> QED
  BY <1>2, <1>3, <1>4 DEF bc

\* pay_candidates() pays out of its budget and leaves the rest.
LEMMA PayCandidatesPaid ==
    ASSUME IInv, NEW s, StateOK(s), NEW budget \in Nat, NEW seats, SeatsOK(seats),
           NEW losers, losers \subseteq Account, NEW height, NEW nan,
           NEW r, r = PayCandidates(s, budget, seats, losers, height, nan)
    PROVE  /\ StateOK(r) /\ Held(r) = Held(s) + budget
           /\ SameBudget(s.core, r.core) /\ r.head = s.head
<1> DEFINE share == Shares(budget, seats, losers, height)
           bc == [a \in Account |-> [s.acct[a] EXCEPT !.bal = @ + share[a]]]
           n == s.left + budget - Total(share)
           b == s.ok /\ ~(nan /\ height > DiffPoint /\ losers # {}
                          /\ AllLoserVotes(losers) = 0)
           p == [s EXCEPT !.acct = bc]
           q == [p EXCEPT !.left = n]
           z == [q EXCEPT !.ok = b]
<1>1. r = [s EXCEPT !.acct = bc, !.left = n, !.ok = b]
  BY DEF PayCandidates
<1>2. share \in [Account -> Nat] /\ Total(share) \in Nat
  BY SharesType, TotalNat
<1>3. /\ Worth(s.acct) \in Int /\ s.core.burned \in Int /\ s.left \in Int
      /\ s.acct \in Wallets
      /\ \A a \in Account : Richer(acct[a], s.acct[a])
  BY StateInt DEF StateOK
<1> HIDE DEF share
<1>4. /\ bc \in Wallets /\ Worth(bc) = Worth(s.acct) + Total(share)
      /\ \A a \in Account : Richer(acct[a], bc[a])
  BY <1>2, <1>3, SharesPaid, IInvIs
<1>5. n \in Int
  BY <1>2, <1>3
<1> HIDE DEF bc, n, b
<1>6. r = z
  BY <1>1
<1>7. /\ StateOK(p) /\ p.left = s.left /\ p.acct = bc /\ p.core = s.core
      /\ p.head = s.head
  BY <1>4, AcctSet
<1> HIDE DEF p
<1>8. /\ StateOK(q) /\ q.left = n /\ q.acct = p.acct /\ q.core = p.core
      /\ q.head = p.head
  BY <1>5, <1>7, LeftSet
<1> HIDE DEF q
<1>f. /\ StateOK(z) /\ z.left = q.left /\ z.acct = q.acct /\ z.core = q.core
      /\ z.head = q.head
  BY <1>8, FlagSet
<1> HIDE DEF z
<1>9. /\ StateOK(r) /\ r.left = q.left /\ r.acct = q.acct /\ r.core = q.core
      /\ r.head = q.head
  BY <1>6, <1>f
<1>10. Held(r) = Held(s) + budget
  <2>1. Held(r) = Worth(bc) + s.core.burned + n
    BY <1>7, <1>8, <1>9 DEF Held
  <2> QED
    BY <1>2, <1>3, <1>4, <2>1 DEF Held, n
<1> QED
  BY <1>7, <1>8, <1>9, <1>10 DEF SameBudget

\* update_signing_witness() pays out of the budget for witnesses.
SignedOK(s) ==
    /\ StateOK(s) /\ s.left = 0 /\ s.head = head
    /\ s.core.supply = core.supply /\ s.core.fees = core.fees
    /\ s.core.worker = core.worker /\ s.core.award = core.award
    /\ s.core.records = core.records /\ s.core.burned = core.burned
    /\ Worth(s.acct) + s.core.witness = Worth(acct) + core.witness

\* update_signing_witness() does that, whatever the budget.
LEMMA SignedIs ==
    ASSUME IInv, NEW w \in Account
    PROVE  SignedOK(Signed(w))
<1> DEFINE pay == Least(PayPerBlock, core.witness)
           ac == [acct EXCEPT ![w].vest = @ + pay]
           c == [core EXCEPT !.witness = @ - pay]
           no == FALSE
           yes == TRUE
           zero == 0
           s == [acct |-> ac, core |-> c, workers |-> workers, head |-> head,
                 due |-> no, left |-> zero, ok |-> yes]
<1>0. /\ acct \in Wallets /\ core \in Core /\ workers \in Seq(Worker)
      /\ head \in HeadBlock /\ core.witness \in Int
  BY DEF IInv, TypeOK, Core
<1>1. pay \in Int
  <2>1. PayPerBlock \in Int
    BY GovernanceConstants
  <2> QED
    BY <1>0, <2>1, LeastIs
<1>2. Signed(w) = s
  BY DEF Signed
<1>z. zero \in Int /\ zero = 0
  OBVIOUS
<1> HIDE DEF pay, no, yes, zero
<1>3. /\ ac \in Wallets /\ Worth(ac) = Worth(acct) + pay
      /\ \A b \in Account : Richer(acct[b], ac[b])
  <2>1. \A b \in Account : Richer(acct[b], acct[b])
    <3>1. \A b \in Account : acct[b].bal \in Int
      BY <1>0 DEF Wallets, Wallet
    <3> QED
      BY <3>1 DEF Richer, SameLocks
  <2> QED
    BY <1>0, <1>1, <2>1, VestAt
<1>4. core.witness - pay \in Int
  BY <1>0, <1>1
<1>5. /\ c \in Core /\ c.witness = core.witness - pay /\ c.burned = core.burned
      /\ c.supply = core.supply /\ c.fees = core.fees
      /\ c.worker = core.worker /\ c.award = core.award
      /\ c.records = core.records
  BY <1>0, <1>4, WitnessSet
<1> HIDE DEF ac, c
<1>6. /\ s.acct = ac /\ s.core = c /\ s.left = 0 /\ s.head = head
      /\ s.workers = workers /\ State(s)
  BY <1>z DEF State
<1> HIDE DEF s
<1>7. StateOK(s)
  BY <1>0, <1>3, <1>5, <1>6, <1>z DEF StateOK
<1>8. Worth(s.acct) + s.core.witness = Worth(acct) + core.witness
  <2>1. Worth(acct) \in Int
    BY <1>0, WorthInt
  <2> QED
    BY <1>0, <1>1, <1>3, <1>5, <1>6, <2>1
<1> QED
  BY <1>2, <1>5, <1>6, <1>7, <1>8 DEF SignedOK

-----------------------------------------------------------------------------
(***************************************************************************)
(* The budgets of an interval.                                             *)
(***************************************************************************)
\* The total budget.
LEMMA TotalBudgetInt ==
    ASSUME NEW c \in Core, NEW now \in Int
    PROVE  TotalBudget(c, now) \in Int
<1> DEFINE reserve == c.max - c.supply + c.fees
           dt == now - c.lastBudget
           have == reserve + c.witness
           released == (have * dt * CycleRate + CycleUnit - 1) \div CycleUnit
<1>1. reserve \in Int /\ dt \in Int /\ have \in Int
  BY DEF Core
<1>2. CycleRate \in Int /\ CycleUnit \in Nat \ {0}
  BY GovernanceConstants
<1>3. TotalBudget(c, now) = IF c.lastBudget = 0 \/ dt <= 0 THEN reserve
                            ELSE Least(have, released)
  BY DEF TotalBudget
<1> HIDE DEF reserve, dt, have
<1>4. have * dt * CycleRate + CycleUnit - 1 \in Int
  <2>1. have * dt \in Int
    BY <1>1
  <2> DEFINE x == have * dt
  <2> HIDE DEF x
  <2>2. x * CycleRate \in Int
    BY <1>2, <2>1 DEF x
  <2> DEFINE y == x * CycleRate
  <2> HIDE DEF y
  <2>3. y + CycleUnit - 1 \in Int
    BY <1>2, <2>2 DEF y
  <2> QED
    BY <2>3 DEF x, y
<1>5. released \in Int
  BY <1>2, <1>4, DivInt
<1> HIDE DEF released
<1>6. Least(have, released) \in Int
  BY <1>1, <1>5, LeastIs
<1> QED
  BY <1>1, <1>3, <1>6

\* A budget.
LEMMA BudgetsAre ==
    ASSUME NEW total \in Int, NEW a \in Int, NEW b \in Int, NEW c \in Nat
    PROVE  LET witness == Least(a, total)
               worker == Least(b, total - witness)
               award == Least(c, total - witness - worker)
           IN  witness \in Int /\ worker \in Int /\ award \in Nat
BY DEF Least

\* The core asset with other budgets.
NewBudget(c, supply, fees, witness, worker, award, last, n) ==
    [c EXCEPT !.supply = supply, !.fees = fees, !.witness = witness,
              !.worker = worker, !.award = award, !.lastBudget = last, !.records = n]

\* process_budget() sets these fields and leaves the others.
LEMMA NewBudgetIs ==
    ASSUME NEW c \in Core, NEW supply \in Int, NEW fees \in Int, NEW witness \in Int,
           NEW worker \in Int, NEW award \in Nat, NEW last \in Int, NEW n \in Nat,
           NEW d, d = NewBudget(c, supply, fees, witness, worker, award, last, n)
    PROVE  /\ d \in Core /\ d.supply = supply /\ d.fees = fees
           /\ d.witness = witness /\ d.worker = worker /\ d.award = award
           /\ d.records = n /\ d.burned = c.burned
BY DEF Core, NewBudget

\* The supply adds up in the middle of a block.
BudgetsOK(r) ==
    /\ StateOK(r)
    /\ r.core.records = 0 => r.core.worker = 0 /\ r.core.award = 0
    /\ r.core.supply = Worth(r.acct) + r.core.fees + r.core.witness
                         + r.core.worker + r.core.award + r.core.burned

\* process_budget() pays what the last budgets were for, and returns what is
\* left of them to the reserve.
PaidOut(s, now, seats, losers, height, nan) ==
    IF core.records = 0 THEN s
    ELSE PayCandidates(PayWorkers([s EXCEPT !.left = core.worker], now),
                       core.award, seats, losers, height, nan)

\* The state after that.
PaidOK(s, paid) ==
    /\ StateOK(paid) /\ SameBudget(s.core, paid.core) /\ paid.head = s.head
    /\ Held(paid) = Worth(s.acct) + core.burned + core.worker + core.award

\* What was budgeted is paid, burned or left over.
LEMMA BudgetsPaid ==
    ASSUME IInv, NEW s, SignedOK(s), NEW seats, SeatsOK(seats),
           NEW losers, losers \subseteq Account, NEW now \in Int, NEW height,
           NEW nan
    PROVE  PaidOK(s, PaidOut(s, now, seats, losers, height, nan))
<1> DEFINE paid == PaidOut(s, now, seats, losers, height, nan)
<1> SUFFICES /\ StateOK(paid) /\ SameBudget(s.core, paid.core) /\ paid.head = s.head
             /\ Held(paid) = Worth(s.acct) + core.burned + core.worker + core.award
  BY DEF PaidOK
<1> DEFINE t == [s EXCEPT !.left = core.worker]
           s1 == PayWorkers(t, now)
<1>0. core \in Core /\ core.worker \in Int /\ core.award \in Nat /\ core.burned \in Int
  BY DEF IInv, TypeOK, Core
<1>1. StateOK(s) /\ s.left = 0 /\ s.core.burned = core.burned
  BY DEF SignedOK
<1>2. Worth(s.acct) \in Int
  BY <1>1, StateInt
<1>3. CASE core.records = 0
  <2>1. core.worker = 0 /\ core.award = 0
    BY <1>3 DEF IInv, NoBudgetYet
  <2>2. paid = s
    BY <1>3 DEF PaidOut
  <2> HIDE DEF paid
  <2> QED
    BY <1>0, <1>1, <1>2, <2>1, <2>2 DEF Held, SameBudget
<1>4. CASE core.records # 0
  <2>1. /\ StateOK(t) /\ t.left = core.worker /\ t.acct = s.acct
        /\ t.core = s.core /\ t.head = s.head
    BY <1>0, <1>1, LeftSet
  <2>2. paid = PayCandidates(s1, core.award, seats, losers, height, nan)
    BY <1>4 DEF PaidOut
  <2> HIDE DEF t, paid
  <2>3. Kept(t, s1)
    BY <2>1, PayWorkersKept
  <2> HIDE DEF s1
  <2>4. StateOK(s1) /\ Held(s1) = Held(t) /\ SameBudget(t.core, s1.core)
        /\ s1.head = t.head
    BY <2>3 DEF Kept
  <2>5. /\ StateOK(paid) /\ Held(paid) = Held(s1) + core.award
        /\ SameBudget(s1.core, paid.core) /\ paid.head = s1.head
    BY <1>0, <2>2, <2>4, PayCandidatesPaid
  <2>6. Held(t) = Worth(s.acct) + core.burned + core.worker
    BY <1>1, <2>1 DEF Held
  <2> QED
    BY <1>0, <1>1, <1>2, <2>1, <2>4, <2>5, <2>6 DEF SameBudget
<1> QED
  BY <1>3, <1>4

\* After process_budget() the supply adds up again.
LEMMA ProcessBudgetOK ==
    ASSUME IInv, NEW s, SignedOK(s), NEW next \in Int, NEW seats, SeatsOK(seats),
           NEW losers, losers \subseteq Account, NEW now \in Int, NEW height,
           NEW nan,
           NEW r, r = ProcessBudget(s, next, seats, losers, now, height, nan)
    PROVE  BudgetsOK(r) /\ r.head = s.head
<1> DEFINE total == TotalBudget(s.core, now)
           witness == Least(PayPerBlock * (next - now), total)
           worker == Least((WorkerPerDay * (next - now)) \div Day, total - witness)
           award == Least(Award, total - witness - worker)
           paid == PaidOut(s, now, seats, losers, height, nan)
           supply == paid.core.supply + witness + worker + award
                       - (paid.left + core.fees + s.core.witness)
           n == Least(paid.core.records + 1, 1)
           none == 0
           c == NewBudget(paid.core, supply, none, witness, worker, award, now, n)
           z == [paid EXCEPT !.core = c]
<1>1. r = z
  BY DEF ProcessBudget, PaidOut, NewBudget
<1>2. witness \in Int /\ worker \in Int /\ award \in Nat
  <2> DEFINE a == PayPerBlock * (next - now)
             b == (WorkerPerDay * (next - now)) \div Day
  <2>1. total \in Int
    BY TotalBudgetInt DEF SignedOK, StateOK
  <2>2. /\ PayPerBlock \in Int /\ WorkerPerDay \in Int /\ Day \in Nat \ {0}
        /\ Award \in Nat /\ next - now \in Int
    BY GovernanceConstants
  <2>3. a \in Int /\ WorkerPerDay * (next - now) \in Int
    BY <2>2
  <2>4. b \in Int
    BY <2>2, <2>3, DivInt
  <2> HIDE DEF total, a, b
  <2> QED
    BY <2>1, <2>2, <2>3, <2>4, BudgetsAre DEF a, b
<1> HIDE DEF witness, worker, award
<1>3. /\ StateOK(paid) /\ SameBudget(s.core, paid.core) /\ paid.head = s.head
      /\ Held(paid) = Worth(s.acct) + core.burned + core.worker + core.award
  <2>1. PaidOK(s, paid)
    BY BudgetsPaid
  <2> HIDE DEF paid
  <2> QED
    BY <2>1 DEF PaidOK
<1> HIDE DEF paid
<1>4. /\ StateOK(s) /\ s.core.supply = core.supply /\ s.core.fees = core.fees
      /\ s.core.records = core.records
      /\ Worth(s.acct) + s.core.witness = Worth(acct) + core.witness
  BY DEF SignedOK
<1>5. /\ core.supply = Worth(acct) + core.fees + core.witness
                         + core.worker + core.award + core.burned
      /\ core.supply \in Int /\ core.fees \in Int /\ core.witness \in Int
      /\ core.worker \in Int /\ core.award \in Int /\ core.burned \in Int
      /\ core.records \in Nat /\ Worth(acct) \in Int
  <2>1. acct \in Wallets /\ core \in Core
    BY IInvIs
  <2> QED
    BY <2>1, IInvIs, WorthInt DEF Core
<1>6. /\ Worth(s.acct) \in Int /\ s.core.witness \in Int
      /\ Worth(paid.acct) \in Int /\ paid.left \in Int /\ paid.core.burned \in Int
      /\ paid.core \in Core
  <2>1. s.core \in Core /\ paid.core \in Core
    BY <1>3, <1>4 DEF StateOK
  <2> QED
    BY <1>3, <1>4, <2>1, StateInt DEF Core
<1>7. paid.core.supply = core.supply /\ paid.core.records = core.records
  BY <1>3, <1>4 DEF SameBudget
<1>8. supply \in Int
  BY <1>2, <1>5, <1>6, <1>7
<1>9. supply = Worth(paid.acct) + witness + worker + award + paid.core.burned
  <2>1. Worth(paid.acct) + paid.core.burned + paid.left
          = Worth(s.acct) + core.burned + core.worker + core.award
    BY <1>3 DEF Held
  <2>2. supply = core.supply + witness + worker + award
                   - (paid.left + core.fees + s.core.witness)
    BY <1>7
  <2> HIDE DEF supply
  <2> QED
    BY <1>2, <1>4, <1>5, <1>6, <2>1, <2>2
<1>10. n = 1 /\ n \in Nat
  BY <1>5, <1>7 DEF Least
<1>11. none = 0 /\ none \in Int
  OBVIOUS
<1>c. c = NewBudget(paid.core, supply, none, witness, worker, award, now, n)
  OBVIOUS
<1> HIDE DEF supply, n, none, c
<1>12. /\ c \in Core /\ c.supply = supply /\ c.fees = none /\ c.witness = witness
       /\ c.worker = worker /\ c.award = award /\ c.records = n
       /\ c.burned = paid.core.burned
  <2>1. /\ paid.core \in Core /\ supply \in Int /\ none \in Int /\ n \in Nat
        /\ witness \in Int /\ worker \in Int /\ award \in Nat /\ now \in Int
    BY <1>2, <1>6, <1>8, <1>10, <1>11
  <2> QED
    BY ONLY <1>c, <2>1, NewBudgetIs, SMTT(30)
<1>13. /\ StateOK(z) /\ z.acct = paid.acct /\ z.core = c /\ z.head = paid.head
  BY <1>3, <1>12, CoreSet
<1> HIDE DEF z
<1>14. z.core.supply = Worth(z.acct) + z.core.fees + z.core.witness
                         + z.core.worker + z.core.award + z.core.burned
  BY <1>2, <1>6, <1>9, <1>11, <1>12, <1>13
<1>15. z.core.records # 0
  BY <1>10, <1>12, <1>13
<1>16. BudgetsOK(z)
  BY <1>13, <1>14, <1>15 DEF BudgetsOK
<1> QED
  BY <1>1, <1>3, <1>13, <1>16

-----------------------------------------------------------------------------
(***************************************************************************)
(* Blocks.                                                                 *)
(***************************************************************************)
\* Setting the fields of the head block.
LEMMA ElectionSet ==
    ASSUME NEW h \in HeadBlock, NEW next \in Int, NEW height \in Int,
           NEW active \in [Kind -> SUBSET Account], NEW losers \in SUBSET Account
    PROVE  [h EXCEPT !.next = next, !.elected = height, !.active = active,
                     !.losers = losers] \in HeadBlock
BY DEF HeadBlock

\* Setting the fields that every block changes.
LEMMA BlockSet ==
    ASSUME NEW h \in HeadBlock, NEW now \in Int, NEW height \in Int,
           NEW schedule \in SUBSET Account
    PROVE  [h EXCEPT !.time = now, !.height = height, !.schedule = schedule] \in HeadBlock
BY DEF HeadBlock

\* The time of the next maintenance.
LEMMA NextMaintenanceInt ==
    ASSUME IInv, NEW now \in Int
    PROVE  NextMaintenance(now) \in Int
<1>1. head.next \in Int /\ head.height \in Int /\ Interval \in Nat \ {0}
  BY GovernanceConstants DEF IInv, TypeOK, HeadBlock
<1>2. now \div Interval \in Int /\ now - head.next \in Int
  BY <1>1, DivInt
<1>3. (now - head.next) \div Interval \in Int
  BY <1>1, <1>2, DivInt
<1> DEFINE x == now \div Interval
           y == (now - head.next) \div Interval
<1> HIDE DEF x, y
<1>4. (x + 1) * Interval \in Int /\ head.next + (y + 1) * Interval \in Int
  BY <1>1, <1>2, <1>3 DEF x, y
<1> QED
  BY <1>4 DEF NextMaintenance, x, y

\* perform_chain_maintenance() keeps the supply.
LEMMA MaintainOK ==
    ASSUME IInv, NEW s, SignedOK(s), NEW now \in Int, NEW height \in Int, NEW nan
    PROVE  BudgetsOK(Maintain(s, now, height, nan))
<1> DEFINE seats == [k \in Kind |-> Seats(k)]
           losers == Losers(seats)
           next == NextMaintenance(now)
           active == [k \in Kind |-> Winners(seats, k)]
           s1 == ProcessBudget(s, next, seats, losers, now, height, nan)
           h == [s1.head EXCEPT !.next = next, !.elected = height,
                                !.active = active, !.losers = losers]
           r == [s1 EXCEPT !.head = h]
<1>1. Maintain(s, now, height, nan) = r
  BY DEF Maintain
<1>2. SeatsOK(seats)
  BY SeatsType DEF SeatsOK
<1>3. losers \in SUBSET Account /\ losers \subseteq Account
  BY DEF Losers
<1>4. active \in [Kind -> SUBSET Account]
  BY DEF Winners
<1>5. next \in Int
  BY NextMaintenanceInt
<1> HIDE DEF seats, losers, next, active
<1>6. BudgetsOK(s1) /\ s1.head = s.head
  BY <1>2, <1>3, <1>5, ProcessBudgetOK
<1> HIDE DEF s1
<1>7. StateOK(s1) /\ s1.head \in HeadBlock
  BY <1>6 DEF BudgetsOK, StateOK
<1>8. h \in HeadBlock
  BY <1>3, <1>4, <1>5, <1>7, ElectionSet
<1> HIDE DEF h
<1>9. StateOK(r) /\ r.acct = s1.acct /\ r.core = s1.core
  BY <1>7, <1>8, HeadSet
<1> HIDE DEF r
<1> QED
  BY <1>1, <1>6, <1>9 DEF BudgetsOK

\* A block without maintenance keeps it too.
LEMMA SignedBudgets ==
    ASSUME IInv, NEW s, SignedOK(s)
    PROVE  BudgetsOK(s)
<1>1. /\ StateOK(s) /\ s.core.supply = core.supply /\ s.core.fees = core.fees
      /\ s.core.worker = core.worker /\ s.core.award = core.award
      /\ s.core.records = core.records /\ s.core.burned = core.burned
      /\ Worth(s.acct) + s.core.witness = Worth(acct) + core.witness
  BY DEF SignedOK
<1>2. /\ core.supply = Worth(acct) + core.fees + core.witness
                         + core.worker + core.award + core.burned
      /\ core \in Core /\ acct \in Wallets
  BY IInvIs
<1>3. Worth(acct) \in Int /\ Worth(s.acct) \in Int /\ s.core.witness \in Int
  BY <1>1, <1>2, WorthInt, StateInt DEF StateOK, Core
<1>4. /\ core.fees \in Int /\ core.witness \in Int /\ core.worker \in Int
      /\ core.award \in Int /\ core.burned \in Int
  BY <1>2 DEF Core
<1>5. core.records = 0 => core.worker = 0 /\ core.award = 0
  BY DEF IInv, NoBudgetYet
<1>6. s.core.supply = Worth(s.acct) + s.core.fees + s.core.witness
                        + s.core.worker + s.core.award + s.core.burned
  BY <1>1, <1>2, <1>3, <1>4
<1> QED
  BY <1>1, <1>5, <1>6 DEF BudgetsOK

\* _apply_block() of any block.
LEMMA AfterBlockOK ==
    ASSUME IInv, NEW w \in Account, NEW dt \in Nat, NEW nan
    PROVE  BudgetsOK(AfterBlock(w, dt, nan))
<1> DEFINE now == head.time + dt
           height == head.height + 1
           due == head.next <= now
           s == IF due THEN Maintain(Signed(w), now, height, nan) ELSE Signed(w)
           schedule == Schedule(height, s.head.active["witness"])
           h == [s.head EXCEPT !.time = now, !.height = height, !.schedule = schedule]
           q == [s EXCEPT !.due = due]
           r == [q EXCEPT !.head = h]
<1>0. head \in HeadBlock
  BY DEF IInv, TypeOK
<1>1. now \in Int /\ height \in Int
  BY <1>0 DEF HeadBlock
<1>2. AfterBlock(w, dt, nan) = [s EXCEPT !.due = due, !.head = h]
  BY DEF AfterBlock
<1> HIDE DEF now, height, due
<1>3. BudgetsOK(s)
  <2>1. SignedOK(Signed(w))
    BY SignedIs
  <2>2. BudgetsOK(Signed(w))
    BY <2>1, SignedBudgets
  <2>3. BudgetsOK(Maintain(Signed(w), now, height, nan))
    BY <1>1, <2>1, MaintainOK
  <2> QED
    BY <2>2, <2>3
<1> HIDE DEF s
<1>4. StateOK(s) /\ s.head \in HeadBlock
  BY <1>3 DEF BudgetsOK, StateOK
<1>5. schedule \in SUBSET Account
  BY <1>0, <1>4 DEF Schedule, HeadBlock, Kind
<1> HIDE DEF schedule
<1>6. h \in HeadBlock
  BY <1>1, <1>4, <1>5, BlockSet
<1> HIDE DEF h
<1>7. AfterBlock(w, dt, nan) = r
  BY <1>2
<1>8. StateOK(q) /\ q.acct = s.acct /\ q.core = s.core
  BY <1>4, FlagSet
<1> HIDE DEF q
<1>9. StateOK(r) /\ r.acct = q.acct /\ r.core = q.core
  BY <1>6, <1>8, HeadSet
<1> HIDE DEF r
<1> QED
  BY <1>3, <1>7, <1>8, <1>9 DEF BudgetsOK

\* A block is applied, or all but the vectors is undone.
LEMMA ApplyBlockIInv ==
    ASSUME IInv, NEW w \in Account, NEW dt \in 1 .. MaxGap, NEW nan,
           ApplyBlock(w, dt, nan)
    PROVE  IInv'
<1> DEFINE s == AfterBlock(w, dt, nan)
           no == FALSE
           cleared == [k \in Kind |-> [a \in Account |->
                         [cand[k][a] EXCEPT !.changed = no]]]
<1>1. BudgetsOK(s)
  <2>1. dt \in Nat
    BY GovernanceConstants
  <2> QED
    BY <2>1, AfterBlockOK
<1>2. \/ /\ acct' = s.acct /\ core' = s.core /\ workers' = s.workers
         /\ head' = s.head
         /\ cand' = cleared \/ cand' = cand
         /\ refs' = NoRefs \/ refs' = refs
      \/ /\ refs' = Collected
         /\ UNCHANGED <<acct, cand, core, workers, head>>
  BY DEF ApplyBlock
<1> HIDE DEF s
<1>3. CASE /\ refs' = Collected
           /\ UNCHANGED <<acct, cand, core, workers, head>>
  <2>1. TypeOK' /\ NoBudgetYet' /\ CandidatesKnown'
    BY <1>3, CollectedType DEF IInv, TypeOK, NoBudgetYet, CandidatesKnown
  <2>2. acct' = acct /\ cand' = cand /\ core' = core
    BY <1>3
  <2> QED
    BY <2>1, <2>2, IInvIs, NextIInv
<1>4. CASE /\ acct' = s.acct /\ core' = s.core /\ workers' = s.workers
           /\ head' = s.head
           /\ cand' = cleared \/ cand' = cand
           /\ refs' = NoRefs \/ refs' = refs
  <2>1. cand \in Candidates /\ no \in BOOLEAN
    BY IInvIs
  <2> HIDE DEF no
  <2>2. cleared \in Candidates
    BY <2>1 DEF Candidates, Candidate
  <2>3. \A k \in Kind, a \in Account : SameCandidate(cand[k][a], cleared[k][a])
    BY <2>1 DEF Candidates, Candidate, SameCandidate
  <2> HIDE DEF cleared
  <2>4. \A k \in Kind, a \in Account : SameCandidate(cand[k][a], cand[k][a])
    BY DEF SameCandidate
  <2>5. /\ cand' \in Candidates
        /\ \A k \in Kind, a \in Account : SameCandidate(cand[k][a], cand'[k][a])
    BY <1>4, <2>1, <2>2, <2>3, <2>4
  <2>6. refs' \in [Kind -> [Account -> Nat]]
    <3>1. NoRefs \in [Kind -> [Account -> Nat]]
      BY DEF NoRefs
    <3>2. refs \in [Kind -> [Account -> Nat]]
      BY DEF IInv, TypeOK
    <3> QED
      BY <1>4, <3>1, <3>2
  <2>7. StateOK(s)
    BY <1>1 DEF BudgetsOK
  <2>8. TypeOK'
    BY <1>4, <2>5, <2>6, <2>7 DEF TypeOK, StateOK
  <2>9. NoBudgetYet'
    BY <1>1, <1>4 DEF BudgetsOK, NoBudgetYet
  <2>10. CandidatesKnown'
    BY <2>5 DEF IInv, CandidatesKnown, SameCandidate
  <2>11. AllLocksOK(acct', cand') /\ AllVotesOK(acct', cand')
    <3>1. \A a \in Account : /\ SameLocks(acct[a], acct'[a])
                             /\ acct'[a].locked <= acct'[a].bal
      <4>1. ASSUME NEW a \in Account
            PROVE  /\ SameLocks(acct[a], acct'[a])
                   /\ acct'[a].locked <= acct'[a].bal
        <5>1. SameLocks(acct[a], acct'[a]) /\ acct'[a].bal >= acct[a].bal
          BY <1>4, <2>7 DEF StateOK, Richer
        <5>2. acct[a] \in Wallet /\ acct[a].locked <= acct[a].bal
          BY LocksCovered
        <5>3. acct'[a] \in Wallet
          BY <1>4, <2>7 DEF StateOK, Wallets
        <5> QED
          BY <5>1, <5>2, <5>3 DEF SameLocks, Wallet
      <4> QED
        BY <4>1
    <3>2. acct' \in Wallets
      BY <1>4, <2>7 DEF StateOK
    <3> QED
      BY <2>5, <3>1, <3>2, IInvIs, PaymentsOK
  <2>12. core'.supply = Worth(acct') + core'.fees + core'.witness
                          + core'.worker + core'.award + core'.burned
    BY <1>1, <1>4 DEF BudgetsOK
  <2> QED
    BY <2>8, <2>9, <2>10, <2>11, <2>12, NextIInv
<1> QED
  BY <1>2, <1>3, <1>4

-----------------------------------------------------------------------------
(***************************************************************************)
(* The theorems.                                                           *)
(***************************************************************************)
\* Every step keeps the invariant.
LEMMA StepIInv == IInv /\ [Next]_vars => IInv'
<1> SUFFICES ASSUME IInv, [Next]_vars PROVE IInv'
  OBVIOUS
<1>0. Actors \subseteq Account /\ Amounts \subseteq Nat /\ Stakes \subseteq Nat
  BY GovernanceConstants
<1>1. CASE \E a \in Actors, b \in Account, n \in Amounts : Transfer(a, b, n)
  BY <1>0, <1>1, TransferIInv
<1>2. CASE \E a \in Actors, n \in Amounts : PayFee(a, n)
  BY <1>0, <1>2, PayFeeIInv
<1>3. CASE \E a \in Actors, n \in Amounts : VestingWithdraw(a, n)
  BY <1>0, <1>3, VestingWithdrawIInv
<1>4. CASE \E a \in Actors, k \in Kind, n \in Stakes \cup {0} :
             \E S \in SUBSET ({k} \X Account) : AccountUpdate(a, k, S, n)
  <2>1. PICK a \in Actors, k \in Kind, n \in Stakes \cup {0} :
               \E S \in SUBSET ({k} \X Account) : AccountUpdate(a, k, S, n)
    BY <1>4
  <2>2. a \in Account /\ n \in Nat
    BY <1>0
  <2> QED
    BY <2>1, <2>2, AccountUpdateIInv
<1>5. CASE \E k \in Kind, a \in Account : CandidateCreate(k, a)
  BY <1>5, CandidateCreateIInv
<1>6. CASE \E k \in Kind, a \in Account : CandidateUpdate(k, a)
  BY <1>6, CandidateUpdateIInv
<1>7. CASE \E p \in WorkerPlans : WorkerCreate(p)
  BY <1>7, WorkerCreateIInv
<1>8. CASE \E w \in Account, dt \in 1 .. MaxGap, nan \in BOOLEAN : ApplyBlock(w, dt, nan)
  BY <1>8, ApplyBlockIInv
<1>9. CASE UNCHANGED vars
  BY <1>9, StutterIInv
<1> QED
  BY <1>1, <1>2, <1>3, <1>4, <1>5, <1>6, <1>7, <1>8, <1>9 DEF Next

\* The inductive invariant holds throughout.
THEOREM GovernanceInvariant == Spec => []IInv
BY InitIInv, StepIInv, PTL DEF Spec

\* What account_update, witness_update, committee_member_update and the
\* payments of a block do to locked_total leaves it the sum of the locks that
\* still have a reason, and covered by the balance, whatever the constants.
THEOREM LocksAreJustified == Spec => []LocksJustified
<1>1. IInv => LocksJustified
  BY DEF IInv
<1> QED
  BY <1>1, GovernanceInvariant, PTL

\* modify_candidate() keeps the running total of every candidate equal to a
\* recount of the stakes and the freeze, through any history of votes,
\* changes of weight, withdrawals and changes of status.
THEOREM VotesMatchStakes == Spec => []VotesAreStakes
<1>1. IInv => VotesAreStakes
  BY DEF IInv
<1> QED
  BY <1>1, GovernanceInvariant, PTL

\* process_budget(), pay_workers() and pay_candidates() create and destroy
\* nothing that current_supply does not record.
THEOREM SupplyIsAccountedFor == Spec => []SupplyAddsUp
<1>1. IInv => SupplyAddsUp
  BY DEF IInv
<1> QED
  BY <1>1, GovernanceInvariant, PTL
=============================================================================
