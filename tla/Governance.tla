----------------------------- MODULE Governance -----------------------------
(***************************************************************************)
(* Stakes and votes, the election of witnesses and committee members, and  *)
(* the budget of the chain: account_evaluator.cpp, witness_evaluator.cpp,  *)
(* committee_member_evaluator.cpp, worker_evaluator.cpp, db_balance.cpp,   *)
(* db_maint.cpp and the parts of db_update.cpp and db_witness_schedule.cpp *)
(* that belong to them.                                                    *)
(*                                                                         *)
(* All amounts are of the core asset.  A vote is a pair <<kind, account>>; *)
(* a block is one step, with the maintenance it performs when that is due. *)
(* The parameters of the chain stay as they are.                           *)
(***************************************************************************)
EXTENDS Integers, Sequences, FiniteSets, FiniteSetsExt

CONSTANTS
  NumAccounts,     \* the accounts are 1 .. NumAccounts
  Initial,         \* the candidates of the genesis state, of either kind
  Funds,           \* what each account starts with
  MaxSupply,       \* max_supply of the core asset at the start
  Freeze,          \* candidate_freeze of each kind
  Elected,         \* number_of_election of each kind
  MinWorking,      \* min_witness_count, min_committee_member_count
  MaxVotes,        \* witness_max_votes, committee_max_votes
  Actors,          \* the accounts that transfer, pay fees and vote
  Stakes,          \* amounts that are locked with votes
  Amounts,         \* amounts that are transferred or paid as fees
  WorkerPlans,     \* the workers that may be proposed
  MaxWorkers,      \* at most two: see PayWorkers
  PayPerBlock,     \* witness_pay_per_block
  WorkerPerDay,    \* worker_budget_per_day
  Award,           \* candidate_award_budget
  CommitteePct,    \* committee_percent_of_candidate_award
  LoserPct,        \* unsuccessful_candidates_percent
  CycleRate, CycleUnit,  \* the reserve that a unit of time releases
  Interval,        \* maintenance_interval
  Day,             \* units of time in a day
  DiffPoint,       \* last height at which losers get equal shares
  Word,            \* an unsigned integer is below it
  MaxGap,          \* bound on the time between two blocks
  MaxTime,         \* bound on time
  MaxRefs,         \* bound on what failed maintenances leave behind
  MaxOps           \* bound on the operations of a history

Kind == {"witness", "committee"}
Account == 1 .. NumAccounts
Plan == [type : {"vesting", "burn", "issuance", "destroy"}, to : Account,
         daily : Nat, begin : Nat, end : Nat]

ASSUME GovernanceConstants ==
  /\ {NumAccounts, Funds, MaxSupply, PayPerBlock, WorkerPerDay, Award} \subseteq Nat
  /\ {CycleRate, MaxTime, MaxRefs, MaxOps, DiffPoint} \subseteq Nat
  /\ Initial \subseteq Account /\ Actors \subseteq Account
  /\ Stakes \subseteq Nat /\ Amounts \subseteq Nat
  /\ WorkerPlans \subseteq Plan
  /\ {CycleUnit, Interval, Day, Word, MaxGap} \subseteq Nat \ {0}
  /\ Funds * NumAccounts <= MaxSupply
  /\ MaxWorkers \in 0 .. 2
  /\ CommitteePct \in 0 .. 100 /\ LoserPct \in 0 .. 100
  /\ \A k \in Kind : /\ Freeze[k] \in Nat \ {0}
                     \* A single winner would be dropped: see Winners.
                     /\ Elected[k] \in Nat \ {0, 1}
                     /\ MinWorking[k] \in 2 .. Cardinality(Initial)
  /\ Freeze["witness"] + Freeze["committee"] <= Funds

VARIABLES
  acct,    \* balance, locks and votes of each account
  cand,    \* the candidates of each kind
  core,    \* supply, fees and budgets of the core asset
  workers, \* the workers, in the order of their creation
  head,    \* the last block and what it elected
  refs,    \* how often _witness_refs and _committee_refs, which no undo
           \* restores, hold each candidate
  ops      \* how many operations there were

vars == <<acct, cand, core, workers, head, refs, ops>>

Least(a, b) == IF a <= b THEN a ELSE b

\* The sums of f[a] over the accounts a up to n, for each n, and over all.
Partial(f) ==
  LET upto[n \in 0 .. NumAccounts] == IF n = 0 THEN 0 ELSE upto[n - 1] + f[n]
  IN upto
Total(f) == Partial(f)[NumAccounts]

-----------------------------------------------------------------------------
(* Balances.                                                               *)

\* adjust_balance() with a negative amount: what is locked stays.
CanPay(a, n) == acct[a].bal - n >= acct[a].locked
Covered(account) == account.locked \in 0 .. account.bal   \* assert_balance()

NoRefs == [k \in Kind |-> [a \in Account |-> 0]]
NotKnown == [id |-> 0, working |-> FALSE, votes |-> 0, changed |-> FALSE]

Init ==
  /\ acct = [a \in Account |->
       [bal |-> Funds, vest |-> 0, votes |-> {},
        locked |-> IF a \in Initial THEN Freeze["witness"] + Freeze["committee"]
                   ELSE 0,
        frozen |-> [k \in Kind |-> IF a \in Initial THEN Freeze[k] ELSE 0],
        stake |-> [k \in Kind |-> 0]]]
  /\ cand = [k \in Kind |-> [a \in Account |->
       IF a \in Initial
       THEN [id |-> Cardinality({b \in Initial : b <= a}), working |-> TRUE, votes |-> Freeze[k], changed |-> TRUE]
       ELSE NotKnown]]
  /\ core = [supply |-> Funds * NumAccounts, max |-> MaxSupply, fees |-> 0,
             witness |-> 0, records |-> 0, worker |-> 0, award |-> 0,
             burned |-> 0, lastBudget |-> 0]
  /\ workers = <<>>
  /\ head = [time |-> 0, height |-> 0, next |-> 0, elected |-> 0,
             active |-> [k \in Kind |-> Initial], schedule |-> Initial,
             losers |-> {}]
  /\ refs = NoRefs
  /\ ops = 0

\* An operation between two blocks.
Operation ==
  /\ ops < MaxOps
  /\ ops' = ops + 1
  /\ UNCHANGED <<head, refs>>

Transfer(a, b, n) ==
  /\ Operation
  /\ a # b
  /\ CanPay(a, n)
  /\ acct' = [acct EXCEPT ![a].bal = @ - n, ![b].bal = @ + n]
  /\ UNCHANGED <<cand, core, workers>>

PayFee(a, n) ==
  /\ Operation
  /\ CanPay(a, n)
  /\ acct' = [acct EXCEPT ![a].bal = @ - n]
  /\ core' = [core EXCEPT !.fees = @ + n]
  /\ UNCHANGED <<cand, workers>>

\* The policies of the vesting balances only say when this may happen.
VestingWithdraw(a, n) ==
  /\ Operation
  /\ n <= acct[a].vest
  /\ acct' = [acct EXCEPT ![a].vest = @ - n, ![a].bal = @ + n]
  /\ UNCHANGED <<cand, core, workers>>

-----------------------------------------------------------------------------
(* Votes.                                                                  *)

VotesOf(a, k) == {v \in acct[a].votes : v[1] = k}

\* Mutant: a candidate who keeps an account's vote keeps its old weight.
TallyOldWeight(c, v, S, old, n, held) ==
  IF v \in S \ old THEN c + n ELSE IF v \in old \ S THEN c - held ELSE c

\* modify_candidate(): what a vote of weight n does to the total c of
\* candidate v, when the account voted for `old' with weight `held' before.
Tally(c, v, S, old, n, held) ==
  CASE v \in S \ old -> c + n
    [] v \in S \cap old -> c + (IF held > 0 THEN n - held ELSE 0)
    [] v \in old \ S -> c - held
    [] OTHER -> c

\* Mutant: what is no longer locked stays in the balance and is paid out too.
RestakedTwice(account, k, n) ==
  LET held == account.stake[k]
  IN [account EXCEPT !.stake[k] = n, !.locked = @ + n - held,
                     !.vest = @ + (IF n < held THEN held - n ELSE 0)]

\* The locks of an account that votes with n for candidates of kind k: what
\* it takes back goes to a vesting balance.
Restaked(account, k, n) ==
  LET held == account.stake[k]
      back == IF n < held THEN held - n ELSE 0
  IN [account EXCEPT !.stake[k] = n, !.locked = @ + n - held,
                     !.vest = @ + back, !.bal = @ - back]

\* account_update with lock_with_vote: n is 0 if and only if S is empty.
AccountUpdate(a, k, S, n) ==
  LET old == VotesOf(a, k)
      new == Restaked(acct[a], k, n)
  IN /\ Operation
     /\ n = 0 <=> S = {}
     /\ Cardinality(S) <= MaxVotes[k]
     /\ \A v \in S : cand[k][v[2]].id > 0
     /\ Covered(new)
     /\ acct' = [acct EXCEPT ![a] = [new EXCEPT !.votes = (@ \ old) \cup S]]
     /\ cand' = [cand EXCEPT ![k] = [b \in Account |-> [cand[k][b] EXCEPT !.votes =
                   Tally(@, <<k, b>>, S, old, n, acct[a].stake[k])]]]
     /\ UNCHANGED <<core, workers>>

-----------------------------------------------------------------------------
(* Candidates.                                                             *)

Working(k) == {a \in Account : cand[k][a].working}

\* A change of work_status: the freeze is locked and counts as votes.
SetStatus(k, a, on, id) ==
  /\ acct' = [acct EXCEPT ![a].locked = @ + (IF on THEN Freeze[k] ELSE -acct[a].frozen[k]),
                          ![a].frozen[k] = IF on THEN Freeze[k] ELSE 0]
  /\ cand' = [cand EXCEPT ![k][a] =
       [id |-> id, working |-> on, changed |-> TRUE,
        votes |-> @.votes + (IF on THEN Freeze[k] ELSE -acct[a].frozen[k])]]
  /\ Covered(acct'[a])

\* witness_create, committee_member_create.
CandidateCreate(k, a) ==
  /\ Operation
  /\ cand[k][a].id = 0
  /\ acct[a].bal >= Freeze[k]
  /\ SetStatus(k, a, TRUE, 1 + Cardinality({b \in Account : cand[k][b].id > 0}))
  /\ UNCHANGED <<core, workers>>

\* Mutant: the status can be changed twice between two maintenances, and an
\* account that stops keeps its freeze.
UpdateUnguarded(k, a) ==
  /\ Operation
  /\ cand[k][a].id > 0
  /\ cand' = [cand EXCEPT ![k][a].working = ~@, ![k][a].votes =
                @ + (IF cand[k][a].working THEN -Freeze[k] ELSE Freeze[k])]
  /\ acct' = [acct EXCEPT ![a].frozen[k] = Freeze[k]]
  /\ UNCHANGED <<core, workers>>

\* witness_update, committee_member_update with another work_status.
CandidateUpdate(k, a) ==
  /\ Operation
  /\ cand[k][a].id > 0
  /\ ~cand[k][a].changed
  /\ k = "committee" => acct[a].bal >= Freeze[k]
  /\ cand[k][a].working => MinWorking[k] < Cardinality(Working(k))
  /\ SetStatus(k, a, ~cand[k][a].working, cand[k][a].id)
  /\ UNCHANGED <<core, workers>>

WorkerCreate(p) ==
  /\ Operation
  /\ Len(workers) < MaxWorkers
  /\ p.begin >= head.time
  /\ workers' = Append(workers, [plan |-> p, completed |-> FALSE])
  /\ UNCHANGED <<acct, cand, core>>

-----------------------------------------------------------------------------
(* Elections.                                                              *)

\* What the vectors hold when they are sorted: normally nothing but the working
\* candidates that are appended to them now.  Equal elements stand together in
\* the sorted vector, so it is given by how often it holds each candidate.
Count(k, a) == refs[k][a] + (IF cand[k][a].working THEN 1 ELSE 0)
Collected == [k \in Kind |-> [a \in Account |-> Count(k, a)]]

\* sort_votable_objects().
Before(k, a, b) ==
  \/ cand[k][a].votes > cand[k][b].votes
  \/ cand[k][a].votes = cand[k][b].votes /\ cand[k][a].id < cand[k][b].id

\* Mutant: candidates are ranked by their ids.
PlaceById(k, a) ==
  Total([b \in Account |-> IF cand[k][b].id < cand[k][a].id THEN Count(k, b) ELSE 0])

\* How many elements of the sorted vector come before candidate a.
Place(k, a) ==
  Total([b \in Account |-> IF Before(k, b, a) THEN Count(k, b) ELSE 0])

\* How many there are of each candidate among the first.  A single winner is
\* dropped ("size() / 2 == 0").
Seats(k) ==
  LET n == Least(Elected[k], Total(Collected[k]))
      open == IF n \div 2 = 0 THEN n - 1 ELSE n
      Taken(before, count) == IF before >= open THEN 0 ELSE Least(count, open - before)
  IN [a \in Account |-> Taken(Place(k, a), Count(k, a))]

Winners(seats, k) == {a \in Account : seats[k][a] > 0}

\* vote_result: those who are elected in neither kind.
Losers(seats) ==
  {a \in Account : /\ \E k \in Kind : Count(k, a) > 0
                   /\ \A k \in Kind : seats[k][a] = 0}

\* vote_counter::finish().
Threshold(k, seats) ==
  Total([a \in Account |-> seats[k][a] * cand[k][a].votes]) \div 2 + 1

-----------------------------------------------------------------------------
(* Budgets.                                                                *)

\* The votes of a loser beyond the freeze, as a witness or else as a
\* committee member, in unsigned integers: a failed maintenance may have left
\* a candidate behind that does not work, and has no freeze, any more.
Extra(k, a) ==
  IF Count(k, a) > 0 THEN (cand[k][a].votes - Freeze[k]) % Word ELSE 0
LoserVotes(a) ==
  IF Extra("witness", a) > 0 THEN Extra("witness", a) ELSE Extra("committee", a)

AllLoserVotes(losers) ==
  Total([a \in Account |-> IF a \in losers THEN LoserVotes(a) ELSE 0]) % Word

\* The part of `amount' that an elected candidate gets.
WinnerShare(seats, k, a, amount, threshold) ==
  IF seats[k][a] > 0 THEN (cand[k][a].votes * amount) \div (2 * threshold)
  ELSE 0

\* The part of `amount' that a candidate gets who is not elected.
LoserShare(losers, a, amount, height, votes) ==
  IF a \notin losers THEN 0
  ELSE IF height <= DiffPoint THEN amount \div Cardinality(losers)
  ELSE IF votes = 0 THEN 0
  ELSE (amount * LoserVotes(a)) \div votes

\* What pay_candidates() pays to each account.
Shares(budget, seats, losers, height) ==
  LET committee == (budget * CommitteePct) \div 100
      forLosers == ((budget - committee) * LoserPct) \div 100
      witness == budget - committee - forLosers
      half1 == Threshold("committee", seats)
      half2 == Threshold("witness", seats)
      votes == AllLoserVotes(losers)
  IN [a \in Account |->
        WinnerShare(seats, "committee", a, committee, half1)
          + WinnerShare(seats, "witness", a, witness, half2)
          + LoserShare(losers, a, forLosers, height, votes)]

\* pay_candidates().  When no loser has a vote, their shares are 0 / 0, and
\* the conversion of that to an integer is undefined: it yields 0 or the
\* smallest integer, with which adjust_balance() fails (`nan').
PayCandidates(s, budget, seats, losers, height, nan) ==
  LET share == Shares(budget, seats, losers, height)
  IN [s EXCEPT !.acct = [a \in Account |-> [s.acct[a] EXCEPT !.bal = @ + share[a]]],
               !.left = @ + budget - Total(share),
               !.ok = @ /\ ~(nan /\ height > DiffPoint /\ losers # {}
                             /\ AllLoserVotes(losers) = 0)]

MintingWorker(w) == w.plan.type \in {"issuance", "destroy"}

\* pay_worker() of one active worker, out of what is left of the budget.
PayWorker(s, w, elapsed) ==
  LET pay == Least(s.left, (w.plan.daily * elapsed) \div Day)
      type == w.plan.type
      paid == IF MintingWorker(w) THEN s ELSE [s EXCEPT !.left = @ - pay]
  IN IF s.left <= 0 /\ ~MintingWorker(w) THEN s
     ELSE CASE type = "vesting" -> [paid EXCEPT !.acct[w.plan.to].vest = @ + pay]
            [] type = "burn" -> [paid EXCEPT !.core.burned = @ + pay]
            [] type = "issuance" -> [paid EXCEPT !.core.max = @ + pay]
            [] type = "destroy" -> [paid EXCEPT !.core.max = @ - pay,
                                      !.ok = @ /\ s.core.max - s.core.supply >= pay]

\* pay_workers().  A worker at its end date is marked as completed, which
\* moves it to the other end of the index that the loop is walking: those
\* after it are not looked at, and everyone is paid up to that date only.
\* With a third worker the loop could run past the end of the index.
PayWorkers(s, now) ==
  LET ended == {i \in DOMAIN workers : ~workers[i].completed /\ workers[i].plan.end <= now}
      until == IF ended = {} THEN now ELSE workers[Min(ended)].plan.end
      Due(i) == /\ ~workers[i].completed
                /\ now \in workers[i].plan.begin .. workers[i].plan.end
                /\ \A j \in ended : i < j
      Turn(r, i) == IF i \in DOMAIN workers /\ Due(i)
                    THEN PayWorker(r, workers[i], until - core.lastBudget) ELSE r
      paid == Turn(Turn(s, 1), 2)
  IN IF ended = {} THEN paid
     ELSE [paid EXCEPT !.workers[Min(ended)].completed = TRUE]

\* initialize_budget_record().
TotalBudget(c, now) ==
  LET reserve == c.max - c.supply + c.fees
      dt == now - c.lastBudget
      released == ((reserve + c.witness) * dt * CycleRate + CycleUnit - 1) \div CycleUnit
  IN IF c.lastBudget = 0 \/ dt <= 0 THEN reserve
     ELSE Least(reserve + c.witness, released)

\* process_budget(): the budgets of this interval, and what is left of those
\* of the last one, out of which workers and candidates are paid now.
ProcessBudget(s, next, seats, losers, now, height, nan) ==
  LET total == TotalBudget(s.core, now)
      witness == Least(PayPerBlock * (next - now), total)
      worker == Least((WorkerPerDay * (next - now)) \div Day, total - witness)
      award == Least(Award, total - witness - worker)
      s1 == PayWorkers([s EXCEPT !.left = core.worker], now)
      s2 == PayCandidates(s1, core.award, seats, losers, height, nan)
      paid == IF core.records = 0 THEN s ELSE s2
  IN [paid EXCEPT !.core =
       [paid.core EXCEPT !.supply = @ + witness + worker + award
                              - (paid.left + core.fees + s.core.witness),
                 !.fees = 0, !.witness = witness, !.worker = worker,
                 !.award = award, !.lastBudget = now, !.records = Least(@ + 1, 1)]]

-----------------------------------------------------------------------------
(* Blocks.                                                                 *)

\* The first block, and any block after a gap, find the first multiple of the
\* interval that is in the future.
NextMaintenance(now) ==
  IF head.height = 0 THEN (now \div Interval + 1) * Interval
  ELSE head.next + ((now - head.next) \div Interval + 1) * Interval

\* update_signing_witness().
Signed(w) ==
  LET pay == Least(PayPerBlock, core.witness)
  IN [acct |-> [acct EXCEPT ![w].vest = @ + pay],
      core |-> [core EXCEPT !.witness = @ - pay],
      workers |-> workers, head |-> head, due |-> FALSE, left |-> 0, ok |-> TRUE]

\* update_witness_schedule(), without the order of the slots.
Schedule(height, active) ==
  IF height % Cardinality(active) = 0 THEN active ELSE head.schedule

\* perform_chain_maintenance() in a block at time `now'.
Maintain(s, now, height, nan) ==
  LET seats == [k \in Kind |-> Seats(k)]
      losers == Losers(seats)
      next == NextMaintenance(now)
      active == [k \in Kind |-> Winners(seats, k)]
      s1 == ProcessBudget(s, next, seats, losers, now, height, nan)
  IN [s1 EXCEPT !.head = [s1.head EXCEPT !.next = next, !.elected = height,
                                         !.active = active, !.losers = losers]]

\* _apply_block() of a block that witness w signs, dt after the last one.
AfterBlock(w, dt, nan) ==
  LET now == head.time + dt
      height == head.height + 1
      due == head.next <= now
      s == IF due THEN Maintain(Signed(w), now, height, nan) ELSE Signed(w)
  IN [s EXCEPT !.due = due,
               !.head = [s.head EXCEPT !.time = now, !.height = height,
                 !.schedule = Schedule(height, s.head.active["witness"])]]

\* If the maintenance fails, the whole block is undone, but not the vectors.
ApplyBlock(w, dt, nan) ==
  /\ head.time + dt <= MaxTime
  /\ w \in head.schedule
  /\ \E s \in {AfterBlock(w, dt, nan)} :
       \/ /\ s.ok
          /\ acct' = s.acct /\ core' = s.core /\ workers' = s.workers
          /\ head' = s.head
          /\ cand' = IF s.due THEN [k \in Kind |-> [a \in Account |->
                                      [cand[k][a] EXCEPT !.changed = FALSE]]]
                     ELSE cand
          /\ refs' = IF s.due THEN NoRefs ELSE refs
          /\ UNCHANGED ops
       \/ /\ ~s.ok
          /\ refs' = Collected
          /\ \A k \in Kind : Total(refs'[k]) <= MaxRefs
          /\ UNCHANGED <<acct, cand, core, workers, head, ops>>

Next ==
  \/ \E a \in Actors, b \in Account, n \in Amounts : Transfer(a, b, n)
  \/ \E a \in Actors, n \in Amounts : PayFee(a, n)
  \/ \E a \in Actors, n \in Amounts : VestingWithdraw(a, n)
  \/ \E a \in Actors, k \in Kind, n \in Stakes \cup {0} :
       \E S \in SUBSET ({k} \X Account) : AccountUpdate(a, k, S, n)
  \/ \E k \in Kind, a \in Account : CandidateCreate(k, a)
  \/ \E k \in Kind, a \in Account : CandidateUpdate(k, a)
  \/ \E p \in WorkerPlans : WorkerCreate(p)
  \/ \E w \in Account, dt \in 1 .. MaxGap, nan \in BOOLEAN : ApplyBlock(w, dt, nan)

Spec == Init /\ [][Next]_vars

-----------------------------------------------------------------------------
(* Properties.                                                             *)

\* What accounts, fees and open budgets hold adds up to current_supply.
SupplyAddsUp ==
  core.supply = Total([a \in Account |-> acct[a].bal + acct[a].vest])
                  + core.fees + core.witness + core.worker + core.award + core.burned

\* current_supply is what there is: through fees, pay, burning, elections and
\* budgets that are drawn from the reserve and returned to it, the balances,
\* the vesting balances, the fees and the open budgets add up to it.  It never
\* exceeds max_supply, although budgets are computed before workers change that.
SupplyConserved == SupplyAddsUp /\ core.supply <= core.max

\* locked_total is the sum of an account's locks, each of which is there as
\* long as its reason: the freeze while the candidate works, the stake while
\* the account votes with it; and the balance covers it.
LocksJustified ==
  \A a \in Account :
    /\ acct[a].locked = acct[a].frozen["witness"] + acct[a].stake["witness"]
                          + acct[a].frozen["committee"] + acct[a].stake["committee"]
    /\ acct[a].locked <= acct[a].bal
    /\ \A k \in Kind : /\ acct[a].frozen[k] > 0 <=> cand[k][a].working
                       /\ acct[a].stake[k] > 0 <=> VotesOf(a, k) # {}

\* total_votes of a candidate is the stake of those who vote for it, plus its
\* own freeze: no sequence of votes, changes of weight, withdrawals and
\* changes of status makes the running total differ from a recount.
VotesAreStakes ==
  \A k \in Kind, b \in Account :
    cand[k][b].votes =
      Total([a \in Account |-> IF <<k, b>> \in acct[a].votes THEN acct[a].stake[k] ELSE 0])
        + acct[b].frozen[k]

\* Unless a maintenance has failed before, those elected are working and no
\* working candidate with more votes is left out.
ElectionFair ==
  [][\A k \in Kind :
       head'.elected # head.elected /\ refs[k] = NoRefs[k] =>
         /\ head'.active[k] \subseteq Working(k)
         /\ Cardinality(head'.active[k]) = Least(Elected[k], Cardinality(Working(k)))
         /\ \A a \in head'.active[k], b \in Working(k) \ head'.active[k] :
              Before(k, a, b)]_vars
=============================================================================
