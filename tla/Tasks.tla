------------------------------- MODULE Tasks --------------------------------
(***************************************************************************)
(* Agreed tasks: the transactions that the chain itself starts.  A         *)
(* proposal runs once enough accounts have approved of it, a crontab at    *)
(* the times its owner has chosen.  Both are queued as pending             *)
(* transactions when a block has been applied and run in a later block.    *)
(*                                                                         *)
(* Times are kept relative to the head block: a time t here is             *)
(* head_block_time() + t.  CloseBlock(dt) lets dt seconds pass, so a state *)
(* that looks the same later is the same state and behaviours are endless. *)
(*                                                                         *)
(* A pending task is one whose transaction is the current one of its       *)
(* object.  When that changes (another reference block or expiration), the *)
(* one in the queue has another hash and can never run: it leaves the set. *)
(* The operations of a task have no effect but an error or none.           *)
(***************************************************************************)
EXTENDS Integers, FiniteSets

CONSTANTS
    Props,           \* proposal ids
    Crons,           \* crontab ids
    Approvers,       \* who can approve of a proposal,
    Keys,            \* those of them that do so by key_approvals_to_add
    Enough,          \* approvals that the authorities ask for
    Lifetimes,       \* expirations that proposals are created with
    Reviews,         \* review periods; 0 if there is none
    Starts,          \* start and restart times of crontabs
    Intervals,       \* execute_interval
    Repeats,         \* scheduled_execute_times
    MaxPeriod,       \* the 2592000 seconds of crontab_create
    Wrap,            \* 2^32, where time_point_sec wraps
    Threshold,       \* crontab_suspend_threshold
    SuspendedLife,   \* crontab_suspend_expiration
    LifeCycle,       \* min(assigned_task_life_cycle, 7200)
    MaxGap,          \* seconds between two blocks
    Past,            \* bound: times further back are the same
    Never,           \* time_point_sec::maximum()
    MaxUpdates       \* bound: proposal_update operations for a proposal

ASSUME TasksAssumption ==
    /\ Props \cap Crons = {}
    /\ Keys \subseteq Approvers
    /\ Enough \in Nat /\ MaxUpdates \in Nat /\ SuspendedLife \in Nat
    /\ Lifetimes \subseteq Nat \ {0} /\ Reviews \subseteq Nat
    /\ Starts \subseteq Nat \ {0}
    /\ Intervals \subseteq Nat \ {0} /\ Repeats \subseteq Nat \ {0}
    /\ Threshold \in Nat \ {0} /\ MaxGap \in Nat \ {0}
    /\ LifeCycle \in Nat /\ Past \in Nat /\ Past > LifeCycle
    /\ Wrap \in Nat \ {0} /\ MaxPeriod \in Nat /\ Never \in Nat

VARIABLES
    proposal,   \* the proposal objects, by id
    crontab,    \* the crontab objects, by id
    pending,    \* the tasks in _pending_tx, by the id of their object
    \* What has happened to each id:
    used,       \* the ids that were given away
    ran,        \* how often the task has run
    withdrawn,  \* proposals deleted, or short of approvals after an update
    updates,    \* proposal_update operations so far
    streak      \* failures of a crontab since it ran well or was recovered

history == <<used, ran, withdrawn, updates, streak>>
vars == <<proposal, crontab, pending, history>>

Tasks == Props \cup Crons

Without(f, S) == [x \in DOMAIN f \ S |-> f[x]]

With(f, x, v) == [y \in DOMAIN f \cup {x} |-> IF y = x THEN v ELSE f[y]]

Init ==
    /\ proposal = [p \in {} |-> 0]
    /\ crontab = [c \in {} |-> 0]
    /\ pending = {}
    /\ used = {} /\ withdrawn = {}
    /\ ran = [t \in Tasks |-> 0]
    /\ updates = [p \in Props |-> 0]
    /\ streak = [c \in Crons |-> 0]

-----------------------------------------------------------------------------
(***************************************************************************)
(* Proposals.                                                              *)
(***************************************************************************)
\* proposal_create_evaluator.  `deadline' is the expiration it was created
\* with; `review' is review_period_time, Never if there is none.
ProposalCreate(p, life, review) ==
    /\ p \in Props \ used
    /\ review < life
    /\ used' = used \cup {p}
    /\ proposal' = With(proposal, p,
           [ expiration |-> life, deadline |-> life, approvals |-> {},
             review |-> IF review = 0 THEN Never ELSE life - review,
             allow |-> FALSE, txexp |-> life ])
    /\ UNCHANGED <<crontab, pending, ran, withdrawn, updates, streak>>

\* proposal_object::is_authorized_to_execute().
Authorized(approvals) == Cardinality(approvals) >= Enough

\* Mutant: a proposal that was approved stays so.
UpdatedKeepsAllow(old, approvals) ==
    LET exp == IF old.review = Never THEN 0 ELSE old.expiration
        new == [old EXCEPT !.approvals = approvals]
    IN  IF ~Authorized(approvals) THEN new
        ELSE [new EXCEPT !.allow = TRUE, !.expiration = exp,
                         !.txexp = exp + LifeCycle]

\* An approved proposal without review period is due at once.
Updated(old, approvals) ==
    LET exp == IF old.review = Never THEN 0 ELSE old.expiration
        new == [old EXCEPT !.approvals = approvals]
    IN  IF ~Authorized(approvals) THEN [new EXCEPT !.allow = FALSE]
        ELSE [new EXCEPT !.allow = TRUE, !.expiration = exp,
                         !.txexp = exp + LifeCycle]

\* proposal_update_evaluator.  In the review period accounts can add no
\* approval, keys can.  The transaction of an approved proposal refers to the
\* head block, so it changes.
ProposalUpdate(p, add, remove) ==
    LET old == proposal[p]
        approvals == (old.approvals \cup add) \ remove
    IN  /\ p \in DOMAIN proposal
        /\ updates[p] < MaxUpdates
        /\ add \cup remove # {} /\ add \cap remove = {}
        /\ remove \ Keys \subseteq old.approvals
        /\ old.review <= 0 => add \subseteq Keys
        /\ proposal' = [proposal EXCEPT ![p] = Updated(@, approvals)]
        /\ updates' = [updates EXCEPT ![p] = @ + 1]
        /\ IF Authorized(approvals)
           THEN pending' = pending \ {p} /\ withdrawn' = withdrawn \ {p}
           ELSE withdrawn' = withdrawn \cup {p} /\ UNCHANGED pending
        /\ UNCHANGED <<crontab, used, ran, streak>>

\* proposal_delete_evaluator, for an account that must approve.
ProposalDelete(p) ==
    /\ p \in DOMAIN proposal
    /\ proposal' = Without(proposal, {p})
    /\ pending' = pending \ {p}
    /\ withdrawn' = withdrawn \cup {p}
    /\ UNCHANGED <<crontab, used, ran, updates, streak>>

\* _apply_transaction() of a proposal's task.  An operation that fails leaves
\* its error in the result: the transaction is applied in any case.
ExecuteProposal(p) ==
    /\ p \in pending \cap DOMAIN proposal
    /\ proposal[p].expiration <= 0 /\ proposal[p].allow
    /\ proposal' = [proposal EXCEPT ![p].allow = FALSE]
    /\ pending' = pending \ {p}
    /\ ran' = [ran EXCEPT ![p] = @ + 1]
    /\ UNCHANGED <<crontab, used, withdrawn, updates, streak>>

-----------------------------------------------------------------------------
(***************************************************************************)
(* Crontabs.  The number of seconds that is added to a time is taken       *)
(* modulo 2^32.                                                            *)
(***************************************************************************)
Seconds(interval, times) == (interval * times) % Wrap

\* crontab_create_evaluator, for an owner who may do what the task does.
CrontabCreate(c, start, interval, times) ==
    /\ c \in Crons \ used
    /\ start + Seconds(interval, times) <= MaxPeriod
    /\ used' = used \cup {c}
    /\ crontab' = With(crontab, c,
           [ next |-> start, expiration |-> start + Seconds(interval, times),
             interval |-> interval, times |-> times, done |-> 0, fails |-> 0,
             suspended |-> FALSE, txexp |-> start + LifeCycle ])
    /\ UNCHANGED <<proposal, pending, ran, withdrawn, updates, streak>>

\* crontab_cancel_evaluator, for the owner.
CrontabCancel(c) ==
    /\ c \in DOMAIN crontab
    /\ crontab' = Without(crontab, {c})
    /\ pending' = pending \ {c}
    /\ UNCHANGED <<proposal, history>>

\* Mutant: the crontab gets its whole period again.
RecoveredWhole(old, restart) ==
    [old EXCEPT
        !.suspended = FALSE, !.fails = 0, !.next = restart,
        !.expiration = restart + Seconds(old.interval, old.times),
        !.txexp = restart + LifeCycle]

Recovered(old, restart) ==
    [old EXCEPT
        !.suspended = FALSE, !.fails = 0, !.next = restart,
        !.expiration = restart + Seconds(old.interval, old.times - old.done),
        !.txexp = restart + LifeCycle]

\* crontab_recover_evaluator, for the owner, whether it is suspended or not.
CrontabRecover(c, restart) ==
    /\ c \in DOMAIN crontab
    /\ crontab' = [crontab EXCEPT ![c] = Recovered(@, restart)]
    /\ pending' = pending \ {c}
    /\ streak' = [streak EXCEPT ![c] = 0]
    /\ UNCHANGED <<proposal, used, ran, withdrawn, updates>>

\* A crontab after its transaction was applied.
Advanced(old) ==
    LET next == Seconds(old.interval, 1)
    IN  [old EXCEPT !.next = next,
                    !.expiration = Seconds(old.interval, old.times - old.done),
                    !.done = @ + 1,
                    !.txexp = next + LifeCycle]

\* Mutant: an operation that succeeds leaves the count of failures.
OutcomeNoReset(c, error) ==
    IF c.done >= c.times \/ ~error THEN c
    ELSE IF c.fails + 1 = Threshold
    THEN [c EXCEPT !.fails = @ + 1, !.suspended = TRUE, !.next = Never,
                   !.expiration = SuspendedLife]
    ELSE [c EXCEPT !.fails = @ + 1]

\* What an error in its operations, or none, does to a crontab.
Outcome(c, error) ==
    IF c.done >= c.times THEN c
    ELSE IF ~error THEN [c EXCEPT !.fails = 0]
    ELSE IF c.fails + 1 = Threshold
    THEN [c EXCEPT !.fails = @ + 1, !.suspended = TRUE, !.next = Never,
                   !.expiration = SuspendedLife]
    ELSE [c EXCEPT !.fails = @ + 1]

\* _apply_transaction() of a crontab's task.
ExecuteCrontab(c, error) ==
    /\ c \in pending \cap DOMAIN crontab
    /\ crontab[c].next <= 0
    /\ crontab' = [crontab EXCEPT ![c] = Outcome(Advanced(@), error)]
    /\ pending' = pending \ {c}
    /\ ran' = [ran EXCEPT ![c] = @ + 1]
    /\ streak' = [streak EXCEPT ![c] = IF error THEN @ + 1 ELSE 0]
    /\ UNCHANGED <<proposal, used, withdrawn, updates>>

-----------------------------------------------------------------------------
(***************************************************************************)
(* The end of a block: the head moves on, what has expired is removed, and *)
(* pending_transactions_restorer queues the tasks that are due.            *)
(***************************************************************************)
Later(t, dt) ==
    IF t = Never THEN Never ELSE IF t - dt < -Past THEN -Past ELSE t - dt

AgedProposal(o, dt) ==
    [o EXCEPT !.expiration = Later(@, dt), !.deadline = Later(@, dt),
              !.review = Later(@, dt), !.txexp = Later(@, dt)]

AgedCrontab(o, dt) ==
    [o EXCEPT !.next = Later(@, dt), !.expiration = Later(@, dt),
              !.txexp = Later(@, dt)]

\* Mutant: what has expired is removed, approved or not.
ExpiredProposalsAll(f) == { p \in DOMAIN f : f[p].expiration <= 0 }

\* clear_expired_proposals() and clear_expired_timed_task() remove these.
ExpiredProposals(f) ==
    { p \in DOMAIN f : ~f[p].allow /\ f[p].expiration <= 0 }

ExpiredCrontabs(f) == { c \in DOMAIN f : f[c].expiration <= 0 }

\* re_push of what was queued before.
Repushed(q, ps, cs) ==
    { p \in q \cap DOMAIN ps : ps[p].txexp >= 0 }
        \cup { c \in q \cap DOMAIN cs : cs[c].txexp >= 0 }

DueProposals(f) == { p \in DOMAIN f : f[p].allow /\ f[p].expiration <= 0 }

DueCrontabs(f) == { c \in DOMAIN f : ~f[c].suspended /\ f[c].next <= 0 }

\* The loop over by_expiration_and_isruning: proposals that are queued are
\* passed over.  One that is pushed is no longer allowed to run, so its node
\* moves into the range before, and the iterator goes on from there: to a
\* proposal that lacks approvals, if there is one, which has not expired and
\* so ends the loop; and otherwise to the first approved one again.
TakenProposals(f, q) ==
    LET due == DueProposals(f) \ q
        first == { p \in due : \A r \in due :
                                   f[p].expiration <= f[r].expiration }
    IN  IF due # {} /\ \E r \in DOMAIN f : ~f[r].allow
        THEN { {p} : p \in first }
        ELSE {due}

\* The loop over by_susupend_status_and_next_execute_time: the node of a
\* crontab that is pushed moves past those that are due, which ends the loop.
TakenCrontabs(f, q) ==
    LET due == DueCrontabs(f) \ q
        first == { c \in due : \A r \in due : f[c].next <= f[r].next }
    IN  IF due = {} THEN {{}} ELSE { {c} : c \in first }

CloseBlock(dt) ==
    LET ps == [p \in DOMAIN proposal |-> AgedProposal(proposal[p], dt)]
        cs == [c \in DOMAIN crontab |-> AgedCrontab(crontab[c], dt)]
    IN  /\ proposal' = Without(ps, ExpiredProposals(ps))
        /\ crontab' = Without(cs, ExpiredCrontabs(cs))
        /\ LET q == Repushed(pending, proposal', crontab')
           IN  \E tp \in TakenProposals(proposal', q),
                  tc \in TakenCrontabs(crontab', q) :
                   pending' = q \cup tp \cup tc
        /\ UNCHANGED history

NextBlock == \E dt \in 1 .. MaxGap : CloseBlock(dt)

Execute(t) ==
    \/ ExecuteProposal(t)
    \/ \E error \in BOOLEAN : ExecuteCrontab(t, error)

Next ==
    \/ \E p \in Props :
        \/ \E life \in Lifetimes, review \in Reviews :
               ProposalCreate(p, life, review)
        \/ \E add, remove \in SUBSET Approvers : ProposalUpdate(p, add, remove)
        \/ ProposalDelete(p)
    \/ \E c \in Crons :
        \/ \E start \in Starts, interval \in Intervals, times \in Repeats :
               CrontabCreate(c, start, interval, times)
        \/ CrontabCancel(c)
        \/ \E restart \in Starts : CrontabRecover(c, restart)
    \/ \E t \in Tasks : Execute(t)
    \/ NextBlock

\* The witnesses go on producing blocks, and a task that stays pending gets
\* into one.
Spec ==
    /\ Init /\ [][Next]_vars
    /\ WF_vars(NextBlock)
    /\ \A t \in Tasks : WF_vars(Execute(t))

-----------------------------------------------------------------------------
(***************************************************************************)
(* Properties.                                                             *)
(***************************************************************************)
\* No crontab runs more often than it was scheduled, however it is suspended,
\* recovered and delayed: once it has run that often, it expires before it is
\* due again.
CrontabsBounded ==
    \A c \in DOMAIN crontab :
        /\ ran[c] = crontab[c].done
        /\ ran[c] <= crontab[c].times

\* A crontab is suspended when it has failed Threshold times in a row, unless
\* it was its last time, and only then; while it is, it is never queued.
SuspendedForFailures ==
    \A c \in DOMAIN crontab :
        /\ crontab[c].suspended => streak[c] = Threshold /\ c \notin pending
        /\ streak[c] >= Threshold /\ crontab[c].done < crontab[c].times
               => crontab[c].suspended

\* A proposal runs only with the approvals that its authorities ask for: the
\* approvals of the block that runs it, not those it was queued with; and
\* "Proposals with a review period may never be executed except at their
\* expiration."
RunsWithApprovals ==
    [][\A p \in Props : ran'[p] # ran[p] =>
          /\ Authorized(proposal[p].approvals)
          /\ proposal[p].review = Never \/ proposal[p].deadline <= 0]_vars

\* An approved proposal that is due runs, unless it is withdrawn: it is not
\* removed as expired, and no other proposal keeps it out of the queue.
ApprovedRun ==
    \A p \in Props :
        p \in DueProposals(proposal) ~> ran[p] > 0 \/ p \in withdrawn

\* "The first time the proposed transaction succeeds, the proposal will be
\* regarded as resolved, and all future updates will be invalid."
ProposalsRunOnce == \A p \in Props : ran[p] <= 1
=============================================================================
