---------------------------- MODULE Tasks_proofs ----------------------------
(***************************************************************************)
(* Proofs about agreed tasks, for any numbers of proposals and crontabs,   *)
(* any schedules and any threshold.                                        *)
(***************************************************************************)
EXTENDS Tasks, TLAPS

proposal_object ==
    [ expiration : Int, deadline : Int, approvals : SUBSET Approvers,
      review : Int, allow : BOOLEAN, txexp : Int ]

crontab_object ==
    [ next : Int, expiration : Int, interval : Nat, times : Nat, done : Nat,
      fails : Nat, suspended : BOOLEAN, txexp : Int ]

\* The types; an id that was not given away has no object and no history.
TypeOK ==
    /\ proposal \in [DOMAIN proposal -> proposal_object]
    /\ crontab \in [DOMAIN crontab -> crontab_object]
    /\ DOMAIN proposal \subseteq used \cap Props
    /\ DOMAIN crontab \subseteq used \cap Crons
    /\ pending \subseteq Tasks /\ used \subseteq Tasks
    /\ withdrawn \subseteq Props
    /\ ran \in [Tasks -> Nat]
    /\ updates \in [Props -> Nat]
    /\ streak \in [Crons -> Nat]
    /\ \A c \in Crons \ used : ran[c] = 0 /\ streak[c] = 0

\* A crontab that has run as often as it was scheduled is due when it expires,
\* and is not queued; until then its counter of failures is what the property
\* calls its streak.
CrontabOK(c) ==
    LET o == crontab[c]
    IN  /\ ran[c] = o.done
        /\ o.done <= o.times
        /\ o.done = o.times => o.next = o.expiration /\ c \notin pending
        /\ o.done < o.times => o.fails = streak[c]
        /\ o.done < o.times /\ ~o.suspended => o.fails < Threshold
        /\ o.suspended =>
               o.done < o.times /\ o.fails = Threshold /\ c \notin pending

\* A proposal that may run has its approvals now, and its expiration is still
\* the one it was created with if it has a review period.
ProposalOK(p) ==
    LET o == proposal[p]
    IN  /\ o.allow => Authorized(o.approvals)
        /\ o.review = Never \/ o.expiration = o.deadline

\* The inductive invariant.
IInv ==
    /\ TypeOK
    /\ \A c \in DOMAIN crontab : CrontabOK(c)
    /\ \A p \in DOMAIN proposal : ProposalOK(p)

-----------------------------------------------------------------------------
(***************************************************************************)
(* The operators.                                                          *)
(***************************************************************************)
\* A number of seconds is one of 32 bits, and no intervals take none.
LEMMA SecondsType ==
    ASSUME NEW i \in Nat, NEW n \in Nat
    PROVE  Seconds(i, n) \in Nat /\ Seconds(i, 0) = 0
<1>1. i * n \in Nat /\ i * 0 = 0
  OBVIOUS
<1>2. \A k \in Nat : k % Wrap \in Nat
  BY TasksAssumption
<1>3. 0 % Wrap = 0
  BY TasksAssumption
<1> QED
  BY <1>1, <1>2, <1>3 DEF Seconds

\* Time passes for every time stamp but the one that never comes.
LEMMA LaterType ==
    ASSUME NEW t \in Int, NEW dt \in Nat
    PROVE  Later(t, dt) \in Int /\ Later(Never, dt) = Never
  BY TasksAssumption DEF Later

\* A block changes the times of the objects and nothing else.
LEMMA AgedProposalType ==
    ASSUME NEW o \in proposal_object, NEW dt \in Nat
    PROVE  LET a == AgedProposal(o, dt)
           IN  /\ a \in proposal_object
               /\ a.approvals = o.approvals /\ a.allow = o.allow
               /\ a.expiration = Later(o.expiration, dt)
               /\ a.deadline = Later(o.deadline, dt)
               /\ a.review = Later(o.review, dt)
  BY LaterType DEF AgedProposal, proposal_object

\* Time passing leaves the crontabs well typed.
LEMMA AgedCrontabType ==
    ASSUME NEW o \in crontab_object, NEW dt \in Nat
    PROVE  LET a == AgedCrontab(o, dt)
           IN  /\ a \in crontab_object
               /\ a.next = Later(o.next, dt)
               /\ a.expiration = Later(o.expiration, dt)
               /\ a.times = o.times /\ a.done = o.done
               /\ a.fails = o.fails /\ a.suspended = o.suspended
  BY LaterType DEF AgedCrontab, crontab_object

\* proposal_update keeps the invariant of a proposal: the permission to run is
\* taken back with the approvals, and the expiration moves only where there is
\* no review period.
LEMMA UpdatedType ==
    ASSUME NEW o \in proposal_object, NEW A \in SUBSET Approvers
    PROVE  LET u == Updated(o, A)
           IN  /\ u \in proposal_object
               /\ u.approvals = A /\ u.review = o.review
               /\ u.deadline = o.deadline
               /\ u.allow => Authorized(A)
               /\ o.review # Never => u.expiration = o.expiration
<1> DEFINE exp == IF o.review = Never THEN 0 ELSE o.expiration
           new == [o EXCEPT !.approvals = A]
<1>1. exp \in Int /\ exp + LifeCycle \in Int
  BY TasksAssumption DEF proposal_object
<1>2. new \in proposal_object /\ new.approvals = A /\ new.review = o.review
      /\ new.deadline = o.deadline /\ new.expiration = o.expiration
  BY DEF proposal_object
<1>3. CASE ~Authorized(A)
  <2>1. Updated(o, A) = [new EXCEPT !.allow = FALSE]
    BY <1>3 DEF Updated
  <2> HIDE DEF new
  <2> QED
    BY <1>2, <2>1 DEF proposal_object
<1>4. CASE Authorized(A)
  <2>1. Updated(o, A) = [new EXCEPT !.allow = TRUE, !.expiration = exp,
                                    !.txexp = exp + LifeCycle]
    BY <1>4 DEF Updated
  <2>2. o.review # Never => exp = o.expiration
    OBVIOUS
  <2> HIDE DEF new, exp
  <2> QED
    BY <1>1, <1>2, <1>4, <2>1, <2>2 DEF proposal_object
<1> QED
  BY <1>3, <1>4

\* A crontab that is recovered after its last run expires when it is due.
LEMMA RecoveredType ==
    ASSUME NEW o \in crontab_object, NEW restart \in Starts,
           o.done <= o.times
    PROVE  LET r == Recovered(o, restart)
           IN  /\ r \in crontab_object
               /\ r.times = o.times /\ r.done = o.done
               /\ r.fails = 0 /\ ~r.suspended
               /\ r.done = r.times => r.next = r.expiration
<1> DEFINE sec == Seconds(o.interval, o.times - o.done)
<1>1. restart \in Nat
  BY TasksAssumption
<1>2. /\ o.interval \in Nat /\ o.times \in Nat /\ o.done \in Nat
      /\ o.times - o.done \in Nat
      /\ o.done = o.times => o.times - o.done = 0
  BY DEF crontab_object
<1>3. sec \in Nat /\ (o.done = o.times => sec = 0)
  BY <1>2, SecondsType
<1> DEFINE r1 == [o EXCEPT !.suspended = FALSE, !.fails = 0]
           exp == restart + sec
           txexp == restart + LifeCycle
           r == [r1 EXCEPT !.next = restart, !.expiration = exp,
                           !.txexp = txexp]
<1>4. Recovered(o, restart) = r
  BY DEF Recovered
<1>5. /\ r1 \in crontab_object
      /\ r1.times = o.times /\ r1.done = o.done
      /\ r1.fails = 0 /\ r1.suspended = FALSE
  BY DEF crontab_object
<1> HIDE DEF sec, r1
<1>6. /\ restart \in Int /\ exp \in Int /\ txexp \in Int
      /\ o.done = o.times => exp = restart
  BY <1>1, <1>3, TasksAssumption
<1> HIDE DEF exp, txexp
<1>7. /\ r \in crontab_object
      /\ r.times = r1.times /\ r.done = r1.done
      /\ r.fails = r1.fails /\ r.suspended = r1.suspended
      /\ r.next = restart /\ r.expiration = exp
  BY <1>5, <1>6 DEF crontab_object
<1> HIDE DEF r
<1> QED
  BY <1>4, <1>5, <1>6, <1>7

\* The last run leaves a crontab that expires when it would be due again.
LEMMA AdvancedType ==
    ASSUME NEW o \in crontab_object, o.done < o.times
    PROVE  LET a == Advanced(o)
           IN  /\ a \in crontab_object
               /\ a.times = o.times /\ a.done = o.done + 1
               /\ a.done <= a.times
               /\ a.fails = o.fails /\ a.suspended = o.suspended
               /\ a.done = a.times => a.next = a.expiration
<1> DEFINE next == Seconds(o.interval, 1)
           exp == Seconds(o.interval, o.times - o.done)
<1>1. /\ o.interval \in Nat /\ o.times \in Nat /\ o.done \in Nat
      /\ o.times - o.done \in Nat
      /\ o.done + 1 = o.times => o.times - o.done = 1
      /\ o.done + 1 <= o.times
  BY DEF crontab_object
<1>2. next \in Int /\ exp \in Int /\ next + LifeCycle \in Int
  <2>1. next \in Nat /\ exp \in Nat
    BY <1>1, SecondsType
  <2> HIDE DEF next, exp
  <2> QED
    BY <2>1, TasksAssumption
<1>3. o.done + 1 = o.times => next = exp
  BY <1>1
<1> DEFINE a1 == [o EXCEPT !.next = next, !.expiration = exp]
           a2 == [a1 EXCEPT !.done = @ + 1]
           a == [a2 EXCEPT !.txexp = next + LifeCycle]
<1>4. Advanced(o) = a
  BY DEF Advanced
<1> HIDE DEF next, exp
<1>5. /\ a1 \in crontab_object
      /\ a1.times = o.times /\ a1.done = o.done
      /\ a1.fails = o.fails /\ a1.suspended = o.suspended
      /\ a1.next = next /\ a1.expiration = exp
  BY <1>2 DEF crontab_object
<1> HIDE DEF a1
<1>6. /\ a2 \in crontab_object
      /\ a2.times = a1.times /\ a2.done = a1.done + 1
      /\ a2.fails = a1.fails /\ a2.suspended = a1.suspended
      /\ a2.next = a1.next /\ a2.expiration = a1.expiration
  BY <1>5 DEF crontab_object
<1> HIDE DEF a2
<1>7. /\ a \in crontab_object
      /\ a.times = a2.times /\ a.done = a2.done
      /\ a.fails = a2.fails /\ a.suspended = a2.suspended
      /\ a.next = a2.next /\ a.expiration = a2.expiration
  BY <1>2, <1>6 DEF crontab_object
<1> HIDE DEF a
<1> QED
  BY <1>1, <1>3, <1>4, <1>5, <1>6, <1>7

\* An error or none changes only the counter of failures, except that the
\* threshold suspends the crontab; after the last run it changes nothing.
LEMMA OutcomeType ==
    ASSUME NEW o \in crontab_object, NEW error \in BOOLEAN,
           ~o.suspended, o.done < o.times => o.fails < Threshold
    PROVE  LET u == Outcome(o, error)
           IN  /\ u \in crontab_object
               /\ u.times = o.times /\ u.done = o.done
               /\ o.done >= o.times => u = o
               /\ o.done < o.times =>
                     /\ u.fails = IF error THEN o.fails + 1 ELSE 0
                     /\ u.suspended <=> u.fails = Threshold
                     /\ u.fails <= Threshold
<1> SUFFICES ASSUME o.done < o.times
             PROVE  LET u == Outcome(o, error)
                    IN  /\ u \in crontab_object
                        /\ u.times = o.times /\ u.done = o.done
                        /\ u.fails = IF error THEN o.fails + 1 ELSE 0
                        /\ u.suspended <=> u.fails = Threshold
                        /\ u.fails <= Threshold
  BY DEF Outcome, crontab_object
<1>1. ~(o.done >= o.times)
  BY DEF crontab_object
<1>2. CASE ~error
  <2>1. Outcome(o, error) = [o EXCEPT !.fails = 0]
    BY <1>1, <1>2 DEF Outcome
  <2> QED
    BY <2>1, <1>2, TasksAssumption DEF crontab_object
<1>3. CASE error /\ o.fails + 1 = Threshold
  <2> DEFINE u1 == [o EXCEPT !.fails = @ + 1]
             u2 == [u1 EXCEPT !.suspended = TRUE]
             u == [u2 EXCEPT !.next = Never, !.expiration = SuspendedLife]
  <2>1. Outcome(o, error) = u
    BY <1>1, <1>3 DEF Outcome
  <2>2. /\ u1 \in crontab_object
        /\ u1.times = o.times /\ u1.done = o.done
        /\ u1.fails = o.fails + 1
    BY DEF crontab_object
  <2> HIDE DEF u1
  <2>3. /\ u2 \in crontab_object
        /\ u2.times = u1.times /\ u2.done = u1.done
        /\ u2.fails = u1.fails /\ u2.suspended = TRUE
    BY <2>2 DEF crontab_object
  <2> HIDE DEF u2
  <2>4. Never \in Int /\ SuspendedLife \in Int
    BY TasksAssumption
  <2>5. /\ u \in crontab_object
        /\ u.times = u2.times /\ u.done = u2.done
        /\ u.fails = u2.fails /\ u.suspended = u2.suspended
    BY <2>3, <2>4 DEF crontab_object
  <2> HIDE DEF u
  <2> QED
    BY <2>1, <2>2, <2>3, <2>5, <1>3, TasksAssumption
<1>4. CASE error /\ o.fails + 1 # Threshold
  <2>1. Outcome(o, error) = [o EXCEPT !.fails = @ + 1]
    BY <1>1, <1>4 DEF Outcome
  <2> QED
    BY <2>1, <1>4, TasksAssumption DEF crontab_object
<1> QED
  BY <1>2, <1>3, <1>4
-----------------------------------------------------------------------------
(***************************************************************************)
(* The invariant is inductive: one lemma for each action.                  *)
(***************************************************************************)
LEMMA InitIInv == Init => IInv
  BY DEF Init, IInv, TypeOK, Tasks

\* proposal_create: a new proposal has no approvals and has not run.
LEMMA ProposalCreateIInv ==
    ASSUME IInv, NEW p \in Props, NEW life \in Lifetimes,
           NEW review \in Reviews, ProposalCreate(p, life, review)
    PROVE  IInv'
<1> USE DEF IInv, ProposalCreate
<1> DEFINE o == [ expiration |-> life, deadline |-> life, approvals |-> {},
                  review |-> IF review = 0 THEN Never ELSE life - review,
                  allow |-> FALSE, txexp |-> life ]
<1>1. life \in Nat /\ review \in Nat
  BY TasksAssumption
<1>2. o \in proposal_object
  <2>1. (IF review = 0 THEN Never ELSE life - review) \in Int
    BY <1>1, TasksAssumption
  <2> QED
    BY <1>1, <2>1 DEF proposal_object
<1>3. o.allow = FALSE /\ o.expiration = o.deadline
  OBVIOUS
<1>4. proposal' = With(proposal, p, o)
  OBVIOUS
<1> HIDE DEF o
<1>5. /\ proposal' \in [DOMAIN proposal \cup {p} -> proposal_object]
      /\ DOMAIN proposal' = DOMAIN proposal \cup {p}
      /\ proposal'[p] = o
      /\ \A y \in DOMAIN proposal : y # p => proposal'[y] = proposal[y]
  <2>1. proposal \in [DOMAIN proposal -> proposal_object]
    BY DEF TypeOK
  <2> HIDE DEF IInv, ProposalCreate
  <2> QED
    BY <1>2, <1>4, <2>1 DEF With
<1>6. TypeOK'
  BY <1>5 DEF TypeOK, Tasks
<1>7. \A q \in DOMAIN proposal' : ProposalOK(q)'
  BY <1>3, <1>5 DEF ProposalOK
<1>8. \A c \in DOMAIN crontab' : CrontabOK(c)'
  BY DEF CrontabOK
<1> QED
  BY <1>6, <1>7, <1>8

\* proposal_update: a proposal is allowed to run when its approvals suffice.
LEMMA ProposalUpdateIInv ==
    ASSUME IInv, NEW p \in Props, NEW add \in SUBSET Approvers,
           NEW remove \in SUBSET Approvers, ProposalUpdate(p, add, remove)
    PROVE  IInv'
<1> USE DEF IInv, ProposalUpdate
<1> DEFINE o == proposal[p]
           A == (o.approvals \cup add) \ remove
           u == Updated(o, A)
<1>1. p \in DOMAIN proposal /\ o \in proposal_object
  BY DEF TypeOK
<1>2. A \in SUBSET Approvers
  BY <1>1 DEF proposal_object
<1> HIDE DEF A
<1>3. /\ u \in proposal_object
      /\ u.approvals = A /\ u.review = o.review
      /\ u.deadline = o.deadline
      /\ u.allow => Authorized(A)
      /\ o.review # Never => u.expiration = o.expiration
  BY <1>1, <1>2, UpdatedType
<1>4. proposal' = [proposal EXCEPT ![p] = u]
  BY DEF A
<1> HIDE DEF u
<1>5. /\ proposal' \in [DOMAIN proposal -> proposal_object]
      /\ DOMAIN proposal' = DOMAIN proposal
      /\ proposal'[p] = u
      /\ \A y \in DOMAIN proposal : y # p => proposal'[y] = proposal[y]
  BY <1>1, <1>3, <1>4 DEF TypeOK
<1>6. /\ pending' \subseteq pending /\ withdrawn' \subseteq withdrawn \cup {p}
      /\ updates' \in [Props -> Nat]
  BY DEF TypeOK
<1>7. TypeOK'
  BY <1>5, <1>6 DEF TypeOK
<1>8. \A q \in DOMAIN proposal' : ProposalOK(q)'
  BY <1>1, <1>3, <1>5 DEF ProposalOK
<1>9. \A c \in DOMAIN crontab' : CrontabOK(c)'
  BY <1>6 DEF CrontabOK
<1> QED
  BY <1>7, <1>8, <1>9

\* proposal_delete: the task of a proposal that is gone finds nothing to run.
LEMMA ProposalDeleteIInv ==
    ASSUME IInv, NEW p \in Props, ProposalDelete(p)
    PROVE  IInv'
<1> USE DEF IInv, ProposalDelete
<1>1. /\ proposal' \in [DOMAIN proposal \ {p} -> proposal_object]
      /\ DOMAIN proposal' = DOMAIN proposal \ {p}
      /\ \A y \in DOMAIN proposal' : proposal'[y] = proposal[y]
  <2>1. proposal \in [DOMAIN proposal -> proposal_object]
    BY DEF TypeOK
  <2>2. proposal' = Without(proposal, {p})
    OBVIOUS
  <2> HIDE DEF IInv, ProposalDelete
  <2> QED
    BY <2>1, <2>2 DEF Without
<1>2. TypeOK'
  BY <1>1 DEF TypeOK
<1>3. \A q \in DOMAIN proposal' : ProposalOK(q)'
  BY <1>1 DEF ProposalOK
<1>4. \A c \in DOMAIN crontab' : CrontabOK(c)'
  BY DEF CrontabOK
<1> QED
  BY <1>2, <1>3, <1>4

\* The task of a proposal runs only if the proposal still allows it.
LEMMA ExecuteProposalIInv ==
    ASSUME IInv, NEW p \in Tasks, ExecuteProposal(p)
    PROVE  IInv'
<1> USE DEF IInv, ExecuteProposal
<1> DEFINE o == proposal[p]
           u == [o EXCEPT !.allow = FALSE]
<1>1. p \in DOMAIN proposal /\ p \in Props /\ o \in proposal_object
  BY DEF TypeOK
<1>2. /\ u \in proposal_object
      /\ u.allow = FALSE /\ u.review = o.review
      /\ u.expiration = o.expiration /\ u.deadline = o.deadline
  BY <1>1 DEF proposal_object
<1>3. proposal' = [proposal EXCEPT ![p] = u]
  OBVIOUS
<1> HIDE DEF u
<1>4. /\ proposal' \in [DOMAIN proposal -> proposal_object]
      /\ DOMAIN proposal' = DOMAIN proposal
      /\ proposal'[p] = u
      /\ \A y \in DOMAIN proposal : y # p => proposal'[y] = proposal[y]
  BY <1>1, <1>2, <1>3 DEF TypeOK
<1>5. /\ ran' \in [Tasks -> Nat]
      /\ \A c \in Crons : ran'[c] = ran[c]
  BY <1>1, TasksAssumption DEF TypeOK, Tasks
<1>6. TypeOK'
  BY <1>4, <1>5 DEF TypeOK
<1>7. \A q \in DOMAIN proposal' : ProposalOK(q)'
  BY <1>1, <1>2, <1>4 DEF ProposalOK
<1>8. \A c \in DOMAIN crontab' : CrontabOK(c)'
  BY <1>5 DEF CrontabOK, TypeOK
<1> QED
  BY <1>6, <1>7, <1>8

\* crontab_create: a new crontab has all its runs before it.
LEMMA CrontabCreateIInv ==
    ASSUME IInv, NEW c \in Crons, NEW start \in Starts,
           NEW interval \in Intervals, NEW times \in Repeats,
           CrontabCreate(c, start, interval, times)
    PROVE  IInv'
<1> USE DEF IInv, CrontabCreate
<1> DEFINE exp == start + Seconds(interval, times)
           txexp == start + LifeCycle
           o == [ next |-> start, expiration |-> exp,
                  interval |-> interval, times |-> times, done |-> 0,
                  fails |-> 0, suspended |-> FALSE, txexp |-> txexp ]
<1>1. start \in Nat /\ interval \in Nat /\ times \in Nat \ {0}
  BY TasksAssumption
<1>2. exp \in Int /\ txexp \in Int
  <2>1. Seconds(interval, times) \in Nat
    BY <1>1, SecondsType
  <2> QED
    BY <1>1, <2>1, TasksAssumption
<1>3. crontab' = With(crontab, c, o)
  OBVIOUS
<1> HIDE DEF exp, txexp
<1>4. o \in crontab_object
  BY <1>1, <1>2 DEF crontab_object
<1>5. /\ o.done = 0 /\ o.times = times /\ o.fails = 0
      /\ o.suspended = FALSE
  OBVIOUS
<1> HIDE DEF o
<1>6. /\ crontab' \in [DOMAIN crontab \cup {c} -> crontab_object]
      /\ DOMAIN crontab' = DOMAIN crontab \cup {c}
      /\ crontab'[c] = o
      /\ \A y \in DOMAIN crontab : y # c => crontab'[y] = crontab[y]
  <2>1. crontab \in [DOMAIN crontab -> crontab_object]
    BY DEF TypeOK
  <2> HIDE DEF IInv, CrontabCreate
  <2> QED
    BY <1>3, <1>4, <2>1 DEF With
<1>7. TypeOK'
  BY <1>6 DEF TypeOK, Tasks
<1>8. CrontabOK(c)'
  <2>1. ran'[c] = 0 /\ streak'[c] = 0
    BY DEF TypeOK
  <2>2. o.done < o.times /\ 0 < Threshold
    BY <1>1, <1>5, TasksAssumption
  <2> QED
    BY <1>1, <1>5, <1>6, <2>1, <2>2 DEF CrontabOK
<1>9. \A d \in DOMAIN crontab' : CrontabOK(d)'
  <2> SUFFICES ASSUME NEW d \in DOMAIN crontab, d # c
               PROVE  CrontabOK(d)'
    BY <1>6, <1>8
  <2>1. CrontabOK(d) /\ crontab'[d] = crontab[d]
    BY <1>6
  <2>2. UNCHANGED <<pending, ran, streak>>
    OBVIOUS
  <2> HIDE DEF IInv, CrontabCreate
  <2> QED
    BY <2>1, <2>2 DEF CrontabOK
<1>10. \A q \in DOMAIN proposal' : ProposalOK(q)'
  BY DEF ProposalOK
<1> QED
  BY <1>7, <1>9, <1>10

\* crontab_cancel.
LEMMA CrontabCancelIInv ==
    ASSUME IInv, NEW c \in Crons, CrontabCancel(c)
    PROVE  IInv'
<1> USE DEF IInv, CrontabCancel, history
<1>1. /\ crontab' \in [DOMAIN crontab \ {c} -> crontab_object]
      /\ DOMAIN crontab' = DOMAIN crontab \ {c}
      /\ \A y \in DOMAIN crontab' : crontab'[y] = crontab[y]
  <2>1. crontab \in [DOMAIN crontab -> crontab_object]
    BY DEF TypeOK
  <2>2. crontab' = Without(crontab, {c})
    OBVIOUS
  <2> HIDE DEF IInv, CrontabCancel
  <2> QED
    BY <2>1, <2>2 DEF Without
<1>2. TypeOK'
  BY <1>1 DEF TypeOK
<1>3. \A d \in DOMAIN crontab' : CrontabOK(d)'
  BY <1>1, ZenonT(40) DEF CrontabOK
<1>4. \A q \in DOMAIN proposal' : ProposalOK(q)'
  BY DEF ProposalOK
<1> QED
  BY <1>2, <1>3, <1>4

\* crontab_recover: a suspended crontab gets the runs it has left, and no more.
LEMMA CrontabRecoverIInv ==
    ASSUME IInv, NEW c \in Crons, NEW restart \in Starts,
           CrontabRecover(c, restart)
    PROVE  IInv'
<1> USE DEF IInv, CrontabRecover
<1> DEFINE o == crontab[c]
           r == Recovered(o, restart)
<1>1. /\ c \in DOMAIN crontab /\ c \in used
      /\ o \in crontab_object /\ CrontabOK(c)
  BY DEF TypeOK
<1>2. o.done <= o.times /\ o.done \in Nat /\ o.times \in Nat
  BY <1>1 DEF CrontabOK, crontab_object
<1>3. /\ r \in crontab_object
      /\ r.times = o.times /\ r.done = o.done
      /\ r.fails = 0 /\ ~r.suspended
      /\ r.done = r.times => r.next = r.expiration
  BY <1>1, <1>2, RecoveredType
<1>4. crontab' = [crontab EXCEPT ![c] = r]
  OBVIOUS
<1> HIDE DEF r
<1>5. /\ crontab' \in [DOMAIN crontab -> crontab_object]
      /\ DOMAIN crontab' = DOMAIN crontab
      /\ crontab'[c] = r
      /\ \A y \in DOMAIN crontab : y # c => crontab'[y] = crontab[y]
  BY <1>1, <1>3, <1>4 DEF TypeOK
<1>6. /\ streak' \in [Crons -> Nat] /\ streak'[c] = 0
      /\ \A d \in Crons : d # c => streak'[d] = streak[d]
      /\ DOMAIN crontab \subseteq Crons
  BY DEF TypeOK
<1>7. TypeOK'
  BY <1>1, <1>5, <1>6 DEF TypeOK
<1>8. CrontabOK(c)'
  <2>1. 0 < Threshold
    BY TasksAssumption
  <2> QED
    BY <1>1, <1>2, <1>3, <1>5, <1>6, <2>1 DEF CrontabOK
<1>9. \A d \in DOMAIN crontab' : CrontabOK(d)'
  BY <1>5, <1>6, <1>8 DEF CrontabOK
<1>10. \A q \in DOMAIN proposal' : ProposalOK(q)'
  BY DEF ProposalOK
<1> QED
  BY <1>7, <1>9, <1>10

\* A run of a crontab uses up one of its intervals, whether it succeeds, fails
\* or suspends it.
LEMMA ExecuteCrontabIInv ==
    ASSUME IInv, NEW c \in Tasks, NEW error \in BOOLEAN,
           ExecuteCrontab(c, error)
    PROVE  IInv'
<1> USE DEF IInv, ExecuteCrontab
<1> DEFINE o == crontab[c]
           a == Advanced(o)
           u == Outcome(a, error)
<1>1. /\ c \in DOMAIN crontab /\ c \in used /\ c \in Crons /\ c \in pending
      /\ o \in crontab_object /\ CrontabOK(c)
  BY DEF TypeOK
<1>2. /\ o.done \in Nat /\ o.times \in Nat /\ o.fails \in Nat
      /\ Threshold \in Nat
  BY <1>1, TasksAssumption DEF crontab_object
<1>3. /\ o.done < o.times /\ ~o.suspended
      /\ o.fails = streak[c] /\ o.fails < Threshold
      /\ ran[c] = o.done
  BY <1>1, <1>2 DEF CrontabOK
<1>4. /\ a \in crontab_object
      /\ a.times = o.times /\ a.done = o.done + 1
      /\ a.done <= a.times
      /\ a.fails = o.fails /\ a.suspended = o.suspended
      /\ a.done = a.times => a.next = a.expiration
  BY <1>1, <1>3, AdvancedType
<1>5. crontab' = [crontab EXCEPT ![c] = u]
  OBVIOUS
<1> HIDE DEF a
<1>6. /\ u \in crontab_object
      /\ u.times = a.times /\ u.done = a.done
      /\ a.done >= a.times => u = a
      /\ a.done < a.times =>
            /\ u.fails = IF error THEN a.fails + 1 ELSE 0
            /\ u.suspended <=> u.fails = Threshold
            /\ u.fails <= Threshold
  <2>1. ~a.suspended /\ a.fails < Threshold
    BY <1>3, <1>4
  <2> QED
    BY <1>4, <2>1, OutcomeType
<1> HIDE DEF u
<1>7. /\ crontab' \in [DOMAIN crontab -> crontab_object]
      /\ DOMAIN crontab' = DOMAIN crontab
      /\ crontab'[c] = u
      /\ \A y \in DOMAIN crontab : y # c => crontab'[y] = crontab[y]
  BY <1>1, <1>5, <1>6 DEF TypeOK
<1>8. /\ streak' \in [Crons -> Nat]
      /\ streak'[c] = IF error THEN streak[c] + 1 ELSE 0
      /\ \A d \in Crons : d # c => streak'[d] = streak[d]
      /\ ran' \in [Tasks -> Nat] /\ ran'[c] = ran[c] + 1
      /\ \A d \in Crons : d # c => ran'[d] = ran[d]
      /\ DOMAIN crontab \subseteq Crons
  BY <1>1 DEF TypeOK, Tasks
<1>9. TypeOK'
  BY <1>1, <1>7, <1>8 DEF TypeOK
<1>10. CrontabOK(c)'
  <2>1. c \notin pending'
    OBVIOUS
  <2>2. CASE a.done >= a.times
    <3>1. a.done = a.times /\ u = a /\ ~a.suspended
      BY <1>2, <1>3, <1>4, <1>6, <2>2
    <3> QED
      BY <1>2, <1>3, <1>4, <1>7, <1>8, <2>1, <3>1 DEF CrontabOK
  <2>3. CASE a.done < a.times
    <3>1. u.fails = streak'[c]
      BY <1>2, <1>3, <1>4, <1>6, <1>8, <2>3
    <3>2. u.fails \in Nat
      BY <1>6 DEF crontab_object
    <3> QED
      BY <1>2, <1>3, <1>4, <1>6, <1>7, <1>8, <2>1, <2>3, <3>1, <3>2
         DEF CrontabOK
  <2> QED
    BY <1>2, <1>4, <2>2, <2>3
<1>11. \A d \in DOMAIN crontab' : CrontabOK(d)'
  BY <1>7, <1>8, <1>10 DEF CrontabOK
<1>12. \A q \in DOMAIN proposal' : ProposalOK(q)'
  BY DEF ProposalOK
<1> QED
  BY <1>9, <1>11, <1>12

\* The block removes a crontab that has run as often as it was scheduled
\* before it queues what is due.
LEMMA CloseBlockIInv ==
    ASSUME IInv, NEW dt \in 1 .. MaxGap, CloseBlock(dt)
    PROVE  IInv'
<1> DEFINE ps == [p \in DOMAIN proposal |-> AgedProposal(proposal[p], dt)]
           cs == [c \in DOMAIN crontab |-> AgedCrontab(crontab[c], dt)]
           q == Repushed(pending, proposal', crontab')
<1>1. /\ proposal' = Without(ps, ExpiredProposals(ps))
      /\ crontab' = Without(cs, ExpiredCrontabs(cs))
      /\ UNCHANGED <<used, ran, withdrawn, updates, streak>>
  BY DEF CloseBlock, history
<1>2. PICK tp \in TakenProposals(proposal', q),
           tc \in TakenCrontabs(crontab', q) : pending' = q \cup tp \cup tc
  BY DEF CloseBlock
<1>3. /\ proposal \in [DOMAIN proposal -> proposal_object]
      /\ crontab \in [DOMAIN crontab -> crontab_object]
      /\ dt \in Nat
  BY TasksAssumption DEF IInv, TypeOK
<1>4. /\ \A p \in DOMAIN proposal : ps[p] \in proposal_object
      /\ ps \in [DOMAIN proposal -> proposal_object]
  BY <1>3, AgedProposalType
<1>5. /\ \A c \in DOMAIN crontab : cs[c] \in crontab_object
      /\ cs \in [DOMAIN crontab -> crontab_object]
  BY <1>3, AgedCrontabType
<1>6. /\ DOMAIN proposal' \subseteq DOMAIN proposal
      /\ proposal' \in [DOMAIN proposal' -> proposal_object]
      /\ \A p \in DOMAIN proposal' :
            proposal'[p] = AgedProposal(proposal[p], dt)
  BY <1>1, <1>4 DEF Without
<1>7. /\ DOMAIN crontab' \subseteq DOMAIN crontab
      /\ crontab' \in [DOMAIN crontab' -> crontab_object]
      /\ \A c \in DOMAIN crontab' :
            /\ crontab'[c] = AgedCrontab(crontab[c], dt)
            /\ ~(crontab'[c].expiration <= 0)
  BY <1>1, <1>5 DEF Without, ExpiredCrontabs
<1> HIDE DEF ps, cs
<1>8. q \subseteq pending
  BY DEF Repushed
<1> HIDE DEF q
<1>9. tp \subseteq DueProposals(proposal') /\ tc \subseteq DueCrontabs(crontab')
  BY DEF TakenProposals, TakenCrontabs
<1>10. TypeOK'
  <2>1. DOMAIN proposal' \subseteq Props /\ DOMAIN crontab' \subseteq Crons
    BY <1>6, <1>7 DEF IInv, TypeOK
  <2>2. pending' \subseteq Tasks
    BY <1>2, <1>8, <1>9, <2>1
       DEF IInv, TypeOK, Tasks, DueProposals, DueCrontabs
  <2> QED
    BY <1>1, <1>6, <1>7, <2>2 DEF IInv, TypeOK
<1>11. ASSUME NEW c \in DOMAIN crontab'
       PROVE  CrontabOK(c)'
  <2> DEFINE o == crontab[c]
             a == crontab'[c]
  <2>1. /\ o \in crontab_object /\ CrontabOK(c)
        /\ c \in Crons /\ c \notin DOMAIN proposal'
    BY <1>3, <1>6, <1>7, TasksAssumption DEF IInv, TypeOK
  <2>2. /\ a.next = Later(o.next, dt) /\ a.expiration = Later(o.expiration, dt)
        /\ a.times = o.times /\ a.done = o.done
        /\ a.fails = o.fails /\ a.suspended = o.suspended
        /\ ~(a.expiration <= 0)
    BY <1>3, <1>7, <2>1, AgedCrontabType
  <2>3. c \in pending' => c \in pending \/ (~a.suspended /\ a.next <= 0)
    BY <1>2, <1>8, <1>9, <2>1 DEF DueProposals, DueCrontabs
  <2> HIDE DEF a
  <2>4. /\ o.done = o.times => a.next = a.expiration
        /\ o.done = o.times => c \notin pending'
    BY <2>1, <2>2, <2>3 DEF CrontabOK
  <2>5. o.suspended => c \notin pending'
    BY <2>1, <2>2, <2>3 DEF CrontabOK
  <2> QED
    BY <1>1, <2>1, <2>2, <2>4, <2>5 DEF CrontabOK, a
<1>12. ASSUME NEW p \in DOMAIN proposal'
       PROVE  ProposalOK(p)'
  <2> DEFINE o == proposal[p]
             a == proposal'[p]
  <2>1. o \in proposal_object /\ ProposalOK(p)
    BY <1>3, <1>6 DEF IInv
  <2>2. /\ a.approvals = o.approvals /\ a.allow = o.allow
        /\ a.expiration = Later(o.expiration, dt)
        /\ a.deadline = Later(o.deadline, dt)
        /\ a.review = Later(o.review, dt)
    BY <1>3, <1>6, <2>1, AgedProposalType
  <2>3. Later(Never, dt) = Never
    BY DEF Later
  <2> QED
    BY <2>1, <2>2, <2>3 DEF ProposalOK
<1> QED
  BY <1>10, <1>11, <1>12 DEF IInv

\* Every step, of an account or of the chain, keeps the invariant.
LEMMA NextIInv == IInv /\ [Next]_vars => IInv'
<1> SUFFICES ASSUME IInv, [Next]_vars PROVE IInv'
  OBVIOUS
<1>1. CASE UNCHANGED vars
  BY <1>1 DEF vars, history, IInv, TypeOK, CrontabOK, ProposalOK
<1>2. ASSUME NEW p \in Props, NEW life \in Lifetimes, NEW review \in Reviews,
             ProposalCreate(p, life, review)
      PROVE  IInv'
  BY <1>2, ProposalCreateIInv
<1>3. ASSUME NEW p \in Props, NEW add \in SUBSET Approvers,
             NEW remove \in SUBSET Approvers, ProposalUpdate(p, add, remove)
      PROVE  IInv'
  BY <1>3, ProposalUpdateIInv
<1>4. ASSUME NEW p \in Props, ProposalDelete(p)
      PROVE  IInv'
  BY <1>4, ProposalDeleteIInv
<1>5. ASSUME NEW c \in Crons, NEW start \in Starts, NEW interval \in Intervals,
             NEW times \in Repeats, CrontabCreate(c, start, interval, times)
      PROVE  IInv'
  BY <1>5, CrontabCreateIInv
<1>6. ASSUME NEW c \in Crons, CrontabCancel(c)
      PROVE  IInv'
  BY <1>6, CrontabCancelIInv
<1>7. ASSUME NEW c \in Crons, NEW restart \in Starts, CrontabRecover(c, restart)
      PROVE  IInv'
  BY <1>7, CrontabRecoverIInv
<1>8. ASSUME NEW t \in Tasks, ExecuteProposal(t)
      PROVE  IInv'
  BY <1>8, ExecuteProposalIInv
<1>9. ASSUME NEW t \in Tasks, NEW error \in BOOLEAN, ExecuteCrontab(t, error)
      PROVE  IInv'
  BY <1>9, ExecuteCrontabIInv
<1>10. ASSUME NEW dt \in 1 .. MaxGap, CloseBlock(dt)
       PROVE  IInv'
  BY <1>10, CloseBlockIInv
<1> QED
  BY <1>1, <1>2, <1>3, <1>4, <1>5, <1>6, <1>7, <1>8, <1>9, <1>10
     DEF Next, Execute, NextBlock

-----------------------------------------------------------------------------
(***************************************************************************)
(* The theorems.                                                           *)
(***************************************************************************)
\* The objects, the queue and the histories have their types in every
\* reachable state, and the inductive invariant holds there.
THEOREM TasksInvariant == Spec => []IInv
  BY InitIInv, NextIInv, PTL DEF Spec

\* However often a crontab is delayed, suspended and recovered, the chain runs
\* it at most scheduled_execute_times times (_apply_transaction,
\* crontab_recover_evaluator, clear_expired_timed_task).
THEOREM CrontabsAreBounded == Spec => []CrontabsBounded
<1>1. IInv => CrontabsBounded
  BY DEF IInv, CrontabOK, CrontabsBounded
<1> QED
  BY <1>1, TasksInvariant, PTL

\* A crontab is suspended exactly when it has failed crontab_suspend_threshold
\* times in a row with runs left, and is not queued while it is.
THEOREM SuspensionsAreForFailures == Spec => []SuspendedForFailures
<1>1. IInv => SuspendedForFailures
  <2> SUFFICES ASSUME IInv, NEW c \in DOMAIN crontab
               PROVE  /\ crontab[c].suspended =>
                            streak[c] = Threshold /\ c \notin pending
                      /\ streak[c] >= Threshold
                            /\ crontab[c].done < crontab[c].times
                            => crontab[c].suspended
    BY DEF SuspendedForFailures
  <2>1. CrontabOK(c) /\ crontab[c] \in crontab_object /\ streak[c] \in Nat
    BY DEF IInv, TypeOK
  <2> QED
    BY <2>1, TasksAssumption DEF CrontabOK, crontab_object
<1> QED
  BY <1>1, TasksInvariant, PTL

\* A proposal runs only with the approvals it has in the block that runs it,
\* and one with a review period only at its expiration.
THEOREM ProposalsRunWithApprovals == Spec => RunsWithApprovals
<1>1. ASSUME IInv, [Next]_vars
      PROVE  [\A p \in Props : ran'[p] # ran[p] =>
                 /\ Authorized(proposal[p].approvals)
                 /\ proposal[p].review = Never \/ proposal[p].deadline <= 0]_vars
  <2> SUFFICES ASSUME Next, NEW p \in Props, ran'[p] # ran[p]
               PROVE  /\ Authorized(proposal[p].approvals)
                      /\ proposal[p].review = Never \/ proposal[p].deadline <= 0
    BY <1>1 DEF vars
  <2>1. PICK t \in Tasks : Execute(t)
    BY DEF Next, NextBlock, CloseBlock, ProposalCreate, ProposalUpdate,
           ProposalDelete, CrontabCreate, CrontabCancel, CrontabRecover, history
  <2>2. CASE ExecuteProposal(t)
    <3>1. t = p
      BY <1>1, <2>2 DEF ExecuteProposal, IInv, TypeOK, Tasks
    <3> QED
      BY <1>1, <2>2, <3>1 DEF ExecuteProposal, IInv, ProposalOK
  <2>3. ASSUME NEW error \in BOOLEAN, ExecuteCrontab(t, error)
        PROVE  FALSE
    <3>1. t \in Crons /\ p \notin Crons /\ p \in Tasks
      BY <1>1, <2>3, TasksAssumption DEF ExecuteCrontab, IInv, TypeOK, Tasks
    <3> QED
      BY <1>1, <2>3, <3>1 DEF ExecuteCrontab, IInv, TypeOK
  <2> QED
    BY <2>1, <2>2, <2>3 DEF Execute
<1> QED
  BY <1>1, TasksInvariant, PTL DEF Spec, RunsWithApprovals
=============================================================================
