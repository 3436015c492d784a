------------------------------ MODULE Delivery ------------------------------
(***************************************************************************)
(* One cycle's deliveries: the rows of ContentDelivery for one reserved    *)
(* run, the scheduler ticks that reserve, send and sweep them, and the     *)
(* admin requests that retry them or mark them skipped                     *)
(* (src/deliveries/delivery-orchestrator.service.ts, deliveries.service.ts,*)
(* src/scheduler/).                                                        *)
(*                                                                         *)
(* One database statement, or one Slack call, is one step: everything else *)
(* can run between two awaits.  Minutes are the unit of time.              *)
(***************************************************************************)
EXTENDS Integers

CONSTANTS
  Deliveries,           \* one (runId, subscriberId) pair per subscriber of the run
  Ticks,                \* scheduler ticks that can be running at the same moment
  Admins,               \* admin API requests in progress
  None,                 \* no delivery, no tick
  MaxAutomaticAttempts, \* ScheduleStream.maxAutomaticAttempts
  StaleAfter,           \* SENDING_STALE_RECOVERY_MS
  LockTimeout,          \* timeoutMs of the advisory-lock transaction
  Latency,              \* longest time between a send's startedAt and its last write
  BackoffSteps,         \* the four values backoffSeconds takes: attempts 1, 2, 3, later
  RetryAfters,          \* Retry-After values Slack may answer, 0 when it gives none
  Horizon,              \* bound: last instant of the clock
  MaxFaults,            \* bound: crashes and failed database calls, together
  MaxRequests           \* bound: admin requests

ASSUME DeliveryAssumption ==
  /\ None \notin Deliveries \cup Ticks
  /\ Ticks \cap Admins = {}
  /\ MaxAutomaticAttempts \in Nat
  /\ StaleAfter \in Nat
  /\ LockTimeout \in Nat
  /\ Latency \in Nat
  /\ BackoffSteps \in [1..4 -> Nat]
  /\ RetryAfters \subseteq Nat
  /\ Horizon \in Nat
  /\ MaxFaults \in Nat
  /\ MaxRequests \in Nat

(***************************************************************************)
(* What the comment on SENDING_STALE_RECOVERY_MS relies on: the Slack      *)
(* client gives up after 10s, so a send is over long before its row is     *)
(* stale.  Advance below enforces Latency; this makes it short enough.     *)
(***************************************************************************)
ASSUME PromptSendAssumption == Latency < StaleAfter

VARIABLES
  row,        \* ContentDelivery, by delivery
  clock,      \* Clock.now()
  lock,       \* the tick holding the advisory lock
  phase,      \* where each tick is in runTick
  nowUtc,     \* the instant each tick captured
  todo,       \* due subscribers, then sweep candidates, left to the tick
  at,         \* where each tick or admin request is in sendDelivery/markSkipped
  target,     \* the delivery it is working on
  attempt,    \* its local attemptCount
  startedAt,  \* its local startedAt
  outcome,    \* what Slack answered it
  posted,     \* messages the subscriber received (Slack's side, external)
  everSent,   \* history: a SENT status was recorded
  disturbed,  \* history: ticks that met a tick without its lock, or an admin's retry
  faults,     \* crashes and database failures so far
  requests    \* admin requests so far

db == <<row, posted, everSent>>
tickVars == <<lock, phase, nowUtc, todo, disturbed>>
call == <<at, target, attempt, startedAt, outcome>>
bounds == <<faults, requests>>
vars == <<db, clock, tickVars, call, bounds>>

Callers == Ticks \cup Admins
Never == -1
Status == {"ABSENT", "PENDING", "SENDING", "SENT", "FAILED", "SKIPPED"}
Outcome == {"none", "ok", "retryable", "permanent"}

(* A null isRetryable behaves as FALSE in every query and test of the code. *)
Row == [status: Status, sendingAt: Nat \cup {Never}, attemptCount: Nat,
        isRetryable: BOOLEAN, nextRetryAt: Nat \cup {Never}]

Absent == [status |-> "ABSENT", sendingAt |-> Never, attemptCount |-> 0,
           isRetryable |-> FALSE, nextRetryAt |-> Never]

Larger(a, b) == IF a >= b THEN a ELSE b

(* min(60, 5 * 3^(n-1)) minutes takes four values: 5, 15, 45 and then 60. *)
backoff(n) == BackoffSteps[IF n < 4 THEN n ELSE 4]

-----------------------------------------------------------------------------
Init ==
  /\ row = [d \in Deliveries |-> Absent]
  /\ clock = 0
  /\ lock = None
  /\ phase = [t \in Ticks |-> "idle"]
  /\ nowUtc = [t \in Ticks |-> 0]
  /\ todo = [t \in Ticks |-> {}]
  /\ disturbed = {}
  /\ at = [p \in Callers |-> "idle"]
  /\ target = [p \in Callers |-> None]
  /\ attempt = [p \in Callers |-> 0]
  /\ startedAt = [p \in Callers |-> 0]
  /\ outcome = [p \in Callers |-> "none"]
  /\ posted = [d \in Deliveries |-> 0]
  /\ everSent = [d \in Deliveries |-> FALSE]
  /\ faults = 0
  /\ requests = 0

(* p starts sendDelivery(d), or is about to write markSkipped's update. *)
Enter(p, d, stage) ==
  /\ at[p] = "idle"
  /\ at' = [at EXCEPT ![p] = stage]
  /\ target' = [target EXCEPT ![p] = d]
  /\ UNCHANGED <<attempt, startedAt, outcome>>

(* The call of p is over: its locals are gone. *)
Leave(p) ==
  /\ at' = [at EXCEPT ![p] = "idle"]
  /\ target' = [target EXCEPT ![p] = None]
  /\ attempt' = [attempt EXCEPT ![p] = 0]
  /\ startedAt' = [startedAt EXCEPT ![p] = 0]
  /\ outcome' = [outcome EXCEPT ![p] = "none"]

-----------------------------------------------------------------------------
(* The scheduler tick.                                                     *)

(* An admin's retry is under way. *)
Retrying(a) == at[a] \in {"read", "claim", "post", "record"}

(* History: a tick that starts meets those that still run without a lock. *)
NoteStart(t) ==
  disturbed' = IF \/ \E s \in disturbed : phase[s] # "idle"
                  \/ \E a \in Admins : Retrying(a)
               THEN disturbed \cup {t}
               ELSE disturbed \ {t}

(* Mutant: a tick does not wait for the lock. *)
StartTickUnlocked(t) ==
  /\ phase[t] = "idle"
  /\ lock' = t
  /\ phase' = [phase EXCEPT ![t] = "due"]
  /\ nowUtc' = [nowUtc EXCEPT ![t] = clock]
  /\ \E due \in SUBSET Deliveries : todo' = [todo EXCEPT ![t] = due]
  /\ NoteStart(t)
  /\ UNCHANGED <<db, clock, call, bounds>>

(* The interval fires: the lock is free, now is captured, due is queried. *)
StartTick(t) ==
  /\ phase[t] = "idle"
  /\ lock = None
  /\ lock' = t
  /\ phase' = [phase EXCEPT ![t] = "due"]
  /\ nowUtc' = [nowUtc EXCEPT ![t] = clock]
  /\ \E due \in SUBSET Deliveries : todo' = [todo EXCEPT ![t] = due]
  /\ NoteStart(t)
  /\ UNCHANGED <<db, clock, call, bounds>>

(* The PENDING row is created and sent; a row that exists ends it there. *)
ReserveSubscriberDelivery(t, d) ==
  /\ phase[t] = "due"
  /\ at[t] = "idle"
  /\ d \in todo[t]
  /\ todo' = [todo EXCEPT ![t] = @ \ {d}]
  /\ \/ /\ row[d].status = "ABSENT"
        /\ row' = [row EXCEPT ![d].status = "PENDING"]
        /\ Enter(t, d, "read")
     \/ /\ row[d].status # "ABSENT"
        /\ UNCHANGED <<row, call>>
  /\ UNCHANGED <<posted, everSent, clock, lock, phase, nowUtc, disturbed, bounds>>

(* Mutant: the cap is off by one. *)
EligibleFailedOffByOne(t) ==
  {d \in Deliveries :
     /\ row[d].status = "FAILED"
     /\ row[d].isRetryable
     /\ row[d].nextRetryAt # Never
     /\ row[d].nextRetryAt <= nowUtc[t]
     /\ row[d].attemptCount + 1 < MaxAutomaticAttempts}

EligibleFailed(t) ==
  {d \in Deliveries :
     /\ row[d].status = "FAILED"
     /\ row[d].isRetryable
     /\ row[d].nextRetryAt # Never
     /\ row[d].nextRetryAt <= nowUtc[t]
     /\ row[d].attemptCount < MaxAutomaticAttempts}

StaleSending(t) ==
  {d \in Deliveries :
     /\ row[d].status = "SENDING"
     /\ row[d].sendingAt <= nowUtc[t] - StaleAfter}

(* The two queries of retrySweep, one after the other. *)
QueryFailed(t) ==
  /\ phase[t] = "due"
  /\ at[t] = "idle"
  /\ todo[t] = {}
  /\ phase' = [phase EXCEPT ![t] = "query"]
  /\ todo' = [todo EXCEPT ![t] = EligibleFailed(t)]
  /\ UNCHANGED <<db, clock, lock, nowUtc, disturbed, call, bounds>>

QueryStale(t) ==
  /\ phase[t] = "query"
  /\ phase' = [phase EXCEPT ![t] = "sweep"]
  /\ todo' = [todo EXCEPT ![t] = @ \cup StaleSending(t)]
  /\ UNCHANGED <<db, clock, lock, nowUtc, disturbed, call, bounds>>

(* The sweep's loop sends its candidates one at a time, as queried. *)
SweepNext(t, d) ==
  /\ phase[t] = "sweep"
  /\ d \in todo[t]
  /\ Enter(t, d, "read")
  /\ todo' = [todo EXCEPT ![t] = @ \ {d}]
  /\ UNCHANGED <<db, clock, lock, phase, nowUtc, disturbed, bounds>>

EndTick(t) ==
  /\ phase[t] = "sweep"
  /\ at[t] = "idle"
  /\ todo[t] = {}
  /\ phase' = [phase EXCEPT ![t] = "idle"]
  /\ nowUtc' = [nowUtc EXCEPT ![t] = 0]
  /\ lock' = IF lock = t THEN None ELSE lock
  /\ disturbed' = disturbed \ {t}
  /\ UNCHANGED <<db, clock, todo, call, bounds>>

(* A query of the sweep throws: runTick ends there, without its sweep. *)
QueryFails(t) ==
  /\ faults < MaxFaults
  /\ faults' = faults + 1
  /\ \/ phase[t] = "due" /\ at[t] = "idle" /\ todo[t] = {}
     \/ phase[t] = "query"
  /\ phase' = [phase EXCEPT ![t] = "idle"]
  /\ nowUtc' = [nowUtc EXCEPT ![t] = 0]
  /\ todo' = [todo EXCEPT ![t] = {}]
  /\ lock' = IF lock = t THEN None ELSE lock
  /\ disturbed' = disturbed \ {t}
  /\ UNCHANGED <<db, clock, call, requests>>

(* The lock's transaction times out and rolls back; runTick goes on. *)
LockExpires(t) ==
  /\ lock = t
  /\ clock >= nowUtc[t] + LockTimeout
  /\ lock' = None
  /\ disturbed' = disturbed \cup {t}
  /\ UNCHANGED <<db, clock, phase, nowUtc, todo, call, bounds>>

-----------------------------------------------------------------------------
(* Admin requests.                                                         *)

(* The check of DeliveriesService.retry, before it calls sendDelivery. *)
RetryRequest(a, d) ==
  /\ requests < MaxRequests
  /\ row[d].status = "FAILED"
  /\ row[d].isRetryable
  /\ Enter(a, d, "read")
  /\ requests' = requests + 1
  /\ disturbed' = disturbed \cup {t \in Ticks : phase[t] # "idle"}
  /\ UNCHANGED <<db, clock, lock, phase, nowUtc, todo, faults>>

(* markSkipped reads the row, finds it unresolved ... *)
SkipRequest(a, d) ==
  /\ requests < MaxRequests
  /\ row[d].status \in {"PENDING", "SENDING", "FAILED"}
  /\ Enter(a, d, "skip")
  /\ requests' = requests + 1
  /\ UNCHANGED <<db, clock, tickVars, faults>>

(* ... and then updates it by id, whatever it has become. *)
MarkSkipped(a) ==
  /\ at[a] = "skip"
  /\ row' = [row EXCEPT ![target[a]] =
               [@ EXCEPT !.status = "SKIPPED", !.isRetryable = FALSE,
                         !.nextRetryAt = Never]]
  /\ Leave(a)
  /\ UNCHANGED <<posted, everSent, clock, tickVars, bounds>>

-----------------------------------------------------------------------------
(* sendDelivery, shared by the first attempt, the sweep and the retry.     *)

(* The row is read; attemptCount and startedAt become locals. *)
ReadDelivery(p) ==
  /\ at[p] = "read"
  /\ at' = [at EXCEPT ![p] = "claim"]
  /\ attempt' = [attempt EXCEPT ![p] = row[target[p]].attemptCount + 1]
  /\ startedAt' = [startedAt EXCEPT ![p] = clock]
  /\ UNCHANGED <<target, outcome, db, clock, tickVars, bounds>>

(* Mutants: sendingAt is re-checked too leniently, a SENDING row is never   *)
(* claimed, a SKIPPED row is.                                               *)
ClaimableTooSoon(d, started) ==
  \/ row[d].status \in {"PENDING", "FAILED"}
  \/ row[d].status = "SENDING" /\ row[d].sendingAt < started

ClaimableNotSending(d, started) == row[d].status \in {"PENDING", "FAILED"}

ClaimableSkipped(d, started) ==
  row[d].status \in {"PENDING", "FAILED", "SKIPPED"}

Claimable(d, started) ==
  \/ row[d].status \in {"PENDING", "FAILED"}
  \/ /\ row[d].status = "SENDING"
     /\ row[d].sendingAt <= started - StaleAfter

(* The conditional updateMany: the row is taken, or the call ends. *)
Claim(p) ==
  /\ at[p] = "claim"
  /\ Claimable(target[p], startedAt[p])
  /\ row' = [row EXCEPT ![target[p]] =
               [@ EXCEPT !.status = "SENDING", !.sendingAt = startedAt[p],
                         !.attemptCount = attempt[p]]]
  /\ at' = [at EXCEPT ![p] = "post"]
  /\ UNCHANGED <<target, attempt, startedAt, outcome>>
  /\ UNCHANGED <<posted, everSent, clock, tickVars, bounds>>

ClaimLost(p) ==
  /\ at[p] = "claim"
  /\ ~Claimable(target[p], startedAt[p])
  /\ Leave(p)
  /\ UNCHANGED <<db, clock, tickVars, bounds>>

(* chat.postMessage delivers: acknowledged, answer lost, or answered with *)
(* no timestamp.                                                          *)
MessageDelivered(p) ==
  /\ at[p] = "post"
  /\ posted' = [posted EXCEPT ![target[p]] = @ + 1]
  /\ \E o \in Outcome \ {"none"} : outcome' = [outcome EXCEPT ![p] = o]
  /\ at' = [at EXCEPT ![p] = "record"]
  /\ UNCHANGED <<target, attempt, startedAt>>
  /\ UNCHANGED <<row, everSent, clock, tickVars, bounds>>

(* Mutant: an answer that is not an acknowledgement is taken for one. *)
MessageRefusedAsSent(p) ==
  /\ at[p] = "post"
  /\ \E o \in {"ok", "permanent"} : outcome' = [outcome EXCEPT ![p] = o]
  /\ at' = [at EXCEPT ![p] = "record"]
  /\ UNCHANGED <<target, attempt, startedAt>>
  /\ UNCHANGED <<db, clock, tickVars, bounds>>

(* The call fails and nothing was posted. *)
MessageRefused(p) ==
  /\ at[p] = "post"
  /\ \E o \in {"retryable", "permanent"} : outcome' = [outcome EXCEPT ![p] = o]
  /\ at' = [at EXCEPT ![p] = "record"]
  /\ UNCHANGED <<target, attempt, startedAt>>
  /\ UNCHANGED <<db, clock, tickVars, bounds>>

RecordSent(p) ==
  /\ at[p] = "record"
  /\ outcome[p] = "ok"
  /\ row' = [row EXCEPT ![target[p]] =
               [@ EXCEPT !.status = "SENT", !.isRetryable = FALSE,
                         !.nextRetryAt = Never]]
  /\ everSent' = [everSent EXCEPT ![target[p]] = TRUE]
  /\ Leave(p)
  /\ UNCHANGED <<posted, clock, tickVars, bounds>>

(* Mutant: a retry is scheduled whatever the number of attempts. *)
RetryTimeUncapped(p, retryAfter) ==
  IF outcome[p] = "retryable"
  THEN startedAt[p] + Larger(retryAfter, backoff(attempt[p]))
  ELSE Never

(* The next automatic attempt, when one is allowed. *)
RetryTime(p, retryAfter) ==
  IF outcome[p] = "retryable" /\ attempt[p] < MaxAutomaticAttempts
  THEN startedAt[p] + Larger(retryAfter, backoff(attempt[p]))
  ELSE Never

RecordFailed(p) ==
  /\ at[p] = "record"
  /\ outcome[p] # "ok"
  /\ \E retryAfter \in RetryAfters :
       row' = [row EXCEPT ![target[p]] =
                 [@ EXCEPT !.status = "FAILED",
                           !.isRetryable = (outcome[p] = "retryable"),
                           !.nextRetryAt = RetryTime(p, retryAfter)]]
  /\ Leave(p)
  /\ UNCHANGED <<posted, everSent, clock, tickVars, bounds>>

-----------------------------------------------------------------------------
(* Failures and time.                                                      *)

(* A database call throws.  After a successful post the catch block takes *)
(* it for a failed send; anywhere else the call is abandoned.             *)
DatabaseFails(p) ==
  /\ faults < MaxFaults
  /\ faults' = faults + 1
  /\ \/ /\ at[p] = "record"
        /\ outcome[p] = "ok"
        /\ outcome' = [outcome EXCEPT ![p] = "permanent"]
        /\ UNCHANGED <<at, target, attempt, startedAt>>
     \/ /\ \/ at[p] \in {"read", "claim", "skip"}
           \/ at[p] = "record" /\ outcome[p] # "ok"
        /\ Leave(p)
  /\ UNCHANGED <<db, clock, tickVars, requests>>

(* The process dies and starts again: only the database is left. *)
Crash ==
  /\ faults < MaxFaults
  /\ faults' = faults + 1
  /\ lock' = None
  /\ phase' = [t \in Ticks |-> "idle"]
  /\ nowUtc' = [t \in Ticks |-> 0]
  /\ todo' = [t \in Ticks |-> {}]
  /\ disturbed' = {}
  /\ at' = [p \in Callers |-> "idle"]
  /\ target' = [p \in Callers |-> None]
  /\ attempt' = [p \in Callers |-> 0]
  /\ startedAt' = [p \in Callers |-> 0]
  /\ outcome' = [p \in Callers |-> "none"]
  /\ UNCHANGED <<db, clock, requests>>

Sending(p) == at[p] \in {"claim", "post", "record"}

(* Time passes, but no send outlives Latency. *)
Advance ==
  /\ clock < Horizon
  /\ \A p \in Callers : Sending(p) => clock < startedAt[p] + Latency
  /\ clock' = clock + 1
  /\ UNCHANGED <<db, tickVars, call, bounds>>

-----------------------------------------------------------------------------
TickStep(t) ==
  \/ \E d \in Deliveries : ReserveSubscriberDelivery(t, d) \/ SweepNext(t, d)
  \/ QueryFailed(t)
  \/ QueryStale(t)
  \/ EndTick(t)

SendStep(p) ==
  \/ ReadDelivery(p)
  \/ Claim(p)
  \/ ClaimLost(p)
  \/ MessageDelivered(p)
  \/ MessageRefused(p)
  \/ RecordSent(p)
  \/ RecordFailed(p)

AdminStep(a) ==
  \/ \E d \in Deliveries : RetryRequest(a, d) \/ SkipRequest(a, d)
  \/ MarkSkipped(a)

Next ==
  \/ \E t \in Ticks : StartTick(t) \/ TickStep(t) \/ QueryFails(t) \/ LockExpires(t)
  \/ \E a \in Admins : AdminStep(a)
  \/ \E p \in Callers : SendStep(p) \/ DatabaseFails(p)
  \/ Crash
  \/ Advance

Spec == Init /\ [][Next]_vars

(***************************************************************************)
(* setInterval keeps firing and the process, while it is up, runs its      *)
(* promises to the end; the clock moves.  Nothing obliges an admin to ask, *)
(* or a fault to happen.                                                   *)
(***************************************************************************)
Fairness ==
  /\ WF_vars(Advance)
  /\ \A t \in Ticks : /\ WF_vars(StartTick(t))
                      /\ WF_vars(TickStep(t))
                      /\ WF_vars(SendStep(t))
  /\ \A a \in Admins : WF_vars(SendStep(a)) /\ WF_vars(MarkSkipped(a))

FairSpec == Spec /\ Fairness

-----------------------------------------------------------------------------
(* Properties.                                                             *)

InFlight(p) == at[p] \in {"post", "record"}

(* Every variable keeps its type, and a call under way has a delivery.      *)
DbTypeOK ==
  /\ row \in [Deliveries -> Row]
  /\ posted \in [Deliveries -> Nat]
  /\ everSent \in [Deliveries -> BOOLEAN]

TickTypeOK ==
  /\ lock \in Ticks \cup {None}
  /\ phase \in [Ticks -> {"idle", "due", "query", "sweep"}]
  /\ nowUtc \in [Ticks -> Nat]
  /\ todo \in [Ticks -> SUBSET Deliveries]
  /\ disturbed \subseteq Ticks

CallTypeOK ==
  /\ at \in [Callers -> {"idle", "read", "claim", "post", "record", "skip"}]
  /\ target \in [Callers -> Deliveries \cup {None}]
  /\ \A p \in Callers : at[p] # "idle" => target[p] \in Deliveries
  /\ attempt \in [Callers -> Nat]
  /\ \A p \in Callers : Sending(p) => attempt[p] > 0
  /\ startedAt \in [Callers -> Nat]
  /\ outcome \in [Callers -> Outcome]

CountTypeOK == clock \in Nat /\ faults \in Nat /\ requests \in Nat

TypeOK == DbTypeOK /\ TickTypeOK /\ CallTypeOK /\ CountTypeOK

(* Two callers never have an attempt at the same delivery under way, though *)
(* ticks may overlap, an admin may retry, and the sweep takes over SENDING  *)
(* rows it finds stale: the claim in sendDelivery is what keeps them apart. *)
OneAttemptInFlight ==
  \A p, q \in Callers :
    p # q /\ InFlight(p) /\ InFlight(q) => target[p] # target[q]

(* Once SENT has been recorded for a delivery, no step ever posts it again, *)
(* even if an admin's late update has since turned the row SKIPPED.         *)
NoPostAfterSent ==
  [][\A d \in Deliveries : posted'[d] # posted[d] => ~everSent[d]]_vars

(* PLAN.md 2.5: a row says SENT only if the subscriber received a message. *)
SentWasPosted ==
  \A d \in Deliveries : everSent[d] => posted[d] > 0

(* Every attempt that ends leaves a trace: a FAILED row waiting for an     *)
(* automatic retry still has automatic attempts left, so the sweep's       *)
(* filter never leaves it waiting for ever.                                *)
WaitingRowCanBeRetried ==
  \A d \in Deliveries :
    row[d].status = "FAILED" /\ row[d].nextRetryAt # Never
      => row[d].isRetryable /\ row[d].attemptCount < MaxAutomaticAttempts

(* PLAN.md 5.17 and 2455: the scheduler retries only a transient failure,  *)
(* at or after the nextRetryAt recorded with it and within the automatic    *)
(* attempts.  The sweep tests that when it queries, and claims later by the *)
(* status alone: it still holds then, whatever admins skip, calls fail,     *)
(* processes die or ticks overlap, unless the tick met one that runs on     *)
(* without its lock, or an admin's retry.                                   *)
AutomaticRetryAllowed ==
  [][\A t \in Ticks, d \in Deliveries :
       (/\ at[t] = "claim" /\ at'[t] = "post" /\ target[t] = d
        /\ row[d].status = "FAILED"
        /\ t \notin disturbed)
         => /\ row[d].isRetryable
            /\ row[d].nextRetryAt # Never
            /\ row[d].nextRetryAt <= row'[d].sendingAt
            /\ row'[d].attemptCount <= MaxAutomaticAttempts]_vars

(* A row a crash left SENDING is taken up again once it is stale.           *)
StaleSendingRecovered ==
  \A d \in Deliveries :
    (row[d].status = "SENDING" /\ row[d].sendingAt <= Horizon - StaleAfter)
      ~> (row[d].status # "SENDING" \/ row[d].sendingAt > Horizon - StaleAfter)

(* A transient failure with a retry time within the run's clock is retried  *)
(* or resolved: the sweep never forgets it.                                 *)
DueRetryHappens ==
  \A d \in Deliveries :
    (/\ row[d].status = "FAILED"
     /\ row[d].nextRetryAt # Never
     /\ row[d].nextRetryAt <= Horizon)
      ~> row[d].status \in {"SENDING", "SENT", "SKIPPED"}

(* A claim of the documentation that the code does not keep.                *)

(* PLAN.md:1749: a reservation that exists has been handled.                *)
PendingIsHandled ==
  \A d \in Deliveries : row[d].status = "PENDING" ~> row[d].status # "PENDING"

(* The inductive invariant behind the properties above: a send is young,    *)
(* its row carries the sendingAt and attemptCount of its own claim, and a   *)
(* delivery once SENT is out of everybody's reach.                          *)
SendIsYoung ==
  \A p \in Callers :
    Sending(p) => startedAt[p] <= clock /\ clock <= startedAt[p] + Latency

RowIsClaimed ==
  \A p \in Callers :
    InFlight(p) => /\ row[target[p]].status \in {"SENDING", "SKIPPED"}
                   /\ row[target[p]].sendingAt = startedAt[p]
                   /\ row[target[p]].attemptCount = attempt[p]

RowExists ==
  \A p \in Callers : at[p] # "idle" => row[target[p]].status # "ABSENT"

CandidatesExist ==
  \A t \in Ticks : phase[t] \in {"query", "sweep"}
    => \A d \in todo[t] : row[d].status # "ABSENT"

AnswerMeansPosted ==
  \A p \in Callers :
    at[p] = "record" /\ outcome[p] = "ok" => posted[target[p]] > 0

SentIsOver ==
  \A d \in Deliveries :
    everSent[d] => /\ row[d].status \in {"SENT", "SKIPPED"}
                   /\ \A p \in Callers : InFlight(p) => target[p] # d

SendSafe ==
  /\ SendIsYoung
  /\ RowExists
  /\ RowIsClaimed
  /\ AnswerMeansPosted
  /\ OneAttemptInFlight
  /\ SentIsOver
  /\ SentWasPosted
  /\ WaitingRowCanBeRetried

SendInv == TypeOK /\ CandidatesExist /\ SendSafe

(* The inductive invariant behind AutomaticRetryAllowed: an undisturbed tick *)
(* holds the lock and works alone, and what it has queried or read of a     *)
(* FAILED row still stands.                                                 *)
TickShape ==
  \A t \in Ticks :
    /\ at[t] # "idle" => phase[t] \in {"due", "sweep"} /\ target[t] \notin todo[t]
    /\ at[t] # "skip"
    /\ nowUtc[t] <= clock

Undisturbed(t) == phase[t] # "idle" /\ t \notin disturbed

TicksExclude ==
  \A t \in Ticks :
    Undisturbed(t) =>
      /\ lock = t
      /\ \A s \in Ticks \ {t} : phase[s] = "idle"
      /\ \A a \in Admins : ~Retrying(a)

Concerns(t, d) ==
  \/ phase[t] \in {"query", "sweep"} /\ d \in todo[t]
  \/ at[t] \in {"read", "claim"} /\ target[t] = d

StillEligible ==
  \A t \in Ticks, d \in Deliveries :
    Undisturbed(t) /\ Concerns(t, d) /\ row[d].status = "FAILED" =>
      /\ d \in EligibleFailed(t)
      /\ at[t] = "claim" /\ target[t] = d =>
           attempt[t] = row[d].attemptCount + 1 /\ nowUtc[t] <= startedAt[t]

RetryInv == TickShape /\ TicksExclude /\ StillEligible
=============================================================================
