-------------------------- MODULE Delivery_proofs ---------------------------
(***************************************************************************)
(* Proofs about Delivery, for any number of deliveries, ticks and admin    *)
(* requests, any clock horizon, and any number of crashes and database     *)
(* failures, from DeliveryAssumption and PromptSendAssumption.             *)
(***************************************************************************)
EXTENDS DeliveryRefines, TLAPS

USE DeliveryAssumption DEF DeliveryAssumption

(* A retry deadline is an instant.                                          *)
LEMMA RetryTimeType ==
  ASSUME TypeOK, NEW p \in Callers, at[p] = "record", NEW r \in RetryAfters
  PROVE  RetryTime(p, r) \in Nat \cup {Never}
<1>1. attempt[p] \in Nat \ {0} /\ startedAt[p] \in Nat /\ r \in Nat
  BY DEF TypeOK, CallTypeOK, Sending
<1>2. backoff(attempt[p]) \in Nat
  BY <1>1 DEF backoff
<1>3. QED
  BY <1>1, <1>2 DEF RetryTime, Larger

(* Beginning and ending a call keep the callers' variables in their types.  *)
LEMMA EnterType ==
  ASSUME CallTypeOK, NEW p \in Callers, NEW d \in Deliveries,
         NEW stage_ \in {"read", "skip"}, Enter(p, d, stage_)
  PROVE  CallTypeOK'
BY DEF CallTypeOK, Enter, Sending

LEMMA LeaveType ==
  ASSUME CallTypeOK, NEW p \in Callers, Leave(p)
  PROVE  CallTypeOK'
BY DEF CallTypeOK, Leave, Sending, Outcome

LEMMA InitTypeOK == Init => TypeOK
BY DEF Init, TypeOK, DbTypeOK, TickTypeOK, CallTypeOK, CountTypeOK,
       Row, Absent, Status, Never, Outcome, Sending

(* Every step keeps every variable in its type.                             *)
LEMMA TypeStep == TypeOK /\ [Next]_vars => TypeOK'
<1> SUFFICES ASSUME TypeOK, [Next]_vars PROVE TypeOK'
  OBVIOUS
<1> USE DEF TypeOK, db, tickVars, call, bounds
<1>1. ASSUME NEW t \in Ticks, StartTick(t) PROVE TypeOK'
  <2>1. DbTypeOK' /\ CallTypeOK' /\ CountTypeOK'
    BY <1>1 DEF StartTick, DbTypeOK, CallTypeOK, CountTypeOK, Sending
  <2>2. disturbed' \subseteq Ticks
    BY <1>1 DEF StartTick, NoteStart, TickTypeOK
  <2>3. TickTypeOK'
    BY <1>1, <2>2 DEF StartTick, TickTypeOK, CountTypeOK
  <2>4. QED
    BY <2>1, <2>3
<1>2. ASSUME NEW t \in Ticks, NEW d \in Deliveries,
             ReserveSubscriberDelivery(t, d)
      PROVE TypeOK'
  <2>1. CallTypeOK'
    <3>1. CASE Enter(t, d, "read")
      BY <3>1, EnterType DEF Callers
    <3>2. CASE UNCHANGED call
      BY <3>2 DEF CallTypeOK, Sending
    <3>3. QED
      BY <1>2, <3>1, <3>2 DEF ReserveSubscriberDelivery
  <2>2. DbTypeOK'
    BY <1>2 DEF ReserveSubscriberDelivery, DbTypeOK, Row, Status
  <2>3. TickTypeOK' /\ CountTypeOK'
    BY <1>2 DEF ReserveSubscriberDelivery, TickTypeOK, CountTypeOK
  <2>4. QED
    BY <2>1, <2>2, <2>3
<1>3. ASSUME NEW t \in Ticks, NEW d \in Deliveries, SweepNext(t, d)
      PROVE TypeOK'
  <2>1. CallTypeOK'
    BY <1>3, EnterType DEF SweepNext, Callers
  <2>2. QED
    BY <1>3, <2>1 DEF SweepNext, DbTypeOK, TickTypeOK, CountTypeOK
<1>4. ASSUME NEW t \in Ticks, QueryFailed(t) \/ QueryStale(t) PROVE TypeOK'
  <2>1. EligibleFailed(t) \subseteq Deliveries /\ StaleSending(t) \subseteq Deliveries
    BY DEF EligibleFailed, StaleSending
  <2>2. TickTypeOK'
    BY <1>4, <2>1 DEF QueryFailed, QueryStale, TickTypeOK
  <2>3. QED
    BY <1>4, <2>2
    DEF QueryFailed, QueryStale, DbTypeOK, CallTypeOK, CountTypeOK, Sending
<1>5. ASSUME NEW t \in Ticks, EndTick(t) \/ QueryFails(t) \/ LockExpires(t) PROVE TypeOK'
  BY <1>5
  DEF EndTick, QueryFails, LockExpires, DbTypeOK, TickTypeOK, CallTypeOK, CountTypeOK, Sending
<1>6. ASSUME NEW a \in Admins, NEW d \in Deliveries,
             RetryRequest(a, d) \/ SkipRequest(a, d)
      PROVE TypeOK'
  <2>1. CallTypeOK'
    BY <1>6, EnterType DEF RetryRequest, SkipRequest, Callers
  <2>2. QED
    BY <1>6, <2>1
    DEF RetryRequest, SkipRequest, DbTypeOK, TickTypeOK, CountTypeOK
<1>7. ASSUME NEW a \in Admins, MarkSkipped(a) PROVE TypeOK'
  <2>1. CallTypeOK'
    BY <1>7, LeaveType DEF MarkSkipped, Callers
  <2>2. target[a] \in Deliveries
    BY <1>7 DEF MarkSkipped, CallTypeOK, Callers
  <2>3. DbTypeOK'
    BY <1>7, <2>2 DEF MarkSkipped, DbTypeOK, Row, Status
  <2>4. QED
    BY <1>7, <2>1, <2>3 DEF MarkSkipped, TickTypeOK, CountTypeOK
<1>8. ASSUME NEW p \in Callers, ReadDelivery(p) PROVE TypeOK'
  <2>1. target[p] \in Deliveries
    BY <1>8 DEF ReadDelivery, CallTypeOK
  <2>2. row[target[p]].attemptCount \in Nat
    BY <2>1 DEF DbTypeOK, Row
  <2>3. CallTypeOK'
    BY <1>8, <2>1, <2>2 DEF ReadDelivery, CallTypeOK, CountTypeOK, Sending
  <2>4. QED
    BY <1>8, <2>3 DEF ReadDelivery, DbTypeOK, TickTypeOK, CountTypeOK
<1>9. ASSUME NEW p \in Callers, Claim(p) PROVE TypeOK'
  <2>1. target[p] \in Deliveries /\ startedAt[p] \in Nat /\ attempt[p] \in Nat
    BY <1>9 DEF Claim, CallTypeOK
  <2>2. DbTypeOK'
    BY <1>9, <2>1 DEF Claim, DbTypeOK, Row, Status
  <2>3. CallTypeOK'
    BY <1>9, <2>1 DEF Claim, CallTypeOK, Sending
  <2>4. QED
    BY <1>9, <2>2, <2>3 DEF Claim, TickTypeOK, CountTypeOK
<1>10. ASSUME NEW p \in Callers, ClaimLost(p) PROVE TypeOK'
  BY <1>10, LeaveType DEF ClaimLost, DbTypeOK, TickTypeOK, CountTypeOK
<1>11. ASSUME NEW p \in Callers, MessageDelivered(p) \/ MessageRefused(p)
       PROVE TypeOK'
  <2>1. target[p] \in Deliveries
    BY <1>11 DEF MessageDelivered, MessageRefused, CallTypeOK
  <2>2. DbTypeOK'
    BY <1>11, <2>1 DEF MessageDelivered, MessageRefused, DbTypeOK
  <2>3. CallTypeOK'
    BY <1>11, <2>1
    DEF MessageDelivered, MessageRefused, CallTypeOK, Sending, Outcome
  <2>4. QED
    BY <1>11, <2>2, <2>3
    DEF MessageDelivered, MessageRefused, TickTypeOK, CountTypeOK
<1>12. ASSUME NEW p \in Callers, RecordSent(p) PROVE TypeOK'
  <2>1. target[p] \in Deliveries
    BY <1>12 DEF RecordSent, CallTypeOK
  <2>2. DbTypeOK'
    BY <1>12, <2>1 DEF RecordSent, DbTypeOK, Row, Status
  <2>3. QED
    BY <1>12, <2>2, LeaveType DEF RecordSent, TickTypeOK, CountTypeOK
<1>13. ASSUME NEW p \in Callers, RecordFailed(p) PROVE TypeOK'
  <2>1. target[p] \in Deliveries
    BY <1>13 DEF RecordFailed, CallTypeOK
  <2>2. PICK r \in RetryAfters :
          row' = [row EXCEPT ![target[p]] =
                    [@ EXCEPT !.status = "FAILED",
                              !.isRetryable = (outcome[p] = "retryable"),
                              !.nextRetryAt = RetryTime(p, r)]]
    BY <1>13 DEF RecordFailed
  <2>3. RetryTime(p, r) \in Nat \cup {Never}
    BY <1>13, RetryTimeType DEF RecordFailed
  <2>4. PICK b \in BOOLEAN, n \in Nat \cup {Never} :
          row' = [row EXCEPT ![target[p]] =
                    [@ EXCEPT !.status = "FAILED", !.isRetryable = b,
                              !.nextRetryAt = n]]
    BY <2>2, <2>3
  <2>5. row' \in [Deliveries -> Row]
    BY <2>1, <2>4 DEF DbTypeOK, Row, Status
  <2>6. DbTypeOK'
    BY <1>13, <2>5 DEF RecordFailed, DbTypeOK
  <2>7. QED
    BY <1>13, <2>6, LeaveType DEF RecordFailed, TickTypeOK, CountTypeOK
<1>14. ASSUME NEW p \in Callers, DatabaseFails(p) PROVE TypeOK'
  <2>1. CallTypeOK'
    <3>1. CASE Leave(p)
      BY <3>1, LeaveType
    <3>2. CASE outcome' = [outcome EXCEPT ![p] = "permanent"]
               /\ UNCHANGED <<at, target, attempt, startedAt>>
      BY <3>2 DEF CallTypeOK, Sending, Outcome
    <3>3. QED
      BY <1>14, <3>1, <3>2 DEF DatabaseFails
  <2>2. QED
    BY <1>14, <2>1 DEF DatabaseFails, DbTypeOK, TickTypeOK, CountTypeOK
<1>15. CASE Crash
  BY <1>15
  DEF Crash, DbTypeOK, TickTypeOK, CallTypeOK, CountTypeOK, Sending, Outcome
<1>16. CASE Advance
  BY <1>16 DEF Advance, DbTypeOK, TickTypeOK, CallTypeOK, CountTypeOK, Sending
<1>17. CASE UNCHANGED vars
  BY <1>17 DEF vars, DbTypeOK, TickTypeOK, CallTypeOK, CountTypeOK, Sending
<1>18. QED
  BY <1>1, <1>2, <1>3, <1>4, <1>5, <1>6, <1>7, <1>8, <1>9, <1>10, <1>11,
     <1>12, <1>13, <1>14, <1>15, <1>16, <1>17
  DEF Next, TickStep, AdminStep, SendStep

(* Type correctness.                                                        *)
THEOREM TypeCorrect == Spec => []TypeOK
BY InitTypeOK, TypeStep, PTL DEF Spec

-----------------------------------------------------------------------------
(***************************************************************************)
(* The inductive invariant.  The heart of it is the claim: a caller that   *)
(* finds a row PENDING or FAILED cannot be overtaking anybody, because     *)
(* RowIsClaimed says that the row of a send in flight is SENDING (or       *)
(* SKIPPED); and one that finds it stale is looking at a send that began   *)
(* more than Latency ago, which SendIsYoung says is over.                  *)
(***************************************************************************)

(* A claim is never taken over a send that is still in flight.              *)
LEMMA ClaimIsExclusive ==
  ASSUME SendInv, NEW p \in Callers, Claim(p),
         NEW q \in Callers, InFlight(q)
  PROVE  target[q] # target[p]
<1> SUFFICES ASSUME target[q] = target[p] PROVE FALSE
  OBVIOUS
<1>1. /\ row[target[p]].status \in {"SENDING", "SKIPPED"}
      /\ row[target[p]].sendingAt = startedAt[q]
  BY DEF SendInv, SendSafe, RowIsClaimed
<1>2. row[target[p]].sendingAt <= startedAt[p] - StaleAfter
  BY <1>1 DEF Claim, Claimable
<1>3. startedAt[p] <= clock /\ clock <= startedAt[q] + Latency
  BY DEF SendInv, SendSafe, SendIsYoung, Sending, InFlight, Claim
<1>4. startedAt[p] \in Nat /\ startedAt[q] \in Nat /\ clock \in Nat
  BY DEF SendInv, TypeOK, CallTypeOK, CountTypeOK
<1>5. QED
  BY <1>1, <1>2, <1>3, <1>4, PromptSendAssumption

LEMMA InitSendInv == Init => SendInv
<1> SUFFICES ASSUME Init PROVE SendSafe
  BY InitTypeOK DEF SendInv, Init, CandidatesExist
<1>1. QED
  BY DEF Init, SendSafe, SendIsYoung, RowExists, RowIsClaimed, InFlight, Sending,
         AnswerMeansPosted, OneAttemptInFlight, SentIsOver, SentWasPosted,
         WaitingRowCanBeRetried, Absent

(* Steps that touch neither the rows, nor the calls, nor the clock.         *)
LEMMA QuietStep ==
  ASSUME SendSafe, UNCHANGED <<row, posted, everSent, clock, call>>
  PROVE  SendSafe'
BY DEF SendSafe, SendIsYoung, RowExists, RowIsClaimed, InFlight, Sending, call,
       AnswerMeansPosted, OneAttemptInFlight, SentIsOver, SentWasPosted,
       WaitingRowCanBeRetried

(* A call that begins is not a send yet.                                    *)
LEMMA EnterStep ==
  ASSUME SendInv, NEW p \in Callers, NEW d \in Deliveries,
         NEW stage_ \in {"read", "skip"}, Enter(p, d, stage_),
         row[d].status # "ABSENT", UNCHANGED <<row, posted, everSent, clock>>
  PROVE  SendSafe'
BY DEF SendInv, TypeOK, CallTypeOK, Enter,
       SendSafe, SendIsYoung, RowExists, RowIsClaimed, InFlight, Sending,
       AnswerMeansPosted, OneAttemptInFlight, SentIsOver, SentWasPosted,
       WaitingRowCanBeRetried

(* A call that ends without writing.                                        *)
LEMMA LeaveStep ==
  ASSUME SendInv, NEW p \in Callers, Leave(p),
         UNCHANGED <<row, posted, everSent, clock>>
  PROVE  SendSafe'
BY DEF SendInv, TypeOK, CallTypeOK, Leave,
       SendSafe, SendIsYoung, RowExists, RowIsClaimed, InFlight, Sending,
       AnswerMeansPosted, OneAttemptInFlight, SentIsOver, SentWasPosted,
       WaitingRowCanBeRetried

(* A tick's reservation creates the row its own call starts from.           *)
LEMMA ReserveStep ==
  ASSUME SendInv, NEW t \in Ticks, NEW d \in Deliveries,
         ReserveSubscriberDelivery(t, d)
  PROVE  SendSafe'
<1>1. CASE row[d].status # "ABSENT"
  BY <1>1, QuietStep DEF SendInv, ReserveSubscriberDelivery
<1>2. CASE row[d].status = "ABSENT"
  <2>1. /\ row' = [row EXCEPT ![d].status = "PENDING"]
        /\ Enter(t, d, "read")
        /\ UNCHANGED <<posted, everSent, clock>>
    BY <1>2 DEF ReserveSubscriberDelivery
  <2> USE <2>1 DEF SendInv, TypeOK, DbTypeOK, CallTypeOK, Row, Enter, Callers
  <2>2. SendIsYoung' /\ AnswerMeansPosted' /\ OneAttemptInFlight' /\ SentWasPosted'
    BY DEF SendSafe, SendIsYoung, AnswerMeansPosted, OneAttemptInFlight,
           SentWasPosted, InFlight, Sending
  <2>3. RowExists' /\ RowIsClaimed'
    BY <1>2 DEF SendSafe, RowExists, RowIsClaimed, InFlight
  <2>4. SentIsOver' /\ WaitingRowCanBeRetried'
    BY <1>2 DEF SendSafe, SentIsOver, WaitingRowCanBeRetried, InFlight
  <2>5. QED
    BY <2>2, <2>3, <2>4 DEF SendSafe
<1>3. QED
  BY <1>1, <1>2

(* The admin's update leaves an attempt in flight to finish.                *)
LEMMA MarkSkippedStep ==
  ASSUME SendInv, NEW a \in Admins, MarkSkipped(a)
  PROVE  SendSafe'
<1>1. PICK d \in Deliveries : d = target[a]
  BY DEF SendInv, TypeOK, CallTypeOK, MarkSkipped, Callers
<1>2. /\ row' = [row EXCEPT ![d] = [@ EXCEPT !.status = "SKIPPED",
                                   !.isRetryable = FALSE, !.nextRetryAt = Never]]
      /\ Leave(a) /\ a \in Callers
      /\ UNCHANGED <<posted, everSent, clock>>
  BY <1>1 DEF MarkSkipped, Callers
<1> USE <1>2 DEF SendInv, TypeOK, DbTypeOK, CallTypeOK, Row, Leave
<1>3. SendIsYoung' /\ AnswerMeansPosted' /\ OneAttemptInFlight' /\ SentWasPosted'
  BY DEF SendSafe, SendIsYoung, AnswerMeansPosted, OneAttemptInFlight,
         SentWasPosted, InFlight, Sending
<1>4. RowExists' /\ RowIsClaimed'
  BY DEF SendSafe, RowExists, RowIsClaimed, InFlight
<1>5. SentIsOver' /\ WaitingRowCanBeRetried'
  BY DEF SendSafe, SentIsOver, WaitingRowCanBeRetried, InFlight
<1>6. QED
  BY <1>3, <1>4, <1>5 DEF SendSafe

LEMMA ReadStep ==
  ASSUME SendInv, NEW p \in Callers, ReadDelivery(p)
  PROVE  SendSafe'
<1> USE DEF SendInv, TypeOK, CallTypeOK, CountTypeOK, ReadDelivery, db
<1>1. SendIsYoung'
  BY DEF SendSafe, SendIsYoung, Sending
<1>2. RowExists' /\ RowIsClaimed' /\ AnswerMeansPosted' /\ OneAttemptInFlight'
  BY DEF SendSafe, RowExists, RowIsClaimed, AnswerMeansPosted,
         OneAttemptInFlight, InFlight
<1>3. SentIsOver' /\ SentWasPosted' /\ WaitingRowCanBeRetried'
  BY DEF SendSafe, SentIsOver, SentWasPosted, WaitingRowCanBeRetried, InFlight
<1>4. QED
  BY <1>1, <1>2, <1>3 DEF SendSafe

LEMMA ClaimStep ==
  ASSUME SendInv, NEW p \in Callers, Claim(p)
  PROVE  SendSafe'
<1>1. PICK d \in Deliveries : d = target[p]
  BY DEF SendInv, TypeOK, CallTypeOK, Claim
<1>2. \A q \in Callers : InFlight(q) => target[q] # d
  BY <1>1, ClaimIsExclusive
<1>3. ~everSent[d]
  BY <1>1 DEF SendInv, SendSafe, SentIsOver, Claim, Claimable
<1>4. row' = [row EXCEPT ![d] = [@ EXCEPT !.status = "SENDING",
                !.sendingAt = startedAt[p], !.attemptCount = attempt[p]]]
  BY <1>1 DEF Claim
<1> USE <1>1, <1>4 DEF SendInv, TypeOK, DbTypeOK, CallTypeOK, Row
<1>5. SendIsYoung' /\ AnswerMeansPosted' /\ SentWasPosted'
  BY DEF Claim, SendSafe, SendIsYoung, AnswerMeansPosted, SentWasPosted, Sending
<1>6. RowExists'
  BY DEF Claim, SendSafe, RowExists
<1>7. RowIsClaimed'
  BY <1>2 DEF Claim, SendSafe, RowIsClaimed, InFlight
<1>8. OneAttemptInFlight'
  BY <1>2 DEF Claim, SendSafe, OneAttemptInFlight, InFlight
<1>9. SentIsOver'
  BY <1>3 DEF Claim, SendSafe, SentIsOver, InFlight
<1>10. WaitingRowCanBeRetried'
  BY DEF Claim, SendSafe, WaitingRowCanBeRetried
<1>11. QED
  BY <1>5, <1>6, <1>7, <1>8, <1>9, <1>10 DEF SendSafe

LEMMA MessageStep ==
  ASSUME SendInv, NEW p \in Callers, MessageDelivered(p) \/ MessageRefused(p)
  PROVE  SendSafe'
<1>1. PICK d \in Deliveries : d = target[p]
  BY DEF SendInv, TypeOK, CallTypeOK, MessageDelivered, MessageRefused
<1>2. \A e \in Deliveries : posted'[e] \in Nat /\ posted'[e] >= posted[e]
  BY <1>1 DEF SendInv, TypeOK, DbTypeOK, MessageDelivered, MessageRefused, db
<1> USE <1>1 DEF SendInv, TypeOK, DbTypeOK, CallTypeOK, MessageDelivered,
                 MessageRefused, db
<1>3. SendIsYoung' /\ RowExists' /\ RowIsClaimed' /\ OneAttemptInFlight'
  BY DEF SendSafe, SendIsYoung, RowExists, RowIsClaimed, OneAttemptInFlight,
         InFlight, Sending
<1>4. AnswerMeansPosted'
  <2>1. CASE MessageDelivered(p)
    BY <1>2, <2>1 DEF SendSafe, AnswerMeansPosted
  <2>2. CASE MessageRefused(p)
    BY <2>2 DEF SendSafe, AnswerMeansPosted
  <2>3. QED
    BY <2>1, <2>2
<1>5. SentIsOver' /\ WaitingRowCanBeRetried'
  BY DEF SendSafe, SentIsOver, WaitingRowCanBeRetried, InFlight
<1>6. SentWasPosted'
  BY <1>2 DEF SendSafe, SentWasPosted
<1>7. QED
  BY <1>3, <1>4, <1>5, <1>6 DEF SendSafe

LEMMA RecordSentStep ==
  ASSUME SendInv, NEW p \in Callers, RecordSent(p)
  PROVE  SendSafe'
<1>1. PICK d \in Deliveries : d = target[p]
  BY DEF SendInv, TypeOK, CallTypeOK, RecordSent
<1>2. \A q \in Callers : q # p /\ InFlight(q) => target[q] # d
  BY <1>1 DEF SendInv, SendSafe, OneAttemptInFlight, InFlight, RecordSent
<1>3. posted[d] > 0
  BY <1>1 DEF SendInv, SendSafe, AnswerMeansPosted, RecordSent
<1> USE <1>1 DEF SendInv, TypeOK, DbTypeOK, CallTypeOK, Row, RecordSent, Leave
<1>4. SendIsYoung' /\ RowExists' /\ AnswerMeansPosted' /\ OneAttemptInFlight'
  BY DEF SendSafe, SendIsYoung, RowExists, AnswerMeansPosted,
         OneAttemptInFlight, InFlight, Sending
<1>5. RowIsClaimed' /\ SentIsOver'
  BY <1>2 DEF SendSafe, RowIsClaimed, SentIsOver, InFlight
<1>6. SentWasPosted' /\ WaitingRowCanBeRetried'
  BY <1>3 DEF SendSafe, SentWasPosted, WaitingRowCanBeRetried
<1>7. QED
  BY <1>4, <1>5, <1>6 DEF SendSafe

LEMMA RecordFailedStep ==
  ASSUME SendInv, NEW p \in Callers, RecordFailed(p)
  PROVE  SendSafe'
<1>1. PICK d \in Deliveries : d = target[p]
  BY DEF SendInv, TypeOK, CallTypeOK, RecordFailed
<1>2. PICK r \in RetryAfters :
        row' = [row EXCEPT ![d] =
                  [@ EXCEPT !.status = "FAILED",
                            !.isRetryable = (outcome[p] = "retryable"),
                            !.nextRetryAt = RetryTime(p, r)]]
  BY <1>1 DEF RecordFailed
<1>3. PICK b \in BOOLEAN, n \in Nat \cup {Never} :
        /\ row' = [row EXCEPT ![d] = [@ EXCEPT !.status = "FAILED",
                                      !.isRetryable = b, !.nextRetryAt = n]]
        /\ n # Never => b /\ attempt[p] < MaxAutomaticAttempts
  BY <1>2, RetryTimeType DEF RetryTime, RecordFailed, SendInv
<1>4. /\ \A q \in Callers : q # p /\ InFlight(q) => target[q] # d
      /\ ~everSent[d]
      /\ row[d].attemptCount = attempt[p]
  BY <1>1 DEF SendInv, SendSafe, OneAttemptInFlight, SentIsOver, RowIsClaimed,
              InFlight, RecordFailed
<1>5. /\ at[p] = "record" /\ Leave(p)
      /\ UNCHANGED <<posted, everSent, clock>>
  BY DEF RecordFailed
<1> USE <1>1, <1>3, <1>5 DEF SendInv, TypeOK, DbTypeOK, CallTypeOK, Row, Leave
<1>6. SendIsYoung' /\ RowExists' /\ AnswerMeansPosted' /\ OneAttemptInFlight'
  BY DEF SendSafe, SendIsYoung, RowExists, AnswerMeansPosted,
         OneAttemptInFlight, InFlight, Sending
<1>7. RowIsClaimed' /\ SentIsOver'
  BY <1>4 DEF SendSafe, RowIsClaimed, SentIsOver, InFlight
<1>8. SentWasPosted' /\ WaitingRowCanBeRetried'
  BY <1>4 DEF SendSafe, SentWasPosted, WaitingRowCanBeRetried
<1>9. QED
  BY <1>6, <1>7, <1>8 DEF SendSafe

LEMMA DatabaseFailsStep ==
  ASSUME SendInv, NEW p \in Callers, DatabaseFails(p)
  PROVE  SendSafe'
<1>1. CASE Leave(p)
  BY <1>1, LeaveStep DEF DatabaseFails, db
<1>2. CASE outcome' = [outcome EXCEPT ![p] = "permanent"]
           /\ UNCHANGED <<at, target, attempt, startedAt>>
  BY <1>2 DEF DatabaseFails, db, SendInv, TypeOK, CallTypeOK,
       SendSafe, SendIsYoung, RowExists, RowIsClaimed, InFlight, Sending,
       AnswerMeansPosted, OneAttemptInFlight, SentIsOver, SentWasPosted,
       WaitingRowCanBeRetried
<1>3. QED
  BY <1>1, <1>2 DEF DatabaseFails

LEMMA CrashStep == SendInv /\ Crash => SendSafe'
BY DEF Crash, db, SendInv, SendSafe, SendIsYoung, RowExists, RowIsClaimed,
       InFlight, Sending, AnswerMeansPosted, OneAttemptInFlight, SentIsOver,
       SentWasPosted, WaitingRowCanBeRetried

LEMMA AdvanceStep == SendInv /\ Advance => SendSafe'
BY DEF Advance, db, call, SendInv, TypeOK, CallTypeOK, CountTypeOK,
       SendSafe, SendIsYoung, RowExists, RowIsClaimed,
       InFlight, Sending, AnswerMeansPosted, OneAttemptInFlight, SentIsOver,
       SentWasPosted, WaitingRowCanBeRetried

(* Rows are never deleted, so the sweep's candidates stay rows.             *)
LEMMA CandidatesStep == SendInv /\ [Next]_vars => CandidatesExist'
<1> SUFFICES ASSUME SendInv, [Next]_vars PROVE CandidatesExist'
  OBVIOUS
<1> USE DEF SendInv, TypeOK, DbTypeOK, TickTypeOK, Row, CandidatesExist,
            db, tickVars
<1>1. ASSUME NEW t \in Ticks, StartTick(t) \/ EndTick(t) \/ QueryFails(t) \/ LockExpires(t)
      PROVE CandidatesExist'
  BY <1>1 DEF StartTick, EndTick, QueryFails, LockExpires
<1>2. ASSUME NEW t \in Ticks, QueryFailed(t) \/ QueryStale(t)
      PROVE CandidatesExist'
  BY <1>2 DEF QueryFailed, QueryStale, EligibleFailed, StaleSending
<1>3. ASSUME NEW t \in Ticks, NEW d \in Deliveries,
             ReserveSubscriberDelivery(t, d) \/ SweepNext(t, d)
      PROVE CandidatesExist'
  <2>1. UNCHANGED phase /\ todo' = [todo EXCEPT ![t] = @ \ {d}]
    BY <1>3 DEF ReserveSubscriberDelivery, SweepNext
  <2>2. \A e \in Deliveries :
          row'[e].status = "ABSENT" => row[e].status = "ABSENT"
    BY <1>3 DEF ReserveSubscriberDelivery, SweepNext
  <2>3. QED
    BY <2>1, <2>2
<1>4. ASSUME UNCHANGED <<phase, todo>>,
             \A d \in Deliveries :
               row'[d].status = "ABSENT" => row[d].status = "ABSENT"
      PROVE CandidatesExist'
  BY <1>4
<1>5. ASSUME NEW a \in Admins, AdminStep(a) PROVE CandidatesExist'
  <2>1. \A d \in Deliveries :
          row'[d].status = "ABSENT" => row[d].status = "ABSENT"
    <3>1. CASE UNCHANGED row
      BY <3>1
    <3>2. CASE MarkSkipped(a)
      BY <3>2 DEF MarkSkipped
    <3>3. QED
      BY <1>5, <3>1, <3>2 DEF AdminStep, RetryRequest, SkipRequest
  <2>2. UNCHANGED <<phase, todo>>
    BY <1>5 DEF AdminStep, RetryRequest, SkipRequest, MarkSkipped
  <2>3. QED
    BY <1>4, <2>1, <2>2
<1>6. ASSUME NEW p \in Callers, SendStep(p) PROVE CandidatesExist'
  <2>1. \A d \in Deliveries :
          row'[d].status = "ABSENT" => row[d].status = "ABSENT"
    <3>1. CASE UNCHANGED row
      BY <3>1
    <3>2. CASE Claim(p)
      BY <3>2 DEF Claim
    <3>3. CASE RecordSent(p)
      BY <3>3 DEF RecordSent
    <3>4. CASE RecordFailed(p)
      BY <3>4 DEF RecordFailed
    <3>5. QED
      BY <1>6, <3>1, <3>2, <3>3, <3>4
      DEF SendStep, ReadDelivery, ClaimLost, MessageDelivered, MessageRefused
  <2>2. UNCHANGED <<phase, todo>>
    BY <1>6 DEF SendStep, ReadDelivery, Claim, ClaimLost, MessageDelivered,
                MessageRefused, RecordSent, RecordFailed
  <2>3. QED
    BY <1>4, <2>1, <2>2
<1>7. ASSUME NEW p \in Callers, DatabaseFails(p) PROVE CandidatesExist'
  BY <1>7 DEF DatabaseFails
<1>8. CASE Crash \/ Advance \/ UNCHANGED vars
  BY <1>8 DEF Crash, Advance, vars
<1>9. QED
  BY <1>1, <1>2, <1>3, <1>5, <1>6, <1>7, <1>8 DEF Next, TickStep

LEMMA SendInvStep == SendInv /\ [Next]_vars => SendInv'
<1> SUFFICES ASSUME SendInv, [Next]_vars PROVE SendSafe'
  BY TypeStep, CandidatesStep DEF SendInv
<1>1. ASSUME NEW t \in Ticks, StartTick(t) \/ QueryFailed(t) \/ QueryStale(t)
                              \/ EndTick(t) \/ QueryFails(t) \/ LockExpires(t)
      PROVE SendSafe'
  BY <1>1, QuietStep
  DEF SendInv, StartTick, QueryFailed, QueryStale, EndTick, QueryFails, LockExpires, db
<1>2. ASSUME NEW t \in Ticks, NEW d \in Deliveries,
             ReserveSubscriberDelivery(t, d)
      PROVE SendSafe'
  BY <1>2, ReserveStep
<1>3. ASSUME NEW t \in Ticks, NEW d \in Deliveries, SweepNext(t, d)
      PROVE  SendSafe'
  <2>1. row[d].status # "ABSENT"
    BY <1>3 DEF SendInv, CandidatesExist, SweepNext
  <2>2. QED
    BY <1>3, <2>1, EnterStep DEF SweepNext, Callers, db
<1>4. ASSUME NEW a \in Admins, NEW d \in Deliveries,
             RetryRequest(a, d) \/ SkipRequest(a, d)
      PROVE SendSafe'
  BY <1>4, EnterStep DEF RetryRequest, SkipRequest, Callers, db
<1>5. ASSUME NEW p \in Callers, SendStep(p) PROVE SendSafe'
  <2>1. CASE ClaimLost(p)
    BY <2>1, LeaveStep DEF ClaimLost, db
  <2>2. QED
    BY <1>5, <2>1, ReadStep, ClaimStep, MessageStep, RecordSentStep,
       RecordFailedStep DEF SendStep
<1>6. CASE UNCHANGED vars
  BY <1>6, QuietStep DEF SendInv, vars, db
<1>7. QED
  BY <1>1, <1>2, <1>3, <1>4, <1>5, <1>6, MarkSkippedStep, DatabaseFailsStep,
     CrashStep, AdvanceStep DEF Next, TickStep, AdminStep

(* The invariant of the send path holds whatever the ticks, the admins, the *)
(* faults and the clock do.                                                 *)
THEOREM SendInvariant == Spec => []SendInv
BY InitSendInv, SendInvStep, PTL DEF Spec

(* The claim excludes: no two attempts at one delivery are ever under way.  *)
THEOREM AttemptsExclude == Spec => []OneAttemptInFlight
<1>1. SendInv => OneAttemptInFlight
  BY DEF SendInv, SendSafe
<1>2. QED
  BY <1>1, SendInvariant, PTL

(* A row the sweep is waiting for is one the sweep will accept.             *)
THEOREM WaitingRows == Spec => []WaitingRowCanBeRetried
<1>1. SendInv => WaitingRowCanBeRetried
  BY DEF SendInv, SendSafe
<1>2. QED
  BY <1>1, SendInvariant, PTL

(* No message follows a recorded SENT.                                      *)
THEOREM SentIsLast == Spec => NoPostAfterSent
<1>1. ASSUME SendInv, [Next]_vars
      PROVE  [\A d \in Deliveries : posted'[d] # posted[d] => ~everSent[d]]_vars
  <2> SUFFICES ASSUME NEW d \in Deliveries, posted'[d] # posted[d], Next
               PROVE  ~everSent[d]
    BY <1>1
  <2>1. PICK p \in Callers : MessageDelivered(p)
    BY DEF Next, StartTick, TickStep, ReserveSubscriberDelivery, SweepNext,
           QueryFailed, QueryStale, EndTick, QueryFails, LockExpires, AdminStep,
           RetryRequest, SkipRequest, MarkSkipped, SendStep, ReadDelivery,
           Claim, ClaimLost, MessageRefused, RecordSent, RecordFailed,
           DatabaseFails, Crash, Advance, db
  <2>2. InFlight(p) /\ target[p] = d
    BY <1>1, <2>1
    DEF MessageDelivered, InFlight, SendInv, TypeOK, DbTypeOK, CallTypeOK
  <2>3. QED
    BY <1>1, <2>2 DEF SendInv, SendSafe, SentIsOver
<1>2. QED
  BY <1>1, SendInvariant, PTL DEF Spec, NoPostAfterSent

-----------------------------------------------------------------------------
(***************************************************************************)
(* Delivery implements DeliveryAttempts.  An abstract attempt begins at    *)
(* the claim, calls Slack at the post, and ends at the record or when the  *)
(* call is lost; everything else is invisible.                             *)
(***************************************************************************)

(* Steps that move no call into, out of or within an attempt.               *)
LEMMA SameFlight ==
  ASSUME \A p \in Callers : InFlight(p)' <=> InFlight(p),
         \A p \in Callers : InFlight(p) => target'[p] = target[p],
         \A p \in Callers : (at'[p] = "post") <=> (at[p] = "post")
  PROVE  /\ \A d \in Deliveries : BeingSent(d)' <=> BeingSent(d)
         /\ NotYetPosted' = NotYetPosted
<1>1. \A d \in Deliveries : BeingSent(d)' <=> BeingSent(d)
  BY DEF BeingSent
<1>2. \A p \in Callers : at[p] = "post" => InFlight(p)
  BY DEF InFlight
<1>3. \A d \in Deliveries :
        (\E p \in Callers : at'[p] = "post" /\ target'[p] = d)
          <=> (\E p \in Callers : at[p] = "post" /\ target[p] = d)
  BY <1>2
<1>4. QED
  BY <1>1, <1>3 DEF NotYetPosted

LEMMA InvisibleStep ==
  ASSUME \A p \in Callers : InFlight(p)' <=> InFlight(p),
         \A p \in Callers : InFlight(p) => target'[p] = target[p],
         \A p \in Callers : (at'[p] = "post") <=> (at[p] = "post"),
         UNCHANGED <<row, posted>>
  PROVE  UNCHANGED Attempts!vars
<1>1. StageOf' = StageOf
  BY SameFlight DEF StageOf
<1>2. QED
  BY <1>1, SameFlight DEF Attempts!vars

LEMMA InitRefines == Init => Attempts!Init
BY DEF Init, Attempts!Init, StageOf, NotYetPosted, Absent

(* Everything but the claim, the post, the records, the reservation, the    *)
(* skip, a failing record and a crash is invisible.                         *)
LEMMA InvisibleSteps ==
  ASSUME TypeOK,
         \/ \E t \in Ticks : \/ StartTick(t) \/ QueryFailed(t) \/ QueryStale(t)
                             \/ EndTick(t) \/ QueryFails(t) \/ LockExpires(t)
                             \/ \E d \in Deliveries : SweepNext(t, d)
         \/ \E a \in Admins, d \in Deliveries :
              RetryRequest(a, d) \/ SkipRequest(a, d)
         \/ \E p \in Callers : ReadDelivery(p) \/ ClaimLost(p)
         \/ Advance
         \/ UNCHANGED vars
  PROVE  UNCHANGED Attempts!vars
<1> USE DEF TypeOK, CallTypeOK, InFlight
<1>1. CASE UNCHANGED <<db, call>>
  BY <1>1, InvisibleStep DEF db, call
<1>2. ASSUME NEW p \in Callers, NEW d \in Deliveries, NEW s \in {"read", "skip"},
             Enter(p, d, s), UNCHANGED db
      PROVE  UNCHANGED Attempts!vars
  BY <1>2, InvisibleStep DEF Enter, db
<1>3. ASSUME NEW p \in Callers, ReadDelivery(p)
      PROVE  UNCHANGED Attempts!vars
  BY <1>3, InvisibleStep DEF ReadDelivery, db
<1>4. ASSUME NEW p \in Callers, ClaimLost(p)
      PROVE  UNCHANGED Attempts!vars
  BY <1>4, InvisibleStep DEF ClaimLost, Leave, db
<1>5. QED
  BY <1>1, <1>2, <1>3, <1>4
  DEF StartTick, QueryFailed, QueryStale, EndTick, QueryFails, LockExpires, SweepNext,
      RetryRequest, SkipRequest, Advance, vars, Callers

(* The mapped variables are functions on the deliveries.                    *)
LEMMA MappedFunctions ==
  /\ StageOf = [e \in Deliveries |-> StageOf[e]]
  /\ StageOf' = [e \in Deliveries |-> StageOf'[e]]
  /\ NotYetPosted = [e \in Deliveries |-> NotYetPosted[e]]
  /\ NotYetPosted' = [e \in Deliveries |-> NotYetPosted'[e]]
BY DEF StageOf, NotYetPosted

(* A step of one call changes the abstract state of its delivery alone.     *)
LEMMA OneDeliveryStep ==
  ASSUME TypeOK, NEW p \in Callers, NEW d \in Deliveries,
         target[p] = d \/ ~InFlight(p),
         InFlight(p)' => target'[p] = d,
         \A q \in Callers : q # p => at'[q] = at[q] /\ target'[q] = target[q],
         \A e \in Deliveries : e # d => row'[e].status = row[e].status
  PROVE  /\ StageOf' = [StageOf EXCEPT ![d] = StageOf'[d]]
         /\ NotYetPosted' = [NotYetPosted EXCEPT ![d] = NotYetPosted'[d]]
<1>1. \A e \in Deliveries \ {d} : BeingSent(e)' <=> BeingSent(e)
  BY DEF BeingSent, InFlight
<1>2. \A e \in Deliveries \ {d} :
        (\E q \in Callers : at'[q] = "post" /\ target'[q] = e)
          <=> (\E q \in Callers : at[q] = "post" /\ target[q] = e)
  BY DEF InFlight
<1>3. \A e \in Deliveries \ {d} : StageOf'[e] = StageOf[e]
  BY <1>1 DEF StageOf
<1>4. \A e \in Deliveries \ {d} : NotYetPosted'[e] = NotYetPosted[e]
  BY <1>2 DEF NotYetPosted
<1>5. QED
  BY <1>3, <1>4, MappedFunctions

(* The values of the abstract state, given who is sending.                  *)
LEMMA Views ==
  ASSUME NEW d \in Deliveries
  PROVE  /\ NotYetPosted[d] <=> \E p \in Callers : at[p] = "post" /\ target[p] = d
         /\ BeingSent(d) /\ row[d].status # "ABSENT" => StageOf[d] = "attempting"
         /\ ~BeingSent(d) /\ row[d].status \in {"SENT", "SKIPPED"}
              => StageOf[d] = "resolved"
         /\ ~BeingSent(d) /\ row[d].status \in {"PENDING", "SENDING", "FAILED"}
              => StageOf[d] = "waiting"
         /\ row[d].status = "ABSENT" => StageOf[d] = "absent"
         /\ NotYetPosted[d] \in BOOLEAN
BY DEF NotYetPosted, StageOf

LEMMA ReserveRefines ==
  ASSUME SendInv, NEW t \in Ticks, NEW d \in Deliveries,
         ReserveSubscriberDelivery(t, d)
  PROVE  Attempts!Reserve(d) \/ UNCHANGED Attempts!vars
<1> USE DEF SendInv, TypeOK, DbTypeOK, CallTypeOK, Row, Callers
<1>1. CASE row[d].status # "ABSENT"
  BY <1>1, InvisibleStep DEF ReserveSubscriberDelivery, call, InFlight
<1>2. CASE row[d].status = "ABSENT"
  <2>1. /\ row' = [row EXCEPT ![d].status = "PENDING"]
        /\ Enter(t, d, "read")
        /\ UNCHANGED posted
    BY <1>2 DEF ReserveSubscriberDelivery
  <2>2. /\ \A p \in Callers : InFlight(p)' <=> InFlight(p)
        /\ \A p \in Callers : InFlight(p) => target'[p] = target[p]
        /\ \A p \in Callers : (at'[p] = "post") <=> (at[p] = "post")
    BY <2>1 DEF Enter, InFlight
  <2>3. (BeingSent(d)' <=> BeingSent(d)) /\ NotYetPosted' = NotYetPosted
    BY <2>2, SameFlight
  <2>4. ~BeingSent(d)
    BY <1>2 DEF SendSafe, RowIsClaimed, BeingSent
  <2>5. StageOf' = [StageOf EXCEPT ![d] = "waiting"]
    <3>1. \A e \in Deliveries : BeingSent(e)' <=> BeingSent(e)
      BY <2>2, SameFlight
    <3>2. \A e \in Deliveries : e # d => StageOf'[e] = StageOf[e]
      BY <2>1, <3>1 DEF StageOf
    <3>3. StageOf'[d] = "waiting"
      BY <2>1, <2>3, <2>4 DEF StageOf
    <3>4. QED
      BY <3>2, <3>3, MappedFunctions
  <2>6. StageOf[d] = "absent"
    BY <1>2, Views
  <2>7. QED
    BY <2>1, <2>3, <2>5, <2>6 DEF Attempts!Reserve
<1>3. QED
  BY <1>1, <1>2

LEMMA ClaimRefines ==
  ASSUME SendInv, NEW p \in Callers, Claim(p)
  PROVE  Attempts!BeginAttempt(target[p])
<1> USE DEF SendInv, TypeOK, DbTypeOK, CallTypeOK, Row
<1>1. PICK d \in Deliveries : d = target[p]
  BY DEF Claim
<1>2. ~BeingSent(d)
  BY <1>1, ClaimIsExclusive DEF BeingSent
<1>3. StageOf[d] = "waiting"
  BY <1>1, <1>2, Views DEF Claim, Claimable
<1>4. /\ at' = [at EXCEPT ![p] = "post"] /\ at[p] = "claim"
      /\ UNCHANGED <<target, posted>>
      /\ row' = [row EXCEPT ![d] = [@ EXCEPT !.status = "SENDING",
                   !.sendingAt = startedAt[p], !.attemptCount = attempt[p]]]
  BY <1>1 DEF Claim
<1>5. /\ StageOf' = [StageOf EXCEPT ![d] = StageOf'[d]]
      /\ NotYetPosted' = [NotYetPosted EXCEPT ![d] = NotYetPosted'[d]]
  BY <1>1, <1>4, OneDeliveryStep DEF InFlight
<1>6. (\E q \in Callers : at'[q] = "post" /\ target'[q] = d) /\ BeingSent(d)'
  BY <1>1, <1>4 DEF BeingSent, InFlight
<1>7. StageOf'[d] = "attempting" /\ NotYetPosted'[d] = TRUE
  BY <1>4, <1>6 DEF StageOf, NotYetPosted
<1>8. QED
  BY <1>1, <1>3, <1>4, <1>5, <1>7 DEF Attempts!BeginAttempt

LEMMA MessageRefines ==
  ASSUME SendInv, NEW p \in Callers, MessageDelivered(p) \/ MessageRefused(p)
  PROVE  Attempts!CallSlack(target[p])
<1> USE DEF SendInv, TypeOK, DbTypeOK, CallTypeOK, Row
<1>1. PICK d \in Deliveries : d = target[p]
  BY DEF MessageDelivered, MessageRefused
<1>2. /\ at' = [at EXCEPT ![p] = "record"] /\ at[p] = "post"
      /\ UNCHANGED <<target, row>>
      /\ posted' \in {posted, [posted EXCEPT ![d] = @ + 1]}
  BY <1>1 DEF MessageDelivered, MessageRefused, db
<1>3. InFlight(p) /\ BeingSent(d) /\ NotYetPosted[d]
  BY <1>1, <1>2 DEF InFlight, BeingSent, NotYetPosted
<1>4. row[d].status # "ABSENT"
  BY <1>1, <1>3 DEF SendSafe, RowIsClaimed
<1>5. StageOf[d] = "attempting"
  BY <1>3, <1>4, Views
<1>6. /\ \A q \in Callers : InFlight(q)' <=> InFlight(q)
      /\ \A q \in Callers : InFlight(q) => target'[q] = target[q]
  BY <1>2 DEF InFlight
<1>7. StageOf' = StageOf
  BY <1>2, <1>6 DEF StageOf, BeingSent
<1>8. ~(\E q \in Callers : at'[q] = "post" /\ target'[q] = d)
  BY <1>1, <1>2 DEF SendSafe, OneAttemptInFlight, InFlight
<1>9. NotYetPosted' = [NotYetPosted EXCEPT ![d] = NotYetPosted'[d]]
  BY <1>1, <1>2, OneDeliveryStep DEF InFlight
<1>10. NotYetPosted'[d] = FALSE
  BY <1>8 DEF NotYetPosted
<1>11. QED
  BY <1>1, <1>2, <1>3, <1>5, <1>7, <1>9, <1>10 DEF Attempts!CallSlack

(* The end of a call that held the claim: recorded or abandoned.            *)
LEMMA EndRefines ==
  ASSUME SendInv, NEW p \in Callers, at[p] = "record", Leave(p),
         UNCHANGED posted,
         \A e \in Deliveries : e # target[p] => row'[e].status = row[e].status,
         row'[target[p]].status \in {"SENDING", "SENT", "FAILED", "SKIPPED"}
  PROVE  Attempts!EndAttempt(target[p])
<1> USE DEF SendInv, TypeOK, DbTypeOK, CallTypeOK, Row
<1>1. PICK d \in Deliveries : d = target[p]
  OBVIOUS
<1>2. InFlight(p) /\ BeingSent(d)
  BY <1>1 DEF InFlight, BeingSent
<1>3. row[d].status # "ABSENT"
  BY <1>1, <1>2 DEF SendSafe, RowIsClaimed
<1>4. StageOf[d] = "attempting"
  BY <1>2, <1>3, Views
<1>5. /\ ~BeingSent(d)'
      /\ ~(\E q \in Callers : at'[q] = "post" /\ target'[q] = d)
  BY <1>1 DEF SendSafe, OneAttemptInFlight, BeingSent, InFlight, Leave
<1>6. /\ StageOf' = [StageOf EXCEPT ![d] = StageOf'[d]]
      /\ NotYetPosted' = [NotYetPosted EXCEPT ![d] = NotYetPosted'[d]]
  BY <1>1, OneDeliveryStep DEF InFlight, Leave
<1>7. StageOf'[d] \in {"waiting", "resolved"} /\ NotYetPosted'[d] = FALSE
  BY <1>1, <1>5 DEF StageOf, NotYetPosted
<1>8. QED
  BY <1>1, <1>4, <1>6, <1>7 DEF Attempts!EndAttempt

LEMMA RecordRefines ==
  ASSUME SendInv, NEW p \in Callers, RecordSent(p) \/ RecordFailed(p)
  PROVE  Attempts!EndAttempt(target[p])
<1> USE DEF SendInv, TypeOK, DbTypeOK, CallTypeOK, Row
<1>1. target[p] \in Deliveries /\ at[p] = "record" /\ Leave(p) /\ UNCHANGED posted
  BY DEF RecordSent, RecordFailed
<1>2. CASE RecordSent(p)
  BY <1>1, <1>2, EndRefines DEF RecordSent
<1>3. CASE RecordFailed(p)
  <2>1. PICK b, n :
          row' = [row EXCEPT ![target[p]] =
                    [@ EXCEPT !.status = "FAILED", !.isRetryable = b,
                              !.nextRetryAt = n]]
    BY <1>3 DEF RecordFailed
  <2>2. /\ \A e \in Deliveries : e # target[p] => row'[e].status = row[e].status
        /\ row'[target[p]].status = "FAILED"
    BY <1>1, <2>1
  <2>3. QED
    BY <1>1, <2>2, EndRefines
<1>4. QED
  BY <1>2, <1>3

LEMMA DatabaseFailsRefines ==
  ASSUME SendInv, NEW p \in Callers, DatabaseFails(p)
  PROVE  Attempts!EndAttempt(target[p]) \/ UNCHANGED Attempts!vars
<1> USE DEF SendInv, TypeOK, DbTypeOK, CallTypeOK, Row
<1>1. CASE at[p] = "record" /\ Leave(p)
  <2>1. row[target[p]].status \in {"SENDING", "SKIPPED"}
    BY <1>1 DEF SendSafe, RowIsClaimed, InFlight
  <2>2. QED
    BY <1>1, <2>1, EndRefines DEF DatabaseFails, db
<1>2. CASE at[p] # "record" /\ Leave(p)
  BY <1>2, InvisibleStep DEF DatabaseFails, Leave, InFlight, db
<1>3. CASE UNCHANGED <<at, target>>
  BY <1>3, InvisibleStep DEF DatabaseFails, InFlight, db
<1>4. QED
  BY <1>1, <1>2, <1>3 DEF DatabaseFails

LEMMA MarkSkippedRefines ==
  ASSUME SendInv, NEW a \in Admins, MarkSkipped(a)
  PROVE  Attempts!GiveUp(target[a]) \/ UNCHANGED Attempts!vars
<1> USE DEF SendInv, TypeOK, DbTypeOK, CallTypeOK, Row, Callers
<1>1. PICK d \in Deliveries : d = target[a]
  BY DEF MarkSkipped
<1>2. /\ row' = [row EXCEPT ![d] = [@ EXCEPT !.status = "SKIPPED",
                                   !.isRetryable = FALSE, !.nextRetryAt = Never]]
      /\ Leave(a) /\ at[a] = "skip" /\ UNCHANGED posted
  BY <1>1 DEF MarkSkipped
<1>3. /\ \A q \in Callers : InFlight(q)' <=> InFlight(q)
      /\ \A q \in Callers : InFlight(q) => target'[q] = target[q]
      /\ \A q \in Callers : (at'[q] = "post") <=> (at[q] = "post")
  BY <1>2 DEF Leave, InFlight
<1>4. (\A e \in Deliveries : BeingSent(e)' <=> BeingSent(e)) /\ NotYetPosted' = NotYetPosted
  BY <1>3, SameFlight
<1>5. row[d].status # "ABSENT"
  BY <1>1, <1>2 DEF SendSafe, RowExists
<1>6. CASE BeingSent(d) \/ row[d].status \in {"SENT", "SKIPPED"}
  <2>1. StageOf' = StageOf
    BY <1>2, <1>4, <1>5, <1>6 DEF StageOf
  <2>2. QED
    BY <1>2, <1>4, <2>1 DEF Attempts!vars
<1>7. CASE ~BeingSent(d) /\ row[d].status \in {"PENDING", "SENDING", "FAILED"}
  <2>1. StageOf' = [StageOf EXCEPT ![d] = "resolved"]
    <3>1. \A e \in Deliveries : e # d => StageOf'[e] = StageOf[e]
      BY <1>2, <1>4 DEF StageOf
    <3>2. StageOf'[d] = "resolved"
      BY <1>2, <1>4, <1>7 DEF StageOf
    <3>3. QED
      BY <3>1, <3>2, MappedFunctions
  <2>2. QED
    BY <1>1, <1>2, <1>4, <1>7, <2>1, Views DEF Attempts!GiveUp
<1>8. QED
  BY <1>5, <1>6, <1>7 DEF Status

LEMMA CrashRefines ==
  ASSUME SendInv, Crash
  PROVE  Attempts!Crash
<1> DEFINE after == [d \in Deliveries |->
                       IF row[d].status = "SKIPPED" THEN "resolved" ELSE "waiting"]
<1>1. after \in [Deliveries -> {"waiting", "resolved"}]
  OBVIOUS
<1>2. \A d \in Deliveries : ~BeingSent(d)'
  BY DEF Crash, BeingSent, InFlight
<1>3. NotYetPosted' = [d \in Deliveries |-> FALSE]
  BY DEF Crash, NotYetPosted
<1>4. \A d \in Deliveries :
        BeingSent(d) => row[d].status \in {"SENDING", "SKIPPED"}
  BY DEF SendInv, SendSafe, RowIsClaimed, BeingSent
<1>5. UNCHANGED <<row, posted>>
  BY DEF Crash, db
<1>6. StageOf' = [d \in Deliveries |->
                  IF StageOf[d] = "attempting" THEN after[d] ELSE StageOf[d]]
  BY <1>2, <1>4, <1>5 DEF StageOf
<1>7. QED
  BY <1>1, <1>3, <1>5, <1>6 DEF Attempts!Crash

LEMMA StepRefines == SendInv /\ [Next]_vars => [Attempts!Next]_(Attempts!vars)
<1> SUFFICES ASSUME SendInv, [Next]_vars
             PROVE  Attempts!Next \/ UNCHANGED Attempts!vars
  OBVIOUS
<1>1. TypeOK /\ CallTypeOK
  BY DEF SendInv, TypeOK
<1>2. ASSUME NEW t \in Ticks, NEW d \in Deliveries,
             ReserveSubscriberDelivery(t, d)
      PROVE  Attempts!Next \/ UNCHANGED Attempts!vars
  BY <1>2, ReserveRefines DEF Attempts!Next
<1>3. ASSUME NEW p \in Callers,
             \/ Claim(p) \/ MessageDelivered(p) \/ MessageRefused(p)
             \/ RecordSent(p) \/ RecordFailed(p) \/ DatabaseFails(p)
      PROVE  Attempts!Next \/ UNCHANGED Attempts!vars
  <2>1. CASE target[p] \in Deliveries
    BY <1>3, <2>1, ClaimRefines, MessageRefines, RecordRefines,
       DatabaseFailsRefines DEF Attempts!Next
  <2>2. CASE target[p] \notin Deliveries
    BY <1>1, <1>3, <2>2
    DEF CallTypeOK, Claim, MessageDelivered, MessageRefused, RecordSent,
        RecordFailed, DatabaseFails
  <2>3. QED
    BY <2>1, <2>2
<1>4. ASSUME NEW a \in Admins, MarkSkipped(a)
      PROVE  Attempts!Next \/ UNCHANGED Attempts!vars
  <2>1. target[a] \in Deliveries
    BY <1>1, <1>4 DEF CallTypeOK, MarkSkipped, Callers
  <2>2. QED
    BY <1>4, <2>1, MarkSkippedRefines DEF Attempts!Next
<1>5. CASE Crash
  BY <1>5, CrashRefines DEF Attempts!Next
<1>6. QED
  BY <1>1, <1>2, <1>3, <1>4, <1>5, InvisibleSteps
  DEF Next, TickStep, AdminStep, SendStep

(* Ticks, admin requests, failures and time together do nothing to the      *)
(* subscribers' messages that DeliveryAttempts does not allow.              *)
THEOREM Refinement == Spec => ImplementsAttempts
BY InitRefines, StepRefines, SendInvariant, PTL
DEF Spec, ImplementsAttempts, Attempts!Spec

(* A row says SENT only if the subscriber received a message (PLAN.md 2.5). *)
THEOREM PostedIfSent == Spec => []SentWasPosted
<1>1. SendInv => SentWasPosted
  BY DEF SendInv, SendSafe
<1>2. QED
  BY <1>1, SendInvariant, PTL

-----------------------------------------------------------------------------
(***************************************************************************)
(* Automatic retries.  A tick queries the rows it may retry before it      *)
(* sends the first of them, and claims each by its status alone: that what *)
(* it queried still holds at the claim is because the lock keeps the other *)
(* ticks out, no admin retries meanwhile, and it sends each row only once. *)
(***************************************************************************)

(* While an undisturbed tick is at work, the others are idle.               *)
LEMMA TickAlone ==
  ASSUME RetryInv, NEW t \in Ticks, Undisturbed(t)
  PROVE  \A s \in Ticks \ {t} : /\ phase[s] = "idle" /\ at[s] = "idle"
                                /\ \A d : ~Concerns(s, d)
BY DEF RetryInv, TickShape, TicksExclude, Concerns

(* And whoever is sending is that tick.                                     *)
LEMMA SenderIsTick ==
  ASSUME TypeOK, RetryInv, NEW t \in Ticks, Undisturbed(t),
         NEW p \in Callers, at[p] \notin {"idle", "skip"}
  PROVE  p = t
<1>1. p \in Ticks \ {t} => at[p] = "idle"
  BY TickAlone
<1>2. p \in Admins => Retrying(p)
  BY DEF TypeOK, CallTypeOK, Retrying, Callers
<1>3. p \notin Admins
  BY <1>2 DEF RetryInv, TicksExclude
<1>4. QED
  BY <1>1, <1>3 DEF Callers

(* What concerned a tick before and has not changed is eligible still.      *)
LEMMA EligibleKept ==
  ASSUME RetryInv,
         \A t \in Ticks, d \in Deliveries :
           Undisturbed(t)' /\ Concerns(t, d)' /\ row'[d].status = "FAILED" =>
             /\ Undisturbed(t) /\ Concerns(t, d)
             /\ row'[d] = row[d] /\ nowUtc'[t] = nowUtc[t]
             /\ at'[t] = "claim" /\ target'[t] = d =>
                  /\ at[t] = "claim" /\ target[t] = d
                  /\ attempt'[t] = attempt[t] /\ startedAt'[t] = startedAt[t]
  PROVE  StillEligible'
BY DEF RetryInv, StillEligible, EligibleFailed

(* A tick that stays undisturbed keeps its exclusion when no tick starts,   *)
(* no admin begins a retry and the lock changes hands only by its end.      *)
LEMMA ExclusionKept ==
  ASSUME RetryInv,
         \A t \in Ticks : Undisturbed(t)' => Undisturbed(t) /\ lock' = lock,
         \A t \in Ticks : phase'[t] # "idle" => phase[t] # "idle",
         \A a \in Admins : Retrying(a)' => Retrying(a)
  PROVE  TicksExclude'
BY DEF RetryInv, TicksExclude

LEMMA StartRetries ==
  ASSUME TypeOK, RetryInv, NEW t \in Ticks, StartTick(t)
  PROVE  RetryInv'
<1> USE DEF TypeOK, TickTypeOK, CallTypeOK, CountTypeOK
<1>1. /\ phase[t] = "idle" /\ lock = None /\ at[t] = "idle"
      /\ phase' = [phase EXCEPT ![t] = "due"] /\ lock' = t
      /\ nowUtc' = [nowUtc EXCEPT ![t] = clock]
      /\ NoteStart(t) /\ UNCHANGED <<at, target, clock>>
      /\ \A s \in Ticks \ {t} : todo'[s] = todo[s]
  BY DEF StartTick, call, RetryInv, TickShape
<1>2. \A s \in Ticks : ~Undisturbed(s)
  BY <1>1, DeliveryAssumption DEF RetryInv, TicksExclude
<1>3. \A s \in Ticks : Undisturbed(s)' => s = t
  BY <1>1, <1>2 DEF Undisturbed, NoteStart
<1>4. Undisturbed(t)' => /\ \A s \in Ticks : phase[s] = "idle"
                         /\ \A a \in Admins : ~Retrying(a)
  BY <1>1, <1>2 DEF Undisturbed, NoteStart
<1>5. TickShape'
  BY <1>1 DEF RetryInv, TickShape, Callers
<1>6. TicksExclude'
  BY <1>1, <1>3, <1>4 DEF TicksExclude, Retrying
<1>7. \A d : ~Concerns(t, d)'
  BY <1>1 DEF Concerns
<1>8. QED
  BY <1>3, <1>5, <1>6, <1>7, EligibleKept DEF RetryInv

LEMMA ReserveRetries ==
  ASSUME TypeOK, RetryInv, NEW t \in Ticks, NEW d \in Deliveries,
         ReserveSubscriberDelivery(t, d)
  PROVE  RetryInv'
<1> USE DEF TypeOK, DbTypeOK, TickTypeOK, CallTypeOK
<1>1. /\ phase[t] = "due" /\ at[t] = "idle"
      /\ UNCHANGED <<lock, phase, nowUtc, clock, disturbed>>
      /\ todo' = [todo EXCEPT ![t] = @ \ {d}]
      /\ \/ /\ row' = [row EXCEPT ![d].status = "PENDING"]
            /\ at' = [at EXCEPT ![t] = "read"] /\ target' = [target EXCEPT ![t] = d]
         \/ UNCHANGED <<row, at, target>>
  BY DEF ReserveSubscriberDelivery, Enter, call
<1>2. \A s \in Ticks : Undisturbed(s)' = Undisturbed(s)
  BY <1>1 DEF Undisturbed
<1>3. TickShape'
  BY <1>1 DEF RetryInv, TickShape, Callers
<1>4. TicksExclude'
  BY <1>1, <1>2, DeliveryAssumption, ExclusionKept DEF Retrying, Callers
<1>5. ASSUME NEW s \in Ticks, NEW e \in Deliveries, Undisturbed(s)', Concerns(s, e)'
      PROVE  row'[e].status # "FAILED"
  <2>1. s = t
    BY <1>1, <1>2, <1>5, TickAlone
  <2>2. QED
    BY <1>1, <1>5, <2>1 DEF Concerns, Callers, Row
<1>6. QED
  BY <1>3, <1>4, <1>5, EligibleKept DEF RetryInv

LEMMA QueryRetries ==
  ASSUME TypeOK, RetryInv, NEW t \in Ticks, QueryFailed(t) \/ QueryStale(t)
  PROVE  RetryInv'
<1> USE DEF TypeOK, DbTypeOK, TickTypeOK, CallTypeOK
<1>1. /\ phase[t] \in {"due", "query"} /\ at[t] = "idle"
      /\ UNCHANGED <<lock, nowUtc, clock, disturbed, row, at, target, attempt, startedAt>>
      /\ \E s \in {"query", "sweep"} : phase' = [phase EXCEPT ![t] = s]
      /\ \/ todo' = [todo EXCEPT ![t] = EligibleFailed(t)]
         \/ phase[t] = "query" /\ todo' = [todo EXCEPT ![t] = @ \cup StaleSending(t)]
  BY DEF QueryFailed, QueryStale, call, db, RetryInv, TickShape
<1>2. \A s \in Ticks : Undisturbed(s)' = Undisturbed(s)
  BY <1>1 DEF Undisturbed
<1>3. TickShape'
  BY <1>1 DEF RetryInv, TickShape
<1>4. TicksExclude'
  BY <1>1, <1>2, ExclusionKept DEF Retrying
<1>5. StillEligible'
  <2> SUFFICES ASSUME NEW s \in Ticks, NEW d \in Deliveries, Undisturbed(s)',
                      Concerns(s, d)', row'[d].status = "FAILED"
               PROVE  d \in EligibleFailed(s) /\ at'[s] # "claim"
    BY <1>1 DEF StillEligible, EligibleFailed
  <2>0. s = t
    BY <1>1, <1>2, TickAlone
  <2>1. d \in todo'[t]
    BY <1>1, <2>0 DEF Concerns
  <2>2. CASE todo'[t] = EligibleFailed(t)
    BY <1>1, <2>0, <2>1, <2>2
  <2>3. CASE phase[t] = "query" /\ todo'[t] = todo[t] \cup StaleSending(t)
    <3>1. d \notin StaleSending(t)
      BY <1>1 DEF StaleSending
    <3>2. Concerns(t, d)
      BY <2>1, <2>3, <3>1 DEF Concerns
    <3>3. QED
      BY <1>1, <1>2, <2>0, <3>2 DEF RetryInv, StillEligible
  <2>4. QED
    BY <1>1, <2>2, <2>3
<1>6. QED
  BY <1>3, <1>4, <1>5 DEF RetryInv

LEMMA SweepRetries ==
  ASSUME TypeOK, RetryInv, NEW t \in Ticks, NEW d \in Deliveries, SweepNext(t, d)
  PROVE  RetryInv'
<1> USE DEF TypeOK, DbTypeOK, TickTypeOK, CallTypeOK
<1>1. /\ phase[t] = "sweep" /\ d \in todo[t]
      /\ UNCHANGED <<lock, phase, nowUtc, clock, disturbed, row, attempt, startedAt>>
      /\ todo' = [todo EXCEPT ![t] = @ \ {d}]
      /\ at' = [at EXCEPT ![t] = "read"] /\ target' = [target EXCEPT ![t] = d]
  BY DEF SweepNext, Enter, db
<1>2. \A s \in Ticks : Undisturbed(s)' = Undisturbed(s)
  BY <1>1 DEF Undisturbed
<1>3. TickShape'
  BY <1>1 DEF RetryInv, TickShape, Callers
<1>4. TicksExclude'
  BY <1>1, <1>2, DeliveryAssumption, ExclusionKept DEF Retrying, Callers
<1>5. ASSUME NEW s \in Ticks, NEW e \in Deliveries, Undisturbed(s)', Concerns(s, e)'
      PROVE  Concerns(s, e) /\ at'[s] # "claim"
  <2>1. s = t
    BY <1>1, <1>2, <1>5, TickAlone
  <2>2. QED
    BY <1>1, <1>5, <2>1 DEF Concerns, Callers
<1>6. QED
  BY <1>1, <1>2, <1>3, <1>4, <1>5, EligibleKept DEF RetryInv

(* The end of a tick, the end of its lock, and the end of all of them.      *)
LEMMA EndRetries ==
  ASSUME TypeOK, RetryInv, NEW t \in Ticks, EndTick(t) \/ QueryFails(t)
  PROVE  RetryInv'
<1> USE DEF TypeOK, DbTypeOK, TickTypeOK, CallTypeOK, CountTypeOK
<1>1. /\ phase[t] # "idle" /\ at[t] = "idle"
      /\ UNCHANGED <<clock, row, at, target, attempt, startedAt>>
      /\ nowUtc' = [nowUtc EXCEPT ![t] = 0]
      /\ phase' = [phase EXCEPT ![t] = "idle"]
      /\ disturbed' = disturbed \ {t}
      /\ lock' = IF lock = t THEN None ELSE lock
      /\ \A s \in Ticks \ {t} : todo'[s] = todo[s]
  BY DEF EndTick, QueryFails, call, db, RetryInv, TickShape
<1>2. \A s \in Ticks : Undisturbed(s)' => Undisturbed(s) /\ s # t
  BY <1>1 DEF Undisturbed
<1>3. TickShape'
  BY <1>1 DEF RetryInv, TickShape
<1>4. \A s \in Ticks : ~Undisturbed(s)'
  BY <1>1, <1>2, TickAlone
<1>5. TicksExclude' /\ StillEligible'
  BY <1>4 DEF TicksExclude, StillEligible
<1>6. QED
  BY <1>3, <1>5 DEF RetryInv

LEMMA ExpiryRetries ==
  ASSUME TypeOK, RetryInv, NEW t \in Ticks, LockExpires(t)
  PROVE  RetryInv'
<1>1. /\ lock = t /\ disturbed' = disturbed \cup {t}
      /\ UNCHANGED <<row, clock, phase, nowUtc, todo, at, target, attempt, startedAt>>
  BY DEF LockExpires, db, call
<1>2. TickShape'
  BY <1>1 DEF RetryInv, TickShape
<1>3. \A s \in Ticks : ~Undisturbed(s)'
  BY <1>1 DEF RetryInv, TicksExclude, Undisturbed
<1>4. QED
  BY <1>2, <1>3 DEF RetryInv, TicksExclude, StillEligible

LEMMA CrashRetries ==
  ASSUME TypeOK, RetryInv, Crash
  PROVE  RetryInv'
<1> USE DEF TypeOK, CountTypeOK
<1>1. TickShape' /\ \A s \in Ticks : ~Undisturbed(s)'
  BY DEF Crash, TickShape, Undisturbed, Callers
<1>2. QED
  BY <1>1 DEF RetryInv, TicksExclude, StillEligible

(* An admin's retry disturbs the ticks that run.                            *)
LEMMA RequestRetries ==
  ASSUME TypeOK, RetryInv, NEW a \in Admins, NEW d \in Deliveries, RetryRequest(a, d)
  PROVE  RetryInv'
<1> USE DEF TypeOK, CallTypeOK, TickTypeOK, Callers
<1>1. /\ UNCHANGED <<lock, phase, nowUtc, clock, todo>>
      /\ disturbed' = disturbed \cup {t \in Ticks : phase[t] # "idle"}
      /\ \A t \in Ticks : at'[t] = at[t] /\ target'[t] = target[t]
  BY DeliveryAssumption DEF RetryRequest, Enter
<1>2. TickShape' /\ \A s \in Ticks : ~Undisturbed(s)'
  BY <1>1 DEF RetryInv, TickShape, Undisturbed
<1>3. QED
  BY <1>2 DEF RetryInv, TicksExclude, StillEligible

(* Admins skip.                                                             *)
LEMMA SkipRetries ==
  ASSUME TypeOK, RetryInv, NEW a \in Admins,
         (\E d \in Deliveries : SkipRequest(a, d)) \/ MarkSkipped(a)
  PROVE  RetryInv'
<1> USE DEF TypeOK, DbTypeOK, TickTypeOK, CallTypeOK, Callers
<1>1. /\ UNCHANGED <<lock, phase, nowUtc, clock, todo, disturbed>>
      /\ \A t \in Ticks : /\ at'[t] = at[t] /\ target'[t] = target[t]
                          /\ attempt'[t] = attempt[t] /\ startedAt'[t] = startedAt[t]
      /\ at'[a] \in {"idle", "skip"}
      /\ \A b \in Admins \ {a} : at'[b] = at[b]
  BY DeliveryAssumption DEF SkipRequest, MarkSkipped, Enter, Leave, tickVars
<1>2. \A e \in Deliveries : row'[e] = row[e] \/ row'[e].status = "SKIPPED"
  <2>1. CASE MarkSkipped(a)
    BY <2>1 DEF MarkSkipped, Row
  <2>2. CASE \E d \in Deliveries : SkipRequest(a, d)
    BY <2>2 DEF SkipRequest, db
  <2>3. QED
    BY <2>1, <2>2
<1>3. TickShape'
  BY <1>1 DEF RetryInv, TickShape
<1>4. \A t \in Ticks : Undisturbed(t)' = Undisturbed(t)
  BY <1>1 DEF Undisturbed
<1>5. TicksExclude'
  BY <1>1, <1>4, ExclusionKept DEF Retrying
<1>6. \A t \in Ticks, e \in Deliveries : Concerns(t, e)' => Concerns(t, e)
  BY <1>1 DEF Concerns
<1>7. QED
  BY <1>1, <1>2, <1>3, <1>4, <1>5, <1>6, EligibleKept DEF RetryInv

(* An attempt: only its end records a failure, of a row that no longer      *)
(* concerns the tick.                                                       *)
LEMMA ReadRetries ==
  ASSUME TypeOK, RetryInv, NEW p \in Callers, ReadDelivery(p)
  PROVE  RetryInv'
<1> USE DEF TypeOK, DbTypeOK, TickTypeOK, CallTypeOK, CountTypeOK
<1>1. /\ at[p] = "read" /\ at' = [at EXCEPT ![p] = "claim"]
      /\ attempt' = [attempt EXCEPT ![p] = row[target[p]].attemptCount + 1]
      /\ startedAt' = [startedAt EXCEPT ![p] = clock]
      /\ UNCHANGED <<target, row, clock, lock, phase, nowUtc, todo, disturbed>>
  BY DEF ReadDelivery, db, tickVars
<1>2. \A t \in Ticks : Undisturbed(t)' = Undisturbed(t)
  BY <1>1 DEF Undisturbed
<1>3. TickShape'
  BY <1>1 DEF RetryInv, TickShape, Callers
<1>4. TicksExclude'
  BY <1>1, <1>2, ExclusionKept DEF Retrying, Callers
<1>5. StillEligible'
  <2> SUFFICES ASSUME NEW s \in Ticks, NEW d \in Deliveries, Undisturbed(s),
                      Concerns(s, d)', row[d].status = "FAILED"
               PROVE  /\ d \in EligibleFailed(s)
                      /\ at'[s] = "claim" /\ target[s] = d =>
                           attempt'[s] = row[d].attemptCount + 1 /\ nowUtc[s] <= startedAt'[s]
    BY <1>1, <1>2 DEF StillEligible, EligibleFailed
  <2>1. s = p
    BY <1>1, SenderIsTick
  <2>2. Concerns(p, d)
    BY <1>1, <2>1 DEF Concerns
  <2>3. d \in EligibleFailed(p)
    BY <2>1, <2>2 DEF RetryInv, StillEligible
  <2>4. nowUtc[p] <= clock
    BY <2>1 DEF RetryInv, TickShape
  <2>5. QED
    BY <1>1, <2>1, <2>3, <2>4
<1>6. QED
  BY <1>3, <1>4, <1>5 DEF RetryInv

LEMMA AttemptRetries ==
  ASSUME TypeOK, RetryInv, NEW p \in Callers, at[p] # "idle",
         UNCHANGED <<lock, phase, nowUtc, clock, todo, disturbed>>,
         \/ /\ at[p] # "skip"
            /\ \E s \in {"post", "record"} : at' = [at EXCEPT ![p] = s]
            /\ UNCHANGED target
         \/ at[p] = "record" /\ UNCHANGED <<at, target>>
         \/ Leave(p),
         \A e \in Deliveries : e # target[p] => row'[e] = row[e],
         at[p] = "skip" => row' = row
  PROVE  RetryInv'
<1> USE DEF TypeOK, DbTypeOK, TickTypeOK, CallTypeOK
<1>1. /\ at'[p] \in {"idle", "post", "record"}
      /\ at[p] = "skip" => at'[p] = "idle"
      /\ \A q \in Callers \ {p} : at'[q] = at[q] /\ target'[q] = target[q]
      /\ at'[p] # "idle" => target'[p] = target[p]
      /\ target[p] \in Deliveries
  BY DEF Leave
<1>2. \A t \in Ticks : Undisturbed(t)' = Undisturbed(t)
  BY DEF Undisturbed
<1>3. TickShape'
  BY <1>1 DEF RetryInv, TickShape, Callers
<1>4. \A a \in Admins : Retrying(a)' => Retrying(a)
  BY <1>1 DEF Retrying, Callers
<1>5. TicksExclude'
  BY <1>2, <1>4, ExclusionKept
<1>6. ASSUME NEW s \in Ticks, NEW e \in Deliveries, Undisturbed(s), Concerns(s, e)'
      PROVE  /\ Concerns(s, e) /\ row'[e] = row[e]
             /\ at'[s] = "claim" => /\ at[s] = "claim" /\ target'[s] = target[s]
                                    /\ attempt'[s] = attempt[s] /\ startedAt'[s] = startedAt[s]
  <2>1. CASE at[p] = "skip"
    <3>1. p # s /\ Leave(p)
      BY <1>1, <2>1 DEF RetryInv, TickShape
    <3>2. QED
      BY <1>1, <1>6, <2>1, <3>1 DEF Concerns, Leave, Callers
  <2>2. CASE at[p] # "skip"
    <3>1. s = p
      BY <2>2, <1>6, SenderIsTick
    <3>2. e \in todo[p] /\ phase[p] \in {"query", "sweep"}
      BY <1>1, <1>6, <3>1 DEF Concerns
    <3>3. target[p] \notin todo[p]
      BY <3>1 DEF RetryInv, TickShape
    <3>4. QED
      BY <1>1, <3>1, <3>2, <3>3 DEF Concerns
  <2>3. QED
    BY <2>1, <2>2
<1>7. QED
  BY <1>2, <1>3, <1>5, <1>6, EligibleKept DEF RetryInv

LEMMA InitRetries == Init => RetryInv
BY DEF Init, RetryInv, TickShape, TicksExclude, StillEligible, Undisturbed, Callers

LEMMA RetryStep == TypeOK /\ RetryInv /\ [Next]_vars => RetryInv'
<1> SUFFICES ASSUME TypeOK, RetryInv, [Next]_vars
             PROVE  RetryInv'
  OBVIOUS
<1>1. CASE UNCHANGED vars
  BY <1>1 DEF RetryInv, TickShape, TicksExclude, StillEligible, Undisturbed, Retrying,
     Concerns, EligibleFailed, vars, db, tickVars, call
<1>2. CASE Advance
  <2>1. UNCHANGED <<row, lock, phase, nowUtc, todo, disturbed, at, target, attempt, startedAt>>
    BY <1>2 DEF Advance, db, tickVars, call
  <2>2. clock' = clock + 1 /\ clock \in Nat /\ nowUtc \in [Ticks -> Nat]
    BY <1>2 DEF Advance, TypeOK, CountTypeOK, TickTypeOK
  <2>3. TickShape'
    BY <2>1, <2>2 DEF RetryInv, TickShape
  <2>4. TicksExclude' /\ StillEligible'
    BY <2>1 DEF RetryInv, TicksExclude, StillEligible, Undisturbed, Retrying, Concerns,
       EligibleFailed
  <2>5. QED
    BY <2>3, <2>4 DEF RetryInv
<1>3. ASSUME NEW p \in Callers,
             \/ Claim(p) \/ ClaimLost(p) \/ MessageDelivered(p) \/ MessageRefused(p)
             \/ RecordSent(p) \/ RecordFailed(p)
      PROVE  RetryInv'
  <2> USE DEF TypeOK, DbTypeOK, tickVars, db
  <2>1. CASE Claim(p)
    BY <2>1, AttemptRetries DEF Claim
  <2>2. CASE ClaimLost(p)
    BY <2>2, AttemptRetries DEF ClaimLost
  <2>3. CASE MessageDelivered(p) \/ MessageRefused(p)
    BY <2>3, AttemptRetries DEF MessageDelivered, MessageRefused
  <2>4. CASE RecordSent(p)
    BY <2>4, AttemptRetries DEF RecordSent
  <2>5. CASE RecordFailed(p)
    <3>1. \A e \in Deliveries : e # target[p] => row'[e] = row[e]
      BY <2>5 DEF RecordFailed
    <3>2. QED
      BY <2>5, <3>1, AttemptRetries DEF RecordFailed
  <2>6. QED
    BY <1>3, <2>1, <2>2, <2>3, <2>4, <2>5
<1>4. ASSUME NEW p \in Callers, DatabaseFails(p) PROVE RetryInv'
  <2>1. at[p] # "idle" /\ UNCHANGED <<lock, phase, nowUtc, clock, todo, disturbed, row>>
    BY <1>4 DEF DatabaseFails, db, tickVars
  <2>2. (at[p] = "record" /\ UNCHANGED <<at, target>>) \/ Leave(p)
    BY <1>4 DEF DatabaseFails
  <2>3. QED
    BY <2>1, <2>2, AttemptRetries
<1>5. CASE Next /\ ~UNCHANGED vars
  BY <1>2, <1>3, <1>4, <1>5, StartRetries, ReserveRetries, QueryRetries, SweepRetries,
     EndRetries, ExpiryRetries, CrashRetries, RequestRetries, SkipRetries, ReadRetries
  DEF Next, TickStep, SendStep, AdminStep
<1>6. QED
  BY <1>1, <1>5

(* A caller leaves the claim for the post by a successful claim only.       *)
LEMMA OnlyClaimPosts ==
  ASSUME TypeOK, Next, NEW p \in Callers, at[p] = "claim", at'[p] = "post"
  PROVE  Claim(p)
<1> USE DEF TypeOK, CallTypeOK
<1>1. ASSUME NEW q \in Callers, SendStep(q) \/ DatabaseFails(q)
      PROVE  Claim(p)
  <2>1. CASE q = p
    BY <1>1, <2>1
    DEF SendStep, ReadDelivery, ClaimLost, MessageDelivered, MessageRefused, RecordSent,
        RecordFailed, DatabaseFails, Leave
  <2>2. CASE q # p
    BY <1>1, <2>2
    DEF SendStep, ReadDelivery, Claim, ClaimLost, MessageDelivered, MessageRefused,
        RecordSent, RecordFailed, DatabaseFails, Leave
  <2>3. QED
    BY <2>1, <2>2
<1>2. ASSUME NEW t \in Ticks, StartTick(t) \/ TickStep(t) \/ QueryFails(t) \/ LockExpires(t)
      PROVE  FALSE
  BY <1>2 DEF StartTick, TickStep, ReserveSubscriberDelivery, SweepNext, QueryFailed,
     QueryStale, EndTick, QueryFails, LockExpires, Enter, call, Callers
<1>3. ASSUME NEW a \in Admins, AdminStep(a)
      PROVE  FALSE
  BY <1>3 DEF AdminStep, RetryRequest, SkipRequest, MarkSkipped, Enter, Leave, Callers
<1>4. ~Crash /\ ~Advance
  BY DEF Crash, Advance, call
<1>5. QED
  BY <1>1, <1>2, <1>3, <1>4 DEF Next

(* PLAN.md 5.17 and 2455: a tick sends a FAILED row again only after a      *)
(* transient failure, at or after its nextRetryAt and within the automatic  *)
(* attempts: what the sweep's query established still holds at the claim    *)
(* (src/deliveries/delivery-orchestrator.service.ts), unless the tick met   *)
(* another that had outlasted its lock, or an admin's retry.                *)
THEOREM AutomaticRetries == Spec => AutomaticRetryAllowed
<1> DEFINE Again(t, d) == /\ at[t] = "claim" /\ at'[t] = "post" /\ target[t] = d
                          /\ row[d].status = "FAILED"
                          /\ t \notin disturbed
           Allowed(d) == /\ row[d].isRetryable
                         /\ row[d].nextRetryAt # Never
                         /\ row[d].nextRetryAt <= row'[d].sendingAt
                         /\ row'[d].attemptCount <= MaxAutomaticAttempts
<1>1. ASSUME TypeOK, RetryInv, [Next]_vars
      PROVE  [\A t \in Ticks, d \in Deliveries : Again(t, d) => Allowed(d)]_vars
  <2> SUFFICES ASSUME NEW t \in Ticks, NEW d \in Deliveries, Next, Again(t, d)
               PROVE  Allowed(d)
    BY <1>1
  <2> USE DEF TypeOK, DbTypeOK, TickTypeOK, CallTypeOK, Row
  <2>1. Claim(t) /\ t \in Callers
    BY <1>1, OnlyClaimPosts DEF Callers
  <2>2. row'[d].sendingAt = startedAt[t] /\ row'[d].attemptCount = attempt[t]
    BY <1>1, <2>1 DEF Claim
  <2>3. Undisturbed(t) /\ Concerns(t, d)
    BY <1>1, <2>1 DEF Undisturbed, Concerns, RetryInv, TickShape
  <2>4. /\ d \in EligibleFailed(t)
        /\ attempt[t] = row[d].attemptCount + 1 /\ nowUtc[t] <= startedAt[t]
    BY <1>1, <2>3 DEF RetryInv, StillEligible
  <2>5. /\ row[d].nextRetryAt \in Nat \cup {Never} /\ row[d].attemptCount \in Nat
        /\ nowUtc[t] \in Nat /\ startedAt[t] \in Nat
    BY <1>1, <2>1
  <2>6. MaxAutomaticAttempts \in Nat
    BY DeliveryAssumption
  <2>7. QED
    BY <2>2, <2>4, <2>5, <2>6 DEF EligibleFailed, Never
<1>2. QED
  BY <1>1, InitRetries, RetryStep, TypeCorrect, PTL
  DEF Spec, AutomaticRetryAllowed
=============================================================================
