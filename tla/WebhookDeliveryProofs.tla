------------------------ MODULE WebhookDeliveryProofs ------------------------
(***************************************************************************)
(* The inductive invariant of WebhookDelivery.                             *)
(***************************************************************************)
EXTENDS WebhookDelivery, TLAPS

\* The receipt may be selected by a poller.
Eligible(r) == r.status \in {"RECEIVED", "QUEUED"} \/ (r.status = "FAILED" /\ r.next)
FirstError(r) == r.error \in {"handler", "terminal"}
Certified == handler.notice # "none"

\* What every receipt that was ever stored looks like.
Sound(r) ==
  /\ FirstError(r) => r.status = "FAILED"
  /\ r.error \in {"terminal", "timeout", "unaccounted"} => r.status = "FAILED" /\ ~r.next
  /\ r.fence # NoOwner => r.error = "timeout"

\* An attempt beyond the cap ends the attempts.  A certified notice is enqueued
\* once more behind it, and then the same holds one attempt later.
Fits(r) ==
  /\ r.attempts <= MaxEnqueueAttempts + 1
  /\ Eligible(r) => r.attempts <= MaxEnqueueAttempts
Capped ==
  /\ Certified \/ Fits(receipt)
  /\ Eligible(receipt) => receipt.attempts <= MaxEnqueueAttempts + 1

\* A snapshot that is fresh is the receipt, and the receipt is still eligible.
PollerInv(p) ==
  /\ p \in fresh => poll[p].snap = receipt /\ Eligible(receipt)
  /\ poll[p].pc # "idle" => poll[p].snap.attempts <= MaxEnqueueAttempts + 1
  /\ poll[p].pc \in {"activate", "reactivate"} => poll[p].snap.attempts < MaxEnqueueAttempts

Unreturned == {"run", "record", "reject", "timedOut", "unfenced", "detached"}
Returned == {"checkpoint", "settle"}
Recovering == {"notice", "deliver", "sending", "book", "rejectNotice"}

\* Only the retry of a certified notice makes a first error eligible again.
Retrying(r) == r.error = "handler" /\ r.next

\* What an execution read, and what it may conclude from where it is.
SourceInv(w) ==
  /\ w \in fresh => /\ exec[w].source = Compared(receipt)
                    /\ exec[w].pc \in {"judge", "disown", "leased", "start"}
  /\ exec[w].source.status # "PROCESSED" /\ Sound(exec[w].source)
  /\ FirstError(exec[w].source) => claim.started # NoOwner
  /\ Retrying(exec[w].source) => Certified
  /\ exec[w].pc = "disown" /\ FirstError(exec[w].source) => Retrying(exec[w].source)
  /\ exec[w].pc \in {"leased", "start", "rejectNotice"} \cup Unreturned \cup Returned =>
       ~FirstError(exec[w].source)

\* The execution past its start is the one the claim names.
StartedInv(w) ==
  /\ exec[w].pc \in Unreturned => claim.started = w /\ ~claim.finished /\ claim.status = "READY"
  /\ exec[w].pc \in Returned => claim.started = w /\ handler.returned
  /\ exec[w].pc \in Unreturned \cup Returned => ~Certified
  /\ exec[w].pc \in (Unreturned \cup Returned) \ {"reject"} => ~FirstError(receipt)
  /\ exec[w].pc \in Recovering => Certified
  /\ exec[w].pc = "rejectNotice" => claim.started = w /\ (claim.token = w => Fits(receipt))
  /\ exec[w].outcome # "none" => exec[w].pc \in {"unfenced", "detached"}
  /\ exec[w].outcome = "returned" => handler.returned
  /\ exec[w].pc = "detached" => Pending(receipt) /\ receipt.fence = w

ClaimInv ==
  /\ handler.starts <= 1 /\ (handler.starts = 1 => claim.started # NoOwner)
  /\ claim.finished => handler.returned /\ claim.started # NoOwner
  /\ FirstError(receipt) \/ Certified => claim.started # NoOwner /\ ~claim.finished
  /\ Retrying(receipt) => Certified
  /\ SettledTogether /\ ProcessedIsProven

Inv ==
  /\ TypeOK /\ Sound(receipt) /\ Capped /\ ClaimInv
  /\ \A p \in Pollers : PollerInv(p)
  /\ \A w \in Executions : SourceInv(w) /\ StartedInv(w)

(***************************************************************************)
(* Types.                                                                  *)
(***************************************************************************)

LEMMA ReceiptValues ==
  ASSUME NEW r \in Receipts, NEW e \in Errors, NEW f \in Executions \cup {NoOwner}
  PROVE  /\ Processed(r) \in Receipts
         /\ Failed(r, e) \in Receipts
         /\ [Failed(r, e) EXCEPT !.queue = NoQueue] \in Receipts
         /\ [Failed(r, e) EXCEPT !.fence = f] \in Receipts
         /\ \A b \in BOOLEAN :
              [Failed(r, e) EXCEPT !.queue = NoQueue, !.next = b] \in Receipts
         /\ Compared(r) \in Receipts
<1>1. Processed(r) \in Receipts
  BY DEF Receipts, Processed, Errors
<1>2. Failed(r, e) \in Receipts
  BY DEF Receipts, Failed
<1>3. \A x \in Receipts : [x EXCEPT !.queue = NoQueue] \in Receipts
                          /\ [x EXCEPT !.fence = f] \in Receipts
                          /\ \A b \in BOOLEAN :
                               [x EXCEPT !.queue = NoQueue, !.next = b] \in Receipts
  BY DEF Receipts
<1>4. Compared(r) \in Receipts
  <2>1. 0 \in 0..(MaxEnqueueAttempts + 2)
    BY WebhookConstants
  <2>2. QED
    BY <2>1 DEF Receipts, Compared
<1>5. QED
  BY <1>1, <1>2, <1>3, <1>4

LEMMA ClaimValues ==
  ASSUME NEW c \in Claims, NEW w \in Executions
  PROVE  /\ Released(c) \in Claims /\ Completed(c) \in Claims
         /\ [c EXCEPT !.status = "READY"] \in Claims
         /\ [c EXCEPT !.token = w, !.live = TRUE] \in Claims
         /\ [c EXCEPT !.live = TRUE] \in Claims /\ [c EXCEPT !.live = FALSE] \in Claims
         /\ [c EXCEPT !.started = w] \in Claims /\ [c EXCEPT !.finished = TRUE] \in Claims
         /\ [Released(c) EXCEPT !.started = w] \in Claims
BY DEF Claims, Released, Completed

LEMMA JobValues ==
  ASSUME NEW j \in Jobs, NEW o \in Executions \cup {NoOwner}, NEW s \in JobStates
  PROVE  /\ NoJob \in Jobs /\ NewJob \in Jobs
         /\ [j EXCEPT !.state = s] \in Jobs
         /\ [j EXCEPT !.state = s, !.owner = o] \in Jobs
         /\ (j.stalls < MaxStalls =>
               [j EXCEPT !.state = s, !.stalls = j.stalls + 1, !.owner = o] \in Jobs)
<1> USE WebhookConstants
<1>1. NoJob \in Jobs /\ NewJob \in Jobs
  BY DEF NoJob, NewJob, Jobs, JobStates
<1>2. [j EXCEPT !.state = s] \in Jobs /\ [j EXCEPT !.state = s, !.owner = o] \in Jobs
  BY DEF Jobs
<1>3. ASSUME j.stalls < MaxStalls
      PROVE  [j EXCEPT !.state = s, !.stalls = j.stalls + 1, !.owner = o] \in Jobs
  <2>1. j.stalls + 1 \in 0..MaxStalls
    BY <1>3 DEF Jobs
  <2>2. \A n \in 0..MaxStalls : [j EXCEPT !.state = s, !.stalls = n, !.owner = o] \in Jobs
    BY DEF Jobs
  <2>3. QED
    BY <2>1, <2>2
<1>4. QED
  BY <1>1, <1>2, <1>3

LEMMA IdleTypes ==
  /\ Received \in Receipts /\ Unprepared \in Claims
  /\ IdlePoller \in PollerStates /\ IdleExecution \in ExecutionStates
<1> USE WebhookConstants
<1>1. Received \in Receipts
  BY DEF Received, Receipts, Errors
<1>2. Unprepared \in Claims
  BY DEF Unprepared, Claims
<1>3. IdlePoller \in PollerStates /\ IdleExecution \in ExecutionStates
  BY <1>1 DEF IdlePoller, PollerStates, PollerPcs, IdleExecution, ExecutionStates, ExecutionPcs
<1>4. QED
  BY <1>1, <1>2, <1>3

LEMMA InitInv == Init => Inv
<1> SUFFICES ASSUME Init PROVE Inv
  OBVIOUS
<1> USE WebhookConstants DEF Init
<1>1. TypeOK
  <2>1. NoJob \in Jobs
    BY DEF NoJob, Jobs, JobStates
  <2>2. QED
    BY <2>1, IdleTypes DEF TypeOK, Notices
<1>2. Sound(receipt) /\ Capped /\ ClaimInv
  <2>1. Capped
    BY DEF Capped, Fits, Eligible, Received
  <2>2. Sound(receipt) /\ ClaimInv
    BY DEF Sound, FirstError, Certified, Retrying, ClaimInv, SettledTogether,
           ProcessedIsProven, Received, Unprepared
  <2>3. QED
    BY <2>1, <2>2
<1>3. \A p \in Pollers : PollerInv(p)
  BY DEF PollerInv, IdlePoller
<1>4. \A w \in Executions : SourceInv(w) /\ StartedInv(w)
  BY DEF SourceInv, StartedInv, IdleExecution, Received, Sound, FirstError, Retrying,
         Unreturned, Returned, Recovering
<1>5. QED
  BY <1>1, <1>2, <1>3, <1>4 DEF Inv

\* The operators the actions are made of keep the types.
LEMMA WriteType ==
  ASSUME TypeOK, NEW r \in Receipts, NEW p, Write(r, p)
  PROVE  receipt' \in Receipts /\ fresh' \subseteq Pollers \cup Executions
BY DEF TypeOK, Write

LEMMA SpendType ==
  ASSUME TypeOK
  PROVE  /\ Outage => used' \in [crashes : 0..MaxCrashes, outages : 0..MaxOutages, defers : 0..MaxDefers]
         /\ Spend("crashes", MaxCrashes) =>
              used' \in [crashes : 0..MaxCrashes, outages : 0..MaxOutages, defers : 0..MaxDefers]
         /\ Spend("defers", MaxDefers) =>
              used' \in [crashes : 0..MaxCrashes, outages : 0..MaxOutages, defers : 0..MaxDefers]
BY WebhookConstants DEF TypeOK, Outage, Spend

LEMMA StepType ==
  ASSUME TypeOK, NEW w \in Executions, NEW c \in ExecutionPcs, Step(w, c)
  PROVE  exec' \in [Executions -> ExecutionStates]
<1>1. exec[w] \in ExecutionStates
  BY DEF TypeOK
<1>2. [exec[w] EXCEPT !.pc = c] \in ExecutionStates
  BY <1>1 DEF ExecutionStates
<1>3. QED
  BY <1>2 DEF TypeOK, Step

LEMMA JobBecomesType ==
  ASSUME TypeOK, NEW w \in Executions, NEW j, Locked(w) => j \in Jobs, JobBecomes(w, j)
  PROVE  job' \in [Queues -> Jobs]
BY DEF TypeOK, JobBecomes

LEMMA FinishType ==
  ASSUME TypeOK, NEW w \in Executions, Return(w) \/ Throw(w) \/ Defer(w)
  PROVE  exec' \in [Executions -> ExecutionStates] /\ job' \in [Queues -> Jobs]
<1>1. PICK s \in {"absent", "failed", "delayed"} : Finish(w, s)
  BY DEF Return, Throw, Defer
<1>2. exec' \in [Executions -> ExecutionStates]
  BY <1>1, IdleTypes DEF Finish, TypeOK
<1> DEFINE j == IF s = "absent" THEN NoJob
                ELSE [job[exec[w].queue] EXCEPT !.state = s, !.owner = NoOwner]
<1>3. ASSUME Locked(w) PROVE j \in Jobs
  <2>1. exec[w].queue \in Queues
    BY <1>3 DEF Locked, TypeOK, ExecutionStates
  <2>2. job[exec[w].queue] \in Jobs
    BY <2>1 DEF TypeOK
  <2>3. s \in JobStates
    BY DEF JobStates
  <2>4. QED
    BY <2>2, <2>3, JobValues
<1>4. job' \in [Queues -> Jobs]
  BY <1>1, <1>3, JobBecomesType DEF Finish
<1>5. QED
  BY <1>2, <1>4

LEMMA RepeatType ==
  ASSUME TypeOK, NEW w \in Executions, NEW c \in ExecutionPcs, Repeat(w, c)
  PROVE  exec' \in [Executions -> ExecutionStates] /\ job' \in [Queues -> Jobs]
<1>1. exec[w] \in ExecutionStates /\ job \in [Queues -> Jobs]
  BY DEF TypeOK
<1>2. [exec[w] EXCEPT !.pc = c, !.again = TRUE] \in ExecutionStates
  BY <1>1 DEF ExecutionStates
<1>3. CASE ~exec[w].again /\ claim.live
  BY <1>1, <1>2, <1>3 DEF Repeat, TypeOK
<1>4. CASE ~(~exec[w].again /\ claim.live)
  BY <1>4, FinishType DEF Repeat
<1>5. QED
  BY <1>3, <1>4

LEMMA ReleaseType ==
  ASSUME TypeOK, NEW w \in Executions, Release(w)
  PROVE  /\ claim' \in Claims
         /\ used' \in [crashes : 0..MaxCrashes, outages : 0..MaxOutages, defers : 0..MaxDefers]
<1>1. claim \in Claims /\ Released(claim) \in Claims
  BY ClaimValues DEF TypeOK
<1>2. QED
  BY <1>1, SpendType DEF Release, TypeOK

LEMMA LeaveType ==
  ASSUME TypeOK, NEW p \in Pollers, Leave(p)
  PROVE  poll' \in [Pollers -> PollerStates]
BY IdleTypes DEF TypeOK, Leave

LEMMA GoType ==
  ASSUME TypeOK, NEW p \in Pollers, NEW c \in PollerPcs, Go(p, c)
  PROVE  poll' \in [Pollers -> PollerStates]
<1>1. poll[p] \in PollerStates
  BY DEF TypeOK
<1>2. [poll[p] EXCEPT !.pc = c] \in PollerStates
  BY <1>1 DEF PollerStates
<1>3. QED
  BY <1>2 DEF TypeOK, Go

LEMMA ConcludeType ==
  ASSUME TypeOK, NEW p \in Pollers, NEW r \in Receipts, Conclude(p, r)
  PROVE  /\ receipt' \in Receipts /\ fresh' \subseteq Pollers \cup Executions
         /\ poll' \in [Pollers -> PollerStates]
         /\ claim' \in Claims /\ job' \in [Queues -> Jobs]
         /\ exec' \in [Executions -> ExecutionStates]
         /\ handler' \in [starts : Nat, returned : BOOLEAN, notice : Notices]
<1>1. [r EXCEPT !.fence = NoOwner] \in Receipts
  BY DEF Receipts
<1>2. receipt' \in Receipts /\ fresh' \subseteq Pollers \cup Executions
  BY <1>1, WriteType DEF Conclude, Forget, TypeOK
<1>3. poll' \in [Pollers -> PollerStates]
  BY LeaveType DEF Conclude
<1>4. QED
  BY <1>2, <1>3 DEF Conclude, TypeOK

LEMMA TypeOfExecutions ==
  ASSUME TypeOK, NEW w \in Executions, ExecutionStep(w) \/ Heartbeat(w) \/ Crash(w)
  PROVE  TypeOK'
<1>types. /\ exec[w] \in ExecutionStates /\ claim \in Claims /\ receipt \in Receipts
          /\ IdleExecution \in ExecutionStates
          /\ fresh \in SUBSET (Pollers \cup Executions) /\ handler.starts \in Nat
          /\ fresh \ {w} \in SUBSET (Pollers \cup Executions)
  BY IdleTypes DEF TypeOK
<1>finish. Return(w) \/ Throw(w) \/ Defer(w) =>
             exec' \in [Executions -> ExecutionStates] /\ job' \in [Queues -> Jobs]
  BY FinishType
<1>step. \A c \in ExecutionPcs : Step(w, c) => exec' \in [Executions -> ExecutionStates]
  BY StepType
<1>repeat. \A c \in {"checkpoint", "reject", "rejectNotice"} : Repeat(w, c) =>
             exec' \in [Executions -> ExecutionStates] /\ job' \in [Queues -> Jobs]
  BY RepeatType DEF ExecutionPcs
<1>write. \A r \in Receipts, p \in Executions \cup {NoOwner} : Write(r, p) =>
            receipt' \in Receipts /\ fresh' \in SUBSET (Pollers \cup Executions)
  BY WriteType
<1>receipts. /\ Processed(receipt) \in Receipts
             /\ [Failed(receipt, "unaccounted") EXCEPT !.queue = NoQueue] \in Receipts
             /\ \A b \in BOOLEAN :
                  [Failed(receipt, "handler") EXCEPT !.queue = NoQueue, !.next = b] \in Receipts
             /\ Compared(receipt) \in Receipts
             /\ [Failed(receipt, "timeout") EXCEPT !.fence = w] \in Receipts
             /\ Failed(receipt, "terminal") \in Receipts
  BY <1>types, ReceiptValues DEF Errors
<1>claims. /\ Released(claim) \in Claims /\ Completed(claim) \in Claims
           /\ [claim EXCEPT !.token = w, !.live = TRUE] \in Claims
           /\ [claim EXCEPT !.live = TRUE] \in Claims
           /\ [claim EXCEPT !.started = w] \in Claims
           /\ [claim EXCEPT !.finished = TRUE] \in Claims
           /\ [Released(claim) EXCEPT !.started = w] \in Claims
  BY <1>types, ClaimValues
<1>states. /\ [exec[w] EXCEPT !.pc = "judge", !.source = Compared(receipt)] \in ExecutionStates
           /\ [exec[w] EXCEPT !.pc = "detached", !.queue = NoQueue] \in ExecutionStates
           /\ \A o \in {"returned", "threw"} : [exec[w] EXCEPT !.outcome = o] \in ExecutionStates
           /\ \A q \in Queues :
                /\ [IdleExecution EXCEPT !.pc = "read", !.queue = q] \in ExecutionStates
                /\ [IdleExecution EXCEPT !.pc = "notice", !.queue = q,
                                         !.source = Compared(receipt)] \in ExecutionStates
  BY <1>types, <1>receipts DEF ExecutionStates, ExecutionPcs
<1>jobs. /\ JobBecomes(w, NoJob) => job' \in [Queues -> Jobs]
         /\ \A q \in Queues : [job[q] EXCEPT !.state = "active", !.owner = w] \in Jobs
  <2>1. \A q \in Queues : job[q] \in Jobs
    BY DEF TypeOK
  <2>2. NoJob \in Jobs /\ "active" \in JobStates
    BY WebhookConstants DEF NoJob, Jobs, JobStates
  <2>3. QED
    BY <2>1, <2>2, JobBecomesType, JobValues
<1>pcs. {"disown", "leased", "start", "run", "checkpoint", "record", "reject", "rejectNotice",
         "timedOut", "settle", "unfenced"} \subseteq ExecutionPcs
  BY DEF ExecutionPcs
<1>certify. CertifyNotice(w) =>
              handler' \in [starts : Nat, returned : BOOLEAN, notice : Notices]
  BY DEF CertifyNotice, TypeOK, Notices
<1>1. ASSUME NEW q \in Queues, Take(w, q) PROVE TypeOK'
  BY <1>1, <1>types, <1>states, <1>jobs
    DEF Take, TypeOK
<1>2. ASSUME Read(w) PROVE TypeOK'
  BY <1>2, <1>types, <1>finish, <1>states
    DEF Read, TypeOK, Forget
<1>3. ASSUME RepairReceipt(w) PROVE TypeOK'
  BY <1>3, <1>types, <1>finish, <1>write, <1>receipts
    DEF RepairReceipt, TypeOK, Forget
<1>4. ASSUME RecoverFinished(w) PROVE TypeOK'
  BY <1>4, <1>types, <1>finish, <1>write, <1>receipts, <1>claims
    DEF RecoverFinished, TypeOK, Forget
<1>5. ASSUME KeepFirstError(w) PROVE TypeOK'
  BY <1>5, <1>types, <1>finish
    DEF KeepFirstError, TypeOK, Forget
<1>6. ASSUME AwaitStarted(w) PROVE TypeOK'
  BY <1>6, <1>types, <1>finish, <1>step, <1>pcs
    DEF AwaitStarted, TypeOK, Forget
<1>7. ASSUME Disown(w) PROVE TypeOK'
  BY <1>7, <1>types, <1>finish, <1>write, <1>receipts
    DEF Disown, TypeOK, Forget
<1>8. ASSUME AcquireLease(w) PROVE TypeOK'
  BY <1>8, <1>types, <1>finish, <1>step, <1>pcs, <1>claims
    DEF AcquireLease, TypeOK, Forget
<1>9. ASSUME AwaitPredecessor(w) PROVE TypeOK'
  BY <1>9, <1>types, <1>finish, SpendType
    DEF AwaitPredecessor, TypeOK, Forget
<1>10. ASSUME AwaitExecutor(w) PROVE TypeOK'
  BY <1>10, <1>types, <1>finish, SpendType, <1>claims
    DEF AwaitExecutor, TypeOK, Forget
<1>11. ASSUME Expire(w) PROVE TypeOK'
  BY <1>11, <1>types, <1>finish, <1>write, <1>receipts, <1>claims
    DEF Expire, TypeOK
<1>12. ASSUME Recheck(w) PROVE TypeOK'
  BY <1>12, <1>types, <1>finish, <1>step, <1>pcs, SpendType, ReleaseType
    DEF Recheck, TypeOK, Forget
<1>13. ASSUME Start(w) PROVE TypeOK'
  BY <1>13, <1>types, <1>finish, <1>step, <1>pcs, SpendType, ReleaseType, <1>claims
    DEF Start, TypeOK, Forget
<1>14. ASSUME PreparationFails(w) PROVE TypeOK'
  BY <1>14, <1>types, <1>finish, SpendType, <1>claims
    DEF PreparationFails, TypeOK, Forget
<1>15. ASSUME HandlerReturns(w) PROVE TypeOK'
  BY <1>15, <1>types, <1>step, <1>pcs
    DEF HandlerReturns, TypeOK
<1>16. ASSUME HandlerThrows(w) PROVE TypeOK'
  BY <1>16, <1>types, <1>step, <1>pcs
    DEF HandlerThrows, TypeOK
<1>17. ASSUME HandlerTimesOut(w) PROVE TypeOK'
  BY <1>17, <1>types, <1>step, <1>pcs
    DEF HandlerTimesOut, TypeOK
<1>18. ASSUME StorageFails(w) PROVE TypeOK'
  BY <1>18, <1>types, <1>repeat, <1>finish, SpendType
    DEF StorageFails, TypeOK
<1>19. ASSUME Checkpoint(w) PROVE TypeOK'
  BY <1>19, <1>types, <1>finish, <1>repeat, <1>step, <1>pcs, SpendType, <1>claims
    DEF Checkpoint, TypeOK
<1>20. ASSUME Settle(w) PROVE TypeOK'
  BY <1>20, <1>types, <1>finish, <1>repeat, <1>write, <1>receipts, SpendType, <1>claims
    DEF Settle, TypeOK
<1>21. ASSUME RecordNotice(w) \/ RecordFails(w) \/ Reject(w) PROVE TypeOK'
  <2>1. CASE RecordNotice(w)
    BY <2>1, <1>types, <1>certify, <1>step, <1>pcs DEF RecordNotice, TypeOK
  <2>2. CASE RecordFails(w)
    BY <2>2, <1>types, <1>certify, <1>finish, SpendType DEF RecordFails, TypeOK
  <2>3. CASE Reject(w)
    <3>1. CASE UNCHANGED <<receipt, claim, fresh>>
      BY <2>3, <3>1, <1>types, <1>finish, <1>repeat, SpendType DEF Reject, TypeOK
    <3>2. CASE claim' = Released(claim)
               /\ \E retry \in Retries(w) :
                    Write([Failed(receipt, "handler") EXCEPT !.queue = NoQueue, !.next = retry], w)
      <4>1. receipt' \in Receipts /\ fresh' \in SUBSET (Pollers \cup Executions)
        BY <3>2, <1>write, <1>receipts DEF Retries
      <4>2. exec' \in [Executions -> ExecutionStates] /\ job' \in [Queues -> Jobs]
        BY <2>3, <1>finish, <1>repeat DEF Reject
      <4>3. used' \in [crashes : 0..MaxCrashes, outages : 0..MaxOutages, defers : 0..MaxDefers]
        BY <2>3, SpendType DEF Reject, TypeOK
      <4>4. QED
        BY <2>3, <3>2, <4>1, <4>2, <4>3, <1>claims DEF Reject, TypeOK
    <3>3. QED
      BY <2>3, <3>1, <3>2 DEF Reject
  <2>4. QED
    BY <1>21, <2>1, <2>2, <2>3
<1>22. ASSUME Quarantine(w) PROVE TypeOK'
  BY <1>22, <1>types, <1>write, <1>receipts, <1>claims, <1>states, <1>jobs
    DEF Quarantine, TypeOK, StoreQuarantine
<1>23. ASSUME QuarantineFails(w) PROVE TypeOK'
  BY <1>23, <1>types, <1>step, <1>pcs, <1>write, <1>receipts, SpendType, <1>claims
    DEF QuarantineFails, TypeOK, StoreQuarantine
<1>24. ASSUME HandlerEnds(w) PROVE TypeOK'
  <2>1. PICK o \in {"returned", "threw"} :
          /\ exec' = [exec EXCEPT ![w].outcome = o]
          /\ handler' = [handler EXCEPT !.returned = (o = "returned")]
    BY <1>24 DEF HandlerEnds
  <2>2. exec' \in [Executions -> ExecutionStates]
    BY <2>1, <1>states DEF TypeOK
  <2>3. handler' \in [starts : Nat, returned : BOOLEAN, notice : Notices]
    BY <2>1 DEF TypeOK
  <2>4. QED
    BY <1>24, <2>2, <2>3 DEF HandlerEnds, TypeOK
<1>25. ASSUME SettleTimedOut(w) PROVE TypeOK'
  BY <1>25, <1>types, <1>finish, <1>write, <1>receipts, <1>claims
    DEF SettleTimedOut, TypeOK
<1>26. ASSUME Heartbeat(w) PROVE TypeOK'
  BY <1>26, <1>types, <1>claims
    DEF Heartbeat, TypeOK
<1>27. ASSUME Crash(w) PROVE TypeOK'
  BY <1>27, <1>types, SpendType, <1>states
    DEF Crash, TypeOK, Forget
<1>28. QED
  BY <1>1, <1>2, <1>3, <1>4, <1>5, <1>6, <1>7, <1>8, <1>9, <1>10, <1>11, <1>12, <1>13,
     <1>14, <1>15, <1>16, <1>17, <1>18, <1>19, <1>20, <1>21, <1>22, <1>23, <1>24, <1>25,
     <1>26, <1>27 DEF ExecutionStep

LEMMA TypeOfNotices ==
  ASSUME TypeOK, NEW w \in Executions, NoticeStep(w)
  PROVE  TypeOK'
<1>types. /\ claim \in Claims /\ receipt \in Receipts /\ job \in [Queues -> Jobs]
          /\ exec \in [Executions -> ExecutionStates] /\ poll \in [Pollers -> PollerStates]
          /\ fresh \subseteq Pollers \cup Executions
          /\ handler \in [starts : Nat, returned : BOOLEAN, notice : Notices]
          /\ used \in [crashes : 0..MaxCrashes, outages : 0..MaxOutages, defers : 0..MaxDefers]
  BY DEF TypeOK
<1>step. \A c \in {"deliver", "sending", "book"} :
           Step(w, c) => exec' \in [Executions -> ExecutionStates]
  BY StepType DEF ExecutionPcs
<1>handler. \A n \in Notices : [handler EXCEPT !.notice = n] \in
              [starts : Nat, returned : BOOLEAN, notice : Notices]
  BY <1>types
<1>notices. {"attempted", "sent", "expired"} \subseteq Notices
  BY DEF Notices
<1>booked. ASSUME claim' = Completed(claim), Write(Processed(receipt), w), Return(w)
           PROVE  /\ claim' \in Claims /\ receipt' \in Receipts
                  /\ fresh' \subseteq Pollers \cup Executions
                  /\ exec' \in [Executions -> ExecutionStates] /\ job' \in [Queues -> Jobs]
  <2>1. Completed(claim) \in Claims
    BY <1>types, ClaimValues
  <2>2. Processed(receipt) \in Receipts
    BY <1>types DEF Receipts, Processed, Errors
  <2>3. QED
    BY <1>booked, <2>1, <2>2, WriteType, FinishType
<1>1. CASE AcquireNotice(w)
  <2>1. claim' \in Claims
    BY <1>1, <1>types, ClaimValues DEF AcquireNotice
  <2>2. QED
    BY <1>1, <2>1, <1>types, <1>step DEF AcquireNotice, TypeOK
<1>2. CASE SendNotice(w) \/ SentBefore(w) \/ NoticeSent(w)
  BY <1>2, <1>types, <1>step, <1>handler, <1>notices
    DEF SendNotice, SentBefore, NoticeSent, TypeOK
<1>3. CASE BookNotice(w)
  BY <1>3, <1>types, <1>booked DEF BookNotice, TypeOK
<1>4. CASE ExpireNotice(w)
  BY <1>4, <1>types, <1>booked, <1>handler, <1>notices DEF ExpireNotice, TypeOK
<1>5. CASE NoticeThrows(w)
  <2>1. handler' \in [starts : Nat, returned : BOOLEAN, notice : Notices]
    BY <1>5, <1>types, <1>handler, <1>notices DEF NoticeThrows
  <2>2. QED
    BY <1>5, <2>1, <1>types, ReleaseType, FinishType DEF NoticeThrows, TypeOK
<1>6. QED
  BY <1>1, <1>2, <1>3, <1>4, <1>5 DEF NoticeStep

------------------------------------------------------------------------------
(***************************************************************************)
(* The steps of the executions.                                            *)
(***************************************************************************)

\* What the operators of the executions do to one of them.
LEMMA Ends ==
  ASSUME TypeOK, NEW w \in Executions, Return(w) \/ Throw(w) \/ Defer(w)
  PROVE  exec'[w] = IdleExecution /\ \A v \in Executions \ {w} : exec'[v] = exec[v]
BY DEF TypeOK, Return, Throw, Defer, Finish

LEMMA Steps ==
  ASSUME TypeOK, NEW w \in Executions, NEW c, Step(w, c)
  PROVE  /\ exec'[w].pc = c /\ exec'[w].source = exec[w].source
         /\ exec'[w].outcome = exec[w].outcome
         /\ \A v \in Executions \ {w} : exec'[v] = exec[v]
<1>1. exec[w] \in ExecutionStates
  BY DEF TypeOK
<1>2. exec'[w] = [exec[w] EXCEPT !.pc = c]
  BY DEF TypeOK, Step
<1>3. QED
  BY <1>1, <1>2 DEF TypeOK, Step, ExecutionStates

LEMMA Repeats ==
  ASSUME TypeOK, NEW w \in Executions, NEW c, Repeat(w, c)
  PROVE  /\ exec'[w] = IdleExecution \/
              (exec'[w].pc = c /\ exec'[w].source = exec[w].source
               /\ exec'[w].outcome = exec[w].outcome)
         /\ \A v \in Executions \ {w} : exec'[v] = exec[v]
<1>1. CASE ~exec[w].again /\ claim.live
  <2>1. exec[w] \in ExecutionStates
    BY DEF TypeOK
  <2>2. exec'[w] = [exec[w] EXCEPT !.pc = c, !.again = TRUE]
    BY <1>1 DEF TypeOK, Repeat
  <2>3. QED
    BY <1>1, <2>1, <2>2 DEF TypeOK, Repeat, ExecutionStates
<1>2. CASE ~(~exec[w].again /\ claim.live)
  BY <1>2, Ends DEF Repeat
<1>3. QED
  BY <1>1, <1>2

LEMMA Writes ==
  ASSUME NEW r, NEW p, Write(r, p)
  PROVE  receipt' = r /\ fresh' \subseteq fresh \ {p} /\ (r # receipt => fresh' = {})
BY DEF Write

LEMMA ComparedFields ==
  ASSUME NEW r \in Receipts
  PROVE  /\ Compared(r).status = r.status /\ Compared(r).error = r.error
         /\ Compared(r).fence = r.fence /\ Compared(r).next = r.next
BY DEF Receipts, Compared

LEMMA ClaimFields ==
  ASSUME NEW c \in Claims, NEW w
  PROVE  /\ Completed(c).status = "COMPLETED" /\ Completed(c).started = c.started
         /\ Completed(c).finished = c.finished /\ Completed(c).token = NoOwner
         /\ Released(c).status = c.status /\ Released(c).started = c.started
         /\ Released(c).finished = c.finished /\ Released(c).token = NoOwner
         /\ LET d == [c EXCEPT !.token = w, !.live = TRUE]
            IN d.status = c.status /\ d.started = c.started /\ d.finished = c.finished
               /\ d.token = w
         /\ \A b \in BOOLEAN : LET d == [c EXCEPT !.live = b]
            IN d.status = c.status /\ d.started = c.started /\ d.finished = c.finished
               /\ d.token = c.token
         /\ LET d == [c EXCEPT !.started = w]
            IN d.status = c.status /\ d.started = w /\ d.finished = c.finished
         /\ LET d == [Released(c) EXCEPT !.started = w]
            IN d.status = c.status /\ d.started = w /\ d.finished = c.finished
         /\ LET d == [c EXCEPT !.finished = TRUE]
            IN d.status = c.status /\ d.started = c.started /\ d.finished = TRUE
               /\ d.token = c.token
BY DEF Claims, Released, Completed

\* An execution that ended claims nothing.
LEMMA IdleInv ==
  ASSUME NEW w \in Executions, exec'[w] = IdleExecution, w \notin fresh'
  PROVE  SourceInv(w)' /\ StartedInv(w)'
BY WebhookConstants DEF SourceInv, StartedInv, IdleExecution, Received, Sound, FirstError,
   Retrying, Unreturned, Returned, Recovering

\* Everybody but w is past no start when the started execution is w or nobody.
LEMMA Alone ==
  ASSUME Inv, NEW v \in Executions, claim.started # v
  PROVE  /\ exec[v].pc \notin Unreturned \cup Returned \cup {"rejectNotice"}
         /\ exec[v].outcome = "none"
BY DEF Inv, StartedInv, Unreturned, Returned

\* The claim as it was, unless w acquired or released its lease.
SameClaim(w) ==
  /\ claim'.status = claim.status /\ claim'.started = claim.started
  /\ claim'.finished = claim.finished
  /\ claim'.token \in {claim.token, NoOwner, w}

\* The handler as it was, unless a certified notice made progress.
SameHandler ==
  /\ handler'.starts = handler.starts /\ handler'.returned = handler.returned
  /\ Certified' <=> Certified
  /\ handler.notice \in {"sent", "expired"} => handler'.notice \in {"sent", "expired"}

\* A step of w that leaves the receipt alone, and of claim and handler changes
\* at most the lease and the notice.
LEMMA QuietStep ==
  ASSUME Inv, TypeOK', NEW w \in Executions, poll' = poll, receipt' = receipt,
         SameHandler, SameClaim(w), fresh' \subseteq fresh \cup {w},
         \A v \in Executions \ {w} : exec'[v] = exec[v],
         SourceInv(w)' /\ StartedInv(w)'
  PROVE  Inv'
<1> USE DEF SameClaim, SameHandler
<1>1. Sound(receipt)' /\ Capped'
  BY DEF Inv, Sound, FirstError, Capped, Fits, Eligible
<1>2. ClaimInv'
  BY DEF Inv, ClaimInv, FirstError, Retrying, SettledTogether, ProcessedIsProven
<1>3. ASSUME NEW p \in Pollers PROVE PollerInv(p)'
  BY WebhookConstants DEF Inv, PollerInv, Eligible
<1>4. ASSUME NEW v \in Executions, v # w PROVE SourceInv(v)' /\ StartedInv(v)'
  <2>1. SourceInv(v)'
    BY <1>4 DEF Inv, SourceInv, Sound, FirstError, Retrying
  <2>2. claim'.token = v => claim.token = v
    BY <1>4, WebhookConstants
  <2>3. StartedInv(v)'
    BY <1>4, <2>2 DEF Inv, StartedInv, FirstError, Pending, Fits, Eligible
  <2>4. QED
    BY <2>1, <2>3
<1>5. QED
  BY <1>1, <1>2, <1>3, <1>4 DEF Inv

\* A step that writes the receipt makes every snapshot stale.
LEMMA LoudStep ==
  ASSUME Inv, TypeOK', poll' = poll, fresh' \subseteq fresh, receipt' = receipt \/ fresh' = {},
         NEW w,
         \A v \in Executions \ {w} : exec'[v] = exec[v] /\ StartedInv(v)',
         claim.started # NoOwner => claim'.started # NoOwner, Certified => Certified',
         Sound(receipt)' /\ Capped' /\ ClaimInv',
         w \in Executions => SourceInv(w)' /\ StartedInv(w)'
  PROVE  Inv'
<1>1. ASSUME NEW p \in Pollers PROVE PollerInv(p)'
  BY DEF Inv, PollerInv, Eligible
<1>2. ASSUME NEW v \in Executions, v # w PROVE SourceInv(v)'
  BY <1>2 DEF Inv, SourceInv, Sound, FirstError, Retrying
<1>3. QED
  BY <1>1, <1>2 DEF Inv

LEMMA QuietOfExecutions ==
  ASSUME Inv, TypeOK', NEW w \in Executions,
         \/ \E q \in Queues : Take(w, q)
         \/ Read(w) \/ RepairReceipt(w) \/ KeepFirstError(w) \/ AwaitStarted(w)
         \/ AcquireLease(w) \/ AwaitPredecessor(w) \/ AwaitExecutor(w) \/ Recheck(w)
         \/ HandlerThrows(w) \/ HandlerTimesOut(w) \/ StorageFails(w) \/ Heartbeat(w) \/ Crash(w)
  PROVE  Inv'
<1>types. /\ exec[w] \in ExecutionStates /\ claim \in Claims /\ receipt \in Receipts
          /\ exec \in [Executions -> ExecutionStates]
  BY DEF Inv, TypeOK
<1>own. SourceInv(w) /\ StartedInv(w) /\ ClaimInv /\ Sound(receipt)
  BY DEF Inv
<1>ends. Return(w) \/ Throw(w) \/ Defer(w) =>
           exec'[w] = IdleExecution /\ \A v \in Executions \ {w} : exec'[v] = exec[v]
  BY Ends DEF Inv
<1>steps. \A c \in ExecutionPcs : Step(w, c) =>
            /\ exec'[w].pc = c /\ exec'[w].source = exec[w].source
            /\ exec'[w].outcome = exec[w].outcome
            /\ \A v \in Executions \ {w} : exec'[v] = exec[v]
  BY Steps DEF Inv
<1>repeats. \A c \in {"checkpoint", "reject", "rejectNotice"} : Repeat(w, c) =>
              /\ exec'[w] = IdleExecution \/
                   (exec'[w].pc = c /\ exec'[w].source = exec[w].source
                    /\ exec'[w].outcome = exec[w].outcome)
              /\ \A v \in Executions \ {w} : exec'[v] = exec[v]
  BY Repeats DEF Inv
<1>idle. exec'[w] = IdleExecution /\ w \notin fresh' => SourceInv(w)' /\ StartedInv(w)'
  BY IdleInv
<1>pcs. {"disown", "leased", "start", "run", "checkpoint", "record", "timedOut", "settle",
         "unfenced", "judge", "detached"} \subseteq ExecutionPcs
  BY DEF ExecutionPcs
<1>claims. /\ LET c == Released(claim)
              IN c.status = claim.status /\ c.started = claim.started /\ c.finished = claim.finished
                 /\ c.token = NoOwner
           /\ LET c == [claim EXCEPT !.token = w, !.live = TRUE]
              IN c.status = claim.status /\ c.started = claim.started /\ c.finished = claim.finished
                 /\ c.token = w
           /\ LET c == [claim EXCEPT !.live = TRUE]
              IN c.status = claim.status /\ c.started = claim.started /\ c.finished = claim.finished
                 /\ c.token = claim.token
  BY <1>types, ClaimFields
<1>compared. LET c == Compared(receipt)
             IN c.status = receipt.status /\ c.error = receipt.error /\ c.fence = receipt.fence
                /\ c.next = receipt.next
  BY <1>types, ComparedFields
<1>handler. handler' = handler => SameHandler
  BY DEF SameHandler, Certified
<1>fresh. exec[w].pc \notin {"judge", "disown", "leased", "start"} => w \notin fresh
  BY <1>own DEF SourceInv
<1> USE WebhookConstants
<1>1. ASSUME NEW q \in Queues, Take(w, q) PROVE Inv'
  <2>0. /\ exec'[w].outcome = "none" /\ w \notin fresh'
        /\ \/ exec'[w].pc = "read" /\ exec'[w].source = Received
           \/ exec'[w].pc = "notice" /\ exec'[w].source = Compared(receipt) /\ NoticePending
    BY <1>1, <1>types, <1>fresh DEF Take, IdleExecution
  <2>1. /\ poll' = poll /\ receipt' = receipt /\ handler' = handler /\ SameClaim(w)
        /\ fresh' \subseteq fresh \cup {w}
        /\ \A v \in Executions \ {w} : exec'[v] = exec[v]
    BY <1>1, <1>types
      DEF Take, SameClaim
  <2>2. SourceInv(w)' /\ StartedInv(w)'
    <3>1. CASE exec'[w].pc = "read" /\ exec'[w].source = Received
      BY <2>0, <3>1
        DEF Received, SourceInv, StartedInv, Sound, FirstError, Retrying, Unreturned,
            Returned, Recovering
    <3>2. CASE /\ exec'[w].pc = "notice" /\ exec'[w].source = Compared(receipt)
               /\ NoticePending
      BY <2>0, <2>1, <3>2, <1>own, <1>compared
        DEF NoticePending, SourceInv, StartedInv, ClaimInv, Sound, FirstError, Retrying,
            Certified, Unreturned, Returned, Recovering, SameClaim
    <3>3. QED
      BY <2>0, <3>1, <3>2
  <2>3. QED
    BY <2>1, <2>2, <1>handler, QuietStep
<1>2. ASSUME Read(w) PROVE Inv'
  <2>1. /\ poll' = poll /\ receipt' = receipt /\ handler' = handler /\ SameClaim(w)
        /\ fresh' \subseteq fresh \cup {w}
        /\ \A v \in Executions \ {w} : exec'[v] = exec[v]
    BY <1>2, <1>types, <1>ends
      DEF Read, SameClaim, Forget
  <2>2. SourceInv(w)' /\ StartedInv(w)'
    BY <1>2, <1>types, <1>own, <1>idle, <2>1, <1>ends, <1>fresh, <1>compared
      DEF Read, Forget, Quarantined, SourceInv, StartedInv, Sound, FirstError, Retrying,
          Certified, Recovering, Unreturned, Returned, Pending, ClaimInv, ExecutionStates
  <2>3. QED
    BY <2>1, <2>2, <1>handler, QuietStep
<1>3. ASSUME RepairReceipt(w) PROVE Inv'
  <2>0. ~(w \in fresh /\ ~ReplayFence(Source(w)))
    BY <1>3, <1>own, <1>compared DEF RepairReceipt, SourceInv, ClaimInv, SettledTogether
  <2>1. /\ poll' = poll /\ receipt' = receipt /\ handler' = handler /\ SameClaim(w)
        /\ fresh' \subseteq fresh \cup {w}
        /\ \A v \in Executions \ {w} : exec'[v] = exec[v]
    BY <1>3, <1>types, <1>ends, <2>0
      DEF RepairReceipt, SameClaim, Forget
  <2>2. SourceInv(w)' /\ StartedInv(w)'
    BY <1>3, <1>types, <1>own, <1>idle, <2>1, <1>ends, <1>fresh, <2>0
      DEF RepairReceipt, Forget, Quarantined, ReplayFence, ClaimInv, SettledTogether,
          ExecutionStates, SourceInv, StartedInv, Sound, FirstError, Retrying, Certified,
          Recovering, Unreturned, Returned, Pending
  <2>3. QED
    BY <2>1, <2>2, <1>handler, QuietStep
<1>4. ASSUME KeepFirstError(w) PROVE Inv'
  <2>1. /\ poll' = poll /\ receipt' = receipt /\ handler' = handler /\ SameClaim(w)
        /\ fresh' \subseteq fresh \cup {w}
        /\ \A v \in Executions \ {w} : exec'[v] = exec[v]
    BY <1>4, <1>types, <1>ends
      DEF KeepFirstError, SameClaim, Forget
  <2>2. SourceInv(w)' /\ StartedInv(w)'
    BY <1>4, <1>types, <1>own, <1>idle, <2>1, <1>ends, <1>fresh
      DEF KeepFirstError, Forget, StartedElsewhere, SourceInv, StartedInv, Sound,
          FirstError, Retrying, Certified, Recovering, Unreturned, Returned, Pending
  <2>3. QED
    BY <2>1, <2>2, <1>handler, QuietStep
<1>5. ASSUME AwaitStarted(w) PROVE Inv'
  <2>1. /\ poll' = poll /\ receipt' = receipt /\ handler' = handler /\ SameClaim(w)
        /\ fresh' \subseteq fresh \cup {w}
        /\ \A v \in Executions \ {w} : exec'[v] = exec[v]
    BY <1>5, <1>types, <1>ends, <1>steps, <1>pcs
      DEF AwaitStarted, SameClaim, Forget
  <2>2. SourceInv(w)' /\ StartedInv(w)'
    BY <1>5, <1>types, <1>own, <1>idle, <2>1, <1>ends, <1>steps, <1>pcs, <1>fresh
      DEF AwaitStarted, Forget, StartedElsewhere, Source, SourceInv, StartedInv, Sound,
          FirstError, Retrying, Certified, Recovering, Unreturned, Returned, Pending
  <2>3. QED
    BY <2>1, <2>2, <1>handler, QuietStep
<1>6. ASSUME AcquireLease(w) PROVE Inv'
  <2>1. /\ poll' = poll /\ receipt' = receipt /\ handler' = handler /\ SameClaim(w)
        /\ fresh' \subseteq fresh \cup {w}
        /\ \A v \in Executions \ {w} : exec'[v] = exec[v]
    BY <1>6, <1>types, <1>ends, <1>steps, <1>pcs, <1>claims
      DEF AcquireLease, SameClaim, Forget
  <2>2. SourceInv(w)' /\ StartedInv(w)'
    BY <1>6, <1>types, <1>own, <1>idle, <2>1, <1>ends, <1>steps, <1>pcs, <1>fresh
      DEF AcquireLease, Forget, SourceInv, StartedInv, Sound, FirstError, Retrying, Certified,
          Recovering, Unreturned, Returned, Pending
  <2>3. QED
    BY <2>1, <2>2, <1>handler, QuietStep
<1>7. ASSUME AwaitPredecessor(w) PROVE Inv'
  <2>1. /\ poll' = poll /\ receipt' = receipt /\ handler' = handler /\ SameClaim(w)
        /\ fresh' \subseteq fresh \cup {w}
        /\ \A v \in Executions \ {w} : exec'[v] = exec[v]
    BY <1>7, <1>types, <1>ends
      DEF AwaitPredecessor, SameClaim, Forget
  <2>2. SourceInv(w)' /\ StartedInv(w)'
    BY <1>7, <1>types, <1>own, <1>idle, <2>1, <1>ends, <1>fresh
      DEF AwaitPredecessor, Forget, SourceInv, StartedInv, Sound, FirstError, Retrying,
          Certified, Recovering, Unreturned, Returned, Pending
  <2>3. QED
    BY <2>1, <2>2, <1>handler, QuietStep
<1>8. ASSUME AwaitExecutor(w) PROVE Inv'
  <2>1. /\ poll' = poll /\ receipt' = receipt /\ handler' = handler /\ SameClaim(w)
        /\ fresh' \subseteq fresh \cup {w}
        /\ \A v \in Executions \ {w} : exec'[v] = exec[v]
    BY <1>8, <1>types, <1>ends, <1>claims
      DEF AwaitExecutor, SameClaim, Forget, Releasable
  <2>2. SourceInv(w)' /\ StartedInv(w)'
    BY <1>8, <1>types, <1>own, <1>idle, <2>1, <1>ends, <1>fresh
      DEF AwaitExecutor, Forget, SourceInv, StartedInv, Sound, FirstError, Retrying,
          Certified, Recovering, Unreturned, Returned, Pending
  <2>3. QED
    BY <2>1, <2>2, <1>handler, QuietStep
<1>9. ASSUME Recheck(w) PROVE Inv'
  <2>1. /\ poll' = poll /\ receipt' = receipt /\ handler' = handler /\ SameClaim(w)
        /\ fresh' \subseteq fresh \cup {w}
        /\ \A v \in Executions \ {w} : exec'[v] = exec[v]
    BY <1>9, <1>types, <1>ends, <1>steps, <1>pcs, <1>claims
      DEF Recheck, SameClaim, Forget, Release, Releasable
  <2>2. SourceInv(w)' /\ StartedInv(w)'
    BY <1>9, <1>types, <1>own, <1>idle, <2>1, <1>ends, <1>steps, <1>pcs, <1>fresh
      DEF Recheck, Forget, Quarantined, SourceInv, StartedInv, Sound, FirstError,
          Retrying, Certified, Recovering, Unreturned, Returned, Pending
  <2>3. QED
    BY <2>1, <2>2, <1>handler, QuietStep
<1>10. ASSUME HandlerThrows(w) PROVE Inv'
  <2>1. /\ poll' = poll /\ receipt' = receipt /\ handler' = handler /\ SameClaim(w)
        /\ fresh' \subseteq fresh \cup {w}
        /\ \A v \in Executions \ {w} : exec'[v] = exec[v]
    BY <1>10, <1>types, <1>steps, <1>pcs
      DEF HandlerThrows, SameClaim
  <2>2. SourceInv(w)' /\ StartedInv(w)'
    BY <1>10, <1>types, <1>own, <1>idle, <2>1, <1>steps, <1>pcs, <1>fresh
      DEF HandlerThrows, SourceInv, StartedInv, Sound, FirstError, Retrying, Certified,
          Recovering, Unreturned, Returned, Pending
  <2>3. QED
    BY <2>1, <2>2, <1>handler, QuietStep
<1>11. ASSUME HandlerTimesOut(w) PROVE Inv'
  <2>1. /\ poll' = poll /\ receipt' = receipt /\ handler' = handler /\ SameClaim(w)
        /\ fresh' \subseteq fresh \cup {w}
        /\ \A v \in Executions \ {w} : exec'[v] = exec[v]
    BY <1>11, <1>types, <1>steps, <1>pcs
      DEF HandlerTimesOut, SameClaim
  <2>2. SourceInv(w)' /\ StartedInv(w)'
    BY <1>11, <1>types, <1>own, <1>idle, <2>1, <1>steps, <1>pcs, <1>fresh
      DEF HandlerTimesOut, SourceInv, StartedInv, Sound, FirstError, Retrying, Certified,
          Recovering, Unreturned, Returned, Pending
  <2>3. QED
    BY <2>1, <2>2, <1>handler, QuietStep
<1>12. ASSUME StorageFails(w) PROVE Inv'
  <2>1. /\ poll' = poll /\ receipt' = receipt /\ handler' = handler /\ SameClaim(w)
        /\ fresh' \subseteq fresh \cup {w}
        /\ \A v \in Executions \ {w} : exec'[v] = exec[v]
    BY <1>12, <1>types, <1>repeats, <1>fresh
      DEF StorageFails, SameClaim
  <2>2. SourceInv(w)' /\ StartedInv(w)'
    BY <1>12, <1>types, <1>own, <1>idle, <2>1, <1>repeats, <1>fresh
      DEF StorageFails, Fits, Eligible, SourceInv, StartedInv, Sound, FirstError, Retrying,
          Certified, Recovering, Unreturned, Returned, Pending
  <2>3. QED
    BY <2>1, <2>2, <1>handler, QuietStep
<1>13. ASSUME Heartbeat(w) PROVE Inv'
  <2>1. /\ poll' = poll /\ receipt' = receipt /\ handler' = handler /\ SameClaim(w)
        /\ fresh' \subseteq fresh \cup {w}
        /\ \A v \in Executions \ {w} : exec'[v] = exec[v]
    BY <1>13, <1>types, <1>claims
      DEF Heartbeat, SameClaim
  <2>2. SourceInv(w)' /\ StartedInv(w)'
    BY <1>13, <1>types, <1>own, <1>idle, <2>1, <1>fresh
      DEF Heartbeat, SourceInv, StartedInv, Sound, FirstError, Retrying, Certified,
          Recovering, Unreturned, Returned, Pending
  <2>3. QED
    BY <2>1, <2>2, <1>handler, QuietStep
<1>14. ASSUME Crash(w) PROVE Inv'
  <2>1. /\ poll' = poll /\ receipt' = receipt /\ handler' = handler /\ SameClaim(w)
        /\ fresh' \subseteq fresh \cup {w}
        /\ \A v \in Executions \ {w} : exec'[v] = exec[v]
    BY <1>14, <1>types
      DEF Crash, SameClaim, Forget
  <2>2. SourceInv(w)' /\ StartedInv(w)'
    BY <1>14, <1>types, <1>own, <1>idle, <2>1, <1>fresh
      DEF Crash, Forget, SourceInv, StartedInv, Sound, FirstError, Retrying, Certified,
          Recovering, Unreturned, Returned, Pending
  <2>3. QED
    BY <2>1, <2>2, <1>handler, QuietStep
<1>15. QED
  BY <1>1, <1>2, <1>3, <1>4, <1>5, <1>6, <1>7, <1>8, <1>9, <1>10, <1>11, <1>12, <1>13,
     <1>14

\* Receipt and claim are settled together.
LEMMA ProcessedStep ==
  ASSUME Inv, TypeOK', poll' = poll, SameHandler, NEW w,
         receipt.status # "PROCESSED", Write(Processed(receipt), w), claim' = Completed(claim),
         \A v \in Executions \ {w} : exec'[v] = exec[v] /\ exec[v].pc \notin Unreturned,
         handler.returned \/ handler.starts = 0 \/ handler'.notice \in {"sent", "expired"},
         w \in Executions => SourceInv(w)' /\ StartedInv(w)'
  PROVE  Inv'
<1> USE DEF SameHandler
<1>1. /\ receipt'.status = "PROCESSED" /\ receipt'.error = "none" /\ receipt'.fence = NoOwner
      /\ receipt'.attempts = receipt.attempts
      /\ fresh' = {} /\ fresh' \subseteq fresh
  BY DEF Inv, TypeOK, Receipts, Write, Processed
<1>2. claim'.status = "COMPLETED" /\ claim'.started = claim.started
      /\ claim'.finished = claim.finished /\ claim'.token = NoOwner
  BY DEF Inv, TypeOK, Claims, Completed, Released
<1>3. Sound(receipt)' /\ ClaimInv'
  BY <1>1, <1>2
    DEF Inv, Sound, ClaimInv, FirstError, Retrying, SettledTogether, ProcessedIsProven
<1>4. Capped'
  BY <1>1 DEF Inv, Capped, Fits, Eligible
<1>5. ASSUME NEW v \in Executions \ {w} PROVE StartedInv(v)'
  BY <1>1, <1>2, WebhookConstants
    DEF Inv, StartedInv, FirstError, Unreturned, Returned, Recovering
<1>6. QED
  BY <1>1, <1>2, <1>3, <1>4, <1>5, LoudStep

\* The receipt of an update that is not settled is held or failed: for good, or
\* to be enqueued for its certified notice.
LEMMA FailedStep ==
  ASSUME Inv, TypeOK', poll' = poll, handler' = handler, NEW w, SameClaim(w),
         receipt.status # "PROCESSED", fresh' = {}, receipt'.status = "FAILED",
         receipt'.attempts = receipt.attempts,
         receipt'.next => /\ receipt'.error = "handler" /\ Certified /\ Fits(receipt)
                          /\ claim'.token = NoOwner,
         receipt'.error \in {"handler", "terminal", "timeout", "unaccounted"},
         receipt'.fence # NoOwner => receipt'.error = "timeout",
         \A v \in Executions \ {w} :
           exec'[v] = exec[v] /\ exec[v].pc # "detached"
           /\ (FirstError(receipt)' => exec[v].pc \notin Unreturned \cup Returned),
         FirstError(receipt)' => claim.started # NoOwner /\ ~claim.finished,
         w \in Executions => SourceInv(w)' /\ StartedInv(w)'
  PROVE  Inv'
<1> USE DEF SameClaim
<1>1. Sound(receipt)'
  BY DEF Sound, FirstError
<1>2. ClaimInv'
  BY DEF Inv, ClaimInv, FirstError, Retrying, Certified, SettledTogether, ProcessedIsProven
<1>3. Capped'
  BY DEF Inv, Capped, Fits, Eligible, Certified
<1>4. ASSUME NEW v \in Executions \ {w} PROVE StartedInv(v)'
  <2>1. claim'.token = v => claim.token = v /\ ~receipt'.next
    BY WebhookConstants
  <2>2. StartedInv(v)
    BY DEF Inv
  <2>3. Fits(receipt) /\ ~receipt'.next => Fits(receipt)'
    BY DEF Fits, Eligible
  <2>4. QED
    BY <2>1, <2>2, <2>3 DEF StartedInv, FirstError, Certified, Unreturned, Returned, Recovering
<1>5. QED
  BY <1>1, <1>2, <1>3, <1>4, LoudStep DEF Certified

\* The start of an update nobody has started.
LEMMA StartStep ==
  ASSUME Inv, TypeOK', poll' = poll, receipt' = receipt, fresh' \subseteq fresh,
         NEW w \in Executions, claim.started = NoOwner, receipt.status # "PROCESSED",
         claim'.status = claim.status, claim'.started = w, claim'.finished = claim.finished,
         handler'.starts \in {handler.starts, handler.starts + 1},
         handler'.returned = handler.returned, handler'.notice = handler.notice,
         \A v \in Executions \ {w} : exec'[v] = exec[v],
         SourceInv(w)' /\ StartedInv(w)'
  PROVE  Inv'
<1>1. /\ handler.starts = 0 /\ ~claim.finished /\ w # NoOwner /\ ~FirstError(receipt)
      /\ ~Certified /\ ~Certified'
  BY WebhookConstants DEF Inv, TypeOK, ClaimInv, Certified
<1>2. Sound(receipt)' /\ ClaimInv'
  BY <1>1 DEF Inv, Sound, ClaimInv, FirstError, Retrying, SettledTogether, ProcessedIsProven
<1>3. Capped'
  BY <1>1 DEF Inv, Capped, Fits, Eligible
<1>4. ASSUME NEW v \in Executions \ {w} PROVE StartedInv(v)'
  <2>1. exec[v].pc \notin Unreturned \cup Returned \cup Recovering /\ exec[v].outcome = "none"
    BY <1>1, WebhookConstants, Alone DEF Inv, StartedInv
  <2>2. QED
    BY <2>1 DEF StartedInv, Unreturned, Returned, Recovering
<1>5. QED
  BY <1>1, <1>2, <1>3, <1>4, LoudStep

\* The journal of the notice of a command is saved.
LEMMA CertifyStep ==
  ASSUME Inv, TypeOK', poll' = poll, receipt' = receipt, claim' = claim, fresh' = fresh,
         NEW w \in Executions, CertifyNotice(w), exec[w].pc \in Unreturned,
         \A v \in Executions \ {w} : exec'[v] = exec[v],
         SourceInv(w)' /\ StartedInv(w)'
  PROVE  Inv'
<1>1. /\ handler'.starts = handler.starts /\ handler'.returned = handler.returned
      /\ Certified' /\ claim.started = w /\ w # NoOwner /\ receipt.status # "PROCESSED"
  BY WebhookConstants DEF Inv, TypeOK, CertifyNotice, Mine, Certified
<1>2. ~claim.finished /\ ~Certified
  BY DEF Inv, StartedInv
<1>3. Sound(receipt)' /\ Capped'
  BY <1>1, <1>2 DEF Inv, Sound, FirstError, Capped, Fits, Eligible
<1>4. ClaimInv'
  BY <1>1, <1>2 DEF Inv, ClaimInv, FirstError, Retrying, SettledTogether, ProcessedIsProven
<1>5. ASSUME NEW v \in Executions \ {w} PROVE StartedInv(v)'
  <2>1. exec[v].pc \notin Unreturned \cup Returned \cup {"rejectNotice"}
        /\ exec[v].outcome = "none"
    BY <1>1, Alone
  <2>2. QED
    BY <1>1, <2>1 DEF StartedInv, Unreturned, Returned, Recovering
<1>6. QED
  BY <1>1, <1>3, <1>4, <1>5, LoudStep

LEMMA LoudOfExecutions ==
  ASSUME Inv, TypeOK', NEW w \in Executions,
         \/ RecoverFinished(w) \/ Disown(w) \/ Expire(w) \/ Start(w) \/ PreparationFails(w)
         \/ HandlerReturns(w) \/ Checkpoint(w) \/ Settle(w)
         \/ RecordNotice(w) \/ RecordFails(w) \/ Reject(w)
         \/ Quarantine(w) \/ QuarantineFails(w) \/ HandlerEnds(w) \/ SettleTimedOut(w)
  PROVE  Inv'
<1>types. /\ exec[w] \in ExecutionStates /\ claim \in Claims /\ receipt \in Receipts
          /\ exec \in [Executions -> ExecutionStates]
  BY DEF Inv, TypeOK
<1>own. SourceInv(w) /\ StartedInv(w) /\ ClaimInv /\ Sound(receipt)
  BY DEF Inv
<1>ends. Return(w) \/ Throw(w) \/ Defer(w) =>
           exec'[w] = IdleExecution /\ \A v \in Executions \ {w} : exec'[v] = exec[v]
  BY Ends DEF Inv
<1>steps. \A c \in ExecutionPcs : Step(w, c) =>
            /\ exec'[w].pc = c /\ exec'[w].source = exec[w].source
            /\ exec'[w].outcome = exec[w].outcome
            /\ \A v \in Executions \ {w} : exec'[v] = exec[v]
  BY Steps DEF Inv
<1>repeats. \A c \in {"checkpoint", "reject", "rejectNotice"} : Repeat(w, c) =>
              /\ exec'[w] = IdleExecution \/
                   (exec'[w].pc = c /\ exec'[w].source = exec[w].source
                    /\ exec'[w].outcome = exec[w].outcome)
              /\ \A v \in Executions \ {w} : exec'[v] = exec[v]
  BY Repeats DEF Inv
<1>idle. exec'[w] = IdleExecution /\ w \notin fresh' => SourceInv(w)' /\ StartedInv(w)'
  BY IdleInv
<1>pcs. {"run", "checkpoint", "settle", "reject", "rejectNotice", "unfenced"} \subseteq ExecutionPcs
  BY DEF ExecutionPcs
<1>claims. /\ LET c == Released(claim)
              IN c.status = claim.status /\ c.started = claim.started /\ c.finished = claim.finished
                 /\ c.token = NoOwner
           /\ LET c == [claim EXCEPT !.live = TRUE]
              IN c.status = claim.status /\ c.started = claim.started /\ c.finished = claim.finished
                 /\ c.token = claim.token
  BY <1>types, ClaimFields
<1>settled. /\ LET c == Completed(claim)
               IN c.status = "COMPLETED" /\ c.started = claim.started
                  /\ c.finished = claim.finished
            /\ \A c \in {claim, Released(claim)} : LET d == [c EXCEPT !.started = w]
               IN d.status = claim.status /\ d.started = w /\ d.finished = claim.finished
            /\ LET c == [claim EXCEPT !.finished = TRUE]
               IN c.status = claim.status /\ c.started = claim.started /\ c.finished = TRUE
                  /\ c.token = claim.token
  BY <1>types, ClaimFields
<1>others. \A v \in Executions : claim.started # v =>
             /\ exec[v].pc \notin Unreturned \cup Returned \cup {"rejectNotice"}
             /\ exec[v].outcome = "none"
  BY Alone
<1>handler. handler \in [starts : Nat, returned : BOOLEAN, notice : Notices]
  BY DEF Inv, TypeOK
<1>same. handler' = handler => SameHandler
  BY DEF SameHandler, Certified
<1>capped. receipt' = receipt /\ (Certified => Certified') => Capped'
  BY DEF Inv, Capped, Fits, Eligible
<1>stale. ASSUME NEW r, Write(r, w), r # receipt PROVE fresh' = {}
  BY <1>stale DEF Write
<1>fresh. exec[w].pc \notin {"judge", "disown", "leased", "start"} => w \notin fresh
  BY <1>own DEF SourceInv
<1> USE WebhookConstants
<1>1. ASSUME RecoverFinished(w) PROVE Inv'
  <2>1. CASE w \in fresh
    <3>1. exec'[w] = IdleExecution /\ \A v \in Executions \ {w} : exec'[v] = exec[v]
      BY <1>1, <1>ends DEF RecoverFinished
    <3>2. receipt.status # "PROCESSED" /\ handler.returned
      BY <1>1, <1>own DEF RecoverFinished, ClaimInv, SettledTogether
    <3>3. \A v \in Executions : exec[v].pc \notin Unreturned
      BY <1>1 DEF RecoverFinished, Inv, StartedInv
    <3>4. w \notin fresh'
      BY <1>1, <2>1 DEF RecoverFinished, Write
    <3>5. QED
      BY <1>1, <2>1, <3>1, <3>2, <3>3, <3>4, <1>idle, <1>same, ProcessedStep DEF RecoverFinished
  <2>2. CASE w \notin fresh
    <3>1. exec'[w] = IdleExecution /\ \A v \in Executions \ {w} : exec'[v] = exec[v]
      BY <1>1, <2>2, <1>ends DEF RecoverFinished
    <3>2. w \notin fresh' /\ fresh' \subseteq fresh \cup {w}
      BY <1>1, <2>2 DEF RecoverFinished, Forget
    <3>3. QED
      BY <1>1, <2>2, <3>1, <3>2, <1>idle, <1>same, QuietStep DEF RecoverFinished, SameClaim
  <2>3. QED
    BY <2>1, <2>2
<1>2. ASSUME Disown(w) PROVE Inv'
  <2>0. /\ exec'[w] = IdleExecution /\ \A v \in Executions \ {w} : exec'[v] = exec[v]
        /\ poll' = poll /\ handler' = handler /\ claim' = claim
    BY <1>2, <1>ends DEF Disown
  <2>1. CASE SourceStands(w)
    <3> DEFINE r == [Failed(receipt, "unaccounted") EXCEPT !.queue = NoQueue]
    <3>1. Write(r, w)
      BY <1>2, <2>1 DEF Disown
    <3>2. receipt.status # "PROCESSED" /\ receipt.fence = NoOwner
      BY <1>2, <2>1, <1>own DEF Disown, SourceStands, Source, SourceInv
    <3>3. /\ r.status = "FAILED" /\ r.error = "unaccounted" /\ r.next = FALSE /\ r.fence = NoOwner
          /\ r.attempts = receipt.attempts
      BY <1>types DEF Failed, Receipts
    <3>4. receipt' = r
      BY <3>1 DEF Write
    <3> HIDE DEF r
    <3>5. \A v \in Executions : exec[v].pc # "detached"
      BY <3>2 DEF Inv, StartedInv
    <3>6. CASE r = receipt
      <4>1. fresh' \subseteq fresh /\ w \notin fresh'
        BY <3>1 DEF Write
      <4>2. QED
        BY <2>0, <3>4, <3>6, <4>1, <1>idle, <1>same, QuietStep DEF SameClaim
    <3>7. CASE r # receipt
      <4>1. fresh' = {}
        BY <3>1, <3>7, <1>stale
      <4>2. ~FirstError(receipt)'
        BY <3>3, <3>4 DEF FirstError
      <4>3. QED
        BY <2>0, <3>2, <3>3, <3>4, <3>5, <4>1, <4>2, <1>idle, FailedStep DEF SameClaim
    <3>8. QED
      BY <3>6, <3>7
  <2>2. CASE ~SourceStands(w)
    <3>1. receipt' = receipt /\ fresh' \subseteq fresh /\ w \notin fresh'
      BY <1>2, <2>2 DEF Disown, Forget
    <3>2. QED
      BY <2>0, <3>1, <1>idle, <1>same, QuietStep DEF SameClaim
  <2>3. QED
    BY <2>1, <2>2
<1>3. ASSUME Expire(w) PROVE Inv'
  <2>1. exec'[w] = IdleExecution /\ \A v \in Executions \ {w} : exec'[v] = exec[v]
    BY <1>3, <1>ends DEF Expire
  <2>2. handler.starts = 0
    BY <1>3, <1>own, <1>handler DEF Expire, ClaimInv
  <2>3. \A v \in Executions : exec[v].pc \notin Unreturned
    BY <1>3, <1>others DEF Expire
  <2>4. w \notin fresh'
    BY <1>3 DEF Expire, Write
  <2>5. QED
    BY <1>3, <2>1, <2>2, <2>3, <2>4, <1>idle, <1>same, ProcessedStep DEF Expire
<1>4. ASSUME Start(w) PROVE Inv'
  <2>0. receipt' = receipt /\ poll' = poll /\ fresh' \subseteq fresh /\ w \notin fresh'
    BY <1>4 DEF Start, Forget
  <2>1. CASE MayStart(w)
    <3>1. /\ exec'[w].pc = "run" /\ exec'[w].source = exec[w].source
          /\ exec'[w].outcome = exec[w].outcome
          /\ \A v \in Executions \ {w} : exec'[v] = exec[v]
      BY <1>4, <2>1, <1>steps, <1>pcs DEF Start
    <3>2. /\ claim.started = NoOwner /\ claim.status = "READY"
          /\ receipt.status # "PROCESSED"
          /\ claim'.status = claim.status /\ claim'.started = w
          /\ claim'.finished = claim.finished
      BY <1>4, <2>1, <1>settled DEF Start, MayStart
    <3>3. /\ handler'.starts = handler.starts + 1 /\ handler'.returned = handler.returned
          /\ handler'.notice = handler.notice
      BY <1>4, <2>1, <1>handler DEF Start
    <3>4. /\ ~claim.finished /\ ~FirstError(receipt) /\ ~FirstError(exec[w].source) /\ ~Certified
          /\ exec[w].source.status # "PROCESSED" /\ Sound(exec[w].source)
          /\ exec[w].outcome = "none"
      BY <3>2, <1>own, <1>others DEF ClaimInv, SourceInv
    <3>5. SourceInv(w)'
      BY <2>0, <3>1, <3>3, <3>4 DEF SourceInv, Sound, FirstError, Retrying, Certified
    <3>6. StartedInv(w)'
      BY <2>0, <3>1, <3>2, <3>3, <3>4
        DEF StartedInv, FirstError, Retrying, Certified, Unreturned, Returned, Recovering
    <3>7. QED
      BY <2>0, <3>1, <3>2, <3>3, <3>5, <3>6, StartStep
  <2>2. CASE ~MayStart(w)
    <3>1. exec'[w] = IdleExecution /\ \A v \in Executions \ {w} : exec'[v] = exec[v]
      BY <1>4, <2>2, <1>ends DEF Start
    <3>2. handler' = handler /\ SameClaim(w)
      BY <1>4, <2>2, <1>claims DEF Start, Release, SameClaim
    <3>3. QED
      BY <2>0, <3>1, <3>2, <1>idle, <1>same, QuietStep
  <2>3. QED
    BY <2>1, <2>2
<1>5. ASSUME PreparationFails(w) PROVE Inv'
  <2>0. /\ receipt' = receipt /\ poll' = poll /\ handler' = handler
        /\ fresh' \subseteq fresh /\ w \notin fresh'
        /\ exec'[w] = IdleExecution /\ \A v \in Executions \ {w} : exec'[v] = exec[v]
    BY <1>5, <1>ends DEF PreparationFails, Forget
  <2>1. SourceInv(w)' /\ StartedInv(w)'
    BY <2>0, <1>idle
  <2>2. CASE UNCHANGED claim \/ claim' = Released(claim)
    <3>1. SameClaim(w)
      BY <2>2, <1>claims DEF SameClaim
    <3>2. QED
      BY <2>0, <2>1, <3>1, <1>same, QuietStep
  <2>3. CASE MayStart(w) /\ \E c \in {claim, Released(claim)} : claim' = [c EXCEPT !.started = w]
    <3>1. /\ claim.started = NoOwner /\ receipt.status # "PROCESSED"
          /\ claim'.status = claim.status /\ claim'.started = w
          /\ claim'.finished = claim.finished
      BY <2>3, <1>settled DEF MayStart
    <3>2. QED
      BY <2>0, <2>1, <3>1, StartStep
  <2>4. QED
    BY <1>5, <2>2, <2>3 DEF PreparationFails
<1>6. ASSUME HandlerReturns(w) PROVE Inv'
  <2>0. /\ receipt' = receipt /\ poll' = poll /\ claim' = claim /\ fresh' = fresh
        /\ exec[w].pc = "run"
        /\ handler'.starts = handler.starts /\ handler'.returned = TRUE
        /\ handler'.notice = handler.notice
    BY <1>6, <1>handler DEF HandlerReturns
  <2>1. /\ exec'[w].pc = "checkpoint" /\ exec'[w].source = exec[w].source
        /\ exec'[w].outcome = exec[w].outcome
        /\ \A v \in Executions \ {w} : exec'[v] = exec[v]
    BY <1>6, <1>steps, <1>pcs DEF HandlerReturns
  <2>2. Sound(receipt)' /\ ClaimInv'
    BY <2>0, <1>own
      DEF ClaimInv, FirstError, Retrying, Certified, SettledTogether, ProcessedIsProven, Sound
  <2>3. SourceInv(w)' /\ StartedInv(w)'
    BY <2>0, <2>1, <1>own
      DEF SourceInv, StartedInv, FirstError, Retrying, Certified, Unreturned, Returned,
          Recovering, Sound
  <2>4. ASSUME NEW v \in Executions \ {w} PROVE StartedInv(v)'
    BY <2>0, <2>1
      DEF Inv, StartedInv, FirstError, Retrying, Certified, Unreturned, Returned, Recovering,
          Pending
  <2>5. QED
    BY <2>0, <2>1, <2>2, <2>3, <2>4, <1>capped, LoudStep DEF Certified
<1>7. ASSUME Checkpoint(w) PROVE Inv'
  <2>0. /\ receipt' = receipt /\ poll' = poll /\ handler' = handler /\ fresh' = fresh
        /\ exec[w].pc = "checkpoint" /\ w \notin fresh
    BY <1>7, <1>fresh DEF Checkpoint
  <2>1. /\ \/ exec'[w] = IdleExecution
           \/ exec'[w].pc \in Returned /\ exec'[w].source = exec[w].source
              /\ exec'[w].outcome = exec[w].outcome
        /\ \A v \in Executions \ {w} : exec'[v] = exec[v]
    BY <1>7, <1>ends, <1>repeats, <1>steps, <1>pcs DEF Checkpoint, Returned
  <2>2. SameClaim(w) \/ (/\ claim'.status = claim.status /\ claim'.started = claim.started
                      /\ claim'.finished = TRUE /\ claim.started = w)
    BY <1>7, <1>settled DEF Checkpoint, SameClaim, Mine
  <2>3. SourceInv(w)' /\ StartedInv(w)'
    <3>1. CASE exec'[w] = IdleExecution
      BY <2>0, <3>1, <1>idle
    <3>2. CASE exec'[w].pc \in Returned /\ exec'[w].source = exec[w].source
               /\ exec'[w].outcome = exec[w].outcome
      BY <2>0, <2>2, <3>2, <1>own
        DEF SourceInv, StartedInv, FirstError, Retrying, Certified, Unreturned, Returned,
            Recovering, Sound, SameClaim
    <3>3. QED
      BY <2>1, <3>1, <3>2
  <2>4. CASE SameClaim(w)
    BY <2>0, <2>1, <2>3, <2>4, <1>same, QuietStep
  <2>5. CASE /\ claim'.status = claim.status /\ claim'.started = claim.started
             /\ claim'.finished = TRUE /\ claim.started = w
    <3>1. handler.returned /\ ~FirstError(receipt) /\ ~Certified
      BY <2>0, <1>own DEF StartedInv, Returned, Unreturned
    <3>2. Sound(receipt)' /\ ClaimInv'
      BY <2>0, <2>5, <3>1, <1>own
        DEF ClaimInv, FirstError, Retrying, Certified, SettledTogether, ProcessedIsProven, Sound
    <3>3. ASSUME NEW v \in Executions \ {w} PROVE StartedInv(v)'
      <4>1. /\ exec[v].pc \notin Unreturned \cup Returned \cup Recovering
            /\ exec[v].outcome = "none"
        BY <2>5, <3>1, <1>others DEF Inv, StartedInv
      <4>2. QED
        BY <2>0, <2>1, <4>1 DEF Recovering, StartedInv, Unreturned, Returned
    <3>4. QED
      BY <2>0, <2>1, <2>3, <2>5, <3>2, <3>3, <1>capped, LoudStep DEF Certified
  <2>6. QED
    BY <2>2, <2>4, <2>5
<1>8. ASSUME Settle(w) PROVE Inv'
  <2>0. poll' = poll /\ handler' = handler /\ exec[w].pc = "settle" /\ w \notin fresh
    BY <1>8, <1>fresh DEF Settle
  <2>1. /\ \/ exec'[w] = IdleExecution
           \/ exec'[w].pc = "checkpoint" /\ exec'[w].source = exec[w].source
              /\ exec'[w].outcome = exec[w].outcome
        /\ \A v \in Executions \ {w} : exec'[v] = exec[v]
    BY <1>8, <1>ends, <1>repeats DEF Settle
  <2>2. CASE Mine(w) /\ SourceStands(w) /\ claim' = Completed(claim)
             /\ Write(Processed(receipt), w)
    <3>1. receipt.status # "PROCESSED" /\ handler.returned /\ claim.started = w
      BY <2>0, <2>2, <1>own DEF Mine, SourceStands, Source, SourceInv, StartedInv, Returned
    <3>2. receipt'.error = "none" /\ w \notin fresh'
      BY <2>2, <1>types DEF Write, Processed, Receipts
    <3>3. SourceInv(w)' /\ StartedInv(w)'
      <4>1. CASE exec'[w] = IdleExecution
        BY <3>2, <4>1, <1>idle
      <4>2. CASE exec'[w].pc = "checkpoint" /\ exec'[w].source = exec[w].source
                 /\ exec'[w].outcome = exec[w].outcome
        <5>1. claim'.started = w
          BY <2>2, <3>1, <1>settled
        <5>2. exec[w].outcome = "none"
          BY <2>0, <1>own DEF StartedInv
        <5>3. QED
          BY <2>0, <3>1, <3>2, <4>2, <5>1, <5>2, <1>own
            DEF SourceInv, StartedInv, FirstError, Retrying, Certified, Unreturned, Returned,
                Recovering, Sound
      <4>3. QED
        BY <2>1, <4>1, <4>2
    <3>4. \A v \in Executions \ {w} : exec[v].pc \notin Unreturned
      BY <3>1, <1>others
    <3>5. QED
      BY <2>0, <2>1, <2>2, <3>1, <3>3, <3>4, <1>same, ProcessedStep
  <2>3. CASE UNCHANGED <<receipt, claim, fresh>> /\ Finish(w, "absent")
    <3>1. exec'[w] = IdleExecution
      BY <2>3, <1>ends DEF Return
    <3>2. QED
      BY <2>0, <2>1, <2>3, <3>1, <1>idle, <1>same, QuietStep DEF SameClaim
  <2>4. CASE UNCHANGED <<receipt, claim, fresh>> /\ Finish(w, "failed")
    <3>1. exec'[w] = IdleExecution
      BY <2>4, <1>ends DEF Throw
    <3>2. QED
      BY <2>0, <2>1, <2>4, <3>1, <1>idle, <1>same, QuietStep DEF SameClaim
  <2>5. QED
    BY <1>8, <2>2, <2>3, <2>4 DEF Settle, Return, Throw
<1>record. ASSUME exec[w].pc = "record", \A v \in Executions \ {w} : exec'[v] = exec[v],
                  UNCHANGED <<receipt, claim, poll, fresh>>,
                  CertifyNotice(w) \/ handler' = handler,
                  \/ exec'[w] = IdleExecution
                  \/ /\ exec'[w].source = exec[w].source /\ exec'[w].outcome = exec[w].outcome
                     /\ \/ exec'[w].pc = "rejectNotice" /\ CertifyNotice(w)
                        \/ exec'[w].pc = "reject" /\ handler' = handler
           PROVE  Inv'
  <2>1. /\ claim.started = w /\ ~claim.finished /\ claim.status = "READY" /\ w \notin fresh
        /\ ~Certified /\ ~FirstError(exec[w].source) /\ exec[w].outcome = "none"
        /\ exec[w].pc \in Unreturned
    BY <1>record, <1>own, <1>fresh DEF StartedInv, SourceInv, Unreturned
  <2>2. CertifyNotice(w) => Certified' /\ Fits(receipt)
    BY <2>1, <1>handler DEF CertifyNotice, Certified, Inv, Capped
  <2>3. SourceInv(w)'
    BY <1>record, <2>1, <1>own, <1>idle DEF SourceInv, Sound, FirstError, Retrying, Certified
  <2>4. StartedInv(w)'
    <3>1. CASE exec'[w] = IdleExecution
      BY <1>record, <2>1, <3>1, <1>idle
    <3>2. CASE /\ exec'[w].outcome = exec[w].outcome
               /\ exec'[w].pc = "rejectNotice" /\ CertifyNotice(w)
      BY <1>record, <2>1, <2>2, <3>2
        DEF StartedInv, Fits, Eligible, Unreturned, Returned, Recovering
    <3>3. CASE /\ exec'[w].outcome = exec[w].outcome
               /\ exec'[w].pc = "reject" /\ handler' = handler
      BY <1>record, <2>1, <3>3 DEF StartedInv, Certified, Unreturned, Returned, Recovering
    <3>4. QED
      BY <1>record, <3>1, <3>2, <3>3
  <2>5. CASE CertifyNotice(w)
    BY <1>record, <2>1, <2>3, <2>4, <2>5, CertifyStep
  <2>6. CASE handler' = handler
    BY <1>record, <2>3, <2>4, <2>6, <1>same, QuietStep DEF SameClaim
  <2>7. QED
    BY <1>record, <2>5, <2>6
<1>9. ASSUME RecordNotice(w) PROVE Inv'
  BY <1>9, <1>record, <1>steps, <1>pcs DEF RecordNotice
<1>10. ASSUME RecordFails(w) PROVE Inv'
  BY <1>10, <1>record, <1>ends DEF RecordFails
<1>11. ASSUME Reject(w) PROVE Inv'
  <2>0. /\ poll' = poll /\ handler' = handler /\ w \notin fresh
        /\ exec[w].pc \in {"reject", "rejectNotice"}
        /\ exec[w].pc = "reject" => exec[w].pc \in Unreturned
    BY <1>11, <1>fresh DEF Reject, Unreturned
  <2>1. /\ \/ exec'[w] = IdleExecution
           \/ exec'[w].pc = exec[w].pc /\ exec'[w].source = exec[w].source
              /\ exec'[w].outcome = exec[w].outcome
        /\ \A v \in Executions \ {w} : exec'[v] = exec[v]
    BY <1>11, <1>ends, <1>repeats DEF Reject
  <2>2. ASSUME NEW b \in Retries(w), Mine(w), SourceStands(w), claim' = Released(claim),
               Write([Failed(receipt, "handler") EXCEPT !.queue = NoQueue, !.next = b], w)
        PROVE  Inv'
    <3> DEFINE r == [Failed(receipt, "handler") EXCEPT !.queue = NoQueue, !.next = b]
    <3>1. /\ receipt.status # "PROCESSED" /\ claim.started = w /\ claim.status = "READY"
          /\ claim.token = w /\ w # NoOwner /\ ~FirstError(receipt)
      BY <2>0, <2>2, <1>own DEF Mine, SourceStands, Source, SourceInv, FirstError
    <3>2. ~claim.finished /\ exec[w].outcome = "none"
      BY <2>0, <1>own DEF StartedInv, ClaimInv, Recovering, Unreturned
    <3>3. b => /\ exec[w].pc = "rejectNotice" /\ Certified /\ Fits(receipt)
      BY <2>0, <2>2, <3>1, <1>own DEF Retries, StartedInv, Recovering
    <3>4. /\ r.status = "FAILED" /\ r.error = "handler" /\ r.next = b /\ r.fence = NoOwner
          /\ r.attempts = receipt.attempts
      BY <1>types DEF Failed, Receipts
    <3>5. receipt' = r
      BY <2>2 DEF Write
    <3> HIDE DEF r
    <3>6. fresh' = {}
      BY <2>2, <3>1, <3>4, <1>stale DEF FirstError, r
    <3>7. SameClaim(w) /\ claim'.token = NoOwner
      BY <2>2, <1>claims DEF SameClaim
    <3>8. SourceInv(w)' /\ StartedInv(w)'
      <4>1. CASE exec'[w] = IdleExecution
        BY <3>6, <4>1, <1>idle
      <4>2. CASE exec'[w].pc = exec[w].pc /\ exec'[w].source = exec[w].source
                 /\ exec'[w].outcome = exec[w].outcome
        <5>1. SourceInv(w)'
          BY <2>0, <3>1, <3>6, <3>7, <4>2, <1>own
            DEF SourceInv, FirstError, Retrying, Certified, Sound, SameClaim
        <5>2. StartedInv(w)'
          BY <2>0, <3>1, <3>2, <3>7, <4>2, <1>own
            DEF StartedInv, Certified, Unreturned, Returned, Recovering, SameClaim
        <5>3. QED
          BY <5>1, <5>2
      <4>3. QED
        BY <2>1, <4>1, <4>2
    <3>9. \A v \in Executions \ {w} : exec[v].pc \notin Unreturned \cup Returned
      BY <3>1, <1>others
    <3>10. \A v \in Executions \ {w} : exec[v].pc # "detached"
      BY <3>9 DEF Unreturned
    <3>11. QED
      BY <2>0, <2>1, <3>1, <3>2, <3>3, <3>4, <3>5, <3>6, <3>7, <3>8, <3>9, <3>10, FailedStep
  <2>3. CASE UNCHANGED <<receipt, claim, fresh>> /\ Throw(w)
    <3>1. exec'[w] = IdleExecution
      BY <2>3, <1>ends
    <3>2. QED
      BY <2>0, <2>1, <2>3, <3>1, <1>idle, <1>same, QuietStep DEF SameClaim
  <2>4. QED
    BY <1>11, <2>2, <2>3 DEF Reject
<1>quarantine. ASSUME StoreQuarantine(w), exec[w].pc \in Unreturned, poll' = poll,
                      handler' = handler,
                      \A v \in Executions \ {w} : exec'[v] = exec[v],
                      exec'[w].pc \in {"detached", "unfenced"},
                      exec'[w].source = exec[w].source, exec[w].outcome = "none",
                      exec'[w].outcome = "none"
               PROVE  Inv'
  <2> DEFINE r == [Failed(receipt, "timeout") EXCEPT !.fence = w]
  <2>1. /\ claim.started = w /\ ~claim.finished /\ claim.status = "READY"
        /\ receipt.status # "PROCESSED" /\ Write(r, w) /\ w \notin fresh
    BY <1>quarantine, <1>own, <1>fresh DEF StoreQuarantine, Mine, StartedInv, Unreturned
  <2>2. /\ r.status = "FAILED" /\ r.error = "timeout" /\ r.next = FALSE /\ r.fence = w
        /\ r.attempts = receipt.attempts
    BY <1>types DEF Failed, Receipts
  <2>3. receipt' = r /\ SameClaim(w)
    BY <2>1, <1>quarantine, <1>claims DEF Write, StoreQuarantine, SameClaim
  <2> HIDE DEF r
  <2>4. fresh' \subseteq fresh /\ w \notin fresh'
    BY <2>1 DEF Write
  <2>5. ~FirstError(receipt)' /\ Pending(receipt)' /\ receipt'.fence = w
    BY <2>2, <2>3 DEF FirstError, Pending
  <2>6. ~FirstError(exec[w].source)
    BY <1>quarantine, <1>own DEF SourceInv
  <2>7. SourceInv(w)'
    BY <1>quarantine, <1>own, <2>4, <2>6 DEF SourceInv, FirstError, Sound, Retrying, Certified
  <2>8. StartedInv(w)'
    BY <1>quarantine, <1>own, <2>1, <2>3, <2>5
      DEF StartedInv, Certified, Unreturned, Returned, Recovering, SameClaim
  <2>9. \A v \in Executions \ {w} : exec[v].pc # "detached"
    BY <2>1, <1>others DEF Unreturned
  <2>10. CASE r = receipt
    BY <1>quarantine, <2>3, <2>4, <2>7, <2>8, <2>10, <1>same, QuietStep
  <2>11. CASE r # receipt
    <3>1. fresh' = {}
      BY <2>1, <2>11, <1>stale
    <3>2. QED
      BY <1>quarantine, <2>1, <2>2, <2>3, <2>5, <2>7, <2>8, <2>9, <3>1, FailedStep
  <2>12. QED
    BY <2>10, <2>11
<1>12. ASSUME Quarantine(w) PROVE Inv'
  <2>1. /\ exec[w].pc \in Unreturned /\ exec[w].outcome = "none"
        /\ \A v \in Executions \ {w} : exec'[v] = exec[v]
        /\ exec'[w].pc = "detached" /\ exec'[w].source = exec[w].source
        /\ exec'[w].outcome = "none"
    BY <1>12, <1>types DEF Quarantine, ExecutionStates, Unreturned
  <2>2. QED
    BY <1>12, <1>quarantine, <2>1 DEF Quarantine
<1>13. ASSUME QuarantineFails(w) PROVE Inv'
  <2>1. /\ exec[w].pc = "timedOut" /\ exec[w].outcome = "none"
        /\ \A v \in Executions \ {w} : exec'[v] = exec[v]
        /\ exec'[w].pc = "unfenced" /\ exec'[w].source = exec[w].source
        /\ exec'[w].outcome = "none"
    BY <1>13, <1>steps, <1>pcs, <1>own DEF QuarantineFails, StartedInv
  <2>2. CASE StoreQuarantine(w)
    BY <1>13, <1>quarantine, <2>1, <2>2 DEF QuarantineFails, Unreturned
  <2>3. CASE UNCHANGED <<receipt, claim, fresh>>
    <3>1. SourceInv(w)' /\ StartedInv(w)'
      BY <1>13, <2>1, <2>3, <1>own, <1>fresh
        DEF QuarantineFails, SourceInv, StartedInv, FirstError, Retrying, Certified,
            Unreturned, Returned, Recovering, Sound
    <3>2. QED
      BY <1>13, <2>1, <2>3, <3>1, <1>same, QuietStep DEF QuarantineFails, SameClaim
  <2>4. QED
    BY <1>13, <2>2, <2>3 DEF QuarantineFails
<1>14. ASSUME HandlerEnds(w) PROVE Inv'
  <2>1. PICK o \in {"returned", "threw"} :
          /\ exec' = [exec EXCEPT ![w].outcome = o]
          /\ handler' = [handler EXCEPT !.returned = (o = "returned")]
    BY <1>14 DEF HandlerEnds
  <2>2. /\ exec'[w].pc = exec[w].pc /\ exec'[w].source = exec[w].source
        /\ exec'[w].outcome = o /\ \A v \in Executions \ {w} : exec'[v] = exec[v]
    BY <2>1, <1>types DEF ExecutionStates
  <2>3. /\ handler'.starts = handler.starts /\ (o = "returned" => handler'.returned)
        /\ handler'.notice = handler.notice
    BY <2>1, <1>handler
  <2>4. /\ receipt' = receipt /\ poll' = poll /\ claim' = claim /\ fresh' = fresh
        /\ exec[w].pc \in {"unfenced", "detached"}
    BY <1>14 DEF HandlerEnds
  <2>5. claim.started = w /\ ~claim.finished /\ claim.status = "READY"
    BY <2>4, <1>own DEF StartedInv, Unreturned
  <2>6. receipt.status # "PROCESSED"
    BY <2>5, <1>own DEF ClaimInv, SettledTogether
  <2>7. Sound(receipt)' /\ ClaimInv'
    BY <2>3, <2>4, <2>5, <2>6, <1>own
      DEF ClaimInv, FirstError, Retrying, Certified, SettledTogether, ProcessedIsProven, Sound
  <2>8. SourceInv(w)'
    BY <2>2, <2>3, <2>4, <1>own DEF SourceInv, FirstError, Sound, Retrying, Certified
  <2>9. StartedInv(w)'
    BY <2>2, <2>3, <2>4, <2>5, <1>own
      DEF StartedInv, FirstError, Retrying, Certified, Unreturned, Returned, Recovering,
          Pending
  <2>10. ASSUME NEW v \in Executions \ {w} PROVE StartedInv(v)'
    <3>1. /\ exec[v].pc \notin Unreturned \cup Returned \cup {"rejectNotice"}
          /\ exec[v].outcome = "none"
      BY <2>5, <1>others
    <3>2. StartedInv(v)
      BY DEF Inv
    <3>3. QED
      BY <2>2, <2>3, <3>1, <3>2 DEF StartedInv, Certified, Unreturned, Returned, Recovering
  <2>11. QED
    BY <2>2, <2>3, <2>4, <2>7, <2>8, <2>9, <2>10, <1>capped, LoudStep DEF Certified
<1>15. ASSUME SettleTimedOut(w) PROVE Inv'
  <2>1. /\ exec'[w] = IdleExecution /\ \A v \in Executions \ {w} : exec'[v] = exec[v]
        /\ poll' = poll /\ handler' = handler
    BY <1>15, <1>ends DEF SettleTimedOut
  <2>2. /\ exec[w].pc \in {"unfenced", "detached"}
        /\ claim.started = w /\ ~claim.finished /\ claim.status = "READY"
        /\ receipt.status # "PROCESSED" /\ w # NoOwner
    BY <1>15, <1>own DEF SettleTimedOut, StartedInv, Unreturned, Pending
  <2>3. \A v \in Executions \ {w} : exec[v].pc \notin Unreturned \cup Returned
    BY <2>2, <1>others
  <2>4. CASE exec[w].outcome = "returned"
    <3>1. handler.returned
      BY <2>4, <1>own DEF StartedInv
    <3>2. Write(Processed(receipt), w) /\ claim' = Completed(claim)
      BY <1>15, <2>4 DEF SettleTimedOut
    <3>3. w \notin fresh'
      BY <3>2 DEF Write
    <3>4. QED
      BY <2>1, <2>2, <2>3, <3>1, <3>2, <3>3, <1>idle, <1>same, ProcessedStep
  <2>5. CASE exec[w].outcome # "returned"
    <3> DEFINE r == Failed(receipt, "terminal")
    <3>1. Write(r, w) /\ claim' = Released(claim)
      BY <1>15, <2>5 DEF SettleTimedOut
    <3>2. /\ r.status = "FAILED" /\ r.error = "terminal" /\ r.next = FALSE /\ r.fence = NoOwner
          /\ r.attempts = receipt.attempts
      BY <1>types DEF Failed, Receipts
    <3>3. receipt' = r
      BY <3>1 DEF Write
    <3> HIDE DEF r
    <3>4. ~FirstError(receipt)
      BY <2>2, <1>own DEF StartedInv, Unreturned
    <3>5. fresh' = {}
      BY <3>1, <3>2, <3>4, <1>stale DEF FirstError
    <3>6. SameClaim(w)
      BY <3>1, <1>claims DEF SameClaim
    <3>7. \A v \in Executions \ {w} : exec[v].pc # "detached"
      BY <2>3 DEF Unreturned
    <3>8. QED
      BY <2>1, <2>2, <2>3, <3>2, <3>3, <3>5, <3>6, <3>7, <1>idle, FailedStep
  <2>6. QED
    BY <2>4, <2>5
<1>16. QED
  BY <1>1, <1>2, <1>3, <1>4, <1>5, <1>6, <1>7, <1>8, <1>9, <1>10, <1>11, <1>12, <1>13,
     <1>14, <1>15

\* The steps of a recovery: it holds no start, and the notice is certified.
LEMMA NoticeSteps ==
  ASSUME Inv, TypeOK', NEW w \in Executions, NoticeStep(w)
  PROVE  Inv'
<1>types. /\ exec[w] \in ExecutionStates /\ claim \in Claims
          /\ handler \in [starts : Nat, returned : BOOLEAN, notice : Notices]
  BY DEF Inv, TypeOK
<1>own. SourceInv(w) /\ StartedInv(w) /\ ClaimInv
  BY DEF Inv
<1>certified. /\ exec[w].pc \in {"notice", "deliver", "sending", "book"}
              /\ Certified /\ w \notin fresh /\ poll' = poll
              /\ exec[w].outcome = "none"
  <2>1. exec[w].pc \in {"notice", "deliver", "sending", "book"} /\ poll' = poll
    BY DEF NoticeStep, AcquireNotice, SendNotice, SentBefore, NoticeSent, BookNotice,
           ExpireNotice, NoticeThrows
  <2>2. QED
    BY <2>1, <1>own DEF SourceInv, StartedInv, Recovering
<1>others. \A v \in Executions : exec[v].pc \notin Unreturned \cup Returned
  BY <1>certified DEF Inv, StartedInv
<1>steps. \A c \in ExecutionPcs : Step(w, c) =>
            /\ exec'[w].pc = c /\ exec'[w].source = exec[w].source
            /\ exec'[w].outcome = exec[w].outcome
            /\ \A v \in Executions \ {w} : exec'[v] = exec[v]
  BY Steps DEF Inv
<1>ends. Return(w) \/ Throw(w) =>
           exec'[w] = IdleExecution /\ \A v \in Executions \ {w} : exec'[v] = exec[v]
  BY Ends DEF Inv
<1>idle. exec'[w] = IdleExecution /\ w \notin fresh' => SourceInv(w)' /\ StartedInv(w)'
  BY IdleInv
<1>quiet. ASSUME receipt' = receipt, fresh' = fresh, SameHandler, SameClaim(w),
                 exec'[w] = IdleExecution \/ \E c \in {"deliver", "sending", "book"} : Step(w, c),
                 \A v \in Executions \ {w} : exec'[v] = exec[v]
          PROVE  Inv'
  <2>1. CASE exec'[w] = IdleExecution
    BY <1>quiet, <1>certified, <1>idle, <2>1, QuietStep
  <2>2. CASE \E c \in {"deliver", "sending", "book"} : Step(w, c)
    <3>1. PICK c \in {"deliver", "sending", "book"} : Step(w, c)
      BY <2>2
    <3>2. exec'[w].pc = c /\ exec'[w].source = exec[w].source /\ exec'[w].outcome = exec[w].outcome
      BY <3>1, <1>steps DEF ExecutionPcs
    <3>3. SourceInv(w)'
      BY <1>quiet, <1>own, <1>certified, <3>2
        DEF SourceInv, Sound, FirstError, Retrying, Unreturned, Returned, SameHandler, SameClaim
    <3>4. StartedInv(w)'
      BY <1>quiet, <1>certified, <3>2
        DEF StartedInv, Unreturned, Returned, Recovering, SameHandler
    <3>5. QED
      BY <1>quiet, <1>certified, <3>3, <3>4, QuietStep
  <2>3. QED
    BY <1>quiet, <2>1, <2>2
<1>booked. ASSUME NoticeStands(w), claim' = Completed(claim), Write(Processed(receipt), w),
                  Return(w), SameHandler, handler'.notice \in {"sent", "expired"}
           PROVE  Inv'
  <2>1. receipt.status # "PROCESSED"
    BY <1>booked, <1>own DEF NoticeStands, NoticeOwned, ClaimInv, SettledTogether
  <2>2. w \notin fresh'
    BY <1>booked DEF Write
  <2>3. QED
    BY <1>booked, <1>certified, <1>others, <1>ends, <1>idle, <2>1, <2>2, ProcessedStep
<1>same. handler' = handler => SameHandler
  BY DEF SameHandler, Certified
<1>1. CASE AcquireNotice(w)
  <2>1. SameClaim(w)
    BY <1>1, <1>types, ClaimFields DEF AcquireNotice, SameClaim
  <2>2. \A v \in Executions \ {w} : exec'[v] = exec[v]
    BY <1>1, <1>steps DEF AcquireNotice, ExecutionPcs
  <2>3. QED
    BY <1>1, <2>1, <2>2, <1>quiet, <1>same DEF AcquireNotice
<1>2. CASE SendNotice(w) \/ SentBefore(w) \/ NoticeSent(w)
  <2>1. SameHandler
    BY <1>2, <1>types, <1>certified
      DEF SendNotice, SentBefore, NoticeSent, SameHandler, Certified
  <2>2. \A v \in Executions \ {w} : exec'[v] = exec[v]
    BY <1>2, <1>steps DEF SendNotice, SentBefore, NoticeSent, ExecutionPcs
  <2>3. QED
    BY <1>2, <2>1, <2>2, <1>quiet DEF SendNotice, SentBefore, NoticeSent, SameClaim
<1>3. CASE BookNotice(w)
  BY <1>3, <1>booked, <1>same DEF BookNotice
<1>4. CASE ExpireNotice(w)
  <2>1. SameHandler /\ handler'.notice = "expired"
    BY <1>4, <1>types, <1>certified DEF ExpireNotice, SameHandler, Certified
  <2>2. QED
    BY <1>4, <1>booked, <2>1 DEF ExpireNotice
<1>5. CASE NoticeThrows(w)
  <2>1. SameHandler
    BY <1>5, <1>types, <1>certified DEF NoticeThrows, SameHandler, Certified
  <2>2. SameClaim(w)
    BY <1>5, <1>types, ClaimFields DEF NoticeThrows, Release, SameClaim
  <2>3. QED
    BY <1>5, <2>1, <2>2, <1>ends, <1>quiet DEF NoticeThrows
<1>6. QED
  BY <1>1, <1>2, <1>3, <1>4, <1>5 DEF NoticeStep

------------------------------------------------------------------------------
(***************************************************************************)
(* The steps of the pollers.                                               *)
(***************************************************************************)

\* What a poller may leave in the receipt at the end of its turn with snapshot t.
Concluding(t, r) ==
  /\ r \in Receipts /\ r.status # "PROCESSED" /\ r.error \in {"none", "enqueue", "deferred"}
  /\ r.attempts \in {t.attempts, t.attempts + 1}
  /\ Eligible(r) => r.attempts \in {t.attempts} \cup 0..MaxEnqueueAttempts

LEMMA Conclusions ==
  ASSUME NEW s \in Receipts, s.attempts <= MaxEnqueueAttempts + 1,
         NEW q \in Queues \cup {NoQueue}, NEW b \in BOOLEAN
  PROVE  /\ Concluding(s, WithBackoff(s))
         /\ Concluding(s, [Failed(s, "enqueue") EXCEPT !.queue = NoQueue])
         /\ Concluding(s, [s EXCEPT !.status = "RECEIVED", !.error = "deferred",
                                 !.queue = NoQueue, !.next = TRUE])
         /\ Concluding(s, [s EXCEPT !.status = "QUEUED", !.queue = q, !.next = b, !.error = "none"])
         /\ Concluding(s, [s EXCEPT !.status = "FAILED", !.error = "enqueue",
                                 !.queue = NoQueue, !.next = b])
<1>1. Concluding(s, WithBackoff(s))
  <2>1. s.attempts + 1 \in 0..(MaxEnqueueAttempts + 2)
    BY WebhookConstants DEF Receipts
  <2> DEFINE r == WithBackoff(s)
  <2>2. r \in Receipts
    <3>1. \A n \in 0..(MaxEnqueueAttempts + 2) : [s EXCEPT !.attempts = n] \in Receipts
      BY DEF Receipts
    <3>2. \A x \in Receipts, m \in BOOLEAN :
            [x EXCEPT !.status = "FAILED", !.error = "enqueue", !.queue = NoQueue, !.next = m]
              \in Receipts
      BY DEF Receipts, Errors
    <3> DEFINE x == [s EXCEPT !.attempts = s.attempts + 1]
               m == s.attempts + 1 < MaxEnqueueAttempts
    <3>3. r = [x EXCEPT !.status = "FAILED", !.error = "enqueue", !.queue = NoQueue, !.next = m]
      BY DEF WithBackoff
    <3>4. x \in Receipts /\ m \in BOOLEAN
      BY <2>1, <3>1
    <3> HIDE DEF x, m, r
    <3>5. QED
      BY <3>2, <3>3, <3>4
  <2>3. /\ r.status = "FAILED" /\ r.error = "enqueue" /\ r.attempts = s.attempts + 1
        /\ (r.next => s.attempts + 1 < MaxEnqueueAttempts)
    BY DEF WithBackoff, Receipts
  <2>4. Concluding(s, r)
    <3> HIDE DEF r
    <3>1. s.attempts \in Nat /\ MaxEnqueueAttempts \in Nat
      BY WebhookConstants DEF Receipts
    <3>2. Eligible(r) => r.attempts \in 0..MaxEnqueueAttempts
      BY <2>3, <3>1 DEF Eligible
    <3>3. QED
      BY <2>2, <2>3, <3>2 DEF Concluding
  <2>5. QED
    BY <2>4
<1> USE WebhookConstants DEF Concluding, Receipts, Eligible, Errors
<1>2. Concluding(s, [Failed(s, "enqueue") EXCEPT !.queue = NoQueue])
  BY DEF Failed
<1>3. Concluding(s, [s EXCEPT !.status = "RECEIVED", !.error = "deferred",
                           !.queue = NoQueue, !.next = TRUE])
  OBVIOUS
<1>4. Concluding(s, [s EXCEPT !.status = "QUEUED", !.queue = q, !.next = b, !.error = "none"])
  OBVIOUS
<1>5. Concluding(s, [s EXCEPT !.status = "FAILED", !.error = "enqueue",
                           !.queue = NoQueue, !.next = b])
  OBVIOUS
<1>6. QED
  BY <1>1, <1>2, <1>3, <1>4, <1>5

\* A poller moves on without a write of the receipt.
LEMMA PollerMoves ==
  ASSUME Inv, TypeOK', NEW p \in Pollers, exec' = exec, handler' = handler, receipt' = receipt,
         fresh' \subseteq fresh \cup {p}, \A o \in Pollers \ {p} : poll'[o] = poll[o],
         PollerInv(p)',
         \/ claim' = claim
         \/ /\ claim.status # "COMPLETED" /\ claim'.status = "READY"
            /\ claim'.started = claim.started /\ claim'.finished = claim.finished
            /\ claim'.token = claim.token
  PROVE  Inv'
<1>1. Sound(receipt)' /\ Capped'
  BY DEF Inv, Sound, FirstError, Capped, Fits, Eligible, Certified
<1>2. ClaimInv'
  BY DEF Inv, ClaimInv, FirstError, Retrying, Certified, SettledTogether, ProcessedIsProven
<1>3. ASSUME NEW o \in Pollers, o # p PROVE PollerInv(o)'
  BY <1>3 DEF Inv, PollerInv, Eligible
<1>4. ASSUME NEW w \in Executions PROVE SourceInv(w)' /\ StartedInv(w)'
  <2>1. w # p
    BY WebhookConstants
  <2>2. SourceInv(w)'
    BY <2>1 DEF Inv, SourceInv, Sound, FirstError, Retrying, Certified
  <2>3. StartedInv(w)'
    BY DEF Inv, StartedInv, FirstError, Certified, Fits, Eligible, Unreturned, Returned, Pending
  <2>4. QED
    BY <2>2, <2>3
<1>5. QED
  BY <1>1, <1>2, <1>3, <1>4 DEF Inv

\* A poller writes the receipt: it was eligible, so nothing was quarantined.
LEMMA PollerWrites ==
  ASSUME Inv, TypeOK', NEW p \in Pollers, exec' = exec, handler' = handler, claim' = claim,
         Eligible(receipt), Concluding(receipt, receipt'), receipt'.fence = NoOwner,
         fresh' \subseteq {p}, \A o \in Pollers \ {p} : poll'[o] = poll[o],
         PollerInv(p)'
  PROVE  Inv'
<1>1. ~Pending(receipt) /\ ~FirstError(receipt)'
  BY DEF Inv, Sound, FirstError, Eligible, Pending, Concluding
<1>2. Sound(receipt)'
  BY <1>1 DEF Sound, Concluding
<1>3. ClaimInv'
  BY <1>1 DEF Inv, ClaimInv, FirstError, Retrying, Certified, SettledTogether,
              ProcessedIsProven, Concluding, Eligible
<1>attempts. receipt.attempts \in Nat /\ MaxEnqueueAttempts \in Nat
  BY WebhookConstants DEF Inv, TypeOK, Receipts
<1>fits. Fits(receipt) => Fits(receipt)'
  BY <1>attempts DEF Fits, Concluding
<1>4. Capped'
  <2>1. Certified' <=> Certified
    BY DEF Certified
  <2>2. Eligible(receipt)' => receipt'.attempts <= MaxEnqueueAttempts + 1
    BY <1>attempts DEF Inv, Capped, Concluding
  <2>3. QED
    BY <1>fits, <2>1, <2>2 DEF Inv, Capped
<1>5. ASSUME NEW o \in Pollers, o # p PROVE PollerInv(o)'
  BY <1>5 DEF Inv, PollerInv
<1>6. ASSUME NEW w \in Executions PROVE SourceInv(w)' /\ StartedInv(w)'
  <2>1. w \notin fresh'
    BY WebhookConstants
  <2>2. SourceInv(w)'
    BY <2>1 DEF Inv, SourceInv, Sound, FirstError, Retrying, Certified
  <2>3. StartedInv(w)'
    BY <1>1, <1>fits DEF Inv, StartedInv, Certified, Unreturned, Returned
  <2>4. QED
    BY <2>2, <2>3
<1>7. QED
  BY <1>2, <1>3, <1>4, <1>5, <1>6 DEF Inv

\* A poller whose turn ended.
LEMMA LeaveInv ==
  ASSUME TypeOK, NEW p \in Pollers, Leave(p), p \notin fresh'
  PROVE  PollerInv(p)' /\ \A o \in Pollers \ {p} : poll'[o] = poll[o]
BY DEF TypeOK, Leave, PollerInv, IdlePoller

LEMMA ConcludeStep ==
  ASSUME Inv, NEW p \in Pollers, NEW r, Concluding(poll[p].snap, r), Conclude(p, r),
         used' \in [crashes : 0..MaxCrashes, outages : 0..MaxOutages, defers : 0..MaxDefers]
  PROVE  Inv'
<1>1. TypeOK'
  <2>1. TypeOK /\ r \in Receipts
    BY DEF Inv, Concluding
  <2>2. QED
    BY <2>1, ConcludeType DEF TypeOK
<1>2. /\ exec' = exec /\ handler' = handler /\ claim' = claim /\ p \notin fresh'
      /\ fresh' \subseteq fresh
  BY DEF Conclude, Write, Forget
<1>3. PollerInv(p)' /\ \A o \in Pollers \ {p} : poll'[o] = poll[o]
  BY <1>2, LeaveInv DEF Conclude, Inv
<1> DEFINE x == [r EXCEPT !.fence = NoOwner]
<1>4. CASE p \in fresh /\ x # receipt
  <2>1. receipt' = x /\ fresh' = {}
    BY <1>4 DEF Conclude, Unchanged, Write
  <2>2. Concluding(poll[p].snap, x) /\ x.fence = NoOwner
    BY DEF Concluding, Receipts, Eligible
  <2> HIDE DEF x
  <2>3. Eligible(receipt) /\ poll[p].snap = receipt
    BY <1>4 DEF Inv, PollerInv
  <2>4. QED
    BY <1>1, <1>2, <1>3, <2>1, <2>2, <2>3, PollerWrites
<1>5. CASE p \notin fresh \/ x = receipt
  <2>1. receipt' = receipt
    BY <1>5 DEF Conclude, Unchanged, Write
  <2>2. QED
    BY <1>1, <1>2, <1>3, <2>1, PollerMoves
<1>6. QED
  BY <1>4, <1>5

LEMMA QuietPoller ==
  ASSUME Inv, NEW p \in Pollers,
         \/ Select(p) \/ PrepareReady(p) \/ PrepareSettled(p) \/ Lookup(p) \/ Inspect(p)
         \/ Add(p) \/ AddRefused(p) \/ AddFails(p) \/ Retry(p) \/ RetryFails(p) \/ PollerCrash(p)
  PROVE  Inv'
<1>types. /\ TypeOK /\ poll[p] \in PollerStates /\ claim \in Claims /\ receipt \in Receipts
          /\ job \in [Queues -> Jobs] /\ poll \in [Pollers -> PollerStates] /\ PollerInv(p)
          /\ fresh \in SUBSET (Pollers \cup Executions)
  BY DEF Inv, TypeOK
<1>go. \A c \in PollerPcs : Go(p, c) =>
         /\ poll' \in [Pollers -> PollerStates] /\ poll'[p].pc = c /\ poll'[p].snap = poll[p].snap
         /\ \A o \in Pollers \ {p} : poll'[o] = poll[o]
  <2>1. ASSUME NEW c \in PollerPcs, Go(p, c)
        PROVE  /\ poll'[p].pc = c /\ poll'[p].snap = poll[p].snap
               /\ \A o \in Pollers \ {p} : poll'[o] = poll[o]
    <3>1. poll'[p] = [poll[p] EXCEPT !.pc = c]
      BY <2>1, <1>types DEF Go
    <3>2. QED
      BY <2>1, <3>1, <1>types DEF Go, PollerStates
  <2>2. QED
    BY <2>1, <1>types, GoType
<1>leave. Leave(p) /\ Forget(p) =>
            /\ poll' \in [Pollers -> PollerStates] /\ PollerInv(p)'
            /\ \A o \in Pollers \ {p} : poll'[o] = poll[o]
            /\ fresh' \in SUBSET (Pollers \cup Executions) /\ fresh' \subseteq fresh \cup {p}
  <2>1. ASSUME Leave(p), Forget(p)
        PROVE  p \notin fresh' /\ fresh' \subseteq fresh /\ fresh' \in SUBSET (Pollers \cup Executions)
    BY <2>1, <1>types DEF Forget
  <2>2. QED
    BY <2>1, <1>types, LeaveInv, LeaveType
<1>stay. ASSUME poll'[p].snap = poll[p].snap, receipt' = receipt, poll[p].pc # "idle",
                poll'[p].pc \notin {"activate", "reactivate"}, fresh' = fresh
         PROVE  PollerInv(p)'
  BY <1>stay, <1>types DEF PollerInv, Eligible
<1>jobs. ASSUME NEW q \in Queues \cup {NoQueue}
         PROVE  /\ [job EXCEPT ![q] = NoJob] \in [Queues -> Jobs]
                /\ Added(q) \in [Queues -> Jobs] /\ Retried(q) \in [Queues -> Jobs]
  <2>1. NoJob \in Jobs /\ NewJob \in Jobs
    BY WebhookConstants DEF NoJob, NewJob, Jobs, JobStates
  <2>2. q \in Queues => [job[q] EXCEPT !.state = "waiting"] \in Jobs
    BY <1>types DEF Jobs, JobStates
  <2>3. \A j : (q \in Queues => j \in Jobs) => [job EXCEPT ![q] = j] \in [Queues -> Jobs]
    BY <1>types
  <2>4. Added(q) \in [Queues -> Jobs]
    BY <1>types, <2>1, <2>3 DEF Added
  <2>5. Retried(q) \in [Queues -> Jobs]
    BY <2>2, <2>3 DEF Retried
  <2>6. QED
    BY <2>1, <2>3, <2>4, <2>5
<1>queue. poll[p].queue \in Queues \cup {NoQueue}
  BY <1>types DEF PollerStates
<1>1. ASSUME Select(p) PROVE Inv'
  <2>1. [IdlePoller EXCEPT !.pc = "prepare", !.snap = receipt] \in PollerStates
    BY <1>types, IdleTypes DEF PollerStates, PollerPcs
  <2>2. poll'[p].pc = "prepare" /\ poll'[p].snap = receipt
    BY <1>1, <1>types DEF Select, IdlePoller
  <2>3. PollerInv(p)'
    BY <1>1, <2>2 DEF Select, Candidate, PollerInv, Eligible, Inv, Capped
  <2>4. TypeOK'
    BY <1>1, <1>types, <2>1 DEF Select, TypeOK
  <2>5. QED
    BY <1>1, <1>types, <2>3, <2>4, PollerMoves DEF Select
<1>2. ASSUME PrepareReady(p) PROVE Inv'
  <2>1. PICK q \in Targets(poll[p].snap) :
          poll' = [poll EXCEPT ![p].pc = IF Pristine(poll[p].snap) THEN "activate" ELSE "lookup",
                               ![p].queue = q]
    BY <1>2 DEF PrepareReady
  <2>2. q \in Queues \cup {NoQueue} /\ poll[p].snap \in Receipts
    BY <1>types, WebhookConstants DEF Targets, PollerStates, Receipts
  <2> DEFINE c == IF Pristine(poll[p].snap) THEN "activate" ELSE "lookup"
  <2>3. poll'[p] = [poll[p] EXCEPT !.pc = c, !.queue = q] /\ c \in PollerPcs
    BY <2>1, <1>types DEF PollerPcs
  <2>4. poll'[p] \in PollerStates /\ poll'[p].pc = c /\ poll'[p].snap = poll[p].snap
    BY <2>2, <2>3, <1>types DEF PollerStates
  <2>5. PollerInv(p)'
    <3>1. receipt' = receipt /\ fresh' = fresh /\ poll[p].pc = "prepare"
      BY <1>2 DEF PrepareReady
    <3>2. c = "activate" => poll[p].snap.attempts < MaxEnqueueAttempts
      BY WebhookConstants DEF Pristine, Received
    <3>3. poll'[p].pc \in {"activate", "lookup"}
      BY <2>4
    <3>4. poll'[p].pc = "activate" => poll'[p].snap.attempts < MaxEnqueueAttempts
      BY <2>4, <3>2
    <3>5. QED
      BY <2>4, <3>1, <3>3, <3>4, <1>types DEF PollerInv, Eligible
  <2>6. claim'.status = "READY" /\ claim'.started = claim.started
        /\ claim'.finished = claim.finished /\ claim'.token = claim.token /\ claim' \in Claims
    BY <1>2, <1>types DEF PrepareReady, Claims
  <2>7. poll' \in [Pollers -> PollerStates] /\ \A o \in Pollers \ {p} : poll'[o] = poll[o]
    BY <2>1, <2>2, <2>3, <2>4, <1>types
  <2>8. TypeOK'
    BY <1>2, <1>types, <2>6, <2>7 DEF PrepareReady, TypeOK
  <2>9. QED
    BY <1>2, <2>5, <2>6, <2>7, <2>8, PollerMoves DEF PrepareReady
<1>3. ASSUME PrepareSettled(p) PROVE Inv'
  <2>1. job' \in [Queues -> Jobs]
    BY <1>3, <1>types, <1>jobs DEF PrepareSettled, Carriers
  <2>2. TypeOK'
    BY <1>3, <1>types, <1>leave, <2>1 DEF PrepareSettled, TypeOK
  <2>3. QED
    BY <1>3, <1>leave, <2>2, PollerMoves DEF PrepareSettled
<1>4. ASSUME Lookup(p) PROVE Inv'
  <2>0. poll[p].pc = "lookup" /\ poll[p].snap \in Receipts
    BY <1>4, <1>types DEF Lookup, PollerStates
  <2>1. CASE Found(poll[p].queue) = {}
    <3> DEFINE c == IF Exhausted(p) THEN "exhaust" ELSE "activate"
    <3>1. Go(p, c) /\ c \in PollerPcs
      BY <1>4, <2>1 DEF Lookup, PollerPcs
    <3>2. PollerInv(p)'
      BY <1>4, <2>0, <3>1, <1>go, <1>types, WebhookConstants
        DEF Lookup, PollerInv, Eligible, Exhausted, Receipts
    <3>3. TypeOK'
      BY <1>4, <3>1, <1>go, <1>types DEF Lookup, TypeOK
    <3>4. QED
      BY <1>4, <3>1, <3>2, <3>3, <1>go, PollerMoves DEF Lookup
  <2>2. CASE Found(poll[p].queue) # {}
    <3>1. PICK q \in Found(poll[p].queue) :
            poll' = [poll EXCEPT ![p].pc = "inspect", ![p].queue = q]
      BY <1>4, <2>2 DEF Lookup
    <3>2. q \in Queues
      BY DEF Found, Carriers
    <3>3. poll'[p] = [poll[p] EXCEPT !.pc = "inspect", !.queue = q]
      BY <3>1, <1>types
    <3>4. poll'[p] \in PollerStates /\ poll'[p].pc = "inspect" /\ poll'[p].snap = poll[p].snap
      BY <3>2, <3>3, <1>types DEF PollerStates, PollerPcs
    <3>5. poll' \in [Pollers -> PollerStates] /\ \A o \in Pollers \ {p} : poll'[o] = poll[o]
      BY <3>1, <3>3, <3>4, <1>types
    <3>6. TypeOK'
      BY <1>4, <3>5, <1>types DEF Lookup, TypeOK
    <3>7. PollerInv(p)'
      BY <1>4, <2>0, <3>4, <1>stay DEF Lookup
    <3>8. QED
      BY <1>4, <3>5, <3>6, <3>7, PollerMoves DEF Lookup
  <2>3. QED
    BY <2>1, <2>2
<1>5. ASSUME Inspect(p) PROVE Inv'
  <2>0. /\ poll[p].pc = "inspect" /\ poll[p].snap \in Receipts
        /\ receipt' = receipt /\ claim' = claim /\ job' = job /\ exec' = exec
        /\ handler' = handler /\ used' = used
    BY <1>5, <1>types DEF Inspect, PollerStates
  <2>1. CASE Leave(p) /\ Forget(p)
    <3>1. TypeOK'
      BY <2>0, <2>1, <1>types, <1>leave DEF TypeOK
    <3>2. QED
      BY <2>0, <2>1, <3>1, <1>leave, PollerMoves
  <2>2. CASE \E c \in {"retry", "exhaust", "reactivate", "undo", "vanished", "linkDelayed", "link"} :
               Go(p, c) /\ fresh' = fresh /\ (c = "reactivate" => ~Exhausted(p))
    <3>1. PICK c \in {"retry", "exhaust", "reactivate", "undo", "vanished", "linkDelayed", "link"} :
            Go(p, c) /\ fresh' = fresh /\ (c = "reactivate" => ~Exhausted(p))
      BY <2>2
    <3>2. c \in PollerPcs
      BY DEF PollerPcs
    <3>3. PollerInv(p)'
      BY <2>0, <3>1, <3>2, <1>go, <1>types, WebhookConstants
        DEF PollerInv, Eligible, Exhausted, Receipts
    <3>4. TypeOK'
      BY <2>0, <3>1, <3>2, <1>go, <1>types DEF TypeOK
    <3>5. QED
      BY <2>0, <3>1, <3>2, <3>3, <3>4, <1>go, PollerMoves
  <2>3. QED
    BY <1>5, <2>1, <2>2 DEF Inspect
<1>add. ASSUME poll[p].pc \in {"add", "retry"},
                receipt' = receipt, claim' = claim, exec' = exec, handler' = handler,
                job' \in [Queues -> Jobs],
                used' \in [crashes : 0..MaxCrashes, outages : 0..MaxOutages, defers : 0..MaxDefers],
                \/ Leave(p) /\ Forget(p)
                \/ Go(p, "undo") /\ fresh' = fresh
                \/ Go(p, "inspect") /\ fresh' = fresh
         PROVE  Inv'
  <2>1. CASE Leave(p) /\ Forget(p)
    <3>1. TypeOK'
      BY <1>add, <2>1, <1>types, <1>leave DEF TypeOK
    <3>2. QED
      BY <1>add, <2>1, <3>1, <1>leave, PollerMoves
  <2>2. CASE \E c \in {"undo", "inspect"} : Go(p, c) /\ fresh' = fresh
    <3>1. PICK c \in {"undo", "inspect"} : Go(p, c) /\ fresh' = fresh
      BY <2>2
    <3>2. c \in PollerPcs
      BY DEF PollerPcs
    <3>3. PollerInv(p)'
      BY <1>add, <3>1, <3>2, <1>go, <1>stay
    <3>4. TypeOK'
      BY <1>add, <3>1, <3>2, <1>go, <1>types DEF TypeOK
    <3>5. QED
      BY <1>add, <3>1, <3>2, <3>3, <3>4, <1>go, PollerMoves
  <2>3. QED
    BY <1>add, <2>1, <2>2
<1>used. used \in [crashes : 0..MaxCrashes, outages : 0..MaxOutages, defers : 0..MaxDefers]
  BY <1>types DEF TypeOK
<1>6. ASSUME Add(p) PROVE Inv'
  BY <1>6, <1>add, <1>jobs, <1>queue, <1>used DEF Add
<1>7. ASSUME AddRefused(p) PROVE Inv'
  BY <1>7, <1>add, <1>types, <1>used DEF AddRefused
<1>8. ASSUME AddFails(p) PROVE Inv'
  <2>1. job' \in [Queues -> Jobs]
    BY <1>8, <1>types, <1>jobs, <1>queue DEF AddFails
  <2>2. QED
    BY <1>8, <2>1, <1>add, <1>types, SpendType DEF AddFails
<1>9. ASSUME Retry(p) PROVE Inv'
  BY <1>9, <1>add, <1>types, <1>jobs, <1>queue, <1>used DEF Retry
<1>10. ASSUME RetryFails(p) PROVE Inv'
  <2>1. job' \in [Queues -> Jobs]
    BY <1>10, <1>types, <1>jobs, <1>queue DEF RetryFails
  <2>2. QED
    BY <1>10, <2>1, <1>add, <1>types, SpendType DEF RetryFails
<1>11. ASSUME PollerCrash(p) PROVE Inv'
  <2>1. TypeOK'
    BY <1>11, <1>types, <1>leave, SpendType DEF PollerCrash, TypeOK
  <2>2. QED
    BY <1>11, <2>1, <1>leave, PollerMoves DEF PollerCrash
<1>12. QED
  BY <1>1, <1>2, <1>3, <1>4, <1>5, <1>6, <1>7, <1>8, <1>9, <1>10, <1>11

\* Every end of a turn but a lost activation.
LEMMA Concludes ==
  ASSUME Inv, NEW p \in Pollers,
         \/ PrepareDeferred(p) \/ PrepareFails(p) \/ Exhaust(p) \/ Link(p) \/ Vanished(p)
         \/ Undo(p)
  PROVE  /\ \E r : Concluding(poll[p].snap, r) /\ Conclude(p, r)
         /\ used' \in [crashes : 0..MaxCrashes, outages : 0..MaxOutages, defers : 0..MaxDefers]
<1> DEFINE s == poll[p].snap
<1>types. /\ TypeOK /\ poll[p].pc # "idle" /\ s \in Receipts /\ s.attempts <= MaxEnqueueAttempts + 1
          /\ poll[p].queue \in Queues \cup {NoQueue}
  <2>1. poll[p] \in PollerStates /\ TypeOK
    BY DEF Inv, TypeOK
  <2>2. poll[p].pc # "idle"
    BY DEF PrepareDeferred, PrepareFails, Exhaust, Link, Vanished, Undo
  <2>3. QED
    BY <2>1, <2>2 DEF Inv, PollerInv, PollerStates
<1> DEFINE repaired(b) == [s EXCEPT !.status = "QUEUED", !.queue = poll[p].queue, !.next = b,
                                    !.error = "none"]
           undone(b) == [s EXCEPT !.status = "FAILED", !.error = "enqueue", !.queue = NoQueue,
                                  !.next = b]
           deferred == [s EXCEPT !.status = "RECEIVED", !.error = "deferred", !.queue = NoQueue,
                                 !.next = TRUE]
           failed == [Failed(s, "enqueue") EXCEPT !.queue = NoQueue]
<1>1. /\ Concluding(s, WithBackoff(s)) /\ Concluding(s, failed) /\ Concluding(s, deferred)
      /\ \A b \in BOOLEAN : Concluding(s, repaired(b)) /\ Concluding(s, undone(b))
  BY <1>types, Conclusions
<1>2. used' \in [crashes : 0..MaxCrashes, outages : 0..MaxOutages, defers : 0..MaxDefers]
  BY <1>types, SpendType
    DEF PrepareDeferred, PrepareFails, Exhaust, Link, Vanished, Undo, TypeOK
<1>3. \/ Conclude(p, WithBackoff(s)) \/ Conclude(p, failed) \/ Conclude(p, deferred)
      \/ Conclude(p, repaired(poll[p].pc = "linkDelayed")) \/ Conclude(p, undone(~Exhausted(p)))
  BY DEF PrepareDeferred, PrepareFails, Exhaust, Link, Vanished, Undo
<1>4. (poll[p].pc = "linkDelayed") \in BOOLEAN /\ (~Exhausted(p)) \in BOOLEAN
  OBVIOUS
<1> HIDE DEF s, repaired, undone, deferred, failed
<1>5. \E r : Concluding(s, r) /\ Conclude(p, r)
  BY <1>1, <1>3, <1>4
<1>6. QED
  BY <1>2, <1>5 DEF s

LEMMA LoudPoller ==
  ASSUME Inv, NEW p \in Pollers,
         \/ PrepareDeferred(p) \/ PrepareFails(p) \/ Exhaust(p) \/ Link(p) \/ Vanished(p)
         \/ Undo(p) \/ Activate(p)
  PROVE  Inv'
<1>types. /\ TypeOK /\ poll[p] \in PollerStates /\ poll \in [Pollers -> PollerStates]
          /\ PollerInv(p)
          /\ fresh \in SUBSET (Pollers \cup Executions)
          /\ used \in [crashes : 0..MaxCrashes, outages : 0..MaxOutages, defers : 0..MaxDefers]
  BY DEF Inv, TypeOK
<1>snap. poll[p].snap \in Receipts /\ poll[p].queue \in Queues \cup {NoQueue}
  BY <1>types DEF PollerStates
<1>1. CASE \/ PrepareDeferred(p) \/ PrepareFails(p) \/ Exhaust(p) \/ Link(p) \/ Vanished(p)
         \/ Undo(p)
  BY <1>1, Concludes, ConcludeStep
<1>2. ASSUME Activate(p) PROVE Inv'
  <2>0. /\ poll[p].pc \in {"activate", "reactivate"}
        /\ claim' = claim /\ job' = job /\ exec' = exec /\ handler' = handler /\ used' = used
    BY <1>2 DEF Activate
  <2>1. CASE p \in fresh
    <3> DEFINE a == [poll[p].snap EXCEPT !.status = "QUEUED", !.queue = poll[p].queue,
                       !.attempts = poll[p].snap.attempts + 1, !.next = FALSE, !.error = "none",
                       !.fence = NoOwner]
               c == IF poll[p].pc = "activate" THEN "add" ELSE "retry"
    <3>1. /\ receipt' = a /\ fresh' = {p}
          /\ poll' = [poll EXCEPT ![p] = [poll[p] EXCEPT !.pc = c, !.snap = a, !.claimed = TRUE]]
      BY <1>2, <2>1, <1>types DEF Activate, Unchanged
    <3>2. poll[p].snap.attempts + 1 \in 0..(MaxEnqueueAttempts + 2)
          /\ poll[p].snap.attempts + 1 <= MaxEnqueueAttempts
      BY <2>0, <1>types, <1>snap, WebhookConstants DEF PollerInv, Receipts
    <3>3. a \in Receipts
      BY <3>2, <1>snap DEF Receipts, Errors
    <3>4. /\ a.status = "QUEUED" /\ a.error = "none" /\ a.fence = NoOwner
          /\ a.attempts = poll[p].snap.attempts + 1 /\ a.attempts \in 0..MaxEnqueueAttempts
      BY <3>2, <1>snap DEF Receipts
    <3>5. c \in PollerPcs /\ c \notin {"idle", "activate", "reactivate"}
      BY DEF PollerPcs
    <3> HIDE DEF a, c
    <3>6. /\ poll'[p] \in PollerStates /\ poll'[p].pc = c /\ poll'[p].snap = a
          /\ poll' \in [Pollers -> PollerStates] /\ \A o \in Pollers \ {p} : poll'[o] = poll[o]
      <4> DEFINE s == [poll[p] EXCEPT !.pc = c, !.snap = a, !.claimed = TRUE]
      <4>1. s \in PollerStates /\ s.pc = c /\ s.snap = a
        BY <3>3, <3>5, <1>types DEF PollerStates
      <4> HIDE DEF s
      <4>2. poll' = [poll EXCEPT ![p] = s]
        BY <3>1 DEF s
      <4>3. QED
        BY <4>1, <4>2, <1>types
    <3>7. TypeOK'
      BY <2>0, <3>1, <3>3, <3>6, <1>types DEF TypeOK
    <3>8. PollerInv(p)'
      BY <3>1, <3>4, <3>5, <3>6, WebhookConstants DEF PollerInv, Eligible
    <3>9. Eligible(receipt) /\ poll[p].snap = receipt
      BY <2>1, <1>types DEF PollerInv
    <3>10. Concluding(receipt, receipt') /\ receipt'.fence = NoOwner
      BY <3>1, <3>3, <3>4, <3>9 DEF Concluding
    <3>11. QED
      BY <2>0, <3>1, <3>6, <3>7, <3>8, <3>9, <3>10, PollerWrites
  <2>2. CASE p \notin fresh
    <3>1. Leave(p) /\ Forget(p) /\ receipt' = receipt
      BY <1>2, <2>2 DEF Activate, Unchanged
    <3>2. fresh' = fresh \ {p}
      BY <3>1 DEF Forget
    <3>3. PollerInv(p)' /\ (\A o \in Pollers \ {p} : poll'[o] = poll[o])
          /\ poll' \in [Pollers -> PollerStates]
      BY <3>1, <3>2, <1>types, LeaveInv, LeaveType
    <3>4. TypeOK'
      BY <2>0, <3>1, <3>2, <3>3, <1>types DEF TypeOK
    <3>5. QED
      BY <2>0, <3>1, <3>2, <3>3, <3>4, PollerMoves
  <2>3. QED
    BY <2>1, <2>2
<1>3. QED
  BY <1>1, <1>2

------------------------------------------------------------------------------
(***************************************************************************)
(* The rest of the system, and the invariant.                              *)
(***************************************************************************)

LEMMA SystemSteps ==
  ASSUME Inv, RecoverFinishedHead \/ LeaseExpires \/ (\E q \in Queues : Stall(q) \/ Evict(q))
  PROVE  Inv'
<1>types. /\ TypeOK /\ receipt \in Receipts /\ claim \in Claims /\ job \in [Queues -> Jobs]
          /\ fresh \subseteq Pollers \cup Executions
          /\ used \in [crashes : 0..MaxCrashes, outages : 0..MaxOutages, defers : 0..MaxDefers]
  BY DEF Inv, TypeOK
<1>same. ASSUME UNCHANGED <<receipt, poll, exec, fresh, handler>>, SameClaim(NoOwner), TypeOK'
         PROVE  Inv'
  <2>1. Sound(receipt)' /\ Capped' /\ ClaimInv'
    BY <1>same DEF Inv, Sound, Capped, Fits, Eligible, ClaimInv, FirstError, Retrying,
                   Certified, SettledTogether, ProcessedIsProven, SameClaim
  <2>2. ASSUME NEW p \in Pollers PROVE PollerInv(p)'
    BY <1>same DEF Inv, PollerInv, Eligible
  <2>3. ASSUME NEW w \in Executions PROVE SourceInv(w)' /\ StartedInv(w)'
    <3>1. claim'.token = w => claim.token = w
      BY <1>same, WebhookConstants DEF SameClaim
    <3>2. QED
      BY <1>same, <3>1
        DEF Inv, SourceInv, StartedInv, Sound, Fits, Eligible, FirstError, Retrying,
            Certified, Pending, SameClaim
  <2>4. QED
    BY <1>same, <2>1, <2>2, <2>3 DEF Inv
<1>1. ASSUME RecoverFinishedHead PROVE Inv'
  <2>1. /\ Write(Processed(receipt), NoOwner) /\ claim' = Completed(claim)
        /\ poll' = poll /\ exec' = exec /\ handler' = handler /\ job' = job /\ used' = used
        /\ receipt.status # "PROCESSED" /\ claim.finished
    BY <1>1 DEF RecoverFinishedHead, CanRecover
  <2>2. TypeOK'
    <3>1. Processed(receipt) \in Receipts /\ Completed(claim) \in Claims
      BY <1>types DEF Receipts, Processed, Errors, Claims, Completed, Released
    <3>2. receipt' \in Receipts /\ fresh' \subseteq Pollers \cup Executions
      BY <2>1, <3>1, <1>types, WriteType
    <3>3. QED
      BY <2>1, <3>1, <3>2, <1>types DEF TypeOK
  <2>3. handler.returned /\ \A w \in Executions : exec[w].pc \notin Unreturned
    BY <2>1 DEF Inv, ClaimInv, StartedInv
  <2>4. NoOwner \notin Executions /\ SameHandler
    BY <2>1, WebhookConstants DEF SameHandler, Certified
  <2>5. QED
    BY <2>1, <2>2, <2>3, <2>4, ProcessedStep
<1>2. ASSUME LeaseExpires PROVE Inv'
  <2>1. claim' = [claim EXCEPT !.live = FALSE] /\ UNCHANGED <<receipt, job, poll, exec, fresh, handler>>
    BY <1>2 DEF LeaseExpires
  <2>2. claim' \in Claims /\ SameClaim(NoOwner)
    BY <2>1, <1>types DEF Claims, SameClaim
  <2>3. used' \in [crashes : 0..MaxCrashes, outages : 0..MaxOutages, defers : 0..MaxDefers]
    BY <1>2, <1>types, SpendType DEF LeaseExpires
  <2>4. TypeOK'
    BY <2>1, <2>2, <2>3, <1>types DEF TypeOK
  <2>5. QED
    BY <2>1, <2>2, <2>4, <1>same
<1>3. ASSUME NEW q \in Queues, Stall(q) \/ Evict(q) PROVE Inv'
  <2>1. UNCHANGED <<receipt, claim, poll, exec, fresh, handler>>
    BY <1>3 DEF Stall, Evict
  <2>2. job' \in [Queues -> Jobs]
    <3>1. job[q] \in Jobs /\ NoJob \in Jobs
      BY <1>types, WebhookConstants DEF NoJob, Jobs, JobStates
    <3> DEFINE waiting == [job[q] EXCEPT !.state = "waiting", !.stalls = @ + 1, !.owner = NoOwner]
               failed == [job[q] EXCEPT !.state = "failed", !.owner = NoOwner]
    <3>2. (job[q].stalls < MaxStalls => waiting \in Jobs) /\ failed \in Jobs
      BY <3>1, JobValues DEF JobStates
    <3>3. \/ job' = [job EXCEPT ![q] = NoJob]
          \/ job' = [job EXCEPT ![q] = IF job[q].stalls < MaxStalls THEN waiting ELSE failed]
      <4>1. CASE Stall(q)
        <5>1. Stalled(q)
          BY <4>1 DEF Stall
        <5>2. CASE job[q].stalls < MaxStalls
          <6>1. job' = [job EXCEPT ![q] = waiting]
            BY <5>1, <5>2 DEF Stalled
          <6>2. QED
            BY <5>2, <6>1
        <5>3. CASE ~(job[q].stalls < MaxStalls)
          <6>1. job' = [job EXCEPT ![q] = failed]
            BY <5>1, <5>3, <3>1 DEF Stalled, Jobs
          <6>2. QED
            BY <5>3, <6>1
        <5>4. QED
          BY <5>2, <5>3
      <4>2. CASE Evict(q)
        BY <4>2 DEF Evict
      <4>3. QED
        BY <1>3, <4>1, <4>2
    <3> HIDE DEF waiting, failed
    <3>4. QED
      BY <3>1, <3>2, <3>3, <1>types
  <2>3. used' \in [crashes : 0..MaxCrashes, outages : 0..MaxOutages, defers : 0..MaxDefers]
    BY <1>3, <1>types, SpendType DEF Stall, Evict
  <2>4. TypeOK'
    BY <2>1, <2>2, <2>3, <1>types DEF TypeOK
  <2>5. QED
    BY <2>1, <2>4, <1>same DEF SameClaim
<1>4. QED
  BY <1>1, <1>2, <1>3

LEMMA InvInductive == Inv /\ [Next]_vars => Inv'
<1> SUFFICES ASSUME Inv, [Next]_vars PROVE Inv'
  OBVIOUS
<1>1. ASSUME NEW p \in Pollers, PollerStep(p) \/ PollerCrash(p) PROVE Inv'
  BY <1>1, QuietPoller, LoudPoller DEF PollerStep
<1>2. ASSUME NEW w \in Executions,
             ExecutionStep(w) \/ NoticeStep(w) \/ Heartbeat(w) \/ Crash(w)
      PROVE  Inv'
  <2>1. TypeOK'
    BY <1>2, TypeOfExecutions, TypeOfNotices DEF Inv
  <2>2. QED
    BY <1>2, <2>1, QuietOfExecutions, LoudOfExecutions, NoticeSteps DEF ExecutionStep
<1>3. CASE RecoverFinishedHead \/ LeaseExpires \/ (\E q \in Queues : Stall(q) \/ Evict(q))
  BY <1>3, SystemSteps
<1>4. CASE UNCHANGED vars
  <2>1. TypeOK' /\ Sound(receipt)' /\ Capped' /\ ClaimInv'
    BY <1>4 DEF Inv, TypeOK, vars, Sound, Capped, Fits, Eligible, ClaimInv, FirstError,
                Retrying, Certified, SettledTogether, ProcessedIsProven
  <2>2. ASSUME NEW p \in Pollers PROVE PollerInv(p)'
    BY <1>4 DEF Inv, PollerInv, Eligible, vars
  <2>3. ASSUME NEW w \in Executions PROVE SourceInv(w)' /\ StartedInv(w)'
    BY <1>4 DEF Inv, SourceInv, StartedInv, Sound, Fits, Eligible, FirstError, Retrying,
                Certified, Pending, vars
  <2>4. QED
    BY <2>1, <2>2, <2>3 DEF Inv
<1>5. QED
  BY <1>1, <1>2, <1>3, <1>4 DEF Next

LEMMA AlwaysInv == Spec => []Inv
<1>1. QED
  BY InitInv, InvInductive, PTL DEF Spec

\* Whoever writes the receipt found it neither processed nor with the error of
\* a handler that failed without a certified notice, and never lowers its attempts.
Writable ==
  /\ receipt.status # "PROCESSED" /\ (FirstError(receipt) => Certified)
  /\ receipt'.attempts \in {receipt.attempts, receipt.attempts + 1}

LEMMA PollerWritable ==
  ASSUME Inv, NEW p \in Pollers, PollerStep(p) \/ PollerCrash(p), receipt' # receipt
  PROVE  Writable
<1>1. p \in fresh /\ poll[p].snap \in Receipts
  <2>1. p \in fresh
    BY DEF PollerStep, Select, PrepareReady, PrepareSettled, PrepareDeferred, PrepareFails,
          Lookup, Inspect, Exhaust, Link, Vanished, Activate, Add, AddRefused, AddFails, Retry,
          RetryFails, Undo, PollerCrash, Conclude, Unchanged
  <2>2. QED
    BY <2>1 DEF Inv, TypeOK, PollerStates
<1>2. poll[p].snap = receipt /\ Eligible(receipt) /\ Sound(receipt) /\ ClaimInv
  BY <1>1 DEF Inv, PollerInv
<1>3. receipt.status # "PROCESSED" /\ (FirstError(receipt) => Certified)
  BY <1>2 DEF Sound, Eligible, FirstError, ClaimInv, Retrying
<1>4. \/ PrepareDeferred(p) \/ PrepareFails(p) \/ Exhaust(p) \/ Link(p) \/ Vanished(p)
      \/ Undo(p) \/ Activate(p)
  BY DEF PollerStep, Select, PrepareReady, PrepareSettled, Lookup, Inspect, Add, AddRefused,
         AddFails, Retry, RetryFails, PollerCrash
<1>5. CASE Activate(p)
  <2>1. receipt' = [receipt EXCEPT !.status = "QUEUED", !.queue = poll[p].queue,
                                   !.attempts = receipt.attempts + 1, !.next = FALSE,
                                   !.error = "none", !.fence = NoOwner]
    BY <1>1, <1>2, <1>5 DEF Activate, Unchanged
  <2>2. receipt'.attempts = receipt.attempts + 1
    BY <1>1, <1>2, <2>1 DEF Receipts
  <2>3. QED
    BY <1>2, <1>3, <2>2 DEF Writable, Eligible
<1>6. CASE ~Activate(p)
  <2>1. PICK r : Concluding(poll[p].snap, r) /\ Conclude(p, r)
    BY <1>4, <1>6, Concludes
  <2>2. receipt' = [r EXCEPT !.fence = NoOwner]
    BY <1>1, <2>1 DEF Conclude, Unchanged, Write
  <2>3. receipt'.attempts \in {receipt.attempts, receipt.attempts + 1}
    BY <1>2, <2>1, <2>2 DEF Concluding, Receipts
  <2>4. QED
    BY <1>2, <1>3, <2>3 DEF Writable, Eligible
<1>7. QED
  BY <1>5, <1>6

LEMMA ExecutionWritable ==
  ASSUME Inv, NEW w \in Executions,
         ExecutionStep(w) \/ NoticeStep(w) \/ Heartbeat(w) \/ Crash(w), receipt' # receipt
  PROVE  Writable
<1>types. receipt \in Receipts /\ ClaimInv /\ Sound(receipt)
  BY DEF Inv, TypeOK
<1>own. SourceInv(w) /\ StartedInv(w)
  BY DEF Inv
<1>kept. /\ Processed(receipt).attempts = receipt.attempts
         /\ \A e, q : [Failed(receipt, e) EXCEPT !.queue = q].attempts = receipt.attempts
         /\ \A e, q, b : [Failed(receipt, e) EXCEPT !.queue = q, !.next = b].attempts
                            = receipt.attempts
         /\ \A e, f : [Failed(receipt, e) EXCEPT !.fence = f].attempts = receipt.attempts
         /\ \A e : Failed(receipt, e).attempts = receipt.attempts
  BY <1>types DEF Receipts, Processed, Failed
<1>1. \/ RepairReceipt(w) \/ RecoverFinished(w) \/ Disown(w) \/ Expire(w) \/ Settle(w)
      \/ Reject(w) \/ Quarantine(w) \/ QuarantineFails(w) \/ SettleTimedOut(w)
      \/ BookNotice(w) \/ ExpireNotice(w)
  BY DEF ExecutionStep, Take, Read, KeepFirstError, AwaitStarted, AcquireLease,
         AwaitPredecessor, AwaitExecutor, Recheck, Start, PreparationFails, HandlerReturns,
         HandlerThrows, HandlerTimesOut, StorageFails, Checkpoint, HandlerEnds, Heartbeat,
         Crash, RecordNotice, RecordFails, NoticeStep, AcquireNotice, SendNotice, SentBefore,
         NoticeSent, NoticeThrows
<1>2. ~RepairReceipt(w)
  <2>1. Compared(receipt).status = receipt.status
    BY <1>types, ComparedFields
  <2>2. QED
    BY <1>types, <1>own, <2>1 DEF RepairReceipt, SourceInv, ClaimInv, SettledTogether
<1>3. CASE RecoverFinished(w)
  <2>1. receipt' = Processed(receipt) /\ claim.finished /\ claim.status = "READY"
    BY <1>3 DEF RecoverFinished, Write
  <2>2. QED
    BY <2>1, <1>types, <1>kept DEF ClaimInv, SettledTogether, Writable
<1>4. CASE Disown(w)
  <2>1. /\ SourceStands(w) /\ exec[w].pc = "disown"
        /\ receipt' = [Failed(receipt, "unaccounted") EXCEPT !.queue = NoQueue]
    BY <1>4 DEF Disown, Write
  <2>2. receipt.status # "PROCESSED" /\ (FirstError(receipt) => Certified)
    BY <2>1, <1>own DEF SourceInv, SourceStands, Source, FirstError
  <2>3. QED
    BY <2>1, <2>2, <1>kept, <1>own DEF Writable, SourceInv, SourceStands, Source
<1>5. CASE Expire(w)
  BY <1>5, <1>types, <1>kept DEF Expire, ClaimInv, Write, Writable
<1>6. CASE Settle(w)
  <2>1. SourceStands(w) /\ exec[w].pc = "settle" /\ receipt' = Processed(receipt)
    BY <1>6 DEF Settle, Write
  <2>2. QED
    BY <2>1, <1>kept, <1>own
      DEF Writable, SourceInv, SourceStands, Source, FirstError, Returned
<1>7. CASE Reject(w)
  <2>1. /\ SourceStands(w) /\ exec[w].pc \in {"reject", "rejectNotice"}
        /\ \E b : receipt' = [Failed(receipt, "handler") EXCEPT !.queue = NoQueue, !.next = b]
    BY <1>7 DEF Reject, Write
  <2>2. QED
    BY <2>1, <1>kept, <1>own
      DEF Writable, SourceInv, SourceStands, Source, FirstError, Unreturned
<1>8. CASE Quarantine(w) \/ QuarantineFails(w)
  <2>1. /\ exec[w].pc \in {"timedOut", "unfenced"} /\ receipt.status # "PROCESSED"
        /\ receipt' = [Failed(receipt, "timeout") EXCEPT !.fence = w]
    BY <1>8 DEF Quarantine, QuarantineFails, StoreQuarantine, Write
  <2>2. QED
    BY <2>1, <1>kept, <1>own DEF Writable, StartedInv, Unreturned
<1>9. CASE SettleTimedOut(w)
  <2>1. /\ exec[w].pc \in Unreturned \ {"reject"} /\ receipt.status # "PROCESSED"
    BY <1>9, <1>own DEF SettleTimedOut, StartedInv, Pending, Unreturned
  <2>2. receipt'.attempts = receipt.attempts
    BY <1>9, <1>kept DEF SettleTimedOut, Write
  <2>3. QED
    BY <2>1, <2>2, <1>own DEF Writable, StartedInv
<1>10. CASE BookNotice(w) \/ ExpireNotice(w)
  <2>1. /\ claim.status = "READY" /\ exec[w].pc \in Recovering
        /\ receipt' = Processed(receipt)
    BY <1>10 DEF BookNotice, ExpireNotice, NoticeStands, NoticeOwned, Write, Recovering
  <2>2. QED
    BY <2>1, <1>types, <1>own, <1>kept DEF Writable, StartedInv, ClaimInv, SettledTogether
<1>11. QED
  BY <1>1, <1>2, <1>3, <1>4, <1>5, <1>6, <1>7, <1>8, <1>9, <1>10

LEMMA Writers == Inv /\ [Next]_vars => receipt' = receipt \/ Writable
<1> SUFFICES ASSUME Inv, [Next]_vars, receipt' # receipt PROVE Writable
  OBVIOUS
<1>1. ASSUME RecoverFinishedHead PROVE Writable
  <2>1. Processed(receipt).attempts = receipt.attempts
    BY DEF Inv, TypeOK, Receipts, Processed
  <2>2. QED
    BY <1>1, <2>1 DEF Inv, RecoverFinishedHead, CanRecover, ClaimInv, Write, Writable
<1>2. CASE LeaseExpires \/ (\E q \in Queues : Stall(q) \/ Evict(q)) \/ UNCHANGED vars
  BY <1>2 DEF LeaseExpires, Stall, Evict, vars
<1>3. QED
  BY <1>1, <1>2, PollerWritable, ExecutionWritable DEF Next

------------------------------------------------------------------------------
(***************************************************************************)
(* Theorems.                                                               *)
(***************************************************************************)

\* Receipt, claim, jobs, pollers and executions keep their types.
THEOREM TypeCorrect == Spec => []TypeOK
<1>1. Inv => TypeOK
  BY DEF Inv
<1>2. QED
  BY <1>1, AlwaysInv, PTL

\* However many pollers and workers carry an update, its business handler
\* starts at most once (the "start" transaction of prepareExecution).
THEOREM OneStart == Spec => []HandlerStartsOnce
<1>1. Inv => HandlerStartsOnce
  BY DEF Inv, ClaimInv, HandlerStartsOnce
<1>2. QED
  BY <1>1, AlwaysInv, PTL

\* completeExecution, the recoveries and the expiry leave no state in which only
\* one of claim and receipt is settled.
THEOREM OneSettlement == Spec => []SettledTogether
<1>1. Inv => SettledTogether
  BY DEF Inv, ClaimInv
<1>2. QED
  BY <1>1, AlwaysInv, PTL

\* A receipt is processed behind a handler that returned or never started, or
\* behind the notice of its command (recoverGroupCommandNotice settles on a
\* completed send or on the expiry of an unattempted one).
THEOREM NothingSkipped == Spec => []ProcessedIsProven
<1>1. Inv => ProcessedIsProven
  BY DEF Inv, ClaimInv
<1>2. QED
  BY <1>1, AlwaysInv, PTL

\* The marker of quarantineTimedOutExecution stays in the receipt for as long
\* as the handler behind it may run.
THEOREM MarkerStays == Spec => []DetachedIsFenced
<1>1. Inv => DetachedIsFenced
  BY DEF Inv, StartedInv, DetachedIsFenced
<1>2. QED
  BY <1>1, AlwaysInv, PTL

\* Nobody writes the receipt of a processed update.
THEOREM SettledForGood == Spec => SettledStays
<1>1. Inv /\ [Next]_vars => [receipt.status = "PROCESSED" => UNCHANGED receipt]_receipt
  BY Writers DEF Writable
<1>2. QED
  BY <1>1, AlwaysInv, PTL DEF Spec, SettledStays

\* Nobody overwrites the first error of a started handler or makes it eligible
\* again, unless recordGroupCommandNoticeRecovery certified a notice of its
\* command before (settleRejectedStartedExecution then keeps nextEnqueueAt).
THEOREM FirstErrorKept == Spec => FirstErrorStays
<1>1. Inv /\ [Next]_vars =>
        [claim.started # NoOwner /\ handler.notice = "none"
           /\ receipt.status = "FAILED" /\ receipt.error \in {"handler", "terminal"}
           => UNCHANGED receipt]_receipt
  BY Writers DEF Writable, FirstError, Certified
<1>2. QED
  BY <1>1, AlwaysInv, PTL DEF Spec, FirstErrorStays

\* No poller that is late lowers the number of activations of the receipt.
THEOREM AttemptsOnlyGrow == Spec => AttemptsAreKept
<1>1. Inv /\ [Next]_vars => [receipt'.attempts >= receipt.attempts]_receipt
  <2>1. ASSUME Inv, [Next]_vars PROVE receipt' = receipt \/ receipt'.attempts >= receipt.attempts
    <3>1. receipt.attempts \in Nat
      BY <2>1, WebhookConstants DEF Inv, TypeOK, Receipts
    <3>2. QED
      BY <2>1, <3>1, Writers DEF Writable
  <2>2. QED
    BY <2>1
<1>2. QED
  BY <1>1, AlwaysInv, PTL DEF Spec, AttemptsAreKept

=============================================================================
