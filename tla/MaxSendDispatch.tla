--------------------------- MODULE MaxSendDispatch ---------------------------
(***************************************************************************)
(* One SEND_MESSAGE key from enqueue to settlement.  The ledger row and    *)
(* the BullMQ job of the key are shared by the producer that enqueues the  *)
(* key (max-client.service.ts), the workers that execute it, from the      *)
(* queue or immediately (max-action-dispatch.service.ts, max-client), the  *)
(* ledger watchdog, and the repairs of special keys.  Every SQL statement, *)
(* queue command and HTTP request is a step of its own, so a worker may    *)
(* crash, stall or be overtaken between any two of them; a statement may   *)
(* also commit and still report an error.                                  *)
(*                                                                         *)
(* MAX itself is external: a POST /messages is in flight until MAX accepts *)
(* it (the message exists) or definitively rejects it, and the worker may  *)
(* see neither (timeout, 5xx, lost reply), even if it no longer waits.     *)
(***************************************************************************)
EXTENDS MaxActionLedger, FiniteSets

CONSTANTS
  Workers,         \* concurrent executions of the key (action workers)
  MaxTokens,       \* bound: dispatch claims ever made
  MaxAttempts,     \* opts.attempts of the BullMQ job
  MaxStalls,       \* maxStalledCount of the BullMQ worker
  MaxEnqueues,     \* bound: times a producer asks for the key
  MaxImmediates,   \* bound: immediate executions of the key
  MaxRepairs,      \* bound: repairs of the row and expirations of the job
  WatchdogOn,      \* rollout mode of the watchdog: on, or off/shadow
  Family           \* the family of the key

ASSUME BoundsAssumption ==
  /\ MaxTokens \in Nat /\ MaxAttempts \in Nat \ {0} /\ MaxStalls \in Nat
  /\ MaxEnqueues \in Nat /\ MaxImmediates \in Nat /\ MaxRepairs \in Nat
  /\ WatchdogOn \in BOOLEAN /\ Family \in Families

NoOwner == "none"   \* nobody holds the lock of the BullMQ job

ASSUME WorkersAssumption == NoOwner \notin Workers

VARIABLES
  row,       \* the ledger row of the key
  seen,      \* updatedAt is still the one the watchdog read
  job,       \* the BullMQ job of the key
  wk,        \* worker executions
  inflight,  \* POSTs MAX has not answered for
  accepted,  \* POSTs MAX turned into a message
  rejected,  \* POSTs MAX definitively refused, the refusal under way
  nextToken, \* the next randomUUID()
  prod,      \* the producer
  wd,        \* the watchdog: what it saw of the queue
  used       \* what is spent of the bounds

vars == <<row, seen, job, wk, inflight, accepted, rejected, nextToken, prod,
          wd, used>>
http == <<inflight, accepted, rejected>>

Posts == [token : Nat, bot : Bots \cup {NoBot}]

JobStates == {"absent", "waiting", "active", "failed"}

Jobs == [state : JobStates, made : Nat, stalls : Nat,
         owner : Workers \cup {NoOwner}, ambiguous : BOOLEAN]

WorkerPcs == {"idle", "check", "start", "ready", "prepared",
              "lost", "foreign",
              "claimed", "waiting", "completing", "completed",
              "releasing", "quarantine", "failing", "settling", "done"}

IdleWorker == [pc |-> "idle", queued |-> FALSE, token |-> NoToken,
               bot |-> NoBot, tried |-> {}, tries |-> 0, final |-> FALSE,
               err |-> "none"]

WorkerStates == [pc : WorkerPcs, queued : BOOLEAN, token : Nat,
                 bot : Bots \cup {NoBot}, tried : SUBSET Bots, tries : 0..1,
                 final : BOOLEAN, err : ErrorClasses \cup {"none"}]

ProducerPcs == {"idle", "remove", "add", "observe", "retryAdd", "enqueued",
                "enqueueFailed", "enqueueAmbiguous"}

\* Rows, jobs, workers and counters keep their shape: in particular a claim is
\* tried again at most once, whatever fences come and go.
TypeOK ==
  /\ row \in Rows
  /\ seen \in BOOLEAN
  /\ job \in Jobs
  /\ wk \in [Workers -> WorkerStates]
  /\ inflight \in SUBSET Posts
  /\ accepted \in SUBSET Posts
  /\ rejected \in SUBSET Posts
  /\ nextToken \in Nat \ {0}
  /\ prod \in [pc : ProducerPcs, started : BOOLEAN]
  /\ wd \in [pc : {"idle", "read", "decide"}, obs : JobStates]
  /\ used \in [enqueues : Nat, immediates : Nat, repairs : Nat]

NoJob == [state |-> "absent", made |-> 0, stalls |-> 0, owner |-> NoOwner,
          ambiguous |-> FALSE]

Init ==
  /\ row = AbsentRow
  /\ seen = FALSE
  /\ job = NoJob
  /\ wk = [w \in Workers |-> IdleWorker]
  /\ inflight = {} /\ accepted = {} /\ rejected = {}
  /\ nextToken = 1
  /\ prod = [pc |-> "idle", started |-> FALSE]
  /\ wd = [pc |-> "idle", obs |-> "absent"]
  /\ used = [enqueues |-> 0, immediates |-> 0, repairs |-> 0]

------------------------------------------------------------------------------
(***************************************************************************)
(* Helpers.                                                                *)
(***************************************************************************)

\* A statement that matches the row also moves its updatedAt.
Write(r) == row' = r /\ seen' = FALSE
KeepRow == UNCHANGED <<row, seen>>
WriteIf(cond, r) == IF cond THEN Write(r) ELSE KeepRow

\* A statement whose answer is lost may have committed or not.
MayWrite(cond, r) == WriteIf(cond, r) \/ KeepRow

Goto(w, p) == wk' = [wk EXCEPT ![w] = [wk[w] EXCEPT !.pc = p]]

\* The attempt with one candidate throws an error of class e.  An earlier lost
\* access (lastAccessError) wins over an open circuit.
Throw(w, e) ==
  wk' = [wk EXCEPT ![w] = [wk[w] EXCEPT !.pc = "failing",
           !.err = IF e = "circuit" /\ wk[w].err = "denied" THEN "denied" ELSE e,
           !.token = NoToken, !.tries = 0]]

\* The execution ends, with a receipt or with an error of class e.
Return(w) == wk' = [wk EXCEPT ![w] = [IdleWorker EXCEPT !.pc = "done",
                                        !.queued = wk[w].queued]]
Rethrow(w, e) ==
  wk' = [wk EXCEPT ![w] = [IdleWorker EXCEPT !.pc = "settling",
                             !.queued = wk[w].queued, !.err = e]]

At(w, p) == wk[w].pc = p

PostOf(w) == [token |-> wk[w].token, bot |-> wk[w].bot]

Live(j) == j.state \in {"waiting", "active"}

------------------------------------------------------------------------------
(***************************************************************************)
(* The producer: enqueueing through BullMQ.                                *)
(***************************************************************************)

ProducerAdds == {"add", "observe", "retryAdd"}

ProducerGoto(p) ==
  prod' = [pc |-> p, started |-> prod.started /\ p \in ProducerAdds]
ProducerStops == ProducerGoto("idle")

\* An attempt marker written while the producer is adding the job.
NoteStart == prod' = [prod EXCEPT !.started = @ \/ prod.pc \in ProducerAdds]

\* hasExecutionEvidenceSince: whether the row shows a start since this enqueue
\* began; a read that fails counts as no evidence.
ExecutionEvidence == {prod.started /\ row.attempted, FALSE}

\* assertCanEnqueue; a refusal throws to the caller.
AssertCanEnqueue ==
  /\ prod.pc = "idle"
  /\ used.enqueues < MaxEnqueues
  /\ used' = [used EXCEPT !.enqueues = @ + 1]
  /\ WriteIf(ClearableLegacy(row, Family), AbsentRow)
  /\ IF ClearableLegacy(row, Family) \/ CanEnqueue(row)
     THEN ProducerGoto("remove") ELSE ProducerStops
  /\ UNCHANGED <<job, wk, http, nextToken, wd>>

\* removeRetainedFailedActionJob: a failed job that ended ambiguously stays.
RemoveRetainedFailedJob ==
  /\ prod.pc = "remove"
  /\ IF job.state = "failed" /\ job.ambiguous
     THEN ProducerStops /\ UNCHANGED job
     ELSE /\ ProducerGoto("add")
          /\ job' = IF job.state = "failed" THEN NoJob ELSE job
  /\ KeepRow
  /\ UNCHANGED <<wk, http, nextToken, wd, used>>

\* Queue.add: a jobId the queue already knows is not added again.
QueueAdd == job' = IF job.state = "absent" THEN [NoJob EXCEPT !.state = "waiting"]
                   ELSE job

AddActionJob ==
  /\ prod.pc = "add"
  /\ \/ QueueAdd /\ ProducerGoto("enqueued")
     \/ (QueueAdd \/ UNCHANGED job) /\ ProducerGoto("observe")
  /\ KeepRow
  /\ UNCHANGED <<wk, http, nextToken, wd, used>>

\* observeActionQueueJob after an add that threw.  The queue may also stay
\* unreadable ("unknown"), which is retried once.
ObserveFailedAdd ==
  /\ prod.pc = "observe"
  /\ \E evidence \in ExecutionEvidence :
       \/ ProducerGoto(IF Live(job) \/ evidence THEN "enqueued"
                       ELSE "enqueueFailed")
       \/ ProducerGoto(IF evidence THEN "enqueued" ELSE "retryAdd")
  /\ KeepRow
  /\ UNCHANGED <<job, wk, http, nextToken, wd, used>>

RetryAddActionJob ==
  /\ prod.pc = "retryAdd"
  /\ \/ QueueAdd /\ ProducerGoto("enqueued")
     \/ /\ QueueAdd \/ UNCHANGED job
        /\ \E evidence \in ExecutionEvidence :
             ProducerGoto(IF evidence THEN "enqueued" ELSE "enqueueAmbiguous")
  /\ KeepRow
  /\ UNCHANGED <<wk, http, nextToken, wd, used>>

\* The last statement of the enqueue.  Its failure is only logged.
RecordEnqueueOutcome ==
  /\ prod.pc \in {"enqueued", "enqueueFailed", "enqueueAmbiguous"}
  /\ LET r == IF prod.pc = "enqueued" THEN RecordEnqueuedIfAbsent(row)
              ELSE IF prod.pc = "enqueueFailed"
              THEN RecordEnqueueFailedIfAbsent(row)
              ELSE RecordEnqueueAmbiguousIfAbsent(row)
     IN  MayWrite(r # row, r)
  /\ ProducerStops
  /\ UNCHANGED <<job, wk, http, nextToken, wd, used>>

\* The process of the producer dies, or a lookup before the add throws.
ProducerFails ==
  /\ prod.pc # "idle"
  /\ ProducerStops
  /\ KeepRow
  /\ UNCHANGED <<job, wk, http, nextToken, wd, used>>

------------------------------------------------------------------------------
(***************************************************************************)
(* The start of an execution.                                              *)
(***************************************************************************)

\* A BullMQ worker takes the job: MaxActionWorkerHost.process.
TakeJob(w) ==
  /\ At(w, "idle")
  /\ job.state = "waiting"
  /\ job' = [job EXCEPT !.state = "active", !.owner = w]
  /\ wk' = [wk EXCEPT ![w] = [IdleWorker EXCEPT !.pc = "check",
              !.queued = TRUE, !.final = (job.made + 1 >= MaxAttempts)]]
  /\ KeepRow
  /\ UNCHANGED <<http, nextToken, prod, wd, used>>

\* executeImmediateActionJob: no BullMQ job is involved.
StartImmediate(w) ==
  /\ At(w, "idle")
  /\ used.immediates < MaxImmediates
  /\ used' = [used EXCEPT !.immediates = @ + 1]
  /\ wk' = [wk EXCEPT ![w] = [IdleWorker EXCEPT !.pc = "check"]]
  /\ KeepRow
  /\ UNCHANGED <<job, http, nextToken, prod, wd>>

\* recoverCompletedSend and assertCanExecute, or assertCanEnqueue when the
\* execution is immediate.  A saved receipt ends a queued execution here.
AssertCanExecute(w) ==
  /\ At(w, "check")
  /\ WriteIf(ClearableLegacy(row, Family), AbsentRow)
  /\ IF wk[w].queued /\ Completed(row) THEN Return(w)
     ELSE IF \/ ClearableLegacy(row, Family)
             \/ wk[w].queued /\ CanExecute(row)
             \/ ~wk[w].queued /\ CanEnqueue(row)
     THEN Goto(w, "start")
     ELSE Rethrow(w, "unrecoverable")
  /\ UNCHANGED <<job, http, nextToken, prod, wd, used>>

\* A legacy hold, a missing route or a database error before recordStarted.
FailBeforeStart(w) ==
  /\ wk[w].pc \in {"check", "start"}
  /\ \E e \in {"retryable", "unrecoverable"} : Rethrow(w, e)
  /\ KeepRow
  /\ UNCHANGED <<job, http, nextToken, prod, wd, used>>

\* recordStarted; the first candidate bot is b.
RecordStarted(w) ==
  /\ At(w, "start")
  /\ WriteIf(StartedWhere(row), StartedSet(row))
  /\ IF StartedWhere(row) \/ Completed(row)
     THEN \E b \in Bots :
            wk' = [wk EXCEPT ![w] = [wk[w] EXCEPT !.pc = "ready", !.bot = b,
                                                  !.tried = {b}]]
     ELSE Rethrow(w, "unrecoverable")
  /\ IF StartedWhere(row) THEN NoteStart ELSE UNCHANGED prod
  /\ UNCHANGED <<job, http, nextToken, wd, used>>

\* recordStarted may commit and still throw; the execution ends here.
StartAnswerLost(w) ==
  /\ At(w, "start")
  /\ StartedWhere(row)
  /\ Write(StartedSet(row))
  /\ NoteStart
  /\ Rethrow(w, "retryable")
  /\ UNCHANGED <<job, http, nextToken, wd, used>>

------------------------------------------------------------------------------
(***************************************************************************)
(* One attempt with one candidate bot, up to the claim.                    *)
(***************************************************************************)

\* recordPrepared: publications persist the prepared body before the claim.
RecordPrepared(w) ==
  /\ At(w, "ready")
  /\ wk[w].queued
  /\ WriteIf(UnfencedOpenWhere(row), row)
  /\ IF UnfencedOpenWhere(row) \/ Completed(row) THEN Goto(w, "prepared")
     ELSE Throw(w, IF Exists(row) THEN "finalized" ELSE "unrecoverable")
  /\ UNCHANGED <<job, http, nextToken, prod, wd, used>>

\* executeActionJob recovers a receipt before it does anything else.
RecoverReceipt(w) ==
  /\ wk[w].pc \in {"ready", "prepared"}
  /\ Completed(row)
  /\ Return(w)
  /\ KeepRow
  /\ UNCHANGED <<job, http, nextToken, prod, wd, used>>

\* Any failure before the claim: route guard, circuit, quota, a preparation
\* request that is refused, upload, payload.
FailBeforeClaim(w) ==
  /\ wk[w].pc \in {"ready", "prepared"}
  /\ \E e \in {"guard", "circuit", "retryable", "upload", "rejected", "missing",
               "denied", "unrecoverable"} : Throw(w, e)
  /\ KeepRow
  /\ UNCHANGED <<job, http, nextToken, prod, wd, used>>

\* The UPDATE of claimSendDispatch.
ClaimSendDispatch(w) ==
  /\ wk[w].pc \in {"ready", "prepared"}
  /\ nextToken <= MaxTokens
  /\ IF ClaimWhere(row)
     THEN /\ Write(ClaimSet(row, nextToken, wk[w].bot))
          /\ nextToken' = nextToken + 1
          /\ wk' = [wk EXCEPT ![w] = [wk[w] EXCEPT !.pc = "claimed",
                                                   !.token = nextToken]]
          /\ NoteStart
     ELSE /\ KeepRow
          /\ Goto(w, "lost")
          /\ UNCHANGED <<nextToken, prod>>
  /\ UNCHANGED <<job, http, wd, used>>

\* The claim may commit and still throw: the worker never learns its token.
ClaimAnswerLost(w) ==
  /\ wk[w].pc \in {"ready", "prepared"}
  /\ nextToken <= MaxTokens
  /\ ClaimWhere(row)
  /\ Write(ClaimSet(row, nextToken, wk[w].bot))
  /\ nextToken' = nextToken + 1
  /\ NoteStart
  /\ Throw(w, "retryable")
  /\ UNCHANGED <<job, http, wd, used>>

\* readSendDispatchState after a claim that matched no row.
InspectLostClaim(w) ==
  /\ At(w, "lost")
  /\ IF Completed(row) THEN Return(w)
     ELSE IF Fenced(row)
     THEN wk' = [wk EXCEPT ![w] = [wk[w] EXCEPT !.pc = "foreign",
                                                !.token = row.token]]
     ELSE Throw(w, IF row.ambiguous /\ row.terminal THEN "finalized"
                   ELSE "ambiguous")
  /\ KeepRow
  /\ UNCHANGED <<job, http, nextToken, prod, wd, used>>

\* Fault variant: the claim is tried again as long as the met fence is gone.
QuarantineRetryingForever(w) ==
  /\ At(w, "foreign")
  /\ IF OwnerWhere(row, wk[w].token)
     THEN Write(QuarantineSet(row)) /\ Throw(w, "finalized")
     ELSE KeepRow /\ wk' = [wk EXCEPT ![w] = [wk[w] EXCEPT !.pc = "prepared",
                               !.token = NoToken, !.tries = @ + 1]]
  /\ UNCHANGED <<job, http, nextToken, prod, wd, used>>

\* recordAmbiguousSendDispatch on the fence the worker met; the claim is
\* tried once more when that fence is gone.
QuarantineForeignFence(w) ==
  /\ At(w, "foreign")
  /\ IF OwnerWhere(row, wk[w].token)
     THEN Write(QuarantineSet(row)) /\ Throw(w, "finalized")
     ELSE /\ KeepRow
          /\ IF wk[w].tries = 0
             THEN wk' = [wk EXCEPT ![w] = [wk[w] EXCEPT !.pc = "prepared",
                           !.token = NoToken, !.tries = 1]]
             ELSE IF Completed(row) THEN Return(w)
             ELSE Throw(w, "ambiguous")
  /\ UNCHANGED <<job, http, nextToken, prod, wd, used>>

\* The statements after a lost claim may throw, committed or not.
LostClaimUnreadable(w) ==
  /\ wk[w].pc \in {"lost", "foreign"}
  /\ MayWrite(At(w, "foreign") /\ OwnerWhere(row, wk[w].token),
              QuarantineSet(row))
  /\ Throw(w, "retryable")
  /\ UNCHANGED <<job, http, nextToken, prod, wd, used>>

------------------------------------------------------------------------------
(***************************************************************************)
(* The dispatch under the fence.                                           *)
(***************************************************************************)

\* The final guards run between the claim and the request.
GuardRejects(w) ==
  /\ At(w, "claimed")
  /\ \E e \in {"guard", "unrecoverable"} :
       wk' = [wk EXCEPT ![w] = [wk[w] EXCEPT !.pc = "releasing", !.err = e]]
  /\ KeepRow
  /\ UNCHANGED <<job, http, nextToken, prod, wd, used>>

\* sendRequest: POST /messages leaves the process.
PostMessage(w) ==
  /\ At(w, "claimed")
  /\ inflight' = inflight \cup {PostOf(w)}
  /\ Goto(w, "waiting")
  /\ KeepRow
  /\ UNCHANGED <<job, accepted, rejected, nextToken, prod, wd, used>>

\* MAX decides about a request in flight, whether or not anyone still waits.
MaxAccepts(p) ==
  /\ p \in inflight
  /\ inflight' = inflight \ {p}
  /\ accepted' = accepted \cup {p}
  /\ KeepRow
  /\ UNCHANGED <<job, wk, rejected, nextToken, prod, wd, used>>

MaxRejects(p) ==
  /\ p \in inflight
  /\ inflight' = inflight \ {p}
  /\ rejected' = rejected \cup {q \in {p} : \E w \in Workers :
                                At(w, "waiting") /\ PostOf(w) = q}
  /\ KeepRow
  /\ UNCHANGED <<job, wk, accepted, nextToken, prod, wd, used>>

\* Fault variants: a reply without a message id counts as a receipt; a timeout
\* counts as a definitive rejection.
ReplyWithoutIdCompletes(w) ==
  /\ At(w, "waiting")
  /\ Goto(w, "completing")
  /\ KeepRow
  /\ UNCHANGED <<job, http, nextToken, prod, wd, used>>

\* The reply: a message id, a definitive 4xx, or nothing that can be trusted
\* (timeout, 408, 5xx, no id in the body).
ReceiveReply(w) ==
  /\ At(w, "waiting")
  /\ \/ PostOf(w) \in accepted /\ Goto(w, "completing")
     \/ /\ PostOf(w) \in rejected
        /\ \E e \in {"limited", "denied", "unrecoverable"} :
             wk' = [wk EXCEPT ![w] = [wk[w] EXCEPT !.pc = "releasing",
                                                   !.err = e]]
     \/ Goto(w, "quarantine")
  /\ rejected' = rejected \ {PostOf(w)}
  /\ KeepRow
  /\ UNCHANGED <<job, inflight, accepted, nextToken, prod, wd, used>>

\* completeSendDispatch.  An error, or no row, is an unknown outcome unless
\* the exact receipt is read back.
CompleteSendDispatch(w) ==
  /\ At(w, "completing")
  /\ \/ /\ WriteIf(OwnerWhere(row, wk[w].token), CompleteSet(row, wk[w].token))
        /\ Goto(w, IF OwnerWhere(row, wk[w].token) THEN "completed"
                   ELSE IF row.remote = wk[w].token THEN "completed"
                   ELSE "quarantine")
     \/ /\ MayWrite(OwnerWhere(row, wk[w].token), CompleteSet(row, wk[w].token))
        /\ Goto(w, "quarantine")
  /\ UNCHANGED <<job, http, nextToken, prod, wd, used>>

\* releaseSendDispatch, only after proof that nothing was delivered.
ReleaseSendDispatch(w) ==
  /\ At(w, "releasing")
  /\ \/ /\ WriteIf(OwnerWhere(row, wk[w].token), ReleaseSet(row))
        /\ IF OwnerWhere(row, wk[w].token) \/ Completed(row) \/ ~Fenced(row)
           THEN Throw(w, wk[w].err) ELSE Goto(w, "quarantine")
     \/ /\ MayWrite(OwnerWhere(row, wk[w].token), ReleaseSet(row))
        /\ Goto(w, "quarantine")
  /\ UNCHANGED <<job, http, nextToken, prod, wd, used>>

\* throwAmbiguousQueuedSend: quarantine the own fence, else recover a receipt;
\* both statements may fail.
ThrowAmbiguousSend(w) ==
  /\ At(w, "quarantine")
  /\ \/ /\ OwnerWhere(row, wk[w].token)
        /\ Write(QuarantineSet(row))
        /\ Throw(w, "finalized")
     \/ /\ MayWrite(OwnerWhere(row, wk[w].token), QuarantineSet(row))
        /\ \/ IF Completed(row) THEN Return(w) ELSE Throw(w, "ambiguous")
           \/ Throw(w, "retryable")
  /\ UNCHANGED <<job, http, nextToken, prod, wd, used>>

\* After the receipt is stored: recordSucceeded (best effort), or an error
\* of the circuit bookkeeping or of the auto-delete scheduling.
AfterCompletion(w) ==
  /\ At(w, "completed")
  /\ \/ /\ MayWrite(SucceededWhere(row), SucceededSet(row))
        /\ Return(w)
     \/ KeepRow /\ Goto(w, "quarantine")
     \/ KeepRow /\ Throw(w, "retryable")
  /\ UNCHANGED <<job, http, nextToken, prod, wd, used>>

------------------------------------------------------------------------------
(***************************************************************************)
(* Failure handling of the execution.                                      *)
(***************************************************************************)

\* The dispatch loop goes to the next candidate only after an error that
\* proves no effect; the immediate path only after an executor rejection.
FailoverErrors(queued) ==
  IF queued THEN {"guard", "circuit", "rejected", "denied"} ELSE {"guard"}

NextCandidate(w) ==
  /\ At(w, "failing")
  /\ wk[w].err \in FailoverErrors(wk[w].queued)
  /\ \E b \in Bots \ wk[w].tried :
       wk' = [wk EXCEPT ![w] = [wk[w] EXCEPT !.pc = "ready", !.bot = b,
                !.tried = @ \cup {b}, !.tries = 0, !.token = NoToken,
                !.err = IF @ = "denied" THEN @ ELSE "none"]]
  /\ KeepRow
  /\ UNCHANGED <<job, http, nextToken, prod, wd, used>>

\* recordFailed (best effort).  When the candidates of a route run out after an
\* open circuit or a refused preparation, the code does not pass on that the
\* attempts are exhausted.
RecordFailed(w) ==
  /\ At(w, "failing")
  /\ \E exhausted \in {wk[w].final, wk[w].final
                                    /\ wk[w].err \notin {"circuit", "rejected"}} :
       MayWrite(FailedWhere(row) /\ wk[w].err # "finalized",
                FailedSet(row, wk[w].err, exhausted))
  /\ Rethrow(w, wk[w].err)
  /\ UNCHANGED <<job, http, nextToken, prod, wd, used>>

\* BullMQ settles the job if the worker still owns it.
SettleJob(w) ==
  /\ wk[w].pc \in {"settling", "done"}
  /\ job' = IF ~wk[w].queued \/ job.owner # w THEN job
            ELSE IF At(w, "done") THEN NoJob
            ELSE IF Unrecoverable(wk[w].err) \/ job.made + 1 >= MaxAttempts
            THEN [NoJob EXCEPT !.state = "failed",
                  !.ambiguous = wk[w].err \in {"ambiguous", "finalized"}]
            ELSE [job EXCEPT !.state = "waiting", !.owner = NoOwner,
                             !.made = @ + 1]
  /\ wk' = [wk EXCEPT ![w] = IdleWorker]
  /\ KeepRow
  /\ UNCHANGED <<http, nextToken, prod, wd, used>>

\* The process of the worker dies; its request stays in flight.
Crash(w) ==
  /\ ~At(w, "idle")
  /\ wk' = [wk EXCEPT ![w] = IdleWorker]
  /\ KeepRow
  /\ UNCHANGED <<job, http, nextToken, prod, wd, used>>

\* BullMQ finds an active job without a live lock.  The worker may be dead,
\* or only slow: then it goes on without owning the job.
StallJob ==
  /\ job.state = "active"
  /\ job' = IF job.stalls < MaxStalls
            THEN [job EXCEPT !.state = "waiting", !.owner = NoOwner,
                             !.stalls = @ + 1]
            ELSE [NoJob EXCEPT !.state = "failed"]
  /\ KeepRow
  /\ UNCHANGED <<wk, http, nextToken, prod, wd, used>>

\* removeOnFail: BullMQ drops a retained failed job once it is too old.
ExpireFailedJob ==
  /\ job.state = "failed"
  /\ used.repairs < MaxRepairs
  /\ job' = NoJob
  /\ used' = [used EXCEPT !.repairs = @ + 1]
  /\ KeepRow
  /\ UNCHANGED <<wk, http, nextToken, prod, wd>>

------------------------------------------------------------------------------
(***************************************************************************)
(* The watchdog, and the repairs of special key families.                  *)
(***************************************************************************)

\* reconcileStaleEntries selects the row.
WatchdogRead ==
  /\ WatchdogOn
  /\ wd.pc = "idle"
  /\ WatchdogSelects(row)
  /\ seen' = TRUE
  /\ wd' = [wd EXCEPT !.pc = "read"]
  /\ UNCHANGED <<row, job, wk, http, nextToken, prod, used>>

\* findActionJobObservations
WatchdogObserve ==
  /\ wd.pc = "read"
  /\ wd' = [pc |-> "decide", obs |-> job.state]
  /\ KeepRow
  /\ UNCHANGED <<job, wk, http, nextToken, prod, used>>

\* reconcileSendCandidate defers for a job that waits or became active after
\* the cutoff, and for every suggestion, unless the row has a receipt or a
\* fence.
WatchdogDefers ==
  /\ wd.pc = "decide"
  /\ wd.obs \in {"waiting", "active"} \/ Family = "suggestion"
  /\ wd' = [pc |-> "idle", obs |-> "absent"]
  /\ seen' = FALSE
  /\ seen => ~Completed(row) /\ ~Fenced(row)
  /\ UNCHANGED <<row, job, wk, http, nextToken, prod, used>>

\* applyOutcome: compare-and-set on status, terminal and updatedAt.
WatchdogApplies ==
  /\ wd.pc = "decide"
  /\ \/ wd.obs # "waiting" /\ Family # "suggestion"
     \/ Completed(row) \/ Fenced(row)
     \/ ~seen
  /\ wd' = [pc |-> "idle", obs |-> "absent"]
  /\ IF seen THEN Write(WatchdogSet(row, wd.obs = "absent")) ELSE KeepRow
  /\ UNCHANGED <<job, wk, http, nextToken, prod, used>>

\* prepareDefinitivelyRejectedNightModeTransitionRetry
NightModeRetry ==
  /\ Family = "night"
  /\ used.repairs < MaxRepairs
  /\ NightRetryWhere(row)
  /\ Write(NightRetrySet(row))
  /\ used' = [used EXCEPT !.repairs = @ + 1]
  /\ UNCHANGED <<job, wk, http, nextToken, prod, wd>>

\* releasePreDispatchPublication: a worker may still be executing the key.
ReleasePreDispatchPublication ==
  /\ Family = "suggestion"
  /\ used.repairs < MaxRepairs
  /\ ReleasableSuggestion(row)
  /\ Write(AbsentRow)
  /\ used' = [used EXCEPT !.repairs = @ + 1]
  /\ UNCHANGED <<job, wk, http, nextToken, prod, wd>>

------------------------------------------------------------------------------
Producer == \/ AssertCanEnqueue \/ RemoveRetainedFailedJob \/ AddActionJob
            \/ ObserveFailedAdd \/ RetryAddActionJob \/ RecordEnqueueOutcome
            \/ ProducerFails

Executes(w) ==
  \/ AssertCanExecute(w) \/ FailBeforeStart(w) \/ RecordStarted(w)
  \/ StartAnswerLost(w) \/ RecordPrepared(w) \/ RecoverReceipt(w)
  \/ FailBeforeClaim(w) \/ ClaimSendDispatch(w) \/ ClaimAnswerLost(w)
  \/ InspectLostClaim(w) \/ QuarantineForeignFence(w)
  \/ LostClaimUnreadable(w) \/ GuardRejects(w) \/ PostMessage(w)
  \/ ReceiveReply(w) \/ CompleteSendDispatch(w) \/ ReleaseSendDispatch(w)
  \/ ThrowAmbiguousSend(w) \/ AfterCompletion(w) \/ NextCandidate(w)
  \/ RecordFailed(w) \/ SettleJob(w)

Watchdog == \/ WatchdogRead \/ WatchdogObserve
            \/ WatchdogDefers \/ WatchdogApplies

Next ==
  \/ Producer
  \/ \E w \in Workers : TakeJob(w) \/ StartImmediate(w) \/ Executes(w) \/ Crash(w)
  \/ \E p \in inflight : MaxAccepts(p) \/ MaxRejects(p)
  \/ StallJob \/ ExpireFailedJob
  \/ Watchdog
  \/ NightModeRetry
  \/ ReleasePreDispatchPublication

Spec == Init /\ [][Next]_vars

(***************************************************************************)
(* Fairness: a worker process that runs goes on, an idle one takes waiting *)
(* jobs (BullMQ), and the watchdog runs every minute.  It is strong for    *)
(* the outcome of the watchdog because an active job is deferred only      *)
(* while it became active after the moving cutoff, so not for ever.        *)
(***************************************************************************)
Fairness ==
  /\ \A w \in Workers : WF_vars(Executes(w)) /\ WF_vars(TakeJob(w))
  /\ WF_vars(WatchdogRead) /\ WF_vars(WatchdogObserve)
  /\ WF_vars(WatchdogDefers) /\ SF_vars(WatchdogApplies)

FairSpec == Spec /\ Fairness

------------------------------------------------------------------------------
(***************************************************************************)
(* Properties.                                                             *)
(***************************************************************************)

\* No interleaving of producers, workers, crashes, stalls, failovers, lost
\* answers, repairs and watchdog runs makes MAX hold two messages for one key,
\* nor lets a second request be under way beside a first that may succeed.
AtMostOneMessage == \A p, q \in inflight \cup accepted : p = q

\* The fence columns are a sound record: as long as a request of the key is in
\* flight or became a message, the row keeps exactly its token and bot.  So a
\* row without a fence proves that nothing was or will be delivered, whatever
\* its status says, and may be cleared, retried or reported as failed.
FenceCoversDispatch ==
  \A p \in inflight \cup accepted : row.token = p.token /\ row.bot = p.bot

\* A row that says SUCCEEDED has the id of a message MAX really created, sent by
\* the bot in dispatchBotId, and a job ends as done only on such a receipt.
SuccessIsDelivered ==
  /\ row.status = "SUCCEEDED" \/ Completed(row) \/ (\E w \in Workers : At(w, "done"))
       => /\ row.status = "SUCCEEDED"
          /\ [token |-> row.remote, bot |-> row.bot] \in accepted

\* From the claim until it settles the fence itself, a worker owns the fence:
\* neither another worker, the watchdog, a producer nor a repair takes it away,
\* even when one of them marks the row as ambiguous or failed meanwhile.
OwnerKeepsFence ==
  \A w \in Workers :
    wk[w].pc \in {"claimed", "waiting", "completing", "releasing"}
      => OwnerWhere(row, wk[w].token)

\* A receipt is for ever: no retry, late failure, quarantine or watchdog step
\* erases a stored remote id or turns its row into anything but a success.
ReceiptIsForever ==
  [][Completed(row) => row'.remote = row.remote /\ row'.status = "SUCCEEDED"]_vars

\* A quarantine is left only by its own fence owner: with a receipt, or by a
\* release once MAX provably holds and expects no message of the key.
QuarantineIsSticky ==
  [][row.status = "AMBIGUOUS" /\ row'.status # "AMBIGUOUS"
       => \/ Completed(row')
          \/ Fenced(row) /\ ~Fenced(row') /\ inflight' \cup accepted' = {}]_vars

\* A settled key without a fence is silent: until a repair reopens the row no
\* worker, retry or stalled job still alive claims it or sends anything.
SettledKeyIsSilent ==
  [][row.terminal /\ ~Fenced(row)
       => /\ ~Fenced(row')
          /\ inflight' = inflight /\ accepted' = accepted]_vars

\* What a caller may conclude from the row, and what MAX holds of the key.
Verdict == IF Completed(row) THEN "delivered"
           ELSE IF row.ambiguous \/ (row.terminal /\ Fenced(row)) THEN "unknown"
           ELSE IF row.terminal THEN "failed"
           ELSE "open"

Effect == IF accepted # {} THEN "done"
          ELSE IF inflight # {} THEN "pending"
          ELSE "none"

Outcome == INSTANCE SendOutcome WITH effect <- Effect, verdict <- Verdict

\* The whole machinery implements the promise of SendOutcome: what the ledger
\* tells a caller about the key is true of MAX at every moment.
ImplementsOutcome == Outcome!OutcomeSpec

\* Every row is settled in the end (or was cleared by a repair): with the
\* watchdog enforcing, no crash, stall or lost write leaves a row open.
RowsSettle == Exists(row) ~> (row.terminal \/ ~Exists(row))

------------------------------------------------------------------------------
(***************************************************************************)
(* Why the properties hold: the inductive invariant of the proofs.         *)
(***************************************************************************)

\* A worker between its claim and the statement that settles its fence.
Owning(w) == wk[w].pc \in {"claimed", "waiting", "completing", "releasing"}

\* What the columns of one row say about each other.
SoundRow(r) ==
  /\ Completed(r) <=> r.status = "SUCCEEDED"
  /\ r.ambiguous <=> r.status = "AMBIGUOUS"
  /\ r.ambiguous \/ Completed(r) => r.terminal
  /\ ~Exists(r) => r = AbsentRow

ReceiptIsReal ==
  Completed(row) => [token |-> row.remote, bot |-> row.bot] \in accepted

\* A token is new when it is claimed.
TokensAreFresh ==
  /\ row.token < nextToken
  /\ \A p \in inflight \cup accepted \cup rejected :
       p.token # NoToken /\ p.token < nextToken

OwnersHoldFence ==
  \A w \in Workers : Owning(w) => /\ OwnerWhere(row, wk[w].token)
                                  /\ wk[w].token # NoToken
                                  /\ row.bot = wk[w].bot

OneOwner == \A v, w \in Workers : Owning(v) /\ Owning(w) => v = w

PostsAreDisjoint == /\ inflight \cap accepted = {}
                    /\ rejected \cap (inflight \cup accepted) = {}

\* A fence is released only when MAX holds and expects nothing.
PhasesAreSound ==
  \A w \in Workers :
    /\ At(w, "claimed") => inflight \cup accepted = {} /\ PostOf(w) \notin rejected
    /\ At(w, "releasing") => inflight \cup accepted = {}
    /\ At(w, "completing") => PostOf(w) \in accepted
    /\ wk[w].pc \in {"completed", "done"} => Completed(row)

DispatchInv ==
  /\ SoundRow(row)
  /\ seen => ~row.terminal
  /\ ReceiptIsReal
  /\ TokensAreFresh
  /\ OwnersHoldFence
  /\ OneOwner
  /\ FenceCoversDispatch
  /\ PostsAreDisjoint
  /\ PhasesAreSound
==============================================================================
