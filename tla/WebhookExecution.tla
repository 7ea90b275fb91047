--------------------------- MODULE WebhookExecution ---------------------------
(***************************************************************************)
(* processWebhookEvent: a worker takes the job, reads the receipt and the  *)
(* claim, acquires the business lease, starts the handler in a transaction *)
(* that checks all of it again, and settles what became of the handler.    *)
(* What it never does is start the handler of an update twice: a handler   *)
(* that started and cannot be accounted for is quarantined.                *)
(***************************************************************************)
EXTENDS WebhookState

\* "timedOut" and "unfenced": the watchdog fired and its quarantine is not
\* stored yet; "detached": it is stored and the handler may still run.  A job
\* begins with the recovery of a command notice (GroupCommandNotice).
ExecutionPcs == {"idle", "notice", "deliver", "sending", "book",
                 "read", "judge", "disown", "leased", "start", "run",
                 "checkpoint", "settle", "record", "reject", "rejectNotice",
                 "timedOut", "unfenced", "detached"}
\* source: what was read of the receipt; outcome: how a handler that timed out
\* ended; again: a transaction of the settlement is being repeated.
ExecutionStates == [pc : ExecutionPcs, queue : Queues \cup {NoQueue},
                    source : Receipts, outcome : {"none", "returned", "threw"},
                    again : BOOLEAN]
IdleExecution == [pc |-> "idle", queue |-> NoQueue, source |-> Received,
                  outcome |-> "none", again |-> FALSE]

\* The columns of the receipt an execution decides by; that the others did not
\* change either is what fresh says.
Compared(r) == [r EXCEPT !.queue = NoQueue, !.attempts = 0]

Step(w, pc) == exec' = [exec EXCEPT ![w].pc = pc]
Source(w) == exec[w].source

------------------------------------------------------------------------------
(***************************************************************************)
(* The BullMQ job, external: a worker that lost the lock of its job has no *)
(* say in what becomes of it.                                              *)
(***************************************************************************)
Locked(w) == exec[w].queue # NoQueue /\ job[exec[w].queue].owner = w

JobBecomes(w, j) ==
  job' = IF Locked(w) THEN [job EXCEPT ![exec[w].queue] = j] ELSE job

Finish(w, state) ==
  /\ exec' = [exec EXCEPT ![w] = IdleExecution]
  /\ JobBecomes(w, IF state = "absent" THEN NoJob
                   ELSE [job[exec[w].queue] EXCEPT !.state = state, !.owner = NoOwner])

Return(w) == Finish(w, "absent")   \* removeOnComplete
Throw(w) == Finish(w, "failed")    \* attempts: 1
Defer(w) == Finish(w, "delayed")   \* moveToDelayed

\* readJournal accepts the journal of a command notice, and the ledger row of
\* the notice is either unattempted or a completed send.
NoticePending ==
  /\ claim.status = "READY"
  /\ receipt.status # "PROCESSED" /\ ~ReplayFence(receipt)
  /\ handler.notice \in {"unattempted", "sent"}

\* The first thing a job does is to look for such a notice.
Take(w, q) ==
  /\ exec[w].pc = "idle" /\ job[q].state \in {"waiting", "delayed"}
  /\ job' = [job EXCEPT ![q].state = "active", ![q].owner = w]
  /\ exec' = [exec EXCEPT ![w] =
                IF NoticePending
                  THEN [IdleExecution EXCEPT !.pc = "notice", !.queue = q,
                                         !.source = Compared(receipt)]
                  ELSE [IdleExecution EXCEPT !.pc = "read", !.queue = q]]
  /\ UNCHANGED <<receipt, claim, poll, fresh, handler, used>>

Running(q) == \E w \in Executions : exec[w].queue = q /\ job[q].owner = w

Stalled(q) ==
  job' = [job EXCEPT ![q] =
            IF job[q].stalls < MaxStalls
              THEN [job[q] EXCEPT !.state = "waiting", !.stalls = @ + 1, !.owner = NoOwner]
              ELSE [job[q] EXCEPT !.state = "failed", !.owner = NoOwner]]

\* The lock of an active job expired, its process gone or merely late.
Stall(q) ==
  /\ job[q].state = "active"
  /\ IF Running(q) THEN Spend("crashes", MaxCrashes) ELSE UNCHANGED used
  /\ Stalled(q)
  /\ UNCHANGED <<receipt, claim, poll, exec, fresh, handler>>

\* removeOnFail keeps a limited number of failed jobs.
Evict(q) ==
  /\ job[q].state = "failed" /\ Spend("crashes", MaxCrashes)
  /\ job' = [job EXCEPT ![q] = NoJob]
  /\ UNCHANGED <<receipt, claim, poll, exec, fresh, handler>>

------------------------------------------------------------------------------
(***************************************************************************)
(* prepareExecution                                                        *)
(***************************************************************************)

Read(w) ==
  /\ exec[w].pc = "read"
  /\ IF receipt.status = "PROCESSED" \/ (Quarantined(receipt) /\ ~claim.finished)
       THEN Return(w) /\ Forget(w)
       ELSE /\ exec' = [exec EXCEPT ![w].pc = "judge", ![w].source = Compared(receipt)]
            /\ fresh' = fresh \cup {w} /\ UNCHANGED job
  /\ UNCHANGED <<receipt, claim, poll, handler, used>>

\* The claim was settled between the two reads.  Its receipt is repaired if it
\* is still the one that was read.
RepairReceipt(w) ==
  /\ exec[w].pc = "judge" /\ claim.status = "COMPLETED"
  /\ IF w \in fresh /\ ~ReplayFence(Source(w))
       THEN Write(Processed(receipt), w) /\ Return(w)
       ELSE /\ IF Quarantined(Source(w)) THEN Return(w) ELSE Defer(w)
            /\ UNCHANGED receipt /\ Forget(w)
  /\ UNCHANGED <<claim, poll, handler, used>>

\* tryRecoverFinishedExecution: the journal of a handler that returned settles
\* claim and receipt in one transaction, if the receipt is still the one read.
RecoverFinished(w) ==
  /\ exec[w].pc = "judge" /\ claim.status = "READY" /\ claim.finished
  /\ IF w \in fresh
       THEN Write(Processed(receipt), w) /\ claim' = Completed(claim) /\ Return(w)
       ELSE UNCHANGED <<receipt, claim>> /\ Defer(w) /\ Forget(w)
  /\ UNCHANGED <<poll, handler, used>>

StartedElsewhere(w) ==
  /\ exec[w].pc = "judge" /\ claim.status = "READY"
  /\ claim.started # NoOwner /\ ~claim.finished

\* A stale job keeps the first error of a handler that failed.
KeepFirstError(w) ==
  /\ StartedElsewhere(w)
  /\ Source(w).status = "FAILED" /\ ~Source(w).next /\ Source(w).fence = NoOwner
  /\ Return(w) /\ Forget(w)
  /\ UNCHANGED <<receipt, claim, poll, handler, used>>

AwaitStarted(w) ==
  /\ StartedElsewhere(w)
  /\ ~(Source(w).status = "FAILED" /\ ~Source(w).next /\ Source(w).fence = NoOwner)
  /\ IF claim.token # NoOwner /\ claim.live
       THEN Defer(w) /\ Forget(w)
       ELSE Step(w, "disown") /\ UNCHANGED <<job, fresh>>
  /\ UNCHANGED <<receipt, claim, poll, handler, used>>

\* Fault variant: whatever the receipt became meanwhile.
AnySource(w) == receipt.fence = NoOwner

\* The comparison the settlements of a worker make with the receipt it read.
SourceStands(w) ==
  /\ receipt.status = Source(w).status /\ receipt.error = Source(w).error
  /\ receipt.fence = NoOwner

\* A started handler without a journal and without a live lease is never run
\* again; the receipt is held for a proof of its effects.
Disown(w) ==
  /\ exec[w].pc = "disown"
  /\ IF SourceStands(w)
       THEN Write([Failed(receipt, "unaccounted") EXCEPT !.queue = NoQueue], w)
       ELSE UNCHANGED receipt /\ Forget(w)
  /\ Return(w)
  /\ UNCHANGED <<claim, poll, handler, used>>

\* acquireBusinessLease
Acquirable ==
  /\ claim.status = "READY" /\ claim.started = NoOwner
  /\ claim.token = NoOwner \/ ~claim.live

AcquireLease(w) ==
  /\ exec[w].pc = "judge" /\ claim.status = "READY" /\ claim.started = NoOwner
  /\ IF Acquirable
       THEN /\ claim' = [claim EXCEPT !.token = w, !.live = TRUE]
            /\ Step(w, "leased") /\ UNCHANGED <<job, fresh>>
       ELSE UNCHANGED claim /\ Defer(w) /\ Forget(w)
  /\ UNCHANGED <<receipt, poll, handler, used>>

\* assertNoOutstandingOrderedPredecessor: an earlier update of the chat is not
\* settled.
AwaitPredecessor(w) ==
  /\ exec[w].pc = "judge" /\ claim.status = "READY" /\ claim.started = NoOwner
  /\ Spend("defers", MaxDefers)
  /\ Defer(w) /\ Forget(w)
  /\ UNCHANGED <<receipt, claim, poll, handler>>

\* The owner cannot lose this claim.
Releasable(w) == claim.token = w /\ claim.status = "READY"

\* Releasing the lease is best effort.
Release(w) ==
  \/ UNCHANGED used /\ claim' = IF Releasable(w) THEN Released(claim) ELSE claim
  \/ Outage /\ UNCHANGED claim

\* No bot can execute the update yet.
AwaitExecutor(w) ==
  /\ exec[w].pc = "leased" /\ Spend("defers", MaxDefers)
  /\ claim' = IF Releasable(w) THEN Released(claim) ELSE claim
  /\ Defer(w) /\ Forget(w)
  /\ UNCHANGED <<receipt, poll, handler>>

\* tryExpireUnstartedOwner: the deadline of an update nobody could execute
\* passed; claim and receipt are settled without a handler.
Expire(w) ==
  /\ exec[w].pc = "leased"
  /\ claim.token = w /\ claim.live /\ claim.status = "READY" /\ claim.started = NoOwner
  /\ receipt.status # "PROCESSED" /\ ~ReplayFence(receipt)
  /\ claim' = Completed(claim) /\ Write(Processed(receipt), w)
  /\ Return(w)
  /\ UNCHANGED <<poll, handler, used>>

\* The receipt is read again once the lease is held.
Recheck(w) ==
  /\ exec[w].pc = "leased"
  /\ IF receipt.status = "PROCESSED" \/ Quarantined(receipt)
       THEN Release(w) /\ Return(w) /\ Forget(w)
       ELSE Step(w, "start") /\ UNCHANGED <<claim, job, fresh, used>>
  /\ UNCHANGED <<receipt, poll, handler>>

\* Fault variant: the lease that was acquired is believed in.
MayStartUnchecked(w) ==
  claim.status = "READY" /\ receipt.status # "PROCESSED" /\ ~ReplayFence(receipt)

\* transitionLiveUnstartedOwner, phase "start", behind the locks of both rows.
MayStart(w) ==
  /\ claim.status = "READY" /\ claim.started = NoOwner
  /\ claim.token = w /\ claim.live
  /\ receipt.status # "PROCESSED" /\ ~ReplayFence(receipt)

Start(w) ==
  /\ exec[w].pc = "start"
  /\ IF MayStart(w)
       THEN /\ claim' = [claim EXCEPT !.started = w]
            /\ handler' = [handler EXCEPT !.starts = @ + 1]
            /\ Step(w, "run") /\ UNCHANGED <<job, used>>
       ELSE Release(w) /\ Defer(w) /\ UNCHANGED handler
  /\ Forget(w)
  /\ UNCHANGED <<receipt, poll>>

\* A statement of the preparation fails and with it the job.  The lease may
\* stay behind, and the start may be committed although its handler never runs.
PreparationFails(w) ==
  /\ exec[w].pc \in {"read", "judge", "disown", "leased", "start"} /\ Outage
  /\ \/ UNCHANGED claim
     \/ /\ exec[w].pc \in {"leased", "start"} /\ Releasable(w)
        /\ claim' = Released(claim)
     \/ /\ exec[w].pc = "start" /\ MayStart(w)
        /\ \E c \in {claim, Released(claim)} : claim' = [c EXCEPT !.started = w]
  /\ Throw(w) /\ Forget(w)
  /\ UNCHANGED <<receipt, poll, handler>>

------------------------------------------------------------------------------
(***************************************************************************)
(* The handler and its settlement.                                         *)
(***************************************************************************)

HandlerReturns(w) ==
  /\ exec[w].pc = "run"
  /\ handler' = [handler EXCEPT !.returned = TRUE]
  /\ Step(w, "checkpoint")
  /\ UNCHANGED <<receipt, claim, job, poll, fresh, used>>

HandlerThrows(w) ==
  /\ exec[w].pc = "run"
  /\ Step(w, "record")
  /\ UNCHANGED <<receipt, claim, job, poll, fresh, handler, used>>

HandlerTimesOut(w) ==
  /\ exec[w].pc = "run"
  /\ Step(w, "timedOut")
  /\ UNCHANGED <<receipt, claim, job, poll, fresh, handler, used>>

Mine(w) == claim.started = w /\ claim.status = "READY" /\ claim.token = w

\* The transaction failed or its acknowledgement is lost: it is repeated once,
\* from the checkpoint, while the original lease lives.
Repeat(w, pc) ==
  IF ~exec[w].again /\ claim.live
    THEN exec' = [exec EXCEPT ![w].pc = pc, ![w].again = TRUE] /\ UNCHANGED job
    ELSE Throw(w)

StorageFails(w) ==
  /\ exec[w].pc \in {"checkpoint", "settle", "reject", "rejectNotice"} /\ Outage
  /\ Repeat(w, IF exec[w].pc \in {"checkpoint", "settle"} THEN "checkpoint" ELSE exec[w].pc)
  /\ UNCHANGED <<receipt, claim, poll, fresh, handler>>

\* markExecutionHandlerFinished saves the journal, unless an earlier try did.
Checkpoint(w) ==
  /\ exec[w].pc = "checkpoint"
  /\ \/ /\ claim.started = w /\ claim.finished
        /\ Step(w, "settle") /\ UNCHANGED <<claim, job, used>>
     \/ /\ Mine(w) /\ ~claim.finished /\ SourceStands(w)
        /\ claim' = [claim EXCEPT !.finished = TRUE]
        /\ \/ Step(w, "settle") /\ UNCHANGED <<job, used>>
           \/ Outage /\ Repeat(w, "checkpoint")
     \/ /\ ~(claim.started = w /\ claim.finished) /\ ~(Mine(w) /\ SourceStands(w))
        /\ Throw(w) /\ UNCHANGED <<claim, used>>
  /\ UNCHANGED <<receipt, poll, fresh, handler>>

\* Fault variant: the claim is completed although the receipt changed.
SettleClaimAlone(w) ==
  /\ exec[w].pc = "settle"
  /\ \/ /\ Mine(w)
        /\ claim' = Completed(claim)
        /\ IF SourceStands(w) THEN Write(Processed(receipt), w)
                              ELSE UNCHANGED <<receipt, fresh>>
        /\ Return(w) /\ UNCHANGED used
     \/ /\ claim.status = "COMPLETED"
        /\ Return(w) /\ UNCHANGED <<receipt, claim, fresh, used>>
  /\ UNCHANGED <<poll, handler>>

\* completeExecutionOnce settles claim and receipt together, and accepts that
\* a recovery did; if the receipt changed both are left alone.  What follows a
\* settlement (the OCR jobs of the handler) may still fail the job.
Settle(w) ==
  /\ exec[w].pc = "settle"
  /\ \/ /\ Mine(w) /\ SourceStands(w)
        /\ claim' = Completed(claim) /\ Write(Processed(receipt), w)
        /\ \/ Return(w) /\ UNCHANGED used
           \/ Outage /\ (Repeat(w, "checkpoint") \/ Throw(w))
     \/ /\ claim.status = "COMPLETED" /\ receipt.status = "PROCESSED"
        /\ Return(w) /\ UNCHANGED <<receipt, claim, fresh, used>>
     \/ /\ Mine(w) /\ ~SourceStands(w)
        /\ Throw(w) /\ UNCHANGED <<receipt, claim, fresh, used>>
  /\ UNCHANGED <<poll, handler>>

\* recordGroupCommandNoticeRecovery: the transport guard refused the notice of a
\* command that is applied; the live lease that started the handler and the
\* ledger row of a send that was never attempted certify it.
CertifyNotice(w) ==
  /\ Mine(w) /\ claim.live
  /\ receipt.status # "PROCESSED" /\ ~ReplayFence(receipt)
  /\ handler' = [handler EXCEPT !.notice = "unattempted"]

RecordNotice(w) ==
  /\ exec[w].pc = "record"
  /\ \/ CertifyNotice(w) /\ Step(w, "rejectNotice")
     \/ UNCHANGED handler /\ Step(w, "reject")
  /\ UNCHANGED <<receipt, claim, job, poll, fresh, used>>

\* This, its acknowledgement or what else precedes the settlement fails: the
\* receipt stays as it is and the lease runs out.
RecordFails(w) ==
  /\ exec[w].pc = "record" /\ Outage
  /\ CertifyNotice(w) \/ UNCHANGED handler
  /\ Throw(w)
  /\ UNCHANGED <<receipt, claim, poll, fresh>>

\* Fault variant: every failed handler may be tried again.
RetriesAlways(w) == BOOLEAN

\* nextEnqueueAt: only a recorded notice is tried again, unless its failure is
\* terminal.
Retries(w) == IF exec[w].pc = "rejectNotice" THEN BOOLEAN ELSE {FALSE}

\* settleRejectedStartedExecution: the error and the end of the lease commit
\* together, without a retry of the handler.  The job fails either way.
Reject(w) ==
  /\ exec[w].pc \in {"reject", "rejectNotice"}
  /\ \/ /\ Mine(w) /\ SourceStands(w)
        /\ claim' = Released(claim)
        /\ \E retry \in Retries(w) :
             Write([Failed(receipt, "handler") EXCEPT !.queue = NoQueue, !.next = retry], w)
        /\ \/ Throw(w) /\ UNCHANGED used
           \/ Outage /\ Repeat(w, exec[w].pc)
     \/ /\ ~(Mine(w) /\ SourceStands(w))
        /\ Throw(w) /\ UNCHANGED <<receipt, claim, fresh, used>>
  /\ UNCHANGED <<poll, handler>>

------------------------------------------------------------------------------
(***************************************************************************)
(* A handler that timed out runs on; it cannot be cancelled.               *)
(***************************************************************************)

\* quarantineTimedOutExecution: the marker of this execution and its lease are
\* extended together.
StoreQuarantine(w) ==
  /\ receipt.status # "PROCESSED" /\ Mine(w)
  /\ Write([Failed(receipt, "timeout") EXCEPT !.fence = w], w)
  /\ claim' = [claim EXCEPT !.live = TRUE]

\* The job completes behind the stored quarantine.
Quarantine(w) ==
  /\ exec[w].pc \in {"timedOut", "unfenced"} /\ exec[w].outcome = "none"
  /\ StoreQuarantine(w)
  /\ exec' = [exec EXCEPT ![w].pc = "detached", ![w].queue = NoQueue]
  /\ JobBecomes(w, NoJob)
  /\ UNCHANGED <<poll, handler, used>>

\* Both first attempts failed, or the answer is lost: the job is kept.
QuarantineFails(w) ==
  /\ exec[w].pc = "timedOut" /\ Outage
  /\ StoreQuarantine(w) \/ UNCHANGED <<receipt, claim, fresh>>
  /\ Step(w, "unfenced")
  /\ UNCHANGED <<job, poll, handler>>

Heartbeat(w) ==
  /\ exec[w].pc = "detached" /\ receipt.fence = w /\ Mine(w) /\ ~claim.live
  /\ claim' = [claim EXCEPT !.live = TRUE]
  /\ UNCHANGED <<receipt, job, poll, exec, fresh, handler, used>>

HandlerEnds(w) ==
  /\ exec[w].pc \in {"unfenced", "detached"} /\ exec[w].outcome = "none"
  /\ \E outcome \in {"returned", "threw"} :
       /\ exec' = [exec EXCEPT ![w].outcome = outcome]
       /\ handler' = [handler EXCEPT !.returned = outcome = "returned"]
  /\ UNCHANGED <<receipt, claim, job, poll, fresh, used>>

\* completeTimedOutExecution and failTimedOutExecution need the exact marker,
\* settleUnquarantinedTimedOutExecution only a receipt that is not settled; a
\* failure is repeated until the process is ended by its watchdog.
SettleTimedOut(w) ==
  /\ exec[w].outcome # "none" /\ Mine(w)
  /\ IF exec[w].pc = "detached" THEN receipt.fence = w /\ Pending(receipt)
                                ELSE receipt.status # "PROCESSED"
  /\ IF exec[w].outcome = "returned"
       THEN Write(Processed(receipt), w) /\ claim' = Completed(claim)
       ELSE Write(Failed(receipt, "terminal"), w) /\ claim' = Released(claim)
  /\ Return(w)
  /\ UNCHANGED <<poll, handler, used>>

------------------------------------------------------------------------------

\* The holder of the lease is between its acquisition and its settlement.
Holding ==
  \E w \in Executions :
    claim.token = w /\ exec[w].pc \notin {"idle", "notice", "read", "judge", "disown",
                                        "detached"}

\* The lease ends, its holder gone or merely late.
LeaseExpires ==
  /\ claim.live
  /\ claim' = [claim EXCEPT !.live = FALSE]
  /\ IF Holding THEN Spend("crashes", MaxCrashes) ELSE UNCHANGED used
  /\ UNCHANGED <<receipt, job, poll, exec, fresh, handler>>

Crash(w) ==
  /\ exec[w].pc # "idle" /\ Spend("crashes", MaxCrashes)
  /\ exec' = [exec EXCEPT ![w] = IdleExecution]
  /\ Forget(w)
  /\ UNCHANGED <<receipt, claim, job, poll, handler>>

ExecutionStep(w) ==
  \/ \E q \in Queues : Take(w, q)
  \/ Read(w) \/ RepairReceipt(w) \/ RecoverFinished(w) \/ KeepFirstError(w)
  \/ AwaitStarted(w) \/ Disown(w) \/ AcquireLease(w) \/ AwaitPredecessor(w)
  \/ AwaitExecutor(w) \/ Expire(w) \/ Recheck(w) \/ Start(w)
  \/ PreparationFails(w)
  \/ HandlerReturns(w) \/ HandlerThrows(w) \/ HandlerTimesOut(w)
  \/ StorageFails(w) \/ Checkpoint(w) \/ Settle(w)
  \/ RecordNotice(w) \/ RecordFails(w) \/ Reject(w)
  \/ Quarantine(w) \/ QuarantineFails(w) \/ HandlerEnds(w) \/ SettleTimedOut(w)

=============================================================================
