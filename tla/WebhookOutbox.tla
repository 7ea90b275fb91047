---------------------------- MODULE WebhookOutbox ----------------------------
(***************************************************************************)
(* The outbox: a poller selects the receipt, prepares it, looks for a      *)
(* BullMQ job that already carries it, commits the queue activation in the *)
(* receipt and only then adds or retries the job.  Every write of the      *)
(* receipt is one UPDATE that compares every column with the snapshot, and *)
(* a lost comparison ends the turn of this candidate.                      *)
(***************************************************************************)
EXTENDS WebhookState

PollerPcs == {"idle", "prepare", "lookup", "inspect", "exhaust", "activate",
              "add", "reactivate", "retry", "link", "linkDelayed", "vanished",
              "undo"}
PollerStates == [pc : PollerPcs, snap : Receipts, queue : Queues \cup {NoQueue},
                 claimed : BOOLEAN]
IdlePoller == [pc |-> "idle", snap |-> Received, queue |-> NoQueue, claimed |-> FALSE]

Go(p, pc) == poll' = [poll EXCEPT ![p].pc = pc]
Leave(p) == poll' = [poll EXCEPT ![p] = IdlePoller]

\* Fault variant: a quarantine whose deadline passed is enqueued again.
CandidateWithExpiredQuarantine ==
  \/ receipt.status \in {"RECEIVED", "QUEUED"}
  \/ receipt.status = "FAILED" /\ receipt.next
  \/ Pending(receipt) /\ receipt.fence # NoOwner /\ ~claim.live

\* Fault variant: nobody comes back to an activated receipt.
CandidateNotQueued ==
  \/ receipt.status = "RECEIVED"
  \/ receipt.status = "FAILED" /\ receipt.next

\* The receipt may be selected.  A pending quarantine is also looked at, but
\* settles only behind a claim that is already COMPLETED.
Candidate ==
  \/ receipt.status \in {"RECEIVED", "QUEUED"}
  \/ receipt.status = "FAILED" /\ receipt.next

Select(p) ==
  /\ poll[p].pc = "idle" /\ Candidate
  /\ poll' = [poll EXCEPT ![p] = [IdlePoller EXCEPT !.pc = "prepare", !.snap = receipt]]
  /\ fresh' = fresh \cup {p}
  /\ UNCHANGED <<receipt, claim, job, exec, handler, used>>

\* Fault variant: only the status is compared.
SameStatus(p) == poll[p].snap.status = receipt.status

\* The UPDATE of a poller: it changes the row only if every column still has
\* the value of the snapshot.
Unchanged(p) == p \in fresh

\* The turn ends with this write, whether or not the comparison is lost.
Conclude(p, r) ==
  /\ IF Unchanged(p)
       THEN Write([r EXCEPT !.fence = NoOwner], p)
       ELSE UNCHANGED receipt /\ Forget(p)
  /\ Leave(p)
  /\ UNCHANGED <<claim, job, exec, handler>>

------------------------------------------------------------------------------
(***************************************************************************)
(* Preparation.                                                            *)
(***************************************************************************)

\* Nothing was ever activated for this snapshot: no job can carry it.
Pristine(r) == r = Received

\* Where the job goes: a repaired receipt keeps its queue, unless it became a
\* manual close message.
Targets(r) ==
  IF r.status = "QUEUED" THEN {r.queue, Critical} ELSE Queues

PrepareReady(p) ==
  /\ poll[p].pc = "prepare" /\ claim.status # "COMPLETED"
  /\ claim' = [claim EXCEPT !.status = "READY"]
  /\ \E q \in Targets(poll[p].snap) :
       poll' = [poll EXCEPT
                  ![p].pc = IF Pristine(poll[p].snap) THEN "activate" ELSE "lookup",
                  ![p].queue = q]
  /\ UNCHANGED <<receipt, job, exec, fresh, handler, used>>

\* The claim was completed meanwhile: the receipt needs no job, and one that
\* no worker has taken is removed.
PrepareSettled(p) ==
  /\ poll[p].pc = "prepare" /\ claim.status = "COMPLETED"
  /\ \/ job' = job /\ (Pristine(poll[p].snap) \/ \A q \in Carriers : job[q].state = "active")
     \/ /\ ~Pristine(poll[p].snap)
        /\ \E q \in Carriers :
             job[q].state # "active" /\ job' = [job EXCEPT ![q] = NoJob]
  /\ Leave(p) /\ Forget(p)
  /\ UNCHANGED <<receipt, claim, exec, handler, used>>

\* deferPreparationWithoutExhaustion
PrepareDeferred(p) ==
  /\ poll[p].pc = "prepare" /\ Spend("defers", MaxDefers)
  /\ Conclude(p, [poll[p].snap EXCEPT !.status = "RECEIVED", !.error = "deferred",
                                      !.queue = NoQueue, !.next = TRUE])

\* markFailedWithBackoff counts the attempt itself.
WithBackoff(r) ==
  [r EXCEPT !.status = "FAILED", !.error = "enqueue", !.queue = NoQueue,
            !.attempts = @ + 1, !.next = r.attempts + 1 < MaxEnqueueAttempts]

PrepareFails(p) ==
  /\ poll[p].pc = "prepare" /\ Outage
  /\ Conclude(p, WithBackoff(poll[p].snap))

------------------------------------------------------------------------------
(***************************************************************************)
(* The job.                                                                *)
(***************************************************************************)

\* findExistingJob looks into the preferred queue first.
Found(q) == IF q \in Carriers THEN {q} ELSE Carriers

\* Fault variant: an activation that came to nothing is always repeated.
ExhaustedIfFailed(p) ==
  poll[p].snap.status = "FAILED" /\ poll[p].snap.attempts >= MaxEnqueueAttempts

Exhausted(p) == poll[p].snap.attempts >= MaxEnqueueAttempts

Lookup(p) ==
  /\ poll[p].pc = "lookup"
  /\ IF Found(poll[p].queue) = {}
       THEN Go(p, IF Exhausted(p) THEN "exhaust" ELSE "activate")
       ELSE \E q \in Found(poll[p].queue) :
              poll' = [poll EXCEPT ![p].pc = "inspect", ![p].queue = q]
  /\ UNCHANGED <<receipt, claim, job, exec, fresh, handler, used>>

\* handleExistingJob: what to do depends on the state of the job, which may
\* change before it is done.
Inspect(p) ==
  /\ poll[p].pc = "inspect"
  /\ LET state == job[poll[p].queue].state
         then == CASE state = "failed" /\ poll[p].claimed -> "retry"
                   [] state = "failed" /\ ~poll[p].claimed ->
                        IF Exhausted(p) THEN "exhaust" ELSE "reactivate"
                   [] state = "absent" -> IF poll[p].claimed THEN "undo" ELSE "vanished"
                   [] state = "delayed" -> IF poll[p].claimed THEN "idle" ELSE "linkDelayed"
                   [] OTHER -> IF poll[p].claimed THEN "idle" ELSE "link"
     IN IF then = "idle" THEN Leave(p) /\ Forget(p)
                         ELSE Go(p, then) /\ UNCHANGED fresh
  /\ UNCHANGED <<receipt, claim, job, exec, handler, used>>

\* markExhausted
Exhaust(p) ==
  /\ poll[p].pc = "exhaust"
  /\ Conclude(p, [Failed(poll[p].snap, "enqueue") EXCEPT !.queue = NoQueue])
  /\ UNCHANGED used

\* markQueued: the row follows the job it found.
Link(p) ==
  /\ poll[p].pc \in {"link", "linkDelayed"}
  /\ Conclude(p, [poll[p].snap EXCEPT !.status = "QUEUED", !.queue = poll[p].queue,
                                      !.next = poll[p].pc = "linkDelayed",
                                      !.error = "none"])
  /\ UNCHANGED used

\* The job is gone before its state could be read.
Vanished(p) ==
  /\ poll[p].pc = "vanished"
  /\ Conclude(p, WithBackoff(poll[p].snap))
  /\ UNCHANGED used

\* claimQueueActivation: the activation is committed before the job is touched.
Activate(p) ==
  /\ poll[p].pc \in {"activate", "reactivate"}
  /\ LET active == [poll[p].snap EXCEPT
                      !.status = "QUEUED", !.queue = poll[p].queue,
                      !.attempts = @ + 1, !.next = FALSE, !.error = "none",
                      !.fence = NoOwner]
     IN IF Unchanged(p)
          THEN /\ receipt' = active /\ fresh' = {p}
               /\ poll' = [poll EXCEPT
                             ![p].pc = IF @ = "activate" THEN "add" ELSE "retry",
                             ![p].snap = active, ![p].claimed = TRUE]
          ELSE Leave(p) /\ Forget(p) /\ UNCHANGED receipt
  /\ UNCHANGED <<claim, job, exec, handler, used>>

\* Queue.add ignores an id that the queue still holds.
Added(q) == IF q \in Carriers THEN job ELSE [job EXCEPT ![q] = NewJob]

Add(p) ==
  /\ poll[p].pc = "add"
  /\ job' = Added(poll[p].queue)
  /\ Leave(p) /\ Forget(p)
  /\ UNCHANGED <<receipt, claim, exec, handler, used>>

\* "already exists" is answered by looking at that job.
AddRefused(p) ==
  /\ poll[p].pc = "add" /\ poll[p].queue \in Carriers
  /\ Go(p, "inspect")
  /\ UNCHANGED <<receipt, claim, job, exec, fresh, handler, used>>

\* Redis fails before or after it has the job.
AddFails(p) ==
  /\ poll[p].pc = "add" /\ Outage
  /\ job' \in {job, Added(poll[p].queue)}
  /\ Go(p, "undo")
  /\ UNCHANGED <<receipt, claim, exec, fresh, handler>>

Retried(q) == [job EXCEPT ![q].state = "waiting"]

Retry(p) ==
  /\ poll[p].pc = "retry"
  /\ IF job[poll[p].queue].state = "failed"
       THEN job' = Retried(poll[p].queue) /\ Leave(p) /\ Forget(p)
       ELSE Go(p, "undo") /\ UNCHANGED <<job, fresh>>
  /\ UNCHANGED <<receipt, claim, exec, handler, used>>

RetryFails(p) ==
  /\ poll[p].pc = "retry" /\ job[poll[p].queue].state = "failed" /\ Outage
  /\ job' \in {job, Retried(poll[p].queue)}
  /\ Go(p, "undo")
  /\ UNCHANGED <<receipt, claim, exec, fresh, handler>>

\* markClaimedQueueActivationFailed
Undo(p) ==
  /\ poll[p].pc = "undo"
  /\ Conclude(p, [poll[p].snap EXCEPT !.status = "FAILED", !.error = "enqueue",
                                      !.queue = NoQueue, !.next = ~Exhausted(p)])
  /\ UNCHANGED used

------------------------------------------------------------------------------

\* Fault variant: a failed receipt is not looked at.
CanRecoverUnfailed ==
  /\ claim.finished /\ claim.status = "READY"
  /\ receipt.status \in {"RECEIVED", "QUEUED"}

\* A handler returned and its journal was saved, but its receipt was not: the
\* poll settles both without running anything.
CanRecover ==
  /\ claim.finished /\ claim.status = "READY"
  /\ receipt.status \in {"RECEIVED", "QUEUED", "FAILED"}

RecoverFinishedHead ==
  /\ CanRecover
  /\ claim' = Completed(claim) /\ Write(Processed(receipt), NoOwner)
  /\ UNCHANGED <<job, poll, exec, handler, used>>

PollerCrash(p) ==
  /\ poll[p].pc # "idle" /\ Spend("crashes", MaxCrashes)
  /\ Leave(p) /\ Forget(p)
  /\ UNCHANGED <<receipt, claim, job, exec, handler>>

PollerStep(p) ==
  \/ Select(p) \/ PrepareReady(p) \/ PrepareSettled(p) \/ PrepareDeferred(p)
  \/ PrepareFails(p) \/ Lookup(p) \/ Inspect(p) \/ Exhaust(p) \/ Link(p)
  \/ Vanished(p) \/ Activate(p) \/ Add(p) \/ AddRefused(p) \/ AddFails(p)
  \/ Retry(p) \/ RetryFails(p) \/ Undo(p)

=============================================================================
