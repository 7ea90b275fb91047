---------------------------- MODULE WebhookState ----------------------------
(***************************************************************************)
(* What the outbox pollers and the webhook workers share about one         *)
(* received update: its receipt (a row of webhook_events), the claim that  *)
(* fences its business execution (webhook_execution_claims), and the       *)
(* BullMQ jobs that carry its id, one per queue at most.                   *)
(*                                                                         *)
(* Time is not modelled: what waits for a moment (a backoff, the age of a  *)
(* QUEUED row, a delayed job, the end of a lease) may happen at any time.  *)
(* Dates and nonces of the receipt are unique to the write that made them, *)
(* so "every column of the snapshot is unchanged" holds exactly until the  *)
(* next write that changes one: fresh is the set of processes whose        *)
(* snapshot still equals the receipt.                                      *)
(***************************************************************************)
EXTENDS Naturals

CONSTANTS
  Pollers,             \* processes that poll the outbox
  Executions,          \* slots that run processWebhookEvent
  Queues,              \* BullMQ queues the update may be routed to
  Critical,            \* the one manual close messages are routed to
  MaxEnqueueAttempts,  \* ENQUEUE_MAX_ATTEMPTS
  MaxStalls,           \* maxStalledCount of the BullMQ workers
  MaxCrashes,          \* bound: processes that die, locks lost, jobs evicted
  MaxOutages,          \* bound: calls to PostgreSQL or Redis that fail
  MaxDefers,           \* bound: preparations that ask to be repeated
  MaxTroubles          \* bound: all of these together

NoOwner == "nobody"
NoQueue == "nowhere"

ASSUME WebhookConstants ==
  /\ Critical \in Queues /\ NoQueue \notin Queues
  /\ NoOwner \notin Executions /\ Pollers \cap Executions = {}
  /\ MaxEnqueueAttempts \in Nat \ {0} /\ MaxStalls \in Nat
  /\ MaxCrashes \in Nat /\ MaxOutages \in Nat /\ MaxDefers \in Nat
  /\ MaxTroubles \in Nat

VARIABLES
  receipt,  \* the row of webhook_events
  claim,    \* the row of webhook_execution_claims
  job,      \* the BullMQ job with this id in every queue
  poll,     \* the pollers
  exec,     \* the executions
  fresh,    \* pollers and executions whose snapshot equals the receipt
  handler,  \* what the business handler did so far
  used      \* what is spent of the bounds

vars == <<receipt, claim, job, poll, exec, fresh, handler, used>>

\* errorMessage: a failed enqueue or preparation, a deferred preparation, the
\* error of a handler, the pending quarantine of a handler that timed out or
\* of a started execution nobody can account for, and a terminal quarantine.
Errors == {"none", "enqueue", "deferred", "handler", "timeout", "unaccounted",
           "terminal"}
Pending(r) == r.status = "FAILED" /\ r.error \in {"timeout", "unaccounted"}
Quarantined(r) == Pending(r) \/ (r.status = "FAILED" /\ r.error = "terminal")
\* hasWebhookReplayFence
ReplayFence(r) == r.fence # NoOwner \/ r.error \in {"timeout", "unaccounted", "terminal"}

\* next: nextEnqueueAt is set; fence: the execution whose quarantine deadline
\* is in timeoutQuarantineExpiresAt.  An attempt can be recorded beyond the cap,
\* and another one when a certified notice is enqueued behind it.
Receipts == [status : {"RECEIVED", "QUEUED", "FAILED", "PROCESSED"},
             queue : Queues \cup {NoQueue}, attempts : 0..(MaxEnqueueAttempts + 2),
             next : BOOLEAN, error : Errors, fence : Executions \cup {NoOwner}]
Received == [status |-> "RECEIVED", queue |-> NoQueue, attempts |-> 0,
             next |-> FALSE, error |-> "none", fence |-> NoOwner]
Processed(r) == [r EXCEPT !.status = "PROCESSED", !.queue = NoQueue,
                          !.next = FALSE, !.error = "none", !.fence = NoOwner]
Failed(r, error) == [r EXCEPT !.status = "FAILED", !.error = error,
                              !.next = FALSE, !.fence = NoOwner]

\* token and live: the business lease and whether it is unexpired; started:
\* the execution of businessStartedAt; finished: the journal of a handler that
\* returned is in commandResult.
Claims == [status : {"PENDING", "READY", "COMPLETED"},
           token : Executions \cup {NoOwner}, live : BOOLEAN,
           started : Executions \cup {NoOwner}, finished : BOOLEAN]
Unprepared == [status |-> "PENDING", token |-> NoOwner, live |-> FALSE,
               started |-> NoOwner, finished |-> FALSE]
Released(c) == [c EXCEPT !.token = NoOwner, !.live = FALSE]
Completed(c) == [Released(c) EXCEPT !.status = "COMPLETED"]

\* The notice of a group command that the handler could not send.  Unless it is
\* "none" its journal was saved in commandResult of the claim, and it tells the
\* ledger row of the notice: refused before the transport, being sent or of
\* unknown outcome, sent, or given up when the deadline of the update passed.
Notices == {"none", "unattempted", "attempted", "sent", "expired"}

JobStates == {"absent", "waiting", "delayed", "active", "failed"}
Jobs == [state : JobStates, stalls : 0..MaxStalls,
         owner : Executions \cup {NoOwner}]
NoJob == [state |-> "absent", stalls |-> 0, owner |-> NoOwner]
NewJob == [NoJob EXCEPT !.state = "waiting"]
Carriers == {q \in Queues : job[q].state # "absent"}

\* Replaces the receipt by r and ends the use p makes of its snapshot.  Every
\* snapshot is stale after a write that changes a column or stores a new date.
Write(r, p) ==
  /\ receipt' = r
  /\ fresh' = IF r = receipt /\ ~r.next THEN fresh \ {p} ELSE {}

\* A process forgets its snapshot.
Forget(p) == fresh' = fresh \ {p}

Spend(field, bound) ==
  /\ used[field] < bound /\ used.crashes + used.outages + used.defers < MaxTroubles
  /\ used' = [used EXCEPT ![field] = @ + 1]
Outage == Spend("outages", MaxOutages)

=============================================================================
