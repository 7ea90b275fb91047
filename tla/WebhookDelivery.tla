--------------------------- MODULE WebhookDelivery ---------------------------
(***************************************************************************)
(* The life of one received update: outbox pollers that try to have a job  *)
(* for it, and workers that try to run its handler and settle it.  They    *)
(* share the receipt, the claim and the jobs, and no lock: pollers compare *)
(* the receipt with a snapshot, workers compare it with what they read     *)
(* and hold the lease of the claim.                                        *)
(***************************************************************************)
EXTENDS WebhookOutbox, GroupCommandNotice

TypeOK ==
  /\ receipt \in Receipts /\ claim \in Claims
  /\ job \in [Queues -> Jobs]
  /\ poll \in [Pollers -> PollerStates]
  /\ exec \in [Executions -> ExecutionStates]
  /\ fresh \subseteq Pollers \cup Executions
  /\ handler \in [starts : Nat, returned : BOOLEAN, notice : Notices]
  /\ used \in [crashes : 0..MaxCrashes, outages : 0..MaxOutages, defers : 0..MaxDefers]

Init ==
  /\ receipt = Received /\ claim = Unprepared
  /\ job = [q \in Queues |-> NoJob]
  /\ poll = [p \in Pollers |-> IdlePoller]
  /\ exec = [w \in Executions |-> IdleExecution]
  /\ fresh = {}
  /\ handler = [starts |-> 0, returned |-> FALSE, notice |-> "none"]
  /\ used = [crashes |-> 0, outages |-> 0, defers |-> 0]

Next ==
  \/ \E p \in Pollers : PollerStep(p) \/ PollerCrash(p)
  \/ RecoverFinishedHead
  \/ \E w \in Executions : ExecutionStep(w) \/ NoticeStep(w) \/ Heartbeat(w) \/ Crash(w)
  \/ \E q \in Queues : Stall(q) \/ Evict(q)
  \/ LeaseExpires

Spec == Init /\ [][Next]_vars

(***************************************************************************)
(* Fairness: pollers and workers that run go on, the poll comes back to    *)
(* the receipt and to finished claims, BullMQ finds the jobs of dead       *)
(* workers, and a lease whose holder is gone ends.                         *)
(***************************************************************************)
Fairness ==
  /\ \A p \in Pollers : WF_vars(PollerStep(p))
  /\ \A w \in Executions : WF_vars(ExecutionStep(w) \/ NoticeStep(w))
  /\ \A q \in Queues : WF_vars(~Running(q) /\ Stall(q))
  /\ WF_vars(~Holding /\ LeaseExpires) /\ WF_vars(RecoverFinishedHead)

FairSpec == Spec /\ Fairness

------------------------------------------------------------------------------
(***************************************************************************)
(* Properties.                                                             *)
(***************************************************************************)

\* Nobody starts the business handler of an update twice, whatever jobs,
\* redeliveries, stalls, expired leases and repairs there are.
HandlerStartsOnce == handler.starts <= 1

\* Claim and receipt are settled together: a processed receipt never waits for
\* a claim, and a completed claim never leaves a receipt behind.
SettledTogether == claim.status = "COMPLETED" <=> receipt.status = "PROCESSED"

\* A processed update was handled to the end, or its handler never ran and
\* never will, or all that was left of it was a command notice that is sent or
\* was given up without having been tried.
ProcessedIsProven ==
  receipt.status = "PROCESSED" =>
    handler.returned \/ handler.starts = 0 \/ handler.notice \in {"sent", "expired"}

\* While a handler that timed out runs on behind a stored quarantine, the
\* receipt carries the marker of exactly this execution.
DetachedIsFenced ==
  \A w \in Executions : exec[w].pc = "detached" => Pending(receipt) /\ receipt.fence = w

\* No late worker or poller touches the receipt of a processed update.
SettledStays == [][receipt.status = "PROCESSED" => UNCHANGED receipt]_receipt

\* The first error of a handler that failed is kept: no duplicate job, stale
\* execution or poller turns it into a success or enqueues it again, unless the
\* lease that started the handler certified a command notice as all that is
\* left to do.
FirstErrorStays ==
  [][claim.started # NoOwner /\ handler.notice = "none"
       /\ receipt.status = "FAILED" /\ receipt.error \in {"handler", "terminal"}
       => UNCHANGED receipt]_receipt

\* A committed activation is never forgotten by a poller that is late: the cap
\* counts every attempt.
AttemptsAreKept == [][receipt'.attempts >= receipt.attempts]_receipt

\* Every update ends: processed, failed for good, or held in a quarantine.
AtRest == receipt.status = "PROCESSED" \/ (receipt.status = "FAILED" /\ ~receipt.next)
EventSettles == <>[]AtRest

\* A handler that returned and saved its journal is booked as processed.
JournalSettles == claim.finished ~> receipt.status = "PROCESSED"

==============================================================================
