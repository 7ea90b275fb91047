--------------------------- MODULE MaxActionLedger ---------------------------
(***************************************************************************)
(* The durable action ledger of apps/api/src/max: one PostgreSQL row per   *)
(* action key (job.idempotencyKey).  This module has the row of one        *)
(* SEND_MESSAGE key and, as operators on rows, the conditional UPDATE,     *)
(* INSERT and DELETE statements of max-action-ledger.service.ts.  Every    *)
(* operator XxxWhere is the WHERE clause of a statement and every operator *)
(* XxxSet the row the statement leaves behind; the modules that model the  *)
(* workers decide when a statement runs.                                   *)
(*                                                                         *)
(* Three columns (dispatchToken, dispatchStartedAt, dispatchBotId) are     *)
(* written and cleared by the same statements: they are the fields token   *)
(* and bot.  attemptCount, firstAttemptAt and lastAttemptAt are the field  *)
(* attempted.  Texts and dates that no condition reads are left out.       *)
(***************************************************************************)
EXTENDS Naturals

CONSTANTS
  Bots,    \* bot identities that may execute the action
  NoBot    \* dispatchBotId IS NULL

ASSUME BotsAssumption == NoBot \notin Bots

\* Key families that a condition tells apart, by prefix or source tag.
Families == {"plain", "broadcast", "night", "suggestion"}

NoToken  == 0      \* dispatchToken IS NULL
NoRemote == 0      \* remoteMessageId IS NULL

\* MaxActionLedgerStatus; "ABSENT" stands for a key without a row.
Statuses == {"ABSENT", "ENQUEUED", "IN_PROGRESS", "FAILED_RETRYABLE",
             "FAILED_TERMINAL", "AMBIGUOUS", "SUCCEEDED"}

\* EXECUTABLE_LEDGER_STATUSES
ExecutableStatuses == {"ENQUEUED", "IN_PROGRESS", "FAILED_RETRYABLE"}

\* lastStatusCode: NULL, a definitive access rejection (403, 404), or another.
HttpClasses == {"none", "denied", "other"}

\* lastErrorCode/lastError as far as a condition of the code reads them.
ErrorCodes == {"none", "guard", "upload", "orphan", "enqueue_ambiguous",
               "recovery_marker", "other"}

Rows == [status    : Statuses,
         ambiguous : BOOLEAN,
         terminal  : BOOLEAN,
         attempted : BOOLEAN,
         token     : Nat,
         bot       : Bots \cup {NoBot},
         remote    : Nat,
         http      : HttpClasses,
         code      : ErrorCodes]

AbsentRow == [status |-> "ABSENT", ambiguous |-> FALSE, terminal |-> FALSE,
              attempted |-> FALSE, token |-> NoToken, bot |-> NoBot,
              remote |-> NoRemote, http |-> "none", code |-> "none"]

------------------------------------------------------------------------------
(***************************************************************************)
(* What the service reads from a row.                                      *)
(***************************************************************************)

Exists(r) == r.status # "ABSENT"

\* The dispatch fence: some worker claimed the right to POST and has not
\* given it back.
Fenced(r) == r.token # NoToken

\* readCompletedSendDispatchFromState: only the stored remote id is a receipt.
Completed(r) == r.remote # NoRemote

\* isLegacyManagedBroadcastPreDispatchSendState, for a key that starts with
\* MANAGED_BROADCAST_SEND_JOB_PREFIX.
ClearableLegacy(r, family) ==
  /\ family = "broadcast"
  /\ r.status = "FAILED_TERMINAL"
  /\ ~r.ambiguous
  /\ r.terminal
  /\ r.http = "none"
  /\ r.code \in {"upload", "orphan"}
  /\ ~Fenced(r)
  /\ ~Completed(r)

\* assertCanEnqueue, once a clearable row has been deleted.
CanEnqueue(r) ==
  \/ ~Exists(r)
  \/ Completed(r)
  \/ ~Fenced(r) /\ ~r.terminal

\* assertCanExecute, once a clearable row has been deleted.
CanExecute(r) ==
  \/ ~Exists(r)
  \/ Completed(r)
  \/ /\ ~r.terminal
     /\ ~r.ambiguous
     /\ r.status \in ExecutableStatuses
     /\ ~Fenced(r)

------------------------------------------------------------------------------
(***************************************************************************)
(* Statements about the enqueue.                                           *)
(***************************************************************************)

\* updateUnattemptedEnqueueState: never crosses evidence of an execution.
UnattemptedWhere(r, statuses) ==
  /\ r.status \in statuses
  /\ ~r.ambiguous
  /\ ~r.terminal
  /\ ~r.attempted
  /\ ~Fenced(r)
  /\ ~Completed(r)

EnqueuedSet(r) ==
  [r EXCEPT !.status = "ENQUEUED", !.ambiguous = FALSE, !.terminal = FALSE,
            !.http = "none", !.code = "none"]

\* recordEnqueuedIfAbsent
RecordEnqueuedIfAbsent(r) ==
  IF ~Exists(r) \/ UnattemptedWhere(r, {"FAILED_RETRYABLE"})
  THEN EnqueuedSet(r) ELSE r

\* recordEnqueueFailedIfAbsent
RecordEnqueueFailedIfAbsent(r) ==
  IF ~Exists(r)
  THEN [r EXCEPT !.status = "FAILED_RETRYABLE", !.code = "other"] ELSE r

\* recordEnqueueAmbiguousIfAbsent
RecordEnqueueAmbiguousIfAbsent(r) ==
  IF ~Exists(r) \/ UnattemptedWhere(r, {"ENQUEUED", "FAILED_RETRYABLE"})
  THEN [r EXCEPT !.status = "AMBIGUOUS", !.ambiguous = TRUE,
                 !.terminal = TRUE, !.http = "none",
                 !.code = "enqueue_ambiguous"]
  ELSE r

------------------------------------------------------------------------------
(***************************************************************************)
(* Statements about the execution.                                         *)
(***************************************************************************)

\* The guard recordStarted, recordPrepared and claimSendDispatch share.
UnfencedOpenWhere(r) ==
  /\ Exists(r)
  /\ ~Fenced(r)
  /\ ~Completed(r)
  /\ ~r.ambiguous
  /\ ~r.terminal

\* recordProtectedSendTransition creates the row before it updates it.
StartedWhere(r) == ~Exists(r) \/ UnfencedOpenWhere(r)

\* recordStarted for SEND_MESSAGE
StartedSet(r) ==
  [r EXCEPT !.status = "IN_PROGRESS", !.ambiguous = FALSE,
            !.terminal = FALSE, !.attempted = TRUE]

\* Fault variants: the claim does not exclude a foreign fence, or a settled row.
ClaimIgnoringFence(r) ==
  Exists(r) /\ ~Completed(r) /\ ~r.ambiguous /\ ~r.terminal
ClaimIgnoringTerminal(r) ==
  Exists(r) /\ ~Fenced(r) /\ ~Completed(r) /\ ~r.ambiguous

\* claimSendDispatch
ClaimWhere(r) == UnfencedOpenWhere(r)
ClaimSet(r, t, b) == [r EXCEPT !.token = t, !.bot = b]

\* The exact owner of the fence, before a receipt: the WHERE clause of
\* completeSendDispatch, releaseSendDispatch and recordAmbiguousSendDispatch.
\* A NULL column equals no token.
OwnerWhere(r, t) == Fenced(r) /\ r.token = t /\ ~Completed(r)

\* completeSendDispatch: token t also names the message MAX created for it.
CompleteSet(r, t) ==
  [r EXCEPT !.remote = t, !.status = "SUCCEEDED", !.ambiguous = FALSE,
            !.terminal = TRUE, !.http = "none", !.code = "none"]

\* releaseSendDispatch
ReleaseSet(r) ==
  [r EXCEPT !.token = NoToken, !.bot = NoBot, !.status = "IN_PROGRESS",
            !.ambiguous = FALSE, !.terminal = FALSE]

\* recordAmbiguousSendDispatch
QuarantineSet(r) ==
  [r EXCEPT !.status = "AMBIGUOUS", !.ambiguous = TRUE, !.terminal = TRUE,
            !.http = "none", !.code = "other"]

\* recordSucceeded for SEND_MESSAGE
SucceededWhere(r) == ~Completed(r)
SucceededSet(r) ==
  [r EXCEPT !.status = "SUCCEEDED", !.ambiguous = FALSE, !.terminal = TRUE,
            !.http = "none", !.code = "none"]

(***************************************************************************)
(* recordFailed for SEND_MESSAGE.  Error classes, by what the code tells   *)
(* apart: "guard" a certified pre-dispatch rejection; "circuit" an open    *)
(* circuit or local quota; "limited" HTTP 429 or a 400 not-ready;          *)
(* "retryable" any other error without an HTTP attempt; "upload" the       *)
(* missing upload payload; "rejected" and "missing" a 403 and a 404 of a   *)
(* preparation request, as they are; "denied" and "unrecoverable" rejected *)
(* requests turned into UnrecoverableError; "ambiguous" an unknown         *)
(* outcome; "finalized" an error whose row was already quarantined.        *)
(***************************************************************************)
ErrorClasses == {"guard", "circuit", "limited", "retryable", "upload",
                 "rejected", "missing", "denied", "unrecoverable",
                 "ambiguous", "finalized"}

\* error instanceof UnrecoverableError
Unrecoverable(e) == e \in {"denied", "unrecoverable", "ambiguous", "finalized"}

\* isIntrinsicallyTerminalFailure
IntrinsicallyTerminal(e) == e \in {"upload", "missing"}

FailedTerminal(e, exhausted) ==
  Unrecoverable(e) \/ IntrinsicallyTerminal(e) \/ exhausted

FailedStatus(e) ==
  IF e = "ambiguous" THEN "AMBIGUOUS"
  ELSE IF Unrecoverable(e) \/ IntrinsicallyTerminal(e) THEN "FAILED_TERMINAL"
  ELSE "FAILED_RETRYABLE"

FailedHttp(e) == IF e \in {"denied", "rejected", "missing"} THEN "denied"
                 ELSE IF e \in {"limited", "unrecoverable"} THEN "other"
                 ELSE "none"

FailedCode(e) == IF e \in {"guard", "upload"} THEN e ELSE "other"

\* Fault variants: a late failure overwrites a receipt, or a quarantine.
FailedOverReceipt(r) == ~r.ambiguous
FailedOverQuarantine(r) == ~Completed(r)

\* recordProtectedSendFailure: it creates the row, then updates a row that is
\* neither completed nor already settled.  It does not read the fence.
FailedWhere(r) == ~Exists(r) \/ (~Completed(r) /\ ~r.ambiguous /\ ~r.terminal)

FailedSet(r, e, exhausted) ==
  [r EXCEPT !.status = FailedStatus(e), !.ambiguous = (e = "ambiguous"),
            !.terminal = FailedTerminal(e, exhausted),
            !.http = FailedHttp(e), !.code = FailedCode(e)]

------------------------------------------------------------------------------
(***************************************************************************)
(* Repair statements.                                                      *)
(***************************************************************************)

\* Fault variant: any settled attempt counts as a definitive non-delivery.
NightRetryOfAnySettled(r) == ~Completed(r) /\ r.terminal /\ r.attempted

\* prepareDefinitivelyRejectedNightModeTransitionRetry: a definitive
\* non-delivery, or the same repair replayed before anything started.
NightRetryWhere(r) ==
  /\ ~r.ambiguous
  /\ ~Fenced(r)
  /\ ~Completed(r)
  /\ r.http = "denied"
  /\ \/ r.status = "FAILED_TERMINAL" /\ r.terminal /\ r.attempted
     \/ /\ r.status = "ENQUEUED" /\ ~r.terminal /\ ~r.attempted
        /\ r.code = "recovery_marker"

NightRetrySet(r) ==
  [r EXCEPT !.status = "ENQUEUED", !.ambiguous = FALSE, !.terminal = FALSE,
            !.attempted = FALSE, !.code = "recovery_marker"]

\* Fault variant: the row is deleted without looking at the fence.
ReleasableIgnoringFence(r) ==
  /\ r.status \in ExecutableStatuses \cup {"FAILED_TERMINAL"}
  /\ ~r.ambiguous /\ ~Completed(r)

\* releasePreDispatchPublication, once the claim of the suggestion is stale or
\* its attempt has returned: the row is deleted, so the key can be published
\* again.
ReleasableSuggestion(r) ==
  /\ r.status \in ExecutableStatuses \cup {"FAILED_TERMINAL"}
  /\ ~r.ambiguous
  /\ ~Fenced(r)
  /\ ~Completed(r)

\* Fault variant: the watchdog leaves retryable failures to the queue.
WatchdogSkipsRetryable(r) ==
  ~r.terminal /\ r.status \in {"ENQUEUED", "IN_PROGRESS"}

\* reconcileStaleEntries: the rows the watchdog selects.
WatchdogSelects(r) == ~r.terminal /\ r.status \in ExecutableStatuses

\* reconcileSendCandidate and applyOutcome; missing says that no queue knows
\* the job.  lastStatusCode is kept.
WatchdogStatus(r) == IF Completed(r) THEN "SUCCEEDED"
                     ELSE IF Fenced(r) THEN "AMBIGUOUS"
                     ELSE "FAILED_TERMINAL"

\* Fault variant: the outcome of the watchdog also clears the fence columns.
WatchdogClearingFence(r, missing) ==
  [r EXCEPT !.status = WatchdogStatus(r), !.terminal = TRUE,
            !.ambiguous = (WatchdogStatus(r) = "AMBIGUOUS"),
            !.token = NoToken, !.bot = NoBot]

WatchdogSet(r, missing) ==
  [r EXCEPT !.status = WatchdogStatus(r),
            !.ambiguous = (WatchdogStatus(r) = "AMBIGUOUS"),
            !.terminal = TRUE,
            !.code = IF WatchdogStatus(r) = "FAILED_TERMINAL" /\ missing
                     THEN "orphan"
                     ELSE IF WatchdogStatus(r) = "SUCCEEDED" THEN "none"
                     ELSE "other"]
==============================================================================
