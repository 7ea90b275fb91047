--------------------------- MODULE MaxMemberAction ---------------------------
(***************************************************************************)
(* The member actions of one member of one chat: BAN_MEMBER, KICK_MEMBER   *)
(* and TRY_UNBAN_MEMBER.  Unlike a SEND_MESSAGE they have no dispatch      *)
(* fence: the crash fence is the row itself.  recordStarted moves it to    *)
(* IN_PROGRESS under an advisory lock of the member, unless another row of *)
(* the member is unsettled, and an IN_PROGRESS row is never started again. *)
(* Every outcome is then an unconditional upsert whose failure is only     *)
(* logged, and the watchdog quarantines or requeues what is left behind.   *)
(*                                                                         *)
(* Rows are rows of MaxActionLedger; token, bot and remote stay empty.     *)
(* MAX is external: DELETE /chats/{id}/members is on the wire until MAX    *)
(* applies it or definitively rejects it, whether or not anyone waits.     *)
(***************************************************************************)
EXTENDS MaxActionLedger, FiniteSets

CONSTANTS
  Bans, Kicks, Unbans,  \* idempotency keys, by action type
  Workers,              \* concurrent executions
  MaxAttempts,          \* opts.attempts of a BullMQ job
  MaxStalls,            \* maxStalledCount of the BullMQ worker
  MaxEnqueues,          \* bound: times a producer asks for an action
  MaxImmediates,        \* bound: immediate executions
  MaxOutages,           \* bound: refusals by guards, circuits and limits
  MaxCrashes,           \* bound: processes that die, jobs that stall or expire
  MaxClears             \* bound: presence checks that retire BAN rows

Keys == Bans \cup Kicks \cup Unbans
NoKey == "none"
NoOwner == "none"

ASSUME MemberBounds ==
  /\ MaxAttempts \in Nat \ {0} /\ MaxStalls \in Nat /\ MaxEnqueues \in Nat
  /\ MaxImmediates \in Nat /\ MaxOutages \in Nat /\ MaxCrashes \in Nat
  /\ MaxClears \in Nat

ASSUME MemberKeys ==
  /\ Bans \cap Kicks = {} /\ Bans \cap Unbans = {} /\ Kicks \cap Unbans = {}
  /\ NoKey \notin Keys /\ NoOwner \notin Workers

VARIABLES
  row,      \* the ledger rows of the member, by key
  job,      \* the BullMQ jobs, by key
  prod,     \* the producer of an action
  wk,       \* worker executions
  wire,     \* <<key, worker>>: requests MAX has not decided about
  effects,  \* how often MAX applied a key since its row was last retired
  present,  \* whether MAX has the member in the chat
  wd,       \* the watchdog
  clr,      \* the caller that retires BAN rows of a present member
  used      \* what is spent of the bounds

vars == <<row, job, prod, wk, wire, effects, present, wd, clr, used>>

\* lastErrorCode: circuit open or internal limit, external limit (HTTP 429),
\* certified guard rejection, and the markers of the watchdog.
RetryCodes == {"guard", "circuit", "limited"}
MemberCodes == RetryCodes \cup {"none", "other", "non_retryable"}


MemberHttp == {"none", "denied", "missing", "other"}

MemberRows == [status : Statuses, ambiguous : BOOLEAN, terminal : BOOLEAN,
               attempted : BOOLEAN, token : {NoToken}, bot : {NoBot},
               remote : {NoRemote}, http : MemberHttp, code : MemberCodes]

JobStates == {"absent", "waiting", "active", "failed"}
Jobs == [state : JobStates, made : 0..MaxAttempts, stalls : 0..MaxStalls,
         owner : Workers \cup {NoOwner}, ambiguous : BOOLEAN]
NoJob == [state |-> "absent", made |-> 0, stalls |-> 0, owner |-> NoOwner,
          ambiguous |-> FALSE]

(***************************************************************************)
(* How an attempt ends.  "guard" a certified pre-dispatch rejection,       *)
(* "guard404" one that carries the 404 of a lookup, "guardFinal" an        *)
(* UnrecoverableError; "circuit" an open circuit or local quota;           *)
(* "limited" HTTP 429; "rejected" HTTP 403;        *)
(* "missing" HTTP 404 or a documented HTTP 200 rejection; "denied" a lost  *)
(* access turned into UnrecoverableError; "other" another 4xx; "ambiguous" *)
(* and "server" a transport failure and a 5xx, effect unknown;             *)
(* "retryable" and "unrecoverable" errors without a request.               *)
(***************************************************************************)
Failures == {"guard", "guard404", "guardFinal", "circuit", "limited", "rejected",
             "missing", "denied", "other", "ambiguous", "server", "retryable",
             "unrecoverable"}

WorkerPcs == {"idle", "start", "ready", "sent", "succeeding", "failing",
              "settling", "done"}
WorkerStates == [pc : WorkerPcs, key : Keys \cup {NoKey}, queued : BOOLEAN,
                 final : BOOLEAN, tried : SUBSET Bots,
                 out : Failures \cup {"none"}]
IdleWorker == [pc |-> "idle", key |-> NoKey, queued |-> FALSE,
               final |-> FALSE, tried |-> {}, out |-> "none"]

ProducerPcs == {"idle", "remove", "add", "observe", "retryAdd", "enqueued",
                "enqueueFailed"}
IdleProducer == [pc |-> "idle", key |-> NoKey]

IdleWatchdog == [pc |-> "idle", key |-> NoKey, snap |-> AbsentRow,
                 obs |-> "absent", fresh |-> FALSE]
IdleClear == [pc |-> "idle", guarded |-> FALSE, later |-> {}, banned |-> {}]

\* Rows, jobs and processes keep their shape; the member rows never carry a
\* dispatch fence or a receipt.
TypeOK ==
  /\ row \in [Keys -> MemberRows]
  /\ job \in [Keys -> Jobs]
  /\ prod \in [pc : ProducerPcs, key : Keys \cup {NoKey}]
  /\ wk \in [Workers -> WorkerStates]
  /\ wire \in SUBSET (Keys \X Workers)
  /\ effects \in [Keys -> Nat]
  /\ present \in BOOLEAN
  /\ wd \in [pc : {"idle", "read", "decide", "requeued"},
             key : Keys \cup {NoKey}, snap : MemberRows, obs : JobStates,
             fresh : BOOLEAN]
  /\ clr \in [pc : {"idle", "seen"}, guarded : BOOLEAN, later : SUBSET Keys,
              banned : SUBSET Keys]
  /\ used \in [enqueues : Nat, immediates : Nat, outages : Nat,
               crashes : Nat, clears : Nat]

Init ==
  /\ row = [k \in Keys |-> AbsentRow]
  /\ job = [k \in Keys |-> NoJob]
  /\ prod = IdleProducer
  /\ wk = [w \in Workers |-> IdleWorker]
  /\ wire = {}
  /\ effects = [k \in Keys |-> 0]
  /\ present = TRUE
  /\ wd = IdleWatchdog
  /\ clr = IdleClear
  /\ used = [enqueues |-> 0, immediates |-> 0, outages |-> 0, crashes |-> 0,
             clears |-> 0]

------------------------------------------------------------------------------
(***************************************************************************)
(* The statements of the ledger for member actions.                        *)
(***************************************************************************)

\* isExecutableCrashFencedMemberState, the guard of assertCanEnqueue,
\* assertCanExecute and updateExecutableStart.
Executable(r) ==
  /\ ~r.terminal
  /\ ~r.ambiguous
  /\ \/ r.status = "ENQUEUED"
     \/ r.status = "FAILED_RETRYABLE" /\ (r.code \in RetryCodes \/ ~r.attempted)

\* Fault variants: a quarantined row, or a confirmed ban, no longer blocks.
BlockersWithoutAmbiguous(k) ==
  {o \in Keys \ {k} :
     \/ row[o].status = "IN_PROGRESS"
     \/ k \notin Unbans /\ o \in Bans /\ row[o].status = "SUCCEEDED"}
BlockersWithoutBans(k) ==
  {o \in Keys \ {k} : row[o].status = "IN_PROGRESS" \/ row[o].ambiguous}

\* The rows that forbid the start of key k.
Blockers(k) ==
  {o \in Keys \ {k} :
     \/ row[o].status = "IN_PROGRESS"
     \/ row[o].ambiguous
     \/ k \notin Unbans /\ o \in Bans /\ row[o].status = "SUCCEEDED"}

EffectUnknown(e) == e \in {"ambiguous", "server"}
Unrecovered(e) == e \in {"denied", "unrecoverable", "ambiguous", "guardFinal"}

\* recordFailed for a member action.
FailedRow(r, e, exhausted) ==
  [r EXCEPT
     !.status = IF EffectUnknown(e) THEN "AMBIGUOUS"
                ELSE IF Unrecovered(e) \/ e = "missing" THEN "FAILED_TERMINAL"
                ELSE "FAILED_RETRYABLE",
     !.ambiguous = EffectUnknown(e),
     !.terminal = EffectUnknown(e) \/ Unrecovered(e) \/ e = "missing"
                  \/ exhausted,
     !.http = IF e \in {"rejected", "denied"} THEN "denied"
              ELSE IF e \in {"missing", "guard404"} THEN "missing"
              ELSE IF e \in {"limited", "other", "server"} THEN "other"
              ELSE "none",
     !.code = IF e \in {"guard", "guard404", "guardFinal"} THEN "guard"
              ELSE IF e \in {"circuit", "limited"} THEN e ELSE "other"]

\* clearTerminalBanStateAfterUnban, of a BAN row, without completedBefore.
Retirable(r) ==
  /\ r.terminal
  /\ ~r.ambiguous
  /\ \/ r.status = "SUCCEEDED"
     \/ /\ r.status \in {"FAILED_TERMINAL", "FAILED_RETRYABLE"}
        /\ \/ r.http \in {"denied", "missing"}
           \/ r.code \in RetryCodes \cup {"non_retryable"}
           \/ ~r.attempted

------------------------------------------------------------------------------
(***************************************************************************)
(* Helpers.                                                                *)
(***************************************************************************)

\* A statement that matches row k also moves its updatedAt.
Write(k, r) ==
  /\ row' = [row EXCEPT ![k] = r]
  /\ wd' = [wd EXCEPT !.fresh = @ /\ wd.key # k]
KeepRow == UNCHANGED <<row, wd>>

Goto(w, p) == wk' = [wk EXCEPT ![w] = [wk[w] EXCEPT !.pc = p]]

\* The execution ends.  What BullMQ tells apart of an error is whether it is an
\* UnrecoverableError and an ambiguous one.
Ends(w, p, e) ==
  wk' = [wk EXCEPT ![w] =
           IF ~wk[w].queued THEN IdleWorker
           ELSE [IdleWorker EXCEPT !.pc = p, !.key = wk[w].key,
                                   !.queued = TRUE, !.out = e]]
ErrorKind(e) == IF e = "ambiguous" THEN e
                ELSE IF Unrecovered(e) THEN "unrecoverable" ELSE "retryable"
Return(w) == Ends(w, "done", "none")
Rethrow(w, e) == Ends(w, "settling", ErrorKind(e))

\* The attempt with one candidate throws; an earlier lost access
\* (lastAccessError) wins over an open circuit.
Throw(w, e) ==
  wk' = [wk EXCEPT ![w] = [wk[w] EXCEPT !.pc = "failing",
           !.out = IF e = "circuit" /\ @ = "denied" THEN @ ELSE e]]

At(w, p) == wk[w].pc = p

Spend(what, bound) ==
  /\ used[what] < bound
  /\ used' = [used EXCEPT ![what] = @ + 1]

\* Guards, circuits and limits spend the bound MaxOutages.
Outages == {"guard", "guard404", "guardFinal", "circuit", "limited"}
SpendOutage(e) == IF e \in Outages THEN Spend("outages", MaxOutages)
                  ELSE UNCHANGED used

QueueAdd(k) == job' = IF job[k].state = "absent"
                      THEN [job EXCEPT ![k] = [NoJob EXCEPT !.state = "waiting"]]
                      ELSE job

------------------------------------------------------------------------------
(***************************************************************************)
(* The producer: dispatchAction through BullMQ.                            *)
(***************************************************************************)

ProducerGoto(p) == prod' = [prod EXCEPT !.pc = p]

\* assertCanEnqueue; a refusal throws to the caller.  TRY_UNBAN is never queued.
AssertCanEnqueue(k) ==
  /\ prod.pc = "idle"
  /\ k \notin Unbans
  /\ ~Exists(row[k]) \/ Executable(row[k])
  /\ Spend("enqueues", MaxEnqueues)
  /\ prod' = [pc |-> "remove", key |-> k]
  /\ KeepRow
  /\ UNCHANGED <<job, wk, wire, effects, present, clr>>

\* removeRetainedFailedActionJob: a failed job that ended ambiguously stays.
RemoveRetainedFailedJob ==
  /\ prod.pc = "remove"
  /\ LET j == job[prod.key]
     IN  IF j.state = "failed" /\ j.ambiguous
         THEN prod' = IdleProducer /\ UNCHANGED job
         ELSE /\ ProducerGoto("add")
              /\ job' = IF j.state = "failed"
                        THEN [job EXCEPT ![prod.key] = NoJob] ELSE job
  /\ KeepRow
  /\ UNCHANGED <<wk, wire, effects, present, clr, used>>

\* Queue.add may succeed and still throw.
AddActionJob ==
  /\ prod.pc = "add"
  /\ \/ QueueAdd(prod.key) /\ ProducerGoto("enqueued")
     \/ (QueueAdd(prod.key) \/ UNCHANGED job) /\ ProducerGoto("observe")
  /\ KeepRow
  /\ UNCHANGED <<wk, wire, effects, present, clr, used>>

\* observeActionQueueJob and hasExecutionEvidenceSince after an add that threw:
\* accepted by the queue, refused, or unknown, which is tried once more.  Both
\* records of the outcome leave an attempted row alone, so it does not matter
\* when the attempt was made.
ObserveFailedAdd ==
  /\ prod.pc = "observe"
  /\ \/ /\ job[prod.key].state \in {"waiting", "active"} \/ row[prod.key].attempted
        /\ ProducerGoto("enqueued")
     \/ /\ job[prod.key].state \notin {"waiting", "active"}
        /\ ProducerGoto("enqueueFailed")
     \/ ProducerGoto("retryAdd")
  /\ KeepRow
  /\ UNCHANGED <<job, wk, wire, effects, present, clr, used>>

RetryAddActionJob ==
  /\ prod.pc = "retryAdd"
  /\ \/ QueueAdd(prod.key) /\ ProducerGoto("enqueued")
     \/ (QueueAdd(prod.key) \/ UNCHANGED job) /\ ProducerGoto("enqueueFailed")
  /\ KeepRow
  /\ UNCHANGED <<wk, wire, effects, present, clr, used>>

\* The last statement of the enqueue; its failure is only logged.
RecordEnqueueOutcome ==
  /\ prod.pc \in {"enqueued", "enqueueFailed"}
  /\ LET k == prod.key
         r == IF prod.pc = "enqueued" THEN RecordEnqueuedIfAbsent(row[k])
              ELSE RecordEnqueueFailedIfAbsent(row[k])
     IN  KeepRow \/ (r # row[k] /\ Write(k, r))
  /\ prod' = IdleProducer
  /\ UNCHANGED <<job, wk, wire, effects, present, clr, used>>

\* The process of the producer dies.
ProducerFails ==
  /\ prod.pc # "idle"
  /\ Spend("crashes", MaxCrashes)
  /\ prod' = IdleProducer
  /\ KeepRow
  /\ UNCHANGED <<job, wk, wire, effects, present, clr>>

------------------------------------------------------------------------------
(***************************************************************************)
(* An execution, queued or immediate, up to the request.                   *)
(***************************************************************************)

TakeJob(w, k) ==
  /\ At(w, "idle")
  /\ job[k].state = "waiting"
  /\ job' = [job EXCEPT ![k].state = "active", ![k].owner = w]
  /\ wk' = [wk EXCEPT ![w] = [IdleWorker EXCEPT !.pc = "start", !.key = k,
              !.queued = TRUE, !.final = (job[k].made + 1 >= MaxAttempts)]]
  /\ KeepRow
  /\ UNCHANGED <<prod, wire, effects, present, clr, used>>

\* executeImmediateActionJob
StartImmediate(w, k) ==
  /\ At(w, "idle")
  /\ Spend("immediates", MaxImmediates)
  /\ wk' = [wk EXCEPT ![w] = [IdleWorker EXCEPT !.pc = "start", !.key = k]]
  /\ KeepRow
  /\ UNCHANGED <<job, prod, wire, effects, present, clr>>

\* A hold, a missing route or a database error before recordStarted.
FailBeforeStart(w) ==
  /\ At(w, "start")
  /\ \E e \in {"retryable", "unrecoverable"} : Rethrow(w, e)
  /\ KeepRow
  /\ UNCHANGED <<job, prod, wire, effects, present, clr, used>>

\* recordStarted: one transaction under the advisory lock of the member.  It
\* may commit and still throw.
RecordStarted(w) ==
  LET k == wk[w].key
      allowed == Blockers(k) = {} /\ (~Exists(row[k]) \/ Executable(row[k]))
  IN  /\ At(w, "start")
      /\ IF allowed THEN Write(k, StartedSet(row[k])) ELSE KeepRow
      /\ \/ /\ allowed
            /\ \E b \in Bots :
                 wk' = [wk EXCEPT ![w] = [wk[w] EXCEPT !.pc = "ready",
                                                       !.tried = {b}]]
         \/ allowed /\ Rethrow(w, "retryable")
         \/ ~allowed /\ Rethrow(w, IF Blockers(k) # {} THEN "guard"
                                   ELSE "unrecoverable")
      /\ UNCHANGED <<job, prod, wire, effects, present, clr, used>>

\* The final guards, the circuit, the quota or the preparation refuse before
\* the request leaves.
RefuseBeforeRequest(w) ==
  /\ At(w, "ready")
  /\ \E e \in {"guard", "guard404", "guardFinal", "circuit", "retryable",
             "unrecoverable"} :
       SpendOutage(e) /\ Throw(w, e)
  /\ KeepRow
  /\ UNCHANGED <<job, prod, wire, effects, present, clr>>

\* executeQueuedMemberModerationAction: the DELETE leaves the process.
SendRequest(w) ==
  /\ At(w, "ready")
  /\ wire' = wire \cup {<<wk[w].key, w>>}
  /\ Goto(w, "sent")
  /\ KeepRow
  /\ UNCHANGED <<job, prod, effects, present, clr, used>>

------------------------------------------------------------------------------
(***************************************************************************)
(* MAX, and what the execution learns of it.                               *)
(***************************************************************************)

Waits(w, k) == At(w, "sent") /\ wk[w].key = k

\* MAX applies the request; its answer may get lost.
MaxApplies(k, w) ==
  /\ <<k, w>> \in wire
  /\ wire' = wire \ {<<k, w>>}
  /\ effects' = [effects EXCEPT ![k] = @ + 1]
  /\ present' = (present /\ k \in Unbans)
  /\ clr' = IF clr.pc = "seen" /\ k \in Bans
            THEN [clr EXCEPT !.banned = @ \cup {k}] ELSE clr
  /\ UNCHANGED wk \/ (Waits(w, k) /\ Goto(w, "succeeding"))
  /\ KeepRow
  /\ UNCHANGED <<job, prod, used>>

\* MAX definitively refuses it; its answer may get lost.
MaxRejects(k, w) ==
  /\ <<k, w>> \in wire
  /\ wire' = wire \ {<<k, w>>}
  /\ \/ UNCHANGED <<wk, used>>
     \/ /\ Waits(w, k)
        /\ \E e \in {"limited", "rejected", "missing", "other"}
                    \cup (IF wk[w].queued THEN {"denied"} ELSE {}) :
             SpendOutage(e) /\ Throw(w, e)
  /\ KeepRow
  /\ UNCHANGED <<job, prod, effects, present, clr>>

\* A timeout, a broken connection or a 5xx.
GiveUp(w) ==
  /\ At(w, "sent")
  /\ \E e \in {"ambiguous", "server"} : Throw(w, e)
  /\ KeepRow
  /\ UNCHANGED <<job, prod, wire, effects, present, clr, used>>

------------------------------------------------------------------------------
(***************************************************************************)
(* The end of an execution.                                                *)
(***************************************************************************)

\* Fault variant: the next bot also tries after an unknown outcome.
FailoverAfterTimeout(queued, k) ==
  IF queued THEN {"guard", "circuit", "rejected", "denied", "ambiguous"}
  ELSE {}

\* The errors after which the next bot may try the same key.
FailoverErrors(queued, k) ==
  IF queued THEN {"guard", "circuit", "rejected", "denied"}
  ELSE IF k \in Unbans THEN {} ELSE {"guard"}

NextCandidate(w) ==
  /\ At(w, "failing")
  /\ wk[w].out \in FailoverErrors(wk[w].queued, wk[w].key)
  /\ \E b \in Bots \ wk[w].tried :
       wk' = [wk EXCEPT ![w] = [wk[w] EXCEPT !.pc = "ready",
                !.tried = @ \cup {b},
                !.out = IF @ = "denied" THEN @ ELSE "none"]]
  /\ KeepRow
  /\ UNCHANGED <<job, prod, wire, effects, present, clr, used>>

\* recordSucceeded: an upsert without a condition, best effort.
RecordSucceeded(w) ==
  LET k == wk[w].key
  IN  /\ At(w, "succeeding")
      /\ \/ /\ Write(k, SucceededSet(row[k]))
            /\ clr' = IF clr.pc = "seen"
                      THEN [clr EXCEPT !.later = @ \cup {k}] ELSE clr
         \/ KeepRow /\ UNCHANGED clr
      /\ Return(w)
      /\ UNCHANGED <<job, prod, wire, effects, present, used>>

\* recordFailed: an upsert without a condition, best effort.  The end of the
\* candidate loop does not pass on that the attempts are exhausted.
RecordFailed(w) ==
  LET k == wk[w].key
  IN  /\ At(w, "failing")
      /\ \/ \E exhausted \in {wk[w].final, wk[w].final /\ wk[w].out # "circuit"} :
              Write(k, FailedRow(row[k], wk[w].out, exhausted))
         \/ KeepRow
      /\ Rethrow(w, wk[w].out)
      /\ UNCHANGED <<job, prod, wire, effects, present, clr, used>>

\* BullMQ settles the job if the worker still owns it.
SettleJob(w) ==
  /\ wk[w].pc \in {"settling", "done"}
  /\ LET k == wk[w].key
         j == job[k]
     IN  job' = IF j.owner # w THEN job
                ELSE [job EXCEPT ![k] =
                  IF At(w, "done") THEN NoJob
                  ELSE IF Unrecovered(wk[w].out) \/ j.made + 1 >= MaxAttempts
                  THEN [NoJob EXCEPT !.state = "failed", !.made = MaxAttempts,
                                     !.ambiguous = (wk[w].out = "ambiguous")]
                  ELSE [j EXCEPT !.state = "waiting", !.owner = NoOwner,
                                 !.made = @ + 1]]
  /\ wk' = [wk EXCEPT ![w] = IdleWorker]
  /\ KeepRow
  /\ UNCHANGED <<prod, wire, effects, present, clr, used>>

\* The process of the worker dies; its request stays on the wire.
Crash(w) ==
  /\ ~At(w, "idle")
  /\ Spend("crashes", MaxCrashes)
  /\ wk' = [wk EXCEPT ![w] = IdleWorker]
  /\ KeepRow
  /\ UNCHANGED <<job, prod, wire, effects, present, clr>>

\* BullMQ finds an active job without a live lock: its owner died, or is slow
\* and goes on without owning the job.
StallJob(k) ==
  LET w == job[k].owner
      died == wk[w].key # k \/ ~wk[w].queued
  IN  /\ job[k].state = "active"
      /\ IF died THEN UNCHANGED used ELSE Spend("crashes", MaxCrashes)
      /\ job' = [job EXCEPT ![k] =
           IF job[k].stalls < MaxStalls
           THEN [job[k] EXCEPT !.state = "waiting", !.owner = NoOwner,
                               !.stalls = @ + 1]
           ELSE [NoJob EXCEPT !.state = "failed", !.made = job[k].made]]
      /\ KeepRow
      /\ UNCHANGED <<prod, wk, wire, effects, present, clr>>

\* removeOnFail: BullMQ drops a retained failed job once it is too old.
ExpireFailedJob(k) ==
  /\ job[k].state = "failed"
  /\ Spend("crashes", MaxCrashes)
  /\ job' = [job EXCEPT ![k] = NoJob]
  /\ KeepRow
  /\ UNCHANGED <<prod, wk, wire, effects, present, clr>>

------------------------------------------------------------------------------
(***************************************************************************)
(* The watchdog of stale rows.                                             *)
(***************************************************************************)

\* reconcileStaleEntries selects a row.
WatchdogRead(k) ==
  /\ wd.pc = "idle"
  /\ WatchdogSelects(row[k])
  /\ wd' = [pc |-> "read", key |-> k, snap |-> row[k], obs |-> "absent",
            fresh |-> TRUE]
  /\ UNCHANGED <<row, job, prod, wk, wire, effects, present, clr, used>>

\* findActionJobObservations
WatchdogObserve ==
  /\ wd.pc = "read"
  /\ wd' = [wd EXCEPT !.pc = "decide", !.obs = job[wd.key].state]
  /\ UNCHANGED <<row, job, prod, wk, wire, effects, present, clr, used>>

\* shouldDeferFinalMemberGuardFailure, for a retained job that matches the row.
DefersGuardFailure ==
  /\ wd.key \notin Unbans
  /\ wd.snap.status = "FAILED_RETRYABLE" /\ wd.snap.code = "guard"
  /\ wd.obs \in {"absent", "failed"}

\* A job that waits, one that became active after the cutoff, a guard failure.
WatchdogDefers ==
  /\ wd.pc = "decide"
  /\ wd.obs \in {"waiting", "active"} \/ DefersGuardFailure
  /\ wd' = IdleWatchdog
  /\ UNCHANGED <<row, job, prod, wk, wire, effects, present, clr, used>>

\* isIntrinsicallyTerminalRetryableFailure
NonRetryable(r) == r.status = "FAILED_RETRYABLE" /\ r.http = "missing"

\* isRecoverablePreDispatchMemberFailure
Requeues ==
  /\ wd.key \notin Unbans
  /\ wd.snap.status = "FAILED_RETRYABLE" /\ wd.snap.code = "circuit"
  /\ ~NonRetryable(wd.snap)
  /\ wd.obs \in {"absent", "failed"}

\* requeueRetryableMemberAction, first half: job.retry() or Queue.add.  Either
\* may throw, which leaves the row as it is.
WatchdogRequeues ==
  LET k == wd.key
      retried == IF wd.obs = "absent" THEN QueueAdd(k)
                 ELSE /\ job[k].state = "failed"
                      /\ job' = [job EXCEPT ![k].state = "waiting"]
  IN  /\ wd.pc = "decide"
      /\ Requeues
      /\ \/ retried /\ wd' = [wd EXCEPT !.pc = "requeued"]
         \/ (retried \/ UNCHANGED job) /\ wd' = IdleWatchdog
      /\ UNCHANGED <<row, prod, wk, wire, effects, present, clr, used>>

\* Fault variant: the second half does not compare updatedAt.
BooksBlindly ==
  /\ wd.pc = "requeued"
  /\ row' = [row EXCEPT ![wd.key] = EnqueuedSet(@)]
  /\ wd' = IdleWatchdog
  /\ UNCHANGED <<job, prod, wk, wire, effects, present, clr, used>>

\* Second half: the row follows the job unless it changed in between.
WatchdogBooks ==
  /\ wd.pc = "requeued"
  /\ row' = IF wd.fresh THEN [row EXCEPT ![wd.key] = EnqueuedSet(@)] ELSE row
  /\ wd' = IdleWatchdog
  /\ UNCHANGED <<job, prod, wk, wire, effects, present, clr, used>>

\* mayHaveStarted: a trace of an execution, in the row or in the queue.
MayHaveStarted ==
  \/ wd.snap.status = "IN_PROGRESS" \/ wd.snap.attempted
  \/ wd.obs \in {"active", "failed"}

\* What applyOutcome makes of the row; lastStatusCode is kept.
WatchdogRow(r) ==
  LET settles == NonRetryable(wd.snap) \/ Requeues \/ ~MayHaveStarted
  IN  [r EXCEPT !.status = IF settles THEN "FAILED_TERMINAL" ELSE "AMBIGUOUS",
                !.ambiguous = ~settles,
                !.terminal = TRUE,
                !.code = IF NonRetryable(wd.snap) THEN "non_retryable"
                         ELSE "other"]

\* applyOutcome: compare-and-set on status, terminal and updatedAt.  A row that
\* could be requeued is settled when it is too old or its job does not match; a
\* guard failure when its retained job does not match.
WatchdogApplies ==
  /\ wd.pc = "decide"
  /\ wd.obs # "waiting"
  /\ DefersGuardFailure => wd.obs = "failed"
  /\ row' = IF wd.fresh THEN [row EXCEPT ![wd.key] = WatchdogRow(@)] ELSE row
  /\ wd' = IdleWatchdog
  /\ UNCHANGED <<job, prod, wk, wire, effects, present, clr, used>>

\* The process of the watchdog dies.
WatchdogDies ==
  /\ wd.pc # "idle"
  /\ Spend("crashes", MaxCrashes)
  /\ wd' = IdleWatchdog
  /\ UNCHANGED <<row, job, prod, wk, wire, effects, present, clr>>

------------------------------------------------------------------------------
(***************************************************************************)
(* Retiring BAN rows of a member who is present, under the sanction lock.  *)
(***************************************************************************)

\* The member comes back, by an administrator or on his own; external.
MemberReturns ==
  /\ ~present
  /\ present' = TRUE
  /\ UNCHANGED <<row, job, prod, wk, wire, effects, wd, clr, used>>

\* The caller reads that the member is present.  prepareManualBanFanoutTarget
\* (guarded) remembers when; the manual unban does not.
ProbePresence(guarded) ==
  /\ clr.pc = "idle"
  /\ present
  /\ Spend("clears", MaxClears)
  /\ clr' = [pc |-> "seen", guarded |-> guarded, later |-> {}, banned |-> {}]
  /\ UNCHANGED <<row, job, prod, wk, wire, effects, present, wd>>

\* Fault variant: the time of the presence read is not passed on.
RetiredWhenever(k) == k \in Bans /\ Retirable(row[k])

\* completedBefore: only confirmed successes older than the presence read.
Retired(k) ==
  /\ k \in Bans
  /\ Retirable(row[k])
  /\ clr.guarded => row[k].status = "SUCCEEDED" /\ k \notin clr.later

\* clearTerminalBanStateAfterUnban; the lease may be lost before it.
ClearTerminalBanState ==
  /\ clr.pc = "seen"
  /\ \/ /\ row' = [k \in Keys |-> IF Retired(k) THEN AbsentRow ELSE row[k]]
        /\ effects' = [k \in Keys |-> IF Retired(k) THEN 0 ELSE effects[k]]
        /\ wd' = [wd EXCEPT !.fresh = @ /\ ~Retired(wd.key)]
     \/ UNCHANGED <<row, effects, wd>>
  /\ clr' = IdleClear
  /\ UNCHANGED <<job, prod, wk, wire, present, used>>

------------------------------------------------------------------------------
Producer ==
  \/ \E k \in Keys : AssertCanEnqueue(k)
  \/ RemoveRetainedFailedJob \/ AddActionJob \/ ObserveFailedAdd
  \/ RetryAddActionJob \/ RecordEnqueueOutcome \/ ProducerFails

Executes(w) ==
  \/ FailBeforeStart(w) \/ RecordStarted(w) \/ RefuseBeforeRequest(w)
  \/ SendRequest(w) \/ GiveUp(w) \/ NextCandidate(w) \/ RecordSucceeded(w)
  \/ RecordFailed(w) \/ SettleJob(w)

Watchdog ==
  \/ \E k \in Keys : WatchdogRead(k)
  \/ WatchdogObserve \/ WatchdogDefers \/ WatchdogRequeues \/ WatchdogBooks
  \/ WatchdogApplies \/ WatchdogDies

Next ==
  \/ Producer
  \/ \E w \in Workers, k \in Keys : TakeJob(w, k) \/ StartImmediate(w, k)
  \/ \E w \in Workers : Executes(w) \/ Crash(w)
  \/ \E e \in wire : MaxApplies(e[1], e[2]) \/ MaxRejects(e[1], e[2])
  \/ \E k \in Keys : StallJob(k) \/ ExpireFailedJob(k)
  \/ Watchdog
  \/ MemberReturns \/ (\E g \in BOOLEAN : ProbePresence(g))
  \/ ClearTerminalBanState

Spec == Init /\ [][Next]_vars

(***************************************************************************)
(* Fairness: a worker that runs goes on, an idle one takes waiting jobs,   *)
(* BullMQ finds the jobs of dead workers, and the watchdog scans all stale *)
(* rows in turn.  It is strong for the outcome of the watchdog because an  *)
(* active job is deferred only while it became active after the moving     *)
(* cutoff.  MAX need not answer: a request times out.                      *)
(***************************************************************************)
Fairness ==
  /\ \A w \in Workers : WF_vars(Executes(w))
  /\ \A w \in Workers : WF_vars(\E k \in Keys : TakeJob(w, k))
  /\ \A k \in Keys : WF_vars(StallJob(k)) /\ SF_vars(WatchdogRead(k))
  /\ WF_vars(WatchdogObserve) /\ WF_vars(WatchdogDefers)
  /\ WF_vars(WatchdogRequeues) /\ WF_vars(WatchdogBooks)
  /\ SF_vars(WatchdogApplies)

FairSpec == Spec /\ Fairness

------------------------------------------------------------------------------
(***************************************************************************)
(* Properties.                                                             *)
(***************************************************************************)

\* The executions past their start, and the requests nobody waits for.
Engaged == wire \cup {<<wk[w].key, w>> : w \in {v \in Workers :
                        wk[v].pc \in {"ready", "sent", "succeeding", "failing"}}}

\* recordStarted is a mutual exclusion over all keys, bots and processes of the
\* member: nobody is past a start while another execution is, nor while the
\* request of an execution that timed out or died may still take effect.
MemberExclusion == \A e, f \in Engaged : e = f

\* Once a BAN is recorded as confirmed, no other BAN or KICK of the member runs.
BanIsFinal ==
  \A e \in Engaged :
    e[1] \notin Unbans =>
      \A o \in Bans \ {e[1]} : row[o].status # "SUCCEEDED"

\* No retry, redelivery, failover or requeue applies a key twice, as long as
\* its row is not retired.
AppliedOnce == \A k \in Keys : effects[k] <= 1

\* A settled row tells the truth about MAX, although it is written by workers,
\* late upserts and the watchdog: SUCCEEDED was applied; a row that may be
\* started again, or counts as failed, was not and never will be.
OutcomeTruthful ==
  \A k \in Keys :
    /\ row[k].status = "SUCCEEDED" => effects[k] = 1
    /\ row[k].status \in {"ENQUEUED", "FAILED_RETRYABLE", "FAILED_TERMINAL"} =>
         effects[k] = 0 /\ \A e \in wire : e[1] # k

\* The fan-out retires only BANs older than its presence read: "a concurrent
\* newer BAN must retain its fence".
FanoutKeepsNewerBans ==
  [][\A k \in Bans : clr.guarded /\ Exists(row[k]) /\ ~Exists(row'[k]) =>
       k \notin clr.banned]_vars

\* Every row settles, whatever crashes, stalls and lost statements left behind,
\* once the guards and circuits stop refusing; only a BAN or KICK whose last
\* attempt a guard certified as never sent may wait for its caller.
AwaitsCaller(k) ==
  k \notin Unbans /\ row[k].status = "FAILED_RETRYABLE" /\ row[k].code = "guard"
MemberRowsSettle ==
  \A k \in Keys :
    Exists(row[k]) /\ ~row[k].terminal ~>
      ~Exists(row[k]) \/ row[k].terminal \/ AwaitsCaller(k)
==============================================================================
