------------------------ MODULE MaxMemberActionProofs ------------------------
(***************************************************************************)
(* Proofs about MaxMemberAction: for any sets of keys, workers and bots    *)
(* and any values of the bounds.                                           *)
(***************************************************************************)
EXTENDS MaxMemberAction, TLAPS

(***************************************************************************)
(* Types.                                                                  *)
(***************************************************************************)

LEMMA FieldTypes ==
  ASSUME NEW r \in MemberRows, NEW s \in Statuses, NEW a \in BOOLEAN,
         NEW t \in BOOLEAN, NEW h \in MemberHttp, NEW c \in MemberCodes
  PROVE  /\ [r EXCEPT !.status = s, !.ambiguous = a, !.terminal = t,
                       !.http = h, !.code = c] \in MemberRows
         /\ [r EXCEPT !.status = s, !.ambiguous = a, !.terminal = t,
                       !.code = c] \in MemberRows
         /\ [r EXCEPT !.status = s, !.code = c] \in MemberRows
         /\ [r EXCEPT !.status = s, !.ambiguous = a, !.terminal = t,
                       !.attempted = TRUE] \in MemberRows
<1> USE DEF MemberRows
<1>1. [r EXCEPT !.status = s, !.ambiguous = a, !.terminal = t,
                !.http = h, !.code = c] \in MemberRows
  OBVIOUS
<1>2. [r EXCEPT !.status = s, !.ambiguous = a, !.terminal = t,
                !.code = c] \in MemberRows
  OBVIOUS
<1>3. [r EXCEPT !.status = s, !.code = c] \in MemberRows
  OBVIOUS
<1>4. [r EXCEPT !.status = s, !.ambiguous = a, !.terminal = t,
                !.attempted = TRUE] \in MemberRows
  OBVIOUS
<1>5. QED
  BY <1>1, <1>2, <1>3, <1>4

LEMMA RowTypes ==
  ASSUME NEW r \in MemberRows
  PROVE  /\ AbsentRow \in MemberRows
         /\ EnqueuedSet(r) \in MemberRows
         /\ StartedSet(r) \in MemberRows
         /\ SucceededSet(r) \in MemberRows
         /\ RecordEnqueuedIfAbsent(r) \in MemberRows
         /\ RecordEnqueueFailedIfAbsent(r) \in MemberRows
         /\ WatchdogRow(r) \in MemberRows
<1>0. TRUE \in BOOLEAN /\ FALSE \in BOOLEAN
      /\ "none" \in MemberHttp /\ {"none", "other", "non_retryable"} \subseteq MemberCodes
      /\ {"ENQUEUED", "IN_PROGRESS", "SUCCEEDED", "FAILED_RETRYABLE",
          "FAILED_TERMINAL", "AMBIGUOUS"} \subseteq Statuses
  BY DEF Statuses, MemberHttp, MemberCodes, RetryCodes
<1>1. AbsentRow \in MemberRows
  BY DEF MemberRows, AbsentRow, Statuses, MemberHttp, MemberCodes
<1>2. EnqueuedSet(r) \in MemberRows
  BY <1>0, FieldTypes DEF EnqueuedSet
<1>3. StartedSet(r) \in MemberRows
  BY <1>0, FieldTypes DEF StartedSet
<1>4. SucceededSet(r) \in MemberRows
  BY <1>0, FieldTypes DEF SucceededSet
<1>5. RecordEnqueuedIfAbsent(r) \in MemberRows
  BY <1>2 DEF RecordEnqueuedIfAbsent
<1>6. RecordEnqueueFailedIfAbsent(r) \in MemberRows
  <2>1. [r EXCEPT !.status = "FAILED_RETRYABLE", !.code = "other"] \in MemberRows
    BY <1>0, FieldTypes
  <2>2. QED
    BY <2>1 DEF RecordEnqueueFailedIfAbsent
<1>7. WatchdogRow(r) \in MemberRows
  <2> DEFINE settles == NonRetryable(wd.snap) \/ Requeues \/ ~MayHaveStarted
             s == IF settles THEN "FAILED_TERMINAL" ELSE "AMBIGUOUS"
             a == ~settles
             c == IF NonRetryable(wd.snap) THEN "non_retryable" ELSE "other"
  <2>1. s \in Statuses /\ a \in BOOLEAN /\ c \in MemberCodes
    BY <1>0
  <2>2. WatchdogRow(r) =
          [r EXCEPT !.status = s, !.ambiguous = a, !.terminal = TRUE, !.code = c]
    BY DEF WatchdogRow
  <2> HIDE DEF settles, s, a, c
  <2>3. [r EXCEPT !.status = s, !.ambiguous = a, !.terminal = TRUE, !.code = c]
          \in MemberRows
    BY <1>0, <2>1, FieldTypes
  <2>4. QED
    BY <2>2, <2>3
<1>8. QED
  BY <1>1, <1>2, <1>3, <1>4, <1>5, <1>6, <1>7

LEMMA FailedRowType ==
  ASSUME NEW r \in MemberRows, NEW e, NEW exhausted \in BOOLEAN
  PROVE  FailedRow(r, e, exhausted) \in MemberRows
<1> DEFINE s == IF EffectUnknown(e) THEN "AMBIGUOUS"
                ELSE IF Unrecovered(e) \/ e = "missing" THEN "FAILED_TERMINAL"
                ELSE "FAILED_RETRYABLE"
           t == EffectUnknown(e) \/ Unrecovered(e) \/ e = "missing" \/ exhausted
           h == IF e \in {"rejected", "denied"} THEN "denied"
                ELSE IF e \in {"missing", "guard404"} THEN "missing"
                ELSE IF e \in {"limited", "other", "server"} THEN "other"
                ELSE "none"
           c == IF e \in {"guard", "guard404", "guardFinal"} THEN "guard"
                ELSE IF e \in {"circuit", "limited"} THEN e ELSE "other"
<1>1. s \in Statuses
  BY DEF Statuses
<1>2. EffectUnknown(e) \in BOOLEAN /\ t \in BOOLEAN
  BY DEF EffectUnknown, Unrecovered
<1>3. h \in MemberHttp
  BY DEF MemberHttp
<1>4. c \in MemberCodes
  BY DEF MemberCodes, RetryCodes
<1>5. FailedRow(r, e, exhausted) =
        [r EXCEPT !.status = s, !.ambiguous = EffectUnknown(e), !.terminal = t,
                  !.http = h, !.code = c]
  BY DEF FailedRow
<1> HIDE DEF s, t, h, c
<1>6. [r EXCEPT !.status = s, !.ambiguous = EffectUnknown(e), !.terminal = t,
                !.http = h, !.code = c] \in MemberRows
  BY <1>1, <1>2, <1>3, <1>4, FieldTypes
<1>7. QED
  BY <1>5, <1>6

LEMMA JobTypes ==
  /\ NoJob \in Jobs
  /\ \A j \in Jobs, s \in JobStates, o \in Workers \cup {NoOwner} :
       /\ [j EXCEPT !.state = s] \in Jobs
       /\ [j EXCEPT !.state = s, !.owner = o] \in Jobs
       /\ j.stalls < MaxStalls =>
            [j EXCEPT !.state = s, !.owner = o, !.stalls = @ + 1] \in Jobs
       /\ j.made < MaxAttempts =>
            [j EXCEPT !.state = s, !.owner = o, !.made = @ + 1] \in Jobs
  /\ \A n \in 0..MaxAttempts, a \in BOOLEAN, s \in JobStates :
       /\ [NoJob EXCEPT !.state = s, !.made = n, !.ambiguous = a] \in Jobs
       /\ [NoJob EXCEPT !.state = s, !.made = n] \in Jobs
<1> USE MemberBounds DEF Jobs
<1>1. NoJob \in Jobs
  BY DEF NoJob, JobStates
<1>2. ASSUME NEW j \in Jobs, NEW s \in JobStates, NEW o \in Workers \cup {NoOwner}
      PROVE  /\ [j EXCEPT !.state = s] \in Jobs
             /\ [j EXCEPT !.state = s, !.owner = o] \in Jobs
             /\ j.stalls < MaxStalls =>
                  [j EXCEPT !.state = s, !.owner = o, !.stalls = @ + 1] \in Jobs
             /\ j.made < MaxAttempts =>
                  [j EXCEPT !.state = s, !.owner = o, !.made = @ + 1] \in Jobs
  <2>1. [j EXCEPT !.state = s] \in Jobs
    OBVIOUS
  <2>2. [j EXCEPT !.state = s, !.owner = o] \in Jobs
    OBVIOUS
  <2>3. ASSUME j.stalls < MaxStalls
        PROVE  [j EXCEPT !.state = s, !.owner = o, !.stalls = @ + 1] \in Jobs
    <3>1. j.stalls + 1 \in 0..MaxStalls
      BY <2>3
    <3>2. QED
      BY <3>1
  <2>4. ASSUME j.made < MaxAttempts
        PROVE  [j EXCEPT !.state = s, !.owner = o, !.made = @ + 1] \in Jobs
    <3>1. j.made + 1 \in 0..MaxAttempts
      BY <2>4
    <3>2. QED
      BY <3>1
  <2>5. QED
    BY <2>1, <2>2, <2>3, <2>4
<1>3. ASSUME NEW n \in 0..MaxAttempts, NEW a \in BOOLEAN, NEW s \in JobStates
      PROVE  /\ [NoJob EXCEPT !.state = s, !.made = n, !.ambiguous = a] \in Jobs
             /\ [NoJob EXCEPT !.state = s, !.made = n] \in Jobs
  BY <1>1
<1>4. QED
  BY <1>1, <1>2, <1>3

LEMMA WorkerTypes ==
  ASSUME wk \in [Workers -> WorkerStates], NEW w \in Workers
  PROVE  /\ IdleWorker \in WorkerStates
         /\ \A x \in WorkerStates : [wk EXCEPT ![w] = x] \in [Workers -> WorkerStates]
         /\ \A k \in Keys, f \in BOOLEAN :
              /\ [IdleWorker EXCEPT !.pc = "start", !.key = k, !.queued = TRUE,
                                    !.final = f] \in WorkerStates
              /\ [IdleWorker EXCEPT !.pc = "start", !.key = k] \in WorkerStates
         /\ \A p \in WorkerPcs, e \in Failures \cup {"none"} :
              /\ Goto(w, p) => wk' \in [Workers -> WorkerStates]
              /\ Ends(w, p, e) => wk' \in [Workers -> WorkerStates]
         /\ \A e \in Failures :
              /\ Throw(w, e) => wk' \in [Workers -> WorkerStates]
              /\ Rethrow(w, e) => wk' \in [Workers -> WorkerStates]
         /\ Return(w) => wk' \in [Workers -> WorkerStates]
<1> USE DEF WorkerStates
<1>1. IdleWorker \in WorkerStates
  BY DEF IdleWorker, WorkerPcs
<1>2. \A x \in WorkerStates : [wk EXCEPT ![w] = x] \in [Workers -> WorkerStates]
  OBVIOUS
<1>3. ASSUME NEW k \in Keys, NEW f \in BOOLEAN
      PROVE  /\ [IdleWorker EXCEPT !.pc = "start", !.key = k, !.queued = TRUE,
                                   !.final = f] \in WorkerStates
             /\ [IdleWorker EXCEPT !.pc = "start", !.key = k] \in WorkerStates
  BY <1>1 DEF WorkerPcs
<1>4. ASSUME NEW p \in WorkerPcs, NEW e \in Failures \cup {"none"}
      PROVE  /\ [wk[w] EXCEPT !.pc = p] \in WorkerStates
             /\ [wk[w] EXCEPT !.pc = p, !.out = e] \in WorkerStates
             /\ [IdleWorker EXCEPT !.pc = p, !.key = wk[w].key, !.queued = TRUE,
                                   !.out = e] \in WorkerStates
  BY <1>1
<1>5. ASSUME NEW p \in WorkerPcs, NEW e \in Failures \cup {"none"}
      PROVE  /\ Goto(w, p) => wk' \in [Workers -> WorkerStates]
             /\ Ends(w, p, e) => wk' \in [Workers -> WorkerStates]
  <2>1. CASE Goto(w, p)
    BY <1>2, <1>4, <2>1 DEF Goto
  <2>2. CASE Ends(w, p, e) /\ ~wk[w].queued
    BY <1>1, <1>2, <2>2 DEF Ends
  <2>3. CASE Ends(w, p, e) /\ wk[w].queued
    BY <1>2, <1>4, <2>3 DEF Ends
  <2>4. QED
    BY <2>1, <2>2, <2>3
<1>6. ASSUME NEW e \in Failures, Throw(w, e)
      PROVE  wk' \in [Workers -> WorkerStates]
  <2> DEFINE o == IF e = "circuit" /\ wk[w].out = "denied" THEN wk[w].out ELSE e
  <2>1. o \in Failures \cup {"none"} /\ "failing" \in WorkerPcs
    BY DEF WorkerPcs
  <2>2. wk' = [wk EXCEPT ![w] = [wk[w] EXCEPT !.pc = "failing", !.out = o]]
    BY <1>6 DEF Throw
  <2> HIDE DEF o
  <2>3. QED
    BY <1>2, <1>4, <2>1, <2>2
<1>7. ASSUME NEW e \in Failures, Rethrow(w, e)
      PROVE  wk' \in [Workers -> WorkerStates]
  <2>1. ErrorKind(e) \in Failures /\ "settling" \in WorkerPcs
    BY DEF ErrorKind, Failures, WorkerPcs
  <2>2. QED
    BY <1>5, <1>7, <2>1 DEF Rethrow
<1>8. Return(w) => wk' \in [Workers -> WorkerStates]
  <2>1. "done" \in WorkerPcs
    BY DEF WorkerPcs
  <2>2. QED
    BY <1>5, <2>1 DEF Return
<1> HIDE DEF WorkerStates
<1>9. QED
  BY <1>1, <1>2, <1>3, <1>5, <1>6, <1>7, <1>8

LEMMA BoundTypes ==
  ASSUME TypeOK
  PROVE  /\ Spend("enqueues", MaxEnqueues) \/ Spend("immediates", MaxImmediates)
            \/ Spend("outages", MaxOutages) \/ Spend("crashes", MaxCrashes)
            \/ Spend("clears", MaxClears) \/ UNCHANGED used
              => used' \in [enqueues : Nat, immediates : Nat, outages : Nat,
                            crashes : Nat, clears : Nat]
         /\ \A e : SpendOutage(e)
              => used' \in [enqueues : Nat, immediates : Nat, outages : Nat,
                            crashes : Nat, clears : Nat]
  BY DEF TypeOK, Spend, SpendOutage

LEMMA WriteTypes ==
  ASSUME TypeOK, NEW k \in Keys, NEW r \in MemberRows, Write(k, r) \/ KeepRow
  PROVE  /\ row' \in [Keys -> MemberRows]
         /\ wd' \in [pc : {"idle", "read", "decide", "requeued"},
                     key : Keys \cup {NoKey}, snap : MemberRows, obs : JobStates,
                     fresh : BOOLEAN]
<1>1. row' \in [Keys -> MemberRows]
  BY DEF TypeOK, Write, KeepRow
<1>2. wd' \in [pc : {"idle", "read", "decide", "requeued"},
               key : Keys \cup {NoKey}, snap : MemberRows, obs : JobStates,
               fresh : BOOLEAN]
  <2> DEFINE f == wd.fresh /\ wd.key # k
  <2>1. f \in BOOLEAN
    OBVIOUS
  <2>2. wd' = [wd EXCEPT !.fresh = f] \/ wd' = wd
    BY DEF Write, KeepRow
  <2> HIDE DEF f
  <2>3. QED
    BY <2>1, <2>2 DEF TypeOK
<1>3. QED
  BY <1>1, <1>2

LEMMA InitType == Init => TypeOK
<1> SUFFICES ASSUME Init PROVE TypeOK
  OBVIOUS
<1>1. AbsentRow \in MemberRows
  BY DEF AbsentRow, MemberRows, Statuses, MemberHttp, MemberCodes
<1>2. IdleWorker \in WorkerStates
  BY DEF IdleWorker, WorkerStates, WorkerPcs
<1>3. QED
  BY <1>1, <1>2, JobTypes DEF Init, TypeOK, IdleProducer, IdleWatchdog, IdleClear,
     ProducerPcs, JobStates

\* A producer that runs has a key.
ProducerHasKey == prod.pc # "idle" => prod.key \in Keys

LEMMA ProducerType ==
  ASSUME TypeOK, ProducerHasKey, Producer
  PROVE  TypeOK' /\ ProducerHasKey'
<1> USE DEF TypeOK, ProducerHasKey, ProducerPcs, IdleProducer, ProducerGoto
<1>1. ASSUME NEW k \in Keys, AssertCanEnqueue(k) PROVE TypeOK' /\ ProducerHasKey'
  BY <1>1, BoundTypes DEF AssertCanEnqueue, KeepRow
<1>2. CASE RemoveRetainedFailedJob
  <2>1. job' \in [Keys -> Jobs]
    BY <1>2, JobTypes DEF RemoveRetainedFailedJob
  <2>2. QED
    BY <1>2, <2>1 DEF RemoveRetainedFailedJob, KeepRow
<1>3. ASSUME NEW k, QueueAdd(k) PROVE job' \in [Keys -> Jobs]
  <2>1. [NoJob EXCEPT !.state = "waiting"] \in Jobs
    BY JobTypes DEF JobStates
  <2>2. QED
    BY <1>3, <2>1 DEF QueueAdd
<1>4. CASE AddActionJob
  BY <1>3, <1>4 DEF AddActionJob, KeepRow
<1>5. CASE ObserveFailedAdd
  BY <1>5 DEF ObserveFailedAdd, KeepRow
<1>6. CASE RetryAddActionJob
  BY <1>3, <1>6 DEF RetryAddActionJob, KeepRow
<1>7. CASE RecordEnqueueOutcome
  <2> DEFINE r == IF prod.pc = "enqueued" THEN RecordEnqueuedIfAbsent(row[prod.key])
                  ELSE RecordEnqueueFailedIfAbsent(row[prod.key])
  <2>1. prod.key \in Keys /\ row[prod.key] \in MemberRows
    BY <1>7 DEF RecordEnqueueOutcome
  <2>2. r \in MemberRows
    BY <2>1, RowTypes
  <2>3. Write(prod.key, r) \/ KeepRow
    BY <1>7 DEF RecordEnqueueOutcome
  <2> HIDE DEF r
  <2>4. /\ row' \in [Keys -> MemberRows]
        /\ wd' \in [pc : {"idle", "read", "decide", "requeued"},
                    key : Keys \cup {NoKey}, snap : MemberRows, obs : JobStates,
                    fresh : BOOLEAN]
    BY <2>1, <2>2, <2>3, WriteTypes
  <2>5. QED
    BY <1>7, <2>4 DEF RecordEnqueueOutcome
<1>8. CASE ProducerFails
  BY <1>8, BoundTypes DEF ProducerFails, KeepRow
<1>9. QED
  BY <1>1, <1>2, <1>4, <1>5, <1>6, <1>7, <1>8 DEF Producer

\* A worker that runs has a key.
WorkerHasKey == \A w \in Workers : wk[w].pc # "idle" => wk[w].key \in Keys

LEMMA ThrowType ==
  ASSUME wk \in [Workers -> WorkerStates], NEW w \in Workers,
         \E e \in Failures : Throw(w, e) \/ Rethrow(w, e)
  PROVE  wk' \in [Workers -> WorkerStates]
<1>1. PICK e \in Failures : Throw(w, e) \/ Rethrow(w, e)
  OBVIOUS
<1>2. QED
  BY <1>1, WorkerTypes

\* A worker tries one more bot.
LEMMA CandidateType ==
  ASSUME wk \in [Workers -> WorkerStates], NEW w \in Workers, NEW b \in Bots,
         NEW o \in Failures \cup {"none"}
  PROVE  /\ [wk EXCEPT ![w] = [wk[w] EXCEPT !.pc = "ready", !.tried = {b}]]
               \in [Workers -> WorkerStates]
         /\ [wk EXCEPT ![w] = [wk[w] EXCEPT !.pc = "ready", !.tried = @ \cup {b},
                                            !.out = o]]
               \in [Workers -> WorkerStates]
<1>1. wk[w].tried \cup {b} \in SUBSET Bots /\ {b} \in SUBSET Bots
      /\ "ready" \in WorkerPcs
  BY DEF WorkerStates, WorkerPcs
<1>2. [wk[w] EXCEPT !.pc = "ready", !.tried = {b}] \in WorkerStates
  BY <1>1 DEF WorkerStates
<1>3. [wk[w] EXCEPT !.pc = "ready", !.tried = @ \cup {b}, !.out = o] \in WorkerStates
  BY <1>1 DEF WorkerStates
<1>4. QED
  BY <1>2, <1>3

LEMMA ExecutionType ==
  ASSUME TypeOK, WorkerHasKey, NEW w \in Workers, Executes(w)
  PROVE  TypeOK'
<1> USE DEF TypeOK
<1>0. /\ wk \in [Workers -> WorkerStates]
      /\ wk[w].pc # "idle" => wk[w].key \in Keys /\ row[wk[w].key] \in MemberRows
  BY DEF WorkerHasKey
<1>1. CASE FailBeforeStart(w)
  <2>0. \E e \in Failures : Throw(w, e) \/ Rethrow(w, e)
    BY <1>1 DEF FailBeforeStart, Failures
  <2>1. wk' \in [Workers -> WorkerStates]
    BY <1>0, <2>0, ThrowType
  <2>2. QED
    BY <1>1, <2>1 DEF FailBeforeStart, KeepRow
<1>2. CASE RecordStarted(w)
  <2>1. wk[w].key \in Keys /\ StartedSet(row[wk[w].key]) \in MemberRows
    BY <1>0, <1>2, RowTypes DEF RecordStarted, At
  <2>2. Write(wk[w].key, StartedSet(row[wk[w].key])) \/ KeepRow
    BY <1>2 DEF RecordStarted
  <2>3. /\ row' \in [Keys -> MemberRows]
        /\ wd' \in [pc : {"idle", "read", "decide", "requeued"},
                    key : Keys \cup {NoKey}, snap : MemberRows, obs : JobStates,
                    fresh : BOOLEAN]
    BY <2>1, <2>2, WriteTypes
  <2>4. ASSUME NEW b \in Bots,
               wk' = [wk EXCEPT ![w] = [wk[w] EXCEPT !.pc = "ready", !.tried = {b}]]
        PROVE  wk' \in [Workers -> WorkerStates]
    <3>1. "none" \in Failures \cup {"none"}
      OBVIOUS
    <3>2. QED
      BY <1>0, <2>4, <3>1, CandidateType
  <2>5. ASSUME \E e \in Failures : Throw(w, e) \/ Rethrow(w, e)
        PROVE  wk' \in [Workers -> WorkerStates]
    BY <1>0, <2>5, ThrowType
  <2>6. wk' \in [Workers -> WorkerStates]
    BY <1>2, <2>4, <2>5 DEF RecordStarted, Failures
  <2>7. QED
    BY <1>2, <2>3, <2>6 DEF RecordStarted
<1>3. CASE RefuseBeforeRequest(w)
  <2>0. \E e \in Failures : Throw(w, e) \/ Rethrow(w, e)
    BY <1>3 DEF RefuseBeforeRequest, Failures
  <2>1. wk' \in [Workers -> WorkerStates]
    BY <1>0, <2>0, ThrowType
  <2>2. QED
    BY <1>3, <2>1, BoundTypes DEF RefuseBeforeRequest, KeepRow
<1>4. CASE SendRequest(w)
  <2>1. wk' \in [Workers -> WorkerStates]
    BY <1>0, <1>4, WorkerTypes DEF SendRequest, WorkerPcs
  <2>2. QED
    BY <1>0, <1>4, <2>1 DEF SendRequest, KeepRow, At
<1>5. CASE GiveUp(w)
  <2>0. \E e \in Failures : Throw(w, e) \/ Rethrow(w, e)
    BY <1>5 DEF GiveUp, Failures
  <2>1. wk' \in [Workers -> WorkerStates]
    BY <1>0, <2>0, ThrowType
  <2>2. QED
    BY <1>5, <2>1 DEF GiveUp, KeepRow
<1>6. CASE NextCandidate(w)
  <2> DEFINE o == IF wk[w].out = "denied" THEN wk[w].out ELSE "none"
  <2>1. o \in Failures \cup {"none"}
    BY <1>0 DEF WorkerStates
  <2>2. PICK b \in Bots :
          wk' = [wk EXCEPT ![w] = [wk[w] EXCEPT !.pc = "ready", !.tried = @ \cup {b},
                                               !.out = o]]
    BY <1>6 DEF NextCandidate
  <2> HIDE DEF o
  <2>3. wk' \in [Workers -> WorkerStates]
    BY <1>0, <2>1, <2>2, CandidateType
  <2>4. QED
    BY <1>6, <2>3 DEF NextCandidate, KeepRow
<1>7. CASE RecordSucceeded(w)
  <2>1. wk[w].key \in Keys /\ SucceededSet(row[wk[w].key]) \in MemberRows
    BY <1>0, <1>7, RowTypes DEF RecordSucceeded, At
  <2>2. Write(wk[w].key, SucceededSet(row[wk[w].key])) \/ KeepRow
    BY <1>7 DEF RecordSucceeded
  <2>3. /\ row' \in [Keys -> MemberRows]
        /\ wd' \in [pc : {"idle", "read", "decide", "requeued"},
                    key : Keys \cup {NoKey}, snap : MemberRows, obs : JobStates,
                    fresh : BOOLEAN]
    BY <2>1, <2>2, WriteTypes
  <2>4. wk' \in [Workers -> WorkerStates]
    BY <1>0, <1>7, WorkerTypes DEF RecordSucceeded
  <2>5. clr' \in [pc : {"idle", "seen"}, guarded : BOOLEAN, later : SUBSET Keys,
                 banned : SUBSET Keys]
    BY <1>7, <2>1 DEF RecordSucceeded
  <2>6. QED
    BY <1>7, <2>3, <2>4, <2>5 DEF RecordSucceeded
<1>8. CASE RecordFailed(w)
  <2>1. wk[w].key \in Keys /\ row[wk[w].key] \in MemberRows
        /\ wk[w].out \in Failures \cup {"none"} /\ wk[w].final \in BOOLEAN
    BY <1>0, <1>8 DEF RecordFailed, At, WorkerStates
  <2>2. \/ KeepRow
        \/ \E x \in BOOLEAN : Write(wk[w].key, FailedRow(row[wk[w].key], wk[w].out, x))
    BY <1>8, <2>1 DEF RecordFailed
  <2>3. /\ row' \in [Keys -> MemberRows]
        /\ wd' \in [pc : {"idle", "read", "decide", "requeued"},
                    key : Keys \cup {NoKey}, snap : MemberRows, obs : JobStates,
                    fresh : BOOLEAN]
    <3>1. \A x \in BOOLEAN : FailedRow(row[wk[w].key], wk[w].out, x) \in MemberRows
      BY <2>1, FailedRowType
    <3>2. QED
      BY <2>1, <2>2, <3>1, WriteTypes
  <2>4. wk' \in [Workers -> WorkerStates]
    <3>1. ErrorKind(wk[w].out) \in Failures \cup {"none"} /\ "settling" \in WorkerPcs
      BY DEF ErrorKind, Failures, WorkerPcs
    <3>2. Ends(w, "settling", ErrorKind(wk[w].out))
      BY <1>8 DEF RecordFailed, Rethrow
    <3>3. QED
      BY <1>0, <3>1, <3>2, WorkerTypes
  <2>5. QED
    BY <1>8, <2>3, <2>4 DEF RecordFailed
<1>9. CASE SettleJob(w)
  <2>1. wk' \in [Workers -> WorkerStates]
    BY <1>0, <1>9, WorkerTypes DEF SettleJob
  <2>2. wk[w].key \in Keys /\ job[wk[w].key] \in Jobs
    BY <1>0, <1>9 DEF SettleJob
  <2> DEFINE j == job[wk[w].key]
  <2>3. \/ job' = job
        \/ job' = [job EXCEPT ![wk[w].key] = NoJob]
        \/ job' = [job EXCEPT ![wk[w].key] =
                    [NoJob EXCEPT !.state = "failed", !.made = MaxAttempts,
                                  !.ambiguous = (wk[w].out = "ambiguous")]]
        \/ /\ ~(j.made + 1 >= MaxAttempts)
           /\ job' = [job EXCEPT ![wk[w].key] =
                      [j EXCEPT !.state = "waiting", !.owner = NoOwner, !.made = @ + 1]]
    BY <1>9 DEF SettleJob
  <2>4. [NoJob EXCEPT !.state = "failed", !.made = MaxAttempts,
                      !.ambiguous = (wk[w].out = "ambiguous")] \in Jobs
    <3>1. /\ MaxAttempts \in 0..MaxAttempts
          /\ (wk[w].out = "ambiguous") \in BOOLEAN
          /\ "failed" \in JobStates
      BY MemberBounds DEF JobStates
    <3>2. QED
      BY <3>1, JobTypes
  <2>5. j.made \in Nat /\ MaxAttempts \in Nat
    BY <2>2, MemberBounds DEF Jobs
  <2>6. ~(j.made + 1 >= MaxAttempts) => j.made < MaxAttempts
    BY <2>5
  <2>7. ~(j.made + 1 >= MaxAttempts) =>
          [j EXCEPT !.state = "waiting", !.owner = NoOwner, !.made = @ + 1] \in Jobs
    BY <2>2, <2>6, JobTypes DEF JobStates
  <2> HIDE DEF j
  <2>8. job' \in [Keys -> Jobs]
    BY <2>2, <2>3, <2>4, <2>7, JobTypes
  <2>9. QED
    BY <1>9, <2>1, <2>8 DEF SettleJob, KeepRow
<1>10. QED
  BY <1>1, <1>2, <1>3, <1>4, <1>5, <1>6, <1>7, <1>8, <1>9 DEF Executes

\* So has a watchdog that runs.
WatchdogHasKey == wd.pc # "idle" => wd.key \in Keys

LEMMA NextType ==
  ASSUME TypeOK, ProducerHasKey, WorkerHasKey, WatchdogHasKey, Next
  PROVE  TypeOK'
<1> USE DEF TypeOK
<1>1. CASE Producer
  BY <1>1, ProducerType
<1>2. ASSUME NEW w \in Workers, NEW k \in Keys, TakeJob(w, k)
      PROVE  TypeOK'
  <2>1. [job[k] EXCEPT !.state = "active", !.owner = w] \in Jobs
    BY JobTypes DEF JobStates
  <2>2. job' = [job EXCEPT ![k] = [job[k] EXCEPT !.state = "active", !.owner = w]]
    BY <1>2 DEF TakeJob
  <2>3. job' \in [Keys -> Jobs]
    BY <2>1, <2>2
  <2> DEFINE f == (job[k].made + 1 >= MaxAttempts)
  <2>4. f \in BOOLEAN
    OBVIOUS
  <2>5. wk' = [wk EXCEPT ![w] = [IdleWorker EXCEPT !.pc = "start", !.key = k,
                                   !.queued = TRUE, !.final = f]]
    BY <1>2 DEF TakeJob
  <2> HIDE DEF f
  <2>6. [IdleWorker EXCEPT !.pc = "start", !.key = k, !.queued = TRUE, !.final = f]
          \in WorkerStates
    BY <2>4, WorkerTypes
  <2>7. wk' \in [Workers -> WorkerStates]
    BY <2>5, <2>6
  <2>8. QED
    BY <1>2, <2>3, <2>7 DEF TakeJob, KeepRow
<1>3. ASSUME NEW w \in Workers, NEW k \in Keys, StartImmediate(w, k)
      PROVE  TypeOK'
  <2>1. wk' \in [Workers -> WorkerStates]
    BY <1>3, WorkerTypes DEF StartImmediate
  <2>2. QED
    BY <1>3, <2>1, BoundTypes DEF StartImmediate, KeepRow
<1>4. ASSUME NEW w \in Workers, Executes(w)
      PROVE  TypeOK'
  BY <1>4, ExecutionType
<1>5. ASSUME NEW w \in Workers, Crash(w)
      PROVE  TypeOK'
  <2>1. wk' \in [Workers -> WorkerStates]
    BY <1>5, WorkerTypes DEF Crash
  <2>2. QED
    BY <1>5, <2>1, BoundTypes DEF Crash, KeepRow
<1>6. ASSUME NEW k \in Keys, NEW w \in Workers, MaxApplies(k, w)
      PROVE  TypeOK'
  <2>1. wk' \in [Workers -> WorkerStates]
    BY <1>6, WorkerTypes DEF MaxApplies, WorkerPcs
  <2>2. effects' \in [Keys -> Nat]
    BY <1>6 DEF MaxApplies
  <2>3. clr' \in [pc : {"idle", "seen"}, guarded : BOOLEAN, later : SUBSET Keys,
                 banned : SUBSET Keys]
    BY <1>6 DEF MaxApplies
  <2>4. present' \in BOOLEAN
    BY <1>6 DEF MaxApplies
  <2>5. QED
    BY <1>6, <2>1, <2>2, <2>3, <2>4 DEF MaxApplies, KeepRow
<1>7. ASSUME NEW k \in Keys, NEW w \in Workers, MaxRejects(k, w)
      PROVE  TypeOK'
  <2>1. UNCHANGED wk \/ \E e \in Failures : Throw(w, e) \/ Rethrow(w, e)
    BY <1>7 DEF MaxRejects, Failures
  <2>2. wk' \in [Workers -> WorkerStates]
    BY <2>1, ThrowType
  <2>3. QED
    BY <1>7, <2>2, BoundTypes DEF MaxRejects, KeepRow
<1>8. ASSUME NEW k \in Keys, StallJob(k)
      PROVE  TypeOK'
  <2> DEFINE j == job[k]
  <2>1. j \in Jobs /\ j.stalls \in Nat /\ j.made \in 0..MaxAttempts
    BY MemberBounds DEF Jobs
  <2>2. \/ /\ j.stalls < MaxStalls
           /\ job' = [job EXCEPT ![k] = [j EXCEPT !.state = "waiting",
                                           !.owner = NoOwner, !.stalls = @ + 1]]
        \/ job' = [job EXCEPT ![k] = [NoJob EXCEPT !.state = "failed", !.made = j.made]]
    BY <1>8 DEF StallJob
  <2> HIDE DEF j
  <2>3. j.stalls < MaxStalls => [j EXCEPT !.state = "waiting", !.owner = NoOwner,
                                          !.stalls = @ + 1] \in Jobs
    BY <2>1, JobTypes DEF JobStates
  <2>4. [NoJob EXCEPT !.state = "failed", !.made = j.made] \in Jobs
    BY <2>1, JobTypes DEF JobStates
  <2>5. job' \in [Keys -> Jobs]
    BY <2>2, <2>3, <2>4
  <2>6. QED
    BY <1>8, <2>5, BoundTypes DEF StallJob, KeepRow
<1>9. ASSUME NEW k \in Keys, ExpireFailedJob(k)
      PROVE  TypeOK'
  BY <1>9, JobTypes, BoundTypes DEF ExpireFailedJob, KeepRow
<1>10. CASE Watchdog
  <2>1. ASSUME NEW k \in Keys, WatchdogRead(k)
        PROVE  TypeOK'
    BY <2>1 DEF WatchdogRead, JobStates
  <2>2. IdleWatchdog \in [pc : {"idle", "read", "decide", "requeued"},
                         key : Keys \cup {NoKey}, snap : MemberRows,
                         obs : JobStates, fresh : BOOLEAN]
    <3>1. AbsentRow \in MemberRows
      BY DEF AbsentRow, MemberRows, Statuses, MemberHttp, MemberCodes
    <3>2. QED
      BY <3>1 DEF IdleWatchdog, JobStates
  <2>3. \A k \in Keys : row[k] \in MemberRows
    OBVIOUS
  <2>4. CASE WatchdogObserve
    <3>1. wd.key \in Keys
      BY <2>4 DEF WatchdogObserve, WatchdogHasKey
    <3>2. job[wd.key].state \in JobStates
      BY <3>1 DEF Jobs
    <3>3. QED
      BY <2>4, <3>2 DEF WatchdogObserve
  <2>5. CASE WatchdogDefers
    BY <2>2, <2>5 DEF WatchdogDefers
  <2>6. CASE WatchdogRequeues
    <3>1. wd.key \in Keys
      BY <2>6 DEF WatchdogRequeues, WatchdogHasKey
    <3>2. [NoJob EXCEPT !.state = "waiting"] \in Jobs
          /\ [job[wd.key] EXCEPT !.state = "waiting"] \in Jobs
      BY <3>1, JobTypes DEF JobStates
    <3>3. job' \in [Keys -> Jobs]
      BY <2>6, <3>1, <3>2 DEF WatchdogRequeues, QueueAdd
    <3>4. QED
      BY <2>2, <2>6, <3>3 DEF WatchdogRequeues
  <2>7. CASE WatchdogBooks
    <3>1. wd.key \in Keys
      BY <2>7 DEF WatchdogBooks, WatchdogHasKey
    <3>2. EnqueuedSet(row[wd.key]) \in MemberRows
      BY <3>1, RowTypes
    <3>3. row' \in [Keys -> MemberRows]
      BY <2>7, <3>2 DEF WatchdogBooks
    <3>4. QED
      BY <2>2, <2>7, <3>3 DEF WatchdogBooks
  <2>8. CASE WatchdogApplies
    <3>1. wd.key \in Keys
      BY <2>8 DEF WatchdogApplies, WatchdogHasKey
    <3>2. WatchdogRow(row[wd.key]) \in MemberRows
      BY <3>1, RowTypes
    <3>3. row' \in [Keys -> MemberRows]
      BY <2>8, <3>2 DEF WatchdogApplies
    <3>4. QED
      BY <2>2, <2>8, <3>3 DEF WatchdogApplies
  <2>9. CASE WatchdogDies
    BY <2>2, <2>9, BoundTypes DEF WatchdogDies
  <2>10. QED
    BY <1>10, <2>1, <2>4, <2>5, <2>6, <2>7, <2>8, <2>9 DEF Watchdog
<1>11. CASE MemberReturns
  BY <1>11 DEF MemberReturns
<1>12. ASSUME NEW g \in BOOLEAN, ProbePresence(g)
       PROVE  TypeOK'
  BY <1>12, BoundTypes DEF ProbePresence
<1>13. CASE ClearTerminalBanState
  <2>1. AbsentRow \in MemberRows
    BY DEF AbsentRow, MemberRows, Statuses, MemberHttp, MemberCodes
  <2>2. row' \in [Keys -> MemberRows] /\ effects' \in [Keys -> Nat]
    BY <1>13, <2>1 DEF ClearTerminalBanState
  <2>3. wd' \in [pc : {"idle", "read", "decide", "requeued"},
                key : Keys \cup {NoKey}, snap : MemberRows, obs : JobStates,
                fresh : BOOLEAN]
    <3> DEFINE f == wd.fresh /\ ~Retired(wd.key)
    <3>1. f \in BOOLEAN /\ (wd' = wd \/ wd' = [wd EXCEPT !.fresh = f])
      BY <1>13 DEF ClearTerminalBanState
    <3> HIDE DEF f
    <3>2. QED
      BY <3>1
  <2>4. QED
    BY <1>13, <2>2, <2>3 DEF ClearTerminalBanState, IdleClear
<1>14. QED
  <2>1. wire \in SUBSET (Keys \X Workers)
    OBVIOUS
  <2>2. \A e \in wire : e[1] \in Keys /\ e[2] \in Workers
    BY <2>1
  <2> HIDE DEF TypeOK
  <2>3. QED
    BY <1>1, <1>2, <1>3, <1>4, <1>5, <1>6, <1>7, <1>8, <1>9, <1>10, <1>11,
       <1>12, <1>13, <2>2 DEF Next

------------------------------------------------------------------------------
(***************************************************************************)
(* The safety of member actions, for any sets of keys, workers and bots    *)
(* and any values of the bounds.  The inductive invariant Inv says of a    *)
(* key and a worker engaged in it (past a start, or with a request on the  *)
(* wire) that the row holds the others back, and that nothing was applied  *)
(* before the request could be.                                            *)
(***************************************************************************)

EngagedPcs == {"ready", "sent", "succeeding", "failing"}

\* Worker w is engaged in key k: e = <<k, w>> \in Engaged.
Eng(k, w) == <<k, w>> \in wire \/ (wk[w].pc \in EngagedPcs /\ wk[w].key = k)

\* The columns of a row agree with each other.
RowShape(r) ==
  /\ r.ambiguous <=> r.status = "AMBIGUOUS"
  /\ r.status \in {"AMBIGUOUS", "SUCCEEDED"} => r.terminal

OpenStatuses == {"ENQUEUED", "FAILED_RETRYABLE", "FAILED_TERMINAL"}

\* A row and what MAX did for it.
RowInv(k) ==
  /\ RowShape(row[k])
  /\ effects[k] <= 1
  /\ effects[k] = 1 => row[k].status \in {"IN_PROGRESS", "AMBIGUOUS", "SUCCEEDED"}
  /\ row[k].status = "SUCCEEDED" => effects[k] = 1

\* An engaged worker: its row, the bans of the member, and its own knowledge.
EngInv(k, w) ==
  /\ Eng(k, w) =>
       /\ row[k].status \in {"IN_PROGRESS", "AMBIGUOUS"}
       /\ k \notin Unbans => \A o \in Bans \ {k} : row[o].status # "SUCCEEDED"
  /\ <<k, w>> \in wire => effects[k] = 0
  /\ wk[w].key = k =>
       /\ wk[w].pc = "ready" => effects[k] = 0 /\ <<k, w>> \notin wire
       /\ wk[w].pc = "succeeding" => effects[k] = 1
       /\ wk[w].pc = "failing" /\ ~EffectUnknown(wk[w].out) =>
            effects[k] = 0 /\ <<k, w>> \notin wire

\* At most one worker is engaged, in one key.
Exclusive ==
  \A k, o \in Keys : \A w, v \in Workers :
    Eng(k, w) /\ Eng(o, v) => k = o /\ w = v

\* What the watchdog still knows of the row it selected.
WatchdogInv ==
  /\ WatchdogHasKey
  /\ wd.pc # "idle" => WatchdogSelects(wd.snap)
  /\ wd.pc = "requeued" => wd.snap.status = "FAILED_RETRYABLE"
  /\ wd.fresh => wd.pc # "idle" /\ row[wd.key] = wd.snap

\* BANs that MAX applied after the presence read.
ClearInv ==
  /\ clr.pc = "idle" => clr.banned = {}
  /\ \A k \in Bans : k \in clr.banned /\ row[k].status = "SUCCEEDED" => k \in clr.later

Inv ==
  /\ TypeOK /\ ProducerHasKey /\ WorkerHasKey
  /\ \A k \in Keys : RowInv(k)
  /\ \A k \in Keys, w \in Workers : EngInv(k, w)
  /\ Exclusive
  /\ WatchdogInv
  /\ ClearInv

(***************************************************************************)
(* Rows after a statement.                                                 *)
(***************************************************************************)

LEMMA RowShapes ==
  ASSUME NEW r \in MemberRows
  PROVE  /\ RowShape(AbsentRow)
         /\ RowShape(EnqueuedSet(r)) /\ EnqueuedSet(r).status = "ENQUEUED"
         /\ RowShape(r) => RowShape(StartedSet(r))
         /\ StartedSet(r).status = "IN_PROGRESS"
         /\ RowShape(SucceededSet(r)) /\ SucceededSet(r).status = "SUCCEEDED"
<1> USE DEF MemberRows, RowShape
<1>1. RowShape(AbsentRow)
  BY DEF AbsentRow
<1>2. RowShape(EnqueuedSet(r)) /\ EnqueuedSet(r).status = "ENQUEUED"
  BY DEF EnqueuedSet
<1>3. /\ RowShape(r) => RowShape(StartedSet(r))
      /\ StartedSet(r).status = "IN_PROGRESS"
  BY DEF StartedSet
<1>4. RowShape(SucceededSet(r)) /\ SucceededSet(r).status = "SUCCEEDED"
  BY DEF SucceededSet
<1>5. QED
  BY <1>1, <1>2, <1>3, <1>4

LEMMA FailedRowShape ==
  ASSUME NEW r \in MemberRows, NEW e, NEW x \in BOOLEAN
  PROVE  /\ RowShape(FailedRow(r, e, x))
         /\ EffectUnknown(e) => FailedRow(r, e, x).status = "AMBIGUOUS"
         /\ ~EffectUnknown(e) => FailedRow(r, e, x).status \in OpenStatuses
<1> DEFINE f == FailedRow(r, e, x)
<1>1. /\ f.status = IF EffectUnknown(e) THEN "AMBIGUOUS"
                    ELSE IF Unrecovered(e) \/ e = "missing" THEN "FAILED_TERMINAL"
                    ELSE "FAILED_RETRYABLE"
      /\ f.ambiguous = EffectUnknown(e)
      /\ f.terminal = (EffectUnknown(e) \/ Unrecovered(e) \/ e = "missing" \/ x)
  BY DEF FailedRow, MemberRows
<1>2. EffectUnknown(e) \in BOOLEAN
  BY DEF EffectUnknown
<1> HIDE DEF f
<1>3. /\ RowShape(f)
      /\ EffectUnknown(e) => f.status = "AMBIGUOUS"
      /\ ~EffectUnknown(e) => f.status \in OpenStatuses
  BY <1>1, <1>2 DEF RowShape, OpenStatuses
<1>4. QED
  BY <1>3 DEF f

LEMMA WatchdogRowShape ==
  ASSUME NEW r \in MemberRows, r = wd.snap, WatchdogSelects(r)
  PROVE  /\ RowShape(WatchdogRow(r))
         /\ WatchdogRow(r).status = "AMBIGUOUS"
            \/ (WatchdogRow(r).status = "FAILED_TERMINAL"
                /\ r.status \in {"ENQUEUED", "FAILED_RETRYABLE"})
<1> DEFINE f == WatchdogRow(r)
           settles == NonRetryable(wd.snap) \/ Requeues \/ ~MayHaveStarted
<1>1. /\ f.status = IF settles THEN "FAILED_TERMINAL" ELSE "AMBIGUOUS"
      /\ f.ambiguous = ~settles
      /\ f.terminal = TRUE
  BY DEF WatchdogRow, MemberRows
<1>2. settles => r.status \in {"ENQUEUED", "FAILED_RETRYABLE"}
  BY DEF NonRetryable, Requeues, MayHaveStarted, WatchdogSelects, ExecutableStatuses
<1> HIDE DEF f, settles
<1>3. RowShape(f) /\ (f.status = "AMBIGUOUS" \/ (f.status = "FAILED_TERMINAL" /\ settles))
  BY <1>1 DEF RowShape
<1>4. QED
  BY <1>2, <1>3 DEF f

(***************************************************************************)
(* Steps.                                                                  *)
(***************************************************************************)

\* Workers stay as they are or leave their engagement.
Disengages ==
  \A v \in Workers :
    \/ wk'[v] = wk[v]
    \/ /\ wk'[v].pc \in {"idle", "start", "settling", "done"}
       /\ wk'[v].pc # "idle" => wk'[v].key \in Keys

LEMMA NoNewEngagement ==
  ASSUME Disengages, UNCHANGED wire, NEW k, NEW w \in Workers, Eng(k, w)'
  PROVE  Eng(k, w)
  BY DEF Eng, Disengages, EngagedPcs

\* A step that neither writes a row nor engages a worker.
LEMMA Frame ==
  ASSUME Inv, TypeOK', ProducerHasKey', WatchdogInv', Disengages,
         UNCHANGED <<row, wire, effects, clr>>
  PROVE  Inv'
<1> USE DEF Inv
<1>1. WorkerHasKey'
  BY DEF WorkerHasKey, Disengages
<1>2. \A k \in Keys : RowInv(k)'
  BY DEF RowInv
<1>3. \A k \in Keys, w \in Workers : Eng(k, w)' => Eng(k, w)
  BY DEF Eng, Disengages, EngagedPcs
<1>4. \A k \in Keys, w \in Workers : EngInv(k, w)'
  <2> TAKE k \in Keys, w \in Workers
  <2>1. EngInv(k, w)
    OBVIOUS
  <2>2. wk'[w] = wk[w] \/ wk'[w].pc \in {"idle", "start", "settling", "done"}
    BY DEF Disengages
  <2>3. QED
    BY <1>3, <2>1, <2>2 DEF EngInv
<1>5. Exclusive'
  BY <1>3 DEF Exclusive
<1>6. ClearInv'
  BY DEF ClearInv
<1>7. QED
  BY <1>1, <1>2, <1>4, <1>5, <1>6

\* A statement that settles, reopens or quarantines the row of a key.  Unless it
\* quarantines it, nobody is engaged in the key any more and MAX did nothing.
LEMMA RowWritten ==
  ASSUME Inv, TypeOK', ProducerHasKey', WatchdogInv', Disengages,
         UNCHANGED <<wire, effects, clr>>, NEW k \in Keys, NEW r,
         row' = [row EXCEPT ![k] = r], RowShape(r),
         \/ r.status = "AMBIGUOUS"
         \/ /\ r.status \in OpenStatuses
            /\ effects[k] = 0
            /\ \A w \in Workers : ~Eng(k, w)'
  PROVE  Inv'
<1> USE DEF Inv
<1>0. /\ row'[k] = r
      /\ \A o \in Keys \ {k} : row'[o] = row[o]
      /\ r.status # "SUCCEEDED"
  BY DEF TypeOK, OpenStatuses
<1>1. WorkerHasKey'
  BY DEF WorkerHasKey, Disengages
<1>2. \A o \in Keys : RowInv(o)'
  <2> TAKE o \in Keys
  <2>1. RowInv(o) /\ effects[o] \in Nat
    BY DEF TypeOK
  <2>2. CASE o = k
    BY <1>0, <2>1, <2>2 DEF RowInv, OpenStatuses
  <2>3. CASE o # k
    BY <1>0, <2>1, <2>3 DEF RowInv
  <2>4. QED
    BY <2>2, <2>3
<1>3. \A o \in Keys, w \in Workers : Eng(o, w)' => Eng(o, w)
  BY DEF Eng, Disengages, EngagedPcs
<1>4. \A o \in Keys, w \in Workers : EngInv(o, w)'
  <2> TAKE o \in Keys, w \in Workers
  <2>1. EngInv(o, w)
    OBVIOUS
  <2>2. wk'[w] = wk[w] \/ wk'[w].pc \in {"idle", "start", "settling", "done"}
    BY DEF Disengages
  <2>3. ASSUME Eng(o, w)'
        PROVE  row'[o].status \in {"IN_PROGRESS", "AMBIGUOUS"}
    BY <1>0, <1>3, <2>1, <2>3 DEF EngInv
  <2>4. ASSUME Eng(o, w)', o \notin Unbans, NEW b \in Bans \ {o}
        PROVE  row'[b].status # "SUCCEEDED"
    <3>1. b \in Keys
      BY DEF Keys
    <3>2. QED
      BY <1>0, <1>3, <2>1, <2>4, <3>1 DEF EngInv
  <2>5. QED
    BY <2>1, <2>2, <2>3, <2>4 DEF EngInv
<1>5. Exclusive'
  BY <1>3 DEF Exclusive
<1>6. ClearInv'
  <2>1. \A b \in Bans : b \in Keys
    BY DEF Keys
  <2>2. QED
    BY <1>0, <2>1 DEF ClearInv
<1>7. QED
  BY <1>1, <1>2, <1>4, <1>5, <1>6

\* A statement on a row ends what the watchdog knows of it.
LEMMA WatchdogForgets ==
  ASSUME Inv, NEW k \in Keys, NEW r, Write(k, r) \/ KeepRow
  PROVE  WatchdogInv'
<1>1. CASE KeepRow
  BY <1>1 DEF KeepRow, Inv, WatchdogInv, WatchdogHasKey
<1>2. CASE Write(k, r)
  <2> DEFINE f == wd.fresh /\ wd.key # k
  <2>1. wd' = [wd EXCEPT !.fresh = f]
    BY <1>2 DEF Write
  <2>2. /\ wd'.pc = wd.pc /\ wd'.key = wd.key /\ wd'.snap = wd.snap
        /\ wd'.fresh = f
    BY <2>1 DEF Inv, TypeOK
  <2>3. f => row'[wd.key] = row[wd.key]
    BY <1>2 DEF Write, Inv, TypeOK, WatchdogInv, WatchdogHasKey
  <2>4. f => wd.fresh
    OBVIOUS
  <2> HIDE DEF f
  <2>5. QED
    BY <2>2, <2>3, <2>4 DEF Inv, WatchdogInv, WatchdogHasKey
<1>3. QED
  BY <1>1, <1>2

LEMMA InitInv == Init => Inv
<1> SUFFICES ASSUME Init PROVE Inv
  OBVIOUS
<1>1. TypeOK
  BY InitType
<1>2. \A k \in Keys, w \in Workers : ~Eng(k, w)
  BY DEF Init, Eng, IdleWorker, EngagedPcs
<1>3. \A k \in Keys : RowInv(k)
  BY DEF Init, RowInv, RowShape, AbsentRow
<1>4. \A k \in Keys, w \in Workers : EngInv(k, w)
  BY <1>2 DEF Init, EngInv, IdleWorker
<1>5. WatchdogInv /\ ClearInv
  BY DEF Init, WatchdogInv, WatchdogHasKey, ClearInv, IdleWatchdog, IdleClear
<1>6. ProducerHasKey /\ WorkerHasKey
  BY DEF Init, ProducerHasKey, WorkerHasKey, IdleProducer, IdleWorker
<1>7. QED
  BY <1>1, <1>2, <1>3, <1>4, <1>5, <1>6 DEF Inv, Exclusive

LEMMA ProducerInv ==
  ASSUME Inv, TypeOK', Producer
  PROVE  Inv'
<1>0. TypeOK /\ ProducerHasKey /\ ProducerHasKey'
  BY ProducerType DEF Inv
<1>1. Disengages /\ UNCHANGED <<wire, effects, clr>>
  BY DEF Producer, AssertCanEnqueue, RemoveRetainedFailedJob, AddActionJob,
     ObserveFailedAdd, RetryAddActionJob, RecordEnqueueOutcome, ProducerFails,
     Disengages
<1>2. CASE ~RecordEnqueueOutcome
  <2>1. KeepRow
    BY <1>2 DEF Producer, AssertCanEnqueue, RemoveRetainedFailedJob, AddActionJob,
       ObserveFailedAdd, RetryAddActionJob, ProducerFails
  <2>2. WatchdogInv' /\ UNCHANGED row
    BY <2>1 DEF KeepRow, Inv, WatchdogInv, WatchdogHasKey
  <2>3. QED
    BY <1>0, <1>1, <2>2, Frame
<1>3. CASE RecordEnqueueOutcome
  <2>0. PICK k \in Keys : k = prod.key
    BY <1>0, <1>3 DEF RecordEnqueueOutcome, ProducerHasKey
  <2> DEFINE r == IF prod.pc = "enqueued" THEN RecordEnqueuedIfAbsent(row[k])
                  ELSE RecordEnqueueFailedIfAbsent(row[k])
  <2>1. k \in Keys /\ row[k] \in MemberRows
    BY <1>0 DEF TypeOK
  <2>2. KeepRow \/ (r # row[k] /\ Write(k, r))
    BY <1>3, <2>0 DEF RecordEnqueueOutcome
  <2>3. WatchdogInv'
    <3> HIDE DEF r
    <3>1. QED
      BY <2>1, <2>2, WatchdogForgets
  <2>4. CASE KeepRow
    BY <1>0, <1>1, <2>3, <2>4, Frame DEF KeepRow
  <2>5. CASE r # row[k] /\ Write(k, r)
    <3>1. /\ row[k].status \in {"ABSENT", "FAILED_RETRYABLE"}
          /\ ~row[k].ambiguous
      <4>1. row[k].status # "ABSENT" => row[k].status = "FAILED_RETRYABLE"
        BY <2>5 DEF RecordEnqueuedIfAbsent, RecordEnqueueFailedIfAbsent, Exists,
           UnattemptedWhere
      <4>2. RowShape(row[k])
        BY <2>1 DEF Inv, RowInv
      <4>3. QED
        BY <4>1, <4>2 DEF RowShape
    <3>2. RowShape(r) /\ r.status \in OpenStatuses
      <4>1. r = EnqueuedSet(row[k])
            \/ r = [row[k] EXCEPT !.status = "FAILED_RETRYABLE", !.code = "other"]
        BY <2>5 DEF RecordEnqueuedIfAbsent, RecordEnqueueFailedIfAbsent
      <4>2. CASE r = EnqueuedSet(row[k])
        BY <2>1, <4>2, RowShapes DEF OpenStatuses
      <4>3. CASE r = [row[k] EXCEPT !.status = "FAILED_RETRYABLE", !.code = "other"]
        <5>1. r.status = "FAILED_RETRYABLE" /\ r.ambiguous = row[k].ambiguous
          BY <2>1, <4>3 DEF MemberRows
        <5> HIDE DEF r
        <5>2. QED
          BY <3>1, <5>1 DEF RowShape, OpenStatuses
      <4>4. QED
        BY <4>1, <4>2, <4>3
    <3> HIDE DEF r
    <3>3. effects[k] = 0
      <4>1. RowInv(k) /\ effects[k] \in Nat
        BY <2>1 DEF Inv, TypeOK
      <4>2. QED
        BY <3>1, <4>1 DEF RowInv
    <3>4. \A w \in Workers : ~Eng(k, w)'
      <4>1. \A w \in Workers : ~Eng(k, w)
        BY <2>1, <3>1 DEF Inv, EngInv
      <4>2. QED
        BY <1>1, <4>1, NoNewEngagement
    <3>5. row' = [row EXCEPT ![k] = r]
      BY <2>5 DEF Write
    <3>6. QED
      BY <1>0, <1>1, <2>1, <2>3, <3>2, <3>3, <3>4, <3>5, RowWritten
  <2>6. QED
    BY <2>2, <2>4, <2>5
<1>4. QED
  BY <1>2, <1>3

LEMMA Leaves ==
  ASSUME Inv, NEW w \in Workers, wk[w].pc # "idle",
         Return(w) \/ \E e : Rethrow(w, e)
  PROVE  Disengages /\ wk'[w].pc \in {"idle", "settling", "done"}
<1>1. wk[w].key \in Keys /\ wk \in [Workers -> WorkerStates]
  BY DEF Inv, WorkerHasKey, TypeOK
<1>2. PICK p, e : p \in {"settling", "done"} /\ Ends(w, p, e)
  BY DEF Return, Rethrow
<1>3. /\ \A v \in Workers \ {w} : wk'[v] = wk[v]
      /\ \/ wk'[w] = IdleWorker
         \/ wk'[w] = [IdleWorker EXCEPT !.pc = p, !.key = wk[w].key,
                                        !.queued = TRUE, !.out = e]
  BY <1>1, <1>2 DEF Ends
<1>4. /\ wk'[w].pc \in {"idle", "settling", "done"}
      /\ wk'[w].pc # "idle" => wk'[w].key = wk[w].key
  <2>1. CASE wk'[w] = IdleWorker
    BY <2>1 DEF IdleWorker
  <2>2. CASE wk'[w] = [IdleWorker EXCEPT !.pc = p, !.key = wk[w].key,
                                        !.queued = TRUE, !.out = e]
    <3>1. wk'[w].pc = p /\ wk'[w].key = wk[w].key
      BY <2>2 DEF IdleWorker
    <3>2. QED
      BY <1>2, <3>1
  <2>3. QED
    BY <1>3, <2>1, <2>2
<1>5. QED
  BY <1>1, <1>3, <1>4 DEF Disengages

\* The engaged worker, or MAX for it, goes on: nobody else is engaged.
LEMMA EngagedStep ==
  ASSUME Inv, TypeOK', ProducerHasKey', WatchdogInv', ClearInv', UNCHANGED row,
         NEW k \in Keys, NEW w \in Workers, Eng(k, w),
         \A v \in Workers \ {w} : wk'[v] = wk[v],
         wk'[w] = wk[w] \/ (wk'[w].key = k /\ wk'[w].pc \in EngagedPcs),
         wire' \subseteq wire \cup {<<k, w>>},
         \A o \in Keys \ {k} : effects'[o] = effects[o],
         effects'[k] \in {0, 1},
         <<k, w>> \in wire' => effects'[k] = 0,
         wk'[w].key = k =>
           /\ wk'[w].pc = "ready" => effects'[k] = 0 /\ <<k, w>> \notin wire'
           /\ wk'[w].pc = "succeeding" => effects'[k] = 1
           /\ wk'[w].pc = "failing" /\ ~EffectUnknown(wk'[w].out) =>
                effects'[k] = 0 /\ <<k, w>> \notin wire'
  PROVE  Inv'
<1> USE DEF Inv
<1>1. WorkerHasKey'
  BY DEF WorkerHasKey
<1>2. EngInv(k, w)
  OBVIOUS
<1>3. \A o \in Keys : RowInv(o)'
  <2> TAKE o \in Keys
  <2>1. RowInv(o)
    OBVIOUS
  <2>2. CASE o = k
    BY <1>2, <2>1, <2>2 DEF RowInv, EngInv
  <2>3. CASE o # k
    BY <2>1, <2>3 DEF RowInv
  <2>4. QED
    BY <2>2, <2>3
<1>4. \A o \in Keys, v \in Workers : Eng(o, v)' => o = k /\ v = w
  <2> SUFFICES ASSUME NEW o \in Keys, NEW v \in Workers, Eng(o, v)',
                      ~(o = k /\ v = w)
               PROVE  FALSE
    OBVIOUS
  <2>1. Eng(o, v)
    BY DEF Eng
  <2>2. QED
    BY <2>1 DEF Exclusive
<1>5. \A o \in Keys, v \in Workers : EngInv(o, v)'
  <2> TAKE o \in Keys, v \in Workers
  <2>1. CASE o = k /\ v = w
    BY <1>2, <2>1 DEF EngInv
  <2>2. CASE ~(o = k /\ v = w)
    <3>1. ~Eng(o, v)'
      BY <1>4, <2>2
    <3>2. QED
      BY <3>1 DEF EngInv, Eng, EngagedPcs
  <2>3. QED
    BY <2>1, <2>2
<1>6. Exclusive'
  BY <1>4 DEF Exclusive
<1>7. QED
  BY <1>1, <1>3, <1>5, <1>6

LEMMA StartInv ==
  ASSUME Inv, TypeOK', NEW w \in Workers, RecordStarted(w)
  PROVE  Inv'
<1>1. PICK k \in Keys : k = wk[w].key /\ row[k] \in MemberRows
  BY DEF Inv, WorkerHasKey, TypeOK, RecordStarted, At
<1> DEFINE allowed == Blockers(k) = {} /\ (~Exists(row[k]) \/ Executable(row[k]))
<1>2. /\ ProducerHasKey'
      /\ UNCHANGED <<wire, effects, clr>>
      /\ wk[w].pc = "start"
  BY DEF RecordStarted, At, ProducerHasKey, Inv
<1>3. WatchdogInv'
  BY <1>1, WatchdogForgets DEF RecordStarted
<1>4. CASE ~allowed
  <2>1. KeepRow /\ \E e : Rethrow(w, e)
    BY <1>1, <1>4 DEF RecordStarted
  <2>2. Disengages /\ UNCHANGED row
    BY <1>2, <2>1, Leaves DEF KeepRow
  <2>3. QED
    BY <1>2, <1>3, <2>2, Frame
<1>5. CASE allowed
  <2>1. \A o \in Keys, v \in Workers : ~Eng(o, v)
    <3> SUFFICES ASSUME NEW o \in Keys, NEW v \in Workers, Eng(o, v)
                 PROVE  FALSE
      OBVIOUS
    <3>1. row[o].status \in {"IN_PROGRESS", "AMBIGUOUS"} /\ RowShape(row[o])
      BY DEF Inv, EngInv, RowInv
    <3>2. CASE o = k
      BY <1>5, <3>1, <3>2 DEF Executable, Exists, RowShape
    <3>3. CASE o # k
      BY <1>5, <3>1, <3>3 DEF Blockers, RowShape
    <3>4. QED
      BY <3>2, <3>3
  <2>2. /\ row' = [row EXCEPT ![k] = StartedSet(row[k])]
        /\ row'[k] = StartedSet(row[k])
        /\ \A o \in Keys \ {k} : row'[o] = row[o]
    BY ZenonT(60), <1>1, <1>5 DEF RecordStarted, Write, Inv, TypeOK
  <2>3. RowShape(row'[k]) /\ row'[k].status = "IN_PROGRESS"
    <3>1. RowShape(row[k])
      BY DEF Inv, RowInv
    <3>2. QED
      BY <1>1, <2>2, <3>1, RowShapes
  <2>4. effects[k] = 0
    <3>1. RowInv(k) /\ effects[k] \in Nat
      BY DEF Inv, TypeOK
    <3>2. row[k].status \in {"ABSENT", "ENQUEUED", "FAILED_RETRYABLE"}
      BY <1>5 DEF Exists, Executable
    <3>3. QED
      BY <3>1, <3>2 DEF RowInv
  <2>5. \A o \in Keys : RowInv(o)'
    BY <1>2, <2>2, <2>3, <2>4 DEF Inv, RowInv
  <2>6. ClearInv'
    <3>1. \A b \in Bans : b \in Keys
      BY DEF Keys
    <3>2. QED
      BY <1>2, <2>2, <2>3, <3>1 DEF Inv, ClearInv
  <2>7. /\ \A v \in Workers \ {w} : wk'[v] = wk[v]
        /\ \/ wk'[w].pc = "ready" /\ wk'[w].key = k
           \/ Disengages /\ wk'[w].pc \in {"idle", "settling", "done"}
    <3>1. CASE \E e : Rethrow(w, e)
      <4>1. \A v \in Workers \ {w} : wk'[v] = wk[v]
        BY <3>1 DEF Rethrow, Ends, Inv, TypeOK
      <4>2. QED
        BY <1>2, <3>1, <4>1, Leaves
    <3>2. CASE \E b \in Bots :
                 wk' = [wk EXCEPT ![w] = [wk[w] EXCEPT !.pc = "ready", !.tried = {b}]]
      BY <1>1, <3>2 DEF Inv, TypeOK, WorkerStates
    <3>3. QED
      BY <3>1, <3>2 DEF RecordStarted
  <2>8. WorkerHasKey'
    BY <2>7 DEF Inv, WorkerHasKey, Disengages
  <2>9. \A o \in Keys, v \in Workers : Eng(o, v)' => o = k /\ v = w
    BY <1>2, <2>1, <2>7 DEF Eng, EngagedPcs
  <2>10. Exclusive'
    BY <2>9 DEF Exclusive
  <2>11. \A o \in Keys, v \in Workers : EngInv(o, v)'
    <3> TAKE o \in Keys, v \in Workers
    <3>1. <<o, v>> \notin wire'
      BY <1>2, <2>1 DEF Eng
    <3>2. CASE o = k /\ v = w
      <4>1. k \notin Unbans => \A b \in Bans \ {k} : row'[b].status # "SUCCEEDED"
        <5> SUFFICES ASSUME k \notin Unbans, NEW b \in Bans \ {k},
                            row'[b].status = "SUCCEEDED"
                     PROVE  FALSE
          OBVIOUS
        <5>1. b \in Keys \ {k} /\ row[b].status = "SUCCEEDED"
          BY <2>2 DEF Keys
        <5>2. b \in Blockers(k)
          BY <5>1 DEF Blockers
        <5>3. QED
          BY <1>5, <5>2
      <4>2. wk'[w].key = k => wk'[w].pc \in {"ready", "idle", "settling", "done"}
        BY <2>7
      <4>3. QED
        BY <1>2, <2>3, <2>4, <3>1, <3>2, <4>1, <4>2 DEF EngInv
    <3>3. CASE ~(o = k /\ v = w)
      BY <2>9, <3>1, <3>3 DEF EngInv, Eng, EngagedPcs
    <3>4. QED
      BY <3>2, <3>3
  <2>12. QED
    BY <1>2, <1>3, <2>5, <2>6, <2>8, <2>10, <2>11 DEF Inv
<1>6. QED
  BY <1>4, <1>5

LEMMA ExecutionInv ==
  ASSUME Inv, TypeOK', NEW w \in Workers, Executes(w)
  PROVE  Inv'
<1>0. /\ wk \in [Workers -> WorkerStates] /\ ProducerHasKey
      /\ wk[w].pc # "idle" => wk[w].key \in Keys
      /\ \A k \in Keys : effects[k] \in Nat
  BY DEF Inv, TypeOK, WorkerHasKey
<1>a. ASSUME KeepRow PROVE UNCHANGED row /\ WatchdogInv'
  BY <1>a DEF KeepRow, Inv, WatchdogInv, WatchdogHasKey
<1>b. ASSUME UNCHANGED <<row, clr>> PROVE ClearInv'
  BY <1>b DEF Inv, ClearInv
<1>c. ASSUME UNCHANGED prod PROVE ProducerHasKey'
  BY <1>0, <1>c DEF ProducerHasKey
<1>d. ASSUME NEW e \in Failures, Throw(w, e)
      PROVE  /\ \A v \in Workers \ {w} : wk'[v] = wk[v]
             /\ wk'[w].pc = "failing" /\ wk'[w].key = wk[w].key
             /\ wk'[w].out \in {e, "denied"}
             /\ e # "circuit" => wk'[w].out = e
  <2> DEFINE o == IF e = "circuit" /\ wk[w].out = "denied" THEN wk[w].out ELSE e
  <2>1. /\ o \in {e, "denied"}
        /\ e # "circuit" => o = e
    OBVIOUS
  <2>2. wk' = [wk EXCEPT ![w] = [wk[w] EXCEPT !.pc = "failing", !.out = o]]
    BY <1>d DEF Throw
  <2> HIDE DEF o
  <2>3. wk'[w] = [wk[w] EXCEPT !.pc = "failing", !.out = o]
        /\ \A v \in Workers \ {w} : wk'[v] = wk[v]
    BY <1>0, <2>2
  <2>4. wk'[w].pc = "failing" /\ wk'[w].key = wk[w].key /\ wk'[w].out = o
    BY <1>0, <2>3 DEF WorkerStates
  <2>5. QED
    BY <2>1, <2>3, <2>4
<1>1. CASE FailBeforeStart(w)
  <2>1. KeepRow /\ UNCHANGED <<wire, effects, clr, prod>>
        /\ wk[w].pc # "idle" /\ \E e : Rethrow(w, e)
    BY <1>1 DEF FailBeforeStart, At
  <2>2. QED
    BY <1>a, <1>c, <2>1, Leaves, Frame
<1>2. CASE RecordStarted(w)
  BY <1>2, StartInv
<1>3. CASE RefuseBeforeRequest(w)
  <2>1. PICK k \in Keys : k = wk[w].key
    BY <1>0, <1>3 DEF RefuseBeforeRequest, At
  <2>2. wk[w].pc = "ready" /\ KeepRow /\ UNCHANGED <<wire, effects, clr, prod>>
    BY <1>3 DEF RefuseBeforeRequest, At
  <2>3. Eng(k, w) /\ EngInv(k, w)
    BY <2>1, <2>2 DEF Eng, EngagedPcs, Inv
  <2>4. effects[k] = 0 /\ <<k, w>> \notin wire
    BY <2>1, <2>2, <2>3 DEF EngInv
  <2>5. PICK e \in {"guard", "guard404", "guardFinal", "circuit", "retryable",
                    "unrecoverable"} : Throw(w, e)
    BY <1>3 DEF RefuseBeforeRequest
  <2>6. /\ \A v \in Workers \ {w} : wk'[v] = wk[v]
        /\ wk'[w].pc = "failing" /\ wk'[w].key = k
    BY <1>d, <2>1, <2>5 DEF Failures
  <2>7. QED
    BY <1>a, <1>b, <1>c, <2>2, <2>3, <2>4, <2>6, EngagedStep DEF EngagedPcs
<1>4. CASE SendRequest(w)
  <2>1. PICK k \in Keys : k = wk[w].key
    BY <1>0, <1>4 DEF SendRequest, At
  <2>2. wk[w].pc = "ready" /\ KeepRow /\ UNCHANGED <<effects, clr, prod>>
        /\ wire' = wire \cup {<<k, w>>}
    BY <1>4, <2>1 DEF SendRequest, At
  <2>3. Eng(k, w) /\ EngInv(k, w)
    BY <2>1, <2>2 DEF Eng, EngagedPcs, Inv
  <2>4. effects[k] = 0
    BY <2>1, <2>2, <2>3 DEF EngInv
  <2>5. /\ \A v \in Workers \ {w} : wk'[v] = wk[v]
        /\ wk'[w].pc = "sent" /\ wk'[w].key = k
    BY <1>0, <1>4, <2>1 DEF SendRequest, Goto, WorkerStates
  <2>6. QED
    BY <1>a, <1>b, <1>c, <2>2, <2>3, <2>4, <2>5, EngagedStep DEF EngagedPcs
<1>5. CASE GiveUp(w)
  <2>1. PICK k \in Keys : k = wk[w].key
    BY <1>0, <1>5 DEF GiveUp, At
  <2>2. wk[w].pc = "sent" /\ KeepRow /\ UNCHANGED <<wire, effects, clr, prod>>
    BY <1>5 DEF GiveUp, At
  <2>3. Eng(k, w) /\ EngInv(k, w) /\ RowInv(k)
    BY <2>1, <2>2 DEF Eng, EngagedPcs, Inv
  <2>4. effects[k] \in {0, 1} /\ (<<k, w>> \in wire => effects[k] = 0)
    BY <1>0, <2>3 DEF EngInv, RowInv
  <2>5. PICK e \in {"ambiguous", "server"} : Throw(w, e)
    BY <1>5 DEF GiveUp
  <2>6. /\ \A v \in Workers \ {w} : wk'[v] = wk[v]
        /\ wk'[w].pc = "failing" /\ wk'[w].key = k /\ wk'[w].out = e
    BY <1>d, <2>1, <2>5 DEF Failures
  <2>7. EffectUnknown(wk'[w].out)
    BY <2>5, <2>6 DEF EffectUnknown
  <2>8. QED
    BY <1>a, <1>b, <1>c, <2>2, <2>3, <2>4, <2>6, <2>7, EngagedStep DEF EngagedPcs
<1>6. CASE NextCandidate(w)
  <2>1. PICK k \in Keys : k = wk[w].key
    BY <1>0, <1>6 DEF NextCandidate, At
  <2>2. wk[w].pc = "failing" /\ KeepRow /\ UNCHANGED <<wire, effects, clr, prod>>
        /\ wk[w].out \in FailoverErrors(wk[w].queued, wk[w].key)
    BY <1>6 DEF NextCandidate, At
  <2>3. Eng(k, w) /\ EngInv(k, w)
    BY <2>1, <2>2 DEF Eng, EngagedPcs, Inv
  <2>4. ~EffectUnknown(wk[w].out)
    BY <2>2 DEF FailoverErrors, EffectUnknown
  <2>5. effects[k] = 0 /\ <<k, w>> \notin wire
    BY <2>1, <2>2, <2>3, <2>4 DEF EngInv
  <2> DEFINE o == IF wk[w].out = "denied" THEN wk[w].out ELSE "none"
  <2>6. PICK b \in Bots :
          wk' = [wk EXCEPT ![w] = [wk[w] EXCEPT !.pc = "ready", !.tried = @ \cup {b},
                                               !.out = o]]
    BY <1>6 DEF NextCandidate
  <2> HIDE DEF o
  <2>7. /\ \A v \in Workers \ {w} : wk'[v] = wk[v]
        /\ wk'[w].pc = "ready" /\ wk'[w].key = k
    BY <1>0, <2>1, <2>6 DEF WorkerStates
  <2>8. QED
    BY <1>a, <1>b, <1>c, <2>2, <2>3, <2>5, <2>7, EngagedStep DEF EngagedPcs
<1>7. CASE RecordFailed(w)
  <2>1. PICK k \in Keys : k = wk[w].key /\ row[k] \in MemberRows
    BY <1>0, <1>7 DEF RecordFailed, At, Inv, TypeOK
  <2>2. wk[w].pc = "failing" /\ UNCHANGED <<wire, effects, clr, prod>>
        /\ wk[w].final \in BOOLEAN
    BY <1>0, <1>7 DEF RecordFailed, At, WorkerStates
  <2>3. Disengages /\ wk'[w].pc \in {"idle", "settling", "done"}
    BY <1>7, <2>2, Leaves DEF RecordFailed
  <2>4. CASE KeepRow
    BY <1>a, <1>c, <2>2, <2>3, <2>4, Frame
  <2>5. ASSUME NEW x \in BOOLEAN, Write(k, FailedRow(row[k], wk[w].out, x))
        PROVE  Inv'
    <3> DEFINE f == FailedRow(row[k], wk[w].out, x)
    <3>1. /\ RowShape(f)
          /\ EffectUnknown(wk[w].out) => f.status = "AMBIGUOUS"
          /\ ~EffectUnknown(wk[w].out) => f.status \in OpenStatuses
      BY <2>1, FailedRowShape
    <3>2. Write(k, f)
      BY <2>5
    <3> HIDE DEF f
    <3>3. WatchdogInv' /\ row' = [row EXCEPT ![k] = f]
      BY <3>2, WatchdogForgets DEF Write
    <3>4. Eng(k, w) /\ EngInv(k, w)
      BY <2>1, <2>2 DEF Eng, EngagedPcs, Inv
    <3>5. ~EffectUnknown(wk[w].out) =>
            effects[k] = 0 /\ \A v \in Workers : ~Eng(k, v)'
      <4> SUFFICES ASSUME ~EffectUnknown(wk[w].out)
                   PROVE  effects[k] = 0 /\ \A v \in Workers : ~Eng(k, v)'
        OBVIOUS
      <4>1. effects[k] = 0 /\ <<k, w>> \notin wire
        BY <2>1, <2>2, <3>4 DEF EngInv
      <4>2. ~Eng(k, w)'
        BY <2>2, <2>3, <4>1 DEF Eng, EngagedPcs
      <4>3. \A v \in Workers : Eng(k, v)' => v = w
        BY <2>2, <2>3, <3>4, NoNewEngagement DEF Inv, Exclusive
      <4>4. QED
        BY <4>1, <4>2, <4>3
    <3>6. QED
      BY <1>c, <2>2, <2>3, <3>1, <3>3, <3>5, RowWritten
  <2>6. QED
    <3>1. \A x \in {wk[w].final, wk[w].final /\ wk[w].out # "circuit"} : x \in BOOLEAN
      BY <2>2
    <3>2. QED
      BY <1>7, <2>1, <2>4, <2>5, <3>1 DEF RecordFailed
<1>8. CASE RecordSucceeded(w)
  <2>1. PICK k \in Keys : k = wk[w].key /\ row[k] \in MemberRows
    BY <1>0, <1>8 DEF RecordSucceeded, At, Inv, TypeOK
  <2>2. wk[w].pc = "succeeding" /\ UNCHANGED <<wire, effects, prod>>
    BY <1>8 DEF RecordSucceeded, At
  <2>3. Disengages /\ wk'[w].pc \in {"idle", "settling", "done"}
    BY <1>8, <2>2, Leaves DEF RecordSucceeded
  <2>4. CASE KeepRow /\ UNCHANGED clr
    BY <1>a, <1>c, <2>2, <2>3, <2>4, Frame
  <2>5. CASE /\ Write(k, SucceededSet(row[k]))
             /\ clr' = IF clr.pc = "seen"
                       THEN [clr EXCEPT !.later = @ \cup {k}] ELSE clr
    <3>1. /\ row'[k] = SucceededSet(row[k])
          /\ \A o \in Keys \ {k} : row'[o] = row[o]
      BY <2>5 DEF Write, Inv, TypeOK
    <3>2. WatchdogInv'
      BY <2>5, WatchdogForgets
    <3>3. RowShape(row'[k]) /\ row'[k].status = "SUCCEEDED"
      BY <2>1, <3>1, RowShapes
    <3>4. Eng(k, w) /\ EngInv(k, w)
      BY <2>1, <2>2 DEF Eng, EngagedPcs, Inv
    <3>5. effects[k] = 1 /\ <<k, w>> \notin wire
      BY <2>1, <2>2, <3>4 DEF EngInv
    <3>6. \A o \in Keys, v \in Workers : ~Eng(o, v)'
      <4> SUFFICES ASSUME NEW o \in Keys, NEW v \in Workers, Eng(o, v)'
                   PROVE  FALSE
        OBVIOUS
      <4>1. Eng(o, v)
        BY <2>2, <2>3, NoNewEngagement
      <4>2. o = k /\ v = w
        BY <3>4, <4>1 DEF Inv, Exclusive
      <4>3. QED
        BY <2>2, <2>3, <3>5, <4>2 DEF Eng, EngagedPcs
    <3>7. \A o \in Keys : RowInv(o)'
      <4> TAKE o \in Keys
      <4>1. RowInv(o)
        BY DEF Inv
      <4>2. CASE o = k
        BY <2>2, <3>3, <3>5, <4>2 DEF RowInv
      <4>3. CASE o # k
        BY <2>2, <3>1, <4>1, <4>3 DEF RowInv
      <4>4. QED
        BY <4>2, <4>3
    <3>8. \A o \in Keys, v \in Workers : EngInv(o, v)'
      BY <3>6 DEF EngInv, Eng, EngagedPcs
    <3>9. ClearInv'
      <4>1. \A b \in Bans : b \in Keys
        BY DEF Keys
      <4>2. CASE clr.pc = "seen"
        <5>1. /\ clr'.pc = "seen" /\ clr'.banned = clr.banned
              /\ clr'.later = clr.later \cup {k}
          BY <2>5, <4>2 DEF Inv, TypeOK
        <5>2. QED
          BY <3>1, <4>1, <5>1 DEF Inv, ClearInv
      <4>3. CASE clr.pc = "idle"
        BY <2>5, <4>3 DEF Inv, ClearInv
      <4>4. QED
        BY <4>2, <4>3 DEF Inv, TypeOK
    <3>10. WorkerHasKey' /\ Exclusive'
      BY <2>3, <3>6 DEF Inv, WorkerHasKey, Disengages, Exclusive
    <3>11. QED
      BY <1>c, <2>2, <3>2, <3>7, <3>8, <3>9, <3>10 DEF Inv
  <2>6. QED
    BY <1>8, <2>1, <2>4, <2>5 DEF RecordSucceeded
<1>9. CASE SettleJob(w)
  <2>1. KeepRow /\ UNCHANGED <<wire, effects, clr, prod>>
        /\ wk' = [wk EXCEPT ![w] = IdleWorker]
    BY <1>9 DEF SettleJob
  <2>2. Disengages
    BY <1>0, <2>1 DEF Disengages, IdleWorker
  <2>3. QED
    BY <1>a, <1>c, <2>1, <2>2, Frame
<1>10. QED
  BY <1>1, <1>2, <1>3, <1>4, <1>5, <1>6, <1>7, <1>8, <1>9 DEF Executes

LEMMA MaxInv ==
  ASSUME Inv, TypeOK', NEW k \in Keys, NEW w \in Workers,
         MaxApplies(k, w) \/ MaxRejects(k, w)
  PROVE  Inv'
<1>1. /\ KeepRow /\ UNCHANGED prod
      /\ <<k, w>> \in wire /\ wire' = wire \ {<<k, w>>}
  BY DEF MaxApplies, MaxRejects
<1>2. WatchdogInv' /\ ProducerHasKey' /\ UNCHANGED row
  BY <1>1 DEF KeepRow, Inv, WatchdogInv, WatchdogHasKey, ProducerHasKey
<1>3. Eng(k, w) /\ EngInv(k, w) /\ RowInv(k) /\ effects[k] = 0
  BY <1>1 DEF Inv, Eng, EngInv
<1>4. wk[w].key = k =>
        /\ wk[w].pc \notin {"ready", "succeeding"}
        /\ wk[w].pc = "failing" => EffectUnknown(wk[w].out)
  BY <1>1, <1>3 DEF EngInv
<1>5. CASE MaxApplies(k, w)
  <2>1. /\ effects'[k] = 1
        /\ \A o \in Keys \ {k} : effects'[o] = effects[o]
    BY <1>3, <1>5 DEF MaxApplies, Inv, TypeOK
  <2>2. ClearInv'
    <3>1. row[k].status # "SUCCEEDED"
      BY <1>3 DEF EngInv
    <3>2. /\ clr'.pc = clr.pc /\ clr'.later = clr.later
          /\ clr.pc = "idle" => clr'.banned = clr.banned
          /\ clr'.banned \subseteq clr.banned \cup {k}
      BY <1>5 DEF MaxApplies, Inv, TypeOK
    <3>3. QED
      BY <1>2, <3>1, <3>2 DEF Inv, ClearInv
  <2>3. /\ \A v \in Workers \ {w} : wk'[v] = wk[v]
        /\ \/ wk'[w] = wk[w]
           \/ wk'[w].key = k /\ wk'[w].pc = "succeeding"
    BY <1>5 DEF MaxApplies, Waits, Goto, Inv, TypeOK, WorkerStates
  <2>4. QED
    BY <1>1, <1>2, <1>3, <1>4, <2>1, <2>2, <2>3, EngagedStep DEF EngagedPcs
<1>6. CASE MaxRejects(k, w)
  <2>1. UNCHANGED <<effects, clr>>
    BY <1>6 DEF MaxRejects
  <2>2. ClearInv'
    BY <1>2, <2>1 DEF Inv, ClearInv
  <2>3. \/ wk' = wk
        \/ wk[w].key = k /\ \E e \in Failures : Throw(w, e)
    BY <1>6 DEF MaxRejects, Waits, Failures
  <2>4. /\ \A v \in Workers \ {w} : wk'[v] = wk[v]
        /\ \/ wk'[w] = wk[w]
           \/ wk'[w].key = k /\ wk'[w].pc = "failing"
    <3>1. CASE wk' = wk
      BY <3>1
    <3>2. ASSUME wk[w].key = k, NEW e \in Failures, Throw(w, e)
          PROVE  /\ \A v \in Workers \ {w} : wk'[v] = wk[v]
                 /\ wk'[w].key = k /\ wk'[w].pc = "failing"
      <4> DEFINE o == IF e = "circuit" /\ wk[w].out = "denied" THEN wk[w].out ELSE e
      <4>1. wk' = [wk EXCEPT ![w] = [wk[w] EXCEPT !.pc = "failing", !.out = o]]
        BY <3>2 DEF Throw
      <4> HIDE DEF o
      <4>2. QED
        BY <3>2, <4>1 DEF Inv, TypeOK, WorkerStates
    <3>3. QED
      BY <2>3, <3>1, <3>2
  <2>5. QED
    BY <1>1, <1>2, <1>3, <1>4, <2>1, <2>2, <2>4, EngagedStep DEF EngagedPcs
<1>7. QED
  BY <1>5, <1>6

LEMMA QueueInv ==
  ASSUME Inv, TypeOK',
         \/ \E w \in Workers, k \in Keys : TakeJob(w, k) \/ StartImmediate(w, k)
         \/ \E w \in Workers : Crash(w)
         \/ \E k \in Keys : StallJob(k) \/ ExpireFailedJob(k)
  PROVE  Inv'
<1>1. KeepRow /\ UNCHANGED <<wire, effects, clr, prod>>
  BY DEF TakeJob, StartImmediate, Crash, StallJob, ExpireFailedJob
<1>2. WatchdogInv' /\ ProducerHasKey' /\ UNCHANGED row
  BY <1>1 DEF KeepRow, Inv, WatchdogInv, WatchdogHasKey, ProducerHasKey
<1>3. Disengages
  <2>0. wk \in [Workers -> WorkerStates]
    BY DEF Inv, TypeOK
  <2>1. ASSUME NEW w \in Workers, NEW k \in Keys, TakeJob(w, k) PROVE Disengages
    <3>1. /\ \A v \in Workers \ {w} : wk'[v] = wk[v]
          /\ wk'[w].pc = "start" /\ wk'[w].key = k
      BY <2>0, <2>1 DEF TakeJob, IdleWorker
    <3>2. QED
      BY <3>1 DEF Disengages
  <2>2. ASSUME NEW w \in Workers, NEW k \in Keys, StartImmediate(w, k) PROVE Disengages
    <3>1. /\ \A v \in Workers \ {w} : wk'[v] = wk[v]
          /\ wk'[w].pc = "start" /\ wk'[w].key = k
      BY <2>0, <2>2 DEF StartImmediate, IdleWorker
    <3>2. QED
      BY <3>1 DEF Disengages
  <2>3. ASSUME NEW w \in Workers, Crash(w) PROVE Disengages
    BY <2>0, <2>3 DEF Crash, IdleWorker, Disengages
  <2>4. ASSUME NEW k \in Keys, StallJob(k) \/ ExpireFailedJob(k) PROVE Disengages
    BY <2>4 DEF StallJob, ExpireFailedJob, Disengages
  <2>5. QED
    BY <2>1, <2>2, <2>3, <2>4
<1>4. QED
  BY <1>1, <1>2, <1>3, Frame

LEMMA WatchdogStep ==
  ASSUME Inv, TypeOK', Watchdog
  PROVE  Inv'
<1>0. /\ Disengages /\ ProducerHasKey' /\ UNCHANGED <<wire, effects, clr>>
  BY DEF Watchdog, WatchdogRead, WatchdogObserve, WatchdogDefers, WatchdogRequeues,
     WatchdogBooks, WatchdogApplies, WatchdogDies, Disengages, ProducerHasKey, Inv
<1>a. ASSUME wd' = IdleWatchdog PROVE WatchdogInv'
  BY <1>a DEF IdleWatchdog, WatchdogInv, WatchdogHasKey
<1>1. ASSUME NEW k \in Keys, WatchdogRead(k) PROVE Inv'
  <2>1. WatchdogInv' /\ UNCHANGED row
    BY <1>1 DEF WatchdogRead, WatchdogInv, WatchdogHasKey
  <2>2. QED
    BY <1>0, <2>1, Frame
<1>2. CASE WatchdogObserve
  <2>1. /\ wd'.pc = "decide" /\ wd'.key = wd.key /\ wd'.snap = wd.snap
        /\ wd'.fresh = wd.fresh /\ wd.pc # "idle" /\ UNCHANGED row
    BY <1>2 DEF WatchdogObserve, Inv, TypeOK
  <2>2. WatchdogInv'
    BY <2>1 DEF Inv, WatchdogInv, WatchdogHasKey
  <2>3. QED
    BY <1>0, <2>1, <2>2, Frame
<1>3. CASE WatchdogDefers \/ WatchdogDies
  <2>1. wd' = IdleWatchdog /\ UNCHANGED row
    BY <1>3 DEF WatchdogDefers, WatchdogDies
  <2>2. QED
    BY <1>0, <1>a, <2>1, Frame
<1>4. CASE WatchdogRequeues
  <2>1. UNCHANGED row /\ wd.pc # "idle" /\ wd.snap.status = "FAILED_RETRYABLE"
        /\ (wd' = IdleWatchdog \/ wd' = [wd EXCEPT !.pc = "requeued"])
    BY <1>4 DEF WatchdogRequeues, Requeues
  <2>2. CASE wd' = IdleWatchdog
    BY <1>0, <1>a, <2>1, <2>2, Frame
  <2>3. CASE wd' = [wd EXCEPT !.pc = "requeued"]
    <3>1. /\ wd'.pc = "requeued" /\ wd'.key = wd.key /\ wd'.snap = wd.snap
          /\ wd'.fresh = wd.fresh
      BY <2>3 DEF Inv, TypeOK
    <3>2. WatchdogInv'
      BY <2>1, <3>1 DEF Inv, WatchdogInv, WatchdogHasKey
    <3>3. QED
      BY <1>0, <2>1, <3>2, Frame
  <2>4. QED
    BY <2>1, <2>2, <2>3
<1>b. ASSUME wd.pc # "idle"
      PROVE  /\ wd.key \in Keys /\ row[wd.key] \in MemberRows
             /\ RowInv(wd.key) /\ effects[wd.key] \in Nat
             /\ \A w \in Workers : EngInv(wd.key, w)
             /\ WatchdogSelects(wd.snap)
             /\ wd.pc = "requeued" => wd.snap.status = "FAILED_RETRYABLE"
             /\ wd.fresh => row[wd.key] = wd.snap
  BY <1>b DEF Inv, WatchdogInv, WatchdogHasKey, TypeOK
<1>5. CASE WatchdogBooks
  <2>1. wd.pc = "requeued" /\ wd' = IdleWatchdog
    BY <1>5 DEF WatchdogBooks
  <2>2. PICK k \in Keys : k = wd.key
    BY <1>b, <2>1
  <2>3. CASE ~wd.fresh
    BY <1>0, <1>5, <1>a, <2>1, <2>3, Frame DEF WatchdogBooks
  <2>4. CASE wd.fresh
    <3>1. row[k].status = "FAILED_RETRYABLE" /\ row[k] \in MemberRows
      BY <1>b, <2>1, <2>2, <2>4
    <3>2. RowShape(EnqueuedSet(row[k])) /\ EnqueuedSet(row[k]).status \in OpenStatuses
      BY <3>1, RowShapes DEF OpenStatuses
    <3>3. effects[k] = 0
      BY <1>b, <2>1, <2>2, <3>1 DEF RowInv
    <3>4. \A w \in Workers : ~Eng(k, w)'
      <4>1. \A w \in Workers : ~Eng(k, w)
        BY <1>b, <2>1, <2>2, <3>1 DEF EngInv
      <4>2. QED
        BY <1>0, <4>1, NoNewEngagement
    <3>5. row' = [row EXCEPT ![k] = EnqueuedSet(row[k])]
      BY <1>5, <2>2, <2>4 DEF WatchdogBooks
    <3>6. QED
      BY <1>0, <1>a, <2>1, <3>2, <3>3, <3>4, <3>5, RowWritten
  <2>5. QED
    BY <2>3, <2>4
<1>6. CASE WatchdogApplies
  <2>1. wd.pc = "decide" /\ wd' = IdleWatchdog
    BY <1>6 DEF WatchdogApplies
  <2>2. PICK k \in Keys : k = wd.key
    BY <1>b, <2>1
  <2>3. CASE ~wd.fresh
    BY <1>0, <1>6, <1>a, <2>1, <2>3, Frame DEF WatchdogApplies
  <2>4. CASE wd.fresh
    <3>1. row[k] = wd.snap /\ WatchdogSelects(row[k]) /\ row[k] \in MemberRows
      BY <1>b, <2>1, <2>2, <2>4
    <3> DEFINE f == WatchdogRow(row[k])
    <3>2. /\ RowShape(f)
          /\ \/ f.status = "AMBIGUOUS"
             \/ /\ f.status = "FAILED_TERMINAL"
                /\ row[k].status \in {"ENQUEUED", "FAILED_RETRYABLE"}
      BY <3>1, WatchdogRowShape
    <3>3. row' = [row EXCEPT ![k] = f]
      BY <1>6, <2>2, <2>4 DEF WatchdogApplies
    <3> HIDE DEF f
    <3>4. CASE f.status = "AMBIGUOUS"
      BY <1>0, <1>a, <2>1, <3>2, <3>3, <3>4, RowWritten
    <3>5. CASE /\ f.status = "FAILED_TERMINAL"
               /\ row[k].status \in {"ENQUEUED", "FAILED_RETRYABLE"}
      <4>1. effects[k] = 0
        BY <1>b, <2>1, <2>2, <3>5 DEF RowInv
      <4>2. \A w \in Workers : ~Eng(k, w)
        BY <1>b, <2>1, <2>2, <3>5 DEF EngInv
      <4>3. \A w \in Workers : ~Eng(k, w)'
        BY <1>0, <4>2, NoNewEngagement
      <4>4. QED
        BY <1>0, <1>a, <2>1, <3>2, <3>3, <3>5, <4>1, <4>3, RowWritten DEF OpenStatuses
    <3>6. QED
      BY <3>2, <3>4, <3>5
  <2>5. QED
    BY <2>3, <2>4
<1>7. QED
  BY <1>1, <1>2, <1>3, <1>4, <1>5, <1>6 DEF Watchdog

LEMMA ClearStep ==
  ASSUME Inv, TypeOK', ClearTerminalBanState
  PROVE  Inv'
<1>0. /\ Disengages /\ ProducerHasKey' /\ UNCHANGED <<wire, wk>>
      /\ clr' = IdleClear
  BY DEF ClearTerminalBanState, Disengages, ProducerHasKey, Inv
<1>1. ClearInv'
  BY <1>0 DEF ClearInv, IdleClear
<1>2. \/ UNCHANGED <<row, effects, wd>>
      \/ /\ row' = [k \in Keys |-> IF Retired(k) THEN AbsentRow ELSE row[k]]
         /\ effects' = [k \in Keys |-> IF Retired(k) THEN 0 ELSE effects[k]]
         /\ wd' = [wd EXCEPT !.fresh = @ /\ ~Retired(wd.key)]
  BY DEF ClearTerminalBanState
<1>3. CASE UNCHANGED <<row, effects, wd>>
  <2>1. \A k \in Keys : RowInv(k)'
    BY <1>3 DEF Inv, RowInv
  <2>2. \A k \in Keys, w \in Workers : EngInv(k, w)'
    BY <1>0, <1>3 DEF Inv, EngInv, Eng
  <2>3. Exclusive' /\ WorkerHasKey' /\ WatchdogInv'
    BY <1>0, <1>3 DEF Inv, Exclusive, Eng, WorkerHasKey, WatchdogInv, WatchdogHasKey
  <2>4. QED
    BY <1>0, <1>1, <2>1, <2>2, <2>3 DEF Inv
<1>4. CASE /\ row' = [k \in Keys |-> IF Retired(k) THEN AbsentRow ELSE row[k]]
           /\ effects' = [k \in Keys |-> IF Retired(k) THEN 0 ELSE effects[k]]
           /\ wd' = [wd EXCEPT !.fresh = @ /\ ~Retired(wd.key)]
  <2>1. \A k \in Keys : \/ row'[k] = row[k] /\ effects'[k] = effects[k]
                        \/ Retired(k) /\ row'[k] = AbsentRow /\ effects'[k] = 0
    BY <1>4
  <2>2. \A k \in Keys : RowInv(k)'
    BY <2>1 DEF Inv, RowInv, RowShape, AbsentRow
  <2>3. \A k \in Keys, w \in Workers : Eng(k, w) => ~Retired(k)
    <3> SUFFICES ASSUME NEW k \in Keys, NEW w \in Workers, Eng(k, w), Retired(k)
                 PROVE  FALSE
      OBVIOUS
    <3>1. row[k].status \in {"IN_PROGRESS", "AMBIGUOUS"} /\ RowShape(row[k])
      BY DEF Inv, EngInv, RowInv
    <3>2. QED
      BY <3>1 DEF Retired, Retirable, RowShape
  <2>4. \A k \in Keys, w \in Workers : EngInv(k, w)'
    <3> TAKE k \in Keys, w \in Workers
    <3>1. EngInv(k, w)
      BY DEF Inv
    <3>2. Eng(k, w)' <=> Eng(k, w)
      BY <1>0 DEF Eng
    <3>3. CASE ~Eng(k, w)
      BY <3>2, <3>3 DEF EngInv, Eng, EngagedPcs
    <3>4. CASE Eng(k, w)
      <4>1. row'[k] = row[k] /\ effects'[k] = effects[k]
        BY <2>1, <2>3, <3>4
      <4>2. \A b \in Bans \ {k} : row[b].status # "SUCCEEDED" =>
                                  row'[b].status # "SUCCEEDED"
        BY <2>1 DEF Keys, AbsentRow
      <4>3. QED
        BY <1>0, <3>1, <3>2, <4>1, <4>2 DEF EngInv
    <3>5. QED
      BY <3>3, <3>4
  <2>5. Exclusive' /\ WorkerHasKey'
    BY <1>0 DEF Inv, Exclusive, Eng, WorkerHasKey
  <2>6. WatchdogInv'
    <3> DEFINE f == wd.fresh /\ ~Retired(wd.key)
    <3>1. /\ wd'.pc = wd.pc /\ wd'.key = wd.key /\ wd'.snap = wd.snap
          /\ wd'.fresh = f
      BY <1>4 DEF Inv, TypeOK
    <3>2. f => wd.fresh /\ row'[wd.key] = row[wd.key]
      <4>1. f => wd.fresh /\ ~Retired(wd.key) /\ wd.key \in Keys
        BY DEF Inv, WatchdogInv, WatchdogHasKey
      <4> HIDE DEF f
      <4>2. QED
        BY <2>1, <4>1
    <3> HIDE DEF f
    <3>3. QED
      BY <3>1, <3>2 DEF Inv, WatchdogInv, WatchdogHasKey
  <2>7. QED
    BY <1>0, <1>1, <2>2, <2>4, <2>5, <2>6 DEF Inv
<1>5. QED
  BY <1>2, <1>3, <1>4

LEMMA NextInv ==
  ASSUME Inv, [Next]_vars
  PROVE  Inv'
<1>1. CASE UNCHANGED vars
  BY <1>1 DEF vars, Inv, TypeOK, ProducerHasKey, WorkerHasKey, RowInv, EngInv, Eng,
     Exclusive, WatchdogInv, WatchdogHasKey, ClearInv
<1>2. CASE Next
  <2>1. TypeOK'
    BY <1>2, NextType DEF Inv, WatchdogInv
  <2>2. CASE Producer
    BY <2>1, <2>2, ProducerInv
  <2>3. CASE \/ \E w \in Workers, k \in Keys : TakeJob(w, k) \/ StartImmediate(w, k)
             \/ \E w \in Workers : Crash(w)
             \/ \E k \in Keys : StallJob(k) \/ ExpireFailedJob(k)
    BY <2>1, <2>3, QueueInv
  <2>4. CASE \E w \in Workers : Executes(w)
    BY <2>1, <2>4, ExecutionInv
  <2>5. CASE \E e \in wire : MaxApplies(e[1], e[2]) \/ MaxRejects(e[1], e[2])
    <3>1. \A e \in wire : e[1] \in Keys /\ e[2] \in Workers
      BY DEF Inv, TypeOK
    <3>2. QED
      BY <2>1, <2>5, <3>1, MaxInv
  <2>6. CASE Watchdog
    BY <2>1, <2>6, WatchdogStep
  <2>7. CASE MemberReturns
    <3>1. UNCHANGED <<row, wire, effects, clr, wk, prod, wd>>
      BY <2>7 DEF MemberReturns
    <3>2. Disengages /\ ProducerHasKey' /\ WatchdogInv'
      BY <3>1 DEF Disengages, ProducerHasKey, WatchdogInv, WatchdogHasKey, Inv
    <3>3. QED
      BY <2>1, <3>1, <3>2, Frame
  <2>8. ASSUME NEW g \in BOOLEAN, ProbePresence(g) PROVE Inv'
    <3>1. UNCHANGED <<row, wire, effects, wk, prod, wd>>
          /\ clr' = [pc |-> "seen", guarded |-> g, later |-> {}, banned |-> {}]
      BY <2>8 DEF ProbePresence
    <3>2. ProducerHasKey' /\ WatchdogInv' /\ WorkerHasKey' /\ Exclusive' /\ ClearInv'
      BY <3>1 DEF ProducerHasKey, WatchdogInv, WatchdogHasKey, WorkerHasKey, Exclusive,
         Eng, ClearInv, Inv
    <3>3. /\ \A k \in Keys : RowInv(k)'
          /\ \A k \in Keys, w \in Workers : EngInv(k, w)'
      BY <3>1 DEF Inv, RowInv, EngInv, Eng
    <3>4. QED
      BY <2>1, <3>2, <3>3 DEF Inv
  <2>9. CASE ClearTerminalBanState
    BY <2>1, <2>9, ClearStep
  <2>10. QED
    BY <1>2, <2>2, <2>3, <2>4, <2>5, <2>6, <2>7, <2>8, <2>9 DEF Next
<1>3. QED
  BY <1>1, <1>2

LEMMA Invariance == Spec => []Inv
  BY InitInv, NextInv, PTL DEF Spec

(***************************************************************************)
(* What the invariant implies.                                             *)
(***************************************************************************)

LEMMA EngagedIsEng ==
  ASSUME Inv, NEW e \in Engaged
  PROVE  /\ e[1] \in Keys /\ e[2] \in Workers
         /\ e = <<e[1], e[2]>>
         /\ Eng(e[1], e[2])
<1>1. CASE e \in wire
  BY <1>1 DEF Inv, TypeOK, Eng
<1>2. CASE e \notin wire
  <2>1. PICK w \in Workers : e = <<wk[w].key, w>> /\ wk[w].pc \in EngagedPcs
    BY <1>2 DEF Engaged, EngagedPcs
  <2>2. wk[w].key \in Keys
    BY <2>1 DEF Inv, WorkerHasKey, EngagedPcs
  <2>3. QED
    BY <2>1, <2>2 DEF Eng
<1>3. QED
  BY <1>1, <1>2

\* Rows, jobs, workers and the watchdog keep their shape.
THEOREM TypeCorrect == Spec => []TypeOK
<1>1. Inv => TypeOK
  BY DEF Inv
<1>2. QED
  BY <1>1, Invariance, PTL

\* recordStarted excludes: at most one execution of the member is past its
\* start or has a request that MAX may still apply.
THEOREM MutualExclusion == Spec => []MemberExclusion
<1>1. Inv => MemberExclusion
  <2> SUFFICES ASSUME Inv, NEW e \in Engaged, NEW f \in Engaged PROVE e = f
    BY DEF MemberExclusion
  <2>1. /\ e[1] \in Keys /\ e[2] \in Workers /\ e = <<e[1], e[2]>> /\ Eng(e[1], e[2])
        /\ f[1] \in Keys /\ f[2] \in Workers /\ f = <<f[1], f[2]>> /\ Eng(f[1], f[2])
    BY EngagedIsEng
  <2>2. e[1] = f[1] /\ e[2] = f[2]
    BY <2>1 DEF Inv, Exclusive
  <2>3. QED
    BY <2>1, <2>2
<1>2. QED
  BY <1>1, Invariance, PTL

\* recordStarted lets no BAN or KICK pass a confirmed BAN, and no BAN is
\* confirmed while another BAN or KICK of the member runs.
THEOREM ConfirmedBanIsFinal == Spec => []BanIsFinal
<1>1. Inv => BanIsFinal
  <2> SUFFICES ASSUME Inv, NEW e \in Engaged, e[1] \notin Unbans
               PROVE  \A o \in Bans \ {e[1]} : row[o].status # "SUCCEEDED"
    BY DEF BanIsFinal
  <2>1. EngInv(e[1], e[2]) /\ Eng(e[1], e[2])
    BY EngagedIsEng DEF Inv
  <2>2. QED
    BY <2>1 DEF EngInv
<1>2. QED
  BY <1>1, Invariance, PTL

\* No retry, redelivery, failover or requeue applies a key twice.
THEOREM NeverTwice == Spec => []AppliedOnce
<1>1. Inv => AppliedOnce
  BY DEF Inv, RowInv, AppliedOnce
<1>2. QED
  BY <1>1, Invariance, PTL

\* The ledger tells the truth about MAX.
THEOREM LedgerIsTruthful == Spec => []OutcomeTruthful
<1>1. Inv => OutcomeTruthful
  <2> SUFFICES ASSUME Inv, NEW k \in Keys
               PROVE  /\ row[k].status = "SUCCEEDED" => effects[k] = 1
                      /\ row[k].status \in {"ENQUEUED", "FAILED_RETRYABLE",
                                           "FAILED_TERMINAL"} =>
                           effects[k] = 0 /\ \A e \in wire : e[1] # k
    BY DEF OutcomeTruthful
  <2>1. RowInv(k) /\ effects[k] \in Nat
    BY DEF Inv, TypeOK
  <2>2. ASSUME row[k].status \in {"ENQUEUED", "FAILED_RETRYABLE", "FAILED_TERMINAL"}
        PROVE  effects[k] = 0
    BY <2>1, <2>2 DEF RowInv
  <2>3. ASSUME row[k].status \in {"ENQUEUED", "FAILED_RETRYABLE", "FAILED_TERMINAL"},
               NEW e \in wire
        PROVE  e[1] # k
    <3>1. e \in Engaged
      BY DEF Engaged
    <3>2. EngInv(e[1], e[2]) /\ Eng(e[1], e[2])
      BY <3>1, EngagedIsEng DEF Inv
    <3>3. QED
      BY <2>3, <3>2 DEF EngInv
  <2>4. QED
    BY <2>1, <2>2, <2>3 DEF RowInv
<1>2. QED
  BY <1>1, Invariance, PTL

\* Only clearTerminalBanStateAfterUnban removes rows.
LEMMA RowsStay ==
  ASSUME Inv, Next, ~ClearTerminalBanState, NEW k \in Keys, Exists(row[k])
  PROVE  Exists(row'[k])
<1>1. row \in [Keys -> MemberRows] /\ row[k] \in MemberRows
  BY DEF Inv, TypeOK
<1>2. CASE RecordEnqueueOutcome
  <2>1. \A x \in MemberRows : Exists(x) => Exists(RecordEnqueuedIfAbsent(x))
                                       /\ Exists(RecordEnqueueFailedIfAbsent(x))
    BY RowShapes DEF RecordEnqueuedIfAbsent, RecordEnqueueFailedIfAbsent, Exists
  <2>2. QED
    BY <1>1, <1>2, <2>1 DEF RecordEnqueueOutcome, Write, KeepRow
<1>3. ASSUME NEW w \in Workers, RecordStarted(w) PROVE Exists(row'[k])
  <2>1. Exists(StartedSet(row[k]))
    BY <1>1, RowShapes DEF Exists
  <2>2. QED
    BY <1>1, <1>3, <2>1 DEF RecordStarted, Write, KeepRow
<1>4. ASSUME NEW w \in Workers, RecordSucceeded(w) PROVE Exists(row'[k])
  <2>1. Exists(SucceededSet(row[k]))
    BY <1>1, RowShapes DEF Exists
  <2>2. QED
    BY <1>1, <1>4, <2>1 DEF RecordSucceeded, Write, KeepRow
<1>5. ASSUME NEW w \in Workers, RecordFailed(w) PROVE Exists(row'[k])
  <2>1. \A x \in BOOLEAN : Exists(FailedRow(row[k], wk[w].out, x))
    BY <1>1, FailedRowShape DEF Exists, OpenStatuses
  <2>2. wk[w].final \in BOOLEAN
    BY DEF Inv, TypeOK, WorkerStates
  <2>3. KeepRow \/ \E x \in BOOLEAN :
          Write(wk[w].key, FailedRow(row[wk[w].key], wk[w].out, x))
    BY <1>5, <2>2 DEF RecordFailed
  <2>4. QED
    BY <1>1, <2>1, <2>3 DEF Write, KeepRow
<1>6. CASE WatchdogBooks
  <2>1. Exists(EnqueuedSet(row[k]))
    BY <1>1, RowShapes DEF Exists
  <2>2. QED
    BY <1>1, <1>6, <2>1 DEF WatchdogBooks
<1>7. CASE WatchdogApplies
  <2>1. Exists(WatchdogRow(row[k]))
    BY <1>1 DEF Exists, WatchdogRow, MemberRows
  <2>2. QED
    BY <1>1, <1>7, <2>1 DEF WatchdogApplies
<1>8. CASE UNCHANGED row
  BY <1>8
<1>9. QED
  <2>1. CASE Producer
    BY <1>2, <1>8, <2>1 DEF Producer, AssertCanEnqueue, RemoveRetainedFailedJob,
       AddActionJob, ObserveFailedAdd, RetryAddActionJob, ProducerFails, KeepRow
  <2>2. ASSUME NEW w \in Workers, Executes(w) PROVE Exists(row'[k])
    BY <1>3, <1>4, <1>5, <1>8, <2>2 DEF Executes, FailBeforeStart,
       RefuseBeforeRequest, SendRequest, GiveUp, NextCandidate, SettleJob, KeepRow
  <2>3. CASE Watchdog
    BY <1>6, <1>7, <1>8, <2>3 DEF Watchdog, WatchdogRead, WatchdogObserve,
       WatchdogDefers, WatchdogRequeues, WatchdogDies
  <2>4. CASE \/ \E w \in Workers, o \in Keys : TakeJob(w, o) \/ StartImmediate(w, o)
             \/ \E w \in Workers : Crash(w)
             \/ \E e \in wire : MaxApplies(e[1], e[2]) \/ MaxRejects(e[1], e[2])
             \/ \E o \in Keys : StallJob(o) \/ ExpireFailedJob(o)
             \/ MemberReturns
             \/ \E g \in BOOLEAN : ProbePresence(g)
    BY <1>8, <2>4 DEF TakeJob, StartImmediate, Crash, MaxApplies, MaxRejects, StallJob,
       ExpireFailedJob, MemberReturns, ProbePresence, KeepRow
  <2>5. QED
    BY <2>1, <2>2, <2>3, <2>4 DEF Next

\* prepareManualBanFanoutTarget passes the time of its presence read on: a BAN
\* that MAX applied after it keeps its row.
THEOREM NewerBansKeepTheirFence == Spec => FanoutKeepsNewerBans
<1>1. ASSUME Inv, [Next]_vars
      PROVE  [\A k \in Bans : clr.guarded /\ Exists(row[k]) /\ ~Exists(row'[k]) =>
                k \notin clr.banned]_vars
  <2> SUFFICES ASSUME NEW k \in Bans, clr.guarded, Exists(row[k]), ~Exists(row'[k]), Next
               PROVE  k \notin clr.banned
    BY <1>1 DEF vars
  <2>1. k \in Keys
    BY DEF Keys
  <2>2. ClearTerminalBanState
    BY <1>1, <2>1, RowsStay
  <2>3. Retired(k)
    BY <2>1, <2>2 DEF ClearTerminalBanState
  <2>4. row[k].status = "SUCCEEDED" /\ k \notin clr.later
    BY <2>3 DEF Retired
  <2>5. QED
    BY <1>1, <2>4 DEF Inv, ClearInv
<1>2. QED
  BY <1>1, Invariance, PTL DEF Spec, FanoutKeepsNewerBans
==============================================================================
