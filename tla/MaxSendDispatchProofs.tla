------------------------ MODULE MaxSendDispatchProofs ------------------------
(***************************************************************************)
(* Proofs about MaxSendDispatch, for every set of workers and bots and for *)
(* every bound.                                                            *)
(***************************************************************************)
EXTENDS MaxSendDispatch, TLAPS

(***************************************************************************)
(* The statements of the ledger keep a row a row.                          *)
(***************************************************************************)

\* Every statement of max-action-ledger.service.ts writes a well-formed row.
LEMMA StatementsKeepRows ==
  ASSUME NEW r \in Rows
  PROVE  /\ EnqueuedSet(r) \in Rows
         /\ RecordEnqueuedIfAbsent(r) \in Rows
         /\ RecordEnqueueFailedIfAbsent(r) \in Rows
         /\ RecordEnqueueAmbiguousIfAbsent(r) \in Rows
         /\ StartedSet(r) \in Rows
         /\ ReleaseSet(r) \in Rows
         /\ QuarantineSet(r) \in Rows
         /\ SucceededSet(r) \in Rows
         /\ NightRetrySet(r) \in Rows
         /\ \A t \in Nat, b \in Bots \cup {NoBot} : ClaimSet(r, t, b) \in Rows
         /\ \A t \in Nat : CompleteSet(r, t) \in Rows
         /\ \A x \in BOOLEAN : WatchdogSet(r, x) \in Rows
         /\ \A e \in ErrorClasses \cup {"none"}, x \in BOOLEAN :
              FailedSet(r, e, x) \in Rows
<1>1. EnqueuedSet(r) \in Rows
  BY DEF EnqueuedSet, Rows, Statuses, HttpClasses, ErrorCodes
<1>2. RecordEnqueuedIfAbsent(r) \in Rows
  BY <1>1 DEF RecordEnqueuedIfAbsent
<1>3. RecordEnqueueFailedIfAbsent(r) \in Rows
  BY DEF RecordEnqueueFailedIfAbsent, Rows, Statuses, ErrorCodes
<1>4. RecordEnqueueAmbiguousIfAbsent(r) \in Rows
  BY ZenonT(60) DEF RecordEnqueueAmbiguousIfAbsent, Rows, Statuses, HttpClasses, ErrorCodes
<1>5. StartedSet(r) \in Rows
  BY DEF StartedSet, Rows, Statuses
<1>6. ReleaseSet(r) \in Rows
  BY DEF ReleaseSet, Rows, Statuses, NoToken
<1>7. QuarantineSet(r) \in Rows
  BY DEF QuarantineSet, Rows, Statuses, HttpClasses, ErrorCodes
<1>8. SucceededSet(r) \in Rows
  BY DEF SucceededSet, Rows, Statuses, HttpClasses, ErrorCodes
<1>9. NightRetrySet(r) \in Rows
  BY DEF NightRetrySet, Rows, Statuses, ErrorCodes
<1>10. ASSUME NEW t \in Nat, NEW b \in Bots \cup {NoBot}
       PROVE  ClaimSet(r, t, b) \in Rows
  BY DEF ClaimSet, Rows
<1>11. ASSUME NEW t \in Nat PROVE CompleteSet(r, t) \in Rows
  BY DEF CompleteSet, Rows, Statuses, HttpClasses, ErrorCodes
<1>12. ASSUME NEW x \in BOOLEAN PROVE WatchdogSet(r, x) \in Rows
  <2>1. WatchdogStatus(r) \in Statuses
    BY DEF WatchdogStatus, Statuses
  <2> QED BY <2>1 DEF WatchdogSet, Rows, ErrorCodes
<1>13. ASSUME NEW e \in ErrorClasses \cup {"none"}, NEW x \in BOOLEAN
       PROVE  FailedSet(r, e, x) \in Rows
  <2>1. /\ FailedStatus(e) \in Statuses /\ FailedHttp(e) \in HttpClasses
        /\ FailedCode(e) \in ErrorCodes /\ FailedTerminal(e, x) \in BOOLEAN
    BY DEF FailedStatus, FailedHttp, FailedCode, FailedTerminal, Unrecoverable,
           IntrinsicallyTerminal,
           ErrorClasses, Statuses, HttpClasses, ErrorCodes
  <2>2. \A s \in Statuses, a, f \in BOOLEAN, h \in HttpClasses, c \in ErrorCodes :
          [r EXCEPT !.status = s, !.ambiguous = a, !.terminal = f, !.http = h,
                    !.code = c] \in Rows
    BY DEF Rows
  <2> QED BY <2>1, <2>2 DEF FailedSet
<1> QED
  BY <1>1, <1>2, <1>3, <1>4, <1>5, <1>6, <1>7, <1>8, <1>9, <1>10, <1>11,
     <1>12, <1>13

\* The missing row is a row.
LEMMA AbsentRowIsRow == AbsentRow \in Rows
BY DEF AbsentRow, Rows, Statuses, HttpClasses, ErrorCodes, NoToken, NoRemote

(***************************************************************************)
(* The helpers of the workers keep a worker a worker.                      *)
(***************************************************************************)
\* The workers on their own.
WorkersOK == wk \in [Workers -> WorkerStates]

\* A worker may be replaced by another worker state.
LEMMA WorkerStep ==
  ASSUME WorkersOK, NEW w \in Workers, NEW rec \in WorkerStates,
         wk' = [wk EXCEPT ![w] = rec]
  PROVE  WorkersOK'
BY DEF WorkersOK

\* An idle worker is a worker.
LEMMA IdleIsWorker == IdleWorker \in WorkerStates
BY DEF IdleWorker, WorkerStates, WorkerPcs, NoToken

\* The updates of a worker state that the actions make.
LEMMA WorkerFields ==
  ASSUME NEW r \in WorkerStates
  PROVE  /\ \A p \in WorkerPcs : [r EXCEPT !.pc = p] \in WorkerStates
         /\ \A p \in WorkerPcs, e \in ErrorClasses \cup {"none"} :
              [r EXCEPT !.pc = p, !.err = e] \in WorkerStates
         /\ \A p \in WorkerPcs, t \in Nat :
              [r EXCEPT !.pc = p, !.token = t] \in WorkerStates
         /\ \A p \in WorkerPcs, q \in BOOLEAN :
              [r EXCEPT !.pc = p, !.queued = q] \in WorkerStates
         /\ \A p \in WorkerPcs, q, f \in BOOLEAN :
              [r EXCEPT !.pc = p, !.queued = q, !.final = f] \in WorkerStates
         /\ \A p \in WorkerPcs, q \in BOOLEAN, e \in ErrorClasses \cup {"none"} :
              [r EXCEPT !.pc = p, !.queued = q, !.err = e] \in WorkerStates
         /\ \A p \in WorkerPcs, b \in Bots, s \in SUBSET Bots :
              [r EXCEPT !.pc = p, !.bot = b, !.tried = s] \in WorkerStates
         /\ \A p \in WorkerPcs, t \in Nat, n \in 0..1 :
              [r EXCEPT !.pc = p, !.token = t, !.tries = n] \in WorkerStates
         /\ \A p \in WorkerPcs, e \in ErrorClasses \cup {"none"}, t \in Nat, n \in 0..1 :
              [r EXCEPT !.pc = p, !.err = e, !.token = t, !.tries = n]
                \in WorkerStates
         /\ \A p \in WorkerPcs, b \in Bots, s \in SUBSET Bots, n \in 0..1,
               t \in Nat, e \in ErrorClasses \cup {"none"} :
              [r EXCEPT !.pc = p, !.bot = b, !.tried = s, !.tries = n,
                        !.token = t, !.err = e] \in WorkerStates
BY ZenonT(60) DEF WorkerStates

\* The places of a worker, by name.
LEMMA Pcs ==
  /\ "idle" \in WorkerPcs /\ "check" \in WorkerPcs /\ "start" \in WorkerPcs
  /\ "ready" \in WorkerPcs /\ "prepared" \in WorkerPcs /\ "lost" \in WorkerPcs
  /\ "foreign" \in WorkerPcs /\ "claimed" \in WorkerPcs
  /\ "waiting" \in WorkerPcs /\ "completing" \in WorkerPcs
  /\ "completed" \in WorkerPcs /\ "releasing" \in WorkerPcs
  /\ "quarantine" \in WorkerPcs /\ "failing" \in WorkerPcs
  /\ "settling" \in WorkerPcs /\ "done" \in WorkerPcs
BY DEF WorkerPcs

\* The error classes, by name.
LEMMA Errors ==
  /\ "guard" \in ErrorClasses /\ "circuit" \in ErrorClasses
  /\ "limited" \in ErrorClasses /\ "retryable" \in ErrorClasses
  /\ "upload" \in ErrorClasses /\ "rejected" \in ErrorClasses
  /\ "missing" \in ErrorClasses /\ "denied" \in ErrorClasses
  /\ "unrecoverable" \in ErrorClasses /\ "ambiguous" \in ErrorClasses
  /\ "finalized" \in ErrorClasses
BY DEF ErrorClasses

\* Goto, Throw, Return and Rethrow keep the workers well-formed.
LEMMA WorkerHelpers ==
  ASSUME WorkersOK, NEW w \in Workers
  PROVE  /\ \A p \in WorkerPcs : Goto(w, p) => WorkersOK'
         /\ \A e \in ErrorClasses \cup {"none"} : Throw(w, e) => WorkersOK'
         /\ Return(w) => WorkersOK'
         /\ \A e \in ErrorClasses \cup {"none"} : Rethrow(w, e) => WorkersOK'
<1>1. wk[w] \in WorkerStates
  BY DEF WorkersOK
<1>2. NoToken \in Nat /\ 0 \in 0..1 /\ wk[w].queued \in BOOLEAN
  BY <1>1 DEF NoToken, WorkerStates
<1>3. ASSUME NEW p \in WorkerPcs, Goto(w, p) PROVE WorkersOK'
  BY <1>1, <1>3, WorkerFields, WorkerStep DEF Goto
<1>4. ASSUME NEW e \in ErrorClasses \cup {"none"}, Throw(w, e) PROVE WorkersOK'
  <2> DEFINE err == IF e = "circuit" /\ wk[w].err = "denied" THEN "denied" ELSE e
  <2>1. err \in ErrorClasses \cup {"none"}
    BY Errors
  <2>2. [wk[w] EXCEPT !.pc = "failing", !.err = err, !.token = NoToken, !.tries = 0]
          \in WorkerStates
    <3> HIDE DEF err
    <3> QED BY <1>1, <1>2, <2>1, WorkerFields, Pcs
  <2> QED BY <1>4, <2>2, WorkerStep DEF Throw
<1>5. ASSUME Return(w) PROVE WorkersOK'
  BY <1>2, <1>5, WorkerFields, WorkerStep, Pcs, IdleIsWorker DEF Return
<1>6. ASSUME NEW e \in ErrorClasses \cup {"none"}, Rethrow(w, e) PROVE WorkersOK'
  BY <1>2, <1>6, WorkerFields, WorkerStep, Pcs, IdleIsWorker DEF Rethrow
<1> QED BY <1>3, <1>4, <1>5, <1>6

\* The queue commands keep a job a job.
LEMMA JobFields ==
  ASSUME NEW j \in Jobs
  PROVE  /\ NoJob \in Jobs
         /\ \A st \in JobStates : [j EXCEPT !.state = st] \in Jobs
         /\ \A st \in JobStates, a \in BOOLEAN :
              [j EXCEPT !.state = st, !.ambiguous = a] \in Jobs
         /\ \A st \in JobStates, o \in Workers \cup {NoOwner} :
              [j EXCEPT !.state = st, !.owner = o] \in Jobs
         /\ \A st \in JobStates, o \in Workers \cup {NoOwner}, n \in Nat :
              [j EXCEPT !.state = st, !.owner = o, !.made = n] \in Jobs
         /\ \A st \in JobStates, o \in Workers \cup {NoOwner}, n \in Nat :
              [j EXCEPT !.state = st, !.owner = o, !.stalls = n] \in Jobs
         /\ j.made + 1 \in Nat /\ j.stalls + 1 \in Nat
<1>1. NoJob \in Jobs
  BY DEF Jobs, NoJob, JobStates
<1>2. j.made + 1 \in Nat /\ j.stalls + 1 \in Nat
  BY DEF Jobs
<1> QED BY <1>1, <1>2 DEF Jobs

\* The states of a job, by name.
LEMMA JobStateNames ==
  /\ "absent" \in JobStates /\ "waiting" \in JobStates
  /\ "active" \in JobStates /\ "failed" \in JobStates
BY DEF JobStates

\* The states of the producer.
Producers == [pc : ProducerPcs, started : BOOLEAN]

\* The moves of the producer keep it well-formed.
LEMMA ProducerHelpers ==
  ASSUME prod \in Producers
  PROVE  /\ \A p \in ProducerPcs : ProducerGoto(p) => prod' \in Producers
         /\ ProducerStops => prod' \in Producers
         /\ NoteStart => prod' \in Producers
<1>1. ASSUME NEW p \in ProducerPcs, ProducerGoto(p) PROVE prod' \in Producers
  BY <1>1 DEF Producers, ProducerGoto
<1>2. "idle" \in ProducerPcs
  BY DEF ProducerPcs
<1>3. NoteStart => prod' \in Producers
  BY DEF Producers, NoteStart
<1> QED BY <1>1, <1>2, <1>3 DEF ProducerStops

\* The places of the producer, by name.
LEMMA ProducerPcNames ==
  /\ "idle" \in ProducerPcs /\ "remove" \in ProducerPcs
  /\ "add" \in ProducerPcs /\ "observe" \in ProducerPcs
  /\ "retryAdd" \in ProducerPcs /\ "enqueued" \in ProducerPcs
  /\ "enqueueFailed" \in ProducerPcs /\ "enqueueAmbiguous" \in ProducerPcs
BY DEF ProducerPcs

\* Each group of variables on its own.
RowOK == row \in Rows /\ seen \in BOOLEAN
HttpOK == inflight \in SUBSET Posts /\ accepted \in SUBSET Posts
          /\ rejected \in SUBSET Posts /\ nextToken \in Nat \ {0}
RestOK == wd \in [pc : {"idle", "read", "decide"}, obs : JobStates]
          /\ used \in [enqueues : Nat, immediates : Nat, repairs : Nat]

TypeParts == RowOK /\ job \in Jobs /\ WorkersOK /\ HttpOK /\ prod \in Producers
             /\ RestOK

\* TypeOK is the conjunction of its groups.
LEMMA TypeOKParts == TypeOK <=> TypeParts
BY DEF TypeOK, TypeParts, RowOK, WorkersOK, HttpOK, Producers, RestOK

\* Updates of a worker that the code writes out.
LEMMA WorkerFacts ==
  ASSUME WorkersOK, NEW w \in Workers
  PROVE  /\ wk[w] \in WorkerStates /\ IdleWorker \in WorkerStates
         /\ \A rec \in WorkerStates : wk' = [wk EXCEPT ![w] = rec] => WorkersOK'
         /\ wk[w].queued \in BOOLEAN /\ wk[w].final \in BOOLEAN
         /\ wk[w].token \in Nat /\ wk[w].bot \in Bots \cup {NoBot}
         /\ wk[w].tried \in SUBSET Bots
         /\ wk[w].err \in ErrorClasses \cup {"none"}
         /\ NoToken \in Nat /\ 0 \in 0..1 /\ 1 \in 0..1
BY WorkerStep, IdleIsWorker DEF WorkersOK, WorkerStates, NoToken

\* Every action keeps every group of variables well-formed.
LEMMA TypeStep == TypeOK /\ [Next]_vars => TypeOK'
<1> SUFFICES ASSUME TypeOK, [Next]_vars PROVE TypeOK'
  OBVIOUS
<1>0. RowOK /\ job \in Jobs /\ WorkersOK /\ HttpOK /\ prod \in Producers /\ RestOK
  BY TypeOKParts DEF TypeParts
<1>P. SUFFICES TypeParts'
  BY DEF TypeOK, TypeParts, RowOK, WorkersOK, HttpOK, Producers, RestOK
<1>1. ASSUME AssertCanEnqueue PROVE TypeParts'
  <2>1. RowOK'
    BY <1>0, <1>1, AbsentRowIsRow
    DEF AssertCanEnqueue, RowOK, WriteIf, Write, KeepRow
  <2>2. prod' \in Producers
    BY <1>0, <1>1, ProducerHelpers, ProducerPcNames DEF AssertCanEnqueue
  <2>3. RestOK'
    BY <1>0, <1>1 DEF AssertCanEnqueue, RestOK
  <2> QED BY <1>0, <1>1, <2>1, <2>2, <2>3
          DEF AssertCanEnqueue, TypeParts, http, WorkersOK, HttpOK
<1>2. ASSUME RemoveRetainedFailedJob PROVE TypeParts'
  <2>1. job' \in Jobs
    BY <1>0, <1>2, JobFields, JobStateNames DEF RemoveRetainedFailedJob
  <2>2. prod' \in Producers
    BY <1>0, <1>2, ProducerHelpers, ProducerPcNames DEF RemoveRetainedFailedJob
  <2> QED BY <1>0, <1>2, <2>1, <2>2
          DEF RemoveRetainedFailedJob, TypeParts, http, RowOK, KeepRow,
              WorkersOK, HttpOK, RestOK
<1>3. ASSUME AddActionJob PROVE TypeParts'
  <2>1. job' \in Jobs
    BY ZenonT(60), <1>0, <1>3, JobFields, JobStateNames DEF AddActionJob, QueueAdd
  <2>2. prod' \in Producers
    BY <1>0, <1>3, ProducerHelpers, ProducerPcNames DEF AddActionJob
  <2> QED BY <1>0, <1>3, <2>1, <2>2
          DEF AddActionJob, TypeParts, http, RowOK, KeepRow, WorkersOK,
              HttpOK, RestOK
<1>4. ASSUME ObserveFailedAdd PROVE TypeParts'
  <2>1. prod' \in Producers
    BY <1>0, <1>4, ProducerHelpers, ProducerPcNames DEF ObserveFailedAdd
  <2> QED BY <1>0, <1>4, <2>1
          DEF ObserveFailedAdd, TypeParts, http, RowOK, KeepRow,
              WorkersOK, HttpOK, RestOK
<1>5. ASSUME RetryAddActionJob PROVE TypeParts'
  <2>1. job' \in Jobs
    BY ZenonT(60), <1>0, <1>5, JobFields, JobStateNames DEF RetryAddActionJob, QueueAdd
  <2>2. prod' \in Producers
    BY <1>0, <1>5, ProducerHelpers, ProducerPcNames DEF RetryAddActionJob
  <2> QED BY <1>0, <1>5, <2>1, <2>2
          DEF RetryAddActionJob, TypeParts, http, RowOK, KeepRow,
              WorkersOK, HttpOK, RestOK
<1>6. ASSUME RecordEnqueueOutcome PROVE TypeParts'
  <2>1. RowOK'
    BY <1>0, <1>6, StatementsKeepRows
    DEF RecordEnqueueOutcome, RowOK, MayWrite, WriteIf, Write, KeepRow
  <2>2. prod' \in Producers
    BY <1>0, <1>6, ProducerHelpers, ProducerPcNames DEF RecordEnqueueOutcome
  <2> QED BY <1>0, <1>6, <2>1, <2>2
          DEF RecordEnqueueOutcome, TypeParts, http, WorkersOK, HttpOK,
              RestOK
<1>7. ASSUME NEW w \in Workers, TakeJob(w)
      PROVE  TypeParts'
  <2>1. job' \in Jobs
    BY <1>0, <1>7, JobFields, JobStateNames DEF TakeJob
  <2>2. WorkersOK'
    <3> DEFINE fin == job.made + 1 >= MaxAttempts
    <3>1. [IdleWorker EXCEPT !.pc = "check", !.queued = TRUE, !.final = fin]
            \in WorkerStates
      <4>1. fin \in BOOLEAN
        OBVIOUS
      <4> HIDE DEF fin
      <4> QED BY <4>1, IdleIsWorker, WorkerFields, Pcs
    <3> QED BY <1>0, <1>7, <3>1, WorkerFacts DEF TakeJob
  <2> QED BY <1>0, <1>7, <2>1, <2>2
          DEF TakeJob, TypeParts, http, RowOK, KeepRow, HttpOK, RestOK
<1>8. ASSUME NEW w \in Workers, StartImmediate(w)
      PROVE  TypeParts'
  <2>1. WorkersOK'
    BY <1>0, <1>8, IdleIsWorker, WorkerHelpers, WorkerFacts, WorkerFields, Pcs,
       Errors
    DEF StartImmediate
  <2>2. RestOK'
    BY <1>0, <1>8 DEF StartImmediate, RestOK
  <2> QED BY <1>0, <1>8, <2>1, <2>2
          DEF StartImmediate, TypeParts, http, RowOK, KeepRow, HttpOK
<1>9. ASSUME NEW w \in Workers, AssertCanExecute(w)
      PROVE  TypeParts'
  <2>1. RowOK'
    BY <1>0, <1>9, AbsentRowIsRow
    DEF AssertCanExecute, RowOK, WriteIf, Write, KeepRow
  <2>2. WorkersOK'
    BY <1>0, <1>9, WorkerHelpers, WorkerFacts, Pcs, Errors DEF AssertCanExecute
  <2> QED BY <1>0, <1>9, <2>1, <2>2
          DEF AssertCanExecute, TypeParts, http, HttpOK, RestOK
<1>10. ASSUME NEW w \in Workers, FailBeforeStart(w)
      PROVE  TypeParts'
  <2>1. WorkersOK'
    BY <1>0, <1>10, WorkerHelpers, WorkerFacts, Pcs, Errors DEF FailBeforeStart
  <2> QED BY <1>0, <1>10, <2>1
          DEF FailBeforeStart, TypeParts, http, RowOK, KeepRow, HttpOK,
              RestOK
<1>11. ASSUME NEW w \in Workers, RecordStarted(w)
      PROVE  TypeParts'
  <2>1. RowOK'
    BY <1>0, <1>11, StatementsKeepRows
    DEF RecordStarted, RowOK, WriteIf, Write, KeepRow
  <2>2. WorkersOK'
    <3>1. \A b \in Bots : {b} \in SUBSET Bots
      OBVIOUS
    <3> QED BY <1>0, <1>11, <3>1, WorkerHelpers, WorkerFacts, WorkerFields, Pcs,
               Errors DEF RecordStarted
  <2>3. prod' \in Producers
    BY <1>0, <1>11, ProducerHelpers, ProducerPcNames DEF RecordStarted
  <2> QED BY <1>0, <1>11, <2>1, <2>2, <2>3
          DEF RecordStarted, TypeParts, http, HttpOK, RestOK
<1>12. ASSUME NEW w \in Workers, RecordPrepared(w)
      PROVE  TypeParts'
  <2>1. RowOK'
    BY <1>0, <1>12 DEF RecordPrepared, RowOK, WriteIf, Write, KeepRow
  <2>2. WorkersOK'
    BY <1>0, <1>12, WorkerHelpers, WorkerFacts, Pcs, Errors DEF RecordPrepared
  <2> QED BY <1>0, <1>12, <2>1, <2>2
          DEF RecordPrepared, TypeParts, http, HttpOK, RestOK
<1>13. ASSUME NEW w \in Workers, RecoverReceipt(w)
      PROVE  TypeParts'
  <2>1. WorkersOK'
    BY <1>0, <1>13, WorkerHelpers, WorkerFacts, Pcs, Errors DEF RecoverReceipt
  <2> QED BY <1>0, <1>13, <2>1
          DEF RecoverReceipt, TypeParts, http, RowOK, KeepRow, HttpOK,
              RestOK
<1>14. ASSUME NEW w \in Workers, FailBeforeClaim(w)
      PROVE  TypeParts'
  <2>1. WorkersOK'
    BY <1>0, <1>14, WorkerHelpers, WorkerFacts, Pcs, Errors DEF FailBeforeClaim
  <2> QED BY <1>0, <1>14, <2>1
          DEF FailBeforeClaim, TypeParts, http, RowOK, KeepRow, HttpOK,
              RestOK
<1>15. ASSUME NEW w \in Workers, ClaimSendDispatch(w)
      PROVE  TypeParts'
  <2>1. RowOK'
    BY ZenonT(60), <1>0, <1>15, StatementsKeepRows, WorkerFacts
    DEF ClaimSendDispatch, RowOK, HttpOK, Write, KeepRow
  <2>2. WorkersOK'
    BY <1>0, <1>15, WorkerHelpers, WorkerFacts, WorkerFields, Pcs
    DEF ClaimSendDispatch, HttpOK
  <2>3. HttpOK'
    BY <1>0, <1>15 DEF ClaimSendDispatch, HttpOK, http
  <2>4. prod' \in Producers
    BY <1>0, <1>15, ProducerHelpers, ProducerPcNames DEF ClaimSendDispatch
  <2> QED BY <1>0, <1>15, <2>1, <2>2, <2>3, <2>4
          DEF ClaimSendDispatch, TypeParts, http, RestOK
<1>16. ASSUME NEW w \in Workers, ClaimAnswerLost(w)
      PROVE  TypeParts'
  <2>1. RowOK'
    BY <1>0, <1>16, StatementsKeepRows, WorkerFacts
    DEF ClaimAnswerLost, RowOK, HttpOK, Write
  <2>2. WorkersOK'
    BY <1>0, <1>16, WorkerHelpers, WorkerFacts, Pcs, Errors DEF ClaimAnswerLost
  <2>3. HttpOK'
    BY <1>0, <1>16 DEF ClaimAnswerLost, HttpOK, http
  <2>4. prod' \in Producers
    BY <1>0, <1>16, ProducerHelpers, ProducerPcNames DEF ClaimAnswerLost
  <2> QED BY <1>0, <1>16, <2>1, <2>2, <2>3, <2>4
          DEF ClaimAnswerLost, TypeParts, http, RestOK
<1>17. ASSUME NEW w \in Workers, InspectLostClaim(w)
      PROVE  TypeParts'
  <2>1. WorkersOK'
    BY <1>0, <1>17, WorkerHelpers, WorkerFacts, WorkerFields, Pcs, Errors
    DEF InspectLostClaim, RowOK, Rows
  <2> QED BY <1>0, <1>17, <2>1
          DEF InspectLostClaim, TypeParts, http, RowOK, KeepRow, HttpOK,
              RestOK
<1>18. ASSUME NEW w \in Workers, QuarantineForeignFence(w)
      PROVE  TypeParts'
  <2>1. RowOK'
    BY <1>0, <1>18, StatementsKeepRows
    DEF QuarantineForeignFence, RowOK, Write, KeepRow
  <2>2. WorkersOK'
    BY <1>0, <1>18, WorkerHelpers, WorkerFacts, WorkerFields, Pcs, Errors
    DEF QuarantineForeignFence
  <2> QED BY <1>0, <1>18, <2>1, <2>2
          DEF QuarantineForeignFence, TypeParts, http, HttpOK, RestOK
<1>19. ASSUME NEW w \in Workers, GuardRejects(w)
      PROVE  TypeParts'
  <2>1. WorkersOK'
    BY <1>0, <1>19, WorkerHelpers, WorkerFacts, WorkerFields, Pcs, Errors
    DEF GuardRejects
  <2> QED BY <1>0, <1>19, <2>1
          DEF GuardRejects, TypeParts, http, RowOK, KeepRow, HttpOK,
              RestOK
<1>20. ASSUME NEW w \in Workers, PostMessage(w)
      PROVE  TypeParts'
  <2>1. WorkersOK'
    BY <1>0, <1>20, WorkerHelpers, WorkerFacts, Pcs, Errors DEF PostMessage
  <2>2. HttpOK'
    BY <1>0, <1>20, WorkerFacts DEF PostMessage, HttpOK, Posts, PostOf
  <2> QED BY <1>0, <1>20, <2>1, <2>2
          DEF PostMessage, TypeParts, http, RowOK, KeepRow, RestOK
<1>21. ASSUME NEW w \in Workers, ReceiveReply(w)
      PROVE  TypeParts'
  <2>1. WorkersOK'
    BY ZenonT(60), <1>0, <1>21, WorkerHelpers, WorkerFacts, WorkerFields, Pcs, Errors
    DEF ReceiveReply
  <2>2. HttpOK'
    BY <1>0, <1>21 DEF ReceiveReply, HttpOK
  <2> QED BY <1>0, <1>21, <2>1, <2>2
          DEF ReceiveReply, TypeParts, http, RowOK, KeepRow, RestOK
<1>22. ASSUME NEW w \in Workers, CompleteSendDispatch(w)
      PROVE  TypeParts'
  <2>1. RowOK'
    BY <1>0, <1>22, StatementsKeepRows, WorkerFacts
    DEF CompleteSendDispatch, RowOK, MayWrite, WriteIf, Write, KeepRow
  <2>2. WorkersOK'
    BY <1>0, <1>22, WorkerHelpers, WorkerFacts, Pcs, Errors
    DEF CompleteSendDispatch
  <2> QED BY <1>0, <1>22, <2>1, <2>2
          DEF CompleteSendDispatch, TypeParts, http, HttpOK, RestOK
<1>23. ASSUME NEW w \in Workers, ReleaseSendDispatch(w)
      PROVE  TypeParts'
  <2>1. RowOK'
    BY <1>0, <1>23, StatementsKeepRows
    DEF ReleaseSendDispatch, RowOK, MayWrite, WriteIf, Write, KeepRow
  <2>2. WorkersOK'
    BY <1>0, <1>23, WorkerHelpers, WorkerFacts, Pcs, Errors
    DEF ReleaseSendDispatch
  <2> QED BY <1>0, <1>23, <2>1, <2>2
          DEF ReleaseSendDispatch, TypeParts, http, HttpOK, RestOK
<1>24. ASSUME NEW w \in Workers, ThrowAmbiguousSend(w)
      PROVE  TypeParts'
  <2>1. RowOK'
    BY <1>0, <1>24, StatementsKeepRows
    DEF ThrowAmbiguousSend, RowOK, MayWrite, WriteIf, Write, KeepRow
  <2>2. WorkersOK'
    BY <1>0, <1>24, WorkerHelpers, WorkerFacts, Pcs, Errors
    DEF ThrowAmbiguousSend
  <2> QED BY <1>0, <1>24, <2>1, <2>2
          DEF ThrowAmbiguousSend, TypeParts, http, HttpOK, RestOK
<1>25. ASSUME NEW w \in Workers, AfterCompletion(w)
      PROVE  TypeParts'
  <2>1. RowOK'
    BY <1>0, <1>25, StatementsKeepRows
    DEF AfterCompletion, RowOK, MayWrite, WriteIf, Write, KeepRow
  <2>2. WorkersOK'
    BY <1>0, <1>25, WorkerHelpers, WorkerFacts, Pcs, Errors DEF AfterCompletion
  <2> QED BY <1>0, <1>25, <2>1, <2>2
          DEF AfterCompletion, TypeParts, http, HttpOK, RestOK
<1>26. ASSUME NEW w \in Workers, NextCandidate(w)
      PROVE  TypeParts'
  <2>1. WorkersOK'
    <3>1. PICK b \in Bots \ wk[w].tried :
            wk' = [wk EXCEPT ![w] = [wk[w] EXCEPT !.pc = "ready", !.bot = b,
                     !.tried = @ \cup {b}, !.tries = 0, !.token = NoToken,
                     !.err = IF @ = "denied" THEN @ ELSE "none"]]
      BY <1>26 DEF NextCandidate
    <3> DEFINE tried == wk[w].tried \cup {b}
               err == IF wk[w].err = "denied" THEN wk[w].err ELSE "none"
    <3>2. tried \in SUBSET Bots
      BY <1>0, WorkerFacts
    <3>3. wk[w] \in WorkerStates /\ NoToken \in Nat /\ 0 \in 0..1
      BY <1>0, WorkerFacts
    <3>4. err \in ErrorClasses \cup {"none"}
      BY <1>0, WorkerFacts
    <3>5. [wk[w] EXCEPT !.pc = "ready", !.bot = b, !.tried = tried,
             !.tries = 0, !.token = NoToken, !.err = err] \in WorkerStates
      <4> HIDE DEF tried, err
      <4> QED BY <3>2, <3>3, <3>4, Pcs DEF WorkerStates
    <3> QED BY <1>0, <3>1, <3>5, WorkerStep
  <2> QED BY <1>0, <1>26, <2>1
          DEF NextCandidate, TypeParts, http, RowOK, KeepRow, HttpOK,
              RestOK
<1>27. ASSUME NEW w \in Workers, RecordFailed(w)
      PROVE  TypeParts'
  <2>1. RowOK'
    BY ZenonT(60), <1>0, <1>27, StatementsKeepRows, WorkerFacts
    DEF RecordFailed, RowOK, MayWrite, WriteIf, Write, KeepRow
  <2>2. WorkersOK'
    BY <1>0, <1>27, WorkerHelpers, WorkerFacts, Pcs, Errors DEF RecordFailed
  <2> QED BY <1>0, <1>27, <2>1, <2>2
          DEF RecordFailed, TypeParts, http, HttpOK, RestOK
<1>28. ASSUME NEW w \in Workers, SettleJob(w)
      PROVE  TypeParts'
  <2>1. job' \in Jobs
    <3> DEFINE amb == wk[w].err \in {"ambiguous", "finalized"}
    <3>1. NoJob \in Jobs /\ [NoJob EXCEPT !.state = "failed", !.ambiguous = amb] \in Jobs
      <4>1. amb \in BOOLEAN
        OBVIOUS
      <4> HIDE DEF amb
      <4> QED BY <1>0, <4>1, JobFields, JobStateNames
    <3>2. [job EXCEPT !.state = "waiting", !.owner = NoOwner, !.made = @ + 1] \in Jobs
      BY <1>0, JobFields, JobStateNames
    <3> QED BY <1>0, <1>28, <3>1, <3>2 DEF SettleJob
  <2>2. WorkersOK'
    BY <1>0, <1>28, IdleIsWorker, WorkerHelpers, WorkerFacts, Pcs, Errors
    DEF SettleJob
  <2> QED BY <1>0, <1>28, <2>1, <2>2
          DEF SettleJob, TypeParts, http, RowOK, KeepRow, HttpOK, RestOK
<1>29. ASSUME NEW w \in Workers, Crash(w)
      PROVE  TypeParts'
  <2>1. WorkersOK'
    BY <1>0, <1>29, IdleIsWorker, WorkerHelpers, WorkerFacts, Pcs, Errors
    DEF Crash
  <2> QED BY <1>0, <1>29, <2>1
          DEF Crash, TypeParts, http, RowOK, KeepRow, HttpOK, RestOK
<1>30. ASSUME StallJob PROVE TypeParts'
  <2>1. job' \in Jobs
    BY <1>0, <1>30, JobFields, JobStateNames DEF StallJob
  <2> QED BY <1>0, <1>30, <2>1
          DEF StallJob, TypeParts, http, RowOK, KeepRow, WorkersOK,
              HttpOK, RestOK
<1>31. ASSUME WatchdogRead PROVE TypeParts'
  <2>1. RowOK'
    BY <1>0, <1>31 DEF WatchdogRead, RowOK
  <2>2. RestOK'
    BY <1>0, <1>31 DEF WatchdogRead, RestOK
  <2> QED BY <1>0, <1>31, <2>1, <2>2
          DEF WatchdogRead, TypeParts, http, WorkersOK, HttpOK
<1>32. ASSUME WatchdogObserve PROVE TypeParts'
  <2>1. RestOK'
    BY <1>0, <1>32 DEF WatchdogObserve, RestOK, Jobs
  <2> QED BY <1>0, <1>32, <2>1
          DEF WatchdogObserve, TypeParts, http, RowOK, KeepRow,
              WorkersOK, HttpOK
<1>33. ASSUME WatchdogDefers PROVE TypeParts'
  <2>1. RowOK'
    BY <1>0, <1>33 DEF WatchdogDefers, RowOK
  <2>2. RestOK'
    BY <1>0, <1>33, JobStateNames DEF WatchdogDefers, RestOK
  <2> QED BY <1>0, <1>33, <2>1, <2>2
          DEF WatchdogDefers, TypeParts, http, WorkersOK, HttpOK
<1>34. ASSUME WatchdogApplies PROVE TypeParts'
  <2>1. RowOK'
    BY <1>0, <1>34, StatementsKeepRows
    DEF WatchdogApplies, RowOK, Write, KeepRow
  <2>2. RestOK'
    BY <1>0, <1>34, JobStateNames DEF WatchdogApplies, RestOK
  <2> QED BY <1>0, <1>34, <2>1, <2>2
          DEF WatchdogApplies, TypeParts, http, WorkersOK, HttpOK
<1>35. ASSUME NightModeRetry PROVE TypeParts'
  <2>1. RowOK'
    BY <1>0, <1>35, StatementsKeepRows DEF NightModeRetry, RowOK, Write
  <2>2. RestOK'
    BY <1>0, <1>35 DEF NightModeRetry, RestOK
  <2> QED BY <1>0, <1>35, <2>1, <2>2
          DEF NightModeRetry, TypeParts, http, WorkersOK, HttpOK
<1>36. ASSUME ReleasePreDispatchPublication PROVE TypeParts'
  <2>1. RowOK'
    BY <1>0, <1>36, AbsentRowIsRow
    DEF ReleasePreDispatchPublication, RowOK, Write
  <2>2. RestOK'
    BY <1>0, <1>36 DEF ReleasePreDispatchPublication, RestOK
  <2> QED BY <1>0, <1>36, <2>1, <2>2
          DEF ReleasePreDispatchPublication, TypeParts, http, WorkersOK,
              HttpOK
<1>37. ASSUME NEW p \in inflight, MaxAccepts(p) \/ MaxRejects(p)
      PROVE  TypeParts'
  <2>1. HttpOK'
    BY <1>0, <1>37 DEF MaxAccepts, MaxRejects, HttpOK
  <2> QED BY <1>0, <1>37, <2>1
          DEF MaxAccepts, MaxRejects, TypeParts, RowOK, KeepRow, WorkersOK, RestOK
<1>38. ASSUME ExpireFailedJob PROVE TypeParts'
  <2>1. job' \in Jobs
    BY <1>0, <1>38, JobFields DEF ExpireFailedJob
  <2>2. RestOK'
    BY <1>0, <1>38 DEF ExpireFailedJob, RestOK
  <2> QED BY <1>0, <1>38, <2>1, <2>2
          DEF ExpireFailedJob, TypeParts, http, RowOK, KeepRow, WorkersOK, HttpOK
<1>39. ASSUME ProducerFails PROVE TypeParts'
  <2>1. prod' \in Producers
    BY <1>0, <1>39, ProducerHelpers DEF ProducerFails
  <2> QED BY <1>0, <1>39, <2>1
          DEF ProducerFails, TypeParts, http, RowOK, KeepRow, WorkersOK,
              HttpOK, RestOK
<1>40. ASSUME NEW w \in Workers, StartAnswerLost(w) PROVE TypeParts'
  <2>1. RowOK'
    BY <1>0, <1>40, StatementsKeepRows DEF StartAnswerLost, RowOK, Write
  <2>2. WorkersOK'
    BY <1>0, <1>40, WorkerHelpers, WorkerFacts, Errors DEF StartAnswerLost
  <2>3. prod' \in Producers
    BY <1>0, <1>40, ProducerHelpers DEF StartAnswerLost
  <2> QED BY <1>0, <1>40, <2>1, <2>2, <2>3
          DEF StartAnswerLost, TypeParts, http, HttpOK, RestOK
<1>41. ASSUME NEW w \in Workers, LostClaimUnreadable(w) PROVE TypeParts'
  <2>1. RowOK'
    BY <1>0, <1>41, StatementsKeepRows
    DEF LostClaimUnreadable, RowOK, MayWrite, WriteIf, Write, KeepRow
  <2>2. WorkersOK'
    BY <1>0, <1>41, WorkerHelpers, WorkerFacts, Errors DEF LostClaimUnreadable
  <2> QED BY <1>0, <1>41, <2>1, <2>2
          DEF LostClaimUnreadable, TypeParts, http, HttpOK, RestOK
<1>42. CASE UNCHANGED vars
  BY <1>0, <1>42 DEF vars, TypeParts, RowOK, WorkersOK, HttpOK, RestOK
<1> QED
  BY <1>1, <1>2, <1>3, <1>4, <1>5, <1>6, <1>7, <1>8, <1>9, <1>10, <1>11, <1>12,
     <1>13, <1>14, <1>15, <1>16, <1>17, <1>18, <1>19, <1>20, <1>21, <1>22,
     <1>23, <1>24, <1>25, <1>26, <1>27, <1>28, <1>29, <1>30, <1>31, <1>32,
     <1>33, <1>34, <1>35, <1>36, <1>37, <1>38, <1>39, <1>40, <1>41, <1>42
  DEF Next, Producer, Executes, Watchdog

\* The initial state is well-formed.
LEMMA TypeInit == Init => TypeOK
<1> SUFFICES ASSUME Init PROVE TypeOK
  OBVIOUS
<1>1. RowOK
  BY AbsentRowIsRow DEF Init, RowOK
<1>2. job \in Jobs
  BY DEF Init, NoJob, Jobs, JobStates
<1>3. WorkersOK
  BY IdleIsWorker DEF Init, WorkersOK
<1>4. HttpOK /\ RestOK
  BY JobStateNames DEF Init, HttpOK, RestOK
<1>5. prod \in Producers
  BY ProducerPcNames DEF Init, Producers
<1> QED BY <1>1, <1>2, <1>3, <1>4, <1>5, TypeOKParts DEF TypeParts

\* Every reachable state is well-typed, for every value of the constants.  In
\* particular tries stays within 0..1: executeQueuedSendMessage attempts the
\* claim at most once more after a foreign fence that went away.
THEOREM TypeCorrect == Spec => []TypeOK
BY TypeInit, TypeStep, PTL DEF Spec

------------------------------------------------------------------------------
(***************************************************************************)
(* DispatchInv is inductive; the safety properties of MaxSendDispatch      *)
(* follow from it.  Most steps leave the fence columns and MAX alone and   *)
(* move a worker to a place where it owns nothing: they are "quiet" and    *)
(* share one lemma.  The others are the claim, the request, the answer of  *)
(* MAX, the receipt and the release.                                       *)
(***************************************************************************)

HotPcs == {"claimed", "waiting", "completing", "releasing", "completed", "done"}

\* Row s has the fence and the receipt of row r, and its verdict follows on r's.
Benign(r, s) == /\ s.token = r.token
                /\ s.remote = r.remote
                /\ Fenced(r) => s.bot = r.bot
                /\ r.ambiguous => s.ambiguous
                /\ r.terminal /\ Fenced(r) => s.terminal
                /\ r.terminal /\ s.ambiguous => r.ambiguous \/ Fenced(r)

\* A step writes the row without touching fence or receipt.
BenignWrite == /\ Benign(row, row')
               /\ SoundRow(row')
               /\ seen' => ~row'.terminal

QuietMove(v) ==
  \/ wk'[v] = wk[v]
  \/ wk'[v].pc \notin HotPcs
  \/ wk'[v].pc \in {"completed", "done"} /\ Completed(row)

Quiet == \A v \in Workers : QuietMove(v)

\* The steps by what they do to the fence and to MAX.
QuietKind == /\ BenignWrite
             /\ UNCHANGED http /\ UNCHANGED nextToken
             /\ Quiet

ClaimKind(w) == /\ ClaimWhere(row)
                /\ row' = ClaimSet(row, nextToken, wk[w].bot)
                /\ seen' = FALSE
                /\ nextToken' = nextToken + 1
                /\ UNCHANGED http
                /\ \/ Quiet
                   \/ wk' = [wk EXCEPT ![w] = [wk[w] EXCEPT !.pc = "claimed",
                                                            !.token = nextToken]]

OwnerKind(w) == \/ GuardRejects(w) \/ PostMessage(w) \/ ReceiveReply(w)
                \/ CompleteSendDispatch(w) \/ ReleaseSendDispatch(w)

MaxKind(p) == MaxAccepts(p) \/ MaxRejects(p)

\* A quiet step keeps the invariant.
LEMMA QuietStep ==
  ASSUME DispatchInv, QuietKind
  PROVE  DispatchInv'
<1> USE DEF DispatchInv, QuietKind, BenignWrite, Benign, Quiet, http
<1>1. \A p \in inflight \cup accepted : Fenced(row)
  BY DEF TokensAreFresh, FenceCoversDispatch, Fenced
<1>2. ReceiptIsReal'
  BY <1>1 DEF ReceiptIsReal, Completed
<1>3. TokensAreFresh'
  BY DEF TokensAreFresh
<1>4. \A w \in Workers : Owning(w)' => wk'[w] = wk[w] /\ Owning(w)
  BY DEF Owning, QuietMove, HotPcs
<1>5. OwnersHoldFence' /\ OneOwner'
  BY <1>4 DEF OwnersHoldFence, OneOwner, OwnerWhere, Completed, Fenced
<1>6. FenceCoversDispatch'
  BY <1>1 DEF FenceCoversDispatch
<1>7. PostsAreDisjoint'
  BY DEF PostsAreDisjoint
<1>8. PhasesAreSound'
  BY DEF PhasesAreSound, QuietMove, HotPcs, At, PostOf, Completed
<1> QED BY <1>2, <1>3, <1>5, <1>6, <1>7, <1>8

\* Every guarded statement of the ledger that is not the claim, the receipt or
\* the release keeps the fence and leaves a sound row.
LEMMA GuardedStatements ==
  ASSUME NEW r \in Rows, SoundRow(r)
  PROVE  /\ LET s == RecordEnqueuedIfAbsent(r) IN SoundRow(s) /\ Benign(r, s)
         /\ LET s == RecordEnqueueFailedIfAbsent(r)
            IN  SoundRow(s) /\ Benign(r, s)
         /\ LET s == RecordEnqueueAmbiguousIfAbsent(r)
            IN  SoundRow(s) /\ Benign(r, s)
         /\ StartedWhere(r) => SoundRow(StartedSet(r)) /\ Benign(r, StartedSet(r))
         /\ ~Completed(r) /\ Fenced(r)
              => SoundRow(QuarantineSet(r)) /\ Benign(r, QuarantineSet(r))
         /\ \A e \in ErrorClasses \cup {"none"}, x \in BOOLEAN :
              FailedWhere(r) => /\ SoundRow(FailedSet(r, e, x))
                                /\ Benign(r, FailedSet(r, e, x))
         /\ NightRetryWhere(r)
              => SoundRow(NightRetrySet(r)) /\ Benign(r, NightRetrySet(r))
         /\ \A x \in BOOLEAN :
              ~r.terminal => SoundRow(WatchdogSet(r, x)) /\ Benign(r, WatchdogSet(r, x))
         /\ ~Fenced(r) /\ ~Completed(r) /\ ~r.ambiguous
              => SoundRow(AbsentRow) /\ Benign(r, AbsentRow)
<1> USE DEF SoundRow, Benign, Completed, Fenced, Exists, Rows
<1>1. SoundRow(RecordEnqueuedIfAbsent(r)) /\ Benign(r, RecordEnqueuedIfAbsent(r))
  BY DEF RecordEnqueuedIfAbsent, UnattemptedWhere, EnqueuedSet, AbsentRow
<1>2. /\ SoundRow(RecordEnqueueFailedIfAbsent(r))
      /\ Benign(r, RecordEnqueueFailedIfAbsent(r))
  BY DEF RecordEnqueueFailedIfAbsent, AbsentRow
<1>3. /\ SoundRow(RecordEnqueueAmbiguousIfAbsent(r))
      /\ Benign(r, RecordEnqueueAmbiguousIfAbsent(r))
  BY DEF RecordEnqueueAmbiguousIfAbsent, UnattemptedWhere, AbsentRow
<1>4. StartedWhere(r) => SoundRow(StartedSet(r)) /\ Benign(r, StartedSet(r))
  BY DEF StartedWhere, StartedSet, UnfencedOpenWhere, AbsentRow
<1>5. ~Completed(r) /\ Fenced(r)
        => SoundRow(QuarantineSet(r)) /\ Benign(r, QuarantineSet(r))
  BY DEF QuarantineSet
<1>6. ASSUME NEW e \in ErrorClasses \cup {"none"}, NEW x \in BOOLEAN, FailedWhere(r)
      PROVE  SoundRow(FailedSet(r, e, x)) /\ Benign(r, FailedSet(r, e, x))
  <2>1. ~r.ambiguous /\ ~r.terminal /\ ~Completed(r)
    BY <1>6 DEF FailedWhere, AbsentRow
  <2>2. /\ FailedSet(r, e, x).token = r.token /\ FailedSet(r, e, x).bot = r.bot
        /\ FailedSet(r, e, x).remote = r.remote
    BY DEF FailedSet
  <2>3. Benign(r, FailedSet(r, e, x))
    BY <2>1, <2>2
  <2>4. SoundRow(FailedSet(r, e, x))
    BY <2>1 DEF FailedSet, FailedStatus, FailedTerminal, Unrecoverable,
                     IntrinsicallyTerminal
  <2> QED BY <2>3, <2>4
<1>7. NightRetryWhere(r) => SoundRow(NightRetrySet(r)) /\ Benign(r, NightRetrySet(r))
  BY DEF NightRetryWhere, NightRetrySet
<1>8. ASSUME NEW x \in BOOLEAN, ~r.terminal
      PROVE  SoundRow(WatchdogSet(r, x)) /\ Benign(r, WatchdogSet(r, x))
  BY <1>8 DEF WatchdogSet, WatchdogStatus
<1>9. ~Fenced(r) /\ ~Completed(r) /\ ~r.ambiguous
        => SoundRow(AbsentRow) /\ Benign(r, AbsentRow)
  BY DEF AbsentRow
<1> QED BY <1>1, <1>2, <1>3, <1>4, <1>5, <1>6, <1>7, <1>8, <1>9

\* The helpers of the workers are quiet.
LEMMA QuietHelpers ==
  ASSUME WorkersOK, NEW w \in Workers
  PROVE  /\ \A rec : wk' = [wk EXCEPT ![w] = rec] /\ rec.pc \notin HotPcs => Quiet
         /\ \A p : Goto(w, p) /\ p \notin HotPcs => Quiet
         /\ \A e : Throw(w, e) => Quiet
         /\ \A e : Rethrow(w, e) => Quiet
         /\ Return(w) /\ Completed(row) => Quiet
         /\ wk' = [wk EXCEPT ![w] = IdleWorker] => Quiet
<1> USE DEF WorkersOK, Quiet, QuietMove
<1>1. ASSUME NEW rec, wk' = [wk EXCEPT ![w] = rec], rec.pc \notin HotPcs
      PROVE  Quiet
  BY <1>1
<1>2. ASSUME NEW p, Goto(w, p), p \notin HotPcs PROVE Quiet
  BY <1>2 DEF Goto, WorkerStates
<1>3. ASSUME NEW e, Throw(w, e) PROVE Quiet
  BY <1>3 DEF Throw, WorkerStates, HotPcs
<1>4. ASSUME NEW e, Rethrow(w, e) PROVE Quiet
  BY <1>4 DEF Rethrow, IdleWorker, HotPcs
<1>5. ASSUME Return(w), Completed(row) PROVE Quiet
  BY <1>5 DEF Return, IdleWorker
<1>6. ASSUME wk' = [wk EXCEPT ![w] = IdleWorker] PROVE Quiet
  BY <1>6 DEF IdleWorker, HotPcs
<1> QED BY <1>1, <1>2, <1>3, <1>4, <1>5, <1>6

\* A step without a worker is quiet about the workers.
LEMMA QuietWithoutWorkers == UNCHANGED wk => Quiet
BY DEF Quiet, QuietMove

\* A step that leaves the row alone is benign.
LEMMA KeepRowIsBenign == DispatchInv /\ KeepRow => BenignWrite
BY DEF DispatchInv, KeepRow, BenignWrite, Benign

\* A guarded statement is a benign write.
LEMMA WriteIsBenign ==
  ASSUME NEW r, Write(r), SoundRow(r), Benign(row, r)
  PROVE  BenignWrite
BY DEF Write, BenignWrite


\* While a worker owns the fence nobody else owns it or holds a receipt, and
\* every request in flight or accepted is its own.
LEMMA OwnerFacts ==
  ASSUME TypeOK, DispatchInv, NEW w \in Workers, Owning(w)
  PROVE  /\ ~Completed(row) /\ row.token = wk[w].token /\ row.bot = wk[w].bot
         /\ wk[w].token # NoToken
         /\ \A v \in Workers : v # w => ~Owning(v)
         /\ \A v \in Workers : wk[v].pc \notin {"completed", "done"}
         /\ \A p \in inflight \cup accepted : p = PostOf(w)
<1>1. /\ ~Completed(row) /\ row.token = wk[w].token /\ row.bot = wk[w].bot
      /\ wk[w].token # NoToken
  BY DEF DispatchInv, OwnersHoldFence, OwnerWhere
<1>2. \A v \in Workers : v # w => ~Owning(v)
  BY DEF DispatchInv, OneOwner
<1>3. \A v \in Workers : wk[v].pc \notin {"completed", "done"}
  BY <1>1 DEF DispatchInv, PhasesAreSound
<1>4. ASSUME NEW p \in inflight \cup accepted PROVE p = PostOf(w)
  <2>1. p.token = wk[w].token /\ p.bot = wk[w].bot
    BY <1>1 DEF DispatchInv, FenceCoversDispatch
  <2>2. p \in Posts
    BY DEF TypeOK
  <2> QED BY <2>1, <2>2 DEF Posts, PostOf
<1> QED BY <1>1, <1>2, <1>3, <1>4

\* A step of the owner that keeps the row, the token and the bot keeps the
\* invariant if the place it moves to is sound about MAX.
LEMMA OwnerMoves ==
  ASSUME TypeOK, DispatchInv, KeepRow, UNCHANGED nextToken,
         NEW w \in Workers, Owning(w),
         wk'[w].pc \notin {"completed", "done"},
         Owning(w)' => wk'[w].token = wk[w].token /\ wk'[w].bot = wk[w].bot,
         \A v \in Workers : v # w => wk'[v] = wk[v],
         inflight' \cup accepted' \subseteq inflight \cup accepted \cup {PostOf(w)},
         rejected' \subseteq rejected \cup {PostOf(w)},
         PostsAreDisjoint',
         At(w, "claimed")' => inflight' \cup accepted' = {} /\ PostOf(w)' \notin rejected',
         At(w, "releasing")' => inflight' \cup accepted' = {},
         At(w, "completing")' => PostOf(w)' \in accepted'
  PROVE  DispatchInv'
<1>1. /\ ~Completed(row) /\ row.token = wk[w].token /\ row.bot = wk[w].bot
      /\ wk[w].token # NoToken
      /\ \A v \in Workers : v # w => ~Owning(v)
      /\ \A v \in Workers : wk[v].pc \notin {"completed", "done"}
      /\ \A p \in inflight \cup accepted : p = PostOf(w)
  BY OwnerFacts
<1>2. row' = row /\ seen' = seen
  BY DEF KeepRow
<1>3. SoundRow(row)' /\ (seen' => ~row'.terminal) /\ ReceiptIsReal'
  BY <1>1, <1>2 DEF DispatchInv, ReceiptIsReal, Completed
<1>4. TokensAreFresh'
  BY <1>1, <1>2 DEF DispatchInv, TokensAreFresh, PostOf
<1>5. \A v \in Workers : v # w => ~Owning(v)' /\ wk'[v].pc \notin HotPcs
  BY <1>1 DEF Owning, HotPcs
<1>6. OwnersHoldFence' /\ OneOwner'
  BY <1>1, <1>2, <1>5
  DEF OwnersHoldFence, OneOwner, OwnerWhere, Completed, Fenced
<1>7. FenceCoversDispatch'
  BY <1>1, <1>2 DEF FenceCoversDispatch, PostOf
<1>8. PhasesAreSound'
  BY <1>5 DEF PhasesAreSound, At, HotPcs
<1> QED BY <1>3, <1>4, <1>6, <1>7, <1>8 DEF DispatchInv

\* What Goto and the move to the release leave of a worker.
LEMMA OwnerMoveFields ==
  ASSUME WorkersOK, NEW w \in Workers
  PROVE  /\ \A p : Goto(w, p) =>
              /\ wk'[w].pc = p /\ wk'[w].token = wk[w].token
              /\ wk'[w].bot = wk[w].bot
              /\ \A v \in Workers : v # w => wk'[v] = wk[v]
         /\ \A e : wk' = [wk EXCEPT ![w] = [wk[w] EXCEPT !.pc = "releasing",
                                                         !.err = e]] =>
              /\ wk'[w].pc = "releasing" /\ wk'[w].token = wk[w].token
              /\ wk'[w].bot = wk[w].bot
              /\ \A v \in Workers : v # w => wk'[v] = wk[v]
<1>1. ASSUME NEW p, Goto(w, p)
      PROVE  /\ wk'[w].pc = p /\ wk'[w].token = wk[w].token
             /\ wk'[w].bot = wk[w].bot
             /\ \A v \in Workers : v # w => wk'[v] = wk[v]
  BY <1>1 DEF WorkersOK, WorkerStates, Goto
<1>2. ASSUME NEW e, wk' = [wk EXCEPT ![w] = [wk[w] EXCEPT !.pc = "releasing",
                                                          !.err = e]]
      PROVE  /\ wk'[w].pc = "releasing" /\ wk'[w].token = wk[w].token
             /\ wk'[w].bot = wk[w].bot
             /\ \A v \in Workers : v # w => wk'[v] = wk[v]
  BY <1>2 DEF WorkersOK, WorkerStates
<1> QED BY <1>1, <1>2

\* A guard that fails under the fence has sent nothing.
LEMMA GuardRejectsKeepsInv ==
  ASSUME TypeOK, DispatchInv, NEW w \in Workers, GuardRejects(w)
  PROVE  DispatchInv'
<1>1. At(w, "claimed") /\ Owning(w) /\ KeepRow /\ UNCHANGED <<http, nextToken>>
  BY DEF GuardRejects, Owning, At
<1>2. WorkersOK
  BY DEF TypeOK, WorkersOK
<1>3. /\ wk'[w].pc = "releasing" /\ wk'[w].token = wk[w].token
      /\ wk'[w].bot = wk[w].bot
      /\ \A v \in Workers : v # w => wk'[v] = wk[v]
  BY <1>2, OwnerMoveFields DEF GuardRejects
<1>4. inflight \cup accepted = {}
  BY <1>1 DEF DispatchInv, PhasesAreSound
<1>5. inflight' = inflight /\ accepted' = accepted /\ rejected' = rejected
  BY <1>1 DEF http
<1>6. PostsAreDisjoint'
  BY <1>5 DEF DispatchInv, PostsAreDisjoint
<1>7. UNCHANGED nextToken
  BY <1>1
<1> QED BY <1>1, <1>3, <1>4, <1>5, <1>6, <1>7, OwnerMoves DEF At

\* The first and only request of a fence.
LEMMA PostMessageKeepsInv ==
  ASSUME TypeOK, DispatchInv, NEW w \in Workers, PostMessage(w)
  PROVE  DispatchInv'
<1>1. /\ At(w, "claimed") /\ Owning(w) /\ KeepRow /\ UNCHANGED nextToken
      /\ inflight' = inflight \cup {PostOf(w)} /\ accepted' = accepted
      /\ rejected' = rejected
  BY DEF PostMessage, Owning, At
<1>2. WorkersOK
  BY DEF TypeOK, WorkersOK
<1>3. /\ wk'[w].pc = "waiting" /\ wk'[w].token = wk[w].token
      /\ wk'[w].bot = wk[w].bot
      /\ \A v \in Workers : v # w => wk'[v] = wk[v]
  BY <1>2, OwnerMoveFields DEF PostMessage
<1>4. inflight \cup accepted = {} /\ PostOf(w) \notin rejected
  BY <1>1 DEF DispatchInv, PhasesAreSound
<1>5. PostsAreDisjoint'
  BY <1>1, <1>4 DEF PostsAreDisjoint
<1> QED BY <1>1, <1>3, <1>5, OwnerMoves DEF At

\* A refusal is believed only when MAX said so of this very request.
LEMMA ReceiveReplyKeepsInv ==
  ASSUME TypeOK, DispatchInv, NEW w \in Workers, ReceiveReply(w)
  PROVE  DispatchInv'
<1>1. /\ At(w, "waiting") /\ Owning(w) /\ KeepRow /\ UNCHANGED nextToken
      /\ inflight' = inflight /\ accepted' = accepted
      /\ rejected' = rejected \ {PostOf(w)}
  BY DEF ReceiveReply, Owning, At
<1>2. WorkersOK
  BY DEF TypeOK, WorkersOK
<1>3. PostsAreDisjoint'
  BY <1>1 DEF DispatchInv, PostsAreDisjoint
<1>4. CASE PostOf(w) \in accepted /\ Goto(w, "completing")
  <2>1. /\ wk'[w].pc = "completing" /\ wk'[w].token = wk[w].token
        /\ wk'[w].bot = wk[w].bot
        /\ \A v \in Workers : v # w => wk'[v] = wk[v]
    BY <1>2, <1>4, OwnerMoveFields
  <2>2. PostOf(w)' \in accepted'
    BY <1>1, <1>4, <2>1 DEF PostOf
  <2> QED BY <1>1, <1>3, <2>1, <2>2, OwnerMoves DEF At
<1>5. CASE /\ PostOf(w) \in rejected
           /\ \E e \in {"limited", "denied", "unrecoverable"} :
                wk' = [wk EXCEPT ![w] = [wk[w] EXCEPT !.pc = "releasing",
                                                      !.err = e]]
  <2>1. /\ wk'[w].pc = "releasing" /\ wk'[w].token = wk[w].token
        /\ wk'[w].bot = wk[w].bot
        /\ \A v \in Workers : v # w => wk'[v] = wk[v]
    BY <1>2, <1>5, OwnerMoveFields
  <2>2. \A p \in inflight \cup accepted : p = PostOf(w)
    BY <1>1, OwnerFacts
  <2>3. inflight \cup accepted = {}
    BY <1>5, <2>2 DEF DispatchInv, PostsAreDisjoint
  <2> QED BY <1>1, <1>3, <2>1, <2>3, OwnerMoves DEF At
<1>6. CASE Goto(w, "quarantine")
  <2>1. /\ wk'[w].pc = "quarantine"
        /\ \A v \in Workers : v # w => wk'[v] = wk[v]
    BY <1>2, <1>6, OwnerMoveFields
  <2> QED BY <1>1, <1>3, <2>1, OwnerMoves DEF At, Owning
<1> QED BY <1>4, <1>5, <1>6 DEF ReceiveReply

\* MAX decides about the one request it has.
LEMMA MaxAnswersKeepInv ==
  ASSUME TypeOK, DispatchInv, NEW p \in inflight, MaxAccepts(p) \/ MaxRejects(p)
  PROVE  DispatchInv'
<1>1. row' = row /\ seen' = seen /\ wk' = wk /\ nextToken' = nextToken
  BY DEF MaxAccepts, MaxRejects, KeepRow
<1>2. /\ inflight' = inflight \ {p}
      /\ accepted' \subseteq accepted \cup {p} /\ accepted \subseteq accepted'
      /\ rejected' \subseteq rejected \cup {p}
      /\ p \in accepted' => rejected' = rejected
  BY DEF MaxAccepts, MaxRejects, DispatchInv, PostsAreDisjoint
<1>3. SoundRow(row)' /\ (seen' => ~row'.terminal) /\ ReceiptIsReal'
  BY <1>1, <1>2 DEF DispatchInv, ReceiptIsReal, Completed
<1>4. TokensAreFresh'
  BY <1>1, <1>2 DEF DispatchInv, TokensAreFresh
<1>5. OwnersHoldFence' /\ OneOwner'
  BY <1>1 DEF DispatchInv, OwnersHoldFence, OneOwner, Owning
<1>6. FenceCoversDispatch'
  BY <1>1, <1>2 DEF DispatchInv, FenceCoversDispatch
<1>7. PostsAreDisjoint'
  BY <1>2 DEF DispatchInv, PostsAreDisjoint, MaxAccepts, MaxRejects
<1>8. PhasesAreSound'
  <2>1. \A v \in Workers : ~At(v, "claimed") /\ ~At(v, "releasing")
    BY DEF DispatchInv, PhasesAreSound
  <2> QED BY <1>1, <1>2, <2>1 DEF DispatchInv, PhasesAreSound, At, PostOf
<1> QED BY <1>3, <1>4, <1>5, <1>6, <1>7, <1>8 DEF DispatchInv

\* Only the owner stores a receipt, and only of the message MAX accepted.
LEMMA CompleteKeepsInv ==
  ASSUME TypeOK, DispatchInv, NEW w \in Workers, CompleteSendDispatch(w)
  PROVE  DispatchInv'
<1>1. /\ At(w, "completing") /\ Owning(w) /\ UNCHANGED nextToken
      /\ inflight' = inflight /\ accepted' = accepted /\ rejected' = rejected
  BY DEF CompleteSendDispatch, Owning, At, http
<1>2. /\ ~Completed(row) /\ row.token = wk[w].token /\ row.bot = wk[w].bot
      /\ wk[w].token # NoToken
      /\ \A v \in Workers : v # w => ~Owning(v)
      /\ \A v \in Workers : wk[v].pc \notin {"completed", "done"}
  BY <1>1, OwnerFacts
<1>3. WorkersOK /\ row \in Rows /\ SoundRow(row) /\ OwnerWhere(row, wk[w].token)
  BY <1>2 DEF TypeOK, WorkersOK, DispatchInv, OwnerWhere, Fenced
<1>4. PostOf(w) \in accepted
  BY <1>1 DEF DispatchInv, PhasesAreSound
<1>5. PICK q \in {"completed", "quarantine"} :
        /\ Goto(w, q)
        /\ \/ row' = CompleteSet(row, wk[w].token) /\ seen' = FALSE
           \/ q = "quarantine" /\ KeepRow
  BY <1>3 DEF CompleteSendDispatch, WriteIf, MayWrite, Write
<1>6. wk'[w].pc = q /\ \A v \in Workers : v # w => wk'[v] = wk[v]
  BY <1>3, <1>5, OwnerMoveFields
<1>7. CASE KeepRow /\ q = "quarantine"
  <2>1. PostsAreDisjoint'
    BY <1>1 DEF DispatchInv, PostsAreDisjoint
  <2> QED BY <1>1, <1>6, <1>7, <2>1, OwnerMoves DEF At, Owning
<1>8. CASE row' = CompleteSet(row, wk[w].token) /\ seen' = FALSE
  <2>1. /\ row'.token = row.token /\ row'.bot = row.bot
        /\ row'.remote = wk[w].token /\ SoundRow(row')
    BY <1>2, <1>3, <1>8
    DEF CompleteSet, Rows, SoundRow, Completed, Exists, NoRemote, NoToken
  <2>2. Completed(row')
    BY <1>2, <2>1 DEF Completed, NoRemote, NoToken
  <2>3. ReceiptIsReal'
    BY <1>1, <1>2, <1>4, <2>1 DEF ReceiptIsReal, PostOf
  <2>4. TokensAreFresh' /\ FenceCoversDispatch' /\ PostsAreDisjoint'
    BY <1>1, <2>1
    DEF DispatchInv, TokensAreFresh, FenceCoversDispatch, PostsAreDisjoint
  <2>5. \A v \in Workers : ~Owning(v)'
    BY <1>2, <1>6 DEF Owning
  <2>6. OwnersHoldFence' /\ OneOwner'
    BY <2>5 DEF OwnersHoldFence, OneOwner
  <2>7. PhasesAreSound'
    BY <2>2, <2>5 DEF PhasesAreSound, Owning, At
  <2> QED BY <1>8, <2>1, <2>3, <2>4, <2>6, <2>7 DEF DispatchInv
<1> QED BY <1>5, <1>7, <1>8

\* Only the owner releases, and only when MAX holds and expects nothing.
LEMMA ReleaseKeepsInv ==
  ASSUME TypeOK, DispatchInv, NEW w \in Workers, ReleaseSendDispatch(w)
  PROVE  DispatchInv'
<1>1. /\ At(w, "releasing") /\ Owning(w) /\ UNCHANGED nextToken
      /\ inflight' = inflight /\ accepted' = accepted /\ rejected' = rejected
  BY DEF ReleaseSendDispatch, Owning, At, http
<1>2. /\ ~Completed(row) /\ row.token = wk[w].token /\ row.bot = wk[w].bot
      /\ wk[w].token # NoToken
      /\ \A v \in Workers : v # w => ~Owning(v)
      /\ \A v \in Workers : wk[v].pc \notin {"completed", "done"}
  BY <1>1, OwnerFacts
<1>3. WorkersOK /\ row \in Rows /\ SoundRow(row) /\ OwnerWhere(row, wk[w].token)
  BY <1>2 DEF TypeOK, WorkersOK, DispatchInv, OwnerWhere, Fenced
<1>4. inflight \cup accepted = {}
  BY <1>1 DEF DispatchInv, PhasesAreSound
<1>5. /\ Throw(w, wk[w].err) \/ Goto(w, "quarantine")
      /\ \/ row' = ReleaseSet(row) /\ seen' = FALSE
         \/ Goto(w, "quarantine") /\ KeepRow
  BY <1>3 DEF ReleaseSendDispatch, WriteIf, MayWrite, Write
<1>6. /\ wk'[w].pc \in {"failing", "quarantine"}
      /\ \A v \in Workers : v # w => wk'[v] = wk[v]
  <2>1. CASE Throw(w, wk[w].err)
    BY <1>3, <2>1 DEF Throw, WorkersOK, WorkerStates
  <2>2. CASE Goto(w, "quarantine")
    BY <1>3, <2>2, OwnerMoveFields
  <2> QED BY <1>5, <2>1, <2>2
<1>7. CASE KeepRow
  <2>1. PostsAreDisjoint'
    BY <1>1 DEF DispatchInv, PostsAreDisjoint
  <2> QED BY <1>1, <1>6, <1>7, <2>1, OwnerMoves DEF At, Owning
<1>8. CASE row' = ReleaseSet(row) /\ seen' = FALSE
  <2>1. row'.token = NoToken /\ row'.remote = row.remote /\ SoundRow(row')
    BY <1>2, <1>3, <1>8 DEF ReleaseSet, Rows, SoundRow, Completed, Exists
  <2>2. ReceiptIsReal'
    BY <1>2, <2>1 DEF ReceiptIsReal, Completed
  <2>3. TokensAreFresh' /\ FenceCoversDispatch' /\ PostsAreDisjoint'
    <3>1. NoToken < nextToken
      BY DEF TypeOK, NoToken
    <3> QED BY <1>1, <1>4, <2>1, <3>1
            DEF DispatchInv, TokensAreFresh, FenceCoversDispatch, PostsAreDisjoint
  <2>4. \A v \in Workers : ~Owning(v)' /\ wk'[v].pc \notin {"completed", "done"}
    BY <1>2, <1>6 DEF Owning
  <2>5. OwnersHoldFence' /\ OneOwner' /\ PhasesAreSound'
    BY <2>4 DEF OwnersHoldFence, OneOwner, PhasesAreSound, Owning, At
  <2> QED BY <1>8, <2>1, <2>2, <2>3, <2>5 DEF DispatchInv
<1> QED BY <1>5, <1>7, <1>8


\* A claim of an open, unfenced row: nothing is in flight and nobody owns it.
LEMMA ClaimKeepsInv ==
  ASSUME TypeOK, DispatchInv, NEW w \in Workers, ClaimKind(w)
  PROVE  DispatchInv'
<1> USE DEF ClaimKind
<1>0. DispatchInv /\ row \in Rows /\ SoundRow(row) /\ WorkersOK
  BY DEF TypeOK, WorkersOK, DispatchInv
<1>1. /\ ~Fenced(row) /\ ~Completed(row) /\ Exists(row)
      /\ nextToken \in Nat /\ nextToken # NoToken
  BY DEF ClaimWhere, UnfencedOpenWhere, TypeOK, NoToken
<1>2. inflight \cup accepted = {}
  BY <1>0, <1>1 DEF DispatchInv, FenceCoversDispatch, TokensAreFresh, Fenced
<1>3. \A v \in Workers : ~Owning(v) /\ wk[v].pc \notin {"completed", "done"}
  BY <1>0, <1>1
  DEF DispatchInv, OwnersHoldFence, OwnerWhere, Fenced, PhasesAreSound
<1>4. /\ row'.token = nextToken /\ row'.bot = wk[w].bot
      /\ row'.remote = row.remote /\ SoundRow(row') /\ ~Completed(row')
  BY <1>0, <1>1
  DEF ClaimSet, Rows, SoundRow, Completed, Exists
<1>5. ReceiptIsReal' /\ FenceCoversDispatch' /\ PostsAreDisjoint'
  BY <1>0, <1>2, <1>4
  DEF http, ReceiptIsReal, FenceCoversDispatch, PostsAreDisjoint, DispatchInv
<1>6. TokensAreFresh'
  <2>1. \A p \in rejected : p.token # NoToken /\ p.token < nextToken + 1
    BY <1>0, <1>1 DEF DispatchInv, TokensAreFresh, TypeOK, Posts
  <2> QED BY <1>1, <1>2, <1>4, <2>1 DEF http, TokensAreFresh
<1>7. CASE Quiet
  <2>1. \A v \in Workers : ~Owning(v)' /\ wk'[v].pc \notin {"completed", "done"}
    BY <1>1, <1>3, <1>7 DEF Quiet, QuietMove, Owning, HotPcs
  <2> QED BY <1>4, <1>5, <1>6, <2>1
          DEF DispatchInv, OwnersHoldFence, OneOwner, PhasesAreSound, At, Owning
<1>8. CASE wk' = [wk EXCEPT ![w] = [wk[w] EXCEPT !.pc = "claimed",
                                                 !.token = nextToken]]
  <2>1. /\ wk'[w].pc = "claimed" /\ wk'[w].token = nextToken
        /\ wk'[w].bot = wk[w].bot
    BY <1>0, <1>8 DEF WorkersOK, WorkerStates
  <2>2. \A v \in Workers \ {w} : wk'[v] = wk[v]
    BY <1>0, <1>8 DEF WorkersOK
  <2>3. OwnersHoldFence' /\ OneOwner'
    BY <1>1, <1>3, <1>4, <2>1, <2>2
    DEF OwnersHoldFence, OneOwner, Owning, OwnerWhere, Fenced
  <2>4. PostOf(w)' \notin rejected'
    BY <1>0, <2>1, <1>1 DEF PostOf, DispatchInv, TokensAreFresh, http
  <2>5. PhasesAreSound'
    BY <1>2, <1>3, <2>1, <2>2, <2>4 DEF PhasesAreSound, At, Owning, http
  <2> QED BY <1>4, <1>5, <1>6, <2>3, <2>5 DEF DispatchInv
<1> QED BY <1>7, <1>8

\* Every step is quiet, a claim, a step of the owner of the fence, or a
\* decision of MAX.
LEMMA StepKinds ==
  ASSUME TypeOK, DispatchInv, [Next]_vars
  PROVE  \/ QuietKind
         \/ \E w \in Workers : ClaimKind(w) \/ OwnerKind(w)
         \/ \E p \in inflight : MaxKind(p)
<1>0. DispatchInv /\ row \in Rows /\ SoundRow(row) /\ WorkersOK
  BY DEF TypeOK, WorkersOK, DispatchInv
<1>1. ASSUME AssertCanEnqueue PROVE QuietKind
  <2>1. BenignWrite
    BY <1>0, <1>1, GuardedStatements, KeepRowIsBenign, WriteIsBenign
    DEF AssertCanEnqueue, WriteIf, ClearableLegacy
  <2> QED BY <1>1, <2>1, QuietWithoutWorkers DEF AssertCanEnqueue, QuietKind
<1>2. ASSUME RemoveRetainedFailedJob PROVE QuietKind
  <2>1. BenignWrite
    BY <1>0, <1>2, KeepRowIsBenign DEF RemoveRetainedFailedJob
  <2> QED BY <1>2, <2>1, QuietWithoutWorkers
          DEF RemoveRetainedFailedJob, QuietKind
<1>3. ASSUME AddActionJob PROVE QuietKind
  <2>1. BenignWrite
    BY <1>0, <1>3, KeepRowIsBenign DEF AddActionJob
  <2> QED BY <1>3, <2>1, QuietWithoutWorkers DEF AddActionJob, QuietKind
<1>4. ASSUME ObserveFailedAdd PROVE QuietKind
  <2>1. BenignWrite
    BY <1>0, <1>4, KeepRowIsBenign DEF ObserveFailedAdd
  <2> QED BY <1>4, <2>1, QuietWithoutWorkers DEF ObserveFailedAdd, QuietKind
<1>5. ASSUME RetryAddActionJob PROVE QuietKind
  <2>1. BenignWrite
    BY <1>0, <1>5, KeepRowIsBenign DEF RetryAddActionJob
  <2> QED BY <1>5, <2>1, QuietWithoutWorkers DEF RetryAddActionJob, QuietKind
<1>6. ASSUME RecordEnqueueOutcome PROVE QuietKind
  <2>1. BenignWrite
    BY <1>0, <1>6, GuardedStatements, KeepRowIsBenign, WriteIsBenign
    DEF RecordEnqueueOutcome, MayWrite, WriteIf
  <2> QED BY <1>6, <2>1, QuietWithoutWorkers DEF RecordEnqueueOutcome, QuietKind
<1>7. ASSUME NEW w \in Workers, TakeJob(w) PROVE QuietKind
  <2>1. BenignWrite
    BY <1>0, <1>7, KeepRowIsBenign DEF TakeJob
  <2>2. Quiet
    BY <1>0, <1>7, QuietHelpers DEF TakeJob, IdleWorker, HotPcs
  <2> QED BY <1>7, <2>1, <2>2 DEF TakeJob, QuietKind
<1>8. ASSUME NEW w \in Workers, StartImmediate(w) PROVE QuietKind
  <2>1. BenignWrite
    BY <1>0, <1>8, KeepRowIsBenign DEF StartImmediate
  <2>2. Quiet
    BY <1>0, <1>8, QuietHelpers DEF StartImmediate, IdleWorker, HotPcs
  <2> QED BY <1>8, <2>1, <2>2 DEF StartImmediate, QuietKind
<1>9. ASSUME NEW w \in Workers, AssertCanExecute(w) PROVE QuietKind
  <2>1. BenignWrite
    BY <1>0, <1>9, GuardedStatements, KeepRowIsBenign, WriteIsBenign
    DEF AssertCanExecute, WriteIf, ClearableLegacy
  <2>2. Quiet
    BY <1>0, <1>9, QuietHelpers DEF AssertCanExecute, HotPcs
  <2> QED BY <1>9, <2>1, <2>2 DEF AssertCanExecute, QuietKind
<1>10. ASSUME NEW w \in Workers, FailBeforeStart(w) PROVE QuietKind
  <2>1. BenignWrite
    BY <1>0, <1>10, KeepRowIsBenign DEF FailBeforeStart
  <2>2. Quiet
    BY <1>0, <1>10, QuietHelpers DEF FailBeforeStart
  <2> QED BY <1>10, <2>1, <2>2 DEF FailBeforeStart, QuietKind
<1>11. ASSUME NEW w \in Workers, RecordStarted(w) PROVE QuietKind
  <2>1. BenignWrite
    BY <1>0, <1>11, GuardedStatements, KeepRowIsBenign, WriteIsBenign
    DEF RecordStarted, WriteIf
  <2>2. Quiet
    <3>1. CASE StartedWhere(row) \/ Completed(row)
      <4>1. PICK b \in Bots :
              wk' = [wk EXCEPT ![w] = [wk[w] EXCEPT !.pc = "ready", !.bot = b,
                                                    !.tried = {b}]]
        BY <1>11, <3>1 DEF RecordStarted
      <4>2. wk'[w].pc = "ready" /\ \A v \in Workers \ {w} : wk'[v] = wk[v]
        BY <1>0, <4>1 DEF WorkersOK, WorkerStates
      <4> QED BY <4>2 DEF Quiet, QuietMove, HotPcs
    <3>2. CASE ~(StartedWhere(row) \/ Completed(row))
      BY <1>0, <1>11, <3>2, QuietHelpers DEF RecordStarted
    <3> QED BY <3>1, <3>2
  <2> QED BY <1>11, <2>1, <2>2 DEF RecordStarted, QuietKind
<1>12. ASSUME NEW w \in Workers, RecordPrepared(w) PROVE QuietKind
  <2>1. BenignWrite
    BY <1>0, <1>12 DEF RecordPrepared, WriteIf, Write, KeepRow, BenignWrite,
           Benign, DispatchInv
  <2>2. Quiet
    BY <1>0, <1>12, QuietHelpers DEF RecordPrepared, HotPcs
  <2> QED BY <1>12, <2>1, <2>2 DEF RecordPrepared, QuietKind
<1>13. ASSUME NEW w \in Workers, RecoverReceipt(w) PROVE QuietKind
  <2>1. BenignWrite
    BY <1>0, <1>13, KeepRowIsBenign DEF RecoverReceipt
  <2>2. Quiet
    BY <1>0, <1>13, QuietHelpers DEF RecoverReceipt
  <2> QED BY <1>13, <2>1, <2>2 DEF RecoverReceipt, QuietKind
<1>14. ASSUME NEW w \in Workers, FailBeforeClaim(w) PROVE QuietKind
  <2>1. BenignWrite
    BY <1>0, <1>14, KeepRowIsBenign DEF FailBeforeClaim
  <2>2. Quiet
    BY <1>0, <1>14, QuietHelpers DEF FailBeforeClaim
  <2> QED BY <1>14, <2>1, <2>2 DEF FailBeforeClaim, QuietKind
<1>15. ASSUME NEW w \in Workers, InspectLostClaim(w) PROVE QuietKind
  <2>1. BenignWrite
    BY <1>0, <1>15, KeepRowIsBenign DEF InspectLostClaim
  <2>2. Quiet
    <3>1. [wk[w] EXCEPT !.pc = "foreign", !.token = row.token].pc = "foreign"
      BY <1>0 DEF WorkersOK, WorkerStates
    <3>2. "foreign" \notin HotPcs
      BY DEF HotPcs
    <3> QED BY ZenonT(60), <1>0, <1>15, <3>1, <3>2, QuietHelpers DEF InspectLostClaim
  <2> QED BY <1>15, <2>1, <2>2 DEF InspectLostClaim, QuietKind
<1>16. ASSUME NEW w \in Workers, QuarantineForeignFence(w) PROVE QuietKind
  <2>1. BenignWrite
    BY <1>0, <1>16, GuardedStatements, KeepRowIsBenign, WriteIsBenign
    DEF QuarantineForeignFence, OwnerWhere
  <2>2. Quiet
    <3>1. CASE /\ ~OwnerWhere(row, wk[w].token) /\ wk[w].tries = 0
      <4>1. wk' = [wk EXCEPT ![w] = [wk[w] EXCEPT !.pc = "prepared",
                                       !.token = NoToken, !.tries = 1]]
        BY <1>16, <3>1 DEF QuarantineForeignFence
      <4>2. wk'[w].pc = "prepared" /\ \A v \in Workers \ {w} : wk'[v] = wk[v]
        BY <1>0, <4>1 DEF WorkersOK, WorkerStates
      <4> QED BY <4>2 DEF Quiet, QuietMove, HotPcs
    <3>2. CASE OwnerWhere(row, wk[w].token) \/ wk[w].tries # 0
      BY <1>0, <1>16, <3>2, QuietHelpers DEF QuarantineForeignFence
    <3> QED BY <3>1, <3>2
  <2> QED BY <1>16, <2>1, <2>2 DEF QuarantineForeignFence, QuietKind
<1>17. ASSUME NEW w \in Workers, ThrowAmbiguousSend(w) PROVE QuietKind
  <2>1. BenignWrite
    BY <1>0, <1>17, GuardedStatements, KeepRowIsBenign, WriteIsBenign
    DEF ThrowAmbiguousSend, OwnerWhere, MayWrite, WriteIf
  <2>2. Quiet
    BY <1>0, <1>17, QuietHelpers DEF ThrowAmbiguousSend
  <2> QED BY <1>17, <2>1, <2>2 DEF ThrowAmbiguousSend, QuietKind
<1>18. ASSUME NEW w \in Workers, AfterCompletion(w) PROVE QuietKind
  <2>1. BenignWrite
    BY <1>0, <1>18
    DEF AfterCompletion, At, PhasesAreSound, DispatchInv, MayWrite,
           WriteIf, SucceededWhere, KeepRow, BenignWrite, Benign
  <2>2. Quiet
    BY <1>0, <1>18, QuietHelpers
    DEF AfterCompletion, HotPcs, PhasesAreSound, DispatchInv, At
  <2> QED BY <1>18, <2>1, <2>2 DEF AfterCompletion, QuietKind
<1>19. ASSUME NEW w \in Workers, NextCandidate(w) PROVE QuietKind
  <2>1. BenignWrite
    BY <1>0, <1>19, KeepRowIsBenign DEF NextCandidate
  <2>2. Quiet
    <3>1. PICK b \in Bots :
            wk' = [wk EXCEPT ![w] = [wk[w] EXCEPT !.pc = "ready", !.bot = b,
                     !.tried = @ \cup {b}, !.tries = 0, !.token = NoToken,
                     !.err = IF @ = "denied" THEN @ ELSE "none"]]
      BY <1>19 DEF NextCandidate
    <3>2. wk'[w].pc = "ready" /\ \A v \in Workers \ {w} : wk'[v] = wk[v]
      BY <1>0, <3>1 DEF WorkersOK, WorkerStates
    <3> QED BY <3>2 DEF Quiet, QuietMove, HotPcs
  <2> QED BY <1>19, <2>1, <2>2 DEF NextCandidate, QuietKind
<1>20. ASSUME NEW w \in Workers, RecordFailed(w) PROVE QuietKind
  <2>1. BenignWrite
    BY <1>0, <1>20, GuardedStatements, KeepRowIsBenign, WriteIsBenign,
       WorkerFacts
    DEF RecordFailed, MayWrite, WriteIf, DispatchInv
  <2>2. Quiet
    BY <1>0, <1>20, QuietHelpers DEF RecordFailed
  <2> QED BY <1>20, <2>1, <2>2 DEF RecordFailed, QuietKind
<1>21. ASSUME NEW w \in Workers, SettleJob(w) PROVE QuietKind
  <2>1. BenignWrite
    BY <1>0, <1>21, KeepRowIsBenign DEF SettleJob
  <2>2. Quiet
    BY <1>0, <1>21, QuietHelpers DEF SettleJob
  <2> QED BY <1>21, <2>1, <2>2 DEF SettleJob, QuietKind
<1>22. ASSUME NEW w \in Workers, Crash(w) PROVE QuietKind
  <2>1. BenignWrite
    BY <1>0, <1>22, KeepRowIsBenign DEF Crash
  <2>2. Quiet
    BY <1>0, <1>22, QuietHelpers DEF Crash
  <2> QED BY <1>22, <2>1, <2>2 DEF Crash, QuietKind
<1>23. ASSUME StallJob PROVE QuietKind
  <2>1. BenignWrite
    BY <1>0, <1>23, KeepRowIsBenign DEF StallJob
  <2> QED BY <1>23, <2>1, QuietWithoutWorkers DEF StallJob, QuietKind
<1>24. ASSUME WatchdogRead PROVE QuietKind
  <2>1. BenignWrite
    BY <1>0, <1>24 DEF WatchdogRead, WatchdogSelects, BenignWrite, Benign,
           DispatchInv
  <2> QED BY <1>24, <2>1, QuietWithoutWorkers DEF WatchdogRead, QuietKind
<1>25. ASSUME WatchdogObserve PROVE QuietKind
  <2>1. BenignWrite
    BY <1>0, <1>25, KeepRowIsBenign DEF WatchdogObserve
  <2> QED BY <1>25, <2>1, QuietWithoutWorkers DEF WatchdogObserve, QuietKind
<1>26. ASSUME WatchdogDefers PROVE QuietKind
  <2>1. BenignWrite
    BY <1>0, <1>26 DEF WatchdogDefers, BenignWrite, Benign, DispatchInv
  <2> QED BY <1>26, <2>1, QuietWithoutWorkers DEF WatchdogDefers, QuietKind
<1>27. ASSUME WatchdogApplies PROVE QuietKind
  <2>1. BenignWrite
    BY <1>0, <1>27, GuardedStatements, KeepRowIsBenign, WriteIsBenign
    DEF WatchdogApplies, DispatchInv
  <2> QED BY <1>27, <2>1, QuietWithoutWorkers DEF WatchdogApplies, QuietKind
<1>28. ASSUME NightModeRetry PROVE QuietKind
  <2>1. BenignWrite
    BY <1>0, <1>28, GuardedStatements, KeepRowIsBenign, WriteIsBenign
    DEF NightModeRetry
  <2> QED BY <1>28, <2>1, QuietWithoutWorkers DEF NightModeRetry, QuietKind
<1>29. ASSUME ReleasePreDispatchPublication PROVE QuietKind
  <2>1. BenignWrite
    BY <1>0, <1>29, GuardedStatements, KeepRowIsBenign, WriteIsBenign
    DEF ReleasePreDispatchPublication, ReleasableSuggestion
  <2> QED BY <1>29, <2>1, QuietWithoutWorkers
          DEF ReleasePreDispatchPublication, QuietKind
<1>30. ASSUME NEW w \in Workers, ClaimSendDispatch(w)
       PROVE  QuietKind \/ ClaimKind(w)
  <2>1. CASE ClaimWhere(row)
    BY <1>30, <2>1 DEF ClaimSendDispatch, Write, ClaimKind
  <2>2. CASE ~ClaimWhere(row)
    <3>1. BenignWrite
      BY <1>0, <1>30, <2>2, KeepRowIsBenign DEF ClaimSendDispatch
    <3>2. Quiet
      BY <1>0, <1>30, <2>2, QuietHelpers DEF ClaimSendDispatch, HotPcs
    <3> QED BY <1>30, <2>2, <3>1, <3>2 DEF ClaimSendDispatch, QuietKind
  <2> QED BY <2>1, <2>2
<1>31. ASSUME NEW w \in Workers, ClaimAnswerLost(w) PROVE ClaimKind(w)
  <2>1. Quiet
    BY <1>0, <1>31, QuietHelpers DEF ClaimAnswerLost
  <2> QED BY <1>31, <2>1 DEF ClaimAnswerLost, Write, ClaimKind
<1>32. CASE UNCHANGED vars
  <2>1. BenignWrite
    BY <1>0, <1>32, KeepRowIsBenign DEF vars, KeepRow
  <2> QED BY <1>32, <2>1, QuietWithoutWorkers DEF vars, http, QuietKind
<1>33. ASSUME ExpireFailedJob PROVE QuietKind
  <2>1. BenignWrite
    BY <1>0, <1>33, KeepRowIsBenign DEF ExpireFailedJob
  <2> QED BY <1>33, <2>1, QuietWithoutWorkers DEF ExpireFailedJob, QuietKind
<1>34. ASSUME ProducerFails PROVE QuietKind
  <2>1. BenignWrite
    BY <1>0, <1>34, KeepRowIsBenign DEF ProducerFails
  <2> QED BY <1>34, <2>1, QuietWithoutWorkers DEF ProducerFails, QuietKind
<1>35. ASSUME NEW w \in Workers, StartAnswerLost(w) PROVE QuietKind
  <2>1. BenignWrite
    BY <1>0, <1>35, GuardedStatements, WriteIsBenign DEF StartAnswerLost
  <2>2. Quiet
    BY <1>0, <1>35, QuietHelpers DEF StartAnswerLost
  <2> QED BY <1>35, <2>1, <2>2 DEF StartAnswerLost, QuietKind
<1>36. ASSUME NEW w \in Workers, LostClaimUnreadable(w) PROVE QuietKind
  <2>1. BenignWrite
    BY <1>0, <1>36, GuardedStatements, KeepRowIsBenign, WriteIsBenign
    DEF LostClaimUnreadable, OwnerWhere, MayWrite, WriteIf
  <2>2. Quiet
    BY <1>0, <1>36, QuietHelpers DEF LostClaimUnreadable
  <2> QED BY <1>36, <2>1, <2>2 DEF LostClaimUnreadable, QuietKind
<1>37. ASSUME \/ Producer \/ Watchdog \/ StallJob \/ ExpireFailedJob
              \/ NightModeRetry \/ ReleasePreDispatchPublication
       PROVE  QuietKind
  BY <1>1, <1>2, <1>3, <1>4, <1>5, <1>6, <1>23, <1>24, <1>25, <1>26, <1>27,
     <1>28, <1>29, <1>33, <1>34, <1>37 DEF Producer, Watchdog
<1>38. ASSUME NEW w \in Workers,
              TakeJob(w) \/ StartImmediate(w) \/ Executes(w) \/ Crash(w)
       PROVE  QuietKind \/ ClaimKind(w) \/ OwnerKind(w)
  BY <1>7, <1>8, <1>9, <1>10, <1>11, <1>12, <1>13, <1>14, <1>15, <1>16, <1>17,
     <1>18, <1>19, <1>20, <1>21, <1>22, <1>30, <1>31, <1>35, <1>36,
     <1>38
  DEF Executes, OwnerKind
<1> QED BY <1>32, <1>37, <1>38 DEF Next, MaxKind

\* DispatchInv is inductive.
LEMMA InvStep == TypeOK /\ DispatchInv /\ [Next]_vars => DispatchInv'
<1> SUFFICES ASSUME TypeOK, DispatchInv, [Next]_vars PROVE DispatchInv'
  OBVIOUS
<1>1. ASSUME NEW w \in Workers, OwnerKind(w) PROVE DispatchInv'
  BY <1>1, GuardRejectsKeepsInv, PostMessageKeepsInv, ReceiveReplyKeepsInv,
     CompleteKeepsInv, ReleaseKeepsInv DEF OwnerKind
<1>2. ASSUME NEW p \in inflight, MaxKind(p) PROVE DispatchInv'
  BY <1>2, MaxAnswersKeepInv DEF MaxKind
<1> QED BY <1>1, <1>2, StepKinds, QuietStep, ClaimKeepsInv

\* Nothing was sent and nobody owns anything at the start.
LEMMA InvInit == Init => DispatchInv
<1> SUFFICES ASSUME Init PROVE DispatchInv
  OBVIOUS
<1>1. \A w \in Workers : wk[w].pc = "idle"
  BY DEF Init, IdleWorker
<1>2. OwnersHoldFence /\ OneOwner /\ PhasesAreSound
  BY <1>1 DEF OwnersHoldFence, OneOwner, PhasesAreSound, Owning, At
<1>3. SoundRow(row) /\ (seen => ~row.terminal) /\ ReceiptIsReal
  BY DEF Init, SoundRow, AbsentRow, Completed, Exists, ReceiptIsReal
<1>4. TokensAreFresh /\ FenceCoversDispatch /\ PostsAreDisjoint
  BY DEF Init, AbsentRow, TokensAreFresh, FenceCoversDispatch, PostsAreDisjoint,
         NoToken
<1> QED BY <1>2, <1>3, <1>4 DEF DispatchInv

\* DispatchInv holds in every reachable state, for every number of workers,
\* bots, attempts, stalls and repairs and for every key family.
THEOREM DispatchInvHolds == Spec => []DispatchInv
BY TypeCorrect, InvInit, InvStep, PTL DEF Spec

\* MAX never holds two messages of one key, and never has a second request
\* beside one that may succeed.
THEOREM SendAtMostOnce == Spec => []AtMostOneMessage
<1>1. TypeOK /\ DispatchInv => AtMostOneMessage
  <2> SUFFICES ASSUME TypeOK, DispatchInv,
                      NEW p \in inflight \cup accepted,
                      NEW q \in inflight \cup accepted
               PROVE  p = q
    BY DEF AtMostOneMessage
  <2>1. p.token = q.token /\ p.bot = q.bot
    BY DEF DispatchInv, FenceCoversDispatch
  <2>2. p \in Posts /\ q \in Posts
    BY DEF TypeOK
  <2> QED BY <2>1, <2>2 DEF Posts
<1> QED BY <1>1, TypeCorrect, DispatchInvHolds, PTL

\* A row without a fence proves that nothing was or will be delivered.
THEOREM FenceIsSound == Spec => []FenceCoversDispatch
<1>1. DispatchInv => FenceCoversDispatch
  BY DEF DispatchInv
<1> QED BY <1>1, DispatchInvHolds, PTL

\* SUCCEEDED and a finished job stand for a message that exists in MAX.
THEOREM SuccessIsSound == Spec => []SuccessIsDelivered
<1>1. DispatchInv => SuccessIsDelivered
  BY DEF DispatchInv, SuccessIsDelivered, SoundRow, ReceiptIsReal,
     PhasesAreSound, At
<1> QED BY <1>1, DispatchInvHolds, PTL

\* Nobody takes the fence from a worker that claimed it and has not settled it.
THEOREM FenceIsKept == Spec => []OwnerKeepsFence
<1>1. DispatchInv => OwnerKeepsFence
  BY DEF DispatchInv, OwnerKeepsFence, OwnersHoldFence, Owning
<1> QED BY <1>1, DispatchInvHolds, PTL

------------------------------------------------------------------------------
(***************************************************************************)
(* The action properties of MaxSendDispatch, and that it implements        *)
(* SendOutcome.  Both rest on the inductive invariant and on the kinds of  *)
(* steps above: a quiet step may only move the verdict forward, a claim    *)
(* changes nothing a caller sees, and the owner of the fence and MAX make  *)
(* the steps of the abstract specification.                                *)
(***************************************************************************)

\* What the steps of the owner of the fence do to the row and to MAX.
LEMMA OwnerKinds ==
  ASSUME TypeOK, DispatchInv, NEW w \in Workers, OwnerKind(w)
  PROVE  /\ Fenced(row) /\ ~Completed(row)
         /\ \/ row' = row /\ inflight' = inflight /\ accepted' = accepted
            \/ /\ row' = row /\ inflight \cup accepted = {}
               /\ inflight' = {PostOf(w)} /\ accepted' = {}
            \/ /\ row' = CompleteSet(row, wk[w].token) /\ wk[w].token # NoToken
               /\ accepted # {} /\ inflight' = inflight /\ accepted' = accepted
            \/ /\ row' = ReleaseSet(row) /\ inflight \cup accepted = {}
               /\ inflight' = inflight /\ accepted' = accepted
<1>1. Owning(w)
  BY DEF OwnerKind, GuardRejects, PostMessage, ReceiveReply,
         CompleteSendDispatch, ReleaseSendDispatch, At, Owning
<1>2. Fenced(row) /\ ~Completed(row) /\ wk[w].token # NoToken
  BY <1>1, OwnerFacts DEF Fenced
<1>3. CASE GuardRejects(w) \/ ReceiveReply(w)
  BY <1>2, <1>3 DEF GuardRejects, ReceiveReply, KeepRow, http
<1>4. CASE PostMessage(w)
  <2>1. inflight \cup accepted = {}
    BY <1>4 DEF PostMessage, DispatchInv, PhasesAreSound
  <2> QED BY <1>2, <1>4, <2>1 DEF PostMessage, KeepRow
<1>5. CASE CompleteSendDispatch(w)
  <2>1. accepted # {}
    BY <1>5 DEF CompleteSendDispatch, DispatchInv, PhasesAreSound
  <2> QED BY <1>2, <1>5, <2>1
          DEF CompleteSendDispatch, WriteIf, MayWrite, Write, KeepRow, http
<1>6. CASE ReleaseSendDispatch(w)
  <2>1. inflight \cup accepted = {}
    BY <1>6 DEF ReleaseSendDispatch, DispatchInv, PhasesAreSound
  <2> QED BY <1>2, <1>6, <2>1
          DEF ReleaseSendDispatch, WriteIf, MayWrite, Write, KeepRow, http
<1> QED BY <1>3, <1>4, <1>5, <1>6 DEF OwnerKind

\* MAX decides about the only request there is.
LEMMA MaxKinds ==
  ASSUME TypeOK, DispatchInv, NEW p \in inflight, MaxKind(p)
  PROVE  /\ row' = row /\ Fenced(row) /\ inflight = {p} /\ accepted = {}
         /\ inflight' = {}
         /\ accepted' = {p} \/ accepted' = {}
<1>1. Fenced(row)
  BY DEF DispatchInv, FenceCoversDispatch, TokensAreFresh, Fenced
<1>2. \A q \in inflight \cup accepted : q = p
  <2> SUFFICES ASSUME NEW q \in inflight \cup accepted PROVE q = p
    OBVIOUS
  <2>1. p.token = q.token /\ p.bot = q.bot
    BY DEF DispatchInv, FenceCoversDispatch
  <2>2. p \in Posts /\ q \in Posts
    BY DEF TypeOK
  <2> QED BY <2>1, <2>2 DEF Posts
<1>3. inflight = {p} /\ accepted = {}
  BY <1>2 DEF DispatchInv, PostsAreDisjoint
<1> QED BY <1>1, <1>3 DEF MaxKind, MaxAccepts, MaxRejects, KeepRow

\* What the claim, the receipt and the release leave in a row.
LEMMA OwnStatements ==
  ASSUME NEW r \in Rows, SoundRow(r)
  PROVE  /\ \A t \in Nat, b \in Bots \cup {NoBot} :
              LET s == ClaimSet(r, t, b)
              IN  /\ s.status = r.status /\ s.ambiguous = r.ambiguous
                  /\ s.terminal = r.terminal /\ s.remote = r.remote
         /\ \A t \in Nat : LET s == CompleteSet(r, t)
                           IN  s.remote = t /\ s.status = "SUCCEEDED"
         /\ LET s == ReleaseSet(r)
            IN  /\ s.token = NoToken /\ ~s.terminal /\ ~s.ambiguous
                /\ s.remote = r.remote
BY DEF Rows, ClaimSet, CompleteSet, ReleaseSet

\* No step erases a receipt: a quiet step keeps the remote id, and the owner of
\* the fence, the only other writer, acts before the receipt.
THEOREM ReceiptsLast == Spec => ReceiptIsForever
<1>1. ASSUME TypeOK, DispatchInv, [Next]_vars, Completed(row)
      PROVE  row'.remote = row.remote /\ row'.status = "SUCCEEDED"
  <2>0. row.status = "SUCCEEDED"
    BY <1>1 DEF DispatchInv, SoundRow
  <2>1. CASE QuietKind
    BY <1>1, <2>1 DEF QuietKind, BenignWrite, Benign, SoundRow, Completed
  <2>2. ASSUME NEW w \in Workers, ClaimKind(w) \/ OwnerKind(w) PROVE FALSE
    BY <1>1, <2>2, OwnerKinds DEF ClaimKind, ClaimWhere, UnfencedOpenWhere
  <2>3. ASSUME NEW p \in inflight, MaxKind(p) PROVE row' = row
    BY <1>1, <2>3, MaxKinds
  <2> QED BY <1>1, <2>0, <2>1, <2>2, <2>3, StepKinds
<1> QED BY <1>1, TypeCorrect, DispatchInvHolds, PTL DEF Spec, ReceiptIsForever

\* Only the owner of the fence leaves a quarantine, with a receipt or with the
\* proof that MAX holds and expects nothing.
THEOREM QuarantineLasts == Spec => QuarantineIsSticky
<1>1. ASSUME TypeOK, DispatchInv, [Next]_vars,
             row.status = "AMBIGUOUS" /\ row'.status # "AMBIGUOUS"
      PROVE  \/ Completed(row')
             \/ Fenced(row) /\ ~Fenced(row') /\ inflight' \cup accepted' = {}
  <2>0. row.ambiguous /\ row \in Rows /\ SoundRow(row)
    BY <1>1 DEF DispatchInv, SoundRow, TypeOK
  <2>1. CASE QuietKind
    BY <1>1, <2>0, <2>1 DEF QuietKind, BenignWrite, Benign, SoundRow
  <2>2. ASSUME NEW w \in Workers, ClaimKind(w) PROVE FALSE
    BY <2>0, <2>2 DEF ClaimKind, ClaimWhere, UnfencedOpenWhere
  <2>3. ASSUME NEW w \in Workers, OwnerKind(w)
        PROVE  \/ Completed(row')
               \/ Fenced(row) /\ ~Fenced(row') /\ inflight' \cup accepted' = {}
    <3>1. wk[w].token \in Nat
      BY <1>1 DEF TypeOK, WorkerStates
    <3> QED BY <1>1, <2>0, <2>3, <3>1, OwnerKinds, OwnStatements
            DEF Completed, Fenced, NoToken, NoRemote
  <2>4. ASSUME NEW p \in inflight, MaxKind(p) PROVE FALSE
    BY <1>1, <2>4, MaxKinds
  <2> QED BY <1>1, <2>1, <2>2, <2>3, <2>4, StepKinds
<1> QED BY <1>1, TypeCorrect, DispatchInvHolds, PTL DEF Spec, QuarantineIsSticky

\* Nothing is claimed or sent for a settled key without a fence.
THEOREM SettledIsSilent == Spec => SettledKeyIsSilent
<1>1. ASSUME TypeOK, DispatchInv, [Next]_vars, row.terminal /\ ~Fenced(row)
      PROVE  ~Fenced(row') /\ inflight' = inflight /\ accepted' = accepted
  <2>1. CASE QuietKind
    BY <1>1, <2>1 DEF QuietKind, BenignWrite, Benign, Fenced, http
  <2>2. ASSUME NEW w \in Workers, ClaimKind(w) \/ OwnerKind(w) PROVE FALSE
    BY <1>1, <2>2, OwnerKinds DEF ClaimKind, ClaimWhere, UnfencedOpenWhere
  <2>3. ASSUME NEW p \in inflight, MaxKind(p) PROVE FALSE
    BY <1>1, <2>3, MaxKinds
  <2> QED BY <1>1, <2>1, <2>2, <2>3, StepKinds
<1> QED BY <1>1, TypeCorrect, DispatchInvHolds, PTL DEF Spec, SettledKeyIsSilent

\* The initial state maps to the initial state of the promise.
LEMMA OutcomeInitHolds == Init => Outcome!OutcomeInit
BY DEF Init, Outcome!OutcomeInit, Effect, Verdict, AbsentRow, Completed, Fenced,
       NoRemote, NoToken

\* Every step maps to a step of the promise or to none.
LEMMA OutcomeStep ==
  ASSUME TypeOK, DispatchInv, [Next]_vars
  PROVE  [Outcome!OutcomeNext]_(Outcome!outcome)
<1> USE DEF Outcome!OutcomeNext, Outcome!outcome, Outcome!Dispatch,
        Outcome!Deliver, Outcome!Refuse, Outcome!ReportDelivered,
        Outcome!ReportFailed, Outcome!ReportUnknown, Outcome!Reopen
<1>0. row \in Rows /\ SoundRow(row)
  BY DEF TypeOK, DispatchInv
<1>1. \A p \in inflight \cup accepted : Fenced(row)
  BY DEF DispatchInv, FenceCoversDispatch, TokensAreFresh, Fenced
<1>2. CASE QuietKind
  <2>1. Effect' = Effect
    BY <1>2 DEF QuietKind, http, Effect
  <2>2. /\ row'.token = row.token /\ row'.remote = row.remote
        /\ row.ambiguous => row'.ambiguous
        /\ row.terminal /\ Fenced(row) => row'.terminal
        /\ row.terminal /\ row'.ambiguous => row.ambiguous \/ Fenced(row)
        /\ row.ambiguous => row.terminal
        /\ row'.ambiguous => row'.terminal
    BY <1>0, <1>2 DEF QuietKind, BenignWrite, Benign, SoundRow
  <2>3. ~Fenced(row) => Effect = "none"
    BY <1>1 DEF Effect
  <2>4. CASE Completed(row)
    BY <2>1, <2>2, <2>4 DEF Verdict, Completed
  <2>5. CASE ~Completed(row)
    <3>1. ~Completed(row') /\ (Fenced(row') <=> Fenced(row))
      BY <2>2, <2>5 DEF Completed, Fenced
    <3> QED BY <2>1, <2>2, <2>3, <2>5, <3>1 DEF Verdict
  <2> QED BY <2>4, <2>5
<1>3. ASSUME NEW w \in Workers, ClaimKind(w)
      PROVE  UNCHANGED Outcome!outcome
  <2>1. wk[w].bot \in Bots \cup {NoBot} /\ nextToken \in Nat
    BY DEF TypeOK, WorkerStates
  <2>2. /\ row'.ambiguous = row.ambiguous /\ row'.terminal = row.terminal
        /\ row'.remote = row.remote /\ ~row.terminal
    BY <1>0, <1>3, <2>1, OwnStatements
    DEF ClaimKind, ClaimWhere, UnfencedOpenWhere
  <2>3. Effect' = Effect
    BY <1>3 DEF ClaimKind, http, Effect
  <2> QED BY <2>2, <2>3 DEF Verdict, Completed
<1>4. ASSUME NEW w \in Workers, OwnerKind(w)
      PROVE  [Outcome!OutcomeNext]_(Outcome!outcome)
  <2>0. Fenced(row) /\ ~Completed(row) /\ wk[w].token \in Nat
    BY <1>4, OwnerKinds DEF TypeOK, WorkerStates
  <2>1. CASE row' = row /\ inflight' = inflight /\ accepted' = accepted
    BY <2>1 DEF Verdict, Effect
  <2>2. CASE /\ row' = row /\ inflight \cup accepted = {}
             /\ inflight' = {PostOf(w)} /\ accepted' = {}
    <3>1. Effect = "none" /\ Effect' = "pending"
      BY <2>2 DEF Effect
    <3>2. Verdict' = Verdict /\ Verdict \in {"open", "unknown"}
      BY <2>0, <2>2 DEF Verdict
    <3> QED BY <3>1, <3>2
  <2>3. CASE /\ row' = CompleteSet(row, wk[w].token) /\ wk[w].token # NoToken
             /\ accepted # {} /\ inflight' = inflight /\ accepted' = accepted
    <3>1. Effect = "done" /\ Effect' = "done"
      BY <2>3 DEF Effect
    <3>2. Completed(row')
      BY <1>0, <2>0, <2>3, OwnStatements DEF Completed, NoToken, NoRemote
    <3>3. Verdict # "delivered" /\ Verdict' = "delivered"
      BY <2>0, <3>2 DEF Verdict
    <3> QED BY <3>1, <3>3
  <2>4. CASE /\ row' = ReleaseSet(row) /\ inflight \cup accepted = {}
             /\ inflight' = inflight /\ accepted' = accepted
    <3>1. Effect = "none" /\ Effect' = "none"
      BY <2>4 DEF Effect
    <3>2. ~Completed(row') /\ ~row'.terminal /\ ~row'.ambiguous
      BY <1>0, <2>0, <2>4, OwnStatements DEF Completed
    <3>3. Verdict' = "open" /\ Verdict \in {"open", "unknown"}
      BY <2>0, <3>2 DEF Verdict
    <3> QED BY <3>1, <3>3
  <2> QED BY <1>4, <2>1, <2>2, <2>3, <2>4, OwnerKinds
<1>5. ASSUME NEW p \in inflight, MaxKind(p)
      PROVE  [Outcome!OutcomeNext]_(Outcome!outcome)
  <2>1. Effect = "pending" /\ Effect' \in {"done", "none"}
    BY <1>5, MaxKinds DEF Effect
  <2>2. Verdict' = Verdict
    BY <1>5, MaxKinds DEF Verdict
  <2> QED BY <2>1, <2>2
<1> QED BY <1>2, <1>3, <1>4, <1>5, StepKinds

\* The send path implements SendOutcome for every value of the constants: at
\* every moment what the ledger says of a key is true of MAX.
THEOREM SendImplementsOutcome == Spec => ImplementsOutcome
<1>1. TypeOK /\ DispatchInv /\ [Next]_vars => [Outcome!OutcomeNext]_(Outcome!outcome)
  BY OutcomeStep
<1> QED BY <1>1, OutcomeInitHolds, TypeCorrect, DispatchInvHolds, PTL
        DEF Spec, ImplementsOutcome, Outcome!OutcomeSpec
==============================================================================
