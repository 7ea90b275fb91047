------------------------- MODULE MediaByteAdmission -------------------------
(***************************************************************************)
(* The byte budget of media preparation (common/media-byte-admission.ts)   *)
(* as the VK publisher uses it: callers reserve encoded bytes before they  *)
(* allocate media, wait in arrival order for room, and give the bytes back *)
(* in a finally block.  JavaScript runs each method to its end, so every   *)
(* method call and every timer or abort callback is one action.            *)
(*                                                                         *)
(* A caller is one call at a time; after it settled it may call again.     *)
(* Deadlines are absolute instants: expired[c] says that the clock has     *)
(* passed the deadline of c, which its timer notices later.  The peaks of  *)
(* getSnapshot are not modelled.                                           *)
(***************************************************************************)
EXTENDS Naturals, Sequences, FiniteSets, SequencesExt, FiniteSetsExt

CONSTANTS
  Callers,      \* callers of tryAcquire and acquire
  Budget,       \* budgetBytes
  MaxWaiters,   \* maxWaiters
  Sizes         \* reservation sizes that are asked for

\* The constructor's range checks, and assertReservation for every size.
ASSUME BudgetAssumption == Budget \in Nat \ {0} /\ MaxWaiters \in Nat
ASSUME SizesAssumption == Sizes \subseteq 1..Budget
ASSUME CallersAssumption == IsFiniteSet(Callers)

VARIABLES
  reserved,   \* reservedBytes
  waiters,    \* waiters, in arrival order
  stopping,   \* stopping
  phase,      \* how the last call of a caller stands
  bytes,      \* the bytes that call asked for
  expired     \* the deadline of a waiting caller has passed

vars == <<reserved, waiters, stopping, phase, bytes, expired>>

Failures == {"deadline", "aborted", "queue_full", "stopping", "refused"}
Phases == {"idle", "waiting", "granted", "released"} \cup Failures

TypeOK ==
  /\ reserved \in Nat
  /\ waiters \in Seq(Callers)
  /\ stopping \in BOOLEAN
  /\ phase \in [Callers -> Phases]
  /\ bytes \in [Callers -> 0..Budget]
  /\ expired \in [Callers -> BOOLEAN]

Init ==
  /\ reserved = 0 /\ waiters = <<>> /\ stopping = FALSE
  /\ phase = [c \in Callers |-> "idle"]
  /\ bytes = [c \in Callers |-> 0]
  /\ expired = [c \in Callers |-> FALSE]

Fits(b, held) == b <= Budget - held

\* Fault variant: a call that fits is granted past the queue.
OvertakingAdmission(b) == ~stopping /\ Fits(b, reserved)

\* tryAcquire: nobody overtakes a waiter.
Admissible(b) == ~stopping /\ waiters = <<>> /\ Fits(b, reserved)

------------------------------------------------------------------------------
(***************************************************************************)
(* drain: the head of the queue leaves while it is late or fits.           *)
(***************************************************************************)

\* Fault variant: a waiter that does not fit is passed over.
DrainPassingOver(acc, c) ==
  IF expired[c] THEN [acc EXCEPT !.late = @ \cup {c}]
  ELSE IF Fits(bytes[c], acc.held)
  THEN [acc EXCEPT !.granted = @ \cup {c}, !.held = @ + bytes[c]]
  ELSE [acc EXCEPT !.rest = Append(@, c)]

DrainStep(acc, c) ==
  IF acc.blocked THEN [acc EXCEPT !.rest = Append(@, c)]
  ELSE IF expired[c] THEN [acc EXCEPT !.late = @ \cup {c}]
  ELSE IF Fits(bytes[c], acc.held)
  THEN [acc EXCEPT !.granted = @ \cup {c}, !.held = @ + bytes[c]]
  ELSE [acc EXCEPT !.blocked = TRUE, !.rest = Append(@, c)]

Drained(queue, held) ==
  LET start == [rest |-> <<>>, held |-> held, granted |-> {}, late |-> {},
                blocked |-> stopping]
  IN FoldLeft(DrainStep, start, queue)

\* The queue and the reservation before drain, and the phases of the callers
\* whose own call has just changed.
DrainFrom(queue, held, changed) ==
  LET d == Drained(queue, held)
  IN /\ waiters' = d.rest
     /\ reserved' = d.held
     /\ phase' = [c \in Callers |->
                    IF c \in d.granted THEN "granted"
                    ELSE IF c \in d.late THEN "deadline"
                    ELSE changed[c]]
     /\ expired' = [c \in Callers |-> expired[c] /\ c \in Range(d.rest)]

------------------------------------------------------------------------------
(***************************************************************************)
(* The calls.                                                              *)
(***************************************************************************)

Free(c) == phase[c] \notin {"waiting", "granted"}

\* tryAcquire(b), which answers null instead of waiting.
TryAcquire(c, b) ==
  /\ Free(c)
  /\ phase' = [phase EXCEPT ![c] = IF Admissible(b) THEN "granted" ELSE "refused"]
  /\ reserved' = reserved + (IF Admissible(b) THEN b ELSE 0)
  /\ bytes' = [bytes EXCEPT ![c] = b]
  /\ UNCHANGED <<waiters, stopping, expired>>

\* acquire: the early returns in their order, then the queue.
AcquireOutcome(b, aborted, late) ==
  IF stopping THEN "stopping"
  ELSE IF aborted THEN "aborted"
  ELSE IF late THEN "deadline"
  ELSE IF Admissible(b) THEN "granted"
  ELSE IF Len(waiters) >= MaxWaiters THEN "queue_full"
  ELSE "waiting"

Acquire(c, b, aborted, late) ==
  LET outcome == AcquireOutcome(b, aborted, late)
  IN /\ Free(c)
     /\ phase' = [phase EXCEPT ![c] = outcome]
     /\ reserved' = reserved + (IF outcome = "granted" THEN b ELSE 0)
     /\ waiters' = IF outcome = "waiting" THEN Append(waiters, c) ELSE waiters
     /\ bytes' = [bytes EXCEPT ![c] = b]
     /\ UNCHANGED <<stopping, expired>>

\* indexOf and splice: the queue without the waiter c.
QueueWithout(c) ==
  RemoveAt(waiters, CHOOSE i \in 1..Len(waiters) : waiters[i] = c)

\* Fault variant: a waiter that gives up does not wake the queue behind it.
FailWithoutDrain(c, reason) ==
  /\ waiters' = QueueWithout(c)
  /\ phase' = [phase EXCEPT ![c] = reason]
  /\ expired' = [expired EXCEPT ![c] = FALSE]
  /\ UNCHANGED <<reserved, stopping, bytes>>

\* fail: the waiter leaves the queue and those behind it may fit now.
Fail(c, reason) ==
  /\ DrainFrom(QueueWithout(c), reserved, [phase EXCEPT ![c] = reason])
  /\ UNCHANGED <<stopping, bytes>>

\* onAbort
Abort(c) == phase[c] = "waiting" /\ Fail(c, "aborted")

\* The timer of a waiting caller, some time after its deadline.
TimerFires(c) == phase[c] = "waiting" /\ expired[c] /\ Fail(c, "deadline")

\* Date.now() passes the deadline of a waiting caller.
DeadlinePasses(c) ==
  /\ phase[c] = "waiting" /\ ~expired[c]
  /\ expired' = [expired EXCEPT ![c] = TRUE]
  /\ UNCHANGED <<reserved, waiters, stopping, phase, bytes>>

\* Fault variant: a second release gives the bytes back again.
ReleaseTwice(c) ==
  /\ phase[c] \in {"granted", "released"}
  /\ DrainFrom(waiters, reserved - bytes[c], [phase EXCEPT ![c] = "released"])
  /\ UNCHANGED <<stopping, bytes>>

\* release of the permit; a second call returns at once.
Release(c) ==
  \/ /\ phase[c] = "granted"
     /\ DrainFrom(waiters, reserved - bytes[c], [phase EXCEPT ![c] = "released"])
     /\ UNCHANGED <<stopping, bytes>>
  \/ phase[c] = "released" /\ UNCHANGED vars

\* close: every waiter is rejected, permits stay with their holders.
Close ==
  /\ ~stopping
  /\ stopping' = TRUE
  /\ waiters' = <<>>
  /\ phase' = [c \in Callers |-> IF c \in Range(waiters) THEN "stopping"
                                 ELSE phase[c]]
  /\ expired' = [c \in Callers |-> FALSE]
  /\ UNCHANGED <<reserved, bytes>>

Next ==
  \/ \E c \in Callers, b \in Sizes :
       \/ TryAcquire(c, b)
       \/ \E aborted, late \in BOOLEAN : Acquire(c, b, aborted, late)
  \/ \E c \in Callers :
       Abort(c) \/ TimerFires(c) \/ DeadlinePasses(c) \/ Release(c)
  \/ Close

Spec == Init /\ [][Next]_vars

\* Permits are released in the finally blocks of their holders
\* (vk-publish.service.ts), whatever the work between did.
FairSpec == Spec /\ \A c \in Callers : WF_vars(Release(c))

------------------------------------------------------------------------------
(***************************************************************************)
(* Properties.                                                             *)
(***************************************************************************)

Holders == {c \in Callers : phase[c] = "granted"}

\* The reservation is exactly the bytes of the permits that are not released,
\* and never more than the budget: grants out of drain, late releases and a
\* repeated release keep the account exact.
ReservationExact ==
  /\ reserved = MapThenSumSet(LAMBDA c : bytes[c], Holders)
  /\ reserved <= Budget

\* Nobody waits for room that is there: the head of the queue does not fit,
\* or its deadline passed and its timer is about to reject it.
NoStrandedHead ==
  waiters # <<>> => expired[Head(waiters)] \/ ~Fits(bytes[Head(waiters)], reserved)

\* Bytes are granted in arrival order: a step that grants to a waiter leaves
\* nobody who came before it in the queue, and a step that grants to a new
\* call found no queue.
GrantsInOrder ==
  [][\A c \in Callers :
       phase[c] # "granted" /\ phase'[c] = "granted" =>
         IF phase[c] = "waiting"
         THEN \A i, j \in 1..Len(waiters) :
                waiters[j] = c /\ i < j => waiters[i] \notin Range(waiters')
         ELSE waiters = <<>>]_vars

\* While every holder gives its bytes back, a waiter is granted or rejected
\* even if its deadline never comes: large reservations are not starved by a
\* stream of small ones.
WaitersSettle == \A c \in Callers : phase[c] = "waiting" ~> phase[c] # "waiting"
==============================================================================
