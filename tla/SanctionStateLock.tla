-------------------------- MODULE SanctionStateLock --------------------------
(***************************************************************************)
(* runExclusive of moderation-sanction-state-lock.service.ts: one Redis    *)
(* lock per (chat, user) with a TTL, a heartbeat that renews it, a guard   *)
(* (assertOwned) that the protected operation calls before its writes, and *)
(* a conservative local estimate of the expiry.                            *)
(*                                                                         *)
(* A caller is one call of runExclusive, and stands for the random token   *)
(* that call draws.  A request to Redis is sent, takes effect, and is      *)
(* answered at three different moments; its caller may see an error at any *)
(* moment instead of the answer, and the request may then still take       *)
(* effect (a stray).  Clocks of Redis and of the callers are one clock,    *)
(* now; timers may fire at any time.  runWithTestMemoryLock is for tests.  *)
(***************************************************************************)
EXTENDS Naturals

CONSTANTS
  Callers,     \* calls of runExclusive for one subject
  NoCaller,    \* the lock key does not exist
  TTL,         \* MODERATION_SANCTION_STATE_LOCK_TTL_MS
  Wait,        \* waitTimeoutMs, at least one unit
  MaxTime,     \* bound on the clock
  MaxStrays    \* bound on abandoned requests of one kind and caller

ASSUME CallersAssumption == NoCaller \notin Callers
ASSUME TimesAssumption ==
  /\ TTL \in Nat \ {0} /\ Wait \in Nat \ {0}
  /\ MaxTime \in Nat /\ MaxStrays \in Nat

VARIABLES
  now,        \* the clock
  owner,      \* the token stored under the key
  ttlEnd,     \* when Redis drops the key
  phase,      \* where the call stands
  deadline,   \* deadlineAtMs of the acquisition
  expires,    \* lease.conservativeExpiresAtMs
  lost,       \* leaseLostError is set
  net,        \* the request of each kind that the call awaits
  since,      \* when that request was started
  stray,      \* abandoned requests that may still reach Redis
  intruded    \* history: another call got the lock during the operation

vars == <<now, owner, ttlEnd, phase, deadline, expires, lost, net, since,
          stray, intruded>>

Kinds == {"acquire", "heartbeat", "guard", "release"}
Answers == {"idle", "sent", "yes", "no", "late"}

\* "refused" never got the lock (busy, unavailable, or the process died).
\* "dead" is a process that died with it.
Phases == {"idle", "acquiring", "holding", "stopping", "releasing",
           "succeeded", "lost", "failed", "refused", "dead"}

TypeOK ==
  /\ now \in Nat
  /\ owner \in Callers \cup {NoCaller}
  /\ ttlEnd \in Nat
  /\ phase \in [Callers -> Phases]
  /\ deadline \in [Callers -> Nat]
  /\ expires \in [Callers -> Nat]
  /\ lost \in [Callers -> BOOLEAN]
  /\ net \in [Callers -> [Kinds -> Answers]]
  /\ since \in [Callers -> [Kinds -> Nat]]
  /\ stray \in [Callers -> [Kinds -> Nat]]
  /\ intruded \in [Callers -> BOOLEAN]

Init ==
  /\ now = 0 /\ owner = NoCaller /\ ttlEnd = 0
  /\ phase = [c \in Callers |-> "idle"]
  /\ deadline = [c \in Callers |-> 0]
  /\ expires = [c \in Callers |-> 0]
  /\ lost = [c \in Callers |-> FALSE]
  /\ net = [c \in Callers |-> [k \in Kinds |-> "idle"]]
  /\ since = [c \in Callers |-> [k \in Kinds |-> 0]]
  /\ stray = [c \in Callers |-> [k \in Kinds |-> 0]]
  /\ intruded = [c \in Callers |-> FALSE]

\* The operation runs, or has returned and the heartbeat is being stopped.
InOperation(c) == phase[c] \in {"holding", "stopping"}

------------------------------------------------------------------------------
(***************************************************************************)
(* Redis: one script runs at a time.  A key is gone at its expiry.         *)
(***************************************************************************)

Holds(c) == owner = c /\ now < ttlEnd
Free == owner = NoCaller \/ now >= ttlEnd

\* SET ... PX NX took effect for c: whoever is in its operation is intruded.
Granted(c) ==
  /\ owner' = c
  /\ ttlEnd' = now + TTL
  /\ intruded' = [d \in Callers |-> intruded[d] \/ (d # c /\ InOperation(d))]

\* Fault variant: a command that arrives late still creates the lock.
AcquireWithoutDeadline(c, answer) ==
  IF Free
  THEN Granted(c) /\ answer = "yes"
  ELSE answer = "no" /\ UNCHANGED <<owner, ttlEnd, intruded>>

\* ACQUIRE_LOCK_BEFORE_DEADLINE_SCRIPT
AcquireScript(c, answer) ==
  IF now >= deadline[c]
  THEN answer = "late" /\ UNCHANGED <<owner, ttlEnd, intruded>>
  ELSE IF Free
  THEN Granted(c) /\ answer = "yes"
  ELSE answer = "no" /\ UNCHANGED <<owner, ttlEnd, intruded>>

\* RENEW_LOCK_SCRIPT: only the stored token is renewed.
RenewScript(c, answer) ==
  IF Holds(c)
  THEN answer = "yes" /\ ttlEnd' = now + TTL /\ UNCHANGED <<owner, intruded>>
  ELSE answer = "no" /\ UNCHANGED <<owner, ttlEnd, intruded>>

\* releaseLock: compare and delete.
ReleaseScript(c, answer) ==
  IF Holds(c)
  THEN answer = "yes" /\ owner' = NoCaller /\ UNCHANGED <<ttlEnd, intruded>>
  ELSE answer = "no" /\ UNCHANGED <<owner, ttlEnd, intruded>>

Script(c, k, answer) ==
  CASE k = "acquire" -> AcquireScript(c, answer)
    [] k = "release" -> ReleaseScript(c, answer)
    [] OTHER -> RenewScript(c, answer)

\* A request reaches Redis.
Serve(c, k) ==
  /\ net[c][k] = "sent"
  /\ \E answer \in Answers : Script(c, k, answer)
                             /\ net' = [net EXCEPT ![c][k] = answer]
  /\ UNCHANGED <<now, phase, deadline, expires, lost, since, stray>>

\* A request reaches Redis after its caller stopped waiting for it.
ServeStray(c, k) ==
  /\ stray[c][k] > 0
  /\ stray' = [stray EXCEPT ![c][k] = @ - 1]
  /\ \E answer \in Answers : Script(c, k, answer)
  /\ UNCHANGED <<now, phase, deadline, expires, lost, net, since>>

------------------------------------------------------------------------------
(***************************************************************************)
(* The caller.                                                             *)
(***************************************************************************)

Send(c, k) ==
  /\ net[c][k] = "idle"
  /\ net' = [net EXCEPT ![c][k] = "sent"]
  /\ since' = [since EXCEPT ![c][k] = now]

Forget(c, k) ==
  /\ net' = [net EXCEPT ![c][k] = "idle"]
  /\ since' = [since EXCEPT ![c][k] = 0]

\* Date.now() and the timers.
Tick ==
  /\ now < MaxTime
  /\ now' = now + 1
  /\ UNCHANGED <<owner, ttlEnd, phase, deadline, expires, lost, net, since,
                 stray, intruded>>

\* runExclusive, up to the acquisition loop
Begin(c) ==
  /\ phase[c] = "idle"
  /\ phase' = [phase EXCEPT ![c] = "acquiring"]
  /\ deadline' = [deadline EXCEPT ![c] = now + Wait]
  /\ UNCHANGED <<now, owner, ttlEnd, expires, lost, net, since, stray, intruded>>

\* One turn of the loop, first or after a wait.
TryLock(c) ==
  /\ phase[c] = "acquiring"
  /\ Send(c, "acquire")
  /\ UNCHANGED <<now, owner, ttlEnd, phase, deadline, expires, lost, stray, intruded>>

\* Fault variant: the lease is counted from the moment of the answer.
LeaseFromAnswer(c) == now + TTL

\* The expiry estimate of an acquisition: counted from its start.
LeaseFromStart(c) == since[c]["acquire"] + TTL

\* The answer of an acquisition; startHeartbeat finds a lease that is already
\* over and marks it lost.
AcquireAnswered(c) ==
  /\ phase[c] = "acquiring"
  /\ net[c]["acquire"] \in {"yes", "no", "late"}
  /\ Forget(c, "acquire")
  /\ \/ /\ net[c]["acquire"] = "yes"
        /\ phase' = [phase EXCEPT ![c] = "holding"]
        /\ expires' = [expires EXCEPT ![c] = LeaseFromStart(c)]
        /\ lost' = IF now >= LeaseFromStart(c)
                   THEN [lost EXCEPT ![c] = TRUE] ELSE lost
     \/ /\ net[c]["acquire"] # "yes"
        /\ phase' = IF net[c]["acquire"] = "late" \/ now >= deadline[c]
                    THEN [phase EXCEPT ![c] = "refused"] ELSE phase
        /\ UNCHANGED <<expires, lost>>
  /\ UNCHANGED <<now, owner, ttlEnd, deadline, stray, intruded>>

\* recordSuccessfulRenewal
Renewed(c, k) ==
  LET renewedUntil == since[c][k] + TTL
  IN IF now >= renewedUntil
     THEN lost' = [lost EXCEPT ![c] = TRUE] /\ UNCHANGED expires
     ELSE /\ expires' = [expires EXCEPT
                           ![c] = IF renewedUntil > @ THEN renewedUntil ELSE @]
          /\ UNCHANGED lost

\* The timer of the heartbeat: it gives up an expired lease, or renews.
HeartbeatFires(c) ==
  /\ phase[c] = "holding" /\ ~lost[c]
  /\ net[c]["heartbeat"] = "idle"
  /\ IF now >= expires[c]
     THEN lost' = [lost EXCEPT ![c] = TRUE] /\ UNCHANGED <<net, since>>
     ELSE Send(c, "heartbeat") /\ UNCHANGED lost
  /\ UNCHANGED <<now, owner, ttlEnd, phase, deadline, expires, stray, intruded>>

\* assertOwned, up to its request
GuardCalled(c) ==
  /\ phase[c] = "holding" /\ ~lost[c]
  /\ net[c]["guard"] = "idle"
  /\ IF now >= expires[c]
     THEN lost' = [lost EXCEPT ![c] = TRUE] /\ UNCHANGED <<net, since>>
     ELSE Send(c, "guard") /\ UNCHANGED lost
  /\ UNCHANGED <<now, owner, ttlEnd, phase, deadline, expires, stray, intruded>>

\* The answer of a renewal, of the heartbeat or of assertOwned.  assertOwned
\* passes when the lease is not lost afterwards; a heartbeat is armed again.
RenewalAnswered(c, k) ==
  /\ InOperation(c)
  /\ k \in {"heartbeat", "guard"}
  /\ net[c][k] \in {"yes", "no"}
  /\ Forget(c, k)
  /\ IF net[c][k] = "yes"
     THEN Renewed(c, k)
     ELSE lost' = [lost EXCEPT ![c] = TRUE] /\ UNCHANGED expires
  /\ UNCHANGED <<now, owner, ttlEnd, phase, deadline, stray, intruded>>

\* The operation returns or throws; runExclusive calls heartbeat.stop.
OperationEnds(c) ==
  /\ phase[c] = "holding"
  /\ net[c]["guard"] = "idle"
  /\ phase' = [phase EXCEPT ![c] = "stopping"]
  /\ UNCHANGED <<now, owner, ttlEnd, deadline, expires, lost, net, since,
                 stray, intruded>>

\* Fault variant: stop does not look at the clock.
StopWithoutExpiryCheck(c) == lost[c]

\* stop, after the renewal under way: is the lease still certain?
LostAtStop(c) == lost[c] \/ now >= expires[c]

\* stop returns and the lock is released.
Stop(c) ==
  /\ phase[c] = "stopping"
  /\ net[c]["heartbeat"] = "idle"
  /\ phase' = [phase EXCEPT ![c] = "releasing"]
  /\ lost' = [lost EXCEPT ![c] = LostAtStop(c)]
  /\ Send(c, "release")
  /\ UNCHANGED <<now, owner, ttlEnd, deadline, expires, stray, intruded>>

\* The result of runExclusive: an operation that threw is "failed".
Result(c) == {"failed", IF lost[c] THEN "lost" ELSE "succeeded"}

ReleaseAnswered(c) ==
  /\ phase[c] = "releasing"
  /\ net[c]["release"] \in {"yes", "no"}
  /\ Forget(c, "release")
  /\ \E r \in Result(c) : phase' = [phase EXCEPT ![c] = r]
  /\ UNCHANGED <<now, owner, ttlEnd, deadline, expires, lost, stray, intruded>>

\* The transport reports an error, before or after the request took effect:
\* acquisition gives up, the heartbeat tries again unless its lease is over,
\* assertOwned throws without marking the lease lost, and a failed release
\* leaves the key to its TTL.
TransportError(c, k) ==
  /\ net[c][k] # "idle"
  /\ Forget(c, k)
  /\ \/ UNCHANGED stray
     \/ /\ net[c][k] = "sent" /\ stray[c][k] < MaxStrays
        /\ stray' = [stray EXCEPT ![c][k] = @ + 1]
  /\ \/ k = "acquire" /\ phase' = [phase EXCEPT ![c] = "refused"]
     \/ k = "release" /\ \E r \in Result(c) : phase' = [phase EXCEPT ![c] = r]
     \/ k \in {"heartbeat", "guard"} /\ UNCHANGED phase
  /\ lost' = IF k = "heartbeat" /\ now >= expires[c]
             THEN [lost EXCEPT ![c] = TRUE] ELSE lost
  /\ UNCHANGED <<now, owner, ttlEnd, deadline, expires, intruded>>

\* The process dies; what it had sent may still reach Redis.
Crash(c) ==
  /\ phase[c] \in {"acquiring", "holding", "stopping", "releasing"}
  /\ phase' = [phase EXCEPT ![c] = IF @ = "acquiring" THEN "refused" ELSE "dead"]
  /\ stray' = [stray EXCEPT
                 ![c] = [k \in Kinds |-> IF net[c][k] = "sent" THEN @[k] + 1
                                         ELSE @[k]]]
  /\ net' = [net EXCEPT ![c] = [k \in Kinds |-> "idle"]]
  /\ since' = [since EXCEPT ![c] = [k \in Kinds |-> 0]]
  /\ UNCHANGED <<now, owner, ttlEnd, deadline, expires, lost, intruded>>

Next ==
  \/ Tick
  \/ \E c \in Callers :
       \/ Begin(c) \/ TryLock(c) \/ AcquireAnswered(c)
       \/ HeartbeatFires(c) \/ GuardCalled(c)
       \/ OperationEnds(c) \/ Stop(c) \/ ReleaseAnswered(c) \/ Crash(c)
       \/ \E k \in Kinds : \/ Serve(c, k) \/ ServeStray(c, k)
                           \/ RenewalAnswered(c, k) \/ TransportError(c, k)

Spec == Init /\ [][Next]_vars

------------------------------------------------------------------------------
(***************************************************************************)
(* Properties.                                                             *)
(***************************************************************************)

\* What assertOwned and stop rely on.
BelievesOwned(c) == InOperation(c) /\ ~lost[c] /\ now < expires[c]

\* A call that believes in its lease has the lock in Redis: late answers, lost
\* answers, stray renewals and releases of earlier calls never leave two calls
\* that both pass assertNotExpired.
BeliefIsOwnership == \A c \in Callers : BelievesOwned(c) => Holds(c)

\* runExclusive returns the result of its operation only if no other call
\* got the lock between its acquisition and the end of the operation.
SuccessWasExclusive == \A c \in Callers : phase[c] = "succeeded" => ~intruded[c]

\* A call that gave up never leaves a lock that outlives its own deadline by
\* more than one TTL, however late its command reached Redis.
AbandonedLockEnds ==
  \A c \in Callers :
    phase[c] = "refused" /\ Holds(c) => ttlEnd <= deadline[c] + TTL
==============================================================================
