----------------------- MODULE SanctionStateLockProofs -----------------------
(***************************************************************************)
(* Proofs about SanctionStateLock, for every set of callers and all times. *)
(***************************************************************************)
EXTENDS SanctionStateLock, TLAPS

\* Where a call stands, by the requests it has under way or has abandoned:
\* only a waiting call acquires, only one in its operation renews, and
\* a release comes after the operation.
RequestsFollowPhase(c) ==
  /\ net[c]["acquire"] # "idle" => phase[c] = "acquiring"
  /\ net[c]["heartbeat"] # "idle" => InOperation(c)
  /\ net[c]["guard"] # "idle" => phase[c] = "holding"
  /\ net[c]["release"] # "idle" => phase[c] = "releasing"
  /\ stray[c]["acquire"] > 0 => phase[c] = "refused"
  /\ stray[c]["heartbeat"] > 0 => phase[c] \notin {"idle", "acquiring", "refused"}
  /\ stray[c]["guard"] > 0 => phase[c] \notin {"idle", "acquiring", "refused"}
  /\ stray[c]["release"] > 0 => phase[c] \in {"succeeded", "lost", "failed", "dead"}

\* The lock is c's at least until t, unless t has passed.
CoveredUntil(c, t) == now < t => owner = c /\ t <= ttlEnd

\* The estimate c may make from the answer to a request of kind k.
AnswerCovered(c, k) ==
  /\ net[c][k] # "idle" => since[c][k] <= now
  /\ net[c][k] = "yes" => CoveredUntil(c, since[c][k] + TTL)

\* Every estimate a call made, or is about to make from an answer that is
\* under way, lies within the lease Redis gave.
EstimatesCovered(c) ==
  /\ InOperation(c) => CoveredUntil(c, expires[c])
  /\ AnswerCovered(c, "acquire")
  /\ AnswerCovered(c, "heartbeat")
  /\ AnswerCovered(c, "guard")

\* A call that another one overtook during its operation does not have the
\* lock again, and ends by reporting its lease lost.
IntrusionNoticed(c) ==
  intruded[c] => /\ phase[c] \notin {"idle", "acquiring", "succeeded"}
                 /\ InOperation(c) => owner # c
                 /\ phase[c] = "releasing" => lost[c]

\* A lock that was created for a call that does not know of it (yet) ends with
\* the deadline and one TTL.
UnconfirmedLockEnds(c) ==
  owner = c => /\ phase[c] # "idle"
               /\ phase[c] \in {"acquiring", "refused"} =>
                    ttlEnd <= deadline[c] + TTL

CallInv(c) == /\ RequestsFollowPhase(c)
              /\ EstimatesCovered(c)
              /\ IntrusionNoticed(c)
              /\ UnconfirmedLockEnds(c)

\* The inductive invariant.
Inv == TypeOK /\ ttlEnd <= now + TTL /\ \A c \in Callers : CallInv(c)

USE DEF Kinds, Answers, Phases

LEMMA InitInv == Init => Inv
BY CallersAssumption, TimesAssumption
   DEF Init, Inv, CallInv, TypeOK, RequestsFollowPhase, EstimatesCovered,
       IntrusionNoticed, UnconfirmedLockEnds, CoveredUntil, AnswerCovered,
       InOperation

(***************************************************************************)
(* What sending, forgetting and serving a request change, point by point.  *)
(***************************************************************************)

LEMMA SendFacts ==
  ASSUME TypeOK, NEW c \in Callers, NEW k \in Kinds, Send(c, k)
  PROVE  /\ net' \in [Callers -> [Kinds -> Answers]]
         /\ since' \in [Callers -> [Kinds -> Nat]]
         /\ net[c][k] = "idle"
         /\ net'[c][k] = "sent" /\ since'[c][k] = now
         /\ \A d \in Callers, j \in Kinds :
              d # c \/ j # k => net'[d][j] = net[d][j] /\ since'[d][j] = since[d][j]
BY DEF TypeOK, Send

LEMMA ForgetFacts ==
  ASSUME TypeOK, NEW c \in Callers, NEW k \in Kinds, Forget(c, k)
  PROVE  /\ net' \in [Callers -> [Kinds -> Answers]]
         /\ since' \in [Callers -> [Kinds -> Nat]]
         /\ net'[c][k] = "idle"
         /\ \A d \in Callers, j \in Kinds :
              d # c \/ j # k => net'[d][j] = net[d][j] /\ since'[d][j] = since[d][j]
BY DEF TypeOK, Forget

\* The four things a script can do to the lock.
NoEffect(answer) == answer \in {"no", "late"} /\ UNCHANGED <<owner, ttlEnd, intruded>>
Acquires(c, k, answer) ==
  /\ k = "acquire" /\ answer = "yes" /\ Free /\ now < deadline[c]
  /\ owner' = c /\ ttlEnd' = now + TTL
  /\ intruded' \in [Callers -> BOOLEAN]
  /\ \A d \in Callers : intruded'[d] <=> (intruded[d] \/ (d # c /\ InOperation(d)))
Renews(c, k, answer) ==
  /\ k \in {"heartbeat", "guard"} /\ answer = "yes" /\ Holds(c)
  /\ ttlEnd' = now + TTL /\ UNCHANGED <<owner, intruded>>
Releases(c, k, answer) ==
  /\ k = "release" /\ answer = "yes" /\ Holds(c)
  /\ owner' = NoCaller /\ UNCHANGED <<ttlEnd, intruded>>

LEMMA ScriptFacts ==
  ASSUME TypeOK, NEW c \in Callers, NEW k \in Kinds, NEW answer, Script(c, k, answer)
  PROVE  \/ NoEffect(answer) \/ Acquires(c, k, answer)
         \/ Renews(c, k, answer) \/ Releases(c, k, answer)
<1>1. CASE k = "acquire"
  <2>1. AcquireScript(c, answer)
    BY <1>1 DEF Script
  <2>2. CASE Granted(c) /\ answer = "yes" /\ ~(now >= deadline[c]) /\ Free
    <3>1. intruded' \in [Callers -> BOOLEAN]
      BY <2>2, Zenon DEF Granted, TypeOK, InOperation
    <3>2. \A d \in Callers : intruded'[d] <=> (intruded[d] \/ (d # c /\ InOperation(d)))
      BY <2>2, Zenon DEF Granted, TypeOK
    <3>3. now < deadline[c]
      BY <2>2 DEF TypeOK
    <3>4. QED
      BY <1>1, <2>2, <3>1, <3>2, <3>3 DEF Granted, Acquires
  <2>3. QED
    BY <2>1, <2>2 DEF AcquireScript, NoEffect
<1>2. CASE k = "release"
  BY <1>2 DEF Script, ReleaseScript, Releases, NoEffect
<1>3. CASE k \in {"heartbeat", "guard"}
  BY <1>3 DEF Script, RenewScript, Renews, NoEffect
<1>4. QED
  BY <1>1, <1>2, <1>3

LEMMA TickInv ==
  ASSUME Inv, Tick PROVE Inv'
<1> USE DEF Inv, TypeOK, Tick
<1>1. TypeOK' /\ (ttlEnd <= now + TTL)'
  BY CallersAssumption, TimesAssumption
<1>2. ASSUME NEW d \in Callers PROVE CallInv(d)'
  <2>1. CallInv(d)
    OBVIOUS
  <2>2. RequestsFollowPhase(d)'
    BY <2>1 DEF CallInv, RequestsFollowPhase, InOperation
  <2>3. EstimatesCovered(d)'
    BY <2>1, CallersAssumption, TimesAssumption
       DEF CallInv, RequestsFollowPhase, EstimatesCovered, CoveredUntil,
           AnswerCovered, InOperation
  <2>4. IntrusionNoticed(d)'
    BY <2>1, CallersAssumption
       DEF CallInv, RequestsFollowPhase, EstimatesCovered, CoveredUntil,
           AnswerCovered, IntrusionNoticed, InOperation
  <2>5. UnconfirmedLockEnds(d)'
    BY <2>1, CallersAssumption, TimesAssumption
       DEF CallInv, RequestsFollowPhase, UnconfirmedLockEnds, InOperation
  <2>6. QED
    BY <2>2, <2>3, <2>4, <2>5 DEF CallInv
<1>3. QED
  BY <1>1, <1>2

LEMMA BeginInv ==
  ASSUME NEW c \in Callers, Inv, Begin(c) PROVE Inv'
<1> USE DEF Inv, TypeOK, Begin
<1>1. TypeOK' /\ (ttlEnd <= now + TTL)'
  BY CallersAssumption, TimesAssumption
<1>2. ASSUME NEW d \in Callers PROVE CallInv(d)'
  <2>1. CallInv(d) /\ CallInv(c)
    OBVIOUS
  <2>2. RequestsFollowPhase(d)'
    BY <2>1 DEF CallInv, RequestsFollowPhase, InOperation
  <2>3. EstimatesCovered(d)'
    BY <2>1, CallersAssumption, TimesAssumption
       DEF CallInv, RequestsFollowPhase, EstimatesCovered, CoveredUntil,
           AnswerCovered, InOperation
  <2>4. IntrusionNoticed(d)'
    BY <2>1, CallersAssumption
       DEF CallInv, RequestsFollowPhase, EstimatesCovered, CoveredUntil,
           AnswerCovered, IntrusionNoticed, InOperation
  <2>5. UnconfirmedLockEnds(d)'
    BY <2>1, CallersAssumption, TimesAssumption
       DEF CallInv, RequestsFollowPhase, UnconfirmedLockEnds, InOperation
  <2>6. QED
    BY <2>2, <2>3, <2>4, <2>5 DEF CallInv
<1>3. QED
  BY <1>1, <1>2

LEMMA TryLockInv ==
  ASSUME NEW c \in Callers, Inv, TryLock(c) PROVE Inv'
<1> USE DEF Inv, TypeOK, TryLock
<1>0. /\ net' \in [Callers -> [Kinds -> Answers]]
      /\ since' \in [Callers -> [Kinds -> Nat]]
      /\ net'[c]["acquire"] = "sent" /\ since'[c]["acquire"] = now
      /\ \A d \in Callers, j \in Kinds :
           d # c \/ j # "acquire" => net'[d][j] = net[d][j] /\ since'[d][j] = since[d][j]
  BY SendFacts
<1>1. TypeOK' /\ (ttlEnd <= now + TTL)'
  BY <1>0, CallersAssumption, TimesAssumption
<1>2. ASSUME NEW d \in Callers PROVE CallInv(d)'
  <2>1. CallInv(d) /\ CallInv(c)
    OBVIOUS
  <2>2. RequestsFollowPhase(d)'
    BY <1>0, <2>1 DEF CallInv, RequestsFollowPhase, InOperation
  <2>3. EstimatesCovered(d)'
    BY <1>0, <2>1, CallersAssumption, TimesAssumption
       DEF CallInv, RequestsFollowPhase, EstimatesCovered, CoveredUntil,
           AnswerCovered, InOperation
  <2>4. IntrusionNoticed(d)'
    BY <1>0, <2>1, CallersAssumption
       DEF CallInv, RequestsFollowPhase, EstimatesCovered, CoveredUntil,
           AnswerCovered, IntrusionNoticed, InOperation
  <2>5. UnconfirmedLockEnds(d)'
    BY <1>0, <2>1, CallersAssumption, TimesAssumption
       DEF CallInv, RequestsFollowPhase, UnconfirmedLockEnds, InOperation
  <2>6. QED
    BY <2>2, <2>3, <2>4, <2>5 DEF CallInv
<1>3. QED
  BY <1>1, <1>2

LEMMA AcquireAnsweredInv ==
  ASSUME NEW c \in Callers, Inv, AcquireAnswered(c) PROVE Inv'
<1> USE DEF Inv, TypeOK, AcquireAnswered, LeaseFromStart
<1>0. /\ net' \in [Callers -> [Kinds -> Answers]]
      /\ since' \in [Callers -> [Kinds -> Nat]]
      /\ net'[c]["acquire"] = "idle"
      /\ \A d \in Callers, j \in Kinds :
           d # c \/ j # "acquire" => net'[d][j] = net[d][j] /\ since'[d][j] = since[d][j]
  BY ForgetFacts
<1>1. TypeOK' /\ (ttlEnd <= now + TTL)'
  <2>1. lost' \in [Callers -> BOOLEAN]
    BY Zenon
  <2>2. CASE net[c]["acquire"] = "yes"
    <3>1. /\ phase' = [phase EXCEPT ![c] = "holding"]
          /\ expires' = [expires EXCEPT ![c] = since[c]["acquire"] + TTL]
      BY <2>2
    <3>2. phase' \in [Callers -> Phases] /\ expires' \in [Callers -> Nat]
      BY <3>1, TimesAssumption
    <3>3. QED
      BY <1>0, <2>1, <3>2, TimesAssumption
  <2>3. CASE net[c]["acquire"] # "yes"
    <3>1. expires' = expires /\ phase' \in {phase, [phase EXCEPT ![c] = "refused"]}
      BY <2>3
    <3>2. phase' \in [Callers -> Phases] /\ expires' \in [Callers -> Nat]
      BY <3>1
    <3>3. QED
      BY <1>0, <2>1, <3>2, TimesAssumption
  <2>4. QED
    BY <2>2, <2>3
<1>2. ASSUME NEW d \in Callers PROVE CallInv(d)'
  <2>1. CallInv(d) /\ CallInv(c)
    OBVIOUS
  <2>2. RequestsFollowPhase(d)'
    BY <1>0, <2>1 DEF CallInv, RequestsFollowPhase, InOperation
  <2>3. EstimatesCovered(d)'
    <3>1. CASE d # c
      BY <1>0, <2>1, <3>1, TimesAssumption
         DEF CallInv, RequestsFollowPhase, EstimatesCovered, CoveredUntil,
             AnswerCovered, InOperation
    <3>2. CASE d = c /\ net[c]["acquire"] = "yes"
      <4>1. expires'[c] = since[c]["acquire"] + TTL
        BY <3>2
      <4>2. QED
        BY <1>0, <2>1, <3>2, <4>1, TimesAssumption
           DEF CallInv, RequestsFollowPhase, EstimatesCovered, CoveredUntil,
               AnswerCovered, InOperation
    <3>3. CASE d = c /\ net[c]["acquire"] # "yes"
      <4>1. phase'[c] \in {"acquiring", "refused"}
        BY <3>3
      <4>2. QED
        BY <1>0, <2>1, <3>3, <4>1
           DEF CallInv, RequestsFollowPhase, EstimatesCovered, CoveredUntil,
               AnswerCovered, InOperation
    <3>4. QED
      BY <3>1, <3>2, <3>3
  <2>4. IntrusionNoticed(d)'
    BY <1>0, <2>1, CallersAssumption
       DEF CallInv, RequestsFollowPhase, EstimatesCovered, CoveredUntil,
           AnswerCovered, IntrusionNoticed, InOperation
  <2>5. UnconfirmedLockEnds(d)'
    BY <1>0, <2>1, CallersAssumption, TimesAssumption
       DEF CallInv, RequestsFollowPhase, UnconfirmedLockEnds, InOperation
  <2>6. QED
    BY <2>2, <2>3, <2>4, <2>5 DEF CallInv
<1>3. QED
  BY <1>1, <1>2

LEMMA HeartbeatFiresInv ==
  ASSUME NEW c \in Callers, Inv, HeartbeatFires(c) PROVE Inv'
<1> USE DEF Inv, TypeOK, HeartbeatFires
<1>1. CASE now >= expires[c]
  <2>1. TypeOK' /\ (ttlEnd <= now + TTL)'
    BY <1>1, CallersAssumption, TimesAssumption
  <2>2. ASSUME NEW d \in Callers PROVE CallInv(d)'
    <3>1. CallInv(d) /\ CallInv(c)
      OBVIOUS
    <3>2. RequestsFollowPhase(d)'
      BY <1>1, <3>1 DEF CallInv, RequestsFollowPhase, InOperation
    <3>3. EstimatesCovered(d)'
      BY <1>1, <3>1, CallersAssumption, TimesAssumption
         DEF CallInv, RequestsFollowPhase, EstimatesCovered, CoveredUntil,
             AnswerCovered, InOperation
    <3>4. IntrusionNoticed(d)'
      BY <1>1, <3>1, CallersAssumption
         DEF CallInv, RequestsFollowPhase, EstimatesCovered, CoveredUntil,
             AnswerCovered, IntrusionNoticed, InOperation
    <3>5. UnconfirmedLockEnds(d)'
      BY <1>1, <3>1, CallersAssumption, TimesAssumption
         DEF CallInv, RequestsFollowPhase, UnconfirmedLockEnds, InOperation
    <3>6. QED
      BY <3>2, <3>3, <3>4, <3>5 DEF CallInv
  <2>3. QED
    BY <2>1, <2>2
<1>2. CASE ~(now >= expires[c])
  <2>0. Send(c, "heartbeat") /\ lost' = lost
    BY <1>2
  <2>a. /\ net' \in [Callers -> [Kinds -> Answers]]
        /\ since' \in [Callers -> [Kinds -> Nat]]
        /\ net'[c]["heartbeat"] = "sent" /\ since'[c]["heartbeat"] = now
        /\ \A d \in Callers, j \in Kinds :
             d # c \/ j # "heartbeat" => net'[d][j] = net[d][j] /\ since'[d][j] = since[d][j]
    BY <2>0, SendFacts
  <2>1. TypeOK' /\ (ttlEnd <= now + TTL)'
    BY <2>0, <2>a, CallersAssumption, TimesAssumption
  <2>2. ASSUME NEW d \in Callers PROVE CallInv(d)'
    <3>1. CallInv(d) /\ CallInv(c)
      OBVIOUS
    <3>2. RequestsFollowPhase(d)'
      BY ZenonT(60), <2>0, <2>a, <3>1 DEF CallInv, RequestsFollowPhase, InOperation
    <3>3. EstimatesCovered(d)'
      BY <2>0, <2>a, <3>1, CallersAssumption, TimesAssumption
         DEF CallInv, RequestsFollowPhase, EstimatesCovered, CoveredUntil,
             AnswerCovered, InOperation
    <3>4. IntrusionNoticed(d)'
      BY <2>0, <2>a, <3>1, CallersAssumption
         DEF CallInv, RequestsFollowPhase, EstimatesCovered, CoveredUntil,
             AnswerCovered, IntrusionNoticed, InOperation
    <3>5. UnconfirmedLockEnds(d)'
      BY <2>0, <2>a, <3>1, CallersAssumption, TimesAssumption
         DEF CallInv, RequestsFollowPhase, UnconfirmedLockEnds, InOperation
    <3>6. QED
      BY <3>2, <3>3, <3>4, <3>5 DEF CallInv
  <2>3. QED
    BY <2>1, <2>2
<1>3. QED
  BY <1>1, <1>2

LEMMA GuardCalledInv ==
  ASSUME NEW c \in Callers, Inv, GuardCalled(c) PROVE Inv'
<1> USE DEF Inv, TypeOK, GuardCalled
<1>1. CASE now >= expires[c]
  <2>1. TypeOK' /\ (ttlEnd <= now + TTL)'
    BY <1>1, CallersAssumption, TimesAssumption
  <2>2. ASSUME NEW d \in Callers PROVE CallInv(d)'
    <3>1. CallInv(d) /\ CallInv(c)
      OBVIOUS
    <3>2. RequestsFollowPhase(d)'
      BY <1>1, <3>1 DEF CallInv, RequestsFollowPhase, InOperation
    <3>3. EstimatesCovered(d)'
      BY <1>1, <3>1, CallersAssumption, TimesAssumption
         DEF CallInv, RequestsFollowPhase, EstimatesCovered, CoveredUntil,
             AnswerCovered, InOperation
    <3>4. IntrusionNoticed(d)'
      BY <1>1, <3>1, CallersAssumption
         DEF CallInv, RequestsFollowPhase, EstimatesCovered, CoveredUntil,
             AnswerCovered, IntrusionNoticed, InOperation
    <3>5. UnconfirmedLockEnds(d)'
      BY <1>1, <3>1, CallersAssumption, TimesAssumption
         DEF CallInv, RequestsFollowPhase, UnconfirmedLockEnds, InOperation
    <3>6. QED
      BY <3>2, <3>3, <3>4, <3>5 DEF CallInv
  <2>3. QED
    BY <2>1, <2>2
<1>2. CASE ~(now >= expires[c])
  <2>0. Send(c, "guard") /\ lost' = lost
    BY <1>2
  <2>a. /\ net' \in [Callers -> [Kinds -> Answers]]
        /\ since' \in [Callers -> [Kinds -> Nat]]
        /\ net'[c]["guard"] = "sent" /\ since'[c]["guard"] = now
        /\ \A d \in Callers, j \in Kinds :
             d # c \/ j # "guard" => net'[d][j] = net[d][j] /\ since'[d][j] = since[d][j]
    BY <2>0, SendFacts
  <2>1. TypeOK' /\ (ttlEnd <= now + TTL)'
    BY <2>0, <2>a, CallersAssumption, TimesAssumption
  <2>2. ASSUME NEW d \in Callers PROVE CallInv(d)'
    <3>1. CallInv(d) /\ CallInv(c)
      OBVIOUS
    <3>2. RequestsFollowPhase(d)'
      BY ZenonT(60), <2>0, <2>a, <3>1 DEF CallInv, RequestsFollowPhase, InOperation
    <3>3. EstimatesCovered(d)'
      BY <2>0, <2>a, <3>1, CallersAssumption, TimesAssumption
         DEF CallInv, RequestsFollowPhase, EstimatesCovered, CoveredUntil,
             AnswerCovered, InOperation
    <3>4. IntrusionNoticed(d)'
      BY <2>0, <2>a, <3>1, CallersAssumption
         DEF CallInv, RequestsFollowPhase, EstimatesCovered, CoveredUntil,
             AnswerCovered, IntrusionNoticed, InOperation
    <3>5. UnconfirmedLockEnds(d)'
      BY <2>0, <2>a, <3>1, CallersAssumption, TimesAssumption
         DEF CallInv, RequestsFollowPhase, UnconfirmedLockEnds, InOperation
    <3>6. QED
      BY <3>2, <3>3, <3>4, <3>5 DEF CallInv
  <2>3. QED
    BY <2>1, <2>2
<1>3. QED
  BY <1>1, <1>2

LEMMA RenewalAnsweredInv ==
  ASSUME NEW c \in Callers, NEW k \in Kinds, Inv, RenewalAnswered(c, k) PROVE Inv'
<1> USE DEF Inv, TypeOK, RenewalAnswered, Renewed
<1>0. /\ net' \in [Callers -> [Kinds -> Answers]]
      /\ since' \in [Callers -> [Kinds -> Nat]]
      /\ net'[c][k] = "idle"
      /\ \A d \in Callers, j \in Kinds :
           d # c \/ j # k => net'[d][j] = net[d][j] /\ since'[d][j] = since[d][j]
  BY ForgetFacts
<1>1. TypeOK' /\ (ttlEnd <= now + TTL)'
  <2>1. lost' \in [Callers -> BOOLEAN]
    BY Zenon
  <2>2. phase' \in [Callers -> Phases]
    BY SMT
  <2>3. expires' \in [Callers -> Nat]
    BY SMTT(30), TimesAssumption
  <2>4. QED
    BY <1>0, <2>1, <2>2, <2>3, TimesAssumption
<1>2. ASSUME NEW d \in Callers PROVE CallInv(d)'
  <2>1. CallInv(d) /\ CallInv(c)
    OBVIOUS
  <2>2. RequestsFollowPhase(d)'
    BY <1>0, <2>1 DEF CallInv, RequestsFollowPhase, InOperation
  <2>3. EstimatesCovered(d)'
    BY <1>0, <2>1, CallersAssumption, TimesAssumption
       DEF CallInv, RequestsFollowPhase, EstimatesCovered, CoveredUntil,
           AnswerCovered, InOperation
  <2>4. IntrusionNoticed(d)'
    BY <1>0, <2>1, CallersAssumption
       DEF CallInv, RequestsFollowPhase, EstimatesCovered, CoveredUntil,
           AnswerCovered, IntrusionNoticed, InOperation
  <2>5. UnconfirmedLockEnds(d)'
    BY <1>0, <2>1, CallersAssumption, TimesAssumption
       DEF CallInv, RequestsFollowPhase, UnconfirmedLockEnds, InOperation
  <2>6. QED
    BY <2>2, <2>3, <2>4, <2>5 DEF CallInv
<1>3. QED
  BY <1>1, <1>2

LEMMA OperationEndsInv ==
  ASSUME NEW c \in Callers, Inv, OperationEnds(c) PROVE Inv'
<1> USE DEF Inv, TypeOK, OperationEnds
<1>1. TypeOK' /\ (ttlEnd <= now + TTL)'
  BY CallersAssumption, TimesAssumption
<1>2. ASSUME NEW d \in Callers PROVE CallInv(d)'
  <2>1. CallInv(d) /\ CallInv(c)
    OBVIOUS
  <2>2. RequestsFollowPhase(d)'
    BY <2>1 DEF CallInv, RequestsFollowPhase, InOperation
  <2>3. EstimatesCovered(d)'
    BY <2>1, CallersAssumption, TimesAssumption
       DEF CallInv, RequestsFollowPhase, EstimatesCovered, CoveredUntil,
           AnswerCovered, InOperation
  <2>4. IntrusionNoticed(d)'
    BY <2>1, CallersAssumption
       DEF CallInv, RequestsFollowPhase, EstimatesCovered, CoveredUntil,
           AnswerCovered, IntrusionNoticed, InOperation
  <2>5. UnconfirmedLockEnds(d)'
    BY <2>1, CallersAssumption, TimesAssumption
       DEF CallInv, RequestsFollowPhase, UnconfirmedLockEnds, InOperation
  <2>6. QED
    BY <2>2, <2>3, <2>4, <2>5 DEF CallInv
<1>3. QED
  BY <1>1, <1>2

LEMMA StopInv ==
  ASSUME NEW c \in Callers, Inv, Stop(c) PROVE Inv'
<1> USE DEF Inv, TypeOK, Stop, LostAtStop
<1>0. /\ net' \in [Callers -> [Kinds -> Answers]]
      /\ since' \in [Callers -> [Kinds -> Nat]]
      /\ net'[c]["release"] = "sent" /\ since'[c]["release"] = now
      /\ \A d \in Callers, j \in Kinds :
           d # c \/ j # "release" => net'[d][j] = net[d][j] /\ since'[d][j] = since[d][j]
  BY SendFacts
<1>1. TypeOK' /\ (ttlEnd <= now + TTL)'
  BY <1>0, CallersAssumption, TimesAssumption
<1>2. ASSUME NEW d \in Callers PROVE CallInv(d)'
  <2>1. CallInv(d) /\ CallInv(c)
    OBVIOUS
  <2>2. RequestsFollowPhase(d)'
    BY <1>0, <2>1 DEF CallInv, RequestsFollowPhase, InOperation
  <2>3. EstimatesCovered(d)'
    BY <1>0, <2>1, CallersAssumption, TimesAssumption
       DEF CallInv, RequestsFollowPhase, EstimatesCovered, CoveredUntil,
           AnswerCovered, InOperation
  <2>4. IntrusionNoticed(d)'
    BY <1>0, <2>1, CallersAssumption
       DEF CallInv, RequestsFollowPhase, EstimatesCovered, CoveredUntil,
           AnswerCovered, IntrusionNoticed, InOperation
  <2>5. UnconfirmedLockEnds(d)'
    BY <1>0, <2>1, CallersAssumption, TimesAssumption
       DEF CallInv, RequestsFollowPhase, UnconfirmedLockEnds, InOperation
  <2>6. QED
    BY <2>2, <2>3, <2>4, <2>5 DEF CallInv
<1>3. QED
  BY <1>1, <1>2

LEMMA ReleaseAnsweredInv ==
  ASSUME NEW c \in Callers, Inv, ReleaseAnswered(c) PROVE Inv'
<1> USE DEF Inv, TypeOK, ReleaseAnswered, Result
<1>0. /\ net' \in [Callers -> [Kinds -> Answers]]
      /\ since' \in [Callers -> [Kinds -> Nat]]
      /\ net'[c]["release"] = "idle"
      /\ \A d \in Callers, j \in Kinds :
           d # c \/ j # "release" => net'[d][j] = net[d][j] /\ since'[d][j] = since[d][j]
  BY ForgetFacts
<1>1. TypeOK' /\ (ttlEnd <= now + TTL)'
  <2>1. lost' \in [Callers -> BOOLEAN]
    OBVIOUS
  <2>2. phase' \in [Callers -> Phases]
    BY SMT
  <2>3. expires' \in [Callers -> Nat]
    BY TimesAssumption
  <2>4. QED
    BY <1>0, <2>1, <2>2, <2>3, TimesAssumption
<1>2. ASSUME NEW d \in Callers PROVE CallInv(d)'
  <2>1. CallInv(d) /\ CallInv(c)
    OBVIOUS
  <2>2. RequestsFollowPhase(d)'
    BY <1>0, <2>1 DEF CallInv, RequestsFollowPhase, InOperation
  <2>3. EstimatesCovered(d)'
    BY <1>0, <2>1, CallersAssumption, TimesAssumption
       DEF CallInv, RequestsFollowPhase, EstimatesCovered, CoveredUntil,
           AnswerCovered, InOperation
  <2>4. IntrusionNoticed(d)'
    BY <1>0, <2>1, CallersAssumption
       DEF CallInv, RequestsFollowPhase, EstimatesCovered, CoveredUntil,
           AnswerCovered, IntrusionNoticed, InOperation
  <2>5. UnconfirmedLockEnds(d)'
    BY <1>0, <2>1, CallersAssumption, TimesAssumption
       DEF CallInv, RequestsFollowPhase, UnconfirmedLockEnds, InOperation
  <2>6. QED
    BY <2>2, <2>3, <2>4, <2>5 DEF CallInv
<1>3. QED
  BY <1>1, <1>2

LEMMA TransportErrorInv ==
  ASSUME NEW c \in Callers, NEW k \in Kinds, Inv, TransportError(c, k) PROVE Inv'
<1> USE DEF Inv, TypeOK, TransportError, Result
<1>0. /\ net' \in [Callers -> [Kinds -> Answers]]
      /\ since' \in [Callers -> [Kinds -> Nat]]
      /\ net'[c][k] = "idle"
      /\ \A d \in Callers, j \in Kinds :
           d # c \/ j # k => net'[d][j] = net[d][j] /\ since'[d][j] = since[d][j]
  BY ForgetFacts
<1>s. /\ stray' \in [Callers -> [Kinds -> Nat]]
      /\ \A d \in Callers, j \in Kinds :
           d # c \/ j # k => stray'[d][j] = stray[d][j]
      /\ net[c][k] # "idle"
  <2>1. CASE stray' = stray
    BY <2>1
  <2>2. CASE stray' = [stray EXCEPT ![c][k] = @ + 1]
    BY <2>2
  <2>3. QED
    BY <2>1, <2>2
<1>p. /\ k = "acquire" => phase' = [phase EXCEPT ![c] = "refused"]
      /\ k = "release" => \E r \in {"failed", "lost", "succeeded"} :
                            phase' = [phase EXCEPT ![c] = r]
      /\ k \in {"heartbeat", "guard"} => phase' = phase
  OBVIOUS
<1>1. TypeOK' /\ (ttlEnd <= now + TTL)'
  <2>1. lost' \in [Callers -> BOOLEAN]
    BY Zenon
  <2>2. phase' \in [Callers -> Phases]
    BY <1>p
  <2>3. stray' \in [Callers -> [Kinds -> Nat]]
    BY <1>s
  <2>4. QED
    BY <1>0, <2>1, <2>2, <2>3, TimesAssumption
<1>2. ASSUME NEW d \in Callers PROVE CallInv(d)'
  <2>1. CallInv(d) /\ CallInv(c)
    OBVIOUS
  <2>2. RequestsFollowPhase(d)'
    <3>1. CASE d = c /\ k = "acquire"
      BY <1>0, <1>s, <1>p, <2>1, <3>1 DEF CallInv, RequestsFollowPhase, InOperation
    <3>2. CASE d = c /\ k = "release"
      BY <1>0, <1>s, <1>p, <2>1, <3>2 DEF CallInv, RequestsFollowPhase, InOperation
    <3>3. CASE d = c /\ k \in {"heartbeat", "guard"}
      BY <1>0, <1>s, <1>p, <2>1, <3>3 DEF CallInv, RequestsFollowPhase, InOperation
    <3>4. CASE d # c
      BY <1>0, <1>s, <1>p, <2>1, <3>4 DEF CallInv, RequestsFollowPhase, InOperation
    <3>5. QED
      BY <3>1, <3>2, <3>3, <3>4
  <2>3. EstimatesCovered(d)'
    BY <1>0, <2>1, CallersAssumption, TimesAssumption
       DEF CallInv, RequestsFollowPhase, EstimatesCovered, CoveredUntil,
           AnswerCovered, InOperation
  <2>4. IntrusionNoticed(d)'
    BY <1>0, <2>1, CallersAssumption
       DEF CallInv, RequestsFollowPhase, EstimatesCovered, CoveredUntil,
           AnswerCovered, IntrusionNoticed, InOperation
  <2>5. UnconfirmedLockEnds(d)'
    BY <1>0, <2>1, CallersAssumption, TimesAssumption
       DEF CallInv, RequestsFollowPhase, UnconfirmedLockEnds, InOperation
  <2>6. QED
    BY <2>2, <2>3, <2>4, <2>5 DEF CallInv
<1>3. QED
  BY <1>1, <1>2

LEMMA CrashInv ==
  ASSUME NEW c \in Callers, Inv, Crash(c) PROVE Inv'
<1> USE DEF Inv, TypeOK, Crash
<1>1. TypeOK' /\ (ttlEnd <= now + TTL)'
  BY CallersAssumption, TimesAssumption
<1>2. ASSUME NEW d \in Callers PROVE CallInv(d)'
  <2>1. CallInv(d) /\ CallInv(c)
    OBVIOUS
  <2>2. RequestsFollowPhase(d)'
    BY <2>1 DEF CallInv, RequestsFollowPhase, InOperation
  <2>3. EstimatesCovered(d)'
    BY <2>1, CallersAssumption, TimesAssumption
       DEF CallInv, RequestsFollowPhase, EstimatesCovered, CoveredUntil,
           AnswerCovered, InOperation
  <2>4. IntrusionNoticed(d)'
    BY <2>1, CallersAssumption
       DEF CallInv, RequestsFollowPhase, EstimatesCovered, CoveredUntil,
           AnswerCovered, IntrusionNoticed, InOperation
  <2>5. UnconfirmedLockEnds(d)'
    BY <2>1, CallersAssumption, TimesAssumption
       DEF CallInv, RequestsFollowPhase, UnconfirmedLockEnds, InOperation
  <2>6. QED
    BY <2>2, <2>3, <2>4, <2>5 DEF CallInv
<1>3. QED
  BY <1>1, <1>2

LEMMA ServeInv ==
  ASSUME NEW c \in Callers, NEW k \in Kinds, Inv, Serve(c, k) PROVE Inv'
<1> USE DEF Inv, TypeOK, Serve
<1>1. PICK answer \in Answers : Script(c, k, answer) /\ net' = [net EXCEPT ![c][k] = answer]
  OBVIOUS
<1>2. /\ net' \in [Callers -> [Kinds -> Answers]]
      /\ net'[c][k] = answer
      /\ \A d \in Callers, j \in Kinds : d # c \/ j # k => net'[d][j] = net[d][j]
  BY <1>1
<1>3. CASE NoEffect(answer)
  <2> USE DEF NoEffect
  <2>1. TypeOK' /\ (ttlEnd <= now + TTL)'
    BY <1>3, <1>2, CallersAssumption, TimesAssumption
  <2>2. ASSUME NEW d \in Callers PROVE CallInv(d)'
    <3>1. CallInv(d) /\ CallInv(c)
      OBVIOUS
    <3>2. RequestsFollowPhase(d)'
      BY <1>3, <1>2, <3>1 DEF CallInv, RequestsFollowPhase, InOperation
    <3>3. EstimatesCovered(d)'
      BY <1>3, <1>2, <3>1, CallersAssumption, TimesAssumption
         DEF CallInv, RequestsFollowPhase, EstimatesCovered, CoveredUntil,
             AnswerCovered, InOperation
    <3>4. IntrusionNoticed(d)'
      BY <1>3, <1>2, <3>1, CallersAssumption
         DEF CallInv, RequestsFollowPhase, EstimatesCovered, CoveredUntil,
             AnswerCovered, IntrusionNoticed, InOperation
    <3>5. UnconfirmedLockEnds(d)'
      BY <1>3, <1>2, <3>1, CallersAssumption, TimesAssumption
         DEF CallInv, RequestsFollowPhase, UnconfirmedLockEnds, InOperation
    <3>6. QED
      BY <3>2, <3>3, <3>4, <3>5 DEF CallInv
  <2>3. QED
    BY <2>1, <2>2
<1>4. CASE Acquires(c, k, answer)
  <2> USE DEF Acquires, Free
  <2>1. TypeOK' /\ (ttlEnd <= now + TTL)'
    BY <1>4, <1>2, CallersAssumption, TimesAssumption
  <2>2. ASSUME NEW d \in Callers PROVE CallInv(d)'
    <3>1. CallInv(d) /\ CallInv(c)
      OBVIOUS
    <3>2. RequestsFollowPhase(d)'
      BY <1>4, <1>2, <3>1 DEF CallInv, RequestsFollowPhase, InOperation
    <3>3. EstimatesCovered(d)'
      BY <1>4, <1>2, <3>1, CallersAssumption, TimesAssumption
         DEF CallInv, RequestsFollowPhase, EstimatesCovered, CoveredUntil,
             AnswerCovered, InOperation
    <3>4. IntrusionNoticed(d)'
      BY <1>4, <1>2, <3>1, CallersAssumption
         DEF CallInv, RequestsFollowPhase, EstimatesCovered, CoveredUntil,
             AnswerCovered, IntrusionNoticed, InOperation
    <3>5. UnconfirmedLockEnds(d)'
      BY <1>4, <1>2, <3>1, CallersAssumption, TimesAssumption
         DEF CallInv, RequestsFollowPhase, UnconfirmedLockEnds, InOperation
    <3>6. QED
      BY <3>2, <3>3, <3>4, <3>5 DEF CallInv
  <2>3. QED
    BY <2>1, <2>2
<1>5. CASE Renews(c, k, answer)
  <2> USE DEF Renews, Holds
  <2>1. TypeOK' /\ (ttlEnd <= now + TTL)'
    BY <1>5, <1>2, CallersAssumption, TimesAssumption
  <2>2. ASSUME NEW d \in Callers PROVE CallInv(d)'
    <3>1. CallInv(d) /\ CallInv(c)
      OBVIOUS
    <3>2. RequestsFollowPhase(d)'
      BY <1>5, <1>2, <3>1 DEF CallInv, RequestsFollowPhase, InOperation
    <3>3. EstimatesCovered(d)'
      BY <1>5, <1>2, <3>1, CallersAssumption, TimesAssumption
         DEF CallInv, RequestsFollowPhase, EstimatesCovered, CoveredUntil,
             AnswerCovered, InOperation
    <3>4. IntrusionNoticed(d)'
      BY <1>5, <1>2, <3>1, CallersAssumption
         DEF CallInv, RequestsFollowPhase, EstimatesCovered, CoveredUntil,
             AnswerCovered, IntrusionNoticed, InOperation
    <3>5. UnconfirmedLockEnds(d)'
      BY <1>5, <1>2, <3>1, CallersAssumption, TimesAssumption
         DEF CallInv, RequestsFollowPhase, UnconfirmedLockEnds, InOperation
    <3>6. QED
      BY <3>2, <3>3, <3>4, <3>5 DEF CallInv
  <2>3. QED
    BY <2>1, <2>2
<1>6. CASE Releases(c, k, answer)
  <2> USE DEF Releases, Holds
  <2>1. TypeOK' /\ (ttlEnd <= now + TTL)'
    BY <1>6, <1>2, CallersAssumption, TimesAssumption
  <2>2. ASSUME NEW d \in Callers PROVE CallInv(d)'
    <3>1. CallInv(d) /\ CallInv(c)
      OBVIOUS
    <3>2. RequestsFollowPhase(d)'
      BY <1>6, <1>2, <3>1 DEF CallInv, RequestsFollowPhase, InOperation
    <3>3. EstimatesCovered(d)'
      BY <1>6, <1>2, <3>1, CallersAssumption, TimesAssumption
         DEF CallInv, RequestsFollowPhase, EstimatesCovered, CoveredUntil,
             AnswerCovered, InOperation
    <3>4. IntrusionNoticed(d)'
      BY <1>6, <1>2, <3>1, CallersAssumption
         DEF CallInv, RequestsFollowPhase, EstimatesCovered, CoveredUntil,
             AnswerCovered, IntrusionNoticed, InOperation
    <3>5. UnconfirmedLockEnds(d)'
      BY <1>6, <1>2, <3>1, CallersAssumption, TimesAssumption
         DEF CallInv, RequestsFollowPhase, UnconfirmedLockEnds, InOperation
    <3>6. QED
      BY <3>2, <3>3, <3>4, <3>5 DEF CallInv
  <2>3. QED
    BY <2>1, <2>2
<1>7. QED
  BY <1>1, <1>3, <1>4, <1>5, <1>6, ScriptFacts

LEMMA ServeStrayInv ==
  ASSUME NEW c \in Callers, NEW k \in Kinds, Inv, ServeStray(c, k) PROVE Inv'
<1> USE DEF Inv, TypeOK, ServeStray
<1>1. PICK answer \in Answers : Script(c, k, answer)
  OBVIOUS
<1>2. /\ stray' \in [Callers -> [Kinds -> Nat]]
      /\ stray[c][k] > 0
      /\ \A d \in Callers, j \in Kinds : stray'[d][j] > 0 => stray[d][j] > 0
  OBVIOUS
<1>3. CASE NoEffect(answer)
  <2> USE DEF NoEffect
  <2>1. TypeOK' /\ (ttlEnd <= now + TTL)'
    BY <1>3, <1>2, CallersAssumption, TimesAssumption
  <2>2. ASSUME NEW d \in Callers PROVE CallInv(d)'
    <3>1. CallInv(d) /\ CallInv(c)
      OBVIOUS
    <3>2. RequestsFollowPhase(d)'
      BY <1>3, <1>2, <3>1 DEF CallInv, RequestsFollowPhase, InOperation
    <3>3. EstimatesCovered(d)'
      BY <1>3, <1>2, <3>1, CallersAssumption, TimesAssumption
         DEF CallInv, RequestsFollowPhase, EstimatesCovered, CoveredUntil,
             AnswerCovered, InOperation
    <3>4. IntrusionNoticed(d)'
      BY <1>3, <1>2, <3>1, CallersAssumption
         DEF CallInv, RequestsFollowPhase, EstimatesCovered, CoveredUntil,
             AnswerCovered, IntrusionNoticed, InOperation
    <3>5. UnconfirmedLockEnds(d)'
      BY <1>3, <1>2, <3>1, CallersAssumption, TimesAssumption
         DEF CallInv, RequestsFollowPhase, UnconfirmedLockEnds, InOperation
    <3>6. QED
      BY <3>2, <3>3, <3>4, <3>5 DEF CallInv
  <2>3. QED
    BY <2>1, <2>2
<1>4. CASE Acquires(c, k, answer)
  <2> USE DEF Acquires, Free
  <2>1. TypeOK' /\ (ttlEnd <= now + TTL)'
    BY <1>4, <1>2, CallersAssumption, TimesAssumption
  <2>2. ASSUME NEW d \in Callers PROVE CallInv(d)'
    <3>1. CallInv(d) /\ CallInv(c)
      OBVIOUS
    <3>2. RequestsFollowPhase(d)'
      BY <1>4, <1>2, <3>1 DEF CallInv, RequestsFollowPhase, InOperation
    <3>3. EstimatesCovered(d)'
      BY <1>4, <1>2, <3>1, CallersAssumption, TimesAssumption
         DEF CallInv, RequestsFollowPhase, EstimatesCovered, CoveredUntil,
             AnswerCovered, InOperation
    <3>4. IntrusionNoticed(d)'
      BY <1>4, <1>2, <3>1, CallersAssumption
         DEF CallInv, RequestsFollowPhase, EstimatesCovered, CoveredUntil,
             AnswerCovered, IntrusionNoticed, InOperation
    <3>5. UnconfirmedLockEnds(d)'
      BY <1>4, <1>2, <3>1, CallersAssumption, TimesAssumption
         DEF CallInv, RequestsFollowPhase, UnconfirmedLockEnds, InOperation
    <3>6. QED
      BY <3>2, <3>3, <3>4, <3>5 DEF CallInv
  <2>3. QED
    BY <2>1, <2>2
<1>5. CASE Renews(c, k, answer)
  <2> USE DEF Renews, Holds
  <2>1. TypeOK' /\ (ttlEnd <= now + TTL)'
    BY <1>5, <1>2, CallersAssumption, TimesAssumption
  <2>2. ASSUME NEW d \in Callers PROVE CallInv(d)'
    <3>1. CallInv(d) /\ CallInv(c)
      OBVIOUS
    <3>2. RequestsFollowPhase(d)'
      BY <1>5, <1>2, <3>1 DEF CallInv, RequestsFollowPhase, InOperation
    <3>3. EstimatesCovered(d)'
      BY <1>5, <1>2, <3>1, CallersAssumption, TimesAssumption
         DEF CallInv, RequestsFollowPhase, EstimatesCovered, CoveredUntil,
             AnswerCovered, InOperation
    <3>4. IntrusionNoticed(d)'
      BY <1>5, <1>2, <3>1, CallersAssumption
         DEF CallInv, RequestsFollowPhase, EstimatesCovered, CoveredUntil,
             AnswerCovered, IntrusionNoticed, InOperation
    <3>5. UnconfirmedLockEnds(d)'
      BY <1>5, <1>2, <3>1, CallersAssumption, TimesAssumption
         DEF CallInv, RequestsFollowPhase, UnconfirmedLockEnds, InOperation
    <3>6. QED
      BY <3>2, <3>3, <3>4, <3>5 DEF CallInv
  <2>3. QED
    BY <2>1, <2>2
<1>6. CASE Releases(c, k, answer)
  <2> USE DEF Releases, Holds
  <2>1. TypeOK' /\ (ttlEnd <= now + TTL)'
    BY <1>6, <1>2, CallersAssumption, TimesAssumption
  <2>2. ASSUME NEW d \in Callers PROVE CallInv(d)'
    <3>1. CallInv(d) /\ CallInv(c)
      OBVIOUS
    <3>2. RequestsFollowPhase(d)'
      BY <1>6, <1>2, <3>1 DEF CallInv, RequestsFollowPhase, InOperation
    <3>3. EstimatesCovered(d)'
      BY <1>6, <1>2, <3>1, CallersAssumption, TimesAssumption
         DEF CallInv, RequestsFollowPhase, EstimatesCovered, CoveredUntil,
             AnswerCovered, InOperation
    <3>4. IntrusionNoticed(d)'
      BY <1>6, <1>2, <3>1, CallersAssumption
         DEF CallInv, RequestsFollowPhase, EstimatesCovered, CoveredUntil,
             AnswerCovered, IntrusionNoticed, InOperation
    <3>5. UnconfirmedLockEnds(d)'
      BY <1>6, <1>2, <3>1, CallersAssumption, TimesAssumption
         DEF CallInv, RequestsFollowPhase, UnconfirmedLockEnds, InOperation
    <3>6. QED
      BY <3>2, <3>3, <3>4, <3>5 DEF CallInv
  <2>3. QED
    BY <2>1, <2>2
<1>7. QED
  BY <1>1, <1>3, <1>4, <1>5, <1>6, ScriptFacts

LEMMA StutterInv == Inv /\ UNCHANGED vars => Inv'
BY DEF Inv, CallInv, TypeOK, RequestsFollowPhase, EstimatesCovered, CoveredUntil,
       AnswerCovered, IntrusionNoticed, UnconfirmedLockEnds, InOperation, vars

LEMMA NextInv == Inv /\ [Next]_vars => Inv'
<1> SUFFICES ASSUME Inv, [Next]_vars PROVE Inv'
  OBVIOUS
<1>1. CASE Tick
  BY <1>1, TickInv
<1>2. CASE \E c \in Callers : Begin(c) \/ TryLock(c) \/ AcquireAnswered(c)
  BY <1>2, BeginInv, TryLockInv, AcquireAnsweredInv
<1>3. CASE \E c \in Callers : HeartbeatFires(c) \/ GuardCalled(c) \/ OperationEnds(c)
  BY <1>3, HeartbeatFiresInv, GuardCalledInv, OperationEndsInv
<1>4. CASE \E c \in Callers : Stop(c) \/ ReleaseAnswered(c) \/ Crash(c)
  BY <1>4, StopInv, ReleaseAnsweredInv, CrashInv
<1>5. CASE \E c \in Callers, k \in Kinds :
             \/ Serve(c, k) \/ ServeStray(c, k)
             \/ RenewalAnswered(c, k) \/ TransportError(c, k)
  BY <1>5, ServeInv, ServeStrayInv, RenewalAnsweredInv, TransportErrorInv
<1>6. CASE UNCHANGED vars
  BY <1>6, StutterInv
<1>7. QED
  BY <1>1, <1>2, <1>3, <1>4, <1>5, <1>6 DEF Next

LEMMA InvHolds == Spec => []Inv
BY InitInv, NextInv, PTL DEF Spec

(***************************************************************************)
(* The results.                                                            *)
(***************************************************************************)

\* Every state of runExclusive and of the lock key is well formed.
THEOREM TypeCorrect == Spec => []TypeOK
<1>1. Inv => TypeOK
  BY DEF Inv
<1>2. QED
  BY <1>1, InvHolds, PTL

\* A call that believes in its lease has the lock in Redis, for any number of
\* calls, any lease time and any delays: belief ends before the lock does.
THEOREM BeliefIsSafe == Spec => []BeliefIsOwnership
<1>1. Inv => BeliefIsOwnership
  BY DEF Inv, TypeOK, CallInv, EstimatesCovered, CoveredUntil, BeliefIsOwnership,
         BelievesOwned, Holds
<1>2. QED
  BY <1>1, InvHolds, PTL

\* runExclusive reports success only for an operation that nobody interleaved
\* with under the same lock.
THEOREM SuccessIsExclusive == Spec => []SuccessWasExclusive
<1>1. Inv => SuccessWasExclusive
  BY DEF Inv, CallInv, IntrusionNoticed, SuccessWasExclusive
<1>2. QED
  BY <1>1, InvHolds, PTL

\* An abandoned acquisition blocks the member at most one TTL past its
\* deadline, because the script compares the deadline before it sets the key.
THEOREM AbandonedLocksEnd == Spec => []AbandonedLockEnds
<1>1. Inv => AbandonedLockEnds
  BY DEF Inv, CallInv, UnconfirmedLockEnds, AbandonedLockEnds, Holds
<1>2. QED
  BY <1>1, InvHolds, PTL

==============================================================================
