-------------------------- MODULE GroupCommandNotice --------------------------
(***************************************************************************)
(* recoverGroupCommandNotice: a job that found the journal of a certified  *)
(* command notice (NoticePending) goes on here. The handler of such an     *)
(* update is over and its command is applied; what is left is one message  *)
(* that was never attempted. The recovery takes the lease of the claim,    *)
(* sends the notice under its one key and settles claim and receipt, or    *)
(* gives the notice up when the deadline of the update passed. It never    *)
(* runs the handler.                                                       *)
(*                                                                         *)
(* Whatever else it needs (the lease of the command, an eligible bot, the  *)
(* guard of the transport) may be missing at any time: NoticeThrows.       *)
(***************************************************************************)
EXTENDS WebhookExecution

\* The lease is free or expired; a live one fails the job.
AcquireNotice(w) ==
  /\ exec[w].pc = "notice" /\ claim.status = "READY"
  /\ claim.token = NoOwner \/ ~claim.live
  /\ claim' = [claim EXCEPT !.token = w, !.live = TRUE]
  /\ Step(w, "deliver")
  /\ UNCHANGED <<receipt, job, poll, fresh, handler, used>>

\* assertOwned renews the lease, and the receipt is still the one that was read.
NoticeOwned(w) == claim.status = "READY" /\ claim.token = w /\ claim.live
NoticeStands(w) == NoticeOwned(w) /\ SourceStands(w)

\* deliverGroupCommandNotice: the last check before the request of the send.
SendNotice(w) ==
  /\ exec[w].pc = "deliver" /\ NoticeStands(w)
  /\ handler.notice = "unattempted"
  /\ handler' = [handler EXCEPT !.notice = "attempted"]
  /\ Step(w, "sending")
  /\ UNCHANGED <<receipt, claim, job, poll, fresh, used>>

\* The send under the key of the notice was completed before.
SentBefore(w) ==
  /\ exec[w].pc = "deliver" /\ NoticeStands(w)
  /\ handler.notice = "sent"
  /\ Step(w, "book")
  /\ UNCHANGED <<receipt, claim, job, poll, fresh, handler, used>>

NoticeSent(w) ==
  /\ exec[w].pc = "sending"
  /\ handler' = [handler EXCEPT !.notice = "sent"]
  /\ Step(w, "book")
  /\ UNCHANGED <<receipt, claim, job, poll, fresh, used>>

\* Fault variant: the request is taken for the message.
BookAttempted(w) ==
  /\ exec[w].pc \in {"sending", "book"} /\ NoticeStands(w)
  /\ claim' = Completed(claim) /\ Write(Processed(receipt), w)
  /\ Return(w)
  /\ UNCHANGED <<poll, handler, used>>

\* The completed send settles claim and receipt in one transaction.
BookNotice(w) ==
  /\ exec[w].pc = "book" /\ NoticeStands(w)
  /\ handler.notice = "sent"
  /\ claim' = Completed(claim) /\ Write(Processed(receipt), w)
  /\ Return(w)
  /\ UNCHANGED <<poll, handler, used>>

\* The deadline passed: ledger row, claim and receipt are settled together.
ExpireNotice(w) ==
  /\ exec[w].pc = "deliver" /\ NoticeStands(w)
  /\ handler.notice = "unattempted"
  /\ handler' = [handler EXCEPT !.notice = "expired"]
  /\ claim' = Completed(claim) /\ Write(Processed(receipt), w)
  /\ Return(w)
  /\ UNCHANGED <<poll, used>>

\* Anything may fail the job; an answer that is lost leaves a message behind or
\* none.  The lease is given back, unless that fails too.
NoticeThrows(w) ==
  /\ exec[w].pc \in {"notice", "deliver", "sending", "book"}
  /\ \/ UNCHANGED handler
     \/ exec[w].pc = "sending" /\ handler' = [handler EXCEPT !.notice = "sent"]
  /\ Release(w) /\ Throw(w)
  /\ UNCHANGED <<receipt, poll, fresh>>

NoticeStep(w) ==
  \/ AcquireNotice(w) \/ SendNotice(w) \/ SentBefore(w)
  \/ NoticeSent(w) \/ BookNotice(w) \/ ExpireNotice(w) \/ NoticeThrows(w)

===============================================================================
