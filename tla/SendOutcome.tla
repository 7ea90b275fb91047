----------------------------- MODULE SendOutcome -----------------------------
(***************************************************************************)
(* What the send path promises to its callers about one action key,        *)
(* without rows, fences, jobs or workers: the effect of the key on MAX and *)
(* the verdict a caller reads from the ledger.  A message exists at most   *)
(* once and for ever; "delivered" is said only of an existing message and  *)
(* is final; "failed" is said only when nothing exists or is under way,    *)
(* and while it is said nothing is sent; "unknown" is left only for the    *)
(* truth.                                                                  *)
(***************************************************************************)
VARIABLES
  effect,   \* the message of the key in MAX: "none", "pending" or "done"
  verdict   \* "open", "delivered", "failed" or "unknown"

outcome == <<effect, verdict>>

OutcomeInit == effect = "none" /\ verdict = "open"

\* A request leaves; MAX turns it into a message or refuses it.
Dispatch == /\ effect = "none" /\ verdict \in {"open", "unknown"}
            /\ effect' = "pending" /\ UNCHANGED verdict
Deliver  == /\ effect = "pending"
            /\ effect' = "done" /\ UNCHANGED verdict
Refuse   == /\ effect = "pending"
            /\ effect' = "none" /\ UNCHANGED verdict

ReportDelivered == /\ effect = "done" /\ verdict # "delivered"
                   /\ verdict' = "delivered" /\ UNCHANGED effect
ReportFailed    == /\ effect = "none" /\ verdict = "open"
                   /\ verdict' = "failed" /\ UNCHANGED effect
ReportUnknown   == /\ verdict = "open"
                   /\ verdict' = "unknown" /\ UNCHANGED effect

\* A repair, or the proof that the unknown request was refused.
Reopen == /\ effect = "none" /\ verdict \in {"failed", "unknown"}
          /\ verdict' = "open" /\ UNCHANGED effect

OutcomeNext == \/ Dispatch \/ Deliver \/ Refuse
               \/ ReportDelivered \/ ReportFailed \/ ReportUnknown \/ Reopen

OutcomeSpec == OutcomeInit /\ [][OutcomeNext]_outcome
==============================================================================
