-------------------------- MODULE PasswordResets --------------------------
(***************************************************************************)
(* Password resets of one member.  The forgot-password form looks for a    *)
(* request that is pending and else creates one; an administrator of the   *)
(* organisation or a super admin approves it, which sends the mail with    *)
(* the link, or rejects it.  Every statement is a call of its own, every   *)
(* write names the row by its id alone, and an approval that fails after   *)
(* its first write puts the request back.                                  *)
(***************************************************************************)
EXTENDS Integers, Sequences

CONSTANTS
  Forms,        \* submissions of the form that may be under way at once
  Reviewers,    \* reviews that may be under way at once
  MaxRequests,  \* bound: requests created
  MaxFailures   \* bound: calls that fail or whose reply is lost, and crashes

ASSUME ResetConstants == MaxRequests \in Nat /\ MaxFailures \in Nat

VARIABLES
  requests,  \* password_reset_requests, in the order of their creation
  asking,    \* the forms that found nothing pending and are about to create
  reviews,   \* what each review is about to do
  failures,  \* counter for the bound
  hurried    \* history: a form was submitted while another was under way

resetVars == <<requests, asking, reviews, failures, hurried>>

(* "completed" and "expired" are statuses that no code writes.  History:   *)
(* "mails", the mails sent for it, "disturbed", it was reviewed twice at   *)
(* once or a call of its review failed, and "abandoned", its review ended  *)
(* without having put it back.                                             *)
ResetRequests ==
  [status : {"pending", "approved", "rejected", "link_sent"},
   lapsed : BOOLEAN, mails : Nat, disturbed : BOOLEAN, abandoned : BOOLEAN]

NewRequest == [status |-> "pending", lapsed |-> FALSE, mails |-> 0,
               disturbed |-> FALSE, abandoned |-> FALSE]

Steps == {"idle", "approve", "mail", "mark", "audit", "restore", "reject"}

Idle == [step |-> "idle", request |-> 0]

At(v, step) == reviews[v].step = step

Subject(v) == reviews[v].request

-----------------------------------------------------------------------------
(* Asking                                                                  *)

Pending(r) == requests[r].status = "pending" /\ ~requests[r].lapsed

(* Mutant: every submission creates a request.                             *)
AskAnyway(f) ==
  /\ f \notin asking
  /\ asking' = asking \cup {f}
  /\ hurried' = (hurried \/ asking # {})
  /\ UNCHANGED <<requests, reviews, failures>>

Ask(f) ==
  /\ f \notin asking
  /\ \A r \in DOMAIN requests : ~Pending(r)
  /\ asking' = asking \cup {f}
  /\ hurried' = (hurried \/ asking # {})
  /\ UNCHANGED <<requests, reviews, failures>>

CreateRequest(f) ==
  /\ f \in asking /\ Len(requests) < MaxRequests
  /\ asking' = asking \ {f}
  /\ requests' = Append(requests, NewRequest)
  /\ UNCHANGED <<reviews, failures, hurried>>

CreateFails(f) ==
  /\ f \in asking /\ failures < MaxFailures
  /\ asking' = asking \ {f}
  /\ failures' = failures + 1
  /\ UNCHANGED <<requests, reviews, hurried>>

(* Twenty-four hours after the request.                                    *)
Lapse(r) ==
  /\ ~requests[r].lapsed
  /\ requests' = [requests EXCEPT ![r].lapsed = TRUE]
  /\ UNCHANGED <<asking, reviews, failures, hurried>>

-----------------------------------------------------------------------------
(* Reviewing                                                               *)

UnderReview(r) == \E v \in Reviewers : Subject(v) = r

(* Mutant: the status of the request is not asked for.                     *)
BeginWhateverStatus(v, r, step) ==
  /\ At(v, "idle")
  /\ reviews' = [reviews EXCEPT ![v] = [step |-> step, request |-> r]]
  /\ requests' = [requests EXCEPT ![r].disturbed = @ \/ UnderReview(r)]
  /\ UNCHANGED <<asking, failures, hurried>>

Begin(v, r, step) ==
  /\ At(v, "idle") /\ requests[r].status = "pending"
  /\ reviews' = [reviews EXCEPT ![v] = [step |-> step, request |-> r]]
  /\ requests' = [requests EXCEPT ![r].disturbed = @ \/ UnderReview(r)]
  /\ UNCHANGED <<asking, failures, hurried>>

BeginApproval(v, r) == ~requests[r].lapsed /\ Begin(v, r, "approve")

(* Only an approval asks whether the request has lapsed.                   *)
BeginRejection(v, r) == Begin(v, r, "reject")

To(v, step) == reviews' = [reviews EXCEPT ![v].step = step]

End(v) == reviews' = [reviews EXCEPT ![v] = Idle]

SetStatus(v, status) ==
  requests' = [requests EXCEPT ![Subject(v)].status = status]

Approve(v) ==
  /\ At(v, "approve") /\ SetStatus(v, "approved") /\ To(v, "mail")
  /\ UNCHANGED <<asking, failures, hurried>>

Mail(v) ==
  /\ At(v, "mail") /\ To(v, "mark")
  /\ requests' = [requests EXCEPT ![Subject(v)].mails = @ + 1]
  /\ UNCHANGED <<asking, failures, hurried>>

MarkLinkSent(v) ==
  /\ At(v, "mark") /\ SetStatus(v, "link_sent") /\ To(v, "audit")
  /\ UNCHANGED <<asking, failures, hurried>>

Audit(v) ==
  /\ At(v, "audit") /\ End(v)
  /\ UNCHANGED <<requests, asking, failures, hurried>>

Reject(v) ==
  /\ At(v, "reject") /\ SetStatus(v, "rejected") /\ End(v)
  /\ UNCHANGED <<asking, failures, hurried>>

(* Mutants: a failed approval is only reported, or gets no status.         *)
ReportedOnly(v) ==
  /\ At(v, "restore") /\ End(v)
  /\ UNCHANGED <<requests, asking, failures, hurried>>

ClearStatus(v) ==
  /\ At(v, "restore") /\ SetStatus(v, "none") /\ End(v)
  /\ UNCHANGED <<asking, failures, hurried>>

RollBack(v) ==
  /\ At(v, "restore") /\ SetStatus(v, "pending") /\ End(v)
  /\ UNCHANGED <<asking, failures, hurried>>

-----------------------------------------------------------------------------
(* Failures                                                                *)

Failed(v, request) ==
  /\ failures < MaxFailures
  /\ failures' = failures + 1
  /\ requests' = [requests EXCEPT ![Subject(v)] = [request EXCEPT !.disturbed = TRUE]]
  /\ UNCHANGED <<asking, hurried>>

(* The first write is not guarded: its failure ends the review.            *)
ApproveFails(v) ==
  LET request == requests[Subject(v)] IN
  /\ At(v, "approve") /\ End(v)
  /\ \/ Failed(v, request)
     \/ Failed(v, [request EXCEPT !.status = "approved", !.abandoned = TRUE])

(* The mail was not sent, or it was and the reply is lost.                 *)
MailFails(v) ==
  LET request == requests[Subject(v)] IN
  /\ At(v, "mail") /\ To(v, "restore")
  /\ \/ Failed(v, request)
     \/ Failed(v, [request EXCEPT !.mails = @ + 1])

MarkFails(v) ==
  LET request == requests[Subject(v)] IN
  /\ At(v, "mark") /\ To(v, "restore")
  /\ \/ Failed(v, request)
     \/ Failed(v, [request EXCEPT !.status = "link_sent"])

(* The record of what was done cannot be written: that undoes it.          *)
AuditFails(v) ==
  /\ At(v, "audit") /\ To(v, "restore")
  /\ Failed(v, requests[Subject(v)])

(* A rejection or a roll-back fails, or the server dies in a review.       *)
Abandon(v) ==
  /\ ~At(v, "idle") /\ End(v)
  /\ Failed(v, [requests[Subject(v)] EXCEPT !.abandoned = TRUE])

(* The account is not found: nothing was written.                          *)
NoAccount(v) ==
  /\ At(v, "approve") /\ End(v)
  /\ UNCHANGED <<requests, asking, failures, hurried>>

-----------------------------------------------------------------------------
ResetInit ==
  /\ requests = <<>> /\ asking = {}
  /\ reviews = [v \in Reviewers |-> Idle]
  /\ failures = 0 /\ hurried = FALSE

Advance(v) ==
  \/ Approve(v) \/ Mail(v) \/ MarkLinkSent(v) \/ Audit(v)
  \/ Reject(v) \/ RollBack(v)

ResetNext ==
  \/ \E f \in Forms : Ask(f) \/ CreateRequest(f) \/ CreateFails(f)
  \/ \E r \in DOMAIN requests :
       \/ Lapse(r)
       \/ \E v \in Reviewers : BeginApproval(v, r) \/ BeginRejection(v, r)
  \/ \E v \in Reviewers :
       \/ Advance(v) \/ ApproveFails(v) \/ MailFails(v) \/ MarkFails(v)
       \/ AuditFails(v) \/ Abandon(v) \/ NoAccount(v)

ResetSpec == ResetInit /\ [][ResetNext]_resetVars

(* A review that has begun goes on; nobody need ask or begin one.          *)
FairResetSpec == ResetSpec /\ \A v \in Reviewers : WF_resetVars(Advance(v))

-----------------------------------------------------------------------------
(* Types of the requests, the forms and the reviews.                       *)
ResetTypeOK ==
  /\ requests \in Seq(ResetRequests)
  /\ asking \subseteq Forms
  /\ reviews \in [Reviewers -> [step : Steps, request : Nat]]
  /\ hurried \in BOOLEAN
  /\ failures \in 0 .. MaxFailures

(* What a request says of itself is what became of it: one that is marked  *)
(* as sent was mailed once, one that is pending or rejected never, unless  *)
(* two reviews of it overlapped or a call of its review failed.            *)
UndisturbedDecisions ==
  \A r \in DOMAIN requests :
    LET request == requests[r] IN
    ~request.disturbed =>
      CASE request.status = "link_sent" -> request.mails = 1
        [] request.status = "approved" -> request.mails \in {0, 1}
        [] OTHER -> request.mails = 0

(* "Check for existing pending request (prevent flooding)"                 *)
(* (passwordResetService.ts): two requests are pending only when two forms *)
(* were under way at once or one of them was put back by a failed review.  *)
OnePendingUnlessHurried ==
  \A r, s \in DOMAIN requests :
    r # s /\ Pending(r) /\ Pending(s) =>
      hurried \/ requests[r].disturbed \/ requests[s].disturbed

(* A request that was approved is marked as sent, put back or rejected,    *)
(* unless its review was cut short.                                        *)
ApprovalsSettle ==
  \A r \in 1 .. MaxRequests :
    (r \in DOMAIN requests /\ requests[r].status = "approved")
      ~> (r \in DOMAIN requests
            /\ (requests[r].status # "approved" \/ requests[r].abandoned))
=============================================================================
