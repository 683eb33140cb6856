----------------------- MODULE PasswordResets_proofs -----------------------
(***************************************************************************)
(* Proofs about PasswordResets, for any forms, reviewers and bounds: its   *)
(* types, that a request's status tells what became of it, and that two    *)
(* requests are pending only for the reasons that the property names.      *)
(***************************************************************************)
EXTENDS PasswordResets, SequenceTheorems, TLAPS

(* What a request looks like that no two reviews and no failure met.       *)
Decided(q) ==
  CASE q.status = "link_sent" -> q.mails = 1
    [] q.status = "approved" -> q.mails \in {0, 1}
    [] OTHER -> q.mails = 0

(* ... and what it looks like at a step of its one review.                 *)
Fits(step, q) ==
  /\ step \in {"approve", "reject"} => q.status = "pending" /\ q.mails = 0
  /\ step = "mail" => q.status = "approved" /\ q.mails = 0
  /\ step = "mark" => q.status = "approved" /\ q.mails = 1
  /\ step = "audit" => q.status = "link_sent" /\ q.mails = 1
  /\ step \notin {"idle", "restore"}

ReviewOK(v) ==
  \/ reviews[v] = Idle
  \/ /\ Subject(v) \in DOMAIN requests /\ reviews[v].step # "idle"
     /\ ~requests[Subject(v)].disturbed =>
          Fits(reviews[v].step, requests[Subject(v)])

(* Requests that are reviewed twice at once are disturbed.                 *)
Alone ==
  \A v, w \in Reviewers :
    v # w /\ Subject(v) = Subject(w) /\ Subject(v) \in DOMAIN requests =>
      requests[Subject(v)].disturbed

(* While a form is under way nothing is pending that was not put back.     *)
AskingOK ==
  ~hurried =>
    /\ \A f, g \in asking : f = g
    /\ asking # {} =>
         \A r \in DOMAIN requests : Pending(r) => requests[r].disturbed

Reviewing ==
  /\ \A v \in Reviewers : ReviewOK(v)
  /\ Alone
  /\ \A r \in DOMAIN requests : ~requests[r].disturbed => Decided(requests[r])

Asking == AskingOK /\ OnePendingUnlessHurried

ResetInv == ResetTypeOK /\ Reviewing /\ Asking

USE ResetConstants

LEMMA RequestFields ==
  ASSUME NEW q \in ResetRequests
  PROVE  /\ q.status \in {"pending", "approved", "rejected", "link_sent"}
         /\ q.lapsed \in BOOLEAN /\ q.mails \in Nat
         /\ q.disturbed \in BOOLEAN /\ q.abandoned \in BOOLEAN
BY DEF ResetRequests

LEMMA RequestsTyping ==
  ASSUME requests \in Seq(ResetRequests)
  PROVE  /\ Len(requests) \in Nat /\ DOMAIN requests = 1 .. Len(requests)
         /\ \A r \in DOMAIN requests : requests[r] \in ResetRequests
<1>1. Len(requests) \in Nat /\ DOMAIN requests = 1 .. Len(requests)
  BY LenProperties
<1>2. \A r \in 1 .. Len(requests) : requests[r] \in ResetRequests
  BY ElementOfSeq
<1> QED
  BY <1>1, <1>2

(* One request is changed.                                                 *)
Changes(r, q) ==
  /\ r \in DOMAIN requests /\ q \in ResetRequests
  /\ requests' = [requests EXCEPT ![r] = q]

LEMMA ChangesTyping ==
  ASSUME requests \in Seq(ResetRequests), NEW r, NEW q, Changes(r, q)
  PROVE  /\ requests' \in Seq(ResetRequests)
         /\ DOMAIN requests' = DOMAIN requests
         /\ \A s \in DOMAIN requests :
              requests'[s] = IF s = r THEN q ELSE requests[s]
<1>1. r \in 1 .. Len(requests) /\ q \in ResetRequests
  BY RequestsTyping DEF Changes
<1>2. requests' = [requests EXCEPT ![r] = q]
  BY DEF Changes
<1>3. LET changed == [requests EXCEPT ![r] = q] IN
      /\ changed \in Seq(ResetRequests) /\ Len(changed) = Len(requests)
      /\ \A s \in 1 .. Len(requests) :
           changed[s] = IF s = r THEN q ELSE requests[s]
  BY <1>1, ExceptSeq
<1>4. DOMAIN requests = 1 .. Len(requests) /\ DOMAIN requests' = 1 .. Len(requests')
  BY <1>2, <1>3, LenProperties
<1> QED
  BY <1>2, <1>3, <1>4

(* A review goes on with a request, or begins or ends.                     *)
Reviews(v, r, q, n) ==
  /\ v \in Reviewers /\ Changes(r, q)
  /\ Subject(v) = r \/ reviews[v] = Idle
  /\ reviews' = [reviews EXCEPT ![v] = n]
  /\ \/ n = Idle
     \/ n \in [step : Steps, request : Nat] /\ n.request = r /\ n.step # "idle"
  /\ requests[r].disturbed => q.disturbed
  /\ ~q.disturbed =>
       /\ Decided(q)
       /\ n # Idle => Fits(n.step, q)
       /\ \A w \in Reviewers : Subject(w) = r => w = v

LEMMA ReviewsPreserve ==
  ASSUME ResetTypeOK, Reviewing, NEW v, NEW r, NEW q, NEW n, Reviews(v, r, q, n)
  PROVE  /\ Reviewing'
         /\ requests' \in Seq(ResetRequests)
         /\ reviews' \in [Reviewers -> [step : Steps, request : Nat]]
<1>1. /\ requests' \in Seq(ResetRequests)
      /\ DOMAIN requests' = DOMAIN requests
      /\ \A s \in DOMAIN requests :
           requests'[s] = IF s = r THEN q ELSE requests[s]
  BY ChangesTyping DEF Reviews, ResetTypeOK
<1>2. DOMAIN requests = 1 .. Len(requests) /\ Len(requests) \in Nat
  BY RequestsTyping DEF ResetTypeOK
<1>3. r \in DOMAIN requests /\ v \in Reviewers
  BY DEF Reviews, Changes
<1>4. Idle \in [step : Steps, request : Nat]
  BY DEF Idle, Steps
<1>5. /\ reviews' \in [Reviewers -> [step : Steps, request : Nat]]
      /\ \A w \in Reviewers : reviews'[w] = IF w = v THEN n ELSE reviews[w]
  BY <1>3, <1>4 DEF ResetTypeOK, Reviews
<1>6. ASSUME NEW w \in Reviewers PROVE ReviewOK(w)'
  <2>1. CASE w = v
    BY <2>1, <1>1, <1>3, <1>5 DEF Reviews, ReviewOK, Subject
  <2>2. CASE w # v
    <3>1. ReviewOK(w) /\ reviews'[w] = reviews[w]
      BY <2>2, <1>5 DEF Reviewing
    <3>2. CASE Subject(w) = r
      BY <3>1, <3>2, <2>2, <1>1, <1>3 DEF Reviews, ReviewOK, Subject
    <3>3. CASE Subject(w) # r
      BY <3>1, <3>3, <1>1 DEF ReviewOK, Subject
    <3> QED
      BY <3>2, <3>3
  <2> QED
    BY <2>1, <2>2
<1>7. Alone'
  <2> SUFFICES ASSUME NEW w \in Reviewers, NEW x \in Reviewers, w # x,
                      Subject(w)' = Subject(x)', Subject(w)' \in DOMAIN requests
               PROVE  requests'[Subject(w)'].disturbed
    BY <1>1 DEF Alone
  <2>1. Idle.request = 0
    BY DEF Idle
  <2>2. CASE w # v /\ x # v
    <3>1. Subject(w)' = Subject(w) /\ Subject(x)' = Subject(x)
      BY <2>2, <1>5 DEF Subject
    <3>2. requests[Subject(w)].disturbed
      BY <3>1 DEF Reviewing, Alone
    <3> QED
      BY <3>1, <3>2, <1>1, <1>3 DEF Reviews
  <2>3. CASE w = v \/ x = v
    <3>1. n # Idle /\ n.request = r
      BY <2>3, <2>1, <1>2, <1>5 DEF Subject, Reviews
    <3>2. PICK y \in Reviewers : y # v /\ Subject(y) = r /\ Subject(w)' = r
      BY <2>3, <3>1, <1>5 DEF Subject
    <3> QED
      BY <3>2, <1>1, <1>3 DEF Reviews
  <2> QED
    BY <2>2, <2>3
<1>8. ASSUME NEW s \in DOMAIN requests', ~requests'[s].disturbed
      PROVE  Decided(requests'[s])
  BY <1>1, <1>8 DEF Reviewing, Reviews
<1> QED
  BY <1>1, <1>5, <1>6, <1>7, <1>8 DEF Reviewing

(* A change after which the request is pending only if it was, or is       *)
(* disturbed.                                                              *)
LEMMA ChangesPreserveAsking ==
  ASSUME ResetTypeOK, Asking, NEW r, NEW q, Changes(r, q),
         UNCHANGED <<asking, hurried>>,
         requests[r].disturbed => q.disturbed,
         ~q.disturbed /\ q.status = "pending" /\ ~q.lapsed => Pending(r)
  PROVE  Asking'
<1>1. /\ DOMAIN requests' = DOMAIN requests /\ r \in DOMAIN requests
      /\ \A s \in DOMAIN requests :
           requests'[s] = IF s = r THEN q ELSE requests[s]
  BY ChangesTyping DEF Changes, ResetTypeOK
<1>2. \A s \in DOMAIN requests :
        /\ requests[s].disturbed => requests'[s].disturbed
        /\ Pending(s)' /\ ~requests'[s].disturbed =>
             Pending(s) /\ ~requests[s].disturbed
  BY <1>1 DEF Pending
<1>3. AskingOK'
  BY <1>1, <1>2 DEF Asking, AskingOK
<1>4. OnePendingUnlessHurried'
  BY <1>1, <1>2 DEF Asking, OnePendingUnlessHurried
<1> QED
  BY <1>3, <1>4 DEF Asking

(* The next step of a review, and what it makes of its request.            *)
LEMMA ReviewStep ==
  ASSUME ResetInv, NEW v, NEW r, NEW q, NEW n, Reviews(v, r, q, n),
         UNCHANGED <<asking, hurried>>, failures' \in 0 .. MaxFailures,
         ~q.disturbed /\ q.status = "pending" /\ ~q.lapsed => Pending(r)
  PROVE  ResetInv'
<1>1. /\ Reviewing' /\ requests' \in Seq(ResetRequests)
      /\ reviews' \in [Reviewers -> [step : Steps, request : Nat]]
  BY ReviewsPreserve DEF ResetInv
<1>2. Asking'
  BY ChangesPreserveAsking DEF ResetInv, Reviews
<1> QED
  BY <1>1, <1>2 DEF ResetInv, ResetTypeOK

LEMMA ReviewUnchanged ==
  ASSUME ResetInv, UNCHANGED <<requests, reviews>>,
         asking' \subseteq Forms, hurried' \in BOOLEAN,
         failures' \in 0 .. MaxFailures, Asking'
  PROVE  ResetInv'
<1>1. Reviewing'
  BY DEF ResetInv, Reviewing, ReviewOK, Alone, Subject
<1> QED
  BY <1>1 DEF ResetInv, ResetTypeOK

LEMMA AskKeeps ==
  ASSUME ResetInv, NEW f \in Forms, Ask(f)
  PROVE  ResetInv'
<1>1. asking' = asking \cup {f} /\ hurried' = (hurried \/ asking # {})
  BY DEF Ask
<1>2. \A r \in DOMAIN requests : ~Pending(r)' /\ UNCHANGED requests
  BY DEF Ask, Pending
<1>3. asking \subseteq Forms /\ hurried \in BOOLEAN
  BY DEF ResetInv, ResetTypeOK
<1>4. AskingOK'
  BY <1>1, <1>2 DEF AskingOK, Ask
<1>5. OnePendingUnlessHurried'
  BY <1>2 DEF OnePendingUnlessHurried, Ask
<1>6. Asking' /\ asking' \subseteq Forms /\ hurried' \in BOOLEAN
  BY <1>1, <1>3, <1>4, <1>5 DEF Asking
<1>7. UNCHANGED <<requests, reviews, failures>>
  BY DEF Ask
<1> QED
  BY <1>6, <1>7, ReviewUnchanged DEF ResetInv, ResetTypeOK

LEMMA CreateFailsKeeps ==
  ASSUME ResetInv, NEW f \in Forms, CreateFails(f)
  PROVE  ResetInv'
<1>1. asking' = asking \ {f} /\ UNCHANGED <<requests, reviews, hurried>>
  BY DEF CreateFails
<1>2. asking' \subseteq Forms /\ hurried' \in BOOLEAN
  BY <1>1 DEF ResetInv, ResetTypeOK
<1>3. failures' \in 0 .. MaxFailures
  BY DEF CreateFails, ResetInv, ResetTypeOK
<1>4. \A r \in DOMAIN requests : Pending(r)' = Pending(r)
  BY <1>1 DEF Pending
<1>5. AskingOK'
  BY <1>1, <1>4 DEF ResetInv, Asking, AskingOK
<1>6. OnePendingUnlessHurried'
  BY <1>1, <1>4 DEF ResetInv, Asking, OnePendingUnlessHurried
<1> QED
  BY <1>1, <1>2, <1>3, <1>5, <1>6, ReviewUnchanged DEF Asking

LEMMA CreateKeeps ==
  ASSUME ResetInv, NEW f \in Forms, CreateRequest(f)
  PROVE  ResetInv'
<1> DEFINE new == Len(requests) + 1
<1>1. NewRequest \in ResetRequests
  BY DEF NewRequest, ResetRequests
<1>2. /\ Append(requests, NewRequest) \in Seq(ResetRequests)
      /\ Len(Append(requests, NewRequest)) = new
      /\ \A r \in 1 .. Len(requests) :
           Append(requests, NewRequest)[r] = requests[r]
      /\ Append(requests, NewRequest)[new] = NewRequest
  BY <1>1, AppendProperties DEF ResetInv, ResetTypeOK
<1>3. requests' = Append(requests, NewRequest)
  BY DEF CreateRequest
<1>4. DOMAIN requests = 1 .. Len(requests) /\ Len(requests) \in Nat
  BY RequestsTyping DEF ResetInv, ResetTypeOK
<1>5. /\ requests' \in Seq(ResetRequests) /\ DOMAIN requests' = 1 .. new
      /\ \A r \in DOMAIN requests :
           r \in DOMAIN requests' /\ requests'[r] = requests[r]
      /\ requests'[new] = NewRequest
      /\ \A r \in DOMAIN requests' : r = new \/ r \in DOMAIN requests
  BY <1>2, <1>3, <1>4, LenProperties
<1>6. /\ asking' = asking \ {f} /\ f \in asking
      /\ UNCHANGED <<reviews, failures, hurried>>
  BY DEF CreateRequest
<1>7. ResetTypeOK'
  BY <1>5, <1>6 DEF ResetInv, ResetTypeOK
<1>8. \A v \in Reviewers :
        /\ Subject(v)' = Subject(v)
        /\ Subject(v) \notin DOMAIN requests => reviews[v] = Idle /\ Subject(v) = 0
  BY <1>6 DEF ResetInv, Reviewing, ReviewOK, Subject, Idle
<1>9. Reviewing'
  <2>1. \A v \in Reviewers : ReviewOK(v)'
    BY <1>5, <1>6, <1>8 DEF ResetInv, Reviewing, ReviewOK, Subject
  <2>2. Alone'
    BY <1>4, <1>5, <1>8 DEF ResetInv, Reviewing, Alone
  <2>3. Decided(NewRequest)
    BY DEF Decided, NewRequest
  <2> QED
    BY <2>1, <2>2, <2>3, <1>5 DEF ResetInv, Reviewing
<1>10. \A r \in DOMAIN requests : Pending(r)' = Pending(r)
  BY <1>5 DEF Pending
<1>11. AskingOK'
  BY <1>6 DEF ResetInv, Asking, AskingOK
<1>12. OnePendingUnlessHurried'
  BY <1>5, <1>6, <1>10 DEF ResetInv, Asking, AskingOK, OnePendingUnlessHurried
<1> QED
  BY <1>7, <1>9, <1>11, <1>12 DEF ResetInv, Asking

(* What is known of a review that is under way.                            *)
LEMMA UnderWay ==
  ASSUME ResetInv, NEW v \in Reviewers, ~At(v, "idle")
  PROVE  /\ Subject(v) \in DOMAIN requests
         /\ requests[Subject(v)] \in ResetRequests
         /\ reviews[v] \in [step : Steps, request : Nat]
         /\ ~requests[Subject(v)].disturbed =>
              /\ Fits(reviews[v].step, requests[Subject(v)])
              /\ \A w \in Reviewers : Subject(w) = Subject(v) => w = v
<1>1. ReviewOK(v) /\ Alone
  BY DEF ResetInv, Reviewing
<1>2. Subject(v) \in DOMAIN requests /\ ~requests[Subject(v)].disturbed =>
        Fits(reviews[v].step, requests[Subject(v)])
  BY <1>1 DEF ReviewOK, At, Idle
<1>3. Subject(v) \in DOMAIN requests
  BY <1>1 DEF ReviewOK, At, Idle
<1>4. requests[Subject(v)] \in ResetRequests
  BY <1>3, RequestsTyping DEF ResetInv, ResetTypeOK
<1>5. reviews[v] \in [step : Steps, request : Nat]
  BY DEF ResetInv, ResetTypeOK
<1> QED
  BY <1>1, <1>2, <1>3, <1>4, <1>5 DEF Alone

LEMMA StepTyping ==
  ASSUME NEW n \in [step : Steps, request : Nat], NEW step \in Steps
  PROVE  /\ [n EXCEPT !.step = step] \in [step : Steps, request : Nat]
         /\ [n EXCEPT !.step = step].step = step
         /\ [n EXCEPT !.step = step].request = n.request
  OBVIOUS

(* The review of a request turns it into q and goes on to a step, or ends. *)
Proceeds(v, q) ==
  /\ v \in Reviewers /\ ~At(v, "idle") /\ q \in ResetRequests
  /\ requests' = [requests EXCEPT ![Subject(v)] = q]
  /\ requests[Subject(v)].disturbed => q.disturbed
  /\ ~q.disturbed /\ q.status = "pending" /\ ~q.lapsed => Pending(Subject(v))
  /\ ~q.disturbed => Decided(q)
  /\ failures' \in 0 .. MaxFailures
  /\ UNCHANGED <<asking, hurried>>

LEMMA ProceedsTo ==
  ASSUME ResetInv, NEW v, NEW q, Proceeds(v, q),
         NEW step \in Steps \ {"idle"}, To(v, step),
         ~q.disturbed => Fits(step, q)
  PROVE  ResetInv'
<1> DEFINE n == [reviews[v] EXCEPT !.step = step]
<1>1. /\ v \in Reviewers /\ Subject(v) \in DOMAIN requests
      /\ reviews[v] \in [step : Steps, request : Nat]
      /\ ~requests[Subject(v)].disturbed =>
           \A w \in Reviewers : Subject(w) = Subject(v) => w = v
  BY UnderWay DEF Proceeds
<1>2. n \in [step : Steps, request : Nat] /\ n.step = step /\ n.request = Subject(v)
  BY <1>1, StepTyping DEF Subject
<1>3. reviews' = [reviews EXCEPT ![v] = n]
  BY DEF To
<1> HIDE DEF n
<1>4. Reviews(v, Subject(v), q, n)
  BY <1>1, <1>2, <1>3 DEF Reviews, Changes, Proceeds
<1> QED
  BY <1>4, ReviewStep DEF Proceeds

LEMMA ProceedsToEnd ==
  ASSUME ResetInv, NEW v, NEW q, Proceeds(v, q), End(v)
  PROVE  ResetInv'
<1>1. /\ v \in Reviewers /\ Subject(v) \in DOMAIN requests
      /\ ~requests[Subject(v)].disturbed =>
           \A w \in Reviewers : Subject(w) = Subject(v) => w = v
  BY UnderWay DEF Proceeds
<1>2. Reviews(v, Subject(v), q, Idle)
  BY <1>1 DEF Reviews, Changes, Proceeds, End
<1> QED
  BY <1>2, ReviewStep DEF Proceeds

LEMMA StatusTyping ==
  ASSUME NEW q \in ResetRequests,
         NEW status \in {"pending", "approved", "rejected", "link_sent"}
  PROVE  [q EXCEPT !.status = status] \in ResetRequests
BY DEF ResetRequests

(* A status that fits what the request was mailed.                         *)
LEMMA StatusProceeds ==
  ASSUME ResetInv, NEW v \in Reviewers, ~At(v, "idle"),
         NEW status \in {"pending", "approved", "rejected", "link_sent"},
         SetStatus(v, status), UNCHANGED <<asking, failures, hurried>>,
         LET q == requests[Subject(v)] IN
           ~q.disturbed =>
             status # "pending" /\ q.mails = (IF status = "link_sent" THEN 1 ELSE 0)
  PROVE  Proceeds(v, [requests[Subject(v)] EXCEPT !.status = status])
<1> DEFINE q == [requests[Subject(v)] EXCEPT !.status = status]
<1>1. requests[Subject(v)] \in ResetRequests
  BY UnderWay
<1>2. q \in ResetRequests /\ q.status = status
  BY <1>1, StatusTyping DEF ResetRequests
<1>3. /\ q.disturbed = requests[Subject(v)].disturbed
      /\ q.mails = requests[Subject(v)].mails
  BY <1>1 DEF ResetRequests
<1>4. requests' = [requests EXCEPT ![Subject(v)] = q]
  BY DEF SetStatus
<1>5. failures' \in 0 .. MaxFailures
  BY DEF ResetInv, ResetTypeOK
<1> HIDE DEF q
<1>6. ~q.disturbed => Decided(q) /\ q.status # "pending"
  BY <1>2, <1>3 DEF Decided
<1>7. Proceeds(v, q)
  BY <1>2, <1>3, <1>4, <1>5, <1>6 DEF Proceeds
<1> QED
  BY <1>7 DEF q

LEMMA AdvanceKeeps ==
  ASSUME ResetInv, NEW v \in Reviewers, Advance(v)
  PROVE  ResetInv'
<1> DEFINE q == requests[Subject(v)]
<1>1. ~At(v, "idle")
  BY DEF Advance, Approve, Mail, MarkLinkSent, Audit, Reject, RollBack, At
<1>2. /\ q \in ResetRequests
      /\ ~q.disturbed => Fits(reviews[v].step, q)
  BY <1>1, UnderWay
<1>3. /\ Idle # [reviews[v] EXCEPT !.step = "mail"]
      /\ {"mail", "audit", "mark"} \subseteq Steps \ {"idle"}
  BY DEF Steps, Idle
<1>4. CASE Approve(v)
  <2>1. ~q.disturbed => q.mails = 0
    BY <1>2, <1>4 DEF Approve, At, Fits
  <2>2. Proceeds(v, [q EXCEPT !.status = "approved"])
    BY <1>1, <1>4, <2>1, StatusProceeds DEF Approve
  <2>3. /\ [q EXCEPT !.status = "approved"].status = "approved"
        /\ [q EXCEPT !.status = "approved"].mails = q.mails
        /\ [q EXCEPT !.status = "approved"].disturbed = q.disturbed
    BY <1>2 DEF ResetRequests
  <2>4. ~[q EXCEPT !.status = "approved"].disturbed =>
          Fits("mail", [q EXCEPT !.status = "approved"])
    BY <2>1, <2>3 DEF Fits
  <2> QED
    BY <1>3, <1>4, <2>2, <2>4, ProceedsTo DEF Approve
<1>5. CASE Mail(v)
  <2> DEFINE m == [q EXCEPT !.mails = q.mails + 1]
  <2>1. ~q.disturbed => q.mails = 0 /\ q.status = "approved"
    BY <1>2, <1>5 DEF Mail, At, Fits
  <2>2. /\ m \in ResetRequests /\ m.status = q.status
        /\ m.mails = q.mails + 1 /\ m.disturbed = q.disturbed
        /\ m.lapsed = q.lapsed
    BY <1>2 DEF ResetRequests
  <2>3. requests' = [requests EXCEPT ![Subject(v)] = m]
    BY <1>5 DEF Mail
  <2>4. failures' \in 0 .. MaxFailures
    BY <1>5 DEF Mail, ResetInv, ResetTypeOK
  <2> HIDE DEF m
  <2>5. ~m.disturbed => Decided(m) /\ Fits("mark", m)
    BY <2>1, <2>2 DEF Decided, Fits
  <2>6. Proceeds(v, m)
    BY <1>1, <1>5, <2>2, <2>3, <2>4, <2>5 DEF Proceeds, Mail, Pending
  <2> QED
    BY <1>3, <1>5, <2>5, <2>6, ProceedsTo DEF Mail
<1>6. CASE MarkLinkSent(v)
  <2>1. ~q.disturbed => q.mails = 1
    BY <1>2, <1>6 DEF MarkLinkSent, At, Fits
  <2>2. Proceeds(v, [q EXCEPT !.status = "link_sent"])
    BY <1>1, <1>6, <2>1, StatusProceeds DEF MarkLinkSent
  <2>3. /\ [q EXCEPT !.status = "link_sent"].status = "link_sent"
        /\ [q EXCEPT !.status = "link_sent"].mails = q.mails
        /\ [q EXCEPT !.status = "link_sent"].disturbed = q.disturbed
    BY <1>2 DEF ResetRequests
  <2>4. ~[q EXCEPT !.status = "link_sent"].disturbed =>
          Fits("audit", [q EXCEPT !.status = "link_sent"])
    BY <2>1, <2>3 DEF Fits
  <2> QED
    BY <1>3, <1>6, <2>2, <2>4, ProceedsTo DEF MarkLinkSent
<1>7. CASE Audit(v)
  <2>1. requests' = requests /\ UNCHANGED <<asking, failures, hurried>>
    BY <1>7 DEF Audit
  <2>2. requests = [requests EXCEPT ![Subject(v)] = q]
    BY DEF ResetInv, ResetTypeOK
  <2>3. Subject(v) \in DOMAIN requests
    BY <1>1, UnderWay
  <2>4. Proceeds(v, q)
    BY <1>1, <1>2, <2>1, <2>2, <2>3
       DEF Proceeds, Pending, ResetInv, ResetTypeOK, Reviewing
  <2> QED
    BY <1>7, <2>4, ProceedsToEnd DEF Audit
<1>8. CASE Reject(v)
  <2>1. ~q.disturbed => q.mails = 0
    BY <1>2, <1>8 DEF Reject, At, Fits
  <2>2. Proceeds(v, [q EXCEPT !.status = "rejected"])
    BY <1>1, <1>8, <2>1, StatusProceeds DEF Reject
  <2> QED
    BY <1>8, <2>2, ProceedsToEnd DEF Reject
<1>9. CASE RollBack(v)
  <2>1. q.disturbed
    BY <1>2, <1>9 DEF RollBack, At, Fits, ResetRequests
  <2>2. Proceeds(v, [q EXCEPT !.status = "pending"])
    BY <1>1, <1>9, <2>1, StatusProceeds DEF RollBack
  <2> QED
    BY <1>9, <2>2, ProceedsToEnd DEF RollBack
<1> QED
  BY <1>4, <1>5, <1>6, <1>7, <1>8, <1>9 DEF Advance

(* A failure disturbs the request, whatever else it does.                  *)
LEMMA FailedProceeds ==
  ASSUME ResetInv, NEW v \in Reviewers, ~At(v, "idle"),
         NEW request \in ResetRequests, Failed(v, request)
  PROVE  /\ Proceeds(v, [request EXCEPT !.disturbed = TRUE])
         /\ [request EXCEPT !.disturbed = TRUE].disturbed
<1> DEFINE q == [request EXCEPT !.disturbed = TRUE]
<1>1. q \in ResetRequests /\ q.disturbed
  BY DEF ResetRequests
<1>2. requests' = [requests EXCEPT ![Subject(v)] = q]
  BY DEF Failed
<1>3. failures' \in 0 .. MaxFailures
  BY DEF Failed, ResetInv, ResetTypeOK
<1> HIDE DEF q
<1>4. Proceeds(v, q)
  BY <1>1, <1>2, <1>3 DEF Proceeds, Failed
<1> QED
  BY <1>1, <1>4 DEF q

LEMMA FailedTyping ==
  ASSUME NEW q \in ResetRequests
  PROVE  /\ [q EXCEPT !.status = "approved", !.abandoned = TRUE] \in ResetRequests
         /\ [q EXCEPT !.mails = q.mails + 1] \in ResetRequests
         /\ [q EXCEPT !.status = "link_sent"] \in ResetRequests
         /\ [q EXCEPT !.abandoned = TRUE] \in ResetRequests
<1>1. [q EXCEPT !.status = "approved", !.abandoned = TRUE] \in ResetRequests
  BY DEF ResetRequests
<1>2. [q EXCEPT !.mails = q.mails + 1] \in ResetRequests
  BY DEF ResetRequests
<1>3. [q EXCEPT !.status = "link_sent"] \in ResetRequests
  BY DEF ResetRequests
<1>4. [q EXCEPT !.abandoned = TRUE] \in ResetRequests
  BY DEF ResetRequests
<1> QED
  BY <1>1, <1>2, <1>3, <1>4

LEMMA FailureKeeps ==
  ASSUME ResetInv, NEW v \in Reviewers,
         \/ ApproveFails(v) \/ MailFails(v) \/ MarkFails(v)
         \/ AuditFails(v) \/ Abandon(v)
  PROVE  ResetInv'
<1> DEFINE q == requests[Subject(v)]
<1>1. ~At(v, "idle")
  BY DEF ApproveFails, MailFails, MarkFails, AuditFails, Abandon, At
<1>2. q \in ResetRequests
  BY <1>1, UnderWay
<1>3. PICK request \in ResetRequests : Failed(v, request)
  BY <1>2, FailedTyping
     DEF ApproveFails, MailFails, MarkFails, AuditFails, Abandon
<1>4. End(v) \/ To(v, "restore")
  BY DEF ApproveFails, MailFails, MarkFails, AuditFails, Abandon
<1>5. "restore" \in Steps \ {"idle"}
  BY DEF Steps
<1>6. /\ Proceeds(v, [request EXCEPT !.disturbed = TRUE])
      /\ [request EXCEPT !.disturbed = TRUE].disturbed
  BY <1>1, <1>3, FailedProceeds
<1>7. CASE End(v)
  BY <1>6, <1>7, ProceedsToEnd
<1>8. CASE To(v, "restore")
  BY <1>5, <1>6, <1>8, ProceedsTo
<1> QED
  BY <1>4, <1>7, <1>8

LEMMA NoAccountKeeps ==
  ASSUME ResetInv, NEW v \in Reviewers, NoAccount(v)
  PROVE  ResetInv'
<1> DEFINE q == requests[Subject(v)]
<1>1. ~At(v, "idle")
  BY DEF NoAccount, At
<1>2. q \in ResetRequests /\ Subject(v) \in DOMAIN requests
  BY <1>1, UnderWay
<1>3. requests' = requests /\ UNCHANGED <<asking, failures, hurried>> /\ End(v)
  BY DEF NoAccount
<1>4. requests = [requests EXCEPT ![Subject(v)] = q]
  BY DEF ResetInv, ResetTypeOK
<1>5. Proceeds(v, q)
  BY <1>1, <1>2, <1>3, <1>4
     DEF Proceeds, Pending, ResetInv, ResetTypeOK, Reviewing
<1> QED
  BY <1>3, <1>5, ProceedsToEnd

LEMMA BeginKeeps ==
  ASSUME ResetInv, NEW v \in Reviewers, NEW r \in DOMAIN requests,
         NEW step \in {"approve", "reject"}, Begin(v, r, step)
  PROVE  ResetInv'
<1> DEFINE q == [requests[r] EXCEPT !.disturbed = requests[r].disturbed \/ UnderReview(r)]
           n == [step |-> step, request |-> r]
<1>1. requests[r] \in ResetRequests /\ r \in Nat
  BY RequestsTyping DEF ResetInv, ResetTypeOK
<1>2. UnderReview(r) \in BOOLEAN
  BY DEF UnderReview
<1>3. /\ q \in ResetRequests /\ q.status = requests[r].status
      /\ q.mails = requests[r].mails /\ q.lapsed = requests[r].lapsed
      /\ q.disturbed = (requests[r].disturbed \/ UnderReview(r))
  BY <1>1, <1>2 DEF ResetRequests
<1>4. requests' = [requests EXCEPT ![r] = q] /\ reviews' = [reviews EXCEPT ![v] = n]
  BY DEF Begin
<1>5. requests[r].status = "pending" /\ UNCHANGED <<asking, failures, hurried>>
  BY DEF Begin
<1>6. /\ n \in [step : Steps, request : Nat] /\ n.request = r
      /\ n.step = step /\ n # Idle
  BY <1>1 DEF Steps, Idle
<1>7. reviews[v] = Idle
  BY DEF Begin, At, ResetInv, Reviewing, ReviewOK
<1> HIDE DEF q, n
<1>8. ~q.disturbed => /\ Decided(q) /\ Fits(n.step, q)
                      /\ \A w \in Reviewers : Subject(w) = r => w = v
  BY <1>1, <1>3, <1>5, <1>6 DEF ResetInv, Reviewing, Decided, Fits, UnderReview
<1>9. Reviews(v, r, q, n)
  BY <1>3, <1>4, <1>6, <1>7, <1>8 DEF Reviews, Changes
<1>10. failures' \in 0 .. MaxFailures
  BY <1>5 DEF ResetInv, ResetTypeOK
<1>11. ~q.disturbed /\ q.status = "pending" /\ ~q.lapsed => Pending(r)
  BY <1>3, <1>5 DEF Pending
<1> QED
  BY <1>5, <1>9, <1>10, <1>11, ReviewStep

LEMMA LapseKeeps ==
  ASSUME ResetInv, NEW r \in DOMAIN requests, Lapse(r)
  PROVE  ResetInv'
<1> DEFINE q == [requests[r] EXCEPT !.lapsed = TRUE]
<1>1. requests[r] \in ResetRequests
  BY RequestsTyping DEF ResetInv, ResetTypeOK
<1>2. /\ q \in ResetRequests /\ q.status = requests[r].status
      /\ q.mails = requests[r].mails /\ q.lapsed
      /\ q.disturbed = requests[r].disturbed
  BY <1>1 DEF ResetRequests
<1>3. requests' = [requests EXCEPT ![r] = q]
  BY DEF Lapse
<1>4. UNCHANGED <<asking, reviews, failures, hurried>>
  BY DEF Lapse
<1> HIDE DEF q
<1>5. Changes(r, q)
  BY <1>2, <1>3 DEF Changes
<1>6. /\ requests' \in Seq(ResetRequests) /\ DOMAIN requests' = DOMAIN requests
      /\ \A s \in DOMAIN requests :
           requests'[s] = IF s = r THEN q ELSE requests[s]
  BY <1>5, ChangesTyping DEF ResetInv, ResetTypeOK
<1>7. ResetTypeOK'
  BY <1>4, <1>6 DEF ResetInv, ResetTypeOK
<1>8. \A s \in DOMAIN requests :
        /\ requests'[s].status = requests[s].status
        /\ requests'[s].mails = requests[s].mails
        /\ requests'[s].disturbed = requests[s].disturbed
  BY <1>2, <1>6
<1>9. \A v \in Reviewers : ReviewOK(v)'
  BY <1>4, <1>6, <1>8 DEF ResetInv, Reviewing, ReviewOK, Subject, Fits
<1>10. Alone'
  BY <1>4, <1>6, <1>8 DEF ResetInv, Reviewing, Alone, Subject
<1>11. \A s \in DOMAIN requests' : ~requests'[s].disturbed => Decided(requests'[s])
  BY <1>6, <1>8 DEF ResetInv, Reviewing, Decided
<1>12. Asking'
  BY <1>2, <1>4, <1>5, ChangesPreserveAsking DEF ResetInv
<1> QED
  BY <1>7, <1>9, <1>10, <1>11, <1>12 DEF ResetInv, Reviewing

LEMMA ResetInitInv == ResetInit => ResetInv
<1> SUFFICES ASSUME ResetInit PROVE ResetInv
  OBVIOUS
<1>1. requests = <<>> /\ asking = {} /\ failures = 0 /\ hurried = FALSE
  BY DEF ResetInit
<1>2. DOMAIN requests = {} /\ requests \in Seq(ResetRequests)
  BY <1>1
<1>3. \A v \in Reviewers : reviews[v] = Idle
  BY DEF ResetInit
<1>4. ResetTypeOK
  <2>1. Idle \in [step : Steps, request : Nat]
    BY DEF Idle, Steps
  <2>2. reviews \in [Reviewers -> [step : Steps, request : Nat]]
    BY <2>1 DEF ResetInit
  <2>3. failures \in 0 .. MaxFailures
    BY <1>1
  <2> QED
    BY <1>1, <1>2, <2>2, <2>3 DEF ResetTypeOK
<1> QED
  BY <1>1, <1>2, <1>3, <1>4
     DEF ResetInv, Reviewing, ReviewOK, Alone, Asking, AskingOK,
         OnePendingUnlessHurried

LEMMA ResetNextInv == ResetInv /\ [ResetNext]_resetVars => ResetInv'
<1> SUFFICES ASSUME ResetInv, [ResetNext]_resetVars PROVE ResetInv'
  OBVIOUS
<1>1. ASSUME NEW f \in Forms, Ask(f) \/ CreateRequest(f) \/ CreateFails(f)
      PROVE  ResetInv'
  BY <1>1, AskKeeps, CreateKeeps, CreateFailsKeeps
<1>2. ASSUME NEW r \in DOMAIN requests, Lapse(r)
      PROVE  ResetInv'
  BY <1>2, LapseKeeps
<1>3. ASSUME NEW r \in DOMAIN requests, NEW v \in Reviewers,
             BeginApproval(v, r) \/ BeginRejection(v, r)
      PROVE  ResetInv'
  BY <1>3, BeginKeeps DEF BeginApproval, BeginRejection
<1>4. ASSUME NEW v \in Reviewers,
             \/ Advance(v) \/ ApproveFails(v) \/ MailFails(v) \/ MarkFails(v)
             \/ AuditFails(v) \/ Abandon(v) \/ NoAccount(v)
      PROVE  ResetInv'
  BY <1>4, AdvanceKeeps, FailureKeeps, NoAccountKeeps
<1>5. CASE UNCHANGED resetVars
  <2>1. UNCHANGED <<requests, asking, reviews, failures, hurried>>
    BY <1>5 DEF resetVars
  <2>2. \A r : Pending(r)' = Pending(r)
    BY <2>1 DEF Pending
  <2> QED
    BY <2>1, <2>2
       DEF ResetInv, ResetTypeOK, Reviewing, ReviewOK, Alone, Subject,
           Asking, AskingOK, OnePendingUnlessHurried
<1> QED
  BY <1>1, <1>2, <1>3, <1>4, <1>5 DEF ResetNext

(* What the three properties rest on: types, what each half-done review    *)
(* has made of its request, and what each form under way has seen.         *)
THEOREM ResetReviews == ResetSpec => []ResetInv
  BY ResetInitInv, ResetNextInv, PTL DEF ResetSpec

(* The types of the requests, the forms and the reviews of                 *)
(* passwordResetService.ts.                                                *)
THEOREM ResetTypes == ResetSpec => []ResetTypeOK
<1>1. ResetInv => ResetTypeOK
  BY DEF ResetInv
<1> QED
  BY <1>1, ResetReviews, PTL

(* A request's status tells what became of it, for reviews that neither    *)
(* overlapped nor failed (approvePasswordResetRequest).                    *)
THEOREM DecisionsStand == ResetSpec => []UndisturbedDecisions
<1>1. ResetInv => UndisturbedDecisions
  BY DEF ResetInv, Reviewing, Decided, UndisturbedDecisions
<1> QED
  BY <1>1, ResetReviews, PTL

(* Two requests are pending only when forms overlapped or one of them was  *)
(* put back by a failed review (requestPasswordReset).                     *)
THEOREM OnePending == ResetSpec => []OnePendingUnlessHurried
<1>1. ResetInv => OnePendingUnlessHurried
  BY DEF ResetInv, Asking
<1> QED
  BY <1>1, ResetReviews, PTL
=============================================================================
