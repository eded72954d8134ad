---------------------------- MODULE PayoutProofs ----------------------------
(***************************************************************************)
(* The payment of withdrawals, for every set of requests, operators and    *)
(* faults: PayoutPromise is kept, and what is settled stays settled.       *)
(*                                                                         *)
(* A request over the limit is approved once, which makes one UpdateResult *)
(* for it.  The argument follows that one result: through the queue, the   *)
(* hands of update_results_worker, the adapter and the queue of updates.   *)
(* It is in one place at a time on the side of the hot wallet, and once    *)
(* the adapter has it the result cannot come again.                        *)
(***************************************************************************)
EXTENDS Payout, WithdrawalProofs, SequenceTheorems

(* Where the result of a request over the limit may be.                    *)
Names(S, id)   == \E e \in S : e.id = id

Queued(id)   == Names(Range(results), id)
Taken(id)    == payer # Idle /\ payer.id = id
Posted(id)   == Names(posted, id)
Answered(id) == Names(accepted \union refused, id)
Reported(id) == Names(Range(updates), id)

(* Entries of queue q for request id: no two of them.                      *)
OnceIn(q, id) == \A i, j \in 1..Len(q) : q[i].id = id /\ q[j].id = id => i = j

Untouched(id) ==
    /\ ~Queued(id) /\ ~Taken(id) /\ ~Posted(id) /\ ~Answered(id) /\ ~Reported(id)
    /\ broadcasts[id] = 0

(* The way of the result of an approved request: queued, then taken and    *)
(* posted, then reported.                                                  *)
OneResult(id) ==
    /\ Queued(id) => ~Taken(id) /\ ~Posted(id) /\ ~Answered(id) /\ ~Reported(id)
                     /\ broadcasts[id] = 0
    /\ Taken(id) => ~Reported(id)
    /\ Queued(id) \/ Taken(id) \/ Reported(id) => requests[id].status = "Confirmed"
    /\ OnceIn(results, id) /\ OnceIn(updates, id)

OnePayment(id) ==
    /\ \A cw, dw \in posted : cw.id = id /\ dw.id = id => cw = dw
    /\ Posted(id) => broadcasts[id] = 0
    /\ broadcasts[id] \in {0, 1}

(* No lie is told of a request: what is refused has not been sent and is   *)
(* not about to be.                                                        *)
Truthful(id) ==
    \/ requests[id].status = "NodeRejected"
    \/ Names(refused, id)
    \/ [ status |-> "NodeRejected", id |-> id ] \in Range(updates)
    => ~Posted(id) /\ broadcasts[id] = 0

ApprovedOrUntouched(id) ==
    IF requests[id].status \in {"InProgress", "OpRejected"}
    THEN Untouched(id)
    ELSE Net(requests[id]) = REQUIRED_NUMBER_OF_CONFIRMATIONS

(* A request that has been sent and not settled is under way.              *)
Followed(id) ==
    /\ requests[id].currency = "BTC"
    /\ requests[id].status \in {"InProgress", "Confirmed"}
    /\ broadcasts[id] > 0
    => Taken(id) \/ Reported(id)

(* The adapter gives one answer to what is posted to it.                   *)
AnsweredOnce ==
    /\ posted \intersect (accepted \union refused) = {}
    /\ accepted \intersect refused = {}

PayoutInv ==
    /\ PayoutTypeOK
    /\ TallyInv
    /\ \A id \in Known : requests[id].status # "InProgress" => requests[id].n = 0
    /\ \A id \in RequestIds \ Known : Untouched(id)
    /\ \A id \in RequestIds : OverLimit(id) =>
          /\ ApprovedOrUntouched(id)
          /\ OneResult(id)
          /\ OnePayment(id)
          /\ faults \subseteq {"crash", "store"} => Truthful(id)
    /\ faults = {} =>
          /\ \A cw \in posted \union accepted \union refused : payer # Idle /\ cw = payer
          /\ AnsweredOnce
          /\ \A id \in Known : Followed(id)
-----------------------------------------------------------------------------
(* What Append and Tail do to the entries of a queue.                      *)
LEMMA AppendEntries ==
    ASSUME NEW S, NEW q \in Seq(S), NEW e \in S
    PROVE  /\ Append(q, e) \in Seq(S)
           /\ Range(Append(q, e)) = Range(q) \union {e}
           /\ \A id : OnceIn(q, id) /\ (e.id = id => ~Names(Range(q), id))
                       => OnceIn(Append(q, e), id)
<1>1. /\ Append(q, e) \in Seq(S)
      /\ Len(Append(q, e)) = Len(q) + 1
      /\ \A i \in 1..Len(q) : Append(q, e)[i] = q[i]
      /\ Append(q, e)[Len(q) + 1] = e
  BY AppendProperties
<1>2. Len(q) \in Nat /\ DOMAIN q = 1..Len(q)
  BY LenProperties
<1>3. DOMAIN Append(q, e) = 1..(Len(q) + 1)
  BY <1>1, LenProperties
<1>4. Range(Append(q, e)) = Range(q) \union {e}
  BY <1>1, <1>2, <1>3 DEF Range
<1>5. ASSUME NEW id, OnceIn(q, id), e.id = id => ~Names(Range(q), id)
      PROVE  OnceIn(Append(q, e), id)
  BY <1>1, <1>2, <1>5 DEF OnceIn, Names, Range
<1> QED
  BY <1>1, <1>4, <1>5

LEMMA TailEntries ==
    ASSUME NEW S, NEW q \in Seq(S), q # <<>>
    PROVE  /\ Tail(q) \in Seq(S) /\ Head(q) \in S
           /\ Range(q) = Range(Tail(q)) \union {Head(q)}
           /\ \A id : OnceIn(q, id) => /\ OnceIn(Tail(q), id)
                                       /\ Head(q).id = id => ~Names(Range(Tail(q)), id)
<1>1. /\ Head(q) \in S /\ Tail(q) \in Seq(S)
      /\ Len(Tail(q)) = Len(q) - 1
      /\ \A i \in 1..Len(Tail(q)) : Tail(q)[i] = q[i + 1]
  BY HeadTailProperties
<1>2. Len(q) \in Nat \ {0} /\ DOMAIN q = 1..Len(q) /\ Head(q) = q[1]
  BY EmptySeq, LenProperties
<1>3. DOMAIN Tail(q) = 1..(Len(q) - 1)
  BY <1>1, LenProperties
<1>4. Range(q) = Range(Tail(q)) \union {Head(q)}
  <2>1. ASSUME NEW i \in 1..Len(q) PROVE q[i] \in Range(Tail(q)) \union {Head(q)}
    <3>1. CASE i = 1
      BY <3>1, <1>2
    <3>2. CASE i # 1
      <4>1. i - 1 \in 1..Len(Tail(q)) /\ (i - 1) + 1 = i
        BY <1>1, <1>2, <3>2
      <4>2. Tail(q)[i - 1] = q[i]
        BY <4>1, <1>1
      <4> QED
        BY <4>1, <4>2, <1>1, <1>3 DEF Range
    <3> QED
      BY <3>1, <3>2
  <2>2. ASSUME NEW i \in 1..(Len(q) - 1) PROVE Tail(q)[i] \in Range(q)
    <3>1. Tail(q)[i] = q[i + 1] /\ i + 1 \in 1..Len(q)
      BY <1>1, <1>2
    <3> QED
      BY <3>1, <1>2 DEF Range
  <2>3. Head(q) \in Range(q)
    BY <1>2 DEF Range
  <2> QED
    BY <2>1, <2>2, <2>3, <1>2, <1>3 DEF Range
<1>5. ASSUME NEW id, OnceIn(q, id)
      PROVE  /\ OnceIn(Tail(q), id)
             /\ Head(q).id = id => ~Names(Range(Tail(q)), id)
  <2>1. \A i \in 1..Len(Tail(q)) : i + 1 \in 1..Len(q) /\ i + 1 # 1
    BY <1>1, <1>2
  <2>2. OnceIn(Tail(q), id)
    BY <2>1, <1>1, <1>2, <1>5 DEF OnceIn
  <2>3. ASSUME Head(q).id = id, NEW i \in 1..Len(Tail(q)), Tail(q)[i].id = id PROVE FALSE
    BY <2>1, <2>3, <1>1, <1>2, <1>5 DEF OnceIn
  <2> QED
    BY <2>2, <2>3, <1>1, <1>3 DEF Names, Range
<1> QED
  BY <1>1, <1>4, <1>5

-----------------------------------------------------------------------------
(* Settling a request leaves its votes alone.                              *)
LEMMA SetStatusTallied ==
    ASSUME TallyInv, NEW id \in RequestIds,
           NEW status \in {"Completed", "NodeRejected"}, SetStatus(id, status)
    PROVE  /\ TallyInv'
           /\ Known' = Known
           /\ \A x \in Known : /\ requests'[x].kind = requests[x].kind
                               /\ requests'[x].currency = requests[x].currency
                               /\ Net(requests'[x]) = Net(requests[x])
           /\ \A x \in RequestIds \ {id} : requests'[x] = requests[x]
           /\ id \in Known => /\ requests'[id].status = status
                              /\ requests'[id] = [requests[id] EXCEPT !.status = status, !.n = 0]
<1>1. CASE id \notin Known
  BY <1>1 DEF SetStatus, TallyInv, TypeOK, Known
<1>2. CASE id \in Known
  <2> DEFINE r == requests[id]
             s == [r EXCEPT !.status = status, !.n = 0]
  <2>1. TalliedRequest(r) /\ r \in WithdrawalRequest
    BY <1>2 DEF TallyInv, TalliedRequest
  <2>2. /\ s \in WithdrawalRequest
        /\ s.kind = r.kind /\ s.currency = r.currency /\ s.status = status
        /\ s.confirmations = r.confirmations /\ s.rejections = r.rejections
    <3> DEFINE a == [r EXCEPT !.status = status]
    <3>1. a \in WithdrawalRequest
      BY <2>1, FieldUpdates DEF WithdrawalRequestStatus
    <3>2. /\ a.kind = r.kind /\ a.currency = r.currency /\ a.status = status
          /\ a.confirmations = r.confirmations /\ a.rejections = r.rejections
      BY <2>1 DEF WithdrawalRequest
    <3> HIDE DEF a
    <3>3. /\ [a EXCEPT !.n = 0] \in WithdrawalRequest
          /\ [a EXCEPT !.n = 0].kind = a.kind /\ [a EXCEPT !.n = 0].currency = a.currency
          /\ [a EXCEPT !.n = 0].status = a.status
          /\ [a EXCEPT !.n = 0].confirmations = a.confirmations
          /\ [a EXCEPT !.n = 0].rejections = a.rejections
      BY <3>1 DEF WithdrawalRequest
    <3> QED
      BY <3>2, <3>3 DEF a
  <2>3. TalliedRequest(s) /\ Net(s) = Net(r) /\ s # NoRequest
    BY <2>1, <2>2, NoRequestIsNone DEF TalliedRequest, Net
  <2>4. requests' = [requests EXCEPT ![id] = s]
    BY <1>2 DEF SetStatus
  <2> HIDE DEF s
  <2>5. Known' = Known
    BY <1>2, <2>3, <2>4 DEF Known, TallyInv, TypeOK
  <2>6. /\ requests'[id] = s
        /\ \A x \in RequestIds \ {id} : requests'[x] = requests[x]
    BY <2>4 DEF TallyInv, TypeOK
  <2>7. TallyInv'
    BY <2>2, <2>3, <2>4, <2>5, <2>6 DEF TallyInv, TypeOK, Known
  <2> QED
    BY <1>2, <2>2, <2>3, <2>5, <2>6, <2>7 DEF s, Known
<1> QED
  BY <1>1, <1>2

-----------------------------------------------------------------------------
(* What PayoutInv says of one request, whatever became of it.              *)
Kept(id) ==
    /\ id \in Known /\ requests[id].status # "InProgress" => requests[id].n = 0
    /\ id \notin Known => Untouched(id)
    /\ OverLimit(id) =>
          /\ ApprovedOrUntouched(id)
          /\ OneResult(id)
          /\ OnePayment(id)
          /\ faults \subseteq {"crash", "store"} => Truthful(id)

Attended ==
    faults = {} =>
       /\ \A cw \in posted \union accepted \union refused : payer # Idle /\ cw = payer
       /\ AnsweredOnce
       /\ \A id \in Known : Followed(id)

LEMMA PayoutInvParts ==
    /\ PayoutInv <=> PayoutTypeOK /\ TallyInv /\ (\A id \in RequestIds : Kept(id)) /\ Attended
    /\ PayoutInv' <=> PayoutTypeOK' /\ TallyInv' /\ (\A id \in RequestIds : Kept(id)') /\ Attended'
<1>1. PayoutInv <=> PayoutTypeOK /\ TallyInv /\ (\A id \in RequestIds : Kept(id)) /\ Attended
  BY DEF PayoutInv, Kept, Attended, Known
<1>2. PayoutInv' <=> PayoutTypeOK' /\ TallyInv' /\ (\A id \in RequestIds : Kept(id)') /\ Attended'
  BY DEF PayoutInv, Kept, Attended, Known
<1> QED
  BY <1>1, <1>2

(* An untouched request satisfies all that the way of a result asks for.   *)
Unpaid(id) ==
    /\ Untouched(id)
    /\ id \notin Known \/ requests[id].status = "InProgress"
       \/ (requests[id].status = "OpRejected" /\ requests[id].n = 0)

LEMMA UntouchedKept == PayoutTypeOK => \A id \in RequestIds : Unpaid(id) => Kept(id)
<1> SUFFICES ASSUME PayoutTypeOK, NEW id \in RequestIds, Unpaid(id) PROVE Kept(id)
  OBVIOUS
<1> USE DEF Unpaid
<1>1. /\ Len(results) \in Nat /\ DOMAIN results = 1..Len(results)
      /\ Len(updates) \in Nat /\ DOMAIN updates = 1..Len(updates)
  BY LenProperties DEF PayoutTypeOK
<1>2. OnceIn(results, id) /\ OnceIn(updates, id)
  BY <1>1 DEF Untouched, Queued, Reported, Names, OnceIn, Range
<1>3. OneResult(id) /\ OnePayment(id)
  BY <1>2 DEF Untouched, OneResult, OnePayment, Posted, Names
<1>4. Truthful(id)
  BY DEF Untouched, Truthful
<1> QED
  BY <1>3, <1>4 DEF Kept, OverLimit, ApprovedOrUntouched

LEMMA UntouchedKeptNext == (PayoutTypeOK => \A id \in RequestIds : Unpaid(id) => Kept(id))'
  BY UntouchedKept, PTL

(* A request that a step leaves alone, or only takes things away from.     *)
LEMMA KeptAlone ==
    ASSUME NEW id \in RequestIds, Kept(id), faults' = faults,
           requests'[id] = requests[id],
           Queued(id)' => Queued(id), Taken(id)' => Taken(id),
           Reported(id)' => Reported(id),
           broadcasts'[id] = broadcasts[id],
           \A cw : cw.id = id => /\ cw \in posted' => cw \in posted
                                 /\ cw \in accepted' => cw \in accepted
                                 /\ cw \in refused' => cw \in refused,
           OnceIn(results, id) => OnceIn(results, id)',
           OnceIn(updates, id) => OnceIn(updates, id)',
           [ status |-> "NodeRejected", id |-> id ] \in Range(updates)'
             => [ status |-> "NodeRejected", id |-> id ] \in Range(updates)
    PROVE  Kept(id)'
<1>1. /\ Posted(id)' => Posted(id)
      /\ Answered(id)' => Answered(id)
      /\ Names(refused, id)' => Names(refused, id)
  BY DEF Posted, Answered, Names
<1>2. /\ (id \in Known)' <=> id \in Known
      /\ OverLimit(id)' <=> OverLimit(id)
  BY DEF Known, OverLimit
<1>3. Untouched(id) => Untouched(id)'
  BY <1>1 DEF Untouched
<1>4. ApprovedOrUntouched(id) => ApprovedOrUntouched(id)'
  BY <1>3 DEF ApprovedOrUntouched, Net
<1>5. OneResult(id) => OneResult(id)'
  BY <1>1 DEF OneResult
<1>6. OnePayment(id) => OnePayment(id)'
  BY <1>1 DEF OnePayment
<1>7. Truthful(id) => Truthful(id)'
  BY <1>1 DEF Truthful
<1> QED
  BY <1>2, <1>3, <1>4, <1>5, <1>6, <1>7 DEF Kept

-----------------------------------------------------------------------------
(* A request is filed.                                                     *)
LEMMA PostWithdrawKept ==
    ASSUME PayoutInv, faults' = faults, NEW id \in RequestIds, NEW kind \in Kinds,
           NEW currency \in Currencies, PostWithdraw(id, kind, currency)
    PROVE  PayoutInv'
<1> DEFINE e == WithdrawalUnderlimit(id)
<1>1. /\ PayoutTypeOK /\ TallyInv /\ Attended
      /\ \A x \in RequestIds : Kept(x)
      /\ Create(id, kind, currency)
      /\ id \notin Known /\ Untouched(id)
      /\ UNCHANGED <<updates, payer, posted, accepted, refused, broadcasts>>
  BY PayoutInvParts DEF PostWithdraw, Kept, Create
<1>2. TallyInv'
  BY <1>1, CreateTallied
<1>3. /\ requests'[id] = Fresh(kind, currency) /\ requests'[id] # NoRequest
      /\ \A x \in RequestIds \ {id} : requests'[x] = requests[x]
  <2>1. TalliedRequest(Fresh(kind, currency))
    BY FreshTallied
  <2> QED
    BY <1>1, <2>1, NoRequestIsNone DEF Create, TallyInv, TypeOK, TalliedRequest
<1>4. e \in Results /\ e.id = id
  BY DEF WithdrawalUnderlimit, Results
<1>5. /\ results' \in Seq(Results)
      /\ Range(results)' = IF kind = "UnderLimit" THEN Range(results) \union {e}
                           ELSE Range(results)
      /\ \A x \in RequestIds \ {id} : OnceIn(results, x) => OnceIn(results, x)'
  <2>1. CASE kind = "UnderLimit"
    <3>1. results' = Append(results, e)
      BY <2>1 DEF PostWithdraw
    <3> QED
      BY <2>1, <3>1, <1>1, <1>4, AppendEntries DEF PayoutTypeOK
  <2>2. CASE kind # "UnderLimit"
    BY <2>2, <1>1 DEF PostWithdraw, PayoutTypeOK
  <2> QED
    BY <2>1, <2>2
<1>6. PayoutTypeOK'
  BY <1>1, <1>2, <1>5 DEF PayoutTypeOK, TallyInv
<1>7. ASSUME NEW x \in RequestIds, x # id PROVE Kept(x)'
  <2>1. Queued(x)' = Queued(x)
    BY <1>4, <1>5, <1>7 DEF Queued, Names
  <2> QED
    BY <1>1, <1>3, <1>5, <1>7, <2>1, KeptAlone DEF Taken, Reported, OnceIn
<1>8. Kept(id)'
  <2>1. CASE kind = "UnderLimit"
    BY <1>3, <2>1 DEF Kept, Known, OverLimit, Fresh
  <2>2. CASE kind # "UnderLimit"
    <3>1. Untouched(id)'
      BY <1>1, <1>5, <2>2
      DEF Untouched, Queued, Taken, Posted, Answered, Reported, Names
    <3>2. requests'[id].status = "InProgress"
      BY <1>3 DEF Fresh
    <3> QED
      BY <1>6, <3>1, <3>2, UntouchedKeptNext DEF Unpaid
  <2> QED
    BY <2>1, <2>2
<1>9. Attended'
  <2>1. Followed(id)'
    BY <1>1 DEF Followed, Untouched
  <2>2. ASSUME NEW x \in RequestIds, x # id, Followed(x) PROVE Followed(x)'
    BY <1>1, <1>3, <2>2 DEF Followed, Taken, Reported
  <2>3. AnsweredOnce => AnsweredOnce'
    BY <1>1 DEF AnsweredOnce
  <2> QED
    BY <1>1, <1>3, <2>1, <2>2, <2>3 DEF Attended, Known
<1> QED
  BY <1>2, <1>6, <1>7, <1>8, <1>9, PayoutInvParts

(* What a vote does to a request that is still InProgress.                 *)
LEMMA VoteFields ==
    ASSUME NEW r \in WithdrawalRequest, NEW op \in Operators, r.status = "InProgress"
    PROVE  /\ WithConfirmation(r, op).kind = r.kind
           /\ WithConfirmation(r, op).currency = r.currency
           /\ WithConfirmation(r, op).status = IF Confirms(r, op) THEN "Confirmed" ELSE "InProgress"
           /\ Confirms(r, op) => WithConfirmation(r, op).n = 0
           /\ WithRejection(r, op).kind = r.kind
           /\ WithRejection(r, op).currency = r.currency
           /\ WithRejection(r, op).status = IF Rejects(r, op) THEN "OpRejected" ELSE "InProgress"
           /\ Rejects(r, op) => WithRejection(r, op).n = 0
  BY DEF WithConfirmation, WithRejection, WithdrawalRequest

(* The operators vote for a request: the deciding vote queues its result.  *)
LEMMA ConfirmDecisionKept ==
    ASSUME PayoutInv, faults' = faults, NEW id \in RequestIds, NEW op \in Operators,
           ConfirmDecision(op, id)
    PROVE  PayoutInv'
<1> DEFINE r == requests[id]
           s == WithConfirmation(r, op)
           e == WithdrawConfirmed(id)
<1>1. /\ PayoutTypeOK /\ TallyInv /\ Attended
      /\ \A x \in RequestIds : Kept(x)
      /\ Confirm(op, id)
      /\ id \in Known /\ CanConfirm(r, op) /\ TalliedRequest(r)
      /\ UNCHANGED <<updates, payer, posted, accepted, refused, broadcasts>>
  BY PayoutInvParts DEF ConfirmDecision, Confirm, TallyInv
<1>2. TallyInv' /\ TalliedRequest(s)
  BY <1>1, ConfirmTallied, ConfirmationTallied
<1>3. /\ s.kind = r.kind /\ s.currency = r.currency
      /\ s.status = IF Confirms(r, op) THEN "Confirmed" ELSE "InProgress"
      /\ Confirms(r, op) => s.n = 0
  BY <1>1, VoteFields DEF TalliedRequest, CanConfirm
<1> HIDE DEF s
<1>4. /\ requests'[id] = s
      /\ \A x \in RequestIds \ {id} : requests'[x] = requests[x]
      /\ Known' = Known
  <2>1. requests' = [requests EXCEPT ![id] = s]
    BY <1>1 DEF Confirm, s
  <2>2. s # NoRequest
    BY <1>2, NoRequestIsNone DEF TalliedRequest
  <2> QED
    BY <1>1, <2>1, <2>2 DEF TallyInv, TypeOK, Known
<1>5. e \in Results /\ e.id = id
  BY DEF WithdrawConfirmed, Results
<1>6. /\ results' \in Seq(Results)
      /\ Range(results)' = IF Confirms(r, op) THEN Range(results) \union {e}
                           ELSE Range(results)
      /\ \A x : OnceIn(results, x) /\ (x = id => ~Queued(x)) => OnceIn(results, x)'
  <2>1. CASE Confirms(r, op)
    <3>1. results' = Append(results, e)
      BY <2>1 DEF ConfirmDecision
    <3> HIDE DEF e
    <3> QED
      BY <2>1, <3>1, <1>1, <1>5, AppendEntries DEF PayoutTypeOK, Queued
  <2>2. CASE ~Confirms(r, op)
    BY <2>2, <1>1 DEF ConfirmDecision, PayoutTypeOK
  <2> QED
    BY <2>1, <2>2
<1> HIDE DEF e
<1>7. PayoutTypeOK'
  BY <1>1, <1>2, <1>6 DEF PayoutTypeOK, TallyInv
<1>8. ASSUME NEW x \in RequestIds, x # id PROVE Kept(x)'
  <2>1. Queued(x)' => Queued(x)
    BY <1>5, <1>6, <1>8 DEF Queued, Names
  <2> QED
    BY <1>1, <1>4, <1>6, <1>8, <2>1, KeptAlone DEF Taken, Reported, OnceIn
<1>9. Kept(id)'
  <2>1. CASE ~OverLimit(id)
    BY <1>1, <1>3, <1>4, <2>1 DEF Kept, OverLimit, Known
  <2>2. CASE OverLimit(id)
    <3>1. Untouched(id)
      BY <1>1, <2>2 DEF Kept, ApprovedOrUntouched, CanConfirm
    <3>2. OnceIn(updates, id) /\ OnceIn(results, id)'
      BY <1>1, <1>6, <2>2, <3>1 DEF Kept, OneResult, Untouched
    <3>3. CASE Confirms(r, op)
      <4>1. requests'[id].status = "Confirmed" /\ requests'[id].n = 0 /\ (id \in Known)'
        BY <1>1, <1>3, <1>4, <3>3
      <4>2. Net(requests[id])' = REQUIRED_NUMBER_OF_CONFIRMATIONS
        BY <1>2, <1>3, <1>4, <3>3 DEF TalliedRequest, Net
      <4>3. /\ ~Taken(id)' /\ ~Posted(id)' /\ ~Answered(id)' /\ ~Reported(id)'
            /\ broadcasts'[id] = 0 /\ OnceIn(updates, id)'
        BY <1>1, <3>1, <3>2
        DEF Untouched, Taken, Posted, Answered, Reported, Names, OnceIn
      <4>4. OneResult(id)' /\ OnePayment(id)'
        BY <3>2, <4>1, <4>3 DEF OneResult, OnePayment, Posted, Names
      <4>5. Truthful(id)'
        BY <4>3 DEF Truthful
      <4>6. ApprovedOrUntouched(id)'
        BY <4>1, <4>2 DEF ApprovedOrUntouched
      <4> QED
        BY <4>1, <4>4, <4>5, <4>6 DEF Kept
    <3>4. CASE ~Confirms(r, op)
      <4>1. Untouched(id)'
        BY <1>1, <1>6, <3>1, <3>4
        DEF Untouched, Queued, Taken, Posted, Answered, Reported, Names
      <4> QED
        BY <1>3, <1>4, <1>7, <3>4, <4>1, UntouchedKeptNext DEF Unpaid
    <3> QED
      BY <3>3, <3>4
  <2> QED
    BY <2>1, <2>2
<1>10. Attended'
  <2>1. ASSUME NEW x \in Known, Followed(x) PROVE Followed(x)'
    BY <1>1, <1>3, <1>4, <2>1 DEF Followed, Taken, Reported, CanConfirm, Known
  <2>2. AnsweredOnce => AnsweredOnce'
    BY <1>1 DEF AnsweredOnce
  <2> QED
    BY <1>1, <1>4, <2>1, <2>2 DEF Attended
<1> QED
  BY <1>2, <1>7, <1>8, <1>9, <1>10, PayoutInvParts

(* The operators vote against a request.                                   *)
LEMMA RejectDecisionKept ==
    ASSUME PayoutInv, faults' = faults, NEW id \in RequestIds, NEW op \in Operators,
           RejectDecision(op, id)
    PROVE  PayoutInv'
<1> DEFINE r == requests[id]
           s == WithRejection(r, op)
<1>1. /\ PayoutTypeOK /\ TallyInv /\ Attended
      /\ \A x \in RequestIds : Kept(x)
      /\ Reject(op, id)
      /\ id \in Known /\ CanReject(r, op) /\ TalliedRequest(r)
      /\ UNCHANGED <<updates, results, payer, posted, accepted, refused, broadcasts>>
  BY PayoutInvParts DEF RejectDecision, Reject, TallyInv, pipeline
<1>2. TallyInv' /\ TalliedRequest(s)
  BY <1>1, RejectTallied, RejectionTallied
<1>3. /\ s.kind = r.kind /\ s.currency = r.currency
      /\ s.status = IF Rejects(r, op) THEN "OpRejected" ELSE "InProgress"
      /\ Rejects(r, op) => s.n = 0
  BY <1>1, VoteFields DEF TalliedRequest, CanReject
<1> HIDE DEF s
<1>4. /\ requests'[id] = s
      /\ \A x \in RequestIds \ {id} : requests'[x] = requests[x]
      /\ Known' = Known
  <2>1. requests' = [requests EXCEPT ![id] = s]
    BY <1>1 DEF Reject, s
  <2>2. s # NoRequest
    BY <1>2, NoRequestIsNone DEF TalliedRequest
  <2> QED
    BY <1>1, <2>1, <2>2 DEF TallyInv, TypeOK, Known
<1>5. PayoutTypeOK'
  BY <1>1, <1>2 DEF PayoutTypeOK, TallyInv
<1>6. ASSUME NEW x \in RequestIds, x # id PROVE Kept(x)'
  BY <1>1, <1>4, <1>6, KeptAlone DEF Queued, Taken, Reported, OnceIn
<1>7. Kept(id)'
  <2>1. CASE ~OverLimit(id)
    BY <1>1, <1>3, <1>4, <2>1 DEF Kept, OverLimit, Known
  <2>2. CASE OverLimit(id)
    <3>1. Untouched(id)
      BY <1>1, <2>2 DEF Kept, ApprovedOrUntouched, CanReject
    <3>2. Untouched(id)'
      BY <1>1, <3>1 DEF Untouched, Queued, Taken, Posted, Answered, Reported, Names
    <3> QED
      BY <1>3, <1>4, <1>5, <3>2, UntouchedKeptNext DEF Unpaid
  <2> QED
    BY <2>1, <2>2
<1>8. Attended'
  <2>1. ASSUME NEW x \in Known, Followed(x) PROVE Followed(x)'
    BY <1>1, <1>3, <1>4, <2>1 DEF Followed, Taken, Reported, CanReject, Known
  <2>2. AnsweredOnce => AnsweredOnce'
    BY <1>1 DEF AnsweredOnce
  <2> QED
    BY <1>1, <1>4, <2>1, <2>2 DEF Attended
<1> QED
  BY <1>2, <1>5, <1>6, <1>7, <1>8, PayoutInvParts

-----------------------------------------------------------------------------
(* The outcome of a payment is applied: it was the only one under way.     *)
LEMMA ApplySettlementKept ==
    ASSUME PayoutInv, faults' = faults, ApplySettlement
    PROVE  PayoutInv'
<1>0. PICK h : h = Head(updates)
  OBVIOUS
<1> DEFINE id == h.id
<1>1. /\ PayoutTypeOK /\ TallyInv /\ Attended
      /\ \A x \in RequestIds : Kept(x)
      /\ updates \in Seq(Settlements) /\ updates # <<>> /\ updates' = Tail(updates)
      /\ SetStatus(id, h.status)
      /\ UNCHANGED <<results, payer, posted, accepted, refused, broadcasts>>
  BY <1>0, PayoutInvParts DEF ApplySettlement, PayoutTypeOK
<1>2. /\ h \in Settlements /\ updates' \in Seq(Settlements)
      /\ Range(updates) = Range(updates') \union {h}
      /\ \A x : OnceIn(updates, x) => /\ OnceIn(updates', x)
                                      /\ h.id = x => ~Names(Range(updates'), x)
  BY <1>0, <1>1, TailEntries
<1>3. id \in RequestIds /\ h.status \in {"Completed", "NodeRejected"} /\ Reported(id)
  BY <1>2 DEF Settlements, Reported, Names
<1>4. h = [ status |-> h.status, id |-> id ]
  BY <1>2 DEF Settlements
<1>5. /\ TallyInv' /\ Known' = Known
      /\ \A x \in Known : /\ requests'[x].kind = requests[x].kind
                          /\ requests'[x].currency = requests[x].currency
                          /\ Net(requests'[x]) = Net(requests[x])
      /\ \A x \in RequestIds \ {id} : requests'[x] = requests[x]
      /\ id \in Known => /\ requests'[id].status = h.status
                         /\ requests'[id] = [requests[id] EXCEPT !.status = h.status, !.n = 0]
  BY <1>1, <1>3, SetStatusTallied
<1>6. PayoutTypeOK'
  BY <1>1, <1>2, <1>5 DEF PayoutTypeOK, TallyInv
<1>7. ASSUME NEW x \in RequestIds, x # id PROVE Kept(x)'
  <2>1. Reported(x)' => Reported(x)
    BY <1>2 DEF Reported, Names
  <2> QED
    BY <1>1, <1>2, <1>5, <1>7, <2>1, KeptAlone DEF Queued, Taken
<1>8. id \in Known
  BY <1>1, <1>3 DEF Kept, Untouched
<1>9. Kept(id)'
  <2>1. requests'[id].n = 0
    BY <1>5, <1>8 DEF TallyInv, TypeOK, Known, WithdrawalRequest
  <2>2. CASE ~OverLimit(id)
    BY <1>5, <1>8, <2>1, <2>2 DEF Kept, OverLimit
  <2>3. CASE OverLimit(id)
    <3>1. ApprovedOrUntouched(id) /\ OneResult(id) /\ OnePayment(id)
      BY <1>1, <1>3, <2>3 DEF Kept
    <3>2. /\ requests[id].status = "Confirmed" /\ ~Queued(id) /\ ~Taken(id)
          /\ OnceIn(results, id) /\ OnceIn(updates, id)
      BY <1>3, <3>1 DEF OneResult
    <3>3. ApprovedOrUntouched(id)'
      BY <1>3, <1>5, <1>8, <3>1, <3>2 DEF ApprovedOrUntouched, Net
    <3>4. ~Queued(id)' /\ ~Taken(id)' /\ ~Reported(id)'
      BY <1>1, <1>2, <3>2 DEF Queued, Taken, Reported, Names
    <3>5. OneResult(id)'
      BY <1>1, <1>2, <3>2, <3>4 DEF OneResult, OnceIn
    <3>6. OnePayment(id)'
      BY <1>1, <3>1 DEF OnePayment, Posted, Names
    <3>7. Truthful(id) => Truthful(id)'
      <4>1. Posted(id)' = Posted(id) /\ Names(refused, id)' = Names(refused, id)
        BY <1>1 DEF Posted, Names
      <4>2. requests'[id].status = "NodeRejected"
              => [ status |-> "NodeRejected", id |-> id ] \in Range(updates)
        BY <1>2, <1>4, <1>5, <1>8
      <4> QED
        BY <1>1, <1>2, <4>1, <4>2 DEF Truthful
    <3> QED
      BY <1>1, <1>3, <1>5, <1>8, <2>1, <2>3, <3>3, <3>5, <3>6, <3>7 DEF Kept
  <2> QED
    BY <2>2, <2>3
<1>10. Attended'
  <2>1. ASSUME NEW x \in Known, Followed(x) PROVE Followed(x)'
    <3>1. CASE x = id
      BY <1>3, <1>5, <1>8, <3>1 DEF Followed
    <3>2. CASE x # id
      <4>1. requests'[x] = requests[x]
        BY <1>5, <2>1, <3>2 DEF Known
      <4>2. Reported(x)' <=> Reported(x)
        BY <1>2, <3>2 DEF Reported, Names
      <4> QED
        BY <1>1, <2>1, <4>1, <4>2 DEF Followed, Taken
    <3> QED
      BY <3>1, <3>2
  <2>2. AnsweredOnce => AnsweredOnce'
    BY <1>1 DEF AnsweredOnce
  <2> QED
    BY <1>1, <1>5, <2>1, <2>2 DEF Attended
<1> QED
  BY <1>5, <1>6, <1>7, <1>9, <1>10, PayoutInvParts

(* The outcome of a payment cannot be stored and is dropped.               *)
LEMMA StoreFailsKept ==
    ASSUME PayoutInv, faults' = faults, StoreFails
    PROVE  PayoutInv'
<1>1. /\ PayoutTypeOK /\ TallyInv /\ \A x \in RequestIds : Kept(x)
      /\ updates \in Seq(Settlements) /\ updates # <<>> /\ updates' = Tail(updates)
      /\ "store" \in faults
      /\ UNCHANGED <<requests, results, payer, posted, accepted, refused, broadcasts>>
  BY PayoutInvParts DEF StoreFails, PayoutTypeOK
<1>2. /\ updates' \in Seq(Settlements)
      /\ Range(updates') \subseteq Range(updates)
      /\ \A x : OnceIn(updates, x) => OnceIn(updates', x)
  BY <1>1, TailEntries
<1>3. TallyInv' /\ PayoutTypeOK'
  BY <1>1, <1>2 DEF PayoutTypeOK, TallyInv, TypeOK, Known
<1>4. ASSUME NEW x \in RequestIds PROVE Kept(x)'
  <2>1. Reported(x)' => Reported(x)
    BY <1>2 DEF Reported, Names
  <2> QED
    BY <1>1, <1>2, <2>1, KeptAlone DEF Queued, Taken, OnceIn
<1>5. Attended'
  BY <1>1 DEF Attended
<1> QED
  BY <1>3, <1>4, <1>5, PayoutInvParts

(* The hot wallet stops: what was in memory is gone.                       *)
LEMMA CrashKept ==
    ASSUME PayoutInv, faults' = faults, Crash
    PROVE  PayoutInv'
<1>1. /\ PayoutTypeOK /\ TallyInv /\ \A x \in RequestIds : Kept(x)
      /\ updates' = <<>> /\ results' = <<>> /\ payer' = Idle
      /\ "crash" \in faults
      /\ UNCHANGED <<requests, posted, accepted, refused, broadcasts>>
  BY PayoutInvParts DEF Crash
<1>2. /\ Range(<<>>) = {} /\ (\A x : OnceIn(<<>>, x))
      /\ <<>> \in Seq(Settlements) /\ <<>> \in Seq(Results)
  BY EmptySeq DEF Range, OnceIn
<1>3. TallyInv' /\ PayoutTypeOK'
  BY <1>1, <1>2 DEF PayoutTypeOK, TallyInv, TypeOK, Known
<1>4. ASSUME NEW x \in RequestIds PROVE Kept(x)'
  <2>1. ~Queued(x)' /\ ~Reported(x)' /\ ~Taken(x)'
    BY <1>1, <1>2 DEF Queued, Reported, Taken, Names
  <2>2. OnceIn(results, x)' /\ OnceIn(updates, x)'
    BY <1>1, <1>2 DEF OnceIn
  <2> QED
    BY <1>1, <1>2, <2>1, <2>2, KeptAlone
<1>5. Attended'
  BY <1>1 DEF Attended
<1> QED
  BY <1>3, <1>4, <1>5, PayoutInvParts

-----------------------------------------------------------------------------
(* The results worker takes a result: the request has just been approved,  *)
(* and nothing was done for it before.                                     *)
LEMMA TakeResultKept ==
    ASSUME PayoutInv, faults' = faults, TakeResult
    PROVE  PayoutInv'
<1>0. PICK h, cw : h = Head(results) /\ cw = ToPay(h)
  OBVIOUS
<1> DEFINE id == h.id
<1>1. /\ PayoutTypeOK /\ TallyInv /\ Attended
      /\ \A x \in RequestIds : Kept(x)
      /\ results \in Seq(Results) /\ results # <<>> /\ results' = Tail(results)
      /\ payer = Idle /\ payer' = cw /\ posted' = posted \union {cw}
      /\ UNCHANGED <<requests, updates, accepted, refused, broadcasts>>
  BY <1>0, PayoutInvParts DEF TakeResult, PayoutTypeOK
<1>2. /\ h \in Results /\ results' \in Seq(Results)
      /\ Range(results) = Range(results') \union {h}
      /\ \A x : OnceIn(results, x) => /\ OnceIn(results', x)
                                      /\ h.id = x => ~Names(Range(results'), x)
  BY <1>0, <1>1, TailEntries
<1>3. id \in RequestIds /\ Queued(id)
  BY <1>2 DEF Results, Queued, Names
<1>4. id \in Known
  BY <1>1, <1>3 DEF Kept, Untouched
<1>5. /\ cw \in ConfirmedWithdrawal /\ cw.id = id /\ cw # Idle
  <2>1. requests[id] \in WithdrawalRequest
    BY <1>1, <1>4 DEF TallyInv, TalliedRequest
  <2>2. Net(requests[id]) \in Int
    BY <2>1, FS_Subset, FS_CardinalityType, WithdrawalConstants DEF Net, WithdrawalRequest
  <2> QED
    BY <1>0, <1>2, <1>3, <2>2, IdleIsNoWithdrawal DEF ToPay, ConfirmedWithdrawal, Results
<1>6. TallyInv' /\ PayoutTypeOK'
  BY <1>1, <1>2, <1>5 DEF PayoutTypeOK, TallyInv, TypeOK, Known
<1>7. ASSUME NEW x \in RequestIds, x # id PROVE Kept(x)'
  <2>1. /\ Queued(x)' => Queued(x)
        /\ ~Taken(x)'
        /\ \A dw : dw.id = x => (dw \in posted' => dw \in posted)
    BY <1>1, <1>2, <1>5, <1>7 DEF Queued, Taken, Names
  <2> QED
    BY <1>1, <1>2, <1>7, <2>1, KeptAlone DEF Reported
<1>8. Kept(id)'
  <2>1. CASE ~OverLimit(id)
    BY <1>1, <1>3, <1>4, <2>1 DEF Kept, OverLimit, Known
  <2>2. CASE OverLimit(id)
    <3>1. /\ ApprovedOrUntouched(id) /\ OneResult(id) /\ OnePayment(id)
          /\ requests[id].status # "InProgress" => requests[id].n = 0
      BY <1>1, <1>3, <1>4, <2>2 DEF Kept
    <3>2. /\ requests[id].status = "Confirmed" /\ broadcasts[id] = 0
          /\ ~Posted(id) /\ ~Answered(id) /\ ~Reported(id)
          /\ OnceIn(results, id) /\ OnceIn(updates, id)
      BY <1>3, <3>1 DEF OneResult
    <3>3. ApprovedOrUntouched(id)'
      BY <1>1, <3>1, <3>2 DEF ApprovedOrUntouched, Net
    <3>4. ~Queued(id)' /\ ~Reported(id)' /\ OnceIn(results, id)' /\ OnceIn(updates, id)'
      BY <1>1, <1>2, <3>2 DEF Queued, Reported
    <3>5. OneResult(id)'
      BY <1>1, <3>2, <3>4 DEF OneResult
    <3>6. OnePayment(id)'
      BY <1>1, <1>5, <3>2 DEF OnePayment, Posted, Names
    <3>7. Truthful(id)'
      BY <1>1, <3>2 DEF Truthful, Answered, Reported, Names
    <3> QED
      BY <1>1, <1>4, <3>1, <3>3, <3>5, <3>6, <3>7 DEF Kept, Known
  <2> QED
    BY <2>1, <2>2
<1>9. Attended'
  <2>1. ASSUME NEW x \in Known, Followed(x) PROVE Followed(x)'
    BY <1>1, <2>1 DEF Followed, Taken, Reported
  <2> QED
    BY <1>1, <1>5, <2>1 DEF Attended, AnsweredOnce, Known
<1> QED
  BY <1>6, <1>7, <1>8, <1>9, PayoutInvParts

(* The adapter pays: for a request over the limit this is the first time.  *)
LEMMA AdapterPaysKept ==
    ASSUME PayoutInv, faults' = faults, NEW cw \in posted, AdapterPays(cw)
    PROVE  PayoutInv'
<1> DEFINE id == cw.id
<1>1. /\ PayoutTypeOK /\ TallyInv /\ Attended
      /\ \A x \in RequestIds : Kept(x)
      /\ broadcasts' = [broadcasts EXCEPT ![id] = @ + 1]
      /\ posted' = posted \ {cw}
      /\ \/ accepted' = accepted \union {cw} /\ refused' = refused
         \/ "late" \in faults /\ refused' = refused \union {cw} /\ accepted' = accepted
      /\ UNCHANGED <<requests, updates, results, payer>>
  BY PayoutInvParts DEF AdapterPays
<1>2. cw \in ConfirmedWithdrawal /\ id \in RequestIds /\ Posted(id)
  BY <1>1 DEF PayoutTypeOK, ConfirmedWithdrawal, Posted, Names
<1>3. id \in Known
  BY <1>1, <1>2 DEF Kept, Untouched
<1>4. /\ broadcasts' \in [RequestIds -> Nat]
      /\ broadcasts'[id] = broadcasts[id] + 1
      /\ \A x \in RequestIds \ {id} : broadcasts'[x] = broadcasts[x]
  BY <1>1, <1>2 DEF PayoutTypeOK
<1>5. TallyInv' /\ PayoutTypeOK'
  BY <1>1, <1>2, <1>4 DEF PayoutTypeOK, TallyInv, TypeOK, Known
<1>6. ASSUME NEW x \in RequestIds, x # id PROVE Kept(x)'
  BY <1>1, <1>4, <1>6, KeptAlone DEF Queued, Taken, Reported
<1>7. Kept(id)'
  <2>1. CASE ~OverLimit(id)
    BY <1>1, <1>2, <1>3, <2>1 DEF Kept, OverLimit, Known
  <2>2. CASE OverLimit(id)
    <3>1. /\ ApprovedOrUntouched(id) /\ OneResult(id) /\ OnePayment(id)
          /\ requests[id].status # "InProgress" => requests[id].n = 0
          /\ faults \subseteq {"crash", "store"} => Truthful(id)
      BY <1>1, <1>2, <1>3, <2>2 DEF Kept
    <3>2. /\ requests[id].status \notin {"InProgress", "OpRejected"}
          /\ ~Queued(id) /\ broadcasts[id] = 0
      BY <1>2, <3>1 DEF ApprovedOrUntouched, Untouched, OneResult, OnePayment
    <3>3. ApprovedOrUntouched(id)'
      BY <1>1, <3>1, <3>2 DEF ApprovedOrUntouched, Net
    <3>4. OneResult(id)'
      BY <1>1, <3>1, <3>2 DEF OneResult, Queued, Taken, Reported
    <3>5. OnePayment(id)'
      BY <1>1, <1>4, <3>1, <3>2 DEF OnePayment, Posted, Names
    <3>6. faults \subseteq {"crash", "store"} => Truthful(id)'
      BY <1>1, <1>2, <3>1 DEF Truthful
    <3> QED
      BY <1>1, <1>3, <3>1, <3>3, <3>4, <3>5, <3>6 DEF Kept, Known
  <2> QED
    BY <2>1, <2>2
<1>8. Attended'
  <2>1. ASSUME faults = {}, NEW x \in Known PROVE Followed(x)'
    <3>1. payer # Idle /\ cw = payer /\ Followed(x)
      BY <1>1, <2>1 DEF Attended
    <3> QED
      BY <1>1, <1>4, <3>1 DEF Followed, Taken, Reported, Known
  <2> QED
    BY <1>1, <2>1 DEF Attended, AnsweredOnce, Known
<1> QED
  BY <1>5, <1>6, <1>7, <1>8, PayoutInvParts

(* The adapter answers with an error.                                      *)
LEMMA AdapterRefusesKept ==
    ASSUME PayoutInv, faults' = faults, NEW cw \in posted, AdapterRefuses(cw)
    PROVE  PayoutInv'
<1> DEFINE id == cw.id
<1>1. /\ PayoutTypeOK /\ TallyInv /\ Attended
      /\ \A x \in RequestIds : Kept(x)
      /\ posted' = posted \ {cw} /\ refused' = refused \union {cw}
      /\ UNCHANGED <<requests, updates, results, payer, accepted, broadcasts>>
  BY PayoutInvParts DEF AdapterRefuses
<1>2. cw \in ConfirmedWithdrawal /\ id \in RequestIds /\ Posted(id)
  BY <1>1 DEF PayoutTypeOK, ConfirmedWithdrawal, Posted, Names
<1>3. id \in Known
  BY <1>1, <1>2 DEF Kept, Untouched
<1>4. TallyInv' /\ PayoutTypeOK'
  BY <1>1, <1>2 DEF PayoutTypeOK, TallyInv, TypeOK, Known
<1>5. ASSUME NEW x \in RequestIds, x # id PROVE Kept(x)'
  BY <1>1, <1>5, KeptAlone DEF Queued, Taken, Reported
<1>6. Kept(id)'
  <2>1. CASE ~OverLimit(id)
    BY <1>1, <1>2, <1>3, <2>1 DEF Kept, OverLimit, Known
  <2>2. CASE OverLimit(id)
    <3>1. /\ ApprovedOrUntouched(id) /\ OneResult(id) /\ OnePayment(id)
          /\ requests[id].status # "InProgress" => requests[id].n = 0
      BY <1>1, <1>2, <1>3, <2>2 DEF Kept
    <3>2. /\ requests[id].status \notin {"InProgress", "OpRejected"}
          /\ ~Queued(id) /\ broadcasts[id] = 0
      BY <1>2, <3>1 DEF ApprovedOrUntouched, Untouched, OneResult, OnePayment
    <3>3. ApprovedOrUntouched(id)'
      BY <1>1, <3>1, <3>2 DEF ApprovedOrUntouched, Net
    <3>4. OneResult(id)'
      BY <1>1, <3>1, <3>2 DEF OneResult, Queued, Taken, Reported
    <3>5. OnePayment(id)' /\ ~Posted(id)'
      BY <1>1, <3>1, <3>2 DEF OnePayment, Posted, Names
    <3>6. Truthful(id)'
      BY <1>1, <3>2, <3>5 DEF Truthful
    <3> QED
      BY <1>1, <1>3, <3>1, <3>3, <3>4, <3>5, <3>6 DEF Kept, Known
  <2> QED
    BY <2>1, <2>2
<1>7. Attended'
  <2>1. ASSUME NEW x \in Known, Followed(x) PROVE Followed(x)'
    BY <1>1, <2>1 DEF Followed, Taken, Reported
  <2> QED
    BY <1>1, <2>1 DEF Attended, AnsweredOnce, Known
<1> QED
  BY <1>4, <1>5, <1>6, <1>7, PayoutInvParts

-----------------------------------------------------------------------------
(* The results worker reports an outcome: it leaves the worker's hands for *)
(* the queue of updates.                                                   *)
LEMMA ReportKept ==
    ASSUME PayoutInv, faults' = faults, payer # Idle,
           NEW e \in Settlements, e.id = payer.id,
           updates' = IF e.status = "Completed" /\ requests[payer.id].currency # "BTC"
                      THEN updates ELSE Append(updates, e),
           payer \in IF e.status = "Completed" THEN accepted
                     ELSE IF "reply" \in faults THEN {payer} ELSE refused,
           accepted' = IF e.status = "Completed" THEN accepted \ {payer} ELSE accepted,
           refused' = IF e.status = "Completed" THEN refused ELSE refused \ {payer},
           payer' = Idle,
           UNCHANGED <<requests, results, posted, broadcasts>>
    PROVE  PayoutInv'
<1>0. PICK id : id = payer.id
  OBVIOUS
<1>1. /\ PayoutTypeOK /\ TallyInv /\ Attended
      /\ \A x \in RequestIds : Kept(x)
      /\ e = [ status |-> e.status, id |-> id ] /\ e.id = id
      /\ id \in RequestIds /\ Taken(id)
      /\ UNCHANGED <<requests, results, posted, broadcasts>>
  BY <1>0, PayoutInvParts DEF PayoutTypeOK, ConfirmedWithdrawal, Taken, Settlements
<1>2. id \in Known
  BY <1>1 DEF Kept, Untouched
<1>3. /\ updates' \in Seq(Settlements)
      /\ \/ updates' = updates
         \/ Range(updates') = Range(updates) \union {e}
      /\ e.status = "NodeRejected" \/ requests[id].currency = "BTC"
           => Range(updates') = Range(updates) \union {e}
      /\ \A x : OnceIn(updates, x) /\ (x = id => ~Reported(x)) => OnceIn(updates, x)'
  <2>1. updates \in Seq(Settlements)
    BY <1>1 DEF PayoutTypeOK
  <2>2. /\ Append(updates, e) \in Seq(Settlements)
        /\ Range(Append(updates, e)) = Range(updates) \union {e}
        /\ \A x : OnceIn(updates, x) /\ (e.id = x => ~Names(Range(updates), x))
                    => OnceIn(Append(updates, e), x)
    BY <2>1, AppendEntries
  <2>3. CASE updates' = Append(updates, e)
    BY <1>1, <2>2, <2>3 DEF Reported
  <2>4. CASE updates' # Append(updates, e)
    BY <1>0, <2>1, <2>4
  <2> QED
    BY <2>3, <2>4
<1>4. TallyInv' /\ PayoutTypeOK'
  BY <1>1, <1>3 DEF PayoutTypeOK, TallyInv, TypeOK, Known
<1>5. ASSUME NEW x \in RequestIds, x # id PROVE Kept(x)'
  <2>1. /\ Reported(x)' => Reported(x)
        /\ ~Taken(x)'
        /\ OnceIn(updates, x) => OnceIn(updates, x)'
    BY <1>1, <1>3, <1>5 DEF Reported, Taken, Names
  <2>2. [ status |-> "NodeRejected", id |-> x ] \in Range(updates)'
          => [ status |-> "NodeRejected", id |-> x ] \in Range(updates)
    BY <1>1, <1>3, <1>5
  <2> QED
    BY <1>1, <1>5, <2>1, <2>2, KeptAlone DEF Queued
<1>6. Kept(id)'
  <2>1. CASE ~OverLimit(id)
    BY <1>1, <1>2, <2>1 DEF Kept, OverLimit, Known
  <2>2. CASE OverLimit(id)
    <3>1. /\ ApprovedOrUntouched(id) /\ OneResult(id) /\ OnePayment(id)
          /\ requests[id].status # "InProgress" => requests[id].n = 0
          /\ faults \subseteq {"crash", "store"} => Truthful(id)
      BY <1>1, <1>2, <2>2 DEF Kept
    <3>2. /\ requests[id].status = "Confirmed"
          /\ ~Queued(id) /\ ~Reported(id)
          /\ OnceIn(results, id) /\ OnceIn(updates, id)'
      BY <1>1, <1>3, <3>1 DEF OneResult
    <3>3. ApprovedOrUntouched(id)'
      BY <1>1, <3>1, <3>2 DEF ApprovedOrUntouched, Net
    <3>4. ~Queued(id)' /\ ~Taken(id)' /\ OnceIn(results, id)'
      BY <1>1, <3>2 DEF Queued, Taken
    <3>5. OneResult(id)'
      BY <1>1, <3>2, <3>4 DEF OneResult
    <3>6. OnePayment(id)'
      BY <1>1, <3>1 DEF OnePayment, Posted
    <3>7. faults \subseteq {"crash", "store"} => Truthful(id)'
      <4> SUFFICES ASSUME faults \subseteq {"crash", "store"}, Truthful(id)
                   PROVE  Truthful(id)'
        BY <3>1
      <4>1. CASE e.status = "Completed"
        BY <1>1, <1>3, <4>1 DEF Truthful, Posted
      <4>2. CASE e.status # "Completed"
        <5>1. Names(refused, id)
          BY <1>0, <4>2 DEF Names
        <5> QED
          BY <1>1, <5>1 DEF Truthful, Posted
      <4> QED
        BY <4>1, <4>2
    <3> QED
      BY <1>1, <1>2, <3>1, <3>3, <3>5, <3>6, <3>7 DEF Kept, Known
  <2> QED
    BY <2>1, <2>2
<1>7. Attended'
  <2>1. ASSUME faults = {}, NEW x \in Known PROVE Followed(x)'
    <3>1. Followed(x)
      BY <1>1, <2>1 DEF Attended
    <3>2. CASE x = id
      <4>1. requests[id].currency = "BTC" => Reported(id)'
        BY <1>1, <1>3 DEF Reported, Names
      <4> QED
        BY <1>1, <3>2, <4>1 DEF Followed
    <3>3. CASE x # id
      <4>1. ~Taken(x) /\ (Reported(x) => Reported(x)')
        BY <1>0, <1>3, <3>3 DEF Taken, Reported, Names
      <4> QED
        BY <1>1, <3>1, <4>1 DEF Followed
    <3> QED
      BY <3>2, <3>3
  <2>2. ASSUME faults = {} PROVE posted' \union accepted' \union refused' = {}
    BY <1>1, <2>2 DEF Attended, AnsweredOnce
  <2> QED
    BY <1>1, <2>1, <2>2 DEF Attended, AnsweredOnce, Known
<1> QED
  BY <1>4, <1>5, <1>6, <1>7, PayoutInvParts

LEMMA ReportSuccessKept ==
    ASSUME PayoutInv, faults' = faults, ReportSuccess
    PROVE  PayoutInv'
<1> DEFINE e == [ status |-> "Completed", id |-> payer.id ]
<1>1. e \in Settlements /\ e.status = "Completed" /\ e.id = payer.id
  BY PayoutInvParts DEF ReportSuccess, Settlements, PayoutTypeOK, ConfirmedWithdrawal
<1> QED
  BY <1>1, ReportKept DEF ReportSuccess

LEMMA ReportFailureKept ==
    ASSUME PayoutInv, faults' = faults, ReportFailure
    PROVE  PayoutInv'
<1> DEFINE e == [ status |-> "NodeRejected", id |-> payer.id ]
<1>1. e \in Settlements /\ e.status = "NodeRejected" /\ e.id = payer.id
  BY PayoutInvParts DEF ReportFailure, Settlements, PayoutTypeOK, ConfirmedWithdrawal
<1> QED
  BY <1>1, ReportKept DEF ReportFailure

(* A block with the transaction of a completed withdrawal is lost.         *)
LEMMA CancelWithdrawalTxKept ==
    ASSUME PayoutInv, faults' = faults, NEW id \in RequestIds, CancelWithdrawalTx(id)
    PROVE  PayoutInv'
<1>1. /\ PayoutTypeOK /\ TallyInv
      /\ \A x \in RequestIds : Kept(x)
      /\ "reorg" \in faults /\ id \in Known /\ requests[id].status = "Completed"
      /\ SetStatus(id, "NodeRejected")
      /\ UNCHANGED <<updates, results, payer, posted, accepted, refused, broadcasts>>
  BY PayoutInvParts DEF CancelWithdrawalTx, pipeline
<1>2. /\ TallyInv' /\ Known' = Known
      /\ requests'[id].kind = requests[id].kind
      /\ Net(requests'[id]) = Net(requests[id])
      /\ \A x \in RequestIds \ {id} : requests'[x] = requests[x]
      /\ requests'[id].status = "NodeRejected"
      /\ requests'[id] = [requests[id] EXCEPT !.status = "NodeRejected", !.n = 0]
  BY <1>1, SetStatusTallied
<1>3. PayoutTypeOK'
  BY <1>1, <1>2 DEF PayoutTypeOK, TallyInv
<1>4. ASSUME NEW x \in RequestIds, x # id PROVE Kept(x)'
  BY <1>1, <1>2, <1>4, KeptAlone DEF Queued, Taken, Reported
<1>5. Kept(id)'
  <2>1. requests'[id].n = 0
    BY <1>1, <1>2 DEF TallyInv, TypeOK, Known, WithdrawalRequest
  <2>2. CASE ~OverLimit(id)
    BY <1>1, <1>2, <2>1, <2>2 DEF Kept, OverLimit
  <2>3. CASE OverLimit(id)
    <3>1. ApprovedOrUntouched(id) /\ OneResult(id) /\ OnePayment(id)
      BY <1>1, <2>3 DEF Kept
    <3>2. ApprovedOrUntouched(id)' /\ OneResult(id)' /\ OnePayment(id)'
      BY <1>1, <1>2, <3>1
      DEF ApprovedOrUntouched, OneResult, OnePayment, Queued, Taken, Posted, Reported
    <3> QED
      BY <1>1, <1>2, <2>1, <3>2 DEF Kept
  <2> QED
    BY <2>2, <2>3
<1>6. Attended'
  BY <1>1 DEF Attended
<1> QED
  BY <1>2, <1>3, <1>4, <1>5, <1>6, PayoutInvParts

LEMMA PayoutInvariance == PayoutSpec => []PayoutInv
<1>1. PayoutInit => PayoutInv
  <2> SUFFICES ASSUME PayoutInit PROVE PayoutInv
    OBVIOUS
  <2>1. Known = {} /\ TallyInv
    BY DEF PayoutInit, Init, TallyInv, TypeOK, Known
  <2>2. <<>> \in Seq(Settlements) /\ <<>> \in Seq(Results) /\ Range(<<>>) = {}
    BY EmptySeq DEF Range
  <2>3. PayoutTypeOK
    BY <2>1, <2>2 DEF PayoutInit, PayoutTypeOK, TallyInv
  <2>4. \A id \in RequestIds : Untouched(id)
    BY <2>2 DEF PayoutInit, Untouched, Queued, Taken, Posted, Answered, Reported, Names
  <2> QED
    BY <2>1, <2>3, <2>4 DEF PayoutInit, PayoutInv, OverLimit, AnsweredOnce
<1>2. PayoutInv /\ [PayoutNext]_vars => PayoutInv'
  <2> SUFFICES ASSUME PayoutInv, [PayoutNext]_vars PROVE PayoutInv'
    OBVIOUS
  <2>1. CASE UNCHANGED vars
    <3>1. PayoutTypeOK' /\ TallyInv'
      BY <2>1, PayoutInvParts DEF vars, state, pipeline, PayoutTypeOK, TallyInv, TypeOK, Known
    <3>2. ASSUME NEW id \in RequestIds PROVE Kept(id)'
      BY <2>1, <3>2, PayoutInvParts, KeptAlone
      DEF vars, state, pipeline, Queued, Taken, Reported
    <3>3. Attended'
      BY <2>1, PayoutInvParts
      DEF vars, state, pipeline, Attended, AnsweredOnce, Followed, Taken, Reported, Known
    <3> QED
      BY <3>1, <3>2, <3>3, PayoutInvParts
  <2>2. CASE PayoutNext
    <3>1. faults' = faults
      BY <2>2 DEF PayoutNext
    <3> QED
      BY <2>2, <3>1, PostWithdrawKept, ConfirmDecisionKept, RejectDecisionKept,
         CancelWithdrawalTxKept, ApplySettlementKept, StoreFailsKept, TakeResultKept,
         ReportSuccessKept, ReportFailureKept, AdapterPaysKept, AdapterRefusesKept, CrashKept
      DEF PayoutNext, ResultsWorker, Adapter
  <2> QED
    BY <2>1, <2>2
<1> QED
  BY <1>1, <1>2, PTL DEF PayoutSpec

-----------------------------------------------------------------------------
(* The payment of withdrawals keeps its state well formed, and what is     *)
(* posted to an adapter is always a withdrawal with a number of votes.     *)
THEOREM PayoutTypeCorrect == PayoutSpec => []PayoutTypeOK
<1>1. PayoutInv => PayoutTypeOK
  BY DEF PayoutInv
<1> QED
  BY <1>1, PayoutInvariance, PTL

(* Whatever goes wrong on the way (crash, lost answers, lost blocks), no   *)
(* request over the limit is paid without the net vote of two operators.   *)
THEOREM OnlyApprovedIsPaid == PayoutSpec => []PaidOnlyIfApproved
<1>1. PayoutInv => PaidOnlyIfApproved
  BY DEF PayoutInv, PaidOnlyIfApproved, ApprovedOrUntouched, Untouched
<1> QED
  BY <1>1, PayoutInvariance, PTL

(* If the adapter tells the truth and is heard, a rejected request over    *)
(* the limit is unpaid, even when the hot wallet crashes or cannot store.  *)
THEOREM RejectedStaysUnpaid == PayoutSpec => []RejectedIsUnpaid
<1>1. PayoutInv => RejectedIsUnpaid
  BY DEF PayoutInv, RejectedIsUnpaid, ApprovedOrUntouched, Untouched, Truthful
<1> QED
  BY <1>1, PayoutInvariance, PTL

(* Without faults, a Confirmed request that nothing is under way for has   *)
(* not been sent.                                                          *)
THEOREM ConfirmedStaysUnsent == PayoutSpec => []ConfirmedIsUnsent
<1>1. PayoutInv => ConfirmedIsUnsent
  <2> SUFFICES ASSUME PayoutInv, faults = {}, NEW id \in Known,
                      requests[id].currency = "BTC", requests[id].status = "Confirmed",
                      ~InFlight(id)
               PROVE  broadcasts[id] = 0
    BY DEF ConfirmedIsUnsent
  <2>1. Followed(id) /\ id \in RequestIds
    BY DEF PayoutInv, Known
  <2>2. ~Taken(id) /\ ~Reported(id)
    BY DEF InFlight, Taken, Reported, Names, Range
  <2>3. broadcasts[id] \in Nat
    BY <2>1 DEF PayoutInv, PayoutTypeOK
  <2> QED
    BY <2>1, <2>2, <2>3 DEF Followed
<1> QED
  BY <1>1, PayoutInvariance, PTL

-----------------------------------------------------------------------------
(* A settled request over the limit is out of everybody's hands.           *)
Settled(id) == OverLimit(id) /\ requests[id].status \in {"Completed", "OpRejected", "NodeRejected"}

LEMMA SettledAlone ==
    ASSUME PayoutInv, NEW id \in RequestIds, Settled(id)
    PROVE  /\ ~Queued(id) /\ ~Taken(id) /\ ~Reported(id)
           /\ \A op : ~CanConfirm(requests[id], op) /\ ~CanReject(requests[id], op)
<1>1. OneResult(id)
  BY DEF PayoutInv, Settled
<1> QED
  BY <1>1 DEF OneResult, Settled, CanConfirm, CanReject

(* Late answers, second outcomes and further votes never move a settled    *)
(* request over the limit; only a lost block takes a completed one back.   *)
THEOREM SettledForGood == PayoutSpec => SettlementIsFinal
<1> DEFINE Stays(id) == \/ requests'[id] = requests[id]
                        \/ /\ "reorg" \in faults
                           /\ requests[id].status = "Completed"
                           /\ requests'[id] = [requests[id] EXCEPT !.status = "NodeRejected"]
           Final == \A id \in RequestIds : Settled(id) => Stays(id)
<1>1. PayoutInv /\ [PayoutNext]_vars => [Final]_vars
  <2> SUFFICES ASSUME PayoutInv, PayoutNext, NEW id \in RequestIds, Settled(id)
               PROVE  Stays(id)
    BY DEF Settled
  <2>1. /\ TallyInv /\ id \in Known /\ requests[id] \in WithdrawalRequest
        /\ requests[id].n = 0
        /\ requests \in [RequestIds -> WithdrawalRequest \union {NoRequest}]
    BY DEF PayoutInv, TallyInv, TalliedRequest, TypeOK, Settled, OverLimit
  <2>2. ASSUME NEW x \in RequestIds, NEW kind \in Kinds, NEW currency \in Currencies,
               PostWithdraw(x, kind, currency)
        PROVE  Stays(id)
    BY <2>1, <2>2 DEF PostWithdraw, Create
  <2>3. ASSUME NEW x \in RequestIds, NEW op \in Operators,
               ConfirmDecision(op, x) \/ RejectDecision(op, x)
        PROVE  Stays(id)
    BY <2>1, <2>3, SettledAlone DEF ConfirmDecision, RejectDecision, Confirm, Reject
  <2>4. ASSUME NEW x \in RequestIds, CancelWithdrawalTx(x) PROVE Stays(id)
    <3>1. CASE x = id
      <4>1. [requests[id] EXCEPT !.status = "NodeRejected", !.n = 0]
              = [requests[id] EXCEPT !.status = "NodeRejected"]
        BY <2>1 DEF WithdrawalRequest
      <4> QED
        BY <2>1, <2>4, <3>1, <4>1 DEF CancelWithdrawalTx, SetStatus
    <3>2. CASE x # id
      BY <2>1, <2>4, <3>2 DEF CancelWithdrawalTx, SetStatus
    <3> QED
      BY <3>1, <3>2
  <2>5. CASE ApplySettlement
    <3>1. PICK h : h = Head(updates)
      OBVIOUS
    <3>2. updates \in Seq(Settlements) /\ updates # <<>> /\ SetStatus(h.id, h.status)
      BY <2>5, <3>1 DEF ApplySettlement, PayoutInv, PayoutTypeOK
    <3>3. Range(updates) = Range(Tail(updates)) \union {h}
      BY <3>1, <3>2, TailEntries
    <3>4. h.id # id
      BY <3>3, SettledAlone DEF Reported, Names
    <3> QED
      BY <2>1, <3>2, <3>4 DEF SetStatus
  <2>6. CASE StoreFails \/ ResultsWorker \/ Adapter \/ Crash
    BY <2>6 DEF StoreFails, ResultsWorker, TakeResult, ReportSuccess, ReportFailure,
                Adapter, AdapterPays, AdapterRefuses, Crash
  <2> QED
    BY <2>2, <2>3, <2>4, <2>5, <2>6 DEF PayoutNext
<1>2. PayoutSpec => [][Final]_vars
  BY <1>1, PayoutInvariance, PTL DEF PayoutSpec
<1> QED
  BY <1>2 DEF SettlementIsFinal, Settled

-----------------------------------------------------------------------------
(* The promise of PayoutPromise, step by step.                             *)
PaidOf(id) == IF OverLimit(id) THEN broadcasts[id] ELSE 0

SameStage(id) == StageOf(id)' = StageOf(id) /\ PaidOf(id)' = PaidOf(id)

Promised == Promise!Next \/ UNCHANGED <<[id \in RequestIds |-> StageOf(id)],
                                        [id \in RequestIds |-> PaidOf(id)]>>

(* A step of a request that does not disturb another one is, in the        *)
(* promise, a move of that request alone, or none.                         *)
LEMMA OneMoves ==
    ASSUME NEW id \in RequestIds,
           \A x \in RequestIds \ {id} : SameStage(x),
           PaidOf(id)' = PaidOf(id),
           \/ StageOf(id)' = StageOf(id)
           \/ StageOf(id) = "none" /\ StageOf(id)' = "open"
           \/ StageOf(id) = "open" /\ StageOf(id)' \in {"approved", "refused"}
           \/ StageOf(id) = "approved" /\ StageOf(id)' = "closed"
    PROVE  Promised
<1> DEFINE st == [x \in RequestIds |-> StageOf(x)]
           pd == [x \in RequestIds |-> PaidOf(x)]
<1>1. pd' = pd
  BY DEF SameStage
<1>2. st' = [st EXCEPT ![id] = StageOf(id)'] /\ st[id] = StageOf(id)
  BY DEF SameStage
<1>3. CASE StageOf(id)' = StageOf(id)
  BY <1>1, <1>3 DEF Promised, SameStage
<1>4. CASE StageOf(id)' # StageOf(id)
  <2>1. Promise!Move(id, StageOf(id), StageOf(id)')
    BY <1>1, <1>2 DEF Promise!Move, PaidOf
  <2> QED
    BY <1>4, <2>1 DEF Promised, Promise!Next, Promise!Open, Promise!Approve,
                      Promise!Refuse, Promise!Close
<1> QED
  BY <1>3, <1>4

LEMMA NoneMoves ==
    ASSUME \A x \in RequestIds : SameStage(x)
    PROVE  Promised
  BY DEF Promised, SameStage

LEMMA OnePays ==
    ASSUME NEW id \in RequestIds,
           \A x \in RequestIds \ {id} : SameStage(x),
           StageOf(id)' = StageOf(id), StageOf(id) \in {"approved", "closed"},
           PaidOf(id) = 0, PaidOf(id)' = 1
    PROVE  Promised
<1>1. Promise!Pay(id)
  BY DEF SameStage, PaidOf, Promise!Pay
<1> QED
  BY <1>1 DEF Promised, Promise!Next

LEMMA SameRequest ==
    ASSUME NEW id \in RequestIds, requests'[id] = requests[id],
           broadcasts'[id] = broadcasts[id]
    PROVE  SameStage(id)
  BY DEF SameStage, StageOf, PaidOf, OverLimit, Known

(* No request over the limit is paid twice or before it is approved, and   *)
(* none is decided or closed twice, whatever faults there are: each step   *)
(* of the three tasks and the adapter is a step of the promise or none.    *)
THEOREM PayoutKeepsPromise == PayoutSpec => KeepsPromise
<1>1. PayoutInit => Promise!Init
  BY DEF PayoutInit, Init, Promise!Init, StageOf, OverLimit, Known
<1>2. PayoutInv /\ PayoutInv' /\ [PayoutNext]_vars => Promised
  <2> SUFFICES ASSUME PayoutInv, PayoutInv', [PayoutNext]_vars PROVE Promised
    OBVIOUS
  <2>1. /\ requests \in [RequestIds -> WithdrawalRequest \union {NoRequest}]
        /\ broadcasts \in [RequestIds -> Nat]
        /\ \A x \in RequestIds : Kept(x)
    BY PayoutInvParts DEF PayoutTypeOK, TypeOK
  <2>2. CASE UNCHANGED <<requests, broadcasts>>
    BY <2>2, SameRequest, NoneMoves
  <2>3. ASSUME NEW id \in RequestIds, NEW kind \in Kinds, NEW currency \in Currencies,
               PostWithdraw(id, kind, currency)
        PROVE  Promised
    <3>1. \A x \in RequestIds \ {id} : SameStage(x)
      BY <2>1, <2>3, SameRequest DEF PostWithdraw, Create
    <3>2. requests'[id] = Fresh(kind, currency) /\ ~OverLimit(id) /\ broadcasts'[id] = 0
      BY <2>1, <2>3 DEF PostWithdraw, Create, OverLimit, Kept, Untouched
    <3>3. StageOf(id) = "none" /\ StageOf(id)' \in {"none", "open"}
      BY <3>2 DEF StageOf, OverLimit, Fresh
    <3>4. PaidOf(id)' = PaidOf(id)
      BY <3>2 DEF PaidOf
    <3> QED
      BY <3>1, <3>3, <3>4, OneMoves
  <2>4. ASSUME NEW id \in RequestIds, NEW op \in Operators,
               ConfirmDecision(op, id) \/ RejectDecision(op, id)
        PROVE  Promised
    <3>1. /\ id \in Known /\ requests[id].status = "InProgress"
          /\ requests[id] \in WithdrawalRequest
          /\ \/ requests' = [requests EXCEPT ![id] = WithConfirmation(requests[id], op)]
             \/ requests' = [requests EXCEPT ![id] = WithRejection(requests[id], op)]
          /\ broadcasts' = broadcasts
      BY <2>1, <2>4 DEF ConfirmDecision, RejectDecision, Confirm, Reject, CanConfirm, CanReject,
                        Known, pipeline
    <3>2. \A x \in RequestIds \ {id} : SameStage(x)
      BY <2>1, <3>1, SameRequest
    <3>3. /\ requests'[id].kind = requests[id].kind
          /\ requests'[id].status \in {"InProgress", "Confirmed", "OpRejected"}
      BY <2>1, <3>1, VoteFields
    <3>4. id \in Known'
      <4>1. TalliedRequest(requests'[id])
        BY <2>1, <2>4, <3>1, PayoutInvParts, ConfirmationTallied, RejectionTallied
        DEF TallyInv, ConfirmDecision, RejectDecision, Confirm, Reject
      <4> QED
        BY <3>1, <4>1, NoRequestIsNone DEF TalliedRequest, Known
    <3>5. PaidOf(id)' = PaidOf(id)
      BY <3>1, <3>3, <3>4 DEF PaidOf, OverLimit
    <3>6. \/ StageOf(id)' = StageOf(id)
          \/ StageOf(id) = "open" /\ StageOf(id)' \in {"approved", "refused"}
      BY <3>1, <3>3, <3>4 DEF StageOf, OverLimit
    <3> QED
      BY <3>2, <3>5, <3>6, OneMoves
  <2>5. ASSUME NEW id \in RequestIds, NEW status \in {"Completed", "NodeRejected"},
               SetStatus(id, status), broadcasts' = broadcasts,
               OverLimit(id) => requests[id].status \in {"Confirmed", "Completed"}
        PROVE  Promised
    <3>1. /\ Known' = Known
          /\ \A x \in Known : requests'[x].kind = requests[x].kind
          /\ \A x \in RequestIds \ {id} : requests'[x] = requests[x]
          /\ id \in Known => requests'[id].status = status
      BY <2>5, SetStatusTallied, PayoutInvParts
    <3>2. \A x \in RequestIds \ {id} : SameStage(x)
      BY <2>5, <3>1, SameRequest
    <3>3. OverLimit(id)' <=> OverLimit(id)
      BY <3>1 DEF OverLimit
    <3>4. PaidOf(id)' = PaidOf(id)
      BY <2>5, <3>3 DEF PaidOf
    <3>5. \/ StageOf(id)' = StageOf(id)
          \/ StageOf(id) = "approved" /\ StageOf(id)' = "closed"
      BY <2>5, <3>1, <3>3 DEF StageOf, OverLimit
    <3> QED
      BY <3>2, <3>4, <3>5, OneMoves
  <2>6. ASSUME NEW id \in RequestIds, CancelWithdrawalTx(id) PROVE Promised
    BY <2>5, <2>6 DEF CancelWithdrawalTx, pipeline
  <2>7. CASE ApplySettlement
    <3>1. PICK h : h = Head(updates)
      OBVIOUS
    <3>2. /\ updates \in Seq(Settlements) /\ updates # <<>> /\ SetStatus(h.id, h.status)
          /\ broadcasts' = broadcasts
      BY <2>7, <3>1 DEF ApplySettlement, PayoutInv, PayoutTypeOK
    <3>3. h \in Settlements /\ Range(updates) = Range(Tail(updates)) \union {h}
      BY <3>1, <3>2, TailEntries
    <3>4. OverLimit(h.id) => requests[h.id].status = "Confirmed"
      BY <2>1, <3>3 DEF Kept, OneResult, Reported, Names, Settlements
    <3> QED
      BY <2>5, <3>2, <3>3, <3>4 DEF Settlements
  <2>8. ASSUME NEW cw \in posted, AdapterPays(cw) PROVE Promised
    <3>0. PICK id : id = cw.id
      OBVIOUS
    <3>1. id \in RequestIds /\ Posted(id)
      BY <3>0, PayoutInvParts DEF PayoutTypeOK, ConfirmedWithdrawal, Posted, Names
    <3>2. requests' = requests /\ broadcasts' = [broadcasts EXCEPT ![id] = @ + 1]
      BY <2>8, <3>0 DEF AdapterPays
    <3>3. \A x \in RequestIds \ {id} : SameStage(x)
      BY <2>1, <3>2, SameRequest
    <3>4. StageOf(id)' = StageOf(id) /\ (OverLimit(id)' <=> OverLimit(id))
      BY <3>2 DEF StageOf, OverLimit, Known
    <3>5. CASE ~OverLimit(id)
      BY <3>1, <3>3, <3>4, <3>5, OneMoves DEF PaidOf
    <3>6. CASE OverLimit(id)
      <4>1. broadcasts[id] = 0 /\ requests[id].status \notin {"InProgress", "OpRejected"}
        BY <2>1, <3>1, <3>6 DEF Kept, OnePayment, ApprovedOrUntouched, Untouched
      <4>2. StageOf(id) \in {"approved", "closed"}
        BY <3>6, <4>1 DEF StageOf
      <4>3. PaidOf(id) = 0 /\ PaidOf(id)' = 1
        BY <2>1, <3>1, <3>2, <3>4, <3>6, <4>1 DEF PaidOf
      <4> QED
        BY <3>1, <3>3, <3>4, <4>2, <4>3, OnePays
    <3> QED
      BY <3>5, <3>6
  <2>9. CASE PayoutNext
    <3>1. ASSUME StoreFails \/ ResultsWorker \/ Crash \/ \E cw \in posted : AdapterRefuses(cw)
          PROVE  UNCHANGED <<requests, broadcasts>>
      BY <3>1 DEF StoreFails, ResultsWorker, TakeResult, ReportSuccess, ReportFailure,
                  AdapterRefuses, Crash
    <3> QED
      BY <2>2, <2>3, <2>4, <2>6, <2>7, <2>8, <2>9, <3>1 DEF PayoutNext, Adapter
  <2> QED
    BY <2>2, <2>9 DEF vars, state, pipeline
<1> QED
  BY <1>1, <1>2, PayoutInvariance, PTL
  DEF PayoutSpec, KeepsPromise, Promise!Spec, Promised, PaidOf
=============================================================================
