-------------------------- MODULE WithdrawalProofs --------------------------
(***************************************************************************)
(* The vote on withdrawal requests, for every set of operators and of      *)
(* requests: the tally is the net vote, and decisions have their quorum.   *)
(* Then the table of updates the requests are rebuilt from, for every      *)
(* number of updates and handlers: what collect computes, when it gives    *)
(* the state that is current, and what holds of the state it gives when it *)
(* does not.                                                               *)
(***************************************************************************)
EXTENDS EventLog, FiniteSetTheorems, WellFoundedInduction, TLAPS

(* Requests stay requests when a decision list, the status or the number   *)
(* of a request is replaced, one at a time: the shape of the updates made  *)
(* by with_withdrawal_request_decision.                                    *)
LEMMA FieldUpdates ==
    ASSUME NEW r \in WithdrawalRequest
    PROVE  /\ \A S \in SUBSET Operators : [r EXCEPT !.confirmations = S] \in WithdrawalRequest
           /\ \A S \in SUBSET Operators : [r EXCEPT !.rejections = S] \in WithdrawalRequest
           /\ \A st \in WithdrawalRequestStatus : [r EXCEPT !.status = st] \in WithdrawalRequest
           /\ \A k \in Int : [r EXCEPT !.n = k] \in WithdrawalRequest
<1>1. \A S \in SUBSET Operators : [r EXCEPT !.confirmations = S] \in WithdrawalRequest
  BY DEF WithdrawalRequest
<1>2. \A S \in SUBSET Operators : [r EXCEPT !.rejections = S] \in WithdrawalRequest
  BY DEF WithdrawalRequest
<1>3. \A st \in WithdrawalRequestStatus : [r EXCEPT !.status = st] \in WithdrawalRequest
  BY DEF WithdrawalRequest
<1>4. \A k \in Int : [r EXCEPT !.n = k] \in WithdrawalRequest
  BY DEF WithdrawalRequest
<1> QED
  BY <1>1, <1>2, <1>3, <1>4

(* A vote moves the net vote by its weight: by one when it is new, by two  *)
(* when the operator changes sides.                                        *)
LEMMA ConfirmationWeighs ==
    ASSUME NEW r \in WithdrawalRequest, NEW op \in Operators,
           r.confirmations \intersect r.rejections = {},
           op \notin r.confirmations
    PROVE  /\ Net(r) \in Int
           /\ Net(WithConfirmation(r, op)) = Net(r) + ConfirmWeight(r, op)
           /\ Net(WithConfirmation(r, op)) <= Cardinality(WithConfirmation(r, op).confirmations)
<1> DEFINE c == r.confirmations
           j == r.rejections
<1>1. IsFiniteSet(c) /\ IsFiniteSet(j)
  BY FS_Subset, WithdrawalConstants DEF WithdrawalRequest
<1>2. /\ Cardinality(c) \in Nat /\ Cardinality(j) \in Nat
      /\ Cardinality(c \union {op}) = Cardinality(c) + 1
      /\ Cardinality(j \ {op}) = IF op \in j THEN Cardinality(j) - 1 ELSE Cardinality(j)
      /\ Cardinality(j \ {op}) \in Nat
  BY <1>1, FS_CardinalityType, FS_AddElement, FS_RemoveElement
<1>3. /\ WithConfirmation(r, op).confirmations = c \union {op}
      /\ WithConfirmation(r, op).rejections = j \ {op}
  BY DEF WithConfirmation, WithdrawalRequest
<1> QED
  BY <1>2, <1>3 DEF Net, ConfirmWeight

LEMMA RejectionWeighs ==
    ASSUME NEW r \in WithdrawalRequest, NEW op \in Operators,
           r.confirmations \intersect r.rejections = {},
           op \notin r.rejections
    PROVE  /\ Net(r) \in Int
           /\ Net(WithRejection(r, op)) = Net(r) - RejectWeight(r, op)
           /\ -Net(WithRejection(r, op)) <= Cardinality(WithRejection(r, op).rejections)
<1> DEFINE c == r.confirmations
           j == r.rejections
<1>1. IsFiniteSet(c) /\ IsFiniteSet(j)
  BY FS_Subset, WithdrawalConstants DEF WithdrawalRequest
<1>2. /\ Cardinality(c) \in Nat /\ Cardinality(j) \in Nat
      /\ Cardinality(j \union {op}) = Cardinality(j) + 1
      /\ Cardinality(c \ {op}) = IF op \in c THEN Cardinality(c) - 1 ELSE Cardinality(c)
      /\ Cardinality(c \ {op}) \in Nat
  BY <1>1, FS_CardinalityType, FS_AddElement, FS_RemoveElement
<1>3. /\ WithRejection(r, op).confirmations = c \ {op}
      /\ WithRejection(r, op).rejections = j \union {op}
  BY DEF WithRejection, WithdrawalRequest
<1> QED
  BY <1>2, <1>3 DEF Net, RejectWeight

-----------------------------------------------------------------------------
(* What holds of one request, for all of them: TypeOK, TallyIsNetVote and  *)
(* DecidedByQuorum request by request.                                     *)
TalliedRequest(r) ==
    /\ r \in WithdrawalRequest
    /\ r.confirmations \intersect r.rejections = {}
    /\ r.status = "InProgress" => r.n = Net(r)
    /\ r.status = "Confirmed"  => /\ Net(r) = REQUIRED_NUMBER_OF_CONFIRMATIONS
                                  /\ Cardinality(r.confirmations) >= 2
    /\ r.status = "OpRejected" => /\ Net(r) = -REQUIRED_NUMBER_OF_CONFIRMATIONS
                                  /\ Cardinality(r.rejections) >= 2

TallyInv ==
    /\ TypeOK
    /\ \A id \in Known : TalliedRequest(requests[id])

LEMMA FreshTallied ==
    ASSUME NEW kind \in Kinds, NEW currency \in Currencies
    PROVE  TalliedRequest(Fresh(kind, currency))
  BY FS_EmptySet
  DEF TalliedRequest, Fresh, WithdrawalRequest, WithdrawalRequestStatus, Net

LEMMA ConfirmationTallied ==
    ASSUME NEW r, TalliedRequest(r), NEW op \in Operators, CanConfirm(r, op)
    PROVE  TalliedRequest(WithConfirmation(r, op))
<1> DEFINE s == WithConfirmation(r, op)
<1>1. /\ r \in WithdrawalRequest
      /\ r.n \in Int /\ r.n = Net(r)
      /\ ConfirmWeight(r, op) \in {1, 2}
  BY DEF TalliedRequest, CanConfirm, WithdrawalRequest, ConfirmWeight
<1>2. /\ Net(s) = r.n + ConfirmWeight(r, op)
      /\ Net(s) <= Cardinality(s.confirmations)
  BY <1>1, ConfirmationWeighs DEF TalliedRequest, CanConfirm
<1>3. /\ s \in WithdrawalRequest
      /\ s.confirmations \intersect s.rejections = {}
      /\ s.status = IF Confirms(r, op) THEN "Confirmed" ELSE "InProgress"
      /\ s.n = IF Confirms(r, op) THEN 0 ELSE r.n + ConfirmWeight(r, op)
  <2>1. /\ r.status = "InProgress"
        /\ r.confirmations \in SUBSET Operators
        /\ r.rejections \in SUBSET Operators
        /\ r.confirmations \intersect r.rejections = {}
    BY <1>1 DEF TalliedRequest, CanConfirm, WithdrawalRequest
  <2>2. r.n + ConfirmWeight(r, op) \in Int
    BY <1>1
  <2>3. s \in WithdrawalRequest
    <3> DEFINE st == IF Confirms(r, op) THEN "Confirmed" ELSE r.status
               k  == IF Confirms(r, op) THEN 0 ELSE r.n + ConfirmWeight(r, op)
               a  == [r EXCEPT !.confirmations = @ \union {op}]
               b  == [a EXCEPT !.rejections = r.rejections \ {op}]
               d  == [b EXCEPT !.status = st]
    <3>1. st \in WithdrawalRequestStatus /\ k \in Int
      BY <2>1, <2>2 DEF WithdrawalRequestStatus
    <3>2. a \in WithdrawalRequest
      BY <1>1, <2>1, FieldUpdates
    <3>3. b \in WithdrawalRequest
      BY <2>1, <3>2, FieldUpdates
    <3>4. d \in WithdrawalRequest
      BY <3>1, <3>3, FieldUpdates
    <3>5. [d EXCEPT !.n = k] \in WithdrawalRequest
      BY <3>1, <3>4, FieldUpdates
    <3> QED
      BY <3>5 DEF WithConfirmation
  <2> QED
    BY <1>1, <2>1, <2>3 DEF WithConfirmation, WithdrawalRequest
<1>4. CASE Confirms(r, op)
  <2>1. IsFiniteSet(s.confirmations)
    BY <1>3, FS_Subset, WithdrawalConstants DEF WithdrawalRequest
  <2>2. Cardinality(s.confirmations) \in Nat
    BY <2>1, FS_CardinalityType
  <2> QED
    BY <1>1, <1>2, <1>3, <1>4, <2>2
    DEF TalliedRequest, Confirms, REQUIRED_NUMBER_OF_CONFIRMATIONS
<1>5. CASE ~Confirms(r, op)
  BY <1>2, <1>3, <1>5 DEF TalliedRequest
<1> QED
  BY <1>4, <1>5

LEMMA RejectionTallied ==
    ASSUME NEW r, TalliedRequest(r), NEW op \in Operators, CanReject(r, op)
    PROVE  TalliedRequest(WithRejection(r, op))
<1> DEFINE s == WithRejection(r, op)
<1>1. /\ r \in WithdrawalRequest
      /\ r.n \in Int /\ r.n = Net(r)
      /\ RejectWeight(r, op) \in {1, 2}
  BY DEF TalliedRequest, CanReject, WithdrawalRequest, RejectWeight
<1>2. /\ Net(s) = r.n - RejectWeight(r, op)
      /\ -Net(s) <= Cardinality(s.rejections)
  BY <1>1, RejectionWeighs DEF TalliedRequest, CanReject
<1>3. /\ s \in WithdrawalRequest
      /\ s.confirmations \intersect s.rejections = {}
      /\ s.status = IF Rejects(r, op) THEN "OpRejected" ELSE "InProgress"
      /\ s.n = IF Rejects(r, op) THEN 0 ELSE r.n - RejectWeight(r, op)
  <2>1. /\ r.status = "InProgress"
        /\ r.confirmations \in SUBSET Operators
        /\ r.rejections \in SUBSET Operators
        /\ r.confirmations \intersect r.rejections = {}
    BY <1>1 DEF TalliedRequest, CanReject, WithdrawalRequest
  <2>2. r.n - RejectWeight(r, op) \in Int
    BY <1>1
  <2>3. s \in WithdrawalRequest
    <3> DEFINE st == IF Rejects(r, op) THEN "OpRejected" ELSE r.status
               k  == IF Rejects(r, op) THEN 0 ELSE r.n - RejectWeight(r, op)
               a  == [r EXCEPT !.rejections = @ \union {op}]
               b  == [a EXCEPT !.confirmations = r.confirmations \ {op}]
               d  == [b EXCEPT !.status = st]
    <3>1. st \in WithdrawalRequestStatus /\ k \in Int
      BY <2>1, <2>2 DEF WithdrawalRequestStatus
    <3>2. a \in WithdrawalRequest
      BY <1>1, <2>1, FieldUpdates
    <3>3. b \in WithdrawalRequest
      BY <2>1, <3>2, FieldUpdates
    <3>4. d \in WithdrawalRequest
      BY <3>1, <3>3, FieldUpdates
    <3>5. [d EXCEPT !.n = k] \in WithdrawalRequest
      BY <3>1, <3>4, FieldUpdates
    <3> QED
      BY <3>5 DEF WithRejection
  <2> QED
    BY <1>1, <2>1, <2>3 DEF WithRejection, WithdrawalRequest
<1>4. CASE Rejects(r, op)
  <2>1. IsFiniteSet(s.rejections)
    BY <1>3, FS_Subset, WithdrawalConstants DEF WithdrawalRequest
  <2>2. Cardinality(s.rejections) \in Nat
    BY <2>1, FS_CardinalityType
  <2> QED
    BY <1>1, <1>2, <1>3, <1>4, <2>2
    DEF TalliedRequest, Rejects, REQUIRED_NUMBER_OF_CONFIRMATIONS
<1>5. CASE ~Rejects(r, op)
  BY <1>2, <1>3, <1>5 DEF TalliedRequest
<1> QED
  BY <1>4, <1>5

-----------------------------------------------------------------------------
(* Every update of the vote keeps the tally.                               *)
LEMMA CreateTallied ==
    ASSUME TallyInv, NEW id \in RequestIds, NEW kind \in Kinds,
           NEW currency \in Currencies, Create(id, kind, currency)
    PROVE  TallyInv'
<1>1. TalliedRequest(Fresh(kind, currency)) /\ Fresh(kind, currency) \in WithdrawalRequest
  BY FreshTallied DEF TalliedRequest
<1> QED
  BY <1>1 DEF TallyInv, TypeOK, Known, Create

LEMMA ConfirmTallied ==
    ASSUME TallyInv, NEW id \in RequestIds, NEW op \in Operators, Confirm(op, id)
    PROVE  TallyInv'
<1>1. TalliedRequest(WithConfirmation(requests[id], op))
  BY ConfirmationTallied DEF TallyInv, Confirm
<1>2. WithConfirmation(requests[id], op) \in WithdrawalRequest
  BY <1>1 DEF TalliedRequest
<1> QED
  BY <1>1, <1>2 DEF TallyInv, TypeOK, Known, Confirm

LEMMA RejectTallied ==
    ASSUME TallyInv, NEW id \in RequestIds, NEW op \in Operators, Reject(op, id)
    PROVE  TallyInv'
<1>1. TalliedRequest(WithRejection(requests[id], op))
  BY RejectionTallied DEF TallyInv, Reject
<1>2. WithRejection(requests[id], op) \in WithdrawalRequest
  BY <1>1 DEF TalliedRequest
<1> QED
  BY <1>1, <1>2 DEF TallyInv, TypeOK, Known, Reject

LEMMA TallyInvariance == Spec => []TallyInv
<1>1. Init => TallyInv
  BY DEF Init, TallyInv, TypeOK, Known
<1>2. TallyInv /\ [Next]_requests => TallyInv'
  <2> SUFFICES ASSUME TallyInv, [Next]_requests PROVE TallyInv'
    OBVIOUS
  <2>1. CASE UNCHANGED requests
    BY <2>1 DEF TallyInv, TypeOK, Known
  <2>2. CASE Next
    BY <2>2, CreateTallied, ConfirmTallied, RejectTallied DEF Next
  <2> QED
    BY <2>1, <2>2
<1> QED
  BY <1>1, <1>2, PTL DEF Spec

(* The vote keeps every request well formed.                               *)
THEOREM VoteTypeCorrect == Spec => []TypeOK
<1>1. TallyInv => TypeOK
  BY DEF TallyInv
<1> QED
  BY <1>1, TallyInvariance, PTL

(* InProgress(n) always carries confirmations minus rejections, and no     *)
(* operator is in both lists.                                              *)
THEOREM TallyCorrect == Spec => []TallyIsNetVote
<1>1. TallyInv => TallyIsNetVote
  BY DEF TallyInv, TalliedRequest, TallyIsNetVote
<1> QED
  BY <1>1, TallyInvariance, PTL

(* Whoever votes and however often operators change sides, a request is    *)
(* Confirmed or OpRejected on a net vote of two.                           *)
THEOREM QuorumCorrect == Spec => []DecidedByQuorum
<1>1. TallyInv => DecidedByQuorum
  BY DEF TallyInv, TalliedRequest, DecidedByQuorum
<1> QED
  BY <1>1, TallyInvariance, PTL

-----------------------------------------------------------------------------
(* What DecidedAtThreshold asks of one request.                            *)
FewVotes(r) ==
    r.status = "InProgress" /\ Cardinality(r.confirmations \union r.rejections) <= 2
      => /\ Net(r) < REQUIRED_NUMBER_OF_CONFIRMATIONS
         /\ Net(r) > -REQUIRED_NUMBER_OF_CONFIRMATIONS

(* The two lists of decisions together hold every operator who voted.      *)
LEMMA VotersCounted ==
    ASSUME NEW r \in WithdrawalRequest, r.confirmations \intersect r.rejections = {}
    PROVE  /\ Cardinality(r.confirmations) \in Nat
           /\ Cardinality(r.rejections) \in Nat
           /\ Cardinality(r.confirmations \union r.rejections)
                = Cardinality(r.confirmations) + Cardinality(r.rejections)
           /\ \A op \in r.confirmations : Cardinality(r.confirmations) >= 1
           /\ \A op \in r.rejections : Cardinality(r.rejections) >= 1
<1>1. IsFiniteSet(r.confirmations) /\ IsFiniteSet(r.rejections)
  BY FS_Subset, WithdrawalConstants DEF WithdrawalRequest
<1>2. Cardinality({}) = 0
  BY FS_EmptySet
<1>3. Cardinality(r.confirmations) \in Nat /\ Cardinality(r.rejections) \in Nat
  BY <1>1, FS_CardinalityType
<1>4. Cardinality(r.confirmations \union r.rejections)
        = Cardinality(r.confirmations) + Cardinality(r.rejections)
  <2>1. Cardinality(r.confirmations \union r.rejections)
          = Cardinality(r.confirmations) + Cardinality(r.rejections)
            - Cardinality(r.confirmations \intersect r.rejections)
    BY <1>1, FS_Union
  <2>2. Cardinality(r.confirmations \intersect r.rejections) = 0
    BY <1>2
  <2> QED
    BY <1>3, <2>1, <2>2
<1>5. (\A op \in r.confirmations : Cardinality(r.confirmations) # 0)
      /\ (\A op \in r.rejections : Cardinality(r.rejections) # 0)
  BY <1>1, FS_EmptySet
<1> QED
  BY <1>3, <1>4, <1>5

(* Two voters cannot carry the tally past the required number: to weigh 2  *)
(* the operator must have been on the other side.                          *)
LEMMA ConfirmationFew ==
    ASSUME NEW r, TalliedRequest(r), FewVotes(r), NEW op \in Operators, CanConfirm(r, op)
    PROVE  FewVotes(WithConfirmation(r, op))
<1> DEFINE s == WithConfirmation(r, op)
           c == Cardinality(r.confirmations)
           j == Cardinality(r.rejections)
<1> SUFFICES ASSUME s.status = "InProgress",
                    Cardinality(s.confirmations \union s.rejections) <= 2
             PROVE  /\ Net(s) < REQUIRED_NUMBER_OF_CONFIRMATIONS
                    /\ Net(s) > -REQUIRED_NUMBER_OF_CONFIRMATIONS
  BY DEF FewVotes
<1>1. /\ r \in WithdrawalRequest /\ r.confirmations \intersect r.rejections = {}
      /\ r.status = "InProgress" /\ op \notin r.confirmations /\ r.n = Net(r)
  BY DEF TalliedRequest, CanConfirm
<1>2. /\ s.confirmations = r.confirmations \union {op}
      /\ s.rejections = r.rejections \ {op}
      /\ s.status = IF Confirms(r, op) THEN "Confirmed" ELSE "InProgress"
  BY <1>1 DEF WithConfirmation, WithdrawalRequest
<1>3. /\ c \in Nat /\ j \in Nat /\ Net(r) = c - j
      /\ op \in r.rejections => j >= 1
      /\ Cardinality(r.confirmations \union r.rejections) = c + j
  BY <1>1, VotersCounted DEF Net
<1>4. Net(s) = Net(r) + ConfirmWeight(r, op)
  BY <1>1, ConfirmationWeighs
<1>5. ~Confirms(r, op)
  BY <1>2
<1>6. s \in WithdrawalRequest /\ s.confirmations \intersect s.rejections = {}
  BY ConfirmationTallied DEF TalliedRequest
<1>7. c + j <= 2
  <2>1. r.confirmations \union r.rejections \subseteq s.confirmations \union s.rejections
    BY <1>2
  <2>2. IsFiniteSet(s.confirmations \union s.rejections)
    BY <1>6, FS_Subset, FS_Union, WithdrawalConstants DEF WithdrawalRequest
  <2>3. Cardinality(s.confirmations \union s.rejections) \in Nat
    BY <2>2, FS_CardinalityType
  <2>4. Cardinality(r.confirmations \union r.rejections)
          <= Cardinality(s.confirmations \union s.rejections)
    BY <2>1, <2>2, FS_Subset
  <2> QED
    BY <1>3, <2>3, <2>4
<1>8. Net(r) < REQUIRED_NUMBER_OF_CONFIRMATIONS /\ Net(r) > -REQUIRED_NUMBER_OF_CONFIRMATIONS
  BY <1>1, <1>3, <1>7 DEF FewVotes
<1> QED
  BY <1>1, <1>3, <1>4, <1>5, <1>7, <1>8
  DEF Confirms, ConfirmWeight, REQUIRED_NUMBER_OF_CONFIRMATIONS

LEMMA RejectionFew ==
    ASSUME NEW r, TalliedRequest(r), FewVotes(r), NEW op \in Operators, CanReject(r, op)
    PROVE  FewVotes(WithRejection(r, op))
<1> DEFINE s == WithRejection(r, op)
           c == Cardinality(r.confirmations)
           j == Cardinality(r.rejections)
<1> SUFFICES ASSUME s.status = "InProgress",
                    Cardinality(s.confirmations \union s.rejections) <= 2
             PROVE  /\ Net(s) < REQUIRED_NUMBER_OF_CONFIRMATIONS
                    /\ Net(s) > -REQUIRED_NUMBER_OF_CONFIRMATIONS
  BY DEF FewVotes
<1>1. /\ r \in WithdrawalRequest /\ r.confirmations \intersect r.rejections = {}
      /\ r.status = "InProgress" /\ op \notin r.rejections /\ r.n = Net(r)
  BY DEF TalliedRequest, CanReject
<1>2. /\ s.confirmations = r.confirmations \ {op}
      /\ s.rejections = r.rejections \union {op}
      /\ s.status = IF Rejects(r, op) THEN "OpRejected" ELSE "InProgress"
  BY <1>1 DEF WithRejection, WithdrawalRequest
<1>3. /\ c \in Nat /\ j \in Nat /\ Net(r) = c - j
      /\ op \in r.confirmations => c >= 1
      /\ Cardinality(r.confirmations \union r.rejections) = c + j
  BY <1>1, VotersCounted DEF Net
<1>4. Net(s) = Net(r) - RejectWeight(r, op)
  BY <1>1, RejectionWeighs
<1>5. ~Rejects(r, op)
  BY <1>2
<1>6. s \in WithdrawalRequest /\ s.confirmations \intersect s.rejections = {}
  BY RejectionTallied DEF TalliedRequest
<1>7. c + j <= 2
  <2>1. r.confirmations \union r.rejections \subseteq s.confirmations \union s.rejections
    BY <1>2
  <2>2. IsFiniteSet(s.confirmations \union s.rejections)
    BY <1>6, FS_Subset, FS_Union, WithdrawalConstants DEF WithdrawalRequest
  <2>3. Cardinality(s.confirmations \union s.rejections) \in Nat
    BY <2>2, FS_CardinalityType
  <2>4. Cardinality(r.confirmations \union r.rejections)
          <= Cardinality(s.confirmations \union s.rejections)
    BY <2>1, <2>2, FS_Subset
  <2> QED
    BY <1>3, <2>3, <2>4
<1>8. Net(r) < REQUIRED_NUMBER_OF_CONFIRMATIONS /\ Net(r) > -REQUIRED_NUMBER_OF_CONFIRMATIONS
  BY <1>1, <1>3, <1>7 DEF FewVotes
<1> QED
  BY <1>1, <1>3, <1>4, <1>5, <1>7, <1>8
  DEF Rejects, RejectWeight, REQUIRED_NUMBER_OF_CONFIRMATIONS

(* With at most two voters, a request that has its two net votes is        *)
(* decided: none is stuck InProgress at or past the required number.       *)
THEOREM ThresholdCorrect == Spec => []DecidedAtThreshold
<1> DEFINE Few == \A id \in Known : FewVotes(requests[id])
<1>1. Init => Few
  BY DEF Init, Known
<1>2. TallyInv /\ Few /\ [Next]_requests => Few'
  <2> SUFFICES ASSUME TallyInv, Few, [Next]_requests PROVE Few'
    OBVIOUS
  <2>1. CASE UNCHANGED requests
    BY <2>1 DEF Known
  <2>2. ASSUME NEW id \in RequestIds, NEW kind \in Kinds, NEW currency \in Currencies,
               Create(id, kind, currency)
        PROVE  Few'
    <3>1. FewVotes(Fresh(kind, currency))
      BY FS_EmptySet DEF FewVotes, Fresh, Net, REQUIRED_NUMBER_OF_CONFIRMATIONS
    <3> QED
      BY <2>2, <3>1 DEF Create, TallyInv, TypeOK, Known
  <2>3. ASSUME NEW id \in RequestIds, NEW op \in Operators, Confirm(op, id) PROVE Few'
    <3>1. FewVotes(WithConfirmation(requests[id], op))
      BY <2>3, ConfirmationFew DEF Confirm, TallyInv
    <3> QED
      BY <2>3, <3>1 DEF Confirm, TallyInv, TypeOK, Known
  <2>4. ASSUME NEW id \in RequestIds, NEW op \in Operators, Reject(op, id) PROVE Few'
    <3>1. FewVotes(WithRejection(requests[id], op))
      BY <2>4, RejectionFew DEF Reject, TallyInv
    <3> QED
      BY <2>4, <3>1 DEF Reject, TallyInv, TypeOK, Known
  <2> QED
    BY <2>1, <2>2, <2>3, <2>4 DEF Next
<1>3. Few => DecidedAtThreshold
  BY DEF FewVotes, DecidedAtThreshold
<1> QED
  BY <1>1, <1>2, <1>3, TallyInvariance, PTL DEF Spec

-----------------------------------------------------------------------------
(* Every non-empty set of numbers has a least one.                         *)
LEMMA LeastOf == \A T \in SUBSET Nat : T # {} => \E x \in T : \A y \in T : x <= y
<1> SUFFICES ASSUME NEW T \in SUBSET Nat, T # {} PROVE \E x \in T : \A y \in T : x <= y
  OBVIOUS
<1>1. PICK x \in T : \A y \in T : ~ (<<y, x>> \in OpToRel(<, Nat))
  BY NatLessThanWellFounded, WFMin
<1>2. \A y \in T : ~ (y < x)
  BY <1>1 DEF OpToRel
<1> QED
  BY <1>2

-----------------------------------------------------------------------------
(* The states collect goes through over the first k rows.                  *)
NoRequests == [id \in RequestIds |-> NoRequest]

IsReplay(f, rows, k) ==
    f = [n \in 0..k |-> IF n = 0 THEN NoRequests ELSE Replayed(f[n - 1], rows[n])]

LEMMA ReplayExists ==
    ASSUME NEW rows
    PROVE  \A k \in Nat : \E f : IsReplay(f, rows, k)
<1> DEFINE T == { k \in Nat : ~\E f : IsReplay(f, rows, k) }
<1> SUFFICES ASSUME T # {} PROVE FALSE
  OBVIOUS
<1>1. PICK k \in T : \A m \in T : k <= m
  BY LeastOf
<1>2. k \in Nat /\ ~\E f : IsReplay(f, rows, k)
  OBVIOUS
<1>3. CASE k = 0
  <2> DEFINE f == [n \in 0..0 |-> NoRequests]
  <2>1. f = [n \in 0..0 |-> IF n = 0 THEN NoRequests ELSE Replayed(f[n - 1], rows[n])]
    OBVIOUS
  <2> QED
    BY <1>2, <1>3, <2>1 DEF IsReplay
<1>4. CASE k # 0
  <2>1. k - 1 \in Nat /\ k - 1 \notin T
    BY <1>1, <1>2, <1>4
  <2>2. PICK g : IsReplay(g, rows, k - 1)
    BY <2>1
  <2> DEFINE f == [n \in 0..k |-> IF n = k THEN Replayed(g[k - 1], rows[k]) ELSE g[n]]
             h == [n \in 0..k |-> IF n = 0 THEN NoRequests ELSE Replayed(f[n - 1], rows[n])]
  <2>3. ASSUME NEW n \in 0..k PROVE f[n] = h[n]
    <3>1. CASE n = k
      <4>1. f[k - 1] = g[k - 1]
        BY <2>1
      <4> QED
        BY <1>4, <3>1, <4>1
    <3>2. CASE n # k
      <4>1. n \in 0..(k - 1)
        BY <1>2, <3>2
      <4>2. g[n] = IF n = 0 THEN NoRequests ELSE Replayed(g[n - 1], rows[n])
        BY <2>2, <4>1 DEF IsReplay
      <4>3. n # 0 => n - 1 \in 0..k /\ n - 1 # k /\ f[n - 1] = g[n - 1]
        BY <1>2, <4>1
      <4> QED
        BY <3>2, <4>2, <4>3
    <3> QED
      BY <3>1, <3>2
  <2>4. f = h
    BY <2>3
  <2> HIDE DEF f
  <2>5. IsReplay(f, rows, k)
    BY <2>4 DEF IsReplay
  <2> QED
    BY <1>2, <2>5
<1> QED
  BY <1>3, <1>4

(* Two replays agree on the rows they share.                               *)
LEMMA ReplayUnique ==
    ASSUME NEW p, NEW q, NEW k \in Nat, NEW l \in Nat, NEW f, NEW g,
           IsReplay(f, p, k), IsReplay(g, q, l),
           k <= l, \A n \in 1..k : p[n] = q[n]
    PROVE  \A n \in 0..k : f[n] = g[n]
<1> DEFINE T == { n \in 0..k : f[n] # g[n] }
<1> SUFFICES ASSUME T # {} PROVE FALSE
  OBVIOUS
<1>0. T \in SUBSET Nat
  OBVIOUS
<1>1. PICK n \in T : \A m \in T : n <= m
  BY <1>0, LeastOf
<1>2. n \in 0..k /\ n \in 0..l /\ f[n] # g[n]
  OBVIOUS
<1>3. /\ f[n] = IF n = 0 THEN NoRequests ELSE Replayed(f[n - 1], p[n])
      /\ g[n] = IF n = 0 THEN NoRequests ELSE Replayed(g[n - 1], q[n])
  BY <1>2 DEF IsReplay
<1>4. n # 0
  BY <1>2, <1>3
<1>5. n - 1 \in 0..k /\ n - 1 \notin T /\ n \in 1..k
  BY <1>1, <1>2, <1>4
<1> QED
  BY <1>2, <1>3, <1>4, <1>5

LEMMA CollectReplays ==
    ASSUME NEW rows, Len(rows) \in Nat
    PROVE  \E f : IsReplay(f, rows, Len(rows)) /\ collect(rows) = f[Len(rows)]
<1> DEFINE state == CHOOSE f : IsReplay(f, rows, Len(rows))
<1>1. IsReplay(state, rows, Len(rows))
  BY ReplayExists
<1>2. collect(rows) = state[Len(rows)]
  BY DEF collect, IsReplay, NoRequests
<1> QED
  BY <1>1, <1>2

(* collect over one more row.                                              *)
LEMMA CollectAppend ==
    ASSUME NEW S, NEW rows \in Seq(S), NEW row \in S
    PROVE  collect(Append(rows, row)) = Replayed(collect(rows), row)
<1> DEFINE k == Len(rows)
           more == Append(rows, row)
<1>1. /\ k \in Nat /\ k + 1 \in Nat /\ k <= k + 1
      /\ Len(more) = k + 1 /\ more[k + 1] = row
      /\ \A n \in 1..k : rows[n] = more[n]
  OBVIOUS
<1> HIDE DEF k, more
<1>2. PICK f : IsReplay(f, rows, k) /\ collect(rows) = f[k]
  BY <1>1, CollectReplays DEF k
<1>3. PICK g : IsReplay(g, more, k + 1) /\ collect(more) = g[k + 1]
  BY <1>1, CollectReplays
<1>4. f[k] = g[k]
  <2>1. \A n \in 0..k : f[n] = g[n]
    <3>1. IsReplay(f, rows, k) /\ IsReplay(g, more, k + 1)
      BY <1>2, <1>3, <1>1
    <3> QED
      BY <1>1, <3>1, ReplayUnique
  <2> QED
    BY <1>1, <2>1
<1>5. g[k + 1] = Replayed(g[k], more[k + 1])
  <2>1. k + 1 \in 0..(k + 1) /\ k + 1 # 0 /\ (k + 1) - 1 = k
    BY <1>1
  <2>2. g[k + 1] = IF k + 1 = 0 THEN NoRequests ELSE Replayed(g[(k + 1) - 1], more[k + 1])
    BY <1>3, <2>1 DEF IsReplay
  <2> QED
    BY <2>1, <2>2
<1> QED
  BY <1>1, <1>2, <1>3, <1>4, <1>5 DEF more

LEMMA CollectNothing == collect(<<>>) = NoRequests
<1>1. PICK f : IsReplay(f, <<>>, 0) /\ collect(<<>>) = f[0]
  BY CollectReplays
<1> QED
  BY <1>1 DEF IsReplay

-----------------------------------------------------------------------------
(* What a reading of the table can give, whatever the order it is read in: *)
(* the accepted votes were accepted one at a time, so tallies, quorums and *)
(* thresholds of Withdrawal hold of it.                                    *)
Creations ==
    { b \in [ tag : {"withdrawal request"}, id : RequestIds, kind : Kinds, currency : Currencies ] :
        b.kind = "UnderLimit" => b.currency = "BTC" }

Decisions ==
    [ tag : {"withdrawal request decision"}, id : RequestIds, op : Operators,
      decision : {"Confirm", "Reject"} ]

Updates == [ created : Nat, body : Creations \union Decisions ]

Tallied(s) ==
    /\ s \in [RequestIds -> WithdrawalRequest \union {NoRequest}]
    /\ \A id \in RequestIds : s[id] # NoRequest => TalliedRequest(s[id]) /\ FewVotes(s[id])

LEMMA AppliedTallied ==
    ASSUME NEW s, Tallied(s), NEW b \in Creations \union Decisions, Accepted(s, b)
    PROVE  Tallied(Applied(s, b))
<1>1. CASE b \in Creations
  <2>1. b.id \in RequestIds /\ b.kind \in Kinds /\ b.currency \in Currencies
    BY <1>1 DEF Creations
  <2>2. Applied(s, b) = [s EXCEPT ![b.id] = Fresh(b.kind, b.currency)]
    BY <1>1 DEF Applied, Creations
  <2>3. TalliedRequest(Fresh(b.kind, b.currency)) /\ Fresh(b.kind, b.currency) \in WithdrawalRequest
    BY <2>1, FreshTallied DEF TalliedRequest
  <2>4. FewVotes(Fresh(b.kind, b.currency))
    BY FS_EmptySet DEF FewVotes, Fresh, Net, REQUIRED_NUMBER_OF_CONFIRMATIONS
  <2> QED
    BY <2>1, <2>2, <2>3, <2>4 DEF Tallied
<1>2. CASE b \in Decisions
  <2>1. b.id \in RequestIds /\ b.op \in Operators /\ b.tag # "withdrawal request"
    BY <1>2 DEF Decisions
  <2>2. s[b.id] # NoRequest /\ TalliedRequest(s[b.id]) /\ FewVotes(s[b.id])
    BY <2>1 DEF Accepted, Tallied
  <2>3. CASE b.decision = "Confirm"
    <3>1. CanConfirm(s[b.id], b.op)
      BY <2>1, <2>3 DEF Accepted
    <3>2. /\ TalliedRequest(WithConfirmation(s[b.id], b.op))
          /\ WithConfirmation(s[b.id], b.op) \in WithdrawalRequest
          /\ FewVotes(WithConfirmation(s[b.id], b.op))
      BY <2>1, <2>2, <3>1, ConfirmationTallied, ConfirmationFew DEF TalliedRequest
    <3>3. Applied(s, b) = [s EXCEPT ![b.id] = WithConfirmation(s[b.id], b.op)]
      BY <2>1, <2>3 DEF Applied
    <3> QED
      BY <2>1, <3>2, <3>3 DEF Tallied
  <2>4. CASE b.decision # "Confirm"
    <3>1. CanReject(s[b.id], b.op)
      BY <2>1, <2>4 DEF Accepted
    <3>2. /\ TalliedRequest(WithRejection(s[b.id], b.op))
          /\ WithRejection(s[b.id], b.op) \in WithdrawalRequest
          /\ FewVotes(WithRejection(s[b.id], b.op))
      BY <2>1, <2>2, <3>1, RejectionTallied, RejectionFew DEF TalliedRequest
    <3>3. Applied(s, b) = [s EXCEPT ![b.id] = WithRejection(s[b.id], b.op)]
      BY <2>1, <2>4 DEF Applied
    <3> QED
      BY <2>1, <3>2, <3>3 DEF Tallied
  <2> QED
    BY <2>3, <2>4
<1> QED
  BY <1>1, <1>2

LEMMA NoRequestsTallied == Tallied(NoRequests)
  BY DEF Tallied, NoRequests

LEMMA CollectTallied ==
    ASSUME NEW rows \in Seq(Updates), collect(rows) # Abort
    PROVE  Tallied(collect(rows))
<1>1. Len(rows) \in Nat /\ \A n \in 1..Len(rows) : rows[n].body \in Creations \union Decisions
  <2>1. Len(rows) \in Nat /\ \A n \in 1..Len(rows) : rows[n] \in Updates
    OBVIOUS
  <2>2. \A u \in Updates : u.body \in Creations \union Decisions
    BY DEF Updates
  <2> QED
    BY <2>1, <2>2
<1>2. PICK f : IsReplay(f, rows, Len(rows)) /\ collect(rows) = f[Len(rows)]
  BY <1>1, CollectReplays
<1> DEFINE T == { n \in 0..Len(rows) : f[n] # Abort /\ ~Tallied(f[n]) }
<1> SUFFICES T = {}
  BY <1>1, <1>2
<1>3. SUFFICES ASSUME T # {} PROVE FALSE
  OBVIOUS
<1>4. T \in SUBSET Nat
  BY <1>1
<1>5. PICK n \in T : \A m \in T : n <= m
  BY <1>3, <1>4, LeastOf
<1>6. n \in 0..Len(rows) /\ f[n] # Abort /\ ~Tallied(f[n])
  OBVIOUS
<1>7. f[n] = IF n = 0 THEN NoRequests ELSE Replayed(f[n - 1], rows[n])
  BY <1>2, <1>6 DEF IsReplay
<1>8. n # 0
  BY <1>6, <1>7, NoRequestsTallied
<1>9. n - 1 \in 0..Len(rows) /\ n - 1 \notin T /\ n \in 1..Len(rows)
  BY <1>1, <1>5, <1>6, <1>8
<1>10. /\ f[n - 1] # Abort /\ Accepted(f[n - 1], rows[n].body)
       /\ f[n] = Applied(f[n - 1], rows[n].body)
  BY <1>6, <1>7, <1>8 DEF Replayed
<1>11. Tallied(f[n - 1]) /\ rows[n].body \in Creations \union Decisions
  BY <1>1, <1>9, <1>10
<1> QED
  BY <1>6, <1>10, <1>11, AppliedTallied

(* query_updates gives rows of the table.                                  *)
LEMMA QueriedRows ==
    ASSUME NEW S, NEW rows \in Seq(S), NEW q \in query_updates(rows)
    PROVE  q \in Seq(S)
<1>1. PICK p \in [DOMAIN rows -> DOMAIN rows] : q = [i \in DOMAIN rows |-> rows[p[i]]]
  BY DEF query_updates
<1>2. DOMAIN rows = 1..Len(rows) /\ Len(rows) \in Nat
  OBVIOUS
<1>3. q \in [1..Len(rows) -> S]
  BY <1>1, <1>2
<1> QED
  BY <1>2, <1>3

-----------------------------------------------------------------------------
(* The stored updates are updates, and State keeps its tallies: of every   *)
(* interleaving of the handlers, every tie of stamps and every restart.    *)
LogInv ==
    /\ Tallied(requests)
    /\ clock \in Nat
    /\ stamped \in SUBSET Updates
    /\ channel \in Seq(Updates)
    /\ stored \in Seq(Updates)

LEMMA StampTyped ==
    ASSUME LogInv, NEW body \in Creations \union Decisions, Stamp(body)
    PROVE  LogInv'
<1>1. clock' \in Nat
  BY EventLogConstants DEF Stamp
<1>2. [ created |-> clock', body |-> body ] \in Updates
  BY <1>1 DEF Updates
<1>3. stamped' \in SUBSET Updates
  BY <1>2 DEF Stamp, LogInv
<1> QED
  BY <1>1, <1>3 DEF Stamp, LogInv

LEMMA StampWithdrawalStamps ==
    ASSUME NEW id \in RequestIds, NEW kind \in Kinds, NEW currency \in Currencies,
           StampWithdrawal(id, kind, currency)
    PROVE  \E body \in Creations : Stamp(body)
<1>1. CreateWithdrawalRequest(id, kind, currency) \in Creations
  BY DEF StampWithdrawal, CreateWithdrawalRequest, Creations
<1> QED
  BY <1>1 DEF StampWithdrawal

LEMMA StampDecisionStamps ==
    ASSUME NEW id \in RequestIds, NEW op \in Operators, NEW decision \in {"Confirm", "Reject"},
           StampDecision(id, op, decision)
    PROVE  \E body \in Decisions : Stamp(body)
<1>1. WithdrawalRequestDecision(id, op, decision) \in Decisions
  BY DEF WithdrawalRequestDecision, Decisions
<1> QED
  BY <1>1 DEF StampDecision

LEMMA HeadIsUpdate ==
    ASSUME LogInv, channel # <<>>
    PROVE  /\ Head(channel) \in Updates
           /\ Head(channel).body \in Creations \union Decisions
           /\ Tail(channel) \in Seq(Updates)
           /\ Append(stored, Head(channel)) \in Seq(Updates)
<1>1. Head(channel) \in Updates /\ Tail(channel) \in Seq(Updates)
  BY DEF LogInv
<1>2. Head(channel).body \in Creations \union Decisions
  BY <1>1 DEF Updates
<1>3. Append(stored, Head(channel)) \in Seq(Updates)
  BY <1>1 DEF LogInv
<1> QED
  BY <1>1, <1>2, <1>3

LEMMA LogInvariance == LogSpec => []LogInv
<1>1. LogInit => LogInv
  BY NoRequestsTallied DEF LogInit, Init, LogInv, NoRequests
<1>2. LogInv /\ [LogNext]_logVars => LogInv'
  <2> SUFFICES ASSUME LogInv, [LogNext]_logVars PROVE LogInv'
    OBVIOUS
  <2>1. ASSUME NEW body \in Creations \union Decisions, Stamp(body) PROVE LogInv'
    BY <2>1, StampTyped
  <2>2. ASSUME NEW u \in stamped, Send(u) PROVE LogInv'
    <3>1. u \in Updates
      BY <2>2 DEF LogInv
    <3>2. Append(channel, u) \in Seq(Updates)
      BY <3>1 DEF LogInv
    <3> QED
      BY <2>2, <3>2 DEF Send, LogInv
  <2>3. CASE UpdateStored
    BY <2>3, HeadIsUpdate, AppliedTallied DEF UpdateStored, LogInv
  <2>4. CASE UpdateDropped
    BY <2>4, HeadIsUpdate DEF UpdateDropped, LogInv
  <2>5. CASE Restart
    <3>1. PICK rows \in query_updates(stored) :
              IF collect(rows) = Abort THEN UNCHANGED requests
              ELSE requests' = collect(rows)
      BY <2>5 DEF Restart
    <3>2. rows \in Seq(Updates)
      BY QueriedRows DEF LogInv
    <3>3. Tallied(requests')
      BY <3>1, <3>2, CollectTallied DEF LogInv
    <3>4. stamped' = {} /\ channel' = <<>> /\ UNCHANGED <<clock, stored>>
      BY <2>5 DEF Restart
    <3> QED
      BY <3>3, <3>4 DEF LogInv
  <2>6. CASE UNCHANGED logVars
    BY <2>6 DEF logVars, LogInv
  <2> QED
    BY <2>1, <2>2, <2>3, <2>4, <2>5, <2>6, StampWithdrawalStamps, StampDecisionStamps
    DEF LogNext
<1> QED
  BY <1>1, <1>2, PTL DEF LogSpec

LEMMA TalliedState == LogInv <=> LogInv /\ TallyInv
  BY DEF LogInv, Tallied, TallyInv, TypeOK, Known

(* Whatever handlers interleave, whatever the order a restart reads the    *)
(* table in, State holds requests only.                                    *)
THEOREM LogTypeCorrect == LogSpec => []TypeOK
<1>1. LogInv => TypeOK
  BY TalliedState DEF TallyInv
<1> QED
  BY <1>1, LogInvariance, PTL

(* The running number of every request stays the net vote, also after a    *)
(* restart that replayed the table in another order than it was written.   *)
THEOREM LogTallyCorrect == LogSpec => []TallyIsNetVote
<1>1. LogInv => TallyIsNetVote
  BY TalliedState DEF TallyInv, TalliedRequest, TallyIsNetVote
<1> QED
  BY <1>1, LogInvariance, PTL

(* No interleaving, drop or restart lets State hold a decision without its *)
(* two votes.                                                              *)
THEOREM LogQuorumCorrect == LogSpec => []DecidedByQuorum
<1>1. LogInv => DecidedByQuorum
  BY TalliedState DEF TallyInv, TalliedRequest, DecidedByQuorum
<1> QED
  BY <1>1, LogInvariance, PTL

(* While at most two operators have voted on a request it is decided as    *)
(* soon as they agree, also in a State that was rebuilt.                   *)
THEOREM LogThresholdCorrect == LogSpec => []DecidedAtThreshold
<1>1. LogInv => DecidedAtThreshold
  BY DEF LogInv, Tallied, FewVotes, DecidedAtThreshold, Known
<1> QED
  BY <1>1, LogInvariance, PTL

-----------------------------------------------------------------------------
(* A permutation that keeps the order of 1..n moves nothing.               *)
LEMMA RisesInPlace ==
    ASSUME NEW n \in Nat, NEW p \in [1..n -> 1..n],
           \A i, j \in 1..n : i < j => p[i] < p[j]
    PROVE  \A i \in 1..n : p[i] = i
<1>1. \A i \in 1..n : p[i] >= i
  <2> DEFINE T == { i \in 1..n : p[i] < i }
  <2>1. SUFFICES ASSUME T # {} PROVE FALSE
    OBVIOUS
  <2>2. T \in SUBSET Nat
    OBVIOUS
  <2>3. PICK i \in T : \A m \in T : i <= m
    BY <2>1, <2>2, LeastOf
  <2>4. i \in 1..n /\ p[i] \in 1..n /\ p[i] < i
    OBVIOUS
  <2>5. i - 1 \in 1..n /\ i - 1 \notin T
    BY <2>3, <2>4
  <2>6. p[i - 1] \in 1..n /\ p[i - 1] >= i - 1 /\ p[i - 1] < p[i]
    BY <2>4, <2>5
  <2> QED
    BY <2>4, <2>6
<1>2. \A i \in 1..n : p[i] <= i
  <2> DEFINE T == { k \in 0..(n - 1) : p[n - k] > n - k }
  <2> SUFFICES ASSUME NEW i \in 1..n, p[i] > i PROVE FALSE
    OBVIOUS
  <2>1. T # {}
    <3>1. n - i \in 0..(n - 1) /\ n - (n - i) = i
      OBVIOUS
    <3>2. n - i \in T
      BY <3>1
    <3> QED
      BY <3>2
  <2>2. T \in SUBSET Nat
    OBVIOUS
  <2>3. PICK k \in T : \A m \in T : k <= m
    BY <2>1, <2>2, LeastOf
  <2>4. k \in 0..(n - 1) /\ n - k \in 1..n /\ p[n - k] \in 1..n /\ p[n - k] > n - k
    OBVIOUS
  <2>5. k - 1 \in 0..(n - 1) /\ k - 1 \notin T /\ n - (k - 1) \in 1..n
    <3>1. k # 0
      BY <2>4
    <3>2. k - 1 \in 0..(n - 1) /\ k \in Nat /\ ~(k <= k - 1)
      BY <2>4, <3>1
    <3> HIDE DEF T
    <3>3. k - 1 \notin T
      BY <2>3, <3>2
    <3> QED
      BY <3>2, <3>3
  <2>6. /\ p[n - (k - 1)] \in 1..n /\ p[n - (k - 1)] <= n - (k - 1)
        /\ p[n - k] < p[n - (k - 1)]
    BY <2>4, <2>5
  <2> QED
    BY <2>4, <2>6
<1> QED
  BY <1>1, <1>2

(* The table is in the order of its stamps.                                *)
InOrder == \A i, j \in DOMAIN stored : i < j => stored[i].created < stored[j].created

(* Then query_updates reads it the way it was written.                     *)
LEMMA QueryInOrder ==
    ASSUME stored \in Seq(Updates), InOrder
    PROVE  query_updates(stored) = {stored}
<1> DEFINE n == Len(stored)
           stamp == [i \in 1..n |-> stored[i].created]
<1>1. n \in Nat /\ DOMAIN stored = 1..n /\ stored = [i \in 1..n |-> stored[i]]
  OBVIOUS
<1>2. stamp \in [1..n -> Nat]
  <2>1. \A i \in 1..n : stored[i] \in Updates
    BY <1>1
  <2> QED
    BY <2>1 DEF Updates
<1>3. \A i, j \in 1..n : i < j => stamp[i] < stamp[j]
  BY <1>1 DEF InOrder
<1>4. ASSUME NEW q \in query_updates(stored) PROVE q = stored
  <2>1. PICK p \in [1..n -> 1..n] :
            /\ q = [i \in 1..n |-> stored[p[i]]]
            /\ \A i, j \in 1..n : i < j => /\ p[i] # p[j]
                                           /\ stored[p[i]].created <= stored[p[j]].created
    BY <1>1 DEF query_updates
  <2>2. \A i, j \in 1..n : i < j => p[i] < p[j]
    <3> SUFFICES ASSUME NEW i \in 1..n, NEW j \in 1..n, i < j PROVE p[i] < p[j]
      OBVIOUS
    <3>1. p[i] \in 1..n /\ p[j] \in 1..n /\ p[i] # p[j] /\ stamp[p[i]] <= stamp[p[j]]
      BY <2>1
    <3>2. ~(stamp[p[j]] < stamp[p[i]])
      <4>1. stamp[p[i]] \in Nat /\ stamp[p[j]] \in Nat
        BY <1>2, <3>1
      <4> QED
        BY <3>1, <4>1
    <3>3. ~(p[j] < p[i])
      BY <1>3, <3>1, <3>2
    <3> QED
      BY <1>1, <3>1, <3>3
  <2>3. \A i \in 1..n : p[i] = i
    BY <1>1, <2>2, RisesInPlace
  <2> QED
    BY <1>1, <2>1, <2>3
<1>5. stored \in query_updates(stored)
  <2> DEFINE p == [i \in 1..n |-> i]
             Orders == { q \in [1..n -> 1..n] :
                           \A i, j \in 1..n : i < j => /\ q[i] # q[j]
                                                     /\ stored[q[i]].created <= stored[q[j]].created }
  <2>1. p \in [1..n -> 1..n]
    OBVIOUS
  <2>2. ASSUME NEW i \in 1..n, NEW j \in 1..n, i < j
        PROVE  p[i] # p[j] /\ stored[p[i]].created <= stored[p[j]].created
    <3>1. stamp[i] < stamp[j] /\ stamp[i] \in Nat /\ stamp[j] \in Nat
      BY <1>2, <1>3, <2>2
    <3> QED
      BY <1>1, <2>2, <3>1
  <2>3. stored = [i \in 1..n |-> stored[p[i]]]
    BY <1>1
  <2> QED
    <3>1. p \in Orders
      BY <2>1, <2>2
    <3> HIDE DEF p, Orders
    <3>2. stored \in { [i \in 1..n |-> stored[q[i]]] : q \in Orders }
      BY <2>3, <3>1
    <3>3. query_updates(stored) = { [i \in 1..n |-> stored[q[i]]] : q \in Orders }
      BY <1>1 DEF query_updates, Orders
    <3> QED
      BY <3>2, <3>3
<1> QED
  BY <1>4, <1>5

-----------------------------------------------------------------------------
(* While the table is in order, collecting it gives the state that is      *)
(* current, whatever was dropped and however often the service restarted.  *)
ReplayInv == up /\ InOrder => collect(stored) = requests

LEMMA StateIsNoAbort == Tallied(requests) => requests # Abort
  BY AbortIsNoState DEF Tallied

LEMMA AppendInOrder ==
    ASSUME stored \in Seq(Updates), NEW u, stored' = Append(stored, u), InOrder'
    PROVE  InOrder
<1>1. /\ DOMAIN stored = 1..Len(stored) /\ DOMAIN stored' = 1..(Len(stored) + 1)
      /\ Len(stored) \in Nat
      /\ \A i \in DOMAIN stored : i \in DOMAIN stored' /\ stored'[i] = stored[i]
  OBVIOUS
<1> QED
  BY <1>1 DEF InOrder

LEMMA StoredReplays ==
    ASSUME LogInv, ReplayInv, UpdateStored
    PROVE  ReplayInv'
<1> SUFFICES ASSUME InOrder' PROVE collect(stored)' = requests'
  BY DEF ReplayInv
<1>1. stored \in Seq(Updates) /\ Head(channel) \in Updates
  BY HeadIsUpdate DEF UpdateStored, LogInv
<1>2. stored' = Append(stored, Head(channel))
  BY DEF UpdateStored
<1>3. collect(stored) = requests
  BY <1>1, <1>2, AppendInOrder DEF ReplayInv, UpdateStored
<1>4. collect(Append(stored, Head(channel))) = Replayed(requests, Head(channel))
  BY <1>1, <1>3, CollectAppend
<1>5. Replayed(requests, Head(channel)) = requests'
  BY StateIsNoAbort DEF UpdateStored, Replayed, LogInv
<1> QED
  BY <1>2, <1>4, <1>5 DEF collect

(* A restart from a table in order changes nothing that is stored.         *)
LEMMA RestartReplays ==
    ASSUME LogInv, ReplayInv, InOrder, Restart
    PROVE  up' = TRUE /\ UNCHANGED requests
<1>1. collect(stored) = requests /\ requests # Abort
  BY StateIsNoAbort DEF LogInv, ReplayInv, Restart
<1>2. query_updates(stored) = {stored}
  BY QueryInOrder DEF LogInv
<1> QED
  BY <1>1, <1>2 DEF Restart

LEMMA ReplayInvariance == LogSpec => []ReplayInv
<1>1. LogInit => ReplayInv
  BY CollectNothing DEF LogInit, Init, ReplayInv, NoRequests
<1>2. LogInv /\ ReplayInv /\ [LogNext]_logVars => ReplayInv'
  <2> SUFFICES ASSUME LogInv, ReplayInv, [LogNext]_logVars PROVE ReplayInv'
    OBVIOUS
  <2>1. CASE UNCHANGED <<requests, stored, up>>
    BY <2>1 DEF ReplayInv, InOrder, collect
  <2>2. ASSUME NEW body, Stamp(body) PROVE UNCHANGED <<requests, stored, up>>
    BY <2>2 DEF Stamp
  <2>3. ASSUME NEW u \in stamped, Send(u) PROVE UNCHANGED <<requests, stored, up>>
    BY <2>3 DEF Send
  <2>4. CASE UpdateStored
    BY <2>4, StoredReplays
  <2>5. UpdateDropped => UNCHANGED <<requests, stored, up>>
    BY DEF UpdateDropped
  <2>6. CASE Restart
    <3> SUFFICES ASSUME InOrder' PROVE collect(stored)' = requests'
      BY DEF ReplayInv
    <3>1. stored' = stored /\ up
      BY <2>6 DEF Restart
    <3>2. InOrder
      BY <3>1 DEF InOrder
    <3>3. UNCHANGED requests
      BY <2>6, <3>2, RestartReplays
    <3> QED
      BY <3>1, <3>2, <3>3 DEF ReplayInv, collect
  <2>7. UNCHANGED logVars => UNCHANGED <<requests, stored, up>>
    BY DEF logVars
  <2> QED
    BY <2>1, <2>2, <2>3, <2>4, <2>5, <2>6, <2>7 DEF LogNext, StampWithdrawal, StampDecision
<1> QED
  BY <1>1, <1>2, LogInvariance, PTL DEF LogSpec

(* However many handlers run: as long as the updates were applied in the   *)
(* order of their stamps, every reading of the table gives the state that  *)
(* is current.                                                             *)
THEOREM ReplayInOrder == LogSpec => [](InOrder => ReplayRestores)
<1>1. LogInv /\ ReplayInv => (InOrder => ReplayRestores)
  <2> SUFFICES ASSUME LogInv, ReplayInv, InOrder, up PROVE ReplayRestores
    BY DEF ReplayRestores
  <2>1. query_updates(stored) = {stored}
    BY QueryInOrder DEF LogInv
  <2> QED
    BY <2>1 DEF ReplayInv, ReplayRestores
<1> QED
  BY <1>1, LogInvariance, ReplayInvariance, PTL

-----------------------------------------------------------------------------
(* Handlers that run one at a time, on a clock that tells them apart: what *)
(* is on its way is stamped later than all that is stored.                 *)
Serial == MaxInFlight = 1 /\ Ties = FALSE

Latest(u) ==
    /\ u.created <= clock
    /\ \A i \in DOMAIN stored : stored[i].created < u.created

OneOnItsWay ==
    \/ stamped = {} /\ channel = <<>>
    \/ \E u \in Updates : stamped = {u} /\ channel = <<>> /\ Latest(u)
    \/ \E u \in Updates : stamped = {} /\ channel = <<u>> /\ Latest(u)

SerialInv ==
    /\ up = TRUE
    /\ InOrder
    /\ \A i \in DOMAIN stored : stored[i].created <= clock
    /\ OneOnItsWay

LEMMA StampSerial ==
    ASSUME Serial, LogInv, SerialInv, NEW body \in Creations \union Decisions, Stamp(body)
    PROVE  SerialInv'
<1>1. stamped = {} /\ channel = <<>>
  <2>1. Cardinality(stamped) + Len(channel) < 1
    BY DEF Stamp, Serial
  <2>2. ASSUME NEW v \in Updates, stamped = {v}, channel = <<>> PROVE FALSE
    <3>1. Cardinality(stamped) = 1 /\ Len(channel) = 0
      BY <2>2, FS_Singleton
    <3> QED
      BY <2>1, <3>1
  <2>3. ASSUME NEW v \in Updates, stamped = {}, channel = <<v>> PROVE FALSE
    <3>1. Cardinality(stamped) = 0 /\ Len(channel) = 1
      BY <2>3, FS_EmptySet
    <3> QED
      BY <2>1, <3>1
  <2> QED
    BY <2>2, <2>3 DEF SerialInv, OneOnItsWay
<1>2. clock \in Nat /\ clock' = clock + 1 /\ clock' \in Nat
  BY DEF Stamp, Serial, LogInv
<1>3. PICK u : u = [ created |-> clock', body |-> body ]
  OBVIOUS
<1>4. /\ u \in Updates /\ u.created = clock'
      /\ stamped' = {u} /\ channel' = <<>> /\ UNCHANGED <<stored, up>>
  BY <1>1, <1>2, <1>3 DEF Updates, Stamp
<1>5. \A i \in DOMAIN stored : stored[i].created < clock' /\ stored[i].created <= clock'
  <2>1. \A i \in DOMAIN stored : stored[i] \in Updates
    BY DEF LogInv
  <2>2. \A i \in DOMAIN stored : stored[i].created \in Nat
    BY <2>1 DEF Updates
  <2> QED
    BY <1>2, <2>2 DEF SerialInv
<1>6. Latest(u)'
  BY <1>2, <1>4, <1>5 DEF Latest
<1>7. OneOnItsWay'
  BY <1>4, <1>6 DEF OneOnItsWay
<1> QED
  BY <1>4, <1>5, <1>7 DEF SerialInv, InOrder

LEMMA SendSerial ==
    ASSUME LogInv, SerialInv, NEW u \in stamped, Send(u)
    PROVE  SerialInv'
<1>1. stamped = {u} /\ channel = <<>> /\ Latest(u) /\ u \in Updates
  BY DEF SerialInv, OneOnItsWay
<1>2. stamped' = {} /\ channel' = <<u>> /\ UNCHANGED <<clock, stored, up>>
  BY <1>1 DEF Send
<1>3. OneOnItsWay'
  BY <1>1, <1>2 DEF OneOnItsWay, Latest
<1> QED
  BY <1>2, <1>3 DEF SerialInv, InOrder

LEMMA StoreSerial ==
    ASSUME LogInv, SerialInv, UpdateStored
    PROVE  SerialInv'
<1>1. PICK u \in Updates : stamped = {} /\ channel = <<u>> /\ Latest(u)
  BY DEF SerialInv, OneOnItsWay, UpdateStored
<1>2. /\ stamped' = {} /\ channel' = <<>> /\ stored' = Append(stored, u)
      /\ UNCHANGED <<clock, up>>
  BY <1>1 DEF UpdateStored
<1>3. OneOnItsWay'
  BY <1>2 DEF OneOnItsWay
<1>4. /\ DOMAIN stored = 1..Len(stored) /\ DOMAIN stored' = 1..(Len(stored) + 1)
      /\ Len(stored) \in Nat
      /\ \A i \in DOMAIN stored : i \in DOMAIN stored' /\ stored'[i] = stored[i]
      /\ stored'[Len(stored) + 1] = u
  BY <1>2 DEF LogInv
<1>5. (\A i \in DOMAIN stored : stored[i].created <= clock)'
  BY <1>1, <1>2, <1>4 DEF SerialInv, Latest
<1>6. InOrder'
  <2> SUFFICES ASSUME NEW i \in DOMAIN stored', NEW j \in DOMAIN stored', i < j
               PROVE  stored'[i].created < stored'[j].created
    BY DEF InOrder
  <2>1. i \in DOMAIN stored
    BY <1>4
  <2>2. j \in DOMAIN stored \/ j = Len(stored) + 1
    BY <1>4
  <2> QED
    BY <1>1, <1>4, <2>1, <2>2 DEF SerialInv, InOrder, Latest
<1> QED
  BY <1>2, <1>3, <1>5, <1>6 DEF SerialInv

LEMMA DropSerial ==
    ASSUME LogInv, SerialInv, UpdateDropped
    PROVE  SerialInv'
<1>1. PICK u \in Updates : stamped = {} /\ channel = <<u>>
  BY DEF SerialInv, OneOnItsWay, UpdateDropped
<1>2. stamped' = {} /\ channel' = <<>> /\ UNCHANGED <<clock, stored, up>>
  BY <1>1 DEF UpdateDropped
<1> QED
  BY <1>2 DEF SerialInv, OneOnItsWay, InOrder

LEMMA SerialInvariance == ASSUME Serial PROVE LogSpec => []SerialInv
<1>1. LogInit => SerialInv
  BY DEF LogInit, SerialInv, OneOnItsWay, InOrder
<1>2. LogInv /\ ReplayInv /\ SerialInv /\ [LogNext]_logVars => SerialInv'
  <2> SUFFICES ASSUME LogInv, ReplayInv, SerialInv, [LogNext]_logVars PROVE SerialInv'
    OBVIOUS
  <2>1. ASSUME NEW body \in Creations \union Decisions, Stamp(body) PROVE SerialInv'
    BY <2>1, StampSerial
  <2>2. CASE Restart
    <3>1. up' = TRUE /\ stamped' = {} /\ channel' = <<>> /\ UNCHANGED <<clock, stored>>
      BY <2>2, RestartReplays DEF SerialInv, Restart
    <3> QED
      BY <3>1 DEF SerialInv, OneOnItsWay, InOrder
  <2>3. CASE UNCHANGED logVars
    BY <2>3 DEF logVars, SerialInv, OneOnItsWay, Latest, InOrder
  <2> QED
    BY <2>1, <2>2, <2>3, SendSerial, StoreSerial, DropSerial,
       StampWithdrawalStamps, StampDecisionStamps DEF LogNext
<1> QED
  BY <1>1, <1>2, LogInvariance, ReplayInvariance, PTL DEF LogSpec

(* "Allows to reconstruct current state of the system by replaying all     *)
(* events": true for every number of requests, operators, updates, drops   *)
(* and restarts, if handlers run one at a time.                            *)
THEOREM SerialReplay == ASSUME Serial PROVE LogSpec => []ReplayRestores
<1>1. SerialInv => InOrder
  BY DEF SerialInv
<1> QED
  BY <1>1, SerialInvariance, ReplayInOrder, PTL

(* Then the hot wallet can always be started again.                        *)
THEOREM SerialRestart == ASSUME Serial PROVE LogSpec => []Restartable
<1>1. LogInv /\ SerialInv /\ ReplayRestores => Restartable
  BY StateIsNoAbort DEF LogInv, SerialInv, ReplayRestores, Restartable
<1> QED
  BY <1>1, SerialInvariance, SerialReplay, LogInvariance, PTL

-----------------------------------------------------------------------------
(* What update_worker makes current is what one vote, or one new request,  *)
(* of Withdrawal gives.                                                    *)
LEMMA StoredVotes ==
    ASSUME LogInv, UpdateStored
    PROVE  Next
<1> DEFINE b == Head(channel).body
<1>1. /\ b \in Creations \union Decisions
      /\ Accepted(requests, b) /\ requests' = Applied(requests, b)
  BY HeadIsUpdate DEF UpdateStored
<1> HIDE DEF b
<1>2. CASE b \in Creations
  <2>1. /\ b.id \in RequestIds /\ b.kind \in Kinds /\ b.currency \in Currencies
        /\ b.tag = "withdrawal request"
        /\ b.kind = "UnderLimit" => b.currency = "BTC"
    BY <1>2 DEF Creations
  <2>2. Create(b.id, b.kind, b.currency)
    BY <1>1, <2>1 DEF Create, Known, Accepted, Applied
  <2> QED
    BY <2>1, <2>2 DEF Next
<1>3. CASE b \in Decisions
  <2>1. /\ b.id \in RequestIds /\ b.op \in Operators
        /\ b.tag # "withdrawal request"
    BY <1>3 DEF Decisions
  <2>2. CASE b.decision = "Confirm"
    <3>1. Confirm(b.op, b.id)
      BY <1>1, <2>1, <2>2 DEF Confirm, Known, Accepted, Applied
    <3> QED
      BY <2>1, <3>1 DEF Next
  <2>3. CASE b.decision # "Confirm"
    <3>1. Reject(b.op, b.id)
      BY <1>1, <2>1, <2>3 DEF Reject, Known, Accepted, Applied
    <3> QED
      BY <2>1, <3>1 DEF Next
  <2> QED
    BY <2>2, <2>3
<1> QED
  BY <1>1, <1>2, <1>3

(* Channel, table and restarts implement the vote of Withdrawal: nothing   *)
(* but one vote or one new request at a time changes State, and a restart  *)
(* changes nothing.                                                        *)
THEOREM SerialVoting == ASSUME Serial PROVE LogSpec => ImplementsVoting
<1>1. LogInit => Init
  BY DEF LogInit
<1>2. LogInv /\ ReplayInv /\ SerialInv /\ [LogNext]_logVars => [Next]_requests
  <2> SUFFICES ASSUME LogInv, ReplayInv, SerialInv, [LogNext]_logVars PROVE [Next]_requests
    OBVIOUS
  <2>1. ASSUME NEW body, Stamp(body) PROVE UNCHANGED requests
    BY <2>1 DEF Stamp
  <2>2. ASSUME NEW u, Send(u) PROVE UNCHANGED requests
    BY <2>2 DEF Send
  <2>3. UpdateDropped => UNCHANGED requests
    BY DEF UpdateDropped
  <2>4. Restart => UNCHANGED requests
    BY RestartReplays DEF SerialInv
  <2>5. UNCHANGED logVars => UNCHANGED requests
    BY DEF logVars
  <2> QED
    BY <2>1, <2>2, <2>3, <2>4, <2>5, StoredVotes DEF LogNext, StampWithdrawal, StampDecision
<1> QED
  BY <1>1, <1>2, LogInvariance, ReplayInvariance, SerialInvariance, PTL
  DEF LogSpec, ImplementsVoting, Spec
=============================================================================
