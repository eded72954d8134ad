---------------------------- MODULE LimitsProofs ----------------------------
(***************************************************************************)
(* Limit changes and the vote on them, for every set of operators, every   *)
(* number of updates under way and every order in which update_worker      *)
(* finds them.                                                             *)
(***************************************************************************)
EXTENDS Limits, FiniteSetTheorems, TLAPS

Decisions ==
    [ type : {"decision"}, id : Nat, requested_limit : Limit, public_key : Operators,
      decision_type : {"Confirm", "Reject"} ]

Change ==
    [ id : Nat, limit : Limit, nconf : Nat, nrej : Nat,
      confirmations : SUBSET Decisions, rejections : SUBSET Decisions ]

Signers(list) == { d.public_key : d \in list }

(* A change that is undecided, with its counts.                            *)
Undecided(c) ==
    /\ c \in Change
    /\ c.nconf = Cardinality(Signers(c.confirmations))
    /\ c.nrej = Cardinality(Signers(c.rejections))
    /\ c.nconf - c.nrej \in -1..1

DecisionsUnderWay == { u \in inbox : u.type = "decision" }

(* Decisions are only sent for a change that is open; the first one to be  *)
(* filed has met no decision, and only one limit is ever signed for it.    *)
SignedForThis ==
    /\ filed = 0 => change = None /\ DecisionsUnderWay = {}
    /\ change # None /\ filed <= 1 =>
         \A d \in change.confirmations \union change.rejections \union DecisionsUnderWay :
             d.requested_limit = change.limit

LimitsInv ==
    /\ nextId \in Nat /\ filed \in Nat
    /\ \A u \in inbox : u.type = "request" => u.limit \in Limit
    /\ DecisionsUnderWay \subseteq Decisions
    /\ change # None => Undecided(change) /\ enabled
    /\ SignedForThis

-----------------------------------------------------------------------------
(* One more signature of somebody who has not signed counts for one.       *)
LEMMA SignersGrow ==
    ASSUME NEW list \in SUBSET Decisions, NEW u \in Decisions,
           ~has_signed(list, u.public_key)
    PROVE  /\ IsFiniteSet(Signers(list))
           /\ Cardinality(Signers(list)) \in Nat
           /\ Cardinality(Signers(list \union {u})) = Cardinality(Signers(list)) + 1
<1>1. Signers(list) \subseteq Operators
  BY DEF Signers, Decisions
<1>2. IsFiniteSet(Signers(list))
  BY <1>1, FS_Subset, LimitsConstants
<1>3. /\ Signers(list \union {u}) = Signers(list) \union {u.public_key}
      /\ u.public_key \notin Signers(list)
  BY DEF Signers, has_signed
<1> QED
  BY <1>2, <1>3, FS_CardinalityType, FS_AddElement

(* A decision that settles nothing leaves a change that is undecided.      *)
LEMMA OneMoreDecision ==
    ASSUME NEW c, Undecided(c), NEW u \in Decisions
    PROVE  /\ ~has_signed(c.confirmations, u.public_key) /\ ~(c.nconf + 1 - c.nrej >= 2)
                => Undecided([ c EXCEPT !.nconf = @ + 1, !.confirmations = @ \union {u} ])
           /\ ~has_signed(c.rejections, u.public_key) /\ ~(c.nrej + 1 - c.nconf >= 2)
                => Undecided([ c EXCEPT !.nrej = @ + 1, !.rejections = @ \union {u} ])
<1>1. /\ c \in Change /\ c.nconf \in Nat /\ c.nrej \in Nat
      /\ c.confirmations \in SUBSET Decisions /\ c.rejections \in SUBSET Decisions
  BY DEF Undecided, Change
<1>2. ASSUME ~has_signed(c.confirmations, u.public_key), ~(c.nconf + 1 - c.nrej >= 2)
      PROVE  Undecided([ c EXCEPT !.nconf = @ + 1, !.confirmations = @ \union {u} ])
  <2> DEFINE a == [ c EXCEPT !.nconf = c.nconf + 1 ]
             b == [ a EXCEPT !.confirmations = c.confirmations \union {u} ]
  <2>1. a \in Change
    BY <1>1 DEF Change
  <2>2. /\ a.nconf = c.nconf + 1 /\ a.nrej = c.nrej /\ a.rejections = c.rejections
    BY <1>1 DEF Change
  <2>3. b = [ c EXCEPT !.nconf = @ + 1, !.confirmations = @ \union {u} ]
    OBVIOUS
  <2> HIDE DEF a
  <2>4. /\ b \in Change /\ b.confirmations = c.confirmations \union {u}
        /\ b.nconf = a.nconf /\ b.nrej = a.nrej /\ b.rejections = a.rejections
    BY <1>1, <2>1 DEF Change
  <2> HIDE DEF b
  <2>5. Undecided(b)
    BY <1>1, <1>2, <2>2, <2>4, SignersGrow DEF Undecided
  <2> QED
    BY <2>3, <2>5
<1>3. ASSUME ~has_signed(c.rejections, u.public_key), ~(c.nrej + 1 - c.nconf >= 2)
      PROVE  Undecided([ c EXCEPT !.nrej = @ + 1, !.rejections = @ \union {u} ])
  <2> DEFINE a == [ c EXCEPT !.nrej = c.nrej + 1 ]
             b == [ a EXCEPT !.rejections = c.rejections \union {u} ]
  <2>1. a \in Change
    BY <1>1 DEF Change
  <2>2. /\ a.nrej = c.nrej + 1 /\ a.nconf = c.nconf /\ a.confirmations = c.confirmations
    BY <1>1 DEF Change
  <2>3. b = [ c EXCEPT !.nrej = @ + 1, !.rejections = @ \union {u} ]
    OBVIOUS
  <2> HIDE DEF a
  <2>4. /\ b \in Change /\ b.rejections = c.rejections \union {u}
        /\ b.nconf = a.nconf /\ b.nrej = a.nrej /\ b.confirmations = a.confirmations
    BY <1>1, <2>1 DEF Change
  <2> HIDE DEF b
  <2>5. Undecided(b)
    BY <1>1, <1>3, <2>2, <2>4, SignersGrow DEF Undecided
  <2> QED
    BY <2>3, <2>5
<1> QED
  BY <1>2, <1>3

-----------------------------------------------------------------------------
(* A handler sends an update: a decision is for the change that is open.  *)
LEMMA SendsKept ==
    ASSUME LimitsInv, NEW u, Sends(u),
           u.type = "request" => u.limit \in Limit,
           u.type = "decision" => /\ u \in Decisions /\ change # None
                                  /\ u.requested_limit = change.limit
    PROVE  LimitsInv'
<1>1. /\ inbox' = inbox \union {u}
      /\ UNCHANGED <<enabled, limit, spent, change, nextId, filed, withdrawn>>
  BY DEF Sends
<1>2. DecisionsUnderWay' = DecisionsUnderWay \union { d \in {u} : d.type = "decision" }
  BY <1>1 DEF DecisionsUnderWay
<1>3. SignedForThis'
  BY <1>1, <1>2 DEF LimitsInv, SignedForThis
<1> QED
  BY <1>1, <1>2, <1>3 DEF LimitsInv

(* The updates that go are no loss.                                        *)
LEMMA FewerUnderWay ==
    ASSUME LimitsInv, inbox' \subseteq inbox
    PROVE  /\ \A u \in inbox' : u.type = "request" => u.limit \in Limit
           /\ DecisionsUnderWay' \subseteq Decisions
           /\ DecisionsUnderWay' \subseteq DecisionsUnderWay
  BY DEF LimitsInv, DecisionsUnderWay

(* A step that keeps the open change, or drops it.                         *)
LEMMA ChangeDropped ==
    ASSUME LimitsInv, inbox' \subseteq inbox, filed' = filed, nextId' \in Nat,
           \/ change' = None
           \/ change' = change /\ enabled' = enabled
    PROVE  LimitsInv'
<1>1. /\ \A u \in inbox' : u.type = "request" => u.limit \in Limit
      /\ DecisionsUnderWay' \subseteq Decisions
      /\ DecisionsUnderWay' \subseteq DecisionsUnderWay
  BY FewerUnderWay
<1>2. SignedForThis'
  BY <1>1 DEF LimitsInv, SignedForThis
<1> QED
  BY <1>1, <1>2 DEF LimitsInv

(* A decision that settles nothing: one more signature, for the same limit.*)
LEMMA ChangeSigned ==
    ASSUME LimitsInv, change # None, NEW u \in DecisionsUnderWay, Takes(u),
           filed' = filed, nextId' = nextId, enabled' = enabled,
           \/ /\ ~has_signed(change.confirmations, u.public_key)
              /\ ~(change.nconf + 1 - change.nrej >= 2)
              /\ change' = [ change EXCEPT !.nconf = @ + 1, !.confirmations = @ \union {u} ]
           \/ /\ ~has_signed(change.rejections, u.public_key)
              /\ ~(change.nrej + 1 - change.nconf >= 2)
              /\ change' = [ change EXCEPT !.nrej = @ + 1, !.rejections = @ \union {u} ]
    PROVE  LimitsInv'
<1>1. /\ \A v \in inbox' : v.type = "request" => v.limit \in Limit
      /\ DecisionsUnderWay' \subseteq Decisions
      /\ DecisionsUnderWay' \subseteq DecisionsUnderWay
  BY FewerUnderWay DEF Takes
<1>2. u \in Decisions /\ Undecided(change) /\ change \in Change
  BY DEF LimitsInv, Undecided
<1>3. Undecided(change')
  <2>1. CASE /\ ~has_signed(change.confirmations, u.public_key)
             /\ ~(change.nconf + 1 - change.nrej >= 2)
             /\ change' = [ change EXCEPT !.nconf = @ + 1, !.confirmations = @ \union {u} ]
    BY <1>2, <2>1, OneMoreDecision, Zenon
  <2>2. CASE /\ ~has_signed(change.rejections, u.public_key)
             /\ ~(change.nrej + 1 - change.nconf >= 2)
             /\ change' = [ change EXCEPT !.nrej = @ + 1, !.rejections = @ \union {u} ]
    BY <1>2, <2>2, OneMoreDecision, Zenon
  <2> QED
    BY <2>1, <2>2
<1>4. /\ change'.limit = change.limit
      /\ change'.confirmations \union change'.rejections
           = change.confirmations \union change.rejections \union {u}
  BY <1>2 DEF Change
<1>5. SignedForThis'
  BY <1>1, <1>4 DEF LimitsInv, SignedForThis
<1> QED
  BY <1>1, <1>3, <1>5 DEF LimitsInv

(* A new request is filed, in the place of any other.                      *)
LEMMA RequestFiled ==
    ASSUME LimitsInv, NEW u \in inbox, insert_limits_req(u)
    PROVE  LimitsInv'
<1>1. /\ \A v \in inbox' : v.type = "request" => v.limit \in Limit
      /\ DecisionsUnderWay' \subseteq Decisions
      /\ DecisionsUnderWay' \subseteq DecisionsUnderWay
  BY FewerUnderWay DEF insert_limits_req, Takes
<1>2. /\ change'.confirmations = {} /\ change'.rejections = {} /\ change'.limit = u.limit
      /\ change'.nconf = 0 /\ change'.nrej = 0
      /\ filed' = filed + 1 /\ nextId' = nextId + 1 /\ enabled'
      /\ change' \in Change
  BY DEF insert_limits_req, LimitsInv, Change
<1>3. Signers({}) = {} /\ Cardinality({}) = 0
  BY FS_EmptySet DEF Signers
<1>4. Undecided(change')
  BY <1>2, <1>3 DEF Undecided
<1>5. SignedForThis'
  BY <1>1, <1>2 DEF LimitsInv, SignedForThis
<1> QED
  BY <1>1, <1>2, <1>4, <1>5 DEF LimitsInv

(* After a restart the change has another id, the same votes, and no       *)
(* update is under way.                                                    *)
LEMMA RestartKept ==
    ASSUME LimitsInv, Restart
    PROVE  LimitsInv'
<1>1. CASE change = None
  BY <1>1, ChangeDropped DEF Restart, LimitsInv
<1>2. CASE change # None
  <2>1. /\ change \in Change /\ Undecided(change) /\ enabled
        /\ nextId \in Nat /\ filed \in Nat
    BY <1>2 DEF LimitsInv, Undecided
  <2>2. /\ change' = [change EXCEPT !.id = nextId] /\ nextId' = nextId + 1
        /\ inbox' = {} /\ filed' = filed /\ enabled' = enabled
    BY <1>2 DEF Restart
  <2>3. /\ change' \in Change
        /\ change'.limit = change.limit
        /\ change'.nconf = change.nconf /\ change'.nrej = change.nrej
        /\ change'.confirmations = change.confirmations
        /\ change'.rejections = change.rejections
    BY <2>1, <2>2 DEF Change
  <2>4. Undecided(change')
    BY <2>1, <2>3 DEF Undecided
  <2>5. DecisionsUnderWay' = {}
    BY <2>2 DEF DecisionsUnderWay
  <2>6. SignedForThis'
    BY <1>2, <2>2, <2>3, <2>5 DEF LimitsInv, SignedForThis
  <2> QED
    BY <2>1, <2>2, <2>4, <2>5, <2>6 DEF LimitsInv
<1> QED
  BY <1>1, <1>2

LEMMA LimitsInvariance == LimitsSpec => []LimitsInv
<1>1. LimitsInit => LimitsInv
  BY DEF LimitsInit, LimitsInv, SignedForThis, DecisionsUnderWay
<1>2. LimitsInv /\ [LimitsNext]_limitVars => LimitsInv'
  <2> SUFFICES ASSUME LimitsInv, [LimitsNext]_limitVars PROVE LimitsInv'
    OBVIOUS
  <2>0. nextId \in Nat
    BY DEF LimitsInv
  <2>1. CASE UNCHANGED limitVars
    BY <2>0, <2>1, ChangeDropped DEF limitVars
  <2>2. CASE HandlerSends
    <3>1. ASSUME NEW l \in Limit, request_new_limits(l) PROVE LimitsInv'
      BY <3>1, SendsKept DEF request_new_limits, LimitChangeUpd
    <3>2. ASSUME cancel_user_change PROVE LimitsInv'
      BY <3>2, SendsKept DEF cancel_user_change, LimitCancelData
    <3>3. ASSUME NEW op \in Operators, NEW d \in {"Confirm", "Reject"}, decide_limits(op, d)
          PROVE  LimitsInv'
      <4> DEFINE u == LimitChangeDecision(change.id, change.limit, op, d)
      <4>1. change # None /\ change \in Change /\ Sends(u)
        BY <3>3 DEF decide_limits, LimitsInv, Undecided
      <4>2. /\ u \in Decisions /\ u.requested_limit = change.limit
            /\ u.type # "request"
        BY <4>1 DEF LimitChangeDecision, Decisions, Change
      <4> HIDE DEF u
      <4> QED
        BY <4>1, <4>2, SendsKept
    <3>4. ASSUME NEW a \in Amounts, withdraw(a) PROVE LimitsInv'
      BY <3>4, SendsKept DEF withdraw, WithdrawUnderLimit
    <3>5. ASSUME NEW action \in {"Enable", "Disable"}, update_tokens(action) PROVE LimitsInv'
      BY <3>5, SendsKept DEF update_tokens, TokenUpdate
    <3> QED
      BY <2>2, <3>1, <3>2, <3>3, <3>4, <3>5 DEF HandlerSends
  <2>3. ASSUME NEW u \in inbox, UpdateApplies(u) PROVE LimitsInv'
    <3>1. CASE insert_limits_req(u)
      BY <3>1, RequestFiled
    <3>2. CASE cancel_limit_change(u) \/ with_withdrawal_under_limit(u) \/ Fails(u)
               \/ disable(u)
      BY <2>0, <3>2, ChangeDropped
      DEF cancel_limit_change, with_withdrawal_under_limit, Fails, disable, Takes
    <3>3. CASE enable(u)
      <4>1. change = None
        BY <3>3 DEF enable, LimitsInv
      <4> QED
        BY <2>0, <3>3, <4>1, ChangeDropped DEF enable, Takes
    <3>4. CASE confirm_limit_change(u)
      BY <2>0, <3>4, ChangeDropped, ChangeSigned
      DEF confirm_limit_change, Takes, DecisionsUnderWay
    <3>5. CASE reject_limit_change(u)
      BY <2>0, <3>5, ChangeDropped, ChangeSigned
      DEF reject_limit_change, Takes, DecisionsUnderWay
    <3> QED
      BY <2>3, <3>1, <3>2, <3>3, <3>4, <3>5 DEF UpdateApplies
  <2>4. ASSUME NEW span \in LimitSpan, clear_limits(span) PROVE LimitsInv'
    BY <2>0, <2>4, ChangeDropped DEF clear_limits
  <2>5. CASE Restart
    BY <2>5, RestartKept
  <2> QED
    BY <2>1, <2>2, <2>3, <2>4, <2>5 DEF LimitsNext
<1> QED
  BY <1>1, <1>2, PTL DEF LimitsSpec

-----------------------------------------------------------------------------
(* The counts that with_limit_change_decision compares are the signatures, *)
(* each operator once in a list, and an open change is undecided.          *)
THEOREM CountsAreVotes == LimitsSpec => []VotesAreCounted
<1>1. LimitsInv => VotesAreCounted
  BY DEF LimitsInv, Undecided, VotesAreCounted, Signers
<1> QED
  BY <1>1, LimitsInvariance, PTL

(* all_changes finds a currency for every open change.                     *)
THEOREM OpenChangeHasCurrency == LimitsSpec => []ChangeHasCurrency
<1>1. LimitsInv => ChangeHasCurrency
  BY DEF LimitsInv, ChangeHasCurrency
<1> QED
  BY <1>1, LimitsInvariance, PTL

(* While a user has filed one change, only that limit is signed for it,    *)
(* across restarts that give the change another id.                        *)
THEOREM SignedAsFiled == LimitsSpec => []DecisionsAreForThisRequest
<1>1. LimitsInv => DecisionsAreForThisRequest
  BY DEF LimitsInv, SignedForThis, DecisionsAreForThisRequest
<1> QED
  BY <1>1, LimitsInvariance, PTL

(* A limit other than the default comes into force only by a confirmation  *)
(* that makes two more operators for it than against it.                   *)
THEOREM TwoRaiseALimit == LimitsSpec => LimitTakesTwo
<1> DEFINE TakesTwo ==
        limit' # limit /\ limit' # DefaultLimit =>
          \E u \in inbox \ inbox' :
             /\ u.decision_type = "Confirm"
             /\ Cardinality({ d.public_key : d \in change.confirmations \union {u} })
                  - Cardinality({ d.public_key : d \in change.rejections }) >= 2
<1>1. LimitsInv /\ [LimitsNext]_limitVars => [TakesTwo]_limitVars
  <2> SUFFICES ASSUME LimitsInv, LimitsNext, limit' # limit, limit' # DefaultLimit
               PROVE  TakesTwo
    OBVIOUS
  <2>1. PICK u \in inbox : confirm_limit_change(u)
    BY DEF LimitsNext, HandlerSends, request_new_limits, cancel_user_change, decide_limits,
           withdraw, update_tokens, Sends, UpdateApplies, insert_limits_req,
           cancel_limit_change, reject_limit_change, with_withdrawal_under_limit, enable,
           disable, Fails, clear_limits, Restart
  <2>2. /\ u \in Decisions /\ u \in inbox \ inbox' /\ u.decision_type = "Confirm"
        /\ Undecided(change)
        /\ ~has_signed(change.confirmations, u.public_key)
        /\ change.nconf + 1 - change.nrej >= 2
    BY <2>1 DEF confirm_limit_change, Takes, LimitsInv, DecisionsUnderWay
  <2>3. Cardinality(Signers(change.confirmations \union {u}))
          - Cardinality(Signers(change.rejections)) >= 2
    BY <2>2, SignersGrow DEF Undecided, Change
  <2> QED
    BY <2>2, <2>3 DEF Signers
<1> QED
  BY <1>1, LimitsInvariance, PTL DEF LimitsSpec, LimitTakesTwo
=============================================================================
