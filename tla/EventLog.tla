------------------------------ MODULE EventLog ------------------------------
(***************************************************************************)
(* State and the table of updates it is rebuilt from.  A handler stamps    *)
(* its update (StateUpdate::new), sends it, and update_worker applies it   *)
(* to a copy of State, stores it, and only then makes the copy current.    *)
(* A restart reads the table back in the order of the stamps, not in the   *)
(* order the updates were applied in, and applies everything again.        *)
(*                                                                         *)
(* Here State is the withdrawal requests of Withdrawal, and the updates    *)
(* are their creation and the decisions of the operators.                  *)
(***************************************************************************)
EXTENDS Withdrawal, Sequences

CONSTANTS MaxUpdates,    \* bound: updates under way or stored at a time
          MaxClock,      \* bound: last microsecond an update is stamped with
          MaxInFlight,   \* handlers between StateUpdate::new and update_worker
          Ties,          \* may two updates be stamped in one microsecond?
          Abort          \* collect gave up with a StateUpdateErr

VARIABLES clock,      \* stamp of the latest update
          stamped,    \* updates stamped by a handler, not yet in the channel
          channel,    \* updates sent to update_worker
          stored,     \* rows of the table, in the order they were inserted
          up          \* the hot wallet runs

logVars == <<requests, clock, stamped, channel, stored, up>>

ASSUME EventLogConstants ==
    /\ MaxUpdates \in Nat /\ MaxClock \in Nat
    /\ MaxInFlight \in Nat \ {0}
    /\ Ties \in BOOLEAN

(* Result::Err is no State.                                                *)
ASSUME AbortIsNoState ==
    Abort \notin [RequestIds -> WithdrawalRequest \union {NoRequest}]

-----------------------------------------------------------------------------
CreateWithdrawalRequest(id, kind, currency) ==
    [ tag |-> "withdrawal request", id |-> id, kind |-> kind, currency |-> currency ]

WithdrawalRequestDecision(id, op, decision) ==
    [ tag |-> "withdrawal request decision", id |-> id, op |-> op, decision |-> decision ]

(* Mutant: a request that is decided still takes votes.                    *)
AcceptedWhenDecided(s, body) ==
    IF body.tag = "withdrawal request" THEN s[body.id] = NoRequest
    ELSE /\ s[body.id] # NoRequest
         /\ body.op \notin IF body.decision = "Confirm" THEN s[body.id].confirmations
                                                       ELSE s[body.id].rejections

(* apply_update on a state s: does it succeed, and what is the new state?  *)
Accepted(s, body) ==
    IF body.tag = "withdrawal request" THEN s[body.id] = NoRequest
    ELSE /\ s[body.id] # NoRequest
         /\ IF body.decision = "Confirm" THEN CanConfirm(s[body.id], body.op)
                                         ELSE CanReject(s[body.id], body.op)

Applied(s, body) ==
    [ s EXCEPT ![body.id] =
        IF body.tag = "withdrawal request" THEN Fresh(body.kind, body.currency)
        ELSE IF body.decision = "Confirm" THEN WithConfirmation(@, body.op)
        ELSE WithRejection(@, body.op) ]

(* One turn of the loop of collect: a failed update fails the whole        *)
(* reconstruction.                                                         *)
Replayed(s, row) ==
    IF s = Abort \/ ~Accepted(s, row.body) THEN Abort ELSE Applied(s, row.body)

(* The state after the first n rows, for every n.                          *)
collect(rows) ==
    LET state[n \in 0..Len(rows)] ==
            IF n = 0 THEN [id \in RequestIds |-> NoRequest]
            ELSE Replayed(state[n - 1], rows[n])
    IN state[Len(rows)]

(* query_state: rows in the order of their stamps, equal stamps in any.    *)
query_updates(rows) ==
    LET Index == DOMAIN rows
        Orders == { p \in [Index -> Index] :
                      \A i, j \in Index : i < j => /\ p[i] # p[j]
                                                   /\ rows[p[i]].created <= rows[p[j]].created }
    IN { [i \in Index |-> rows[p[i]]] : p \in Orders }

-----------------------------------------------------------------------------
LogInit ==
    /\ Init
    /\ clock = 0
    /\ stamped = {}
    /\ channel = <<>>
    /\ stored = <<>>
    /\ up = TRUE

(* A handler makes its update and stamps it with the current time.         *)
Stamp(body) ==
    /\ up
    /\ Cardinality(stamped) + Len(channel) < MaxInFlight
    /\ Cardinality(stamped) + Len(channel) + Len(stored) < MaxUpdates
    /\ clock' \in (IF Ties THEN {clock, clock + 1} ELSE {clock + 1}) \intersect 0..MaxClock
    /\ stamped' = stamped \union { [ created |-> clock', body |-> body ] }
    /\ UNCHANGED <<requests, channel, stored, up>>

Pending(id) ==
    \/ \E u \in stamped : u.body.id = id
    \/ \E i \in DOMAIN channel : channel[i].body.id = id

(* post_withdraw: the id is a fresh one, and only BTC withdrawals can be   *)
(* under the limit.                                                        *)
StampWithdrawal(id, kind, currency) ==
    /\ id \notin Known /\ ~Pending(id)
    /\ kind = "UnderLimit" => currency = "BTC"
    /\ Stamp(CreateWithdrawalRequest(id, kind, currency))

(* confirm and reject: operators vote on what they see in the list.        *)
StampDecision(id, op, decision) ==
    /\ id \in Known
    /\ Stamp(WithdrawalRequestDecision(id, op, decision))

Send(u) ==
    /\ up
    /\ u \in stamped
    /\ stamped' = stamped \ {u}
    /\ channel' = Append(channel, u)
    /\ UNCHANGED <<requests, clock, stored, up>>

(* Mutant: the copy is made current before it is known to be stored.       *)
UpdateUnsafely ==
    /\ up
    /\ channel # <<>>
    /\ channel' = Tail(channel)
    /\ Accepted(requests, Head(channel).body)
    /\ requests' = Applied(requests, Head(channel).body)
    /\ stored' \in {stored, Append(stored, Head(channel))}
    /\ UNCHANGED <<clock, stamped, up>>

(* update_worker: the update is applied and stored.                        *)
UpdateStored ==
    /\ up
    /\ channel # <<>>
    /\ channel' = Tail(channel)
    /\ Accepted(requests, Head(channel).body)
    /\ requests' = Applied(requests, Head(channel).body)
    /\ stored' = Append(stored, Head(channel))
    /\ UNCHANGED <<clock, stamped, up>>

(* update_worker: the update fails, or it cannot be stored.                *)
UpdateDropped ==
    /\ up
    /\ channel # <<>>
    /\ channel' = Tail(channel)
    /\ UNCHANGED <<requests, clock, stamped, stored, up>>

(* The hot wallet stops, and run_hot_wallet starts it again from the table *)
(* with query_state, or fails to.                                          *)
Restart ==
    /\ up
    /\ stamped' = {} /\ channel' = <<>>
    /\ \E rows \in query_updates(stored) :
          IF collect(rows) = Abort
          THEN up' = FALSE /\ UNCHANGED requests
          ELSE up' = TRUE /\ requests' = collect(rows)
    /\ UNCHANGED <<clock, stored>>

LogNext ==
    \/ \E id \in RequestIds :
          \/ \E kind \in Kinds, currency \in Currencies : StampWithdrawal(id, kind, currency)
          \/ \E op \in Operators, decision \in {"Confirm", "Reject"} :
                StampDecision(id, op, decision)
    \/ \E u \in stamped : Send(u)
    \/ UpdateStored
    \/ UpdateDropped
    \/ Restart

LogSpec == LogInit /\ [][LogNext]_logVars

-----------------------------------------------------------------------------
(* "Allows to reconstruct current state of the system by replaying all     *)
(* events": whatever update_worker dropped or could not store, every       *)
(* reading of the table with query_state gives the state that is current.  *)
(* True only of handlers that run one at a time.                           *)
ReplayRestores == up => \A rows \in query_updates(stored) : collect(rows) = requests

(* The weaker promise that a hot wallet that stops can be started again:   *)
(* the updates that update_worker accepted are accepted by collect.        *)
Restartable == \A rows \in query_updates(stored) : collect(rows) # Abort

(* Through the channel, the table and any number of restarts, the requests *)
(* change only as Withdrawal says: one vote of one operator at a time.     *)
ImplementsVoting == Spec
=============================================================================
