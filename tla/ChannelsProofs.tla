--------------------------- MODULE ChannelsProofs ---------------------------
(***************************************************************************)
(* That no task of the hot wallet waits for room in a channel, for every   *)
(* capacity of the channels and every load they have room for; and, for    *)
(* any load, how the tasks can stop for good.                              *)
(*                                                                         *)
(* The argument counts: an update or a result that is under way is in one  *)
(* place, a handler that will send it, a batch, a channel or a worker's    *)
(* hands, and a step only moves it on.  So there are never more of them    *)
(* than were admitted, and the one that is waiting to be sent is not in    *)
(* the channel.                                                            *)
(***************************************************************************)
EXTENDS Channels, TLAPS

Inv ==
    /\ TypeOK
    /\ LockDiscipline
    /\ Outstanding <= load

-----------------------------------------------------------------------------
LEMMA InitInv == Init => Inv
BY ChannelsConstants DEF Init, Inv, TypeOK, LockDiscipline, Outstanding, One

(* What arrives is admitted.                                               *)
LEMMA ArrivalsInv == Inv /\ Arrivals /\ UNCHANGED load => Inv'
<1> SUFFICES ASSUME Inv, Arrivals, UNCHANGED load PROVE Inv'
  OBVIOUS
<1> USE ChannelsConstants DEF Inv, TypeOK, LockDiscipline, Outstanding, One, Admits
<1>1. CASE Request
  BY <1>1 DEF Request
<1>2. CASE AddressRequest
  BY <1>2 DEF AddressRequest
<1>3. ASSUME NEW n \in 1..MaxBatch, Poll(n) PROVE Inv'
  BY <1>3 DEF Poll
<1> QED
  BY <1>1, <1>2, <1>3 DEF Arrivals

LEMMA HandlersInv == Inv /\ Handlers /\ UNCHANGED load => Inv'
<1> SUFFICES ASSUME Inv, Handlers, UNCHANGED load PROVE Inv'
  OBVIOUS
<1> USE ChannelsConstants DEF Inv, TypeOK, LockDiscipline, Outstanding, One
<1>1. CASE RequestSends
  BY <1>1 DEF RequestSends
<1>2. CASE AddressLocks
  BY <1>2 DEF AddressLocks
<1>3. CASE AddressSends
  BY <1>3 DEF AddressSends
<1>4. CASE AddressKnown
  BY <1>4 DEF AddressKnown
<1>5. CASE AddressAllocated
  BY <1>5 DEF AddressAllocated
<1> QED
  BY <1>1, <1>2, <1>3, <1>4, <1>5 DEF Handlers

LEMMA BtcWorkerInv == Inv /\ BtcWorker /\ UNCHANGED load => Inv'
<1> SUFFICES ASSUME Inv, BtcWorker, UNCHANGED load PROVE Inv'
  OBVIOUS
<1> USE ChannelsConstants DEF Inv, TypeOK, LockDiscipline, Outstanding, One
<1>1. CASE EventsLock
  BY <1>1 DEF EventsLock
<1>2. CASE EventsSend
  BY <1>2 DEF EventsSend
<1> QED
  BY <1>1, <1>2 DEF BtcWorker

LEMMA UpdateWorkerInv == Inv /\ UpdateWorker /\ UNCHANGED load => Inv'
<1> SUFFICES ASSUME Inv, UpdateWorker, UNCHANGED load PROVE Inv'
  OBVIOUS
<1> USE ChannelsConstants DEF Inv, TypeOK, LockDiscipline, Outstanding, One
<1>1. CASE UpdateReceive
  BY <1>1 DEF UpdateReceive
<1>2. CASE UpdateLock
  BY <1>2 DEF UpdateLock
<1>3. CASE UpdateApply
  BY <1>3 DEF UpdateApply
<1>4. CASE UpdateApprove
  BY <1>4 DEF UpdateApprove
<1>5. CASE UpdateSendResult
  BY <1>5 DEF UpdateSendResult
<1> QED
  BY <1>1, <1>2, <1>3, <1>4, <1>5 DEF UpdateWorker

LEMMA ResultsWorkerInv == Inv /\ ResultsWorker /\ UNCHANGED load => Inv'
<1> SUFFICES ASSUME Inv, ResultsWorker, UNCHANGED load PROVE Inv'
  OBVIOUS
<1> USE ChannelsConstants DEF Inv, TypeOK, LockDiscipline, Outstanding, One
<1>1. CASE ResultReceive
  BY <1>1 DEF ResultReceive
<1>2. CASE ResultLooksUp
  BY <1>2 DEF ResultLooksUp
<1>3. CASE ResultPaid
  BY <1>3 DEF ResultPaid
<1>4. CASE ResultReports
  BY <1>4 DEF ResultReports
<1> QED
  BY <1>1, <1>2, <1>3, <1>4 DEF ResultsWorker

LEMMA Inductive == Spec => []Inv
<1>1. Inv /\ [Next]_<<vars, load>> => Inv'
  <2> SUFFICES ASSUME Inv, [Next]_<<vars, load>> PROVE Inv'
    OBVIOUS
  <2>1. CASE UNCHANGED <<vars, load>>
    BY <2>1 DEF vars, Inv, TypeOK, LockDiscipline, Outstanding, One
  <2> QED
    BY <2>1, ArrivalsInv, HandlersInv, BtcWorkerInv, UpdateWorkerInv, ResultsWorkerInv
    DEF Next, Tasks
<1> QED
  BY <1>1, InitInv, PTL DEF Spec

-----------------------------------------------------------------------------
(* The places of the tasks and the lengths of the channels stay what they  *)
(* are declared to be.                                                     *)
THEOREM ChannelsTypeCorrect == Spec => []TypeOK
BY Inductive, PTL DEF Inv

(* No task waits for room in a channel under a load the channels have room *)
(* for, so process_btc_events and get_deposit_address never hold State     *)
(* across such a wait.                                                     *)
THEOREM NoWaitForRoom == Spec => []NobodyWaitsForRoom
<1>1. Inv => NobodyWaitsForRoom
  BY ChannelsConstants
  DEF Inv, TypeOK, LockDiscipline, Outstanding, One, NobodyWaitsForRoom, Roomy
<1> QED
  BY <1>1, Inductive, PTL

-----------------------------------------------------------------------------
(* The guards of the steps of Tasks, that say without ENABLED that nobody  *)
(* can go on: NoGuardHolds where the run says ~ENABLED Tasks.              *)
HandlerGuard ==
    \/ senders > 0 /\ updates < UpdatesCapacity
    \/ askers > 0 /\ lock = "free"
    \/ lock = "handler"
    \/ lock = "address" /\ updates < UpdatesCapacity

BtcWorkerGuard ==
    \/ batch > 0 /\ lock = "free"
    \/ lock = "btc_worker" /\ updates < UpdatesCapacity

UpdateWorkerGuard ==
    \/ updater = "recv" /\ updates > 0
    \/ updater = "lock" /\ lock = "free"
    \/ updater = "apply"
    \/ updater = "result" /\ results < ResultsCapacity

ResultsWorkerGuard ==
    \/ payer = "recv" /\ results > 0
    \/ payer = "lock" /\ lock = "free"
    \/ payer = "pay"
    \/ payer = "report" /\ updates < UpdatesCapacity

NoGuardHolds ==
    ~ (HandlerGuard \/ BtcWorkerGuard \/ UpdateWorkerGuard \/ ResultsWorkerGuard)

(* A step of a task needs its guard.                                       *)
LEMMA TasksNeedTheirGuards ==
    Tasks => HandlerGuard \/ BtcWorkerGuard \/ UpdateWorkerGuard \/ ResultsWorkerGuard
<1>1. Handlers => HandlerGuard
  BY DEF Handlers, HandlerGuard, RequestSends, AddressLocks, AddressAllocated, AddressSends,
     AddressKnown
<1>2. BtcWorker => BtcWorkerGuard
  BY DEF BtcWorker, BtcWorkerGuard, EventsLock, EventsSend
<1>3. UpdateWorker => UpdateWorkerGuard
  BY DEF UpdateWorker, UpdateWorkerGuard, UpdateReceive, UpdateLock, UpdateApply,
     UpdateApprove, UpdateSendResult
<1>4. ResultsWorker => ResultsWorkerGuard
  BY DEF ResultsWorker, ResultsWorkerGuard, ResultReceive, ResultLooksUp, ResultPaid,
     ResultReports
<1> QED
  BY <1>1, <1>2, <1>3, <1>4 DEF Tasks

(* The two deadlocks of the hot wallet: whatever the capacities and the    *)
(* load, when there is work to do and no task can go on, one channel is    *)
(* full, its writer holds State, and its reader waits for State, or, for   *)
(* the channel of results, for room in the channel of updates.             *)
THEOREM OnlyTwoDeadlocks ==
    Spec => [](Outstanding > 0 /\ NoGuardHolds => StuckOnUpdates \/ StuckOnResults)
<1>1. Inv => (Outstanding > 0 /\ NoGuardHolds => StuckOnUpdates \/ StuckOnResults)
  <2> SUFFICES ASSUME Inv, Outstanding > 0, NoGuardHolds
               PROVE  StuckOnUpdates \/ StuckOnResults
    OBVIOUS
  <2>1. TypeOK /\ LockDiscipline
    BY DEF Inv
  <2>2. ~ HandlerGuard /\ ~ BtcWorkerGuard /\ ~ UpdateWorkerGuard /\ ~ ResultsWorkerGuard
    BY DEF NoGuardHolds
  <2>3. lock \in {"free", "address", "btc_worker", "update_worker"}
    BY <2>1, <2>2 DEF TypeOK, HandlerGuard
  <2>4. CASE lock = "free"
    <3>1. updater = "recv" /\ updates = 0
      BY <2>1, <2>2, <2>4 DEF TypeOK, LockDiscipline, UpdateWorkerGuard
    <3>2. senders = 0 /\ askers = 0 /\ batch = 0
      BY <2>1, <2>2, <2>4, <3>1, ChannelsConstants DEF TypeOK, HandlerGuard, BtcWorkerGuard
    <3>3. payer = "recv" /\ results = 0
      BY <2>1, <2>2, <2>4, <3>1, ChannelsConstants DEF TypeOK, ResultsWorkerGuard
    <3> QED
      BY <2>4, <3>1, <3>2, <3>3 DEF Outstanding, One
  <2>5. CASE lock \in {"btc_worker", "address"}
    <3>1. updates = UpdatesCapacity /\ updates > 0
      BY <2>1, <2>2, <2>5, ChannelsConstants DEF TypeOK, HandlerGuard, BtcWorkerGuard
    <3>2. updater = "lock"
      BY <2>1, <2>2, <2>5, <3>1 DEF TypeOK, LockDiscipline, UpdateWorkerGuard
    <3> QED
      BY <2>5, <3>1, <3>2 DEF StuckOnUpdates
  <2>6. CASE lock = "update_worker"
    <3>1. updater = "result" /\ results = ResultsCapacity /\ results > 0
      BY <2>1, <2>2, <2>6, ChannelsConstants DEF TypeOK, LockDiscipline, UpdateWorkerGuard
    <3>2. payer = "lock" \/ (payer = "report" /\ updates = UpdatesCapacity)
      BY <2>1, <2>2, <3>1, ChannelsConstants DEF TypeOK, ResultsWorkerGuard
    <3> QED
      BY <3>1, <3>2 DEF StuckOnResults
  <2> QED
    BY <2>3, <2>4, <2>5, <2>6
<1> QED
  BY <1>1, Inductive, PTL

(* And these are deadlocks: the writer that holds State keeps it, because  *)
(* its reader needs State to make room.                                    *)
THEOREM NobodyEscapesADeadlock == Spec => DeadlocksAreForGood
<1>1. ASSUME Inv, [Next]_<<vars, load>>
      PROVE  (StuckOnUpdates => StuckOnUpdates') /\ (StuckOnResults => StuckOnResults')
  <2> USE ChannelsConstants DEF Inv, TypeOK, LockDiscipline, StuckOnUpdates, StuckOnResults
  <2>1. CASE UNCHANGED <<vars, load>>
    BY <2>1 DEF vars
  <2>2. CASE Arrivals
    BY <1>1, <2>2 DEF Arrivals, Request, AddressRequest, Poll
  <2>3. CASE Handlers
    BY <1>1, <2>3 DEF Handlers, RequestSends, AddressLocks, AddressAllocated, AddressSends,
       AddressKnown
  <2>4. CASE BtcWorker
    BY <1>1, <2>4 DEF BtcWorker, EventsLock, EventsSend
  <2>5. CASE UpdateWorker
    BY <1>1, <2>5 DEF UpdateWorker, UpdateReceive, UpdateLock, UpdateApply, UpdateApprove,
       UpdateSendResult
  <2>6. CASE ResultsWorker
    BY <1>1, <2>6 DEF ResultsWorker, ResultReceive, ResultLooksUp, ResultPaid, ResultReports
  <2> QED
    BY <1>1, <2>1, <2>2, <2>3, <2>4, <2>5, <2>6 DEF Next, Tasks
<1>2. Inv /\ [Next]_<<vars, load>> =>
        [ (StuckOnUpdates => StuckOnUpdates') /\ (StuckOnResults => StuckOnResults') ]_<<vars, load>>
  BY <1>1
<1> QED
  BY <1>2, Inductive, PTL DEF Spec, DeadlocksAreForGood
=============================================================================
