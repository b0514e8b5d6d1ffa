---------------------------- MODULE RefundsProofs ----------------------------
(***************************************************************************)
(* Proofs about RefundReservation, for any items, amounts, total and       *)
(* number of tasks, requests and faults.                                   *)
(***************************************************************************)
EXTENDS Refunds, TLAPS

USE ItemAssumption, AmountAssumption, TotalAssumption, BoundAssumption DEF Absent

\* What a task read still fits: a reservation it is about to make does not
\* exceed the total, nor does the value it read before its rollback.
ReadFits ==
    \A t \in Task :
        /\ pc[t] \in {"init", "cas"} => Value(seen[t]) + Amount[item[t]] <= Total
        /\ pc[t] = "rollback" => seen[t] \in Nat /\ seen[t] <= Total

Inv == TypeOK /\ CapHolds /\ ReadFits

LEMMA InitInv == Init => Inv
  <1> SUFFICES ASSUME Init  PROVE Inv
    OBVIOUS
  <1>1. (CHOOSE i \in Item : TRUE) \in Item
    OBVIOUS
  <1>2. TypeOK
    BY <1>1 DEF Init, TypeOK, Attempts
  <1>3. CapHolds /\ ReadFits
    BY DEF Init, CapHolds, ReadFits, Value
  <1> QED  BY <1>2, <1>3 DEF Inv

\* The variables of the tasks, and the others.
LocalsOK ==
    /\ pc \in [Task -> {"idle", "read", "init", "cas", "stripe", "rollback_read",
                        "rollback", "mark", "restock"}]
    /\ item \in [Task -> Item]
    /\ snapshot \in [Task -> SUBSET Item]
    /\ attempt \in [Task -> 1..Attempts]
    /\ seen \in [Task -> {Absent} \cup Nat]

RestOK ==
    /\ cumulative \in {Absent} \cup Nat
    /\ marked \subseteq Item
    /\ linked \in {0, 1}
    /\ paid \subseteq Item
    /\ requests \in 0..MaxRequests
    /\ granted \in Int
    /\ clobbered \in {0, 1}
    /\ unheard \subseteq Item
    /\ faults \in 0..MaxFaults

LEMMA EndLocals == ASSUME LocalsOK, NEW t \in Task, End(t)  PROVE LocalsOK'
  <1>1. (CHOOSE i \in Item : TRUE) \in Item
    OBVIOUS
  <1> QED  BY <1>1 DEF LocalsOK, End, Attempts

LEMMA GotoLocals ==
  ASSUME LocalsOK, NEW t \in Task, Goto(t, "cas") \/ Goto(t, "stripe") \/ Goto(t, "mark")
                                   \/ Goto(t, "rollback_read") \/ Goto(t, "restock")
  PROVE  LocalsOK'
  BY DEF LocalsOK, Goto

\* A task whose place and value do not change keeps what it read; so does one
\* that has ended or has yet to read.
LEMMA ReadFitsFrame ==
  ASSUME ReadFits, LocalsOK, NEW t \in Task,
         End(t) \/ Goto(t, "stripe") \/ Goto(t, "mark")
            \/ Goto(t, "rollback_read") \/ Goto(t, "restock")
  PROVE  ReadFits'
  <1>1. pc'[t] \notin {"init", "cas", "rollback"}
    BY DEF End, Goto, LocalsOK
  <1>2. \A u \in Task \ {t} : pc'[u] = pc[u] /\ seen'[u] = seen[u] /\ item'[u] = item[u]
    BY DEF End, Goto, LocalsOK
  <1> QED  BY <1>1, <1>2 DEF ReadFits, Value

\* A step that changes neither the field nor the reservations.
LEMMA CapFrame ==
  ASSUME CapHolds, UNCHANGED <<cumulative, granted, clobbered>>
  PROVE  CapHolds'
  BY DEF CapHolds, Value

LEMMA TypeSplit == TypeOK <=> LocalsOK /\ RestOK
  BY DEF TypeOK, LocalsOK, RestOK

\* The goal of each case below.
Kept == LocalsOK /\ RestOK /\ CapHolds /\ ReadFits

LEMMA KeptIsInv == Inv <=> Kept
  BY TypeSplit DEF Inv, Kept

LEMMA StepInv == ASSUME Kept, NEW t \in Task, Step(t)  PROVE Kept'
  <1>0. LocalsOK /\ RestOK /\ CapHolds /\ ReadFits
    BY DEF Kept
  <1> USE DEF order, history
  <1>1. CASE ReadTotal(t)
    <2>1. RestOK' /\ CapHolds'
      BY <1>0, <1>1, CapFrame DEF ReadTotal, RestOK
    <2>2. CASE End(t)
      BY <1>0, <2>1, <2>2, EndLocals, ReadFitsFrame DEF Kept
    <2>3. CASE ~End(t)
      <3>1. /\ Value(cumulative) + Amount[item[t]] <= Total
            /\ pc' = [pc EXCEPT ![t] = IF cumulative = Absent THEN "init" ELSE "cas"]
            /\ seen' = [seen EXCEPT ![t] = cumulative]
            /\ UNCHANGED <<item, snapshot, attempt>>
        BY <1>0, <1>1, <2>3 DEF ReadTotal, Value, LocalsOK, RestOK
      <3>2. LocalsOK'
        BY <1>0, <3>1 DEF LocalsOK, RestOK
      <3>3. ReadFits'
        BY <1>0, <3>1 DEF ReadFits, LocalsOK, RestOK, Value
      <3> QED  BY <2>1, <3>2, <3>3 DEF Kept
    <2> QED  BY <2>2, <2>3
  <1>2. CASE InitZero(t)
    <2>1. RestOK'
      BY <1>0, <1>2 DEF InitZero, RestOK
    <2>2. CapHolds'
      BY <1>0, <1>2 DEF InitZero, CapHolds, Value, RestOK
    <2>3. LocalsOK'
      BY <1>0, <1>2, GotoLocals DEF InitZero
    <2>4. ReadFits'
      BY <1>0, <1>2 DEF InitZero, Goto, ReadFits, LocalsOK, Value
    <2> QED  BY <2>1, <2>2, <2>3, <2>4 DEF Kept
  <1>3. CASE InitZeroError(t)
    <2>1. RestOK' /\ CapHolds'
      BY <1>0, <1>3, CapFrame DEF InitZeroError, Fault, RestOK
    <2>2. LocalsOK'
      BY <1>0, <1>3, GotoLocals DEF InitZeroError
    <2>3. ReadFits'
      BY <1>0, <1>3 DEF InitZeroError, Goto, ReadFits, LocalsOK, Value
    <2> QED  BY <2>1, <2>2, <2>3 DEF Kept
  <1>4. CASE CasHit(t)
    <2>1. Amount[item[t]] \in Nat /\ Value(seen[t]) \in Nat
      BY <1>0 DEF LocalsOK, Value
    <2>2. Value(seen[t]) + Amount[item[t]] <= Total
      BY <1>0, <1>4 DEF CasHit, ReadFits
    <2>3. RestOK'
      BY <1>0, <1>4, <2>1 DEF CasHit, RestOK
    <2>4. CapHolds'
      BY <1>0, <1>4, <2>1, <2>2 DEF CasHit, CapHolds, Value, RestOK
    <2> QED  BY <1>0, <1>4, <2>3, <2>4, GotoLocals, ReadFitsFrame DEF CasHit, Kept
  <1>5. CASE CasMiss(t)
    <2>1. RestOK' /\ CapHolds'
      BY <1>0, <1>5, CapFrame DEF CasMiss, RestOK
    <2>2. CASE End(t)
      BY <1>0, <2>1, <2>2, EndLocals, ReadFitsFrame DEF Kept
    <2>3. CASE ~End(t)
      <3>1. /\ attempt[t] < Attempts
            /\ pc' = [pc EXCEPT ![t] = "read"]
            /\ attempt' = [attempt EXCEPT ![t] = attempt[t] + 1]
            /\ UNCHANGED <<item, snapshot, seen>>
        BY <1>5, <2>3 DEF CasMiss
      <3>2. LocalsOK'
        BY <1>0, <3>1 DEF LocalsOK, Attempts
      <3>3. ReadFits'
        BY <1>0, <3>1 DEF ReadFits, LocalsOK, Value
      <3> QED  BY <2>1, <3>2, <3>3 DEF Kept
    <2> QED  BY <2>2, <2>3
  <1>6. CASE NoIntent(t) \/ Restock(t) \/ Stop(t)
    <2>1. RestOK' /\ CapHolds' /\ End(t)
      BY <1>0, <1>6, CapFrame DEF NoIntent, Restock, Stop, Fault, RestOK
    <2> QED  BY <1>0, <2>1, EndLocals, ReadFitsFrame DEF Kept
  <1>7. CASE StripeOk(t) \/ StripeFails(t) \/ StripeTimeout(t)
    <2>1. RestOK'
      BY <1>0, <1>7 DEF StripeOk, StripeFails, StripeTimeout, Fault, RestOK, LocalsOK
    <2>2. CapHolds'
      BY <1>0, <1>7, CapFrame DEF StripeOk, StripeFails, StripeTimeout
    <2> QED
      BY <1>0, <1>7, <2>1, <2>2, GotoLocals, ReadFitsFrame
         DEF StripeOk, StripeFails, StripeTimeout, Kept
  <1>8. CASE RollbackRead(t) \/ RollbackReadError(t)
    <2>1. RestOK' /\ CapHolds'
      BY <1>0, <1>8, CapFrame DEF RollbackRead, RollbackReadError, Fault, RestOK
    <2>2. PICK v \in {0, Value(cumulative)} : seen' = [seen EXCEPT ![t] = v]
      BY <1>8 DEF RollbackRead, RollbackReadError
    <2>3. v \in Nat /\ v <= Total
      BY <1>0, <2>2 DEF RestOK, CapHolds, Value
    <2>4. pc' = [pc EXCEPT ![t] = "rollback"] /\ UNCHANGED <<item, snapshot, attempt>>
      BY <1>8 DEF RollbackRead, RollbackReadError
    <2>5. LocalsOK'
      BY <1>0, <2>2, <2>3, <2>4 DEF LocalsOK
    <2>6. ReadFits'
      BY <1>0, <2>2, <2>3, <2>4 DEF ReadFits, LocalsOK, Value
    <2> QED  BY <2>1, <2>5, <2>6 DEF Kept
  <1>9. CASE Rollback(t)
    <2>1. Amount[item[t]] \in Nat /\ seen[t] \in Nat /\ seen[t] <= Total
      BY <1>0, <1>9 DEF Rollback, LocalsOK, ReadFits
    <2>2. RestOK'
      BY <1>0, <1>9, <2>1 DEF Rollback, RestOK
    <2>3. CapHolds'
      BY <1>0, <1>9, <2>1 DEF Rollback, CapHolds, Value, RestOK
    <2> QED  BY <1>0, <1>9, <2>2, <2>3, EndLocals, ReadFitsFrame DEF Rollback, Kept
  <1>10. CASE Mark(t)
    <2>1. RestOK' /\ CapHolds'
      BY <1>0, <1>10, CapFrame DEF Mark, RestOK, LocalsOK
    <2> QED  BY <1>0, <1>10, <2>1, GotoLocals, ReadFitsFrame DEF Mark, Kept
  <1> QED
    BY <1>1, <1>2, <1>3, <1>4, <1>5, <1>6, <1>7, <1>8, <1>9, <1>10 DEF Step

LEMMA BeginInv == ASSUME Kept, NEW t \in Task, NEW i \in Item, Begin(t, i)  PROVE Kept'
  <1>0. LocalsOK /\ RestOK /\ CapHolds /\ ReadFits
    BY DEF Kept
  <1> USE DEF order, history
  <1>1. RestOK' /\ CapHolds'
    BY <1>0, CapFrame DEF Begin, RestOK
  <1>2. LocalsOK'
    BY <1>0 DEF Begin, LocalsOK, RestOK
  <1>3. ReadFits'
    BY <1>0 DEF Begin, LocalsOK, ReadFits, Value
  <1> QED  BY <1>1, <1>2, <1>3 DEF Kept

LEMMA StutterInv == ASSUME Kept, UNCHANGED vars  PROVE Kept'
  BY DEF Kept, LocalsOK, RestOK, CapHolds, ReadFits, Value, vars, order, locals, history

\* The inductive invariant holds in every reachable state.
THEOREM Invariance == Spec => []Inv
  <1>1. Kept /\ [Next]_vars => Kept'
    BY StepInv, BeginInv, StutterInv DEF Next
  <1>2. Init => Kept
    BY InitInv, KeptIsInv
  <1> QED  BY <1>1, <1>2, KeptIsInv, PTL DEF Spec

\* Types, for every value of the constants: the field is never negative.
THEOREM TypeCorrect == Spec => []TypeOK
  BY Invariance, PTL DEF Inv

\* The cap on refunds: cumulativeRefundedCents never exceeds totalAmountCents,
\* and it covers every reservation in force unless an unconditional write has
\* overwritten a value it did not read, for any number of concurrent requests.
THEOREM Cap == Spec => []CapHolds
  BY Invariance, PTL DEF Inv

-----------------------------------------------------------------------------
\* The copies of the items array hold only refunded items, and so does the
\* request that is about to write one.
CopiesArePaid ==
    \A t \in Task :
        /\ snapshot[t] \subseteq paid
        /\ pc[t] = "mark" => item[t] \in paid

LEMMA MarkStep ==
  ASSUME TypeOK, MarkedIsPaid, CopiesArePaid, [Next]_vars
  PROVE  MarkedIsPaid' /\ CopiesArePaid'
  <1> USE DEF TypeOK, MarkedIsPaid, CopiesArePaid
  <1>1. ASSUME NEW t \in Task, NEW i \in Item, Begin(t, i)
        PROVE  MarkedIsPaid' /\ CopiesArePaid'
    BY <1>1 DEF Begin, order
  <1>2. ASSUME NEW t \in Task, ReadTotal(t) \/ CasMiss(t)
        PROVE  MarkedIsPaid' /\ CopiesArePaid'
    BY <1>2 DEF ReadTotal, CasMiss, End, order
  <1>3. ASSUME NEW t \in Task, InitZero(t) \/ InitZeroError(t) \/ CasHit(t)
        PROVE  MarkedIsPaid' /\ CopiesArePaid'
    BY <1>3 DEF InitZero, InitZeroError, CasHit, Goto, order
  <1>4. ASSUME NEW t \in Task, NoIntent(t) \/ Restock(t) \/ Stop(t) \/ Rollback(t)
        PROVE  MarkedIsPaid' /\ CopiesArePaid'
    BY <1>4 DEF NoIntent, Restock, Stop, Rollback, End, order
  <1>5. ASSUME NEW t \in Task, StripeOk(t) \/ StripeFails(t) \/ StripeTimeout(t)
        PROVE  MarkedIsPaid' /\ CopiesArePaid'
    BY <1>5 DEF StripeOk, StripeFails, StripeTimeout, Goto, order
  <1>6. ASSUME NEW t \in Task, RollbackRead(t) \/ RollbackReadError(t)
        PROVE  MarkedIsPaid' /\ CopiesArePaid'
    BY <1>6 DEF RollbackRead, RollbackReadError, order
  <1>7. ASSUME NEW t \in Task, Mark(t)
        PROVE  MarkedIsPaid' /\ CopiesArePaid'
    BY <1>7 DEF Mark, Goto
  <1>8. CASE UNCHANGED vars
    BY <1>8 DEF vars, order, locals
  <1> QED
    BY SMTT(15), <1>1, <1>2, <1>3, <1>4, <1>5, <1>6, <1>7, <1>8 DEF Next, Step

\* refund_order_item marks only items that Stripe refunded.
THEOREM MarkedPaid == Spec => []MarkedIsPaid
  <1>1. Init => MarkedIsPaid /\ CopiesArePaid
    BY DEF Init, MarkedIsPaid, CopiesArePaid
  <1>2. TypeOK /\ MarkedIsPaid /\ CopiesArePaid /\ [Next]_vars
          => (MarkedIsPaid /\ CopiesArePaid)'
    BY MarkStep
  <1> QED  BY <1>1, <1>2, TypeCorrect, PTL DEF Spec
-----------------------------------------------------------------------------
(* PaidOrder: what the order says of the capture. *)

PLabel ==
    {"idle", "capture", "capture_write", "refund", "cancel_pi", "quarantine", "close",
     "close_restore", "handle", "sum", "sync", "sync_restore", "sync_write"}

\* A task that is about to write that the payment is captured heard so from Stripe, which
\* does not take it back.
Heard ==
    /\ ppc \in [Task -> PLabel] /\ newPay \in [Task -> {"refunded", "cancelled"}]
    /\ \A t \in Task : ppc[t] = "capture_write" => pi = "captured"

PInv == Heard /\ P!CapturedIsReal

\* What End and Goto do.
LEMMA PMoves ==
  ASSUME Heard, NEW t \in Task
  PROVE  /\ P!End(t) =>
              /\ ppc' \in [Task -> PLabel] /\ newPay' \in [Task -> {"refunded", "cancelled"}]
              /\ ppc'[t] # "capture_write" /\ \A u \in Task \ {t} : ppc'[u] = ppc[u]
         /\ \A label \in PLabel : P!Goto(t, label) =>
              /\ ppc' \in [Task -> PLabel] /\ newPay' \in [Task -> {"refunded", "cancelled"}]
              /\ ppc'[t] = label /\ \A u \in Task \ {t} : ppc'[u] = ppc[u]
  BY Zenon DEF Heard, P!End, P!Goto, PLabel

\* A step that does not say that the payment is captured.
LEMMA PQuiet ==
  ASSUME PInv, NEW t \in Task,
         ppc' \in [Task -> PLabel], newPay' \in [Task -> {"refunded", "cancelled"}],
         \A u \in Task \ {t} : ppc'[u] = ppc[u],
         ppc'[t] = "capture_write" => pi' = "captured",
         pi = "captured" => pi' = "captured",
         pay' = "captured" => pay = "captured" \/ pi' = "captured",
         status' = "processing" => status = "processing" \/ pi' = "captured"
  PROVE  PInv'
  BY Zenon DEF PInv, Heard, P!CapturedIsReal

\* capture_payment.
LEMMA PCapture ==
  ASSUME PInv, NEW t \in Task, P!CaptureStep(t)
  PROVE  PInv'
  <1>0. Heard
    BY Zenon DEF PInv
  <1>1. CASE P!CaptureBegin(t)
    <2>1. /\ ppc' = [ppc EXCEPT ![t] = "capture"] /\ UNCHANGED <<newPay, pi, pay, status>>
      BY Zenon, <1>1 DEF P!CaptureBegin, P!order, P!stripe
    <2> QED  BY Zenon, <1>0, <2>1, PQuiet DEF Heard, PLabel
  <1>2. CASE P!CaptureStripe(t)
    <2>1. /\ UNCHANGED <<pay, status>>
          /\ \/ pi = "canceled" /\ pi' = pi /\ P!End(t)
             \/ pi' = "captured" /\ P!Goto(t, "capture_write")
      BY Zenon, <1>2 DEF P!CaptureStripe, P!order
    <2> QED  BY Zenon, <1>0, <2>1, PMoves, PQuiet DEF PLabel
  <1>3. CASE P!CaptureUnheard(t)
    <2>1. UNCHANGED <<pay, status>> /\ pi' = "captured" /\ P!End(t)
      BY Zenon, <1>3 DEF P!CaptureUnheard, P!order
    <2> QED  BY Zenon, <1>0, <2>1, PMoves, PQuiet
  <1>4. CASE P!CaptureWrite(t)
    <2>1. pi' = pi /\ pi = "captured" /\ P!End(t)
      BY Zenon, <1>0, <1>4 DEF P!CaptureWrite, P!stripe, Heard
    <2> QED  BY Zenon, <1>0, <2>1, PMoves, PQuiet
  <1> QED  BY Zenon, <1>1, <1>2, <1>3, <1>4 DEF P!CaptureStep

\* cancel_order.
LEMMA PCancel ==
  ASSUME PInv, NEW t \in Task, P!CancelStep(t)
  PROVE  PInv'
  <1>0. Heard
    BY Zenon DEF PInv
  <1>1. CASE P!CancelBegin(t)
    <2>1. PICK label \in {"refund", "cancel_pi", "close"} : ppc' = [ppc EXCEPT ![t] = label]
      BY Zenon, <1>1 DEF P!CancelBegin
    <2>2. UNCHANGED <<newPay, pi, pay, status>>
      BY Zenon, <1>1 DEF P!CancelBegin, P!order, P!stripe
    <2> QED  BY <1>0, <2>1, <2>2, PQuiet DEF Heard, PLabel
  <1>2. CASE P!CancelRefund(t)
    <2>1. /\ UNCHANGED <<pi, pay, status>> /\ ppc' = [ppc EXCEPT ![t] = "close"]
          /\ newPay' = [newPay EXCEPT ![t] = "refunded"]
      BY Zenon, <1>2 DEF P!CancelRefund, P!Make, P!order, P!stripe
    <2> QED  BY <1>0, <2>1, PQuiet DEF Heard, PLabel
  <1>3. CASE P!CancelRefundFails(t) \/ P!CancelRefundUnheard(t)
    <2>1. UNCHANGED <<pi, pay, status>> /\ P!Goto(t, "quarantine")
      BY Zenon, <1>3 DEF P!CancelRefundFails, P!CancelRefundUnheard, P!Make, P!order, P!stripe
    <2> QED  BY Zenon, <1>0, <2>1, PMoves, PQuiet DEF PLabel
  <1>4. CASE P!CancelPi(t) \/ P!CancelPiFails(t)
    <2>1. /\ UNCHANGED <<pay, status>> /\ (pi = "captured" => pi' = "captured")
          /\ P!Goto(t, "close") \/ P!Goto(t, "quarantine")
      BY Zenon, <1>4 DEF P!CancelPi, P!CancelPiFails, P!order
    <2> QED  BY Zenon, <1>0, <2>1, PMoves, PQuiet DEF PLabel
  <1>5. CASE P!Quarantine(t)
    <2>1. UNCHANGED <<pi, status>> /\ pay' = "cancel_failed" /\ P!End(t)
      BY Zenon, <1>5 DEF P!Quarantine, P!stripe
    <2> QED  BY Zenon, <1>0, <2>1, PMoves, PQuiet
  <1>6. CASE P!CloseWins(t)
    <2>1. /\ pi' = pi /\ status' = "cancelled" /\ pay' = newPay[t]
          /\ P!End(t) \/ P!Goto(t, "close_restore")
      BY Zenon, <1>6 DEF P!CloseWins, P!stripe
    <2>2. pay' # "captured"
      BY Zenon, <1>0, <2>1 DEF Heard
    <2> QED  BY Zenon, <1>0, <2>1, <2>2, PMoves, PQuiet DEF PLabel
  <1>7. CASE P!CloseLoses(t) \/ P!CloseRestore(t)
    <2>1. UNCHANGED <<pi, pay, status>> /\ P!End(t)
      BY Zenon, <1>7 DEF P!CloseLoses, P!CloseRestore, P!order, P!stripe
    <2> QED  BY Zenon, <1>0, <2>1, PMoves, PQuiet
  <1> QED  BY Zenon, <1>1, <1>2, <1>3, <1>4, <1>5, <1>6, <1>7 DEF P!CancelStep

\* The events of refunds and disputes, and what goes wrong in any handler.
LEMMA PEvent ==
  ASSUME PInv, NEW t \in Task, P!EventStep(t) \/ P!HandlerError(t) \/ P!Crash(t)
  PROVE  PInv'
  <1>0. Heard
    BY Zenon DEF PInv
  <1>1. ASSUME NEW e \in events, P!StartEvent(t, e) PROVE PInv'
    <2>1. PICK label \in {"sync", "handle"} : ppc' = [ppc EXCEPT ![t] = label]
      BY Zenon, <1>1 DEF P!StartEvent
    <2>2. UNCHANGED <<newPay, pi, pay, status>>
      BY Zenon, <1>1 DEF P!StartEvent, P!order, P!stripe
    <2> QED  BY <1>0, <2>1, <2>2, PQuiet DEF Heard, PLabel
  <1>2. CASE P!UpsertRecord(t)
    <2>1. UNCHANGED <<pi, pay, status>> /\ (P!End(t) \/ P!Goto(t, "sum"))
      BY Zenon, <1>2 DEF P!UpsertRecord
    <2> QED  BY Zenon, <1>0, <2>1, PMoves, PQuiet DEF PLabel
  <1>3. CASE P!SumRecords(t)
    <2>1. /\ UNCHANGED <<pi, pay, status>>
          /\ P!End(t) \/ (ppc' = [ppc EXCEPT ![t] = "sync"] /\ newPay' = newPay)
      BY Zenon, <1>3 DEF P!SumRecords, P!order
    <2>2. CASE P!End(t)
      BY Zenon, <1>0, <2>1, <2>2, PMoves, PQuiet
    <2>3. CASE ppc' = [ppc EXCEPT ![t] = "sync"] /\ newPay' = newPay
      BY <1>0, <2>1, <2>3, PQuiet DEF Heard, PLabel
    <2> QED  BY Zenon, <2>1, <2>2, <2>3
  <1>4. CASE P!SyncRead(t)
    <2>1. PICK label \in {"sync_restore", "sync_write"} : ppc' = [ppc EXCEPT ![t] = label]
      BY Zenon, <1>4 DEF P!SyncRead
    <2>2. UNCHANGED <<newPay, pi, pay, status>>
      BY Zenon, <1>4 DEF P!SyncRead, P!order, P!stripe
    <2> QED  BY <1>0, <2>1, <2>2, PQuiet DEF Heard, PLabel
  <1>5. CASE P!SyncRestore(t)
    <2>1. UNCHANGED <<pi, pay, status>> /\ P!Goto(t, "sync_write")
      BY Zenon, <1>5 DEF P!SyncRestore, P!order, P!stripe
    <2> QED  BY Zenon, <1>0, <2>1, PMoves, PQuiet DEF PLabel
  <1>6. CASE P!SyncWrite(t) \/ P!DisputeCreated(t)
    <2>1. /\ pi' = pi /\ P!End(t) /\ (pay' = "captured" => pay = "captured")
          /\ status' = "processing" => status = "processing"
      BY Zenon, <1>6 DEF P!SyncWrite, P!DisputeCreated
    <2> QED  BY Zenon, <1>0, <2>1, PMoves, PQuiet
  <1>7. CASE P!HandlerError(t) \/ P!Crash(t)
    <2>1. UNCHANGED <<pi, pay, status>> /\ P!End(t)
      BY Zenon, <1>7 DEF P!HandlerError, P!Crash, P!order, P!stripe
    <2> QED  BY Zenon, <1>0, <2>1, PMoves, PQuiet
  <1> QED  BY Zenon, <1>1, <1>2, <1>3, <1>4, <1>5, <1>6, <1>7 DEF P!EventStep

\* An order shown as captured, or in processing, was captured at Stripe (capture_payment,
\* cancel_order and the handlers of refunds and disputes), for any number of handlers,
\* refunds, cancellations and faults.
THEOREM Captured == P!Spec => []CapturedIsReal
  <1>1. P!Init => PInv
    BY DEF P!Init, PInv, Heard, PLabel, P!CapturedIsReal
  <1>2. PInv /\ [P!Next]_P!vars => PInv'
    <2> SUFFICES ASSUME PInv, [P!Next]_P!vars PROVE PInv'
      OBVIOUS
    <2>1. ASSUME UNCHANGED <<ppc, newPay, pi, pay, status>> PROVE PInv'
      BY Zenon, <2>1 DEF PInv, Heard, P!CapturedIsReal
    <2>2. CASE UNCHANGED P!vars
      BY Zenon, <2>1, <2>2 DEF P!vars, P!order, P!stripe, P!task
    <2>3. CASE (\E r \in Part : P!PartRefund(r)) \/ (\E r \in P!Refund : P!RefundEnds(r)) \/ P!DisputeOpens
      BY Zenon, <2>1, <2>3 DEF P!PartRefund, P!Make, P!RefundEnds, P!DisputeOpens, P!order, P!task
    <2> QED  BY Zenon, <2>2, <2>3, PCapture, PCancel, PEvent DEF P!Next
  <1>3. PInv => CapturedIsReal
    BY Zenon DEF PInv, CapturedIsReal
  <1> QED  BY <1>1, <1>2, <1>3, PTL DEF P!Spec
=============================================================================
