------------------------- MODULE CheckoutOrderProofs -------------------------
(***************************************************************************)
(* Proofs about CheckoutOrder, for any orders, carts, products, number of  *)
(* workers and number of errors and crashes.                               *)
(***************************************************************************)
EXTENDS CheckoutOrder, TLAPS

USE CartAssumption, StockAssumption, OrderAssumption, BoundAssumption

\* A worker that has closed its order and has units left to return.
Returns(w) == pc[w] \in {"cancel_pi", "restore"}

\* The units it will return are not back yet.
Fresh(w) ==
    /\ pc[w] = "restore" =>
        \A p \in todo[w] \cap Physical(ord[w]) : given[<<ord[w], p>>] = 0
    /\ pc[w] = "cancel_pi" =>
        \A p \in Physical(ord[w]) : given[<<ord[w], p>>] = 0

\* Why nothing is returned twice: a worker returns units of a closed order
\* only, it is alone in doing so, and its units are fresh.
ReturnerClosed ==
    \A w \in Worker : Returns(w) /\ ord[w] \notin disturbed =>
        status[ord[w]] \in Closed /\ Fresh(w)

ReturnerAlone ==
    \A v, w \in Worker :
        Returns(v) /\ Returns(w) /\ ord[v] = ord[w] /\ ord[w] \notin disturbed => v = w

TakenInFull ==
    \A o \in Order \ disturbed : status[o] # "none" => taken[o] = Physical(o)

Inv ==
    /\ TypeOK
    /\ HeldWhileOpen
    /\ ReturnedAtMostOnce
    /\ ReturnerClosed
    /\ ReturnerAlone
    /\ TakenInFull

LEMMA InitInv == Init => Inv
  <1> SUFFICES ASSUME Init  PROVE Inv
    OBVIOUS
  <1>1. TypeOK
    BY Zenon DEF Init, TypeOK, Open, Job, Webhook, Request
  <1>2. HeldWhileOpen /\ ReturnedAtMostOnce
    BY DEF Init, HeldWhileOpen, ReturnedAtMostOnce, Physical
  <1>3. ReturnerClosed /\ ReturnerAlone
    BY Zenon DEF Init, ReturnerClosed, ReturnerAlone, Returns
  <1>4. TakenInFull
    BY Zenon DEF Init, TakenInFull
  <1> QED  BY <1>1, <1>2, <1>3, <1>4 DEF Inv

-----------------------------------------------------------------------------
(* Types. *)

\* What a worker's own variables are typed by.
TaskOK ==
    /\ pc \in [Worker -> {"idle", "session", "commit", "read", "cas", "link",
                          "redeem", "cancel_pi", "restore", "release"}]
    /\ job \in [Worker -> Job]
    /\ ord \in [Worker -> Order \cup {NoOrder}]
    /\ \A w \in Worker : pc[w] # "idle" => ord[w] \in Order
    /\ seen \in [Worker -> Open]
    /\ seenFlag \subseteq Worker
    /\ seenPi \subseteq Worker
    /\ todo \in [Worker -> SUBSET Product]

LEMMA TaskType == TypeOK => TaskOK
  BY Zenon DEF TypeOK, TaskOK

LEMMA StartType ==
  ASSUME TaskOK, NEW w \in Worker, NEW j \in Job, NEW o \in Order,
         NEW l \in {"session", "read"}, Start(w, j, o, l)
  PROVE  TaskOK'
  BY Zenon DEF TaskOK, Start

LEMMA GotoType ==
  ASSUME TaskOK, NEW w \in Worker, pc[w] # "idle",
         NEW l \in {"commit", "cas", "link", "redeem", "cancel_pi", "release"},
         Goto(w, l)
  PROVE  TaskOK'
  BY Zenon DEF TaskOK, Goto

LEMMA EndType ==
  ASSUME TaskOK, NEW w \in Worker, End(w)
  PROVE  TaskOK'
  BY Zenon DEF TaskOK, End, Job, Open

LEMMA RestoringType ==
  ASSUME TaskOK, NEW w \in Worker, pc[w] # "idle", NEW S \in SUBSET Product,
         Restoring(w, S)
  PROVE  TaskOK'
  BY Zenon DEF TaskOK, Restoring

LEMMA SnapshotType ==
  ASSUME TypeOK, NEW w \in Worker, NEW j \in Job, NEW o \in Order, Snapshot(w, j, o)
  PROVE  TaskOK'
  BY Zenon DEF TypeOK, TaskOK, Snapshot

\* The rest of the state.
RestOK ==
    /\ status \in [Order -> {"none"} \cup Open \cup Closed]
    /\ pay \in [Order -> {"none", "awaiting_payment", "cancelled"}]
    /\ flagged \subseteq Order
    /\ linked \subseteq Order
    /\ coupon \in [Order -> {"none", "reserved", "redeemed"}]
    /\ stock \in [Product -> Nat]
    /\ session \in [Order -> {"none", "open", "complete", "expired"}]
    /\ payment \in [Order -> {"none", "processing", "authorized", "failed", "released"}]
    /\ events \subseteq Webhook \X Order
    /\ asked \subseteq {"checkout", "cancel", "expire"} \X Order
    /\ taken \in [Order -> SUBSET Product]
    /\ given \in [Order \X Product -> Nat]
    /\ disturbed \subseteq Order
    /\ errors \in Nat
    /\ crashes \in Nat

LEMMA TypeSplit == TypeOK <=> TaskOK /\ RestOK
  BY Zenon DEF TypeOK, TaskOK, RestOK

LEMMA TypeSplitPrime == TypeOK' <=> TaskOK' /\ RestOK'
  BY Zenon DEF TypeOK, TaskOK, RestOK

\* What the relations between workers and orders need of it.
DocOK ==
    /\ status \in [Order -> {"none"} \cup Open \cup Closed]
    /\ taken \in [Order -> SUBSET Product]
    /\ given \in [Order \X Product -> Nat]

LEMMA DocType == TypeOK => DocOK
  BY Zenon DEF TypeOK, DocOK

LEMMA PhysicalType == \A o \in Order : Physical(o) \in SUBSET Product /\ Cart[o] \in SUBSET Product
  BY Zenon DEF Physical

LEMMA TargetType == \A j \in Job : Target(j) \in {"confirmed"} \cup Closed
  BY Zenon DEF Target, Job, Closed

LEMMA StepType == \A w \in Worker : TypeOK /\ Step(w) => TypeOK'
  <1> SUFFICES ASSUME NEW w \in Worker, TypeOK, Step(w)  PROVE TaskOK' /\ RestOK'
    BY Zenon, TypeSplitPrime
  <1>0. TaskOK /\ RestOK
    BY Zenon, TypeSplit
  <1> USE DEF doc, stripe, history, faults
  <1>1. CASE CreateSession(w)
    <2>1. RestOK'
      BY Zenon, <1>0, <1>1 DEF CreateSession, RestOK, TaskOK
    <2> QED  BY <1>0, <1>1, <2>1, EndType, GotoType DEF CreateSession
  <1>2. CASE CommitOrder(w)
    <2>1. ord[w] \in Order
      BY Zenon, <1>0, <1>2 DEF CommitOrder, TaskOK
    <2>2. stock' \in [Product -> Nat]
      BY <1>0, <1>2 DEF CommitOrder, RestOK
    <2>3. taken' \in [Order -> SUBSET Product] /\ disturbed' \subseteq Order
      BY Zenon, <1>0, <1>2, <2>1, PhysicalType DEF CommitOrder, RestOK
    <2>4. RestOK'
      BY Zenon, <1>0, <1>2, <2>1, <2>2, <2>3 DEF CommitOrder, RestOK, Open
    <2> QED  BY <1>0, <1>2, <2>4, EndType DEF CommitOrder
  <1>3. CASE ReadForEvent(w)
    <2>1. RestOK'
      BY Zenon, <1>0, <1>3 DEF ReadForEvent, RestOK, Ack
    <2> QED  BY <1>0, <1>3, <2>1, EndType, GotoType DEF ReadForEvent
  <1>4. CASE UpdateWins(w)
    <2>1. ord[w] \in Order /\ job[w] \in Job
      BY Zenon, <1>0, <1>4 DEF UpdateWins, TaskOK
    <2>2. RestOK'
      BY Zenon, <1>0, <1>4, <2>1, TargetType DEF UpdateWins, RestOK, Open
    <2> QED
      BY Zenon, <1>0, <1>4, <2>1, <2>2, PhysicalType, GotoType, RestoringType DEF UpdateWins
  <1>5. CASE UpdateLoses(w)
    <2>1. ord[w] \in Order
      BY Zenon, <1>0, <1>5 DEF UpdateLoses, TaskOK
    <2>2. RestOK'
      <3>1. /\ UNCHANGED <<status, pay, flagged, linked, coupon, session, payment, stock>>
            /\ events' \subseteq events /\ disturbed' \subseteq disturbed \cup {ord[w]}
        BY Zenon, <1>5 DEF UpdateLoses, Ack
      <3> QED BY Zenon, <1>0, <1>5, <2>1, <3>1 DEF UpdateLoses, RestOK
    <2> QED
      BY Zenon, <1>0, <1>5, <2>1, <2>2, PhysicalType, GotoType, RestoringType, EndType DEF UpdateLoses
  <1>6. CASE Link(w)
    <2>1. RestOK'
      BY <1>0, <1>6 DEF Link, RestOK, TaskOK
    <2> QED  BY <1>0, <1>6, <2>1, EndType, GotoType DEF Link
  <1>7. CASE Redeem(w) \/ Release(w)
    <2>1. coupon' \in [Order -> {"none", "reserved", "redeemed"}]
      BY <1>0, <1>7 DEF Redeem, Release, RestOK
    <2>2. events' \subseteq Webhook \X Order
      BY Zenon, <1>0, <1>7 DEF Redeem, Release, RestOK, Ack
    <2>3. RestOK'
      BY Zenon, <1>0, <1>7, <2>1, <2>2 DEF Redeem, Release, RestOK
    <2> QED  BY <1>0, <1>7, <2>3, EndType DEF Redeem, Release
  <1>8. ASSUME NEW p \in Product, RestoreOne(w, p)  PROVE TaskOK' /\ RestOK'
    <2>1. ord[w] \in Order
      BY Zenon, <1>0, <1>8 DEF RestoreOne, TaskOK
    <2>2. given' \in [Order \X Product -> Nat]
      BY <1>0, <1>8, <2>1 DEF RestoreOne, RestOK
    <2>3. RestOK'
      BY <1>0, <1>8, <2>2 DEF RestoreOne, RestOK
    <2>4. TaskOK'
      BY Zenon, <1>0, <1>8 DEF RestoreOne, TaskOK
    <2> QED  BY <2>3, <2>4
  <1>9. CASE RestoreDone(w)
    <2>1. RestOK'
      BY Zenon, <1>0, <1>9 DEF RestoreDone, RestOK
    <2> QED  BY <1>0, <1>9, <2>1, EndType, GotoType DEF RestoreDone
  <1>10. CASE CloseWins(w)
    <2>1. ord[w] \in Order /\ job[w] \in Job
      BY Zenon, <1>0, <1>10 DEF CloseWins, TaskOK
    <2>2. RestOK'
      BY Zenon, <1>0, <1>10, <2>1, TargetType DEF CloseWins, RestOK, Open
    <2>3. (IF w \in seenFlag THEN {} ELSE Physical(ord[w])) \in SUBSET Product
      BY Zenon, <2>1, PhysicalType
    <2> QED
      BY Zenon, <1>0, <1>10, <2>2, <2>3, GotoType, RestoringType DEF CloseWins
  <1>11. CASE CloseLoses(w)
    <2>1. RestOK'
      BY Zenon, <1>0, <1>11 DEF CloseLoses, RestOK
    <2> QED  BY <1>0, <1>11, <2>1, EndType DEF CloseLoses
  <1>12. CASE CancelPi(w)
    <2>1. ord[w] \in Order
      BY Zenon, <1>0, <1>12 DEF CancelPi, TaskOK
    <2>2. RestOK'
      BY Zenon, <1>0, <1>12, <2>1 DEF CancelPi, RestOK
    <2>3. (IF w \in seenFlag THEN {} ELSE Physical(ord[w])) \in SUBSET Product
      BY Zenon, <2>1, PhysicalType
    <2> QED  BY <1>0, <1>12, <2>2, <2>3, RestoringType DEF CancelPi
  <1> QED
    BY Zenon, <1>1, <1>2, <1>3, <1>4, <1>5, <1>6, <1>7, <1>8, <1>9, <1>10, <1>11, <1>12
       DEF Step

LEMMA FaultyType == \A w \in Worker : TypeOK /\ Faulty(w) => TypeOK'
  <1> SUFFICES ASSUME NEW w \in Worker, TypeOK, Faulty(w)  PROVE TaskOK' /\ RestOK'
    BY Zenon, TypeSplitPrime
  <1>0. TaskOK /\ RestOK
    BY Zenon, TypeSplit
  <1> USE DEF doc, stripe, history, faults
  <1>1. CASE CommitError(w) \/ HandlerError(w) \/ ReleaseError(w) \/ Crash(w)
    <2>1. End(w)
      BY Zenon, <1>1 DEF CommitError, HandlerError, ReleaseError, Crash
    <2>2. errors' \in Nat /\ crashes' \in Nat
      BY <1>0, <1>1 DEF CommitError, HandlerError, ReleaseError, Crash, Error, RestOK
    <2>3. events' \subseteq Webhook \X Order
      BY Zenon, <1>0, <1>1 DEF CommitError, HandlerError, ReleaseError, Crash, Ack, RestOK
    <2>4. RestOK'
      BY Zenon, <1>0, <1>1, <2>2, <2>3
         DEF CommitError, HandlerError, ReleaseError, Crash, RestOK
    <2> QED  BY <1>0, <2>1, <2>4, EndType
  <1>2. ASSUME NEW p \in Product, RestoreSkips(w, p)  PROVE TaskOK' /\ RestOK'
    <2>1. TaskOK'
      BY Zenon, <1>0, <1>2 DEF RestoreSkips, TaskOK
    <2>2. RestOK'
      BY <1>0, <1>2 DEF RestoreSkips, RestOK, Error
    <2> QED  BY <2>1, <2>2
  <1> QED  BY <1>1, <1>2 DEF Faulty

LEMMA BeginsType == \A w \in Worker, o \in Order : TypeOK /\ Begins(w, o) => TypeOK'
  <1> SUFFICES ASSUME NEW w \in Worker, NEW o \in Order, TypeOK, Begins(w, o)
               PROVE  TaskOK' /\ RestOK'
    BY Zenon, TypeSplitPrime
  <1>0. TaskOK /\ RestOK
    BY Zenon, TypeSplit
  <1> USE DEF doc, stripe, history, faults
  <1>1. CASE CheckoutBegin(w, o)
    <2>1. RestOK'
      BY <1>0, <1>1 DEF CheckoutBegin, RestOK, Ask, Error
    <2>2. "checkout" \in Job
      BY Zenon DEF Job
    <2> QED  BY <1>0, <1>1, <2>1, <2>2, StartType DEF CheckoutBegin
  <1>2. ASSUME NEW k \in Webhook, StartEvent(w, k, o)  PROVE TaskOK' /\ RestOK'
    <2>1. RestOK'
      BY Zenon, <1>0, <1>2 DEF StartEvent, RestOK
    <2>2. k \in Job
      BY Zenon DEF Job
    <2> QED  BY <1>0, <1>2, <2>1, <2>2, StartType DEF StartEvent
  <1>3. CASE CancelBegin(w, o) \/ ExpireBegin(w, o)
    <2>1. RestOK'
      BY <1>0, <1>3 DEF CancelBegin, ExpireBegin, RestOK, Ask
    <2>2. "cancel" \in Job /\ "expire" \in Job
      BY Zenon DEF Job, Request
    <2> QED  BY <1>3, <2>1, <2>2, SnapshotType DEF CancelBegin, ExpireBegin
  <1> QED  BY <1>1, <1>2, <1>3 DEF Begins

LEMMA BuyerType == \A o \in Order : TypeOK /\ Buyer(o) => TypeOK'
  <1> SUFFICES ASSUME NEW o \in Order, TypeOK, Buyer(o)  PROVE TypeOK'
    OBVIOUS
  <1>1. events' \subseteq Webhook \X Order
    BY DEF TypeOK, Buyer, PayByCard, PayByDebit, DebitSettles, DebitFails, Decline,
           SessionExpires, Emit, Webhook, Confirming, Closing
  <1>2. session' \in [Order -> {"none", "open", "complete", "expired"}]
    BY DEF TypeOK, Buyer, PayByCard, PayByDebit, DebitSettles, DebitFails, Decline,
           SessionExpires
  <1>3. payment' \in [Order -> {"none", "processing", "authorized", "failed", "released"}]
    BY DEF TypeOK, Buyer, PayByCard, PayByDebit, DebitSettles, DebitFails, Decline,
           SessionExpires
  <1>4. UNCHANGED <<doc, stock, task, asked, history, faults>>
    BY Zenon DEF Buyer, PayByCard, PayByDebit, DebitSettles, DebitFails, Decline, SessionExpires
  <1> QED
    BY Zenon, <1>1, <1>2, <1>3, <1>4 DEF TypeOK, doc, task, history, faults

LEMMA NextType == TypeOK /\ [Next]_vars => TypeOK'
  <1>1. TypeOK /\ UNCHANGED vars => TypeOK'
    BY Zenon DEF TypeOK, vars, doc, stripe, task, history, faults
  <1> QED  BY <1>1, StepType, FaultyType, BeginsType, BuyerType DEF Next

-----------------------------------------------------------------------------
(* The rest of the invariant. *)

\* A step that changes no status and no history, and after which every worker
\* that returns units was returning them before, preserves the invariant.
LEMMA Frame ==
  ASSUME Inv, TypeOK', UNCHANGED <<status, taken, given, disturbed>>,
         \A w \in Worker : Returns(w)' =>
            pc'[w] = pc[w] /\ ord'[w] = ord[w] /\ todo'[w] \subseteq todo[w]
  PROVE  Inv'
  <1>1. HeldWhileOpen' /\ ReturnedAtMostOnce' /\ TakenInFull'
    BY Zenon DEF Inv, HeldWhileOpen, ReturnedAtMostOnce, TakenInFull, Physical
  <1>2. ReturnerClosed'
    <2> SUFFICES ASSUME NEW v \in Worker, Returns(v)', ord'[v] \notin disturbed'
                 PROVE  status'[ord'[v]] \in Closed /\ Fresh(v)'
      BY Zenon DEF ReturnerClosed
    <2>1. /\ pc'[v] = pc[v] /\ ord'[v] = ord[v] /\ todo'[v] \subseteq todo[v]
          /\ Returns(v) /\ ord[v] \notin disturbed
      BY Zenon DEF Returns
    <2>2. status[ord[v]] \in Closed /\ Fresh(v)
      BY Zenon, <2>1 DEF Inv, ReturnerClosed
    <2> QED BY Zenon, <2>1, <2>2 DEF Fresh, Physical
  <1>3. ReturnerAlone'
    BY Zenon DEF Inv, ReturnerAlone, Returns
  <1> QED  BY <1>1, <1>2, <1>3 DEF Inv

\* What the bookkeeping does to the worker itself and to the others.
LEMMA GotoMoves ==
  ASSUME TaskOK, NEW w \in Worker, NEW label, Goto(w, label)
  PROVE  /\ pc'[w] = label
         /\ UNCHANGED <<ord, todo>>
         /\ \A v \in Worker \ {w} : pc'[v] = pc[v]
  BY Zenon DEF TaskOK, Goto

LEMMA EndMoves ==
  ASSUME TaskOK, NEW w \in Worker, End(w)
  PROVE  /\ pc'[w] = "idle"
         /\ \A v \in Worker \ {w} : pc'[v] = pc[v] /\ ord'[v] = ord[v] /\ todo'[v] = todo[v]
  BY Zenon DEF TaskOK, End

LEMMA RestoringMoves ==
  ASSUME TaskOK, NEW w \in Worker, NEW S, Restoring(w, S)
  PROVE  /\ pc'[w] = "restore"
         /\ UNCHANGED ord
         /\ \A v \in Worker \ {w} : pc'[v] = pc[v] /\ todo'[v] = todo[v]
  BY Zenon DEF TaskOK, Restoring

\* A worker that ends, or goes on to something else than returning units,
\* preserves the invariant.
LEMMA QuietEnd ==
  ASSUME Inv, TypeOK', NEW w \in Worker, End(w), UNCHANGED <<status, taken, given, disturbed>>
  PROVE  Inv'
  <1>1. TaskOK
    BY Zenon, TaskType DEF Inv
  <1>2. \A v \in Worker : Returns(v)' =>
            pc'[v] = pc[v] /\ ord'[v] = ord[v] /\ todo'[v] \subseteq todo[v]
    BY Zenon, <1>1, EndMoves DEF Returns
  <1> QED  BY <1>2, Frame

LEMMA QuietGoto ==
  ASSUME Inv, TypeOK', NEW w \in Worker, NEW label, Goto(w, label),
         label \notin {"cancel_pi", "restore"},
         UNCHANGED <<status, taken, given, disturbed>>
  PROVE  Inv'
  <1>1. TaskOK
    BY Zenon, TaskType DEF Inv
  <1>2. \A v \in Worker : Returns(v)' =>
            pc'[v] = pc[v] /\ ord'[v] = ord[v] /\ todo'[v] \subseteq todo[v]
    BY Zenon, <1>1, GotoMoves DEF Returns
  <1> QED  BY <1>2, Frame

\* An open order, or one that does not exist yet, has nobody returning units.
LEMMA NobodyReturns ==
  ASSUME Inv, NEW o \in Order, o \notin disturbed, status[o] \in {"none"} \cup Open
  PROVE  /\ \A w \in Worker : ord[w] = o => ~Returns(w)
         /\ \A p \in Physical(o) : given[<<o, p>>] = 0
  BY Zenon DEF Inv, HeldWhileOpen, ReturnerClosed, Open, Closed

\* A step by which worker w closes its open order o, and by which only w may
\* start to return units, preserves the invariant.
LEMMA Closes ==
  ASSUME Inv, TypeOK', NEW w \in Worker, NEW o \in Order, NEW s \in {"confirmed"} \cup Closed,
         ord[w] = o, status[o] \in Open,
         status' = [status EXCEPT ![o] = s],
         UNCHANGED <<taken, given, disturbed, ord>>,
         \A v \in Worker \ {w} : pc'[v] = pc[v] /\ todo'[v] = todo[v],
         Returns(w)' => s \in Closed
  PROVE  Inv'
  <1>0. TaskOK /\ DocOK
    BY Zenon, TaskType, DocType DEF Inv
  <1>a. /\ status'[o] = s
        /\ \A q \in Order \ {o} : status'[q] = status[q]
    BY Zenon, <1>0 DEF DocOK
  <1>1. HeldWhileOpen'
    <2> SUFFICES ASSUME NEW q \in Order \ disturbed, status'[q] \in {"none"} \cup Open,
                        NEW p \in Physical(q)
                 PROVE  given[<<q, p>>] = 0
      BY Zenon DEF HeldWhileOpen, Physical
    <2>1. status[q] \in {"none"} \cup Open
      BY Zenon, <1>a
    <2> QED  BY <2>1 DEF Inv, HeldWhileOpen
  <1>2. ReturnedAtMostOnce'
    BY Zenon DEF Inv, ReturnedAtMostOnce, Physical
  <1>3. ReturnerClosed'
    <2> SUFFICES ASSUME NEW v \in Worker, Returns(v)', ord'[v] \notin disturbed'
                 PROVE  status'[ord'[v]] \in Closed /\ Fresh(v)'
      BY Zenon DEF ReturnerClosed
    <2>1. CASE v = w
      <3>1. \A p \in Physical(o) : given[<<o, p>>] = 0
        BY Zenon, <2>1, NobodyReturns
      <3>2. ord'[v] = o /\ status'[o] \in Closed
        BY Zenon, <1>a, <2>1
      <3>3. todo'[v] \cap Physical(o) \subseteq Physical(o)
        OBVIOUS
      <3> QED  BY <3>1, <3>2, <3>3 DEF Fresh, Physical
    <2>2. CASE v # w
      <3>1. Returns(v) /\ pc'[v] = pc[v] /\ todo'[v] = todo[v] /\ ord'[v] = ord[v]
        BY Zenon, <2>2 DEF Returns
      <3>2. status[ord[v]] \in Closed /\ Fresh(v)
        BY Zenon, <3>1 DEF Inv, ReturnerClosed
      <3>3. ord[v] # o
        BY Zenon, <3>2 DEF Open, Closed
      <3>4. ord[v] \in Order
        BY Zenon, <1>0, <3>1 DEF TaskOK, Returns
      <3> QED  BY <1>a, <3>1, <3>2, <3>3, <3>4 DEF Fresh, Physical
    <2> QED  BY <2>1, <2>2
  <1>4. ReturnerAlone'
    <2> SUFFICES ASSUME NEW u \in Worker, NEW v \in Worker, Returns(u)', Returns(v)',
                        ord'[u] = ord'[v], ord'[v] \notin disturbed', u # v
                 PROVE  FALSE
      BY Zenon DEF ReturnerAlone
    <2>1. CASE u = w \/ v = w
      BY Zenon, <2>1, NobodyReturns DEF Returns
    <2>2. CASE u # w /\ v # w
      BY Zenon, <2>2 DEF Inv, ReturnerAlone, Returns
    <2> QED  BY <2>1, <2>2
  <1>5. TakenInFull'
    BY Zenon, <1>a DEF Inv, TakenInFull, Physical, Open
  <1> QED  BY <1>1, <1>2, <1>3, <1>4, <1>5 DEF Inv

LEMMA CommitOrderInv ==
  ASSUME Inv, TypeOK', NEW w \in Worker, CommitOrder(w)
  PROVE  Inv'
  <1>0. TaskOK /\ DocOK
    BY Zenon, TaskType, DocType DEF Inv
  <1> DEFINE o == ord[w]
  <1>1. o \in Order /\ status[o] = "none"
    BY Zenon, <1>0 DEF CommitOrder, TaskOK
  <1>2. /\ status' = [status EXCEPT ![o] = "pending"]
        /\ given' = given
        /\ disturbed \subseteq disturbed'
        /\ o \notin disturbed' => taken'[o] = Physical(o)
        /\ \A q \in Order \ {o} : taken'[q] = taken[q]
    <2> DEFINE available == {p \in Physical(o) : stock[p] >= 1}
    <2>1. /\ status' = [status EXCEPT ![o] = "pending"]
          /\ given' = given
          /\ taken' = [taken EXCEPT ![o] = available]
          /\ disturbed' = IF available = Physical(o) THEN disturbed ELSE disturbed \cup {o}
      BY Zenon DEF CommitOrder
    <2> HIDE DEF available, o
    <2>2. taken'[o] = available /\ \A q \in Order \ {o} : taken'[q] = taken[q]
      BY Zenon, <1>0, <1>1, <2>1 DEF DocOK
    <2> QED  BY <2>1, <2>2
  <1>3. \A v \in Worker : Returns(v)' =>
            Returns(v) /\ pc'[v] = pc[v] /\ ord'[v] = ord[v] /\ todo'[v] = todo[v]
    <2>1. End(w)
      BY Zenon DEF CommitOrder
    <2> QED  BY <1>0, <2>1, EndMoves DEF Returns
  <1>4. o \notin disturbed' =>
            (\A v \in Worker : ord[v] = o => ~Returns(v)) /\ \A p \in Physical(o) : given[<<o, p>>] = 0
    BY Zenon, <1>1, <1>2, NobodyReturns
  <1> HIDE DEF o
  <1>a. \A q \in Order \ {o} : status'[q] = status[q]
    BY Zenon, <1>0, <1>1, <1>2 DEF DocOK
  <1>5. HeldWhileOpen'
    <2> SUFFICES ASSUME NEW q \in Order \ disturbed', status'[q] \in {"none"} \cup Open,
                        NEW p \in Physical(q)
                 PROVE  given[<<q, p>>] = 0
      BY Zenon, <1>2 DEF HeldWhileOpen, Physical
    <2>1. CASE q = o
      BY Zenon, <1>4, <2>1
    <2>2. CASE q # o
      BY Zenon, <1>a, <1>2, <2>2 DEF Inv, HeldWhileOpen
    <2> QED  BY <2>1, <2>2
  <1>6. ReturnedAtMostOnce'
    <2> SUFFICES ASSUME NEW q \in Order \ disturbed', NEW p \in Physical(q)
                 PROVE  given[<<q, p>>] <= IF p \in taken'[q] THEN 1 ELSE 0
      BY Zenon, <1>2 DEF ReturnedAtMostOnce, Physical
    <2>1. CASE q = o
      BY <1>2, <1>4, <2>1
    <2>2. CASE q # o
      <3>1. given[<<q, p>>] <= IF p \in taken[q] THEN 1 ELSE 0
        BY Zenon, <1>2 DEF Inv, ReturnedAtMostOnce
      <3> QED  BY <1>2, <2>2, <3>1
    <2> QED  BY <2>1, <2>2
  <1>7. ReturnerClosed'
    <2> SUFFICES ASSUME NEW v \in Worker, Returns(v)', ord'[v] \notin disturbed'
                 PROVE  status'[ord'[v]] \in Closed /\ Fresh(v)'
      BY Zenon DEF ReturnerClosed
    <2>1. Returns(v) /\ pc'[v] = pc[v] /\ ord'[v] = ord[v] /\ todo'[v] = todo[v]
      BY Zenon, <1>3
    <2>2. status[ord[v]] \in Closed /\ Fresh(v)
      BY Zenon, <1>2, <2>1 DEF Inv, ReturnerClosed
    <2>3. status'[ord[v]] = status[ord[v]]
      <3>1. ord[v] \in Order
        BY Zenon, <1>0, <2>1 DEF TaskOK, Returns
      <3>2. ord[v] # o
        BY Zenon, <1>1, <2>2 DEF Closed
      <3> QED  BY <1>a, <3>1, <3>2
    <2> QED  BY <1>2, <2>1, <2>2, <2>3 DEF Fresh, Physical
  <1>8. ReturnerAlone'
    BY Zenon, <1>2, <1>3 DEF Inv, ReturnerAlone
  <1>9. TakenInFull'
    <2> SUFFICES ASSUME NEW q \in Order \ disturbed', status'[q] # "none"
                 PROVE  taken'[q] = Physical(q)
      BY Zenon DEF TakenInFull, Physical
    <2>1. CASE q = o
      BY Zenon, <1>2, <2>1
    <2>2. CASE q # o
      BY Zenon, <1>a, <1>2, <2>2 DEF Inv, TakenInFull
    <2> QED  BY <2>1, <2>2
  <1> QED  BY <1>5, <1>6, <1>7, <1>8, <1>9 DEF Inv

LEMMA UpdateLosesInv ==
  ASSUME Inv, TypeOK', NEW w \in Worker, UpdateLoses(w)
  PROVE  Inv'
  <1>0. TaskOK /\ DocOK
    BY Zenon, TaskType, DocType DEF Inv
  <1>1. CASE job[w] \notin Closing
    <2>1. UNCHANGED <<status, taken, given, disturbed>> /\ (End(w) \/ Goto(w, "release"))
      BY Zenon, <1>1 DEF UpdateLoses, doc
    <2> QED  BY <2>1, QuietEnd, QuietGoto
  <1>2. CASE job[w] \in Closing
    <2>1. /\ disturbed' = disturbed \cup {ord[w]}
          /\ UNCHANGED <<status, taken, given, ord>>
          /\ \A v \in Worker \ {w} : pc'[v] = pc[v] /\ todo'[v] = todo[v]
      <3>1. /\ disturbed' = disturbed \cup {ord[w]}
            /\ UNCHANGED <<status, taken, given>>
            /\ Restoring(w, Cart[ord[w]])
        BY Zenon, <1>2 DEF UpdateLoses, doc, Confirming, Closing
      <3> QED  BY <1>0, <3>1, RestoringMoves
    <2>2. HeldWhileOpen' /\ ReturnedAtMostOnce' /\ TakenInFull'
      BY Zenon, <2>1 DEF Inv, HeldWhileOpen, ReturnedAtMostOnce, TakenInFull, Physical
    <2>3. ReturnerClosed'
      <3> SUFFICES ASSUME NEW v \in Worker, Returns(v)', ord'[v] \notin disturbed'
                   PROVE  status'[ord'[v]] \in Closed /\ Fresh(v)'
        BY Zenon DEF ReturnerClosed
      <3>1. v # w /\ ord[v] \notin disturbed
        BY Zenon, <2>1
      <3>2. Returns(v)
        BY Zenon, <2>1, <3>1 DEF Returns
      <3>3. status[ord[v]] \in Closed /\ Fresh(v)
        BY Zenon, <3>1, <3>2 DEF Inv, ReturnerClosed
      <3> QED BY Zenon, <2>1, <3>1, <3>3 DEF Fresh, Physical
    <2>4. ReturnerAlone'
      BY Zenon, <2>1 DEF Inv, ReturnerAlone, Returns
    <2> QED  BY <2>2, <2>3, <2>4 DEF Inv
  <1> QED  BY <1>1, <1>2

LEMMA RestoreOneInv ==
  ASSUME Inv, TypeOK', NEW w \in Worker, NEW p \in Product, RestoreOne(w, p)
  PROVE  Inv'
  <1>0. TaskOK /\ DocOK
    BY Zenon, TaskType, DocType DEF Inv
  <1> DEFINE o == ord[w]
  <1>1. o \in Order /\ Returns(w) /\ pc[w] = "restore" /\ p \in todo[w]
    BY Zenon, <1>0 DEF RestoreOne, TaskOK, Returns
  <1>2. UNCHANGED <<status, taken, disturbed, pc, ord>>
    BY Zenon DEF RestoreOne, doc
  <1>3. /\ given'[<<o, p>>] = given[<<o, p>>] + 1
        /\ \A x \in Order \X Product : x # <<o, p>> => given'[x] = given[x]
    <2>1. <<o, p>> \in Order \X Product /\ given \in [Order \X Product -> Nat]
      BY Zenon, <1>0, <1>1 DEF DocOK
    <2>2. given' = [given EXCEPT ![<<o, p>>] = given[<<o, p>>] + 1]
      BY Zenon DEF RestoreOne
    <2> QED  BY <2>1, <2>2
  <1>4. /\ todo'[w] = todo[w] \ {p}
        /\ \A v \in Worker \ {w} : todo'[v] = todo[v]
    BY Zenon, <1>0 DEF RestoreOne, TaskOK
  <1>5. o \notin disturbed => status[o] \in Closed /\ Fresh(w)
    BY Zenon, <1>1 DEF Inv, ReturnerClosed
  <1>6. \A q \in Order : \A r \in Physical(q) : q # o \/ r # p => given'[<<q, r>>] = given[<<q, r>>]
    BY Zenon, <1>3, PhysicalType
  <1> HIDE DEF o
  <1>7. HeldWhileOpen'
    BY Zenon, <1>2, <1>5, <1>6 DEF Inv, HeldWhileOpen, Physical, Open, Closed
  <1>8. ReturnedAtMostOnce'
    <2> SUFFICES ASSUME NEW q \in Order \ disturbed, NEW r \in Physical(q)
                 PROVE  given'[<<q, r>>] <= IF r \in taken[q] THEN 1 ELSE 0
      BY Zenon, <1>2 DEF ReturnedAtMostOnce, Physical
    <2>1. CASE q = o /\ r = p
      <3>1. given[<<o, p>>] = 0
        BY Zenon, <1>1, <1>5, <2>1 DEF Fresh, o
      <3>2. p \in taken[o]
        BY Zenon, <1>5, <2>1 DEF Inv, TakenInFull, Closed
      <3> QED  BY <1>3, <2>1, <3>1, <3>2
    <2>2. CASE q # o \/ r # p
      BY Zenon, <1>6, <2>2 DEF Inv, ReturnedAtMostOnce
    <2> QED  BY <2>1, <2>2
  <1>9. ReturnerClosed'
    <2> SUFFICES ASSUME NEW v \in Worker, Returns(v), ord[v] \notin disturbed
                 PROVE  status[ord[v]] \in Closed /\ Fresh(v)'
      BY Zenon, <1>2 DEF ReturnerClosed, Returns
    <2>1. status[ord[v]] \in Closed /\ Fresh(v) /\ ord[v] \in Order
      BY Zenon, <1>0 DEF Inv, ReturnerClosed, TaskOK, Returns
    <2>2. CASE v = w
      <3>1. pc'[v] = "restore" /\ ord'[v] = ord[v] /\ todo'[v] = todo[v] \ {p} /\ ord[v] = o
        BY Zenon, <1>1, <1>2, <1>4, <2>2 DEF o
      <3>2. \A r \in todo'[v] \cap Physical(o) : given'[<<o, r>>] = 0
        BY Zenon, <1>1, <1>6, <2>1, <2>2, <3>1 DEF Fresh
      <3> QED  BY <2>1, <3>1, <3>2 DEF Fresh, Physical
    <2>3. CASE v # w
      <3>1. ord[v] # o
        BY Zenon, <1>1, <2>3 DEF Inv, ReturnerAlone, o
      <3> QED  BY <1>2, <1>4, <1>6, <2>1, <2>3, <3>1 DEF Fresh, Physical
    <2> QED  BY <2>2, <2>3, <2>1
  <1>10. ReturnerAlone'
    BY Zenon, <1>2 DEF Inv, ReturnerAlone, Returns
  <1>11. TakenInFull'
    BY Zenon, <1>2 DEF Inv, TakenInFull, Physical
  <1> QED  BY <1>7, <1>8, <1>9, <1>10, <1>11 DEF Inv

LEMMA CancelPiInv ==
  ASSUME Inv, TypeOK', NEW w \in Worker, CancelPi(w)
  PROVE  Inv'
  <1>0. TaskOK /\ DocOK
    BY Zenon, TaskType, DocType DEF Inv
  <1>1. /\ UNCHANGED <<status, taken, given, disturbed, ord>>
        /\ pc[w] = "cancel_pi" /\ pc'[w] = "restore"
        /\ \A v \in Worker \ {w} : pc'[v] = pc[v] /\ todo'[v] = todo[v]
    <2>1. /\ UNCHANGED <<status, taken, given, disturbed>> /\ pc[w] = "cancel_pi"
          /\ Restoring(w, IF w \in seenFlag THEN {} ELSE Physical(ord[w]))
      BY Zenon DEF CancelPi, doc, history
    <2> QED  BY <1>0, <2>1, RestoringMoves
  <1>2. HeldWhileOpen' /\ ReturnedAtMostOnce' /\ TakenInFull'
    BY Zenon, <1>1 DEF Inv, HeldWhileOpen, ReturnedAtMostOnce, TakenInFull, Physical
  <1>3. \A v \in Worker : Returns(v)' <=> Returns(v)
    BY Zenon, <1>1 DEF Returns
  <1>4. ReturnerClosed'
    <2> SUFFICES ASSUME NEW v \in Worker, Returns(v), ord[v] \notin disturbed
                 PROVE  status[ord[v]] \in Closed /\ Fresh(v)'
      BY Zenon, <1>1, <1>3 DEF ReturnerClosed
    <2>1. status[ord[v]] \in Closed /\ Fresh(v)
      BY Zenon DEF Inv, ReturnerClosed
    <2>2. CASE v = w
      BY Zenon, <1>1, <2>1, <2>2 DEF Fresh, Physical
    <2>3. CASE v # w
      BY Zenon, <1>1, <2>1, <2>3 DEF Fresh, Physical
    <2> QED  BY <2>1, <2>2, <2>3
  <1>5. ReturnerAlone'
    BY Zenon, <1>1, <1>3 DEF Inv, ReturnerAlone
  <1> QED  BY <1>2, <1>4, <1>5 DEF Inv

LEMMA StepInv == ASSUME Inv, TypeOK', NEW w \in Worker, Step(w)  PROVE Inv'
  <1>0. TaskOK /\ DocOK
    BY Zenon, TaskType, DocType DEF Inv
  <1>1. CASE CreateSession(w) \/ ReadForEvent(w)
    <2>1. /\ UNCHANGED <<status, taken, given, disturbed>>
          /\ End(w) \/ Goto(w, "commit") \/ Goto(w, "cas") \/ Goto(w, "release")
      BY Zenon, <1>1 DEF CreateSession, ReadForEvent, doc, history
    <2> QED  BY <2>1, QuietEnd, QuietGoto
  <1>2. CASE Link(w) \/ Redeem(w) \/ Release(w)
    <2>1. UNCHANGED <<status, taken, given, disturbed>> /\ (End(w) \/ Goto(w, "redeem"))
      BY Zenon, <1>2 DEF Link, Redeem, Release, history
    <2> QED  BY <2>1, QuietEnd, QuietGoto
  <1>3. CASE RestoreDone(w) \/ CloseLoses(w)
    <2>1. UNCHANGED <<status, taken, given, disturbed>> /\ (End(w) \/ Goto(w, "release"))
      BY Zenon, <1>3 DEF RestoreDone, CloseLoses, doc, history
    <2> QED  BY <2>1, QuietEnd, QuietGoto
  <1>4. CASE UpdateWins(w)
    <2>1. ord[w] \in Order /\ status[ord[w]] \in Open
      BY Zenon, <1>0, <1>4 DEF UpdateWins, TaskOK, Open
    <2>2. Target(job[w]) \in {"confirmed"} \cup Closed
      BY Zenon, <1>0, <1>4, TargetType DEF TaskOK
    <2>3. /\ status' = [status EXCEPT ![ord[w]] = Target(job[w])]
          /\ UNCHANGED <<taken, given, disturbed, ord>>
          /\ \A v \in Worker \ {w} : pc'[v] = pc[v] /\ todo'[v] = todo[v]
      <3>1. /\ status' = [status EXCEPT ![ord[w]] = Target(job[w])]
            /\ UNCHANGED <<taken, given, disturbed>>
            /\ Goto(w, "link") \/ Goto(w, "release") \/ Restoring(w, Cart[ord[w]])
        BY Zenon, <1>4 DEF UpdateWins, history
      <3> QED  BY <1>0, <3>1, GotoMoves, RestoringMoves
    <2>4. Returns(w)' => Target(job[w]) \in Closed
      <3>1. CASE job[w] \in Closing
        BY Zenon, <3>1 DEF Target, Closed, Confirming, Closing
      <3>2. CASE job[w] \notin Closing
        <4>1. Goto(w, "link") \/ Goto(w, "release")
          BY Zenon, <1>4, <3>2 DEF UpdateWins
        <4> QED  BY <1>0, <4>1, GotoMoves DEF Returns
      <3> QED  BY <3>1, <3>2
    <2> QED  BY Zenon, <2>1, <2>2, <2>3, <2>4, Closes
  <1>5. CASE CloseWins(w)
    <2>1. ord[w] \in Order /\ status[ord[w]] \in Open
      <3>1. pc[w] = "cas" /\ status[ord[w]] = seen[w]
        BY Zenon, <1>5 DEF CloseWins
      <3> QED  BY <1>0, <3>1 DEF TaskOK
    <2>2. Target(job[w]) \in Closed
      BY Zenon, <1>5 DEF CloseWins, Request, Target, Closed, Confirming
    <2>3. /\ status' = [status EXCEPT ![ord[w]] = Target(job[w])]
          /\ UNCHANGED <<taken, given, disturbed, ord>>
          /\ \A v \in Worker \ {w} : pc'[v] = pc[v] /\ todo'[v] = todo[v]
      <3>1. /\ status' = [status EXCEPT ![ord[w]] = Target(job[w])]
            /\ UNCHANGED <<taken, given, disturbed>>
            /\ Goto(w, "cancel_pi") \/ \E S : Restoring(w, S)
        BY Zenon, <1>5 DEF CloseWins, history
      <3> QED  BY <1>0, <3>1, GotoMoves, RestoringMoves
    <2>4. Target(job[w]) \in {"confirmed"} \cup Closed /\ (Returns(w)' => Target(job[w]) \in Closed)
      BY Zenon, <2>2
    <2> HIDE DEF Target
    <2> QED  BY ZenonT(30), <2>1, <2>3, <2>4, Closes
  <1> QED
    BY Zenon, <1>1, <1>2, <1>3, <1>4, <1>5, CommitOrderInv, UpdateLosesInv, RestoreOneInv,
       CancelPiInv DEF Step

LEMMA OtherInv ==
  ASSUME Inv, TypeOK',
         \/ \E w \in Worker : Faulty(w)
         \/ \E w \in Worker, o \in Order : Begins(w, o)
         \/ \E o \in Order : Buyer(o)
         \/ UNCHANGED vars
  PROVE  Inv'
  <1>0. TaskOK /\ DocOK
    BY Zenon, TaskType, DocType DEF Inv
  <1> USE DEF doc, history, task
  <1>1. ASSUME NEW w \in Worker, Faulty(w)  PROVE Inv'
    <2>1. CASE CommitError(w) \/ HandlerError(w) \/ ReleaseError(w) \/ Crash(w)
      <3>1. UNCHANGED <<status, taken, given, disturbed>> /\ End(w)
        BY Zenon, <2>1 DEF CommitError, HandlerError, ReleaseError, Crash
      <3> QED  BY <3>1, QuietEnd
    <2>2. ASSUME NEW p \in Product, RestoreSkips(w, p)  PROVE Inv'
      <3>1. UNCHANGED <<status, taken, given, disturbed, pc, ord>>
        BY Zenon, <2>2 DEF RestoreSkips
      <3>2. \A v \in Worker : todo'[v] \subseteq todo[v]
        BY Zenon, <1>0, <2>2 DEF RestoreSkips, TaskOK
      <3> QED  BY <3>1, <3>2, Frame
    <2> QED  BY <1>1, <2>1, <2>2 DEF Faulty
  <1>2. ASSUME NEW w \in Worker, NEW o \in Order, Begins(w, o)  PROVE Inv'
    <2>1. UNCHANGED <<status, taken, given, disturbed>>
      BY Zenon, <1>2 DEF Begins, CheckoutBegin, StartEvent, CancelBegin, ExpireBegin
    <2>2. (\E j, l : Start(w, j, o, l) /\ l \in {"session", "read"}) \/ \E j : Snapshot(w, j, o)
      BY Zenon, <1>2 DEF Begins, CheckoutBegin, StartEvent, CancelBegin, ExpireBegin
    <2>3. \A v \in Worker : Returns(v)' =>
            pc'[v] = pc[v] /\ ord'[v] = ord[v] /\ todo'[v] \subseteq todo[v]
      BY Zenon, <1>0, <2>2 DEF Start, Snapshot, Returns, TaskOK
    <2> QED  BY <2>1, <2>3, Frame
  <1>3. ASSUME NEW o \in Order, Buyer(o)  PROVE Inv'
    BY Zenon, <1>3, Frame DEF Buyer, PayByCard, PayByDebit, DebitSettles, DebitFails, Decline,
                       SessionExpires, Returns
  <1>4. CASE UNCHANGED vars
    BY Zenon, <1>4, Frame DEF vars, Returns
  <1> QED  BY <1>1, <1>2, <1>3, <1>4

\* The inductive invariant holds in every reachable state.
THEOREM Invariance == Spec => []Inv
  <1>1. Inv /\ [Next]_vars => Inv'
    BY Zenon, NextType, StepInv, OtherInv DEF Inv, Next
  <1> QED  BY InitInv, <1>1, PTL DEF Spec

\* Types, for any number of orders and workers; in particular the guard of the
\* checkout transaction keeps stockQuantity from becoming negative.
THEOREM TypeCorrect == Spec => []TypeOK
  BY Invariance, PTL DEF Inv

\* No unit of an open order is back in stock, and no unit of a closed one comes
\* back twice, whichever webhooks, cancellations and job runs interleave and
\* wherever they fail or crash, unless the order is disturbed.
THEOREM StockAccounted == Spec => []StockHolds
  <1>1. Inv => StockHolds
    BY Zenon DEF Inv, StockHolds
  <1> QED  BY <1>1, Invariance, PTL

\* A closed order keeps its status: a step writes orderStatus only of an order
\* it finds pending, or with the open status it read.
THEOREM Finality == Spec => ClosedIsFinal
  <1>1. ASSUME TypeOK, [Next]_vars
        PROVE  \A o \in Order : status[o] \in Closed => status'[o] = status[o]
    <2> USE DEF doc
    <2>1. ASSUME NEW w \in Worker, Step(w)
          PROVE  \A o \in Order : status[o] \in Closed => status'[o] = status[o]
      <3>1. CASE CommitOrder(w) \/ UpdateWins(w) \/ CloseWins(w)
        <4>1. ord[w] \in Order /\ status[ord[w]] \notin Closed
          BY Zenon, <1>1, <3>1 DEF CommitOrder, UpdateWins, CloseWins, TypeOK, Open, Closed
        <4>2. \A o \in Order \ {ord[w]} : status'[o] = status[o]
          BY Zenon, <1>1, <3>1 DEF CommitOrder, UpdateWins, CloseWins, TypeOK
        <4> QED  BY <4>1, <4>2
      <3>2. CASE ~(CommitOrder(w) \/ UpdateWins(w) \/ CloseWins(w))
        BY Zenon, <2>1, <3>2 DEF Step, CreateSession, ReadForEvent, UpdateLoses, Link, Redeem, Release,
                          RestoreOne, RestoreDone, CloseLoses, CancelPi
      <3> QED  BY <3>1, <3>2
    <2>2. ASSUME NEW w \in Worker, Faulty(w)  PROVE UNCHANGED status
      BY Zenon, <2>2 DEF Faulty, CommitError, HandlerError, RestoreSkips, ReleaseError, Crash
    <2>3. ASSUME NEW w \in Worker, NEW o \in Order, Begins(w, o)  PROVE UNCHANGED status
      BY Zenon, <2>3 DEF Begins, CheckoutBegin, StartEvent, CancelBegin, ExpireBegin
    <2>4. ASSUME NEW o \in Order, Buyer(o)  PROVE UNCHANGED status
      BY Zenon, <2>4 DEF Buyer, PayByCard, PayByDebit, DebitSettles, DebitFails, Decline, SessionExpires
    <2>5. CASE UNCHANGED vars
      BY Zenon, <2>5 DEF vars
    <2> QED  BY <1>1, <2>1, <2>2, <2>3, <2>4, <2>5 DEF Next
  <1>2. TypeOK /\ [Next]_vars =>
            [\A o \in Order : status[o] \in Closed => status'[o] = status[o]]_vars
    BY Zenon, <1>1
  <1> QED  BY TypeCorrect, <1>2, PTL DEF Spec, ClosedIsFinal
-----------------------------------------------------------------------------
(* Sessions at Stripe: the idempotency key, and what waits for the payment. *)

\* An order exists only after its session, and one key has one session.
Keyed ==
    /\ \A w \in Worker : pc[w] = "commit" => session[ord[w]] # "none"
    /\ \A o \in Order : status[o] # "none" => session[o] # "none"
    /\ \A o, q \in Order :
        KeyOf[o] = KeyOf[q] /\ session[o] # "none" /\ session[q] # "none" => o = q

\* What says that an order is paid: an event, a debit that has still to settle, a handler
\* of such an event, and what it writes.
Confirms(o) == coupon[o] = "redeemed" \/ o \in linked \/ status[o] = "confirmed"

Paid ==
    /\ \A k \in Confirming, o \in Order : <<k, o>> \in events => session[o] = "complete"
    /\ \A o \in Order : payment[o] = "processing" => session[o] = "complete"
    /\ \A w \in Worker :
        /\ pc[w] # "idle" /\ job[w] \in Confirming => session[ord[w]] = "complete"
        /\ pc[w] \in {"link", "redeem"} => job[w] \in Confirming
    /\ \A o \in Order : Confirms(o) => session[o] = "complete"

\* A session is not forgotten, and a completed one stays so.
SessionLasts ==
    \A o \in Order :
        /\ session[o] # "none" => session'[o] # "none"
        /\ session[o] = "complete" => session'[o] = "complete"

\* What a step says of payment is true.
Honest ==
    /\ \A k \in Confirming, o \in Order :
        <<k, o>> \in events' => <<k, o>> \in events \/ session'[o] = "complete"
    /\ \A o \in Order :
        /\ payment'[o] = "processing" => payment[o] = "processing" \/ session'[o] = "complete"
        /\ Confirms(o)' => Confirms(o) \/ session'[o] = "complete"
        /\ status'[o] # "none" => status[o] # "none" \/ session'[o] # "none"

\* Worker w takes a step of its handler.
Follows(w) ==
    /\ \A u \in Worker \ {w} : pc'[u] = pc[u] /\ job'[u] = job[u] /\ ord'[u] = ord[u]
    /\ pc'[w] # "idle" =>
        /\ pc[w] # "idle" /\ job'[w] = job[w] /\ ord'[w] = ord[w]
        /\ pc'[w] = "link" => job[w] \in Confirming
        /\ pc'[w] = "redeem" => pc[w] = "link"
        /\ pc'[w] = "commit" => session'[ord[w]] # "none"

LEMMA FollowsGoto ==
  ASSUME TaskOK, NEW w \in Worker, NEW label \in {"cas", "release", "cancel_pi"}, Goto(w, label),
         pc[w] # "idle"
  PROVE  Follows(w)
  BY Zenon DEF TaskOK, Goto, Follows

LEMMA FollowsEnd ==
  ASSUME TaskOK, NEW w \in Worker, End(w)
  PROVE  Follows(w)
  BY Zenon DEF TaskOK, End, Follows

LEMMA FollowsRestoring ==
  ASSUME TaskOK, NEW w \in Worker, NEW S, Restoring(w, S), pc[w] # "idle"
  PROVE  Follows(w)
  BY Zenon DEF TaskOK, Restoring, Follows

\* Every step of a handler does so.
LEMMA StepFollows ==
  ASSUME TypeOK, NEW w \in Worker, Step(w) \/ Faulty(w)
  PROVE  Follows(w)
  <1>0. TaskOK /\ RestOK
    BY Zenon, TypeSplit
  <1>1. CASE CreateSession(w)
    <2>1. CASE End(w)
      BY Zenon, <1>0, <2>1, FollowsEnd
    <2>2. CASE Goto(w, "commit") /\ session' = [session EXCEPT ![ord[w]] = "open"]
      <3>1. ord[w] \in Order /\ pc[w] # "idle"
        BY Zenon, <1>0, <1>1 DEF CreateSession, TaskOK
      <3>2. session'[ord[w]] = "open"
        BY Zenon, <1>0, <2>2, <3>1 DEF RestOK
      <3> QED  BY Zenon, <1>0, <2>2, <3>1, <3>2 DEF TaskOK, Goto, Follows
    <2> QED  BY Zenon, <1>1, <2>1, <2>2 DEF CreateSession
  <1>2. CASE CommitOrder(w) \/ Redeem(w) \/ Release(w) \/ CloseLoses(w) \/ (Faulty(w) /\ End(w))
    BY Zenon, <1>0, <1>2, FollowsEnd DEF CommitOrder, Redeem, Release, CloseLoses
  <1>3. CASE ReadForEvent(w)
    <2>1. pc[w] # "idle" /\ (End(w) \/ Goto(w, "cas") \/ Goto(w, "release"))
      BY Zenon, <1>3 DEF ReadForEvent
    <2> QED  BY Zenon, <1>0, <2>1, FollowsEnd, FollowsGoto
  <1>4. CASE UpdateWins(w) \/ UpdateLoses(w)
    <2>1. /\ pc[w] = "cas"
          /\ \/ End(w) \/ Goto(w, "release") \/ Restoring(w, Cart[ord[w]])
             \/ job[w] \in Confirming /\ Goto(w, "link")
      BY Zenon, <1>4 DEF UpdateWins, UpdateLoses
    <2>2. CASE job[w] \in Confirming /\ Goto(w, "link")
      BY Zenon, <1>0, <2>1, <2>2 DEF TaskOK, Goto, Follows
    <2> QED  BY Zenon, <1>0, <2>1, <2>2, FollowsEnd, FollowsGoto, FollowsRestoring
  <1>5. CASE Link(w)
    <2>1. pc[w] = "link" /\ (End(w) \/ Goto(w, "redeem"))
      BY Zenon, <1>5 DEF Link
    <2>2. CASE Goto(w, "redeem")
      BY Zenon, <1>0, <2>1, <2>2 DEF TaskOK, Goto, Follows
    <2> QED  BY Zenon, <1>0, <2>1, <2>2, FollowsEnd
  <1>6. ASSUME NEW p \in Product, RestoreOne(w, p) \/ RestoreSkips(w, p)  PROVE Follows(w)
    BY Zenon, <1>6 DEF RestoreOne, RestoreSkips, Follows
  <1>7. CASE RestoreDone(w)
    BY Zenon, <1>0, <1>7, FollowsEnd, FollowsGoto DEF RestoreDone
  <1>8. CASE CloseWins(w) \/ CancelPi(w)
    <2>1. /\ pc[w] # "idle"
          /\ Goto(w, "cancel_pi") \/ (\E S \in {{}, Physical(ord[w])} : Restoring(w, S))
      BY Zenon, <1>8 DEF CloseWins, CancelPi
    <2> QED  BY Zenon, <1>0, <2>1, FollowsGoto, FollowsRestoring
  <1>9. CASE Faulty(w)
    BY Zenon, <1>2, <1>6, <1>9 DEF Faulty, CommitError, HandlerError, ReleaseError, Crash
  <1> QED  BY Zenon, <1>1, <1>2, <1>3, <1>4, <1>5, <1>6, <1>7, <1>8, <1>9 DEF Step

LEMMA SessionsLast ==
  ASSUME TypeOK, [Next]_vars
  PROVE  SessionLasts
  <1>0. TaskOK /\ RestOK
    BY Zenon, TypeSplit
  <1>1. ASSUME NEW w \in Worker, Step(w) \/ Faulty(w)  PROVE SessionLasts
    <2>1. CASE session' = session
      BY Zenon, <2>1 DEF SessionLasts
    <2>2. CASE CreateSession(w) /\ session' = [session EXCEPT ![ord[w]] = "open"] /\ session' # session
      <3>1. ord[w] \in Order /\ session[ord[w]] = "none"
        BY Zenon, <1>0, <2>2 DEF CreateSession, TaskOK
      <3> QED  BY Zenon, <1>0, <2>2, <3>1 DEF RestOK, SessionLasts
    <2> QED
      BY Zenon, <1>1, <2>1, <2>2 DEF Step, Faulty, CreateSession, CommitOrder, ReadForEvent, UpdateWins, UpdateLoses,
         Link, Redeem, Release, RestoreOne, RestoreDone, CloseWins, CloseLoses, CancelPi, CommitError,
         HandlerError, RestoreSkips, ReleaseError, Crash, stripe
  <1>2. ASSUME NEW w \in Worker, NEW o \in Order, Begins(w, o)  PROVE SessionLasts
    BY Zenon, <1>2 DEF Begins, CheckoutBegin, StartEvent, CancelBegin, ExpireBegin, stripe, SessionLasts
  <1>3. ASSUME NEW o \in Order, Buyer(o)  PROVE SessionLasts
    <2>1. \/ session' = session
          \/ session[o] = "open" /\ \E s \in {"complete", "expired"} : session' = [session EXCEPT ![o] = s]
      BY Zenon, <1>3 DEF Buyer, PayByCard, PayByDebit, DebitSettles, DebitFails, Decline, SessionExpires
    <2> QED  BY Zenon, <1>0, <2>1 DEF RestOK, SessionLasts
  <1>4. CASE UNCHANGED vars
    BY Zenon, <1>4 DEF vars, stripe, SessionLasts
  <1> QED  BY Zenon, <1>1, <1>2, <1>3, <1>4 DEF Next

\* The status that confirms is written by the handlers of a completed payment.
LEMMA TargetConfirms == \A j \in Job : Target(j) = "confirmed" => j \in Confirming
  BY Zenon DEF Target, Job, Confirming

LEMMA StepHonest ==
  ASSUME TypeOK, Keyed, Paid, NEW w \in Worker, Step(w) \/ Faulty(w)
  PROVE  Honest
  <1>0. TaskOK /\ RestOK
    BY Zenon, TypeSplit
  <1>1. \A k \in Confirming, o \in Order : <<k, o>> \in events' => <<k, o>> \in events
    BY Zenon DEF Step, Faulty, CreateSession, CommitOrder, ReadForEvent, UpdateWins, UpdateLoses,
       Link, Redeem, Release, RestoreOne, RestoreDone, CloseWins, CloseLoses, CancelPi, CommitError,
       HandlerError, RestoreSkips, ReleaseError, Crash, Ack, stripe
  <1>2. \A o \in Order : payment'[o] = "processing" => payment[o] = "processing"
    <2>1. CASE CancelPi(w)
      BY Zenon, <1>0, <2>1 DEF CancelPi, RestOK
    <2>2. CASE payment' = payment
      BY Zenon, <2>2
    <2> QED
      BY Zenon, <2>1, <2>2 DEF Step, Faulty, CreateSession, CommitOrder, ReadForEvent, UpdateWins, UpdateLoses,
         Link, Redeem, Release, RestoreOne, RestoreDone, CloseWins, CloseLoses, CommitError,
         HandlerError, RestoreSkips, ReleaseError, Crash, stripe
  <1>3. SessionLasts
    BY Zenon, SessionsLast DEF Next
  <1>4. ASSUME NEW o \in Order
        PROVE  /\ Confirms(o)' => Confirms(o) \/ session'[o] = "complete"
               /\ status'[o] # "none" => status[o] # "none" \/ session'[o] # "none"
    <2>1. CASE CommitOrder(w)
      <3>1. ord[w] \in Order /\ session[ord[w]] # "none"
        BY Zenon, <1>0, <2>1 DEF CommitOrder, TaskOK, Keyed
      <3>2. /\ linked' = linked
            /\ status' = [status EXCEPT ![ord[w]] = "pending"]
            /\ coupon' = [coupon EXCEPT ![ord[w]] = IF ord[w] \in WithCoupon THEN "reserved" ELSE "none"]
        BY Zenon, <2>1 DEF CommitOrder
      <3> QED  BY Zenon, <1>0, <1>3, <3>1, <3>2 DEF Confirms, RestOK, SessionLasts
    <2>2. CASE UpdateWins(w) \/ CloseWins(w)
      <3>1. /\ ord[w] \in Order /\ job[w] \in Job /\ pc[w] = "cas"
            /\ UNCHANGED <<linked, coupon>> /\ status' = [status EXCEPT ![ord[w]] = Target(job[w])]
            /\ status[ord[w]] # "none"
        BY Zenon, <1>0, <2>2 DEF UpdateWins, CloseWins, TaskOK, Open
      <3>2. Target(job[w]) = "confirmed" => session[ord[w]] = "complete"
        BY Zenon, <3>1, TargetConfirms DEF Paid
      <3> QED  BY Zenon, <1>0, <1>3, <3>1, <3>2 DEF Confirms, RestOK, SessionLasts
    <2>3. CASE Link(w) \/ Redeem(w)
      <3>1. ord[w] \in Order /\ session[ord[w]] = "complete"
        BY Zenon, <1>0, <2>3 DEF Link, Redeem, TaskOK, Paid
      <3>2. /\ status' = status /\ linked' \subseteq linked \cup {ord[w]}
            /\ coupon' = coupon \/ (\E c : coupon' = [coupon EXCEPT ![ord[w]] = c])
        BY Zenon, <2>3 DEF Link, Redeem
      <3> QED  BY Zenon, <1>0, <1>3, <3>1, <3>2 DEF Confirms, RestOK, SessionLasts
    <2>4. CASE Release(w)
      <3>1. UNCHANGED <<status, linked>> /\ (coupon'[o] = "redeemed" => coupon[o] = "redeemed")
        BY Zenon, <1>0, <2>4 DEF Release, RestOK
      <3> QED  BY Zenon, <3>1 DEF Confirms
    <2>5. CASE UNCHANGED <<status, linked, coupon>>
      BY Zenon, <2>5 DEF Confirms
    <2> QED
      BY Zenon, <2>1, <2>2, <2>3, <2>4, <2>5 DEF Step, Faulty, CreateSession, ReadForEvent, UpdateLoses,
         RestoreOne, RestoreDone, CloseLoses, CancelPi, CommitError,
         HandlerError, RestoreSkips, ReleaseError, Crash, doc
  <1> QED  BY Zenon, <1>1, <1>2, <1>4 DEF Honest

LEMMA BuyerHonest ==
  ASSUME TypeOK, Paid, NEW o \in Order, Buyer(o)
  PROVE  Honest
  <1>0. RestOK
    BY Zenon, TypeSplit
  <1>1. UNCHANGED <<status, linked, coupon>>
    BY Zenon DEF Buyer, PayByCard, PayByDebit, DebitSettles, DebitFails, Decline, SessionExpires, doc
  <1>2. CASE PayByCard(o) \/ PayByDebit(o)
    <2>1. session'[o] = "complete" /\ \A q \in Order \ {o} : payment'[q] = payment[q]
      BY Zenon, <1>0, <1>2 DEF PayByCard, PayByDebit, RestOK
    <2>2. \A k \in Confirming, q \in Order : <<k, q>> \in events' => <<k, q>> \in events \/ q = o
      BY <1>2 DEF PayByCard, PayByDebit, Emit
    <2> QED  BY Zenon, <1>1, <2>1, <2>2 DEF Honest, Confirms
  <1>3. CASE DebitSettles(o)
    <2>1. session'[o] = "complete" /\ \A q \in Order : payment'[q] = "processing" => payment[q] = "processing"
      BY Zenon, <1>0, <1>3 DEF DebitSettles, RestOK, Paid
    <2>2. \A k, q : <<k, q>> \in events' => <<k, q>> \in events \/ q = o
      BY Zenon, <1>3 DEF DebitSettles
    <2> QED  BY Zenon, <1>1, <2>1, <2>2 DEF Honest, Confirms
  <1>4. CASE DebitFails(o) \/ Decline(o) \/ SessionExpires(o)
    <2>1. \A q \in Order : payment'[q] = "processing" => payment[q] = "processing"
      BY Zenon, <1>0, <1>4 DEF DebitFails, Decline, SessionExpires, RestOK
    <2>2. \A k \in Confirming, q \in Order : <<k, q>> \in events' =>
             <<k, q>> \in events \/ k \in {"async_failed", "pi_failed", "expired", "pi_canceled"}
      BY <1>4 DEF DebitFails, Decline, SessionExpires, Emit
    <2>3. \A k \in Confirming : k \notin {"async_failed", "pi_failed", "expired", "pi_canceled"}
      BY DEF Confirming
    <2> QED  BY Zenon, <1>1, <2>1, <2>2, <2>3 DEF Honest, Confirms
  <1> QED  BY Zenon, <1>2, <1>3, <1>4 DEF Buyer

\* A worker that begins: a confirming job has its event.
LEMMA BeginsWith ==
  ASSUME TypeOK, NEW w \in Worker, NEW o \in Order, Begins(w, o)
  PROVE  /\ UNCHANGED <<status, linked, coupon, session, payment, events>>
         /\ \A u \in Worker \ {w} : pc'[u] = pc[u] /\ job'[u] = job[u] /\ ord'[u] = ord[u]
         /\ pc'[w] \notin {"commit", "link", "redeem"} /\ ord'[w] = o
         /\ job'[w] \in Confirming => <<job'[w], o>> \in events
  <1>0. TaskOK
    BY Zenon, TaskType
  <1>1. UNCHANGED <<status, linked, coupon, session, payment, events>>
    BY Zenon DEF Begins, CheckoutBegin, StartEvent, CancelBegin, ExpireBegin, doc, stripe
  <1>2. CASE CheckoutBegin(w, o)
    BY Zenon, <1>0, <1>1, <1>2 DEF CheckoutBegin, Start, TaskOK, Confirming
  <1>3. ASSUME NEW k \in Webhook, StartEvent(w, k, o)
        PROVE  /\ \A u \in Worker \ {w} : pc'[u] = pc[u] /\ job'[u] = job[u] /\ ord'[u] = ord[u]
               /\ pc'[w] \notin {"commit", "link", "redeem"} /\ ord'[w] = o
               /\ job'[w] \in Confirming => <<job'[w], o>> \in events
    BY Zenon, <1>0, <1>3 DEF StartEvent, Start, TaskOK
  <1>4. CASE CancelBegin(w, o) \/ ExpireBegin(w, o)
    BY Zenon, <1>0, <1>1, <1>4 DEF CancelBegin, ExpireBegin, Snapshot, TaskOK, Confirming
  <1> QED  BY Zenon, <1>1, <1>2, <1>3, <1>4 DEF Begins

\* Both are invariant.
LEMMA SessionStep ==
  ASSUME TypeOK, TypeOK', Keyed, Paid, [Next]_vars
  PROVE  Keyed' /\ Paid'
  <1>0. TaskOK /\ RestOK /\ SessionLasts
    BY Zenon, TypeSplit, SessionsLast
  <1>1. ASSUME NEW w \in Worker, Step(w) \/ Faulty(w)  PROVE Keyed' /\ Paid'
    <2>1. Follows(w) /\ Honest
      BY Zenon, <1>1, StepFollows, StepHonest
    <2>2. \A o, q \in Order :
             KeyOf[o] = KeyOf[q] /\ session'[o] # "none" /\ session'[q] # "none" => o = q
      <3>1. CASE session' = session
        BY Zenon, <3>1 DEF Keyed
      <3>2. CASE /\ CreateSession(w) /\ session' = [session EXCEPT ![ord[w]] = "open"]
                 /\ ~\E q \in Order : KeyOf[q] = KeyOf[ord[w]] /\ session[q] # "none"
        <4>1. \A q \in Order \ {ord[w]} : session'[q] = session[q]
          BY Zenon, <1>0, <3>2 DEF RestOK
        <4>2. \A q \in Order : KeyOf[q] = KeyOf[ord[w]] => session[q] = "none"
          BY Zenon, <3>2
        <4>3. \A o, q \in Order :
                 KeyOf[o] = KeyOf[q] /\ session[o] # "none" /\ session[q] # "none" => o = q
          BY Zenon DEF Keyed
        <4> QED BY Zenon, <4>1, <4>2, <4>3
      <3> QED
        BY Zenon, <1>1, <3>1, <3>2 DEF Step, Faulty, CreateSession, CommitOrder, ReadForEvent, UpdateWins, UpdateLoses,
           Link, Redeem, Release, RestoreOne, RestoreDone, CloseWins, CloseLoses, CancelPi, CommitError,
           HandlerError, RestoreSkips, ReleaseError, Crash, stripe
    <2>3. \A u \in Worker : pc'[u] = "commit" => session'[ord'[u]] # "none"
      BY <1>0, <2>1 DEF Follows, TaskOK, SessionLasts, Keyed
    <2>4. Keyed'
      BY Zenon, <1>0, <2>1, <2>2, <2>3 DEF Honest, SessionLasts, Keyed
    <2>5. ASSUME NEW u \in Worker
          PROVE  /\ pc'[u] # "idle" /\ job'[u] \in Confirming => session'[ord'[u]] = "complete"
                 /\ pc'[u] \in {"link", "redeem"} => job'[u] \in Confirming
      BY <1>0, <2>1 DEF Follows, TaskOK, SessionLasts, Paid
    <2>6. Paid'
      BY Zenon, <1>0, <2>1, <2>5 DEF Honest, SessionLasts, Paid
    <2> QED  BY Zenon, <2>4, <2>6
  <1>2. ASSUME NEW w \in Worker, NEW o \in Order, Begins(w, o)  PROVE Keyed' /\ Paid'
    <2>0. /\ UNCHANGED <<status, linked, coupon, session, payment, events>>
          /\ \A u \in Worker \ {w} : pc'[u] = pc[u] /\ job'[u] = job[u] /\ ord'[u] = ord[u]
          /\ pc'[w] \notin {"commit", "link", "redeem"} /\ ord'[w] = o
          /\ job'[w] \in Confirming => <<job'[w], o>> \in events
      BY Zenon, <1>2, BeginsWith
    <2>1. Keyed'
      BY Zenon, <2>0 DEF Keyed
    <2>2. ASSUME NEW u \in Worker
          PROVE  /\ pc'[u] # "idle" /\ job'[u] \in Confirming => session'[ord'[u]] = "complete"
                 /\ pc'[u] \in {"link", "redeem"} => job'[u] \in Confirming
      BY Zenon, <2>0 DEF Paid
    <2>3. Paid'
      BY Zenon, <2>0, <2>2 DEF Paid, Confirms
    <2> QED  BY Zenon, <2>1, <2>3
  <1>3. ASSUME NEW o \in Order, Buyer(o)  PROVE Keyed' /\ Paid'
    <2>1. UNCHANGED <<pc, job, ord, status>>
      BY Zenon, <1>3 DEF Buyer, PayByCard, PayByDebit, DebitSettles, DebitFails, Decline, SessionExpires, doc, task
    <2>2. Honest
      BY Zenon, <1>3, BuyerHonest
    <2>3. \A q \in Order : session'[q] # "none" => session[q] # "none"
      BY Zenon, <1>0, <1>3 DEF Buyer, PayByCard, PayByDebit, DebitSettles, DebitFails, Decline, SessionExpires, RestOK
    <2>4. Keyed'
      BY Zenon, <1>0, <2>1, <2>3 DEF Keyed, SessionLasts, TaskOK
    <2>5. ASSUME NEW u \in Worker
          PROVE  pc[u] # "idle" /\ job[u] \in Confirming => session'[ord[u]] = "complete"
      BY Zenon, <1>0 DEF TaskOK, SessionLasts, Paid
    <2>6. Paid'
      BY Zenon, <1>0, <2>1, <2>2, <2>5 DEF Honest, SessionLasts, Paid
    <2> QED  BY Zenon, <2>4, <2>6
  <1>4. CASE UNCHANGED vars
    BY Zenon, <1>4 DEF vars, doc, stripe, task, Keyed, Paid, Confirms
  <1> QED  BY Zenon, <1>1, <1>2, <1>3, <1>4 DEF Next

LEMMA SessionInvariance == Spec => [](Keyed /\ Paid)
  <1>1. Init => Keyed /\ Paid
    BY DEF Init, Keyed, Paid, Confirms
  <1>2. TypeOK /\ TypeOK' /\ Keyed /\ Paid /\ [Next]_vars => Keyed' /\ Paid'
    BY Zenon, SessionStep
  <1> QED  BY <1>1, <1>2, TypeCorrect, PTL DEF Spec

\* Repeated and concurrent checkouts with one idempotency key leave one order, although
\* the lookup of an earlier order is not atomic with the insert and may fail: Stripe gives
\* the key one session, and the order is committed after its session is made.
THEOREM OneOrder == Spec => []OneOrderPerKey
  <1>1. Keyed => OneOrderPerKey
    BY Zenon DEF Keyed, OneOrderPerKey
  <1> QED  BY <1>1, SessionInvariance, PTL

\* An order is confirmed, linked to a payment and its coupon redeemed only if the buyer
\* completed the session, in any order of the events, however often they are delivered.
THEOREM RedeemedCompleted == Spec => []RedeemedOnlyIfCompleted
  <1>1. Paid => RedeemedOnlyIfCompleted
    BY Zenon DEF Paid, Confirms, RedeemedOnlyIfCompleted
  <1> QED  BY <1>1, SessionInvariance, PTL
=============================================================================
