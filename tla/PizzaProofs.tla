---------------------------- MODULE PizzaProofs ----------------------------
(***************************************************************************)
(* Proofs about the pizza shop, for any number of customers and waiters    *)
(* and for both versions of the programs: the types of everything the      *)
(* programs hold and send, that b serves one order at a time, and that     *)
(* parcels are handed out once, to the right customer while one waiter     *)
(* does all the work, and never waited for in vain.                        *)
(***************************************************************************)
EXTENDS Pizza, SeqLemmas, FiniteSetTheorems, TLAPS

(* A program that works on a customer has a descriptor of one.             *)
DescriptorsOK ==
  /\ bpc # "accept" => nsfd \in Customers
  /\ \A w \in Waiters : wpc[w] # "recv" => wfd[w] \in Customers
  /\ dpc = "poll" => dfd \in Customers

(* Control states that only one of the versions has, and the flag that     *)
(* b.c does not have.                                                      *)
VersionOK ==
  /\ version = "ace" => bpc # "paused"
  /\ version = "pause" => bpc # "reset" /\ signal_recieved = -1

(* The inductive invariant.                                                *)
IInv == TypeOK /\ DescriptorsOK /\ VersionOK /\ OrdersInTurn

(* The programs of a version do what the programs of either may do; w1,    *)
(* w2 and w3 run the same code.                                            *)
Step ==
  \/ \E c \in Customers : Customer(c)
  \/ Accept \/ RecvCombo \/ PassToDelivery
  \/ \E w \in Waiters : PassToWaiter(w)
  \/ version = "pause" /\ Pause
  \/ version = "ace" /\ (SpinEnds \/ SetBack)
  \/ \E w \in Waiters : Waiter(w)
  \/ DeliveryRecvFd
  \/ \E w \in Waiters : HandOver(w)

(* Every step of the shop is one of those steps.                           *)
LEMMA NextIsStep == Next => Step
<1> SUFFICES ASSUME Next PROVE Step
  OBVIOUS
<1>1. 1 \in Waiters
  BY PizzaConstants DEF Waiters
<1>2. CASE \E c \in Customers : c_c(c) \/ c_cpp(c)
  BY <1>2 DEF c_c, c_cpp, Step
<1>3. CASE b_c \/ b_cpp
  BY <1>3 DEF b_c, b_cpp, Billing, Step
<1>4. CASE w1_c \/ w1_cpp
  BY <1>1, <1>4 DEF w1_c, w1_cpp, Step
<1>5. CASE w2_c \/ w2_cpp \/ w3_c \/ w3_cpp
  BY <1>5 DEF w2_c, w2_cpp, w3_c, w3_cpp, Step
<1>6. CASE d_c \/ d_cpp
  BY <1>6 DEF d_c, d_cpp, Delivery, Step
<1> QED
  BY <1>2, <1>3, <1>4, <1>5, <1>6 DEF Next

(* The shop opens with nobody in it.                                       *)
LEMMA InitOK == Init => IInv
<1> SUFFICES ASSUME Init PROVE IInv
  OBVIOUS
<1>1. TypeOK
  <2>1. /\ version \in Versions /\ bpc = "accept" /\ signal_recieved \in {-1, 1}
        /\ backlog \in Seq(Customers) /\ toDelivery \in Seq(Customers)
        /\ toWaiter \in [Waiters -> Seq(Customers)]
        /\ dq \in [Waiters -> Seq(Parcel)]
    BY DEF Init
  <2>2. combo_items \in [Waiters -> Parcel]
    BY DEF Init, Parcel
  <2>3. got \in [Customers -> Parcel \cup {NoParcel}]
    BY DEF Init
  <2> QED
    BY <2>1, <2>2, <2>3 DEF Init, TypeOK
<1>2. DescriptorsOK /\ VersionOK
  BY DEF Init, DescriptorsOK, VersionOK
<1>3. Given = {}
  BY DEF Init, Given, Busy
<1>4. OrdersInTurn
  BY <1>3 DEF Init, OrdersInTurn, OneOrderAtATime, FlagIsForThisCustomer
<1> QED
  BY <1>1, <1>2, <1>4 DEF IInv

(* Types and descriptors survive every step.                               *)
LEMMA TypeStep == TypeOK /\ DescriptorsOK /\ Step => TypeOK' /\ DescriptorsOK'
<1> SUFFICES ASSUME TypeOK, DescriptorsOK, Step PROVE TypeOK' /\ DescriptorsOK'
  OBVIOUS
<1> USE DEF customerVars, billingVars, waiterVars, deliveryVars, history
<1>1. ASSUME NEW c \in Customers, Customer(c) PROVE TypeOK' /\ DescriptorsOK'
  <2>1. backlog' \in Seq(Customers)
    <3>1. backlog' = backlog \/ backlog' = Append(backlog, c)
      BY <1>1 DEF Customer, Connect, SendCombo, SendItems, RecvParcel, Quit
    <3>2. backlog \in Seq(Customers)
      BY DEF TypeOK
    <3> QED
      BY <3>1, <3>2, AppendElements
  <2>2. \E v \in {"away", "combo", "items", "waiting", "served", "gone"} :
          cpc' = [cpc EXCEPT ![c] = v]
    BY <1>1 DEF Customer, Connect, SendCombo, SendItems, RecvParcel, Quit,
                CustomerMoves
  <2>3. UNCHANGED <<version, billingVars, waiterVars, deliveryVars,
                    toWaiter, toDelivery, dq, history>>
    BY <1>1 DEF Customer, Connect, SendCombo, SendItems, RecvParcel, Quit,
                CustomerMoves
  <2> QED
    BY <2>1, <2>2, <2>3 DEF TypeOK, DescriptorsOK
<1>2. CASE Accept
  BY <1>2, TailElements DEF Accept, BillingOnly, TypeOK, DescriptorsOK
<1>3. CASE RecvCombo
  BY <1>3 DEF RecvCombo, BillingOnly, TypeOK, DescriptorsOK
<1>4. CASE PassToDelivery
  BY <1>4 DEF PassToDelivery, BillingOnly, TypeOK, DescriptorsOK
<1>5. ASSUME NEW w \in Waiters, PassToWaiter(w) PROVE TypeOK' /\ DescriptorsOK'
  BY <1>5 DEF PassToWaiter, BillingOnly, TypeOK, DescriptorsOK
<1>6. CASE Pause \/ SpinEnds \/ SetBack
  BY <1>6 DEF Pause, SpinEnds, SetBack, BillingGoes, BillingOnly, TypeOK,
              DescriptorsOK
<1>7. ASSUME NEW w \in Waiters, Waiter(w) PROVE TypeOK' /\ DescriptorsOK'
  <2>1. CASE RecvFd(w)
    <3>1. Head(toWaiter[w]) \in Customers /\ Tail(toWaiter[w]) \in Seq(Customers)
      BY <2>1, TailElements DEF RecvFd, TypeOK
    <3> QED
      BY <2>1, <3>1 DEF RecvFd, WaiterGoes, TypeOK, DescriptorsOK
  <2>2. CASE RecvItems(w)
    BY <2>2 DEF RecvItems, WaiterGoes, TypeOK, DescriptorsOK, Parcel
  <2>3. CASE Signal(w)
    BY <2>3 DEF Signal, WaiterGoes, TypeOK, DescriptorsOK
  <2>4. CASE AceSignal(w)
    BY <2>4 DEF AceSignal, WaiterGoes, TypeOK, DescriptorsOK
  <2>5. CASE SendItemsOn(w)
    BY <2>5 DEF SendItemsOn, WaiterGoes, TypeOK, DescriptorsOK
  <2> QED
    BY <1>7, <2>1, <2>2, <2>3, <2>4, <2>5 DEF Waiter
<1>8. CASE DeliveryRecvFd
  BY <1>8, TailElements DEF DeliveryRecvFd, TypeOK, DescriptorsOK
<1>9. ASSUME NEW w \in Waiters, HandOver(w) PROVE TypeOK' /\ DescriptorsOK'
  <2>1. Head(dq[w]) \in Parcel /\ Tail(dq[w]) \in Seq(Parcel)
    BY <1>9, TailElements DEF HandOver, FirstReady, TypeOK
  <2>2. Sent(w) \in Parcel /\ dfd \in Customers
    BY <1>9, <2>1 DEF Sent, Parcel, HandOver, DescriptorsOK
  <2> QED
    BY <1>9, <2>1, <2>2 DEF HandOver, TypeOK, DescriptorsOK
<1> QED
  BY <1>1, <1>2, <1>3, <1>4, <1>5, <1>6, <1>7, <1>8, <1>9 DEF Step

(* The version never changes, b.c does not spin and b.cpp does not pause.  *)
LEMMA VersionStep == TypeOK /\ VersionOK /\ Step => VersionOK'
<1> SUFFICES ASSUME TypeOK, VersionOK, Step PROVE VersionOK'
  OBVIOUS
<1> USE DEF customerVars, billingVars, waiterVars, deliveryVars, history
<1>1. ASSUME NEW c \in Customers, Customer(c) PROVE VersionOK'
  BY <1>1 DEF Customer, Connect, SendCombo, SendItems, RecvParcel, Quit,
              CustomerMoves, VersionOK
<1>2. CASE Accept \/ RecvCombo \/ PassToDelivery
  BY <1>2 DEF Accept, RecvCombo, PassToDelivery, BillingOnly, VersionOK
<1>3. ASSUME NEW w \in Waiters, PassToWaiter(w) PROVE VersionOK'
  BY <1>3 DEF PassToWaiter, BillingOnly, VersionOK
<1>4. CASE version = "pause" /\ Pause
  BY <1>4 DEF Pause, BillingGoes, BillingOnly, VersionOK
<1>5. CASE version = "ace" /\ (SpinEnds \/ SetBack)
  BY <1>5 DEF SpinEnds, SetBack, BillingGoes, BillingOnly, VersionOK
<1>6. ASSUME NEW w \in Waiters, Waiter(w) PROVE VersionOK'
  BY <1>6 DEF Waiter, RecvFd, RecvItems, Signal, AceSignal, SendItemsOn,
              WaiterGoes, VersionOK
<1>7. CASE DeliveryRecvFd
  BY <1>7 DEF DeliveryRecvFd, VersionOK
<1>8. ASSUME NEW w \in Waiters, HandOver(w) PROVE VersionOK'
  BY <1>8 DEF HandOver, VersionOK
<1> QED
  BY <1>1, <1>2, <1>3, <1>4, <1>5, <1>6, <1>7, <1>8 DEF Step

(* Steps that leave alone what b and the waiters share about an order.     *)
LEMMA OrdersSame ==
  ASSUME OrdersInTurn, UNCHANGED <<bpc, nsfd, signal_recieved, toWaiter, wpc, wfd>>
  PROVE  OrdersInTurn'
<1>1. Given' = Given
  BY DEF Given, Busy
<1> QED
  BY <1>1 DEF OrdersInTurn, OneOrderAtATime, FlagIsForThisCustomer, Busy

(* When b is not waiting for a signal, no waiter has an order.             *)
LEMMA NoOrder ==
  ASSUME OrdersInTurn, bpc \notin {"ready", "paused"}
  PROVE  Given = {}
BY DEF OrdersInTurn, OneOrderAtATime

(* The orders stay in turn: only b in "pass" gives an order out, and it    *)
(* gets there when the last one was completed.                             *)
LEMMA OrdersStep ==
  TypeOK /\ VersionOK /\ OrdersInTurn /\ Step => OrdersInTurn'
<1> SUFFICES ASSUME TypeOK, VersionOK, OrdersInTurn, Step PROVE OrdersInTurn'
  OBVIOUS
<1> USE DEF customerVars, billingVars, waiterVars, deliveryVars, history
<1>1. ASSUME NEW c \in Customers, Customer(c) PROVE OrdersInTurn'
  BY <1>1, OrdersSame DEF Customer, Connect, SendCombo, SendItems, RecvParcel,
                          Quit, CustomerMoves
<1>2. CASE Accept \/ RecvCombo \/ PassToDelivery
  <2>1. Given = {} /\ signal_recieved # 1
    BY <1>2, NoOrder DEF Accept, RecvCombo, PassToDelivery, OrdersInTurn,
                         FlagIsForThisCustomer
  <2>2. UNCHANGED <<signal_recieved, toWaiter, wpc>>
    BY <1>2 DEF Accept, RecvCombo, PassToDelivery, BillingOnly
  <2>3. Given' = {}
    BY <2>1, <2>2 DEF Given, Busy
  <2> QED
    BY <2>1, <2>2, <2>3 DEF OrdersInTurn, OneOrderAtATime, FlagIsForThisCustomer
<1>3. ASSUME NEW w \in Waiters, PassToWaiter(w) PROVE OrdersInTurn'
  <2>1. Given = {} /\ signal_recieved # 1
    BY <1>3, NoOrder DEF PassToWaiter, OrdersInTurn, FlagIsForThisCustomer
  <2>2. \A v \in Waiters : toWaiter[v] = <<>> /\ ~Busy(v)
    BY <2>1 DEF Given
  <2>3. /\ bpc' = "ready"
        /\ UNCHANGED <<nsfd, signal_recieved, wpc, wfd>>
        /\ toWaiter' = [toWaiter EXCEPT ![w] = <<nsfd>>]
    BY <1>3, <2>2, OneElement DEF PassToWaiter, BillingOnly, TypeOK
  <2>4. /\ \A v \in Waiters : ~Busy(v)'
        /\ toWaiter'[w] = <<nsfd>> /\ toWaiter'[w] # <<>>
        /\ \A v \in Waiters : v # w => toWaiter'[v] = <<>>
    BY <2>2, <2>3, OneElement DEF Busy, TypeOK
  <2>5. Given' = {w}
    BY <2>4 DEF Given
  <2> QED
    BY <2>1, <2>3, <2>4, <2>5 DEF OrdersInTurn, OneOrderAtATime,
                                  FlagIsForThisCustomer
<1>4. CASE version = "pause" /\ Pause
  <2>1. /\ bpc = "ready" /\ bpc' = "paused" /\ signal_recieved = -1
        /\ UNCHANGED <<nsfd, signal_recieved, toWaiter, wpc, wfd>>
    BY <1>4 DEF Pause, BillingGoes, BillingOnly, VersionOK
  <2>2. Given' = Given
    BY <2>1 DEF Given, Busy
  <2> QED
    BY <2>1, <2>2 DEF OrdersInTurn, OneOrderAtATime, FlagIsForThisCustomer, Busy
<1>5. CASE version = "ace" /\ (SpinEnds \/ SetBack)
  <2>1. Given = {}
    BY <1>5, NoOrder DEF TypeOK, SpinEnds, SetBack, BillingGoes, OrdersInTurn,
                         FlagIsForThisCustomer
  <2>2. UNCHANGED <<toWaiter, wpc>> /\ (signal_recieved' = 1 => bpc' = "reset")
    BY <1>5 DEF SpinEnds, SetBack, BillingGoes, BillingOnly
  <2>3. Given' = {}
    BY <2>1, <2>2 DEF Given, Busy
  <2> QED
    BY <2>2, <2>3 DEF OrdersInTurn, OneOrderAtATime, FlagIsForThisCustomer
<1>6. ASSUME NEW w \in Waiters, Waiter(w) PROVE OrdersInTurn'
  <2>1. CASE RecvFd(w)
    <3>1. w \in Given /\ ~Busy(w)
      BY <2>1 DEF RecvFd, WaiterGoes, Given, Busy
    <3>2. /\ Given = {w} /\ bpc \in {"ready", "paused"}
          /\ toWaiter[w] = <<nsfd>> /\ signal_recieved # 1
      BY <3>1 DEF OrdersInTurn, OneOrderAtATime, FlagIsForThisCustomer
    <3>3. /\ UNCHANGED <<bpc, nsfd, signal_recieved>>
          /\ wpc' = [wpc EXCEPT ![w] = "items"]
          /\ wfd' = [wfd EXCEPT ![w] = nsfd]
          /\ toWaiter' = [toWaiter EXCEPT ![w] = <<>>]
      BY <2>1, <3>2, OneElement DEF RecvFd, WaiterGoes, TypeOK
    <3>4. /\ Busy(w)' /\ wfd'[w] = nsfd' /\ toWaiter'[w] = <<>>
          /\ \A v \in Waiters : v # w => v \notin Given'
      BY <3>2, <3>3 DEF Busy, Given, TypeOK
    <3>5. Given' = {w}
      BY <3>4 DEF Given
    <3> QED
      BY <3>2, <3>3, <3>4, <3>5 DEF OrdersInTurn, OneOrderAtATime,
                                    FlagIsForThisCustomer
  <2>2. CASE RecvItems(w)
    <3>1. /\ UNCHANGED <<bpc, nsfd, signal_recieved, toWaiter, wfd>>
          /\ wpc[w] = "items" /\ wpc' = [wpc EXCEPT ![w] = "sleep"]
      BY <2>2 DEF RecvItems, WaiterGoes
    <3>2. \A v \in Waiters : Busy(v)' = Busy(v)
      BY <3>1 DEF Busy, TypeOK
    <3>3. Given' = Given
      BY <3>1, <3>2 DEF Given
    <3>4. \A v \in Given : v \in Waiters
      BY DEF Given
    <3> QED
      BY <3>1, <3>2, <3>3, <3>4 DEF OrdersInTurn, OneOrderAtATime,
                                    FlagIsForThisCustomer
  <2>3. CASE Signal(w) \/ AceSignal(w)
    <3>1. w \in Given /\ Busy(w)
      BY <2>3 DEF Signal, AceSignal, WaiterGoes, Given, Busy
    <3>2. /\ Given = {w} /\ bpc \in {"ready", "paused"}
          /\ toWaiter[w] = <<>> /\ signal_recieved # 1
      BY <3>1 DEF OrdersInTurn, OneOrderAtATime, FlagIsForThisCustomer
    <3>3. toWaiter' = toWaiter /\ wpc' = [wpc EXCEPT ![w] = "send"]
      BY <2>3 DEF Signal, AceSignal, WaiterGoes
    <3>4. Given' = {}
      BY <3>2, <3>3 DEF Given, Busy, TypeOK
    <3>5. signal_recieved' = 1 => bpc' \in {"ready", "reset"}
      BY <2>3, <3>2 DEF Signal, AceSignal, VersionOK
    <3> QED
      BY <3>4, <3>5 DEF OrdersInTurn, OneOrderAtATime, FlagIsForThisCustomer
  <2>4. CASE SendItemsOn(w)
    <3>1. /\ UNCHANGED <<bpc, nsfd, signal_recieved, toWaiter, wfd>>
          /\ wpc[w] = "send" /\ wpc' = [wpc EXCEPT ![w] = "recv"]
      BY <2>4 DEF SendItemsOn, WaiterGoes
    <3>2. \A v \in Waiters : Busy(v)' = Busy(v)
      BY <3>1 DEF Busy, TypeOK
    <3>3. Given' = Given
      BY <3>1, <3>2 DEF Given
    <3>4. \A v \in Given : v \in Waiters
      BY DEF Given
    <3> QED
      BY <3>1, <3>2, <3>3, <3>4 DEF OrdersInTurn, OneOrderAtATime,
                                    FlagIsForThisCustomer
  <2> QED
    BY <1>6, <2>1, <2>2, <2>3, <2>4 DEF Waiter
<1>7. CASE DeliveryRecvFd
  BY <1>7, OrdersSame DEF DeliveryRecvFd
<1>8. ASSUME NEW w \in Waiters, HandOver(w) PROVE OrdersInTurn'
  BY <1>8, OrdersSame DEF HandOver
<1> QED
  BY <1>1, <1>2, <1>3, <1>4, <1>5, <1>6, <1>7, <1>8 DEF Step

(* A stuttering step keeps the invariant.                                  *)
LEMMA StutterOK == IInv /\ UNCHANGED vars => IInv'
BY DEF IInv, vars, customerVars, billingVars, waiterVars, deliveryVars, history,
       TypeOK, DescriptorsOK, VersionOK, OrdersInTurn, OneOrderAtATime,
       FlagIsForThisCustomer, Given, Busy

(* IInv holds in every state of every behaviour.                           *)
LEMMA Invariance == Spec => []IInv
<1>1. IInv /\ [Next]_vars => IInv'
  BY NextIsStep, TypeStep, VersionStep, OrdersStep, StutterOK DEF IInv
<1> QED
  BY InitOK, <1>1, PTL DEF Spec

(* Descriptors are always customers and every buffer holds a parcel or     *)
(* nothing: recv_fd and recv of seven programs, of both versions.          *)
THEOREM TypesKept == Spec => []TypeOK
<1>1. IInv => TypeOK
  BY DEF IInv
<1> QED
  BY Invariance, <1>1, PTL

(* b gives work to one waiter at a time and waits for that customer; the   *)
(* flag of b.cpp is never set by another customer's waiter.                *)
THEOREM OrdersTakeTurns == Spec => []OrdersInTurn
<1>1. IInv => OrdersInTurn
  BY DEF IInv
<1> QED
  BY Invariance, <1>1, PTL

-----------------------------------------------------------------------------
(* One parcel for every customer that d waits to serve                     *)

Turn == IF dpc = "poll" THEN 1 ELSE 0
Pending == bpc \in {"reset", "deliver"} \/ signal_recieved = 1
Owed == IF Pending THEN 1 ELSE 0
Sending == {w \in Waiters : wpc[w] = "send"}

(* A parcel is also on its way for the customer whose completion b knows   *)
(* of and has not passed to d.                                             *)
CountOK ==
  /\ IsFiniteSet(Parcels)
  /\ Len(toDelivery) + Turn + Owed <= Cardinality(Parcels) + Cardinality(Sending)

(* What the set of parcels on the connections f consists of.               *)
LEMMA ParcelIs ==
  ASSUME NEW f \in [Waiters -> Seq(Parcel)]
  PROVE  \A p : p \in UNION {{w} \X DOMAIN f[w] : w \in Waiters} <=>
           \E v \in Waiters : \E i \in 1..Len(f[v]) : p = <<v, i>>
<1> DEFINE P == UNION {{w} \X DOMAIN f[w] : w \in Waiters}
<1>1. \A v \in Waiters : DOMAIN f[v] = 1..Len(f[v])
  BY LenProperties
<1>2. ASSUME NEW p, p \in P
      PROVE  \E v \in Waiters : \E i \in 1..Len(f[v]) : p = <<v, i>>
  <2>1. PICK v \in Waiters : p \in {v} \X DOMAIN f[v]
    BY <1>2
  <2> QED
    BY <1>1, <2>1
<1>3. ASSUME NEW v \in Waiters, NEW i \in 1..Len(f[v]) PROVE <<v, i>> \in P
  <2>1. <<v, i>> \in {v} \X DOMAIN f[v]
    BY <1>1
  <2> QED
    BY <2>1
<1> QED
  BY <1>2, <1>3

(* A waiter's send puts one parcel on its connection.                      *)
LEMMA ParcelAdded ==
  ASSUME TypeOK, TypeOK', IsFiniteSet(Parcels), NEW w \in Waiters,
         dq' = [dq EXCEPT ![w] = Append(@, combo_items[w])]
  PROVE  IsFiniteSet(Parcels') /\ Cardinality(Parcels') = Cardinality(Parcels) + 1
<1> DEFINE n == Len(dq[w])
<1>1. n \in Nat
  BY LenProperties DEF TypeOK
<1>2. Len(dq'[w]) = n + 1 /\ \A v \in Waiters : v # w => dq'[v] = dq[v]
  BY AppendElements DEF TypeOK
<1>p. \A p : p \in Parcels <=>
        \E v \in Waiters : \E i \in 1..Len(dq[v]) : p = <<v, i>>
  BY ParcelIs DEF Parcels, TypeOK
<1>3. \A p : p \in Parcels' <=>
        \E v \in Waiters : \E i \in 1..Len(dq'[v]) : p = <<v, i>>
  BY ParcelIs DEF Parcels, TypeOK
<1>4. ASSUME NEW p PROVE p \in Parcels' <=> p \in Parcels \cup {<<w, n + 1>>}
  BY SMTT(30), <1>1, <1>2, <1>3, <1>p
<1>5. Parcels' = Parcels \cup {<<w, n + 1>>}
  BY <1>4
<1>6. <<w, n + 1>> \notin Parcels
  BY <1>1, <1>p
<1> QED
  BY <1>5, <1>6, FS_AddElement

(* d's recv takes one parcel off a connection.                             *)
LEMMA ParcelTaken ==
  ASSUME TypeOK, TypeOK', IsFiniteSet(Parcels), NEW w \in Waiters,
         dq[w] # <<>>, dq' = [dq EXCEPT ![w] = Tail(@)]
  PROVE  IsFiniteSet(Parcels') /\ Cardinality(Parcels') = Cardinality(Parcels) - 1
<1> DEFINE n == Len(dq[w])
<1>1. n \in Nat \ {0}
  BY TailElements, LenProperties DEF TypeOK
<1>2. Len(dq'[w]) = n - 1 /\ \A v \in Waiters : v # w => dq'[v] = dq[v]
  BY TailElements DEF TypeOK
<1>p. \A p : p \in Parcels <=>
        \E v \in Waiters : \E i \in 1..Len(dq[v]) : p = <<v, i>>
  BY ParcelIs DEF Parcels, TypeOK
<1>3. \A p : p \in Parcels' <=>
        \E v \in Waiters : \E i \in 1..Len(dq'[v]) : p = <<v, i>>
  BY ParcelIs DEF Parcels, TypeOK
<1>4. ASSUME NEW p PROVE p \in Parcels' <=> p \in Parcels \ {<<w, n>>}
  BY <1>1, <1>2, <1>3, <1>p
<1>5. Parcels' = Parcels \ {<<w, n>>}
  BY <1>4
<1>6. <<w, n>> \in Parcels
  BY <1>1, <1>p
<1> QED
  BY <1>5, <1>6, FS_RemoveElement

(* The waiters that are about to send can be counted.                      *)
LEMMA SendingCount == IsFiniteSet(Sending) /\ Cardinality(Sending) \in Nat
<1>1. IsFiniteSet(Waiters) /\ Sending \subseteq Waiters
  BY PizzaConstants, FS_Interval DEF Waiters, Sending
<1> QED
  BY <1>1, FS_Subset, FS_CardinalityType

(* How their number changes.                                               *)
LEMMA SendingChanges ==
  ASSUME TypeOK, NEW w \in Waiters, NEW s,
         wpc' = [wpc EXCEPT ![w] = s]
  PROVE  /\ wpc[w] # "send" /\ s = "send" =>
              Cardinality(Sending') = Cardinality(Sending) + 1
         /\ wpc[w] = "send" /\ s # "send" =>
              Cardinality(Sending') = Cardinality(Sending) - 1
         /\ wpc[w] # "send" /\ s # "send" => Sending' = Sending
<1>1. IsFiniteSet(Sending)
  BY SendingCount
<1>3. ASSUME wpc[w] # "send", s = "send"
      PROVE  Cardinality(Sending') = Cardinality(Sending) + 1
  <2>1. Sending' = Sending \cup {w} /\ w \notin Sending
    BY <1>3 DEF Sending, TypeOK
  <2> QED
    BY <1>1, <2>1, FS_AddElement
<1>4. ASSUME wpc[w] = "send", s # "send"
      PROVE  Cardinality(Sending') = Cardinality(Sending) - 1
  <2>1. Sending' = Sending \ {w} /\ w \in Sending
    BY <1>4 DEF Sending, TypeOK
  <2> QED
    BY <1>1, <2>1, FS_RemoveElement
<1>5. ASSUME wpc[w] # "send", s # "send" PROVE Sending' = Sending
  BY <1>5 DEF Sending, TypeOK
<1> QED
  BY <1>3, <1>4, <1>5

(* Steps that do not move a parcel or a customer of d.                     *)
LEMMA CountSame ==
  ASSUME CountOK, UNCHANGED <<toDelivery, dpc, dq>>, Sending' = Sending,
         Pending' => Pending, Len(toDelivery) \in Nat
  PROVE  CountOK'
<1>1. Parcels' = Parcels /\ Turn' = Turn
  BY DEF Parcels, Turn
<1>2. Owed' <= Owed /\ Owed \in Nat /\ Owed' \in Nat
  BY DEF Owed
<1>3. Turn \in Nat
  BY DEF Turn
<1>4. IsFiniteSet(Parcels) => Cardinality(Parcels) \in Nat
  BY FS_CardinalityType
<1>5. Cardinality(Sending) \in Nat
  BY SendingCount
<1> QED
  BY <1>1, <1>2, <1>3, <1>4, <1>5 DEF CountOK

(* A parcel is on its way before its customer is passed to d, and d takes  *)
(* one parcel for one customer.                                            *)
LEMMA CountStep == IInv /\ TypeOK' /\ CountOK /\ Step => CountOK'
<1> SUFFICES ASSUME IInv, TypeOK', CountOK, Step PROVE CountOK'
  OBVIOUS
<1> USE DEF customerVars, billingVars, waiterVars, deliveryVars, history
<1>0. TypeOK /\ VersionOK /\ OrdersInTurn
  BY DEF IInv
<1>n. /\ IsFiniteSet(Parcels) /\ Cardinality(Parcels) \in Nat
      /\ Len(toDelivery) \in Nat /\ Turn \in {0, 1} /\ Owed \in {0, 1}
  BY <1>0, FS_CardinalityType, LenProperties DEF CountOK, TypeOK, Turn, Owed
<1>1. ASSUME NEW c \in Customers, Customer(c) PROVE CountOK'
  <2>1. UNCHANGED <<bpc, signal_recieved, wpc, toDelivery, dpc, dq>>
    BY <1>1 DEF Customer, Connect, SendCombo, SendItems, RecvParcel, Quit,
                CustomerMoves
  <2>2. Sending' = Sending /\ (Pending' => Pending)
    BY <2>1 DEF Sending, Pending
  <2> QED
    BY <1>n, <2>1, <2>2, CountSame
<1>2. CASE Accept \/ RecvCombo \/ \E w \in Waiters : PassToWaiter(w)
  <2>1. /\ UNCHANGED <<signal_recieved, wpc, toDelivery, dpc, dq>>
        /\ bpc' \in {"combo", "pass", "ready"}
    BY <1>2 DEF Accept, RecvCombo, PassToWaiter, BillingOnly
  <2>2. Sending' = Sending /\ (Pending' => Pending)
    BY <2>1 DEF Sending, Pending
  <2> QED
    BY <1>n, <2>1, <2>2, CountSame
<1>3. CASE PassToDelivery
  <2>1. /\ UNCHANGED <<signal_recieved, wpc, dpc, dq>>
        /\ toDelivery' = Append(toDelivery, nsfd)
        /\ bpc = "deliver" /\ bpc' = "accept"
    BY <1>3 DEF PassToDelivery, BillingOnly
  <2>2. Owed = 1 /\ Owed' = 0
    BY <1>0, <2>1 DEF Owed, Pending, OrdersInTurn, FlagIsForThisCustomer
  <2>3. Len(toDelivery') = Len(toDelivery) + 1
    BY <1>0, <2>1, AppendLength DEF TypeOK
  <2>4. Parcels' = Parcels /\ Sending' = Sending /\ Turn' = Turn
    BY <2>1 DEF Parcels, Sending, Turn
  <2> QED
    BY <1>n, <2>2, <2>3, <2>4 DEF CountOK
<1>4. CASE (version = "pause" /\ Pause) \/ (version = "ace" /\ (SpinEnds \/ SetBack))
  <2>1. /\ UNCHANGED <<wpc, toDelivery, dpc, dq>>
        /\ Pending' => Pending
    BY <1>4, <1>0 DEF Pause, SpinEnds, SetBack, BillingGoes, BillingOnly,
                      Pending, TypeOK
  <2>2. Sending' = Sending
    BY <2>1 DEF Sending
  <2> QED
    BY <1>n, <2>1, <2>2, CountSame
<1>5. ASSUME NEW w \in Waiters, Waiter(w) PROVE CountOK'
  <2>1. CASE RecvFd(w) \/ RecvItems(w)
    <3>1. /\ UNCHANGED <<bpc, signal_recieved, toDelivery, dpc, dq>>
          /\ wpc[w] # "send"
          /\ \E s \in {"items", "sleep"} : wpc' = [wpc EXCEPT ![w] = s]
      BY <2>1 DEF RecvFd, RecvItems, WaiterGoes
    <3>2. Sending' = Sending
      BY <1>0, <3>1, SendingChanges
    <3>3. Pending' => Pending
      BY <3>1 DEF Pending
    <3> QED
      BY <1>n, <3>1, <3>2, <3>3, CountSame
  <2>2. CASE Signal(w) \/ AceSignal(w)
    <3>1. /\ UNCHANGED <<toDelivery, dpc, dq>>
          /\ wpc[w] = "sleep" /\ wpc' = [wpc EXCEPT ![w] = "send"]
      BY <2>2 DEF Signal, AceSignal, WaiterGoes
    <3>2. /\ Cardinality(Sending) \in Nat
          /\ Cardinality(Sending') = Cardinality(Sending) + 1
      BY <1>0, <3>1, SendingChanges, SendingCount
    <3>3. Parcels' = Parcels /\ Turn' = Turn /\ Owed' \in {0, 1}
      BY <3>1 DEF Parcels, Turn, Owed
    <3> QED
      <4>1. Len(toDelivery) + Turn <= Cardinality(Parcels) + Cardinality(Sending)
        BY <1>n, <3>2 DEF CountOK
      <4> QED
        BY <1>n, <3>1, <3>2, <3>3, <4>1 DEF CountOK
  <2>3. CASE SendItemsOn(w)
    <3>1. /\ UNCHANGED <<bpc, signal_recieved, toDelivery, dpc>>
          /\ wpc[w] = "send" /\ wpc' = [wpc EXCEPT ![w] = "recv"]
          /\ dq' = [dq EXCEPT ![w] = Append(@, combo_items[w])]
      BY <2>3 DEF SendItemsOn, WaiterGoes
    <3>2. /\ Cardinality(Sending) \in Nat
          /\ Cardinality(Sending') = Cardinality(Sending) - 1
      <4>1. wpc[w] = "send" /\ "recv" # "send" =>
              Cardinality(Sending') = Cardinality(Sending) - 1
        BY <1>0, <3>1, SendingChanges, Zenon
      <4> QED
        BY <3>1, <4>1, SendingCount
    <3>3. IsFiniteSet(Parcels') /\ Cardinality(Parcels') = Cardinality(Parcels) + 1
      BY <1>0, <1>n, <3>1, ParcelAdded
    <3>4. Turn' = Turn /\ Owed' = Owed
      BY <3>1 DEF Turn, Owed, Pending
    <3> QED
      BY <1>n, <3>1, <3>2, <3>3, <3>4 DEF CountOK
  <2> QED
    BY <1>5, <2>1, <2>2, <2>3 DEF Waiter
<1>6. CASE DeliveryRecvFd
  <2>1. /\ UNCHANGED <<bpc, signal_recieved, wpc, dq>>
        /\ dpc = "recv" /\ dpc' = "poll"
        /\ toDelivery # <<>> /\ toDelivery' = Tail(toDelivery)
    BY <1>6 DEF DeliveryRecvFd
  <2>2. Len(toDelivery') = Len(toDelivery) - 1
    BY <1>0, <2>1, TailElements DEF TypeOK
  <2>3. Turn = 0 /\ Turn' = 1
    BY <2>1 DEF Turn
  <2>4. Parcels' = Parcels /\ Sending' = Sending /\ Owed' = Owed
    BY <2>1 DEF Parcels, Sending, Owed, Pending
  <2> QED
    BY <1>n, <2>2, <2>3, <2>4 DEF CountOK
<1>7. ASSUME NEW w \in Waiters, HandOver(w) PROVE CountOK'
  <2>1. /\ UNCHANGED <<bpc, signal_recieved, wpc, toDelivery>>
        /\ dpc = "poll" /\ dpc' = "recv"
        /\ dq[w] # <<>> /\ dq' = [dq EXCEPT ![w] = Tail(@)]
    BY <1>7 DEF HandOver, FirstReady
  <2>2. IsFiniteSet(Parcels') /\ Cardinality(Parcels') = Cardinality(Parcels) - 1
    BY <1>0, <1>n, <2>1, ParcelTaken
  <2>3. Turn = 1 /\ Turn' = 0
    BY <2>1 DEF Turn
  <2>4. Sending' = Sending /\ Owed' = Owed
    BY <2>1 DEF Sending, Owed, Pending
  <2>5. Cardinality(Sending) \in Nat
    BY SendingCount
  <2> QED
    BY <1>n, <2>1, <2>2, <2>3, <2>4, <2>5 DEF CountOK
<1> QED
  BY <1>1, <1>2, <1>3, <1>4, <1>5, <1>6, <1>7 DEF Step

-----------------------------------------------------------------------------
(* With one waiter, parcels and customers reach d in the same order        *)

(* A parcel that may be handed to a customer, or nobody is there to take.  *)
Match(x, c) == x = c \/ cpc[c] = "gone"

(* The i-th customer that d will serve is c.                               *)
Dest(i, c) ==
  \/ dpc = "poll" /\ i = 1 /\ c = dfd
  \/ \E j \in 1..Len(toDelivery) : i = j + Turn /\ c = toDelivery[j]
  \/ bpc = "deliver" /\ i = Len(toDelivery) + Turn + 1 /\ c = nsfd

(* The i-th parcel that d will receive from waiter w is x.                 *)
Holds(w, i, x) ==
  \/ i \in 1..Len(dq[w]) /\ x = dq[w][i]
  \/ wpc[w] = "send" /\ i = Len(dq[w]) + 1 /\ x = combo_items[w]

Sends(w) == IF wpc[w] = "send" THEN 1 ELSE 0
Delivers == IF bpc = "deliver" THEN 1 ELSE 0

(* A waiter that was never hired has done nothing.                         *)
HiredOK ==
  \A v \in Waiters : v \notin hired =>
    toWaiter[v] = <<>> /\ wpc[v] = "recv" /\ dq[v] = <<>>

(* b.c waits for ever for a signal that was lost: no order follows it.     *)
LostOK == lostSignal => bpc \in {"ready", "paused"} /\ Given = {}

EvenOK(w) ==
  ~lostSignal => Len(dq[w]) + Sends(w) = Len(toDelivery) + Turn + Delivers
HeldOK(w) == wpc[w] = "sleep" => Match(combo_items[w], nsfd)
MatchOK(w) ==
  \A i \in 1..(Len(dq[w]) + 1), c \in Customers, x \in Parcel :
    Dest(i, c) /\ Holds(w, i, x) => Match(x, c)
GotOK == \A c \in Customers : got[c] = NoParcel \/ Match(got[c], c)

(* What the two queues of d say when all customers go to waiter w.         *)
Paired(w) == EvenOK(w) /\ HeldOK(w) /\ MatchOK(w) /\ GotOK

FifoOK ==
  /\ HiredOK
  /\ version = "pause" => LostOK /\ \A w \in Waiters : hired \subseteq {w} => Paired(w)

(* A customer that left does not come back.                                *)
LEMMA GoneStays ==
  ASSUME TypeOK, Step, NEW c \in Customers, cpc[c] = "gone"
  PROVE  cpc'[c] = "gone"
<1> USE DEF customerVars, billingVars, waiterVars, deliveryVars, history
<1>1. ASSUME NEW e \in Customers, Customer(e) PROVE cpc'[c] = "gone"
  <2>1. PICK from \in {"away", "combo", "items", "waiting"} :
          cpc[e] = from /\ \E v : cpc' = [cpc EXCEPT ![e] = v]
    BY <1>1 DEF Customer, Connect, SendCombo, SendItems, RecvParcel, Quit,
                CustomerMoves
  <2> QED
    BY <2>1 DEF TypeOK
<1>2. CASE Accept \/ RecvCombo \/ PassToDelivery
  BY <1>2 DEF Accept, RecvCombo, PassToDelivery, BillingOnly
<1>3. CASE Pause \/ SpinEnds \/ SetBack
  BY <1>3 DEF Pause, SpinEnds, SetBack, BillingGoes, BillingOnly
<1>4. ASSUME NEW w \in Waiters, PassToWaiter(w) PROVE cpc'[c] = "gone"
  BY <1>4 DEF PassToWaiter, BillingOnly
<1>5. ASSUME NEW w \in Waiters, Waiter(w) PROVE cpc'[c] = "gone"
  BY <1>5 DEF Waiter, RecvFd, RecvItems, Signal, AceSignal, SendItemsOn, WaiterGoes
<1>6. CASE DeliveryRecvFd
  BY <1>6 DEF DeliveryRecvFd
<1>7. ASSUME NEW w \in Waiters, HandOver(w) PROVE cpc'[c] = "gone"
  BY <1>7 DEF HandOver
<1> QED
  BY <1>1, <1>2, <1>3, <1>4, <1>5, <1>6, <1>7 DEF Step

(* What matches goes on matching.                                          *)
LEMMA MatchKept ==
  ASSUME TypeOK, Step, NEW x, NEW c \in Customers, Match(x, c)
  PROVE  Match(x, c)'
BY GoneStays DEF Match

(* Where a parcel can be.                                                  *)
LEMMA HoldsRange ==
  ASSUME TypeOK, NEW w \in Waiters, NEW i, NEW x, Holds(w, i, x)
  PROVE  i \in 1..(Len(dq[w]) + 1) /\ x \in Parcel
<1>1. dq[w] \in Seq(Parcel) /\ combo_items[w] \in Parcel
  BY DEF TypeOK
<1>2. Len(dq[w]) \in Nat /\ \A j \in 1..Len(dq[w]) : dq[w][j] \in Parcel
  BY <1>1, LenProperties, ElementOfSeq
<1> QED
  BY <1>1, <1>2 DEF Holds

(* A step that adds no customer to d's list and no parcel to w's keeps     *)
(* them matched; so does one that takes the first of each.                 *)
LEMMA MatchShift ==
  ASSUME TypeOK, TypeOK', Step, NEW w \in Waiters, MatchOK(w), NEW k \in Nat,
         \A i \in Nat, c \in Customers : Dest(i, c)' => Dest(i + k, c),
         \A i \in Nat, x \in Parcel : Holds(w, i, x)' => Holds(w, i + k, x)
  PROVE  MatchOK(w)'
<1> SUFFICES ASSUME NEW i \in 1..(Len(dq'[w]) + 1), NEW c \in Customers,
                    NEW x \in Parcel, Dest(i, c)', Holds(w, i, x)'
             PROVE  Match(x, c)'
  BY DEF MatchOK
<1>1. i \in Nat
  BY LenProperties DEF TypeOK
<1>2. Dest(i + k, c) /\ Holds(w, i + k, x)
  BY <1>1
<1>3. i + k \in 1..(Len(dq[w]) + 1)
  BY <1>2, HoldsRange
<1>4. Match(x, c)
  BY <1>2, <1>3 DEF MatchOK
<1> QED
  BY <1>4, MatchKept

(* Only hired waiters have anything to do.                                 *)
LEMMA HiredStep == TypeOK /\ HiredOK /\ Step => HiredOK'
<1> SUFFICES ASSUME TypeOK, HiredOK, Step PROVE HiredOK'
  OBVIOUS
<1> USE DEF customerVars, billingVars, waiterVars, deliveryVars, history
<1>1. ASSUME NEW c \in Customers, Customer(c) PROVE HiredOK'
  <2>1. UNCHANGED <<hired, toWaiter, wpc, dq>>
    BY <1>1 DEF Customer, Connect, SendCombo, SendItems, RecvParcel, Quit,
                CustomerMoves
  <2> QED
    BY <2>1 DEF HiredOK
<1>2. CASE Accept \/ RecvCombo \/ PassToDelivery \/ Pause \/ SpinEnds \/ SetBack
           \/ DeliveryRecvFd
  <2>1. UNCHANGED <<hired, toWaiter, wpc, dq>>
    BY <1>2 DEF Accept, RecvCombo, PassToDelivery, Pause, SpinEnds, SetBack,
                BillingGoes, BillingOnly, DeliveryRecvFd
  <2> QED
    BY <2>1 DEF HiredOK
<1>3. ASSUME NEW w \in Waiters, PassToWaiter(w) PROVE HiredOK'
  BY <1>3 DEF PassToWaiter, BillingOnly, HiredOK, TypeOK
<1>4. ASSUME NEW w \in Waiters, Waiter(w) PROVE HiredOK'
  <2>1. w \in hired /\ hired' = hired
    BY <1>4 DEF HiredOK, Waiter, RecvFd, RecvItems, Signal, AceSignal, SendItemsOn,
                WaiterGoes
  <2>2. \A v \in Waiters : v # w =>
          toWaiter'[v] = toWaiter[v] /\ wpc'[v] = wpc[v] /\ dq'[v] = dq[v]
    BY <1>4 DEF TypeOK, Waiter, RecvFd, RecvItems, Signal, AceSignal, SendItemsOn,
                WaiterGoes
  <2> QED
    BY <2>1, <2>2 DEF HiredOK
<1>5. ASSUME NEW w \in Waiters, HandOver(w) PROVE HiredOK'
  BY <1>5 DEF HandOver, FirstReady, HiredOK, TypeOK
<1> QED
  BY <1>1, <1>2, <1>3, <1>4, <1>5 DEF Step

(* After a lost signal b.c stays where it is.                              *)
LEMMA LostStep ==
  IInv /\ IInv' /\ LostOK /\ version = "pause" /\ Step => LostOK'
<1> SUFFICES ASSUME IInv, IInv', LostOK, version = "pause", Step PROVE LostOK'
  OBVIOUS
<1> USE DEF customerVars, billingVars, waiterVars, deliveryVars, history
<1>0. TypeOK /\ VersionOK /\ OrdersInTurn /\ OrdersInTurn'
  BY DEF IInv
<1>1. ASSUME NEW c \in Customers, Customer(c) PROVE LostOK'
  <2>1. UNCHANGED <<bpc, lostSignal, toWaiter, wpc>>
    BY <1>1 DEF Customer, Connect, SendCombo, SendItems, RecvParcel, Quit,
                CustomerMoves
  <2> QED
    BY <2>1 DEF LostOK, Given, Busy
<1>2. CASE Accept \/ RecvCombo \/ PassToDelivery
  BY <1>2 DEF Accept, RecvCombo, PassToDelivery, BillingOnly, LostOK
<1>3. CASE \E w \in Waiters : PassToWaiter(w)
  BY <1>3 DEF PassToWaiter, BillingOnly, LostOK
<1>4. CASE Pause
  <2>1. UNCHANGED <<lostSignal, toWaiter, wpc>> /\ bpc' = "paused"
    BY <1>4 DEF Pause, BillingGoes, BillingOnly
  <2> QED
    BY <2>1 DEF LostOK, Given, Busy
<1>5. ASSUME NEW w \in Waiters, Waiter(w) PROVE LostOK'
  <2>1. CASE SendItemsOn(w)
    <3>1. /\ UNCHANGED <<bpc, lostSignal, toWaiter>>
          /\ wpc[w] = "send" /\ wpc' = [wpc EXCEPT ![w] = "recv"]
      BY <2>1 DEF SendItemsOn, WaiterGoes
    <3>2. Given' = Given
      BY <1>0, <3>1 DEF Given, Busy, TypeOK
    <3> QED
      BY <3>1, <3>2 DEF LostOK
  <2>2. CASE RecvFd(w) \/ RecvItems(w)
    <3>1. w \in Given /\ lostSignal' = lostSignal
      BY <2>2 DEF RecvFd, RecvItems, WaiterGoes, Given, Busy
    <3> QED
      BY <3>1 DEF LostOK
  <2>3. CASE Signal(w)
    <3>1. /\ w \in Given /\ Busy(w)
          /\ toWaiter' = toWaiter /\ wpc' = [wpc EXCEPT ![w] = "send"]
          /\ lostSignal' = (lostSignal \/ bpc # "paused")
          /\ bpc # "paused" => bpc' = bpc
      BY <2>3 DEF Signal, WaiterGoes, Given, Busy
    <3>2. Given = {w} /\ bpc \in {"ready", "paused"} /\ toWaiter[w] = <<>>
      BY <1>0, <3>1 DEF OrdersInTurn, OneOrderAtATime
    <3>3. Given' = {}
      BY <1>0, <3>1, <3>2 DEF Given, Busy, TypeOK
    <3>4. ~lostSignal
      BY <3>1 DEF LostOK
    <3> QED
      BY <3>1, <3>2, <3>3, <3>4 DEF LostOK
  <2>4. ~AceSignal(w)
    BY DEF AceSignal
  <2> QED
    BY <1>5, <2>1, <2>2, <2>3, <2>4 DEF Waiter
<1>6. CASE DeliveryRecvFd \/ \E w \in Waiters : HandOver(w)
  <2>1. UNCHANGED <<bpc, lostSignal, toWaiter, wpc>>
    BY <1>6 DEF DeliveryRecvFd, HandOver
  <2> QED
    BY <2>1 DEF LostOK, Given, Busy
<1> QED
  BY <1>1, <1>2, <1>3, <1>4, <1>5, <1>6 DEF Step

(* What was handed out stays right while nothing is handed out.            *)
LEMMA GotKept ==
  ASSUME TypeOK, Step, GotOK, got' = got
  PROVE  GotOK'
BY MatchKept DEF GotOK

(* Nobody is dismissed.                                                    *)
LEMMA HiredGrows == Step => hired \subseteq hired'
<1> SUFFICES ASSUME Step PROVE hired \subseteq hired'
  OBVIOUS
<1> USE DEF customerVars, billingVars, waiterVars, deliveryVars, history
<1>1. ASSUME NEW c \in Customers, Customer(c) PROVE hired' = hired
  BY <1>1 DEF Customer, Connect, SendCombo, SendItems, RecvParcel, Quit,
              CustomerMoves
<1>2. CASE Accept \/ RecvCombo \/ PassToDelivery \/ Pause \/ SpinEnds \/ SetBack
           \/ DeliveryRecvFd
  BY <1>2 DEF Accept, RecvCombo, PassToDelivery, Pause, SpinEnds, SetBack,
              BillingGoes, BillingOnly, DeliveryRecvFd
<1>3. ASSUME NEW w \in Waiters, PassToWaiter(w) PROVE hired \subseteq hired'
  BY <1>3 DEF PassToWaiter
<1>4. ASSUME NEW w \in Waiters, Waiter(w) \/ HandOver(w) PROVE hired' = hired
  BY <1>4 DEF Waiter, RecvFd, RecvItems, Signal, AceSignal, SendItemsOn,
              WaiterGoes, HandOver
<1> QED
  BY <1>1, <1>2, <1>3, <1>4 DEF Step

(* Customers' own steps and b's steps before it delivers.                  *)
LEMMA PairedQuiet ==
  ASSUME TypeOK, TypeOK', Step, NEW w \in Waiters, Paired(w), HeldOK(w)',
         UNCHANGED <<dq, wpc, combo_items, toDelivery, dpc, dfd, got, lostSignal>>,
         UNCHANGED <<bpc, nsfd>> \/ "deliver" \notin {bpc, bpc'}
  PROVE  Paired(w)'
<1>1. EvenOK(w)'
  BY DEF Paired, EvenOK, Sends, Turn, Delivers
<1>2. GotOK'
  BY GotKept DEF Paired
<1>3. MatchOK(w)'
  <2>1. \A i \in Nat, c \in Customers : Dest(i, c)' => Dest(i, c)
    BY DEF Dest, Turn
  <2>2. \A i \in Nat, x \in Parcel : Holds(w, i, x)' => Holds(w, i, x)
    BY DEF Holds
  <2>3. \A i \in Nat : i + 0 = i
    OBVIOUS
  <2> QED
    BY <2>1, <2>2, <2>3, MatchShift DEF Paired
<1> QED
  BY <1>1, <1>2, <1>3 DEF Paired

(* The customer passed to d is the one that already was the last of d's.   *)
LEMMA PairedPass ==
  ASSUME IInv, TypeOK', Step, NEW w \in Waiters, Paired(w), LostOK, PassToDelivery
  PROVE  Paired(w)'
<1> USE DEF waiterVars, deliveryVars
<1>0. TypeOK /\ OrdersInTurn
  BY DEF IInv
<1>1. /\ UNCHANGED <<dq, wpc, combo_items, dpc, dfd, got, lostSignal, nsfd>>
      /\ bpc = "deliver" /\ bpc' = "accept"
      /\ toDelivery' = Append(toDelivery, nsfd)
  BY DEF PassToDelivery, BillingOnly
<1>n. nsfd \in Customers /\ toDelivery \in Seq(Customers) /\ Len(toDelivery) \in Nat
  BY <1>1, LenProperties DEF IInv, DescriptorsOK, TypeOK
<1>2. /\ Len(toDelivery') = Len(toDelivery) + 1
      /\ toDelivery'[Len(toDelivery) + 1] = nsfd
      /\ \A j \in 1..Len(toDelivery) : toDelivery'[j] = toDelivery[j]
  BY <1>1, <1>n, AppendElements
<1>3. EvenOK(w)'
  <2>1. Sends(w)' = Sends(w) /\ Turn' = Turn /\ Delivers = 1 /\ Delivers' = 0
    BY <1>1 DEF Sends, Turn, Delivers
  <2>2. Turn \in Nat
    BY DEF Turn
  <2> QED
    BY <1>1, <1>2, <1>n, <2>1, <2>2 DEF Paired, EvenOK
<1>4. HeldOK(w)'
  <2>1. Given = {}
    BY <1>0, <1>1, NoOrder
  <2> QED
    BY <1>1, <2>1 DEF HeldOK, Given, Busy
<1>5. MatchOK(w)'
  <2>1. ASSUME NEW i \in Nat, NEW c \in Customers, Dest(i, c)' PROVE Dest(i, c)
    <3>1. Turn' = Turn /\ Turn \in Nat
      BY <1>1 DEF Turn
    <3>2. CASE dpc' = "poll" /\ i = 1 /\ c = dfd'
      BY <1>1, <3>2 DEF Dest
    <3>3. ASSUME NEW j \in 1..Len(toDelivery'), i = j + Turn', c = toDelivery'[j]
          PROVE  Dest(i, c)
      <4>1. CASE j = Len(toDelivery) + 1
        BY <1>1, <1>2, <1>n, <3>1, <3>3, <4>1 DEF Dest
      <4>2. CASE j \in 1..Len(toDelivery)
        BY <1>2, <3>1, <3>3, <4>2 DEF Dest
      <4> QED
        BY <1>2, <1>n, <4>1, <4>2
    <3> QED
      BY <1>1, <2>1, <3>2, <3>3 DEF Dest
  <2>2. \A i \in Nat, x \in Parcel : Holds(w, i, x)' => Holds(w, i, x)
    BY <1>1 DEF Holds
  <2>3. \A i \in Nat : i + 0 = i
    OBVIOUS
  <2> QED
    BY <1>0, <2>1, <2>2, <2>3, MatchShift DEF Paired
<1> QED
  BY <1>0, <1>1, <1>3, <1>4, <1>5, GotKept DEF Paired

(* d's recv_fd: the first of its customers is in its hands.                *)
LEMMA PairedRecv ==
  ASSUME TypeOK, TypeOK', Step, NEW w \in Waiters, Paired(w), DeliveryRecvFd
  PROVE  Paired(w)'
<1> USE DEF billingVars, waiterVars, history
<1>1. /\ UNCHANGED <<dq, wpc, combo_items, got, lostSignal, bpc, nsfd>>
      /\ dpc = "recv" /\ dpc' = "poll" /\ toDelivery # <<>>
      /\ dfd' = Head(toDelivery) /\ toDelivery' = Tail(toDelivery)
  BY DEF DeliveryRecvFd
<1>n. toDelivery \in Seq(Customers) /\ Len(toDelivery) \in Nat
  BY LenProperties DEF TypeOK
<1>2. /\ Len(toDelivery) > 0 /\ dfd' = toDelivery[1]
      /\ Len(toDelivery') = Len(toDelivery) - 1
      /\ \A j \in 1..Len(toDelivery') :
           j + 1 \in 1..Len(toDelivery) /\ toDelivery'[j] = toDelivery[j + 1]
  BY <1>1, <1>n, TailElements
<1>t. Turn = 0 /\ Turn' = 1
  BY <1>1 DEF Turn
<1>3. EvenOK(w)'
  <2>1. Sends(w)' = Sends(w) /\ Delivers' = Delivers /\ Delivers \in Nat
    BY <1>1 DEF Sends, Delivers
  <2> QED
    BY <1>1, <1>2, <1>n, <1>t, <2>1 DEF Paired, EvenOK
<1>4. HeldOK(w)'
  BY <1>1, MatchKept DEF Paired, HeldOK, Match, DeliveryRecvFd, customerVars
<1>5. MatchOK(w)'
  <2>1. ASSUME NEW i \in Nat, NEW c \in Customers, Dest(i, c)' PROVE Dest(i, c)
    <3>1. CASE i = 1 /\ c = dfd'
      BY <1>2, <1>n, <1>t, <3>1 DEF Dest
    <3>2. ASSUME NEW j \in 1..Len(toDelivery'), i = j + 1, c = toDelivery'[j]
          PROVE  Dest(i, c)
      BY <1>2, <1>n, <1>t, <3>2 DEF Dest
    <3>3. CASE bpc = "deliver" /\ i = Len(toDelivery') + 2 /\ c = nsfd
      BY <1>2, <1>n, <1>t, <3>3 DEF Dest
    <3>4. Len(toDelivery') + 1 + 1 = Len(toDelivery') + 2
      BY <1>2, <1>n
    <3> QED
      BY <1>1, <1>t, <2>1, <3>1, <3>2, <3>3, <3>4 DEF Dest
  <2>2. \A i \in Nat, x \in Parcel : Holds(w, i, x)' => Holds(w, i, x)
    BY <1>1 DEF Holds
  <2>3. \A i \in Nat : i + 0 = i
    OBVIOUS
  <2> QED
    BY <2>1, <2>2, <2>3, MatchShift DEF Paired
<1> QED
  BY <1>1, <1>3, <1>4, <1>5, GotKept DEF Paired

(* d takes the first parcel for the first of its customers.                *)
LEMMA PairedHandOver ==
  ASSUME IInv, TypeOK', Step, NEW w \in Waiters, Paired(w), HandOver(w),
         version = "pause"
  PROVE  Paired(w)'
<1> USE DEF billingVars, waiterVars, history
<1>0. TypeOK
  BY DEF IInv
<1>1. /\ UNCHANGED <<wpc, combo_items, toDelivery, lostSignal, bpc, nsfd, cpc>>
      /\ dpc = "poll" /\ dpc' = "recv" /\ dq[w] # <<>>
      /\ got' = [got EXCEPT ![dfd] = Head(dq[w])]
      /\ dq' = [dq EXCEPT ![w] = Tail(@)]
  BY DEF HandOver, FirstReady, Sent, customerVars
<1>d. dfd \in Customers
  BY <1>1 DEF IInv, DescriptorsOK
<1>n. /\ dq[w] \in Seq(Parcel) /\ Len(dq[w]) \in Nat /\ Len(toDelivery) \in Nat
      /\ dq'[w] = Tail(dq[w])
  BY <1>0, <1>1, LenProperties DEF TypeOK
<1>2. /\ Len(dq[w]) > 0 /\ Head(dq[w]) = dq[w][1] /\ Head(dq[w]) \in Parcel
      /\ Len(dq'[w]) = Len(dq[w]) - 1
      /\ \A i \in 1..Len(dq'[w]) :
           i + 1 \in 1..Len(dq[w]) /\ dq'[w][i] = dq[w][i + 1]
  BY ZenonT(40), <1>1, <1>n, TailElements
<1>t. Turn = 1 /\ Turn' = 0
  BY <1>1 DEF Turn
<1>3. EvenOK(w)'
  <2>1. Sends(w)' = Sends(w) /\ Delivers' = Delivers
        /\ Delivers \in Nat /\ Sends(w) \in Nat
    BY <1>1 DEF Sends, Delivers
  <2> QED
    BY <1>1, <1>2, <1>n, <1>t, <2>1 DEF Paired, EvenOK
<1>4. HeldOK(w)'
  BY <1>1 DEF Paired, HeldOK, Match
<1>5. MatchOK(w)'
  <2>1. ASSUME NEW i \in Nat, NEW c \in Customers, Dest(i, c)' PROVE Dest(i + 1, c)
    BY <1>1, <1>n, <1>t, <2>1 DEF Dest
  <2>2. ASSUME NEW i \in Nat, NEW x \in Parcel, Holds(w, i, x)'
        PROVE  Holds(w, i + 1, x)
    BY <1>1, <1>2, <1>n, <2>2 DEF Holds
  <2> QED
    BY <1>0, <2>1, <2>2, MatchShift DEF Paired
<1>6. GotOK'
  <2>1. Dest(1, dfd) /\ Holds(w, 1, Head(dq[w])) /\ 1 \in 1..(Len(dq[w]) + 1)
    BY <1>1, <1>2, <1>n DEF Dest, Holds
  <2>2. Match(Head(dq[w]), dfd)
    BY <1>2, <1>d, <2>1 DEF Paired, MatchOK
  <2>3. \A c \in Customers : got[c] = NoParcel \/ Match(got[c], c)
    BY DEF Paired, GotOK
  <2> QED
    BY <1>0, <1>1, <1>d, <2>2, <2>3 DEF GotOK, Match, TypeOK
<1> QED
  BY <1>3, <1>4, <1>5, <1>6 DEF Paired

(* The waiter's recv of the descriptor and of the items.                   *)
LEMMA PairedItems ==
  ASSUME IInv, TypeOK', Step, NEW w \in Waiters, Paired(w),
         RecvFd(w) \/ RecvItems(w), version = "pause"
  PROVE  Paired(w)'
<1> USE DEF deliveryVars, customerVars
<1>0. TypeOK /\ OrdersInTurn
  BY DEF IInv
<1>1. /\ UNCHANGED <<dq, toDelivery, dpc, dfd, got, lostSignal, bpc, nsfd, cpc>>
      /\ wpc[w] # "send" /\ wpc'[w] # "send"
  BY <1>0 DEF RecvFd, RecvItems, WaiterGoes, TypeOK
<1>2. EvenOK(w)'
  BY <1>1 DEF Paired, EvenOK, Sends, Turn, Delivers
<1>3. MatchOK(w)'
  <2>1. \A i \in Nat, c \in Customers : Dest(i, c)' => Dest(i, c)
    BY <1>1 DEF Dest, Turn
  <2>2. \A i \in Nat, x \in Parcel : Holds(w, i, x)' => Holds(w, i, x)
    BY <1>1 DEF Holds
  <2>3. \A i \in Nat : i + 0 = i
    OBVIOUS
  <2> QED
    BY <1>0, <2>1, <2>2, <2>3, MatchShift DEF Paired
<1>4. HeldOK(w)'
  <2>1. CASE RecvFd(w)
    BY <1>0, <2>1 DEF RecvFd, WaiterGoes, HeldOK, TypeOK
  <2>2. CASE RecvItems(w)
    <3>1. w \in Given /\ Busy(w)
      BY <2>2 DEF RecvItems, WaiterGoes, Given, Busy
    <3>2. wfd[w] = nsfd
      BY <1>0, <3>1 DEF OrdersInTurn, OneOrderAtATime
    <3>3. cpc[wfd[w]] # "gone" => combo_items'[w] = wfd[w]
      BY <1>0, <2>2 DEF RecvItems, TypeOK
    <3> QED
      BY <1>1, <3>2, <3>3 DEF HeldOK, Match
  <2> QED
    BY <2>1, <2>2
<1> QED
  BY <1>0, <1>1, <1>2, <1>3, <1>4, GotKept DEF Paired

(* The waiter's signal: customer and parcel join their queues at the same  *)
(* place; a lost one leaves a parcel for which no customer follows.        *)
LEMMA PairedSignal ==
  ASSUME IInv, TypeOK', Step, NEW w \in Waiters, Paired(w), LostOK, LostOK',
         Signal(w)
  PROVE  Paired(w)'
<1> USE DEF deliveryVars, customerVars
<1>0. TypeOK /\ OrdersInTurn
  BY DEF IInv
<1>1. /\ UNCHANGED <<dq, toDelivery, dpc, dfd, got, nsfd, cpc, combo_items>>
      /\ wpc[w] = "sleep" /\ wpc'[w] = "send"
      /\ lostSignal' = (lostSignal \/ bpc # "paused")
      /\ bpc' = IF bpc = "paused" THEN "deliver" ELSE bpc
  BY <1>0 DEF Signal, WaiterGoes, TypeOK
<1>2. w \in Given
  BY <1>1 DEF Given, Busy
<1>3. bpc \in {"ready", "paused"} /\ ~lostSignal
  BY <1>0, <1>2 DEF OrdersInTurn, OneOrderAtATime, LostOK
<1>n. Len(dq[w]) \in Nat /\ Len(toDelivery) \in Nat /\ Turn \in Nat /\ Turn' = Turn
  BY <1>0, <1>1, LenProperties DEF TypeOK, Turn
<1>4. Len(dq[w]) = Len(toDelivery) + Turn
  BY <1>1, <1>3, <1>n DEF Paired, EvenOK, Sends, Delivers
<1>5. EvenOK(w)'
  BY <1>1, <1>3, <1>4, <1>n DEF EvenOK, Sends, Delivers
<1>6. HeldOK(w)'
  BY <1>1 DEF HeldOK
<1>7. MatchOK(w)'
  <2> SUFFICES ASSUME NEW i \in 1..(Len(dq'[w]) + 1), NEW c \in Customers,
                      NEW x \in Parcel, Dest(i, c)', Holds(w, i, x)'
               PROVE  Match(x, c)'
    BY DEF MatchOK
  <2>1. i \in 1..(Len(dq[w]) + 1) /\ i \in Nat
    BY <1>1, <1>n
  <2>2. CASE i = Len(dq[w]) + 1
    <3>1. x = combo_items[w]
      BY <1>1, <1>n, <2>2 DEF Holds
    <3>2. c = nsfd
      <4>1. ~\E j \in 1..Len(toDelivery) : i = j + Turn
        BY <1>4, <1>n, <2>2
      <4>2. ~(dpc = "poll" /\ i = 1)
        BY <1>4, <1>n, <2>2 DEF Turn
      <4> QED
        BY <1>1, <1>n, <4>1, <4>2 DEF Dest
    <3>3. Match(x, c)
      BY <1>1, <3>1, <3>2 DEF Paired, HeldOK
    <3> QED
      BY <1>0, <3>3, MatchKept
  <2>3. CASE i \in 1..Len(dq[w])
    <3>1. Holds(w, i, x)
      BY <1>1, <1>n, <2>3 DEF Holds
    <3>2. Dest(i, c)
      BY <1>1, <1>4, <1>n, <2>3 DEF Dest
    <3>3. Match(x, c)
      BY <2>1, <3>1, <3>2 DEF Paired, MatchOK
    <3> QED
      BY <1>0, <3>3, MatchKept
  <2> QED
    BY <1>n, <2>1, <2>2, <2>3
<1> QED
  BY <1>0, <1>1, <1>5, <1>6, <1>7, GotKept DEF Paired

(* The waiter's send.                                                      *)
LEMMA PairedSend ==
  ASSUME IInv, TypeOK', Step, NEW w \in Waiters, Paired(w), SendItemsOn(w)
  PROVE  Paired(w)'
<1> USE DEF deliveryVars, customerVars
<1>0. TypeOK
  BY DEF IInv
<1>1. /\ UNCHANGED <<toDelivery, dpc, dfd, got, nsfd, cpc, combo_items, bpc, lostSignal>>
      /\ wpc[w] = "send" /\ wpc'[w] = "recv"
      /\ dq'[w] = Append(dq[w], combo_items[w])
  BY <1>0 DEF SendItemsOn, WaiterGoes, TypeOK
<1>n. /\ dq[w] \in Seq(Parcel) /\ Len(dq[w]) \in Nat /\ Len(toDelivery) \in Nat
      /\ combo_items[w] \in Parcel /\ Turn' = Turn /\ Turn \in Nat
  BY <1>0, <1>1, LenProperties DEF TypeOK, Turn
<1>2. /\ Len(dq'[w]) = Len(dq[w]) + 1 /\ dq'[w][Len(dq[w]) + 1] = combo_items[w]
      /\ \A i \in 1..Len(dq[w]) : dq'[w][i] = dq[w][i]
  BY <1>1, <1>n, AppendElements
<1>3. EvenOK(w)'
  <2>1. Sends(w) = 1 /\ Sends(w)' = 0 /\ Delivers' = Delivers /\ Delivers \in Nat
    BY <1>1 DEF Sends, Delivers
  <2> QED
    BY <1>1, <1>2, <1>n, <2>1 DEF Paired, EvenOK
<1>4. HeldOK(w)'
  BY <1>1 DEF HeldOK
<1>5. MatchOK(w)'
  <2>1. \A i \in Nat, c \in Customers : Dest(i, c)' => Dest(i, c)
    BY <1>1, <1>n DEF Dest
  <2>2. ASSUME NEW i \in Nat, NEW x \in Parcel, Holds(w, i, x)'
        PROVE  Holds(w, i, x)
    BY <1>1, <1>2, <1>n, <2>2 DEF Holds
  <2>3. \A i \in Nat : i + 0 = i
    OBVIOUS
  <2> QED
    BY <1>0, <2>1, <2>2, <2>3, MatchShift DEF Paired
<1> QED
  BY <1>0, <1>1, <1>3, <1>4, <1>5, GotKept DEF Paired

(* As long as all customers go to waiter w, the queues stay paired.        *)
LEMMA PairedStep ==
  ASSUME IInv, IInv', FifoOK, LostOK', Step, version = "pause",
         NEW w \in Waiters, hired' \subseteq {w}
  PROVE  Paired(w)'
<1> USE DEF customerVars, billingVars, waiterVars, deliveryVars, history
<1>0. TypeOK /\ TypeOK' /\ OrdersInTurn /\ LostOK /\ HiredOK
  BY DEF IInv, FifoOK
<1>h. hired \subseteq {w} /\ Paired(w)
  BY HiredGrows DEF FifoOK
<1>1. ASSUME NEW c \in Customers, Customer(c) PROVE Paired(w)'
  <2>1. UNCHANGED <<dq, wpc, combo_items, toDelivery, dpc, dfd, got, lostSignal, bpc, nsfd>>
    BY <1>1 DEF Customer, Connect, SendCombo, SendItems, RecvParcel, Quit,
                CustomerMoves
  <2>2. HeldOK(w)'
    <3>1. ASSUME wpc[w] = "sleep" PROVE nsfd \in Customers
      <4>1. w \in Given
        BY <3>1 DEF Given, Busy
      <4> QED
        BY <1>0, <4>1 DEF IInv, DescriptorsOK, OrdersInTurn, OneOrderAtATime
    <3> QED
      BY <1>0, <1>h, <2>1, <3>1, MatchKept DEF Paired, HeldOK
  <2> QED
    BY <1>0, <1>h, <2>1, <2>2, PairedQuiet
<1>2. CASE Accept \/ RecvCombo \/ Pause \/ \E v \in Waiters : PassToWaiter(v)
  <2>1. /\ UNCHANGED <<dq, wpc, combo_items, toDelivery, dpc, dfd, got, lostSignal, cpc>>
        /\ "deliver" \notin {bpc, bpc'}
        /\ bpc # "accept" => nsfd' = nsfd
    BY <1>2 DEF Accept, RecvCombo, Pause, PassToWaiter, BillingGoes, BillingOnly
  <2>2. HeldOK(w)'
    <3>1. wpc[w] = "sleep" => w \in Given
      BY DEF Given, Busy
    <3>2. wpc[w] = "sleep" => bpc # "accept"
      BY <1>0, <3>1 DEF OrdersInTurn, OneOrderAtATime
    <3> QED
      BY <1>h, <2>1, <3>2 DEF Paired, HeldOK, Match
  <2> QED
    BY <1>0, <1>h, <2>1, <2>2, PairedQuiet
<1>3. CASE PassToDelivery
  BY <1>0, <1>3, <1>h, PairedPass
<1>4. ASSUME NEW v \in Waiters, Waiter(v) PROVE Paired(w)'
  <2>1. v \in hired
    BY <1>0, <1>4 DEF HiredOK, Waiter, RecvFd, RecvItems, Signal, AceSignal,
                      SendItemsOn, WaiterGoes
  <2>2. Waiter(w) /\ ~AceSignal(w)
    BY <1>4, <1>h, <2>1 DEF AceSignal
  <2> QED
    BY <1>0, <1>h, <2>2, PairedItems, PairedSignal, PairedSend DEF Waiter
<1>5. CASE DeliveryRecvFd
  BY <1>0, <1>5, <1>h, PairedRecv
<1>6. ASSUME NEW v \in Waiters, HandOver(v) PROVE Paired(w)'
  <2>1. v \in hired
    BY <1>0, <1>6 DEF HiredOK, HandOver, FirstReady
  <2>2. v = w
    BY <1>h, <2>1
  <2> QED
    BY <1>0, <1>6, <1>h, <2>2, PairedHandOver
<1> QED
  BY <1>1, <1>2, <1>3, <1>4, <1>5, <1>6 DEF Step

(* The version of the programs does not change.                            *)
LEMMA SameVersion == Step => version' = version
BY DEF Step, Customer, Connect, SendCombo, SendItems, RecvParcel, Quit,
       CustomerMoves, Accept, RecvCombo, PassToDelivery, PassToWaiter, Pause,
       SpinEnds, SetBack, BillingGoes, BillingOnly, Waiter, RecvFd, RecvItems,
       Signal, AceSignal, SendItemsOn, WaiterGoes, DeliveryRecvFd, HandOver

(* FifoOK is kept by every step.                                           *)
LEMMA FifoStep == IInv /\ IInv' /\ FifoOK /\ Step => FifoOK'
<1> SUFFICES ASSUME IInv, IInv', FifoOK, Step PROVE FifoOK'
  OBVIOUS
<1>1. HiredOK'
  BY HiredStep DEF IInv, FifoOK
<1>2. version' = version
  BY SameVersion
<1>3. version = "pause" => LostOK'
  BY LostStep DEF FifoOK
<1>4. ASSUME version = "pause", NEW w \in Waiters, hired' \subseteq {w}
      PROVE  Paired(w)'
  BY <1>3, <1>4, PairedStep
<1> QED
  BY <1>1, <1>2, <1>3, <1>4 DEF FifoOK

-----------------------------------------------------------------------------
(* A parcel is in one place                                                *)

InHand(w, c) == wpc[w] \in {"sleep", "send"} /\ combo_items[w] = c

(* The parcel of c does not exist.                                         *)
Fresh(c) ==
  /\ \A w \in Waiters : ~InHand(w, c)
  /\ \A w \in Waiters : \A i \in 1..Len(dq[w]) : dq[w][i] # c
  /\ \A e \in Customers : got[e] # c

(* b works on the order of c, and no waiter has read its items yet.        *)
Ordering(c) ==
  /\ nsfd = c
  /\ \/ bpc \in {"combo", "pass"}
     \/ \E w \in Waiters : toWaiter[w] # <<>> \/ wpc[w] = "items"

HandHand(c) == \A w, v \in Waiters : InHand(w, c) /\ InHand(v, c) => w = v
HandWire(c) ==
  \A w, v \in Waiters : \A i \in 1..Len(dq[v]) : InHand(w, c) => dq[v][i] # c
HandGot(c) == \A w \in Waiters, e \in Customers : InHand(w, c) => got[e] # c
WireWire(c) ==
  \A w, v \in Waiters : \A i \in 1..Len(dq[w]), j \in 1..Len(dq[v]) :
    dq[w][i] = c /\ dq[v][j] = c => w = v /\ i = j
WireGot(c) ==
  \A w \in Waiters, e \in Customers : \A i \in 1..Len(dq[w]) :
    dq[w][i] = c => got[e] # c
GotGot(c) == \A e, f \in Customers : got[e] = c /\ got[f] = c => e = f

(* The parcel of c is in at most one place.                                *)
Once(c) ==
  HandHand(c) /\ HandWire(c) /\ HandGot(c) /\ WireWire(c) /\ WireGot(c) /\ GotGot(c)

Queued(c) == \E i \in 1..Len(backlog) : backlog[i] = c
AllStay == \A q \in Customers : cpc[q] # "gone"

QueueOK == \A i, j \in 1..Len(backlog) : backlog[i] = backlog[j] => i = j
WaitOK(c) ==
  /\ cpc[c] = "away" \/ Queued(c) \/ Ordering(c) => Fresh(c)
  /\ cpc[c] = "away" => ~Queued(c) /\ ~Ordering(c)
  /\ Queued(c) => ~Ordering(c)

OnceOK == AllStay => QueueOK /\ \A c \in Customers : Once(c) /\ WaitOK(c)

(* Steps that move no parcel.                                              *)
LEMMA PlacesSame ==
  ASSUME NEW c, UNCHANGED <<dq, got>>,
         \A w \in Waiters : InHand(w, c)' <=> InHand(w, c)
  PROVE  (Fresh(c)' <=> Fresh(c)) /\ (Once(c) => Once(c)')
<1>1. Fresh(c)' <=> Fresh(c)
  BY DEF Fresh
<1>2. HandHand(c) => HandHand(c)'
  BY DEF HandHand
<1>3. HandWire(c) => HandWire(c)'
  BY DEF HandWire
<1>4. HandGot(c) => HandGot(c)'
  BY DEF HandGot
<1>5. UNCHANGED <<WireWire(c), WireGot(c), GotGot(c)>>
  BY DEF WireWire, WireGot, GotGot
<1> QED
  BY <1>1, <1>2, <1>3, <1>4, <1>5 DEF Once

(* A waiter's send moves the parcel it holds.                              *)
LEMMA PlacesSent ==
  ASSUME TypeOK, NEW w \in Waiters, SendItemsOn(w), NEW c \in Customers
  PROVE  (Fresh(c) => Fresh(c)') /\ (Once(c) => Once(c)')
<1> DEFINE n == Len(dq[w]) + 1
<1>n. dq[w] \in Seq(Parcel) /\ combo_items[w] \in Parcel /\ Len(dq[w]) \in Nat
  BY LenProperties DEF TypeOK
<1>1. /\ got' = got /\ combo_items' = combo_items
      /\ wpc[w] = "send" /\ wpc' = [wpc EXCEPT ![w] = "recv"]
      /\ dq' = [dq EXCEPT ![w] = Append(dq[w], combo_items[w])]
  BY DEF SendItemsOn, WaiterGoes, deliveryVars, TypeOK
<1>2. /\ Len(dq'[w]) = n /\ dq'[w][n] = combo_items[w]
      /\ \A i \in 1..Len(dq[w]) : dq'[w][i] = dq[w][i]
      /\ \A i \in 1..Len(dq'[w]) : i = n \/ i \in 1..Len(dq[w])
  BY <1>1, <1>n, AppendElements DEF TypeOK
<1>3. \A v \in Waiters : v # w => dq'[v] = dq[v]
  BY <1>1 DEF TypeOK
<1>4. ~InHand(w, c)' /\ \A v \in Waiters : v # w => (InHand(v, c)' <=> InHand(v, c))
  BY <1>1 DEF InHand, TypeOK
<1>5. InHand(w, c) <=> combo_items[w] = c
  BY <1>1 DEF InHand
<1>6. ASSUME NEW v \in Waiters, NEW i \in 1..Len(dq'[v]), dq'[v][i] = c
      PROVE  \/ v = w /\ i = n /\ InHand(w, c)
             \/ i \in 1..Len(dq[v]) /\ dq[v][i] = c
  BY <1>2, <1>3, <1>5, <1>6
<1> HIDE DEF n
<1>7. Fresh(c) => Fresh(c)'
  BY <1>1, <1>4, <1>6 DEF Fresh
<1>8. HandHand(c) => HandHand(c)'
  BY <1>4 DEF HandHand
<1>9. HandHand(c) /\ HandWire(c) => HandWire(c)'
  BY <1>4, <1>6 DEF HandHand, HandWire
<1>10. HandGot(c) => HandGot(c)'
  BY <1>1, <1>4 DEF HandGot
<1>11. HandWire(c) /\ WireWire(c) => WireWire(c)'
  BY <1>6 DEF HandWire, WireWire
<1>12. HandGot(c) /\ WireGot(c) => WireGot(c)'
  BY <1>1, <1>6 DEF HandGot, WireGot
<1>13. GotGot(c) => GotGot(c)'
  BY <1>1 DEF GotGot
<1> QED
  BY <1>7, <1>8, <1>9, <1>10, <1>11, <1>12, <1>13 DEF Once

(* d's send moves a parcel to the customer; d.cpp drops it.                *)
LEMMA PlacesHanded ==
  ASSUME TypeOK, DescriptorsOK, NEW w \in Waiters, HandOver(w), NEW c \in Customers
  PROVE  (Fresh(c) => Fresh(c)') /\ (Once(c) => Once(c)')
<1>0. dfd \in Customers
  BY DEF DescriptorsOK, HandOver
<1>n. dq[w] \in Seq(Parcel) /\ dq[w] # <<>> /\ Len(dq[w]) \in Nat
  BY LenProperties DEF TypeOK, HandOver, FirstReady
<1>1. /\ combo_items' = combo_items /\ wpc' = wpc
      /\ got' = [got EXCEPT ![dfd] = Sent(w)]
      /\ dq' = [dq EXCEPT ![w] = Tail(dq[w])]
  BY DEF HandOver, waiterVars, TypeOK
<1>2. /\ Len(dq[w]) > 0 /\ Head(dq[w]) = dq[w][1]
      /\ \A i \in 1..Len(Tail(dq[w])) :
           i + 1 \in 1..Len(dq[w]) /\ Tail(dq[w])[i] = dq[w][i + 1]
      /\ Len(Tail(dq[w])) = Len(dq[w]) - 1
  BY <1>n, TailElements
<1>3. \A v \in Waiters : v # w => dq'[v] = dq[v]
  BY <1>1 DEF TypeOK
<1>4. dq'[w] = Tail(dq[w])
  BY <1>1 DEF TypeOK
<1>5. Sent(w) = c => dq[w][1] = c
  BY <1>2, PizzaConstants DEF Sent
<1>6. \A e \in Customers : got'[e] = c =>
        got[e] = c \/ (e = dfd /\ dq[w][1] = c)
  BY <1>0, <1>1, <1>5 DEF TypeOK
<1>7. ASSUME NEW v \in Waiters, NEW i \in 1..Len(dq'[v]), dq'[v][i] = c
      PROVE  \/ v = w /\ i + 1 \in 1..Len(dq[w]) /\ dq[w][i + 1] = c
             \/ v # w /\ i \in 1..Len(dq[v]) /\ dq[v][i] = c
  BY <1>2, <1>3, <1>4, <1>7
<1>8. \A v \in Waiters : InHand(v, c)' <=> InHand(v, c)
  BY <1>1 DEF InHand
<1>9. 1 \in 1..Len(dq[w])
  BY <1>n, <1>2
<1>i. \A v \in Waiters : \A i \in 1..Len(dq'[v]) : i \in Nat /\ i # 0 /\ i + 1 # 1
  BY <1>2, <1>3, <1>4, <1>n
<1>10. Fresh(c) => Fresh(c)'
  BY <1>6, <1>7, <1>8, <1>9 DEF Fresh
<1>11. HandHand(c) => HandHand(c)'
  BY <1>8 DEF HandHand
<1>12. HandWire(c) => HandWire(c)'
  BY <1>7, <1>8 DEF HandWire
<1>13. HandWire(c) /\ HandGot(c) => HandGot(c)'
  BY <1>6, <1>8, <1>9 DEF HandWire, HandGot
<1>14. WireWire(c) => WireWire(c)'
  BY <1>7, <1>i DEF WireWire
<1>15. WireWire(c) /\ WireGot(c) => WireGot(c)'
  BY <1>6, <1>7, <1>9, <1>i DEF WireWire, WireGot
<1>16. WireGot(c) /\ GotGot(c) => GotGot(c)'
  BY <1>6, <1>9 DEF WireGot, GotGot
<1> QED
  BY <1>10, <1>11, <1>12, <1>13, <1>14, <1>15, <1>16 DEF Once

(* The waiter's recv of the items makes the parcel of the customer whose   *)
(* order b works on, and of nobody else.                                   *)
LEMMA PlacesMade ==
  ASSUME IInv, AllStay, NEW w \in Waiters, RecvItems(w), NEW c \in Customers,
         WaitOK(c), Once(c)
  PROVE  Once(c)' /\ ~Ordering(c)' /\ (c # nsfd /\ Fresh(c) => Fresh(c)')
<1>0. TypeOK /\ OrdersInTurn
  BY DEF IInv
<1>1. /\ UNCHANGED <<dq, got, bpc, nsfd, toWaiter>>
      /\ wpc[w] = "items" /\ wpc' = [wpc EXCEPT ![w] = "sleep"]
  BY DEF RecvItems, WaiterGoes, deliveryVars
<1>2. w \in Given /\ Busy(w)
  BY <1>1 DEF Given, Busy
<1>3. /\ Given = {w} /\ bpc \in {"ready", "paused"}
      /\ toWaiter[w] = <<>> /\ wfd[w] = nsfd
  BY <1>0, <1>2 DEF OrdersInTurn, OneOrderAtATime
<1>4. wfd[w] \in Customers
  BY <1>1 DEF IInv, DescriptorsOK
<1>5. combo_items' = [combo_items EXCEPT ![w] = nsfd]
  BY <1>3, <1>4 DEF RecvItems, AllStay
<1>6. /\ InHand(w, c)' <=> c = nsfd
      /\ ~InHand(w, c)
      /\ \A v \in Waiters : v # w => (InHand(v, c)' <=> InHand(v, c))
  BY <1>0, <1>1, <1>5 DEF InHand, TypeOK
<1>7. ~Ordering(c)'
  BY <1>0, <1>1, <1>3 DEF Ordering, Given, Busy, TypeOK
<1>8. CASE c # nsfd
  BY <1>1, <1>6, <1>7, <1>8, PlacesSame
<1>9. CASE c = nsfd
  <2>1. Ordering(c)
    BY <1>1, <1>9 DEF Ordering
  <2>2. Fresh(c)
    BY <2>1 DEF WaitOK
  <2>3. HandHand(c)'
    BY <1>6, <2>2 DEF HandHand, Fresh
  <2>4. HandWire(c)' /\ HandGot(c)'
    BY <1>1, <2>2 DEF HandWire, HandGot, Fresh
  <2>5. WireWire(c)' /\ WireGot(c)' /\ GotGot(c)'
    BY <1>1 DEF Once, WireWire, WireGot, GotGot
  <2> QED
    BY <1>7, <1>9, <2>3, <2>4, <2>5 DEF Once
<1> QED
  BY <1>8, <1>9

(* Nobody is gone after a step only if nobody was before it.               *)
LEMMA StayedAll == TypeOK /\ Step /\ AllStay' => AllStay
BY GoneStays DEF AllStay

(* As long as all customers stay, every parcel is in one place.            *)
LEMMA OnceStep == IInv /\ IInv' /\ OnceOK /\ Step => OnceOK'
<1> SUFFICES ASSUME IInv, IInv', OnceOK, Step, AllStay'
             PROVE  QueueOK' /\ \A c \in Customers : Once(c)' /\ WaitOK(c)'
  BY DEF OnceOK
<1> USE DEF customerVars, billingVars, waiterVars, deliveryVars, history
<1>0. TypeOK /\ DescriptorsOK /\ OrdersInTurn /\ AllStay
  BY StayedAll DEF IInv
<1>h. QueueOK /\ \A c \in Customers : Once(c) /\ WaitOK(c)
  BY <1>0 DEF OnceOK
<1>b. backlog \in Seq(Customers) /\ Len(backlog) \in Nat
  BY <1>0, LenProperties DEF TypeOK
<1> DEFINE Goal == QueueOK' /\ \A c \in Customers : Once(c)' /\ WaitOK(c)'
<1>1. ASSUME NEW e \in Customers, Connect(e) PROVE Goal
  <2>1. /\ UNCHANGED <<dq, got, wpc, combo_items, toWaiter, bpc, nsfd>>
        /\ cpc[e] = "away" /\ cpc' = [cpc EXCEPT ![e] = "combo"]
        /\ backlog' = Append(backlog, e)
    BY <1>1 DEF Connect, CustomerMoves
  <2>2. /\ Len(backlog') = Len(backlog) + 1
        /\ backlog'[Len(backlog) + 1] = e
        /\ \A i \in 1..Len(backlog) : backlog'[i] = backlog[i]
        /\ \A i \in 1..Len(backlog') : i = Len(backlog) + 1 \/ i \in 1..Len(backlog)
    BY <1>b, <2>1, AppendElements
  <2>3. ~Queued(e) /\ ~Ordering(e) /\ Fresh(e)
    BY <1>h, <2>1 DEF WaitOK
  <2>4. QueueOK'
    BY <1>h, <2>2, <2>3 DEF QueueOK, Queued
  <2>5. ASSUME NEW c \in Customers PROVE Once(c)' /\ WaitOK(c)'
    <3>1. (Fresh(c)' <=> Fresh(c)) /\ Once(c)'
      <4>1. \A w \in Waiters : InHand(w, c)' <=> InHand(w, c)
        BY <2>1 DEF InHand
      <4> QED
        BY <1>h, <2>1, <4>1, PlacesSame
    <3>2. Ordering(c)' <=> Ordering(c)
      BY <2>1 DEF Ordering
    <3>3. Queued(c)' => Queued(c) \/ c = e
      BY <2>2 DEF Queued
    <3>4. cpc'[c] = "away" => c # e /\ cpc[c] = "away"
      BY <1>0, <2>1 DEF TypeOK
    <3>5. WaitOK(c)
      BY <1>h
    <3> QED
      BY <2>3, <3>1, <3>2, <3>3, <3>4, <3>5 DEF WaitOK
  <2> QED
    BY <2>4, <2>5
<1>2. ASSUME NEW e \in Customers,
             SendCombo(e) \/ SendItems(e) \/ RecvParcel(e) \/ Quit(e)
      PROVE  Goal
  <2>1. /\ UNCHANGED <<dq, got, wpc, combo_items, toWaiter, bpc, nsfd, backlog>>
        /\ \E v \in {"items", "waiting", "served", "gone"} :
             cpc' = [cpc EXCEPT ![e] = v]
    BY <1>2 DEF SendCombo, SendItems, RecvParcel, Quit, CustomerMoves
  <2>2. ASSUME NEW c \in Customers PROVE Once(c)' /\ WaitOK(c)'
    <3>1. (Fresh(c)' <=> Fresh(c)) /\ Once(c)'
      <4>1. \A w \in Waiters : InHand(w, c)' <=> InHand(w, c)
        BY <2>1 DEF InHand
      <4> QED
        BY <1>h, <2>1, <4>1, PlacesSame
    <3>2. (Ordering(c)' <=> Ordering(c)) /\ (Queued(c)' <=> Queued(c))
      BY <2>1 DEF Ordering, Queued
    <3>3. cpc'[c] = "away" => cpc[c] = "away"
      BY <1>0, <2>1 DEF TypeOK
    <3>4. WaitOK(c)
      BY <1>h
    <3> QED
      BY <3>1, <3>2, <3>3, <3>4 DEF WaitOK
  <2>3. QueueOK'
    BY <1>h, <2>1 DEF QueueOK
  <2> QED
    BY <2>2, <2>3
<1>3. CASE Accept
  <2>1. /\ UNCHANGED <<dq, got, wpc, combo_items, toWaiter, cpc>>
        /\ bpc = "accept" /\ bpc' = "combo" /\ nsfd' = Head(backlog)
        /\ backlog # <<>> /\ backlog' = Tail(backlog)
    BY <1>3 DEF Accept, BillingOnly
  <2>2. /\ Len(backlog) > 0 /\ nsfd' = backlog[1] /\ nsfd' \in Customers
        /\ Len(backlog') = Len(backlog) - 1
        /\ \A i \in 1..Len(backlog') :
             i + 1 \in 1..Len(backlog) /\ backlog'[i] = backlog[i + 1]
    BY <1>b, <2>1, TailElements
  <2>3. QueueOK'
    BY <1>b, <1>h, <2>2 DEF QueueOK
  <2>4. Given = {}
    BY <1>0, <2>1, NoOrder
  <2>5. Queued(nsfd')
    BY <1>b, <2>2 DEF Queued
  <2>6. ~\E i \in 1..Len(backlog') : backlog'[i] = nsfd'
    BY <1>b, <1>h, <2>2 DEF QueueOK
  <2>7. ASSUME NEW c \in Customers PROVE Once(c)' /\ WaitOK(c)'
    <3>1. (Fresh(c)' <=> Fresh(c)) /\ Once(c)'
      <4>1. \A w \in Waiters : InHand(w, c)' <=> InHand(w, c)
        BY <2>1 DEF InHand
      <4> QED
        BY <1>h, <2>1, <4>1, PlacesSame
    <3>2. Ordering(c)' => c = nsfd'
      BY DEF Ordering
    <3>3. Queued(c)' => Queued(c) /\ c # nsfd'
      BY <2>2, <2>6 DEF Queued
    <3>4. WaitOK(c) /\ (c = nsfd' => Queued(c))
      BY <1>h, <2>5
    <3> QED
      BY <2>1, <3>1, <3>2, <3>3, <3>4 DEF WaitOK
  <2> QED
    BY <2>3, <2>7
<1>4. CASE \/ RecvCombo \/ (\E w \in Waiters : PassToWaiter(w)) \/ PassToDelivery
           \/ Pause \/ SpinEnds \/ SetBack
  <2>1. /\ UNCHANGED <<dq, got, wpc, combo_items, cpc, backlog, nsfd>>
        /\ bpc' \in {"combo", "pass"} => bpc \in {"combo", "pass"}
        /\ toWaiter' = toWaiter \/ bpc = "pass"
    BY <1>4 DEF RecvCombo, PassToWaiter, PassToDelivery, Pause, SpinEnds, SetBack,
                BillingGoes, BillingOnly
  <2>2. ASSUME NEW c \in Customers PROVE Once(c)' /\ WaitOK(c)'
    <3>1. (Fresh(c)' <=> Fresh(c)) /\ Once(c)'
      <4>1. \A w \in Waiters : InHand(w, c)' <=> InHand(w, c)
        BY <2>1 DEF InHand
      <4> QED
        BY <1>h, <2>1, <4>1, PlacesSame
    <3>2. (Ordering(c)' => Ordering(c)) /\ (Queued(c)' <=> Queued(c))
      BY <2>1 DEF Ordering, Queued
    <3>3. WaitOK(c)
      BY <1>h
    <3> QED
      BY <2>1, <3>1, <3>2, <3>3 DEF WaitOK
  <2>3. QueueOK'
    BY <1>h, <2>1 DEF QueueOK
  <2> QED
    BY <2>2, <2>3
<1>5. ASSUME NEW w \in Waiters, RecvFd(w) \/ Signal(w) \/ AceSignal(w) PROVE Goal
  <2>1. /\ UNCHANGED <<dq, got, combo_items, cpc, backlog, nsfd>>
        /\ bpc' \in {"combo", "pass"} => bpc \in {"combo", "pass"}
        /\ \/ /\ toWaiter' = toWaiter
              /\ wpc[w] = "sleep" /\ wpc' = [wpc EXCEPT ![w] = "send"]
           \/ /\ toWaiter[w] # <<>> /\ \E q : toWaiter' = [toWaiter EXCEPT ![w] = q]
              /\ wpc[w] = "recv" /\ wpc' = [wpc EXCEPT ![w] = "items"]
    BY <1>5 DEF RecvFd, Signal, AceSignal, WaiterGoes
  <2>2. ASSUME NEW c \in Customers PROVE Once(c)' /\ WaitOK(c)'
    <3>1. (Fresh(c)' <=> Fresh(c)) /\ Once(c)'
      <4>1. \A v \in Waiters : InHand(v, c)' <=> InHand(v, c)
        BY <1>0, <2>1 DEF InHand, TypeOK
      <4> QED
        BY <1>h, <2>1, <4>1, PlacesSame
    <3>2. (Ordering(c)' => Ordering(c)) /\ (Queued(c)' <=> Queued(c))
      BY <1>0, <2>1 DEF Ordering, Queued, TypeOK
    <3>3. WaitOK(c)
      BY <1>h
    <3> QED
      BY <2>1, <3>1, <3>2, <3>3 DEF WaitOK
  <2>3. QueueOK'
    BY <1>h, <2>1 DEF QueueOK
  <2> QED
    BY <2>2, <2>3
<1>6. ASSUME NEW w \in Waiters, RecvItems(w) PROVE Goal
  <2>1. UNCHANGED <<cpc, backlog, nsfd>>
    BY <1>6 DEF RecvItems, WaiterGoes
  <2>2. Ordering(nsfd)
    BY <1>6 DEF Ordering, RecvItems, WaiterGoes
  <2>3. ASSUME NEW c \in Customers PROVE Once(c)' /\ WaitOK(c)'
    <3>1. Once(c)' /\ ~Ordering(c)' /\ (c # nsfd /\ Fresh(c) => Fresh(c)')
      BY <1>0, <1>6, <1>h, PlacesMade
    <3>2. Queued(c)' <=> Queued(c)
      BY <2>1 DEF Queued
    <3>3. WaitOK(c) /\ (c = nsfd => Ordering(c))
      BY <1>h, <2>2
    <3> QED
      BY <2>1, <3>1, <3>2, <3>3 DEF WaitOK
  <2>4. QueueOK'
    BY <1>h, <2>1 DEF QueueOK
  <2> QED
    BY <2>3, <2>4
<1>7. ASSUME NEW w \in Waiters, SendItemsOn(w) \/ HandOver(w) PROVE Goal
  <2>1. /\ UNCHANGED <<cpc, backlog, nsfd, bpc, toWaiter>>
        /\ \A v \in Waiters : wpc'[v] = "items" => wpc[v] = "items"
    BY <1>0, <1>7 DEF SendItemsOn, WaiterGoes, HandOver, TypeOK
  <2>2. ASSUME NEW c \in Customers PROVE Once(c)' /\ WaitOK(c)'
    <3>1. (Fresh(c) => Fresh(c)') /\ Once(c)'
      BY <1>0, <1>7, <1>h, PlacesSent, PlacesHanded
    <3>2. (Ordering(c)' => Ordering(c)) /\ (Queued(c)' <=> Queued(c))
      BY <2>1 DEF Ordering, Queued
    <3>3. WaitOK(c)
      BY <1>h
    <3> QED
      BY <2>1, <3>1, <3>2, <3>3 DEF WaitOK
  <2>3. QueueOK'
    BY <1>h, <2>1 DEF QueueOK
  <2> QED
    BY <2>2, <2>3
<1>8. CASE DeliveryRecvFd
  <2>1. UNCHANGED <<dq, got, wpc, combo_items, toWaiter, bpc, nsfd, backlog, cpc>>
    BY <1>8 DEF DeliveryRecvFd
  <2>2. ASSUME NEW c \in Customers PROVE Once(c)' /\ WaitOK(c)'
    <3>1. (Fresh(c)' <=> Fresh(c)) /\ Once(c)'
      <4>1. \A w \in Waiters : InHand(w, c)' <=> InHand(w, c)
        BY <2>1 DEF InHand
      <4> QED
        BY <1>h, <2>1, <4>1, PlacesSame
    <3>2. (Ordering(c)' <=> Ordering(c)) /\ (Queued(c)' <=> Queued(c))
      BY <2>1 DEF Ordering, Queued
    <3>3. WaitOK(c)
      BY <1>h
    <3> QED
      BY <2>1, <3>1, <3>2, <3>3 DEF WaitOK
  <2>3. QueueOK'
    BY <1>h, <2>1 DEF QueueOK
  <2> QED
    BY <2>2, <2>3
<1> QED
  BY <1>1, <1>2, <1>3, <1>4, <1>5, <1>6, <1>7, <1>8 DEF Step, Customer, Waiter

-----------------------------------------------------------------------------
(* The parcels of the shop                                                 *)

(* All that is kept about parcels.                                         *)
PInv == IInv /\ CountOK /\ FifoOK /\ OnceOK

(* There are no parcels when the shop opens.                               *)
LEMMA InitParcels == Init => PInv
<1> SUFFICES ASSUME Init PROVE PInv
  OBVIOUS
<1>1. IInv
  BY InitOK
<1>t. TypeOK
  BY <1>1 DEF IInv
<1>2. CountOK
  <2>1. \A w \in Waiters : dq[w] = <<>> /\ Len(dq[w]) = 0
    BY DEF Init
  <2>2. Parcels = {}
    <3>1. \A p : p \in Parcels <=>
            \E v \in Waiters : \E i \in 1..Len(dq[v]) : p = <<v, i>>
      BY <1>t, ParcelIs DEF Parcels, TypeOK
    <3> QED
      BY <2>1, <3>1
  <2>3. IsFiniteSet(Parcels) /\ Cardinality(Parcels) = 0
    BY <2>2, FS_EmptySet
  <2>4. Len(toDelivery) = 0 /\ Turn = 0 /\ Owed = 0
    BY DEF Init, Turn, Owed, Pending
  <2> QED
    BY <2>3, <2>4, SendingCount DEF CountOK
<1>3. FifoOK
  <2>1. HiredOK /\ LostOK
    BY DEF Init, HiredOK, LostOK
  <2>2. ASSUME NEW w \in Waiters PROVE Paired(w)
    <3>1. Len(dq[w]) = 0 /\ Len(toDelivery) = 0 /\ wpc[w] = "recv"
          /\ bpc = "accept" /\ dpc = "recv"
      BY DEF Init
    <3>2. EvenOK(w) /\ HeldOK(w)
      BY <3>1 DEF EvenOK, HeldOK, Sends, Turn, Delivers
    <3>3. MatchOK(w)
      BY <3>1 DEF MatchOK, Holds
    <3>4. GotOK
      BY DEF Init, GotOK
    <3> QED
      BY <3>2, <3>3, <3>4 DEF Paired
  <2> QED
    BY <2>1, <2>2 DEF FifoOK
<1>4. OnceOK
  <2>1. /\ \A w \in Waiters : Len(dq[w]) = 0 /\ wpc[w] = "recv" /\ toWaiter[w] = <<>>
        /\ Len(backlog) = 0 /\ bpc = "accept"
        /\ \A e \in Customers : got[e] = NoParcel
    BY DEF Init
  <2>2. QueueOK
    BY <2>1 DEF QueueOK
  <2>3. ASSUME NEW c \in Customers PROVE Once(c) /\ WaitOK(c)
    <3>1. Fresh(c)
      BY <2>1, PizzaConstants DEF Fresh, InHand
    <3>2. ~Queued(c) /\ ~Ordering(c)
      BY <2>1 DEF Queued, Ordering
    <3>3. HandHand(c) /\ HandWire(c) /\ HandGot(c)
      BY <3>1 DEF HandHand, HandWire, HandGot, Fresh
    <3>4. WireWire(c) /\ WireGot(c) /\ GotGot(c)
      BY <3>1 DEF WireWire, WireGot, GotGot, Fresh
    <3> QED
      BY <3>1, <3>2, <3>3, <3>4 DEF Once, WaitOK
  <2> QED
    BY <2>2, <2>3 DEF OnceOK
<1> QED
  BY <1>1, <1>2, <1>3, <1>4 DEF PInv

(* A stuttering step changes no parcel.                                    *)
LEMMA StutterParcels == PInv /\ UNCHANGED vars => PInv'
<1> SUFFICES ASSUME PInv, UNCHANGED vars PROVE PInv'
  OBVIOUS
<1> USE DEF vars, customerVars, billingVars, waiterVars, deliveryVars, history
<1>1. IInv'
  BY StutterOK DEF PInv
<1>2. CountOK'
  BY DEF PInv, CountOK, Parcels, Turn, Owed, Pending, Sending
<1>3. FifoOK'
  <2>1. UNCHANGED <<HiredOK, LostOK, GotOK>>
    BY DEF HiredOK, LostOK, Given, Busy, GotOK, Match
  <2>2. ASSUME NEW w \in Waiters PROVE UNCHANGED <<EvenOK(w), HeldOK(w)>>
    BY DEF EvenOK, Sends, Turn, Delivers, HeldOK, Match
  <2>3. ASSUME NEW w \in Waiters PROVE MatchOK(w)' = MatchOK(w)
    <3>1. \A i, c : Dest(i, c)' = Dest(i, c)
      BY DEF Dest, Turn
    <3>2. \A i, x : Holds(w, i, x)' = Holds(w, i, x)
      BY DEF Holds
    <3> QED
      BY <3>1, <3>2 DEF MatchOK, Match
  <2>4. ASSUME NEW w \in Waiters PROVE Paired(w)' = Paired(w)
    BY <2>1, <2>2, <2>3 DEF Paired
  <2> QED
    BY <2>1, <2>4 DEF PInv, FifoOK
<1>4. OnceOK'
  BY DEF PInv, OnceOK, AllStay, QueueOK, Once, HandHand, HandWire, HandGot,
         WireWire, WireGot, GotGot, InHand, WaitOK, Queued, Ordering, Fresh
<1> QED
  BY <1>1, <1>2, <1>3, <1>4 DEF PInv

(* PInv holds in every state of every behaviour.                           *)
LEMMA ParcelInvariance == Spec => []PInv
<1>1. PInv /\ Step => PInv'
  <2> SUFFICES ASSUME PInv, Step PROVE PInv'
    OBVIOUS
  <2>1. IInv /\ CountOK /\ FifoOK /\ OnceOK
    BY DEF PInv
  <2>2. IInv'
    BY <2>1, TypeStep, VersionStep, OrdersStep DEF IInv
  <2>3. TypeOK'
    BY <2>2 DEF IInv
  <2> QED
    BY <2>1, <2>2, <2>3, CountStep, FifoStep, OnceStep DEF PInv
<1>2. PInv /\ [Next]_vars => PInv'
  BY <1>1, NextIsStep, StutterParcels
<1> QED
  BY InitParcels, <1>2, PTL DEF Spec

(* If b hired at most one waiter, there is a waiter that got every         *)
(* customer.                                                               *)
LEMMA OneWaiter ==
  ASSUME TypeOK, Cardinality(hired) <= 1
  PROVE  \E w \in Waiters : hired \subseteq {w}
<1>1. IsFiniteSet(hired)
  <2>1. IsFiniteSet(Waiters) /\ hired \subseteq Waiters
    BY PizzaConstants, FS_Interval DEF Waiters, TypeOK
  <2> QED
    BY <2>1, FS_Subset
<1>2. CASE hired = {}
  BY <1>2, PizzaConstants DEF Waiters
<1>3. ASSUME NEW w \in hired PROVE hired \subseteq {w}
  <2>1. /\ IsFiniteSet(hired \ {w})
        /\ Cardinality(hired \ {w}) = Cardinality(hired) - 1
    BY <1>1, FS_RemoveElement
  <2>2. Cardinality(hired) \in Nat /\ Cardinality(hired \ {w}) \in Nat
    BY <1>1, <2>1, FS_CardinalityType
  <2>3. Cardinality(hired \ {w}) = 0
    BY <2>1, <2>2
  <2>4. hired \ {w} = {}
    BY <2>1, <2>3, FS_EmptySet
  <2> QED
    BY <2>4
<1> QED
  BY <1>2, <1>3 DEF TypeOK

(* The three parts of ParcelsRight.                                        *)
LEMMA ParcelsFollow == PInv => ParcelsRight
<1> SUFFICES ASSUME PInv PROVE ParcelsRight
  OBVIOUS
<1>0. TypeOK /\ CountOK /\ FifoOK /\ OnceOK
  BY DEF PInv, IInv
<1>1. ParcelIsMine
  <2> SUFFICES ASSUME version = "pause", Cardinality(hired) <= 1,
                      NEW c \in Customers, cpc[c] # "gone"
               PROVE  got[c] \in {NoParcel, c}
    BY DEF ParcelIsMine
  <2>1. PICK w \in Waiters : hired \subseteq {w}
    BY <1>0, OneWaiter
  <2>2. GotOK
    BY <1>0, <2>1 DEF FifoOK, Paired
  <2> QED
    BY <2>2 DEF GotOK, Match
<1>2. ParcelsNotShared
  <2> SUFFICES ASSUME NEW c \in Customers, NEW e \in Customers, c # e,
                      got[c] = got[e], got[c] \notin {NoParcel, Garbage}
               PROVE  \E q \in Customers : cpc[q] = "gone"
    BY DEF ParcelsNotShared
  <2>1. got[c] \in Customers
    BY <1>0 DEF TypeOK, Parcel
  <2>2. ~GotGot(got[c])
    BY DEF GotGot
  <2>3. ~AllStay
    BY <1>0, <2>1, <2>2 DEF OnceOK, Once
  <2> QED
    BY <2>3 DEF AllStay
<1>3. EveryDeliveryHasAParcel
  <2>1. Len(toDelivery) \in Nat /\ Cardinality(Parcels) \in Nat
    BY <1>0, LenProperties, FS_CardinalityType DEF TypeOK, CountOK
  <2>2. Turn \in Nat /\ Owed \in Nat
    BY DEF Turn, Owed
  <2>3. Len(toDelivery) + Turn <= Cardinality(Parcels) + Cardinality(Sending)
    BY <1>0, <2>1, <2>2, SendingCount DEF CountOK
  <2> QED
    BY <2>3 DEF EveryDeliveryHasAParcel, Turn, Sending
<1> QED
  BY <1>1, <1>2, <1>3 DEF ParcelsRight

(* d.c gives each customer its own order while one waiter does all the     *)
(* work; no parcel is handed out twice while all customers stay; and d     *)
(* never polls for a parcel that nobody will send (d.c, w1.c, b.c).        *)
THEOREM ParcelsAreRight == Spec => []ParcelsRight
BY ParcelInvariance, ParcelsFollow, PTL
============================================================================
