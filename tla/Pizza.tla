------------------------------- MODULE Pizza -------------------------------
(***************************************************************************)
(* The pizza shop of 4-3-22/pizza and its second version, written with the *)
(* ACE library, 12-3-22/pizza.  The billing counter b accepts a customer,  *)
(* passes its descriptor to a waiter (w1, w2, w3) chosen at random, waits  *)
(* for the waiter's signal, and passes the descriptor to the delivery      *)
(* counter d.  The waiter reads the customer's items, signals b and sends  *)
(* the items to d, which polls the waiters and sends what it finds first   *)
(* to the customer it holds.                                               *)
(*                                                                         *)
(* Items are identified with the customer who ordered them; the combo      *)
(* number is only carried along.  Waiters are numbered in the order d      *)
(* accepted them, which is immaterial to b's random choice.                *)
(***************************************************************************)
EXTENDS Integers, Sequences, FiniteSets

CONSTANTS
  Customers,     \* running c.c processes
  NumWaiters,    \* NUM_WAITERS
  NoParcel,      \* nothing was sent
  Garbage,       \* what a buffer holds before anything was received
  NoCustomer,    \* no descriptor
  MayQuit,       \* customers that may be interrupted while ordering
  Versions       \* of the shop: "pause" (4-3-22), "ace" (12-3-22)

ASSUME PizzaConstants ==
  /\ IsFiniteSet(Customers)
  /\ NumWaiters \in Nat \ {0}
  /\ NoParcel # Garbage
  /\ {NoParcel, Garbage, NoCustomer} \cap Customers = {}
  /\ MayQuit \subseteq Customers
  /\ Versions \subseteq {"pause", "ace"}

Waiters == 1..NumWaiters
Parcel == Customers \cup {Garbage}

VARIABLES
  version,   \* the programs that run, one of Versions
  cpc,       \* customer: away, combo, items, waiting, served or gone
  backlog,   \* connections b has not accepted
  bpc,       \* b: accept, combo, pass, ready, paused, reset or deliver
  nsfd,      \* the customer whose descriptor b works on
  signal_recieved, \* b.cpp's flag, -1 or 1
  toWaiter,  \* per waiter, descriptors on its Unix socket
  wpc,       \* waiter: recv, items, sleep or send
  wfd,       \* the customer a waiter serves
  combo_items, \* the items a waiter holds
  toDelivery,  \* descriptors on d's Unix socket
  dq,        \* per waiter, parcels on its TCP connection to d
  dpc,       \* d: recv or poll
  dfd,       \* the customer d serves
  got,       \* what d sent to each customer
  hired,     \* history: the waiters b gave a customer to
  lostSignal \* history: a signal did not find b.c in pause()

customerVars == <<cpc, backlog>>
billingVars == <<bpc, nsfd, signal_recieved>>
waiterVars == <<wpc, wfd, combo_items>>
deliveryVars == <<dpc, dfd, got>>
history == <<hired, lostSignal>>
vars == <<version, customerVars, billingVars, waiterVars, deliveryVars,
          toWaiter, toDelivery, dq, history>>

Init ==
  /\ version \in Versions
  /\ cpc = [c \in Customers |-> "away"]
  /\ backlog = <<>>
  /\ bpc = "accept" /\ nsfd = NoCustomer /\ signal_recieved = -1
  /\ toWaiter = [w \in Waiters |-> <<>>]
  /\ wpc = [w \in Waiters |-> "recv"]
  /\ wfd = [w \in Waiters |-> NoCustomer]
  /\ combo_items = [w \in Waiters |-> Garbage]
  /\ toDelivery = <<>>
  /\ dq = [w \in Waiters |-> <<>>]
  /\ dpc = "recv" /\ dfd = NoCustomer
  /\ got = [c \in Customers |-> NoParcel]
  /\ hired = {} /\ lostSignal = FALSE

-----------------------------------------------------------------------------
(* Customers: c.c                                                          *)

CustomerMoves(c, from, to) ==
  /\ cpc[c] = from
  /\ cpc' = [cpc EXCEPT ![c] = to]
  /\ UNCHANGED <<version, billingVars, waiterVars, deliveryVars,
                 toWaiter, toDelivery, dq, history>>

Connect(c) == CustomerMoves(c, "away", "combo") /\ backlog' = Append(backlog, c)
SendCombo(c) == CustomerMoves(c, "combo", "items") /\ UNCHANGED backlog
SendItems(c) == CustomerMoves(c, "items", "waiting") /\ UNCHANGED backlog
RecvParcel(c) ==
  got[c] # NoParcel /\ CustomerMoves(c, "waiting", "served") /\ UNCHANGED backlog

(* The customer is interrupted: whoever reads from its connection gets 0.  *)
Quit(c) ==
  /\ c \in MayQuit
  /\ \E from \in {"combo", "items"} : CustomerMoves(c, from, "gone")
  /\ UNCHANGED backlog

-----------------------------------------------------------------------------
(* Billing counter: b.c, b.cpp                                             *)

BillingOnly ==
  UNCHANGED <<version, cpc, waiterVars, deliveryVars, dq, lostSignal>>

Accept ==
  /\ bpc = "accept" /\ backlog # <<>>
  /\ nsfd' = Head(backlog) /\ backlog' = Tail(backlog)
  /\ bpc' = "combo"
  /\ BillingOnly /\ UNCHANGED <<signal_recieved, toWaiter, toDelivery, hired>>

RecvCombo ==
  /\ bpc = "combo" /\ cpc[nsfd] # "combo"
  /\ bpc' = "pass"
  /\ BillingOnly
  /\ UNCHANGED <<backlog, nsfd, signal_recieved, toWaiter, toDelivery, hired>>

(* getWaiter, send_fd and the combo that follows it.                       *)
PassToWaiter(w) ==
  /\ bpc = "pass"
  /\ toWaiter' = [toWaiter EXCEPT ![w] = Append(@, nsfd)]
  /\ hired' = hired \cup {w}
  /\ bpc' = "ready"
  /\ BillingOnly /\ UNCHANGED <<backlog, nsfd, signal_recieved, toDelivery>>

BillingGoes(from, to) ==
  /\ bpc = from /\ bpc' = to
  /\ BillingOnly /\ UNCHANGED <<backlog, nsfd, toWaiter, toDelivery, hired>>

(* Mutant: b does not wait for the waiter.                                 *)
PauseNot ==
  BillingGoes("ready", "deliver") /\ UNCHANGED signal_recieved

(* b.c: pause()                                                            *)
Pause ==
  BillingGoes("ready", "paused") /\ UNCHANGED signal_recieved

(* b.cpp: while(signal_recieved == -1) {}                                  *)
SpinEnds ==
  /\ signal_recieved # -1
  /\ BillingGoes("ready", "reset") /\ UNCHANGED signal_recieved

(* Mutant: the flag stays set.                                             *)
SetBackNot == BillingGoes("reset", "deliver") /\ UNCHANGED signal_recieved

(* b.cpp: "set back for next iterations"                                   *)
SetBack == BillingGoes("reset", "deliver") /\ signal_recieved' = -1

(* Mutant: the descriptor was closed after it was passed to the waiter.    *)
PassToDeliveryClosed ==
  /\ bpc = "deliver" /\ bpc' = "accept"
  /\ toDelivery' = Append(toDelivery, NoCustomer)
  /\ BillingOnly /\ UNCHANGED <<backlog, nsfd, signal_recieved, toWaiter, hired>>

PassToDelivery ==
  /\ bpc = "deliver" /\ bpc' = "accept"
  /\ toDelivery' = Append(toDelivery, nsfd)
  /\ BillingOnly /\ UNCHANGED <<backlog, nsfd, signal_recieved, toWaiter, hired>>

-----------------------------------------------------------------------------
(* Waiters: w1.c, w2.c, w3.c                                               *)

WaiterGoes(w, from, to) ==
  /\ wpc[w] = from
  /\ wpc' = [wpc EXCEPT ![w] = to]
  /\ UNCHANGED <<version, customerVars, nsfd, deliveryVars, toDelivery, hired>>

RecvFd(w) ==
  /\ WaiterGoes(w, "recv", "items")
  /\ toWaiter[w] # <<>>
  /\ wfd' = [wfd EXCEPT ![w] = Head(toWaiter[w])]
  /\ toWaiter' = [toWaiter EXCEPT ![w] = Tail(@)]
  /\ UNCHANGED <<bpc, signal_recieved, combo_items, dq, lostSignal>>

(* Mutant: the buffer is used before the items have arrived.               *)
RecvItemsEarly(w) ==
  /\ WaiterGoes(w, "items", "sleep")
  /\ combo_items' = [combo_items EXCEPT ![w] =
       IF cpc[wfd[w]] \in {"waiting", "served"} THEN wfd[w] ELSE @]
  /\ UNCHANGED <<bpc, signal_recieved, wfd, toWaiter, dq, lostSignal>>

(* recv of the items.  From a customer that is gone w1.c gets nothing and  *)
(* keeps the items of the customer before; w1.cpp gets an empty text.      *)
RecvItems(w) ==
  /\ WaiterGoes(w, "items", "sleep")
  /\ cpc[wfd[w]] \notin {"combo", "items"}
  /\ combo_items' = [combo_items EXCEPT ![w] =
       IF cpc[wfd[w]] # "gone" THEN wfd[w]
       ELSE IF version = "ace" THEN Garbage ELSE @]
  /\ UNCHANGED <<bpc, signal_recieved, wfd, toWaiter, dq, lostSignal>>

(* Mutant: the signal goes to some other process.                          *)
SignalOther(w) ==
  /\ version = "pause" /\ WaiterGoes(w, "sleep", "send")
  /\ UNCHANGED <<bpc, signal_recieved, wfd, combo_items, toWaiter, dq, lostSignal>>

(* kill(bpid, SIGUSR1) after sleep(1).  b.c's handler only prints: a       *)
(* signal that does not find b in pause() is forgotten.                    *)
Signal(w) ==
  /\ version = "pause" /\ WaiterGoes(w, "sleep", "send")
  /\ bpc' = IF bpc = "paused" THEN "deliver" ELSE bpc
  /\ lostSignal' = (lostSignal \/ bpc # "paused")
  /\ UNCHANGED <<signal_recieved, wfd, combo_items, toWaiter, dq>>

(* b.cpp's handle_signal sets the flag.                                    *)
AceSignal(w) ==
  /\ version = "ace" /\ WaiterGoes(w, "sleep", "send")
  /\ signal_recieved' = 1
  /\ UNCHANGED <<bpc, wfd, combo_items, toWaiter, dq, lostSignal>>

SendItemsOn(w) ==
  /\ WaiterGoes(w, "send", "recv")
  /\ dq' = [dq EXCEPT ![w] = Append(@, combo_items[w])]
  /\ UNCHANGED <<bpc, signal_recieved, wfd, combo_items, toWaiter, lostSignal>>

-----------------------------------------------------------------------------
(* Delivery counter: d.c, d.cpp                                            *)

DeliveryRecvFd ==
  /\ dpc = "recv" /\ toDelivery # <<>>
  /\ dfd' = Head(toDelivery) /\ toDelivery' = Tail(toDelivery)
  /\ dpc' = "poll"
  /\ UNCHANGED <<version, customerVars, billingVars, waiterVars, got, toWaiter,
                 dq, history>>

(* poll returns as soon as some waiter has sent; the loop takes the first. *)
FirstReady(w) == dq[w] # <<>> /\ \A v \in 1..(w - 1) : dq[v] = <<>>

(* d.cpp receives into buf and sends combo_items, which it never writes.   *)
Sent(w) == IF version = "ace" THEN Garbage ELSE Head(dq[w])

(* Mutant: the parcel is looked at and left on the connection.             *)
HandOverPeek(w) ==
  /\ dpc = "poll" /\ FirstReady(w) /\ dpc' = "recv"
  /\ got' = [got EXCEPT ![dfd] = Sent(w)]
  /\ UNCHANGED <<version, customerVars, billingVars, waiterVars, dfd, toWaiter,
                 toDelivery, dq, history>>

(* Mutant: one recv empties the waiter's connection.                       *)
HandOverAll(w) ==
  /\ dpc = "poll" /\ FirstReady(w) /\ dpc' = "recv"
  /\ got' = [got EXCEPT ![dfd] = Sent(w)]
  /\ dq' = [dq EXCEPT ![w] = <<>>]
  /\ UNCHANGED <<version, customerVars, billingVars, waiterVars, dfd, toWaiter,
                 toDelivery, history>>

HandOver(w) ==
  /\ dpc = "poll" /\ FirstReady(w) /\ dpc' = "recv"
  /\ got' = [got EXCEPT ![dfd] = Sent(w)]
  /\ dq' = [dq EXCEPT ![w] = Tail(@)]
  /\ UNCHANGED <<version, customerVars, billingVars, waiterVars, dfd, toWaiter,
                 toDelivery, history>>

-----------------------------------------------------------------------------
(* The programs of the two versions.                                       *)
Customer(c) ==
  Connect(c) \/ SendCombo(c) \/ SendItems(c) \/ RecvParcel(c) \/ Quit(c)
c_c(c) == version = "pause" /\ Customer(c)
c_cpp(c) == version = "ace" /\ Customer(c)

Billing ==
  Accept \/ RecvCombo \/ (\E w \in Waiters : PassToWaiter(w)) \/ PassToDelivery
b_c == version = "pause" /\ (Billing \/ Pause)
b_cpp == version = "ace" /\ (Billing \/ SpinEnds \/ SetBack)

Waiter(w) ==
  RecvFd(w) \/ RecvItems(w) \/ Signal(w) \/ AceSignal(w) \/ SendItemsOn(w)
w1_c == version = "pause" /\ Waiter(1)
w2_c == version = "pause" /\ \E w \in Waiters : w = 2 /\ Waiter(w)
w3_c == version = "pause" /\ \E w \in Waiters : w > 2 /\ Waiter(w)
w1_cpp == version = "ace" /\ Waiter(1)
w2_cpp == version = "ace" /\ \E w \in Waiters : w = 2 /\ Waiter(w)
w3_cpp == version = "ace" /\ \E w \in Waiters : w > 2 /\ Waiter(w)

Delivery == DeliveryRecvFd \/ \E w \in Waiters : HandOver(w)
d_c == version = "pause" /\ Delivery
d_cpp == version = "ace" /\ Delivery

Next ==
  \/ \E c \in Customers : c_c(c) \/ c_cpp(c)
  \/ b_c \/ w1_c \/ w2_c \/ w3_c \/ d_c
  \/ b_cpp \/ w1_cpp \/ w2_cpp \/ w3_cpp \/ d_cpp

Spec == Init /\ [][Next]_vars

(* All programs keep running.  A customer who has connected finishes the   *)
(* order or leaves: b reads the combo of one customer at a time, so one    *)
(* who does neither keeps everybody else waiting.                          *)
Fairness ==
  /\ WF_vars(b_c) /\ WF_vars(b_cpp) /\ WF_vars(Delivery)
  /\ \A w \in Waiters : WF_vars(Waiter(w))
  /\ \A c \in Customers : WF_vars(cpc[c] # "away" /\ Customer(c))

FairSpec == Spec /\ Fairness

-----------------------------------------------------------------------------
(* Properties                                                              *)

(* Control states of the seven programs and what their sockets carry.      *)
TypeOK ==
  /\ version \in Versions
  /\ cpc \in [Customers ->
       {"away", "combo", "items", "waiting", "served", "gone"}]
  /\ backlog \in Seq(Customers)
  /\ bpc \in {"accept", "combo", "pass", "ready", "paused", "reset", "deliver"}
  /\ nsfd \in Customers \cup {NoCustomer}
  /\ signal_recieved \in {-1, 1}
  /\ toWaiter \in [Waiters -> Seq(Customers)]
  /\ wpc \in [Waiters -> {"recv", "items", "sleep", "send"}]
  /\ wfd \in [Waiters -> Customers \cup {NoCustomer}]
  /\ combo_items \in [Waiters -> Parcel]
  /\ toDelivery \in Seq(Customers)
  /\ dq \in [Waiters -> Seq(Parcel)]
  /\ dpc \in {"recv", "poll"} /\ dfd \in Customers \cup {NoCustomer}
  /\ got \in [Customers -> Parcel \cup {NoParcel}]
  /\ hired \subseteq Waiters /\ lostSignal \in BOOLEAN

(* d.c hands to a customer the items that customer ordered, also when      *)
(* others leave in the middle, as long as b gives all work to one waiter.  *)
ParcelIsMine ==
  version = "pause" /\ Cardinality(hired) <= 1 =>
    \A c \in Customers : cpc[c] # "gone" => got[c] \in {NoParcel, c}

(* Whatever the number of waiters, no parcel is handed out twice, unless a *)
(* waiter was left with an old one by a customer that is gone.             *)
ParcelsNotShared ==
  \A c, e \in Customers :
    c # e /\ got[c] = got[e] =>
      got[c] \in {NoParcel, Garbage} \/ \E q \in Customers : cpc[q] = "gone"

Busy(w) == wpc[w] \in {"items", "sleep"}
Given == {w \in Waiters : toWaiter[w] # <<>> \/ Busy(w)}

(* b gives work to one waiter at a time: while a waiter has a customer     *)
(* whose completion it has not signalled, b waits for that signal, and for *)
(* that customer.                                                          *)
OneOrderAtATime ==
  \A w \in Given :
    /\ Given = {w} /\ bpc \in {"ready", "paused"}
    /\ toWaiter[w] = IF Busy(w) THEN <<>> ELSE <<nsfd>>
    /\ Busy(w) => wfd[w] = nsfd

(* b.cpp's flag is set only for the customer it is waiting for, so when it *)
(* is set back no signal is forgotten.                                     *)
FlagIsForThisCustomer ==
  signal_recieved = 1 => bpc \in {"ready", "reset"} /\ Given = {}

(* d never sits in poll for a parcel that nobody will send: for every      *)
(* customer passed to delivery a parcel is on its way.                     *)
Parcels == UNION {{w} \X DOMAIN dq[w] : w \in Waiters}
EveryDeliveryHasAParcel ==
  Len(toDelivery) + (IF dpc = "poll" THEN 1 ELSE 0)
    <= Cardinality(Parcels) + Cardinality({w \in Waiters : wpc[w] = "send"})

(* A customer who has ordered is served, unless b.c lost a signal; b.cpp   *)
(* loses none.                                                             *)
EveryCustomerServed ==
  \A c \in Customers :
    cpc[c] = "waiting" ~> cpc[c] = "served" \/ lostSignal

(* Parcels: the customer's own, handed out once, and one for each customer *)
(* that d waits to serve (d.c:43-60, w1.c:38-50).                          *)
ParcelsRight == ParcelIsMine /\ ParcelsNotShared /\ EveryDeliveryHasAParcel

(* Orders: one waiter works for b at a time, and the flag of b.cpp speaks  *)
(* of that waiter's customer (b.c:59-80, b.cpp:117).                       *)
OrdersInTurn == OneOrderAtATime /\ FlagIsForThisCustomer
============================================================================
