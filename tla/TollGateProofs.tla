--------------------------- MODULE TollGateProofs ---------------------------
(***************************************************************************)
(* For every number of gates, vehicles, ports and queue lengths: the toll  *)
(* plaza keeps its types, a vehicle whose gate lost no datagram is         *)
(* answered with the verdict on its own fast tag, and the traffic between  *)
(* gates, manager and server is bounded by the vehicles.                   *)
(*                                                                         *)
(* The answer depends on a chain of queues, so the invariant follows it:   *)
(* what is queued anywhere belongs to a vehicle that has connected (whose  *)
(* tag no longer changes), and the texts a gate has not read yet are pairs *)
(* of a plate and the verdict on the tag of that plate's vehicle.          *)
(***************************************************************************)
EXTENDS TollGate, SeqLemmas, FiniteSetTheorems, FunctionTheorems

(* A gate that serves a vehicle knows which one.                           *)
Serving == {"number", "plate", "valid", "signal"}

Here(v) == v \in Visits /\ vpc[v] # "away"

BacklogOK ==
  \A g \in Gates, l \in Lanes : \A i \in 1..Len(backlog[g][l]) :
    Here(backlog[g][l][i]) /\ Gate[backlog[g][l][i]] = g

ServingOK ==
  \A g \in Gates : gpc[g] \in Serving => Here(cur[g]) /\ Gate[cur[g]] = g

UdsOK == \A g \in Gates : \A i \in 1..Len(uds[g]) : Here(uds[g][i])

(* r asks for the vehicle v, with its final tag.                           *)
Asks(r, v) == Here(v) /\ r.tag = tag[v] /\ r.plate = Plate[v]

UdpOK == \A i \in 1..Len(udp) : \E v \in Visits : Asks(udp[i], v)

QueuesOK == BacklogOK /\ ServingOK /\ UdsOK /\ UdpOK

(* The texts gate g has yet to make pairs of: its raw queue, preceded by   *)
(* the one it has read when it is between its two recvfrom calls.          *)
TextCount(g) == Len(raw[g]) + (IF gpc[g] = "valid" THEN 1 ELSE 0)
TextAt(g, i) == IF gpc[g] = "valid"
                  THEN IF i = 1 THEN ftText[g] ELSE raw[g][i - 1]
                  ELSE raw[g][i]

PairAt(g, i) ==
  \E v \in Visits :
    /\ Here(v)
    /\ TextAt(g, i) = Plate[v]
    /\ IF i < TextCount(g) THEN TextAt(g, i + 1) = Verdict(tag[v])
                           ELSE ftValid = Verdict(tag[v])

PairsAt(g) ==
  ~lost[g] =>
    /\ TextCount(g) % 2 = (IF ftpc = "verdict" THEN 1 ELSE 0)
    /\ \A i \in 1..TextCount(g) : i % 2 = 1 => PairAt(g, i)

PairsOK == \A g \in Gates : PairsAt(g)

AnswersOK ==
  \A v \in Visits : answer[v] # NoAnswer =>
    /\ Here(v)
    /\ lost[Gate[v]] \/ answer[v] = Verdict(tag[v])

IInv == TypeOK /\ QueuesOK /\ PairsOK /\ AnswersOK

PlatesDistinct == \A v, w \in Visits : Plate[v] = Plate[w] => v = w

-----------------------------------------------------------------------------
(* The 22 variables are grouped in tuples; every proof opens them.         *)
USE DEF vars, vehicleVars, gateVars, tmVars, ftVars

(* The initial state satisfies the invariant.                              *)
LEMMA InitOK == Init => IInv
<1>1. Init => TypeOK
  BY TollConstants DEF Init, TypeOK, Gates, Lanes, NoAnswer
<1>2. Init => QueuesOK
  BY DEF Init, QueuesOK, BacklogOK, ServingOK, UdsOK, UdpOK, Serving
<1>3. Init => PairsOK
  BY DEF Init, PairsOK, PairsAt, TextCount
<1>4. Init => AnswersOK
  BY DEF Init, AnswersOK
<1> QED
  BY <1>1, <1>2, <1>3, <1>4 DEF IInv

(* Whichever gate program takes a step, it is the step of some gate.       *)
LEMMA GatePrograms ==
  Gate1 \/ Gate2 => \E g \in Gates : GateStep(g)
<1>1. 1 \in Gates
  BY TollConstants DEF Gates
<1> QED
  BY <1>1 DEF Gate1, Gate2

(* Every step keeps the types: the queues of the plaza only ever hold      *)
(* vehicles, tags and plates.                                              *)
LEMMA TypeStep == TypeOK /\ QueuesOK /\ [Next]_vars => TypeOK'
<1> SUFFICES ASSUME TypeOK, QueuesOK, [Next]_vars PROVE TypeOK'
  OBVIOUS
<1> USE TollConstants
<1>1. ASSUME NEW v \in Visits, VehicleConnect(v) PROVE TypeOK'
  <2> DEFINE q == backlog[Gate[v]]
  <2>1. Gate[v] \in Gates /\ Wheels[v] \in Lanes
    OBVIOUS
  <2>2. q \in [Lanes -> Seq(Visits)]
    BY <2>1 DEF TypeOK
  <2>3. Append(q[Wheels[v]], v) \in Seq(Visits)
    BY <2>1, <2>2
  <2>4. [q EXCEPT ![Wheels[v]] = Append(@, v)] \in [Lanes -> Seq(Visits)]
    BY <2>1, <2>2, <2>3
  <2>5. backlog' \in [Gates -> [Lanes -> Seq(Visits)]]
    BY <1>1, <2>1, <2>4 DEF TypeOK, VehicleConnect
  <2>6. tag' \in [Visits -> Nat]
    BY <1>1 DEF TypeOK, VehicleConnect
  <2> QED
    BY <1>1, <2>5, <2>6 DEF TypeOK, VehicleConnect
<1>2. ASSUME NEW v \in Visits, VehicleSend(v) PROVE TypeOK'
  BY <1>2 DEF TypeOK, VehicleSend
<1>3. ASSUME NEW v \in Visits, VehicleLeave(v) PROVE TypeOK'
  BY <1>3 DEF TypeOK, VehicleLeave
<1>4. ASSUME NEW g \in Gates, GatePoll(g) PROVE TypeOK'
  BY <1>4 DEF TypeOK, GatePoll
<1>5. ASSUME NEW g \in Gates, GateAccept(g) PROVE TypeOK'
  <2>1. PICK l \in revents[g] : GateAccept(g)!2!(l)
    BY <1>5 DEF GateAccept
  <2>2. l \in Lanes /\ backlog[g] \in [Lanes -> Seq(Visits)]
    BY DEF TypeOK
  <2>3. /\ Head(backlog[g][l]) \in Visits
        /\ Tail(backlog[g][l]) \in Seq(Visits)
    BY <2>1, <2>2
  <2>4. [backlog[g] EXCEPT ![l] = Tail(@)] \in [Lanes -> Seq(Visits)]
    BY <2>2, <2>3
  <2>5. backlog' \in [Gates -> [Lanes -> Seq(Visits)]]
    BY <2>1, <2>4 DEF TypeOK
  <2>6. /\ cur' \in [Gates -> Visits \cup {NoVisit}]
        /\ revents' \in [Gates -> SUBSET Lanes]
    BY <2>1, <2>3 DEF TypeOK
  <2> QED
    BY <1>5, <2>5, <2>6 DEF TypeOK, GateAccept
<1>6. ASSUME NEW g \in Gates, GateForward(g) PROVE TypeOK'
  <2>1. cur[g] \in Visits
    BY <1>6 DEF GateForward, QueuesOK, ServingOK, Serving, Here
  <2>2. uds' \in [Gates -> Seq(Visits)]
    BY <1>6, <2>1 DEF TypeOK, GateForward
  <2> QED
    BY <1>6, <2>2 DEF TypeOK, GateForward
<1>7. ASSUME NEW g \in Gates, GateRecvPlate(g) PROVE TypeOK'
  <2>1. /\ raw' \in [Gates -> Seq(Nat)]
        /\ ftText' \in [Gates -> Nat]
    BY <1>7 DEF TypeOK, GateRecvPlate
  <2> QED
    BY <1>7, <2>1 DEF TypeOK, GateRecvPlate
<1>8. ASSUME NEW g \in Gates, GateRecvValid(g) PROVE TypeOK'
  <2>1. Head(raw[g]) \in Int
    BY <1>8 DEF TypeOK, GateRecvValid
  <2>2. answer' \in [Visits -> Int]
    BY <1>8, <2>1 DEF TypeOK, GateRecvValid
  <2>3. raw' \in [Gates -> Seq(Nat)]
    BY <1>8 DEF TypeOK, GateRecvValid
  <2>4. gpc' \in [Gates -> {"poll", "scan", "number", "plate", "valid",
                            "signal"}]
    BY <1>8 DEF TypeOK, GateRecvValid, NextLane
  <2> QED
    BY <1>8, <2>2, <2>3, <2>4 DEF TypeOK, GateRecvValid
<1>9. ASSUME NEW g \in Gates, GateSignal(g) PROVE TypeOK'
  <2>1. Wheels[cur[g]] \in Lanes
    BY <1>9 DEF GateSignal, QueuesOK, ServingOK, Serving, Here
  <2> QED
    BY <1>9, <2>1 DEF TypeOK, GateSignal, NextLane
<1>10. CASE TMPoll
  BY <1>10 DEF TypeOK, TMPoll
<1>11. CASE TMRelay
  <2>1. PICK g \in tmReady : TMRelay!1!(g)
    BY <1>11 DEF TMRelay
  <2>2. Head(uds[g]) \in Visits
    BY <2>1 DEF TypeOK
  <2>3. [tag |-> tag[Head(uds[g])], plate |-> Plate[Head(uds[g])]]
          \in Request
    BY <2>2 DEF TypeOK, Request
  <2>4. udp' \in Seq(Request)
    BY <2>1, <2>3 DEF TypeOK
  <2>5. tmReady' \subseteq Gates
    BY <2>1 DEF TypeOK
  <2>6. uds' \in [Gates -> Seq(Visits)]
    <3>1. g \in Gates /\ Tail(uds[g]) \in Seq(Visits)
      BY <2>1 DEF TypeOK
    <3> QED
      BY <2>1, <3>1 DEF TypeOK
  <2> QED
    BY <1>11, <2>4, <2>5, <2>6 DEF TypeOK, TMRelay
<1>12. ASSUME NEW l \in Lanes, TMCount(l) PROVE TypeOK'
  BY <1>12 DEF TypeOK, TMCount
<1>13. CASE FTRecv
  <2>1. Head(udp) \in Request
    BY <1>13 DEF TypeOK, FTRecv
  <2>2. Head(udp).plate \in Nat
    BY <2>1 DEF Request
  <2>3. raw' \in [Gates -> Seq(Nat)]
    BY <1>13, <2>2 DEF TypeOK, FTRecv, Broadcast
  <2>4. lost' \in [Gates -> BOOLEAN]
    BY <1>13 DEF TypeOK, FTRecv, Broadcast
  <2>5. udp' \in Seq(Request)
    BY <1>13 DEF TypeOK, FTRecv
  <2>6. ftValid' \in {0, 1}
    BY <1>13 DEF FTRecv, Verdict
  <2> QED
    BY <1>13, <2>3, <2>4, <2>5, <2>6 DEF TypeOK, FTRecv
<1>14. CASE FTVerdict
  <2>1. raw' \in [Gates -> Seq(Nat)]
    BY <1>14 DEF TypeOK, FTVerdict, Broadcast
  <2>2. lost' \in [Gates -> BOOLEAN]
    BY <1>14 DEF TypeOK, FTVerdict, Broadcast
  <2> QED
    BY <1>14, <2>1, <2>2 DEF TypeOK, FTVerdict
<1>15. CASE UNCHANGED vars
  BY <1>15 DEF TypeOK
<1> QED
  BY <1>1, <1>2, <1>3, <1>4, <1>5, <1>6, <1>7, <1>8, <1>9, <1>10, <1>11,
     <1>12, <1>13, <1>14, <1>15, GatePrograms
     DEF Next, VehicleStep, GateStep, TMStep, FTStep, Idle

(* A vehicle that has connected stays so and keeps its tag.                *)
LEMMA HereStable ==
  ASSUME TypeOK, [Next]_vars, NEW v, Here(v)
  PROVE  Here(v)' /\ tag'[v] = tag[v]
<1> USE DEF Here, TypeOK
<1>1. ASSUME NEW w \in Visits, VehicleStep(w) PROVE Here(v)' /\ tag'[v] = tag[v]
  BY <1>1 DEF VehicleStep, VehicleConnect, VehicleSend, VehicleLeave
<1>2. ASSUME NEW g \in Gates, GateStep(g) PROVE Here(v)' /\ tag'[v] = tag[v]
  BY <1>2 DEF GateStep, GatePoll, GateAccept, GateForward, GateRecvPlate,
              GateRecvValid, GateSignal
<1>3. CASE TMStep \/ \E l \in Lanes : TMCount(l)
  BY <1>3 DEF TMStep, TMPoll, TMRelay, TMCount
<1>4. CASE FTStep
  BY <1>4 DEF FTStep, FTRecv, FTVerdict
<1> QED
  BY <1>1, <1>2, <1>3, <1>4, GatePrograms DEF Next, Idle

(* The queues between the programs only hold vehicles that connected to    *)
(* the gate in question.                                                   *)
LEMMA QueuesStep == TypeOK /\ QueuesOK /\ [Next]_vars => QueuesOK'
<1> SUFFICES ASSUME TypeOK, QueuesOK, [Next]_vars PROVE QueuesOK'
  OBVIOUS
<1> USE DEF Here
<1>h. \A v \in Visits : vpc[v] # "away" => vpc'[v] # "away" /\ tag'[v] = tag[v]
  BY HereStable DEF Here
<1>t. TypeOK'
  BY TypeStep
<1>1. ASSUME UNCHANGED backlog PROVE BacklogOK'
  BY <1>1, <1>h DEF BacklogOK, QueuesOK
<1>2. ASSUME UNCHANGED <<gpc, cur>> PROVE ServingOK'
  BY <1>2, <1>h DEF ServingOK, QueuesOK
<1>3. ASSUME UNCHANGED uds PROVE UdsOK'
  BY <1>3, <1>h DEF UdsOK, QueuesOK
<1>4. ASSUME UNCHANGED udp PROVE UdpOK'
  <2>1. \A r, v : Asks(r, v) => Asks(r, v)'
    BY <1>h DEF Asks
  <2> QED
    BY <1>4, <2>1 DEF UdpOK, QueuesOK
<1> USE DEF QueuesOK
<1>5. ASSUME NEW v \in Visits, VehicleConnect(v) PROVE QueuesOK'
  <2>1. Here(v)'
    BY <1>5 DEF VehicleConnect, TypeOK, Here
  <2>2. BacklogOK'
    <3> SUFFICES ASSUME NEW g \in Gates, NEW l \in Lanes,
                        NEW i \in 1..Len(backlog'[g][l])
                 PROVE  (Here(backlog[g][l][i]) /\ Gate[backlog[g][l][i]] = g)'
      BY DEF BacklogOK
    <3>1. backlog[g] \in [Lanes -> Seq(Visits)] /\ backlog[g][l] \in Seq(Visits)
      BY DEF TypeOK
    <3>2. CASE g = Gate[v] /\ l = Wheels[v]
      <4>1. backlog'[g][l] = Append(backlog[g][l], v)
        BY <1>5, <3>1, <3>2, TollConstants DEF VehicleConnect, TypeOK
      <4>2. i = Len(backlog[g][l]) + 1 \/ i \in 1..Len(backlog[g][l])
        BY <4>1, <3>1, AppendElements
      <4>3. CASE i = Len(backlog[g][l]) + 1
        <5>1. backlog'[g][l][i] = v
          BY <4>1, <4>3, <3>1, AppendElements
        <5> QED
          BY <5>1, <2>1, <3>2
      <4>4. CASE i \in 1..Len(backlog[g][l])
        <5>1. backlog'[g][l][i] = backlog[g][l][i]
          BY <4>1, <4>4, <3>1, AppendElements
        <5> QED
          BY <5>1, <4>4, <1>h DEF BacklogOK
      <4> QED
        BY <4>2, <4>3, <4>4
    <3>3. CASE ~(g = Gate[v] /\ l = Wheels[v])
      <4>1. backlog'[g][l] = backlog[g][l]
        BY <1>5, <3>1, <3>3, TollConstants DEF VehicleConnect, TypeOK
      <4> QED
        BY <4>1, <1>h DEF BacklogOK
    <3> QED
      BY <3>2, <3>3
  <2> QED
    BY <1>5, <2>2, <1>2, <1>3, <1>4 DEF VehicleConnect
<1>6. ASSUME NEW v \in Visits, VehicleSend(v) \/ VehicleLeave(v) PROVE QueuesOK'
  BY <1>6, <1>1, <1>2, <1>3, <1>4 DEF VehicleSend, VehicleLeave
<1>7. ASSUME NEW g \in Gates, GatePoll(g) PROVE QueuesOK'
  <2>1. ServingOK'
    BY <1>7, <1>h DEF GatePoll, TypeOK, ServingOK, Serving
  <2> QED
    BY <1>7, <2>1, <1>1, <1>3, <1>4 DEF GatePoll
<1>8. ASSUME NEW g \in Gates, GateAccept(g) PROVE QueuesOK'
  <2>1. PICK l \in revents[g] : GateAccept(g)!2!(l)
    BY <1>8 DEF GateAccept
  <2>2. l \in Lanes /\ backlog[g] \in [Lanes -> Seq(Visits)]
        /\ backlog[g][l] \in Seq(Visits)
    BY DEF TypeOK
  <2>3. Here(Head(backlog[g][l])) /\ Gate[Head(backlog[g][l])] = g
    <3>1. 1 \in 1..Len(backlog[g][l]) /\ Head(backlog[g][l]) = backlog[g][l][1]
      BY <2>1, <2>2, TailElements
    <3> QED
      BY <3>1, <2>2 DEF BacklogOK
  <2>4. ServingOK'
    BY <1>8, <2>1, <2>3, <1>h DEF GateAccept, TypeOK, ServingOK, Serving
  <2>5. BacklogOK'
    <3> SUFFICES ASSUME NEW h \in Gates, NEW k \in Lanes,
                        NEW i \in 1..Len(backlog'[h][k])
                 PROVE  (Here(backlog[h][k][i]) /\ Gate[backlog[h][k][i]] = h)'
      BY DEF BacklogOK
    <3>1. CASE h = g /\ k = l
      <4>1. backlog'[h][k] = Tail(backlog[g][l])
        BY <2>1, <2>2, <3>1 DEF TypeOK
      <4>2. i + 1 \in 1..Len(backlog[g][l])
            /\ backlog'[h][k][i] = backlog[g][l][i + 1]
        BY <4>1, <2>1, <2>2, TailElements
      <4> QED
        BY <4>2, <2>2, <3>1, <1>h DEF BacklogOK
    <3>2. CASE ~(h = g /\ k = l)
      <4>1. backlog'[h][k] = backlog[h][k]
        BY <2>1, <2>2, <3>2 DEF TypeOK
      <4> QED
        BY <4>1, <1>h DEF BacklogOK
    <3> QED
      BY <3>1, <3>2
  <2> QED
    BY <1>8, <2>4, <2>5, <1>3, <1>4 DEF GateAccept
<1>9. ASSUME NEW g \in Gates, GateForward(g) PROVE QueuesOK'
  <2>1. Here(cur[g])
    BY <1>9 DEF GateForward, ServingOK, Serving
  <2>2. UdsOK'
    <3> SUFFICES ASSUME NEW h \in Gates, NEW i \in 1..Len(uds'[h])
                 PROVE  Here(uds[h][i])'
      BY DEF UdsOK
    <3>1. uds[g] \in Seq(Visits) /\ cur[g] \in Visits
      BY <2>1 DEF TypeOK
    <3>2. CASE h = g
      <4>1. uds'[g] = Append(uds[g], cur[g])
        BY <1>9 DEF GateForward, TypeOK
      <4>2. i = Len(uds[g]) + 1 \/ i \in 1..Len(uds[g])
        BY <3>1, <3>2, <4>1, AppendElements
      <4>3. i \in 1..Len(uds[g]) => uds'[g][i] = uds[g][i]
        BY <3>1, <4>1, AppendElements
      <4>4. i = Len(uds[g]) + 1 => uds'[g][i] = cur[g]
        BY <3>1, <4>1, AppendElements
      <4> QED
        BY <3>2, <4>2, <4>3, <4>4, <2>1, <1>h DEF UdsOK
    <3>3. CASE h # g
      BY <1>9, <3>3, <1>h DEF GateForward, TypeOK, UdsOK
    <3> QED
      BY <3>2, <3>3
  <2>3. ServingOK'
    BY <1>9, <1>h DEF GateForward, ServingOK, Serving, TypeOK
  <2> QED
    BY <1>9, <2>2, <2>3, <1>1, <1>4 DEF GateForward
<1>10. ASSUME NEW g \in Gates,
              GateRecvPlate(g) \/ GateRecvValid(g) \/ GateSignal(g)
       PROVE  QueuesOK'
  <2>1. ServingOK'
    BY ZenonT(40), <1>10, <1>h DEF GateRecvPlate, GateRecvValid, GateSignal, NextLane,
                       ServingOK, Serving, TypeOK
  <2> QED
    BY <1>10, <2>1, <1>1, <1>3, <1>4 DEF GateRecvPlate, GateRecvValid, GateSignal
<1>11. CASE TMRelay
  <2>1. PICK g \in tmReady : TMRelay!1!(g)
    BY <1>11 DEF TMRelay
  <2>2. g \in Gates /\ uds[g] \in Seq(Visits)
    BY DEF TypeOK
  <2>3. UdsOK'
    <3> SUFFICES ASSUME NEW h \in Gates, NEW i \in 1..Len(uds'[h])
                 PROVE  Here(uds[h][i])'
      BY DEF UdsOK
    <3>1. CASE h = g
      <4>1. uds'[g] = Tail(uds[g])
        BY <2>1, <2>2 DEF TypeOK
      <4>2. i + 1 \in 1..Len(uds[g]) /\ uds'[g][i] = uds[g][i + 1]
        BY ZenonT(40), <2>1, <2>2, <3>1, <4>1, TailElements
      <4> QED
        BY <2>2, <3>1, <4>2, <1>h DEF UdsOK
    <3>2. CASE h # g
      BY <2>1, <2>2, <3>2, <1>h DEF TypeOK, UdsOK
    <3> QED
      BY <3>1, <3>2
  <2>4. UdpOK'
    <3>1. PICK v \in Visits : v = Head(uds[g]) /\ Here(v)
      <4>1. 1 \in 1..Len(uds[g]) /\ Head(uds[g]) = uds[g][1]
        BY <2>1, <2>2, TailElements
      <4> QED
        BY <4>1, <2>2 DEF UdsOK
    <3>2. PICK r \in Request : r = [tag |-> tag[v], plate |-> Plate[v]]
      BY <3>1, TollConstants DEF Request, TypeOK
    <3>3. Asks(r, v)'
      BY <3>1, <3>2, <1>h DEF Asks
    <3>4. \A q, w : Asks(q, w) => Asks(q, w)'
      BY <1>h DEF Asks
    <3>5. udp \in Seq(Request) /\ udp' = Append(udp, r)
      BY <2>1, <3>1, <3>2 DEF TypeOK
    <3>6. \A i \in 1..Len(udp') :
             udp'[i] = r \/ (i \in 1..Len(udp) /\ udp'[i] = udp[i])
      BY <3>5, AppendElements
    <3> QED
      BY <3>3, <3>4, <3>6 DEF UdpOK
  <2> QED
    BY <1>11, <2>3, <2>4, <1>1, <1>2 DEF TMRelay
<1>12. CASE TMPoll \/ (\E l \in Lanes : TMCount(l)) \/ FTVerdict \/ UNCHANGED vars
  BY <1>12, <1>1, <1>2, <1>3, <1>4 DEF TMPoll, TMCount, FTVerdict
<1>13. CASE FTRecv
  <2>1. UdpOK'
    <3>1. udp \in Seq(Request) /\ udp # <<>> /\ udp' = Tail(udp)
      BY <1>13 DEF FTRecv, TypeOK
    <3>2. \A q, w : Asks(q, w) => Asks(q, w)'
      BY <1>h DEF Asks
    <3>3. \A i \in 1..Len(udp') : i + 1 \in 1..Len(udp) /\ udp'[i] = udp[i + 1]
      BY <3>1, TailElements
    <3> QED
      BY <3>2, <3>3 DEF UdpOK
  <2> QED
    BY <1>13, <2>1, <1>1, <1>2, <1>3 DEF FTRecv
<1> QED
  BY <1>5, <1>6, <1>7, <1>8, <1>9, <1>10, <1>11, <1>12, <1>13,
     GatePrograms
     DEF Next, VehicleStep, GateStep, TMStep, FTStep, Idle

(* The programs of the plaza never leave their types.                      *)
THEOREM TypeCorrect == Spec => []TypeOK
<1>1. Init => TypeOK /\ QueuesOK
  BY InitOK DEF IInv
<1>2. TypeOK /\ QueuesOK /\ [Next]_vars => (TypeOK /\ QueuesOK)'
  BY TypeStep, QueuesStep
<1> QED
  BY <1>1, <1>2, PTL DEF Spec

-----------------------------------------------------------------------------
(* A datagram that is not dropped becomes the last text of the gate.       *)
LEMMA BroadcastTexts ==
  ASSUME TypeOK, NEW text \in Nat, Broadcast(text), UNCHANGED gateVars,
         NEW g \in Gates, ~lost'[g]
  PROVE  /\ ~lost[g]
         /\ TextCount(g) \in Nat
         /\ TextCount(g)' = TextCount(g) + 1
         /\ \A i \in 1..TextCount(g) : TextAt(g, i)' = TextAt(g, i)
         /\ \A n : n = TextCount(g) + 1 => TextAt(g, n)' = text
<1>1. raw[g] \in Seq(Nat) /\ Len(raw[g]) \in Nat
  BY DEF TypeOK
<1>2. ~lost[g] /\ raw'[g] = Append(raw[g], text)
  <2>1. lost'[g] = (lost[g] \/ Len(raw[g]) >= RawCap)
    BY DEF Broadcast
  <2>2. ~lost[g] /\ ~(Len(raw[g]) >= RawCap)
    BY <2>1
  <2>3. Len(raw[g]) < RawCap
    BY <2>2, <1>1, TollConstants
  <2> QED
    BY <2>2, <2>3 DEF Broadcast
<1>3. /\ Len(raw'[g]) = Len(raw[g]) + 1
      /\ raw'[g][Len(raw[g]) + 1] = text
      /\ \A i \in 1..Len(raw[g]) : raw'[g][i] = raw[g][i]
  BY <1>1, <1>2, AppendElements
<1>4. TextCount(g) \in Nat /\ TextCount(g)' = TextCount(g) + 1
  <2>1. Len(raw'[g]) = Len(raw[g]) + 1 /\ gpc'[g] = gpc[g]
    BY <1>3
  <2>2. CASE gpc[g] = "valid"
    <3>1. TextCount(g) = Len(raw[g]) + 1 /\ TextCount(g)' = Len(raw'[g]) + 1
      BY <2>1, <2>2 DEF TextCount
    <3> QED
      BY <1>1, <2>1, <3>1
  <2>3. CASE gpc[g] # "valid"
    <3>1. TextCount(g) = Len(raw[g]) + 0 /\ TextCount(g)' = Len(raw'[g]) + 0
      BY <2>1, <2>3 DEF TextCount
    <3> QED
      BY <1>1, <2>1, <3>1
  <2> QED
    BY <2>2, <2>3
<1>5. ASSUME NEW i \in 1..TextCount(g) PROVE TextAt(g, i)' = TextAt(g, i)
  <2>1. CASE gpc[g] = "valid" /\ i # 1
    <3>1. i - 1 \in 1..Len(raw[g])
      BY <1>1, <2>1 DEF TextCount
    <3> QED
      BY <1>3, <2>1, <3>1 DEF TextAt
  <2>2. CASE gpc[g] = "valid" /\ i = 1
    BY <2>2 DEF TextAt
  <2>3. CASE gpc[g] # "valid"
    BY <1>1, <1>3, <2>3 DEF TextAt, TextCount
  <2> QED
    BY <2>1, <2>2, <2>3
<1>6. ASSUME NEW n, n = TextCount(g) + 1 PROVE TextAt(g, n)' = text
  <2>1. CASE gpc[g] = "valid"
    <3>1. n # 1 /\ n - 1 = Len(raw[g]) + 1
      BY <1>1, <1>6, <2>1 DEF TextCount
    <3> QED
      BY <1>3, <2>1, <3>1 DEF TextAt
  <2>2. CASE gpc[g] # "valid"
    <3>1. n = Len(raw[g]) + 1
      BY <1>1, <1>6, <2>2 DEF TextCount
    <3> QED
      BY <1>3, <2>2, <3>1 DEF TextAt
  <2> QED
    BY <2>1, <2>2
<1> QED
  BY <1>2, <1>4, <1>5, <1>6

(* The texts of every gate stay plates paired with their verdicts.         *)
LEMMA PairsStep == TypeOK /\ QueuesOK /\ PairsOK /\ [Next]_vars => PairsOK'
<1> SUFFICES ASSUME TypeOK, QueuesOK, PairsOK, [Next]_vars, NEW g \in Gates
             PROVE  PairsAt(g)'
  BY DEF PairsOK
<1>p. PairsAt(g)
  BY DEF PairsOK
<1>h. \A v \in Visits : Here(v) => Here(v)' /\ tag'[v] = tag[v]
  BY HereStable
<1>n. raw[g] \in Seq(Nat) /\ Len(raw[g]) \in Nat /\ TextCount(g) \in Nat
  BY DEF TypeOK, TextCount
<1>k. ASSUME raw'[g] = raw[g], ftText'[g] = ftText[g], lost'[g] = lost[g],
             gpc'[g] = "valid" <=> gpc[g] = "valid", UNCHANGED <<ftpc, ftValid>>
      PROVE  PairsAt(g)'
  <2>1. TextCount(g)' = TextCount(g) /\ \A i : TextAt(g, i)' = TextAt(g, i)
    BY <1>k DEF TextCount, TextAt
  <2> QED
    BY <1>k, <1>p, <1>h, <2>1 DEF PairsAt, PairAt
<1>1. ASSUME NEW v \in Visits, VehicleStep(v) PROVE PairsAt(g)'
  BY <1>1, <1>k DEF VehicleStep, VehicleConnect, VehicleSend, VehicleLeave
<1>2. ASSUME NEW h \in Gates,
             GatePoll(h) \/ GateAccept(h) \/ GateForward(h) \/ GateSignal(h)
      PROVE  PairsAt(g)'
  <2>1. gpc'[g] = "valid" <=> gpc[g] = "valid"
    BY <1>2 DEF GatePoll, GateAccept, GateForward, GateSignal, NextLane, TypeOK
  <2> QED
    BY <1>2, <1>k, <2>1 DEF GatePoll, GateAccept, GateForward, GateSignal
<1>3. ASSUME NEW h \in Gates, h # g, GateRecvPlate(h) \/ GateRecvValid(h)
      PROVE  PairsAt(g)'
  BY <1>3, <1>k DEF GateRecvPlate, GateRecvValid, TypeOK
<1>4. CASE GateRecvPlate(g)
  <2>1. /\ gpc[g] = "plate" /\ gpc'[g] = "valid"
        /\ raw[g] # <<>> /\ raw'[g] = Tail(raw[g])
        /\ ftText'[g] = Head(raw[g])
    BY <1>4 DEF GateRecvPlate, TypeOK
  <2>2. /\ Len(raw'[g]) = Len(raw[g]) - 1
        /\ ftText'[g] = raw[g][1]
        /\ \A i \in 1..Len(raw[g]) - 1 : raw'[g][i] = raw[g][i + 1]
    BY <2>1, <1>n, TailElements
  <2>3. TextCount(g)' = TextCount(g)
    BY <2>1, <2>2, <1>n DEF TextCount
  <2>4. \A i \in 1..TextCount(g) : TextAt(g, i)' = TextAt(g, i)
    BY <2>1, <2>2, <1>n DEF TextAt, TextCount
  <2>5. UNCHANGED <<lost, ftpc, ftValid>>
    BY <1>4 DEF GateRecvPlate
  <2> QED
    BY <1>p, <1>h, <1>n, <2>3, <2>4, <2>5 DEF PairsAt, PairAt
<1>5. CASE GateRecvValid(g)
  <2>1. /\ gpc[g] = "valid" /\ gpc'[g] # "valid"
        /\ raw[g] # <<>> /\ raw'[g] = Tail(raw[g])
    BY <1>5 DEF GateRecvValid, NextLane, TypeOK
  <2>2. /\ Len(raw'[g]) = Len(raw[g]) - 1
        /\ \A i \in 1..Len(raw[g]) - 1 : raw'[g][i] = raw[g][i + 1]
    BY <2>1, <1>n, TailElements
  <2>3. TextCount(g)' = TextCount(g) - 2
    BY <2>1, <2>2, <1>n DEF TextCount
  <2>4. \A i \in 1..TextCount(g) - 2 : TextAt(g, i)' = TextAt(g, i + 2)
    BY <2>1, <2>2, <1>n DEF TextAt, TextCount
  <2>5. UNCHANGED <<lost, ftpc, ftValid>>
    BY <1>5 DEF GateRecvValid
  <2>6. \A i \in 1..TextCount(g) - 2 : PairAt(g, i + 2) => PairAt(g, i)'
    BY <1>h, <1>n, <2>3, <2>4, <2>5 DEF PairAt
  <2>7. ASSUME ~lost[g], NEW i \in 1..TextCount(g) - 2, i % 2 = 1
        PROVE  PairAt(g, i)'
    <3>1. i + 2 \in 1..TextCount(g) /\ (i + 2) % 2 = 1
      BY <1>n, <2>7
    <3> QED
      BY <1>p, <2>6, <2>7, <3>1 DEF PairsAt
  <2>8. TextCount(g) \in Nat /\ TextCount(g)' % 2 = TextCount(g) % 2
    BY <1>n, <2>3
  <2> QED
    BY <1>p, <2>3, <2>5, <2>7, <2>8 DEF PairsAt
<1>6. CASE TMStep \/ (\E l \in Lanes : TMCount(l)) \/ UNCHANGED vars
  BY <1>6, <1>k DEF TMStep, TMPoll, TMRelay, TMCount
<1>7. CASE FTRecv
  <2> SUFFICES ASSUME ~lost'[g] PROVE PairsAt(g)'
    BY DEF PairsAt
  <2>1. udp \in Seq(Request) /\ udp # <<>>
    BY <1>7 DEF FTRecv, TypeOK
  <2>2. Head(udp) \in Request /\ Head(udp) = udp[1] /\ 1 \in 1..Len(udp)
    BY <2>1, TailElements
  <2>3. PICK v \in Visits : Asks(Head(udp), v)
    BY <2>2 DEF QueuesOK, UdpOK
  <2>4. /\ Here(v)' /\ tag'[v] = tag[v]
        /\ Head(udp).plate = Plate[v] /\ Plate[v] \in Nat
        /\ ftValid' = Verdict(tag[v])
    BY <1>7, <2>3, <1>h, TollConstants DEF Asks, FTRecv
  <2>5. Broadcast(Plate[v]) /\ UNCHANGED gateVars /\ ftpc = "recv" /\ ftpc' = "verdict"
    BY <1>7, <2>4 DEF FTRecv
  <2>6. /\ ~lost[g]
        /\ TextCount(g)' = TextCount(g) + 1
        /\ \A i \in 1..TextCount(g) : TextAt(g, i)' = TextAt(g, i)
        /\ \A n : n = TextCount(g) + 1 => TextAt(g, n)' = Plate[v]
    BY <2>4, <2>5, BroadcastTexts
  <2>7. /\ TextCount(g) % 2 = 0
        /\ \A i \in 1..TextCount(g) : i % 2 = 1 => PairAt(g, i)
    BY <1>p, <2>5, <2>6 DEF PairsAt
  <2>8. ASSUME NEW i \in 1..TextCount(g), i % 2 = 1 PROVE PairAt(g, i)'
    <3>1. i < TextCount(g) /\ i + 1 \in 1..TextCount(g)
      BY <1>n, <2>7, <2>8
    <3>2. PICK w \in Visits : /\ Here(w) /\ TextAt(g, i) = Plate[w]
                              /\ TextAt(g, i + 1) = Verdict(tag[w])
      BY <2>7, <2>8, <3>1 DEF PairAt
    <3> QED
      BY <1>h, <1>n, <2>6, <3>1, <3>2 DEF PairAt
  <2>9. ASSUME NEW n \in Nat, n = TextCount(g) + 1 PROVE PairAt(g, n)'
    <3>1. TextAt(g, n)' = Plate[v] /\ ~(n < TextCount(g)')
      BY <2>6, <2>9
    <3> QED
      BY <3>1, <2>4 DEF PairAt
  <2>10. TextCount(g)' % 2 = 1
    BY <1>n, <2>6, <2>7
  <2>11. ASSUME NEW i \in 1..TextCount(g)', i % 2 = 1 PROVE PairAt(g, i)'
    <3>1. i \in 1..TextCount(g) \/ (i \in Nat /\ i = TextCount(g) + 1)
      BY <1>n, <2>6
    <3> QED
      BY <3>1, <2>8, <2>9, <2>11
  <2> QED
    BY <2>5, <2>10, <2>11 DEF PairsAt
<1>8. CASE FTVerdict
  <2> SUFFICES ASSUME ~lost'[g] PROVE PairsAt(g)'
    BY DEF PairsAt
  <2>1. /\ Broadcast(ftValid) /\ UNCHANGED gateVars /\ ftValid \in Nat
        /\ ftpc = "verdict" /\ ftpc' = "recv"
    BY <1>8 DEF FTVerdict, TypeOK
  <2>2. /\ ~lost[g]
        /\ TextCount(g)' = TextCount(g) + 1
        /\ \A i \in 1..TextCount(g) : TextAt(g, i)' = TextAt(g, i)
        /\ \A n : n = TextCount(g) + 1 => TextAt(g, n)' = ftValid
    BY <2>1, BroadcastTexts
  <2>3. /\ TextCount(g) % 2 = 1
        /\ \A i \in 1..TextCount(g) : i % 2 = 1 => PairAt(g, i)
    BY <1>p, <2>1, <2>2 DEF PairsAt
  <2>4. ASSUME NEW i \in 1..TextCount(g), i % 2 = 1 PROVE PairAt(g, i)'
    <3>1. i < TextCount(g)'
      BY <1>n, <2>2
    <3>2. PICK w \in Visits :
             /\ Here(w) /\ TextAt(g, i) = Plate[w]
             /\ IF i < TextCount(g) THEN TextAt(g, i + 1) = Verdict(tag[w])
                                    ELSE ftValid = Verdict(tag[w])
      BY <2>3, <2>4 DEF PairAt
    <3>3. TextAt(g, i + 1)' = Verdict(tag[w])
      <4>1. CASE i < TextCount(g)
        <5>1. i + 1 \in 1..TextCount(g)
          BY <1>n, <4>1
        <5> QED
          BY <4>1, <5>1, <3>2, <2>2
      <4>2. CASE i = TextCount(g)
        BY <4>2, <1>n, <3>2, <2>2
      <4> QED
        BY <1>n, <4>1, <4>2
    <3> QED
      BY <1>h, <2>2, <3>1, <3>2, <3>3 DEF PairAt
  <2> QED
    BY <1>n, <2>1, <2>2, <2>3, <2>4 DEF PairsAt
<1> QED
  BY <1>1, <1>2, <1>3, <1>4, <1>5, <1>6, <1>7, <1>8, GatePrograms
     DEF Next, GateStep, FTStep, Idle

(* An answer given without loss is the verdict on the vehicle's own tag:   *)
(* the gate takes the pair with its vehicle's plate, no other vehicle has  *)
(* that plate, and the pair's second text is that vehicle's verdict.       *)
LEMMA AnswersStep ==
  ASSUME PlatesDistinct
  PROVE  TypeOK /\ QueuesOK /\ PairsOK /\ AnswersOK /\ [Next]_vars => AnswersOK'
<1> SUFFICES ASSUME TypeOK, QueuesOK, PairsOK, AnswersOK, [Next]_vars
             PROVE  AnswersOK'
  OBVIOUS
<1>h. \A v \in Visits : Here(v) => Here(v)' /\ tag'[v] = tag[v]
  BY HereStable
<1>1. ASSUME UNCHANGED <<answer, lost>> PROVE AnswersOK'
  BY <1>1, <1>h DEF AnswersOK
<1>2. ASSUME NEW v \in Visits, VehicleStep(v) PROVE AnswersOK'
  BY <1>1, <1>2 DEF VehicleStep, VehicleConnect, VehicleSend, VehicleLeave
<1>3. ASSUME NEW g \in Gates, GatePoll(g) \/ GateAccept(g) \/ GateForward(g)
                              \/ GateRecvPlate(g) \/ GateSignal(g)
      PROVE  AnswersOK'
  BY <1>1, <1>3 DEF GatePoll, GateAccept, GateForward, GateRecvPlate, GateSignal
<1>4. ASSUME NEW g \in Gates, GateRecvValid(g) PROVE AnswersOK'
  <2>1. CASE ftText[g] # Plate[cur[g]]
    BY <1>1, <1>4, <2>1 DEF GateRecvValid
  <2>2. CASE ftText[g] = Plate[cur[g]]
    <3>1. Here(cur[g]) /\ Gate[cur[g]] = g /\ cur[g] \in Visits
      BY <1>4 DEF GateRecvValid, QueuesOK, ServingOK, Serving, Here
    <3>2. answer' = [answer EXCEPT ![cur[g]] = Head(raw[g])]
      BY <1>4, <2>2 DEF GateRecvValid
    <3>3. ASSUME ~lost[g] PROVE Head(raw[g]) = Verdict(tag[cur[g]])
      <4>1. raw[g] \in Seq(Nat) /\ raw[g] # <<>> /\ gpc[g] = "valid"
        BY <1>4 DEF GateRecvValid, TypeOK
      <4>2. Head(raw[g]) = raw[g][1] /\ Len(raw[g]) \in Nat \ {0}
        BY <4>1, TailElements
      <4>3. /\ TextCount(g) = Len(raw[g]) + 1
            /\ TextAt(g, 1) = ftText[g]
            /\ TextAt(g, 1 + 1) = Head(raw[g])
        BY <4>1, <4>2 DEF TextCount, TextAt
      <4>4. 1 \in 1..TextCount(g) /\ 1 % 2 = 1 /\ 1 < TextCount(g)
        BY <4>2, <4>3
      <4>5. PairAt(g, 1)
        BY <3>3, <4>4 DEF PairsOK, PairsAt
      <4>6. PICK w \in Visits : /\ TextAt(g, 1) = Plate[w]
                                /\ TextAt(g, 1 + 1) = Verdict(tag[w])
        BY <4>4, <4>5 DEF PairAt
      <4>7. w = cur[g]
        BY <2>2, <3>1, <4>3, <4>6 DEF PlatesDistinct
      <4> QED
        BY <4>3, <4>6, <4>7
    <3>4. UNCHANGED lost
      BY <1>4 DEF GateRecvValid
    <3>5. ASSUME NEW v \in Visits, answer'[v] # NoAnswer
          PROVE  Here(v)' /\ (lost'[Gate[v]] \/ answer'[v] = Verdict(tag'[v]))
      <4>1. CASE v = cur[g]
        BY <3>1, <3>2, <3>3, <3>4, <4>1, <1>h DEF TypeOK
      <4>2. CASE v # cur[g]
        BY <3>2, <3>4, <3>5, <4>2, <1>h DEF TypeOK, AnswersOK
      <4> QED
        BY <4>1, <4>2
    <3> QED
      BY <3>5 DEF AnswersOK, Verdict
  <2> QED
    BY <2>1, <2>2
<1>5. CASE TMStep \/ (\E l \in Lanes : TMCount(l)) \/ UNCHANGED vars
  BY <1>5, <1>1 DEF TMStep, TMPoll, TMRelay, TMCount
<1>6. CASE FTStep
  <2>1. UNCHANGED answer /\ \A g \in Gates : lost[g] => lost'[g]
    BY <1>6 DEF FTStep, FTRecv, FTVerdict, Broadcast
  <2> QED
    BY <2>1, <1>h, TollConstants DEF AnswersOK
<1> QED
  BY <1>2, <1>3, <1>4, <1>5, <1>6, GatePrograms
     DEF Next, GateStep, Idle

(* With distinct plates the gates never mix up verdicts: for any number of *)
(* gates and vehicles, in any interleaving, a vehicle whose gate lost no   *)
(* datagram is answered with the verdict on its own fast tag.              *)
THEOREM VerdictsNeverMixed == PlatesDistinct => (Spec => []VerdictIsMine)
<1> SUFFICES ASSUME PlatesDistinct PROVE Spec => []VerdictIsMine
  OBVIOUS
<1>1. Init => IInv
  BY InitOK
<1>2. IInv /\ [Next]_vars => IInv'
  BY TypeStep, QueuesStep, PairsStep, AnswersStep DEF IInv
<1>3. IInv => VerdictIsMine
  BY TollConstants DEF IInv, AnswersOK, VerdictIsMine
<1> QED
  BY <1>1, <1>2, <1>3, PTL DEF Spec

-----------------------------------------------------------------------------
(* The traffic behind the gates                                            *)

InBacklog(v) ==
  \E i \in 1..Len(backlog[Gate[v]][Wheels[v]]) : backlog[Gate[v]][Wheels[v]][i] = v
AtGate(v) == gpc[Gate[v]] \in Serving /\ cur[Gate[v]] = v

(* A listening port queues vehicles with its number of wheels, each once.  *)
LaneOK ==
  \A g \in Gates, l \in Lanes :
    /\ \A i \in 1..Len(backlog[g][l]) : Wheels[backlog[g][l][i]] = l
    /\ \A i, k \in 1..Len(backlog[g][l]) : backlog[g][l][i] = backlog[g][l][k] => i = k

(* A vehicle is at one place of the plaza, and unanswered until the gate   *)
(* has read its verdict.                                                   *)
PlaceOK ==
  \A v \in Visits :
    /\ vpc[v] = "away" => ~InBacklog(v) /\ ~AtGate(v) /\ answer[v] = NoAnswer
    /\ InBacklog(v) => ~AtGate(v) /\ answer[v] = NoAnswer
    /\ AtGate(v) /\ gpc[Gate[v]] # "signal" => answer[v] = NoAnswer

Pend(l) == IF l \in pending THEN 1 ELSE 0
Signals(l) == {g \in Gates : gpc[g] = "signal" /\ Wheels[cur[g]] = l}

(* The gates that are about to signal have let a vehicle through, too.     *)
TollOK ==
  \A l \in Lanes :
    count[l] + Pend(l) + Cardinality(Signals(l)) <= Cardinality(Passed(l))

Asked(v) == gpc[Gate[v]] \in {"plate", "valid"} /\ cur[Gate[v]] = v
InUds(v) == \E i \in 1..Len(uds[Gate[v]]) : uds[Gate[v]][i] = v
InUdp(v) == \E i \in 1..Len(udp) : udp[i].plate = Plate[v]
NoText(v) ==
  \A g \in Gates :
    /\ \A i \in 1..Len(raw[g]) : raw[g][i] # Plate[v]
    /\ gpc[g] = "valid" => ftText[g] # Plate[v]

UdsLaneOK ==
  \A g \in Gates : Len(uds[g]) <= 1 /\ \A i \in 1..Len(uds[g]) : Gate[uds[g][i]] = g
UdpOnceOK == \A i, k \in 1..Len(udp) : udp[i].plate = udp[k].plate => i = k

(* Where a vehicle's plate can be: at its gate only, on its way to FT only *)
(* while the gate waits, or among the texts for the gates.                 *)
PlateOK(v) ==
  /\ vpc[v] = "away" \/ InBacklog(v) \/ (AtGate(v) /\ gpc[Gate[v]] = "number") =>
       ~InUds(v) /\ ~InUdp(v) /\ NoText(v)
  /\ InUds(v) => Asked(v) /\ ~InUdp(v) /\ NoText(v)
  /\ InUdp(v) => Asked(v) /\ NoText(v)

RequestsOK == UdsLaneOK /\ UdpOnceOK /\ \A v \in Visits : PlateOK(v)

(* A step that leaves the listening ports alone and brings no vehicle to a *)
(* gate keeps every vehicle at its place.                                  *)
LEMMA PlaceSame ==
  ASSUME LaneOK, PlaceOK, UNCHANGED backlog,
         \A v \in Visits : vpc'[v] = "away" => vpc[v] = "away",
         \A v \in Visits : AtGate(v)' => AtGate(v),
         \A v \in Visits : gpc'[Gate[v]] \in Serving /\ gpc'[Gate[v]] # "signal" =>
                             gpc[Gate[v]] # "signal",
         \A v \in Visits : \/ answer'[v] = answer[v]
                           \/ AtGate(v) /\ (AtGate(v)' => gpc'[Gate[v]] = "signal")
  PROVE  LaneOK' /\ PlaceOK'
<1>1. LaneOK'
  BY DEF LaneOK
<1>2. \A v \in Visits : InBacklog(v)' <=> InBacklog(v)
  BY DEF InBacklog
<1>3. ASSUME NEW v \in Visits
      PROVE  /\ vpc'[v] = "away" => ~InBacklog(v)' /\ ~AtGate(v)' /\ answer'[v] = NoAnswer
             /\ InBacklog(v)' => ~AtGate(v)' /\ answer'[v] = NoAnswer
             /\ AtGate(v)' /\ gpc'[Gate[v]] # "signal" => answer'[v] = NoAnswer
  <2>1. CASE answer'[v] = answer[v]
    BY <1>2, <2>1 DEF PlaceOK, AtGate
  <2>2. CASE AtGate(v) /\ (AtGate(v)' => gpc'[Gate[v]] = "signal")
    BY <1>2, <2>2 DEF PlaceOK
  <2> QED
    BY <2>1, <2>2
<1> QED
  BY <1>1, <1>3 DEF PlaceOK

(* A vehicle drives up: it joins its lane.                                 *)
LEMMA PlaceConnect ==
  ASSUME TypeOK, QueuesOK, LaneOK, PlaceOK, NEW v \in Visits, VehicleConnect(v)
  PROVE  /\ LaneOK' /\ PlaceOK' /\ UNCHANGED <<gpc, cur>>
         /\ \A w \in Visits : w # v => (InBacklog(w)' <=> InBacklog(w))
         /\ ~AtGate(v) /\ vpc'[v] # "away"
<1> DEFINE a == Gate[v]
           b == Wheels[v]
           q == backlog[a][b]
<1>0. a \in Gates /\ b \in Lanes
  BY TollConstants
<1>1. /\ backlog \in [Gates -> [Lanes -> Seq(Visits)]] /\ q \in Seq(Visits)
      /\ Len(q) \in Nat
  BY <1>0, LenProperties DEF TypeOK
<1>2. /\ backlog' = [backlog EXCEPT ![a][b] = Append(q, v)]
      /\ UNCHANGED <<gpc, cur, answer>>
      /\ vpc[v] = "away" /\ vpc' = [vpc EXCEPT ![v] = "connected"]
  BY DEF VehicleConnect
<1>3. /\ backlog'[a][b] = Append(q, v)
      /\ \A g \in Gates, l \in Lanes : ~(g = a /\ l = b) => backlog'[g][l] = backlog[g][l]
  BY <1>0, <1>1, <1>2
<1>4. /\ Len(backlog'[a][b]) = Len(q) + 1 /\ backlog'[a][b][Len(q) + 1] = v
      /\ \A i \in 1..Len(q) : backlog'[a][b][i] = q[i]
      /\ \A i \in 1..Len(backlog'[a][b]) : i = Len(q) + 1 \/ i \in 1..Len(q)
  BY SMTT(30), <1>1, <1>3, AppendElements
<1>5. ~InBacklog(v) /\ ~AtGate(v) /\ answer[v] = NoAnswer
  BY <1>2 DEF PlaceOK
<1>6. \A i \in 1..Len(q) : q[i] # v
  BY <1>5 DEF InBacklog
<1> HIDE DEF q
<1>7. ASSUME NEW g \in Gates, NEW l \in Lanes
      PROVE  /\ \A i \in 1..Len(backlog'[g][l]) : Wheels[backlog'[g][l][i]] = l
             /\ \A i, k \in 1..Len(backlog'[g][l]) :
                  backlog'[g][l][i] = backlog'[g][l][k] => i = k
  <2>1. CASE g = a /\ l = b
    <3>1. /\ \A i \in 1..Len(q) : Wheels[q[i]] = b
          /\ \A i, k \in 1..Len(q) : q[i] = q[k] => i = k
      BY <1>0 DEF LaneOK, q
    <3> QED
      BY SMTT(30), <1>4, <1>6, <2>1, <3>1
  <2>2. CASE ~(g = a /\ l = b)
    BY <1>3, <2>2 DEF LaneOK
  <2> QED
    BY <2>1, <2>2
<1>8. LaneOK'
  BY <1>7 DEF LaneOK
<1>9. ASSUME NEW w \in Visits, w # v PROVE InBacklog(w)' <=> InBacklog(w)
  <2>0. Gate[w] \in Gates /\ Wheels[w] \in Lanes
    BY TollConstants
  <2>1. CASE Gate[w] = a /\ Wheels[w] = b
    <3>1. InBacklog(w) <=> \E i \in 1..Len(q) : q[i] = w
      BY <2>1 DEF InBacklog, q
    <3>2. InBacklog(w)' <=> \E i \in 1..Len(backlog'[a][b]) : backlog'[a][b][i] = w
      BY <2>1 DEF InBacklog
    <3> QED
      BY SMTT(30), <1>1, <1>4, <1>9, <3>1, <3>2
  <2>2. CASE ~(Gate[w] = a /\ Wheels[w] = b)
    BY <1>3, <2>0, <2>2 DEF InBacklog
  <2> QED
    BY <2>1, <2>2
<1>10. \A w \in Visits : AtGate(w)' <=> AtGate(w)
  BY <1>2 DEF AtGate
<1>11. PlaceOK'
  BY <1>2, <1>5, <1>9, <1>10 DEF PlaceOK, TypeOK
<1> QED
  BY <1>2, <1>5, <1>8, <1>9, <1>11 DEF TypeOK

(* accept: the first vehicle of the lane moves to the gate.                *)
LEMMA PlaceAccept ==
  ASSUME TypeOK, QueuesOK, LaneOK, PlaceOK, NEW g \in Gates, GateAccept(g)
  PROVE  /\ LaneOK' /\ PlaceOK' /\ UNCHANGED <<vpc, answer>>
         /\ gpc[g] = "scan" /\ gpc' = [gpc EXCEPT ![g] = "number"]
         /\ \E v \in Visits :
              /\ cur' = [cur EXCEPT ![g] = v] /\ Gate[v] = g
              /\ InBacklog(v) /\ ~InBacklog(v)'
              /\ \A w \in Visits : w # v => (InBacklog(w)' <=> InBacklog(w))
<1>1. PICK l \in revents[g] : GateAccept(g)!2!(l)
  BY DEF GateAccept
<1> DEFINE q == backlog[g][l]
<1>2. l \in Lanes /\ backlog \in [Gates -> [Lanes -> Seq(Visits)]]
      /\ q \in Seq(Visits) /\ q # <<>> /\ Len(q) \in Nat
  BY <1>1, LenProperties DEF TypeOK
<1>v. PICK v \in Visits : v = Head(q)
  BY <1>2, TailElements
<1>3. /\ Len(q) > 0 /\ v = q[1] /\ v \in Visits
      /\ Len(Tail(q)) = Len(q) - 1
      /\ \A i \in 1..Len(Tail(q)) : i + 1 \in 1..Len(q) /\ Tail(q)[i] = q[i + 1]
  BY <1>2, <1>v, TailElements
<1>4. /\ cur' = [cur EXCEPT ![g] = v]
      /\ gpc[g] = "scan" /\ gpc' = [gpc EXCEPT ![g] = "number"]
      /\ backlog' = [backlog EXCEPT ![g][l] = Tail(q)]
      /\ UNCHANGED <<vpc, answer>>
  BY <1>1, <1>v DEF GateAccept
<1>5. /\ backlog'[g][l] = Tail(q)
      /\ \A h \in Gates, k \in Lanes : ~(h = g /\ k = l) => backlog'[h][k] = backlog[h][k]
  BY <1>2, <1>4
<1>6. /\ \A i \in 1..Len(q) : Wheels[q[i]] = l /\ Gate[q[i]] = g /\ Here(q[i])
      /\ \A i, k \in 1..Len(q) : q[i] = q[k] => i = k
  BY <1>2 DEF LaneOK, QueuesOK, BacklogOK
<1>7. 1 \in 1..Len(q) /\ \A i \in 1..Len(Tail(q)) : i \in Int /\ i + 1 # 1
  BY <1>2, <1>3
<1>8. Wheels[v] = l /\ Gate[v] = g /\ Here(v)
  BY <1>3, <1>6, <1>7
<1> HIDE DEF q
<1>9. InBacklog(v)
  BY <1>3, <1>7, <1>8 DEF InBacklog, q
<1>10. \A i \in 1..Len(Tail(q)) : Tail(q)[i] # v
  BY <1>3, <1>6, <1>7
<1>11. ~InBacklog(v)'
  <2>1. InBacklog(v)' <=> \E i \in 1..Len(backlog'[g][l]) : backlog'[g][l][i] = v
    BY <1>8 DEF InBacklog
  <2> QED
    BY <1>5, <1>10, <2>1
<1>12. ASSUME NEW w \in Visits, w # v PROVE InBacklog(w)' <=> InBacklog(w)
  <2>0. Gate[w] \in Gates /\ Wheels[w] \in Lanes
    BY TollConstants
  <2>1. CASE Gate[w] = g /\ Wheels[w] = l
    <3>1. ASSUME InBacklog(w) PROVE InBacklog(w)'
      <4>1. PICK i \in 1..Len(q) : q[i] = w
        BY <2>1, <3>1 DEF InBacklog, q
      <4>2. i # 1 /\ i - 1 \in 1..Len(Tail(q)) /\ (i - 1) + 1 = i
        BY <1>2, <1>3, <1>12, <4>1
      <4>3. Tail(q)[i - 1] = w
        BY <1>3, <4>1, <4>2
      <4> QED
        BY <1>5, <2>1, <4>2, <4>3 DEF InBacklog
    <3>2. ASSUME InBacklog(w)' PROVE InBacklog(w)
      <4>1. PICK i \in 1..Len(Tail(q)) : Tail(q)[i] = w
        BY <1>5, <2>1, <3>2 DEF InBacklog
      <4> QED
        BY <1>3, <2>1, <4>1 DEF InBacklog, q
    <3> QED
      BY <3>1, <3>2
  <2>2. CASE ~(Gate[w] = g /\ Wheels[w] = l)
    BY <1>5, <2>0, <2>2 DEF InBacklog
  <2> QED
    BY <2>1, <2>2
<1>13. LaneOK'
  <2> SUFFICES ASSUME NEW h \in Gates, NEW k \in Lanes
               PROVE  /\ \A i \in 1..Len(backlog'[h][k]) : Wheels[backlog'[h][k][i]] = k
                      /\ \A i, n \in 1..Len(backlog'[h][k]) :
                           backlog'[h][k][i] = backlog'[h][k][n] => i = n
    BY DEF LaneOK
  <2>1. CASE h = g /\ k = l
    <3>1. \A i \in 1..Len(Tail(q)) : Wheels[Tail(q)[i]] = l
      BY <1>3, <1>6
    <3>2. ASSUME NEW i \in 1..Len(Tail(q)), NEW n \in 1..Len(Tail(q)),
                 Tail(q)[i] = Tail(q)[n]
          PROVE  i = n
      <4>1. i + 1 = n + 1
        BY <1>3, <1>6, <3>2
      <4> QED
        BY <1>7, <4>1
    <3>3. backlog'[h][k] = Tail(q)
      BY <1>5, <2>1
    <3> QED
      BY <2>1, <3>1, <3>2, <3>3
  <2>2. CASE ~(h = g /\ k = l)
    BY SMTT(30), <1>5, <2>2 DEF LaneOK
  <2> QED
    BY <2>1, <2>2
<1>14. PlaceOK'
  <2>1. \A w \in Visits : w # v => (AtGate(w)' => AtGate(w))
    BY <1>4, <1>8 DEF AtGate, TypeOK
  <2>2. ASSUME NEW w \in Visits
        PROVE  /\ vpc'[w] = "away" => ~InBacklog(w)' /\ ~AtGate(w)' /\ answer'[w] = NoAnswer
               /\ InBacklog(w)' => ~AtGate(w)' /\ answer'[w] = NoAnswer
               /\ AtGate(w)' /\ gpc'[Gate[w]] # "signal" => answer'[w] = NoAnswer
    <3>1. CASE w = v
      <4>1. answer[v] = NoAnswer /\ vpc[v] # "away"
        BY <1>3, <1>8, <1>9 DEF PlaceOK, Here
      <4> QED
        BY <1>4, <1>11, <3>1, <4>1
    <3>2. CASE w # v /\ ~AtGate(w)'
      BY <1>4, <1>12, <3>2 DEF PlaceOK
    <3>3. CASE w # v /\ AtGate(w)'
      <4>1. AtGate(w) /\ Gate[w] # g
        BY <1>4, <2>1, <3>3 DEF AtGate, TypeOK
      <4>2. gpc'[Gate[w]] = gpc[Gate[w]]
        BY <1>4, <4>1, TollConstants DEF TypeOK
      <4> QED
        BY <1>4, <1>12, <3>3, <4>1, <4>2 DEF PlaceOK
    <3> QED
      BY <3>1, <3>2, <3>3
  <2> QED
    BY <2>2 DEF PlaceOK
<1>15. v \in Visits
  BY <1>3
<1>16. /\ cur' = [cur EXCEPT ![g] = v] /\ Gate[v] = g
       /\ InBacklog(v) /\ ~InBacklog(v)'
       /\ \A w \in Visits : w # v => (InBacklog(w)' <=> InBacklog(w))
  BY <1>4, <1>8, <1>9, <1>11, <1>12
<1> QED
  BY <1>4, <1>13, <1>14, <1>15, <1>16

(* Every step keeps each vehicle at one place.                             *)
LEMMA PlaceStep ==
  ASSUME TypeOK, QueuesOK, LaneOK, PlaceOK, [Next]_vars
  PROVE  LaneOK' /\ PlaceOK'
<1> USE TollConstants
<1>1. CASE UNCHANGED <<backlog, gpc, cur, answer>>
           /\ \A v \in Visits : vpc'[v] = "away" => vpc[v] = "away"
  BY <1>1, PlaceSame DEF AtGate
<1>2. ASSUME NEW v \in Visits, VehicleStep(v) PROVE LaneOK' /\ PlaceOK'
  <2>1. CASE VehicleConnect(v)
    BY <2>1, PlaceConnect
  <2>2. CASE VehicleSend(v)
    BY <2>2, <1>1 DEF VehicleSend, TypeOK
  <2>3. CASE VehicleLeave(v)
    BY <2>3, <1>1 DEF VehicleLeave, TypeOK
  <2> QED
    BY <1>2, <2>1, <2>2, <2>3 DEF VehicleStep
<1>3. ASSUME NEW g \in Gates, GateStep(g) PROVE LaneOK' /\ PlaceOK'
  <2>1. CASE GatePoll(g)
    BY <2>1, PlaceSame DEF GatePoll, AtGate, Serving, TypeOK
  <2>2. CASE GateAccept(g)
    BY <2>2, PlaceAccept
  <2>3. CASE GateForward(g)
    BY <2>3, PlaceSame DEF GateForward, AtGate, Serving, TypeOK
  <2>4. CASE GateRecvPlate(g)
    BY <2>4, PlaceSame DEF GateRecvPlate, AtGate, Serving, TypeOK
  <2>5. CASE GateRecvValid(g)
    <3>1. /\ gpc[g] = "valid" /\ UNCHANGED <<vpc, cur, backlog>>
          /\ \A h \in Gates : h # g => gpc'[h] = gpc[h]
          /\ gpc'[g] = "plate" \/ gpc'[g] \notin Serving \/ gpc'[g] = "signal"
          /\ gpc'[g] = "plate" => answer' = answer
          /\ \A v \in Visits : v # cur[g] => answer'[v] = answer[v]
      BY <2>5 DEF GateRecvValid, NextLane, Serving, TypeOK
    <3>2. cur[g] \in Visits /\ Gate[cur[g]] = g
      BY <3>1 DEF QueuesOK, ServingOK, Serving, Here
    <3>3. \A v \in Visits : AtGate(v)' => AtGate(v)
      BY <3>1 DEF AtGate, Serving
    <3>4. \A v \in Visits : \/ answer'[v] = answer[v]
                            \/ AtGate(v) /\ (AtGate(v)' => gpc'[Gate[v]] = "signal")
      BY <3>1, <3>2 DEF AtGate, Serving
    <3>5. \A v \in Visits : gpc'[Gate[v]] \in Serving /\ gpc'[Gate[v]] # "signal" =>
                              gpc[Gate[v]] # "signal"
      BY <3>1
    <3> QED
      BY <3>1, <3>3, <3>4, <3>5, PlaceSame
  <2>6. CASE GateSignal(g)
    BY <2>6, PlaceSame DEF GateSignal, NextLane, AtGate, Serving, TypeOK
  <2> QED
    BY <1>3, <2>1, <2>2, <2>3, <2>4, <2>5, <2>6 DEF GateStep
<1>4. CASE TMStep \/ (\E l \in Lanes : TMCount(l)) \/ FTStep \/ UNCHANGED vars
  BY <1>4, <1>1 DEF TMStep, TMPoll, TMRelay, TMCount, FTStep, FTRecv, FTVerdict
<1> QED
  BY <1>2, <1>3, <1>4, GatePrograms DEF Next, Idle

(* The sets that are counted are finite.                                   *)
LEMMA CountedFinite ==
  ASSUME NEW l \in Lanes
  PROVE  /\ IsFiniteSet(Signals(l)) /\ Cardinality(Signals(l)) \in Nat
         /\ IsFiniteSet(Passed(l)) /\ Cardinality(Passed(l)) \in Nat
<1>1. IsFiniteSet(Gates)
  BY TollConstants, FS_Interval DEF Gates
<1>2. IsFiniteSet(Signals(l))
  BY <1>1, FS_Subset DEF Signals
<1>3. IsFiniteSet(Passed(l))
  BY TollConstants, FS_Subset DEF Passed
<1> QED
  BY <1>2, <1>3, FS_CardinalityType

(* A step that lets no vehicle through and delivers no signal.             *)
LEMMA TollSame ==
  ASSUME TollOK, UNCHANGED <<count, pending>>,
         \A v \in Visits : answer'[v] \in {NoAnswer, 0} <=> answer[v] \in {NoAnswer, 0},
         \A g \in Gates : gpc'[g] = "signal" <=> gpc[g] = "signal",
         \A g \in Gates : gpc[g] = "signal" => cur'[g] = cur[g]
  PROVE  TollOK'
<1> SUFFICES ASSUME NEW l \in Lanes
             PROVE  count'[l] + Pend(l)' + Cardinality(Signals(l)') <= Cardinality(Passed(l)')
  BY DEF TollOK
<1>1. Signals(l)' = Signals(l)
  BY DEF Signals
<1>2. Passed(l)' = Passed(l)
  BY DEF Passed
<1>3. Pend(l)' = Pend(l)
  BY DEF Pend
<1>4. count'[l] = count[l]
  OBVIOUS
<1> QED
  BY <1>1, <1>2, <1>3, <1>4 DEF TollOK

(* A gate answers its vehicle with a valid verdict: one more vehicle is    *)
(* through, and one more signal is due.                                    *)
LEMMA TollAnswer ==
  ASSUME TypeOK, QueuesOK, PlaceOK, TollOK, NEW g \in Gates, GateRecvValid(g),
         gpc'[g] = "signal"
  PROVE  TollOK'
<1> DEFINE v == cur[g]
<1>1. /\ gpc[g] = "valid" /\ raw[g] # <<>>
      /\ UNCHANGED <<cur, count, pending>>
  BY DEF GateRecvValid
<1>2. v \in Visits /\ Gate[v] = g
  BY <1>1 DEF QueuesOK, ServingOK, Serving, Here
<1>3. Head(raw[g]) \in Nat
  BY <1>1, TailElements DEF TypeOK
<1>4. /\ ftText[g] = Plate[v] /\ Head(raw[g]) # 0
      /\ answer' = [answer EXCEPT ![v] = Head(raw[g])]
      /\ gpc' = [gpc EXCEPT ![g] = "signal"]
  BY <1>1 DEF GateRecvValid, NextLane, TypeOK
<1>5. answer[v] = NoAnswer
  BY <1>1, <1>2 DEF PlaceOK, AtGate, Serving
<1>6. answer'[v] \notin {NoAnswer, 0} /\ \A w \in Visits : w # v => answer'[w] = answer[w]
  BY <1>2, <1>3, <1>4 DEF TypeOK, NoAnswer
<1>7. gpc'[g] = "signal" /\ \A h \in Gates : h # g => gpc'[h] = gpc[h]
  BY <1>4 DEF TypeOK
<1> SUFFICES ASSUME NEW l \in Lanes
             PROVE  count'[l] + Pend(l)' + Cardinality(Signals(l)') <= Cardinality(Passed(l)')
  BY DEF TollOK
<1>8. count'[l] = count[l] /\ Pend(l)' = Pend(l) /\ count[l] \in Nat /\ Pend(l) \in Nat
  BY <1>1 DEF Pend, TypeOK
<1>9. count[l] + Pend(l) + Cardinality(Signals(l)) <= Cardinality(Passed(l))
  BY DEF TollOK
<1>10. CASE Wheels[v] = l
  <2>1. Signals(l)' = Signals(l) \cup {g} /\ g \notin Signals(l)
    BY <1>1, <1>7, <1>10 DEF Signals
  <2>2. Passed(l)' = Passed(l) \cup {v} /\ v \notin Passed(l)
    BY <1>2, <1>5, <1>6, <1>10 DEF Passed
  <2>3. /\ Cardinality(Signals(l)') = Cardinality(Signals(l)) + 1
        /\ Cardinality(Passed(l)') = Cardinality(Passed(l)) + 1
    BY <2>1, <2>2, CountedFinite, FS_AddElement
  <2> QED
    BY <1>8, <1>9, <2>3, CountedFinite
<1>11. CASE Wheels[v] # l
  <2>1. Signals(l)' = Signals(l)
    BY <1>1, <1>7, <1>11 DEF Signals
  <2>2. Passed(l)' = Passed(l)
    BY <1>6, <1>11 DEF Passed
  <2> QED
    BY <1>8, <1>9, <2>1, <2>2
<1> QED
  BY <1>10, <1>11

(* kill: the gate's own signal becomes a pending one, or is merged.        *)
LEMMA TollSignal ==
  ASSUME TypeOK, QueuesOK, TollOK, NEW g \in Gates, GateSignal(g)
  PROVE  TollOK'
<1>1. /\ gpc[g] = "signal" /\ gpc'[g] # "signal"
      /\ \A h \in Gates : h # g => gpc'[h] = gpc[h]
      /\ pending' = pending \cup {Wheels[cur[g]]}
      /\ UNCHANGED <<cur, count, answer>>
  BY DEF GateSignal, NextLane, TypeOK
<1> SUFFICES ASSUME NEW l \in Lanes
             PROVE  count'[l] + Pend(l)' + Cardinality(Signals(l)') <= Cardinality(Passed(l)')
  BY DEF TollOK
<1>2. count'[l] = count[l] /\ count[l] \in Nat /\ Pend(l) \in {0, 1} /\ Pend(l)' \in {0, 1}
  BY <1>1 DEF Pend, TypeOK
<1>3. count[l] + Pend(l) + Cardinality(Signals(l)) <= Cardinality(Passed(l))
  BY DEF TollOK
<1>4. Passed(l)' = Passed(l)
  BY <1>1 DEF Passed
<1>5. CASE Wheels[cur[g]] = l
  <2>1. Signals(l)' = Signals(l) \ {g} /\ g \in Signals(l)
    BY <1>1, <1>5 DEF Signals
  <2>2. Cardinality(Signals(l)') = Cardinality(Signals(l)) - 1
    BY <2>1, CountedFinite, FS_RemoveElement
  <2> QED
    BY <1>2, <1>3, <1>4, <2>2, CountedFinite
<1>6. CASE Wheels[cur[g]] # l
  <2>1. Signals(l)' = Signals(l)
    BY <1>1, <1>6 DEF Signals
  <2>2. Pend(l)' = Pend(l)
    BY <1>1, <1>6 DEF Pend
  <2> QED
    BY <1>2, <1>3, <1>4, <2>1, <2>2
<1> QED
  BY <1>5, <1>6

(* A handler runs: the pending signal becomes a count.                     *)
LEMMA TollCount ==
  ASSUME TypeOK, TollOK, NEW k \in Lanes, TMCount(k)
  PROVE  TollOK'
<1>1. /\ k \in pending /\ pending' = pending \ {k}
      /\ count' = [count EXCEPT ![k] = @ + 1]
      /\ UNCHANGED <<cur, gpc, answer>>
  BY DEF TMCount
<1> SUFFICES ASSUME NEW l \in Lanes
             PROVE  count'[l] + Pend(l)' + Cardinality(Signals(l)') <= Cardinality(Passed(l)')
  BY DEF TollOK
<1>2. Signals(l)' = Signals(l) /\ Passed(l)' = Passed(l)
  BY <1>1 DEF Signals, Passed
<1>3. count'[l] + Pend(l)' = count[l] + Pend(l)
  BY <1>1 DEF Pend, TypeOK
<1>4. count[l] + Pend(l) + Cardinality(Signals(l)) <= Cardinality(Passed(l))
  BY DEF TollOK
<1> QED
  BY <1>2, <1>3, <1>4

(* Every step keeps the counters within the vehicles let through.          *)
LEMMA TollStep ==
  ASSUME TypeOK, QueuesOK, PlaceOK, TollOK, [Next]_vars
  PROVE  TollOK'
<1>1. CASE UNCHANGED <<count, pending, answer, gpc, cur>>
  BY <1>1, TollSame
<1>2. ASSUME NEW v \in Visits, VehicleStep(v) PROVE TollOK'
  BY <1>1, <1>2 DEF VehicleStep, VehicleConnect, VehicleSend, VehicleLeave
<1>3. ASSUME NEW g \in Gates, GateStep(g) PROVE TollOK'
  <2>1. CASE GatePoll(g)
    BY <2>1, TollSame DEF GatePoll, TypeOK
  <2>2. CASE GateAccept(g)
    BY <2>2, TollSame DEF GateAccept, TypeOK
  <2>3. CASE GateForward(g)
    BY <2>3, TollSame DEF GateForward, TypeOK
  <2>4. CASE GateRecvPlate(g)
    BY <2>4, TollSame DEF GateRecvPlate, TypeOK
  <2>5. CASE GateRecvValid(g) /\ gpc'[g] = "signal"
    BY <2>5, TollAnswer
  <2>6. CASE GateRecvValid(g) /\ gpc'[g] # "signal"
    <3>1. /\ gpc[g] = "valid" /\ UNCHANGED <<cur, count, pending>>
          /\ \A h \in Gates : gpc'[h] = "signal" <=> gpc[h] = "signal"
          /\ \A v \in Visits : v # cur[g] => answer'[v] = answer[v]
          /\ answer'[cur[g]] = answer[cur[g]] \/ answer'[cur[g]] = 0
      BY <2>6 DEF GateRecvValid, TypeOK
    <3>2. cur[g] \in Visits /\ answer[cur[g]] = NoAnswer
      BY <3>1 DEF QueuesOK, ServingOK, Serving, Here, PlaceOK, AtGate
    <3> QED
      BY <3>1, <3>2, TollSame
  <2>7. CASE GateSignal(g)
    BY <2>7, TollSignal
  <2> QED
    BY <1>3, <2>1, <2>2, <2>3, <2>4, <2>5, <2>6, <2>7 DEF GateStep
<1>4. ASSUME NEW l \in Lanes, TMCount(l) PROVE TollOK'
  BY <1>4, TollCount
<1>5. CASE TMStep \/ FTStep \/ UNCHANGED vars
  BY <1>5, <1>1 DEF TMStep, TMPoll, TMRelay, FTStep, FTRecv, FTVerdict
<1> QED
  BY <1>2, <1>3, <1>4, <1>5, GatePrograms DEF Next, Idle

TollInv == TypeOK /\ QueuesOK /\ LaneOK /\ PlaceOK /\ TollOK

(* The plaza opens with nobody on it.                                      *)
LEMMA InitToll == Init => TollInv
<1> SUFFICES ASSUME Init PROVE TollInv
  OBVIOUS
<1>1. TypeOK /\ QueuesOK
  BY InitOK DEF IInv
<1>2. LaneOK
  BY DEF Init, LaneOK
<1>3. PlaceOK
  BY TollConstants DEF Init, PlaceOK, InBacklog, AtGate, Serving
<1>4. TollOK
  <2> SUFFICES ASSUME NEW l \in Lanes
               PROVE  count[l] + Pend(l) + Cardinality(Signals(l)) <= Cardinality(Passed(l))
    BY DEF TollOK
  <2>1. Signals(l) = {} /\ Passed(l) = {} /\ count[l] = 0 /\ Pend(l) = 0
    BY DEF Init, Signals, Passed, Pend
  <2> QED
    BY <2>1, FS_EmptySet
<1> QED
  BY <1>1, <1>2, <1>3, <1>4 DEF TollInv

(* With pending and due signals on the left, the counters stay within the  *)
(* vehicles let through; so they do without the due ones.                  *)
LEMMA TollCounts ==
  ASSUME TypeOK, TollOK PROVE CountNeverExceeds
<1> SUFFICES ASSUME NEW l \in Lanes PROVE count[l] + Pend(l) <= Cardinality(Passed(l))
  BY DEF CountNeverExceeds, Pend
<1>1. count[l] \in Nat /\ Pend(l) \in Nat
  BY DEF TypeOK, Pend
<1>2. count[l] + Pend(l) + Cardinality(Signals(l)) <= Cardinality(Passed(l))
  BY DEF TollOK
<1> QED
  BY <1>1, <1>2, CountedFinite

(* The manager never counts a vehicle that was turned away, whatever the   *)
(* plates are, whatever is lost and however the two signals merge: its     *)
(* counters and pending signals stay within the vehicles let through.      *)
THEOREM CountsNeverExceed == Spec => []CountNeverExceeds
<1>1. Init => TollInv
  BY InitToll
<1>2. TollInv /\ [Next]_vars => TollInv'
  BY TypeStep, QueuesStep, PlaceStep, TollStep DEF TollInv
<1>3. TollInv => CountNeverExceeds
  BY TollCounts DEF TollInv
<1> QED
  BY <1>1, <1>2, <1>3, PTL DEF Spec

-----------------------------------------------------------------------------
(* Requests                                                                *)

(* The vehicles whose plate has not been sent on.                          *)
Before(v) ==
  vpc[v] = "away" \/ InBacklog(v) \/ (AtGate(v) /\ gpc[Gate[v]] = "number")

(* What keeps the plate of v where it may be.                              *)
LEMMA PlateSame ==
  ASSUME NEW v \in Visits, PlateOK(v),
         Before(v)' => Before(v), InUds(v)' => InUds(v), InUdp(v)' => InUdp(v),
         NoText(v) => NoText(v)',
         Asked(v) => Asked(v)' \/ (~InUds(v) /\ ~InUdp(v))
  PROVE  PlateOK(v)'
  BY DEF PlateOK, Before

(* A step that touches neither requests nor texts, takes no gate out of    *)
(* its wait and brings no vehicle back.                                    *)
LEMMA RequestsSame ==
  ASSUME RequestsOK, UNCHANGED <<uds, udp, raw, ftText>>,
         \A v \in Visits : Before(v)' => Before(v),
         \A v \in Visits : Asked(v) => Asked(v)',
         \A g \in Gates : gpc'[g] = "valid" => gpc[g] = "valid"
  PROVE  RequestsOK'
<1>1. UdsLaneOK' /\ UdpOnceOK'
  BY DEF RequestsOK, UdsLaneOK, UdpOnceOK
<1>2. ASSUME NEW v \in Visits PROVE PlateOK(v)'
  <2>1. (InUds(v)' => InUds(v)) /\ (InUdp(v)' => InUdp(v))
    BY DEF InUds, InUdp
  <2>2. NoText(v) => NoText(v)'
    BY DEF NoText
  <2> QED
    BY <2>1, <2>2, PlateSame DEF RequestsOK
<1> QED
  BY <1>1, <1>2 DEF RequestsOK

(* A queue that waits at the manager belongs to a gate that waits.         *)
LEMMA WaitingQueue ==
  ASSUME TypeOK, RequestsOK, NEW g \in Gates, uds[g] # <<>>
  PROVE  /\ Len(uds[g]) = 1 /\ uds[g][1] = Head(uds[g]) /\ Head(uds[g]) \in Visits
         /\ Gate[Head(uds[g])] = g /\ InUds(Head(uds[g])) /\ Asked(Head(uds[g]))
         /\ Len(Tail(uds[g])) = 0
<1>1. /\ Len(uds[g]) > 0 /\ uds[g][1] = Head(uds[g]) /\ Head(uds[g]) \in Visits
      /\ Len(Tail(uds[g])) = Len(uds[g]) - 1 /\ Len(uds[g]) \in Nat
  BY TailElements, LenProperties DEF TypeOK
<1>2. Len(uds[g]) <= 1 /\ \A i \in 1..Len(uds[g]) : Gate[uds[g][i]] = g
  BY DEF RequestsOK, UdsLaneOK
<1>3. Len(uds[g]) = 1 /\ 1 \in 1..Len(uds[g])
  <2> DEFINE n == Len(uds[g])
  <2>1. n \in Nat /\ n > 0 /\ n <= 1
    BY <1>1, <1>2
  <2> HIDE DEF n
  <2>2. n = 1 /\ 1 \in 1..n
    BY <2>1
  <2> QED
    BY <2>2 DEF n
<1>4. Gate[Head(uds[g])] = g
  BY <1>1, <1>2, <1>3
<1>5. InUds(Head(uds[g]))
  BY <1>1, <1>3, <1>4 DEF InUds
<1>6. Asked(Head(uds[g]))
  BY <1>1, <1>5 DEF RequestsOK, PlateOK
<1> QED
  BY <1>1, <1>3, <1>4, <1>5, <1>6

(* A broadcast text other than the plate of w.                             *)
LEMMA BroadcastOther ==
  ASSUME TypeOK, NEW text \in Nat, Broadcast(text), UNCHANGED <<gpc, ftText>>,
         NEW w \in Visits, Plate[w] # text, NoText(w)
  PROVE  NoText(w)'
<1> SUFFICES ASSUME NEW g \in Gates
             PROVE  /\ \A i \in 1..Len(raw'[g]) : raw'[g][i] # Plate[w]
                    /\ gpc'[g] = "valid" => ftText'[g] # Plate[w]
  BY DEF NoText
<1>1. raw[g] \in Seq(Nat) /\ Len(raw[g]) \in Nat
  BY LenProperties DEF TypeOK
<1>2. \A i \in 1..Len(raw[g]) : raw[g][i] # Plate[w]
  BY DEF NoText
<1>3. raw'[g] = raw[g] \/ raw'[g] = Append(raw[g], text)
  BY DEF Broadcast
<1>4. \A i \in 1..Len(raw'[g]) : raw'[g][i] # Plate[w]
  <2>1. CASE raw'[g] = raw[g]
    BY <1>2, <2>1
  <2>2. CASE raw'[g] = Append(raw[g], text)
    BY <1>1, <1>2, <2>2, AppendElements
  <2> QED
    BY <1>3, <2>1, <2>2
<1> QED
  BY <1>4 DEF NoText

(* A gate that reads a text has one text less to read.                     *)
LEMMA ReadText ==
  ASSUME TypeOK, NEW g \in Gates, raw[g] # <<>>, raw' = [raw EXCEPT ![g] = Tail(@)],
         NEW w \in Visits, NoText(w)
  PROVE  /\ \A h \in Gates : \A i \in 1..Len(raw'[h]) : raw'[h][i] # Plate[w]
         /\ Head(raw[g]) # Plate[w]
<1>1. /\ Len(raw[g]) > 0 /\ Head(raw[g]) = raw[g][1] /\ Len(raw[g]) \in Nat
      /\ \A i \in 1..Len(Tail(raw[g])) :
           i + 1 \in 1..Len(raw[g]) /\ Tail(raw[g])[i] = raw[g][i + 1]
  BY TailElements, LenProperties DEF TypeOK
<1>2. \A h \in Gates : \A i \in 1..Len(raw[h]) : raw[h][i] # Plate[w]
  BY DEF NoText
<1>3. raw'[g] = Tail(raw[g]) /\ \A h \in Gates : h # g => raw'[h] = raw[h]
  BY DEF TypeOK
<1>4. 1 \in 1..Len(raw[g])
  BY <1>1
<1>5. \A i \in 1..Len(raw'[g]) : raw'[g][i] # Plate[w]
  BY <1>1, <1>2, <1>3
<1> QED
  BY <1>1, <1>2, <1>3, <1>4, <1>5

(* The plate leaves the gate: before that its vehicle is nowhere else.     *)
LEMMA RequestForward ==
  ASSUME TypeOK, QueuesOK, PlaceOK, RequestsOK, NEW g \in Gates, GateForward(g)
  PROVE  RequestsOK'
<1>0. PICK c \in Visits : c = cur[g] /\ Gate[c] = g
  BY DEF GateForward, QueuesOK, ServingOK, Serving, Here
<1>1. /\ gpc[g] = "number" /\ vpc[c] = "sent"
      /\ uds' = [uds EXCEPT ![g] = Append(@, c)]
      /\ gpc' = [gpc EXCEPT ![g] = "plate"]
      /\ UNCHANGED <<cur, udp, raw, ftText, vpc, backlog>>
  BY <1>0 DEF GateForward
<1>2. AtGate(c) /\ ~InBacklog(c) /\ ~Asked(c)
  BY <1>0, <1>1 DEF AtGate, Serving, PlaceOK, Asked
<1>3. ~InUds(c) /\ ~InUdp(c) /\ NoText(c)
  BY <1>0, <1>1, <1>2 DEF RequestsOK, PlateOK
<1>4. uds[g] = <<>>
  <2> SUFFICES ASSUME uds[g] # <<>> PROVE FALSE
    OBVIOUS
  <2> QED
    BY <1>1, WaitingQueue DEF Asked
<1>5. uds'[g] = <<c>> /\ \A h \in Gates : h # g => uds'[h] = uds[h]
  BY <1>1, <1>4, OneElement DEF TypeOK
<1>6. Len(uds'[g]) = 1 /\ uds'[g][1] = c
  BY <1>5
<1>7. UdsLaneOK' /\ UdpOnceOK'
  BY <1>0, <1>1, <1>5, <1>6 DEF RequestsOK, UdsLaneOK, UdpOnceOK
<1>8. \A w \in Visits : (InUdp(w)' <=> InUdp(w)) /\ (InBacklog(w)' <=> InBacklog(w))
  BY <1>1 DEF InUdp, InBacklog
<1>9. gpc'[g] = "plate" /\ \A h \in Gates : h # g => gpc'[h] = gpc[h]
  BY <1>1 DEF TypeOK
<1>10. \A w \in Visits : NoText(w) => NoText(w)'
  BY <1>1, <1>9 DEF NoText
<1>11. ASSUME NEW w \in Visits PROVE PlateOK(w)'
  <2>1. CASE w = c
    <3>1. ~Before(w)' /\ Asked(w)'
      BY <1>0, <1>1, <1>2, <1>8, <1>9, <2>1 DEF Before, Asked
    <3> QED
      BY <1>3, <1>8, <1>10, <2>1, <3>1 DEF PlateOK, Before
  <2>2. CASE w # c
    <3>0. Gate[w] \in Gates
      BY TollConstants
    <3>1. InUds(w)' => InUds(w)
      BY <1>5, <1>6, <2>2, <3>0 DEF InUds
    <3>2. Before(w)' => Before(w)
      BY <1>1, <1>8, <1>9, <3>0 DEF Before, AtGate, Serving
    <3>3. Asked(w) => Asked(w)'
      BY <1>1, <1>9, <3>0 DEF Asked
    <3> QED
      BY <1>8, <1>10, <3>1, <3>2, <3>3, PlateSame DEF RequestsOK
  <2> QED
    BY <2>1, <2>2
<1> QED
  BY <1>7, <1>11 DEF RequestsOK

(* Reading a pair: only the vehicle at the gate can be answered by it, and *)
(* its request is then no longer under way.                                *)
LEMMA RequestRead ==
  ASSUME TypeOK, QueuesOK, RequestsOK, NEW g \in Gates,
         GateRecvPlate(g) \/ GateRecvValid(g)
  PROVE  RequestsOK'
<1> USE TollConstants
<1>1. /\ raw[g] # <<>> /\ raw' = [raw EXCEPT ![g] = Tail(@)]
      /\ UNCHANGED <<cur, vpc, backlog, uds, udp>>
      /\ \A h \in Gates : h # g => gpc'[h] = gpc[h] /\ ftText'[h] = ftText[h]
      /\ gpc[g] \in {"plate", "valid"} /\ gpc'[g] # "number"
      /\ gpc'[g] = "valid" => ftText'[g] = Head(raw[g])
      /\ gpc'[g] \in {"plate", "valid"} \/ (gpc[g] = "valid" /\ ftText[g] = Plate[cur[g]])
  BY ZenonT(40) DEF GateRecvPlate, GateRecvValid, NextLane, TypeOK
<1>2. UdsLaneOK' /\ UdpOnceOK'
  BY <1>1 DEF RequestsOK, UdsLaneOK, UdpOnceOK
<1>3. ASSUME NEW w \in Visits PROVE PlateOK(w)'
  <2>1. (InUds(w)' <=> InUds(w)) /\ (InUdp(w)' <=> InUdp(w)) /\ (InBacklog(w)' <=> InBacklog(w))
    BY <1>1 DEF InUds, InUdp, InBacklog
  <2>2. Before(w)' => Before(w)
    BY <1>1, <2>1 DEF Before, AtGate, Serving
  <2>3. NoText(w) => NoText(w)'
    <3> SUFFICES ASSUME NoText(w) PROVE NoText(w)'
      OBVIOUS
    <3>1. /\ \A h \in Gates : \A i \in 1..Len(raw'[h]) : raw'[h][i] # Plate[w]
          /\ Head(raw[g]) # Plate[w]
      BY <1>1, ReadText
    <3>2. \A h \in Gates : gpc'[h] = "valid" => ftText'[h] # Plate[w]
      BY <1>1, <3>1 DEF NoText
    <3> QED
      BY <3>1, <3>2 DEF NoText
  <2>4. Asked(w) => Asked(w)' \/ (~InUds(w) /\ ~InUdp(w))
    <3> SUFFICES ASSUME Asked(w), ~Asked(w)' PROVE ~InUds(w) /\ ~InUdp(w)
      OBVIOUS
    <3>1. Gate[w] = g /\ cur[g] = w /\ gpc[g] = "valid" /\ ftText[g] = Plate[w]
      BY <1>1 DEF Asked
    <3>2. ~NoText(w)
      BY <3>1 DEF NoText
    <3> QED
      BY <3>2 DEF RequestsOK, PlateOK
  <2> QED
    BY <2>1, <2>2, <2>3, <2>4, PlateSame DEF RequestsOK
<1> QED
  BY <1>2, <1>3 DEF RequestsOK

(* The manager moves the only request of a gate to the UDP queue.          *)
LEMMA RequestRelay ==
  ASSUME PlatesDistinct, TypeOK, RequestsOK, TMRelay
  PROVE  RequestsOK'
<1> USE TollConstants
<1>1. PICK g \in tmReady : TMRelay!1!(g)
  BY DEF TMRelay
<1>2. g \in Gates /\ uds[g] # <<>>
  BY <1>1 DEF TypeOK
<1>3. PICK c \in Visits : c = Head(uds[g])
  BY <1>2, WaitingQueue
<1>4. /\ Gate[c] = g /\ InUds(c) /\ Asked(c) /\ Len(Tail(uds[g])) = 0
      /\ ~InUdp(c) /\ NoText(c) /\ ~Before(c)
  BY <1>2, <1>3, WaitingQueue DEF RequestsOK, PlateOK, Before
<1>5. PICK r \in Request : r = [tag |-> tag[c], plate |-> Plate[c]]
  BY DEF Request, TypeOK
<1>6. /\ udp' = Append(udp, r) /\ uds' = [uds EXCEPT ![g] = Tail(@)]
      /\ UNCHANGED <<gpc, cur, vpc, backlog, raw, ftText>>
  BY <1>1, <1>3, <1>5 DEF TMRelay
<1>7. r.plate = Plate[c]
  BY <1>5
<1>8. /\ Len(udp') = Len(udp) + 1 /\ udp'[Len(udp) + 1] = r /\ Len(udp) \in Nat
      /\ \A i \in 1..Len(udp) : udp'[i] = udp[i]
      /\ \A i \in 1..Len(udp') : i = Len(udp) + 1 \/ i \in 1..Len(udp)
  <2>1. udp \in Seq(Request)
    BY DEF TypeOK
  <2>2. Len(udp) \in Nat
    BY <2>1, LenProperties
  <2> QED
    BY <1>6, <2>1, <2>2, AppendElements
<1>9. \A i \in 1..Len(udp) : udp[i].plate # Plate[c]
  BY <1>4 DEF InUdp
<1>10. Len(uds'[g]) = 0 /\ \A h \in Gates : h # g => uds'[h] = uds[h]
  BY <1>2, <1>4, <1>6 DEF TypeOK
<1>11. UdsLaneOK'
  BY <1>10 DEF RequestsOK, UdsLaneOK
<1>12. UdpOnceOK'
  <2>1. \A i, k \in 1..Len(udp) : udp[i].plate = udp[k].plate => i = k
    BY DEF RequestsOK, UdpOnceOK
  <2> SUFFICES ASSUME NEW i \in 1..Len(udp'), NEW k \in 1..Len(udp'),
                      udp'[i].plate = udp'[k].plate
               PROVE  i = k
    BY DEF UdpOnceOK
  <2>2. CASE i \in 1..Len(udp) /\ k \in 1..Len(udp)
    BY <1>8, <2>1, <2>2
  <2>3. CASE i = Len(udp) + 1 /\ k = Len(udp) + 1
    BY <2>3
  <2>4. CASE i = Len(udp) + 1 /\ k \in 1..Len(udp)
    BY <1>7, <1>8, <1>9, <2>4
  <2>5. CASE i \in 1..Len(udp) /\ k = Len(udp) + 1
    BY <1>7, <1>8, <1>9, <2>5
  <2> QED
    BY <1>8, <2>2, <2>3, <2>4, <2>5
<1>13. ASSUME NEW w \in Visits PROVE PlateOK(w)'
  <2>1. (InBacklog(w)' <=> InBacklog(w)) /\ (NoText(w)' <=> NoText(w))
    BY <1>6 DEF InBacklog, NoText
  <2>2. (Asked(w)' <=> Asked(w)) /\ (AtGate(w)' <=> AtGate(w))
    BY <1>6 DEF Asked, AtGate
  <2>3. Before(w)' <=> Before(w)
    BY <1>6, <2>1, <2>2 DEF Before
  <2>4. CASE w = c
    <3>1. ~InUds(w)'
      BY <1>4, <1>10, <2>4 DEF InUds
    <3> QED
      BY <1>4, <2>1, <2>2, <2>3, <2>4, <3>1 DEF PlateOK, Before
  <2>5. CASE w # c
    <3>1. InUds(w)' => InUds(w)
      BY <1>10 DEF InUds
    <3>2. InUdp(w)' => InUdp(w)
      <4> SUFFICES ASSUME NEW i \in 1..Len(udp'), udp'[i].plate = Plate[w]
                   PROVE  InUdp(w)
        BY DEF InUdp
      <4>1. i \in 1..Len(udp)
        BY <1>7, <1>8, <2>5 DEF PlatesDistinct
      <4> QED
        BY <1>8, <4>1 DEF InUdp
    <3> QED
      BY <2>1, <2>2, <2>3, <3>1, <3>2, PlateSame DEF RequestsOK
  <2> QED
    BY <2>4, <2>5
<1> QED
  BY <1>11, <1>12, <1>13 DEF RequestsOK

(* FT reads a request and broadcasts its plate, for which nobody else has  *)
(* a request, or broadcasts a verdict, which is no plate.                  *)
LEMMA RequestBroadcast ==
  ASSUME PlatesDistinct, TypeOK, QueuesOK, RequestsOK, FTStep
  PROVE  RequestsOK'
<1> USE TollConstants
<1>1. UNCHANGED <<gpc, cur, vpc, backlog, uds, ftText>>
  BY DEF FTStep, FTRecv, FTVerdict
<1>2. UdsLaneOK'
  BY <1>1 DEF RequestsOK, UdsLaneOK
<1>3. ASSUME NEW w \in Visits
      PROVE  /\ InUds(w)' <=> InUds(w)
             /\ Asked(w)' <=> Asked(w)
             /\ Before(w)' <=> Before(w)
  BY <1>1 DEF InUds, Asked, Before, InBacklog, AtGate
<1>4. CASE FTVerdict
  <2>1. UNCHANGED udp /\ Broadcast(ftValid) /\ ftValid \in {0, 1}
    BY <1>4 DEF FTVerdict, TypeOK
  <2>2. UdpOnceOK' /\ \A w \in Visits : InUdp(w)' <=> InUdp(w)
    BY <2>1 DEF RequestsOK, UdpOnceOK, InUdp
  <2>3. ASSUME NEW w \in Visits PROVE PlateOK(w)'
    <3>1. Plate[w] # ftValid /\ ftValid \in Nat
      BY <2>1
    <3>2. NoText(w) => NoText(w)'
      BY <1>1, <2>1, <3>1, BroadcastOther
    <3> QED
      BY <1>3, <2>2, <3>2, PlateSame DEF RequestsOK
  <2> QED
    BY <1>2, <2>2, <2>3 DEF RequestsOK
<1>5. CASE FTRecv
  <2>1. udp \in Seq(Request) /\ udp # <<>> /\ udp' = Tail(udp) /\ Broadcast(Head(udp).plate)
    BY <1>5 DEF FTRecv, TypeOK
  <2>2. /\ Len(udp) > 0 /\ Head(udp) = udp[1] /\ Head(udp) \in Request /\ Len(udp) \in Nat
        /\ Len(udp') = Len(udp) - 1
        /\ \A i \in 1..Len(udp') : i + 1 \in 1..Len(udp) /\ udp'[i] = udp[i + 1]
    BY <2>1, TailElements, LenProperties
  <2>3. 1 \in 1..Len(udp) /\ \A i \in 1..Len(udp') : i \in Int /\ i + 1 # 1
    BY <2>2
  <2>4. PICK c \in Visits : udp[1].plate = Plate[c]
    BY <2>3 DEF QueuesOK, UdpOK, Asks
  <2>5. InUdp(c) /\ ~InUds(c) /\ ~Before(c)
    BY <2>3, <2>4 DEF InUdp, RequestsOK, PlateOK, Before
  <2>6. \A i, k \in 1..Len(udp) : udp[i].plate = udp[k].plate => i = k
    BY DEF RequestsOK, UdpOnceOK
  <2>7. UdpOnceOK'
    <3> SUFFICES ASSUME NEW i \in 1..Len(udp'), NEW k \in 1..Len(udp'),
                        udp'[i].plate = udp'[k].plate
                 PROVE  i = k
      BY DEF UdpOnceOK
    <3>1. /\ i + 1 \in 1..Len(udp) /\ udp'[i] = udp[i + 1]
          /\ k + 1 \in 1..Len(udp) /\ udp'[k] = udp[k + 1]
      BY <2>2
    <3>2. udp[i + 1].plate = udp[k + 1].plate
      BY <3>1, Zenon
    <3>3. i + 1 = k + 1
      BY <2>6, <3>1, <3>2
    <3> QED
      BY <2>3, <3>3
  <2>8. ~InUdp(c)'
    BY ZenonT(40), <2>2, <2>3, <2>4, <2>6 DEF InUdp
  <2>9. ASSUME NEW w \in Visits PROVE PlateOK(w)'
    <3>1. CASE w = c
      BY <1>3, <2>5, <2>8, <3>1 DEF PlateOK, Before
    <3>2. CASE w # c
      <4>1. InUdp(w)' => InUdp(w)
        BY <2>2 DEF InUdp
      <4>2. Plate[w] # Head(udp).plate /\ Head(udp).plate \in Nat
        BY <2>2, <2>4, <3>2 DEF PlatesDistinct
      <4>3. NoText(w) => NoText(w)'
        BY <1>1, <2>1, <4>2, BroadcastOther
      <4> QED
        BY <1>3, <4>1, <4>3, PlateSame DEF RequestsOK
    <3> QED
      BY <3>1, <3>2
  <2> QED
    BY <1>2, <2>7, <2>9 DEF RequestsOK
<1> QED
  BY <1>4, <1>5 DEF FTStep

(* Every step keeps the requests in order.                                 *)
LEMMA RequestsStep ==
  ASSUME PlatesDistinct, TypeOK, QueuesOK, LaneOK, PlaceOK, RequestsOK, [Next]_vars
  PROVE  RequestsOK'
<1> USE TollConstants
<1>1. CASE UNCHANGED <<uds, udp, raw, ftText, vpc, backlog, gpc, cur>>
  BY <1>1, RequestsSame DEF Before, InBacklog, AtGate, Asked
<1>2. ASSUME NEW v \in Visits, VehicleStep(v) PROVE RequestsOK'
  <2>0. /\ UNCHANGED <<uds, udp, raw, ftText, gpc, cur>>
        /\ \A w \in Visits : vpc'[w] = "away" => vpc[w] = "away"
    BY <1>2 DEF VehicleStep, VehicleConnect, VehicleSend, VehicleLeave, TypeOK
  <2>1. \A w \in Visits : (AtGate(w)' <=> AtGate(w)) /\ (Asked(w)' <=> Asked(w))
    BY <2>0 DEF AtGate, Asked
  <2>2. CASE VehicleConnect(v)
    <3>1. \A w \in Visits : w # v => (InBacklog(w)' <=> InBacklog(w))
      BY <2>2, PlaceConnect
    <3>2. \A w \in Visits : Before(w)' => Before(w)
      BY <2>0, <2>1, <2>2, <3>1 DEF Before, VehicleConnect
    <3> QED
      BY <2>0, <2>1, <3>2, RequestsSame
  <2>3. CASE VehicleSend(v) \/ VehicleLeave(v)
    <3>1. UNCHANGED backlog
      BY <2>3 DEF VehicleSend, VehicleLeave
    <3>2. \A w \in Visits : Before(w)' => Before(w)
      BY <2>0, <2>1, <3>1 DEF Before, InBacklog
    <3> QED
      BY <2>0, <2>1, <3>2, RequestsSame
  <2> QED
    BY <1>2, <2>2, <2>3 DEF VehicleStep
<1>3. ASSUME NEW g \in Gates, GateStep(g) PROVE RequestsOK'
  <2>1. CASE GatePoll(g)
    <3>1. /\ UNCHANGED <<uds, udp, raw, ftText, vpc, backlog, cur>>
          /\ gpc' = [gpc EXCEPT ![g] = "scan"] /\ gpc[g] = "poll"
      BY <2>1 DEF GatePoll
    <3>2. \A v \in Visits : Before(v)' => Before(v)
      BY <3>1 DEF Before, InBacklog, AtGate, Serving, TypeOK
    <3> QED
      BY <3>1, <3>2, RequestsSame DEF Asked, TypeOK
  <2>2. CASE GateAccept(g)
    <3>1. /\ gpc[g] = "scan" /\ gpc' = [gpc EXCEPT ![g] = "number"]
          /\ UNCHANGED <<uds, udp, raw, ftText, vpc>>
      BY <2>2 DEF GateAccept
    <3>2. PICK v \in Visits :
              /\ cur' = [cur EXCEPT ![g] = v] /\ Gate[v] = g
              /\ InBacklog(v) /\ ~InBacklog(v)'
              /\ \A w \in Visits : w # v => (InBacklog(w)' <=> InBacklog(w))
      BY <2>2, PlaceAccept
    <3>3. \A w \in Visits : Before(w)' => Before(w)
      BY <3>1, <3>2 DEF Before, AtGate, TypeOK
    <3>4. \A w \in Visits : Asked(w) => Asked(w)'
      BY <3>1, <3>2 DEF Asked, TypeOK
    <3> QED
      BY <3>1, <3>3, <3>4, RequestsSame DEF TypeOK
  <2>3. CASE GateForward(g)
    BY <2>3, RequestForward
  <2>4. CASE GateRecvPlate(g) \/ GateRecvValid(g)
    BY <2>4, RequestRead
  <2>5. CASE GateSignal(g)
    <3>1. /\ UNCHANGED <<uds, udp, raw, ftText, vpc, backlog, cur>>
          /\ gpc[g] = "signal" /\ gpc'[g] \in {"poll", "scan"}
          /\ \A h \in Gates : h # g => gpc'[h] = gpc[h]
      BY <2>5 DEF GateSignal, NextLane, TypeOK
    <3>2. \A v \in Visits : Before(v)' => Before(v)
      BY <3>1 DEF Before, InBacklog, AtGate, Serving
    <3> QED
      BY <3>1, <3>2, RequestsSame DEF Asked
  <2> QED
    BY <1>3, <2>1, <2>2, <2>3, <2>4, <2>5 DEF GateStep
<1>4. CASE TMRelay
  BY <1>4, RequestRelay
<1>5. CASE FTStep
  BY <1>5, RequestBroadcast
<1>6. CASE TMPoll \/ (\E l \in Lanes : TMCount(l)) \/ UNCHANGED vars
  BY <1>6, <1>1 DEF TMPoll, TMCount
<1> QED
  BY <1>2, <1>3, <1>4, <1>5, <1>6, GatePrograms DEF Next, Idle, TMStep

(* Requests on their way to FT are of different gates.                     *)
LEMMA RequestsFewerThanGates ==
  ASSUME PlatesDistinct, TypeOK, QueuesOK, RequestsOK
  PROVE  Len(udp) <= NumGates
<1> DEFINE who(i) == CHOOSE v \in Visits : udp[i].plate = Plate[v]
           f == [i \in 1..Len(udp) |-> Gate[who(i)]]
<1>1. Len(udp) \in Nat
  BY LenProperties DEF TypeOK
<1>2. ASSUME NEW i \in 1..Len(udp)
      PROVE  who(i) \in Visits /\ udp[i].plate = Plate[who(i)]
  BY DEF QueuesOK, UdpOK, Asks
<1> HIDE DEF who
<1>3. ASSUME NEW i \in 1..Len(udp) PROVE Gate[who(i)] \in Gates /\ cur[Gate[who(i)]] = who(i)
  <2>1. InUdp(who(i))
    BY <1>2 DEF InUdp
  <2>2. Asked(who(i))
    BY <1>2, <2>1 DEF RequestsOK, PlateOK
  <2> QED
    BY <1>2, <2>2, TollConstants DEF Asked
<1>4. f \in [1..Len(udp) -> Gates]
  BY <1>3
<1>5. ASSUME NEW i \in 1..Len(udp), NEW k \in 1..Len(udp), f[i] = f[k] PROVE i = k
  <2>1. who(i) = who(k)
    BY <1>3, <1>5
  <2>2. udp[i].plate = udp[k].plate
    BY <1>2, <2>1
  <2> QED
    BY <2>2 DEF RequestsOK, UdpOnceOK
<1>6. f \in Injection(1..Len(udp), Gates)
  BY <1>4, <1>5 DEF Injection, IsInjective
<1>7. /\ IsFiniteSet(Gates) /\ Cardinality(Gates) = NumGates
      /\ Cardinality(1..Len(udp)) = Len(udp)
  <2>1. \A n \in Nat : IsFiniteSet(1..n) /\ Cardinality(1..n) = n
    BY FS_Interval
  <2> QED
    BY <1>1, <2>1, TollConstants DEF Gates
<1>8. Cardinality(1..Len(udp)) <= Cardinality(Gates)
  BY <1>6, <1>7, FS_Injection
<1> QED
  BY <1>7, <1>8

(* For any number of gates and vehicles with distinct plates, in any       *)
(* interleaving and whatever the raw sockets lose: a gate has at most one  *)
(* request between itself and FT, and the manager's counters, with the     *)
(* signals on their way, never exceed the vehicles let through.            *)
THEOREM TrafficIsBounded == PlatesDistinct => (Spec => []TrafficBounded)
<1> SUFFICES ASSUME PlatesDistinct PROVE Spec => []TrafficBounded
  OBVIOUS
<1>1. Init => TollInv /\ RequestsOK
  <2> SUFFICES ASSUME Init PROVE RequestsOK
    BY InitToll
  <2>1. UdsLaneOK /\ UdpOnceOK
    BY DEF Init, UdsLaneOK, UdpOnceOK
  <2>2. ASSUME NEW v \in Visits PROVE ~InUds(v) /\ ~InUdp(v) /\ NoText(v)
    BY TollConstants DEF Init, InUds, InUdp, NoText
  <2> QED
    BY <2>1, <2>2 DEF RequestsOK, PlateOK
<1>2. TollInv /\ RequestsOK /\ [Next]_vars => TollInv' /\ RequestsOK'
  BY TypeStep, QueuesStep, PlaceStep, TollStep, RequestsStep DEF TollInv
<1>3. TollInv /\ RequestsOK => TrafficBounded
  <2> SUFFICES ASSUME TollInv, RequestsOK PROVE OneRequestPerGate
    BY TollCounts DEF TrafficBounded, TollInv
  <2>1. \A g \in Gates : uds[g] # <<>> => gpc[g] \in {"plate", "valid"}
    BY WaitingQueue DEF TollInv, Asked
  <2>2. \A g \in Gates : Len(uds[g]) <= 1
    BY DEF RequestsOK, UdsLaneOK
  <2>3. Len(udp) <= NumGates
    BY RequestsFewerThanGates DEF TollInv
  <2> QED
    BY <2>1, <2>2, <2>3 DEF OneRequestPerGate
<1> QED
  BY <1>1, <1>2, <1>3, PTL DEF Spec

=============================================================================
