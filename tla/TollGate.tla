------------------------------ MODULE TollGate ------------------------------
(***************************************************************************)
(* The toll plaza of midlab/toll_gate: vehicles (v.c), gates (g1.c, g2.c   *)
(* and g3.c, one text with three gate numbers), the toll manager (TM.c)    *)
(* and the FastTag server (FT.c).                                          *)
(*                                                                         *)
(* A gate polls its two listening ports, accepts a vehicle, hands its      *)
(* descriptor and plate to the manager over a Unix socket and then blocks  *)
(* on a raw socket.  The manager reads the peer port of the descriptor     *)
(* (the "fast tag id") and sends it with the plate to the FastTag server   *)
(* over UDP.  The server writes two raw datagrams, the plate and the       *)
(* verdict; the kernel copies each of them to the raw socket of EVERY      *)
(* gate.  A gate that lets a vehicle pass signals the manager, whose       *)
(* handlers count two- and four-wheelers.                                  *)
(*                                                                         *)
(* A raw datagram is a text: a plate, or the digit the server prints with  *)
(* "%d".  Texts are modelled by the number atoi reads from them, so plates *)
(* are numbers other than 0 and 1 and comparing texts is comparing         *)
(* numbers.  The processes are connected: the model starts where their     *)
(* loops start.                                                            *)
(***************************************************************************)
EXTENDS Integers, Sequences, FiniteSets

CONSTANTS
  NumGates,   \* gates g1 .. g<NumGates> (3 in the code)
  Visits,     \* runs of v.exe: one vehicle passing one gate once
  Plate,      \* Plate[v]: the vehicle number argument
  Wheels,     \* Wheels[v]: the wheels argument, which selects the port
  Gate,       \* Gate[v]: the gate argument
  Ports,      \* peer ports the kernel may give a vehicle
  Backlog,    \* connections a listening port queues
  RawCap,     \* datagrams the raw socket of a gate holds
  NoVisit     \* stands for no vehicle

Gates == 1..NumGates
Lanes == {2, 4}

ASSUME TollConstants ==
  /\ NumGates \in Nat \ {0}
  /\ IsFiniteSet(Visits)
  /\ Plate \in [Visits -> Nat \ {0, 1}]
  /\ Wheels \in [Visits -> Lanes]
  /\ Gate \in [Visits -> Gates]
  /\ Ports \subseteq Nat
  /\ Backlog \in Nat \ {0}
  /\ RawCap \in Nat \ {0}
  /\ NoVisit \notin Visits

NoAnswer == -1

(* What the manager asks the FastTag server.                               *)
Request == [tag : Nat, plate : Nat]

VARIABLES
  vpc,       \* control state of each vehicle
  tag,       \* peer port of each vehicle's connection, its fast tag id
  answer,    \* the int a gate sent back to the vehicle
  backlog,   \* connections waiting on each listening port
  gpc,       \* control state of each gate
  revents,   \* lanes the gate's last poll reported and it has not looked at
  cur,       \* the vehicle the gate is serving
  ftText,    \* ft_vehicle: first datagram of the pair the gate is reading
  uds,       \* descriptors and plates sent by each gate to the manager
  tmReady,   \* gates the manager's last poll reported and it has not served
  udp,       \* requests (fast tag id and plate) on their way to FT
  ftpc,      \* control state of the FastTag server
  ftValid,   \* its verdict, between its two sendto calls
  raw,       \* the raw socket queue of each gate
  lost,      \* whether the kernel dropped a datagram for the gate
  pending,   \* signals pending at the manager, named by the lane they count
  count      \* countMemory

vehicleVars == <<vpc, tag, answer, backlog>>
gateVars == <<gpc, revents, cur, ftText>>
tmVars == <<uds, tmReady, pending, count>>
ftVars == <<udp, ftpc, ftValid, raw, lost>>
vars == <<vehicleVars, gateVars, tmVars, ftVars>>

(* The for loops over a poll set look at its entries in order.             *)
First(x, S) == x \in S /\ \A y \in S : x <= y

(* Mutant: the remainder itself is sent.                                   *)
VerdictRemainder(id) == id % 3

(* FT.c: valid_fast_tag = (fast_tag_id % 3 == 0)                           *)
Verdict(id) == IF id % 3 = 0 THEN 1 ELSE 0

Init ==
  /\ vpc = [v \in Visits |-> "away"]
  /\ tag = [v \in Visits |-> 0]
  /\ answer = [v \in Visits |-> NoAnswer]
  /\ backlog = [g \in Gates |-> [l \in Lanes |-> <<>>]]
  /\ gpc = [g \in Gates |-> "poll"]
  /\ revents = [g \in Gates |-> {}]
  /\ cur = [g \in Gates |-> NoVisit]
  /\ ftText = [g \in Gates |-> 0]
  /\ uds = [g \in Gates |-> <<>>]
  /\ tmReady = {}
  /\ udp = <<>>
  /\ ftpc = "recv"
  /\ ftValid = 0
  /\ raw = [g \in Gates |-> <<>>]
  /\ lost = [g \in Gates |-> FALSE]
  /\ pending = {}
  /\ count = [l \in Lanes |-> 0]

-----------------------------------------------------------------------------
(* Vehicles                                                                *)

(* The vehicle connects to the port of its gate and its number of wheels;  *)
(* the kernel chooses its own port.                                        *)
VehicleConnect(v) ==
  /\ vpc[v] = "away"
  /\ Len(backlog[Gate[v]][Wheels[v]]) < Backlog
  /\ \E port \in Ports : tag' = [tag EXCEPT ![v] = port]
  /\ backlog' = [backlog EXCEPT ![Gate[v]][Wheels[v]] = Append(@, v)]
  /\ vpc' = [vpc EXCEPT ![v] = "connected"]
  /\ UNCHANGED <<answer, gateVars, tmVars, ftVars>>

VehicleSend(v) ==
  /\ vpc[v] = "connected"
  /\ vpc' = [vpc EXCEPT ![v] = "sent"]
  /\ UNCHANGED <<tag, answer, backlog, gateVars, tmVars, ftVars>>

(* The vehicle reads the answer, prints it and closes.                     *)
VehicleLeave(v) ==
  /\ vpc[v] = "sent"
  /\ answer[v] # NoAnswer
  /\ vpc' = [vpc EXCEPT ![v] = "gone"]
  /\ UNCHANGED <<tag, answer, backlog, gateVars, tmVars, ftVars>>

-----------------------------------------------------------------------------
(* Gates                                                                   *)

GatePoll(g) ==
  LET ready == {l \in Lanes : backlog[g][l] # <<>>} IN
  /\ gpc[g] = "poll"
  /\ ready # {}
  /\ revents' = [revents EXCEPT ![g] = ready]
  /\ gpc' = [gpc EXCEPT ![g] = "scan"]
  /\ UNCHANGED <<cur, ftText, vehicleVars, tmVars, ftVars>>

(* Back to the for loop over pfd, or to poll when no lane is left.         *)
NextLane(g) == IF revents[g] = {} THEN "poll" ELSE "scan"

(* The for loop looks at the two-wheeler lane first.                       *)
GateAccept(g) ==
  /\ gpc[g] = "scan"
  /\ \E l \in revents[g] :
       /\ First(l, revents[g])
       /\ backlog[g][l] # <<>>
       /\ revents' = [revents EXCEPT ![g] = @ \ {l}]
       /\ cur' = [cur EXCEPT ![g] = Head(backlog[g][l])]
       /\ backlog' = [backlog EXCEPT ![g][l] = Tail(@)]
  /\ gpc' = [gpc EXCEPT ![g] = "number"]
  /\ UNCHANGED <<ftText, vpc, tag, answer, tmVars, ftVars>>

(* Mutant: the gate does not wait for the verdict.                         *)
GateForwardNoWait(g) ==
  /\ gpc[g] = "number"
  /\ vpc[cur[g]] = "sent"
  /\ uds' = [uds EXCEPT ![g] = Append(@, cur[g])]
  /\ gpc' = [gpc EXCEPT ![g] = NextLane(g)]
  /\ UNCHANGED <<revents, cur, ftText, tmReady, pending, count,
                 vehicleVars, ftVars>>

(* The gate receives the plate, then passes descriptor and plate on.       *)
GateForward(g) ==
  /\ gpc[g] = "number"
  /\ vpc[cur[g]] = "sent"
  /\ uds' = [uds EXCEPT ![g] = Append(@, cur[g])]
  /\ gpc' = [gpc EXCEPT ![g] = "plate"]
  /\ UNCHANGED <<revents, cur, ftText, tmReady, pending, count,
                 vehicleVars, ftVars>>

GateRecvPlate(g) ==
  /\ gpc[g] = "plate"
  /\ raw[g] # <<>>
  /\ ftText' = [ftText EXCEPT ![g] = Head(raw[g])]
  /\ raw' = [raw EXCEPT ![g] = Tail(@)]
  /\ gpc' = [gpc EXCEPT ![g] = "valid"]
  /\ UNCHANGED <<revents, cur, udp, ftpc, ftValid, lost, vehicleVars, tmVars>>

(* Mutant: the if (valid) before kill is missing.                          *)
GateRecvValidSignals(g) ==
  LET match == ftText[g] = Plate[cur[g]] IN
  /\ gpc[g] = "valid"
  /\ raw[g] # <<>>
  /\ raw' = [raw EXCEPT ![g] = Tail(@)]
  /\ answer' = IF match THEN [answer EXCEPT ![cur[g]] = Head(raw[g])]
                        ELSE answer
  /\ gpc' = [gpc EXCEPT ![g] = IF match THEN "signal" ELSE "plate"]
  /\ UNCHANGED <<revents, cur, ftText, udp, ftpc, ftValid, lost,
                 vpc, tag, backlog, tmVars>>

(* The second datagram of a pair.  The pair counts only if its first text  *)
(* is the plate of the vehicle at this gate; the answer then goes out at   *)
(* once, and any non-zero value makes the gate signal the manager.         *)
GateRecvValid(g) ==
  LET v == cur[g]
      valid == Head(raw[g])
      match == ftText[g] = Plate[v]
  IN
  /\ gpc[g] = "valid"
  /\ raw[g] # <<>>
  /\ raw' = [raw EXCEPT ![g] = Tail(@)]
  /\ answer' = IF match THEN [answer EXCEPT ![v] = valid] ELSE answer
  /\ gpc' = [gpc EXCEPT ![g] = IF ~match THEN "plate"
                               ELSE IF valid # 0 THEN "signal"
                               ELSE NextLane(g)]
  /\ UNCHANGED <<revents, cur, ftText, udp, ftpc, ftValid, lost,
                 vpc, tag, backlog, tmVars>>

(* Mutant: the break after kill is missing and the gate reads on.          *)
GateSignalNoBreak(g) ==
  /\ gpc[g] = "signal"
  /\ pending' = pending \cup {Wheels[cur[g]]}
  /\ gpc' = [gpc EXCEPT ![g] = "plate"]
  /\ UNCHANGED <<revents, cur, ftText, uds, tmReady, count,
                 vehicleVars, ftVars>>

(* kill(tm_pid, SIGUSR1 or SIGUSR2): a pending signal is not queued twice. *)
GateSignal(g) ==
  /\ gpc[g] = "signal"
  /\ pending' = pending \cup {Wheels[cur[g]]}
  /\ gpc' = [gpc EXCEPT ![g] = NextLane(g)]
  /\ UNCHANGED <<revents, cur, ftText, uds, tmReady, count,
                 vehicleVars, ftVars>>

-----------------------------------------------------------------------------
(* The toll manager                                                        *)

TMPoll ==
  LET ready == {g \in Gates : uds[g] # <<>>} IN
  /\ tmReady = {}
  /\ ready # {}
  /\ tmReady' = ready
  /\ UNCHANGED <<uds, pending, count, vehicleVars, gateVars, ftVars>>

(* The manager takes the descriptor and the plate from the first gate it   *)
(* has not served since its last poll, asks for the peer port and sends    *)
(* both to FT.                                                             *)
TMRelay ==
  /\ \E g \in tmReady :
       /\ First(g, tmReady)
       /\ uds[g] # <<>>
       /\ udp' = Append(udp, [tag |-> tag[Head(uds[g])],
                              plate |-> Plate[Head(uds[g])]])
       /\ uds' = [uds EXCEPT ![g] = Tail(@)]
       /\ tmReady' = tmReady \ {g}
  /\ UNCHANGED <<pending, count, ftpc, ftValid, raw, lost,
                 vehicleVars, gateVars>>

(* two_wheeler_handler and four_wheeler_handler.                           *)
TMCount(l) ==
  /\ l \in pending
  /\ pending' = pending \ {l}
  /\ count' = [count EXCEPT ![l] = @ + 1]
  /\ UNCHANGED <<uds, tmReady, vehicleVars, gateVars, ftVars>>

-----------------------------------------------------------------------------
(* The FastTag server                                                      *)

(* A datagram sent to the raw protocol reaches the queue of every gate,    *)
(* except those that are full.                                             *)
Broadcast(text) ==
  /\ raw' = [g \in Gates |->
               IF Len(raw[g]) < RawCap THEN Append(raw[g], text) ELSE raw[g]]
  /\ lost' = [g \in Gates |-> lost[g] \/ Len(raw[g]) >= RawCap]

(* Mutant: valid_fast_tag is not reset, and stays set after a valid tag.   *)
FTRecvSticky ==
  /\ ftpc = "recv"
  /\ udp # <<>>
  /\ udp' = Tail(udp)
  /\ ftValid' = IF Verdict(Head(udp).tag) = 1 THEN 1 ELSE ftValid
  /\ Broadcast(Head(udp).plate)
  /\ ftpc' = "verdict"
  /\ UNCHANGED <<vehicleVars, gateVars, tmVars>>

(* FT reads tag and plate, decides on the tag and sends the plate first.   *)
FTRecv ==
  /\ ftpc = "recv"
  /\ udp # <<>>
  /\ udp' = Tail(udp)
  /\ ftValid' = Verdict(Head(udp).tag)
  /\ Broadcast(Head(udp).plate)
  /\ ftpc' = "verdict"
  /\ UNCHANGED <<vehicleVars, gateVars, tmVars>>

FTVerdict ==
  /\ ftpc = "verdict"
  /\ Broadcast(ftValid)
  /\ ftpc' = "recv"
  /\ UNCHANGED <<udp, ftValid, vehicleVars, gateVars, tmVars>>

-----------------------------------------------------------------------------
VehicleStep(v) == VehicleConnect(v) \/ VehicleSend(v) \/ VehicleLeave(v)

GateStep(g) ==
  \/ GatePoll(g) \/ GateAccept(g) \/ GateForward(g)
  \/ GateRecvPlate(g) \/ GateRecvValid(g) \/ GateSignal(g)

(* g2.c and g3.c are g1.c with another gate number.                        *)
Gate1 == GateStep(1)
Gate2 == \E g \in Gates \ {1} : GateStep(g)

TMStep == TMPoll \/ TMRelay
FTStep == FTRecv \/ FTVerdict

(* Everybody waits for a vehicle that will not come: the only state in     *)
(* which the plaza may stand still.                                        *)
Quiet ==
  /\ \A v \in Visits : vpc[v] = "gone"
  /\ \A g \in Gates : gpc[g] = "poll"
  /\ tmReady = {} /\ udp = <<>> /\ ftpc = "recv" /\ pending = {}

Idle == Quiet /\ UNCHANGED vars

Next ==
  \/ \E v \in Visits : VehicleStep(v)
  \/ Gate1 \/ Gate2
  \/ TMStep
  \/ \E l \in Lanes : TMCount(l)
  \/ FTStep
  \/ Idle

Spec == Init /\ [][Next]_vars

(* Each program runs on; nobody is obliged to drive to the plaza.          *)
Fairness ==
  /\ \A v \in Visits : WF_vars(VehicleSend(v)) /\ WF_vars(VehicleLeave(v))
  /\ \A g \in Gates : WF_vars(GateStep(g))
  /\ WF_vars(TMStep) /\ WF_vars(FTStep)
  /\ \A l \in Lanes : WF_vars(TMCount(l))

FairSpec == Spec /\ Fairness
-----------------------------------------------------------------------------
(* Properties                                                              *)

(* Every variable holds a value of its C type or a state of its program.   *)
TypeOK ==
  /\ vpc \in [Visits -> {"away", "connected", "sent", "gone"}]
  /\ tag \in [Visits -> Nat]
  /\ answer \in [Visits -> Int]
  /\ backlog \in [Gates -> [Lanes -> Seq(Visits)]]
  /\ gpc \in [Gates -> {"poll", "scan", "number", "plate", "valid", "signal"}]
  /\ revents \in [Gates -> SUBSET Lanes]
  /\ cur \in [Gates -> Visits \cup {NoVisit}]
  /\ ftText \in [Gates -> Nat]
  /\ uds \in [Gates -> Seq(Visits)]
  /\ tmReady \subseteq Gates
  /\ udp \in Seq(Request)
  /\ ftpc \in {"recv", "verdict"}
  /\ ftValid \in {0, 1}
  /\ raw \in [Gates -> Seq(Nat)]
  /\ lost \in [Gates -> BOOLEAN]
  /\ pending \subseteq Lanes
  /\ count \in [Lanes -> Nat]

(* The answer a vehicle gets is FT's verdict on its own fast tag, although *)
(* every gate reads the verdicts of all gates (g1.c, the strcmp loop).     *)
(* Holds as long as no datagram was dropped at the gate and no two visits  *)
(* carry the same plate.                                                   *)
VerdictIsMine ==
  \A v \in Visits :
    answer[v] # NoAnswer /\ ~lost[Gate[v]] => answer[v] = Verdict(tag[v])

Passed(l) == {v \in Visits : Wheels[v] = l /\ answer[v] \notin {NoAnswer, 0}}

(* TM never counts a vehicle that was turned away: the counters, with the  *)
(* signals on their way, stay within the vehicles let through.             *)
CountNeverExceeds ==
  \A l \in Lanes :
    count[l] + (IF l \in pending THEN 1 ELSE 0) <= Cardinality(Passed(l))

(* A gate waits for the verdict before it takes the next vehicle, so at    *)
(* most one request per gate is anywhere between the gate and FT.          *)
OneRequestPerGate ==
  /\ \A g \in Gates : uds[g] # <<>> => gpc[g] \in {"plate", "valid"}
  /\ \A g \in Gates : Len(uds[g]) <= 1
  /\ Len(udp) <= NumGates

(* A vehicle that has sent its plate is eventually answered, unless its    *)
(* gate lost a datagram: g1.c, which polls, reads no verdicts meanwhile.   *)
EveryVehicleAnswered ==
  \A v \in Visits :
    vpc[v] = "sent" ~> answer[v] # NoAnswer \/ lost[Gate[v]]

(* The traffic behind the gates is bounded by the vehicles: a gate has one *)
(* request under way at most, and the manager never counts more vehicles   *)
(* than were let through (g1.c:82-115, TM.c:77-115).                       *)
TrafficBounded == CountNeverExceeds /\ OneRequestPerGate
=============================================================================
