----------------------------- MODULE SuperServer -----------------------------
(***************************************************************************)
(* 10-2-22/inet_d: inet accepts a client, receives its choice, accepts a   *)
(* connection of service S1 or S2 on the Unix socket of that choice, and   *)
(* sends the client's descriptor there.  S1 and S2 serve one client in     *)
(* three rounds and end; the user starts them again.  inet never closes a  *)
(* client's descriptor.                                                    *)
(***************************************************************************)
EXTENDS Integers, Sequences, FiniteSets, FiniteSetsExt

CONSTANTS
  NGuests,   \* clients, numbered in the order in which they connect
  NStarts,   \* bound: starts of S1 and S2, numbered in their order
  Rounds     \* rounds of a service (3 in the code)

ASSUME SuperConstants == NGuests \in Nat \ {0} /\ NStarts \in Nat /\ Rounds \in Nat \ {0}

Guests == 1..NGuests
Options == 0..2          \* 0: neither 1 nor 2

VARIABLES
  pcInet,   \* "accept", "recv" or "uds" (accept on usfd[choice-1])
  guest,    \* the client that inet deals with
  gStage,   \* per client: "out", "queued", "in" or "gone"
  choice,   \* per client: what was typed, -1 before
  gRound,   \* per client: rounds finished
  inst,     \* the services started: [service, stage, guest, round, sent]
  net,      \* per client: messages of the service on their way to it
  back,     \* per client: messages on their way to the service
  handed    \* history: the clients in the order in which they were passed on

superVars == <<pcInet, guest, gStage, choice, gRound, inst, net, back, handed>>

(* serv_uds_listen twice, serv_tcp_listen.                                 *)
SuperInit ==
  /\ pcInet = "accept" /\ guest = 0
  /\ gStage = [c \in Guests |-> "out"] /\ choice = [c \in Guests |-> -1]
  /\ gRound = [c \in Guests |-> 0] /\ inst = <<>>
  /\ net = [c \in Guests |-> 0] /\ back = [c \in Guests |-> 0] /\ handed = <<>>

(* C: connect, then the user types a choice.                               *)
GuestArrives(c) ==
  /\ \/ /\ gStage[c] = "out" /\ \A b \in 1..(c-1) : gStage[b] # "out"
        /\ gStage' = [gStage EXCEPT ![c] = "queued"] /\ UNCHANGED choice
     \/ /\ gStage[c] \in {"queued", "in"} /\ choice[c] = -1
        /\ \E k \in Options : choice' = [choice EXCEPT ![c] = k]
        /\ UNCHANGED gStage
  /\ UNCHANGED <<pcInet, guest, gRound, inst, net, back, handed>>

(* C: a round is recv and send; after the last one C closes.               *)
GuestRound(c) ==
  /\ gStage[c] = "in" /\ choice[c] # -1 /\ net[c] > 0
  /\ net' = [net EXCEPT ![c] = @ - 1] /\ back' = [back EXCEPT ![c] = @ + 1]
  /\ gRound' = [gRound EXCEPT ![c] = @ + 1]
  /\ gStage' = IF gRound[c] + 1 = Rounds THEN [gStage EXCEPT ![c] = "gone"] ELSE gStage
  /\ UNCHANGED <<pcInet, guest, choice, inst, handed>>

(* The user stops C.                                                       *)
GuestLeaves(c) ==
  /\ gStage[c] = "in" /\ gStage' = [gStage EXCEPT ![c] = "gone"]
  /\ UNCHANGED <<pcInet, guest, choice, gRound, inst, net, back, handed>>

(* inet: accept, then recv of the choice, which gives 0 when the client    *)
(* has left.  A client with another choice stays connected and unserved.   *)
AcceptGuest ==
  /\ pcInet = "accept" /\ \E c \in Guests : gStage[c] = "queued"
  /\ guest' = Min({c \in Guests : gStage[c] = "queued"})
  /\ gStage' = [gStage EXCEPT ![guest'] = "in"]
  /\ pcInet' = "recv"
  /\ UNCHANGED <<choice, gRound, inst, net, back, handed>>

RecvChoice ==
  /\ pcInet = "recv" /\ (choice[guest] # -1 \/ gStage[guest] = "gone")
  /\ pcInet' = IF choice[guest] \in {1, 2} THEN "uds" ELSE "accept"
  /\ UNCHANGED <<guest, gStage, choice, gRound, inst, net, back, handed>>

(* Mutant: the sockets are exchanged.                                      *)
SocketOfOther(k) == 3 - k
SocketOf(k) == k

Waiting(k) == {i \in 1..Len(inst) : inst[i].stage = "queued" /\ inst[i].service = k}

(* accept on the Unix socket: inet serves nobody else until the service    *)
(* has connected; then send_fd and recv_fd.                                *)
PassGuest ==
  LET w == Waiting(SocketOf(choice[guest])) IN
  /\ pcInet = "uds" /\ w # {}
  /\ inst' = [inst EXCEPT ![Min(w)].stage = "serving", ![Min(w)].guest = guest]
  /\ handed' = Append(handed, guest)
  /\ pcInet' = "accept"
  /\ UNCHANGED <<guest, gStage, choice, gRound, net, back>>

(* S1 and S2: cli_conn, then recv_fd waits for inet.                       *)
StartService(k) ==
  /\ Len(inst) < NStarts
  /\ inst' = Append(inst, [service |-> k, stage |-> "queued", guest |-> 0,
                           round |-> 0, sent |-> FALSE])
  /\ UNCHANGED <<pcInet, guest, gStage, choice, gRound, net, back, handed>>

(* send; SIGPIPE may end the service when the client has left.             *)
ServiceSend(i) ==
  /\ inst[i].stage = "serving" /\ ~inst[i].sent
  /\ LET c == inst[i].guest IN
     IF gStage[c] = "gone"
     THEN /\ \/ inst' = [inst EXCEPT ![i].sent = TRUE]
             \/ inst' = [inst EXCEPT ![i].stage = "ended"]
          /\ UNCHANGED net
     ELSE inst' = [inst EXCEPT ![i].sent = TRUE] /\ net' = [net EXCEPT ![c] = @ + 1]
  /\ UNCHANGED <<pcInet, guest, gStage, choice, gRound, back, handed>>

(* A line, or the end of the connection, for which recv returns 0.         *)
LineThere(c) == back[c] > 0 \/ gStage[c] = "gone"

(* Mutant: the service has no last round.                                  *)
RoundDoneNever(r) == r < 0
(* Mutant: the service ends one round early.                               *)
RoundDoneEarly(r) == r + 2 >= Rounds
RoundDone(r) == r + 1 = Rounds

ServiceRecv(i) ==
  /\ inst[i].stage = "serving" /\ inst[i].sent /\ LineThere(inst[i].guest)
  /\ back' = [back EXCEPT ![inst[i].guest] = IF @ > 0 THEN @ - 1 ELSE 0]
  /\ inst' = [inst EXCEPT ![i].sent = FALSE, ![i].round = @ + 1,
                          ![i].stage = IF RoundDone(inst[i].round) THEN "ended" ELSE @]
  /\ UNCHANGED <<pcInet, guest, gStage, choice, gRound, net, handed>>

(* S1 and S2 are the same program but for their socket and their text.     *)
Service(i) == ServiceSend(i) \/ ServiceRecv(i)

SuperNext ==
  \/ \E c \in Guests : GuestArrives(c) \/ GuestRound(c) \/ GuestLeaves(c)
  \/ AcceptGuest \/ RecvChoice \/ PassGuest
  \/ \E k \in 1..2 : StartService(k)
  \/ \E i \in 1..Len(inst) : Service(i)

SuperSpec == SuperInit /\ [][SuperNext]_superVars

-----------------------------------------------------------------------------
(* Properties                                                              *)

SuperTypeOK ==
  /\ pcInet \in {"accept", "recv", "uds"} /\ guest \in 0..NGuests
  /\ gStage \in [Guests -> {"out", "queued", "in", "gone"}]
  /\ choice \in [Guests -> -1..2]
  /\ \A i \in 1..Len(inst) : inst[i].guest \in 0..NGuests /\ inst[i].round \in 0..Rounds
  /\ net \in [Guests -> 0..1] /\ back \in [Guests -> Nat]

(* A client is passed on once, to the service it chose, in the order in    *)
(* which the clients came, and no service has two clients or one that left *)
(* before it chose (inet.c:104-119).                                       *)
PassedRight ==
  /\ \A i, k \in 1..Len(handed) : i < k => handed[i] < handed[k]
  /\ \A i \in 1..Len(inst) : inst[i].guest # 0 => choice[inst[i].guest] = inst[i].service
  /\ \A i, k \in 1..Len(inst) : inst[i].guest # 0 /\ inst[i].guest = inst[k].guest => i = k

(* Client and service stay in step: the service is never more than one     *)
(* round away from a client that is there, and when it has ended, the      *)
(* client has had all its rounds or has left (S1.c:78-86, C.c:29-36).      *)
InStep ==
  \A i \in 1..Len(inst) :
    LET c == inst[i].guest IN
    c # 0 => /\ gStage[c] = "in" => gRound[c] - inst[i].round \in 0..1
             /\ inst[i].stage = "ended" => gRound[c] = Rounds \/ gStage[c] = "gone"

(* Each client is passed to the service it chose and stays in step with it *)
(* (inet.c:103-123).                                                       *)
PassedSafe == PassedRight /\ InStep
=============================================================================
