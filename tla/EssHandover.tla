---------------------------- MODULE EssHandover ----------------------------
(***************************************************************************)
(* The ESS clients of 11-2-22/ESS (the same programs are in                *)
(* minor1/Q2-ESS): first_client.c opens the only TCP session with ess.c;   *)
(* every other client (C.c) registers its pid in a System V queue and      *)
(* sleeps until the client before it signals it, connects to that client   *)
(* over a Unix socket and receives the session's descriptor.  cleaner.c    *)
(* takes registrations out of the same queue.                              *)
(***************************************************************************)
EXTENDS Integers, Sequences, FiniteSets

CONSTANTS
  Clients,       \* one pid per run of first_client.c or C.c
  FirstClient,   \* the run of first_client.c
  Nobody,
  CleanerRuns,   \* whether cleaner.c was started
  MaxQuits       \* how many waiting clients the user may interrupt

ASSUME EssConstants ==
  /\ FirstClient \in Clients
  /\ Nobody \notin Clients
  /\ CleanerRuns \in BOOLEAN
  /\ MaxQuits \in Nat

VARIABLES
  pc,         \* control state of each client
  flag,       \* previous_client_ready_to_accept, set by the handler
  pending,    \* clients with a SIGUSR1 not yet delivered
  mq,         \* the message queue: registered pids
  nextPid,    \* next_client_pid of each client
  path,       \* the client whose socket uds_path names
  backlog,    \* connections on each client's listening socket
  conn,       \* unsfd: the client behind the accepted connection
  transit,    \* clients to whom the descriptor was sent
  toServer,   \* greetings ess.c has not read, by sender
  toClient,   \* its answers, by the client they answer
  heard,      \* the answer each client read from the session
  quits       \* waiting clients interrupted so far

mainVars == <<nextPid, path, backlog, conn>>
sessionIO == <<toServer, toClient, heard>>
signalVars == <<flag, pending>>
vars == <<pc, signalVars, mq, mainVars, transit, sessionIO, quits>>

Init ==
  /\ pc = [c \in Clients |-> IF c = FirstClient THEN "hello" ELSE "start"]
  /\ flag = [c \in Clients |-> FALSE]
  /\ pending = {}
  /\ mq = <<>>
  /\ nextPid = [c \in Clients |-> Nobody]
  /\ path = Nobody
  /\ backlog = [c \in Clients |-> <<>>]
  /\ conn = [c \in Clients |-> Nobody]
  /\ transit = {}
  /\ toServer = <<>>
  /\ toClient = <<>>
  /\ heard = [c \in Clients |-> Nobody]
  /\ quits = 0

Goto(c, from, to) == pc[c] = from /\ pc' = [pc EXCEPT ![c] = to]

(* Mutant: the message is sent before the pid is printed into it.          *)
RegisterBlank(c) ==
  /\ Goto(c, "start", "test")
  /\ mq' = Append(mq, Nobody)
  /\ UNCHANGED <<signalVars, mainVars, transit, sessionIO, quits>>

-----------------------------------------------------------------------------
(* C.c: register and wait for the signal                                   *)

Register(c) ==
  /\ Goto(c, "start", "test")
  /\ mq' = Append(mq, c)
  /\ UNCHANGED <<signalVars, mainVars, transit, sessionIO, quits>>

(* while (previous_client_ready_to_accept == -1): the condition is read,   *)
(* then pause() is called; the handler may run in between.                 *)
TestFlag(c) ==
  /\ Goto(c, "test", IF flag[c] THEN "connect" ELSE "pausing")
  /\ UNCHANGED <<signalVars, mq, mainVars, transit, sessionIO, quits>>

Pause(c) ==
  /\ Goto(c, "pausing", "asleep")
  /\ UNCHANGED <<signalVars, mq, mainVars, transit, sessionIO, quits>>

(* Mutant: the handler does not set the flag.                              *)
DeliverNoFlag(c) ==
  /\ c \in pending
  /\ pending' = pending \ {c}
  /\ pc' = IF pc[c] = "asleep" THEN [pc EXCEPT ![c] = "test"] ELSE pc
  /\ UNCHANGED <<flag, mq, mainVars, transit, sessionIO, quits>>

(* sig_usr1_handler; it ends a pause() that has begun.                     *)
Deliver(c) ==
  /\ c \in pending
  /\ pending' = pending \ {c}
  /\ flag' = [flag EXCEPT ![c] = TRUE]
  /\ pc' = IF pc[c] = "asleep" THEN [pc EXCEPT ![c] = "test"] ELSE pc
  /\ UNCHANGED <<mq, mainVars, transit, sessionIO, quits>>

(* The user interrupts a client that waits; its pid stays in the queue.    *)
Quit(c) ==
  /\ quits < MaxQuits
  /\ pc[c] \in {"test", "pausing", "asleep"}
  /\ pc' = [pc EXCEPT ![c] = "gone"]
  /\ quits' = quits + 1
  /\ pending' = pending \ {c}
  /\ UNCHANGED <<flag, mq, mainVars, transit, sessionIO>>

-----------------------------------------------------------------------------
(* Receiving the session and using it                                      *)

Listening(c) == pc[c] \in {"kill", "accept", "pass", "exit"}

(* cli_uds_conn: handle_error ends the client when nobody listens.         *)
Connect(c) ==
  LET up == path # Nobody /\ Listening(path) IN
  /\ Goto(c, "connect", IF up THEN "receive" ELSE "gone")
  /\ backlog' = IF up THEN [backlog EXCEPT ![path] = Append(@, c)] ELSE backlog
  /\ UNCHANGED <<signalVars, mq, nextPid, path, conn, transit, sessionIO, quits>>

RecvFd(c) ==
  /\ Goto(c, "receive", "hello")
  /\ c \in transit
  /\ transit' = transit \ {c}
  /\ UNCHANGED <<signalVars, mq, mainVars, sessionIO, quits>>

(* Mutant: the client does not wait for the answer.                        *)
ReplyNoWait(c) ==
  /\ Goto(c, "reply", "next")
  /\ IF toClient = <<>>
       THEN UNCHANGED <<heard, toClient>>
       ELSE /\ heard' = [heard EXCEPT ![c] = Head(toClient)]
            /\ toClient' = Tail(toClient)
  /\ UNCHANGED <<signalVars, mq, mainVars, transit, toServer, quits>>

Hello(c) ==
  /\ Goto(c, "hello", "reply")
  /\ toServer' = Append(toServer, c)
  /\ UNCHANGED <<signalVars, mq, mainVars, transit, toClient, heard, quits>>

Reply(c) ==
  /\ Goto(c, "reply", "next")
  /\ toClient # <<>>
  /\ heard' = [heard EXCEPT ![c] = Head(toClient)]
  /\ toClient' = Tail(toClient)
  /\ UNCHANGED <<signalVars, mq, mainVars, transit, toServer, quits>>

(* ess.c: one turn of its loop.                                            *)
EssAnswer ==
  /\ toServer # <<>>
  /\ toClient' = Append(toClient, Head(toServer))
  /\ toServer' = Tail(toServer)
  /\ UNCHANGED <<pc, signalVars, mq, mainVars, transit, heard, quits>>

(* Mutant: the successor is signalled before the socket listens.           *)
TakeNextSignals(c) ==
  /\ Goto(c, "next", "listen")
  /\ mq # <<>>
  /\ nextPid' = [nextPid EXCEPT ![c] = Head(mq)]
  /\ pending' = pending \cup {Head(mq)}
  /\ mq' = Tail(mq)
  /\ UNCHANGED <<flag, path, backlog, conn, transit, sessionIO, quits>>

(* Mutant: the client that registered last is served first.                *)
TakeNextLast(c) ==
  /\ Goto(c, "next", "listen")
  /\ mq # <<>>
  /\ nextPid' = [nextPid EXCEPT ![c] = mq[Len(mq)]]
  /\ mq' = SubSeq(mq, 1, Len(mq) - 1)
  /\ UNCHANGED <<signalVars, path, backlog, conn, transit, sessionIO, quits>>

-----------------------------------------------------------------------------
(* Passing the session on                                                  *)

TakeNext(c) ==
  /\ Goto(c, "next", "listen")
  /\ mq # <<>>
  /\ nextPid' = [nextPid EXCEPT ![c] = Head(mq)]
  /\ mq' = Tail(mq)
  /\ UNCHANGED <<signalVars, path, backlog, conn, transit, sessionIO, quits>>

(* serv_uds_listen: unlink and bind give the path to this client.          *)
Listen(c) ==
  /\ Goto(c, "listen", "kill")
  /\ path' = c
  /\ UNCHANGED <<signalVars, mq, nextPid, backlog, conn, transit, sessionIO,
                 quits>>

(* Mutant: the signal goes to every waiting client.                        *)
KillAll(c) ==
  /\ Goto(c, "kill", "accept")
  /\ pending' = {d \in Clients : pc[d] \in {"test", "pausing", "asleep"}}
  /\ UNCHANGED <<flag, mq, mainVars, transit, sessionIO, quits>>

(* kill(next_client_pid, SIGUSR1); its result is not looked at.            *)
Kill(c) ==
  /\ Goto(c, "kill", "accept")
  /\ pending' = IF pc[nextPid[c]] = "gone" THEN pending
                                           ELSE pending \cup {nextPid[c]}
  /\ UNCHANGED <<flag, mq, mainVars, transit, sessionIO, quits>>

(* Mutant: the client goes on instead of exiting.                          *)
SendFdStays(c) ==
  /\ Goto(c, "pass", "hello")
  /\ transit' = transit \cup {conn[c]}
  /\ UNCHANGED <<signalVars, mq, mainVars, sessionIO, quits>>

Accept(c) ==
  /\ Goto(c, "accept", "pass")
  /\ backlog[c] # <<>>
  /\ conn' = [conn EXCEPT ![c] = Head(backlog[c])]
  /\ backlog' = [backlog EXCEPT ![c] = Tail(@)]
  /\ UNCHANGED <<signalVars, mq, nextPid, path, transit, sessionIO, quits>>

SendFd(c) ==
  /\ Goto(c, "pass", "exit")
  /\ transit' = transit \cup {conn[c]}
  /\ UNCHANGED <<signalVars, mq, mainVars, sessionIO, quits>>

Exit(c) ==
  /\ Goto(c, "exit", "gone")
  /\ UNCHANGED <<signalVars, mq, mainVars, transit, sessionIO, quits>>

(* cleaner.c: msgrcv in an endless loop.                                   *)
CleanerTake ==
  /\ CleanerRuns
  /\ mq # <<>>
  /\ mq' = Tail(mq)
  /\ UNCHANGED <<pc, signalVars, mainVars, transit, sessionIO, quits>>

-----------------------------------------------------------------------------
Wait(c) == TestFlag(c) \/ Pause(c)
Use(c) == Connect(c) \/ RecvFd(c) \/ Hello(c) \/ Reply(c)
PassOn(c) ==
  TakeNext(c) \/ Listen(c) \/ Kill(c) \/ Accept(c) \/ SendFd(c) \/ Exit(c)

(* The two client programs: the first begins with the session in hand.     *)
first_client == Hello(FirstClient) \/ Reply(FirstClient) \/ PassOn(FirstClient)
C(c) == Register(c) \/ Wait(c) \/ Deliver(c) \/ Use(c) \/ PassOn(c)

Next ==
  \/ first_client
  \/ \E c \in Clients \ {FirstClient} : C(c) \/ Quit(c)
  \/ EssAnswer
  \/ CleanerTake

Spec == Init /\ [][Next]_vars

(* The programs run, signals arrive; nobody must start a client or quit.   *)
Fairness ==
  /\ \A c \in Clients : /\ WF_vars(Wait(c) \/ Use(c) \/ PassOn(c))
                        /\ WF_vars(Deliver(c))
  /\ WF_vars(EssAnswer)

FairSpec == Spec /\ Fairness

-----------------------------------------------------------------------------
(* Properties                                                              *)

(* Pids in queues are pids of clients; control states are the programs'.   *)
TypeOK ==
  /\ pc \in [Clients -> {"start", "test", "pausing", "asleep", "connect",
                         "receive", "hello", "reply", "next", "listen", "kill",
                         "accept", "pass", "exit", "gone"}]
  /\ flag \in [Clients -> BOOLEAN]
  /\ pending \subseteq Clients
  /\ mq \in Seq(Clients)
  /\ nextPid \in [Clients -> Clients \cup {Nobody}]
  /\ path \in Clients \cup {Nobody}
  /\ backlog \in [Clients -> Seq(Clients)]
  /\ conn \in [Clients -> Clients \cup {Nobody}]
  /\ transit \subseteq Clients
  /\ toServer \in Seq(Clients)
  /\ toClient \in Seq(Clients)
  /\ heard \in [Clients -> Clients \cup {Nobody}]
  /\ quits \in 0..MaxQuits

(* A client owns the session from the descriptor's dispatch to it until    *)
(* its own send_fd.                                                        *)
Owning == {"hello", "reply", "next", "listen", "kill", "accept", "pass"}
Owns(c) == pc[c] \in Owning \/ c \in transit

(* The session is never shared and never lost: in every state exactly one  *)
(* client owns it.                                                         *)
OneOwner ==
  /\ \E c \in Clients : Owns(c)
  /\ \A c, d \in Clients : Owns(c) /\ Owns(d) => c = d

(* C.c "accept only after killing, so that we are sure that we are         *)
(* accepting connection of the next(first) client of the message queue".   *)
AcceptsTheSignalled ==
  \A c \in Clients : pc[c] = "pass" => conn[c] = nextPid[c]

(* ess.c answers into the one session whoever holds it: each client reads  *)
(* the answer to its own greeting all the same.                            *)
AnswerIsMine == \A c \in Clients : heard[c] \in {Nobody, c}

(* No client dies in cli_uds_conn: whoever was signalled finds a listener. *)
ConnectSucceeds ==
  \A c \in Clients : pc[c] = "connect" => path # Nobody /\ Listening(path)

(* The programs implement the exclusive, first-come first-served session.  *)
owner == CHOOSE c \in Clients : Owns(c)
successor == IF pc[owner] \in {"listen", "kill", "accept", "pass"}
               THEN nextPid[owner] ELSE Nobody
Session == INSTANCE EssSession WITH holder <- owner, chosen <- successor,
                                    waiting <- mq
SessionSafe == Session!SessionSpec

(* A client whose signal finds it inside pause() gets the session and an   *)
(* answer from the server, unless the user interrupts it first.            *)
WokenIsServed ==
  \A c \in Clients :
    pc[c] = "asleep" /\ c \in pending
      ~> heard[c] # Nobody \/ (pc[c] = "gone" /\ quits > 0)

(* algo.txt "client will send connect request after recieving signal": a   *)
(* signalled client goes on to connect.                                    *)
SignalledConnects ==
  \A c \in Clients : c \in pending ~> pc[c] = "receive"

(* The hand-over as a whole: one owner, who passes the session to the      *)
(* client it signalled, whom it never keeps from connecting (C.c:84-92),   *)
(* and every answer goes to the client that greeted.                       *)
HandoverSafe == OneOwner /\ AcceptsTheSignalled /\ ConnectSucceeds /\ AnswerIsMine
=============================================================================
