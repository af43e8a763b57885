---------------------------- MODULE EssAnnounce ----------------------------
(***************************************************************************)
(* 22-3-22_RAW/ESS: the clients of EssHandover with two threads more.      *)
(* send_worker announces "I am client i, I am running currently" on a raw  *)
(* socket as long as i_am_running; recv_worker prints the announcements    *)
(* while its client waits for the session.  The main threads, ess.c and    *)
(* cleaner.c take the steps of EssHandover; the flag is set and cleared    *)
(* between them.                                                           *)
(***************************************************************************)
EXTENDS EssHandover

VARIABLES
  running,   \* i_am_running
  sender,    \* send_worker: "none", "test", "send" or "done"
  listens,   \* clients whose recv_worker runs
  raw,       \* the clients announced on each client's raw socket, not read
  shown,     \* the clients each recv_worker has printed
  late       \* history: announcements sent after i_am_running was cleared

threads == <<sender, listens, raw, shown, late>>
annVars == <<vars, running, threads>>

AInit ==
  /\ Init
  /\ running = [c \in Clients |-> c = FirstClient]
  /\ sender = [c \in Clients |-> "none"]
  /\ listens = {}
  /\ raw = [c \in Clients |-> {}]
  /\ shown = [c \in Clients |-> {}]
  /\ late = [c \in Clients |-> 0]

-----------------------------------------------------------------------------
(* The main thread                                                         *)

(* recv_worker is created first, then the client registers.                *)
ARegister(c) ==
  /\ Register(c)
  /\ listens' = listens \cup {c}
  /\ UNCHANGED <<running, sender, raw, shown, late>>

(* i_am_running = true after recv_fd.                                      *)
ARecvFd(c) ==
  /\ RecvFd(c)
  /\ running' = [running EXCEPT ![c] = TRUE]
  /\ UNCHANGED threads

(* Mutant: send_worker is created before the greeting.                     *)
AHelloAnnounces(c) ==
  /\ Hello(c)
  /\ sender' = [sender EXCEPT ![c] = "test"]
  /\ UNCHANGED <<running, listens, raw, shown, late>>

AHello(c) == Hello(c) /\ UNCHANGED <<running, threads>>

(* pthread_create of send_worker after the answer.                         *)
AReply(c) ==
  /\ Reply(c)
  /\ sender' = [sender EXCEPT ![c] = "test"]
  /\ UNCHANGED <<running, listens, raw, shown, late>>

(* i_am_running = false: first_client.c clears it before it asks for the   *)
(* next client, C.c after that.                                            *)
AStop(c) ==
  /\ running[c]
  /\ pc[c] = IF c = FirstClient THEN "next" ELSE "listen"
  /\ running' = [running EXCEPT ![c] = FALSE]
  /\ UNCHANGED <<vars, threads>>

ATakeNext(c) ==
  /\ c = FirstClient => ~running[c]
  /\ TakeNext(c)
  /\ UNCHANGED <<running, threads>>

(* Mutant: the socket listens while i_am_running is still set.             *)
AListenEarly(c) == Listen(c) /\ UNCHANGED <<running, threads>>

AListen(c) == ~running[c] /\ Listen(c) /\ UNCHANGED <<running, threads>>

(* The end of main, or of a client that waits, ends its threads.           *)
AEnd(c) ==
  /\ Exit(c) \/ Quit(c)
  /\ sender' = [sender EXCEPT ![c] = "none"]
  /\ listens' = listens \ {c}
  /\ UNCHANGED <<running, raw, shown, late>>

(* The steps the threads do not see.                                       *)
AMain(c) ==
  /\ Wait(c) \/ Deliver(c) \/ Connect(c) \/ Kill(c) \/ Accept(c) \/ SendFd(c)
  /\ UNCHANGED <<running, threads>>

AServers == (EssAnswer \/ CleanerTake) /\ UNCHANGED <<running, threads>>

-----------------------------------------------------------------------------
(* The threads                                                             *)

(* The test of i_am_running; the worker of C.c ends, the one of            *)
(* first_client.c tests again for ever.                                    *)
SenderTest(c) ==
  /\ sender[c] = "test"
  /\ running[c] \/ c # FirstClient
  /\ sender' = [sender EXCEPT ![c] = IF running[c] THEN "send" ELSE "done"]
  /\ UNCHANGED <<vars, running, listens, raw, shown, late>>

(* Mutant: four announcements in a row, as in the code that is commented   *)
(* out, without a test in between.                                         *)
SenderSendRepeats(c) ==
  /\ sender[c] = "send" /\ late[c] < 4
  /\ raw' = [d \in Clients |-> IF d \in listens THEN raw[d] \cup {c} ELSE raw[d]]
  /\ late' = [late EXCEPT ![c] = IF running[c] THEN 0 ELSE @ + 1]
  /\ UNCHANGED <<vars, running, sender, listens, shown>>

(* sendto: every raw socket of that protocol gets a copy.                  *)
SenderSend(c) ==
  /\ sender[c] = "send"
  /\ sender' = [sender EXCEPT ![c] = "test"]
  /\ raw' = [d \in Clients |-> IF d \in listens THEN raw[d] \cup {c} ELSE raw[d]]
  /\ late' = [late EXCEPT ![c] = IF running[c] THEN 0 ELSE @ + 1]
  /\ UNCHANGED <<vars, running, listens, shown>>

(* recvfrom and printf, then the test of previous_client_ready_to_accept.  *)
RecvWorker(d) ==
  /\ d \in listens
  /\ \E c \in raw[d] : /\ raw' = [raw EXCEPT ![d] = @ \ {c}]
                       /\ shown' = [shown EXCEPT ![d] = @ \cup {c}]
  /\ listens' = IF flag[d] THEN listens \ {d} ELSE listens
  /\ UNCHANGED <<vars, running, sender, late>>

-----------------------------------------------------------------------------
(* What both programs do with the session, and its announcements.          *)
AUse(c) ==
  \/ AHello(c) \/ AReply(c) \/ AStop(c) \/ ATakeNext(c) \/ AListen(c)
  \/ AMain(c) \/ AEnd(c) \/ SenderTest(c) \/ SenderSend(c)

AFirstClient == AUse(FirstClient)
AC(c) == ARegister(c) \/ ARecvFd(c) \/ AUse(c) \/ RecvWorker(c)

ANext ==
  \/ AFirstClient
  \/ \E c \in Clients \ {FirstClient} : AC(c)
  \/ AServers

ASpec == AInit /\ [][ANext]_annVars

-----------------------------------------------------------------------------
(* Properties                                                              *)

ATypeOK ==
  /\ TypeOK
  /\ running \in [Clients -> BOOLEAN]
  /\ sender \in [Clients -> {"none", "test", "send", "done"}]
  /\ listens \subseteq Clients
  /\ raw \in [Clients -> SUBSET Clients] /\ shown \in [Clients -> SUBSET Clients]

(* At most one client has i_am_running set, and that client holds the      *)
(* session: the flag is cleared before the next client can be called.      *)
OneRunning ==
  \A c \in Clients : running[c] =>
    Owns(c) /\ \A d \in Clients \ {c} : ~running[d]

(* The announcing thread tests the flag and sends afterwards, without a    *)
(* lock: it may announce a client that has stopped, but once only.         *)
LateAtMostOnce == \A c \in Clients : late[c] <= 1

(* Nobody is announced as running before the server has answered it.       *)
AnnouncedWasServed ==
  \A d \in Clients : \A c \in raw[d] \cup shown[d] : heard[c] = c

(* What the other clients are told: at most one client is announced, it    *)
(* has been served, and a stopped one is announced once more at most       *)
(* (C.c:60-75, 138).                                                       *)
AnnounceSafe == ATypeOK /\ OneRunning /\ LateAtMostOnce /\ AnnouncedWasServed
=============================================================================
