---------------------------- MODULE AudioStreams ----------------------------
(***************************************************************************)
(* minor1/Q3-AIO: the server S polls a listening socket and four streams   *)
(* (stdin, the pipe of P1, the FIFO of P2, the popen of P3) and sends what *)
(* it reads to the clients in nsfds[c_start..c_end-1].  SIGUSR1 from P4    *)
(* hands the longest waiting client over to an echo process, in a handler  *)
(* that may run between any two steps of the loop and closes a descriptor  *)
(* whose number the next accept may get again.  Indices start at 1.        *)
(***************************************************************************)
EXTENDS Integers, Sequences, FiniteSets, FiniteSetsExt

CONSTANTS
  NListeners,  \* clients (C); at most MAX_NSFD, beyond it nsfds overflows
  Sources,     \* streams that S reads
  MaxRead,     \* bound: messages that S reads
  MaxUsr1      \* bound: SIGUSR1 sent by P4

(* Clients are numbered in the order in which they connect.                *)
Listeners == 1..NListeners
Nobody == 0
Fds == 1..NListeners
ASSUME AudioConstants ==
  /\ NListeners \in Nat \ {0} /\ IsFiniteSet(Sources) /\ "sfd" \notin Sources
  /\ MaxRead \in Nat /\ MaxUsr1 \in Nat

VARIABLES
  pcS,       \* S: "open", "listen", "snapshot", "poll", "loop", "send" or "dead"
  nsfds,     \* the descriptor table of S's program, in order of arrival
  nsfd_start,
  c_start, c_end, \* what S copied before it called poll
  todo,      \* what poll reported and the loop has not visited yet
  j,         \* index of the loop over the clients
  table,     \* the kernel's table: the client behind each descriptor
  client,    \* "out", "queued", "in" or "gone"
  stream,    \* per source: "quiet", "data" or "ended"
  msg,       \* number of messages read so far
  got,       \* per client the messages that S sent to it
  usr1,      \* SIGUSR1 is pending
  sent1,     \* SIGUSR1 sent so far
  echoed,    \* history: the clients in the order of the hand-over
  cut        \* history: how many messages a client had at its hand-over

audioVars == <<pcS, nsfds, nsfd_start, c_start, c_end, todo, j, table, client,
               stream, msg, got, usr1, sent1, echoed, cut>>

AudioInit ==
  /\ pcS = "open" /\ nsfds = <<>> /\ nsfd_start = 1
  /\ c_start = 1 /\ c_end = 1 /\ todo = {} /\ j = 1
  /\ table = [f \in Fds |-> Nobody]
  /\ client = [c \in Listeners |-> "out"]
  /\ stream = [s \in Sources |-> "quiet"]
  /\ msg = 0 /\ got = [c \in Listeners |-> <<>>]
  /\ usr1 = FALSE /\ sent1 = 0
  /\ echoed = <<>> /\ cut = [c \in Listeners |-> 0]

-----------------------------------------------------------------------------
(* The programs around S                                                   *)

(* P1, P2 and P3 write every four seconds, the user types; a stream whose  *)
(* writer is gone reports POLLIN for ever and read returns 0.              *)
Produce(s) ==
  /\ stream[s] = "quiet" /\ pcS # "open"
  /\ \/ /\ msg + Cardinality({x \in Sources : stream[x] = "data"}) < MaxRead
        /\ stream' = [stream EXCEPT ![s] = "data"]
     \/ stream' = [stream EXCEPT ![s] = "ended"]
  /\ UNCHANGED <<pcS, nsfds, nsfd_start, c_start, c_end, todo, j, table, client,
                 msg, got, usr1, sent1, echoed, cut>>

ClientConnects(c) ==
  /\ client[c] = "out" /\ \A b \in 1..(c-1) : client[b] # "out"
  /\ pcS \notin {"open", "listen", "dead"}
  /\ client' = [client EXCEPT ![c] = "queued"]
  /\ UNCHANGED <<pcS, nsfds, nsfd_start, c_start, c_end, todo, j, table, stream,
                 msg, got, usr1, sent1, echoed, cut>>

(* The user stops C, or recv returns 0 or less.                            *)
ClientQuits(c) ==
  /\ client[c] = "in"
  /\ client' = [client EXCEPT ![c] = "gone"]
  /\ UNCHANGED <<pcS, nsfds, nsfd_start, c_start, c_end, todo, j, table, stream,
                 msg, got, usr1, sent1, echoed, cut>>

(* P4: the user asks for a hand-over; a second signal that finds the first *)
(* still pending is merged with it.                                        *)
Kill ==
  /\ sent1 < MaxUsr1 /\ pcS \notin {"open", "dead"}
  /\ usr1' = TRUE /\ sent1' = sent1 + 1
  /\ UNCHANGED <<pcS, nsfds, nsfd_start, c_start, c_end, todo, j, table, client,
                 stream, msg, got, echoed, cut>>

-----------------------------------------------------------------------------
(* S                                                                       *)

(* signal; p1_init, p2_init (waits until P2 has the FIFO open), p3_init.   *)
OpenStreams ==
  /\ pcS = "open" /\ pcS' = "listen"
  /\ UNCHANGED <<nsfds, nsfd_start, c_start, c_end, todo, j, table, client,
                 stream, msg, got, usr1, sent1, echoed, cut>>

(* sock_tcp_init: clients can connect from now on.                         *)
Listen ==
  /\ pcS = "listen" /\ pcS' = "snapshot"
  /\ UNCHANGED <<nsfds, nsfd_start, c_start, c_end, todo, j, table, client,
                 stream, msg, got, usr1, sent1, echoed, cut>>

(* Mutant: one past the last client.                                       *)
CountPast == Len(nsfds) + 2
Count == Len(nsfds) + 1

Snapshot ==
  /\ pcS = "snapshot" /\ pcS' = "poll"
  /\ c_start' = nsfd_start /\ c_end' = Count
  /\ UNCHANGED <<nsfds, nsfd_start, todo, j, table, client, stream, msg, got,
                 usr1, sent1, echoed, cut>>

Ready == {s \in Sources : stream[s] # "quiet"}
         \cup (IF \E c \in Listeners : client[c] = "queued" THEN {"sfd"} ELSE {})

Poll ==
  /\ pcS = "poll" /\ Ready # {}
  /\ pcS' = "loop" /\ todo' = Ready
  /\ UNCHANGED <<nsfds, nsfd_start, c_start, c_end, j, table, client, stream,
                 msg, got, usr1, sent1, echoed, cut>>

(* i = 0 is visited first: accept takes the client that waits longest and  *)
(* the lowest free descriptor.                                             *)
Accept ==
  /\ pcS = "loop" /\ "sfd" \in todo
  /\ LET c == Min({x \in Listeners : client[x] = "queued"})
         f == Min({x \in Fds : table[x] = Nobody})
     IN /\ client' = [client EXCEPT ![c] = "in"]
        /\ table' = [table EXCEPT ![f] = c]
        /\ nsfds' = Append(nsfds, f)
  /\ todo' = todo \ {"sfd"}
  /\ UNCHANGED <<pcS, nsfd_start, c_start, c_end, j, stream, msg, got, usr1,
                 sent1, echoed, cut>>

(* i > 0: read; nothing is sent when read returns 0.                       *)
Read ==
  /\ pcS = "loop" /\ "sfd" \notin todo
  /\ \E s \in todo :
       /\ todo' = todo \ {s}
       /\ IF stream[s] = "data"
          THEN /\ stream' = [stream EXCEPT ![s] = "quiet"]
               /\ msg' = msg + 1 /\ j' = c_start /\ pcS' = "send"
          ELSE UNCHANGED <<stream, msg, j, pcS>>
  /\ UNCHANGED <<nsfds, nsfd_start, c_start, c_end, table, client, got, usr1,
                 sent1, echoed, cut>>

(* Mutant: the loop over the clients goes up to nsfd_count.                *)
LoopEndLive == Len(nsfds) + 1
(* Mutant: the last client is left out.                                    *)
LoopEndShort == c_end - 1
LoopEnd == c_end

(* send(nsfds[j], msg, sizeof(msg), 0): EBADF when the handler has closed  *)
(* the descriptor; SIGPIPE ends S when the client is known to be gone (the *)
(* flags are 0), which the kernel may learn late.                          *)
Send ==
  /\ pcS = "send" /\ j < LoopEnd
  /\ LET c == table[nsfds[j]] IN
       IF c = Nobody THEN j' = j + 1 /\ UNCHANGED <<pcS, got>>
       ELSE IF client[c] = "gone"
            THEN /\ \/ pcS' = "dead" /\ j' = j
                    \/ pcS' = pcS /\ j' = j + 1
                 /\ UNCHANGED got
            ELSE /\ got' = [got EXCEPT ![c] = Append(@, msg)]
                 /\ j' = j + 1 /\ UNCHANGED pcS
  /\ UNCHANGED <<nsfds, nsfd_start, c_start, c_end, todo, table, client, stream,
                 msg, usr1, sent1, echoed, cut>>

SendDone ==
  /\ pcS = "send" /\ j >= LoopEnd
  /\ pcS' = "loop"
  /\ UNCHANGED <<nsfds, nsfd_start, c_start, c_end, todo, j, table, client,
                 stream, msg, got, usr1, sent1, echoed, cut>>

LoopDone ==
  /\ pcS = "loop" /\ todo = {}
  /\ pcS' = "snapshot"
  /\ UNCHANGED <<nsfds, nsfd_start, c_start, c_end, todo, j, table, client,
                 stream, msg, got, usr1, sent1, echoed, cut>>

(* Mutant: the parent keeps its copy of the descriptor.                    *)
CloseForgotten(f) == UNCHANGED table
Close(f) == table' = [table EXCEPT ![f] = Nobody]

(* Mutant: the client that came last is handed over.                       *)
FirstLast == Len(nsfds)
First == nsfd_start

(* sig_usr1_handler.  echo_start goes to a client that may be gone. fork   *)
(* and execvp of E, which holds the client's socket from now on.  When S   *)
(* was asleep in poll, poll fails with EINTR, no revents are set, and the  *)
(* loop takes a new snapshot; otherwise S goes on where it was.            *)
Handler ==
  /\ usr1 /\ pcS # "dead" /\ usr1' = FALSE
  /\ \/ UNCHANGED pcS
     \/ pcS = "poll" /\ Ready = {} /\ pcS' = "snapshot"
     \/ /\ nsfd_start <= Len(nsfds) /\ client[table[nsfds[First]]] = "gone"
        /\ pcS' = "dead"
  /\ IF nsfd_start > Len(nsfds)
     THEN UNCHANGED <<nsfd_start, table, echoed, cut>>
     ELSE LET f == nsfds[First]
              c == table[f] IN
          /\ nsfd_start' = nsfd_start + 1
          /\ IF pcS' = "dead" THEN UNCHANGED <<table, echoed, cut>>
             ELSE /\ Close(f)
                  /\ echoed' = Append(echoed, c)
                  /\ cut' = [cut EXCEPT ![c] = Len(got[c])]
  /\ UNCHANGED <<nsfds, c_start, c_end, todo, j, client, stream, msg, got, sent1>>

AudioNext ==
  \/ \E s \in Sources : Produce(s)
  \/ \E c \in Listeners : ClientConnects(c) \/ ClientQuits(c)
  \/ Kill \/ OpenStreams \/ Listen \/ Snapshot \/ Poll \/ Accept \/ Read
  \/ Send \/ SendDone \/ LoopDone \/ Handler

AudioSpec == AudioInit /\ [][AudioNext]_audioVars

-----------------------------------------------------------------------------
(* Properties                                                              *)

AudioTypeOK ==
  /\ pcS \in {"open", "listen", "snapshot", "poll", "loop", "send", "dead"}
  /\ nsfds \in Seq(Fds) /\ nsfd_start \in 1..(Len(nsfds) + 1)
  /\ c_end \in 1..(Len(nsfds) + 1) /\ c_start \in 1..nsfd_start
  /\ table \in [Fds -> Listeners \cup {Nobody}]
  /\ client \in [Listeners -> {"out", "queued", "in", "gone"}]
  /\ stream \in [Sources -> {"quiet", "data", "ended"}]
  /\ msg \in 0..MaxRead

(* S sends a message to a client at most once and in the order in which it *)
(* read them, although the handler closes descriptors during the loop and  *)
(* accept reuses their numbers: the old and the new entry of one number    *)
(* never lie in the same range nsfds[c_start..c_end-1] (S.c:55, 79).       *)
NoRepeat == \A c \in Listeners : \A k \in 2..Len(got[c]) : got[c][k-1] < got[c][k]

(* When the loop over the clients ends, every client that was there when   *)
(* poll was called, is still waiting and has not left has the message.     *)
(* (S.c:79-85; a hand-over in the middle of the loop skips nobody else.)   *)
NobodySkipped ==
  pcS = "send" /\ j >= LoopEnd =>
    \A k \in nsfd_start..(c_end - 1) :
      LET c == table[nsfds[k]] IN
      client[c] = "gone" \/ (got[c] # <<>> /\ got[c][Len(got[c])] = msg)

(* A client that was handed over to the echo process gets nothing more     *)
(* from S, also when its descriptor's number is used again or the loop     *)
(* still has it in its range.                                              *)
EchoAlone ==
  \A k \in 1..Len(echoed) : Len(got[echoed[k]]) = cut[echoed[k]]

(* "first cum first basis order of nsfd clients" (S.c:19): clients are     *)
(* handed over in the order in which they were accepted, each once.        *)
EchoInOrder == \A k \in 1..Len(echoed) : echoed[k] = k

(* Clients of S get every message once and in order until they are handed  *)
(* over, in the order they came, and nothing from S afterwards, although   *)
(* the handler closes descriptors under the running loop (S.c:55-85,       *)
(* 151-162).                                                               *)
StreamsSafe == NoRepeat /\ NobodySkipped /\ EchoAlone /\ EchoInOrder
=============================================================================
