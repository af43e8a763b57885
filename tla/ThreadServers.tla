---------------------------- MODULE ThreadServers ---------------------------
(***************************************************************************)
(* Servers with a thread or a process for every connection.  Which one     *)
(* runs is chosen in TSInit:                                               *)
(*   "poll"    27-1-22/multisfd_poll: three ports, a service each          *)
(*   "thread"  practice/socket/threaded                                    *)
(*   "choose"  practice/socket/choose_server: a thread asks for a service  *)
(*             and forks a process that executes it                        *)
(*   "fork"    practice/socket/fork                                        *)
(* The threads get the ADDRESS of the accepting loop's nsfd and read it    *)
(* when they first run, perhaps after the next accept.  A forked process   *)
(* has a copy.  A service is the sequence of its socket calls; accept,     *)
(* pthread_create and fork do not fail.                                    *)
(***************************************************************************)
EXTENDS Integers, Sequences, FiniteSets, FiniteSetsExt

CONSTANTS
  NCallers,  \* clients
  Kinds,     \* the servers to check
  Wanted     \* the services that clients ask for, of 1, 2 and 3

(* Clients are numbered in the order in which they connect.                *)
Callers == 1..NCallers
NoCaller == 0

ASSUME ThreadConstants ==
  /\ NCallers \in Nat \ {0}
  /\ Wanted \subseteq 1..3 /\ Wanted # {}
  /\ Kinds \subseteq {"poll", "thread", "choose", "fork"}

VARIABLES
  kind,
  ports,    \* "poll": ports that poll reported and the loop has not visited
  shared,   \* nsfd of the accepting loop
  fdTable,  \* the server's descriptors: the client behind each
  thr,      \* the threads or processes, in the order of their creation
  caller,   \* per client: step in its script; -1 is "out", 0 is "queued"
  want,     \* per client: port or choice
  up, down, \* bytes on their way: lines to the server, threads that answered
  heard,    \* per client: the threads whose messages it received
  dead,     \* SIGPIPE has ended the server
  raced     \* history: a thread read a descriptor that was not its own

tsVars == <<kind, ports, shared, fdTable, thr, caller, want, up, down, heard, dead, raced>>

Services == IF kind \in {"poll", "choose"} THEN Wanted ELSE {1}

(* The services as sequences of socket calls.                              *)
ServiceLines == <<"send", "lines", "close">>
(* Mutant: the answer is sent twice.                                       *)
ServiceConvertTwice == <<"send", "recv", "send", "send", "close">>
ServiceConvert == <<"send", "recv", "send", "close">>
ChoiceThread == <<"send", "recv">>
ReverseString == <<"send", "recv", "send", "close">>
SmallToCapital == <<"send", "recv", "send", "close">>
ServerThread == <<"recv", "send", "close">>
ForkedService == <<"recv", "send", "close">>

Script(p) ==
  [poll |-> IF p = 1 THEN ServiceLines ELSE ServiceConvert,
   choose |-> ChoiceThread \o
                (IF p = 3 THEN <<"send", "end">>
                 ELSE <<"fork">> \o (IF p = 1 THEN ReverseString ELSE SmallToCapital)),
   thread |-> ServerThread,
   fork |-> ForkedService][kind]

(* The clients in the same way.                                            *)
PollClient(p) == IF p = 1 THEN <<"recv", "send", "send">> ELSE <<"recv", "send", "recv">>
ChooseClient == <<"recv", "send", "recv", "send", "recv">>
ThreadClient == <<"send", "recv">>
ForkClient == <<"send", "recv">>

ClientScript(p) ==
  [poll |-> PollClient(p), choose |-> ChooseClient,
   thread |-> ThreadClient, fork |-> ForkClient][kind]

TSInit ==
  /\ kind \in Kinds
  /\ ports = {} /\ shared = 0
  /\ fdTable = [f \in 1..NCallers |-> NoCaller]
  /\ thr = <<>>
  /\ caller = [c \in Callers |-> -1] /\ want = [c \in Callers |-> 0]
  /\ up = [c \in Callers |-> 0] /\ down = [c \in Callers |-> <<>>]
  /\ heard = [c \in Callers |-> <<>>]
  /\ dead = FALSE /\ raced = FALSE

-----------------------------------------------------------------------------
(* Clients                                                                 *)

Connected(c) == caller[c] > 0
Finished(c) == Connected(c) /\ caller[c] > Len(ClientScript(want[c]))

Connect(c) ==
  /\ caller[c] = -1 /\ ~dead /\ \A b \in 1..(c-1) : caller[b] # -1
  /\ caller' = [caller EXCEPT ![c] = 0]
  /\ \E p \in Services : want' = [want EXCEPT ![c] = p]
  /\ UNCHANGED <<kind, ports, shared, fdTable, thr, up, down, heard, dead, raced>>

(* The client behind a thread's descriptor; a forked process has its own.  *)
Behind(t) == IF thr[t].sock # NoCaller THEN thr[t].sock
             ELSE IF thr[t].fd = 0 THEN NoCaller ELSE fdTable[thr[t].fd]

(* No descriptor of the server leads to c any more.                        *)
Closed(c) ==
  dead \/ /\ \A f \in DOMAIN fdTable : fdTable[f] # c
          /\ \A t \in 1..Len(thr) : thr[t].sock # c \/ thr[t].step = 0

(* One call of the client: a recv on a closed connection returns 0.        *)
ClientStep(c) ==
  /\ Connected(c) /\ ~Finished(c)
  /\ \/ /\ ClientScript(want[c])[caller[c]] = "send"
        /\ up' = [up EXCEPT ![c] = @ + 1] /\ UNCHANGED <<down, heard>>
     \/ /\ ClientScript(want[c])[caller[c]] = "recv"
        /\ \/ /\ down[c] # <<>>
              /\ down' = [down EXCEPT ![c] = Tail(@)]
              /\ heard' = [heard EXCEPT ![c] = Append(@, Head(down[c]))]
           \/ /\ down[c] = <<>> /\ Closed(c)
              /\ UNCHANGED <<down, heard>>
        /\ UNCHANGED up
  /\ caller' = [caller EXCEPT ![c] = @ + 1]
  /\ UNCHANGED <<kind, ports, shared, fdTable, thr, want, dead, raced>>

-----------------------------------------------------------------------------
(* The accepting loop                                                      *)

(* "poll": the ports with a connection are visited in ascending order.     *)
PollPorts ==
  LET ready == {want[c] : c \in {x \in Callers : caller[x] = 0}}
  IN /\ kind = "poll" /\ ~dead /\ ports = {} /\ ready # {}
     /\ ports' = ready
     /\ UNCHANGED <<kind, shared, fdTable, thr, caller, want, up, down, heard, dead, raced>>

(* fork: the child has a copy of nsfd, the parent closes its own.          *)
ForkConn(c, f) ==
  /\ thr' = Append(thr, [p |-> 1, mine |-> c, fd |-> f, sock |-> c, step |-> 1])
  /\ UNCHANGED <<shared, fdTable>>

(* Mutant: the services of the first and the last port are exchanged.      *)
ThreadConnSwapped(c, f) ==
  /\ shared' = f /\ fdTable' = [fdTable EXCEPT ![f] = c]
  /\ thr' = Append(thr, [p |-> IF kind = "poll" THEN 4 - want[c] ELSE 1,
                         mine |-> c, fd |-> 0, sock |-> NoCaller, step |-> 1])

(* pthread_create with the address of nsfd.                                *)
ThreadConn(c, f) ==
  /\ shared' = f /\ fdTable' = [fdTable EXCEPT ![f] = c]
  /\ thr' = Append(thr, [p |-> IF kind = "poll" THEN want[c] ELSE 1,
                         mine |-> c, fd |-> 0, sock |-> NoCaller, step |-> 1])

(* accept gives the client that has waited longest at its port and the     *)
(* lowest free descriptor.                                                 *)
AcceptConn ==
  /\ ~dead
  /\ \E c \in Callers :
       /\ caller[c] = 0
       /\ \A b \in 1..(c-1) : caller[b] # 0 \/ (kind = "poll" /\ want[b] # want[c])
       /\ kind = "poll" => ports # {} /\ want[c] = Min(ports)
       /\ caller' = [caller EXCEPT ![c] = 1]
       /\ LET f == Min({x \in DOMAIN fdTable : fdTable[x] = NoCaller}) IN
            IF kind = "fork" THEN ForkConn(c, f) ELSE ThreadConn(c, f)
       /\ ports' = ports \ {want[c]}
  /\ UNCHANGED <<kind, want, up, down, heard, dead, raced>>

-----------------------------------------------------------------------------
(* Threads                                                                 *)

Call(t) == IF thr[t].step = 0 THEN "done" ELSE Script(thr[t].p)[thr[t].step]
Go(t) == thr' = [thr EXCEPT ![t].step = @ + 1]
(* Mutant: the thread does not return.                                     *)
StopNot(t) == thr' = [thr EXCEPT ![t].step = @ + 1]
Stop(t) == thr' = [thr EXCEPT ![t].step = 0]
Runs(t, call) == ~dead /\ thr[t].fd # 0 /\ Call(t) = call

(* int nsfd = *(int* )arg                                                  *)
ReadNsfd(t) ==
  /\ ~dead /\ thr[t].fd = 0
  /\ thr' = [thr EXCEPT ![t].fd = shared]
  /\ raced' = (raced \/ fdTable[shared] # thr[t].mine)
  /\ UNCHANGED <<kind, ports, shared, fdTable, caller, want, up, down, heard, dead>>

(* The flags are 0: a message to a client that has closed may raise        *)
(* SIGPIPE, in a process of its own or in the server.                      *)
SendMsg(t) ==
  /\ Runs(t, "send")
  /\ LET c == Behind(t) IN
     IF c = NoCaller THEN Go(t) /\ UNCHANGED <<down, dead>>
     ELSE IF Finished(c)
          THEN /\ \/ Go(t) /\ UNCHANGED dead
                  \/ thr[t].sock # NoCaller /\ Stop(t) /\ UNCHANGED dead
                  \/ thr[t].sock = NoCaller /\ dead' = TRUE /\ UNCHANGED thr
               /\ UNCHANGED down
          ELSE /\ down' = [down EXCEPT ![c] = Append(@, t)]
               /\ Go(t) /\ UNCHANGED dead
  /\ UNCHANGED <<kind, ports, shared, fdTable, caller, want, up, heard, raced>>

(* recv: a line, 0 when the client has closed, or -1 on a closed           *)
(* descriptor, at which "thread" returns without close.  The line that     *)
(* "choose" reads is the choice; after -1 the buffer holds anything.       *)
RecvMsg(t) ==
  /\ Runs(t, "recv")
  /\ LET c == Behind(t) IN
     \/ /\ c = NoCaller /\ UNCHANGED up
        /\ IF kind = "choose"
           THEN \E p \in Services : thr' = [thr EXCEPT ![t].p = p, ![t].step = @ + 1]
           ELSE IF kind = "poll" THEN Go(t) ELSE Stop(t)
     \/ /\ c # NoCaller /\ up[c] > 0
        /\ up' = [up EXCEPT ![c] = @ - 1]
        /\ thr' = [thr EXCEPT ![t].p = IF kind = "choose" /\ thr[t].step = 2 THEN want[c] ELSE @,
                              ![t].step = @ + 1]
     \/ /\ c # NoCaller /\ up[c] = 0 /\ Finished(c) /\ Go(t) /\ UNCHANGED up
  /\ UNCHANGED <<kind, ports, shared, fdTable, caller, want, down, heard, dead, raced>>

(* service_thread_1 receives until "exit", the client's last line, comes   *)
(* alone in one recv, or the client has closed.                            *)
RecvLines(t) ==
  /\ Runs(t, "lines")
  /\ LET c == Behind(t) IN
     \/ /\ IF c = NoCaller THEN TRUE ELSE up[c] = 0 /\ Finished(c)
        /\ Go(t) /\ UNCHANGED up
     \/ /\ c # NoCaller
        /\ \E n \in 1..up[c] :
             /\ up' = [up EXCEPT ![c] = @ - n]
             /\ IF n = 1 /\ up[c] = 1 /\ Finished(c) THEN Go(t) ELSE UNCHANGED thr
  /\ UNCHANGED <<kind, ports, shared, fdTable, caller, want, down, heard, dead, raced>>

(* exec_server: fork; the parent closes nsfd and waits, the child has the  *)
(* socket as stdin and stdout.                                             *)
ForkService(t) ==
  /\ Runs(t, "fork")
  /\ thr' = [thr EXCEPT ![t].sock = Behind(t),
                        ![t].step = IF Behind(t) = NoCaller THEN 0 ELSE @ + 1]
  /\ fdTable' = [fdTable EXCEPT ![thr[t].fd] = NoCaller]
  /\ UNCHANGED <<kind, ports, shared, caller, want, up, down, heard, dead, raced>>

(* Mutant: the thread closes the descriptor it finds in the loop's nsfd.   *)
ClosedFdShared(t) == shared
ClosedFd(t) == thr[t].fd

CloseConn(t) ==
  /\ Runs(t, "close") \/ Runs(t, "end")
  /\ Stop(t)
  /\ fdTable' = IF Call(t) = "end" \/ thr[t].sock # NoCaller THEN fdTable
                ELSE [fdTable EXCEPT ![ClosedFd(t)] = NoCaller]
  /\ UNCHANGED <<kind, ports, shared, caller, want, up, down, heard, dead, raced>>

TSNext ==
  \/ \E c \in Callers : Connect(c) \/ ClientStep(c)
  \/ PollPorts \/ AcceptConn
  \/ \E t \in 1..Len(thr) : \/ ReadNsfd(t) \/ SendMsg(t) \/ RecvMsg(t)
                            \/ RecvLines(t) \/ ForkService(t) \/ CloseConn(t)

TSSpec == TSInit /\ [][TSNext]_tsVars

-----------------------------------------------------------------------------
(* Properties                                                              *)

TSTypeOK ==
  /\ fdTable \in [DOMAIN fdTable -> Callers \cup {NoCaller}]
  /\ shared \in 0..NCallers /\ ports \subseteq 1..3
  /\ \A t \in 1..Len(thr) :
       /\ thr[t].p \in 1..3 /\ thr[t].fd \in 0..NCallers
       /\ thr[t].step \in 0..Len(Script(thr[t].p))
  /\ up \in [Callers -> 0..3] /\ dead \in BOOLEAN /\ raced \in BOOLEAN

(* A client hears only the thread that was created for it, and that thread *)
(* gives the service of the client's port or choice, unless a thread has   *)
(* read nsfd after the next accept (server.c:63, 83); with fork always.    *)
OwnThread ==
  ~raced =>
    \A c \in Callers : \A k \in 1..Len(heard[c]) :
      LET t == heard[c][k] IN
      thr[t].mine = c /\ (kind = "poll" \/ (kind = "choose" /\ k > 1) => thr[t].p = want[c])

(* Nobody's connection is closed by another thread: as long as its thread  *)
(* works, the descriptor leads to the client, although numbers are reused  *)
(* (server.c:97, 116, 135; without the race on nsfd).                      *)
ConnectionKept ==
  ~raced /\ ~dead =>
    \A t \in 1..Len(thr) : thr[t].fd # 0 /\ thr[t].step # 0 => Behind(t) = thr[t].mine

(* SIGPIPE ends no server whose clients stay until their answer, unless    *)
(* two threads have served one client; a server that forks is never ended  *)
(* and its threads cannot mix up their clients.                            *)
DiesOfTheRace == (dead => raced) /\ (kind = "fork" => ~raced)

(* Threads and clients belong together: each thread works for its own      *)
(* client on an open connection, and only the race on nsfd breaks that or  *)
(* ends the server.                                                        *)
ThreadsSafe == OwnThread /\ ConnectionKept /\ DiesOfTheRace
=============================================================================
