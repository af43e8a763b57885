------------------------------ MODULE Exchanges ------------------------------
(***************************************************************************)
(* Servers without threads and without poll: a program is the list of its  *)
(* blocking calls.  "hello": practice/socket/basic, "gfg": basic_gfg,      *)
(* "unix": practice/unix_domain_socket/basic, "words": 27-1-22 iterative   *)
(* server, "judge": 28-1-22, "names": the observed server of the end-lab   *)
(* practice, which accepts on three ports in a fixed order.  A server that *)
(* has ended may be started again, one at a time; a caller runs once.      *)
(***************************************************************************)
EXTENDS Integers, Sequences, FiniteSets

CONSTANTS
  Exchangers,  \* the systems to explore
  NCalls,      \* bound: callers
  MaxServers,  \* bound: runs of the server
  MaxStopped,  \* bound: callers stopped by their user
  MaxSockets   \* connections that the descriptor table of "words" holds

ASSUME ExchangeConstants ==
  /\ Exchangers \subseteq {"hello", "gfg", "unix", "words", "judge", "names"}
  /\ NCalls \in 1..3 /\ MaxServers \in Nat \ {0}
  /\ MaxStopped \in Nat /\ MaxSockets \in Nat \ {0}

Ports == 1..3
Calls == 1..NCalls

VARIABLES
  exch,     \* the system
  srun,      \* server runs so far; the current or last one
  spos,     \* the server's next call, 0 when it does not run
  path,     \* the server run that the port or socket file leads to, or 0
  backlog,  \* per port: callers that are connected and not accepted
  slot,     \* per port: the caller accepted last, or 0
  sockets,  \* connections that the server has not closed
  cpos,     \* per caller: next call, 0 before its start, -1 after its end
  peer,     \* per caller: the server run it is connected to, or 0
  upward, downward,  \* per caller: messages on the way
  reset,    \* callers gone to which the server has sent since
  binary,   \* the program that was compiled last
  judged, verdict,   \* P.cpp at the last g++, the last verdict
  stopped,  \* history: callers stopped by their user
  killed,   \* history: the server runs that SIGPIPE ended
  met,      \* history: callers that were accepted
  short,    \* history: those of them that read the end before their messages
  joined    \* history: some recv took two messages at once

exchVars == <<exch, srun, spos, path, backlog, slot, sockets, cpos, peer, upward, downward,
              reset, binary, judged, verdict, stopped, killed, met, short, joined>>

-----------------------------------------------------------------------------
(* The programs                                                            *)

Call(what, port) == [op |-> what, on |-> port]

basic_server == <<Call("accept", 1), Call("recv", 1), Call("send", 1), Call("recv", 1)>>
basic_client == <<Call("connect", 1), Call("send", 1), Call("recv", 1), Call("send", 1)>>
gfg_server == <<Call("accept", 1), Call("recv", 1), Call("send", 1)>>
gfg_client == <<Call("connect", 1), Call("send", 1), Call("recv", 1)>>
unix_server == <<Call("accept", 1), Call("send", 1), Call("recv", 1)>>
(* Mutant: the file is removed as soon as the connection stands.           *)
unix_clientEarly == <<Call("connect", 1), Call("unlink", 1), Call("recv", 1), Call("send", 1)>>
unix_client == <<Call("connect", 1), Call("recv", 1), Call("send", 1), Call("unlink", 1)>>
(* Accepted sockets are not closed; after the last call the first follows. *)
iterative_server == <<Call("accept", 1), Call("recv", 1), Call("again", 1)>>
iterative_client == <<Call("connect", 1), Call("type", 1)>>
judge_S == <<Call("accept", 1), Call("recv", 1), Call("compile", 1), Call("run", 1), Call("send", 1)>>
judge_C == <<Call("connect", 1), Call("send", 1), Call("recv", 1)>>
(* Mutant: the names are sent without waiting for the answers.             *)
observed_serverEager ==
  [k \in 1..3 |-> Call("accept", k)] \o [k \in 1..3 |-> Call("send", k)]
    \o [k \in 1..3 |-> Call("send", k)] \o [k \in 1..3 |-> Call("recv", k)]
observed_server ==
  [k \in 1..3 |-> Call("accept", k)] \o [k \in 1..3 |-> Call("send", k)]
    \o [k \in 1..3 |-> Call("recv", k)] \o [k \in 1..3 |-> Call("send", k)]
observed_c1 == <<Call("connect", 1), Call("recv", 1), Call("send", 1), Call("recv", 1)>>
observed_c2 == <<Call("connect", 2), Call("recv", 2), Call("send", 2), Call("recv", 2)>>
observed_c3 == <<Call("connect", 3), Call("recv", 3), Call("send", 3), Call("recv", 3)>>

ServerProgram ==
  [hello |-> basic_server, gfg |-> gfg_server, unix |-> unix_server,
   words |-> iterative_server, judge |-> judge_S, names |-> observed_server][exch]
CallerProgram(i) ==
  IF exch = "names" THEN <<observed_c1, observed_c2, observed_c3>>[i]
  ELSE [hello |-> basic_client, gfg |-> gfg_client, unix |-> unix_client,
        words |-> iterative_client, judge |-> judge_C][exch]

ServerAt(op) == spos # 0 /\ ServerProgram[spos].op = op
On == ServerProgram[spos].on
CallerAt(i, op) == cpos[i] > 0 /\ CallerProgram(i)[cpos[i]].op = op
(* The server run that caller i is connected to still goes on.             *)
Alive(i) == spos # 0 /\ peer[i] = srun

-----------------------------------------------------------------------------
ExchInit ==
  /\ exch \in Exchangers
  /\ srun = 0 /\ spos = 0 /\ path = 0
  /\ backlog = [k \in Ports |-> <<>>] /\ slot = [k \in Ports |-> 0] /\ sockets = 0
  /\ cpos = [i \in Calls |-> 0] /\ peer = [i \in Calls |-> 0]
  /\ upward = [i \in Calls |-> <<>>] /\ downward = [i \in Calls |-> <<>>]
  /\ reset = {} /\ binary = "none" /\ judged = "none" /\ verdict = "none"
  /\ stopped = {} /\ killed = {} /\ met = {} /\ short = {} /\ joined = FALSE

history == <<stopped, killed, met, short, joined>>
judgeVars == <<binary, judged, verdict>>
callerVars == <<cpos, peer>>

(* The server ends: the kernel closes its sockets, unix/basic removes its  *)
(* file, and whoever is in a backlog is refused.                           *)
ServerGone ==
  /\ spos' = 0 /\ path' = 0 /\ sockets' = 0 /\ reset' = {}
  /\ backlog' = [k \in Ports |-> <<>>] /\ slot' = [k \in Ports |-> 0]
(* The next call, or the end of main.                                      *)
ServerAdvances(rs) ==
  IF spos = Len(ServerProgram) THEN ServerGone
  ELSE /\ spos' = spos + 1 /\ reset' = rs
       /\ UNCHANGED <<path, sockets, backlog, slot>>

(* socket, bind, listen; the socket file is removed first.  The observed   *)
(* server does not ask for the port to be reused: bind may fail while the  *)
(* connections of the run before linger, and it then listens elsewhere.    *)
StartServer ==
  /\ spos = 0 /\ srun < MaxServers
  /\ srun' = srun + 1 /\ spos' = 1
  /\ path' \in {srun + 1} \cup (IF exch = "names" /\ srun > 0 THEN {0} ELSE {})
  /\ UNCHANGED <<exch, backlog, slot, sockets, callerVars, upward, downward, reset,
                 judgeVars, history>>

(* accept; the iterative server fills its descriptor table in the end, and *)
(* returns when accept fails.                                              *)
AcceptCall ==
  /\ ServerAt("accept") /\ backlog[On] # <<>>
  /\ IF exch = "words" /\ sockets = MaxSockets THEN ServerGone /\ UNCHANGED met
     ELSE /\ met' = met \cup {Head(backlog[On])}
          /\ slot' = [slot EXCEPT ![On] = Head(backlog[On])]
          /\ backlog' = [backlog EXCEPT ![On] = Tail(@)]
          /\ sockets' = sockets + 1 /\ spos' = spos + 1
          /\ UNCHANGED <<path, reset>>
  /\ UNCHANGED <<exch, srun, callerVars, upward, downward, judgeVars, stopped, killed, short, joined>>

(* recv of 1024 bytes: all that has come, or the end of the stream; the    *)
(* results are not looked at.                                              *)
ServerRecv ==
  /\ ServerAt("recv") /\ (upward[slot[On]] # <<>> \/ cpos[slot[On]] = -1)
  /\ joined' = (joined \/ Len(upward[slot[On]]) > 1)
  /\ upward' = [upward EXCEPT ![slot[On]] = <<>>]
  /\ ServerAdvances(reset)
  /\ UNCHANGED <<exch, srun, callerVars, downward, judgeVars, stopped, killed, met, short>>

(* send; to a caller that has gone the first one is answered with a reset, *)
(* and a later one ends the server with SIGPIPE or returns the error.      *)
ServerSend ==
  /\ ServerAt("send")
  /\ IF cpos[slot[On]] # -1
     THEN /\ downward' = [downward EXCEPT ![slot[On]] = Append(@, spos)]
          /\ ServerAdvances(reset) /\ UNCHANGED killed
     ELSE /\ \/ ServerAdvances(reset \cup {slot[On]}) /\ UNCHANGED killed
             \/ slot[On] \in reset /\ ServerGone /\ killed' = killed \cup {srun}
          /\ UNCHANGED downward
  /\ UNCHANGED <<exch, srun, callerVars, upward, judgeVars, stopped, met, short, joined>>

(* while(nsfd = accept(...)): back to accept, the socket stays open.       *)
NextWord ==
  /\ ServerAt("again") /\ spos' = 1
  /\ UNCHANGED <<exch, srun, path, backlog, slot, sockets, callerVars, upward, downward, reset,
                 judgeVars, history>>

(* Mutant: the old program is kept when there is one.                      *)
CompiledOnce(src) == IF binary # "none" \/ src = "broken" THEN binary ELSE src
(* system("g++ P.cpp -o P.exe"): its result is not looked at, and after an *)
(* error the old P.exe is still there.                                     *)
Compiled(src) == IF src = "broken" THEN binary ELSE src
(* P.cpp is read here and nowhere else, as its author has left it by now.  *)
Compile ==
  /\ ServerAt("compile")
  /\ \E src \in {"right", "wrong", "broken"} : judged' = src /\ binary' = Compiled(src)
  /\ spos' = spos + 1
  /\ UNCHANGED <<exch, srun, path, backlog, slot, sockets, callerVars, upward, downward, reset,
                 verdict, history>>

(* The outputs agree: OT.txt and Pout.txt fit into the buffers, and a      *)
(* program that does not start leaves an empty Pout.txt.                   *)
compareTestCase == binary = "right"
(* fork, exec with Pout.txt as output, wait, compare.                      *)
RunTest ==
  /\ ServerAt("run")
  /\ verdict' = (IF compareTestCase THEN "passed" ELSE "failed") /\ spos' = spos + 1
  /\ UNCHANGED <<exch, srun, path, backlog, slot, sockets, callerVars, upward, downward, reset,
                 binary, judged, history>>

-----------------------------------------------------------------------------
CallerAdvances(i) ==
  cpos' = [cpos EXCEPT ![i] = IF @ = Len(CallerProgram(i)) THEN -1 ELSE @ + 1]
CallerEnds(i) == cpos' = [cpos EXCEPT ![i] = -1]

serverVars == <<spos, slot, sockets, reset>>

(* The program is started; connect fails when the port or the file does    *)
(* not lead to the running server.                                         *)
StartCaller(i) ==
  /\ cpos[i] = 0
  /\ LET port == CallerProgram(i)[1].on IN
     IF spos # 0 /\ path = srun
     THEN /\ backlog' = [backlog EXCEPT ![port] = Append(@, i)]
          /\ peer' = [peer EXCEPT ![i] = srun] /\ cpos' = [cpos EXCEPT ![i] = 2]
     ELSE CallerEnds(i) /\ UNCHANGED <<backlog, peer>>
  /\ UNCHANGED <<exch, srun, path, serverVars, upward, downward, judgeVars, history>>

(* send; what goes to a server that has ended is lost.                     *)
Say(i) ==
  /\ upward' = IF Alive(i) THEN [upward EXCEPT ![i] = Append(@, cpos[i])] ELSE upward
  /\ CallerAdvances(i)
  /\ UNCHANGED <<exch, srun, path, backlog, serverVars, peer, downward, judgeVars, history>>
CallerSend(i) == CallerAt(i, "send") /\ Say(i)
(* scanf and send: when the user types the word.                           *)
TypeWord(i) == CallerAt(i, "type") /\ Say(i)

(* recv: all that has come; at the end of the stream nothing that follows  *)
(* matters, and the program ends.                                          *)
CallerRecv(i) ==
  /\ CallerAt(i, "recv")
  /\ \/ /\ downward[i] # <<>>
        /\ joined' = (joined \/ Len(downward[i]) > 1)
        /\ downward' = [downward EXCEPT ![i] = <<>>]
        /\ CallerAdvances(i) /\ UNCHANGED short
     \/ /\ downward[i] = <<>> /\ ~Alive(i)
        /\ short' = short \cup ({i} \cap met)
        /\ CallerEnds(i) /\ UNCHANGED <<downward, joined>>
  /\ UNCHANGED <<exch, srun, path, backlog, serverVars, peer, upward, judgeVars, stopped, killed, met>>

(* unlink(SOCK_PATH), whoever listens there by now.                        *)
UnlinkPath(i) ==
  /\ CallerAt(i, "unlink")
  /\ path' = 0 /\ CallerAdvances(i)
  /\ UNCHANGED <<exch, srun, backlog, serverVars, peer, upward, downward, judgeVars, history>>

(* The user stops a caller, which then reads and sends no more.            *)
StopCaller(i) ==
  /\ cpos[i] > 0 /\ Cardinality(stopped) < MaxStopped
  /\ CallerEnds(i) /\ stopped' = stopped \cup {i}
  /\ UNCHANGED <<exch, srun, path, backlog, serverVars, peer, upward, downward, judgeVars, killed, met, short, joined>>

ServerStep == AcceptCall \/ ServerRecv \/ ServerSend \/ NextWord \/ Compile \/ RunTest
CallerStep(i) == CallerSend(i) \/ CallerRecv(i) \/ UnlinkPath(i)

ExchNext ==
  \/ StartServer \/ ServerStep
  \/ \E i \in Calls : StartCaller(i) \/ CallerStep(i) \/ TypeWord(i) \/ StopCaller(i)

-----------------------------------------------------------------------------
(* Properties                                                              *)

ExchTypeOK ==
  /\ spos \in 0..Len(ServerProgram) /\ path \in 0..srun /\ (exch = "words" => sockets \in 0..MaxSockets)
  /\ \A i \in Calls : cpos[i] \in -1..Len(CallerProgram(i)) /\ peer[i] \in 0..srun
  /\ slot \in [Ports -> Calls \cup {0}]
  /\ binary \in {"none", "right", "wrong"}

(* The two sides stay in step: no recv takes two messages at once          *)
(* (observer/server.c:73, basic/server.c:53), and a caller that was        *)
(* accepted reads the end of the stream only when SIGPIPE has ended the    *)
(* server, which takes a caller that its user stopped.                     *)
InStep ==
  /\ ~joined
  /\ \A i \in short : peer[i] \in killed
  /\ killed # {} => stopped # {}

(* A server that waits in accept can be reached, unless an earlier run     *)
(* left something behind: a caller that removes the socket file of the     *)
(* next server (unix_domain_socket/basic/client.c), or a bind that failed. *)
FirstServerReachable == ServerAt("accept") /\ path # srun => srun > 1

(* A verdict is about the source that was sent, or about an older program  *)
(* when that source did not compile (28-1-22/S.c:89).                      *)
VerdictOnSource ==
  ~ServerAt("run") =>
    /\ verdict = "passed" => judged # "wrong"
    /\ verdict = "failed" => judged # "right"

(* Every caller that waits for the server ends, unless the server waits    *)
(* for somebody who has not connected: the observed server for the next of *)
(* its three ports, the others for a first caller (observer/server.c:58).  *)
CallersEnd ==
  \A i \in Calls :
    (cpos[i] > 0 /\ exch # "words") ~>
      (cpos[i] = -1 \/ (ServerAt("accept") /\ backlog[On] = <<>>))
=============================================================================
