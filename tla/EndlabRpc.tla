----------------------------- MODULE EndlabRpc -----------------------------
(***************************************************************************)
(* The remote procedure call of endlab: client.c puts a call into a System *)
(* V queue, client_stub.c sends it as an Ethernet frame on the loopback    *)
(* device, server_stub.c captures the frame and hands it to server.c       *)
(* through another queue; the answer takes the same way back.  Each queue  *)
(* carries two message types, which are modelled as two queues.            *)
(*                                                                         *)
(* Numbers are ints, but htons and ntohs work on 16 bits.                  *)
(***************************************************************************)
EXTENDS Integers, Sequences, FiniteSets

CONSTANTS
  Callers,       \* running client.c processes
  Args,          \* numbers the users type
  MaxCalls,      \* bound on calls
  MaxRestarts,   \* bound on clients interrupted and started again
  MayTimeout     \* whether pcap_next returns NULL after its 20 ms

ASSUME RpcConstants ==
  /\ IsFiniteSet(Callers)
  /\ Args \subseteq Int
  /\ MaxCalls \in Nat
  /\ MaxRestarts \in Nat
  /\ MayTimeout \in BOOLEAN

Functions16 == {"add", "subtract"}
MaxShort == 65535
Short == 0..MaxShort
NoCall == [fn |-> "none", a |-> 0, b |-> 0]
NoResult == -1

VARIABLES
  cpc,        \* control state of each client: idle or wait
  call,       \* the call a client made last
  result,     \* the int it printed for that call
  q1, q4,     \* client queue: requests (type 1) and replies (type 4)
  q2, q3,     \* server queue: requests (type 2) and replies (type 3)
  toServer,   \* frames the server stub has not captured
  toClient,   \* frames the client stub has not captured
  cspc, sspc, \* control states of the stubs
  timedOut,   \* history: pcap_next returned NULL to the client stub
  calls, restarts

clientVars == <<cpc, call, result, calls, restarts>>
vars == <<clientVars, q1, q4, q2, q3, toServer, toClient, cspc, sspc, timedOut>>

(* htons and ntohs on a little-endian machine: the low 16 bits of an int   *)
(* with their bytes exchanged.                                             *)
Swap(x) == LET u == x % 65536 IN (u % 256) * 256 + u \div 256

Init ==
  /\ cpc = [c \in Callers |-> "idle"]
  /\ call = [c \in Callers |-> NoCall]
  /\ result = [c \in Callers |-> NoResult]
  /\ q1 = <<>> /\ q4 = <<>> /\ q2 = <<>> /\ q3 = <<>>
  /\ toServer = <<>> /\ toClient = <<>>
  /\ cspc = "recv" /\ sspc = "capture" /\ timedOut = FALSE
  /\ calls = 0 /\ restarts = 0

-----------------------------------------------------------------------------
(* client.c                                                                *)

(* add and subtract up to their msgrcv.                                    *)
Call(c, fn, a, b) ==
  /\ cpc[c] = "idle" /\ calls < MaxCalls
  /\ q1' = Append(q1, [fn |-> fn, arg1 |-> Swap(a), arg2 |-> Swap(b)])
  /\ cpc' = [cpc EXCEPT ![c] = "wait"]
  /\ call' = [call EXCEPT ![c] = [fn |-> fn, a |-> a, b |-> b]]
  /\ result' = [result EXCEPT ![c] = NoResult]
  /\ calls' = calls + 1
  /\ UNCHANGED <<restarts, q4, q2, q3, toServer, toClient, cspc, sspc, timedOut>>

(* msgrcv of a type 4 message, whoever asked for it; it is printed.        *)
Return(c) ==
  /\ cpc[c] = "wait" /\ q4 # <<>>
  /\ result' = [result EXCEPT ![c] = Head(q4)]
  /\ q4' = Tail(q4)
  /\ cpc' = [cpc EXCEPT ![c] = "idle"]
  /\ UNCHANGED <<call, calls, restarts, q1, q2, q3, toServer, toClient,
                 cspc, sspc, timedOut>>

(* The user interrupts a client that waits and starts it again; the queues *)
(* keep what they hold.                                                    *)
Restart(c) ==
  /\ cpc[c] = "wait" /\ restarts < MaxRestarts
  /\ cpc' = [cpc EXCEPT ![c] = "idle"]
  /\ call' = [call EXCEPT ![c] = NoCall]
  /\ restarts' = restarts + 1
  /\ UNCHANGED <<result, calls, q1, q4, q2, q3, toServer, toClient, cspc, sspc, timedOut>>

-----------------------------------------------------------------------------
(* client_stub.c                                                           *)

(* msgrcv of a request, send_pcap_packet.                                  *)
StubForward ==
  /\ cspc = "recv" /\ q1 # <<>>
  /\ toServer' = Append(toServer, Head(q1))
  /\ q1' = Tail(q1)
  /\ cspc' = "capture"
  /\ UNCHANGED <<clientVars, q4, q2, q3, toClient, sspc, timedOut>>

(* Mutant: the reply is handed over in network order.                      *)
StubReplyRaw ==
  /\ cspc = "capture" /\ toClient # <<>>
  /\ q4' = Append(q4, Head(toClient))
  /\ toClient' = Tail(toClient)
  /\ cspc' = "recv"
  /\ UNCHANGED <<clientVars, q1, q2, q3, toServer, sspc, timedOut>>

(* pcap_next returns a frame: extract_rpc, msgsnd to the client.           *)
StubReply ==
  /\ cspc = "capture" /\ toClient # <<>>
  /\ q4' = Append(q4, Swap(Head(toClient)))
  /\ toClient' = Tail(toClient)
  /\ cspc' = "recv"
  /\ UNCHANGED <<clientVars, q1, q2, q3, toServer, sspc, timedOut>>

(* pcap_next returns NULL: continue.                                       *)
StubTimeout ==
  /\ MayTimeout
  /\ cspc = "capture" /\ toClient = <<>>
  /\ cspc' = "recv" /\ timedOut' = TRUE
  /\ UNCHANGED <<clientVars, q1, q4, q2, q3, toServer, toClient, sspc>>

-----------------------------------------------------------------------------
(* server_stub.c; its own NULL from pcap_next only repeats the loop.       *)

ServerStubRequest ==
  /\ sspc = "capture" /\ toServer # <<>>
  /\ LET r == Head(toServer) IN
       q2' = Append(q2, [fn |-> r.fn, arg1 |-> Swap(r.arg1),
                                      arg2 |-> Swap(r.arg2)])
  /\ toServer' = Tail(toServer)
  /\ sspc' = "wait"
  /\ UNCHANGED <<clientVars, q1, q4, q3, toClient, cspc, timedOut>>

ServerStubReply ==
  /\ sspc = "wait" /\ q3 # <<>>
  /\ toClient' = Append(toClient, Head(q3))
  /\ q3' = Tail(q3)
  /\ sspc' = "capture"
  /\ UNCHANGED <<clientVars, q1, q4, q2, toServer, cspc, timedOut>>

-----------------------------------------------------------------------------
(* server.c                                                                *)

(* Mutant: htons is forgotten.                                             *)
ReturnValueHost(r) == IF r.fn = "add" THEN r.arg1 + r.arg2 ELSE r.arg1 - r.arg2

ReturnValue(r) == CASE r.fn = "add" -> Swap(r.arg1 + r.arg2)
                    [] r.fn = "subtract" -> Swap(r.arg1 - r.arg2)
                    [] OTHER -> -1

(* Mutant: an unknown name is not answered, and "subtract" is not known.   *)
ServeOnlyAdd ==
  /\ q2 # <<>>
  /\ q3' = IF Head(q2).fn = "add" THEN Append(q3, ReturnValue(Head(q2))) ELSE q3
  /\ q2' = Tail(q2)
  /\ UNCHANGED <<clientVars, q1, q4, toServer, toClient, cspc, sspc, timedOut>>

Serve ==
  /\ q2 # <<>>
  /\ q3' = Append(q3, ReturnValue(Head(q2)))
  /\ q2' = Tail(q2)
  /\ UNCHANGED <<clientVars, q1, q4, toServer, toClient, cspc, sspc, timedOut>>

-----------------------------------------------------------------------------
(* Mutant: the stub never captures.                                        *)
StubNoReply == StubForward \/ StubTimeout

Stub == StubForward \/ StubReply \/ StubTimeout
ServerStub == ServerStubRequest \/ ServerStubReply

Next ==
  \/ \E c \in Callers :
       \/ \E fn \in Functions16, a, b \in Args : Call(c, fn, a, b)
       \/ Return(c) \/ Restart(c)
  \/ Stub \/ ServerStub \/ Serve

Spec == Init /\ [][Next]_vars

(* The four programs run on; users type when they like.                    *)
Fairness ==
  /\ \A c \in Callers : WF_vars(Return(c))
  /\ WF_vars(Stub) /\ WF_vars(ServerStub) /\ WF_vars(Serve)

FairSpec == Spec /\ Fairness

-----------------------------------------------------------------------------
(* Properties                                                              *)

Request == [fn : Functions16, arg1 : Short, arg2 : Short]

(* Everything that crosses a queue or the wire fits 16 bits.               *)
TypeOK ==
  /\ cpc \in [Callers -> {"idle", "wait"}]
  /\ call \in [Callers -> [fn : Functions16 \cup {"none"}, a : Int, b : Int]]
  /\ result \in [Callers -> Short \cup {NoResult}]
  /\ q1 \in Seq(Request) /\ q2 \in Seq(Request) /\ toServer \in Seq(Request)
  /\ q3 \in Seq(Short) /\ q4 \in Seq(Short) /\ toClient \in Seq(Short)
  /\ cspc \in {"recv", "capture"} /\ sspc \in {"capture", "wait"}
  /\ timedOut \in BOOLEAN
  /\ calls \in 0..MaxCalls /\ restarts \in 0..MaxRestarts

InFlight ==
  Len(q1) + Len(toServer) + Len(q2) + Len(q3) + Len(toClient) + Len(q4)

(* Neither the queues nor the stubs lose or repeat a message: what is on   *)
(* its way are the calls of the clients that wait and of those that were   *)
(* interrupted, also when the client stub times out.                       *)
NothingLost ==
  InFlight = Cardinality({c \in Callers : cpc[c] = "wait"}) + restarts

Meant(k) == IF k.fn = "add" THEN k.a + k.b ELSE k.a - k.b

(* What a client prints is the result of its own call, to 16 bits, when it *)
(* is the only client and was not interrupted: the four conversions of     *)
(* byte order cancel, and no reply is late.                                *)
Alone == restarts = 0 /\ Cardinality({c \in Callers : call[c] # NoCall}) <= 1

AnswerMatchesCall ==
  Alone => \A c \in Callers :
    result[c] # NoResult => result[c] = Meant(call[c]) % 65536

(* Every call returns or is interrupted, as long as pcap_next of the       *)
(* client stub has not timed out.                                          *)
EveryCallReturns ==
  \A c \in Callers : cpc[c] = "wait" ~> cpc[c] = "idle" \/ timedOut

(* client_stub.c "recieve rpc hdr reply packet from server_stub using      *)
(* pcap_next, and send it to client".                                      *)
ReplyReachesClient == \A c \in Callers : cpc[c] = "wait" ~> cpc[c] = "idle"

(* The path of a call: all words fit the wire and no stub or queue loses,  *)
(* repeats or invents a message (client_stub.c, server_stub.c).            *)
WireSafe == TypeOK /\ NothingLost
============================================================================
