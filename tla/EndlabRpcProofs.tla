-------------------------- MODULE EndlabRpcProofs --------------------------
(***************************************************************************)
(* For every number of clients, for any ints as arguments and any number   *)
(* of calls, interrupted clients and timeouts: the RPC path of endlab      *)
(* neither loses nor repeats a message and all words fit its 16 bits; and  *)
(* a client that is alone prints the result of its own call, to 16 bits.   *)
(*                                                                         *)
(* The second rests on the first: a lone client that waits has exactly one *)
(* message on its way, so each queue of the path holds that message in the *)
(* form it has there (PathOK), or nothing.                                 *)
(***************************************************************************)
EXTENDS EndlabRpc, SeqLemmas, FiniteSetTheorems

Waiting == {c \in Callers : cpc[c] = "wait"}

(* A client that waits has made a call.                                    *)
Made(k) == k \in [fn : Functions16, a : Int, b : Int]
CalledOK == \A c \in Callers : cpc[c] = "wait" => Made(call[c])

(* The call k in network order, in host order, and its result.             *)
Wire(k) == [fn |-> k.fn, arg1 |-> Swap(k.a), arg2 |-> Swap(k.b)]
Host(k) == [fn |-> k.fn, arg1 |-> k.a % 65536, arg2 |-> k.b % 65536]
Answer(k) == Meant(k) % 65536

OnPath(k) ==
  /\ \A i \in 1..Len(q1) : q1[i] = Wire(k)
  /\ \A i \in 1..Len(toServer) : toServer[i] = Wire(k)
  /\ \A i \in 1..Len(q2) : q2[i] = Host(k)
  /\ \A i \in 1..Len(q3) : Swap(q3[i]) = Answer(k)
  /\ \A i \in 1..Len(toClient) : Swap(toClient[i]) = Answer(k)
  /\ \A i \in 1..Len(q4) : q4[i] = Answer(k)

PathOK == Alone => \A c \in Callers : cpc[c] = "wait" => OnPath(call[c])

IInv == TypeOK /\ NothingLost /\ CalledOK /\ PathOK /\ AnswerMatchesCall

-----------------------------------------------------------------------------
(* Byte order                                                              *)

(* The ints of 16 bits.                                                    *)
LEMMA ShortRange ==
  ASSUME NEW x \in Int
  PROVE  x \in Short <=> 0 <= x /\ x <= 65535
<1>1. MaxShort \in Int
  BY DEF MaxShort
<1>2. x \in Short <=> 0 <= x /\ x <= MaxShort
  BY <1>1 DEF Short
<1> QED
  BY <1>2 DEF MaxShort

(* Words are ints.                                                         *)
LEMMA ShortInt ==
  ASSUME NEW x \in Short
  PROVE  x \in Int
  BY DEF Short

(* A word in either byte order has 16 bits.                                *)
LEMMA SwapShort ==
  ASSUME NEW x \in Int
  PROVE  Swap(x) \in Short
<1> DEFINE u == x % 65536
<1>1. u \in Int /\ 0 <= u /\ u <= 65535
  BY SMT
<1>2. Swap(x) = (u % 256) * 256 + u \div 256
  BY SMT DEF Swap
<1> HIDE DEF u
<1>3. (u % 256) * 256 + u \div 256 \in Int
  BY <1>1, SMT
<1>4. 0 <= (u % 256) * 256 + u \div 256
  BY <1>1, SMT
<1>5. (u % 256) * 256 + u \div 256 <= 65535
  BY <1>1, SMT
<1> QED
  BY <1>2, <1>3, <1>4, <1>5, ShortRange, SMT

(* htons and ntohs cancel, but for the bits above the sixteenth.           *)
LEMMA SwapTwice ==
  ASSUME NEW x \in Int
  PROVE  Swap(Swap(x)) = x % 65536
  BY SMT DEF Swap

(* Adding and subtracting 16-bit words gives the sum and the difference of *)
(* the ints they were cut from, to 16 bits.                                *)
LEMMA WordArithmetic ==
  ASSUME NEW a \in Int, NEW b \in Int
  PROVE  /\ Swap(Swap((a % 65536) + (b % 65536))) = (a + b) % 65536
         /\ Swap(Swap((a % 65536) - (b % 65536))) = (a - b) % 65536
<1>1. ((a % 65536) + (b % 65536)) % 65536 = (a + b) % 65536
  BY SMT
<1>2. ((a % 65536) - (b % 65536)) % 65536 = (a - b) % 65536
  BY SMT
<1>3. a % 65536 \in Int /\ b % 65536 \in Int
  BY SMT
<1>4. /\ Swap(Swap((a % 65536) + (b % 65536))) = ((a % 65536) + (b % 65536)) % 65536
      /\ Swap(Swap((a % 65536) - (b % 65536))) = ((a % 65536) - (b % 65536)) % 65536
  BY <1>3, SwapTwice, SMT
<1> QED
  BY <1>1, <1>2, <1>4, SMT

(* What server.c computes from the words it gets is, after the two         *)
(* conversions on the way back, the result meant by the caller.            *)
LEMMA ServedRight ==
  ASSUME NEW k \in [fn : Functions16, a : Int, b : Int]
  PROVE  Swap(ReturnValue(Host(k))) = Answer(k)
<1>1. k.a \in Int /\ k.b \in Int /\ k.fn \in {"add", "subtract"}
  BY DEF Functions16
<1>2. CASE k.fn = "add"
  <2>1. ReturnValue(Host(k)) = Swap((k.a % 65536) + (k.b % 65536))
    <3> DEFINE r == Host(k)
    <3>1. r.fn = k.fn /\ r.arg1 = k.a % 65536 /\ r.arg2 = k.b % 65536
      BY SMT DEF Host
    <3> HIDE DEF r
    <3>2. ReturnValue(r) = Swap((k.a % 65536) + (k.b % 65536))
      BY <1>2, <3>1, SMT DEF ReturnValue
    <3> QED
      BY <3>2 DEF r
  <2>2. Answer(k) = (k.a + k.b) % 65536
    BY <1>2, SMT DEF Answer, Meant
  <2> QED
    BY <1>1, <2>1, <2>2, WordArithmetic, SMT
<1>3. CASE k.fn = "subtract"
  <2>1. ReturnValue(Host(k)) = Swap((k.a % 65536) - (k.b % 65536))
    <3> DEFINE r == Host(k)
    <3>1. r.fn = k.fn /\ r.arg1 = k.a % 65536 /\ r.arg2 = k.b % 65536
      BY SMT DEF Host
    <3> HIDE DEF r
    <3>2. ReturnValue(r) = Swap((k.a % 65536) - (k.b % 65536))
      BY <1>3, <3>1, SMT DEF ReturnValue
    <3> QED
      BY <3>2 DEF r
  <2>2. Answer(k) = (k.a - k.b) % 65536
    BY <1>3, SMT DEF Answer, Meant
  <2> QED
    BY <1>1, <2>1, <2>2, WordArithmetic, SMT
<1> QED
  BY <1>1, <1>2, <1>3, SMT

(* What server.c answers to a request fits the wire.                       *)
LEMMA ReturnShort ==
  ASSUME NEW r \in Request
  PROVE  ReturnValue(r) \in Short
<1>1. r.arg1 \in Int /\ r.arg2 \in Int
  BY ShortInt, SMT DEF Request
<1>2. r.arg1 + r.arg2 \in Int /\ r.arg1 - r.arg2 \in Int
  BY <1>1, SMT
<1> QED
  BY <1>2, SwapShort, SMT DEF ReturnValue, Request, Functions16

-----------------------------------------------------------------------------
USE RpcConstants DEF vars, clientVars

(* The initial state satisfies the invariant.                              *)
LEMMA InitOK == Init => IInv
<1> SUFFICES ASSUME Init PROVE IInv
  OBVIOUS
<1>1. TypeOK
  <2>1. <<>> \in Seq(Request) /\ <<>> \in Seq(Short)
    OBVIOUS
  <2>2. call \in [Callers -> [fn : Functions16 \cup {"none"}, a : Int, b : Int]]
    BY DEF Init, NoCall
  <2>3. result \in [Callers -> Short \cup {NoResult}]
    BY DEF Init
  <2>4. calls \in 0..MaxCalls /\ restarts \in 0..MaxRestarts
    BY DEF Init
  <2> QED
    BY <2>1, <2>2, <2>3, <2>4 DEF Init, TypeOK
<1>2. NothingLost
  <2>1. {c \in Callers : cpc[c] = "wait"} = {}
    BY DEF Init
  <2>2. Cardinality({c \in Callers : cpc[c] = "wait"}) = 0
    BY <2>1, FS_EmptySet
  <2> QED
    BY <2>2 DEF Init, NothingLost, InFlight
<1>3. CalledOK /\ PathOK /\ AnswerMatchesCall
  BY DEF Init, CalledOK, PathOK, AnswerMatchesCall
<1> QED
  BY <1>1, <1>2, <1>3 DEF IInv

(* Every step keeps the types; every word that is sent was swapped.        *)
LEMMA TypeStep == TypeOK /\ [Next]_vars => TypeOK'
<1> SUFFICES ASSUME TypeOK, [Next]_vars PROVE TypeOK'
  OBVIOUS
<1> USE DEF TypeOK
<1>1. ASSUME NEW c \in Callers, NEW fn \in Functions16, NEW a \in Args,
             NEW b \in Args, Call(c, fn, a, b)
      PROVE  TypeOK'
  <2>1. [fn |-> fn, arg1 |-> Swap(a), arg2 |-> Swap(b)] \in Request
    BY SwapShort DEF Request
  <2>2. q1' \in Seq(Request)
    BY <1>1, <2>1 DEF Call
  <2>3. call' \in [Callers -> [fn : Functions16 \cup {"none"}, a : Int, b : Int]]
    BY <1>1 DEF Call
  <2> QED
    BY <1>1, <2>2, <2>3 DEF Call
<1>2. ASSUME NEW c \in Callers, Return(c) PROVE TypeOK'
  <2>1. Head(q4) \in Short /\ q4' \in Seq(Short)
    BY <1>2, TailElements DEF Return
  <2> QED
    BY <1>2, <2>1 DEF Return
<1>3. ASSUME NEW c \in Callers, Restart(c) PROVE TypeOK'
  BY <1>3 DEF Restart, NoCall
<1>4. CASE StubForward
  BY <1>4 DEF StubForward
<1>5. CASE StubReply
  <2>1. Head(toClient) \in Short /\ toClient' \in Seq(Short)
    BY <1>5, TailElements DEF StubReply
  <2>2. Swap(Head(toClient)) \in Short
    BY <2>1, ShortInt, SwapShort
  <2>3. q4' \in Seq(Short)
    BY <1>5, <2>2, AppendElements DEF StubReply
  <2> QED
    BY <1>5, <2>1, <2>3 DEF StubReply
<1>6. CASE StubTimeout
  BY <1>6 DEF StubTimeout
<1>7. CASE ServerStubRequest
  <2> DEFINE r == Head(toServer)
  <2>1. r \in Request /\ toServer' \in Seq(Request)
    BY <1>7, TailElements DEF ServerStubRequest
  <2>2. [fn |-> r.fn, arg1 |-> Swap(r.arg1), arg2 |-> Swap(r.arg2)] \in Request
    BY <2>1, ShortInt, SwapShort DEF Request
  <2>3. q2' \in Seq(Request)
    BY <1>7, <2>2 DEF ServerStubRequest
  <2> QED
    BY <1>7, <2>1, <2>3 DEF ServerStubRequest
<1>8. CASE ServerStubReply
  BY <1>8 DEF ServerStubReply
<1>9. CASE Serve
  <2>1. Head(q2) \in Request /\ q2' \in Seq(Request)
    BY <1>9, TailElements DEF Serve
  <2>2. q3' \in Seq(Short)
    BY <1>9, <2>1, ReturnShort DEF Serve
  <2> QED
    BY <1>9, <2>1, <2>2 DEF Serve
<1>10. CASE UNCHANGED vars
  BY <1>10
<1> QED
  BY <1>1, <1>2, <1>3, <1>4, <1>5, <1>6, <1>7, <1>8, <1>9, <1>10
  DEF Next, Stub, ServerStub

-----------------------------------------------------------------------------
(* Every step keeps the number of messages on their way: a call adds one,  *)
(* a return takes one, an interrupted client leaves one behind, and stubs  *)
(* and server take one for each that they send.                            *)
LEMMA LostStep == TypeOK /\ TypeOK' /\ NothingLost /\ [Next]_vars => NothingLost'
<1> SUFFICES ASSUME TypeOK, TypeOK', NothingLost, [Next]_vars PROVE NothingLost'
  OBVIOUS
<1>n. /\ Len(q1) \in Nat /\ Len(toServer) \in Nat /\ Len(q2) \in Nat
      /\ Len(q3) \in Nat /\ Len(toClient) \in Nat /\ Len(q4) \in Nat
      /\ restarts \in Nat
  BY LenProperties DEF TypeOK
<1>f. IsFiniteSet(Waiting) /\ Cardinality(Waiting) \in Nat
  BY FS_Subset, FS_CardinalityType DEF Waiting
<1>0. InFlight = Cardinality(Waiting) + restarts
  BY DEF NothingLost, Waiting
<1>w. cpc' = cpc => Waiting' = Waiting
  BY DEF Waiting
<1>g. SUFFICES InFlight' = Cardinality(Waiting') + restarts'
  BY DEF NothingLost, Waiting
<1> HIDE DEF Waiting
<1>1. ASSUME NEW c \in Callers, NEW fn \in Functions16, NEW a \in Args,
             NEW b \in Args, Call(c, fn, a, b)
      PROVE  InFlight' = Cardinality(Waiting') + restarts'
  <2>1. Waiting' = Waiting \cup {c} /\ c \notin Waiting
    BY <1>1 DEF Waiting, Call, TypeOK
  <2>2. Cardinality(Waiting') = Cardinality(Waiting) + 1
    BY <1>f, <2>1, FS_AddElement
  <2>3. Len(q1') = Len(q1) + 1
    <3>1. [fn |-> fn, arg1 |-> Swap(a), arg2 |-> Swap(b)] \in Request
      BY SwapShort DEF Request
    <3> QED
      BY <1>1, <3>1, AppendElements DEF Call, TypeOK
  <2> QED
    <3>1. UNCHANGED <<restarts, toServer, q2, q3, toClient, q4>>
      BY <1>1 DEF Call
    <3>2. InFlight' = InFlight + 1
      BY <1>n, <2>3, <3>1 DEF InFlight
    <3> QED
      BY <1>0, <1>n, <1>f, <2>2, <3>1, <3>2
<1>2. ASSUME NEW c \in Callers, Return(c)
      PROVE  InFlight' = Cardinality(Waiting') + restarts'
  <2>1. Waiting' = Waiting \ {c} /\ c \in Waiting
    BY <1>2 DEF Waiting, Return, TypeOK
  <2>2. Cardinality(Waiting') = Cardinality(Waiting) - 1
    BY <1>f, <2>1, FS_RemoveElement
  <2>3. Len(q4') = Len(q4) - 1
    BY <1>2, TailElements DEF Return, TypeOK
  <2> QED
    <3>1. UNCHANGED <<restarts, q1, toServer, q2, q3, toClient>>
      BY <1>2 DEF Return
    <3>2. InFlight' = InFlight - 1
      BY <1>n, <2>3, <3>1 DEF InFlight
    <3> QED
      BY <1>0, <1>n, <1>f, <2>2, <3>1, <3>2
<1>3. ASSUME NEW c \in Callers, Restart(c)
      PROVE  InFlight' = Cardinality(Waiting') + restarts'
  <2>1. Waiting' = Waiting \ {c} /\ c \in Waiting
    BY <1>3 DEF Waiting, Restart, TypeOK
  <2>2. Cardinality(Waiting') = Cardinality(Waiting) - 1
    BY <1>f, <2>1, FS_RemoveElement
  <2> QED
    BY <1>0, <1>n, <1>f, <1>3, <2>2 DEF InFlight, Restart
<1>4. CASE StubForward
  <2>1. Len(q1') = Len(q1) - 1
    BY <1>4, TailElements DEF StubForward, TypeOK
  <2>2. Len(toServer') = Len(toServer) + 1
    BY <1>4, AppendLength DEF StubForward, TypeOK
  <2>3. UNCHANGED <<cpc, restarts, q2, q3, toClient, q4>>
    BY <1>4 DEF StubForward
  <2>4. InFlight' = InFlight
    BY <1>n, <2>1, <2>2, <2>3 DEF InFlight
  <2> QED
    BY <1>0, <1>w, <2>3, <2>4
<1>5. CASE StubReply
  <2>1. Len(toClient') = Len(toClient) - 1
    BY <1>5, TailElements DEF StubReply, TypeOK
  <2>2. Len(q4') = Len(q4) + 1
    BY <1>5, AppendLength DEF StubReply, TypeOK
  <2>3. UNCHANGED <<cpc, restarts, q1, toServer, q2, q3>>
    BY <1>5 DEF StubReply
  <2>4. InFlight' = InFlight
    BY <1>n, <2>1, <2>2, <2>3 DEF InFlight
  <2> QED
    BY <1>0, <1>w, <2>3, <2>4
<1>6. CASE ServerStubRequest
  <2>1. Len(toServer') = Len(toServer) - 1
    BY <1>6, TailElements DEF ServerStubRequest, TypeOK
  <2>2. Len(q2') = Len(q2) + 1
    BY <1>6, AppendLength DEF ServerStubRequest, TypeOK
  <2>3. UNCHANGED <<cpc, restarts, q1, q3, toClient, q4>>
    BY <1>6 DEF ServerStubRequest
  <2>4. InFlight' = InFlight
    BY <1>n, <2>1, <2>2, <2>3 DEF InFlight
  <2> QED
    BY <1>0, <1>w, <2>3, <2>4
<1>7. CASE ServerStubReply
  <2>1. Len(q3') = Len(q3) - 1
    BY <1>7, TailElements DEF ServerStubReply, TypeOK
  <2>2. Len(toClient') = Len(toClient) + 1
    BY <1>7, AppendLength DEF ServerStubReply, TypeOK
  <2>3. UNCHANGED <<cpc, restarts, q1, toServer, q2, q4>>
    BY <1>7 DEF ServerStubReply
  <2>4. InFlight' = InFlight
    BY <1>n, <2>1, <2>2, <2>3 DEF InFlight
  <2> QED
    BY <1>0, <1>w, <2>3, <2>4
<1>8. CASE Serve
  <2>1. Len(q2') = Len(q2) - 1
    BY <1>8, TailElements DEF Serve, TypeOK
  <2>2. Len(q3') = Len(q3) + 1
    BY <1>8, AppendLength DEF Serve, TypeOK
  <2>3. UNCHANGED <<cpc, restarts, q1, toServer, toClient, q4>>
    BY <1>8 DEF Serve
  <2>4. InFlight' = InFlight
    BY <1>n, <2>1, <2>2, <2>3 DEF InFlight
  <2> QED
    BY <1>0, <1>w, <2>3, <2>4
<1>9. CASE StubTimeout
  BY <1>0, <1>w, <1>9 DEF InFlight, StubTimeout
<1>10. CASE UNCHANGED vars
  BY <1>0, <1>w, <1>10 DEF InFlight
<1> QED
  BY <1>1, <1>2, <1>3, <1>4, <1>5, <1>6, <1>7, <1>8, <1>9, <1>10
  DEF Next, Stub, ServerStub

-----------------------------------------------------------------------------
(* At most one client has called when Alone holds.                         *)
LEMMA AloneOne ==
  ASSUME Alone, NEW c \in Callers, NEW d \in Callers,
         call[c] # NoCall, call[d] # NoCall
  PROVE  c = d
<1> DEFINE S == {e \in Callers : call[e] # NoCall}
<1>1. IsFiniteSet(S) /\ Cardinality(S) \in Nat /\ Cardinality(S) <= 1
  BY FS_Subset, FS_CardinalityType DEF Alone
<1>2. c \in S /\ d \in S
  OBVIOUS
<1> HIDE DEF S
<1>3. IsFiniteSet(S \ {c}) /\ Cardinality(S \ {c}) = Cardinality(S) - 1
  BY <1>1, <1>2, FS_RemoveElement
<1>4. Cardinality(S \ {c}) = 0
  BY <1>1, <1>3, FS_CardinalityType
<1> QED
  BY <1>2, <1>3, <1>4, FS_EmptySet

(* The same in the next state.                                             *)
LEMMA AloneOneNext ==
  ASSUME Alone', NEW c \in Callers, NEW d \in Callers,
         call'[c] # NoCall, call'[d] # NoCall
  PROVE  c = d
<1> DEFINE S == {e \in Callers : call'[e] # NoCall}
<1>1. IsFiniteSet(S) /\ Cardinality(S) \in Nat /\ Cardinality(S) <= 1
  BY FS_Subset, FS_CardinalityType DEF Alone
<1>2. c \in S /\ d \in S
  OBVIOUS
<1> HIDE DEF S
<1>3. IsFiniteSet(S \ {c}) /\ Cardinality(S \ {c}) = Cardinality(S) - 1
  BY <1>1, <1>2, FS_RemoveElement
<1>4. Cardinality(S \ {c}) = 0
  BY <1>1, <1>3, FS_CardinalityType
<1> QED
  BY <1>2, <1>3, <1>4, FS_EmptySet

(* A call is never forgotten but by an interrupted client, so whoever is   *)
(* alone was alone before.                                                 *)
LEMMA AloneBefore ==
  ASSUME TypeOK, [Next]_vars, Alone'
  PROVE  Alone /\ \A c \in Callers : call[c] # NoCall => call'[c] # NoCall
<1>1. restarts \in Nat /\ restarts' = 0
  BY DEF TypeOK, Alone
<1>2. ASSUME NEW c \in Callers, NEW fn \in Functions16, NEW a \in Args,
             NEW b \in Args, Call(c, fn, a, b)
      PROVE  /\ restarts' = restarts
             /\ \A d \in Callers : call[d] # NoCall => call'[d] # NoCall
  BY <1>2 DEF Call, TypeOK, NoCall, Functions16
<1>3. ASSUME NEW c \in Callers, Restart(c) PROVE FALSE
  BY <1>1, <1>3 DEF Restart
<1>4. /\ restarts' = restarts
      /\ \A d \in Callers : call[d] # NoCall => call'[d] # NoCall
  BY <1>2, <1>3 DEF Next, Return, Stub, ServerStub, StubForward, StubReply,
     StubTimeout, ServerStubRequest, ServerStubReply, Serve
<1>5. {d \in Callers : call[d] # NoCall}
        \subseteq {d \in Callers : call'[d] # NoCall}
  BY <1>4
<1>6. IsFiniteSet({d \in Callers : call'[d] # NoCall})
  BY FS_Subset
<1>7. Cardinality({d \in Callers : call[d] # NoCall})
        <= Cardinality({d \in Callers : call'[d] # NoCall})
  BY <1>5, <1>6, FS_Subset
<1>8. /\ Cardinality({d \in Callers : call[d] # NoCall}) \in Nat
      /\ Cardinality({d \in Callers : call'[d] # NoCall}) \in Nat
  BY <1>5, <1>6, FS_Subset, FS_CardinalityType
<1> QED
  BY <1>1, <1>4, <1>7, <1>8 DEF Alone

(* Who waits has made a call.                                              *)
LEMMA CalledStep == TypeOK /\ CalledOK /\ [Next]_vars => CalledOK'
<1> SUFFICES ASSUME TypeOK, CalledOK, [Next]_vars PROVE CalledOK'
  OBVIOUS
<1>1. ASSUME NEW c \in Callers, NEW fn \in Functions16, NEW a \in Args,
             NEW b \in Args, Call(c, fn, a, b)
      PROVE  CalledOK'
  BY <1>1 DEF Call, TypeOK, CalledOK, Made
<1>2. ASSUME NEW c \in Callers, Return(c) PROVE CalledOK'
  BY <1>2 DEF Return, TypeOK, CalledOK, Made
<1>3. ASSUME NEW c \in Callers, Restart(c) PROVE CalledOK'
  BY <1>3 DEF Restart, TypeOK, CalledOK, Made
<1>4. CASE UNCHANGED <<cpc, call>>
  BY <1>4 DEF CalledOK, Made
<1> QED
  BY <1>1, <1>2, <1>3, <1>4
  DEF Next, Stub, ServerStub, StubForward, StubReply, StubTimeout,
      ServerStubRequest, ServerStubReply, Serve

(* When nobody waits and nobody was interrupted, nothing is on its way.    *)
LEMMA NobodyWaits ==
  ASSUME TypeOK, NothingLost, restarts = 0,
         \A c \in Callers : cpc[c] # "wait"
  PROVE  /\ q1 = <<>> /\ toServer = <<>> /\ q2 = <<>>
         /\ q3 = <<>> /\ toClient = <<>> /\ q4 = <<>>
<1>1. {c \in Callers : cpc[c] = "wait"} = {}
  OBVIOUS
<1>2. InFlight = 0
  BY <1>1, FS_EmptySet DEF NothingLost
<1>3. /\ Len(q1) \in Nat /\ Len(toServer) \in Nat /\ Len(q2) \in Nat
      /\ Len(q3) \in Nat /\ Len(toClient) \in Nat /\ Len(q4) \in Nat
  BY LenProperties DEF TypeOK
<1>4. /\ Len(q1) = 0 /\ Len(toServer) = 0 /\ Len(q2) = 0
      /\ Len(q3) = 0 /\ Len(toClient) = 0 /\ Len(q4) = 0
  BY <1>2, <1>3 DEF InFlight
<1> QED
  BY <1>4, EmptySeq DEF TypeOK

(* The one message on its way is the lone client's call, or the answer to  *)
(* it, in the byte order of the place where it is.                         *)
LEMMA PathStep == IInv /\ [Next]_vars /\ CalledOK' => PathOK'
<1> SUFFICES ASSUME IInv, [Next]_vars, CalledOK', Alone',
                    NEW d \in Callers, cpc'[d] = "wait"
             PROVE  OnPath(call[d])'
  BY DEF PathOK
<1>0. TypeOK /\ NothingLost /\ CalledOK /\ Alone /\ PathOK
  BY AloneBefore DEF IInv
<1>m. ASSUME NEW k, Made(k) PROVE k # NoCall
  BY <1>m DEF Made, NoCall, Functions16
<1>d. ASSUME NEW c \in Callers, Made(call'[c]) PROVE c = d
  BY <1>d, <1>m, AloneOneNext DEF CalledOK
<1>k. ASSUME UNCHANGED <<cpc, call>> PROVE OnPath(call[d]) /\ Made(call[d])
  BY <1>0, <1>k DEF PathOK, CalledOK
<1>1. ASSUME NEW c \in Callers, NEW fn \in Functions16, NEW a \in Args,
             NEW b \in Args, Call(c, fn, a, b)
      PROVE  OnPath(call[d])'
  <2>1. Made(call'[c]) /\ c = d
    BY <1>0, <1>d, <1>1 DEF Call, TypeOK, Made
  <2>2. ASSUME NEW e \in Callers, cpc[e] = "wait" PROVE FALSE
    <3>1. e # c /\ Made(call[e]) /\ call'[e] = call[e]
      BY <1>0, <1>1, <2>2 DEF Call, TypeOK, CalledOK
    <3> QED
      BY <1>d, <2>1, <3>1
  <2>3. /\ q1 = <<>> /\ toServer = <<>> /\ q2 = <<>>
        /\ q3 = <<>> /\ toClient = <<>> /\ q4 = <<>>
    BY <1>0, <2>2, NobodyWaits DEF Alone
  <2>4. q1' = <<Wire(call'[d])>>
    BY <1>0, <1>1, <2>1, <2>3 DEF Call, TypeOK, Wire
  <2>5. Len(q1') = 1 /\ q1'[1] = Wire(call'[d])
    BY <2>4
  <2>6. /\ toServer' = <<>> /\ q2' = <<>> /\ q3' = <<>>
        /\ toClient' = <<>> /\ q4' = <<>>
    BY <1>1, <2>3 DEF Call
  <2> QED
    BY <2>5, <2>6 DEF OnPath
<1>2. ASSUME NEW c \in Callers, Return(c) PROVE OnPath(call[d])'
  <2>1. Made(call'[c]) /\ cpc'[c] = "idle"
    BY <1>0, <1>2 DEF Return, TypeOK, CalledOK
  <2> QED
    BY <1>d, <2>1
<1>3. ASSUME NEW c \in Callers, Restart(c) PROVE OnPath(call[d])'
  BY <1>0, <1>3 DEF Restart, Alone, TypeOK
<1>4. CASE StubForward
  <2>1. OnPath(call[d]) /\ call' = call
    BY <1>k, <1>4 DEF StubForward
  <2>2. \A i \in 1..Len(q1') : q1'[i] = Wire(call[d])
    BY <1>0, <1>4, <2>1, TailElements DEF StubForward, TypeOK, OnPath
  <2>3. Head(q1) = Wire(call[d]) /\ Head(q1) \in Request
    BY <1>0, <1>4, <2>1, TailElements DEF StubForward, TypeOK, OnPath
  <2>4. \A i \in 1..Len(toServer') : toServer'[i] = Wire(call[d])
    BY <1>0, <1>4, <2>1, <2>3, AppendElements DEF StubForward, TypeOK, OnPath
  <2>5. UNCHANGED <<q2, q3, toClient, q4>>
    BY <1>4 DEF StubForward
  <2> QED
    BY <2>1, <2>2, <2>4, <2>5 DEF OnPath
<1>5. CASE StubReply
  <2>1. OnPath(call[d]) /\ call' = call
    BY <1>k, <1>5 DEF StubReply
  <2>2. \A i \in 1..Len(toClient') : Swap(toClient'[i]) = Answer(call[d])
    <3>1. toClient \in Seq(Short) /\ toClient # <<>> /\ toClient' = Tail(toClient)
      BY <1>0, <1>5 DEF StubReply, TypeOK
    <3>2. \A i \in 1..Len(toClient) : Swap(toClient[i]) = Answer(call[d])
      BY <2>1 DEF OnPath
    <3>3. ASSUME NEW i \in 1..Len(toClient') PROVE Swap(toClient'[i]) = Answer(call[d])
      <4>1. i + 1 \in 1..Len(toClient) /\ toClient'[i] = toClient[i + 1]
        BY <3>1, TailElements
      <4> QED
        BY <3>2, <4>1
    <3> QED
      BY <3>3
  <2>3. Swap(Head(toClient)) = Answer(call[d]) /\ Head(toClient) \in Short
    BY <1>0, <1>5, <2>1, TailElements DEF StubReply, TypeOK, OnPath
  <2>4. Swap(Head(toClient)) \in Short
    BY <2>3, ShortInt, SwapShort
  <2>5. \A i \in 1..Len(q4') : q4'[i] = Answer(call[d])
    BY <1>0, <1>5, <2>1, <2>3, <2>4, AppendElements
    DEF StubReply, TypeOK, OnPath
  <2>6. UNCHANGED <<q1, toServer, q2, q3>>
    BY <1>5 DEF StubReply
  <2> QED
    BY <2>1, <2>2, <2>5, <2>6 DEF OnPath
<1>6. CASE ServerStubRequest
  <2> DEFINE r == Head(toServer)
             h == [fn |-> r.fn, arg1 |-> Swap(r.arg1), arg2 |-> Swap(r.arg2)]
  <2>1. OnPath(call[d]) /\ Made(call[d]) /\ call' = call
    BY <1>k, <1>6 DEF ServerStubRequest
  <2>2. \A i \in 1..Len(toServer') : toServer'[i] = Wire(call[d])
    BY <1>0, <1>6, <2>1, TailElements DEF ServerStubRequest, TypeOK, OnPath
  <2>3. r = Wire(call[d]) /\ r \in Request
    BY <1>0, <1>6, <2>1, TailElements DEF ServerStubRequest, TypeOK, OnPath
  <2>4. h = Host(call[d])
    BY <2>1, <2>3, SwapTwice DEF Wire, Host, Made
  <2>5. h \in Request
    BY <2>3, ShortInt, SwapShort DEF Request
  <2>6. q2' = Append(q2, h)
    BY <1>6 DEF ServerStubRequest
  <2> HIDE DEF h
  <2>7. \A i \in 1..Len(q2') : q2'[i] = Host(call[d])
    BY <1>0, <2>1, <2>4, <2>5, <2>6, AppendElements DEF TypeOK, OnPath
  <2>8. UNCHANGED <<q1, q3, toClient, q4>>
    BY <1>6 DEF ServerStubRequest
  <2> QED
    BY <2>1, <2>2, <2>7, <2>8 DEF OnPath
<1>7. CASE ServerStubReply
  <2>1. OnPath(call[d]) /\ call' = call
    BY <1>k, <1>7 DEF ServerStubReply
  <2>2. \A i \in 1..Len(q3') : Swap(q3'[i]) = Answer(call[d])
    <3>1. q3 \in Seq(Short) /\ q3 # <<>> /\ q3' = Tail(q3)
      BY <1>0, <1>7 DEF ServerStubReply, TypeOK
    <3>2. \A i \in 1..Len(q3) : Swap(q3[i]) = Answer(call[d])
      BY <2>1 DEF OnPath
    <3>3. ASSUME NEW i \in 1..Len(q3') PROVE Swap(q3'[i]) = Answer(call[d])
      <4>1. i + 1 \in 1..Len(q3) /\ q3'[i] = q3[i + 1]
        BY <3>1, TailElements
      <4> QED
        BY <3>2, <4>1
    <3> QED
      BY <3>3
  <2>3. Swap(Head(q3)) = Answer(call[d]) /\ Head(q3) \in Short
    BY <1>0, <1>7, <2>1, TailElements DEF ServerStubReply, TypeOK, OnPath
  <2>4. \A i \in 1..Len(toClient') : Swap(toClient'[i]) = Answer(call[d])
    BY <1>0, <1>7, <2>1, <2>3, AppendElements
    DEF ServerStubReply, TypeOK, OnPath
  <2>5. UNCHANGED <<q1, toServer, q2, q4>>
    BY <1>7 DEF ServerStubReply
  <2> QED
    BY <2>1, <2>2, <2>4, <2>5 DEF OnPath
<1>8. CASE Serve
  <2>1. OnPath(call[d]) /\ Made(call[d]) /\ call' = call
    BY <1>k, <1>8 DEF Serve
  <2>2. \A i \in 1..Len(q2') : q2'[i] = Host(call[d])
    BY <1>0, <1>8, <2>1, TailElements DEF Serve, TypeOK, OnPath
  <2>3. Head(q2) = Host(call[d]) /\ Head(q2) \in Request
    BY <1>0, <1>8, <2>1, TailElements DEF Serve, TypeOK, OnPath
  <2>4. Swap(ReturnValue(Head(q2))) = Answer(call[d])
    BY <2>1, <2>3, ServedRight DEF Made
  <2>5. ReturnValue(Head(q2)) \in Short
    BY <2>3, ReturnShort
  <2>6. \A i \in 1..Len(q3') : Swap(q3'[i]) = Answer(call[d])
    BY <1>0, <1>8, <2>1, <2>4, <2>5, AppendElements DEF Serve, TypeOK, OnPath
  <2>7. UNCHANGED <<q1, toServer, toClient, q4>>
    BY <1>8 DEF Serve
  <2> QED
    BY <2>1, <2>2, <2>6, <2>7 DEF OnPath
<1>9. CASE StubTimeout \/ UNCHANGED vars
  BY <1>k, <1>9 DEF StubTimeout, OnPath
<1> QED
  BY <1>1, <1>2, <1>3, <1>4, <1>5, <1>6, <1>7, <1>8, <1>9
  DEF Next, Stub, ServerStub

(* What a lone client prints is taken from the end of that path.           *)
LEMMA AnswerStep == IInv /\ [Next]_vars => AnswerMatchesCall'
<1> SUFFICES ASSUME IInv, [Next]_vars, Alone', NEW d \in Callers,
                    result'[d] # NoResult
             PROVE  result'[d] = Answer(call'[d])
  BY DEF AnswerMatchesCall, Answer, Meant
<1>0. /\ TypeOK /\ Alone /\ PathOK
      /\ result[d] # NoResult => result[d] = Answer(call[d])
  BY AloneBefore DEF IInv, AnswerMatchesCall, Answer
<1>1. ASSUME NEW c \in Callers, NEW fn \in Functions16, NEW a \in Args,
             NEW b \in Args, Call(c, fn, a, b)
      PROVE  result'[d] = Answer(call'[d])
  BY <1>0, <1>1 DEF Call, TypeOK
<1>2. ASSUME NEW c \in Callers, Return(c)
      PROVE  result'[d] = Answer(call'[d])
  <2>1. Head(q4) = Answer(call[c])
    BY <1>0, <1>2, TailElements DEF Return, TypeOK, PathOK, OnPath
  <2> QED
    BY <1>0, <1>2, <2>1 DEF Return, TypeOK
<1>3. ASSUME NEW c \in Callers, Restart(c) PROVE FALSE
  BY <1>0, <1>3 DEF Restart, Alone, TypeOK
<1>4. CASE UNCHANGED <<result, call>>
  BY <1>0, <1>4
<1> QED
  BY <1>1, <1>2, <1>3, <1>4
  DEF Next, Stub, ServerStub, StubForward, StubReply, StubTimeout,
      ServerStubRequest, ServerStubReply, Serve

(* The invariant holds in every state of the four programs.                *)
LEMMA Invariance == Spec => []IInv
<1>1. IInv /\ [Next]_vars => IInv'
  BY TypeStep, LostStep, CalledStep, PathStep, AnswerStep DEF IInv
<1> QED
  BY InitOK, <1>1, PTL DEF Spec

(* All words fit the 16 bits of the wire, and neither the queues of endlab *)
(* nor its stubs lose, repeat or invent a message, timeouts and            *)
(* interrupted clients included.                                           *)
THEOREM PathIsSafe == Spec => []WireSafe
<1>1. IInv => WireSafe
  BY DEF IInv, WireSafe
<1> QED
  BY Invariance, <1>1, PTL

(* A client of endlab that is alone and was not interrupted prints the sum *)
(* or the difference it asked for, to 16 bits.                             *)
THEOREM AnswersMatch == Spec => []AnswerMatchesCall
<1>1. IInv => AnswerMatchesCall
  BY DEF IInv
<1> QED
  BY Invariance, <1>1, PTL
============================================================================
