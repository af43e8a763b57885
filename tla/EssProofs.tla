----------------------------- MODULE EssProofs -----------------------------
(***************************************************************************)
(* For every number of clients, with or without the cleaner, and for any   *)
(* number of interrupted clients: the ESS session of 11-2-22/ESS has one   *)
(* owner, who passes it to the client it signalled; nobody dies in         *)
(* cli_uds_conn; every client reads the answer to its own greeting; and    *)
(* the programs implement the exclusive first-come first-served session.   *)
(*                                                                         *)
(* The invariant follows one hand-over.  The owner has picked a client     *)
(* that is out of the queue (HandingOK) and has bound the socket before it *)
(* signals (PathOK).  A signal, a set flag, a connecting client and a      *)
(* connected one all belong to the client that the owner waits for         *)
(* (CalledOK), so the owner's listening socket holds that client or nobody *)
(* (SocketOK).  The owner alone talks to the server (TalkOK).              *)
(***************************************************************************)
EXTENDS EssAnnounce, SeqLemmas

Waits == {"test", "pausing", "asleep"}
Handing == {"listen", "kill", "accept", "pass"}

(* c has registered and nobody has taken its registration.                 *)
Queued(c) == \E i \in 1..Len(mq) : mq[i] = c

(* The owner has signalled c and waits for it, or has accepted it.         *)
Called(c) == \E o \in Clients : pc[o] \in {"accept", "pass"} /\ nextPid[o] = c

TransitOK == \A c \in transit : pc[c] = "receive"

Distinct == \A i, j \in 1..Len(mq) : mq[i] = mq[j] => i = j

QueuedOK ==
  \A c \in Clients : Queued(c) =>
    /\ c # FirstClient
    /\ pc[c] \in Waits \cup {"gone"}
    /\ ~flag[c] \/ pc[c] = "gone"
    /\ c \notin pending

StartOK ==
  \A c \in Clients :
    pc[c] = "start" => ~flag[c] /\ ~Queued(c) /\ c # FirstClient

FirstOK == pc[FirstClient] \notin Waits \cup {"connect", "receive"}

HandingOK ==
  \A o \in Clients : pc[o] \in Handing =>
    /\ nextPid[o] \in Clients \ {o, FirstClient}
    /\ ~Queued(nextPid[o])
    /\ pc[nextPid[o]] \in Waits \cup {"connect", "receive", "gone"}

PathOK == \A o \in Clients : pc[o] \in {"kill", "accept", "pass"} => path = o

CalledOK ==
  \A c \in Clients :
    /\ c \in pending => Called(c) /\ ~flag[c] /\ pc[c] \in Waits
    /\ flag[c] /\ pc[c] \in Waits => Called(c)
    /\ pc[c] = "connect" => Called(c)
    /\ pc[c] = "receive" /\ c \notin transit => Called(c)

SocketOK ==
  \A o \in Clients :
    /\ pc[o] # "accept" => backlog[o] = <<>>
    /\ pc[o] = "accept" =>
         backlog[o] = IF pc[nextPid[o]] = "receive" THEN <<nextPid[o]>> ELSE <<>>
    /\ pc[o] = "pass" => conn[o] = nextPid[o] /\ pc[conn[o]] = "receive"

TalkOK ==
  \A c \in Clients :
    /\ heard[c] \in {Nobody, c}
    /\ pc[c] = "reply" => \/ toServer = <<c>> /\ toClient = <<>>
                          \/ toServer = <<>> /\ toClient = <<c>>

IdleOK ==
  (\A c \in Clients : pc[c] # "reply") => toServer = <<>> /\ toClient = <<>>

OwnerOK == OneOwner /\ TransitOK
QueueOK == Distinct /\ QueuedOK /\ StartOK /\ FirstOK
CallOK == HandingOK /\ PathOK /\ CalledOK /\ SocketOK

IInv == TypeOK /\ OwnerOK /\ QueueOK /\ CallOK /\ TalkOK /\ IdleOK

(* A step of any client, of the server or of the cleaner; EssAnnounce      *)
(* takes the same steps.                                                   *)
Step == (\E c \in Clients : C(c) \/ Quit(c)) \/ EssAnswer \/ CleanerTake

-----------------------------------------------------------------------------
USE EssConstants DEF vars, mainVars, sessionIO, signalVars, Goto

(* first_client.c takes a subset of the steps of C.c.                      *)
LEMMA NextIsStep == Next => Step
  BY DEF Next, Step, first_client, C, Use

(* The initial state satisfies the invariant.                              *)
LEMMA InitOK == Init => IInv
<1> SUFFICES ASSUME Init PROVE IInv
  OBVIOUS
<1>1. TypeOK
  BY DEF Init, TypeOK
<1>2. OwnerOK
  BY DEF Init, OwnerOK, OneOwner, Owns, Owning, TransitOK
<1>3. QueueOK
  BY DEF Init, QueueOK, Distinct, QueuedOK, StartOK, FirstOK, Queued, Waits
<1>4. CallOK
  BY DEF Init, CallOK, HandingOK, Handing, PathOK, CalledOK, SocketOK
<1>5. TalkOK /\ IdleOK
  BY DEF Init, TalkOK, IdleOK
<1> QED
  BY <1>1, <1>2, <1>3, <1>4, <1>5 DEF IInv

-----------------------------------------------------------------------------
(* Registering a client that is not in the queue.                          *)
LEMMA QueueAppend ==
  ASSUME TypeOK, NEW c \in Clients, mq' = Append(mq, c)
  PROVE  /\ mq' \in Seq(Clients)
         /\ \A d \in Clients : Queued(d)' <=> Queued(d) \/ d = c
         /\ Distinct /\ ~Queued(c) => Distinct'
<1>1. mq \in Seq(Clients)
  BY DEF TypeOK
<1> QED
  BY <1>1, AppendElements DEF Queued, Distinct

(* Taking the first registration, by the owner or by the cleaner: the      *)
(* client it names is in the queue no more.                                *)
LEMMA QueueTail ==
  ASSUME TypeOK, mq # <<>>, mq' = Tail(mq), Distinct
  PROVE  /\ mq' \in Seq(Clients)
         /\ Head(mq) \in Clients /\ Queued(Head(mq)) /\ Distinct'
         /\ \A d \in Clients : Queued(d)' <=> Queued(d) /\ d # Head(mq)
<1>1. mq \in Seq(Clients)
  BY DEF TypeOK
<1>2. /\ Len(mq) > 0
      /\ Head(mq) = mq[1]
      /\ Head(mq) \in Clients
      /\ mq' \in Seq(Clients)
      /\ Len(mq') = Len(mq) - 1
      /\ \A i \in 1..Len(mq') : i + 1 \in 1..Len(mq) /\ mq'[i] = mq[i + 1]
  BY <1>1, TailElements
<1>3. Len(mq) \in Nat
  BY <1>1, LenProperties
<1>4. Queued(Head(mq)) /\ Distinct'
  BY <1>2, <1>3 DEF Queued, Distinct
<1>5. ASSUME NEW d \in Clients
      PROVE  Queued(d)' <=> Queued(d) /\ d # Head(mq)
  <2>1. ASSUME NEW i \in 1..Len(mq), mq[i] = d, d # Head(mq)
        PROVE  i - 1 \in 1..Len(mq') /\ mq'[i - 1] = d
    BY <1>2, <1>3, <2>1
  <2>2. Queued(d) /\ d # Head(mq) => Queued(d)'
    BY <2>1 DEF Queued
  <2>3. Queued(d)' => Queued(d) /\ d # Head(mq)
    BY <1>2, <1>3 DEF Queued, Distinct
  <2> QED
    BY <2>2, <2>3
<1> QED
  BY <1>2, <1>4, <1>5

(* A step that leaves the queue alone.                                     *)
LEMMA QueueSame ==
  ASSUME mq' = mq
  PROVE  /\ \A d \in Clients : Queued(d)' <=> Queued(d)
         /\ Distinct => Distinct'
  BY DEF Queued, Distinct

-----------------------------------------------------------------------------
(* Every step keeps the types: what is queued, signalled or sent are pids. *)
LEMMA TypeStep == IInv /\ Step => TypeOK'
<1> SUFFICES ASSUME IInv, Step PROVE TypeOK'
  OBVIOUS
<1>0. TypeOK
  BY DEF IInv
<1>1. ASSUME NEW c \in Clients, Register(c) PROVE TypeOK'
  BY <1>0, <1>1, QueueAppend DEF TypeOK, Register
<1>2. ASSUME NEW c \in Clients, Wait(c) PROVE TypeOK'
  BY <1>0, <1>2 DEF TypeOK, Wait, TestFlag, Pause
<1>3. ASSUME NEW c \in Clients, Deliver(c) PROVE TypeOK'
  BY <1>0, <1>3 DEF TypeOK, Deliver
<1>4. ASSUME NEW c \in Clients, Quit(c) PROVE TypeOK'
  BY <1>0, <1>4 DEF TypeOK, Quit
<1>5. ASSUME NEW c \in Clients, Connect(c) PROVE TypeOK'
  BY <1>0, <1>5 DEF TypeOK, Connect
<1>6. ASSUME NEW c \in Clients, RecvFd(c) PROVE TypeOK'
  BY <1>0, <1>6 DEF TypeOK, RecvFd
<1>7. ASSUME NEW c \in Clients, Hello(c) PROVE TypeOK'
  BY <1>0, <1>7 DEF TypeOK, Hello
<1>8. ASSUME NEW c \in Clients, Reply(c) PROVE TypeOK'
  BY <1>0, <1>8 DEF TypeOK, Reply
<1>9. ASSUME NEW c \in Clients, TakeNext(c) PROVE TypeOK'
  BY <1>0, <1>9 DEF TypeOK, TakeNext
<1>10. ASSUME NEW c \in Clients, Listen(c) PROVE TypeOK'
  BY <1>0, <1>10 DEF TypeOK, Listen
<1>11. ASSUME NEW c \in Clients, Kill(c) PROVE TypeOK'
  BY <1>0, <1>11 DEF TypeOK, Kill, IInv, CallOK, HandingOK, Handing
<1>12. ASSUME NEW c \in Clients, Accept(c) PROVE TypeOK'
  BY <1>0, <1>12 DEF TypeOK, Accept
<1>13. ASSUME NEW c \in Clients, SendFd(c) PROVE TypeOK'
  <2>1. conn[c] \in Clients
    BY <1>13 DEF SendFd, IInv, CallOK, HandingOK, Handing, SocketOK
  <2> QED
    BY <1>0, <1>13, <2>1 DEF TypeOK, SendFd
<1>14. ASSUME NEW c \in Clients, Exit(c) PROVE TypeOK'
  BY <1>0, <1>14 DEF TypeOK, Exit
<1>15. CASE EssAnswer
  BY <1>0, <1>15 DEF TypeOK, EssAnswer
<1>16. CASE CleanerTake
  BY <1>0, <1>16 DEF TypeOK, CleanerTake
<1> QED
  BY <1>1, <1>2, <1>3, <1>4, <1>5, <1>6, <1>7, <1>8, <1>9, <1>10, <1>11,
     <1>12, <1>13, <1>14, <1>15, <1>16 DEF Step, C, Use, PassOn

(* The session has one owner after every step.  SendFd moves it to the     *)
(* accepted client, which waits in recv_fd; RecvFd only changes how that   *)
(* client owns it.                                                         *)
LEMMA OwnerStep == IInv /\ Step => OwnerOK'
<1> SUFFICES ASSUME IInv, Step PROVE OwnerOK'
  OBVIOUS
<1>0. TypeOK /\ OwnerOK
  BY DEF IInv
<1> USE DEF OwnerOK, OneOwner, Owns, Owning, TransitOK
<1>1. ASSUME NEW c \in Clients, Register(c) PROVE OwnerOK'
  BY <1>0, <1>1 DEF TypeOK, Register
<1>2. ASSUME NEW c \in Clients, Wait(c) PROVE OwnerOK'
  <2>1. CASE TestFlag(c)
    BY <1>0, <2>1 DEF TypeOK, TestFlag
  <2>2. CASE Pause(c)
    BY <1>0, <2>2 DEF TypeOK, Pause
  <2> QED
    BY <1>2, <2>1, <2>2 DEF Wait
<1>3. ASSUME NEW c \in Clients, Deliver(c) PROVE OwnerOK'
  BY <1>0, <1>3 DEF TypeOK, Deliver
<1>4. ASSUME NEW c \in Clients, Quit(c) PROVE OwnerOK'
  BY <1>0, <1>4 DEF TypeOK, Quit
<1>5. ASSUME NEW c \in Clients, Connect(c) PROVE OwnerOK'
  BY <1>0, <1>5 DEF TypeOK, Connect
<1>6. ASSUME NEW c \in Clients, RecvFd(c) PROVE OwnerOK'
  BY <1>0, <1>6 DEF TypeOK, RecvFd
<1>7. ASSUME NEW c \in Clients, Hello(c) \/ Reply(c) PROVE OwnerOK'
  BY ZenonT(40), <1>0, <1>7 DEF TypeOK, Hello, Reply
<1>8. ASSUME NEW c \in Clients,
             TakeNext(c) \/ Listen(c) \/ Kill(c) \/ Accept(c)
      PROVE  OwnerOK'
  BY <1>0, <1>8 DEF TypeOK, TakeNext, Listen, Kill, Accept
<1>9. ASSUME NEW c \in Clients, SendFd(c) PROVE OwnerOK'
  <2>1. conn[c] \in Clients /\ pc[conn[c]] = "receive"
    BY <1>9 DEF SendFd, IInv, CallOK, HandingOK, Handing, SocketOK
  <2>2. transit = {}
    BY <1>0, <1>9 DEF SendFd, TypeOK
  <2>3. \A d \in Clients : pc[d] \in Owning => d = c
    BY <1>0, <1>9 DEF SendFd
  <2> QED
    BY <1>0, <1>9, <2>1, <2>2, <2>3 DEF TypeOK, SendFd
<1>10. ASSUME NEW c \in Clients, Exit(c) PROVE OwnerOK'
  BY <1>0, <1>10 DEF TypeOK, Exit
<1>11. CASE EssAnswer \/ CleanerTake
  BY <1>0, <1>11 DEF TypeOK, EssAnswer, CleanerTake
<1> QED
  BY <1>1, <1>2, <1>3, <1>4, <1>5, <1>6, <1>7, <1>8, <1>9, <1>10, <1>11
  DEF Step, C, Use, PassOn

(* Who is in the queue waits unsignalled, or was interrupted, and is there *)
(* once: a client registers once, and the signal goes to a client that was *)
(* taken out.                                                              *)
LEMMA QueueStep == IInv /\ Step => QueueOK'
<1> SUFFICES ASSUME IInv, Step PROVE QueueOK'
  OBVIOUS
<1>0. TypeOK /\ Distinct /\ QueuedOK /\ StartOK /\ FirstOK /\ CalledOK
  BY DEF IInv, QueueOK, CallOK
<1>q. mq' = mq =>
        Distinct' /\ (\A d \in Clients : Queued(d)' <=> Queued(d))
  BY <1>0, QueueSame
<1> USE DEF QueueOK, QueuedOK, StartOK, FirstOK, Waits
<1>1. ASSUME NEW c \in Clients, Register(c) PROVE QueueOK'
  <2>1. ~Queued(c) /\ ~flag[c] /\ c # FirstClient /\ c \notin pending
    BY <1>0, <1>1 DEF Register, CalledOK
  <2>2. Distinct' /\ \A d \in Clients : Queued(d)' <=> Queued(d) \/ d = c
    BY <1>0, <1>1, <2>1, QueueAppend DEF Register
  <2> QED
    BY <1>0, <1>1, <2>1, <2>2 DEF TypeOK, Register
<1>2. ASSUME NEW c \in Clients, Wait(c) PROVE QueueOK'
  <2>1. CASE TestFlag(c)
    BY <1>0, <1>q, <2>1 DEF TypeOK, TestFlag
  <2>2. CASE Pause(c)
    BY <1>0, <1>q, <2>2 DEF TypeOK, Pause
  <2> QED
    BY <1>2, <2>1, <2>2 DEF Wait
<1>3. ASSUME NEW c \in Clients, Deliver(c) PROVE QueueOK'
  <2>1. pc[c] \in Waits /\ ~Queued(c)
    BY <1>0, <1>3 DEF Deliver, CalledOK
  <2> QED
    BY <1>0, <1>q, <1>3, <2>1 DEF TypeOK, Deliver
<1>4. ASSUME NEW c \in Clients, Quit(c) PROVE QueueOK'
  BY <1>0, <1>q, <1>4 DEF TypeOK, Quit
<1>5. ASSUME NEW c \in Clients, Connect(c) PROVE QueueOK'
  BY <1>0, <1>q, <1>5 DEF TypeOK, Connect
<1>6. ASSUME NEW c \in Clients, RecvFd(c) PROVE QueueOK'
  BY <1>0, <1>q, <1>6 DEF TypeOK, RecvFd
<1>7. ASSUME NEW c \in Clients, Hello(c) \/ Reply(c) PROVE QueueOK'
  BY ZenonT(40), <1>0, <1>q, <1>7 DEF TypeOK, Hello, Reply
<1>8. ASSUME NEW c \in Clients, TakeNext(c) PROVE QueueOK'
  <2>1. Distinct' /\ \A d \in Clients : Queued(d)' => Queued(d)
    BY <1>0, <1>8, QueueTail DEF TakeNext
  <2> QED
    BY <1>0, <1>8, <2>1 DEF TypeOK, TakeNext
<1>9. ASSUME NEW c \in Clients, Listen(c) \/ Accept(c) PROVE QueueOK'
  BY ZenonT(40), <1>0, <1>q, <1>9 DEF TypeOK, Listen, Accept
<1>10. ASSUME NEW c \in Clients, Kill(c) PROVE QueueOK'
  <2>1. ~Queued(nextPid[c])
    BY <1>10 DEF Kill, IInv, CallOK, HandingOK, Handing
  <2> QED
    BY <1>0, <1>q, <1>10, <2>1 DEF TypeOK, Kill
<1>11. ASSUME NEW c \in Clients, SendFd(c) \/ Exit(c) PROVE QueueOK'
  BY ZenonT(40), <1>0, <1>q, <1>11 DEF TypeOK, SendFd, Exit
<1>12. CASE EssAnswer
  BY <1>0, <1>q, <1>12 DEF EssAnswer
<1>13. CASE CleanerTake
  <2>1. Distinct' /\ \A d \in Clients : Queued(d)' => Queued(d)
    BY <1>0, <1>13, QueueTail DEF CleanerTake
  <2> QED
    BY <1>0, <1>13, <2>1 DEF CleanerTake
<1> QED
  BY <1>1, <1>2, <1>3, <1>4, <1>5, <1>6, <1>7, <1>8, <1>9, <1>10, <1>11,
     <1>12, <1>13 DEF Step, C, Use, PassOn

(* ess.c answers into the one session whoever holds it; between two        *)
(* greetings the session carries nothing, so the answer a client reads is  *)
(* to its own greeting.                                                    *)
LEMMA TalkStep == IInv /\ Step => TalkOK' /\ IdleOK'
<1> SUFFICES ASSUME IInv, Step PROVE TalkOK' /\ IdleOK'
  OBVIOUS
<1>0. TypeOK /\ TalkOK /\ IdleOK
  BY DEF IInv
<1> USE DEF TalkOK, IdleOK
<1>1. ASSUME NEW c \in Clients, Register(c) PROVE TalkOK' /\ IdleOK'
  BY <1>0, <1>1 DEF TypeOK, Register
<1>2. ASSUME NEW c \in Clients, Wait(c) PROVE TalkOK' /\ IdleOK'
  BY <1>0, <1>2 DEF TypeOK, Wait, TestFlag, Pause
<1>3. ASSUME NEW c \in Clients, Deliver(c) \/ Quit(c)
      PROVE  TalkOK' /\ IdleOK'
  BY SMTT(30), <1>0, <1>3 DEF TypeOK, Deliver, Quit
<1>4. ASSUME NEW c \in Clients, Connect(c) \/ RecvFd(c)
      PROVE  TalkOK' /\ IdleOK'
  BY <1>0, <1>4 DEF TypeOK, Connect, RecvFd
<1>5. ASSUME NEW c \in Clients, Hello(c) PROVE TalkOK' /\ IdleOK'
  <2>1. \A d \in Clients : pc[d] # "reply"
    BY <1>5 DEF Hello, IInv, OwnerOK, OneOwner, Owns, Owning
  <2>2. toServer' = <<c>> /\ toClient' = <<>>
    BY <1>0, <1>5, <2>1, OneElement DEF Hello
  <2> QED
    BY <1>0, <1>5, <2>1, <2>2 DEF TypeOK, Hello
<1>6. ASSUME NEW c \in Clients, Reply(c) PROVE TalkOK' /\ IdleOK'
  <2>1. toServer = <<>> /\ toClient = <<c>>
    BY <1>0, <1>6 DEF Reply
  <2>2. heard' = [heard EXCEPT ![c] = c] /\ toServer' = <<>> /\ toClient' = <<>>
    BY <1>6, <2>1, OneElement DEF Reply
  <2>3. \A d \in Clients : pc'[d] # "reply"
    BY <1>0, <1>6 DEF Reply, TypeOK, IInv, OwnerOK, OneOwner, Owns, Owning
  <2> QED
    BY <1>0, <2>2, <2>3 DEF TypeOK
<1>7. ASSUME NEW c \in Clients, PassOn(c) PROVE TalkOK' /\ IdleOK'
  BY <1>0, <1>7 DEF TypeOK, PassOn, TakeNext, Listen, Kill, Accept, SendFd, Exit
<1>8. CASE EssAnswer
  <2>1. PICK c \in Clients : pc[c] = "reply"
    BY <1>0, <1>8 DEF EssAnswer
  <2>2. toServer = <<c>> /\ toClient = <<>>
    BY <1>0, <1>8, <2>1 DEF EssAnswer
  <2>3. toServer' = <<>> /\ toClient' = <<c>>
    BY <1>8, <2>2, OneElement DEF EssAnswer
  <2>4. \A d \in Clients : pc[d] = "reply" => d = c
    BY <2>1 DEF IInv, OwnerOK, OneOwner, Owns, Owning
  <2> QED
    BY <1>0, <1>8, <2>1, <2>3, <2>4 DEF EssAnswer
<1>9. CASE CleanerTake
  BY <1>0, <1>9 DEF CleanerTake
<1> QED
  BY <1>1, <1>2, <1>3, <1>4, <1>5, <1>6, <1>7, <1>8, <1>9 DEF Step, C, Use

(* Whoever is called stays called until the session is sent to it.         *)
LEMMA CalledKept ==
  ASSUME TypeOK, Step, NEW d, Called(d),
         \A c \in Clients : pc'[c] = "exit" => pc[c] = "exit"
  PROVE  Called(d)'
<1>1. PICK o \in Clients : pc[o] \in {"accept", "pass"} /\ nextPid[o] = d
  BY DEF Called
<1>2. pc'[o] \in {"accept", "pass"} /\ nextPid'[o] = d
  <2>1. ASSUME NEW c \in Clients, Register(c) \/ Wait(c) \/ Deliver(c) \/ Quit(c)
        PROVE  pc'[o] \in {"accept", "pass"} /\ nextPid'[o] = d
    BY <1>1, <2>1 DEF TypeOK, Register, Wait, TestFlag, Pause, Deliver, Quit
  <2>2. ASSUME NEW c \in Clients, Use(c)
        PROVE  pc'[o] \in {"accept", "pass"} /\ nextPid'[o] = d
    BY <1>1, <2>2 DEF TypeOK, Use, Connect, RecvFd, Hello, Reply
  <2>3. ASSUME NEW c \in Clients, PassOn(c)
        PROVE  pc'[o] \in {"accept", "pass"} /\ nextPid'[o] = d
    BY <1>1, <2>3 DEF TypeOK, PassOn, TakeNext, Listen, Kill, Accept, SendFd, Exit
  <2>4. CASE EssAnswer \/ CleanerTake
    BY <1>1, <2>4 DEF EssAnswer, CleanerTake
  <2> QED
    BY <2>1, <2>2, <2>3, <2>4 DEF Step, C
<1> QED
  BY <1>2 DEF Called

(* One hand-over at a time: signal, flag, connection and accepted          *)
(* connection are all the picked client's.                                 *)
LEMMA CallStep == IInv /\ Step => CallOK'
<1> SUFFICES ASSUME IInv, Step PROVE CallOK'
  OBVIOUS
<1>0. TypeOK /\ OneOwner /\ TransitOK /\ CallOK
  BY DEF IInv, OwnerOK
<1>q. mq' = mq => \A d \in Clients : Queued(d)' <=> Queued(d)
  BY QueueSame
<1>k. (\A c \in Clients : pc'[c] = "exit" => pc[c] = "exit") =>
        \A d \in Clients : Called(d) => Called(d)'
  BY <1>0, CalledKept
<1> USE DEF CallOK, HandingOK, Handing, Waits, PathOK, CalledOK, SocketOK
<1>1. ASSUME NEW c \in Clients, Register(c) PROVE CallOK'
  <2>1. ~flag[c] /\ \A d \in Clients : Queued(d)' <=> Queued(d) \/ d = c
    BY <1>0, <1>1, QueueAppend DEF Register, IInv, QueueOK, StartOK
  <2>2. \A d \in Clients : Called(d) => Called(d)'
    BY <1>0, <1>1, <1>k DEF TypeOK, Register
  <2>3. HandingOK' /\ PathOK'
    BY <1>0, <1>1, <2>1 DEF TypeOK, Register
  <2>4. CalledOK'
    BY <1>0, <1>1, <2>1, <2>2 DEF TypeOK, Register
  <2>5. SocketOK'
    BY <1>0, <1>1 DEF TypeOK, Register
  <2> QED
    BY <2>3, <2>4, <2>5
<1>2. ASSUME NEW c \in Clients, TestFlag(c) PROVE CallOK'
  <2>1. \A d \in Clients : Called(d) => Called(d)'
    BY <1>0, <1>2, <1>k DEF TypeOK, TestFlag
  <2>2. HandingOK' /\ PathOK'
    BY <1>0, <1>q, <1>2 DEF TypeOK, TestFlag
  <2>3. CalledOK'
    BY <1>0, <1>2, <2>1 DEF TypeOK, TestFlag
  <2>4. SocketOK'
    BY <1>0, <1>2 DEF TypeOK, TestFlag
  <2> QED
    BY <2>2, <2>3, <2>4
<1>3. ASSUME NEW c \in Clients, Pause(c) PROVE CallOK'
  <2>1. \A d \in Clients : Called(d) => Called(d)'
    BY <1>0, <1>3, <1>k DEF TypeOK, Pause
  <2>2. HandingOK' /\ PathOK'
    BY <1>0, <1>q, <1>3 DEF TypeOK, Pause
  <2>3. CalledOK'
    BY <1>0, <1>3, <2>1 DEF TypeOK, Pause
  <2>4. SocketOK'
    BY <1>0, <1>3 DEF TypeOK, Pause
  <2> QED
    BY <2>2, <2>3, <2>4
<1>4. ASSUME NEW c \in Clients, Deliver(c) PROVE CallOK'
  <2>1. Called(c) /\ pc[c] \in Waits
    BY <1>0, <1>4 DEF Deliver
  <2>2. \A d \in Clients : Called(d) => Called(d)'
    BY <1>0, <1>4, <1>k DEF TypeOK, Deliver
  <2>3. HandingOK' /\ PathOK'
    BY <1>0, <1>q, <1>4, <2>1 DEF TypeOK, Deliver
  <2>4. CalledOK'
    BY <1>0, <1>4, <2>1, <2>2 DEF TypeOK, Deliver
  <2>5. SocketOK'
    BY <1>0, <1>4, <2>1 DEF TypeOK, Deliver
  <2> QED
    BY <2>3, <2>4, <2>5
<1>5. ASSUME NEW c \in Clients, Quit(c) PROVE CallOK'
  <2>1. \A d \in Clients : Called(d) => Called(d)'
    BY <1>0, <1>5, <1>k DEF TypeOK, Quit
  <2>2. HandingOK' /\ PathOK'
    BY <1>0, <1>q, <1>5 DEF TypeOK, Quit
  <2>3. CalledOK'
    BY <1>0, <1>5, <2>1 DEF TypeOK, Quit
  <2>4. SocketOK'
    BY <1>0, <1>5 DEF TypeOK, Quit
  <2> QED
    BY <2>2, <2>3, <2>4
<1>6. ASSUME NEW c \in Clients, Connect(c) PROVE CallOK'
  <2>1. PICK o \in Clients : pc[o] \in {"accept", "pass"} /\ nextPid[o] = c
    BY <1>0, <1>6 DEF Connect, Called
  <2>2. path = o /\ pc[o] = "accept" /\ backlog[o] = <<>>
    BY <1>0, <1>6, <2>1 DEF Connect
  <2>3. /\ pc' = [pc EXCEPT ![c] = "receive"]
        /\ backlog' = [backlog EXCEPT ![o] = <<c>>]
    BY <1>6, <2>2, OneElement DEF Connect, Listening, TypeOK
  <2>4. \A d \in Clients : Called(d) => Called(d)'
    BY <1>0, <1>6, <1>k DEF TypeOK, Connect
  <2>5. HandingOK' /\ PathOK'
    BY <1>0, <1>q, <1>6, <2>1, <2>2, <2>3 DEF TypeOK, Connect
  <2>6. CalledOK'
    BY <1>0, <1>6, <2>1, <2>2, <2>3, <2>4 DEF TypeOK, Connect
  <2>7. SocketOK'
    BY <1>0, <1>6, <2>1, <2>2, <2>3 DEF TypeOK, Connect
  <2> QED
    BY <2>5, <2>6, <2>7
<1>7. ASSUME NEW c \in Clients, RecvFd(c) PROVE CallOK'
  <2>1. \A d \in Clients : Called(d) => Called(d)'
    BY <1>0, <1>7, <1>k DEF TypeOK, RecvFd
  <2>2. HandingOK' /\ PathOK'
    BY <1>0, <1>q, <1>7 DEF TypeOK, RecvFd, OneOwner, Owns, Owning
  <2>3. CalledOK'
    BY <1>0, <1>7, <2>1 DEF TypeOK, RecvFd
  <2>4. SocketOK'
    BY <1>0, <1>7 DEF TypeOK, RecvFd, OneOwner, Owns, Owning
  <2> QED
    BY <2>2, <2>3, <2>4
<1>8. ASSUME NEW c \in Clients, Hello(c) PROVE CallOK'
  <2>1. \A d \in Clients : Called(d) => Called(d)'
    BY <1>0, <1>8, <1>k DEF TypeOK, Hello
  <2>2. HandingOK' /\ PathOK'
    BY <1>0, <1>q, <1>8 DEF TypeOK, Hello
  <2>3. CalledOK'
    BY <1>0, <1>8, <2>1 DEF TypeOK, Hello
  <2>4. SocketOK'
    BY <1>0, <1>8 DEF TypeOK, Hello
  <2> QED
    BY <2>2, <2>3, <2>4
<1>9. ASSUME NEW c \in Clients, Reply(c) PROVE CallOK'
  <2>1. \A d \in Clients : Called(d) => Called(d)'
    BY <1>0, <1>9, <1>k DEF TypeOK, Reply
  <2>2. HandingOK' /\ PathOK'
    BY <1>0, <1>q, <1>9 DEF TypeOK, Reply
  <2>3. CalledOK'
    BY <1>0, <1>9, <2>1 DEF TypeOK, Reply
  <2>4. SocketOK'
    BY <1>0, <1>9 DEF TypeOK, Reply
  <2> QED
    BY <2>2, <2>3, <2>4
<1>10. ASSUME NEW c \in Clients, TakeNext(c) PROVE CallOK'
  <2>1. /\ Head(mq) \in Clients /\ Queued(Head(mq))
        /\ \A d \in Clients : Queued(d)' <=> Queued(d) /\ d # Head(mq)
    BY <1>0, <1>10, QueueTail DEF TakeNext, IInv, QueueOK
  <2>2. \A d \in Clients : Queued(d) =>
          d # FirstClient /\ pc[d] \in Waits \cup {"gone"}
    BY DEF IInv, QueueOK, QueuedOK
  <2>3. \A d \in Clients : Called(d) => Called(d)'
    BY <1>0, <1>10, <1>k DEF TypeOK, TakeNext
  <2>4. HandingOK' /\ PathOK'
    BY SMTT(30), <1>0, <1>q, <1>10, <2>1, <2>2 DEF TypeOK, TakeNext
  <2>5. CalledOK'
    BY <1>0, <1>10, <2>1, <2>2, <2>3 DEF TypeOK, TakeNext
  <2>6. SocketOK'
    BY <1>0, <1>10, <2>1, <2>2 DEF TypeOK, TakeNext
  <2> QED
    BY <2>4, <2>5, <2>6
<1>11. ASSUME NEW c \in Clients, Listen(c) PROVE CallOK'
  <2>1. \A d \in Clients : Called(d) => Called(d)'
    BY <1>0, <1>11, <1>k DEF TypeOK, Listen
  <2>2. HandingOK' /\ PathOK'
    BY <1>0, <1>q, <1>11 DEF TypeOK, Listen, OneOwner, Owns, Owning
  <2>3. CalledOK'
    BY <1>0, <1>11, <2>1 DEF TypeOK, Listen
  <2>4. SocketOK'
    BY <1>0, <1>11 DEF TypeOK, Listen
  <2> QED
    BY <2>2, <2>3, <2>4
<1>12. ASSUME NEW c \in Clients, Kill(c) PROVE CallOK'
  <2>0. \A d \in Clients : Owns(d) => d = c
    BY <1>0, <1>12 DEF Kill, OneOwner, Owns, Owning
  <2>1. (\A d \in Clients : ~Called(d)) /\ transit = {}
    BY <1>0, <1>12, <2>0 DEF Kill, TypeOK, TransitOK, Called, Owns, Owning
  <2>2. /\ nextPid[c] \in Clients \ {c}
        /\ pc[nextPid[c]] \in Waits \cup {"gone"}
        /\ pc[nextPid[c]] \in Waits => ~flag[nextPid[c]]
    BY <1>0, <1>12, <2>1 DEF Kill
  <2>3. HandingOK' /\ PathOK'
    BY <1>0, <1>q, <1>12, <2>1 DEF TypeOK, Kill
  <2>4. CalledOK'
    <3>1. Called(nextPid[c])'
      BY <1>0, <1>12 DEF TypeOK, Kill, Called
    <3> QED
      BY <1>0, <1>12, <2>1, <2>2, <3>1 DEF TypeOK, Kill
  <2>5. SocketOK'
    BY <1>0, <1>12, <2>2 DEF TypeOK, Kill
  <2> QED
    BY <2>3, <2>4, <2>5
<1>13. ASSUME NEW c \in Clients, Accept(c) PROVE CallOK'
  <2>1. backlog[c] = <<nextPid[c]>> /\ pc[nextPid[c]] = "receive"
    BY <1>0, <1>13 DEF Accept
  <2>2. /\ conn' = [conn EXCEPT ![c] = nextPid[c]]
        /\ backlog' = [backlog EXCEPT ![c] = <<>>]
    BY <1>13, <2>1, OneElement DEF Accept, TypeOK
  <2>3. \A d \in Clients : Called(d) => Called(d)'
    BY <1>0, <1>13, <1>k DEF TypeOK, Accept
  <2>4. HandingOK' /\ PathOK'
    BY <1>0, <1>q, <1>13, <2>1, <2>2 DEF TypeOK, Accept
  <2>5. CalledOK'
    BY <1>0, <1>13, <2>1, <2>2, <2>3 DEF TypeOK, Accept
  <2>6. SocketOK'
    BY <1>0, <1>13, <2>1, <2>2 DEF TypeOK, Accept
  <2> QED
    BY <2>4, <2>5, <2>6
<1>14. ASSUME NEW c \in Clients, SendFd(c) PROVE CallOK'
  <2>1. HandingOK' /\ PathOK' /\ SocketOK'
    BY <1>0, <1>q, <1>14 DEF TypeOK, SendFd
  <2>2. ASSUME NEW d \in Clients, Called(d)
        PROVE  d = conn[c] /\ pc[d] = "receive"
    <3>1. PICK o \in Clients : pc[o] \in {"accept", "pass"} /\ nextPid[o] = d
      BY <2>2 DEF Called
    <3>2. o = c
      BY <1>0, <1>14, <3>1 DEF SendFd, OneOwner, Owns, Owning
    <3> QED
      BY <1>0, <1>14, <3>1, <3>2 DEF SendFd
  <2>3. CalledOK'
    BY <1>0, <1>14, <2>2 DEF TypeOK, SendFd
  <2> QED
    BY <2>1, <2>3
<1>15. ASSUME NEW c \in Clients, Exit(c) PROVE CallOK'
  <2>1. \A d \in Clients : Called(d) => Called(d)'
    BY <1>0, <1>15, <1>k DEF TypeOK, Exit
  <2>2. HandingOK' /\ PathOK'
    BY <1>0, <1>q, <1>15 DEF TypeOK, Exit
  <2>3. CalledOK'
    BY <1>0, <1>15, <2>1 DEF TypeOK, Exit
  <2>4. SocketOK'
    BY <1>0, <1>15 DEF TypeOK, Exit
  <2> QED
    BY <2>2, <2>3, <2>4
<1>16. CASE EssAnswer
  BY <1>0, <1>q, <1>k, <1>16 DEF EssAnswer
<1>17. CASE CleanerTake
  <2>1. \A d \in Clients : Queued(d)' => Queued(d)
    BY <1>0, <1>17, QueueTail DEF CleanerTake, IInv, QueueOK
  <2> QED
    BY <1>0, <1>k, <1>17, <2>1 DEF CleanerTake
<1> QED
  BY <1>1, <1>2, <1>3, <1>4, <1>5, <1>6, <1>7, <1>8, <1>9, <1>10, <1>11,
     <1>12, <1>13, <1>14, <1>15, <1>16, <1>17 DEF Step, C, Wait, Use, PassOn

(* Every step of the programs keeps the invariant.                         *)
LEMMA StepOK == IInv /\ Step => IInv'
  BY TypeStep, OwnerStep, QueueStep, CallStep, TalkStep DEF IInv

(* The invariant is about the programs' state only.                        *)
LEMMA StutterOK == IInv /\ UNCHANGED vars => IInv'
<1> SUFFICES ASSUME IInv, UNCHANGED vars PROVE IInv'
  OBVIOUS
<1>1. TypeOK' /\ OwnerOK'
  BY DEF IInv, TypeOK, OwnerOK, OneOwner, Owns, TransitOK
<1>2. QueueOK'
  BY DEF IInv, QueueOK, Distinct, QueuedOK, StartOK, FirstOK, Queued
<1>3. CallOK'
  BY DEF IInv, CallOK, HandingOK, PathOK, CalledOK, SocketOK, Called, Queued
<1>4. TalkOK' /\ IdleOK'
  BY DEF IInv, TalkOK, IdleOK
<1> QED
  BY <1>1, <1>2, <1>3, <1>4 DEF IInv

(* What the invariant says of the hand-over.                               *)
LEMMA IInvSafe == IInv => HandoverSafe
<1> SUFFICES ASSUME IInv PROVE HandoverSafe
  OBVIOUS
<1>1. OneOwner /\ AcceptsTheSignalled /\ AnswerIsMine
  BY DEF IInv, OwnerOK, CallOK, SocketOK, TalkOK, AcceptsTheSignalled,
         AnswerIsMine
<1>2. ASSUME NEW c \in Clients, pc[c] = "connect"
      PROVE  path # Nobody /\ Listening(path)
  <2>1. PICK o \in Clients : pc[o] \in {"accept", "pass"} /\ nextPid[o] = c
    BY <1>2 DEF IInv, CallOK, CalledOK, Called
  <2> QED
    BY <2>1 DEF IInv, CallOK, PathOK, Listening
<1> QED
  BY <1>1, <1>2 DEF HandoverSafe, ConnectSucceeds

(* The invariant holds in every state of the programs.                     *)
LEMMA Invariance == Spec => []IInv
<1>1. IInv /\ [Next]_vars => IInv'
  BY NextIsStep, StepOK, StutterOK
<1> QED
  BY InitOK, <1>1, PTL DEF Spec

(* Types of the ESS programs (11-2-22/ESS/C.c, first_client.c): queues and *)
(* sockets hold pids of clients.                                           *)
THEOREM TypesKept == Spec => []TypeOK
<1>1. IInv => TypeOK
  BY DEF IInv
<1> QED
  BY Invariance, <1>1, PTL

(* The session of 11-2-22/ESS always has exactly one owner, who passes it  *)
(* to the client it signalled; a signalled client finds a listener; each   *)
(* client reads the answer to its own greeting.                            *)
THEOREM HandoverIsSafe == Spec => []HandoverSafe
  BY Invariance, IInvSafe, PTL

-----------------------------------------------------------------------------
(* The refinement of EssSession                                            *)

(* The owner chosen by the mapping is the one owner there is.              *)
LEMMA OwnerIs ==
  ASSUME OneOwner, NEW o \in Clients, Owns(o)
  PROVE  owner = o
  BY DEF OneOwner, owner

(* The same in the next state.                                             *)
LEMMA OwnerIsNext ==
  ASSUME OneOwner', NEW o \in Clients, Owns(o)'
  PROVE  owner' = o
  BY DEF OneOwner, owner

(* A step in which the owner goes on, neither before nor after its choice, *)
(* is invisible in the abstract session.                                   *)
LEMMA SameSession ==
  ASSUME IInv, IInv', NEW o \in Clients, Owns(o), Owns(o)',
         pc'[o] \in Handing <=> pc[o] \in Handing, nextPid'[o] = nextPid[o]
  PROVE  owner' = owner /\ successor' = successor
<1>1. owner = o /\ owner' = o
  BY OwnerIs, OwnerIsNext DEF IInv, OwnerOK
<1> QED
  BY <1>1 DEF successor, Handing

(* Each step of the programs is a step of the abstract session or leaves   *)
(* it alone: registering is Join, msgrcv of the owner is Choose, send_fd   *)
(* is HandOver and msgrcv of the cleaner is Drop.                          *)
LEMMA SessionStep ==
  ASSUME IInv, IInv', Step
  PROVE  Session!SessionNext \/ UNCHANGED Session!sessionVars
<1>0. TypeOK /\ OneOwner /\ TransitOK /\ HandingOK /\ SocketOK
  BY DEF IInv, OwnerOK, CallOK
<1>o. PICK o \in Clients : Owns(o)
  BY <1>0 DEF OneOwner
<1>u. ASSUME NEW c \in Clients, pc[c] \in Owning PROVE o = c
  BY <1>0, <1>o, <1>u DEF OneOwner, Owns
<1>s. ASSUME Owns(o)', pc'[o] \in Handing <=> pc[o] \in Handing,
             nextPid'[o] = nextPid[o]
      PROVE  owner' = owner /\ successor' = successor
  BY <1>o, <1>s, SameSession
<1> USE DEF Owns, Owning, Handing, Session!sessionVars
<1>1. ASSUME NEW c \in Clients, Register(c) PROVE Session!SessionNext
  <2>1. owner' = owner /\ successor' = successor
    BY <1>0, <1>o, <1>s, <1>1 DEF TypeOK, TransitOK, Register
  <2> QED
    BY <1>1, <2>1 DEF Register, Session!SessionNext, Session!Join
<1>2. ASSUME NEW c \in Clients, Wait(c) \/ Deliver(c) \/ Quit(c)
      PROVE  UNCHANGED Session!sessionVars
  <2>1. owner' = owner /\ successor' = successor
    <3>1. CASE TestFlag(c)
      BY <1>0, <1>o, <1>s, <3>1 DEF TypeOK, TransitOK, TestFlag
    <3>2. CASE Pause(c)
      BY <1>0, <1>o, <1>s, <3>2 DEF TypeOK, TransitOK, Pause
    <3>3. CASE Deliver(c)
      BY <1>0, <1>o, <1>s, <3>3 DEF TypeOK, TransitOK, Deliver
    <3>4. CASE Quit(c)
      BY <1>0, <1>o, <1>s, <3>4 DEF TypeOK, TransitOK, Quit
    <3> QED
      BY <1>2, <3>1, <3>2, <3>3, <3>4 DEF Wait
  <2> QED
    BY <1>2, <2>1 DEF Wait, TestFlag, Pause, Deliver, Quit
<1>3. ASSUME NEW c \in Clients, Use(c) PROVE UNCHANGED Session!sessionVars
  <2>1. owner' = owner /\ successor' = successor
    <3>1. CASE Connect(c)
      BY <1>0, <1>o, <1>s, <3>1 DEF TypeOK, TransitOK, Connect
    <3>2. CASE RecvFd(c)
      <4>1. o = c
        BY <1>0, <1>o, <3>2 DEF OneOwner, RecvFd
      <4> QED
        BY <1>0, <1>s, <3>2, <4>1 DEF TypeOK, RecvFd
    <3>3. CASE Hello(c)
      BY <1>0, <1>u, <1>s, <3>3 DEF TypeOK, Hello
    <3>4. CASE Reply(c)
      BY <1>0, <1>u, <1>s, <3>4 DEF TypeOK, Reply
    <3> QED
      BY <1>3, <3>1, <3>2, <3>3, <3>4 DEF Use
  <2> QED
    BY <1>3, <2>1 DEF Use, Connect, RecvFd, Hello, Reply
<1>4. ASSUME NEW c \in Clients, TakeNext(c) PROVE Session!SessionNext
  <2>1. owner = c
    BY <1>0, <1>4, OwnerIs DEF TakeNext
  <2>2. owner' = c
    BY <1>0, <1>4, OwnerIsNext DEF TypeOK, TakeNext, IInv, OwnerOK
  <2>3. successor = Nobody /\ successor' = Head(mq)
    BY <1>0, <1>4, <2>1, <2>2 DEF successor, TypeOK, TakeNext
  <2> QED
    BY <1>4, <2>1, <2>2, <2>3
    DEF TakeNext, Session!SessionNext, Session!Choose
<1>5. ASSUME NEW c \in Clients, Listen(c) \/ Kill(c) \/ Accept(c)
      PROVE  UNCHANGED Session!sessionVars
  <2>1. owner' = owner /\ successor' = successor
    BY <1>0, <1>u, <1>s, <1>5 DEF TypeOK, Listen, Kill, Accept
  <2> QED
    BY <1>5, <2>1 DEF Listen, Kill, Accept
<1>6. ASSUME NEW c \in Clients, SendFd(c) PROVE Session!SessionNext
  <2>1. /\ nextPid[c] \in Clients \ {c} /\ conn[c] = nextPid[c]
        /\ pc[nextPid[c]] = "receive"
    BY <1>0, <1>6 DEF SendFd, HandingOK, SocketOK
  <2>2. owner = c /\ successor = nextPid[c]
    BY <1>0, <1>6, OwnerIs DEF SendFd, successor
  <2>3. owner' = nextPid[c]
    BY <1>0, <1>6, <2>1, OwnerIsNext DEF SendFd, IInv, OwnerOK
  <2>4. successor' = Nobody
    BY <1>0, <1>6, <2>1, <2>3 DEF SendFd, successor, TypeOK
  <2> QED
    BY <1>6, <2>1, <2>2, <2>3, <2>4
    DEF SendFd, Session!SessionNext, Session!HandOver
<1>7. ASSUME NEW c \in Clients, Exit(c) PROVE UNCHANGED Session!sessionVars
  <2>1. owner' = owner /\ successor' = successor
    BY <1>0, <1>o, <1>s, <1>7 DEF TypeOK, TransitOK, Exit
  <2> QED
    BY <1>7, <2>1 DEF Exit
<1>8. CASE EssAnswer
  BY <1>o, <1>s, <1>8 DEF EssAnswer
<1>9. CASE CleanerTake
  <2>1. owner' = owner /\ successor' = successor
    BY <1>o, <1>s, <1>9 DEF CleanerTake
  <2> QED
    BY <1>9, <2>1 DEF CleanerTake, Session!SessionNext, Session!Drop
<1> QED
  BY <1>1, <1>2, <1>3, <1>4, <1>5, <1>6, <1>7, <1>8, <1>9
  DEF Step, C, PassOn

(* Initially the first client holds the session and nobody waits.          *)
LEMMA InitIsSession == Init => Session!SessionInit
<1> SUFFICES ASSUME Init PROVE Session!SessionInit
  OBVIOUS
<1>1. OneOwner /\ Owns(FirstClient)
  BY InitOK DEF IInv, OwnerOK, Init, Owns, Owning
<1>2. owner = FirstClient
  BY <1>1, OwnerIs
<1> QED
  BY <1>2 DEF Init, successor, Session!SessionInit

(* The same for a step that may also leave the programs alone.             *)
LEMMA SessionStepOrStutter ==
  ASSUME IInv, IInv', Step \/ UNCHANGED vars
  PROVE  [Session!SessionNext]_Session!sessionVars
<1>1. CASE Step
  BY <1>1, SessionStep
<1>2. CASE UNCHANGED vars
  BY <1>2 DEF Session!sessionVars, owner, successor, Owns
<1> QED
  BY <1>1, <1>2

(* The client programs of 11-2-22/ESS implement the exclusive session that *)
(* is passed on in the order of registration.                              *)
THEOREM SessionRefined == Spec => SessionSafe
<1>1. IInv /\ IInv' /\ [Next]_vars
        => [Session!SessionNext]_Session!sessionVars
  BY NextIsStep, SessionStepOrStutter
<1> QED
  BY Invariance, InitIsSession, <1>1, PTL
  DEF Spec, SessionSafe, Session!SessionSpec

-----------------------------------------------------------------------------
(***************************************************************************)
(* For every number of clients of 22-3-22_RAW/ESS: at most one client is   *)
(* marked as running, it owns the session, nobody is announced before the  *)
(* server has answered it, and a client that has stopped is announced at   *)
(* most once more.                                                         *)
(*                                                                         *)
(* The main threads take the steps of EssHandover, so the invariant of     *)
(* the hand-over holds here too; added to it are the stretch of the        *)
(* program in which i_am_running is set (RunOK), that a late announcement  *)
(* leaves the sender with the flag to test (LateOK), and that only served  *)
(* clients announce (ServedOK).                                            *)
(***************************************************************************)

ThreadTypeOK ==
  /\ running \in [Clients -> BOOLEAN]
  /\ sender \in [Clients -> {"none", "test", "send", "done"}]
  /\ listens \subseteq Clients
  /\ raw \in [Clients -> SUBSET Clients]
  /\ shown \in [Clients -> SUBSET Clients]
  /\ late \in [Clients -> {0, 1}]

RunOK ==
  \A c \in Clients : running[c] =>
    \/ pc[c] \in {"hello", "reply", "next"}
    \/ pc[c] = "listen" /\ c # FirstClient

Served == {"next", "listen", "kill", "accept", "pass", "exit", "gone"}

LateOK ==
  \A c \in Clients : late[c] = 1 =>
    ~running[c] /\ sender[c] # "send" /\ pc[c] \in Served

ServedOK ==
  \A c \in Clients : sender[c] # "none" => heard[c] = c /\ pc[c] \in Served

AIInv ==
  IInv /\ ThreadTypeOK /\ RunOK /\ LateOK /\ ServedOK /\ AnnouncedWasServed

-----------------------------------------------------------------------------
USE EssConstants DEF vars, mainVars, sessionIO, signalVars, Goto
USE DEF annVars, threads

(* The initial state satisfies the invariant.                              *)
LEMMA AInitOK == AInit => AIInv
<1> SUFFICES ASSUME AInit PROVE AIInv
  OBVIOUS
<1>1. IInv
  BY InitOK DEF AInit
<1>2. ThreadTypeOK
  BY DEF AInit, ThreadTypeOK
<1>3. RunOK
  BY DEF AInit, Init, RunOK
<1>4. LateOK /\ ServedOK
  BY DEF AInit, LateOK, ServedOK
<1>5. AnnouncedWasServed
  BY DEF AInit, AnnouncedWasServed
<1> QED
  BY <1>1, <1>2, <1>3, <1>4, <1>5 DEF AIInv

(* The main threads, ess.c and cleaner.c take the steps of EssHandover;    *)
(* the other threads and the assignments to i_am_running take none.        *)
LEMMA AnnounceIsStep == ANext => Step \/ UNCHANGED vars
<1> SUFFICES ASSUME ANext PROVE Step \/ UNCHANGED vars
  OBVIOUS
<1>1. ASSUME NEW c \in Clients, AUse(c) PROVE Step \/ UNCHANGED vars
  BY <1>1 DEF AUse, AHello, AReply, AStop, ATakeNext, AListen, AMain, AEnd,
              SenderTest, SenderSend, Step, C, Use, PassOn
<1>2. ASSUME NEW c \in Clients, AC(c) PROVE Step \/ UNCHANGED vars
  BY <1>1, <1>2 DEF AC, ARegister, ARecvFd, RecvWorker, Step, C, Use
<1>3. CASE AServers
  BY <1>3 DEF AServers, Step
<1> QED
  BY <1>1, <1>2, <1>3 DEF ANext, AFirstClient

(* Every step keeps the types of the threads' state.  A late announcement  *)
(* is the first one: the sender that sends has announced none late.        *)
LEMMA ThreadTypeStep == AIInv /\ ANext => ThreadTypeOK'
<1> SUFFICES ASSUME AIInv, ANext PROVE ThreadTypeOK'
  OBVIOUS
<1>0. ThreadTypeOK /\ LateOK
  BY DEF AIInv
<1> USE DEF ThreadTypeOK
<1>1. ASSUME NEW c \in Clients, ARegister(c) \/ ARecvFd(c) PROVE ThreadTypeOK'
  BY <1>0, <1>1 DEF ARegister, ARecvFd
<1>2. ASSUME NEW c \in Clients,
             AHello(c) \/ AReply(c) \/ AStop(c) \/ ATakeNext(c) \/ AListen(c)
      PROVE  ThreadTypeOK'
  BY <1>0, <1>2 DEF AHello, AReply, AStop, ATakeNext, AListen
<1>3. ASSUME NEW c \in Clients, AMain(c) \/ AEnd(c) PROVE ThreadTypeOK'
  BY <1>0, <1>3 DEF AMain, AEnd
<1>4. ASSUME NEW c \in Clients, SenderTest(c) PROVE ThreadTypeOK'
  BY <1>0, <1>4 DEF SenderTest
<1>5. ASSUME NEW c \in Clients, SenderSend(c) PROVE ThreadTypeOK'
  <2>1. late[c] = 0
    BY <1>0, <1>5 DEF SenderSend, LateOK
  <2>2. raw' \in [Clients -> SUBSET Clients]
    BY <1>0, <1>5 DEF SenderSend
  <2> QED
    BY <1>0, <1>5, <2>1, <2>2 DEF SenderSend
<1>6. ASSUME NEW d \in Clients, RecvWorker(d) PROVE ThreadTypeOK'
  <2>1. PICK c \in raw[d] : /\ raw' = [raw EXCEPT ![d] = @ \ {c}]
                            /\ shown' = [shown EXCEPT ![d] = @ \cup {c}]
    BY <1>6 DEF RecvWorker
  <2> QED
    BY <1>0, <1>6, <2>1 DEF RecvWorker
<1>7. CASE AServers
  BY <1>0, <1>7 DEF AServers
<1> QED
  BY <1>1, <1>2, <1>3, <1>4, <1>5, <1>6, <1>7
  DEF ANext, AFirstClient, AC, AUse

(* i_am_running is set only between recv_fd and serv_uds_listen, or before *)
(* msgrcv in first_client.c.                                               *)
LEMMA RunStep == AIInv /\ ANext => RunOK'
<1> SUFFICES ASSUME AIInv, ANext PROVE RunOK'
  OBVIOUS
<1>0. TypeOK /\ ThreadTypeOK /\ RunOK
  BY DEF AIInv, IInv
<1> USE DEF RunOK, ThreadTypeOK, TypeOK
<1>1. ASSUME NEW c \in Clients, ARegister(c) PROVE RunOK'
  BY <1>0, <1>1 DEF ARegister, Register
<1>2. ASSUME NEW c \in Clients, ARecvFd(c) PROVE RunOK'
  BY <1>0, <1>2 DEF ARecvFd, RecvFd
<1>3. ASSUME NEW c \in Clients, AHello(c) \/ AReply(c) PROVE RunOK'
  <2>1. CASE AHello(c)
    BY <1>0, <2>1 DEF AHello, Hello
  <2>2. CASE AReply(c)
    BY <1>0, <2>2 DEF AReply, Reply
  <2> QED
    BY <1>3, <2>1, <2>2
<1>4. ASSUME NEW c \in Clients, AStop(c) PROVE RunOK'
  BY <1>0, <1>4 DEF AStop
<1>5. ASSUME NEW c \in Clients, ATakeNext(c) \/ AListen(c) PROVE RunOK'
  <2>1. CASE ATakeNext(c)
    BY <1>0, <2>1 DEF ATakeNext, TakeNext
  <2>2. CASE AListen(c)
    BY <1>0, <2>2 DEF AListen, Listen
  <2> QED
    BY <1>5, <2>1, <2>2
<1>6. ASSUME NEW c \in Clients, AMain(c) PROVE RunOK'
  <2>1. CASE Wait(c) \/ Deliver(c)
    BY <1>0, <1>6, <2>1 DEF AMain, Wait, TestFlag, Pause, Deliver
  <2>2. CASE Connect(c)
    BY <1>0, <1>6, <2>2 DEF AMain, Connect
  <2>3. CASE Kill(c) \/ Accept(c) \/ SendFd(c)
    BY <1>0, <1>6, <2>3 DEF AMain, Kill, Accept, SendFd
  <2> QED
    BY <1>6, <2>1, <2>2, <2>3 DEF AMain
<1>7. ASSUME NEW c \in Clients, AEnd(c) PROVE RunOK'
  BY <1>0, <1>7 DEF AEnd, Exit, Quit
<1>8. ASSUME NEW c \in Clients, SenderTest(c) \/ SenderSend(c) \/ RecvWorker(c)
      PROVE  RunOK'
  BY <1>0, <1>8 DEF SenderTest, SenderSend, RecvWorker
<1>9. CASE AServers
  BY <1>0, <1>9 DEF AServers, EssAnswer, CleanerTake
<1> QED
  BY <1>1, <1>2, <1>3, <1>4, <1>5, <1>6, <1>7, <1>8, <1>9
  DEF ANext, AFirstClient, AC, AUse

(* The answer a client has read from the server stays its own.             *)
LEMMA HeardKept ==
  ASSUME IInv, Step, NEW d \in Clients, heard[d] = d
  PROVE  heard'[d] = d
<1>1. ASSUME NEW c \in Clients, Reply(c) PROVE heard'[d] = d
  <2>1. toClient = <<c>>
    BY <1>1 DEF IInv, TalkOK, Reply
  <2> QED
    BY <1>1, <2>1, OneElement DEF IInv, TypeOK, Reply
<1>2. ASSUME NEW c \in Clients,
             Register(c) \/ Wait(c) \/ Deliver(c) \/ Quit(c)
      PROVE  heard'[d] = d
  BY <1>2 DEF Register, Wait, TestFlag, Pause, Deliver, Quit
<1>3. ASSUME NEW c \in Clients, Connect(c) \/ RecvFd(c) \/ Hello(c)
      PROVE  heard'[d] = d
  BY <1>3 DEF Connect, RecvFd, Hello
<1>4. ASSUME NEW c \in Clients, PassOn(c) PROVE heard'[d] = d
  BY <1>4 DEF PassOn, TakeNext, Listen, Kill, Accept, SendFd, Exit
<1>5. CASE EssAnswer \/ CleanerTake
  BY <1>5 DEF EssAnswer, CleanerTake
<1> QED
  BY <1>1, <1>2, <1>3, <1>4, <1>5 DEF Step, C, Use

(* No step takes a client back to before the server's answer.              *)
LEMMA ServedKept ==
  ASSUME TypeOK, Step, NEW d \in Clients, pc[d] \in Served
  PROVE  pc'[d] \in Served
<1> USE DEF TypeOK, Served
<1>1. ASSUME NEW c \in Clients,
             Register(c) \/ Wait(c) \/ Deliver(c) \/ Quit(c)
      PROVE  pc'[d] \in Served
  BY <1>1 DEF Register, Wait, TestFlag, Pause, Deliver, Quit
<1>2. ASSUME NEW c \in Clients, Use(c) PROVE pc'[d] \in Served
  BY <1>2 DEF Use, Connect, RecvFd, Hello, Reply
<1>3. ASSUME NEW c \in Clients, PassOn(c) PROVE pc'[d] \in Served
  BY <1>3 DEF PassOn, TakeNext, Listen, Kill, Accept, SendFd, Exit
<1>4. CASE EssAnswer \/ CleanerTake
  BY <1>4 DEF EssAnswer, CleanerTake
<1> QED
  BY <1>1, <1>2, <1>3, <1>4 DEF Step, C

(* The sender tests the flag after every announcement: after a late one it *)
(* finds the flag cleared, and the flag is never set again.  Senders are   *)
(* the threads of clients that have read their answer.                     *)
LEMMA SenderStep == AIInv /\ ANext => LateOK' /\ ServedOK'
<1> SUFFICES ASSUME AIInv, ANext PROVE LateOK' /\ ServedOK'
  OBVIOUS
<1>0. IInv /\ TypeOK /\ ThreadTypeOK /\ LateOK /\ ServedOK
  BY DEF AIInv, IInv
<1>h. \A d \in Clients : heard[d] = d => heard'[d] = d
  BY <1>0, AnnounceIsStep, HeardKept
<1>s. \A d \in Clients : pc[d] \in Served => pc'[d] \in Served
  BY <1>0, AnnounceIsStep, ServedKept
<1> USE DEF LateOK, ServedOK, ThreadTypeOK
<1>1. ASSUME NEW c \in Clients, ARegister(c) PROVE LateOK' /\ ServedOK'
  BY <1>0, <1>h, <1>s, <1>1 DEF ARegister
<1>2. ASSUME NEW c \in Clients, ARecvFd(c) PROVE LateOK' /\ ServedOK'
  <2>1. late[c] = 0
    BY <1>0, <1>2 DEF ARecvFd, RecvFd, Served
  <2> QED
    BY <1>0, <1>h, <1>s, <1>2, <2>1 DEF ARecvFd
<1>3. ASSUME NEW c \in Clients, AReply(c) PROVE LateOK' /\ ServedOK'
  <2>1. heard'[c] = c
    <3>1. toClient = <<c>>
      BY <1>0, <1>3 DEF IInv, TalkOK, AReply, Reply
    <3> QED
      BY <1>0, <1>3, <3>1, OneElement DEF TypeOK, AReply, Reply
  <2>2. pc'[c] \in Served
    BY <1>0, <1>3 DEF TypeOK, AReply, Reply, Served
  <2> QED
    BY <1>0, <1>h, <1>s, <1>3, <2>1, <2>2 DEF AReply
<1>4. ASSUME NEW c \in Clients,
             AHello(c) \/ ATakeNext(c) \/ AListen(c) \/ AMain(c)
      PROVE  LateOK' /\ ServedOK'
  BY <1>0, <1>h, <1>s, <1>4 DEF AHello, ATakeNext, AListen, AMain
<1>5. ASSUME NEW c \in Clients, AStop(c) PROVE LateOK' /\ ServedOK'
  BY <1>0, <1>h, <1>s, <1>5 DEF AStop
<1>6. ASSUME NEW c \in Clients, AEnd(c) PROVE LateOK' /\ ServedOK'
  BY <1>0, <1>h, <1>s, <1>6 DEF AEnd
<1>7. ASSUME NEW c \in Clients, SenderTest(c) PROVE LateOK' /\ ServedOK'
  BY <1>0, <1>h, <1>s, <1>7 DEF SenderTest
<1>8. ASSUME NEW c \in Clients, SenderSend(c) PROVE LateOK' /\ ServedOK'
  BY <1>0, <1>h, <1>s, <1>8 DEF SenderSend
<1>9. ASSUME NEW c \in Clients, RecvWorker(c) PROVE LateOK' /\ ServedOK'
  BY <1>0, <1>h, <1>s, <1>9 DEF RecvWorker
<1>10. CASE AServers
  BY <1>0, <1>h, <1>s, <1>10 DEF AServers
<1> QED
  BY <1>1, <1>2, <1>3, <1>4, <1>5, <1>6, <1>7, <1>8, <1>9, <1>10
  DEF ANext, AFirstClient, AC, AUse

(* What is on a raw socket or printed names clients the server answered.   *)
LEMMA AnnouncedStep == AIInv /\ ANext => AnnouncedWasServed'
<1> SUFFICES ASSUME AIInv, ANext PROVE AnnouncedWasServed'
  OBVIOUS
<1>0. ThreadTypeOK /\ ServedOK /\ AnnouncedWasServed
  BY DEF AIInv
<1>h. \A d \in Clients : heard[d] = d => heard'[d] = d
  BY AnnounceIsStep, HeardKept DEF AIInv
<1> USE DEF AnnouncedWasServed, ThreadTypeOK
<1>1. ASSUME NEW c \in Clients, SenderSend(c) PROVE AnnouncedWasServed'
  BY <1>0, <1>h, <1>1 DEF SenderSend, ServedOK
<1>2. ASSUME NEW d \in Clients, RecvWorker(d) PROVE AnnouncedWasServed'
  <2>1. PICK c \in raw[d] : /\ raw' = [raw EXCEPT ![d] = @ \ {c}]
                            /\ shown' = [shown EXCEPT ![d] = @ \cup {c}]
    BY <1>2 DEF RecvWorker
  <2> QED
    BY <1>0, <1>h, <2>1
<1>3. CASE UNCHANGED <<raw, shown>>
  BY <1>0, <1>h, <1>3
<1> QED
  BY <1>1, <1>2, <1>3
  DEF ANext, AFirstClient, AC, AUse, AServers, ARegister, ARecvFd, AHello,
      AReply, AStop, ATakeNext, AListen, AMain, AEnd, SenderTest

(* The invariant holds in every state of the announcing clients.           *)
LEMMA AnnounceInvariance == ASpec => []AIInv
<1>1. AIInv /\ ANext => AIInv'
  BY AnnounceIsStep, StepOK, StutterOK, ThreadTypeStep, RunStep, SenderStep,
     AnnouncedStep DEF AIInv
<1>2. AIInv /\ UNCHANGED annVars => AIInv'
  BY StutterOK DEF AIInv, ThreadTypeOK, RunOK, LateOK, ServedOK,
                   AnnouncedWasServed
<1> QED
  BY AInitOK, <1>1, <1>2, PTL DEF ASpec

(* For the clients of 22-3-22_RAW/ESS: one client at most is marked as     *)
(* running and it owns the session, only served clients are announced, and *)
(* a stopped one is announced at most once more.                           *)
THEOREM AnnouncementsAreSafe == ASpec => []AnnounceSafe
<1>1. AIInv => AnnounceSafe
  <2> SUFFICES ASSUME AIInv PROVE AnnounceSafe
    OBVIOUS
  <2>1. ATypeOK /\ AnnouncedWasServed
    BY DEF AIInv, IInv, ThreadTypeOK, ATypeOK
  <2>2. LateAtMostOnce
    BY DEF AIInv, ThreadTypeOK, LateAtMostOnce
  <2>3. ASSUME NEW c \in Clients, running[c]
        PROVE  Owns(c) /\ \A d \in Clients \ {c} : ~running[d]
    <3>1. \A d \in Clients : running[d] => Owns(d)
      BY DEF AIInv, RunOK, Owns, Owning
    <3> QED
      BY <2>3, <3>1 DEF AIInv, IInv, OwnerOK, OneOwner
  <2> QED
    BY <2>1, <2>2, <2>3 DEF AnnounceSafe, OneRunning
<1> QED
  BY AnnounceInvariance, <1>1, PTL

(* The added threads do not disturb the hand-over: the announcing clients  *)
(* keep what the clients of 11-2-22/ESS keep, and implement the same       *)
(* exclusive session.                                                      *)
THEOREM AnnouncersHandOver == ASpec => []HandoverSafe /\ SessionSafe
<1>1. AIInv => IInv
  BY DEF AIInv
<1>2. AInit => Session!SessionInit
  BY InitIsSession DEF AInit
<1>3. IInv /\ IInv' /\ [ANext]_annVars
        => [Session!SessionNext]_Session!sessionVars
  BY AnnounceIsStep, SessionStepOrStutter
<1> QED
  BY AnnounceInvariance, IInvSafe, <1>1, <1>2, <1>3, PTL
  DEF ASpec, SessionSafe, Session!SessionSpec
=============================================================================
