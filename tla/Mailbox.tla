------------------------------- MODULE Mailbox -------------------------------
(***************************************************************************)
(* 11-1-22/message queue: p2, p3 and p4 send their number and pid to p1    *)
(* with type 1 and wait for a message whose type is their pid; p1 answers  *)
(* through the same queue.  A program may be stopped before it reads its   *)
(* answer, which then stays, and a later process may get the same pid.     *)
(***************************************************************************)
EXTENDS Integers, Sequences, FiniteSets, SequencesExt

CONSTANTS
  Senders,   \* p2, p3, p4: their numbers
  Pids,      \* process ids, none of them 1
  Capacity,  \* messages that the queue holds
  MaxStarts  \* bound: programs started

ASSUME MailConstants ==
  /\ IsFiniteSet(Senders) /\ 0 \notin Senders
  /\ Pids \subseteq Nat \ {0, 1} /\ IsFiniteSet(Pids)
  /\ Capacity \in Nat \ {0} /\ MaxStarts \in Nat

VARIABLES
  queue,     \* messages [mtype, from, pid], oldest first
  proc,      \* per pid: 0 or the number of the program that has it
  stage,     \* per pid: "none", "send" or "recv"
  taken,     \* the request that p1 is answering, or <<>>
  starts,    \* programs started so far
  stale,     \* history: pids with an answer that nobody took
  wrong      \* history: pids whose process read the answer to another

mailVars == <<queue, proc, stage, taken, starts, stale, wrong>>

MailInit ==
  /\ queue = <<>> /\ proc = [i \in Pids |-> 0] /\ stage = [i \in Pids |-> "none"]
  /\ taken = <<>> /\ starts = 0 /\ stale = {} /\ wrong = {}

(* ftok, msgget, getpid: a new process with any free pid.                  *)
StartSender(n, i) ==
  /\ starts < MaxStarts /\ proc[i] = 0 /\ \A k \in Pids : proc[k] # n
  /\ proc' = [proc EXCEPT ![i] = n] /\ stage' = [stage EXCEPT ![i] = "send"]
  /\ starts' = starts + 1
  /\ UNCHANGED <<queue, taken, stale, wrong>>

(* msgsnd with mtype 1; it sleeps while the queue is full.                 *)
Request(i) ==
  /\ stage[i] = "send" /\ Len(queue) < Capacity
  /\ queue' = Append(queue, [mtype |-> 1, from |-> proc[i], pid |-> i])
  /\ stage' = [stage EXCEPT ![i] = "recv"]
  /\ UNCHANGED <<proc, taken, starts, stale, wrong>>

(* The oldest message of a type.                                           *)
OfType(t) == {k \in 1..Len(queue) : queue[k].mtype = t}
Oldest(t) == CHOOSE k \in OfType(t) : \A l \in OfType(t) : k <= l

(* p1: msgrcv of type 1.                                                   *)
TakeRequest ==
  /\ taken = <<>> /\ OfType(1) # {}
  /\ taken' = <<queue[Oldest(1)]>> /\ queue' = RemoveAt(queue, Oldest(1))
  /\ UNCHANGED <<proc, stage, starts, stale, wrong>>

(* Mutant: the type of the answer is not set.                              *)
AnswerTypeKept(req) == req.mtype
(* Mutant: atoi starts at the underscore.                                  *)
AnswerTypeZero(req) == 0
(* pid = atoi(mtext + 2)                                                   *)
AnswerType(req) == req.pid

(* p1: msgsnd of the answer, in the buffer of the request.                 *)
Answer ==
  /\ taken # <<>> /\ Len(queue) < Capacity
  /\ queue' = Append(queue, [taken[1] EXCEPT !.mtype = AnswerType(taken[1])])
  /\ taken' = <<>>
  /\ UNCHANGED <<proc, stage, starts, stale, wrong>>

(* msgrcv of the own pid, print, return.                                   *)
TakeAnswer(i) ==
  /\ stage[i] = "recv" /\ OfType(i) # {}
  /\ wrong' = IF queue[Oldest(i)].from # proc[i] THEN wrong \cup {i} ELSE wrong
  /\ queue' = RemoveAt(queue, Oldest(i))
  /\ stage' = [stage EXCEPT ![i] = "none"] /\ proc' = [proc EXCEPT ![i] = 0]
  /\ UNCHANGED <<taken, starts, stale>>

(* The program is stopped while it waits; its answer has no reader.        *)
Interrupt(i) ==
  /\ stage[i] = "recv"
  /\ stage' = [stage EXCEPT ![i] = "none"] /\ proc' = [proc EXCEPT ![i] = 0]
  /\ stale' = stale \cup {i}
  /\ UNCHANGED <<queue, taken, starts, wrong>>

(* p2, p3 or p4, once started.                                             *)
Sender(i) == Request(i) \/ TakeAnswer(i)

MailNext ==
  \/ TakeRequest \/ Answer
  \/ \E i \in Pids : Sender(i) \/ Interrupt(i) \/ \E n \in Senders : StartSender(n, i)

-----------------------------------------------------------------------------
(* Properties                                                              *)

MailTypeOK ==
  /\ Len(queue) <= Capacity
  /\ \A k \in 1..Len(queue) : queue[k].mtype \in Pids \cup {1} /\ queue[k].from \in Senders
  /\ stage \in [Pids -> {"none", "send", "recv"}]
  /\ Len(taken) <= 1 /\ stale \subseteq Pids

(* A process that waits has exactly one message on its way, its request or *)
(* its answer; only a pid with an abandoned answer can have more, and only *)
(* there can a process read the answer to another (p2.c:46, p1.c:45).      *)
OneMessageEach ==
  \A i \in Pids \ stale :
    /\ i \notin wrong
    /\ Cardinality({k \in 1..Len(queue) : queue[k].pid = i})
         + (IF taken # <<>> /\ taken[1].pid = i THEN 1 ELSE 0)
         = (IF stage[i] = "recv" THEN 1 ELSE 0)

(* Every process gets its answer or is stopped, as long as abandoned       *)
(* answers do not fill the queue: with a full queue p1 and the programs    *)
(* wait for each other (p1.c:47, p2.c:40).                                 *)
Answered ==
  \A i \in Pids : stage[i] = "send" ~> (stage[i] = "none" \/ Len(queue) = Capacity)
=============================================================================
