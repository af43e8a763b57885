------------------------------ MODULE Dialogue ------------------------------
(***************************************************************************)
(* 8-1-22: processes that talk over pipes, one line each in turn, until    *)
(* somebody types "exit".  Which program runs is chosen in TalkInit:       *)
(*   "child"  8-1-22/1/q1.c: parent 1 and its child 2                      *)
(*   "exec"   8-1-22/2: p1 and p2, which p1 executes                       *)
(*   "relay"  8-1-22/3: p1, p3, and p2 that passes every line on           *)
(* A line is "text", "exit" or "long": longer than the 20 bytes the child  *)
(* reads at a time, so that its rest stays in the pipe.                    *)
(***************************************************************************)
EXTENDS Integers, Sequences, FiniteSets

CONSTANTS
  Talks,    \* the programs to check
  MaxLines  \* bound: lines typed

ASSUME TalkConstants == Talks \subseteq {"child", "exec", "relay"} /\ MaxLines \in Nat \ {0}

VARIABLES
  talk,
  doing,   \* per process: "prompt", "read", "back" (p2 reads from p3), "wait" or "ended"
  pipe,    \* <<from, to>>: what is in the pipe
  buffer,  \* what the buffer that a process reads into holds
  typed,   \* lines typed so far
  exited,  \* history: somebody has typed "exit"
  split    \* history: a long line was cut

talkVars == <<talk, doing, pipe, buffer, typed, exited, split>>

Far == IF talk = "relay" THEN 3 ELSE 2
Talkers == {1, Far}
Peer(p) == IF talk = "relay" THEN 2 ELSE 3 - p
Pipes == {<<1, 2>>, <<2, 1>>, <<2, 3>>, <<3, 2>>}

(* pipe, fork and execvp; only the first process asks for a line.          *)
TalkInit ==
  /\ talk \in Talks
  /\ doing = [p \in 1..3 |-> IF p = 1 THEN "prompt" ELSE IF p <= Far THEN "read" ELSE "ended"]
  /\ pipe = [e \in Pipes |-> <<>>]
  /\ buffer = [p \in 1..3 |-> "blank"]
  /\ typed = 0 /\ exited = FALSE /\ split = FALSE

Ended(p) == doing[p] \in {"wait", "ended"}

(* Mutant: the parent waits for the child before it closes its pipes.      *)
HungUpLate(p) == doing[p] = "ended"
(* Nobody will write for p any more.                                       *)
HungUp(p) == Ended(p)

(* p1 closes its pipes and waits for its child, the others return.         *)
Leave(p) == doing' = [doing EXCEPT ![p] = IF p = 1 THEN "wait" ELSE "ended"]

(* Mutant: the length of the line is not looked at.                        *)
PiecesRaw(p, line) == <<line>>
(* What a line looks like in the pipe: the child reads 20 bytes at a time. *)
Pieces(p, line) ==
  IF line # "long" THEN <<line>>
  ELSE IF talk = "child" /\ p = 1 THEN <<"head", "rest">> ELSE <<"text">>

(* Mutant: the child has a buffer of its own for what it types.            *)
TypedIntoOwn(p, line) == buffer
(* The child of q1.c types into the buffer into which it reads.            *)
TypedInto(p, line) ==
  IF talk = "child" /\ p = 2 THEN [buffer EXCEPT ![p] = line] ELSE buffer

(* getline and write; SIGPIPE when the reader is gone.  After its own      *)
(* "exit" a process leaves, but the child of q1.c goes on to read.         *)
TypeLine(p) ==
  /\ p \in Talkers /\ doing[p] = "prompt" /\ typed < MaxLines
  /\ \E line \in {"text", "exit", "long"} :
       /\ typed' = typed + 1
       /\ exited' = (exited \/ line = "exit")
       /\ buffer' = TypedInto(p, line)
       /\ split' = (split \/ Len(Pieces(p, line)) > 1)
       /\ IF Ended(Peer(p))
          THEN Leave(p) /\ UNCHANGED pipe
          ELSE /\ pipe' = [pipe EXCEPT ![<<p, Peer(p)>>] = @ \o Pieces(p, line)]
               /\ IF line = "exit" /\ ~(talk = "child" /\ p = 2) THEN Leave(p)
                  ELSE doing' = [doing EXCEPT ![p] = "read"]
  /\ UNCHANGED talk

(* read: the next piece; the rest of a long line together with all that    *)
(* follows, of which only the first string is looked at.  At the end of    *)
(* the pipe the buffer keeps what it held.                                 *)
ReadLine(p) ==
  LET in == pipe[<<Peer(p), p>>] IN
  /\ p \in Talkers /\ doing[p] = "read"
  /\ \/ /\ in # <<>>
        /\ buffer' = [buffer EXCEPT ![p] = Head(in)]
        /\ pipe' = [pipe EXCEPT ![<<Peer(p), p>>] = IF Head(in) = "rest" THEN <<>> ELSE Tail(@)]
     \/ /\ in = <<>> /\ HungUp(Peer(p))
        /\ UNCHANGED <<buffer, pipe>>
  /\ IF buffer'[p] = "exit" THEN Leave(p) ELSE doing' = [doing EXCEPT ![p] = "prompt"]
  /\ UNCHANGED <<talk, typed, exited, split>>

(* Mutant: a line is written twice.                                        *)
PassedOnTwice(line) == <<line, line>>
PassedOn(line) == <<line>>

(* p2 of 8-1-22/3: from p1 to p3, then from p3 to p1.                      *)
PassOn ==
  /\ talk = "relay"
  /\ \E from \in Talkers :
       LET in == pipe[<<from, 2>>]
           to == 4 - from
       IN /\ doing[2] = (IF from = 1 THEN "read" ELSE "back") /\ in # <<>>
          /\ pipe' = [pipe EXCEPT ![<<from, 2>>] = Tail(@),
                                  ![<<2, to>>] = @ \o PassedOn(Head(in))]
          /\ buffer' = [buffer EXCEPT ![2] = Head(in)]
          /\ doing' = [doing EXCEPT ![2] = IF Head(in) = "exit" THEN "ended"
                                     ELSE IF from = 1 THEN "back" ELSE "read"]
  /\ UNCHANGED <<talk, typed, exited, split>>

(* wait(NULL) of p1.                                                       *)
WaitChild ==
  /\ doing[1] = "wait" /\ doing[2] = "ended"
  /\ doing' = [doing EXCEPT ![1] = "ended"]
  /\ UNCHANGED <<talk, pipe, buffer, typed, exited, split>>

(* The programs: p1, p2 that is executed by p1, p3 that is executed by p2. *)
P1 == TypeLine(1) \/ ReadLine(1) \/ WaitChild
P2 == talk # "relay" /\ (TypeLine(2) \/ ReadLine(2))
P3 == talk = "relay" /\ (TypeLine(3) \/ ReadLine(3))

TalkNext == P1 \/ P2 \/ P3 \/ PassOn

(* What happens without the user.                                          *)
TalkAuto == (\E p \in 1..3 : ReadLine(p)) \/ PassOn \/ WaitChild

-----------------------------------------------------------------------------
(* Properties                                                              *)

TalkTypeOK ==
  /\ doing \in [1..3 -> {"prompt", "read", "back", "wait", "ended"}]
  /\ \A e \in Pipes : \A k \in 1..Len(pipe[e]) : pipe[e][k] \in {"text", "exit", "head", "rest"}
  /\ typed \in 0..MaxLines

(* Either one process asks for a line or one line is on its way: nobody    *)
(* speaks out of turn, unless a line of more than 20 bytes was cut by the  *)
(* child's read (8-1-22/1/q1.c:54).                                        *)
OneSpeaker ==
  ~split /\ ~exited =>
    Cardinality({p \in 1..3 : doing[p] = "prompt"})
      + Len(pipe[<<1, 2>>]) + Len(pipe[<<2, 1>>]) + Len(pipe[<<2, 3>>]) + Len(pipe[<<3, 2>>]) = 1

(* After "exit", whoever typed it, nobody is asked for another line.  The  *)
(* child of q1.c that typed it itself does not leave at once: it ends      *)
(* because read returns 0 and the buffer still holds its own "exit"        *)
(* (8-1-22/1/q1.c:54-63).                                                  *)
EndsQuietly == exited /\ ~split => \A p \in 1..3 : doing[p] # "prompt"

(* After "exit" all processes end, without another line from the user.     *)
AllLeave == exited ~> (split \/ \A p \in 1..3 : doing[p] = "ended")

(* The dialogue keeps its turns up to "exit", and nobody speaks after it.  *)
TalkKept == OneSpeaker /\ EndsQuietly
=============================================================================
