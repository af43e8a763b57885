---------------------------- MODULE TurnsProofs ----------------------------
(***************************************************************************)
(* Proofs about the programs that wait for each other (MCTurns).  The five *)
(* groups share no variable, so each has an inductive invariant of its     *)
(* own, and a step of the group is a step of one and a stutter of the      *)
(* others:                                                                 *)
(*   TalkIInv   who may speak, by the places of the processes and the one  *)
(*              line in the pipes (Dialogue)                               *)
(*   MailIInv   at most one message of each process in the queue (Mailbox) *)
(*   PollIInv   every line is in a pipe, shown, or lost for a reason       *)
(*              (FifoPoll)                                                 *)
(*   ExchIInv   what one side of a connection has sent is what the other   *)
(*              has received plus what is under way (Exchanges)            *)
(*   TurnIInv   turns and signals add up, and the words and places of the  *)
(*              two writers follow from who has the turn (TurnTaking)      *)
(***************************************************************************)
EXTENDS MCTurns, SeqLemmas, FiniteSetTheorems, FunctionTheorems

-----------------------------------------------------------------------------
(* Functions and sequences, in the form in which the proofs below use them *)

(* Setting one entry of a function.                                        *)
LEMMA SetOne ==
  ASSUME NEW P, NEW T, NEW f \in [P -> T], NEW k, NEW v \in T
  PROVE  [f EXCEPT ![k] = v] \in [P -> T]
  OBVIOUS

(* A sequence with one element more.                                       *)
LEMMA OneMore ==
  ASSUME NEW S, NEW s \in Seq(S), NEW e \in S
  PROVE  <<e>> \in Seq(S) /\ s \o <<e>> \in Seq(S)
  OBVIOUS

-----------------------------------------------------------------------------
(* Dialogue                                                                *)

Speech == {"text", "exit", "head", "rest"}

TalkTypes ==
  /\ talk \in {"child", "exec", "relay"}
  /\ doing \in [1..3 -> {"prompt", "read", "back", "wait", "ended"}]
  /\ pipe \in [Pipes -> Seq(Speech)]
  /\ buffer \in [1..3 -> Speech \cup {"blank", "long"}]
  /\ typed \in 0..MaxLines
  /\ exited \in BOOLEAN /\ split \in BOOLEAN

(* What the processes do and what is in the pipes.                         *)
Doing(d1, d2, d3) == doing[1] = d1 /\ doing[2] = d2 /\ doing[3] = d3
Flows(q12, q21, q23, q32) ==
  /\ pipe[<<1, 2>>] = q12 /\ pipe[<<2, 1>>] = q21
  /\ pipe[<<2, 3>>] = q23 /\ pipe[<<3, 2>>] = q32

(* Before "exit": the one line on its way, or who is asked for it.         *)
TwoTalk ==
  \/ Doing("prompt", "read", "ended") /\ Flows(<<>>, <<>>, <<>>, <<>>)
  \/ Doing("read", "read", "ended") /\ Flows(<<"text">>, <<>>, <<>>, <<>>)
  \/ Doing("read", "prompt", "ended") /\ Flows(<<>>, <<>>, <<>>, <<>>)
  \/ Doing("read", "read", "ended") /\ Flows(<<>>, <<"text">>, <<>>, <<>>)
RelayTalk ==
  \/ Doing("prompt", "read", "read") /\ Flows(<<>>, <<>>, <<>>, <<>>)
  \/ Doing("read", "read", "read") /\ Flows(<<"text">>, <<>>, <<>>, <<>>)
  \/ Doing("read", "back", "read") /\ Flows(<<>>, <<>>, <<"text">>, <<>>)
  \/ Doing("read", "back", "prompt") /\ Flows(<<>>, <<>>, <<>>, <<>>)
  \/ Doing("read", "back", "read") /\ Flows(<<>>, <<>>, <<>>, <<"text">>)
  \/ Doing("read", "read", "read") /\ Flows(<<>>, <<"text">>, <<>>, <<>>)

(* After it: the "exit" on its way, and in "child" the one in the buffer   *)
(* of the child that typed it.                                             *)
TwoLeave ==
  \/ Doing("wait", "read", "ended") /\ Flows(<<"exit">>, <<>>, <<>>, <<>>)
  \/ Doing("read", "ended", "ended") /\ Flows(<<>>, <<"exit">>, <<>>, <<>>)
  \/ /\ Doing("read", "read", "ended") /\ Flows(<<>>, <<"exit">>, <<>>, <<>>)
     /\ talk = "child" /\ buffer[2] = "exit"
  \/ /\ Doing("wait", "read", "ended") /\ Flows(<<>>, <<>>, <<>>, <<>>)
     /\ talk = "child" /\ buffer[2] = "exit"
  \/ doing[1] \in {"wait", "ended"} /\ doing[2] = "ended" /\ doing[3] = "ended"
RelayLeave ==
  \/ Doing("wait", "read", "read") /\ Flows(<<"exit">>, <<>>, <<>>, <<>>)
  \/ /\ doing[1] \in {"wait", "ended"} /\ doing[2] = "ended" /\ doing[3] = "read"
     /\ Flows(<<>>, <<>>, <<"exit">>, <<>>)
  \/ Doing("read", "back", "ended") /\ Flows(<<>>, <<>>, <<>>, <<"exit">>)
  \/ Doing("read", "ended", "ended") /\ Flows(<<>>, <<"exit">>, <<>>, <<>>)
  \/ doing[1] \in {"wait", "ended"} /\ doing[2] = "ended" /\ doing[3] = "ended"

TalkPlaces ==
  ~split =>
    /\ talk # "relay" /\ ~exited => TwoTalk
    /\ talk # "relay" /\ exited => TwoLeave
    /\ talk = "relay" /\ ~exited => RelayTalk
    /\ talk = "relay" /\ exited => RelayLeave

TalkIInv == TalkTypes /\ TalkPlaces

(* The bound on lines is a number.                                         *)
LEMMA LinesNat == MaxLines \in Nat
  BY TalkConstants, Zenon

(* The dialogues start in the invariant.                                   *)
LEMMA TalkStarts == TalkInit => TalkIInv
<1> SUFFICES ASSUME TalkInit PROVE TalkIInv
  OBVIOUS
<1>0. talk \in {"child", "exec", "relay"}
  BY TalkConstants DEF TalkInit
<1>a. pipe = [e \in Pipes |-> <<>>]
  BY DEF TalkInit
<1>c. buffer = [p \in 1..3 |-> "blank"] /\ typed = 0
  BY DEF TalkInit
<1>d. exited = FALSE /\ split = FALSE
  BY DEF TalkInit
<1>b. doing = [p \in 1..3 |-> IF p = 1 THEN "prompt" ELSE IF p <= Far THEN "read" ELSE "ended"]
  BY DEF TalkInit
<1>1. pipe \in [Pipes -> Seq(Speech)]
  BY <1>a
<1>2. /\ doing \in [1..3 -> {"prompt", "read", "back", "wait", "ended"}]
      /\ Doing("prompt", "read", IF talk = "relay" THEN "read" ELSE "ended")
  BY <1>0, <1>b DEF Far, Doing
<1>3. TalkTypes
  <2>1. typed \in 0..MaxLines
    BY <1>c, LinesNat
  <2>2. exited \in BOOLEAN /\ split \in BOOLEAN
    BY <1>d, Zenon
  <2>3. buffer \in [1..3 -> Speech \cup {"blank", "long"}]
    BY <1>c
  <2> QED
    BY <1>0, <1>1, <1>2, <2>1, <2>2, <2>3, Zenon DEF TalkTypes
<1>4. Flows(<<>>, <<>>, <<>>, <<>>)
  BY <1>a DEF Flows, Pipes
<1>5. TalkPlaces
  BY <1>d, <1>2, <1>4 DEF TalkPlaces, TwoTalk, RelayTalk, Doing
<1> QED
  BY <1>3, <1>5 DEF TalkIInv

(* The pipe that a process writes to and the one that it reads from.       *)
LEMMA TalkPipes ==
  ASSUME NEW p \in Talkers
  PROVE  p \in 1..3 /\ Peer(p) \in 1..3 /\ <<p, Peer(p)>> \in Pipes /\ <<Peer(p), p>> \in Pipes
<1>1. CASE talk = "relay"
  <2>1. p \in {1, 3} /\ Peer(p) = 2
    BY <1>1 DEF Talkers, Far, Peer
  <2> QED
    BY <2>1 DEF Pipes
<1>2. CASE talk # "relay"
  <2>1. p \in {1, 2} /\ Peer(p) = 3 - p
    BY <1>2 DEF Talkers, Far, Peer
  <2> QED
    BY <2>1 DEF Pipes
<1> QED
  BY <1>1, <1>2

(* Every step of a dialogue keeps the types.                               *)
LEMMA TalkTypesStep == TalkTypes /\ [TalkNext]_talkVars => TalkTypes'
<1> SUFFICES ASSUME TalkTypes, [TalkNext]_talkVars PROVE TalkTypes'
  OBVIOUS
<1>a. ASSUME NEW p \in 1..3, TypeLine(p) PROVE TalkTypes'
  <2> p \in Talkers
    BY <1>a DEF TypeLine
  <2> PICK line \in {"text", "exit", "long"} : TypeLine(p)!2!(line)
    BY <1>a DEF TypeLine
  <2>1. Pieces(p, line) \in Seq(Speech)
    <3>1. \/ Pieces(p, line) = <<line>> /\ line # "long"
          \/ Pieces(p, line) = <<"text">>
          \/ Pieces(p, line) = <<"head", "rest">>
      BY DEF Pieces
    <3>2. <<"head", "rest">> \in Seq(Speech) /\ \A x \in Speech : <<x>> \in Seq(Speech)
      BY DEF Speech
    <3>3. line # "long" => line \in Speech
      BY DEF Speech
    <3>4. "text" \in Speech
      BY DEF Speech
    <3> QED
      BY <3>1, <3>2, <3>3, <3>4, Zenon
  <2>2. pipe' \in [Pipes -> Seq(Speech)]
    <3>1. pipe \in [Pipes -> Seq(Speech)]
      BY DEF TalkTypes
    <3>2. pipe' = pipe \/ pipe' = [pipe EXCEPT ![<<p, Peer(p)>>] = @ \o Pieces(p, line)]
      OBVIOUS
    <3>3. pipe[<<p, Peer(p)>>] \o Pieces(p, line) \in Seq(Speech)
      BY <2>1, <3>1, TalkPipes, ConcatProperties
    <3> QED
      BY <3>1, <3>2, <3>3
  <2>3. doing' \in [1..3 -> {"prompt", "read", "back", "wait", "ended"}]
    BY DEF TalkTypes, Leave
  <2>4. buffer' \in [1..3 -> Speech \cup {"blank", "long"}]
    <3>1. buffer \in [1..3 -> Speech \cup {"blank", "long"}]
      BY DEF TalkTypes
    <3>2. buffer' = [buffer EXCEPT ![p] = line] \/ buffer' = buffer
      BY DEF TypedInto
    <3> QED
      BY <3>1, <3>2 DEF Speech
  <2>5. typed' \in 0..MaxLines /\ talk' = talk
    BY <1>a, LinesNat DEF TalkTypes, TypeLine
  <2>6. exited' \in BOOLEAN /\ split' \in BOOLEAN
    BY DEF TalkTypes
  <2> QED
    BY <2>2, <2>3, <2>4, <2>5, <2>6 DEF TalkTypes
<1>b. ASSUME NEW p \in 1..3, ReadLine(p) PROVE TalkTypes'
  <2> p \in Talkers
    BY <1>b DEF ReadLine
  <2> DEFINE in == pipe[<<Peer(p), p>>]
  <2>1. in \in Seq(Speech)
    BY TalkPipes DEF TalkTypes
  <2>2. in # <<>> => Head(in) \in Speech /\ Tail(in) \in Seq(Speech)
    BY <2>1, TailElements
  <2>a. pipe \in [Pipes -> Seq(Speech)] /\ buffer \in [1..3 -> Speech \cup {"blank", "long"}]
    BY DEF TalkTypes
  <2>b. \/ /\ in # <<>>
           /\ buffer' = [buffer EXCEPT ![p] = Head(in)]
           /\ \/ pipe' = [pipe EXCEPT ![<<Peer(p), p>>] = <<>>]
              \/ pipe' = [pipe EXCEPT ![<<Peer(p), p>>] = Tail(in)]
        \/ buffer' = buffer /\ pipe' = pipe
    BY <1>b DEF ReadLine
  <2>3. pipe' \in [Pipes -> Seq(Speech)]
    <3>1. pipe \in [Pipes -> Seq(Speech)]
      BY <2>a
    <3>2. \/ /\ in # <<>>
             /\ \/ pipe' = [pipe EXCEPT ![<<Peer(p), p>>] = <<>>]
                \/ pipe' = [pipe EXCEPT ![<<Peer(p), p>>] = Tail(in)]
          \/ pipe' = pipe
      BY <2>b
    <3>3. <<>> \in Seq(Speech)
      OBVIOUS
    <3> QED
      BY <2>2, <3>1, <3>2, <3>3, SetOne, Zenon
  <2>c. buffer' \in [1..3 -> Speech \cup {"blank", "long"}]
    <3>1. buffer \in [1..3 -> Speech \cup {"blank", "long"}]
      BY <2>a
    <3>2. \/ Head(in) \in Speech /\ buffer' = [buffer EXCEPT ![p] = Head(in)]
          \/ buffer' = buffer
      BY <2>2, <2>b
    <3> QED
      BY <3>1, <3>2
  <2>4. doing' \in [1..3 -> {"prompt", "read", "back", "wait", "ended"}]
    BY <1>b DEF TalkTypes, Leave, ReadLine
  <2> QED
    BY <1>b, <2>3, <2>c, <2>4 DEF TalkTypes, ReadLine
<1>c. CASE PassOn
  <2> PICK from \in Talkers : PassOn!2!(from)
    BY <1>c DEF PassOn
  <2>0. from \in {1, 3} /\ <<from, 2>> \in Pipes /\ <<2, 4 - from>> \in Pipes
    BY <1>c DEF PassOn, Talkers, Far, Pipes
  <2> DEFINE in == pipe[<<from, 2>>]
  <2>1. in \in Seq(Speech) /\ in # <<>>
    BY <2>0 DEF TalkTypes
  <2>2. Head(in) \in Speech /\ Tail(in) \in Seq(Speech)
    BY <2>1, TailElements
  <2>3. pipe' \in [Pipes -> Seq(Speech)]
    <3>1. pipe \in [Pipes -> Seq(Speech)] /\ pipe[<<2, 4 - from>>] \in Seq(Speech)
      BY <2>0 DEF TalkTypes
    <3>2. pipe[<<2, 4 - from>>] \o <<Head(in)>> \in Seq(Speech)
      BY <2>2, <3>1, OneMore, Zenon
    <3>3. pipe' = [pipe EXCEPT ![<<from, 2>>] = Tail(in),
                               ![<<2, 4 - from>>] = pipe[<<2, 4 - from>>] \o <<Head(in)>>]
      BY <2>0 DEF PassedOn
    <3> QED
      BY <2>2, <3>1, <3>2, <3>3
  <2>4. buffer' \in [1..3 -> Speech \cup {"blank", "long"}]
    BY <2>2 DEF TalkTypes
  <2> QED
    BY <1>c, <2>3, <2>4 DEF TalkTypes, PassOn
<1>d. CASE WaitChild
  BY <1>d DEF WaitChild, TalkTypes
<1>e. CASE UNCHANGED talkVars
  BY <1>e DEF talkVars, TalkTypes
<1> QED
  BY <1>a, <1>b, <1>c, <1>d, <1>e DEF TalkNext, P1, P2, P3

(* A line that is not cut is one piece in the pipe.                        *)
LEMMA OnePiece ==
  ASSUME NEW p, NEW line \in {"text", "exit", "long"}, ~(Len(Pieces(p, line)) > 1)
  PROVE  Pieces(p, line) = IF line = "exit" THEN <<"exit">> ELSE <<"text">>
<1>1. CASE line # "long"
  BY <1>1 DEF Pieces
<1>2. CASE line = "long"
  <2>1. Len(<<"head", "rest">>) = 2
    OBVIOUS
  <2>2. Pieces(p, line) # <<"head", "rest">>
    BY <2>1
  <2>3. Pieces(p, line) = <<"text">>
    BY <1>2, <2>2 DEF Pieces
  <2> QED
    BY <1>2, <2>3
<1> QED
  BY <1>1, <1>2

(* A typed line (8-1-22): it is on its way, or the dialogue is over.       *)
LEMMA TypePlaces ==
  ASSUME TalkIInv, NEW p \in 1..3, TypeLine(p), ~split'
  PROVE  TalkPlaces'
<1> p \in Talkers /\ doing[p] = "prompt" /\ talk' = talk
  BY DEF TypeLine
<1> PICK line \in {"text", "exit", "long"} : TypeLine(p)!2!(line)
  BY DEF TypeLine
<1>a. split' = (split \/ Len(Pieces(p, line)) > 1) /\ exited' = (exited \/ line = "exit")
  OBVIOUS
<1>b. ~split /\ ~(Len(Pieces(p, line)) > 1)
  BY <1>a, Zenon
<1>c. exited' <=> exited \/ line = "exit"
  BY <1>a, Zenon
<1> DEFINE piece == IF line = "exit" THEN "exit" ELSE "text"
<1>d. Pieces(p, line) = <<piece>>
  BY <1>b, OnePiece
<1>e. /\ doing \in [1..3 -> {"prompt", "read", "back", "wait", "ended"}]
      /\ pipe \in [Pipes -> Seq(Speech)] /\ buffer \in [1..3 -> Speech \cup {"blank", "long"}]
      /\ talk \in {"child", "exec", "relay"}
  BY DEF TalkIInv, TalkTypes
<1>f. /\ buffer' = (IF talk = "child" /\ p = 2 THEN [buffer EXCEPT ![p] = line] ELSE buffer)
  BY DEF TypedInto
<1>1. CASE talk # "relay"
  <2>1. ~exited /\ p \in {1, 2} /\ Peer(p) = 3 - p
    BY <1>1, <1>b DEF TalkIInv, TalkPlaces, TwoLeave, Doing, Talkers, Far, Peer
  <2>2. TwoTalk
    BY <1>1, <2>1, <1>b DEF TalkIInv, TalkPlaces
  <2>3. /\ doing[1] = (IF p = 1 THEN "prompt" ELSE "read")
        /\ doing[2] = (IF p = 1 THEN "read" ELSE "prompt")
        /\ doing[3] = "ended" /\ Flows(<<>>, <<>>, <<>>, <<>>)
    BY <2>1, <2>2 DEF TwoTalk, Doing
  <2>4. ~Ended(Peer(p))
    BY <2>1, <2>3 DEF Ended
  <2>5. pipe' = [pipe EXCEPT ![<<p, 3 - p>>] = @ \o <<piece>>]
    BY <2>1, <2>4, <1>d
  <2>6. p = 1 => Flows(<<piece>>, <<>>, <<>>, <<>>)'
    BY <2>3, <2>5, <1>e DEF Flows, Pipes
  <2>7. p = 2 => Flows(<<>>, <<piece>>, <<>>, <<>>)'
    BY <2>3, <2>5, <1>e DEF Flows, Pipes
  <2>8. IF line = "exit" /\ ~(talk = "child" /\ p = 2)
        THEN doing' = [doing EXCEPT ![p] = IF p = 1 THEN "wait" ELSE "ended"]
        ELSE doing' = [doing EXCEPT ![p] = "read"]
    BY <2>4 DEF Leave
  <2>9. CASE line # "exit"
    <3>1. Doing("read", "read", "ended")'
      BY <2>1, <2>3, <2>8, <2>9, <1>e DEF Doing
    <3>2. TwoTalk'
      BY <2>1, <2>6, <2>7, <2>9, <3>1 DEF TwoTalk
    <3> QED
      BY <1>1, <1>c, <2>1, <2>9, <3>2 DEF TalkPlaces
  <2>10. CASE line = "exit"
    <3>1. p = 1 => Doing("wait", "read", "ended")'
      BY <2>1, <2>3, <2>8, <2>10, <1>e DEF Doing
    <3>2. p = 2 /\ talk # "child" => Doing("read", "ended", "ended")'
      BY <2>1, <2>3, <2>8, <2>10, <1>e DEF Doing
    <3>3. p = 2 /\ talk = "child" => Doing("read", "read", "ended")' /\ buffer'[2] = "exit"
      BY <2>1, <2>3, <2>8, <2>10, <1>e, <1>f DEF Doing
    <3>4. TwoLeave'
      BY <2>1, <2>6, <2>7, <2>10, <3>1, <3>2, <3>3 DEF TwoLeave
    <3> QED
      BY <1>1, <1>c, <2>10, <3>4 DEF TalkPlaces
  <2> QED
    BY <2>9, <2>10
<1>2. CASE talk = "relay"
  <2>1. ~exited /\ p \in {1, 3} /\ Peer(p) = 2
    BY <1>2, <1>b DEF TalkIInv, TalkPlaces, RelayLeave, Doing, Talkers, Far, Peer
  <2>2. RelayTalk
    BY <1>2, <2>1, <1>b DEF TalkIInv, TalkPlaces
  <2>3. /\ doing[1] = (IF p = 1 THEN "prompt" ELSE "read")
        /\ doing[2] = (IF p = 1 THEN "read" ELSE "back")
        /\ doing[3] = (IF p = 1 THEN "read" ELSE "prompt")
        /\ Flows(<<>>, <<>>, <<>>, <<>>)
    BY <2>1, <2>2 DEF RelayTalk, Doing
  <2>4. ~Ended(Peer(p))
    BY <2>1, <2>3 DEF Ended
  <2>5. pipe' = [pipe EXCEPT ![<<p, 2>>] = @ \o <<piece>>]
    BY <2>1, <2>4, <1>d
  <2>6. p = 1 => Flows(<<piece>>, <<>>, <<>>, <<>>)'
    BY <2>3, <2>5, <1>e DEF Flows, Pipes
  <2>7. p = 3 => Flows(<<>>, <<>>, <<>>, <<piece>>)'
    BY <2>3, <2>5, <1>e DEF Flows, Pipes
  <2>8. IF line = "exit"
        THEN doing' = [doing EXCEPT ![p] = IF p = 1 THEN "wait" ELSE "ended"]
        ELSE doing' = [doing EXCEPT ![p] = "read"]
    BY <1>2, <2>4 DEF Leave
  <2>9. CASE line # "exit"
    <3>1. Doing("read", IF p = 1 THEN "read" ELSE "back", "read")'
      BY <2>1, <2>3, <2>8, <2>9, <1>e DEF Doing
    <3>2. RelayTalk'
      BY <2>1, <2>6, <2>7, <2>9, <3>1 DEF RelayTalk
    <3> QED
      BY <1>2, <1>c, <2>1, <2>9, <3>2 DEF TalkPlaces
  <2>10. CASE line = "exit"
    <3>1. p = 1 => Doing("wait", "read", "read")'
      BY <2>1, <2>3, <2>8, <2>10, <1>e DEF Doing
    <3>2. p = 3 => Doing("read", "back", "ended")'
      BY <2>1, <2>3, <2>8, <2>10, <1>e DEF Doing
    <3>3. RelayLeave'
      BY <2>1, <2>6, <2>7, <2>10, <3>1, <3>2 DEF RelayLeave
    <3> QED
      BY <1>2, <1>c, <2>10, <3>3 DEF TalkPlaces
  <2> QED
    BY <2>9, <2>10
<1> QED
  BY <1>1, <1>2


(* What a read does when one line waits, and when none does.               *)
LEMMA ReadEffect ==
  ASSUME TalkTypes, NEW p \in 1..3, ReadLine(p)
  PROVE  /\ p \in Talkers /\ doing[p] = "read"
         /\ talk' = talk /\ exited' = exited /\ split' = split
         /\ \A x \in {"text", "exit"} : pipe[<<Peer(p), p>>] = <<x>> =>
              /\ pipe' = [pipe EXCEPT ![<<Peer(p), p>>] = <<>>]
              /\ buffer' = [buffer EXCEPT ![p] = x]
              /\ doing' = [doing EXCEPT ![p] = IF x # "exit" THEN "prompt"
                                               ELSE IF p = 1 THEN "wait" ELSE "ended"]
         /\ pipe[<<Peer(p), p>>] = <<>> =>
              /\ doing[Peer(p)] \in {"wait", "ended"} /\ pipe' = pipe /\ buffer' = buffer
              /\ doing' = [doing EXCEPT ![p] = IF buffer[p] # "exit" THEN "prompt"
                                               ELSE IF p = 1 THEN "wait" ELSE "ended"]
<1>1. p \in Talkers /\ doing[p] = "read" /\ talk' = talk /\ exited' = exited /\ split' = split
  BY DEF ReadLine
<1>2. ASSUME NEW x \in {"text", "exit"}, pipe[<<Peer(p), p>>] = <<x>>
      PROVE  /\ pipe' = [pipe EXCEPT ![<<Peer(p), p>>] = <<>>]
             /\ buffer' = [buffer EXCEPT ![p] = x]
             /\ doing' = [doing EXCEPT ![p] = IF x # "exit" THEN "prompt"
                                              ELSE IF p = 1 THEN "wait" ELSE "ended"]
  <2> DEFINE in == pipe[<<Peer(p), p>>]
  <2>1. in # <<>> /\ Head(in) = x /\ Tail(in) = <<>> /\ x # "rest"
    BY <1>2, OneElement
  <2>2. /\ buffer' = [buffer EXCEPT ![p] = Head(in)]
        /\ pipe' = [pipe EXCEPT ![<<Peer(p), p>>] = IF Head(in) = "rest" THEN <<>> ELSE Tail(@)]
        /\ IF buffer'[p] = "exit" THEN Leave(p) ELSE doing' = [doing EXCEPT ![p] = "prompt"]
    BY <2>1 DEF ReadLine
  <2>3. pipe' = [pipe EXCEPT ![<<Peer(p), p>>] = <<>>]
    BY <2>1, <2>2
  <2>4. buffer' = [buffer EXCEPT ![p] = x] /\ buffer \in [1..3 -> Speech \cup {"blank", "long"}]
    BY <2>1, <2>2 DEF TalkTypes
  <2>5. buffer'[p] = x
    BY <2>4
  <2> QED
    BY <2>2, <2>3, <2>4, <2>5 DEF Leave
<1>3. ASSUME pipe[<<Peer(p), p>>] = <<>>
      PROVE  /\ doing[Peer(p)] \in {"wait", "ended"} /\ pipe' = pipe /\ buffer' = buffer
             /\ doing' = [doing EXCEPT ![p] = IF buffer[p] # "exit" THEN "prompt"
                                              ELSE IF p = 1 THEN "wait" ELSE "ended"]
  BY <1>3 DEF ReadLine, HungUp, Ended, Leave
<1> QED
  BY <1>1, <1>2, <1>3

(* A line, or the end of the pipe, is read.                                *)
LEMMA ReadPlaces ==
  ASSUME TalkIInv, NEW p \in 1..3, ReadLine(p), ~split'
  PROVE  TalkPlaces'
<1>a. TalkTypes
  BY DEF TalkIInv
<1>b. /\ doing \in [1..3 -> {"prompt", "read", "back", "wait", "ended"}]
      /\ pipe \in [Pipes -> Seq(Speech)] /\ buffer \in [1..3 -> Speech \cup {"blank", "long"}]
  BY <1>a DEF TalkTypes
<1>c. ~split /\ p \in Talkers /\ doing[p] = "read" /\ talk' = talk /\ (exited' <=> exited)
  BY <1>a, ReadEffect
<1> DEFINE
      in == pipe[<<Peer(p), p>>]
      After(x) == IF x # "exit" THEN "prompt" ELSE IF p = 1 THEN "wait" ELSE "ended"
<1>d. ASSUME NEW x \in {"text", "exit"}, in = <<x>>
      PROVE  /\ pipe' = [pipe EXCEPT ![<<Peer(p), p>>] = <<>>]
             /\ buffer' = [buffer EXCEPT ![p] = x]
             /\ doing' = [doing EXCEPT ![p] = After(x)]
  BY <1>a, <1>d, ReadEffect
<1>e. ASSUME in = <<>>
      PROVE  /\ doing[Peer(p)] \in {"wait", "ended"} /\ pipe' = pipe /\ buffer' = buffer
             /\ doing' = [doing EXCEPT ![p] = After(buffer[p])]
  BY <1>a, <1>e, ReadEffect
<1>1. CASE talk # "relay"
  <2>1. p \in {1, 2} /\ Peer(p) = 3 - p
    BY <1>1, <1>c DEF Talkers, Far, Peer
  <2>2. (p = 1 => in = pipe[<<2, 1>>]) /\ (p = 2 => in = pipe[<<1, 2>>])
    BY <2>1
  <2>3. CASE ~exited
    <3>1. TwoTalk
      BY <1>1, <1>c, <2>3 DEF TalkIInv, TalkPlaces
    <3>2. in # <<>>
      <4>1. in = <<>> => doing[3 - p] \in {"wait", "ended"}
        BY <1>e, <2>1
      <4> QED
        BY <2>1, <3>1, <4>1 DEF TwoTalk, Doing
    <3>3. /\ in = <<"text">>
          /\ \/ p = 2 /\ Doing("read", "read", "ended") /\ Flows(<<"text">>, <<>>, <<>>, <<>>)
             \/ p = 1 /\ Doing("read", "read", "ended") /\ Flows(<<>>, <<"text">>, <<>>, <<>>)
      <4>1. p = 1 => Flows(<<>>, <<"text">>, <<>>, <<>>) /\ Doing("read", "read", "ended")
        BY <2>2, <3>1, <3>2 DEF TwoTalk, Flows
      <4>2. p = 2 => Flows(<<"text">>, <<>>, <<>>, <<>>) /\ Doing("read", "read", "ended")
        BY <2>2, <3>1, <3>2 DEF TwoTalk, Flows
      <4> QED
        BY <2>1, <2>2, <4>1, <4>2 DEF Flows
    <3>4. pipe' = [pipe EXCEPT ![<<3 - p, p>>] = <<>>] /\ doing' = [doing EXCEPT ![p] = "prompt"]
      BY <3>3, <1>d, <2>1
    <3>5. Flows(<<>>, <<>>, <<>>, <<>>)'
      BY <3>3, <3>4, <1>b DEF Flows, Pipes
    <3>6. (p = 1 /\ Doing("prompt", "read", "ended")') \/ (p = 2 /\ Doing("read", "prompt", "ended")')
      <4>1. p = 1 => Doing("prompt", "read", "ended")'
        BY <3>3, <3>4, <1>b DEF Doing
      <4>2. p = 2 => Doing("read", "prompt", "ended")'
        BY <3>3, <3>4, <1>b DEF Doing
      <4> QED
        BY <2>1, <4>1, <4>2
    <3>7. TwoTalk'
      BY <3>5, <3>6 DEF TwoTalk
    <3> QED
      BY <1>1, <1>c, <2>3, <3>7 DEF TalkPlaces
  <2>4. CASE exited
    <3>0. TwoLeave
      BY <1>1, <1>c, <2>4 DEF TalkIInv, TalkPlaces
    <3>q. TwoLeave' => TalkPlaces'
      BY <1>1, <1>c, <2>4 DEF TalkPlaces
    <3>1. CASE Doing("wait", "read", "ended") /\ Flows(<<"exit">>, <<>>, <<>>, <<>>)
      <4>1. p = 2 /\ in = <<"exit">>
        BY <3>1, <1>c, <2>1, <2>2 DEF Doing, Flows
      <4>2. doing' = [doing EXCEPT ![2] = "ended"]
        BY <4>1, <1>d
      <4>3. doing'[1] \in {"wait", "ended"} /\ doing'[2] = "ended" /\ doing'[3] = "ended"
        BY <4>2, <3>1, <1>b DEF Doing
      <4> QED
        BY <4>3, <3>q DEF TwoLeave
    <3>2. CASE Doing("read", "ended", "ended") /\ Flows(<<>>, <<"exit">>, <<>>, <<>>)
      <4>1. p = 1 /\ in = <<"exit">>
        BY <3>2, <1>c, <2>1, <2>2 DEF Doing, Flows
      <4>2. doing' = [doing EXCEPT ![1] = "wait"]
        BY <4>1, <1>d
      <4>3. doing'[1] \in {"wait", "ended"} /\ doing'[2] = "ended" /\ doing'[3] = "ended"
        BY <4>2, <3>2, <1>b DEF Doing
      <4> QED
        BY <4>3, <3>q DEF TwoLeave
    <3>3. CASE /\ Doing("read", "read", "ended") /\ Flows(<<>>, <<"exit">>, <<>>, <<>>)
               /\ talk = "child" /\ buffer[2] = "exit"
      <4>1. p = 1
        <5>1. p = 2 => in = <<>> /\ doing[Peer(p)] = "read"
          BY <3>3, <2>1, <2>2 DEF Doing, Flows
        <5> QED
          BY <5>1, <1>e, <2>1
      <4>2. in = <<"exit">>
        BY <3>3, <4>1, <2>2 DEF Flows
      <4>3. /\ doing' = [doing EXCEPT ![1] = "wait"] /\ pipe' = [pipe EXCEPT ![<<2, 1>>] = <<>>]
            /\ buffer' = [buffer EXCEPT ![1] = "exit"]
        BY <4>1, <4>2, <1>d, <2>1
      <4>4. Doing("wait", "read", "ended")'
        BY <4>3, <3>3, <1>b DEF Doing
      <4>5. Flows(<<>>, <<>>, <<>>, <<>>)'
        BY <4>3, <3>3, <1>b DEF Flows, Pipes
      <4>6. talk' = "child" /\ buffer'[2] = "exit"
        BY <4>3, <3>3, <1>b, <1>c
      <4> QED
        BY <4>4, <4>5, <4>6, <3>q DEF TwoLeave
    <3>4. CASE /\ Doing("wait", "read", "ended") /\ Flows(<<>>, <<>>, <<>>, <<>>)
               /\ talk = "child" /\ buffer[2] = "exit"
      <4>1. p = 2 /\ in = <<>>
        BY <3>4, <1>c, <2>1, <2>2 DEF Doing, Flows
      <4>2. doing' = [doing EXCEPT ![2] = "ended"]
        BY <4>1, <3>4, <1>e
      <4>3. doing'[1] \in {"wait", "ended"} /\ doing'[2] = "ended" /\ doing'[3] = "ended"
        BY <4>2, <3>4, <1>b DEF Doing
      <4> QED
        BY <4>3, <3>q DEF TwoLeave
    <3>5. CASE doing[1] \in {"wait", "ended"} /\ doing[2] = "ended" /\ doing[3] = "ended"
      BY <3>5, <1>c, <2>1
    <3> QED
      BY <3>0, <3>1, <3>2, <3>3, <3>4, <3>5 DEF TwoLeave
  <2> QED
    BY <2>3, <2>4
<1>2. CASE talk = "relay"
  <2>1. p \in {1, 3} /\ Peer(p) = 2
    BY <1>2, <1>c DEF Talkers, Far, Peer
  <2>2. (p = 1 => in = pipe[<<2, 1>>]) /\ (p = 3 => in = pipe[<<2, 3>>])
    BY <2>1
  <2>3. CASE ~exited
    <3>1. RelayTalk
      BY <1>2, <1>c, <2>3 DEF TalkIInv, TalkPlaces
    <3>2. in # <<>>
      <4>1. in = <<>> => doing[2] \in {"wait", "ended"}
        BY <1>e, <2>1
      <4> QED
        BY <2>1, <3>1, <4>1 DEF RelayTalk, Doing
    <3>3. /\ in = <<"text">>
          /\ \/ p = 3 /\ Doing("read", "back", "read") /\ Flows(<<>>, <<>>, <<"text">>, <<>>)
             \/ p = 1 /\ Doing("read", "read", "read") /\ Flows(<<>>, <<"text">>, <<>>, <<>>)
      <4>1. p = 1 => Flows(<<>>, <<"text">>, <<>>, <<>>) /\ Doing("read", "read", "read")
        BY <2>2, <3>1, <3>2 DEF RelayTalk, Flows
      <4>2. p = 3 => Flows(<<>>, <<>>, <<"text">>, <<>>) /\ Doing("read", "back", "read")
        BY <2>2, <3>1, <3>2 DEF RelayTalk, Flows
      <4> QED
        BY <2>1, <2>2, <4>1, <4>2 DEF Flows
    <3>4. pipe' = [pipe EXCEPT ![<<2, p>>] = <<>>] /\ doing' = [doing EXCEPT ![p] = "prompt"]
      BY <3>3, <1>d, <2>1
    <3>5. Flows(<<>>, <<>>, <<>>, <<>>)'
      BY <3>3, <3>4, <1>b DEF Flows, Pipes
    <3>6. (p = 1 /\ Doing("prompt", "read", "read")') \/ (p = 3 /\ Doing("read", "back", "prompt")')
      <4>1. p = 1 => Doing("prompt", "read", "read")'
        BY <3>3, <3>4, <1>b DEF Doing
      <4>2. p = 3 => Doing("read", "back", "prompt")'
        BY <3>3, <3>4, <1>b DEF Doing
      <4> QED
        BY <2>1, <4>1, <4>2
    <3>7. RelayTalk'
      BY <3>5, <3>6 DEF RelayTalk
    <3> QED
      BY <1>2, <1>c, <2>3, <3>7 DEF TalkPlaces
  <2>4. CASE exited
    <3>0. RelayLeave
      BY <1>2, <1>c, <2>4 DEF TalkIInv, TalkPlaces
    <3>q. RelayLeave' => TalkPlaces'
      BY <1>2, <1>c, <2>4 DEF TalkPlaces
    <3>1. CASE Doing("wait", "read", "read") /\ Flows(<<"exit">>, <<>>, <<>>, <<>>)
      <4>1. p = 3 /\ in = <<>> /\ doing[Peer(p)] = "read"
        BY <3>1, <1>c, <2>1, <2>2 DEF Doing, Flows
      <4> QED
        BY <4>1, <1>e
    <3>2. CASE /\ doing[1] \in {"wait", "ended"} /\ doing[2] = "ended" /\ doing[3] = "read"
               /\ Flows(<<>>, <<>>, <<"exit">>, <<>>)
      <4>1. p = 3 /\ in = <<"exit">>
        BY <3>2, <1>c, <2>1, <2>2 DEF Flows
      <4>2. doing' = [doing EXCEPT ![3] = "ended"]
        BY <4>1, <1>d
      <4>3. doing'[1] \in {"wait", "ended"} /\ doing'[2] = "ended" /\ doing'[3] = "ended"
        BY <4>2, <3>2, <1>b
      <4> QED
        BY <4>3, <3>q DEF RelayLeave
    <3>3. CASE Doing("read", "back", "ended") /\ Flows(<<>>, <<>>, <<>>, <<"exit">>)
      <4>1. p = 1 /\ in = <<>> /\ doing[Peer(p)] = "back"
        BY <3>3, <1>c, <2>1, <2>2 DEF Doing, Flows
      <4> QED
        BY <4>1, <1>e
    <3>4. CASE Doing("read", "ended", "ended") /\ Flows(<<>>, <<"exit">>, <<>>, <<>>)
      <4>1. p = 1 /\ in = <<"exit">>
        BY <3>4, <1>c, <2>1, <2>2 DEF Doing, Flows
      <4>2. doing' = [doing EXCEPT ![1] = "wait"]
        BY <4>1, <1>d
      <4>3. doing'[1] \in {"wait", "ended"} /\ doing'[2] = "ended" /\ doing'[3] = "ended"
        BY <4>2, <3>4, <1>b DEF Doing
      <4> QED
        BY <4>3, <3>q DEF RelayLeave
    <3>5. CASE doing[1] \in {"wait", "ended"} /\ doing[2] = "ended" /\ doing[3] = "ended"
      BY <3>5, <1>c, <2>1
    <3> QED
      BY <3>0, <3>1, <3>2, <3>3, <3>4, <3>5 DEF RelayLeave
  <2> QED
    BY <2>3, <2>4
<1> QED
  BY <1>1, <1>2


(* The relay (8-1-22/3/p2.c) passes a line on.                             *)
LEMMA PassPlaces ==
  ASSUME TalkIInv, PassOn, ~split'
  PROVE  TalkPlaces'
<1> PICK from \in Talkers : PassOn!2!(from)
  BY DEF PassOn
<1>a. /\ doing \in [1..3 -> {"prompt", "read", "back", "wait", "ended"}]
      /\ pipe \in [Pipes -> Seq(Speech)]
  BY DEF TalkIInv, TalkTypes
<1>b. talk = "relay" /\ talk' = talk /\ (exited' <=> exited) /\ ~split
  BY DEF PassOn
<1>c. from \in {1, 3}
  BY <1>b DEF Talkers, Far
<1> DEFINE in == pipe[<<from, 2>>]
<1>d. ASSUME NEW x \in {"text", "exit"}, in = <<x>>, pipe[<<2, 4 - from>>] = <<>>
      PROVE  /\ pipe' = [pipe EXCEPT ![<<from, 2>>] = <<>>, ![<<2, 4 - from>>] = <<x>>]
             /\ doing' = [doing EXCEPT ![2] = IF x = "exit" THEN "ended"
                                              ELSE IF from = 1 THEN "back" ELSE "read"]
  <2>1. Head(in) = x /\ Tail(in) = <<>> /\ <<>> \o <<x>> = <<x>>
    BY <1>d, OneElement
  <2>2. pipe' = [pipe EXCEPT ![<<from, 2>>] = Tail(@), ![<<2, 4 - from>>] = @ \o <<Head(in)>>]
    BY DEF PassedOn
  <2>3. <<2, 4 - from>> # <<from, 2>>
    BY <1>c
  <2> QED
    BY <1>d, <2>1, <2>2, <2>3
<1>e. doing[2] = (IF from = 1 THEN "read" ELSE "back") /\ in # <<>>
  OBVIOUS
<1>1. CASE ~exited
  <2>1. RelayTalk
    BY <1>1, <1>b DEF TalkIInv, TalkPlaces
  <2>2. from = 1 => Doing("read", "read", "read") /\ Flows(<<"text">>, <<>>, <<>>, <<>>)
    BY <2>1, <1>e DEF RelayTalk, Doing, Flows
  <2>3. from = 3 => Doing("read", "back", "read") /\ Flows(<<>>, <<>>, <<>>, <<"text">>)
    BY <2>1, <1>e DEF RelayTalk, Doing, Flows
  <2>4. /\ pipe' = [pipe EXCEPT ![<<from, 2>>] = <<>>, ![<<2, 4 - from>>] = <<"text">>]
        /\ doing' = [doing EXCEPT ![2] = IF from = 1 THEN "back" ELSE "read"]
    <3>1. in = <<"text">> /\ pipe[<<2, 4 - from>>] = <<>>
      <4>1. CASE from = 1
        <5>1. <<2, 4 - from>> = <<2, 3>>
          BY <4>1
        <5> QED
          BY <4>1, <5>1, <2>2 DEF Flows
      <4>2. CASE from = 3
        <5>1. <<2, 4 - from>> = <<2, 1>>
          BY <4>2
        <5> QED
          BY <4>2, <5>1, <2>3 DEF Flows
      <4> QED
        BY <1>c, <4>1, <4>2
    <3> QED
      BY <3>1, <1>d
  <2>5. from = 1 => Flows(<<>>, <<>>, <<"text">>, <<>>)'
    BY <2>2, <2>4, <1>a DEF Flows, Pipes
  <2>6. from = 3 => Flows(<<>>, <<"text">>, <<>>, <<>>)'
    BY <2>3, <2>4, <1>a DEF Flows, Pipes
  <2>7. from = 1 => Doing("read", "back", "read")'
    BY <2>2, <2>4, <1>a DEF Doing
  <2>8. from = 3 => Doing("read", "read", "read")'
    BY <2>3, <2>4, <1>a DEF Doing
  <2>9. RelayTalk'
    BY <1>c, <2>5, <2>6, <2>7, <2>8 DEF RelayTalk
  <2> QED
    BY <1>1, <1>b, <2>9 DEF TalkPlaces
<1>2. CASE exited
  <2>1. RelayLeave
    BY <1>2, <1>b DEF TalkIInv, TalkPlaces
  <2>2. from = 1 => Doing("wait", "read", "read") /\ Flows(<<"exit">>, <<>>, <<>>, <<>>)
    BY <2>1, <1>e DEF RelayLeave, Doing, Flows
  <2>3. from = 3 => Doing("read", "back", "ended") /\ Flows(<<>>, <<>>, <<>>, <<"exit">>)
    BY <2>1, <1>e DEF RelayLeave, Doing, Flows
  <2>4. /\ pipe' = [pipe EXCEPT ![<<from, 2>>] = <<>>, ![<<2, 4 - from>>] = <<"exit">>]
        /\ doing' = [doing EXCEPT ![2] = "ended"]
    <3>1. in = <<"exit">> /\ pipe[<<2, 4 - from>>] = <<>>
      <4>1. CASE from = 1
        <5>1. <<2, 4 - from>> = <<2, 3>>
          BY <4>1
        <5> QED
          BY <4>1, <5>1, <2>2 DEF Flows
      <4>2. CASE from = 3
        <5>1. <<2, 4 - from>> = <<2, 1>>
          BY <4>2
        <5> QED
          BY <4>2, <5>1, <2>3 DEF Flows
      <4> QED
        BY <1>c, <4>1, <4>2
    <3> QED
      BY <3>1, <1>d
  <2>5. from = 1 => Flows(<<>>, <<>>, <<"exit">>, <<>>)'
    BY <2>2, <2>4, <1>a DEF Flows, Pipes
  <2>6. from = 3 => Flows(<<>>, <<"exit">>, <<>>, <<>>)'
    BY <2>3, <2>4, <1>a DEF Flows, Pipes
  <2>7. from = 1 => doing'[1] = "wait" /\ doing'[2] = "ended" /\ doing'[3] = "read"
    BY <2>2, <2>4, <1>a DEF Doing
  <2>8. from = 3 => Doing("read", "ended", "ended")'
    BY <2>3, <2>4, <1>a DEF Doing
  <2>9. RelayLeave'
    BY <1>c, <2>5, <2>6, <2>7, <2>8 DEF RelayLeave
  <2> QED
    BY <1>2, <1>b, <2>9 DEF TalkPlaces
<1> QED
  BY <1>1, <1>2

(* The parent of q1.c has waited for its child.                            *)
LEMMA WaitPlaces ==
  ASSUME TalkIInv, WaitChild, ~split'
  PROVE  TalkPlaces'
<1>a. doing \in [1..3 -> {"prompt", "read", "back", "wait", "ended"}]
  BY DEF TalkIInv, TalkTypes
<1>b. /\ talk' = talk /\ pipe' = pipe /\ (exited' <=> exited) /\ ~split
      /\ doing[1] = "wait" /\ doing[2] = "ended" /\ doing' = [doing EXCEPT ![1] = "ended"]
  BY DEF WaitChild
<1>c. exited
  BY <1>b DEF TalkIInv, TalkPlaces, TwoTalk, RelayTalk, Doing
<1>d. doing'[1] = "ended" /\ doing'[2] = "ended" /\ doing'[3] = doing[3]
  BY <1>a, <1>b
<1>1. CASE talk # "relay"
  <2>1. TwoLeave
    BY <1>1, <1>b, <1>c DEF TalkIInv, TalkPlaces
  <2>2. TwoLeave'
    BY <2>1, <1>b, <1>d DEF TwoLeave, Doing
  <2> QED
    BY <1>1, <1>b, <1>c, <2>2 DEF TalkPlaces
<1>2. CASE talk = "relay"
  <2>1. RelayLeave
    BY <1>2, <1>b, <1>c DEF TalkIInv, TalkPlaces
  <2>2. RelayLeave'
    BY <2>1, <1>b, <1>d DEF RelayLeave, Doing, Flows
  <2> QED
    BY <1>2, <1>b, <1>c, <2>2 DEF TalkPlaces
<1> QED
  BY <1>1, <1>2

(* Every step of a dialogue keeps the invariant.                           *)
LEMMA TalkStep == TalkIInv /\ [TalkNext]_talkVars => TalkIInv'
<1> SUFFICES ASSUME TalkIInv, [TalkNext]_talkVars PROVE TalkIInv'
  OBVIOUS
<1>1. TalkTypes'
  BY TalkTypesStep DEF TalkIInv
<1>2. TalkPlaces'
  <2>1. split' => TalkPlaces'
    BY DEF TalkPlaces
  <2>2. ASSUME UNCHANGED talkVars PROVE TalkPlaces'
    <3>1. TalkPlaces
      BY DEF TalkIInv
    <3> QED
      BY <2>2, <3>1, Zenon
      DEF talkVars, TalkPlaces, TwoTalk, TwoLeave, RelayTalk, RelayLeave, Doing, Flows
  <2> QED
    BY <2>1, <2>2, TypePlaces, ReadPlaces, PassPlaces, WaitPlaces DEF TalkNext, P1, P2, P3
<1> QED
  BY <1>1, <1>2 DEF TalkIInv

(* The processes asked for a line, by their number.                        *)
LEMMA Prompted ==
  /\ (\A p \in 1..3 : doing[p] # "prompt") => Cardinality({p \in 1..3 : doing[p] = "prompt"}) = 0
  /\ \A q \in 1..3 : (\A p \in 1..3 : doing[p] = "prompt" <=> p = q)
                       => Cardinality({p \in 1..3 : doing[p] = "prompt"}) = 1
<1>1. ASSUME \A p \in 1..3 : doing[p] # "prompt"
      PROVE  Cardinality({p \in 1..3 : doing[p] = "prompt"}) = 0
  <2>1. {p \in 1..3 : doing[p] = "prompt"} = {}
    BY <1>1
  <2> QED
    BY <2>1, FS_EmptySet
<1>2. ASSUME NEW q \in 1..3, \A p \in 1..3 : doing[p] = "prompt" <=> p = q
      PROVE  Cardinality({p \in 1..3 : doing[p] = "prompt"}) = 1
  <2>1. {p \in 1..3 : doing[p] = "prompt"} = {q}
    BY <1>2
  <2> QED
    BY <2>1, FS_Singleton
<1> QED
  BY <1>1, <1>2

(* What the invariant says of the properties that the run checks.          *)
LEMMA TalkIsKept == TalkIInv => TalkKept /\ TalkTypeOK
<1> SUFFICES ASSUME TalkIInv PROVE TalkKept /\ TalkTypeOK
  OBVIOUS
<1>1. OneSpeaker
  <2> SUFFICES ASSUME ~split, ~exited
               PROVE  Cardinality({p \in 1..3 : doing[p] = "prompt"})
                        + Len(pipe[<<1, 2>>]) + Len(pipe[<<2, 1>>])
                        + Len(pipe[<<2, 3>>]) + Len(pipe[<<3, 2>>]) = 1
    BY DEF OneSpeaker
  <2>1. TwoTalk \/ RelayTalk
    BY DEF TalkIInv, TalkPlaces
  <2> DEFINE c == Cardinality({p \in 1..3 : doing[p] = "prompt"})
  <2>2. \/ (\E q \in 1..3 : \A p \in 1..3 : doing[p] = "prompt" <=> p = q) /\ Flows(<<>>, <<>>, <<>>, <<>>)
        \/ /\ \A p \in 1..3 : doing[p] # "prompt"
           /\ \/ Flows(<<"text">>, <<>>, <<>>, <<>>) \/ Flows(<<>>, <<"text">>, <<>>, <<>>)
              \/ Flows(<<>>, <<>>, <<"text">>, <<>>) \/ Flows(<<>>, <<>>, <<>>, <<"text">>)
    BY <2>1 DEF TwoTalk, RelayTalk, Doing
  <2>3. \/ c = 1 /\ Flows(<<>>, <<>>, <<>>, <<>>)
        \/ /\ c = 0
           /\ \/ Flows(<<"text">>, <<>>, <<>>, <<>>) \/ Flows(<<>>, <<"text">>, <<>>, <<>>)
              \/ Flows(<<>>, <<>>, <<"text">>, <<>>) \/ Flows(<<>>, <<>>, <<>>, <<"text">>)
    BY <2>2, Prompted
  <2> HIDE DEF c
  <2>4. Len(<<>>) = 0 /\ Len(<<"text">>) = 1
    OBVIOUS
  <2>5. c + Len(pipe[<<1, 2>>]) + Len(pipe[<<2, 1>>])
          + Len(pipe[<<2, 3>>]) + Len(pipe[<<3, 2>>]) = 1
    <3> DEFINE a == Len(pipe[<<1, 2>>])  b == Len(pipe[<<2, 1>>])
               d == Len(pipe[<<2, 3>>])  e == Len(pipe[<<3, 2>>])
    <3>1. ASSUME Flows(<<>>, <<>>, <<>>, <<>>)
          PROVE  a = 0 /\ b = 0 /\ d = 0 /\ e = 0
      BY <2>4, <3>1 DEF Flows
    <3>2. ASSUME Flows(<<"text">>, <<>>, <<>>, <<>>)
          PROVE  a = 1 /\ b = 0 /\ d = 0 /\ e = 0
      BY <2>4, <3>2 DEF Flows
    <3>3. ASSUME Flows(<<>>, <<"text">>, <<>>, <<>>)
          PROVE  a = 0 /\ b = 1 /\ d = 0 /\ e = 0
      BY <2>4, <3>3 DEF Flows
    <3>4. ASSUME Flows(<<>>, <<>>, <<"text">>, <<>>)
          PROVE  a = 0 /\ b = 0 /\ d = 1 /\ e = 0
      BY <2>4, <3>4 DEF Flows
    <3>5. ASSUME Flows(<<>>, <<>>, <<>>, <<"text">>)
          PROVE  a = 0 /\ b = 0 /\ d = 0 /\ e = 1
      BY <2>4, <3>5 DEF Flows
    <3> HIDE DEF a, b, d, e
    <3>6. c + a + b + d + e = 1
      BY <2>3, <3>1, <3>2, <3>3, <3>4, <3>5
    <3> QED
      BY <3>6 DEF a, b, d, e
  <2> QED
    BY <2>5 DEF c
<1>2. EndsQuietly
  BY DEF TalkIInv, TalkPlaces, EndsQuietly, TwoLeave, RelayLeave, Doing
<1>3. TalkTypeOK
  <2>1. pipe \in [Pipes -> Seq(Speech)]
    BY DEF TalkIInv, TalkTypes
  <2>2. ASSUME NEW e \in Pipes, NEW k \in 1..Len(pipe[e])
        PROVE  pipe[e][k] \in {"text", "exit", "head", "rest"}
    <3>1. pipe[e] \in Seq(Speech)
      BY <2>1
    <3>2. pipe[e][k] \in Speech
      BY <3>1
    <3> QED
      BY <3>2 DEF Speech
  <2> QED
    BY <2>2 DEF TalkIInv, TalkTypes, TalkTypeOK
<1> QED
  BY <1>1, <1>2, <1>3 DEF TalkKept


(* One program moves at a time: a step of the run is a step of a program   *)
(* or leaves it as it is.                                                  *)
LEMMA GroupIsTalk == [GroupNext]_all => [TalkNext]_talkVars
  BY DEF GroupNext, all, InTurns, InTalk, InMail, InPoll, InExch

(* For any number of lines, in all three dialogues over pipes: before      *)
(* "exit" exactly one process asks for a line or one line is on its way,   *)
(* and after it, whoever typed it, nobody is asked again, unless the read  *)
(* of the child has cut a line of more than 20 bytes (8-1-22/1/q1.c:54-63, *)
(* 2/p1.c, 3/p2.c).                                                        *)
THEOREM TalkInOrder == GroupSpec => []TalkKept
<1>1. GroupInit => TalkIInv
  BY TalkStarts DEF GroupInit
<1>2. TalkIInv /\ [GroupNext]_all => TalkIInv'
  BY TalkStep, GroupIsTalk
<1> QED
  BY <1>1, <1>2, TalkIsKept, PTL DEF GroupSpec


-----------------------------------------------------------------------------
(* Mailbox                                                                 *)

(* The elements of a queue after the k-th is removed.                      *)
LEMMA RemoveElements ==
  ASSUME NEW S, NEW s \in Seq(S), NEW k \in 1..Len(s)
  PROVE  /\ RemoveAt(s, k) \in Seq(S)
         /\ Len(RemoveAt(s, k)) = Len(s) - 1
         /\ \A j \in 1..Len(s) - 1 : RemoveAt(s, k)[j] = IF j < k THEN s[j] ELSE s[j + 1]
<1> DEFINE n == Len(s)  a == SubSeq(s, 1, k - 1)  b == SubSeq(s, k + 1, n)
<1>1. n \in Nat /\ k \in 1..n /\ k \in Int /\ \A i \in 1..n : s[i] \in S
  OBVIOUS
<1> HIDE DEF n
<1>2. (\A i \in 1..k - 1 : s[i] \in S) /\ (\A i \in k + 1..n : s[i] \in S)
  BY <1>1
<1>3. a \in Seq(S) /\ Len(a) = k - 1 /\ \A i \in 1..k - 1 : a[i] = s[i]
  <2>1. 1 \in Int /\ k - 1 \in Int
    BY <1>1
  <2>2. /\ a \in Seq(S) /\ Len(a) = (IF 1 <= k - 1 THEN (k - 1) - 1 + 1 ELSE 0)
        /\ \A i \in 1..(k - 1) - 1 + 1 : a[i] = s[1 + i - 1]
    BY <1>2, <2>1, SubSeqProperties
  <2> HIDE DEF a
  <2> QED
    BY <1>1, <2>2
<1>4. b \in Seq(S) /\ Len(b) = n - k /\ \A i \in 1..n - k : b[i] = s[k + i]
  <2>1. k + 1 \in Int /\ n \in Int
    BY <1>1
  <2>2. /\ b \in Seq(S) /\ Len(b) = (IF k + 1 <= n THEN n - (k + 1) + 1 ELSE 0)
        /\ \A i \in 1..n - (k + 1) + 1 : b[i] = s[(k + 1) + i - 1]
    BY <1>2, <2>1, SubSeqProperties
  <2> HIDE DEF b
  <2> QED
    BY <1>1, <2>2
<1>5. RemoveAt(s, k) = a \o b
  BY DEF RemoveAt, n
<1> HIDE DEF a, b
<1>6. /\ a \o b \in Seq(S) /\ Len(a \o b) = Len(a) + Len(b)
      /\ \A i \in 1..Len(a) + Len(b) : (a \o b)[i] = IF i <= Len(a) THEN a[i] ELSE b[i - Len(a)]
  BY <1>3, <1>4, ConcatProperties
<1>7. Len(a \o b) = n - 1
  BY <1>1, <1>3, <1>4, <1>6
<1>8. ASSUME NEW j \in 1..n - 1
      PROVE  (a \o b)[j] = IF j < k THEN s[j] ELSE s[j + 1]
  <2>1. (a \o b)[j] = IF j <= k - 1 THEN a[j] ELSE b[j - (k - 1)]
    BY <1>1, <1>3, <1>4, <1>6
  <2>2. CASE j < k
    BY <2>1, <2>2, <1>1, <1>3
  <2>3. CASE ~(j < k)
    <3>1. j - (k - 1) \in 1..n - k /\ k + (j - (k - 1)) = j + 1
      BY <2>3, <1>1
    <3> QED
      BY <2>1, <2>3, <3>1, <1>1, <1>4
  <2> QED
    BY <2>2, <2>3
<1> QED
  BY <1>5, <1>6, <1>7, <1>8 DEF n

Letter == [mtype : Pids \cup {1}, from : Senders, pid : Pids]

(* p's messages in the queue; p1 is answering i.                           *)
Mine(i) == {k \in 1..Len(queue) : queue[k].pid = i}
Held(i) == taken # <<>> /\ taken[1].pid = i

MailTypes ==
  /\ queue \in Seq(Letter) /\ Len(queue) <= Capacity
  /\ taken \in Seq(Letter) /\ Len(taken) <= 1
  /\ proc \in [Pids -> Senders \cup {0}]
  /\ stage \in [Pids -> {"none", "send", "recv"}]
  /\ \A i \in Pids : stage[i] = "none" \/ proc[i] \in Senders
  /\ stale \subseteq Pids /\ wrong \subseteq Pids

(* A message in the queue is a request or an answer to its sender; what p1 *)
(* has taken is a request.                                                 *)
Addressed ==
  /\ \A k \in 1..Len(queue) : queue[k].mtype \in {1, queue[k].pid}
  /\ taken # <<>> => taken[1].mtype = 1

(* Who is not abandoned has one message on its way while it waits, sent by *)
(* itself, and none otherwise.                                             *)
OneFor(i) ==
  /\ i \notin wrong
  /\ stage[i] # "recv" => ~Held(i) /\ Mine(i) = {}
  /\ stage[i] = "recv" => \/ Held(i) /\ Mine(i) = {}
                          \/ ~Held(i) /\ \E k : Mine(i) = {k}
  /\ \A k \in Mine(i) : queue[k].from = proc[i]
  /\ Held(i) => taken[1].from = proc[i]
MailOne == \A i \in Pids \ stale : OneFor(i)

MailIInv == MailTypes /\ Addressed /\ MailOne

(* The message queue starts in the invariant.                              *)
LEMMA MailStarts == MailInit => MailIInv
<1> SUFFICES ASSUME MailInit PROVE MailIInv
  OBVIOUS
<1>1. queue = <<>> /\ taken = <<>> /\ Len(<<>>) = 0
  BY DEF MailInit
<1>2. MailTypes
  <2>1. <<>> \in Seq(Letter)
    OBVIOUS
  <2> QED
    BY <1>1, <2>1, MailConstants DEF MailInit, MailTypes
<1>3. \A i \in Pids : ~Held(i) /\ Mine(i) = {}
  BY <1>1 DEF Held, Mine
<1>4. Addressed
  BY <1>1 DEF Addressed
<1>5. MailOne
  BY <1>3 DEF MailInit, MailOne, OneFor
<1> QED
  BY <1>2, <1>4, <1>5 DEF MailIInv

(* msgrcv takes a message of the type asked for.                           *)
LEMMA OldestIs ==
  ASSUME MailTypes, NEW t, OfType(t) # {}
  PROVE  Oldest(t) \in 1..Len(queue) /\ queue[Oldest(t)].mtype = t
<1>1. OfType(t) \in SUBSET Nat
  BY DEF OfType, MailTypes
<1>2. \E k \in OfType(t) : \A l \in OfType(t) : k <= l
  BY <1>1, LeastNat
<1>3. Oldest(t) \in OfType(t)
  BY <1>2 DEF Oldest
<1> QED
  BY <1>3 DEF OfType


(* The messages for or from process i, after one is put into the queue.    *)
LEMMA MineAfterSend ==
  ASSUME MailTypes, NEW m \in Letter, queue' = Append(queue, m), NEW i
  PROVE  /\ Mine(i)' = IF m.pid = i THEN Mine(i) \cup {Len(queue) + 1} ELSE Mine(i)
         /\ \A k \in Mine(i) : queue'[k] = queue[k]
         /\ queue'[Len(queue) + 1] = m
<1> DEFINE n == Len(queue)
<1>1. /\ queue' \in Seq(Letter) /\ Len(queue') = n + 1 /\ queue'[n + 1] = m
      /\ \A k \in 1..n : queue'[k] = queue[k]
  BY AppendElements DEF MailTypes
<1>2. n \in Nat
  BY DEF MailTypes
<1>3. Mine(i)' = {k \in 1..n + 1 : queue'[k].pid = i} /\ Mine(i) = {k \in 1..n : queue[k].pid = i}
  BY <1>1 DEF Mine
<1> HIDE DEF n
<1>4. ASSUME NEW k
      PROVE  k \in {l \in 1..n + 1 : queue'[l].pid = i}
               <=> k \in {l \in 1..n : queue[l].pid = i} \/ (k = n + 1 /\ m.pid = i)
  BY <1>1, <1>2
<1>5. Mine(i)' = IF m.pid = i THEN Mine(i) \cup {n + 1} ELSE Mine(i)
  BY <1>3, <1>4
<1> QED
  BY <1>1, <1>3, <1>5 DEF n

(* The same after one is taken out.                                        *)
LEMMA MineAfterRemove ==
  ASSUME MailTypes, NEW o \in 1..Len(queue), queue' = RemoveAt(queue, o), NEW i
  PROVE  /\ \A k \in 1..Len(queue') : \E l \in 1..Len(queue) \ {o} : queue'[k] = queue[l]
         /\ Mine(i) = {} => Mine(i)' = {}
         /\ Mine(i) = {o} => Mine(i)' = {}
         /\ \A k : Mine(i) = {k} /\ k # o => \E l : Mine(i)' = {l} /\ queue'[l] = queue[k]
<1> DEFINE n == Len(queue)
<1>1. /\ queue' \in Seq(Letter) /\ Len(queue') = n - 1
      /\ \A k \in 1..n - 1 : queue'[k] = IF k < o THEN queue[k] ELSE queue[k + 1]
  BY RemoveElements DEF MailTypes
<1>2. n \in Nat /\ o \in 1..n
  BY DEF MailTypes
<1>3. Mine(i)' = {k \in 1..n - 1 : queue'[k].pid = i} /\ Mine(i) = {k \in 1..n : queue[k].pid = i}
  BY <1>1 DEF Mine
<1> HIDE DEF n
<1>4. ASSUME NEW k \in 1..n - 1
      PROVE  \E l \in 1..n \ {o} : queue'[k] = queue[l]
  <2>1. k < o => k \in 1..n \ {o} /\ queue'[k] = queue[k]
    BY <1>1, <1>2
  <2>2. ~(k < o) => k + 1 \in 1..n \ {o} /\ queue'[k] = queue[k + 1]
    BY <1>1, <1>2
  <2> QED
    BY <2>1, <2>2
<1>5. (Mine(i) = {} \/ Mine(i) = {o}) => Mine(i)' = {}
  <2> SUFFICES ASSUME Mine(i) = {} \/ Mine(i) = {o}, NEW k \in 1..n - 1, queue'[k].pid = i PROVE FALSE
    BY <1>3
  <2>1. PICK l \in 1..n \ {o} : queue'[k] = queue[l]
    BY <1>4
  <2>2. l \in Mine(i)
    BY <2>1, <1>3
  <2> QED
    BY <2>1, <2>2
<1>6. ASSUME NEW k, Mine(i) = {k}, k # o
      PROVE  \E l : Mine(i)' = {l} /\ queue'[l] = queue[k]
  <2>1. k \in 1..n /\ queue[k].pid = i /\ \A j \in 1..n : queue[j].pid = i => j = k
    BY <1>3, <1>6
  <2> DEFINE l == IF k < o THEN k ELSE k - 1
  <2>2. l \in 1..n - 1 /\ queue'[l] = queue[k]
    BY <2>1, <1>1, <1>2, <1>6
  <2>3. ASSUME NEW j \in 1..n - 1, queue'[j].pid = i PROVE j = l
    <3>1. CASE j < o
      BY <3>1, <2>1, <2>3, <1>1, <1>2
    <3>2. CASE ~(j < o)
      <4>1. j + 1 \in 1..n /\ queue'[j] = queue[j + 1]
        BY <3>2, <1>1, <1>2
      <4>2. j + 1 = k
        BY <4>1, <2>1, <2>3
      <4> QED
        BY <4>2, <3>2, <2>1, <1>2
    <3> QED
      BY <3>1, <3>2
  <2> HIDE DEF l
  <2>4. Mine(i)' = {l}
    BY <1>3, <2>1, <2>2, <2>3
  <2> QED
    BY <2>2, <2>4
<1> QED
  BY <1>1, <1>4, <1>5, <1>6 DEF n

(* A step that leaves the messages of i, its process and its stage alone.  *)
LEMMA OneForKept ==
  ASSUME NEW i, OneFor(i),
         Held(i)' <=> Held(i), Held(i) => taken' = taken,
         Mine(i)' = Mine(i), \A k \in Mine(i) : queue'[k] = queue[k],
         stage'[i] = stage[i], proc'[i] = proc[i], i \in wrong' => i \in wrong
  PROVE  OneFor(i)'
<1>1. /\ (stage[i] # "recv" => ~Held(i)' /\ Mine(i)' = {})
      /\ (stage[i] = "recv" => \/ Held(i)' /\ Mine(i)' = {}
                               \/ ~Held(i)' /\ \E k : Mine(i)' = {k})
  BY DEF OneFor
<1>2. \A k \in Mine(i)' : queue'[k].from = proc'[i]
  BY DEF OneFor
<1>3. Held(i)' => taken'[1].from = proc'[i]
  BY DEF OneFor
<1> QED
  BY <1>1, <1>2, <1>3 DEF OneFor

(* Every step of the message queue keeps the invariant.                    *)
LEMMA MailStep == MailIInv /\ [MailNext]_mailVars => MailIInv'
<1> SUFFICES ASSUME MailIInv, [MailNext]_mailVars PROVE MailIInv'
  OBVIOUS
<1>a. 1 \notin Pids /\ \A i \in Pids : i \in Nat
  BY MailConstants
<1>b. MailTypes /\ Addressed /\ MailOne
  BY DEF MailIInv
<1>c. queue \in Seq(Letter) /\ taken \in Seq(Letter) /\ Len(queue) \in Nat /\ Len(taken) \in Nat
  BY <1>b DEF MailTypes
<1>d. ASSUME queue' = queue, taken' = taken, NEW j
      PROVE  Mine(j)' = Mine(j) /\ (Held(j)' <=> Held(j)) /\ \A k \in Mine(j) : queue'[k] = queue[k]
  BY <1>d DEF Mine, Held
<1>1. ASSUME NEW n \in Senders, NEW i \in Pids, StartSender(n, i) PROVE MailIInv'
  <2>0. /\ proc' = [proc EXCEPT ![i] = n] /\ stage' = [stage EXCEPT ![i] = "send"] /\ proc[i] = 0
        /\ queue' = queue /\ taken' = taken /\ stale' = stale /\ wrong' = wrong
    BY <1>1 DEF StartSender
  <2>1. MailTypes'
    BY <1>b, <2>0 DEF MailTypes
  <2>2. Addressed'
    BY <1>b, <2>0 DEF Addressed
  <2>3. ASSUME NEW j \in Pids \ stale' PROVE OneFor(j)'
    <3>1. OneFor(j)
      BY <1>b, <2>0 DEF MailOne
    <3>2. CASE j # i
      <4>1. stage'[j] = stage[j] /\ proc'[j] = proc[j]
        BY <1>b, <2>0, <3>2 DEF MailTypes
      <4> QED
        BY <1>d, <2>0, <3>1, <4>1, OneForKept
    <3>3. CASE j = i
      <4>1. stage'[i] = "send" /\ stage[i] # "recv"
        <5>1. 0 \notin Senders
          BY MailConstants
        <5> QED
          BY <1>b, <2>0, <5>1 DEF MailTypes
      <4>2. ~Held(i)' /\ Mine(i)' = {} /\ i \notin wrong'
        BY <1>d, <2>0, <3>1, <3>3, <4>1 DEF OneFor
      <4> QED
        BY <3>3, <4>1, <4>2 DEF OneFor
    <3> QED
      BY <3>2, <3>3
  <2> QED
    BY <2>1, <2>2, <2>3 DEF MailIInv, MailOne
<1>2. ASSUME NEW i \in Pids, Request(i) PROVE MailIInv'
  <2> DEFINE m == [mtype |-> 1, from |-> proc[i], pid |-> i]
  <2>0. /\ stage[i] = "send" /\ Len(queue) < Capacity /\ queue' = Append(queue, m)
        /\ stage' = [stage EXCEPT ![i] = "recv"]
        /\ proc' = proc /\ taken' = taken /\ stale' = stale /\ wrong' = wrong
    BY <1>2 DEF Request
  <2>1. m \in Letter /\ m.pid = i /\ m.mtype = 1 /\ m.from = proc[i]
    BY <1>b, <2>0 DEF MailTypes, Letter
  <2> HIDE DEF m
  <2>2. /\ queue' \in Seq(Letter) /\ Len(queue') = Len(queue) + 1
        /\ queue'[Len(queue) + 1] = m /\ \A k \in 1..Len(queue) : queue'[k] = queue[k]
    BY <1>c, <2>0, <2>1, AppendElements
  <2>3. MailTypes'
    BY <1>b, <1>c, <2>0, <2>2, MailConstants DEF MailTypes
  <2>4. Addressed'
    BY <1>b, <1>c, <2>0, <2>1, <2>2 DEF Addressed
  <2>5. ASSUME NEW j \in Pids \ stale' PROVE OneFor(j)'
    <3>1. OneFor(j)
      BY <1>b, <2>0 DEF MailOne
    <3>2. /\ Mine(j)' = IF m.pid = j THEN Mine(j) \cup {Len(queue) + 1} ELSE Mine(j)
          /\ \A k \in Mine(j) : queue'[k] = queue[k]
      BY <1>b, <2>0, <2>1, MineAfterSend, ZenonT(30)
    <3>3. Held(j)' <=> Held(j)
      BY <2>0 DEF Held
    <3>4. CASE j # i
      <4>1. stage'[j] = stage[j] /\ proc'[j] = proc[j] /\ Mine(j)' = Mine(j)
        BY <1>b, <2>0, <2>1, <3>2, <3>4 DEF MailTypes
      <4> QED
        BY <2>0, <3>1, <3>2, <3>3, <4>1, OneForKept
    <3>5. CASE j = i
      <4>1. stage'[i] = "recv" /\ stage[i] # "recv"
        BY <1>b, <2>0 DEF MailTypes
      <4>2. ~Held(i)' /\ Mine(i)' = {Len(queue) + 1} /\ i \notin wrong'
        BY <2>0, <2>1, <3>1, <3>2, <3>3, <3>5, <4>1 DEF OneFor
      <4>3. queue'[Len(queue) + 1].from = proc'[i]
        BY <2>0, <2>1, <2>2
      <4> QED
        BY <3>5, <4>1, <4>2, <4>3 DEF OneFor
    <3> QED
      BY <3>4, <3>5
  <2> QED
    BY <2>3, <2>4, <2>5 DEF MailIInv, MailOne
<1>3. CASE TakeRequest
  <2> DEFINE o == Oldest(1)
  <2>0. /\ taken = <<>> /\ OfType(1) # {} /\ taken' = <<queue[o]>> /\ queue' = RemoveAt(queue, o)
        /\ stage' = stage /\ proc' = proc /\ stale' = stale /\ wrong' = wrong
    BY <1>3 DEF TakeRequest
  <2>1. o \in 1..Len(queue) /\ queue[o].mtype = 1 /\ queue[o] \in Letter
    BY <1>b, <1>c, <2>0, OldestIs
  <2> HIDE DEF o
  <2>2. queue' \in Seq(Letter) /\ Len(queue') = Len(queue) - 1
    BY <1>c, <2>0, <2>1, RemoveElements
  <2>t. /\ taken' \in Seq(Letter) /\ Len(taken') = 1 /\ taken' # <<>> /\ taken'[1] = queue[o]
    BY <2>0, <2>1
  <2>3. MailTypes'
    BY <1>b, <1>c, <2>0, <2>2, <2>t, MailConstants DEF MailTypes
  <2>4. Addressed'
    <3>1. \A k \in 1..Len(queue') : \E l \in 1..Len(queue) \ {o} : queue'[k] = queue[l]
      BY <1>b, <2>0, <2>1, MineAfterRemove
    <3> QED
      BY <1>b, <2>1, <2>t, <3>1 DEF Addressed
  <2>5. ASSUME NEW j \in Pids \ stale' PROVE OneFor(j)'
    <3>1. OneFor(j)
      BY <1>b, <2>0 DEF MailOne
    <3>2. ~Held(j) /\ (Held(j)' <=> queue[o].pid = j) /\ (queue[o].pid = j <=> o \in Mine(j))
      BY <2>0, <2>1, <2>t DEF Held, Mine
    <3>3. /\ Mine(j) = {} => Mine(j)' = {}
          /\ Mine(j) = {o} => Mine(j)' = {}
          /\ \A k : Mine(j) = {k} /\ k # o => \E l : Mine(j)' = {l} /\ queue'[l] = queue[k]
      <4>1. MailTypes /\ o \in 1..Len(queue) /\ queue' = RemoveAt(queue, o)
        BY <1>b, <2>0, <2>1
      <4> QED
        BY <4>1, MineAfterRemove, Zenon
    <3>4. CASE stage[j] # "recv"
      <4>1. Mine(j) = {} /\ ~Held(j)' /\ Mine(j)' = {}
        BY <3>1, <3>2, <3>3, <3>4 DEF OneFor
      <4> QED
        BY <2>0, <3>1, <3>4, <4>1 DEF OneFor
    <3>5. CASE stage[j] = "recv"
      <4>1. PICK k : Mine(j) = {k}
        BY <3>1, <3>2, <3>5 DEF OneFor
      <4>2. queue[k].from = proc[j] /\ j \notin wrong
        BY <4>1, <3>1 DEF OneFor
      <4>3. CASE k = o
        <5>1. Held(j)' /\ Mine(j)' = {} /\ taken'[1].from = proc'[j]
          BY <4>1, <4>2, <4>3, <3>2, <3>3, <2>0, <2>t
        <5> QED
          BY <5>1, <4>2, <3>5, <2>0 DEF OneFor
      <4>4. CASE k # o
        <5>1. PICK l : Mine(j)' = {l} /\ queue'[l] = queue[k]
          BY <4>1, <4>4, <3>3
        <5>2. ~Held(j)' /\ queue'[l].from = proc'[j]
          BY <5>1, <4>1, <4>2, <4>4, <3>2, <2>0
        <5> QED
          BY <5>1, <5>2, <4>2, <3>5, <2>0 DEF OneFor
      <4> QED
        BY <4>3, <4>4
    <3> QED
      BY <3>4, <3>5
  <2> QED
    BY <2>3, <2>4, <2>5 DEF MailIInv, MailOne
<1>4. CASE Answer
  <2> DEFINE m == [taken[1] EXCEPT !.mtype = AnswerType(taken[1])]
  <2>0. /\ taken # <<>> /\ Len(queue) < Capacity /\ queue' = Append(queue, m) /\ taken' = <<>>
        /\ stage' = stage /\ proc' = proc /\ stale' = stale /\ wrong' = wrong
    BY <1>4 DEF Answer
  <2>t. taken[1] \in Letter
    BY <1>c, <2>0
  <2>1. m \in Letter /\ m.pid = taken[1].pid /\ m.mtype = m.pid /\ m.from = taken[1].from
    BY <2>t DEF Letter, AnswerType
  <2> HIDE DEF m
  <2>2. /\ queue' \in Seq(Letter) /\ Len(queue') = Len(queue) + 1
        /\ queue'[Len(queue) + 1] = m /\ \A k \in 1..Len(queue) : queue'[k] = queue[k]
    BY <1>c, <2>0, <2>1, AppendElements
  <2>3. MailTypes'
    <3>1. taken' \in Seq(Letter) /\ Len(taken') = 0
      BY <2>0
    <3> QED
      BY <1>b, <1>c, <2>0, <2>2, <3>1, MailConstants DEF MailTypes
  <2>4. Addressed'
    BY <1>b, <1>c, <2>0, <2>1, <2>2 DEF Addressed
  <2>5. ASSUME NEW j \in Pids \ stale' PROVE OneFor(j)'
    <3>1. OneFor(j)
      BY <1>b, <2>0 DEF MailOne
    <3>2. /\ Mine(j)' = IF m.pid = j THEN Mine(j) \cup {Len(queue) + 1} ELSE Mine(j)
          /\ \A k \in Mine(j) : queue'[k] = queue[k]
      BY <1>b, <2>0, <2>1, MineAfterSend, ZenonT(30)
    <3>3. ~Held(j)' /\ (Held(j) <=> m.pid = j)
      BY <2>0, <2>1 DEF Held
    <3>4. CASE m.pid # j
      BY <2>0, <3>1, <3>2, <3>3, <3>4, OneForKept
    <3>5. CASE m.pid = j
      <4>1. stage[j] = "recv" /\ Mine(j) = {} /\ j \notin wrong /\ taken[1].from = proc[j]
        BY <3>1, <3>3, <3>5 DEF OneFor
      <4>2. Mine(j)' = {Len(queue) + 1}
        BY <3>2, <3>5, <4>1
      <4>3. queue'[Len(queue) + 1].from = proc'[j]
        BY <2>0, <2>1, <2>2, <4>1
      <4> QED
        BY <2>0, <3>3, <4>1, <4>2, <4>3 DEF OneFor
    <3> QED
      BY <3>4, <3>5
  <2> QED
    BY <2>3, <2>4, <2>5 DEF MailIInv, MailOne
<1>5. ASSUME NEW i \in Pids, TakeAnswer(i) PROVE MailIInv'
  <2> DEFINE o == Oldest(i)
  <2>0. /\ stage[i] = "recv" /\ OfType(i) # {} /\ queue' = RemoveAt(queue, o)
        /\ wrong' = (IF queue[o].from # proc[i] THEN wrong \cup {i} ELSE wrong)
        /\ stage' = [stage EXCEPT ![i] = "none"] /\ proc' = [proc EXCEPT ![i] = 0]
        /\ taken' = taken /\ stale' = stale
    BY <1>5 DEF TakeAnswer
  <2>1. o \in 1..Len(queue) /\ queue[o].mtype = i /\ queue[o] \in Letter
    BY <1>b, <1>c, <2>0, OldestIs
  <2> HIDE DEF o
  <2>m. queue[o].pid = i
    BY <1>a, <1>b, <2>1 DEF Addressed
  <2>2. queue' \in Seq(Letter) /\ Len(queue') = Len(queue) - 1
    BY <1>c, <2>0, <2>1, RemoveElements
  <2>3. MailTypes'
    BY <1>b, <1>c, <2>0, <2>2, MailConstants DEF MailTypes
  <2>4. Addressed'
    <3>1. \A k \in 1..Len(queue') : \E l \in 1..Len(queue) \ {o} : queue'[k] = queue[l]
      BY <1>b, <2>0, <2>1, MineAfterRemove
    <3> QED
      BY <1>b, <2>0, <3>1 DEF Addressed
  <2>5. ASSUME NEW j \in Pids \ stale' PROVE OneFor(j)'
    <3>1. OneFor(j)
      BY <1>b, <2>0 DEF MailOne
    <3>2. (Held(j)' <=> Held(j)) /\ (j = i <=> o \in Mine(j))
      BY <2>0, <2>1, <2>m DEF Held, Mine
    <3>3. /\ Mine(j) = {} => Mine(j)' = {}
          /\ Mine(j) = {o} => Mine(j)' = {}
          /\ \A k : Mine(j) = {k} /\ k # o => \E l : Mine(j)' = {l} /\ queue'[l] = queue[k]
      BY <1>b, <2>0, <2>1, MineAfterRemove
    <3>4. CASE j = i
      <4>1. ~Held(i) /\ Mine(i) = {o} /\ queue[o].from = proc[i] /\ i \notin wrong
        BY <2>0, <3>1, <3>2, <3>4 DEF OneFor
      <4>2. ~Held(i)' /\ Mine(i)' = {} /\ i \notin wrong' /\ stage'[i] = "none"
        BY <1>b, <2>0, <3>2, <3>3, <3>4, <4>1 DEF MailTypes
      <4> QED
        BY <3>4, <4>2 DEF OneFor
    <3>5. CASE j # i
      <4>1. stage'[j] = stage[j] /\ proc'[j] = proc[j] /\ j \notin wrong'
        BY <1>b, <2>0, <3>1, <3>5 DEF MailTypes, OneFor
      <4>2. CASE Mine(j) = {}
        <5>1. Mine(j)' = {}
          BY <3>3, <4>2
        <5> QED
          BY <2>0, <3>1, <3>2, <4>1, <4>2, <5>1 DEF OneFor
      <4>3. CASE Mine(j) # {}
        <5>1. PICK k : Mine(j) = {k} /\ ~Held(j) /\ stage[j] = "recv"
          BY <3>1, <4>3 DEF OneFor
        <5>2. k # o /\ queue[k].from = proc[j]
          BY <3>1, <3>2, <3>5, <5>1 DEF OneFor
        <5>3. PICK l : Mine(j)' = {l} /\ queue'[l] = queue[k]
          BY <3>3, <5>1, <5>2
        <5>4. ~Held(j)' /\ queue'[l].from = proc'[j] /\ stage'[j] = "recv"
          BY <3>2, <4>1, <5>1, <5>2, <5>3
        <5> QED
          BY <4>1, <5>3, <5>4 DEF OneFor
      <4> QED
        BY <4>2, <4>3
    <3> QED
      BY <3>4, <3>5
  <2> QED
    BY <2>3, <2>4, <2>5 DEF MailIInv, MailOne
<1>6. ASSUME NEW i \in Pids, Interrupt(i) PROVE MailIInv'
  <2>0. /\ proc' = [proc EXCEPT ![i] = 0] /\ stage' = [stage EXCEPT ![i] = "none"]
        /\ queue' = queue /\ taken' = taken /\ stale' = stale \cup {i} /\ wrong' = wrong
    BY <1>6 DEF Interrupt
  <2>1. MailTypes'
    BY <1>b, <2>0 DEF MailTypes
  <2>2. Addressed'
    BY <1>b, <2>0 DEF Addressed
  <2>3. ASSUME NEW j \in Pids \ stale' PROVE OneFor(j)'
    <3>1. OneFor(j) /\ stage'[j] = stage[j] /\ proc'[j] = proc[j]
      BY <1>b, <2>0 DEF MailOne, MailTypes
    <3> QED
      BY <1>d, <2>0, <3>1, OneForKept
  <2> QED
    BY <2>1, <2>2, <2>3 DEF MailIInv, MailOne
<1>7. CASE UNCHANGED mailVars
  <2>0. /\ proc' = proc /\ stage' = stage /\ queue' = queue /\ taken' = taken
        /\ stale' = stale /\ wrong' = wrong
    BY <1>7 DEF mailVars
  <2>1. MailTypes' /\ Addressed'
    BY <1>b, <2>0 DEF MailTypes, Addressed
  <2>2. ASSUME NEW j \in Pids \ stale' PROVE OneFor(j)'
    <3>1. OneFor(j)
      BY <1>b, <2>0 DEF MailOne
    <3> QED
      BY <1>d, <2>0, <3>1, OneForKept
  <2> QED
    BY <2>1, <2>2 DEF MailIInv, MailOne
<1> QED
  BY <1>1, <1>2, <1>3, <1>4, <1>5, <1>6, <1>7 DEF MailNext, Sender

(* One message each, counted as the run counts them.                       *)
LEMMA MailIsKept == MailIInv => OneMessageEach /\ MailTypeOK
<1> SUFFICES ASSUME MailIInv PROVE OneMessageEach /\ MailTypeOK
  OBVIOUS
<1>1. ASSUME NEW i \in Pids \ stale
      PROVE  /\ i \notin wrong
             /\ Cardinality({k \in 1..Len(queue) : queue[k].pid = i})
                  + (IF taken # <<>> /\ taken[1].pid = i THEN 1 ELSE 0)
                  = (IF stage[i] = "recv" THEN 1 ELSE 0)
  <2>1. OneFor(i)
    BY DEF MailIInv, MailOne
  <2>2. Cardinality({}) = 0 /\ \A k : Cardinality({k}) = 1
    BY FS_EmptySet, FS_Singleton
  <2> DEFINE c == Cardinality(Mine(i))
  <2>3. /\ stage[i] # "recv" => ~Held(i) /\ c = 0
        /\ stage[i] = "recv" => (Held(i) /\ c = 0) \/ (~Held(i) /\ c = 1)
    BY <2>1, <2>2 DEF OneFor
  <2> HIDE DEF c
  <2>4. c + (IF Held(i) THEN 1 ELSE 0) = (IF stage[i] = "recv" THEN 1 ELSE 0)
    BY <2>3
  <2> QED
    BY <2>1, <2>4 DEF c, Mine, Held, OneFor
<1>2. MailTypeOK
  <2>1. MailTypes /\ queue \in Seq(Letter) /\ taken \in Seq(Letter)
    BY DEF MailIInv, MailTypes
  <2>2. \A k \in 1..Len(queue) : queue[k] \in Letter
    BY <2>1
  <2>3. \A k \in 1..Len(queue) : queue[k].mtype \in Pids \cup {1} /\ queue[k].from \in Senders
    BY <2>2 DEF Letter
  <2> QED
    BY <2>1, <2>3 DEF MailTypes, MailTypeOK
<1> QED
  BY <1>1, <1>2 DEF OneMessageEach

-----------------------------------------------------------------------------
(* FifoPoll                                                                *)

Piece == Nat \X Nat \X Nat

(* Of the queue q of a feed, of which w lines were written, those in c     *)
(* behind an unread one; those in d were closed over, and the pieces in s  *)
(* printed.  PiecesIn: parts of lines.  HeadLine: a line that met an empty *)
(* pipe lies whole at its head.  Accounted: the parts of a line are unread *)
(* or printed.                                                             *)
PiecesIn(q, w) ==
  \A e \in 1..Len(q) : q[e][1] \in 1..w /\ q[e][3] \in 1..Buffer /\ q[e][2] \in 1..q[e][3]
HeadLine(q, c) ==
  prog = "fifos" =>
    \A e \in 1..Len(q) :
      \/ q[e][1] \in c
      \/ /\ q[e][2] = e /\ q[e][3] <= Len(q)
         /\ \A x \in 1..q[e][3] : q[x] = <<q[e][1], x, q[e][3]>>
Accounted(q, w, c, d, s) ==
  \A k \in 1..w :
    \/ k \in d
    \/ prog = "fifos" /\ k \in c
    \/ \E n \in 1..Buffer : \A p \in 1..n :
         <<k, p, n>> \in s \/ \E e \in 1..Len(q) : q[e] = <<k, p, n>>

(* A line is put behind what is in a pipe.                                 *)
LEMMA LineAdded ==
  ASSUME NEW q \in Seq(Piece), NEW w \in Nat, NEW n \in 1..Buffer
  PROVE  LET q2 == q \o [p \in 1..n |-> <<w + 1, p, n>>]
         IN  /\ q2 \in Seq(Piece) /\ Len(q2) = Len(q) + n
             /\ \A e \in 1..Len(q) : q2[e] = q[e]
             /\ \A p \in 1..n : q2[Len(q) + p] = <<w + 1, p, n>>
<1> DEFINE r == [p \in 1..n |-> <<w + 1, p, n>>]
<1>0. n \in Nat
  BY PollConstants
<1>1. r \in Seq(Piece) /\ Len(r) = n /\ \A p \in 1..n : r[p] = <<w + 1, p, n>>
  <2>1. \A p \in 1..n : <<w + 1, p, n>> \in Piece
    BY <1>0 DEF Piece
  <2> QED
    BY <1>0, <2>1
<1> HIDE DEF r
<1>2. /\ q \o r \in Seq(Piece) /\ Len(q \o r) = Len(q) + n
      /\ \A e \in 1..Len(q) + n : (q \o r)[e] = IF e <= Len(q) THEN q[e] ELSE r[e - Len(q)]
  BY <1>1, ConcatProperties
<1> DEFINE L == Len(q)
<1>3. L \in Nat
  OBVIOUS
<1> HIDE DEF L
<1>4. \A e \in 1..L : (q \o r)[e] = q[e]
  BY <1>0, <1>2, <1>3 DEF L
<1>5. ASSUME NEW p \in 1..n PROVE (q \o r)[L + p] = <<w + 1, p, n>>
  <2>1. L + p \in 1..L + n /\ ~(L + p <= L) /\ (L + p) - L = p
    BY <1>0, <1>3
  <2>2. (q \o r)[L + p] = IF L + p <= L THEN q[L + p] ELSE r[(L + p) - L]
    BY <2>1, <1>2 DEF L
  <2> QED
    BY <2>1, <2>2, <1>1
<1> QED
  BY <1>2, <1>4, <1>5 DEF r, L

(* The first m parts are taken out of a pipe.                              *)
LEMMA PartsTaken ==
  ASSUME NEW q \in Seq(Piece), NEW m \in 1..Len(q)
  PROVE  LET r  == SubSeq(q, 1, m)
             q2 == SubSeq(q, m + 1, Len(q))
         IN  /\ r \in Seq(Piece) /\ Len(r) = m /\ \A e \in 1..m : r[e] = q[e]
             /\ q2 \in Seq(Piece) /\ Len(q2) = Len(q) - m
             /\ \A e \in 1..Len(q) - m : q2[e] = q[m + e]
<1> DEFINE L == Len(q)
           r  == SubSeq(q, 1, m)
           q2 == SubSeq(q, m + 1, L)
<1>1. L \in Nat /\ m \in 1..L /\ m \in Nat /\ \A e \in 1..L : q[e] \in Piece
  OBVIOUS
<1> HIDE DEF L
<1>3. r \in Seq(Piece) /\ Len(r) = m /\ \A e \in 1..m : r[e] = q[e]
  <2>1. 1 \in Int /\ m \in Int /\ \A e \in 1..m : q[e] \in Piece
    BY <1>1
  <2>2. /\ r \in Seq(Piece) /\ Len(r) = (IF 1 <= m THEN m - 1 + 1 ELSE 0)
        /\ \A e \in 1..m - 1 + 1 : r[e] = q[1 + e - 1]
    BY <2>1, SubSeqProperties
  <2> HIDE DEF r
  <2> QED
    BY <2>2, <1>1
<1>4. q2 \in Seq(Piece) /\ Len(q2) = L - m /\ \A e \in 1..L - m : q2[e] = q[m + e]
  <2>1. m + 1 \in Int /\ L \in Int /\ \A e \in m + 1..L : q[e] \in Piece
    BY <1>1
  <2>2. /\ q2 \in Seq(Piece) /\ Len(q2) = (IF m + 1 <= L THEN L - (m + 1) + 1 ELSE 0)
        /\ \A e \in 1..L - (m + 1) + 1 : q2[e] = q[(m + 1) + e - 1]
    BY <2>1, SubSeqProperties
  <2> HIDE DEF q2
  <2> QED
    BY <2>2, <1>1
<1> QED
  BY <1>3, <1>4 DEF L

(* A writer writes a line: the pipe stays in order and is accounted for.   *)
LEMMA LineWritten ==
  ASSUME NEW q, NEW q2, NEW L \in Nat, Len(q) = L, NEW w \in Nat, NEW n \in 1..Buffer,
         Len(q2) = L + n, \A e \in 1..L : q2[e] = q[e],
         \A p \in 1..n : q2[L + p] = <<w + 1, p, n>>,
         NEW c, NEW c2, c \subseteq c2, L # 0 => w + 1 \in c2, NEW d, NEW s,
         PiecesIn(q, w), HeadLine(q, c), Accounted(q, w, c, d, s)
  PROVE  PiecesIn(q2, w + 1) /\ HeadLine(q2, c2) /\ Accounted(q2, w + 1, c2, d, s)
<1>0. n \in Nat /\ n >= 1 /\ n <= Buffer /\ Buffer \in Nat
  BY PollConstants
<1>1. \A e \in 1..L + n : e \in 1..L \/ \E p \in 1..n : e = L + p
  <2>1. ASSUME NEW e \in 1..L + n, e \notin 1..L PROVE e - L \in 1..n /\ e = L + (e - L)
    BY <1>0, <2>1
  <2> QED
    BY <2>1
<1>2. \A e \in 1..L : q[e][1] \in 1..w /\ q[e][3] \in 1..Buffer /\ q[e][2] \in 1..q[e][3]
  BY DEF PiecesIn
<1>5. PiecesIn(q2, w + 1)
  <2> SUFFICES ASSUME NEW e \in 1..L + n
               PROVE  q2[e][1] \in 1..w + 1 /\ q2[e][3] \in 1..Buffer /\ q2[e][2] \in 1..q2[e][3]
    BY DEF PiecesIn
  <2>1. CASE e \in 1..L
    <3>1. q2[e] = q[e] /\ q[e][1] \in 1..w + 1 /\ q[e][3] \in 1..Buffer /\ q[e][2] \in 1..q[e][3]
      BY <2>1, <1>2
    <3> QED
      BY <3>1
  <2>2. CASE e \notin 1..L
    <3>1. PICK p \in 1..n : e = L + p
      BY <2>2, <1>1
    <3>2. q2[e] = <<w + 1, p, n>>
      BY <3>1
    <3>3. q2[e][1] = w + 1 /\ q2[e][2] = p /\ q2[e][3] = n
      BY <3>2
    <3> QED
      BY <3>3, <1>0
  <2> QED
    BY <2>1, <2>2
<1>6. HeadLine(q2, c2)
  <2> SUFFICES ASSUME prog = "fifos", NEW e \in 1..L + n, q2[e][1] \notin c2
               PROVE  /\ q2[e][2] = e /\ q2[e][3] <= L + n
                      /\ \A x \in 1..q2[e][3] : q2[x] = <<q2[e][1], x, q2[e][3]>>
    BY DEF HeadLine
  <2>1. CASE e \in 1..L
    <3>1. q2[e] = q[e] /\ q[e][1] \notin c
      BY <2>1
    <3>2. /\ q[e][2] = e /\ q[e][3] <= L
          /\ \A x \in 1..q[e][3] : q[x] = <<q[e][1], x, q[e][3]>>
      BY <2>1, <3>1 DEF HeadLine
    <3>3. q[e][3] \in Nat
      BY <2>1, <1>0, <1>2
    <3>4. q[e][3] <= L + n
      BY <3>2, <3>3, <1>0
    <3>5. ASSUME NEW x \in 1..q[e][3] PROVE q2[x] = <<q[e][1], x, q[e][3]>>
      <4>1. x \in 1..L
        BY <3>2, <3>3
      <4> QED
        BY <4>1, <3>2
    <3> QED
      BY <3>1, <3>2, <3>4, <3>5
  <2>2. CASE e \notin 1..L
    <3>1. PICK p \in 1..n : e = L + p
      BY <2>2, <1>1
    <3>2. q2[e] = <<w + 1, p, n>>
      BY <3>1
    <3>3. q2[e][1] = w + 1 /\ q2[e][2] = p /\ q2[e][3] = n
      BY <3>2
    <3>4. L = 0
      BY <3>3
    <3>5. \A x \in 1..n : q2[x] = <<w + 1, x, n>>
      BY <3>4
    <3> QED
      BY <3>1, <3>3, <3>4, <3>5, <1>0
  <2> QED
    BY <2>1, <2>2
<1>7. Accounted(q2, w + 1, c2, d, s)
  <2>1. ASSUME NEW k \in 1..w + 1, k \notin d, ~(prog = "fifos" /\ k \in c2)
        PROVE  \E m \in 1..Buffer : \A p \in 1..m :
                 <<k, p, m>> \in s \/ \E e \in 1..L + n : q2[e] = <<k, p, m>>
    <3>1. CASE k = w + 1
      <4>1. ASSUME NEW p \in 1..n PROVE \E e \in 1..L + n : q2[e] = <<k, p, n>>
        <5>1. L + p \in 1..L + n
          BY <1>0
        <5> QED
          BY <3>1, <5>1
      <4> QED
        BY <4>1
    <3>2. CASE k # w + 1
      <4>1. k \in 1..w /\ ~(prog = "fifos" /\ k \in c)
        BY <2>1, <3>2
      <4>2. PICK m \in 1..Buffer : \A p \in 1..m :
              <<k, p, m>> \in s \/ \E e \in 1..L : q[e] = <<k, p, m>>
        BY <2>1, <4>1 DEF Accounted
      <4>3. \A e \in 1..L : e \in 1..L + n
        BY <1>0
      <4> QED
        BY <4>2, <4>3
    <3> QED
      BY <3>1, <3>2
  <2> QED
    BY <2>1 DEF Accounted
<1> QED
  BY <1>5, <1>6, <1>7

(* r is what a read takes of q, of length L, and q2 what it leaves.        *)
ReadOff(q, L, m, r, q2) ==
  /\ L \in Nat /\ Len(q) = L /\ m \in 1..L /\ m <= Buffer
  /\ m = L \/ m = Buffer
  /\ Len(r) = m /\ \A e \in 1..m : r[e] = q[e]
  /\ Len(q2) = L - m /\ \A e \in 1..L - m : q2[e] = q[m + e]

(* A read prints what it takes of a line that met an empty pipe.           *)
LEMMA PiecesRead ==
  ASSUME NEW q, NEW L, NEW m, NEW r, NEW q2, ReadOff(q, L, m, r, q2),
         NEW w \in Nat, NEW c, NEW d, NEW s,
         PiecesIn(q, w), HeadLine(q, c), Accounted(q, w, c, d, s)
  PROVE  PiecesIn(q2, w) /\ HeadLine(q2, c) /\ Accounted(q2, w, c, d, s \cup String(r))
<1>a. /\ L \in Nat /\ Len(q) = L /\ m \in 1..L /\ m <= Buffer
      /\ m = L \/ m = Buffer
      /\ Len(r) = m /\ \A e \in 1..m : r[e] = q[e]
      /\ Len(q2) = L - m /\ \A e \in 1..L - m : q2[e] = q[m + e]
  BY DEF ReadOff
<1> USE <1>a
<1>0. Buffer \in Nat /\ Buffer >= 1 /\ m \in Nat
  BY PollConstants
<1>2. \A e \in 1..L : q[e][1] \in 1..w /\ q[e][3] \in 1..Buffer /\ q[e][2] \in 1..q[e][3]
  BY DEF PiecesIn
<1>5. ASSUME NEW e \in 1..L - m PROVE m + e \in 1..L /\ q2[e] = q[m + e]
  BY <1>0
<1>6. PiecesIn(q2, w)
  BY <1>2, <1>5 DEF PiecesIn
<1>7. HeadLine(q2, c)
  <2> SUFFICES ASSUME prog = "fifos", NEW e \in 1..L - m, q2[e][1] \notin c PROVE FALSE
    BY DEF HeadLine
  <2>1. m + e \in 1..L /\ q[m + e][1] \notin c
    BY <1>5
  <2>2. q[m + e][2] = m + e /\ q[m + e][3] <= L
    BY <2>1 DEF HeadLine
  <2>3. q[m + e][3] \in 1..Buffer /\ q[m + e][2] \in 1..q[m + e][3]
    BY <2>1, <1>2
  <2> QED
    BY <2>2, <2>3, <1>0
<1>8. Accounted(q2, w, c, d, s \cup String(r))
  <2>a. ASSUME NEW k \in 1..w, k \notin d, ~(prog = "fifos" /\ k \in c)
        PROVE  \E n \in 1..Buffer : \A p \in 1..n :
                 <<k, p, n>> \in s \cup String(r) \/ \E e \in 1..L - m : q2[e] = <<k, p, n>>
    <3>1. PICK n \in 1..Buffer : \A p \in 1..n :
            <<k, p, n>> \in s \/ \E e \in 1..L : q[e] = <<k, p, n>>
      BY <2>a DEF Accounted
    <3>2. ASSUME NEW p \in 1..n, NEW e \in 1..L, q[e] = <<k, p, n>>, e <= m
          PROVE  <<k, p, n>> \in String(r)
      <4>1. e \in 1..m /\ r[e] = <<k, p, n>> /\ e \in 1..Len(r)
        BY <3>2, <1>0
      <4>2. prog = "fifos" => \A x \in 1..e - 1 : r[x][2] < r[x][3]
        <5> SUFFICES ASSUME prog = "fifos", NEW x \in 1..e - 1 PROVE r[x][2] < r[x][3]
          OBVIOUS
        <5>1. q[e][1] \notin c /\ q[e][1] = k /\ q[e][2] = p /\ q[e][3] = n
          BY <3>2, <2>a
        <5>2. p = e /\ \A y \in 1..n : q[y] = <<k, y, n>>
          BY <5>1 DEF HeadLine
        <5>3. x \in 1..n /\ x < n /\ x \in 1..m
          BY <5>2, <3>2, <1>0
        <5>4. r[x] = <<k, x, n>>
          BY <5>2, <5>3
        <5>5. r[x][2] = x /\ r[x][3] = n
          BY <5>4
        <5> QED
          BY <5>3, <5>5
      <4> QED
        BY <4>1, <4>2 DEF String
    <3>3. ASSUME NEW p \in 1..n, NEW e \in 1..L, q[e] = <<k, p, n>>, ~(e <= m)
          PROVE  \E x \in 1..L - m : q2[x] = <<k, p, n>>
      <4>1. e - m \in 1..L - m /\ m + (e - m) = e
        BY <3>3, <1>0
      <4> QED
        BY <3>3, <4>1
    <3>4. ASSUME NEW p \in 1..n
          PROVE  <<k, p, n>> \in s \cup String(r) \/ \E e \in 1..L - m : q2[e] = <<k, p, n>>
      BY <3>1, <3>2, <3>3
    <3> QED
      BY <3>4
  <2> QED
    BY <2>a, ZenonT(30) DEF Accounted
<1> QED
  BY <1>6, <1>7, <1>8

(* p1 closes a feed at a hang-up: what was in the pipe is dropped.         *)
LEMMA FeedClosed ==
  ASSUME NEW q \in Seq(Piece), NEW w \in Nat, NEW c, NEW d, NEW s,
         PiecesIn(q, w), Accounted(q, w, c, d, s), NEW d2, d2 = d \cup {u[1] : u \in ToSet(q)}
  PROVE  /\ PiecesIn(<<>>, w) /\ HeadLine(<<>>, c) /\ Accounted(<<>>, w, c, d2, s)
         /\ d \subseteq 1..w => d2 \subseteq 1..w
         /\ q = <<>> => d2 = d
<1>0. Len(q) \in Nat /\ Len(<<>>) = 0 /\ 1..0 = {}
  OBVIOUS
<1>1. \A u : u \in ToSet(q) <=> \E e \in 1..Len(q) : u = q[e]
  BY DEF ToSet
<1>2. \A k : k \in d2 <=> k \in d \/ \E e \in 1..Len(q) : k = q[e][1]
  BY <1>1
<1>3. PiecesIn(<<>>, w) /\ HeadLine(<<>>, c)
  BY <1>0 DEF PiecesIn, HeadLine
<1>4. d \subseteq 1..w => d2 \subseteq 1..w
  BY <1>2 DEF PiecesIn
<1>5. q = <<>> => d2 = d
  BY <1>2, <1>0
<1>6. Accounted(<<>>, w, c, d2, s)
  <2>1. ASSUME NEW k \in 1..w, k \notin d2, ~(prog = "fifos" /\ k \in c)
        PROVE  \E n \in 1..Buffer : \A p \in 1..n : <<k, p, n>> \in s
    <3>1. k \notin d /\ \A e \in 1..Len(q) : k # q[e][1]
      BY <2>1, <1>2
    <3>2. PICK n \in 1..Buffer : \A p \in 1..n :
            <<k, p, n>> \in s \/ \E e \in 1..Len(q) : q[e] = <<k, p, n>>
      BY <2>1, <3>1 DEF Accounted
    <3>3. ASSUME NEW p \in 1..n, NEW e \in 1..Len(q), q[e] = <<k, p, n>> PROVE FALSE
      <4>1. q[e][1] = k
        BY <3>3
      <4> QED
        BY <4>1, <3>1
    <3> QED
      BY <3>2, <3>3
  <2> QED
    BY <2>1 DEF Accounted
<1> QED
  BY <1>3, <1>4, <1>5, <1>6

(* The feeds whose descriptor p1 holds.                                    *)
OpenFeeds == {i \in Feeds : fd[i]}

PollTypes ==
  /\ prog \in Programs /\ p1at \in {"open", "loop", "end"} /\ next \in Feeds
  /\ rev \in [Feeds -> SUBSET {"IN", "HUP"}]
  /\ writer \in [Feeds -> {"none", "opening", "typing", "closed", "killed"}]
  /\ opens \in [Feeds -> Nat] /\ written \in [Feeds -> Nat] /\ fifo \in [Feeds -> Seq(Piece)]
  /\ DOMAIN shown = Feeds /\ DOMAIN crowded = Feeds /\ DOMAIN dropped = Feeds

(* While p1 opens the FIFOs nothing is polled, and it then counts what it  *)
(* has open.                                                               *)
Counted ==
  /\ DOMAIN fd = Feeds
  /\ p1at = "open" => /\ nopenfds = 3 /\ \A k \in 1..next - 1 : k \in OpenFeeds
                      /\ \A i \in Feeds : rev[i] = {} /\ dropped[i] = {}
  /\ p1at # "open" => nopenfds = Cardinality(OpenFeeds)

(* A writer whose open had no reader, or who writes to none, is not the    *)
(* first of its FIFO.                                                      *)
Again(i) == opens[i] > 1
Ends(i) ==
  /\ writer[i] # "none" => opens[i] >= 1
  /\ i \in OpenFeeds => writer[i] # "none" /\ (writer[i] = "opening" => Again(i))
  /\ i \notin OpenFeeds => (writer[i] = "typing" => Again(i))
  /\ writer[i] = "killed" => Again(i)

(* What revents and the dropped lines tell is still true when p1 acts:     *)
(* the writer has left, or it is a later one.                              *)
Marks(i) ==
  /\ rev[i] # {} => i \in OpenFeeds
  /\ "HUP" \in rev[i] => HangsUp(i) /\ (writer[i] = "closed" \/ Again(i))
  /\ "IN" \in rev[i] /\ fifo[i] = <<>> => ~HangsUp(i) /\ writer[i] = "closed"
  /\ dropped[i] # {} => HangsUp(i) /\ i \notin OpenFeeds /\ (writer[i] = "closed" \/ Again(i))

LinesOf(i) ==
  /\ PiecesIn(fifo[i], written[i]) /\ HeadLine(fifo[i], crowded[i])
  /\ Accounted(fifo[i], written[i], crowded[i], dropped[i], shown[i])
  /\ crowded[i] \subseteq 1..written[i] /\ dropped[i] \subseteq 1..written[i]

Feed(i) == Ends(i) /\ Marks(i) /\ LinesOf(i)

PollIInv == PollTypes /\ Counted /\ \A i \in Feeds : Feed(i)


(* A feed of which a step changes nothing stays as it is.                  *)
LEMMA FeedKept ==
  ASSUME NEW i \in Feeds, Feed(i), prog' = prog, OpenFeeds' = OpenFeeds, rev'[i] = rev[i],
         writer'[i] = writer[i], opens'[i] = opens[i], written'[i] = written[i],
         fifo'[i] = fifo[i], shown'[i] = shown[i], crowded'[i] = crowded[i],
         dropped'[i] = dropped[i]
  PROVE  Feed(i)'
<1>1. Ends(i)'
  BY DEF Feed, Ends, Again
<1>2. Marks(i)'
  BY DEF Feed, Marks, Again, HangsUp
<1>3. PiecesIn(fifo[i], written[i])'
  BY DEF Feed, LinesOf, PiecesIn
<1>4. HeadLine(fifo[i], crowded[i])'
  BY DEF Feed, LinesOf, HeadLine
<1>5. Accounted(fifo[i], written[i], crowded[i], dropped[i], shown[i])'
  BY DEF Feed, LinesOf, Accounted
<1>6. crowded'[i] \subseteq 1..written'[i] /\ dropped'[i] \subseteq 1..written'[i]
  BY DEF Feed, LinesOf
<1> QED
  BY <1>1, <1>2, <1>3, <1>4, <1>5, <1>6 DEF Feed, LinesOf

(* So do the lines of a feed of which a step changes only the control.     *)
LEMMA LinesKept ==
  ASSUME NEW i \in Feeds, LinesOf(i), prog' = prog, written'[i] = written[i],
         fifo'[i] = fifo[i], shown'[i] = shown[i], crowded'[i] = crowded[i],
         dropped'[i] = dropped[i]
  PROVE  LinesOf(i)'
<1>3. PiecesIn(fifo[i], written[i])'
  BY DEF LinesOf, PiecesIn
<1>4. HeadLine(fifo[i], crowded[i])'
  BY DEF LinesOf, HeadLine
<1>5. Accounted(fifo[i], written[i], crowded[i], dropped[i], shown[i])'
  BY DEF LinesOf, Accounted
<1> QED
  BY <1>3, <1>4, <1>5 DEF LinesOf

(* There are three feeds.                                                  *)
LEMMA FeedsCount == IsFiniteSet(OpenFeeds) /\ Cardinality(Feeds) = 3
<1>a. 1 \in Int /\ 3 \in Int
  OBVIOUS
<1>0. IsFiniteSet(1..3) /\ Cardinality(1..3) = IF 1 > 3 THEN 0 ELSE 3 - 1 + 1
  BY <1>a, FS_Interval, Zenon
<1>1. IsFiniteSet(1..3) /\ Cardinality(1..3) = 3
  BY <1>0
<1> QED
  BY <1>1, FS_Subset DEF OpenFeeds, Feeds

(* The poll programs start in the invariant.                               *)
LEMMA PollStarts == PollInit => PollIInv
<1> SUFFICES ASSUME PollInit PROVE PollIInv
  OBVIOUS
<1>0. Feeds = {1, 2, 3} /\ Buffer \in Nat \ {0}
  BY PollConstants DEF Feeds
<1>1. prog = "fifos" \/ prog = "mixed"
  BY PollConstants DEF PollInit
<1>2. prog = "fifos" => OpenFeeds = {}
  <2>1. prog = "fifos" => \A i \in Feeds : ~fd[i]
    BY DEF PollInit
  <2> QED
    BY <2>1 DEF OpenFeeds
<1>3. prog = "mixed" => OpenFeeds = Feeds
  <2>1. prog = "mixed" => \A i \in Feeds : fd[i]
    BY DEF PollInit
  <2> QED
    BY <2>1 DEF OpenFeeds
<1>4. DOMAIN fd = Feeds /\ DOMAIN shown = Feeds /\ DOMAIN crowded = Feeds /\ DOMAIN dropped = Feeds
  BY DEF PollInit
<1>5. \A i \in Feeds : rev[i] = {} /\ shown[i] = {} /\ crowded[i] = {} /\ dropped[i] = {}
  BY DEF PollInit
<1>6. prog = "mixed" => fifo[3] = <<<<1, 1, 1>>>> /\ written[3] = 1
  BY <1>0 DEF PollInit
<1>7. \A i \in Feeds : (prog = "mixed" /\ i = 3) \/ (fifo[i] = <<>> /\ written[i] = 0)
  BY DEF PollInit
<1>8. PollTypes
  <2>1. prog \in Programs /\ p1at \in {"open", "loop", "end"} /\ next \in Feeds
    BY <1>0 DEF PollInit
  <2>2. rev \in [Feeds -> SUBSET {"IN", "HUP"}]
    BY DEF PollInit
  <2>3. writer \in [Feeds -> {"none", "opening", "typing", "closed", "killed"}]
    BY DEF PollInit
  <2>4. opens \in [Feeds -> Nat] /\ written \in [Feeds -> Nat]
    BY DEF PollInit
  <2>5. fifo \in [Feeds -> Seq(Piece)]
    <3>1. <<1, 1, 1>> \in Piece
      BY DEF Piece
    <3>2. <<<<1, 1, 1>>>> \in Seq(Piece) /\ <<>> \in Seq(Piece)
      BY <3>1
    <3> QED
      BY <3>2 DEF PollInit
  <2> QED
    BY <2>1, <2>2, <2>3, <2>4, <2>5, <1>4 DEF PollTypes
<1>9. Counted
  <2>1. prog = "fifos" => p1at = "open"
    BY DEF PollInit
  <2>2. prog = "mixed" => p1at = "loop"
    BY DEF PollInit
  <2>3. next = 1 /\ nopenfds = 3 /\ 1..1 - 1 = {}
    BY DEF PollInit
  <2> QED
    BY <2>1, <2>2, <2>3, <1>1, <1>3, <1>4, <1>5, FeedsCount DEF Counted
<1>10. ASSUME NEW i \in Feeds PROVE Feed(i)
  <2>1. prog = "fifos" => writer[i] = "none" /\ opens[i] = 0
    BY DEF PollInit
  <2>2. prog = "mixed" => writer[i] \in {"typing", "closed"} /\ opens[i] = 1
    BY DEF PollInit
  <2>3. Ends(i)
    BY <2>1, <2>2, <1>1, <1>2, <1>3 DEF Ends
  <2>4. Marks(i)
    BY <1>5 DEF Marks
  <2>5. CASE fifo[i] = <<>> /\ written[i] = 0
    <3>1. Len(fifo[i]) = 0 /\ 1..0 = {}
      BY <2>5
    <3> QED
      BY <2>3, <2>4, <2>5, <3>1, <1>5 DEF Feed, LinesOf, PiecesIn, HeadLine, Accounted
  <2>6. CASE prog = "mixed" /\ i = 3
    <3> DEFINE q == fifo[i]
    <3>1. q = <<<<1, 1, 1>>>>
      BY <2>6, <1>6
    <3>2. Len(q) = 1 /\ q[1] = <<1, 1, 1>>
      BY <3>1
    <3>3. q[1][1] = 1 /\ q[1][2] = 1 /\ q[1][3] = 1
      BY <3>2
    <3>4. 1 \in 1..Buffer
      BY <1>0
    <3> HIDE DEF q
    <3>5. PiecesIn(q, 1)
      BY <3>2, <3>3, <3>4 DEF PiecesIn
    <3>6. Accounted(q, 1, crowded[i], dropped[i], shown[i])
      <4>1. \A p \in 1..1 : <<1, p, 1>> = q[1]
        BY <3>2
      <4>2. \E n \in 1..Buffer : \A p \in 1..n : \E e \in 1..1 : q[e] = <<1, p, n>>
        BY <3>4, <4>1
      <4>3. \A k \in 1..1 : k = 1
        OBVIOUS
      <4> QED
        BY <4>2, <4>3, <3>2 DEF Accounted
    <3>7. HeadLine(q, crowded[i])
      BY <2>6 DEF HeadLine
    <3> QED
      BY <3>5, <3>6, <3>7, <2>3, <2>4, <2>6, <1>5, <1>6 DEF Feed, LinesOf, q
  <2> QED
    BY <2>5, <2>6, <1>7
<1> QED
  BY <1>8, <1>9, <1>10 DEF PollIInv


(* Every step of the poll programs keeps the invariant.                    *)
LEMMA PollStep == PollIInv /\ [PollNext]_pollVars => PollIInv'
<1> SUFFICES ASSUME PollIInv, [PollNext]_pollVars PROVE PollIInv'
  OBVIOUS
<1>0. PollTypes /\ Counted /\ \A i \in Feeds : Feed(i)
  BY DEF PollIInv
<1>t. /\ prog \in Programs /\ p1at \in {"open", "loop", "end"} /\ next \in Feeds
      /\ rev \in [Feeds -> SUBSET {"IN", "HUP"}]
      /\ writer \in [Feeds -> {"none", "opening", "typing", "closed", "killed"}]
      /\ opens \in [Feeds -> Nat] /\ written \in [Feeds -> Nat] /\ fifo \in [Feeds -> Seq(Piece)]
      /\ DOMAIN shown = Feeds /\ DOMAIN crowded = Feeds /\ DOMAIN dropped = Feeds
  BY <1>0 DEF PollTypes
<1>f. Feeds = {1, 2, 3} /\ Buffer \in Nat \ {0}
  BY PollConstants DEF Feeds
<1>d. DOMAIN fd = Feeds
  BY <1>0 DEF Counted
<1>1. CASE UNCHANGED pollVars
  <2>1. /\ prog' = prog /\ p1at' = p1at /\ next' = next /\ rev' = rev /\ writer' = writer
        /\ opens' = opens /\ written' = written /\ fifo' = fifo /\ shown' = shown
        /\ crowded' = crowded /\ dropped' = dropped /\ nopenfds' = nopenfds
    BY <1>1 DEF pollVars
  <2>2. OpenFeeds' = OpenFeeds /\ DOMAIN fd' = Feeds
    BY <1>1, <1>d DEF OpenFeeds, pollVars
  <2>3. PollTypes'
    BY <1>t, <2>1 DEF PollTypes
  <2>4. Counted'
    BY <1>0, <2>1, <2>2 DEF Counted
  <2>5. \A i \in Feeds : Feed(i)'
    BY <1>0, <2>1, <2>2, FeedKept
  <2> QED
    BY <2>3, <2>4, <2>5 DEF PollIInv
<1>2. ASSUME NEW i \in Feeds, StartWriter(i) PROVE PollIInv'
  <2>1. /\ prog' = prog /\ p1at' = p1at /\ next' = next /\ rev' = rev
        /\ written' = written /\ fifo' = fifo /\ shown' = shown
        /\ crowded' = crowded /\ dropped' = dropped /\ nopenfds' = nopenfds
        /\ writer[i] \in {"none", "closed", "killed"} /\ prog = "fifos"
        /\ writer' = [writer EXCEPT ![i] = "opening"] /\ opens' = [opens EXCEPT ![i] = @ + 1]
    BY <1>2 DEF StartWriter, p1Vars
  <2>2. OpenFeeds' = OpenFeeds /\ DOMAIN fd' = Feeds
    BY <1>2, <1>d DEF OpenFeeds, StartWriter, p1Vars
  <2>3. PollTypes'
    BY <1>t, <2>1 DEF PollTypes
  <2>4. Counted'
    BY <1>0, <2>1, <2>2 DEF Counted
  <2>5. ASSUME NEW j \in Feeds, j # i PROVE Feed(j)'
    <3>1. writer'[j] = writer[j] /\ opens'[j] = opens[j]
      BY <2>5, <2>1, <1>t
    <3> QED
      BY <1>0, <2>1, <2>2, <3>1, FeedKept
  <2>6. Feed(i)'
    <3>1. writer'[i] = "opening" /\ opens'[i] = opens[i] + 1 /\ opens[i] \in Nat
      BY <2>1, <1>t
    <3>2. Ends(i) /\ Marks(i) /\ LinesOf(i)
      BY <1>0 DEF Feed
    <3>3. Ends(i)'
      BY <3>1, <3>2, <2>1, <2>2 DEF Ends, Again
    <3>4. Marks(i)'
      BY <3>1, <3>2, <2>1, <2>2 DEF Marks, Ends, Again, HangsUp
    <3>5. LinesOf(i)'
      BY <3>2, <2>1, LinesKept
    <3> QED
      BY <3>3, <3>4, <3>5 DEF Feed
  <2> QED
    BY <2>3, <2>4, <2>5, <2>6 DEF PollIInv
<1>3. ASSUME NEW i \in Feeds, OpenWriter(i) \/ CloseWriter(i) PROVE PollIInv'
  <2>1. /\ prog' = prog /\ p1at' = p1at /\ next' = next /\ rev' = rev /\ opens' = opens
        /\ written' = written /\ fifo' = fifo /\ shown' = shown
        /\ crowded' = crowded /\ dropped' = dropped /\ nopenfds' = nopenfds
    BY <1>3 DEF OpenWriter, CloseWriter, p1Vars
  <2>2. OpenFeeds' = OpenFeeds /\ DOMAIN fd' = Feeds
    BY <1>3, <1>d DEF OpenFeeds, OpenWriter, CloseWriter, p1Vars
  <2>w. \/ /\ writer[i] = "opening" /\ i \in OpenFeeds
           /\ writer' = [writer EXCEPT ![i] = "typing"]
        \/ /\ writer[i] = "typing"
           /\ writer' = [writer EXCEPT ![i] = "closed"]
    BY <1>3 DEF OpenWriter, CloseWriter, OpenFeeds
  <2>3. PollTypes'
    BY <1>t, <2>1, <2>w DEF PollTypes
  <2>4. Counted'
    BY <1>0, <2>1, <2>2 DEF Counted
  <2>5. ASSUME NEW j \in Feeds, j # i PROVE Feed(j)'
    <3>1. writer'[j] = writer[j]
      BY <2>5, <2>w, <1>t
    <3> QED
      BY <1>0, <2>1, <2>2, <3>1, FeedKept
  <2>6. Feed(i)'
    <3>1. \/ writer[i] = "opening" /\ i \in OpenFeeds /\ writer'[i] = "typing"
          \/ writer[i] = "typing" /\ writer'[i] = "closed"
      BY <2>w, <1>t
    <3>2. Ends(i) /\ Marks(i) /\ LinesOf(i)
      BY <1>0 DEF Feed
    <3>3. Ends(i)'
      BY <3>1, <3>2, <2>1, <2>2 DEF Ends, Again
    <3>4. Marks(i)'
      BY <3>1, <3>2, <2>1, <2>2 DEF Marks, Ends, Again, HangsUp
    <3>5. LinesOf(i)'
      BY <3>2, <2>1, LinesKept
    <3> QED
      BY <3>3, <3>4, <3>5 DEF Feed
  <2> QED
    BY <2>3, <2>4, <2>5, <2>6 DEF PollIInv
<1>4. ASSUME NEW i \in Feeds, NEW n \in 1..Buffer, WriteLine(i, n) PROVE PollIInv'
  <2>1. /\ prog' = prog /\ p1at' = p1at /\ next' = next /\ rev' = rev /\ opens' = opens
        /\ shown' = shown /\ dropped' = dropped /\ nopenfds' = nopenfds /\ writer[i] = "typing"
    BY <1>4 DEF WriteLine, p1Vars
  <2>2. OpenFeeds' = OpenFeeds /\ DOMAIN fd' = Feeds
    BY <1>4, <1>d DEF OpenFeeds, WriteLine, p1Vars
  <2>4. Counted'
    BY <1>0, <2>1, <2>2 DEF Counted
  <2>a. Ends(i) /\ Marks(i) /\ LinesOf(i)
    BY <1>0 DEF Feed
  <2>5. CASE ~fd[i]
    <3>1. /\ writer' = [writer EXCEPT ![i] = "killed"]
          /\ written' = written /\ fifo' = fifo /\ crowded' = crowded
      BY <1>4, <2>5 DEF WriteLine
    <3>2. i \notin OpenFeeds
      BY <2>5 DEF OpenFeeds
    <3>3. PollTypes'
      BY <1>t, <2>1, <3>1 DEF PollTypes
    <3>4. ASSUME NEW j \in Feeds, j # i PROVE Feed(j)'
      <4>1. writer'[j] = writer[j]
        BY <3>4, <3>1, <1>t
      <4> QED
        BY <1>0, <2>1, <2>2, <3>1, <4>1, FeedKept
    <3>5. writer'[i] = "killed"
      BY <3>1, <1>t
    <3>6. Ends(i)'
      BY <3>2, <3>5, <2>1, <2>2, <2>a DEF Ends, Again
    <3>7. Marks(i)'
      BY <3>1, <3>2, <3>5, <2>1, <2>2, <2>a DEF Marks, Ends, Again, HangsUp
    <3>8. LinesOf(i)'
      BY <3>1, <2>a, <2>1, LinesKept
    <3> QED
      BY <3>3, <3>4, <3>6, <3>7, <3>8, <2>4 DEF PollIInv, Feed
  <2>6. CASE fd[i]
    <3> DEFINE q == fifo[i]  w == written[i]  c == crowded[i]
               q2 == q \o [p \in 1..n |-> <<w + 1, p, n>>]
               c2 == IF q = <<>> THEN c ELSE c \cup {w + 1}
    <3>1. /\ written' = [written EXCEPT ![i] = w + 1] /\ fifo' = [fifo EXCEPT ![i] = q2]
          /\ crowded' = [crowded EXCEPT ![i] = c2] /\ writer' = writer
      BY <1>4, <2>6 DEF WriteLine
    <3>2. i \in OpenFeeds
      BY <2>6 DEF OpenFeeds
    <3>q. q \in Seq(Piece) /\ w \in Nat /\ Len(q) \in Nat
      BY <1>t
    <3>3. /\ q2 \in Seq(Piece) /\ Len(q2) = Len(q) + n
          /\ \A e \in 1..Len(q) : q2[e] = q[e]
          /\ \A p \in 1..n : q2[Len(q) + p] = <<w + 1, p, n>>
      BY <3>q, LineAdded
    <3>4. c \subseteq c2 /\ (Len(q) # 0 => w + 1 \in c2) /\ c2 \subseteq c \cup {w + 1}
      BY <3>q
    <3>v. written'[i] = w + 1 /\ fifo'[i] = q2 /\ crowded'[i] = c2
      BY <3>1, <1>t
    <3>u. \A j \in Feeds : j # i =>
            written'[j] = written[j] /\ fifo'[j] = fifo[j] /\ crowded'[j] = crowded[j]
      BY <3>1, <1>t
    <3>x. /\ written' \in [Feeds -> Nat] /\ fifo' \in [Feeds -> Seq(Piece)]
          /\ DOMAIN crowded' = Feeds
      BY <3>1, <3>3, <3>q, <1>t
    <3> HIDE DEF q2, c2
    <3>5. PollTypes'
      BY <1>t, <2>1, <3>1, <3>x DEF PollTypes
    <3>6. ASSUME NEW j \in Feeds, j # i PROVE Feed(j)'
      BY <3>6, <3>u, <3>1, <1>0, <2>1, <2>2, FeedKept
    <3>7. Ends(i)'
      BY <3>1, <2>1, <2>2, <2>a DEF Ends, Again
    <3>8. Marks(i)'
      <4>1. n \in Nat /\ n >= 1
        BY <1>f
      <4>2. fifo'[i] # <<>>
        BY <3>3, <3>v, <3>q, <4>1
      <4> QED
        BY <4>2, <3>1, <2>1, <2>2, <2>a DEF Marks, Again, HangsUp
    <3>9. PiecesIn(q2, w + 1) /\ HeadLine(q2, c2) /\ Accounted(q2, w + 1, c2, dropped[i], shown[i])
      <4>1. PiecesIn(q, w) /\ HeadLine(q, c) /\ Accounted(q, w, c, dropped[i], shown[i])
        BY <2>a DEF LinesOf
      <4> DEFINE L == Len(q)  d == dropped[i]  s == shown[i]
      <4>2. L \in Nat /\ Len(q) = L /\ w \in Nat
        BY <3>q
      <4>3. /\ Len(q2) = L + n /\ \A e \in 1..L : q2[e] = q[e]
            /\ \A p \in 1..n : q2[L + p] = <<w + 1, p, n>>
        BY <3>3
      <4>4. c \subseteq c2 /\ (L # 0 => w + 1 \in c2)
        BY <3>4
      <4>5. PiecesIn(q, w) /\ HeadLine(q, c) /\ Accounted(q, w, c, d, s)
        BY <4>1
      <4> HIDE DEF q, w, c, L, d, s
      <4>6. PiecesIn(q2, w + 1) /\ HeadLine(q2, c2) /\ Accounted(q2, w + 1, c2, d, s)
        BY <4>2, <4>3, <4>4, <4>5, LineWritten, Zenon
      <4> QED
        BY <4>6 DEF d, s
    <3>10. LinesOf(i)'
      <4>1. PiecesIn(fifo[i], written[i])'
        BY <3>9, <3>v DEF PiecesIn
      <4>2. HeadLine(fifo[i], crowded[i])'
        BY <3>9, <3>v, <2>1 DEF HeadLine
      <4>3. Accounted(fifo[i], written[i], crowded[i], dropped[i], shown[i])'
        BY <3>9, <3>v, <2>1 DEF Accounted
      <4>4. c2 \subseteq 1..w + 1 /\ dropped[i] \subseteq 1..w + 1
        BY <2>a, <3>4, <3>q DEF LinesOf
      <4> QED
        BY <4>1, <4>2, <4>3, <4>4, <3>v, <2>1 DEF LinesOf
    <3> QED
      BY <3>5, <3>6, <3>7, <3>8, <3>10, <2>4 DEF PollIInv, Feed
  <2> QED
    BY <2>5, <2>6
<1>5. ASSUME OpenReader PROVE PollIInv'
  <2>1. /\ prog' = prog /\ rev' = rev /\ opens' = opens /\ written' = written /\ fifo' = fifo
        /\ shown' = shown /\ crowded' = crowded /\ dropped' = dropped /\ nopenfds' = nopenfds
        /\ p1at = "open" /\ writer[next] = "opening"
        /\ writer' = [writer EXCEPT ![next] = "typing"]
    BY <1>5 DEF OpenReader
  <2>2. OpenFeeds' = OpenFeeds \cup {next} /\ DOMAIN fd' = Feeds
    <3>1. fd' = [fd EXCEPT ![next] = TRUE]
      BY <1>5 DEF OpenReader
    <3>2. DOMAIN fd' = Feeds /\ fd'[next] /\ \A j \in Feeds : j # next => fd'[j] = fd[j]
      BY <3>1, <1>t, <1>d
    <3> QED
      BY <3>2, <1>t DEF OpenFeeds
  <2>3. \/ next = 3 /\ p1at' = "loop" /\ next' = 1
        \/ next # 3 /\ p1at' = "open" /\ next' = next + 1
    BY <1>5 DEF OpenReader
  <2>4. PollTypes'
    BY <1>t, <1>f, <2>1, <2>3 DEF PollTypes
  <2>5. Counted'
    <3>1. /\ nopenfds = 3 /\ \A k \in 1..next - 1 : k \in OpenFeeds
          /\ \A i \in Feeds : rev[i] = {} /\ dropped[i] = {}
      BY <1>0, <2>1 DEF Counted
    <3>2. CASE next = 3
      <4>1. 1 \in OpenFeeds' /\ 2 \in OpenFeeds' /\ 3 \in OpenFeeds'
        BY <3>1, <3>2, <2>2
      <4>2. OpenFeeds' = Feeds
        BY <4>1, <1>f, <2>2, <1>t DEF OpenFeeds
      <4> QED
        BY <4>2, <3>1, <3>2, <2>1, <2>2, <2>3, FeedsCount DEF Counted
    <3>3. CASE next # 3
      <4>1. \A k \in 1..next' - 1 : k \in OpenFeeds'
        BY <3>1, <3>3, <2>2, <2>3, <1>t, <1>f
      <4> QED
        BY <4>1, <3>1, <3>3, <2>1, <2>2, <2>3 DEF Counted
    <3> QED
      BY <3>2, <3>3
  <2>6. ASSUME NEW j \in Feeds PROVE Feed(j)'
    <3>1. Ends(j) /\ Marks(j) /\ LinesOf(j) /\ rev[j] = {} /\ dropped[j] = {}
      BY <1>0, <2>1 DEF Feed, Counted
    <3>2. j = next => writer'[j] = "typing" /\ j \in OpenFeeds' /\ opens[j] >= 1
      BY <3>1, <2>1, <2>2, <1>t DEF Ends
    <3>3. j # next => writer'[j] = writer[j] /\ (j \in OpenFeeds' <=> j \in OpenFeeds)
      BY <2>1, <2>2, <1>t
    <3>4. Ends(j)'
      BY <3>1, <3>2, <3>3, <2>1 DEF Ends, Again
    <3>5. Marks(j)'
      BY <3>1, <2>1 DEF Marks
    <3>6. LinesOf(j)'
      BY <3>1, <2>1, LinesKept
    <3> QED
      BY <3>4, <3>5, <3>6 DEF Feed
  <2> QED
    BY <2>4, <2>5, <2>6 DEF PollIInv
<1>6. ASSUME Poll PROVE PollIInv'
  <2>1. /\ prog' = prog /\ p1at' = p1at /\ next' = next /\ opens' = opens /\ writer' = writer
        /\ written' = written /\ fifo' = fifo /\ shown' = shown /\ p1at = "loop"
        /\ crowded' = crowded /\ dropped' = dropped /\ nopenfds' = nopenfds
        /\ rev' = [i \in Feeds |-> Revents(i)]
    BY <1>6 DEF Poll, Idle
  <2>2. OpenFeeds' = OpenFeeds /\ DOMAIN fd' = Feeds
    BY <1>6, <1>d DEF OpenFeeds, Poll
  <2>r. ASSUME NEW i \in Feeds
        PROVE  /\ rev'[i] \subseteq {"IN", "HUP"} /\ (rev'[i] # {} => i \in OpenFeeds)
               /\ "HUP" \in rev'[i] => HangsUp(i) /\ writer[i] # "typing"
               /\ "IN" \in rev'[i] => fifo[i] # <<>> \/ (~HangsUp(i) /\ writer[i] = "closed")
    <3>1. rev'[i] = Revents(i)
      BY <2>1
    <3>2. /\ Revents(i) \subseteq {"IN", "HUP"} /\ (Revents(i) # {} => i \in OpenFeeds)
          /\ "HUP" \in Revents(i) => HangsUp(i) /\ writer[i] # "typing"
          /\ "IN" \in Revents(i) => fifo[i] # <<>> \/ (~HangsUp(i) /\ writer[i] = "closed")
      BY DEF Revents, OpenFeeds
    <3> QED
      BY <3>1, <3>2
  <2>3. PollTypes'
    <3>1. rev' \in [Feeds -> SUBSET {"IN", "HUP"}]
      BY <2>1, <2>r
    <3> QED
      BY <1>t, <2>1, <3>1 DEF PollTypes
  <2>4. Counted'
    BY <1>0, <2>1, <2>2 DEF Counted
  <2>5. ASSUME NEW i \in Feeds PROVE Feed(i)'
    <3>1. Ends(i) /\ Marks(i) /\ LinesOf(i)
      BY <1>0 DEF Feed
    <3>2. Ends(i)'
      BY <3>1, <2>1, <2>2 DEF Ends, Again
    <3>3. Marks(i)'
      <4>1. writer[i] \in {"none", "opening", "typing", "closed", "killed"}
        BY <1>t
      <4> QED
        BY <4>1, <3>1, <2>r, <2>1, <2>2 DEF Marks, Ends, Again, HangsUp
    <3>4. LinesOf(i)'
      BY <3>1, <2>1, LinesKept
    <3> QED
      BY <3>2, <3>3, <3>4 DEF Feed
  <2> QED
    BY <2>3, <2>4, <2>5 DEF PollIInv
<1>7. ASSUME Finish PROVE PollIInv'
  <2>1. /\ prog' = prog /\ next' = next /\ opens' = opens /\ writer' = writer /\ rev' = rev
        /\ written' = written /\ fifo' = fifo /\ shown' = shown /\ p1at = "loop" /\ p1at' = "end"
        /\ crowded' = crowded /\ dropped' = dropped /\ nopenfds' = nopenfds
    BY <1>7 DEF Finish, Idle
  <2>2. OpenFeeds' = OpenFeeds /\ DOMAIN fd' = Feeds
    BY <1>7, <1>d DEF OpenFeeds, Finish
  <2>3. PollTypes'
    BY <1>t, <2>1 DEF PollTypes
  <2>4. Counted'
    BY <1>0, <2>1, <2>2 DEF Counted
  <2>5. \A i \in Feeds : Feed(i)'
    BY <1>0, <2>1, <2>2, FeedKept
  <2> QED
    BY <2>3, <2>4, <2>5 DEF PollIInv
<1>8. ASSUME NEW i \in Feeds, Scan(i) PROVE PollIInv'
  <2>1. /\ prog' = prog /\ p1at' = p1at /\ next' = next /\ opens' = opens /\ writer' = writer
        /\ written' = written /\ crowded' = crowded /\ rev[i] # {}
        /\ rev' = [rev EXCEPT ![i] = {}]
    BY <1>8 DEF Scan
  <2>2. p1at # "open" /\ nopenfds = Cardinality(OpenFeeds)
    BY <2>1, <1>0 DEF Counted
  <2>3. Ends(i) /\ Marks(i) /\ LinesOf(i) /\ i \in OpenFeeds
    BY <1>0, <2>1 DEF Feed, Marks
  <2>r. rev'[i] = {} /\ (\A j \in Feeds : j # i => rev'[j] = rev[j])
        /\ rev' \in [Feeds -> SUBSET {"IN", "HUP"}]
    BY <2>1, <1>t
  <2> DEFINE q == fifo[i]  L == Len(q)  w == written[i]
  <2>q. q \in Seq(Piece) /\ w \in Nat /\ L \in Nat
    BY <1>t
  <2>i. Input(i) = SubSeq(q, 1, IF L < Buffer THEN L ELSE Buffer)
    BY DEF Input
  <2>4. CASE SeenHangup(i) \/ ("IN" \in rev[i] /\ Input(i) = <<>>)
    <3> DEFINE d2 == dropped[i] \cup {u[1] : u \in ToSet(q)}
    <3>1. /\ nopenfds' = nopenfds - 1 /\ fifo' = [fifo EXCEPT ![i] = <<>>]
          /\ dropped' = [dropped EXCEPT ![i] = d2] /\ shown' = shown
      BY <1>8, <2>4 DEF Scan, CloseFeed, CountAfter
    <3>2. OpenFeeds' = OpenFeeds \ {i} /\ DOMAIN fd' = Feeds
      <4>1. fd' = [fd EXCEPT ![i] = FALSE]
        BY <1>8, <2>4 DEF Scan, CloseFeed
      <4>2. DOMAIN fd' = Feeds /\ ~fd'[i] /\ \A j \in Feeds : j # i => fd'[j] = fd[j]
        BY <4>1, <1>d
      <4> QED
        BY <4>2 DEF OpenFeeds
    <3>3. Cardinality(OpenFeeds') = Cardinality(OpenFeeds) - 1
      BY <3>2, <2>3, FeedsCount, FS_RemoveElement
    <3>v. fifo'[i] = <<>> /\ dropped'[i] = d2 /\ DOMAIN dropped' = Feeds
      BY <3>1, <1>t
    <3>u. \A j \in Feeds : j # i => fifo'[j] = fifo[j] /\ dropped'[j] = dropped[j]
      BY <3>1, <1>t
    <3>x. fifo' \in [Feeds -> Seq(Piece)]
      BY <3>1, <1>t
    <3>4. PollTypes'
      BY <1>t, <2>1, <2>r, <3>1, <3>v, <3>x DEF PollTypes
    <3>5. Counted'
      BY <3>1, <3>2, <3>3, <2>1, <2>2 DEF Counted
    <3>6. ASSUME NEW j \in Feeds, j # i PROVE Feed(j)'
      <4>1. j \in OpenFeeds' <=> j \in OpenFeeds
        BY <3>6, <3>2
      <4>2. Ends(j) /\ Marks(j) /\ LinesOf(j)
        BY <1>0 DEF Feed
      <4>3. Ends(j)'
        BY <4>1, <4>2, <2>1 DEF Ends, Again
      <4>4. Marks(j)'
        BY <3>6, <3>u, <4>1, <4>2, <2>1, <2>r DEF Marks, Again, HangsUp
      <4>5. LinesOf(j)'
        BY <3>6, <3>u, <3>1, <4>2, <2>1, LinesKept
      <4> QED
        BY <4>3, <4>4, <4>5 DEF Feed
    <3>7. \/ HangsUp(i) /\ (writer[i] = "closed" \/ Again(i))
          \/ q = <<>> /\ writer[i] = "closed"
      <4>1. CASE SeenHangup(i)
        BY <4>1, <2>3 DEF SeenHangup, Marks
      <4>2. CASE "IN" \in rev[i] /\ Input(i) = <<>>
        <5>1. q = <<>>
          <6> SUFFICES ASSUME q # <<>> PROVE FALSE
            OBVIOUS
          <6> DEFINE m == IF L < Buffer THEN L ELSE Buffer
          <6>0. L # 0
            BY <2>q
          <6> HIDE DEF L
          <6>1. m \in 1..L
            BY <6>0, <2>q, <1>f
          <6> HIDE DEF m
          <6>2. Len(SubSeq(q, 1, m)) = m
            BY <6>1, <2>q, PartsTaken DEF L
          <6>3. Input(i) = SubSeq(q, 1, m)
            BY <2>i DEF m
          <6> QED
            BY <6>1, <6>2, <6>3, <4>2, <2>q
        <5> QED
          BY <5>1, <4>2, <2>3 DEF Marks
      <4> QED
        BY <4>1, <4>2, <2>4
    <3>8. /\ PiecesIn(<<>>, w) /\ HeadLine(<<>>, crowded[i])
          /\ Accounted(<<>>, w, crowded[i], d2, shown[i])
          /\ d2 \subseteq 1..w /\ (q = <<>> => d2 = dropped[i])
      <4>1. PiecesIn(q, w) /\ Accounted(q, w, crowded[i], dropped[i], shown[i])
            /\ dropped[i] \subseteq 1..w
        BY <2>3 DEF LinesOf
      <4> HIDE DEF q, w
      <4> QED
        BY <4>1, <2>q, FeedClosed
    <3> HIDE DEF d2
    <3>9. Ends(i)'
      BY <3>2, <3>7, <2>1, <2>3 DEF Ends, Again
    <3>10. Marks(i)'
      <4>1. i \notin OpenFeeds'
        BY <3>2
      <4>2. dropped'[i] # {} => HangsUp(i) /\ (writer[i] = "closed" \/ Again(i))
        BY <3>7, <3>8, <3>v, <2>3 DEF Marks
      <4> QED
        BY <4>1, <4>2, <2>1, <2>r DEF Marks, Again, HangsUp
    <3>11. LinesOf(i)'
      <4>1. PiecesIn(fifo[i], written[i])'
        BY <3>8, <3>v, <2>1 DEF PiecesIn
      <4>2. HeadLine(fifo[i], crowded[i])'
        BY <3>8, <3>v, <2>1 DEF HeadLine
      <4>3. Accounted(fifo[i], written[i], crowded[i], dropped[i], shown[i])'
        BY <3>8, <3>v, <3>1, <2>1 DEF Accounted
      <4> QED
        BY <4>1, <4>2, <4>3, <3>8, <3>v, <2>1, <2>3 DEF LinesOf
    <3> QED
      BY <3>4, <3>5, <3>6, <3>9, <3>10, <3>11 DEF PollIInv, Feed
  <2>5. CASE ~(SeenHangup(i) \/ ("IN" \in rev[i] /\ Input(i) = <<>>))
    <3> DEFINE m == IF L < Buffer THEN L ELSE Buffer
               r == SubSeq(q, 1, m)
               q2 == SubSeq(q, m + 1, L)
    <3>1. Input(i) = r /\ r # <<>>
      <4>1. "IN" \in rev[i]
        BY <2>5, <2>1, <1>t DEF SeenHangup
      <4> QED
        BY <4>1, <2>5, <2>i
    <3>2. L # 0
      <4>1. L = 0 => q = <<>> /\ m = 0
        BY <2>q, <1>f
      <4>2. SubSeq(<<>>, 1, 0) = <<>>
        OBVIOUS
      <4> QED
        BY <4>1, <4>2, <3>1
    <3>3. m \in 1..L /\ m <= Buffer /\ (m = L \/ m = Buffer)
      <4> HIDE DEF L
      <4> QED
        BY <3>2, <2>q, <1>f
    <3>4. /\ r \in Seq(Piece) /\ Len(r) = m /\ (\A e \in 1..m : r[e] = q[e])
          /\ q2 \in Seq(Piece) /\ Len(q2) = L - m /\ \A e \in 1..L - m : q2[e] = q[m + e]
      <4> HIDE DEF m
      <4> QED
        BY <3>3, <2>q, PartsTaken
    <3>5. fifo' = [fifo EXCEPT ![i] = q2]
      <4>1. fifo' = [fifo EXCEPT ![i] = SubSeq(@, Len(Input(i)) + 1, Len(@))]
        BY <1>8, <2>5 DEF Scan
      <4> HIDE DEF m
      <4> QED
        BY <4>1, <3>1, <3>4
    <3>6. /\ shown' = [shown EXCEPT ![i] = @ \cup String(r)] /\ dropped' = dropped
          /\ nopenfds' = nopenfds
      BY <1>8, <2>5, <3>1 DEF Scan
    <3>7. OpenFeeds' = OpenFeeds /\ DOMAIN fd' = Feeds
      BY <1>8, <2>5, <1>d DEF Scan, OpenFeeds
    <3> DEFINE s2 == shown[i] \cup String(r)
    <3>v. fifo'[i] = q2 /\ shown'[i] = s2 /\ DOMAIN shown' = Feeds
      BY <3>5, <3>6, <1>t
    <3>u. \A j \in Feeds : j # i => fifo'[j] = fifo[j] /\ shown'[j] = shown[j]
      BY <3>5, <3>6, <1>t
    <3>x. fifo' \in [Feeds -> Seq(Piece)]
      BY <3>4, <3>5, <1>t
    <3>8. PiecesIn(q2, w) /\ HeadLine(q2, crowded[i]) /\ Accounted(q2, w, crowded[i], dropped[i], s2)
      <4>1. PiecesIn(q, w) /\ HeadLine(q, crowded[i])
            /\ Accounted(q, w, crowded[i], dropped[i], shown[i])
        BY <2>3 DEF LinesOf
      <4>2. L \in Nat /\ Len(q) = L /\ w \in Nat
        BY <2>q
      <4> DEFINE c == crowded[i]  d == dropped[i]  s == shown[i]
      <4>3. PiecesIn(q, w) /\ HeadLine(q, c) /\ Accounted(q, w, c, d, s)
        BY <4>1
      <4> HIDE DEF q, w, m, r, q2, L, c, d, s
      <4>5. ReadOff(q, L, m, r, q2)
        BY <4>2, <3>3, <3>4 DEF ReadOff
      <4>4. PiecesIn(q2, w) /\ HeadLine(q2, c) /\ Accounted(q2, w, c, d, s \cup String(r))
        BY <4>2, <4>3, <4>5, PiecesRead, Zenon
      <4> QED
        BY <4>4 DEF c, d, s
    <3> HIDE DEF q2, r, m, s2
    <3>9. PollTypes'
      BY <1>t, <2>1, <2>r, <3>6, <3>v, <3>x DEF PollTypes
    <3>10. Counted'
      BY <2>1, <2>2, <3>6, <3>7 DEF Counted
    <3>11. ASSUME NEW j \in Feeds, j # i PROVE Feed(j)'
      BY <3>11, <3>u, <3>6, <3>7, <1>0, <2>1, <2>r, FeedKept
    <3>12. Ends(i)'
      BY <3>7, <2>1, <2>3 DEF Ends, Again
    <3>13. Marks(i)'
      BY <3>6, <3>7, <2>1, <2>3, <2>r DEF Marks, Again, HangsUp
    <3>14. LinesOf(i)'
      <4>1. PiecesIn(fifo[i], written[i])'
        BY <3>8, <3>v, <2>1 DEF PiecesIn
      <4>2. HeadLine(fifo[i], crowded[i])'
        BY <3>8, <3>v, <2>1 DEF HeadLine
      <4>3. Accounted(fifo[i], written[i], crowded[i], dropped[i], shown[i])'
        BY <3>8, <3>v, <3>6, <2>1 DEF Accounted
      <4> QED
        BY <4>1, <4>2, <4>3, <3>6, <2>1, <2>3 DEF LinesOf
    <3> QED
      BY <3>9, <3>10, <3>11, <3>12, <3>13, <3>14 DEF PollIInv, Feed
  <2> QED
    BY <2>4, <2>5
<1> QED
  BY <1>1, <1>2, <1>3, <1>4, <1>5, <1>6, <1>7, <1>8 DEF PollNext, P1Step

(* The invariant of the poll programs gives both halves of PollKept.       *)
LEMMA PollIsKept == PollIInv => PollKept /\ PollTypeOK
<1> SUFFICES ASSUME PollIInv PROVE PollKept /\ PollTypeOK
  OBVIOUS
<1>0. PollTypes /\ Counted /\ \A i \in Feeds : Ends(i) /\ Marks(i) /\ LinesOf(i)
  BY DEF PollIInv, Feed
<1>1. \A i \in Feeds : i \in OpenFeeds <=> fd[i]
  BY DEF OpenFeeds
<1>2. HangupOnly
  BY <1>0, <1>1 DEF HangupOnly, Ends, Marks, Again
<1>3. ASSUME NEW i \in Feeds, NEW k \in 1..written[i]
      PROVE  \/ k \in dropped[i] \/ \E u \in ToSet(fifo[i]) : u[1] = k
             \/ prog = "fifos" /\ k \in crowded[i]
             \/ \E n \in 1..Buffer : \A p \in 1..n : <<k, p, n>> \in shown[i]
  <2> SUFFICES ASSUME k \notin dropped[i], ~(prog = "fifos" /\ k \in crowded[i]),
                      \A u \in ToSet(fifo[i]) : u[1] # k
               PROVE  \E n \in 1..Buffer : \A p \in 1..n : <<k, p, n>> \in shown[i]
    OBVIOUS
  <2>1. PICK n \in 1..Buffer : \A p \in 1..n :
          <<k, p, n>> \in shown[i] \/ \E e \in 1..Len(fifo[i]) : fifo[i][e] = <<k, p, n>>
    BY <1>0 DEF LinesOf, Accounted
  <2>2. ASSUME NEW p \in 1..n, NEW e \in 1..Len(fifo[i]), fifo[i][e] = <<k, p, n>> PROVE FALSE
    <3>1. <<k, p, n>> \in ToSet(fifo[i]) /\ <<k, p, n>>[1] = k
      BY <2>2 DEF ToSet
    <3> QED
      BY <3>1
  <2> QED
    BY <2>1, <2>2
<1>4. LineShown
  BY <1>3 DEF LineShown
<1>5. PollTypeOK
  BY <1>0 DEF PollTypeOK, PollTypes, Counted, LinesOf, OpenFeeds
<1> QED
  BY <1>2, <1>4, <1>5 DEF PollKept

(* A step of the group is a step of the poll programs or leaves them       *)
(* alone.                                                                  *)
LEMMA GroupIsPoll == [GroupNext]_all => [PollNext]_pollVars
  BY DEF GroupNext, all, InTurns, InTalk, InMail, InPoll, InExch

(* For every bound on lines, writers and the buffer: what p1 prints is all *)
(* that was written, except behind another line or at a hang-up, and only  *)
(* a hang-up costs a line or a writer (11-1-22/poll p1.c:50-75).           *)
THEOREM PollPrintsAll == GroupSpec => []PollKept
<1>1. GroupInit => PollIInv
  BY PollStarts DEF GroupInit
<1>2. PollIInv /\ [GroupNext]_all => PollIInv'
  BY PollStep, GroupIsPoll
<1> QED
  BY <1>1, <1>2, PollIsKept, PTL DEF GroupSpec


-----------------------------------------------------------------------------
(* Exchanges                                                               *)

Known == {"hello", "gfg", "unix", "words", "judge", "names"}

After(s, p) == IF s > p THEN 1 ELSE 0

(* What the server has sent to caller i, and received of it, before its    *)
(* call number s, and what a caller has said and heard before its call c.  *)
Sends(s, i) ==
  [hello |-> After(s, 3), gfg |-> After(s, 3), unix |-> After(s, 2), words |-> 0,
   judge |-> After(s, 5), names |-> After(s, 3 + i) + After(s, 9 + i)][exch]
Got(s, i) ==
  [hello |-> After(s, 2) + After(s, 4), gfg |-> After(s, 2), unix |-> After(s, 3),
   words |-> After(s, 2), judge |-> After(s, 2), names |-> After(s, 6 + i)][exch]
Said(c) ==
  [hello |-> After(c, 2) + After(c, 4), gfg |-> After(c, 2), unix |-> After(c, 3),
   words |-> After(c, 2), judge |-> After(c, 2), names |-> After(c, 3)][exch]
Heard(c) ==
  [hello |-> After(c, 3), gfg |-> After(c, 3), unix |-> After(c, 2), words |-> 0,
   judge |-> After(c, 3), names |-> After(c, 2) + After(c, 4)][exch]
(* The messages of the server to one caller.                               *)
Total == [hello |-> 1, gfg |-> 1, unix |-> 1, words |-> 0, judge |-> 1, names |-> 2][exch]

Port(i) == IF exch = "names" THEN i ELSE 1
(* How far the server has come with caller i.                              *)
Reached(i) == IF Alive(i) /\ slot[Port(i)] = i THEN spos ELSE 1

ExchTypes ==
  /\ exch \in Known
  /\ srun \in Nat /\ spos \in 0..Len(ServerProgram) /\ path \in 0..srun /\ sockets \in Nat
  /\ backlog \in [Ports -> Seq(Calls)] /\ slot \in [Ports -> Calls \cup {0}]
  /\ cpos \in [Calls -> Int] /\ peer \in [Calls -> Nat]
  /\ upward \in [Calls -> Seq(Int)] /\ downward \in [Calls -> Seq(Int)]
  /\ exch = "words" => sockets <= MaxSockets

(* A caller in a slot or a backlog is one of this run of the server.       *)
Served ==
  /\ \A k \in Ports : slot[k] # 0 =>
       /\ spos # 0 /\ peer[slot[k]] = srun /\ slot[k] \in met /\ Port(slot[k]) = k
       /\ cpos[slot[k]] # 0
  /\ \A k \in Ports : (exch = "names" \/ k = 1) /\ spos > k => slot[k] # 0
  /\ \A k \in Ports : exch # "words" /\ spos <= k => slot[k] = 0
  /\ \A k \in Ports : \A e \in 1..Len(backlog[k]) :
       spos # 0 /\ peer[backlog[k][e]] = srun /\ Port(backlog[k][e]) = k /\ cpos[backlog[k][e]] # 0

(* Only a server that wrote to a stopped caller is killed.                 *)
KilledFor ==
  /\ spos # 0 => srun # 0
  /\ \A r \in killed : r \in 1..srun /\ (r = srun => spos = 0)
  /\ reset # {} \/ killed # {} => stopped # {}
  /\ ~joined

(* Both sides of a connection agree on what was sent.                      *)
Agreed(i, u, d) ==
  /\ cpos[i] > 0 /\ Alive(i) =>
       Sends(Reached(i), i) = Heard(cpos[i]) + d /\ Said(cpos[i]) = Got(Reached(i), i) + u
  /\ cpos[i] = -1 /\ Alive(i) /\ i \notin stopped => Sends(Reached(i), i) = Total
  /\ cpos[i] > 0 /\ ~Alive(i) /\ i \in met /\ peer[i] \notin killed => Heard(cpos[i]) + d = Total
  /\ u <= 1 /\ d <= 1

Caller(i) ==
  /\ cpos[i] = -1 \/ cpos[i] = 0 \/ cpos[i] \in 2..Len(CallerProgram(i))
  /\ peer[i] <= srun
  /\ cpos[i] = 0 => peer[i] = 0
  /\ cpos[i] > 0 => peer[i] # 0
  /\ peer[i] = 0 => i \notin met /\ upward[i] = <<>> /\ downward[i] = <<>>
  /\ Alive(i) /\ i \in met /\ exch # "words" => slot[Port(i)] = i
  /\ i \in short => peer[i] \in killed
  /\ Agreed(i, Len(upward[i]), Len(downward[i]))

(* The path of the first server is removed by a caller it has served.      *)
PathLeads ==
  srun = 1 /\ (IF exch = "unix" THEN spos = 1 ELSE spos # 0) => path = 1

Judged ==
  /\ binary \in {"none", "right", "wrong"}
  /\ judged \in {"right", "wrong"} => binary = judged
  /\ VerdictOnSource

ExchIInv ==
  ExchTypes /\ Served /\ KilledFor /\ PathLeads /\ Judged /\ \A i \in Calls : Caller(i)


(* The calls of the server and of a caller.                                *)
Op(s) == ServerProgram[s].op
Of(s) == ServerProgram[s].on
OpOf(i, c) == CallerProgram(i)[c].op

(* The server of each exchange.                                            *)
LEMMA ServerPrograms ==
  /\ exch = "hello" => ServerProgram = basic_server
  /\ exch = "gfg" => ServerProgram = gfg_server
  /\ exch = "unix" => ServerProgram = unix_server
  /\ exch = "words" => ServerProgram = iterative_server
  /\ exch = "judge" => ServerProgram = judge_S
  /\ exch = "names" => ServerProgram = observed_server
  BY DEF ServerProgram

(* The caller of each exchange.                                            *)
LEMMA CallerPrograms ==
  ASSUME NEW i \in Calls
  PROVE  /\ exch = "hello" => CallerProgram(i) = basic_client
         /\ exch = "gfg" => CallerProgram(i) = gfg_client
         /\ exch = "unix" => CallerProgram(i) = unix_client
         /\ exch = "words" => CallerProgram(i) = iterative_client
         /\ exch = "judge" => CallerProgram(i) = judge_C
         /\ exch = "names" => \/ i = 1 /\ CallerProgram(i) = observed_c1
                              \/ i = 2 /\ CallerProgram(i) = observed_c2
                              \/ i = 3 /\ CallerProgram(i) = observed_c3
<1>1. i = 1 \/ i = 2 \/ i = 3
  BY ExchangeConstants DEF Calls
<1> QED
  BY <1>1 DEF CallerProgram

(* Which calls there are, by program.                                      *)
LEMMA ServerCalls ==
  /\ exch = "hello" => /\ Len(ServerProgram) = 4
       /\ Op(1) = "accept" /\ Op(2) = "recv" /\ Op(3) = "send" /\ Op(4) = "recv"
       /\ Of(1) = 1 /\ Of(2) = 1 /\ Of(3) = 1 /\ Of(4) = 1
  /\ exch = "gfg" => /\ Len(ServerProgram) = 3
       /\ Op(1) = "accept" /\ Op(2) = "recv" /\ Op(3) = "send"
       /\ Of(1) = 1 /\ Of(2) = 1 /\ Of(3) = 1
  /\ exch = "unix" => /\ Len(ServerProgram) = 3
       /\ Op(1) = "accept" /\ Op(2) = "send" /\ Op(3) = "recv"
       /\ Of(1) = 1 /\ Of(2) = 1 /\ Of(3) = 1
  /\ exch = "words" => /\ Len(ServerProgram) = 3
       /\ Op(1) = "accept" /\ Op(2) = "recv" /\ Op(3) = "again"
       /\ Of(1) = 1 /\ Of(2) = 1 /\ Of(3) = 1
  /\ exch = "judge" => /\ Len(ServerProgram) = 5
       /\ Op(1) = "accept" /\ Op(2) = "recv" /\ Op(3) = "compile" /\ Op(4) = "run" /\ Op(5) = "send"
       /\ Of(1) = 1 /\ Of(2) = 1 /\ Of(3) = 1 /\ Of(4) = 1 /\ Of(5) = 1
  /\ exch = "names" => /\ Len(ServerProgram) = 12
       /\ Op(1) = "accept" /\ Op(2) = "accept" /\ Op(3) = "accept"
       /\ Op(4) = "send" /\ Op(5) = "send" /\ Op(6) = "send"
       /\ Op(7) = "recv" /\ Op(8) = "recv" /\ Op(9) = "recv"
       /\ Op(10) = "send" /\ Op(11) = "send" /\ Op(12) = "send"
       /\ Of(1) = 1 /\ Of(2) = 2 /\ Of(3) = 3 /\ Of(4) = 1 /\ Of(5) = 2 /\ Of(6) = 3
       /\ Of(7) = 1 /\ Of(8) = 2 /\ Of(9) = 3 /\ Of(10) = 1 /\ Of(11) = 2 /\ Of(12) = 3
<1>1. CASE exch = "hello"
  BY <1>1, ServerPrograms DEF Op, Of, Call, basic_server
<1>2. CASE exch = "gfg"
  BY <1>2, ServerPrograms DEF Op, Of, Call, gfg_server
<1>3. CASE exch = "unix"
  BY <1>3, ServerPrograms DEF Op, Of, Call, unix_server
<1>4. CASE exch = "words"
  BY <1>4, ServerPrograms DEF Op, Of, Call, iterative_server
<1>5. CASE exch = "judge"
  BY <1>5, ServerPrograms DEF Op, Of, Call, judge_S
<1>6. CASE exch = "names"
  <2>1. ServerProgram = observed_server
    BY <1>6, ServerPrograms
  <2> DEFINE a == [k \in 1..3 |-> Call("accept", k)]
             b == [k \in 1..3 |-> Call("send", k)]
             c == [k \in 1..3 |-> Call("recv", k)]
  <2>2. Len(a \o b \o c \o b) = 12
    BY DEF Call
  <2> QED
    BY <1>6, <2>1, <2>2 DEF observed_server, Op, Of, Call
<1> QED
  BY <1>1, <1>2, <1>3, <1>4, <1>5, <1>6

(* The calls of the callers, one by one.                                   *)
LEMMA CallerCalls ==
  ASSUME NEW i \in Calls, exch \in Known
  PROVE  /\ CallerProgram(i)[1].on = Port(i)
         /\ exch = "hello" => /\ Len(CallerProgram(i)) = 4
              /\ OpOf(i, 1) = "connect" /\ OpOf(i, 2) = "send" /\ OpOf(i, 3) = "recv" /\ OpOf(i, 4) = "send"
         /\ exch = "gfg" => /\ Len(CallerProgram(i)) = 3
              /\ OpOf(i, 1) = "connect" /\ OpOf(i, 2) = "send" /\ OpOf(i, 3) = "recv"
         /\ exch = "unix" => /\ Len(CallerProgram(i)) = 4
              /\ OpOf(i, 1) = "connect" /\ OpOf(i, 2) = "recv" /\ OpOf(i, 3) = "send" /\ OpOf(i, 4) = "unlink"
         /\ exch = "words" => /\ Len(CallerProgram(i)) = 2
              /\ OpOf(i, 1) = "connect" /\ OpOf(i, 2) = "type"
         /\ exch = "judge" => /\ Len(CallerProgram(i)) = 3
              /\ OpOf(i, 1) = "connect" /\ OpOf(i, 2) = "send" /\ OpOf(i, 3) = "recv"
         /\ exch = "names" => /\ Len(CallerProgram(i)) = 4
              /\ OpOf(i, 1) = "connect" /\ OpOf(i, 2) = "recv" /\ OpOf(i, 3) = "send" /\ OpOf(i, 4) = "recv"
<1>1. CASE exch = "hello"
  BY <1>1, CallerPrograms DEF OpOf, Call, Port, basic_client
<1>2. CASE exch = "gfg"
  BY <1>2, CallerPrograms DEF OpOf, Call, Port, gfg_client
<1>3. CASE exch = "unix"
  BY <1>3, CallerPrograms DEF OpOf, Call, Port, unix_client
<1>4. CASE exch = "words"
  BY <1>4, CallerPrograms DEF OpOf, Call, Port, iterative_client
<1>5. CASE exch = "judge"
  BY <1>5, CallerPrograms DEF OpOf, Call, Port, judge_C
<1>6. CASE exch = "names"
  BY <1>6, CallerPrograms DEF OpOf, Call, Port, observed_c1, observed_c2, observed_c3
<1> QED
  BY <1>1, <1>2, <1>3, <1>4, <1>5, <1>6 DEF Known


(* What call s of the server does to the counts for caller i.              *)
LEMMA ServerTable ==
  ASSUME exch \in Known, NEW i \in Calls, NEW s \in 1..Len(ServerProgram)
  PROVE  /\ Of(s) \in Ports /\ (exch = "names" \/ Of(s) = 1)
         /\ Sends(s + 1, i) = Sends(s, i) + (IF Op(s) = "send" /\ Port(i) = Of(s) THEN 1 ELSE 0)
         /\ Got(s + 1, i) = Got(s, i) + (IF Op(s) = "recv" /\ Port(i) = Of(s) THEN 1 ELSE 0)
         /\ Sends(s, i) \in Nat /\ Got(s, i) \in Nat
         /\ Op(s) = "accept" => s = Of(s)
         /\ Op(s) # "accept" => s > Of(s)
         /\ s = Len(ServerProgram) => Sends(s + 1, i) = Total /\ Op(s) \notin {"accept", "compile", "run"}
         /\ Op(s) = "send" /\ Port(i) = Of(s) => Sends(s, i) < Total
         /\ Sends(s, i) <= Total /\ (Op(s) = "accept" => Sends(s + 1, i) = 0 /\ Got(s + 1, i) = 0)
<1>0. i \in {1, 2, 3}
  BY ExchangeConstants DEF Calls
<1>1. CASE exch = "hello"
  <2>0. /\ Len(ServerProgram) = 4 /\ Op(1) = "accept" /\ Op(2) = "recv" /\ Op(3) = "send" /\ Op(4) = "recv"
        /\ Of(1) = 1 /\ Of(2) = 1 /\ Of(3) = 1 /\ Of(4) = 1
    BY <1>1, ServerCalls, Zenon
  <2>1. s = 1 \/ s = 2 \/ s = 3 \/ s = 4
    BY <2>0
  <2>2. /\ Sends(s, i) = After(s, 3) /\ Sends(s + 1, i) = After(s + 1, 3)
        /\ Got(s, i) = After(s, 2) + After(s, 4) /\ Got(s + 1, i) = After(s + 1, 2) + After(s + 1, 4)
        /\ Total = 1
    BY <1>1 DEF Sends, Got, Said, Heard, Total
  <2> QED
    BY <1>0, <1>1, <2>0, <2>1, <2>2 DEF After, Port, Ports
<1>2. CASE exch = "gfg"
  <2>0. /\ Len(ServerProgram) = 3 /\ Op(1) = "accept" /\ Op(2) = "recv" /\ Op(3) = "send" /\ Of(1) = 1
        /\ Of(2) = 1 /\ Of(3) = 1
    BY <1>2, ServerCalls, Zenon
  <2>1. s = 1 \/ s = 2 \/ s = 3
    BY <2>0
  <2>2. /\ Sends(s, i) = After(s, 3) /\ Sends(s + 1, i) = After(s + 1, 3)
        /\ Got(s, i) = After(s, 2) /\ Got(s + 1, i) = After(s + 1, 2)
        /\ Total = 1
    BY <1>2 DEF Sends, Got, Said, Heard, Total
  <2> QED
    BY <1>0, <1>2, <2>0, <2>1, <2>2 DEF After, Port, Ports
<1>3. CASE exch = "unix"
  <2>0. /\ Len(ServerProgram) = 3 /\ Op(1) = "accept" /\ Op(2) = "send" /\ Op(3) = "recv" /\ Of(1) = 1
        /\ Of(2) = 1 /\ Of(3) = 1
    BY <1>3, ServerCalls, Zenon
  <2>1. s = 1 \/ s = 2 \/ s = 3
    BY <2>0
  <2>2. /\ Sends(s, i) = After(s, 2) /\ Sends(s + 1, i) = After(s + 1, 2)
        /\ Got(s, i) = After(s, 3) /\ Got(s + 1, i) = After(s + 1, 3)
        /\ Total = 1
    BY <1>3 DEF Sends, Got, Said, Heard, Total
  <2> QED
    BY <1>0, <1>3, <2>0, <2>1, <2>2 DEF After, Port, Ports
<1>4. CASE exch = "words"
  <2>0. /\ Len(ServerProgram) = 3 /\ Op(1) = "accept" /\ Op(2) = "recv" /\ Op(3) = "again" /\ Of(1) = 1
        /\ Of(2) = 1 /\ Of(3) = 1
    BY <1>4, ServerCalls, Zenon
  <2>1. s = 1 \/ s = 2 \/ s = 3
    BY <2>0
  <2>2. /\ Sends(s, i) = 0 /\ Sends(s + 1, i) = 0
        /\ Got(s, i) = After(s, 2) /\ Got(s + 1, i) = After(s + 1, 2)
        /\ Total = 0
    BY <1>4 DEF Sends, Got, Said, Heard, Total
  <2> QED
    BY <1>0, <1>4, <2>0, <2>1, <2>2 DEF After, Port, Ports
<1>5. CASE exch = "judge"
  <2>0. /\ Len(ServerProgram) = 5 /\ Op(1) = "accept" /\ Op(2) = "recv" /\ Op(3) = "compile" /\ Op(4) = "run"
        /\ Op(5) = "send" /\ Of(1) = 1 /\ Of(2) = 1 /\ Of(3) = 1 /\ Of(4) = 1
        /\ Of(5) = 1
    BY <1>5, ServerCalls, Zenon
  <2>1. s = 1 \/ s = 2 \/ s = 3 \/ s = 4 \/ s = 5
    BY <2>0
  <2>2. /\ Sends(s, i) = After(s, 5) /\ Sends(s + 1, i) = After(s + 1, 5)
        /\ Got(s, i) = After(s, 2) /\ Got(s + 1, i) = After(s + 1, 2)
        /\ Total = 1
    BY <1>5 DEF Sends, Got, Said, Heard, Total
  <2> QED
    BY <1>0, <1>5, <2>0, <2>1, <2>2 DEF After, Port, Ports
<1>6. CASE exch = "names"
  <2>0. /\ Len(ServerProgram) = 12 /\ Op(1) = "accept" /\ Op(2) = "accept" /\ Op(3) = "accept" /\ Op(4) = "send"
        /\ Op(5) = "send" /\ Op(6) = "send" /\ Op(7) = "recv" /\ Op(8) = "recv" /\ Op(9) = "recv"
        /\ Op(10) = "send" /\ Op(11) = "send" /\ Op(12) = "send" /\ Of(1) = 1 /\ Of(2) = 2
        /\ Of(3) = 3 /\ Of(4) = 1 /\ Of(5) = 2 /\ Of(6) = 3 /\ Of(7) = 1
        /\ Of(8) = 2 /\ Of(9) = 3 /\ Of(10) = 1 /\ Of(11) = 2 /\ Of(12) = 3
    BY <1>6, ServerCalls, Zenon
  <2>1. s = 1 \/ s = 2 \/ s = 3 \/ s = 4 \/ s = 5 \/ s = 6 \/ s = 7 \/ s = 8 \/ s = 9 \/ s = 10 \/ s = 11 \/ s = 12
    BY <2>0
  <2>2. /\ Sends(s, i) = After(s, 3 + i) + After(s, 9 + i) /\ Sends(s + 1, i) = After(s + 1, 3 + i) + After(s + 1, 9 + i)
        /\ Got(s, i) = After(s, 6 + i) /\ Got(s + 1, i) = After(s + 1, 6 + i)
        /\ Total = 2
    BY <1>6 DEF Sends, Got, Said, Heard, Total
  <2> QED
    BY <1>0, <1>6, <2>0, <2>1, <2>2 DEF After, Port, Ports
<1> QED
  BY <1>1, <1>2, <1>3, <1>4, <1>5, <1>6 DEF Known

(* The judge runs the test right after the compilation, and nowhere else.  *)
LEMMA ServerOrder ==
  ASSUME exch \in Known
  PROVE  /\ Len(ServerProgram) \in Nat /\ Len(ServerProgram) >= 3 /\ Op(1) = "accept"
         /\ \A s \in 1..Len(ServerProgram) :
              /\ Op(s) = "compile" => Op(s + 1) = "run"
              /\ s < Len(ServerProgram) /\ Op(s) # "compile" => Op(s + 1) # "run"
              /\ Op(s) = "again" => exch = "words"
              /\ exch = "words" => Op(s) # "send" /\ (Op(s) = "recv" => s < Len(ServerProgram))
              /\ Op(s) # "accept" => s > 1 /\ (exch = "names" => s > 3)
<1>1. CASE exch = "hello"
  <2>0. /\ Len(ServerProgram) = 4 /\ Op(1) = "accept" /\ Op(2) = "recv" /\ Op(3) = "send" /\ Op(4) = "recv"
        /\ Of(1) = 1 /\ Of(2) = 1 /\ Of(3) = 1 /\ Of(4) = 1
    BY <1>1, ServerCalls, Zenon
  <2> QED
    BY <1>1, <2>0
<1>2. CASE exch = "gfg"
  <2>0. /\ Len(ServerProgram) = 3 /\ Op(1) = "accept" /\ Op(2) = "recv" /\ Op(3) = "send" /\ Of(1) = 1
        /\ Of(2) = 1 /\ Of(3) = 1
    BY <1>2, ServerCalls, Zenon
  <2> QED
    BY <1>2, <2>0
<1>3. CASE exch = "unix"
  <2>0. /\ Len(ServerProgram) = 3 /\ Op(1) = "accept" /\ Op(2) = "send" /\ Op(3) = "recv" /\ Of(1) = 1
        /\ Of(2) = 1 /\ Of(3) = 1
    BY <1>3, ServerCalls, Zenon
  <2> QED
    BY <1>3, <2>0
<1>4. CASE exch = "words"
  <2>0. /\ Len(ServerProgram) = 3 /\ Op(1) = "accept" /\ Op(2) = "recv" /\ Op(3) = "again" /\ Of(1) = 1
        /\ Of(2) = 1 /\ Of(3) = 1
    BY <1>4, ServerCalls, Zenon
  <2> QED
    BY <1>4, <2>0
<1>5. CASE exch = "judge"
  <2>0. /\ Len(ServerProgram) = 5 /\ Op(1) = "accept" /\ Op(2) = "recv" /\ Op(3) = "compile" /\ Op(4) = "run"
        /\ Op(5) = "send" /\ Of(1) = 1 /\ Of(2) = 1 /\ Of(3) = 1 /\ Of(4) = 1
        /\ Of(5) = 1
    BY <1>5, ServerCalls, Zenon
  <2> QED
    BY <1>5, <2>0
<1>6. CASE exch = "names"
  <2>0. /\ Len(ServerProgram) = 12 /\ Op(1) = "accept" /\ Op(2) = "accept" /\ Op(3) = "accept" /\ Op(4) = "send"
        /\ Op(5) = "send" /\ Op(6) = "send" /\ Op(7) = "recv" /\ Op(8) = "recv" /\ Op(9) = "recv"
        /\ Op(10) = "send" /\ Op(11) = "send" /\ Op(12) = "send" /\ Of(1) = 1 /\ Of(2) = 2
        /\ Of(3) = 3 /\ Of(4) = 1 /\ Of(5) = 2 /\ Of(6) = 3 /\ Of(7) = 1
        /\ Of(8) = 2 /\ Of(9) = 3 /\ Of(10) = 1 /\ Of(11) = 2 /\ Of(12) = 3
    BY <1>6, ServerCalls, Zenon
  <2> QED
    BY <1>6, <2>0
<1> QED
  BY <1>1, <1>2, <1>3, <1>4, <1>5, <1>6 DEF Known

(* And what call c of a caller does to its own.                            *)
LEMMA CallerTable ==
  ASSUME exch \in Known, NEW i \in Calls, NEW c \in 1..Len(CallerProgram(i))
  PROVE  /\ Said(c + 1) = Said(c) + (IF OpOf(i, c) \in {"send", "type"} THEN 1 ELSE 0)
         /\ Heard(c + 1) = Heard(c) + (IF OpOf(i, c) = "recv" THEN 1 ELSE 0)
         /\ Said(c) \in Nat /\ Heard(c) \in Nat
         /\ Heard(c + 1) <= Total /\ (c = Len(CallerProgram(i)) => Heard(c + 1) = Total)
         /\ OpOf(i, c) = "unlink" => exch = "unix" /\ Heard(c) = 1
<1>1. CASE exch = "hello"
  <2>0. /\ Len(CallerProgram(i)) = 4 /\ OpOf(i, 1) = "connect" /\ OpOf(i, 2) = "send" /\ OpOf(i, 3) = "recv" /\ OpOf(i, 4) = "send"
    BY <1>1, CallerCalls, Zenon
  <2>1. c = 1 \/ c = 2 \/ c = 3 \/ c = 4
    BY <2>0
  <2>2. /\ Said(c) = After(c, 2) + After(c, 4) /\ Said(c + 1) = After(c + 1, 2) + After(c + 1, 4)
        /\ Heard(c) = After(c, 3) /\ Heard(c + 1) = After(c + 1, 3)
        /\ Total = 1
    BY <1>1 DEF Sends, Got, Said, Heard, Total
  <2> QED
    BY <1>1, <2>0, <2>1, <2>2 DEF After
<1>2. CASE exch = "gfg"
  <2>0. /\ Len(CallerProgram(i)) = 3 /\ OpOf(i, 1) = "connect" /\ OpOf(i, 2) = "send" /\ OpOf(i, 3) = "recv"
    BY <1>2, CallerCalls, Zenon
  <2>1. c = 1 \/ c = 2 \/ c = 3
    BY <2>0
  <2>2. /\ Said(c) = After(c, 2) /\ Said(c + 1) = After(c + 1, 2)
        /\ Heard(c) = After(c, 3) /\ Heard(c + 1) = After(c + 1, 3)
        /\ Total = 1
    BY <1>2 DEF Sends, Got, Said, Heard, Total
  <2> QED
    BY <1>2, <2>0, <2>1, <2>2 DEF After
<1>3. CASE exch = "unix"
  <2>0. /\ Len(CallerProgram(i)) = 4 /\ OpOf(i, 1) = "connect" /\ OpOf(i, 2) = "recv" /\ OpOf(i, 3) = "send" /\ OpOf(i, 4) = "unlink"
    BY <1>3, CallerCalls, Zenon
  <2>1. c = 1 \/ c = 2 \/ c = 3 \/ c = 4
    BY <2>0
  <2>2. /\ Said(c) = After(c, 3) /\ Said(c + 1) = After(c + 1, 3)
        /\ Heard(c) = After(c, 2) /\ Heard(c + 1) = After(c + 1, 2)
        /\ Total = 1
    BY <1>3 DEF Sends, Got, Said, Heard, Total
  <2> QED
    BY <1>3, <2>0, <2>1, <2>2 DEF After
<1>4. CASE exch = "words"
  <2>0. /\ Len(CallerProgram(i)) = 2 /\ OpOf(i, 1) = "connect" /\ OpOf(i, 2) = "type"
    BY <1>4, CallerCalls, Zenon
  <2>1. c = 1 \/ c = 2
    BY <2>0
  <2>2. /\ Said(c) = After(c, 2) /\ Said(c + 1) = After(c + 1, 2)
        /\ Heard(c) = 0 /\ Heard(c + 1) = 0
        /\ Total = 0
    BY <1>4 DEF Sends, Got, Said, Heard, Total
  <2> QED
    BY <1>4, <2>0, <2>1, <2>2 DEF After
<1>5. CASE exch = "judge"
  <2>0. /\ Len(CallerProgram(i)) = 3 /\ OpOf(i, 1) = "connect" /\ OpOf(i, 2) = "send" /\ OpOf(i, 3) = "recv"
    BY <1>5, CallerCalls, Zenon
  <2>1. c = 1 \/ c = 2 \/ c = 3
    BY <2>0
  <2>2. /\ Said(c) = After(c, 2) /\ Said(c + 1) = After(c + 1, 2)
        /\ Heard(c) = After(c, 3) /\ Heard(c + 1) = After(c + 1, 3)
        /\ Total = 1
    BY <1>5 DEF Sends, Got, Said, Heard, Total
  <2> QED
    BY <1>5, <2>0, <2>1, <2>2 DEF After
<1>6. CASE exch = "names"
  <2>0. /\ Len(CallerProgram(i)) = 4 /\ OpOf(i, 1) = "connect" /\ OpOf(i, 2) = "recv" /\ OpOf(i, 3) = "send" /\ OpOf(i, 4) = "recv"
    BY <1>6, CallerCalls, Zenon
  <2>1. c = 1 \/ c = 2 \/ c = 3 \/ c = 4
    BY <2>0
  <2>2. /\ Said(c) = After(c, 3) /\ Said(c + 1) = After(c + 1, 3)
        /\ Heard(c) = After(c, 2) + After(c, 4) /\ Heard(c + 1) = After(c + 1, 2) + After(c + 1, 4)
        /\ Total = 2
    BY <1>6 DEF Sends, Got, Said, Heard, Total
  <2> QED
    BY <1>6, <2>0, <2>1, <2>2 DEF After
<1> QED
  BY <1>1, <1>2, <1>3, <1>4, <1>5, <1>6 DEF Known

(* A caller connects first, to its own port.                               *)
LEMMA CallerOrder ==
  ASSUME exch \in Known, NEW i \in Calls
  PROVE  /\ Len(CallerProgram(i)) \in Nat /\ Len(CallerProgram(i)) >= 2
         /\ CallerProgram(i)[1].on = Port(i) /\ Port(i) \in Ports /\ (exch = "names" \/ Port(i) = 1)
         /\ Said(2) = 0 /\ Heard(2) = 0 /\ Sends(1, i) = 0 /\ Got(1, i) = 0
<1>0. i \in {1, 2, 3}
  BY ExchangeConstants DEF Calls
<1>a. CallerProgram(i)[1].on = Port(i)
  BY CallerCalls
<1>1. CASE exch = "hello"
  <2>1. /\ Said(2) = After(2, 2) + After(2, 4) /\ Heard(2) = After(2, 3)
        /\ Sends(1, i) = After(1, 3) /\ Got(1, i) = After(1, 2) + After(1, 4)
    BY <1>1 DEF Sends, Got, Said, Heard, Total
  <2>2. /\ Len(CallerProgram(i)) = 4 /\ OpOf(i, 1) = "connect" /\ OpOf(i, 2) = "send" /\ OpOf(i, 3) = "recv" /\ OpOf(i, 4) = "send"
    BY <1>1, CallerCalls, Zenon
  <2> QED
    BY <1>0, <1>a, <1>1, <2>1, <2>2 DEF After, Port, Ports
<1>2. CASE exch = "gfg"
  <2>1. /\ Said(2) = After(2, 2) /\ Heard(2) = After(2, 3)
        /\ Sends(1, i) = After(1, 3) /\ Got(1, i) = After(1, 2)
    BY <1>2 DEF Sends, Got, Said, Heard, Total
  <2>2. /\ Len(CallerProgram(i)) = 3 /\ OpOf(i, 1) = "connect" /\ OpOf(i, 2) = "send" /\ OpOf(i, 3) = "recv"
    BY <1>2, CallerCalls, Zenon
  <2> QED
    BY <1>0, <1>a, <1>2, <2>1, <2>2 DEF After, Port, Ports
<1>3. CASE exch = "unix"
  <2>1. /\ Said(2) = After(2, 3) /\ Heard(2) = After(2, 2)
        /\ Sends(1, i) = After(1, 2) /\ Got(1, i) = After(1, 3)
    BY <1>3 DEF Sends, Got, Said, Heard, Total
  <2>2. /\ Len(CallerProgram(i)) = 4 /\ OpOf(i, 1) = "connect" /\ OpOf(i, 2) = "recv" /\ OpOf(i, 3) = "send" /\ OpOf(i, 4) = "unlink"
    BY <1>3, CallerCalls, Zenon
  <2> QED
    BY <1>0, <1>a, <1>3, <2>1, <2>2 DEF After, Port, Ports
<1>4. CASE exch = "words"
  <2>1. /\ Said(2) = After(2, 2) /\ Heard(2) = 0
        /\ Sends(1, i) = 0 /\ Got(1, i) = After(1, 2)
    BY <1>4 DEF Sends, Got, Said, Heard, Total
  <2>2. /\ Len(CallerProgram(i)) = 2 /\ OpOf(i, 1) = "connect" /\ OpOf(i, 2) = "type"
    BY <1>4, CallerCalls, Zenon
  <2> QED
    BY <1>0, <1>a, <1>4, <2>1, <2>2 DEF After, Port, Ports
<1>5. CASE exch = "judge"
  <2>1. /\ Said(2) = After(2, 2) /\ Heard(2) = After(2, 3)
        /\ Sends(1, i) = After(1, 5) /\ Got(1, i) = After(1, 2)
    BY <1>5 DEF Sends, Got, Said, Heard, Total
  <2>2. /\ Len(CallerProgram(i)) = 3 /\ OpOf(i, 1) = "connect" /\ OpOf(i, 2) = "send" /\ OpOf(i, 3) = "recv"
    BY <1>5, CallerCalls, Zenon
  <2> QED
    BY <1>0, <1>a, <1>5, <2>1, <2>2 DEF After, Port, Ports
<1>6. CASE exch = "names"
  <2>1. /\ Said(2) = After(2, 3) /\ Heard(2) = After(2, 2) + After(2, 4)
        /\ Sends(1, i) = After(1, 3 + i) + After(1, 9 + i) /\ Got(1, i) = After(1, 6 + i)
    BY <1>6 DEF Sends, Got, Said, Heard, Total
  <2>2. /\ Len(CallerProgram(i)) = 4 /\ OpOf(i, 1) = "connect" /\ OpOf(i, 2) = "recv" /\ OpOf(i, 3) = "send" /\ OpOf(i, 4) = "recv"
    BY <1>6, CallerCalls, Zenon
  <2> QED
    BY <1>0, <1>a, <1>6, <2>1, <2>2 DEF After, Port, Ports
<1> QED
  BY <1>1, <1>2, <1>3, <1>4, <1>5, <1>6 DEF Known

(* Why no two messages are under way: a side sends only when its last      *)
(* message has been taken.                                                 *)
LEMMA OneUnderWay ==
  ASSUME exch \in Known, NEW i \in Calls, NEW s \in 1..Len(ServerProgram),
         NEW c \in 2..Len(CallerProgram(i)),
         Sends(s, i) >= Heard(c), Said(c) >= Got(s, i)
  PROVE  /\ Op(s) = "send" /\ Of(s) = Port(i) => Sends(s, i) <= Heard(c)
         /\ OpOf(i, c) \in {"send", "type"} => Said(c) <= Got(s, i)
<1>0. i \in {1, 2, 3}
  BY ExchangeConstants DEF Calls
<1>1. CASE exch = "hello"
  <2>0. /\ Len(ServerProgram) = 4 /\ Op(1) = "accept" /\ Op(2) = "recv" /\ Op(3) = "send" /\ Op(4) = "recv"
        /\ Of(1) = 1 /\ Of(2) = 1 /\ Of(3) = 1 /\ Of(4) = 1
    BY <1>1, ServerCalls, Zenon
  <2>a. /\ Len(CallerProgram(i)) = 4 /\ OpOf(i, 1) = "connect" /\ OpOf(i, 2) = "send" /\ OpOf(i, 3) = "recv" /\ OpOf(i, 4) = "send"
    BY <1>1, CallerCalls, Zenon
  <2>1. (s = 1 \/ s = 2 \/ s = 3 \/ s = 4) /\ (c = 1 \/ c = 2 \/ c = 3 \/ c = 4)
    BY <2>0, <2>a
  <2>2. /\ Said(c) = After(c, 2) + After(c, 4) /\ Heard(c) = After(c, 3)
        /\ Sends(s, i) = After(s, 3) /\ Got(s, i) = After(s, 2) + After(s, 4)
    BY <1>1 DEF Sends, Got, Said, Heard, Total
  <2> QED
    BY <1>0, <1>1, <2>0, <2>a, <2>1, <2>2 DEF After, Port
<1>2. CASE exch = "gfg"
  <2>0. /\ Len(ServerProgram) = 3 /\ Op(1) = "accept" /\ Op(2) = "recv" /\ Op(3) = "send" /\ Of(1) = 1
        /\ Of(2) = 1 /\ Of(3) = 1
    BY <1>2, ServerCalls, Zenon
  <2>a. /\ Len(CallerProgram(i)) = 3 /\ OpOf(i, 1) = "connect" /\ OpOf(i, 2) = "send" /\ OpOf(i, 3) = "recv"
    BY <1>2, CallerCalls, Zenon
  <2>1. (s = 1 \/ s = 2 \/ s = 3) /\ (c = 1 \/ c = 2 \/ c = 3)
    BY <2>0, <2>a
  <2>2. /\ Said(c) = After(c, 2) /\ Heard(c) = After(c, 3)
        /\ Sends(s, i) = After(s, 3) /\ Got(s, i) = After(s, 2)
    BY <1>2 DEF Sends, Got, Said, Heard, Total
  <2> QED
    BY <1>0, <1>2, <2>0, <2>a, <2>1, <2>2 DEF After, Port
<1>3. CASE exch = "unix"
  <2>0. /\ Len(ServerProgram) = 3 /\ Op(1) = "accept" /\ Op(2) = "send" /\ Op(3) = "recv" /\ Of(1) = 1
        /\ Of(2) = 1 /\ Of(3) = 1
    BY <1>3, ServerCalls, Zenon
  <2>a. /\ Len(CallerProgram(i)) = 4 /\ OpOf(i, 1) = "connect" /\ OpOf(i, 2) = "recv" /\ OpOf(i, 3) = "send" /\ OpOf(i, 4) = "unlink"
    BY <1>3, CallerCalls, Zenon
  <2>1. (s = 1 \/ s = 2 \/ s = 3) /\ (c = 1 \/ c = 2 \/ c = 3 \/ c = 4)
    BY <2>0, <2>a
  <2>2. /\ Said(c) = After(c, 3) /\ Heard(c) = After(c, 2)
        /\ Sends(s, i) = After(s, 2) /\ Got(s, i) = After(s, 3)
    BY <1>3 DEF Sends, Got, Said, Heard, Total
  <2> QED
    BY <1>0, <1>3, <2>0, <2>a, <2>1, <2>2 DEF After, Port
<1>4. CASE exch = "words"
  <2>0. /\ Len(ServerProgram) = 3 /\ Op(1) = "accept" /\ Op(2) = "recv" /\ Op(3) = "again" /\ Of(1) = 1
        /\ Of(2) = 1 /\ Of(3) = 1
    BY <1>4, ServerCalls, Zenon
  <2>a. /\ Len(CallerProgram(i)) = 2 /\ OpOf(i, 1) = "connect" /\ OpOf(i, 2) = "type"
    BY <1>4, CallerCalls, Zenon
  <2>1. (s = 1 \/ s = 2 \/ s = 3) /\ (c = 1 \/ c = 2)
    BY <2>0, <2>a
  <2>2. /\ Said(c) = After(c, 2) /\ Heard(c) = 0
        /\ Sends(s, i) = 0 /\ Got(s, i) = After(s, 2)
    BY <1>4 DEF Sends, Got, Said, Heard, Total
  <2> QED
    BY <1>0, <1>4, <2>0, <2>a, <2>1, <2>2 DEF After, Port
<1>5. CASE exch = "judge"
  <2>0. /\ Len(ServerProgram) = 5 /\ Op(1) = "accept" /\ Op(2) = "recv" /\ Op(3) = "compile" /\ Op(4) = "run"
        /\ Op(5) = "send" /\ Of(1) = 1 /\ Of(2) = 1 /\ Of(3) = 1 /\ Of(4) = 1
        /\ Of(5) = 1
    BY <1>5, ServerCalls, Zenon
  <2>a. /\ Len(CallerProgram(i)) = 3 /\ OpOf(i, 1) = "connect" /\ OpOf(i, 2) = "send" /\ OpOf(i, 3) = "recv"
    BY <1>5, CallerCalls, Zenon
  <2>1. (s = 1 \/ s = 2 \/ s = 3 \/ s = 4 \/ s = 5) /\ (c = 1 \/ c = 2 \/ c = 3)
    BY <2>0, <2>a
  <2>2. /\ Said(c) = After(c, 2) /\ Heard(c) = After(c, 3)
        /\ Sends(s, i) = After(s, 5) /\ Got(s, i) = After(s, 2)
    BY <1>5 DEF Sends, Got, Said, Heard, Total
  <2> QED
    BY <1>0, <1>5, <2>0, <2>a, <2>1, <2>2 DEF After, Port
<1>6. CASE exch = "names"
  <2>0. /\ Len(ServerProgram) = 12 /\ Op(1) = "accept" /\ Op(2) = "accept" /\ Op(3) = "accept" /\ Op(4) = "send"
        /\ Op(5) = "send" /\ Op(6) = "send" /\ Op(7) = "recv" /\ Op(8) = "recv" /\ Op(9) = "recv"
        /\ Op(10) = "send" /\ Op(11) = "send" /\ Op(12) = "send" /\ Of(1) = 1 /\ Of(2) = 2
        /\ Of(3) = 3 /\ Of(4) = 1 /\ Of(5) = 2 /\ Of(6) = 3 /\ Of(7) = 1
        /\ Of(8) = 2 /\ Of(9) = 3 /\ Of(10) = 1 /\ Of(11) = 2 /\ Of(12) = 3
    BY <1>6, ServerCalls, Zenon
  <2>a. /\ Len(CallerProgram(i)) = 4 /\ OpOf(i, 1) = "connect" /\ OpOf(i, 2) = "recv" /\ OpOf(i, 3) = "send" /\ OpOf(i, 4) = "recv"
    BY <1>6, CallerCalls, Zenon
  <2>1. (s = 1 \/ s = 2 \/ s = 3 \/ s = 4 \/ s = 5 \/ s = 6 \/ s = 7 \/ s = 8 \/ s = 9 \/ s = 10 \/ s = 11 \/ s = 12) /\ (c = 1 \/ c = 2 \/ c = 3 \/ c = 4)
    BY <2>0, <2>a
  <2>2. /\ Said(c) = After(c, 3) /\ Heard(c) = After(c, 2) + After(c, 4)
        /\ Sends(s, i) = After(s, 3 + i) + After(s, 9 + i) /\ Got(s, i) = After(s, 6 + i)
    BY <1>6 DEF Sends, Got, Said, Heard, Total
  <2> QED
    BY <1>0, <1>6, <2>0, <2>a, <2>1, <2>2 DEF After, Port
<1> QED
  BY <1>1, <1>2, <1>3, <1>4, <1>5, <1>6 DEF Known


(* The counts after a step that leaves the program alone.                  *)
LEMMA CountsNext ==
  ASSUME exch' = exch, NEW i \in Calls
  PROVE  /\ Sends(Reached(i), i)' = Sends(Reached(i)', i)
         /\ Got(Reached(i), i)' = Got(Reached(i)', i)
         /\ Said(cpos[i])' = Said(cpos'[i]) /\ Heard(cpos[i])' = Heard(cpos'[i])
         /\ Total' = Total /\ Port(i)' = Port(i)
         /\ ServerProgram' = ServerProgram /\ CallerProgram(i)' = CallerProgram(i)
<1>1. Sends(Reached(i), i)' = Sends(Reached(i)', i)
  BY DEF Sends
<1>2. Got(Reached(i), i)' = Got(Reached(i)', i)
  BY DEF Got
<1>3. Said(cpos[i])' = Said(cpos'[i]) /\ Heard(cpos[i])' = Heard(cpos'[i])
  BY DEF Said, Heard
<1>4. Total' = Total /\ Port(i)' = Port(i)
  BY DEF Total, Port
<1>5. ServerProgram' = ServerProgram /\ CallerProgram(i)' = CallerProgram(i)
  BY DEF ServerProgram, CallerProgram
<1> QED
  BY <1>1, <1>2, <1>3, <1>4, <1>5

(* The place the server has reached for caller i is in its program.        *)
LEMMA ReachedIn ==
  ASSUME ExchIInv, NEW i \in Calls
  PROVE  Reached(i) \in 1..Len(ServerProgram)
<1>1. spos \in 0..Len(ServerProgram) /\ exch \in Known
  BY DEF ExchIInv, ExchTypes
<1>2. Len(ServerProgram) \in Nat /\ Len(ServerProgram) >= 3
  BY <1>1, ServerOrder
<1> QED
  BY <1>1, <1>2 DEF Reached, Alive

(* A step that leaves a caller and what the server owes it as they are.    *)
LEMMA CallerKept ==
  ASSUME NEW i \in Calls, Caller(i), exch' = exch, cpos'[i] = cpos[i], peer'[i] = peer[i],
         upward'[i] = upward[i], downward'[i] = downward[i], srun' = srun,
         i \in met' <=> i \in met, i \in short' <=> i \in short, killed' = killed,
         i \in stopped => i \in stopped',
         Alive(i)' <=> Alive(i),
         Alive(i) /\ i \in met /\ exch # "words" => slot'[Port(i)] = i,
         Alive(i) => /\ Sends(Reached(i)', i) = Sends(Reached(i), i)
                     /\ Got(Reached(i)', i) = Got(Reached(i), i)
  PROVE  Caller(i)'
<1>1. /\ Sends(Reached(i), i)' = Sends(Reached(i)', i)
      /\ Got(Reached(i), i)' = Got(Reached(i)', i)
      /\ Said(cpos[i])' = Said(cpos[i]) /\ Heard(cpos[i])' = Heard(cpos[i])
      /\ Total' = Total /\ Port(i)' = Port(i) /\ CallerProgram(i)' = CallerProgram(i)
  BY CountsNext
<1>2. Agreed(i, Len(upward[i]), Len(downward[i]))'
  BY <1>1 DEF Agreed, Caller
<1> QED
  BY <1>1, <1>2 DEF Caller


(* Who is served stays the same while the server does not move.            *)
LEMMA ServedKept ==
  ASSUME ExchTypes, Served, exch' = exch, spos' = spos, srun' = srun, slot' = slot, backlog' = backlog,
         met' = met, peer' = peer, \A i \in Calls : cpos[i] # 0 => cpos'[i] # 0
  PROVE  Served'
<1>0. slot \in [Ports -> Calls \cup {0}] /\ \A k \in Ports : backlog[k] \in Seq(Calls)
  BY DEF ExchTypes
<1>p. \A i : Port(i)' = Port(i)
  BY DEF Port
<1>1. ASSUME NEW k \in Ports, slot[k] # 0 PROVE cpos'[slot[k]] # 0 /\ Port(slot[k])' = Port(slot[k])
  BY <1>0, <1>1 DEF Served, Port
<1>2. ASSUME NEW k \in Ports, NEW e \in 1..Len(backlog[k])
      PROVE  cpos'[backlog[k][e]] # 0 /\ Port(backlog[k][e])' = Port(backlog[k][e])
  <2>1. backlog[k][e] \in Calls /\ cpos[backlog[k][e]] # 0
    BY <1>0, <1>2 DEF Served
  <2> QED
    BY <2>1 DEF Port
<1>3. \A k \in Ports : slot'[k] # 0 =>
       /\ spos' # 0 /\ peer'[slot'[k]] = srun' /\ slot'[k] \in met' /\ Port(slot[k])' = k
       /\ cpos'[slot'[k]] # 0
  BY <1>1 DEF Served
<1>4. \A k \in Ports : \A e \in 1..Len(backlog'[k]) :
       /\ spos' # 0 /\ peer'[backlog'[k][e]] = srun' /\ Port(backlog[k][e])' = k
       /\ cpos'[backlog'[k][e]] # 0
  BY <1>2 DEF Served
<1>5. /\ \A k \in Ports : (exch' = "names" \/ k = 1) /\ spos' > k => slot'[k] # 0
      /\ \A k \in Ports : exch' # "words" /\ spos' <= k => slot'[k] = 0
  BY DEF Served
<1> QED
  BY <1>3, <1>4, <1>5 DEF Served

(* When the server ends no slot and no backlog is left.                    *)
LEMMA ServedGone ==
  ASSUME ServerGone PROVE Served'
<1>1. /\ spos' = 0 /\ \A k \in Ports : slot'[k] = 0 /\ backlog'[k] = <<>>
  BY DEF ServerGone
<1>2. \A k \in Ports : k \in Nat /\ k >= 1
  BY DEF Ports
<1>3. \A k \in Ports : Len(backlog'[k]) = 0 /\ 1..0 = {}
  BY <1>1
<1>4. \A k \in Ports : 1..Len(backlog'[k]) = {}
  BY <1>3
<1> QED
  BY <1>1, <1>2, <1>4 DEF Served

(* The call after one that accepts nobody, or the end of the server.       *)
LEMMA ServedAdvance ==
  ASSUME ExchIInv, NEW rs, ServerAdvances(rs), spos # 0, Op(spos) # "accept", exch' = exch, srun' = srun,
         met' = met, peer' = peer, cpos' = cpos
  PROVE  Served' /\ spos' \in 0..Len(ServerProgram) /\ path' \in 0..srun
         /\ backlog' \in [Ports -> Seq(Calls)] /\ slot' \in [Ports -> Calls \cup {0}]
         /\ sockets' \in Nat /\ (exch = "words" => sockets' <= MaxSockets)
<1>t. ExchTypes /\ Served
  BY DEF ExchIInv
<1>0. /\ slot \in [Ports -> Calls \cup {0}] /\ backlog \in [Ports -> Seq(Calls)] /\ exch \in Known
      /\ spos \in 0..Len(ServerProgram) /\ path \in 0..srun /\ srun \in Nat /\ sockets \in Nat
      /\ exch = "words" => sockets <= MaxSockets
  BY <1>t DEF ExchTypes
<1>o. /\ Len(ServerProgram) \in Nat /\ spos \in 1..Len(ServerProgram)
      /\ spos > 1 /\ (exch = "names" => spos > 3)
  <2>1. Len(ServerProgram) \in Nat /\ spos \in 1..Len(ServerProgram)
    BY <1>0, ServerOrder
  <2> QED
    BY <2>1, <1>0, ServerOrder
<1>1. CASE spos = Len(ServerProgram)
  <2>1. ServerGone
    BY <1>1 DEF ServerAdvances
  <2>2. /\ spos' = 0 /\ path' = 0 /\ sockets' = 0
        /\ backlog' = [k \in Ports |-> <<>>] /\ slot' = [k \in Ports |-> 0]
    BY <2>1 DEF ServerGone
  <2>3. MaxSockets >= 0
    BY ExchangeConstants
  <2> QED
    BY <2>1, <2>2, <2>3, <1>0, <1>o, ServedGone
<1>2. CASE spos # Len(ServerProgram)
  <2>1. spos' = spos + 1 /\ path' = path /\ sockets' = sockets /\ backlog' = backlog /\ slot' = slot
    BY <1>2 DEF ServerAdvances
  <2>2. spos + 1 \in 0..Len(ServerProgram) /\ spos + 1 # 0
    BY <1>2, <1>o
  <2>3. \A k \in Ports : (exch' = "names" \/ k = 1) /\ spos' > k => slot'[k] # 0
    BY <2>1, <1>o, <1>t DEF Served, Ports
  <2>4. \A k \in Ports : exch' # "words" /\ spos' <= k => slot'[k] = 0
    BY <2>1, <1>o, <1>t DEF Served, Ports
  <2>5. \A k \in Ports : Port(slot[k])' = Port(slot[k])
    BY <2>1 DEF Port
  <2>6. \A k \in Ports : \A e \in 1..Len(backlog[k]) : Port(backlog[k][e])' = Port(backlog[k][e])
    BY <2>1 DEF Port
  <2>7. \A k \in Ports : slot'[k] # 0 =>
         /\ spos' # 0 /\ peer'[slot'[k]] = srun' /\ slot'[k] \in met' /\ Port(slot[k])' = k
         /\ cpos'[slot'[k]] # 0
    BY <2>1, <2>2, <2>5, <1>t DEF Served
  <2>8. \A k \in Ports : \A e \in 1..Len(backlog'[k]) :
         /\ spos' # 0 /\ peer'[backlog'[k][e]] = srun' /\ Port(backlog[k][e])' = k
         /\ cpos'[backlog'[k][e]] # 0
    BY <2>1, <2>2, <2>6, <1>t DEF Served
  <2>9. Served'
    BY <2>3, <2>4, <2>7, <2>8 DEF Served
  <2> QED
    BY <2>1, <2>2, <2>9, <1>0
<1> QED
  BY <1>1, <1>2


(* How far the server is with caller i after its present call.             *)
Done(i) == IF slot[Port(i)] = i THEN spos + 1 ELSE 1

(* Caller i after the server went one call further.                        *)
LEMMA CallerAfter ==
  ASSUME ExchIInv, NEW rs, ServerAdvances(rs), spos # 0, Op(spos) # "accept",
         exch = "words" => spos # Len(ServerProgram),
         exch' = exch, srun' = srun, met' = met, peer' = peer, cpos' = cpos,
         short' = short, killed' = killed, stopped' = stopped, NEW i \in Calls,
         Alive(i) /\ cpos[i] > 0 =>
           /\ Sends(Done(i), i) = Heard(cpos[i]) + Len(downward'[i])
           /\ Said(cpos[i]) = Got(Done(i), i) + Len(upward'[i]),
         Alive(i) /\ cpos[i] = -1 /\ i \notin stopped => Sends(Done(i), i) = Total,
         Len(upward'[i]) <= 1, Len(downward'[i]) <= 1,
         peer[i] = 0 => upward'[i] = <<>> /\ downward'[i] = <<>>,
         ~Alive(i) => downward'[i] = downward[i]
  PROVE  Caller(i)'
<1>0. /\ exch \in Known /\ spos \in 1..Len(ServerProgram) /\ Caller(i) /\ Served
      /\ Len(ServerProgram) \in Nat /\ slot \in [Ports -> Calls \cup {0}]
  <2>1. exch \in Known /\ spos \in 0..Len(ServerProgram) /\ Caller(i) /\ Served
        /\ slot \in [Ports -> Calls \cup {0}]
    BY DEF ExchIInv, ExchTypes
  <2> QED
    BY <2>1, ServerOrder
<1>n. /\ Sends(Reached(i), i)' = Sends(Reached(i)', i)
      /\ Got(Reached(i), i)' = Got(Reached(i)', i)
      /\ Said(cpos[i])' = Said(cpos[i]) /\ Heard(cpos[i])' = Heard(cpos[i])
      /\ Total' = Total /\ Port(i)' = Port(i) /\ CallerProgram(i)' = CallerProgram(i)
  BY CountsNext
<1>p. Port(i) \in Ports
  BY <1>0, CallerOrder
<1>1. CASE spos = Len(ServerProgram)
  <2>1. spos' = 0 /\ ~Alive(i)'
    BY <1>1 DEF ServerAdvances, ServerGone, Alive
  <2>2. ASSUME Alive(i), cpos[i] > 0, i \in met PROVE Heard(cpos[i]) + Len(downward'[i]) = Total
    <3>1. slot[Port(i)] = i
      BY <2>2, <1>0, <1>1 DEF Caller
    <3>2. Sends(spos + 1, i) = Total
      BY <1>0, <1>1, ServerTable
    <3> QED
      BY <2>2, <3>1, <3>2 DEF Done
  <2>3. ASSUME ~Alive(i), cpos[i] > 0, i \in met, peer[i] \notin killed
        PROVE  Heard(cpos[i]) + Len(downward'[i]) = Total
    BY <2>3, <1>0 DEF Caller, Agreed
  <2>4. Agreed(i, Len(upward[i]), Len(downward[i]))'
    BY <2>1, <2>2, <2>3, <1>n DEF Agreed
  <2> QED
    BY <2>1, <2>4, <1>0, <1>n DEF Caller
<1>2. CASE spos # Len(ServerProgram)
  <2>1. spos' = spos + 1 /\ slot' = slot /\ spos' # 0
    BY <1>2, <1>0 DEF ServerAdvances
  <2>2. Alive(i)' <=> Alive(i)
    BY <2>1 DEF Alive
  <2>3. Alive(i) => Reached(i)' = Done(i)
    BY <2>1, <2>2, <1>n DEF Reached, Done
  <2>4. Agreed(i, Len(upward[i]), Len(downward[i]))'
    BY <2>2, <2>3, <1>0, <1>n DEF Agreed, Caller
  <2> QED
    BY <2>1, <2>2, <2>4, <1>0, <1>n DEF Caller
<1> QED
  BY <1>1, <1>2

(* A call of the server that concerns only caller j leaves the others.     *)
LEMMA OthersAfter ==
  ASSUME ExchIInv, spos # 0, Op(spos) # "accept", NEW i \in Calls,
         Op(spos) \in {"send", "recv"} => slot[Of(spos)] # i
  PROVE  /\ Alive(i) /\ cpos[i] > 0 =>
              /\ Sends(Done(i), i) = Heard(cpos[i]) + Len(downward[i])
              /\ Said(cpos[i]) = Got(Done(i), i) + Len(upward[i])
         /\ Alive(i) /\ cpos[i] = -1 /\ i \notin stopped => Sends(Done(i), i) = Total
         /\ Len(upward[i]) <= 1 /\ Len(downward[i]) <= 1
         /\ peer[i] = 0 => upward[i] = <<>> /\ downward[i] = <<>>
<1>0. /\ exch \in Known /\ spos \in 1..Len(ServerProgram) /\ Caller(i) /\ Served
      /\ slot \in [Ports -> Calls \cup {0}]
  <2>1. exch \in Known /\ spos \in 0..Len(ServerProgram) /\ Caller(i) /\ Served
        /\ slot \in [Ports -> Calls \cup {0}]
    BY DEF ExchIInv, ExchTypes
  <2> QED
    BY <2>1, ServerOrder
<1>1. slot[Port(i)] = i => /\ Sends(spos + 1, i) = Sends(spos, i)
                           /\ Got(spos + 1, i) = Got(spos, i)
  BY <1>0, ServerTable
<1>2. Alive(i) => Sends(Done(i), i) = Sends(Reached(i), i) /\ Got(Done(i), i) = Got(Reached(i), i)
  BY <1>1 DEF Done, Reached
<1> QED
  BY <1>0, <1>2 DEF Caller, Agreed


(* The socket file after the server went one call further.                 *)
LEMMA PathAfter ==
  ASSUME ExchIInv, NEW rs, ServerAdvances(rs), spos # 0, Op(spos) # "accept", exch' = exch, srun' = srun
  PROVE  PathLeads'
<1>0. exch \in Known /\ spos \in 0..Len(ServerProgram) /\ PathLeads
  BY DEF ExchIInv, ExchTypes
<1>1. spos \in 1..Len(ServerProgram) /\ spos > 1
  BY <1>0, ServerOrder
<1>2. spos' = 0 \/ (spos' = spos + 1 /\ path' = path)
  BY DEF ServerAdvances, ServerGone
<1> QED
  BY <1>0, <1>1, <1>2 DEF PathLeads

(* The verdict after a call that is not the run of the judge.              *)
LEMMA JudgedAfter ==
  ASSUME ExchIInv, spos # 0, Op(spos) # "run", UNCHANGED judgeVars PROVE Judged'
<1>1. binary' = binary /\ judged' = judged /\ verdict' = verdict
  BY DEF judgeVars
<1>2. ~ServerAt("run") /\ Judged
  BY DEF ServerAt, Op, ExchIInv
<1>3. /\ verdict = "passed" => judged # "wrong"
      /\ verdict = "failed" => judged # "right"
  BY <1>2 DEF Judged, VerdictOnSource
<1> QED
  BY <1>1, <1>2, <1>3 DEF Judged, VerdictOnSource

(* The verdict while the server does not move.                             *)
LEMMA JudgedSame ==
  ASSUME ExchIInv, exch' = exch, spos' = spos, UNCHANGED judgeVars PROVE Judged'
<1>1. binary' = binary /\ judged' = judged /\ verdict' = verdict
  BY DEF judgeVars
<1>2. ServerAt("run")' <=> ServerAt("run")
  BY DEF ServerAt, ServerProgram
<1>3. Judged
  BY DEF ExchIInv
<1> QED
  BY <1>1, <1>2, <1>3 DEF Judged, VerdictOnSource

(* The caller that the server is in conversation with.                     *)
LEMMA TheCaller ==
  ASSUME ExchIInv, spos # 0, Op(spos) # "accept"
  PROVE  /\ On = Of(spos) /\ On \in Ports /\ slot[On] \in Calls
         /\ Port(slot[On]) = On /\ peer[slot[On]] = srun /\ cpos[slot[On]] # 0
         /\ Alive(slot[On]) /\ Reached(slot[On]) = spos /\ Done(slot[On]) = spos + 1
<1>0. /\ exch \in Known /\ spos \in 0..Len(ServerProgram) /\ Served
      /\ slot \in [Ports -> Calls \cup {0}]
  BY DEF ExchIInv, ExchTypes
<1>1. spos \in 1..Len(ServerProgram)
  BY <1>0, ServerOrder
<1>2. 1 \in Calls
  BY ExchangeConstants DEF Calls
<1>3. Of(spos) \in Ports /\ (exch = "names" \/ Of(spos) = 1) /\ spos > Of(spos)
  BY <1>0, <1>1, <1>2, ServerTable
<1>4. On = Of(spos)
  BY DEF On, Of
<1>5. slot[On] # 0
  BY <1>0, <1>3, <1>4 DEF Served
<1>6. /\ slot[On] \in Calls /\ Port(slot[On]) = On /\ peer[slot[On]] = srun /\ cpos[slot[On]] # 0
  BY <1>0, <1>3, <1>4, <1>5 DEF Served
<1> QED
  BY <1>3, <1>4, <1>6 DEF Alive, Reached, Done

(* The server receives.                                                    *)
LEMMA ServerRecvStep == ExchIInv /\ ServerRecv => ExchIInv'
<1> SUFFICES ASSUME ExchIInv, ServerRecv PROVE ExchIInv'
  OBVIOUS
<1>t. ExchTypes /\ Served /\ KilledFor /\ PathLeads /\ Judged /\ \A i \in Calls : Caller(i)
  BY DEF ExchIInv
<1>1. /\ spos # 0 /\ Op(spos) = "recv" /\ (upward[slot[On]] # <<>> \/ cpos[slot[On]] = -1)
      /\ upward' = [upward EXCEPT ![slot[On]] = <<>>] /\ ServerAdvances(reset)
      /\ exch' = exch /\ srun' = srun /\ cpos' = cpos /\ peer' = peer /\ downward' = downward
      /\ stopped' = stopped /\ killed' = killed /\ met' = met /\ short' = short /\ UNCHANGED judgeVars
  BY DEF ServerRecv, ServerAt, Op, callerVars
<1>2. /\ exch \in Known /\ spos \in 1..Len(ServerProgram) /\ upward \in [Calls -> Seq(Int)]
      /\ downward \in [Calls -> Seq(Int)] /\ srun \in Nat
      /\ cpos \in [Calls -> Int] /\ peer \in [Calls -> Nat]
  BY <1>1, <1>t, ServerOrder DEF ExchTypes
<1>j. PICK j \in Calls : j = slot[On]
  BY <1>1, TheCaller
<1>3. /\ On = Of(spos) /\ Port(j) = On /\ cpos[j] # 0 /\ peer[j] = srun
      /\ Alive(j) /\ Reached(j) = spos /\ Done(j) = spos + 1
  BY <1>1, <1>j, TheCaller
<1>c. Caller(j) /\ Agreed(j, Len(upward[j]), Len(downward[j]))
  BY <1>3, <1>t DEF Caller
<1>l. Len(upward[j]) \in Nat /\ Len(downward[j]) \in Nat /\ (upward[j] # <<>> => Len(upward[j]) >= 1)
  BY <1>2, <1>3
<1>u. Len(upward[j]) <= 1
  BY <1>c DEF Agreed
<1>4. ~joined'
  <2>1. joined' = (joined \/ Len(upward[slot[On]]) > 1)
    BY DEF ServerRecv
  <2>2. ~(Len(upward[slot[On]]) > 1)
    BY <1>l, <1>u, <1>j
  <2>3. ~joined
    BY <1>t DEF KilledFor
  <2> QED
    BY <2>1, <2>2, <2>3
<1>5. /\ upward'[j] = <<>> /\ upward' \in [Calls -> Seq(Int)]
      /\ \A i \in Calls : i # j => upward'[i] = upward[i]
  BY <1>1, <1>2, <1>j
<1>s. spos' = 0 \/ reset' = reset
  BY <1>1 DEF ServerAdvances, ServerGone
<1>r. reset' = {} \/ reset' = reset
  BY <1>1 DEF ServerAdvances, ServerGone
<1>6. Served' /\ spos' \in 0..Len(ServerProgram) /\ path' \in 0..srun
      /\ backlog' \in [Ports -> Seq(Calls)] /\ slot' \in [Ports -> Calls \cup {0}]
      /\ sockets' \in Nat /\ (exch = "words" => sockets' <= MaxSockets)
  BY <1>1, ServedAdvance
<1>7. ExchTypes'
  <2>1. ServerProgram' = ServerProgram
    BY <1>1 DEF ServerProgram
  <2> QED
    BY <1>1, <1>2, <1>5, <1>6, <2>1 DEF ExchTypes
<1>8. spos' # 0 => spos # 0
  BY <1>1
<1>9. KilledFor'
  <2>1. \A r \in killed : r \in 1..srun /\ r # srun
    BY <1>1, <1>t DEF KilledFor
  <2>2. reset' # {} \/ killed' # {} => stopped' # {}
    BY <1>1, <1>r, <1>t DEF KilledFor
  <2>3. spos' # 0 => srun' # 0
    BY <1>1, <1>t DEF KilledFor
  <2>4. \A r \in killed' : r \in 1..srun' /\ (r = srun' => spos' = 0)
    BY <2>1, <1>1
  <2> QED
    BY <2>2, <2>3, <2>4, <1>4 DEF KilledFor
<1>10. PathLeads'
  BY <1>1, PathAfter
<1>11. Judged'
  BY <1>1, JudgedAfter
<1>12. ASSUME NEW i \in Calls, i # j PROVE Caller(i)'
  <2>1. slot[Of(spos)] # i
    BY <1>3, <1>j, <1>12
  <2>2. /\ Alive(i) /\ cpos[i] > 0 =>
              /\ Sends(Done(i), i) = Heard(cpos[i]) + Len(downward[i])
              /\ Said(cpos[i]) = Got(Done(i), i) + Len(upward[i])
        /\ Alive(i) /\ cpos[i] = -1 /\ i \notin stopped => Sends(Done(i), i) = Total
        /\ Len(upward[i]) <= 1 /\ Len(downward[i]) <= 1
        /\ peer[i] = 0 => upward[i] = <<>> /\ downward[i] = <<>>
    BY <1>1, <2>1, OthersAfter
  <2>3. upward'[i] = upward[i] /\ downward'[i] = downward[i]
    BY <1>1, <1>5, <1>12
  <2>4. exch = "words" => spos # Len(ServerProgram)
    BY <1>1, <1>2, ServerOrder
  <2> QED
    BY <1>1, <2>2, <2>3, <2>4, CallerAfter
<1>13. Caller(j)'
  <2>1. /\ Sends(spos + 1, j) = Sends(spos, j) /\ Got(spos + 1, j) = Got(spos, j) + 1
        /\ Sends(spos, j) \in Nat /\ Got(spos, j) \in Nat
    <3>1. Op(spos) = "recv" /\ Port(j) = Of(spos) /\ exch \in Known /\ spos \in 1..Len(ServerProgram)
      BY <1>1, <1>2, <1>3
    <3> QED
      BY <3>1, ServerTable
  <2>2. Len(upward'[j]) = 0 /\ downward'[j] = downward[j]
    BY <1>1, <1>5
  <2>3. cpos[j] > 0 =>
              /\ Sends(Done(j), j) = Heard(cpos[j]) + Len(downward'[j])
              /\ Said(cpos[j]) = Got(Done(j), j) + Len(upward'[j])
    <3> SUFFICES ASSUME cpos[j] > 0
                 PROVE  /\ Sends(Done(j), j) = Heard(cpos[j]) + Len(downward'[j])
                        /\ Said(cpos[j]) = Got(Done(j), j) + Len(upward'[j])
      OBVIOUS
    <3>1. upward[j] # <<>>
      BY <1>1, <1>j
    <3>2. Len(upward[j]) = 1
      <4> DEFINE n == Len(upward[j])
      <4>1. n \in Nat /\ n >= 1 /\ n <= 1
        BY <3>1, <1>l, <1>u
      <4> HIDE DEF n
      <4>2. n = 1
        BY <4>1
      <4> QED
        BY <4>2 DEF n
    <3>3. Sends(spos, j) = Heard(cpos[j]) + Len(downward[j]) /\ Said(cpos[j]) = Got(spos, j) + 1
      BY <3>2, <1>3, <1>c DEF Agreed
    <3> QED
      BY <3>3, <2>1, <2>2, <1>3
  <2>4. cpos[j] = -1 /\ j \notin stopped => Sends(Done(j), j) = Total
    BY <2>1, <1>3, <1>c DEF Agreed
  <2>5. exch = "words" => spos # Len(ServerProgram)
    BY <1>1, <1>2, ServerOrder
  <2>6. Len(downward'[j]) <= 1 /\ (peer[j] = 0 => downward'[j] = <<>>)
    BY <2>2, <1>c DEF Agreed, Caller
  <2> QED
    BY <1>1, <1>3, <1>5, <2>2, <2>3, <2>4, <2>5, <2>6, CallerAfter
<1> QED
  BY <1>6, <1>7, <1>9, <1>10, <1>11, <1>12, <1>13 DEF ExchIInv


(* The server sends; a caller that was stopped costs it a SIGPIPE.         *)
LEMMA ServerSendStep == ExchIInv /\ ServerSend => ExchIInv'
<1> SUFFICES ASSUME ExchIInv, ServerSend PROVE ExchIInv'
  OBVIOUS
<1>t. ExchTypes /\ Served /\ KilledFor /\ PathLeads /\ Judged /\ \A i \in Calls : Caller(i)
  BY DEF ExchIInv
<1>1. /\ spos # 0 /\ Op(spos) = "send"
      /\ exch' = exch /\ srun' = srun /\ cpos' = cpos /\ peer' = peer /\ upward' = upward
      /\ stopped' = stopped /\ met' = met /\ short' = short /\ UNCHANGED judgeVars
  BY DEF ServerSend, ServerAt, Op, callerVars
<1>a. joined' = joined
  BY DEF ServerSend
<1>2. /\ exch \in Known /\ spos \in 1..Len(ServerProgram) /\ upward \in [Calls -> Seq(Int)]
      /\ downward \in [Calls -> Seq(Int)] /\ srun \in Nat
      /\ cpos \in [Calls -> Int] /\ peer \in [Calls -> Nat]
  BY <1>1, <1>t, ServerOrder DEF ExchTypes
<1>w. exch # "words"
  BY <1>1, <1>2, ServerOrder
<1>j. PICK j \in Calls : j = slot[On]
  BY <1>1, TheCaller
<1>3. /\ On = Of(spos) /\ Port(j) = On /\ cpos[j] # 0 /\ peer[j] = srun
      /\ Alive(j) /\ Reached(j) = spos /\ Done(j) = spos + 1
  BY <1>1, <1>j, TheCaller
<1>c. Caller(j) /\ Agreed(j, Len(upward[j]), Len(downward[j]))
  BY <1>t DEF Caller
<1>l. Len(upward[j]) \in Nat /\ Len(downward[j]) \in Nat
  BY <1>2
<1>4. /\ Sends(spos + 1, j) = Sends(spos, j) + 1 /\ Got(spos + 1, j) = Got(spos, j)
      /\ Sends(spos, j) \in Nat /\ Got(spos, j) \in Nat /\ Sends(spos, j) < Total
  <2>1. Op(spos) = "send" /\ Port(j) = Of(spos) /\ exch \in Known /\ spos \in 1..Len(ServerProgram)
    BY <1>1, <1>2, <1>3
  <2> QED
    BY <2>1, ServerTable
<1>5. cpos[j] = -1 => j \in stopped
  BY <1>3, <1>4, <1>c DEF Agreed
<1>6. \/ /\ cpos[j] # -1 /\ downward' = [downward EXCEPT ![j] = Append(@, spos)]
         /\ ServerAdvances(reset) /\ killed' = killed
      \/ /\ cpos[j] = -1 /\ downward' = downward
         /\ ServerAdvances(reset \cup {j}) /\ killed' = killed
      \/ /\ cpos[j] = -1 /\ downward' = downward
         /\ j \in reset /\ ServerGone /\ killed' = killed \cup {srun}
  BY <1>j DEF ServerSend
<1>7. Judged'
  BY <1>1, JudgedAfter
<1>k. /\ ~joined' /\ srun # 0 /\ (\A r \in killed : r \in 1..srun /\ r # srun)
  <2>1. srun # 0 /\ \A r \in killed : r \in 1..srun /\ r # srun
    BY <1>1, <1>t DEF KilledFor
  <2>2. ~joined
    BY <1>t DEF KilledFor
  <2> QED
    BY <2>1, <2>2, <1>a
<1>p. ServerProgram' = ServerProgram
  BY <1>1 DEF ServerProgram
<1>8. ASSUME NEW rs, ServerAdvances(rs), killed' = killed, downward' \in [Calls -> Seq(Int)],
             \A i \in Calls : i # j => downward'[i] = downward[i],
             rs # {} => stopped # {},
             cpos[j] > 0 => Len(downward'[j]) = Len(downward[j]) + 1,
             cpos[j] = -1 => downward'[j] = downward[j]
      PROVE  ExchIInv'
  <2>1. Served' /\ spos' \in 0..Len(ServerProgram) /\ path' \in 0..srun
        /\ backlog' \in [Ports -> Seq(Calls)] /\ slot' \in [Ports -> Calls \cup {0}]
        /\ sockets' \in Nat /\ (exch = "words" => sockets' <= MaxSockets)
    BY <1>1, <1>8, ServedAdvance
  <2>2. ExchTypes'
    BY <1>1, <1>2, <1>8, <1>p, <2>1 DEF ExchTypes
  <2>3. PathLeads'
    BY <1>1, <1>8, PathAfter
  <2>4. reset' = {} \/ reset' = rs
    BY <1>8 DEF ServerAdvances, ServerGone
  <2>5. KilledFor'
    <3>1. reset' # {} \/ killed' # {} => stopped' # {}
      BY <1>1, <1>8, <1>t, <2>4 DEF KilledFor
    <3>2. \A r \in killed' : r \in 1..srun' /\ (r = srun' => spos' = 0)
      BY <1>1, <1>8, <1>k
    <3>3. spos' # 0 => srun' # 0
      BY <1>1, <1>k
    <3> QED
      BY <3>1, <3>2, <3>3, <1>k DEF KilledFor
  <2>6. ASSUME NEW i \in Calls, i # j PROVE Caller(i)'
    <3>1. slot[Of(spos)] # i
      BY <1>3, <1>j, <2>6
    <3>2. /\ Alive(i) /\ cpos[i] > 0 =>
                /\ Sends(Done(i), i) = Heard(cpos[i]) + Len(downward[i])
                /\ Said(cpos[i]) = Got(Done(i), i) + Len(upward[i])
          /\ Alive(i) /\ cpos[i] = -1 /\ i \notin stopped => Sends(Done(i), i) = Total
          /\ Len(upward[i]) <= 1 /\ Len(downward[i]) <= 1
          /\ peer[i] = 0 => upward[i] = <<>> /\ downward[i] = <<>>
      BY <1>1, <3>1, OthersAfter
    <3>3. upward'[i] = upward[i] /\ downward'[i] = downward[i]
      BY <1>1, <1>8, <2>6
    <3> QED
      BY <1>1, <1>8, <1>w, <3>2, <3>3, CallerAfter
  <2>7. Caller(j)'
    <3> DEFINE u == Len(upward[j])  d == Len(downward[j])  d2 == Len(downward'[j])
    <3>1. upward'[j] = upward[j] /\ u <= 1 /\ d <= 1 /\ u \in Nat /\ d \in Nat
      BY <1>1, <1>l, <1>c DEF Agreed
    <3>2. cpos[j] > 0 =>
            /\ Sends(Done(j), j) = Heard(cpos[j]) + d2
            /\ Said(cpos[j]) = Got(Done(j), j) + u
            /\ d2 <= 1
      <4> SUFFICES ASSUME cpos[j] > 0
                   PROVE  /\ Sends(Done(j), j) = Heard(cpos[j]) + d2
                          /\ Said(cpos[j]) = Got(Done(j), j) + u
                          /\ d2 <= 1
        OBVIOUS
      <4>1. Sends(spos, j) = Heard(cpos[j]) + d /\ Said(cpos[j]) = Got(spos, j) + u
        BY <1>3, <1>c DEF Agreed
      <4>2. d2 = d + 1
        BY <1>8
      <4>3. cpos[j] \in 2..Len(CallerProgram(j))
        BY <1>c DEF Caller
      <4>4. Heard(cpos[j]) \in Nat /\ Said(cpos[j]) \in Nat
        <5>1. cpos[j] \in 1..Len(CallerProgram(j))
          BY <4>3, <1>2, CallerOrder
        <5> QED
          BY <5>1, <1>2, CallerTable
      <4> HIDE DEF u, d, d2
      <4>5. Sends(spos, j) >= Heard(cpos[j]) /\ Said(cpos[j]) >= Got(spos, j)
        BY <4>1, <4>4, <1>4, <3>1
      <4>6. Op(spos) = "send" /\ Of(spos) = Port(j) /\ exch \in Known /\ spos \in 1..Len(ServerProgram)
        BY <1>1, <1>2, <1>3
      <4>7. Sends(spos, j) <= Heard(cpos[j])
        BY <4>3, <4>5, <4>6, OneUnderWay
      <4> QED
        BY <4>1, <4>2, <4>4, <4>7, <1>3, <1>4, <3>1
    <3>3. cpos[j] = -1 => d2 = d /\ j \in stopped
      BY <1>5, <1>8
    <3>4. cpos[j] > 0 \/ cpos[j] = -1
      BY <1>3, <1>c, <1>2, CallerOrder DEF Caller
    <3>5. d2 <= 1 /\ peer[j] # 0
      BY <3>1, <3>2, <3>3, <3>4, <1>k, <1>3
    <3> QED
      BY <1>1, <1>3, <1>8, <1>w, <3>1, <3>2, <3>3, <3>5, CallerAfter
  <2> QED
    BY <1>7, <2>1, <2>2, <2>3, <2>5, <2>6, <2>7 DEF ExchIInv
<1>9. CASE /\ cpos[j] # -1 /\ downward' = [downward EXCEPT ![j] = Append(@, spos)]
           /\ ServerAdvances(reset) /\ killed' = killed
  <2>1. /\ downward' \in [Calls -> Seq(Int)] /\ Len(downward'[j]) = Len(downward[j]) + 1
        /\ \A i \in Calls : i # j => downward'[i] = downward[i]
    <3>1. downward'[j] = Append(downward[j], spos) /\ \A i \in Calls : i # j => downward'[i] = downward[i]
      BY <1>9, <1>2
    <3>2. downward[j] \in Seq(Int) /\ spos \in Int
      BY <1>2
    <3>3. Append(downward[j], spos) \in Seq(Int) /\ Len(Append(downward[j], spos)) = Len(downward[j]) + 1
      BY <3>2, AppendProperties
    <3> QED
      BY <3>1, <3>3, <1>9, <1>2
  <2>2. reset # {} => stopped # {}
    BY <1>t DEF KilledFor
  <2> QED
    BY <2>1, <2>2, <1>8, <1>9
<1>10. CASE /\ cpos[j] = -1 /\ downward' = downward
            /\ ServerAdvances(reset \cup {j}) /\ killed' = killed
  <2>1. /\ downward' \in [Calls -> Seq(Int)] /\ \A i \in Calls : downward'[i] = downward[i]
    BY <1>2, <1>10
  <2>2. stopped # {} /\ ~(cpos[j] > 0)
    BY <1>5, <1>10
  <2> DEFINE rs == reset \cup {j}
  <2>3. ServerAdvances(rs) /\ killed' = killed
    BY <1>10
  <2> HIDE DEF rs
  <2> QED
    BY <2>1, <2>2, <2>3, <1>8
<1>11. CASE /\ cpos[j] = -1 /\ downward' = downward
            /\ j \in reset /\ ServerGone /\ killed' = killed \cup {srun}
  <2>1. /\ spos' = 0 /\ path' = 0 /\ sockets' = 0 /\ reset' = {}
        /\ backlog' = [k \in Ports |-> <<>>] /\ slot' = [k \in Ports |-> 0]
    BY <1>11 DEF ServerGone
  <2>2. Served'
    BY <1>11, ServedGone
  <2>3. ExchTypes'
    <3>1. backlog' \in [Ports -> Seq(Calls)] /\ slot' \in [Ports -> Calls \cup {0}]
      BY <2>1
    <3>2. 0 \in 0..Len(ServerProgram) /\ 0 \in 0..srun
      BY <1>2, ServerOrder
    <3> QED
      BY <1>1, <1>2, <1>p, <1>w, <1>11, <2>1, <3>1, <3>2 DEF ExchTypes
  <2>4. KilledFor'
    <3>1. stopped # {}
      BY <1>11, <1>t DEF KilledFor
    <3>2. \A r \in killed' : r \in 1..srun' /\ (r = srun' => spos' = 0)
      BY <1>1, <1>2, <1>k, <1>11, <2>1
    <3> QED
      BY <1>1, <1>k, <2>1, <3>1, <3>2 DEF KilledFor
  <2>5. PathLeads'
    BY <2>1 DEF PathLeads
  <2>6. ASSUME NEW i \in Calls PROVE Caller(i)'
    <3>1. ~Alive(i)'
      BY <2>1 DEF Alive
    <3>2. /\ Heard(cpos[i])' = Heard(cpos[i]) /\ Total' = Total /\ CallerProgram(i)' = CallerProgram(i)
      BY <1>1, CountsNext
    <3>3. ~Alive(i) \/ peer[i] \in killed'
      BY <1>11, <1>1 DEF Alive
    <3>4. Caller(i)
      BY <1>t
    <3>5. Agreed(i, Len(upward[i]), Len(downward[i]))'
      BY <3>1, <3>2, <3>3, <3>4, <1>1, <1>11 DEF Agreed, Caller
    <3> QED
      BY <3>1, <3>2, <3>4, <3>5, <1>1, <1>11 DEF Caller
  <2> QED
    BY <1>7, <2>2, <2>3, <2>4, <2>5, <2>6 DEF ExchIInv
<1> QED
  BY <1>6, <1>9, <1>10, <1>11


(* g++ and the test, between two calls of the protocol.                    *)
LEMMA JudgeSteps == ExchIInv /\ (Compile \/ RunTest) => ExchIInv'
<1> SUFFICES ASSUME ExchIInv, Compile \/ RunTest PROVE ExchIInv'
  OBVIOUS
<1>t. ExchTypes /\ Served /\ KilledFor /\ PathLeads /\ Judged /\ \A i \in Calls : Caller(i)
  BY DEF ExchIInv
<1>1. /\ spos # 0 /\ Op(spos) \in {"compile", "run"} /\ spos' = spos + 1
      /\ exch' = exch /\ srun' = srun /\ cpos' = cpos /\ peer' = peer /\ upward' = upward
      /\ downward' = downward /\ stopped' = stopped /\ met' = met /\ short' = short /\ killed' = killed
      /\ path' = path /\ backlog' = backlog /\ slot' = slot /\ sockets' = sockets /\ reset' = reset
  BY DEF Compile, RunTest, ServerAt, Op, callerVars, history
<1>a. joined' = joined
  BY DEF Compile, RunTest, history
<1>2. /\ exch \in Known /\ spos \in 1..Len(ServerProgram) /\ upward \in [Calls -> Seq(Int)]
      /\ downward \in [Calls -> Seq(Int)] /\ srun \in Nat
      /\ cpos \in [Calls -> Int] /\ peer \in [Calls -> Nat]
  BY <1>1, <1>t, ServerOrder DEF ExchTypes
<1>3. 1 \in Calls
  BY ExchangeConstants DEF Calls
<1>4. spos # Len(ServerProgram)
  BY <1>1, <1>2, <1>3, ServerTable
<1>5. ServerAdvances(reset)
  BY <1>1, <1>4 DEF ServerAdvances
<1>6. Served' /\ spos' \in 0..Len(ServerProgram)
  BY <1>1, <1>5, ServedAdvance
<1>7. ExchTypes'
  <2>1. ServerProgram' = ServerProgram
    BY <1>1 DEF ServerProgram
  <2> QED
    BY <1>1, <1>t, <1>6, <2>1 DEF ExchTypes
<1>8. KilledFor'
  BY <1>1, <1>a, <1>t DEF KilledFor
<1>9. PathLeads'
  BY <1>1, <1>5, PathAfter
<1>10. ASSUME NEW i \in Calls PROVE Caller(i)'
  <2>1. /\ Alive(i) /\ cpos[i] > 0 =>
              /\ Sends(Done(i), i) = Heard(cpos[i]) + Len(downward[i])
              /\ Said(cpos[i]) = Got(Done(i), i) + Len(upward[i])
        /\ Alive(i) /\ cpos[i] = -1 /\ i \notin stopped => Sends(Done(i), i) = Total
        /\ Len(upward[i]) <= 1 /\ Len(downward[i]) <= 1
        /\ peer[i] = 0 => upward[i] = <<>> /\ downward[i] = <<>>
    BY <1>1, OthersAfter
  <2> QED
    BY <1>1, <1>4, <1>5, <2>1, CallerAfter
<1>11. Judged'
  <2>1. CASE Compile
    <3>1. PICK src \in {"right", "wrong", "broken"} : judged' = src /\ binary' = Compiled(src)
      BY <2>1 DEF Compile
    <3>2. binary' \in {"none", "right", "wrong"} /\ (judged' \in {"right", "wrong"} => binary' = judged')
      BY <3>1, <1>t DEF Compiled, Judged
    <3>3. Op(spos) = "compile"
      BY <2>1 DEF Compile, ServerAt, Op
    <3>4. Op(spos + 1) = "run"
      BY <1>2, <3>3, ServerOrder
    <3>5. ServerAt("run")'
      <4>1. ServerProgram' = ServerProgram
        BY <1>1 DEF ServerProgram
      <4> QED
        BY <3>4, <4>1, <1>1, <1>2 DEF ServerAt, Op
    <3> QED
      BY <3>2, <3>5 DEF Judged, VerdictOnSource
  <2>2. CASE RunTest
    <3>1. /\ verdict' = (IF binary = "right" THEN "passed" ELSE "failed")
          /\ binary' = binary /\ judged' = judged
      BY <2>2 DEF RunTest, compareTestCase
    <3> QED
      BY <3>1, <1>t DEF Judged, VerdictOnSource
  <2> QED
    BY <2>1, <2>2
<1> QED
  BY <1>6, <1>7, <1>8, <1>9, <1>10, <1>11 DEF ExchIInv

(* The iterative server asks for the next word.                            *)
LEMMA NextWordStep == ExchIInv /\ NextWord => ExchIInv'
<1> SUFFICES ASSUME ExchIInv, NextWord PROVE ExchIInv'
  OBVIOUS
<1>t. ExchTypes /\ Served /\ KilledFor /\ PathLeads /\ Judged /\ \A i \in Calls : Caller(i)
  BY DEF ExchIInv
<1>1. /\ spos # 0 /\ Op(spos) = "again" /\ spos' = 1
      /\ exch' = exch /\ srun' = srun /\ cpos' = cpos /\ peer' = peer /\ upward' = upward
      /\ downward' = downward /\ stopped' = stopped /\ met' = met /\ short' = short /\ killed' = killed
      /\ path' = path /\ backlog' = backlog /\ slot' = slot /\ sockets' = sockets /\ reset' = reset
      /\ UNCHANGED judgeVars
  BY DEF NextWord, ServerAt, Op, callerVars, history
<1>a. joined' = joined
  BY DEF NextWord, history
<1>2. /\ exch \in Known /\ spos \in 1..Len(ServerProgram) /\ Len(ServerProgram) \in Nat
      /\ Len(ServerProgram) >= 3
  BY <1>1, <1>t, ServerOrder DEF ExchTypes
<1>3. exch = "words"
  BY <1>1, <1>2, ServerOrder
<1>4. ExchTypes'
  <2>1. ServerProgram' = ServerProgram
    BY <1>1 DEF ServerProgram
  <2>2. 1 \in 0..Len(ServerProgram)
    BY <1>2
  <2> QED
    BY <1>1, <1>t, <2>1, <2>2 DEF ExchTypes
<1>5. Served'
  <2>1. \A k \in Ports : Port(slot[k])' = Port(slot[k])
    BY <1>1 DEF Port
  <2>2. \A k \in Ports : \A e \in 1..Len(backlog[k]) : Port(backlog[k][e])' = Port(backlog[k][e])
    BY <1>1 DEF Port
  <2>3. \A k \in Ports : ~(spos' > k)
    BY <1>1 DEF Ports
  <2> QED
    BY <1>1, <1>3, <1>t, <2>1, <2>2, <2>3 DEF Served
<1>6. KilledFor'
  BY <1>1, <1>a, <1>t DEF KilledFor
<1>7. PathLeads'
  BY <1>1, <1>3, <1>t DEF PathLeads
<1>8. Judged'
  BY <1>1, JudgedAfter
<1>9. ASSUME NEW i \in Calls PROVE Caller(i)'
  <2>0. Caller(i) /\ Agreed(i, Len(upward[i]), Len(downward[i]))
    BY <1>t DEF Caller
  <2>1. Alive(i)' <=> Alive(i)
    BY <1>1 DEF Alive
  <2>2. Reached(i)' = 1
    BY <1>1 DEF Reached
  <2>3. /\ Sends(Reached(i), i)' = Sends(1, i)
        /\ Got(Reached(i), i)' = Got(1, i)
        /\ Said(cpos[i])' = Said(cpos[i]) /\ Heard(cpos[i])' = Heard(cpos[i])
        /\ Total' = Total /\ Port(i)' = Port(i) /\ CallerProgram(i)' = CallerProgram(i)
    BY <1>1, <2>2, CountsNext
  <2>4. Sends(1, i) = 0 /\ Sends(Reached(i), i) = 0 /\ Total = 0 /\ Got(1, i) = 0
    BY <1>3 DEF Sends, Total, Got, After
  <2>5. cpos[i] > 0 => Said(cpos[i]) = 0
    <3>1. cpos[i] > 0 => cpos[i] \in 2..Len(CallerProgram(i))
      BY <2>0 DEF Caller
    <3>2. Len(CallerProgram(i)) = 2
      BY <1>2, <1>3, CallerCalls, Zenon
    <3>3. cpos[i] > 0 => cpos[i] = 2
      BY <3>1, <3>2
    <3> QED
      BY <3>3, <1>2, CallerOrder
  <2>6. Got(Reached(i), i) \in Nat
    <3>1. Reached(i) \in 1..Len(ServerProgram)
      BY ReachedIn
    <3> QED
      BY <3>1, <1>2, ServerTable
  <2>7. Len(upward[i]) \in Nat
    BY <1>t DEF ExchTypes
  <2>8. Agreed(i, Len(upward[i]), Len(downward[i]))'
    BY <2>0, <2>1, <2>3, <2>4, <2>5, <2>6, <2>7, <1>1 DEF Agreed
  <2> QED
    BY <2>0, <2>1, <2>3, <2>8, <1>1, <1>3 DEF Caller
<1> QED
  BY <1>4, <1>5, <1>6, <1>7, <1>8, <1>9 DEF ExchIInv

(* The server is started, also once more.                                  *)
LEMMA StartServerStep == ExchIInv /\ StartServer => ExchIInv'
<1> SUFFICES ASSUME ExchIInv, StartServer PROVE ExchIInv'
  OBVIOUS
<1>t. ExchTypes /\ Served /\ KilledFor /\ PathLeads /\ Judged /\ \A i \in Calls : Caller(i)
  BY DEF ExchIInv
<1>1. /\ spos = 0 /\ spos' = 1 /\ srun' = srun + 1
      /\ exch' = exch /\ cpos' = cpos /\ peer' = peer /\ upward' = upward
      /\ downward' = downward /\ stopped' = stopped /\ met' = met /\ short' = short /\ killed' = killed
      /\ backlog' = backlog /\ slot' = slot /\ sockets' = sockets /\ reset' = reset
      /\ binary' = binary /\ judged' = judged /\ verdict' = verdict
  BY DEF StartServer, callerVars, history, judgeVars
<1>a. joined' = joined
  BY DEF StartServer, history
<1>b. path' = srun + 1 \/ (path' = 0 /\ srun > 0)
  BY DEF StartServer
<1>2. /\ exch \in Known /\ srun \in Nat /\ Len(ServerProgram) \in Nat /\ Len(ServerProgram) >= 3
      /\ cpos \in [Calls -> Int] /\ peer \in [Calls -> Nat]
  BY <1>t, ServerOrder DEF ExchTypes
<1>4. ExchTypes'
  <2>1. ServerProgram' = ServerProgram
    BY <1>1 DEF ServerProgram
  <2>2. 1 \in 0..Len(ServerProgram) /\ path' \in 0..srun'
    BY <1>1, <1>2, <1>b
  <2> QED
    BY <1>1, <1>2, <1>t, <2>1, <2>2 DEF ExchTypes
<1>5. Served'
  <2>1. \A k \in Ports : slot[k] = 0 /\ \A e \in 1..Len(backlog[k]) : FALSE
    BY <1>1, <1>t DEF Served
  <2>2. \A k \in Ports : ~(spos' > k)
    BY <1>1 DEF Ports
  <2> QED
    BY <1>1, <2>1, <2>2 DEF Served
<1>6. KilledFor'
  <2>1. \A r \in killed' : r \in 1..srun' /\ r # srun'
    BY <1>1, <1>2, <1>t DEF KilledFor
  <2>2. srun' # 0
    BY <1>1, <1>2
  <2> QED
    BY <1>1, <1>a, <1>t, <2>1, <2>2 DEF KilledFor
<1>7. PathLeads'
  BY <1>1, <1>2, <1>b DEF PathLeads
<1>8. Judged'
  <2>1. ~ServerAt("run")
    BY <1>1 DEF ServerAt
  <2> QED
    BY <1>1, <1>t, <2>1 DEF Judged, VerdictOnSource
<1>9. ASSUME NEW i \in Calls PROVE Caller(i)'
  <2>0. Caller(i) /\ Agreed(i, Len(upward[i]), Len(downward[i]))
    BY <1>t DEF Caller
  <2>1. ~Alive(i) /\ ~Alive(i)' /\ peer[i] <= srun'
    BY <1>1, <1>2, <2>0 DEF Alive, Caller
  <2>2. /\ Heard(cpos[i])' = Heard(cpos[i]) /\ Total' = Total /\ CallerProgram(i)' = CallerProgram(i)
    BY <1>1, CountsNext
  <2>3. Agreed(i, Len(upward[i]), Len(downward[i]))'
    BY <1>1, <2>0, <2>1, <2>2 DEF Agreed
  <2> QED
    BY <1>1, <2>0, <2>1, <2>2, <2>3 DEF Caller
<1> QED
  BY <1>4, <1>5, <1>6, <1>7, <1>8, <1>9 DEF ExchIInv


(* The server accepts a caller.                                            *)
LEMMA AcceptStep == ExchIInv /\ AcceptCall => ExchIInv'
<1> SUFFICES ASSUME ExchIInv, AcceptCall PROVE ExchIInv'
  OBVIOUS
<1>t. ExchTypes /\ Served /\ KilledFor /\ PathLeads /\ Judged /\ \A i \in Calls : Caller(i)
  BY DEF ExchIInv
<1>1. /\ spos # 0 /\ Op(spos) = "accept" /\ backlog[On] # <<>>
      /\ exch' = exch /\ srun' = srun /\ cpos' = cpos /\ peer' = peer /\ upward' = upward
      /\ downward' = downward /\ stopped' = stopped /\ short' = short /\ killed' = killed
      /\ UNCHANGED judgeVars
  BY DEF AcceptCall, ServerAt, Op, callerVars
<1>a. joined' = joined
  BY DEF AcceptCall
<1>2. /\ exch \in Known /\ spos \in 1..Len(ServerProgram) /\ Len(ServerProgram) \in Nat
      /\ upward \in [Calls -> Seq(Int)] /\ downward \in [Calls -> Seq(Int)] /\ srun \in Nat
      /\ cpos \in [Calls -> Int] /\ peer \in [Calls -> Nat] /\ sockets \in Nat /\ path \in 0..srun
      /\ slot \in [Ports -> Calls \cup {0}] /\ backlog \in [Ports -> Seq(Calls)]
      /\ exch = "words" => sockets <= MaxSockets
  BY <1>1, <1>t, ServerOrder DEF ExchTypes
<1>c. 1 \in Calls
  BY ExchangeConstants DEF Calls
<1>o. On = spos /\ On = Of(spos) /\ On \in Ports /\ (exch = "names" \/ On = 1) /\ spos # Len(ServerProgram)
  <2>1. On = Of(spos)
    BY DEF On, Of
  <2> QED
    BY <1>1, <1>2, <1>c, <2>1, ServerTable
<1>q. backlog[On] \in Seq(Calls) /\ Len(backlog[On]) \in Nat /\ Len(backlog[On]) >= 1
  <2>1. On \in Ports /\ backlog \in [Ports -> Seq(Calls)] /\ backlog[On] # <<>>
    BY <1>1, <1>2, <1>o
  <2> DEFINE q == backlog[On]
  <2>2. q \in Seq(Calls) /\ q # <<>>
    BY <2>1
  <2> HIDE DEF q
  <2>3. Len(q) \in Nat /\ Len(q) >= 1
    BY <2>2
  <2> QED
    BY <2>2, <2>3 DEF q
<1>z. spos \in Nat /\ spos = On /\ spos + 1 \in 0..Len(ServerProgram)
  <2>1. spos \in 1..Len(ServerProgram) /\ Len(ServerProgram) \in Nat /\ spos # Len(ServerProgram)
    BY <1>2, <1>o
  <2>2. spos = On
    BY <1>o
  <2>3. spos \in Nat /\ spos + 1 \in 0..Len(ServerProgram)
    BY <2>1
  <2> QED
    BY <2>2, <2>3
<1>j. PICK j \in Calls : j = Head(backlog[On]) /\ j = backlog[On][1]
  BY <1>q
<1>3. peer[j] = srun /\ Port(j) = On /\ cpos[j] # 0 /\ Alive(j)
  <2>1. 1 \in 1..Len(backlog[On])
    BY <1>q
  <2> QED
    BY <1>1, <1>j, <1>o, <1>t, <2>1 DEF Served, Alive
<1>p. ServerProgram' = ServerProgram
  BY <1>1 DEF ServerProgram
<1>k. /\ spos # 0 => srun # 0
      /\ \A r \in killed : r \in 1..srun /\ r # srun
      /\ (reset # {} \/ killed # {} => stopped # {})
  BY <1>1, <1>t DEF KilledFor
<1>n. ~joined'
  <2>1. ~joined
    BY <1>t DEF KilledFor
  <2> QED
    BY <2>1, <1>a
<1>7. Judged'
  BY <1>1, JudgedAfter
<1>4. CASE exch = "words" /\ sockets = MaxSockets
  <2>0. ServerGone /\ met' = met
    BY <1>4 DEF AcceptCall
  <2>1. /\ spos' = 0 /\ path' = 0 /\ sockets' = 0 /\ reset' = {}
        /\ backlog' = [k \in Ports |-> <<>>] /\ slot' = [k \in Ports |-> 0]
    BY <2>0 DEF ServerGone
  <2>2. Served'
    BY <2>0, ServedGone
  <2>3. ExchTypes'
    <3>1. backlog' \in [Ports -> Seq(Calls)] /\ slot' \in [Ports -> Calls \cup {0}]
      BY <2>1
    <3>2. 0 \in 0..Len(ServerProgram) /\ 0 \in 0..srun /\ 0 <= MaxSockets
      BY <1>2, <1>4
    <3> QED
      BY <1>1, <1>2, <1>p, <2>1, <3>1, <3>2 DEF ExchTypes
  <2>4. KilledFor'
    BY <1>1, <1>k, <1>n, <2>1 DEF KilledFor
  <2>5. PathLeads'
    BY <2>1 DEF PathLeads
  <2>6. ASSUME NEW i \in Calls PROVE Caller(i)'
    <3>1. ~Alive(i)'
      BY <2>1 DEF Alive
    <3>2. /\ Heard(cpos[i])' = Heard(cpos[i]) /\ Total' = Total /\ CallerProgram(i)' = CallerProgram(i)
      BY <1>1, CountsNext
    <3>3. Sends(Reached(i), i) = Total
      BY <1>4 DEF Sends, Total
    <3>4. Caller(i)
      BY <1>t
    <3>5. Agreed(i, Len(upward[i]), Len(downward[i]))'
      BY <3>1, <3>2, <3>3, <3>4, <2>0, <1>1 DEF Agreed, Caller
    <3> QED
      BY <3>1, <3>2, <3>4, <3>5, <2>0, <1>1 DEF Caller
  <2> QED
    BY <1>7, <2>2, <2>3, <2>4, <2>5, <2>6 DEF ExchIInv
<1>5. CASE ~(exch = "words" /\ sockets = MaxSockets)
  <2>1. /\ met' = met \cup {j} /\ slot' = [slot EXCEPT ![On] = j]
        /\ backlog' = [backlog EXCEPT ![On] = Tail(@)]
        /\ sockets' = sockets + 1 /\ spos' = spos + 1 /\ path' = path /\ reset' = reset
    BY <1>5, <1>j DEF AcceptCall
  <2>2. /\ slot'[On] = j /\ slot' \in [Ports -> Calls \cup {0}]
        /\ \A k \in Ports : k # On => slot'[k] = slot[k]
    BY <1>2, <1>o, <2>1
  <2>3. /\ backlog' \in [Ports -> Seq(Calls)] /\ (\A k \in Ports : k # On => backlog'[k] = backlog[k])
        /\ backlog'[On] = Tail(backlog[On])
    <3>1. On \in Ports /\ backlog \in [Ports -> Seq(Calls)]
      BY <1>2, <1>o
    <3>2. Tail(backlog[On]) \in Seq(Calls)
      BY <1>1, <1>q, TailElements
    <3>3. backlog' = [backlog EXCEPT ![On] = Tail(backlog[On])]
      BY <2>1
    <3> DEFINE q == Tail(backlog[On])
    <3> HIDE DEF q
    <3> QED
      BY <3>1, <3>2, <3>3 DEF q
  <2>b. \A k \in Ports : \A e \in 1..Len(backlog'[k]) :
          \E x \in 1..Len(backlog[k]) : backlog'[k][e] = backlog[k][x]
    <3> SUFFICES ASSUME NEW k \in Ports, NEW e \in 1..Len(backlog'[k])
                 PROVE  \E x \in 1..Len(backlog[k]) : backlog'[k][e] = backlog[k][x]
      OBVIOUS
    <3>1. CASE k = On
      <4> DEFINE q == backlog[On]
      <4>1. q \in Seq(Calls) /\ q # <<>>
        BY <1>1, <1>q
      <4>2. Len(Tail(q)) = Len(q) - 1 /\ \A y \in 1..Len(q) - 1 : Tail(q)[y] = q[y + 1]
        BY <4>1, TailElements
      <4>3. e \in 1..Len(q) - 1 /\ backlog'[k][e] = Tail(q)[e]
        BY <3>1, <2>3, <4>2
      <4>4. e + 1 \in 1..Len(q)
        BY <4>3, <1>q
      <4> QED
        BY <3>1, <4>2, <4>3, <4>4
    <3>2. CASE k # On
      BY <3>2, <2>3
    <3> QED
      BY <3>1, <3>2
  <2>4. ExchTypes'
    <3>1. spos' \in 0..Len(ServerProgram)
      BY <1>z, <2>1
    <3>2. sockets' \in Nat /\ (exch = "words" => sockets' <= MaxSockets)
      BY <1>2, <1>5, <2>1, ExchangeConstants
    <3> QED
      BY <1>1, <1>2, <1>p, <2>1, <2>2, <2>3, <3>1, <3>2 DEF ExchTypes
  <2>5. Served'
    <3>0. spos' # 0 /\ \A k \in Ports : k \in Nat
      BY <1>2, <2>1 DEF Ports
    <3>p. \A k \in Ports : Port(slot[k])' = (IF exch = "names" THEN slot'[k] ELSE 1)
      BY <1>1 DEF Port
    <3>1. \A k \in Ports : slot'[k] # 0 =>
         /\ spos' # 0 /\ peer'[slot'[k]] = srun' /\ slot'[k] \in met' /\ Port(slot[k])' = k
         /\ cpos'[slot'[k]] # 0
      <4> SUFFICES ASSUME NEW k \in Ports, slot'[k] # 0
                   PROVE  /\ peer[slot'[k]] = srun /\ slot'[k] \in met' /\ Port(slot[k])' = k
                          /\ cpos[slot'[k]] # 0
        BY <1>1, <3>0
      <4>1. CASE k = On
        BY <1>3, <2>1, <2>2, <3>p, <4>1 DEF Port
      <4>2. CASE k # On
        <5>1. slot'[k] = slot[k]
          BY <2>2, <4>2
        <5> QED
          BY <5>1, <1>t, <2>1, <3>p DEF Served, Port
      <4> QED
        BY <4>1, <4>2
    <3>2. \A k \in Ports : (exch' = "names" \/ k = 1) /\ spos' > k => slot'[k] # 0
      <4> SUFFICES ASSUME NEW k \in Ports, exch = "names" \/ k = 1, spos + 1 > k PROVE slot'[k] # 0
        BY <1>1, <2>1
      <4>1. CASE k = On
        <5>1. j # 0
          BY DEF Calls
        <5> QED
          BY <2>2, <4>1, <5>1
      <4>2. CASE k # On
        <5>1. spos > k
          BY <4>2, <1>z, <3>0
        <5> QED
          BY <5>1, <4>2, <2>2, <1>t DEF Served
      <4> QED
        BY <4>1, <4>2
    <3>3. \A k \in Ports : exch' # "words" /\ spos' <= k => slot'[k] = 0
      <4> SUFFICES ASSUME NEW k \in Ports, exch # "words", spos + 1 <= k PROVE slot'[k] = 0
        BY <1>1, <2>1
      <4>1. k # On /\ spos <= k
        BY <1>z, <3>0
      <4> QED
        BY <4>1, <2>2, <1>t DEF Served
    <3>4. \A k \in Ports : \A e \in 1..Len(backlog'[k]) :
         /\ spos' # 0 /\ peer'[backlog'[k][e]] = srun' /\ Port(backlog[k][e])' = k
         /\ cpos'[backlog'[k][e]] # 0
      <4> SUFFICES ASSUME NEW k \in Ports, NEW e \in 1..Len(backlog'[k])
                   PROVE  /\ peer[backlog'[k][e]] = srun /\ Port(backlog[k][e])' = k
                          /\ cpos[backlog'[k][e]] # 0
        BY <1>1, <3>0
      <4>1. PICK x \in 1..Len(backlog[k]) : backlog'[k][e] = backlog[k][x]
        BY <2>b
      <4>2. peer[backlog[k][x]] = srun /\ Port(backlog[k][x]) = k /\ cpos[backlog[k][x]] # 0
        BY <1>t DEF Served
      <4>3. Port(backlog[k][e])' = Port(backlog[k][x])
        BY <4>1, <1>1 DEF Port
      <4> QED
        BY <4>1, <4>2, <4>3
    <3> QED
      BY <3>1, <3>2, <3>3, <3>4 DEF Served
  <2>6. KilledFor'
    <3>1. \A r \in killed' : r \in 1..srun' /\ (r = srun' => spos' = 0)
      BY <1>1, <1>k
    <3> QED
      BY <1>1, <1>k, <1>n, <2>1, <3>1 DEF KilledFor
  <2>7. PathLeads'
    <3>1. exch = "unix" => spos' # 1
      BY <1>2, <2>1
    <3>2. srun = 1 /\ exch # "unix" => path = 1
      BY <1>1, <1>t DEF PathLeads
    <3> QED
      BY <1>1, <2>1, <3>1, <3>2 DEF PathLeads
  <2>8. ASSUME NEW i \in Calls PROVE Caller(i)'
    <3>0. Caller(i) /\ Port(i)' = Port(i) /\ Port(i) \in Ports
      BY <1>1, <1>2, <1>t, CountsNext, CallerOrder
    <3>1. Alive(i)' <=> Alive(i)
      BY <1>1, <1>2, <2>1 DEF Alive
    <3>2. /\ Sends(spos + 1, i) = 0 /\ Got(spos + 1, i) = 0
          /\ Sends(spos + 1, i) = Sends(spos, i) /\ Got(spos + 1, i) = Got(spos, i)
          /\ Sends(1, i) = 0 /\ Got(1, i) = 0
      <4>1. exch \in Known /\ spos \in 1..Len(ServerProgram) /\ Op(spos) = "accept"
        BY <1>1, <1>2
      <4>2. Sends(1, i) = 0 /\ Got(1, i) = 0
        BY <4>1, CallerOrder
      <4> QED
        BY <4>1, <4>2, ServerTable
    <3>3. Reached(i) \in {1, spos} /\ Reached(i)' \in {1, spos + 1}
      BY <2>1 DEF Reached
    <3>4. /\ Sends(Reached(i)', i) = Sends(Reached(i), i)
          /\ Got(Reached(i)', i) = Got(Reached(i), i)
      BY <3>2, <3>3
    <3>5. Alive(i) /\ i \in met' /\ exch # "words" => slot'[Port(i)] = i
      <4>1. CASE i = j
        BY <4>1, <1>3, <2>2
      <4>2. CASE i # j
        <5> SUFFICES ASSUME Alive(i), i \in met, exch # "words" PROVE slot'[Port(i)] = i
          BY <4>2, <2>1
        <5>1. slot[Port(i)] = i
          BY <3>0 DEF Caller
        <5>2. slot[On] = 0
          <6>1. On \in Ports /\ spos <= On /\ exch # "words"
            BY <1>z, <1>o
          <6> QED
            BY <6>1, <1>t DEF Served
        <5>3. Port(i) # On
          BY <5>1, <5>2 DEF Calls
        <5> QED
          BY <5>1, <5>3, <2>2, <3>0
      <4> QED
        BY <4>1, <4>2
    <3>6. CASE i # j
      <4>1. i \in met' <=> i \in met
        BY <3>6, <2>1
      <4> QED
        BY <1>1, <3>0, <3>1, <3>4, <3>5, <4>1, CallerKept
    <3>7. CASE i = j
      <4>1. /\ Sends(Reached(i), i)' = Sends(Reached(i), i)
            /\ Got(Reached(i), i)' = Got(Reached(i), i)
            /\ Said(cpos[i])' = Said(cpos[i]) /\ Heard(cpos[i])' = Heard(cpos[i])
            /\ Total' = Total /\ CallerProgram(i)' = CallerProgram(i)
        BY <1>1, <3>4, CountsNext
      <4>2. peer[i] # 0 /\ Alive(i)
        BY <3>7, <1>1, <1>3, <1>k
      <4>3. Agreed(i, Len(upward[i]), Len(downward[i]))'
        BY <4>1, <4>2, <3>0, <3>1, <1>1 DEF Agreed, Caller
      <4> QED
        BY <4>1, <4>2, <4>3, <3>0, <3>1, <3>5, <1>1 DEF Caller
    <3> QED
      BY <3>6, <3>7
  <2> QED
    BY <1>7, <2>4, <2>5, <2>6, <2>7, <2>8 DEF ExchIInv
<1> QED
  BY <1>4, <1>5


(* A step of caller i on its own connection.                               *)
LEMMA CallerFrame ==
  ASSUME ExchIInv, NEW i \in Calls, exch' = exch, srun' = srun, spos' = spos, slot' = slot,
         backlog' = backlog, sockets' = sockets, reset' = reset, peer' = peer, met' = met,
         stopped \subseteq stopped', killed' = killed, UNCHANGED judgeVars, ~joined',
         path' \in 0..srun, PathLeads', cpos' \in [Calls -> Int],
         upward' \in [Calls -> Seq(Int)], downward' \in [Calls -> Seq(Int)],
         cpos'[i] # 0,
         \A j \in Calls : j # i => /\ cpos'[j] = cpos[j] /\ upward'[j] = upward[j]
                                   /\ downward'[j] = downward[j] /\ (j \in short' <=> j \in short),
         Caller(i)'
  PROVE  ExchIInv'
<1>t. ExchTypes /\ Served /\ KilledFor /\ PathLeads /\ Judged /\ \A j \in Calls : Caller(j)
  BY DEF ExchIInv
<1>1. ExchTypes'
  <2>1. ServerProgram' = ServerProgram
    BY DEF ServerProgram
  <2> QED
    BY <1>t, <2>1 DEF ExchTypes
<1>2. Served'
  BY <1>t, ServedKept
<1>3. KilledFor'
  <2>1. reset' # {} \/ killed' # {} => stopped' # {}
    BY <1>t DEF KilledFor
  <2> QED
    BY <1>t, <2>1 DEF KilledFor
<1>4. Judged'
  BY JudgedSame
<1>5. ASSUME NEW j \in Calls, j # i PROVE Caller(j)'
  <2>1. /\ cpos'[j] = cpos[j] /\ upward'[j] = upward[j] /\ peer'[j] = peer[j]
        /\ downward'[j] = downward[j] /\ (j \in short' <=> j \in short)
        /\ (j \in met' <=> j \in met) /\ (j \in stopped => j \in stopped')
    BY <1>5
  <2>2. (Alive(j)' <=> Alive(j)) /\ Reached(j)' = Reached(j)
    BY DEF Alive, Reached, Port
  <2>3. Alive(j) /\ j \in met /\ exch # "words" => slot'[Port(j)] = j
    BY <1>t DEF Caller
  <2> QED
    BY <1>t, <2>1, <2>2, <2>3, CallerKept
<1> QED
  BY <1>1, <1>2, <1>3, <1>4, <1>5 DEF ExchIInv

(* The socket file while the server does not move.                         *)
LEMMA PathSame ==
  ASSUME ExchIInv, exch' = exch, srun' = srun, spos' = spos, path' = path
  PROVE  PathLeads' /\ path' \in 0..srun
  BY DEF ExchIInv, PathLeads, ExchTypes

(* A caller sends.                                                         *)
LEMMA SayStep ==
  ASSUME ExchIInv, NEW i \in Calls, CallerSend(i) \/ TypeWord(i) PROVE ExchIInv'
<1>t. ExchTypes /\ Served /\ KilledFor /\ PathLeads /\ Judged /\ \A j \in Calls : Caller(j)
  BY DEF ExchIInv
<1>1. /\ cpos[i] > 0 /\ OpOf(i, cpos[i]) \in {"send", "type"} /\ CallerAdvances(i)
      /\ exch' = exch /\ srun' = srun /\ path' = path /\ backlog' = backlog /\ spos' = spos
      /\ slot' = slot /\ sockets' = sockets /\ reset' = reset /\ peer' = peer /\ downward' = downward
      /\ UNCHANGED judgeVars /\ stopped' = stopped /\ killed' = killed /\ met' = met /\ short' = short
      /\ upward' = IF Alive(i) THEN [upward EXCEPT ![i] = Append(@, cpos[i])] ELSE upward
  BY DEF CallerSend, TypeWord, Say, CallerAt, OpOf, serverVars, history
<1>a. ~joined'
  <2>1. joined' = joined
    BY DEF CallerSend, TypeWord, Say, history
  <2>2. ~joined
    BY <1>t DEF KilledFor
  <2> QED
    BY <2>1, <2>2
<1>2. /\ exch \in Known /\ upward \in [Calls -> Seq(Int)] /\ downward \in [Calls -> Seq(Int)]
      /\ srun \in Nat /\ cpos \in [Calls -> Int] /\ peer \in [Calls -> Nat]
  BY <1>t DEF ExchTypes
<1> DEFINE c == cpos[i]  n == Len(CallerProgram(i))  u == Len(upward[i])  d == Len(downward[i])
           v == Reached(i)
<1>3. Caller(i) /\ Agreed(i, u, d) /\ c \in 2..n /\ c \in 1..n /\ n \in Nat
  BY <1>1, <1>2, <1>t, CallerOrder DEF Caller
<1>4. /\ Said(c + 1) = Said(c) + 1 /\ Heard(c + 1) = Heard(c) /\ Said(c) \in Nat /\ Heard(c) \in Nat
      /\ (c = n => Heard(c) = Total)
  <2>1. OpOf(i, c) \in {"send", "type"} /\ exch \in Known /\ c \in 1..n
    BY <1>1, <1>2, <1>3
  <2>2. OpOf(i, c) # "recv"
    BY <2>1
  <2> QED
    BY <2>1, <2>2, CallerTable
<1>5. /\ cpos' \in [Calls -> Int] /\ \A j \in Calls : j # i => cpos'[j] = cpos[j]
      /\ cpos'[i] = IF c = n THEN -1 ELSE c + 1
  BY <1>1, <1>2 DEF CallerAdvances
<1>6. v \in 1..Len(ServerProgram)
  BY ReachedIn
<1>7. Sends(v, i) \in Nat /\ Got(v, i) \in Nat /\ Sends(v, i) <= Total
  BY <1>2, <1>6, ServerTable
<1>l. u \in Nat /\ d \in Nat
  BY <1>2
<1>8. ASSUME Alive(i) PROVE u = 0 /\ Sends(v, i) = Heard(c) + d /\ Said(c) = Got(v, i)
  <2>1. Sends(v, i) = Heard(c) + d /\ Said(c) = Got(v, i) + u
    BY <1>1, <1>3, <1>8 DEF Agreed
  <2>o. OpOf(i, c) \in {"send", "type"}
    BY <1>1
  <2> HIDE DEF c, n, u, d, v
  <2>2. Sends(v, i) >= Heard(c) /\ Said(c) >= Got(v, i)
    BY <2>1, <1>4, <1>7, <1>l
  <2>3. Said(c) <= Got(v, i)
    <3>1. c \in 2..Len(CallerProgram(i))
      BY <1>3 DEF n
    <3> QED
      BY <3>1, <2>2, <2>o, <1>2, <1>6, OneUnderWay
  <2> QED
    BY <2>1, <2>3, <1>4, <1>7, <1>l
<1>9. /\ upward' \in [Calls -> Seq(Int)] /\ \A j \in Calls : j # i => upward'[j] = upward[j]
      /\ Alive(i) => Len(upward'[i]) = u + 1
      /\ ~Alive(i) => upward'[i] = upward[i]
  <2>1. CASE Alive(i)
    <3>1. upward[i] \in Seq(Int) /\ c \in Int
      BY <1>2
    <3>2. Append(upward[i], c) \in Seq(Int) /\ Len(Append(upward[i], c)) = u + 1
      BY <3>1, AppendProperties
    <3>3. upward' = [upward EXCEPT ![i] = Append(upward[i], c)]
      BY <2>1, <1>1
    <3> QED
      BY <2>1, <3>2, <3>3, <1>2
  <2>2. CASE ~Alive(i)
    BY <2>2, <1>1, <1>2
  <2> QED
    BY <2>1, <2>2
<1>10. Caller(i)'
  <2>1. (Alive(i)' <=> Alive(i)) /\ Reached(i)' = v
    BY <1>1 DEF Alive, Reached, Port
  <2>2. /\ Sends(Reached(i), i)' = Sends(v, i)
        /\ Got(Reached(i), i)' = Got(v, i)
        /\ Said(cpos[i])' = Said(cpos'[i]) /\ Heard(cpos[i])' = Heard(cpos'[i])
        /\ Total' = Total /\ Port(i)' = Port(i) /\ CallerProgram(i)' = CallerProgram(i)
    BY <1>1, <2>1, CountsNext
  <2> DEFINE u2 == Len(upward'[i])  c2 == cpos'[i]
  <2>3. d <= 1 /\ u <= 1
    BY <1>3 DEF Agreed
  <2>4. (Alive(i) => u2 = 1) /\ (~Alive(i) => u2 = u)
    <3>1. ASSUME Alive(i) PROVE u2 = 1
      <4>1. u2 = u + 1 /\ u = 0
        BY <3>1, <1>8, <1>9, Zenon
      <4> QED
        BY <4>1
    <3>2. ASSUME ~Alive(i) PROVE u2 = u
      BY <3>2, <1>9, Zenon
    <3> QED
      BY <3>1, <3>2
  <2>5. c2 = (IF c = n THEN -1 ELSE c + 1)
    BY <1>5
  <2>6. ~Alive(i) /\ i \in met /\ peer[i] \notin killed => Heard(c) + d = Total
    BY <1>1, <1>3 DEF Agreed
  <2>7. /\ c2 > 0 /\ Alive(i) => Sends(v, i) = Heard(c2) + d /\ Said(c2) = Got(v, i) + u2
        /\ c2 = -1 /\ Alive(i) => Sends(v, i) = Total
        /\ c2 > 0 /\ ~Alive(i) /\ i \in met /\ peer[i] \notin killed => Heard(c2) + d = Total
        /\ c2 = -1 \/ c2 \in 2..n
        /\ u2 <= 1
    <3> HIDE DEF c, n, u, d, v, u2, c2
    <3>1. CASE c = n
      BY <3>1, <1>4, <1>7, <1>8, <1>l, <2>3, <2>4, <2>5
    <3>2. CASE c # n
      <4>1. c2 = c + 1 /\ c2 \in 2..n
        BY <3>2, <2>5, <1>3
      <4> QED
        BY <4>1, <1>4, <1>8, <2>3, <2>4, <2>6, <1>3
    <3> QED
      BY <3>1, <3>2
  <2>8. Agreed(i, Len(upward[i]), Len(downward[i]))'
    BY <2>1, <2>2, <2>3, <2>7, <1>1 DEF Agreed
  <2>9. peer[i] # 0 /\ (cpos'[i] = -1 \/ cpos'[i] \in 2..n) /\ cpos'[i] # 0
    <3>1. peer[i] # 0
      BY <1>1, <1>3 DEF Caller
    <3>2. c2 = -1 \/ c2 \in 2..n
      BY <2>7
    <3>3. c2 # 0
      <4> HIDE DEF c2, n
      <4> QED
        BY <3>2, <1>3
    <3> QED
      BY <3>1, <3>2, <3>3
  <2> QED
    BY <1>1, <1>3, <2>1, <2>2, <2>8, <2>9 DEF Caller
<1>11. cpos'[i] # 0
  BY <1>3, <1>5
<1>12. PathLeads' /\ path' \in 0..srun
  BY <1>1, PathSame
<1> QED
  BY <1>1, <1>2, <1>5, <1>9, <1>10, <1>11, <1>12, <1>a, CallerFrame

(* What a step does to the own place of caller i and to its messages, when *)
(* nothing is sent: the facts that the steps below share.                  *)
LEMMA OwnPlace ==
  ASSUME ExchIInv, NEW i \in Calls, cpos[i] > 0
  PROVE  /\ exch \in Known /\ cpos \in [Calls -> Int] /\ Caller(i) /\ srun \in Nat
         /\ upward \in [Calls -> Seq(Int)] /\ downward \in [Calls -> Seq(Int)]
         /\ cpos[i] \in 2..Len(CallerProgram(i)) /\ cpos[i] \in 1..Len(CallerProgram(i))
         /\ Len(CallerProgram(i)) \in Nat /\ peer[i] # 0
         /\ Agreed(i, Len(upward[i]), Len(downward[i]))
         /\ Reached(i) \in 1..Len(ServerProgram) /\ ~joined
<1>1. ExchTypes /\ Caller(i) /\ KilledFor
  BY DEF ExchIInv
<1>2. /\ exch \in Known /\ cpos \in [Calls -> Int] /\ srun \in Nat
      /\ upward \in [Calls -> Seq(Int)] /\ downward \in [Calls -> Seq(Int)]
  BY <1>1 DEF ExchTypes
<1>3. Len(CallerProgram(i)) \in Nat
  BY <1>2, CallerOrder
<1>4. cpos[i] \in 2..Len(CallerProgram(i)) /\ peer[i] # 0
  BY <1>1 DEF Caller
<1>5. cpos[i] \in 1..Len(CallerProgram(i))
  BY <1>3, <1>4
<1>6. Reached(i) \in 1..Len(ServerProgram)
  BY ReachedIn
<1> QED
  BY <1>1, <1>2, <1>3, <1>4, <1>5, <1>6 DEF Caller, KilledFor

(* Caller i ends, having read all that the server has for it, or stopped,  *)
(* or cut off by a server that was killed.                                 *)
LEMMA CallerGone ==
  ASSUME ExchIInv, NEW i \in Calls, cpos[i] > 0, exch' = exch, srun' = srun, spos' = spos,
         slot' = slot, peer' = peer, met' = met, killed' = killed, cpos'[i] = -1,
         upward'[i] = upward[i], downward'[i] = downward[i],
         i \in short' => peer[i] \in killed,
         Alive(i) /\ i \notin stopped' => Sends(Reached(i), i) = Total
  PROVE  Caller(i)'
<1>1. Caller(i) /\ peer[i] # 0 /\ Agreed(i, Len(upward[i]), Len(downward[i]))
  BY OwnPlace
<1>2. (Alive(i)' <=> Alive(i)) /\ Reached(i)' = Reached(i)
  BY DEF Alive, Reached, Port
<1>3. /\ Sends(Reached(i), i)' = Sends(Reached(i), i) /\ Total' = Total /\ Port(i)' = Port(i)
      /\ CallerProgram(i)' = CallerProgram(i)
  BY <1>2, CountsNext
<1>4. Agreed(i, Len(upward[i]), Len(downward[i]))'
  BY <1>1, <1>2, <1>3 DEF Agreed
<1> QED
  BY <1>1, <1>2, <1>3, <1>4 DEF Caller

(* A caller is stopped.                                                    *)
LEMMA StopStep ==
  ASSUME ExchIInv, NEW i \in Calls, StopCaller(i) PROVE ExchIInv'
<1>1. /\ cpos[i] > 0 /\ cpos' = [cpos EXCEPT ![i] = -1] /\ stopped' = stopped \cup {i}
      /\ exch' = exch /\ srun' = srun /\ path' = path /\ backlog' = backlog /\ spos' = spos
      /\ slot' = slot /\ sockets' = sockets /\ reset' = reset /\ peer' = peer /\ downward' = downward
      /\ upward' = upward /\ UNCHANGED judgeVars /\ killed' = killed /\ met' = met /\ short' = short
  BY DEF StopCaller, CallerEnds, serverVars
<1>a. joined' = joined
  BY DEF StopCaller
<1>2. /\ Caller(i) /\ cpos \in [Calls -> Int] /\ ~joined
      /\ upward \in [Calls -> Seq(Int)] /\ downward \in [Calls -> Seq(Int)]
  BY <1>1, OwnPlace
<1>3. cpos' \in [Calls -> Int] /\ cpos'[i] = -1 /\ \A j \in Calls : j # i => cpos'[j] = cpos[j]
  BY <1>1, <1>2
<1>4. Caller(i)'
  <2>1. i \in short' => peer[i] \in killed
    BY <1>1, <1>2 DEF Caller
  <2>2. i \in stopped'
    BY <1>1
  <2> QED
    BY <1>1, <1>3, <2>1, <2>2, CallerGone
<1>5. PathLeads' /\ path' \in 0..srun
  BY <1>1, PathSame
<1>6. ~joined'
  BY <1>a, <1>2
<1>7. stopped \subseteq stopped' /\ cpos'[i] # 0
  BY <1>1, <1>3
<1> QED
  BY <1>1, <1>2, <1>3, <1>4, <1>5, <1>6, <1>7, CallerFrame

(* The client of unix_domain_socket/basic removes a socket file.           *)
LEMMA UnlinkStep ==
  ASSUME ExchIInv, NEW i \in Calls, UnlinkPath(i) PROVE ExchIInv'
<1>1. /\ cpos[i] > 0 /\ OpOf(i, cpos[i]) = "unlink" /\ CallerAdvances(i) /\ path' = 0
      /\ exch' = exch /\ srun' = srun /\ backlog' = backlog /\ spos' = spos /\ stopped' = stopped
      /\ slot' = slot /\ sockets' = sockets /\ reset' = reset /\ peer' = peer /\ downward' = downward
      /\ upward' = upward /\ UNCHANGED judgeVars /\ killed' = killed /\ met' = met /\ short' = short
  BY DEF UnlinkPath, CallerAt, OpOf, serverVars, history
<1>a. joined' = joined
  BY DEF UnlinkPath, history
<1> DEFINE c == cpos[i]  n == Len(CallerProgram(i))  v == Reached(i)  d == Len(downward[i])
<1>2. /\ exch \in Known /\ Caller(i) /\ cpos \in [Calls -> Int] /\ ~joined /\ srun \in Nat
      /\ upward \in [Calls -> Seq(Int)] /\ downward \in [Calls -> Seq(Int)]
      /\ c \in 1..n /\ n \in Nat /\ v \in 1..Len(ServerProgram) /\ peer[i] # 0
      /\ Agreed(i, Len(upward[i]), d)
  BY <1>1, OwnPlace
<1>3. exch = "unix" /\ Heard(c) = 1
  BY <1>1, <1>2, CallerTable
<1>4. c = n
  <2>0. /\ Len(CallerProgram(i)) = 4
        /\ OpOf(i, 1) = "connect" /\ OpOf(i, 2) = "recv" /\ OpOf(i, 3) = "send" /\ OpOf(i, 4) = "unlink"
    BY <1>2, <1>3, CallerCalls, Zenon
  <2>1. n = 4 /\ OpOf(i, 1) = "connect" /\ OpOf(i, 2) = "recv" /\ OpOf(i, 3) = "send"
    BY <2>0
  <2> HIDE DEF c, n
  <2>2. c = 1 \/ c = 2 \/ c = 3 \/ c = 4
    BY <2>1, <1>2
  <2>3. OpOf(i, c) = "unlink"
    BY <1>1 DEF c
  <2> QED
    BY <2>1, <2>2, <2>3
<1>5. cpos' \in [Calls -> Int] /\ cpos'[i] = -1 /\ \A j \in Calls : j # i => cpos'[j] = cpos[j]
  BY <1>1, <1>2, <1>4 DEF CallerAdvances
<1>6. /\ Sends(v, i) \in Nat /\ Sends(v, i) <= Total /\ Total = 1
      /\ d \in Nat
  <2>1. Total = 1
    BY <1>3 DEF Total
  <2> QED
    BY <2>1, <1>2, ServerTable
<1>7. ASSUME Alive(i) PROVE Sends(v, i) = Total /\ v # 1
  <2>1. Sends(v, i) = Heard(c) + d
    BY <1>1, <1>2, <1>7 DEF Agreed
  <2>2. Sends(1, i) = 0
    BY <1>2, CallerOrder
  <2>3. Sends(v, i) = Total
    <3> HIDE DEF c, d, v
    <3> QED
      BY <2>1, <1>3, <1>6
  <2> QED
    BY <2>2, <2>3, <1>6
<1>8. Caller(i)'
  <2>1. i \in short' => peer[i] \in killed
    BY <1>1, <1>2 DEF Caller
  <2> QED
    BY <1>1, <1>5, <1>7, <2>1, CallerGone
<1>9. PathLeads' /\ path' \in 0..srun
  <2>1. ASSUME srun = 1, spos = 1 PROVE FALSE
    <3>1. peer[i] \in Nat /\ peer[i] <= srun
      BY <1>2 DEF ExchIInv, ExchTypes, Caller
    <3>2. Alive(i)
      BY <3>1, <2>1, <1>2 DEF Alive
    <3>3. v = 1
      BY <2>1 DEF Reached
    <3> QED
      BY <3>2, <3>3, <1>7
  <2> QED
    BY <2>1, <1>1, <1>2, <1>3 DEF PathLeads
<1>10. ~joined'
  BY <1>a, <1>2
<1>11. cpos'[i] # 0
  BY <1>5
<1> QED
  BY <1>1, <1>2, <1>5, <1>8, <1>9, <1>10, <1>11, CallerFrame

(* A caller receives.                                                      *)
LEMMA RecvStep ==
  ASSUME ExchIInv, NEW i \in Calls, CallerRecv(i) PROVE ExchIInv'
<1>1. /\ cpos[i] > 0 /\ OpOf(i, cpos[i]) = "recv"
      /\ exch' = exch /\ srun' = srun /\ backlog' = backlog /\ spos' = spos /\ stopped' = stopped
      /\ slot' = slot /\ sockets' = sockets /\ reset' = reset /\ peer' = peer /\ path' = path
      /\ upward' = upward /\ UNCHANGED judgeVars /\ killed' = killed /\ met' = met
  BY DEF CallerRecv, CallerAt, OpOf, serverVars
<1> DEFINE c == cpos[i]  n == Len(CallerProgram(i))  v == Reached(i)
           u == Len(upward[i])  d == Len(downward[i])
<1>2. /\ exch \in Known /\ Caller(i) /\ cpos \in [Calls -> Int] /\ ~joined /\ srun \in Nat
      /\ upward \in [Calls -> Seq(Int)] /\ downward \in [Calls -> Seq(Int)]
      /\ c \in 2..n /\ c \in 1..n /\ n \in Nat /\ v \in 1..Len(ServerProgram) /\ peer[i] # 0
      /\ Agreed(i, u, d)
  BY <1>1, OwnPlace
<1>3. /\ Said(c + 1) = Said(c) /\ Heard(c + 1) = Heard(c) + 1 /\ Said(c) \in Nat /\ Heard(c) \in Nat
      /\ Heard(c + 1) <= Total /\ (c = n => Heard(c + 1) = Total)
  <2>1. OpOf(i, c) = "recv" /\ OpOf(i, c) \notin {"send", "type"} /\ c \in 1..n
    BY <1>1, <1>2
  <2>2. /\ Said(c + 1) = Said(c) + (IF OpOf(i, c) \in {"send", "type"} THEN 1 ELSE 0)
        /\ Heard(c + 1) = Heard(c) + (IF OpOf(i, c) = "recv" THEN 1 ELSE 0)
        /\ Said(c) \in Nat /\ Heard(c) \in Nat
        /\ Heard(c + 1) <= Total /\ (c = n => Heard(c + 1) = Total)
    <3>1. exch \in Known /\ c \in 1..Len(CallerProgram(i))
      BY <1>2
    <3> HIDE DEF c
    <3> QED
      BY <3>1, CallerTable
  <2> HIDE DEF c, n
  <2> QED
    BY <2>1, <2>2
<1>4. u \in Nat /\ d \in Nat /\ u <= 1 /\ d <= 1
  BY <1>2 DEF Agreed
<1>5. Sends(v, i) \in Nat /\ Sends(v, i) <= Total /\ Total \in Nat
  BY <1>2, ServerTable DEF Total, Known
<1>6. PathLeads' /\ path' \in 0..srun
  BY <1>1, PathSame
<1>7. CASE downward[i] # <<>> /\ downward' = [downward EXCEPT ![i] = <<>>]
           /\ CallerAdvances(i) /\ short' = short /\ joined' = (joined \/ Len(downward[i]) > 1)
  <2>1. d = 1
    <3>1. downward[i] \in Seq(Int) /\ downward[i] # <<>>
      BY <1>2, <1>7
    <3>2. d # 0
      BY <3>1, EmptySeq
    <3> HIDE DEF d
    <3> QED
      BY <3>2, <1>4
  <2>2. ~joined'
    <3>1. ~(Len(downward[i]) > 1)
      BY <2>1
    <3> QED
      BY <3>1, <1>2, <1>7
  <2>3. /\ cpos' \in [Calls -> Int] /\ \A j \in Calls : j # i => cpos'[j] = cpos[j]
        /\ cpos'[i] = IF c = n THEN -1 ELSE c + 1
    BY <1>7, <1>2 DEF CallerAdvances
  <2>4. /\ downward' \in [Calls -> Seq(Int)] /\ downward'[i] = <<>>
        /\ \A j \in Calls : j # i => downward'[j] = downward[j]
    <3>1. <<>> \in Seq(Int)
      OBVIOUS
    <3> QED
      BY <3>1, <1>2, <1>7
  <2>5. Caller(i)'
    <3>1. (Alive(i)' <=> Alive(i)) /\ Reached(i)' = v
      BY <1>1 DEF Alive, Reached, Port
    <3>2. /\ Sends(Reached(i), i)' = Sends(v, i)
          /\ Got(Reached(i), i)' = Got(v, i)
          /\ Said(cpos[i])' = Said(cpos'[i]) /\ Heard(cpos[i])' = Heard(cpos'[i])
          /\ Total' = Total /\ Port(i)' = Port(i) /\ CallerProgram(i)' = CallerProgram(i)
      BY <1>1, <3>1, CountsNext
    <3> DEFINE c2 == cpos'[i]
    <3>3. c2 = (IF c = n THEN -1 ELSE c + 1)
      BY <2>3
    <3>4. /\ Alive(i) => Sends(v, i) = Heard(c) + d /\ Said(c) = Got(v, i) + u
          /\ ~Alive(i) /\ i \in met /\ peer[i] \notin killed => Heard(c) + d = Total
      BY <1>1, <1>2 DEF Agreed
    <3>5. /\ c2 > 0 /\ Alive(i) => Sends(v, i) = Heard(c2) + 0 /\ Said(c2) = Got(v, i) + u
          /\ c2 = -1 /\ Alive(i) => Sends(v, i) = Total
          /\ c2 > 0 /\ ~Alive(i) /\ i \in met /\ peer[i] \notin killed => Heard(c2) + 0 = Total
          /\ c2 = -1 \/ c2 \in 2..n
      <4> HIDE DEF c, n, u, d, v, c2
      <4>1. CASE c = n
        <5>1. c2 = -1
          BY <4>1, <3>3
        <5>2. Alive(i) => Sends(v, i) = Total
          BY <4>1, <3>4, <2>1, <1>3
        <5> QED
          BY <5>1, <5>2
      <4>2. CASE c # n
        <5>1. c2 = c + 1 /\ c2 \in 2..n
          BY <4>2, <3>3, <1>2
        <5>2. Heard(c2) = Heard(c) + 1 /\ Said(c2) = Said(c)
          BY <5>1, <1>3
        <5>3. Alive(i) => Sends(v, i) = Heard(c2) + 0 /\ Said(c2) = Got(v, i) + u
          BY <5>2, <3>4, <2>1, <1>3
        <5>4. ~Alive(i) /\ i \in met /\ peer[i] \notin killed => Heard(c2) + 0 = Total
          BY <5>2, <3>4, <2>1, <1>3
        <5>5. c2 # -1
          BY <5>1, <1>2
        <5> QED
          BY <5>1, <5>3, <5>4, <5>5
      <4> QED
        BY <4>1, <4>2
    <3>6. Len(downward'[i]) = 0
      BY <2>4
    <3>7. Agreed(i, Len(upward[i]), Len(downward[i]))'
      BY <3>1, <3>2, <3>5, <3>6, <1>1, <1>4 DEF Agreed
    <3>8. cpos'[i] = -1 \/ cpos'[i] \in 2..Len(CallerProgram(i))
      BY <3>5
    <3> QED
      BY <1>1, <1>2, <1>7, <3>1, <3>2, <3>7, <3>8 DEF Caller
  <2>6. cpos'[i] # 0
    BY <1>2, <2>3
  <2> QED
    BY <1>1, <1>2, <1>6, <1>7, <2>2, <2>3, <2>4, <2>5, <2>6, CallerFrame
<1>8. CASE downward[i] = <<>> /\ ~Alive(i) /\ short' = short \cup ({i} \cap met)
           /\ CallerEnds(i) /\ downward' = downward /\ joined' = joined
  <2>1. d = 0
    BY <1>8
  <2>2. i \in met => peer[i] \in killed
    <3>1. ASSUME i \in met, peer[i] \notin killed PROVE FALSE
      <4>1. Heard(c) + d = Total
        BY <3>1, <1>1, <1>2, <1>8 DEF Agreed
      <4> HIDE DEF c, d
      <4> QED
        BY <4>1, <2>1, <1>3, <1>5
    <3> QED
      BY <3>1
  <2>3. cpos' \in [Calls -> Int] /\ cpos'[i] = -1 /\ \A j \in Calls : j # i => cpos'[j] = cpos[j]
    BY <1>2, <1>8 DEF CallerEnds
  <2>4. i \in short' => peer[i] \in killed
    BY <2>2, <1>2, <1>8 DEF Caller
  <2>5. Caller(i)'
    BY <1>1, <1>8, <2>3, <2>4, CallerGone
  <2>6. \A j \in Calls : j # i => (j \in short' <=> j \in short)
    BY <1>8
  <2>7. ~joined'
    BY <1>2, <1>8
  <2>8. cpos'[i] # 0
    BY <2>3
  <2> QED
    BY <1>1, <1>2, <1>6, <1>8, <2>3, <2>5, <2>6, <2>7, <2>8, CallerFrame
<1> QED
  BY <1>7, <1>8 DEF CallerRecv

(* A caller is started.                                                    *)
LEMMA StartCallerStep ==
  ASSUME ExchIInv, NEW i \in Calls, StartCaller(i) PROVE ExchIInv'
<1>t. ExchTypes /\ Served /\ KilledFor /\ PathLeads /\ Judged /\ \A j \in Calls : Caller(j)
  BY DEF ExchIInv
<1>1. /\ cpos[i] = 0 /\ exch' = exch /\ srun' = srun /\ path' = path /\ spos' = spos /\ stopped' = stopped
      /\ slot' = slot /\ sockets' = sockets /\ reset' = reset /\ downward' = downward
      /\ upward' = upward /\ UNCHANGED judgeVars /\ killed' = killed /\ met' = met /\ short' = short
  BY DEF StartCaller, serverVars, history
<1>a. joined' = joined
  BY DEF StartCaller, history
<1>b. ~joined'
  BY <1>a, <1>t DEF KilledFor
<1>2. /\ exch \in Known /\ upward \in [Calls -> Seq(Int)] /\ downward \in [Calls -> Seq(Int)]
      /\ srun \in Nat /\ cpos \in [Calls -> Int] /\ peer \in [Calls -> Nat]
      /\ slot \in [Ports -> Calls \cup {0}] /\ backlog \in [Ports -> Seq(Calls)]
  BY <1>t DEF ExchTypes
<1>3. /\ CallerProgram(i)[1].on = Port(i) /\ Port(i) \in Ports /\ Len(CallerProgram(i)) \in Nat
      /\ Len(CallerProgram(i)) >= 2 /\ Said(2) = 0 /\ Heard(2) = 0 /\ Sends(1, i) = 0 /\ Got(1, i) = 0
  BY <1>2, CallerOrder
<1>4. Caller(i) /\ peer[i] = 0 /\ i \notin met /\ upward[i] = <<>> /\ downward[i] = <<>> /\ i \notin short
  <2>1. Caller(i) /\ peer[i] = 0
    BY <1>1, <1>t DEF Caller
  <2>2. 0 \notin killed
    BY <1>2, <1>t DEF KilledFor
  <2> QED
    BY <2>1, <2>2 DEF Caller
<1>5. PathLeads' /\ path' \in 0..srun
  BY <1>1, PathSame
<1>6. CASE spos # 0 /\ path = srun
  <2>1. /\ backlog' = [backlog EXCEPT ![Port(i)] = Append(backlog[Port(i)], i)]
        /\ peer' = [peer EXCEPT ![i] = srun] /\ cpos' = [cpos EXCEPT ![i] = 2]
    BY <1>3, <1>6 DEF StartCaller
  <2>2. /\ peer' \in [Calls -> Nat] /\ cpos' \in [Calls -> Int] /\ peer'[i] = srun /\ cpos'[i] = 2
        /\ \A j \in Calls : j # i => peer'[j] = peer[j] /\ cpos'[j] = cpos[j]
    BY <2>1, <1>2
  <2>3. /\ backlog' \in [Ports -> Seq(Calls)]
        /\ \A k \in Ports : \A e \in 1..Len(backlog'[k]) :
             \/ e \in 1..Len(backlog[k]) /\ backlog'[k][e] = backlog[k][e]
             \/ k = Port(i) /\ backlog'[k][e] = i
    <3>1. backlog[Port(i)] \in Seq(Calls)
      BY <1>2, <1>3
    <3>2. /\ Append(backlog[Port(i)], i) \in Seq(Calls)
          /\ \A e \in 1..Len(Append(backlog[Port(i)], i)) :
               \/ e \in 1..Len(backlog[Port(i)]) /\ Append(backlog[Port(i)], i)[e] = backlog[Port(i)][e]
               \/ Append(backlog[Port(i)], i)[e] = i
      BY <3>1, AppendProperties
    <3>3. backlog'[Port(i)] = Append(backlog[Port(i)], i)
      BY <2>1, <1>2, <1>3
    <3>4. \A k \in Ports : k # Port(i) => backlog'[k] = backlog[k]
      BY <2>1, <1>2
    <3>5. backlog' \in [Ports -> Seq(Calls)]
      BY <2>1, <3>2, <1>2
    <3> QED
      BY <3>2, <3>3, <3>4, <3>5
  <2>4. \A k \in Ports : slot[k] # i
    BY <1>4, <1>t, ExchangeConstants DEF Served, Calls
  <2>5. ExchTypes'
    <3>1. ServerProgram' = ServerProgram
      BY <1>1 DEF ServerProgram
    <3> QED
      BY <1>1, <1>t, <2>2, <2>3, <3>1 DEF ExchTypes
  <2>6. Served'
    <3>p. \A j : Port(j)' = Port(j)
      BY <1>1 DEF Port
    <3>1. ASSUME NEW k \in Ports, slot[k] # 0
          PROVE  peer'[slot[k]] = srun /\ cpos'[slot[k]] # 0 /\ Port(slot[k])' = Port(slot[k])
      <4>1. slot[k] \in Calls /\ peer[slot[k]] = srun /\ cpos[slot[k]] # 0
        BY <3>1, <1>2, <1>t DEF Served
      <4> QED
        BY <4>1, <1>1, <2>2 DEF Port
    <3>2. ASSUME NEW k \in Ports, NEW e \in 1..Len(backlog'[k])
          PROVE  /\ peer'[backlog'[k][e]] = srun /\ cpos'[backlog'[k][e]] # 0
                 /\ Port(backlog[k][e])' = k
      <4>1. CASE e \in 1..Len(backlog[k]) /\ backlog'[k][e] = backlog[k][e]
        <5>1. backlog[k] \in Seq(Calls)
          BY <1>2
        <5>2. /\ backlog[k][e] \in Calls /\ peer[backlog[k][e]] = srun /\ cpos[backlog[k][e]] # 0
              /\ Port(backlog[k][e]) = k
          BY <4>1, <5>1, <1>t DEF Served
        <5> QED
          BY <4>1, <5>2, <1>1, <2>2 DEF Port
      <4>2. CASE k = Port(i) /\ backlog'[k][e] = i
        BY <4>2, <1>1, <2>2 DEF Port
      <4> QED
        BY <4>1, <4>2, <2>3
    <3>3. \A k \in Ports : slot'[k] # 0 =>
            /\ spos' # 0 /\ peer'[slot'[k]] = srun' /\ slot'[k] \in met' /\ Port(slot[k])' = k
            /\ cpos'[slot'[k]] # 0
      BY <3>1, <1>1, <1>t DEF Served
    <3>4. \A k \in Ports : \A e \in 1..Len(backlog'[k]) :
            /\ spos' # 0 /\ peer'[backlog'[k][e]] = srun' /\ Port(backlog[k][e])' = k
            /\ cpos'[backlog'[k][e]] # 0
      BY <3>2, <1>1, <1>6
    <3>5. /\ \A k \in Ports : (exch' = "names" \/ k = 1) /\ spos' > k => slot'[k] # 0
          /\ \A k \in Ports : exch' # "words" /\ spos' <= k => slot'[k] = 0
      BY <1>1, <1>t DEF Served
    <3> QED
      BY <3>3, <3>4, <3>5 DEF Served
  <2>7. KilledFor'
    BY <1>1, <1>b, <1>t DEF KilledFor
  <2>8. Judged'
    BY <1>1, JudgedSame
  <2>9. Caller(i)'
    <3>1. Alive(i)' /\ Reached(i)' = 1
      BY <1>1, <1>3, <1>6, <2>2, <2>4 DEF Alive, Reached, Port
    <3>2. /\ Sends(Reached(i), i)' = Sends(1, i)
          /\ Got(Reached(i), i)' = Got(1, i)
          /\ Said(cpos[i])' = Said(2) /\ Heard(cpos[i])' = Heard(2)
          /\ Total' = Total /\ Port(i)' = Port(i) /\ CallerProgram(i)' = CallerProgram(i)
      BY <1>1, <2>2, <3>1, CountsNext
    <3>3. Len(upward'[i]) = 0 /\ Len(downward'[i]) = 0
      BY <1>1, <1>4
    <3>4. Agreed(i, Len(upward[i]), Len(downward[i]))'
      BY <1>3, <2>2, <3>1, <3>2, <3>3 DEF Agreed
    <3>5. srun # 0 /\ 2 \in 2..Len(CallerProgram(i)) /\ srun <= srun
      BY <1>2, <1>3, <1>6, <1>t DEF KilledFor
    <3> QED
      BY <1>1, <1>4, <2>2, <3>2, <3>4, <3>5 DEF Caller
  <2>10. ASSUME NEW j \in Calls, j # i PROVE Caller(j)'
    <3>1. cpos'[j] = cpos[j] /\ peer'[j] = peer[j] /\ upward'[j] = upward[j] /\ downward'[j] = downward[j]
      BY <1>1, <2>2, <2>10
    <3>2. (Alive(j)' <=> Alive(j)) /\ Reached(j)' = Reached(j)
      BY <1>1, <3>1 DEF Alive, Reached, Port
    <3>3. Alive(j) /\ j \in met /\ exch # "words" => slot'[Port(j)] = j
      BY <1>1, <1>t DEF Caller
    <3> QED
      BY <1>1, <1>t, <3>1, <3>2, <3>3, CallerKept
  <2> QED
    BY <1>5, <2>5, <2>6, <2>7, <2>8, <2>9, <2>10 DEF ExchIInv
<1>7. CASE ~(spos # 0 /\ path = srun)
  <2>1. cpos' = [cpos EXCEPT ![i] = -1] /\ backlog' = backlog /\ peer' = peer
    BY <1>7 DEF StartCaller, CallerEnds
  <2>2. cpos' \in [Calls -> Int] /\ cpos'[i] = -1 /\ \A j \in Calls : j # i => cpos'[j] = cpos[j]
    BY <2>1, <1>2
  <2>3. ~Alive(i)'
    BY <1>1, <1>4, <1>t, <2>1 DEF Alive, KilledFor
  <2>4. Len(upward'[i]) = 0 /\ Len(downward'[i]) = 0
    BY <1>1, <1>4
  <2>5. Agreed(i, Len(upward[i]), Len(downward[i]))'
    BY <2>2, <2>3, <2>4 DEF Agreed
  <2>6. Caller(i)'
    <3>1. peer'[i] <= srun'
      BY <1>1, <1>2, <1>4, <2>1
    <3> QED
      BY <1>1, <1>4, <2>1, <2>2, <2>3, <2>5, <3>1 DEF Caller
  <2>7. cpos'[i] # 0 /\ stopped \subseteq stopped'
    BY <1>1, <2>2
  <2> QED
    BY <1>1, <1>2, <1>5, <1>b, <2>1, <2>2, <2>6, <2>7, CallerFrame
<1> QED
  BY <1>6, <1>7

(* The socket programs start in the invariant.                             *)
LEMMA ExchStarts == ExchInit => ExchIInv /\ short \subseteq Calls
<1> SUFFICES ASSUME ExchInit PROVE ExchIInv /\ short \subseteq Calls
  OBVIOUS
<1>1. /\ exch \in Known /\ srun = 0 /\ spos = 0 /\ path = 0
      /\ backlog = [k \in Ports |-> <<>>] /\ slot = [k \in Ports |-> 0] /\ sockets = 0
      /\ cpos = [i \in Calls |-> 0] /\ peer = [i \in Calls |-> 0]
      /\ upward = [i \in Calls |-> <<>>] /\ downward = [i \in Calls |-> <<>>]
      /\ reset = {} /\ stopped = {} /\ killed = {} /\ met = {} /\ short = {}
  BY ExchangeConstants DEF ExchInit, Known
<1>2. ~joined /\ binary = "none" /\ judged = "none" /\ verdict = "none"
  BY DEF ExchInit
<1>3. ExchTypes
  <2>1. 0 \in 0..Len(ServerProgram) /\ 0 \in 0..0 /\ MaxSockets >= 0
    BY <1>1, ServerOrder, ExchangeConstants
  <2>2. backlog \in [Ports -> Seq(Calls)] /\ slot \in [Ports -> Calls \cup {0}]
    BY <1>1
  <2>3. upward \in [Calls -> Seq(Int)] /\ downward \in [Calls -> Seq(Int)]
    BY <1>1
  <2>4. cpos \in [Calls -> Int] /\ peer \in [Calls -> Nat]
    BY <1>1
  <2> QED
    BY <1>1, <2>1, <2>2, <2>3, <2>4 DEF ExchTypes
<1>4. Served
  <2>1. \A k \in Ports : slot[k] = 0 /\ Len(backlog[k]) = 0 /\ k \in Nat /\ k >= 1
    BY <1>1 DEF Ports
  <2>2. \A k \in Ports : 1..Len(backlog[k]) = {}
    BY <2>1
  <2> QED
    BY <1>1, <2>1, <2>2 DEF Served
<1>5. KilledFor
  BY <1>1, <1>2 DEF KilledFor
<1>6. PathLeads
  BY <1>1 DEF PathLeads
<1>7. Judged
  BY <1>2 DEF Judged, VerdictOnSource
<1>8. ASSUME NEW i \in Calls PROVE Caller(i)
  <2>1. cpos[i] = 0 /\ peer[i] = 0 /\ upward[i] = <<>> /\ downward[i] = <<>> /\ ~Alive(i)
    BY <1>1 DEF Alive
  <2>2. Len(upward[i]) = 0 /\ Len(downward[i]) = 0
    BY <2>1
  <2>3. Agreed(i, Len(upward[i]), Len(downward[i]))
    BY <2>1, <2>2 DEF Agreed
  <2> QED
    BY <1>1, <2>1, <2>3 DEF Caller
<1> QED
  BY <1>1, <1>3, <1>4, <1>5, <1>6, <1>7, <1>8 DEF ExchIInv

(* Every step of the socket programs keeps the invariant.                  *)
LEMMA ExchStep ==
  ExchIInv /\ short \subseteq Calls /\ [ExchNext]_exchVars => (ExchIInv /\ short \subseteq Calls)'
<1> SUFFICES ASSUME ExchIInv, short \subseteq Calls, [ExchNext]_exchVars
             PROVE  ExchIInv' /\ short' \subseteq Calls
  OBVIOUS
<1>1. CASE StartServer
  BY <1>1, StartServerStep DEF StartServer, history
<1>2. CASE ServerStep
  BY <1>2, AcceptStep, ServerRecvStep, ServerSendStep, NextWordStep, JudgeSteps
     DEF ServerStep, AcceptCall, ServerRecv, ServerSend, NextWord, Compile, RunTest, history
<1>3. ASSUME NEW i \in Calls, StartCaller(i) PROVE ExchIInv' /\ short' \subseteq Calls
  BY <1>3, StartCallerStep DEF StartCaller, history
<1>4. ASSUME NEW i \in Calls, CallerSend(i) \/ TypeWord(i) PROVE ExchIInv' /\ short' \subseteq Calls
  BY <1>4, SayStep DEF CallerSend, TypeWord, Say, history
<1>5. ASSUME NEW i \in Calls, CallerRecv(i) PROVE ExchIInv' /\ short' \subseteq Calls
  <2>1. ExchIInv'
    BY <1>5, RecvStep
  <2>2. short' = short \/ short' = short \cup ({i} \cap met)
    BY <1>5 DEF CallerRecv
  <2> QED
    BY <2>1, <2>2
<1>6. ASSUME NEW i \in Calls, UnlinkPath(i) PROVE ExchIInv' /\ short' \subseteq Calls
  BY <1>6, UnlinkStep DEF UnlinkPath, history
<1>7. ASSUME NEW i \in Calls, StopCaller(i) PROVE ExchIInv' /\ short' \subseteq Calls
  BY <1>7, StopStep DEF StopCaller
<1>8. CASE UNCHANGED exchVars
  <2>1. /\ exch' = exch /\ srun' = srun /\ path' = path /\ backlog' = backlog /\ spos' = spos
        /\ slot' = slot /\ sockets' = sockets /\ reset' = reset /\ peer' = peer /\ downward' = downward
        /\ upward' = upward /\ UNCHANGED judgeVars /\ killed' = killed /\ met' = met /\ short' = short
        /\ cpos' = cpos /\ stopped' = stopped
    BY <1>8 DEF exchVars, judgeVars
  <2>2. joined' = joined
    BY <1>8 DEF exchVars
  <2>3. ExchTypes /\ Served /\ KilledFor /\ PathLeads /\ Judged /\ \A i \in Calls : Caller(i)
    BY DEF ExchIInv
  <2>4. ASSUME NEW i \in Calls PROVE Caller(i)'
    <3>1. (Alive(i)' <=> Alive(i)) /\ Reached(i)' = Reached(i)
      BY <2>1 DEF Alive, Reached, Port
    <3>2. Alive(i) /\ i \in met /\ exch # "words" => slot'[Port(i)] = i
      BY <2>1, <2>3 DEF Caller
    <3> QED
      BY <2>1, <2>3, <3>1, <3>2, CallerKept
  <2>5. ServerProgram' = ServerProgram
    BY <2>1 DEF ServerProgram
  <2>6. ExchTypes'
    BY <2>1, <2>3, <2>5 DEF ExchTypes
  <2>7. Served'
    BY <2>1, <2>3, ServedKept
  <2>8. KilledFor'
    BY <2>1, <2>2, <2>3 DEF KilledFor
  <2>9. PathLeads' /\ Judged'
    BY <2>1, PathSame, JudgedSame
  <2> QED
    BY <2>1, <2>4, <2>6, <2>7, <2>8, <2>9 DEF ExchIInv
<1> QED
  BY <1>1, <1>2, <1>3, <1>4, <1>5, <1>6, <1>7, <1>8 DEF ExchNext, CallerStep

(* What the invariant says of the properties that the run checks.          *)
LEMMA ExchIsKept ==
  ExchIInv /\ short \subseteq Calls => InStep /\ FirstServerReachable /\ VerdictOnSource /\ ExchTypeOK
<1> SUFFICES ASSUME ExchIInv, short \subseteq Calls
             PROVE  InStep /\ FirstServerReachable /\ VerdictOnSource /\ ExchTypeOK
  OBVIOUS
<1>t. ExchTypes /\ Served /\ KilledFor /\ PathLeads /\ Judged /\ \A j \in Calls : Caller(j)
  BY DEF ExchIInv
<1>1. InStep
  <2>1. \A i \in short : peer[i] \in killed
    BY <1>t DEF Caller
  <2> QED
    BY <2>1, <1>t DEF InStep, KilledFor
<1>2. FirstServerReachable
  <2> SUFFICES ASSUME ServerAt("accept"), path # srun, ~(srun > 1) PROVE FALSE
    BY DEF FirstServerReachable
  <2>1. exch \in Known /\ srun \in Nat /\ spos # 0 /\ Op(spos) = "accept" /\ spos \in 0..Len(ServerProgram)
    BY <1>t DEF ExchTypes, ServerAt, Op
  <2>2. srun = 1
    BY <2>1, <1>t DEF KilledFor
  <2>3. exch = "unix" => spos = 1
    <3>1. spos \in 1..Len(ServerProgram) /\ 1 \in Calls
      BY <2>1, ServerOrder, ExchangeConstants DEF Calls
    <3>2. spos = Of(spos) /\ (exch = "names" \/ Of(spos) = 1)
      BY <3>1, <2>1, ServerTable
    <3> QED
      BY <3>2
  <2> QED
    BY <2>1, <2>2, <2>3, <1>t DEF PathLeads
<1>3. VerdictOnSource
  BY <1>t DEF Judged
<1>4. ExchTypeOK
  <2>1. ASSUME NEW i \in Calls PROVE cpos[i] \in -1..Len(CallerProgram(i)) /\ peer[i] \in 0..srun
    <3>1. exch \in Known /\ peer[i] \in Nat /\ srun \in Nat /\ peer[i] <= srun
      BY <1>t DEF ExchTypes, Caller
    <3>2. Len(CallerProgram(i)) \in Nat
      BY <3>1, CallerOrder
    <3>3. cpos[i] = -1 \/ cpos[i] = 0 \/ cpos[i] \in 2..Len(CallerProgram(i))
      BY <1>t DEF Caller
    <3> QED
      BY <3>1, <3>2, <3>3
  <2>2. exch = "words" => sockets \in 0..MaxSockets
    BY <1>t, ExchangeConstants DEF ExchTypes
  <2> QED
    BY <2>1, <2>2, <1>t DEF ExchTypeOK, ExchTypes, Judged
<1> QED
  BY <1>1, <1>2, <1>3, <1>4

-----------------------------------------------------------------------------
(* A step of the group is a step of the queue or leaves it alone.          *)
LEMMA GroupIsMail == [GroupNext]_all => [MailNext]_mailVars
  BY DEF GroupNext, all, InTurns, InTalk, InMail, InPoll, InExch

(* A step of the group is a step of the sockets or leaves them alone.      *)
LEMMA GroupIsExch == [GroupNext]_all => [ExchNext]_exchVars
  BY DEF GroupNext, all, InTurns, InTalk, InMail, InPoll, InExch

(* For every bound: each process takes from the message queue only answers *)
(* to itself (message queue/p1.c:45, p2.c), on the sockets of the simple   *)
(* servers no recv takes two messages at once and nobody is cut off but by *)
(* a SIGPIPE that a stopped caller caused (observer/server.c:73), the      *)
(* first server can be reached while it waits in accept                    *)
(* (unix_domain_socket/basic/client.c), and a verdict is about the program *)
(* that was compiled last (28-1-22/S.c:89).                                *)
THEOREM MessagesArrive == GroupSpec => []MessagesKept
<1>1. GroupInit => MailIInv /\ ExchIInv /\ short \subseteq Calls
  BY MailStarts, ExchStarts DEF GroupInit
<1>2. MailIInv /\ (ExchIInv /\ short \subseteq Calls) /\ [GroupNext]_all
        => MailIInv' /\ (ExchIInv /\ short \subseteq Calls)'
  BY MailStep, ExchStep, GroupIsMail, GroupIsExch
<1>3. MailIInv /\ (ExchIInv /\ short \subseteq Calls) => MessagesKept
  BY MailIsKept, ExchIsKept DEF MessagesKept
<1> QED
  BY <1>1, <1>2, <1>3, PTL DEF GroupSpec

-----------------------------------------------------------------------------
(* TurnTaking                                                              *)

Ready(p) == phase[p] \notin {"off", "init1", "init2"}
Sig(g, k) == mem[g].s[k]
Word(g, k) == mem[g].v[k]

AllSystems == {"ring", "words", "letters", "offset"}
Phases == {"off", "init1", "init2", "loop", "clean", "gone"}
Memory == [0..MaxGen -> [v : [1..2 -> Nat], s : [1..2 -> Nat], dead : BOOLEAN]]

TurnTypes ==
  /\ sys \in Systems /\ left \in 0..1 /\ runs \in Nat /\ gen \in 0..MaxGen
  /\ phase \in [1..4 -> Phases] /\ mem \in Memory
  /\ step \in [1..4 -> Nat] /\ \A p \in Procs : step[p] \in 1..Len(Cycle(p))
  /\ loc \in [1..4 -> Nat] /\ at \in [1..4 -> 0..MaxGen]

(* Who has started, and what nobody else touches.                          *)
Begun ==
  /\ sys \in {"ring", "offset"} => \A p \in 1..4 : at[p] = 0
  /\ sys = "ring" => \A p \in 1..4 : phase[p] = "loop"
  /\ sys = "letters" => left = 0
  /\ sys = "offset" /\ phase[1] = "init1" => phase[2] \in {"off", "gone"}
  /\ sys = "offset" => \A p \in 1..4 : phase[p] \notin {"init2", "clean"}
  /\ sys \in {"words", "letters"} => \A p \in 1..2 : ~Ready(p) => step[p] = 1

(* A turn for each generation, whatever was left behind.                   *)
TurnCount == sys # "letters" => \A g \in 0..MaxGen : TurnsAt(g) + SignalsAt(g) = Given(g)

(* words: whoever may write next has been read, and a word is behind the   *)
(* limit that p1 has tested.                                               *)
WordsRead ==
  /\ ~Ready(1) \/ (phase[1] = "loop" /\ step[1] = 1) => 1 \notin unread
  /\ phase[1] = "loop" /\ step[1] = 2 => 2 \notin unread
  /\ phase[2] = "loop" /\ step[2] = 3 => 2 \notin unread
  /\ phase[2] = "loop" /\ step[2] = 4 => 1 \notin unread
WordsAt(g) ==
  /\ ~Ready(2) => Sig(g, 2) = 0
  /\ Sig(g, 1) > 0 => 2 \notin unread
  /\ Sig(g, 2) > 0 => 1 \notin unread /\ Word(g, 2) <= Word(g, 1) + 1
  /\ at[2] = g /\ phase[2] = "loop" /\ step[2] = 4 => Word(g, 2) <= Word(g, 1) + 1
  /\ Word(g, 1) <= Limit + 1 /\ Word(g, 2) <= Limit + 2
  /\ at[1] = g /\ (phase[1] = "init2" \/ Ready(1)) => Word(g, 1) >= 1
  /\ at[1] = g /\ phase[1] = "loop" /\ step[1] = 1 => Word(g, 2) <= Limit
  /\ at[1] = g /\ phase[1] = "loop" /\ step[1] = 4 => Word(g, 1) < Limit
WordsInTurn == WordsRead /\ \A g \in 0..MaxGen : WordsAt(g)

(* letters: the places of the two programs, by the semaphores.             *)
AtP1 == /\ Sig(0, 1) = 1 /\ Sig(0, 2) = 1 /\ step[1] \in {1, 2, 3} /\ step[2] \in {1, 2}
        /\ 2 \notin unread /\ (step[1] \in {1, 2} => 1 \notin unread)
        /\ (step[1] = 1 => loc[1] <= Word(0, 1) + 1) /\ (step[1] = 2 => loc[1] <= Limit + 1)
ToP2 == /\ Sig(0, 1) = 0 /\ Sig(0, 2) = 1 /\ step[1] = 4 /\ step[2] \in {1, 2, 3, 4}
        /\ 2 \notin unread /\ (step[2] = 4 => 1 \notin unread /\ loc[2] <= Word(0, 1))
AtP2 == /\ Sig(0, 1) = 1 /\ Sig(0, 2) = 1 /\ step[1] = 4 /\ step[2] \in {5, 6}
        /\ 1 \notin unread
        /\ (step[2] = 5 => 2 \notin unread /\ loc[2] <= Word(0, 1))
        /\ (step[2] = 6 => Word(0, 2) <= Word(0, 1) + 1)
ToP1 == /\ Sig(0, 1) = 1 /\ Sig(0, 2) = 0 /\ step[1] \in {4, 5, 6} /\ step[2] \in {1, 2}
        /\ 1 \notin unread /\ (step[1] = 6 => 2 \notin unread /\ loc[1] <= Word(0, 1) + 1)
        /\ (step[1] \in {4, 5} => Word(0, 2) <= Word(0, 1) + 1)
(* The signal of p1 was wiped out when p2 prepared the semaphores.         *)
Stuck == late /\ Sig(0, 1) = 1 /\ Sig(0, 2) = 1 /\ step[1] = 4 /\ step[2] \in {1, 2}

(* Until both are ready.                                                   *)
FirstAlone ==
  /\ ~Ready(1) => /\ 1 \notin unread /\ Word(0, 1) = 0 /\ loc[1] = 0
                  /\ phase[2] \in {"off", "init1", "init2", "loop"} /\ step[2] \in {1, 2}
  /\ ~Ready(2) => /\ 2 \notin unread /\ Word(0, 2) = 0 /\ loc[1] = 0 /\ loc[2] = 0 /\ Word(0, 1) <= 1
                  /\ phase[1] \in {"off", "init1", "init2", "loop"} /\ step[1] \in {1, 2, 3, 4}
  /\ ~Ready(1) /\ ~Ready(2) /\ (phase[1] = "init2" \/ phase[2] = "init2") => Sig(0, 1) = 1 /\ Sig(0, 2) = 1
  /\ ~Ready(1) /\ Ready(2) => Sig(0, 1) = 1 /\ Sig(0, 2) = 1 /\ Word(0, 2) = 0 /\ 2 \notin unread
  /\ Ready(1) /\ ~Ready(2) =>
       /\ Sig(0, 2) = 1 /\ Sig(0, 1) <= 1
       /\ (step[1] \in {1, 2} => 1 \notin unread) /\ (step[1] # 4 => Sig(0, 1) = 1)

Dead == mem[0].dead
FirstGeneration ==
  /\ at[1] = 0 /\ at[2] = 0 /\ (~Ready(1) \/ ~Ready(2) => gen = 0)
  /\ \A g \in 1..MaxGen : Word(g, 1) = 0 /\ Word(g, 2) = 0

LettersInTurn ==
  /\ FirstGeneration /\ (~Ready(1) \/ ~Ready(2) => ~Dead)
  /\ Word(0, 1) <= Limit + 2 /\ Word(0, 2) <= Limit + 3
  /\ FirstAlone
  /\ Ready(1) /\ Ready(2) => AtP1 \/ ToP2 \/ AtP2 \/ ToP1 \/ Stuck

TurnIInv ==
  /\ TurnTypes /\ Begun /\ TurnCount
  /\ sys = "words" /\ left = 0 => WordsInTurn
  /\ sys = "letters" => LettersInTurn

(* The steps of the cycles by their numbers.                               *)
LEMMA CycleNames ==
  ASSUME sys \in AllSystems, NEW p \in Procs
  PROVE  /\ sys \in {"ring", "offset"} =>
              /\ Len(Cycle(p)) = 3
              /\ p = 1 => (Cycle(p)[1] = "use" /\ Cycle(p)[2] = "post" /\ Cycle(p)[3] = "wait")
              /\ p # 1 => (Cycle(p)[1] = "wait" /\ Cycle(p)[2] = "use" /\ Cycle(p)[3] = "post")
         /\ sys = "words" =>
              /\ Len(Cycle(p)) = 4
              /\ p = 1 => (/\ Cycle(p)[1] = "write" /\ Cycle(p)[2] = "post"
                           /\ Cycle(p)[3] = "test" /\ Cycle(p)[4] = "wait")
              /\ p # 1 => (/\ Cycle(p)[1] = "test" /\ Cycle(p)[2] = "wait"
                           /\ Cycle(p)[3] = "write" /\ Cycle(p)[4] = "post")
         /\ sys = "letters" =>
              /\ Len(Cycle(p)) = 6
              /\ p = 1 => (/\ Cycle(p)[1] = "test" /\ Cycle(p)[2] = "write" /\ Cycle(p)[3] = "post"
                           /\ Cycle(p)[4] = "wait" /\ Cycle(p)[5] = "read" /\ Cycle(p)[6] = "reset")
              /\ p # 1 => (/\ Cycle(p)[1] = "test" /\ Cycle(p)[2] = "wait" /\ Cycle(p)[3] = "read"
                           /\ Cycle(p)[4] = "reset" /\ Cycle(p)[5] = "write" /\ Cycle(p)[6] = "post")
         /\ p \in 1..4 /\ (sys # "ring" => p = 1 \/ p = 2)
<1>0. p \in 1..4 /\ (sys # "ring" => p = 1 \/ p = 2) /\ (p = 1 \/ p = 2 \/ p = 3 \/ p = 4)
  BY DEF Procs
<1>1. CASE sys = "ring"
  <2>1. Cycle(p) = <<RingP1, RingP2, RingP3, RingP4>>[p]
    BY <1>1 DEF Cycle
  <2> QED
    BY <1>0, <1>1, <2>1 DEF RingP1, RingP2, RingP3, RingP4
<1>2. CASE sys = "offset"
  <2>1. Cycle(p) = <<OffsetServer, OffsetClient>>[p]
    BY <1>2 DEF Cycle
  <2> QED
    BY <1>0, <1>2, <2>1 DEF OffsetServer, OffsetClient
<1>3. CASE sys = "words"
  <2>1. Cycle(p) = <<WordsP1, WordsP2>>[p]
    BY <1>3 DEF Cycle
  <2> QED
    BY <1>0, <1>3, <2>1 DEF WordsP1, WordsP2
<1>4. CASE sys = "letters"
  <2>1. Cycle(p) = <<LettersP1, LettersP2>>[p]
    BY <1>4 DEF Cycle
  <2> QED
    BY <1>0, <1>4, <2>1 DEF LettersP1, LettersP2
<1>5. sys = "ring" \/ sys = "offset" \/ sys = "words" \/ sys = "letters"
  BY DEF AllSystems
<1> QED
  BY <1>1, <1>2, <1>3, <1>4, <1>5, Zenon

(* The step after step k.                                                  *)
LEMMA RoundAndRound ==
  ASSUME NEW n \in {3, 4, 6}, NEW k \in 1..n
  PROVE  (k % n) + 1 = (IF k = n THEN 1 ELSE k + 1) /\ (k % n) + 1 \in 1..n
<1>1. CASE n = 3
  <2>1. k = 1 \/ k = 2 \/ k = 3
    BY <1>1
  <2> QED
    BY <1>1, <2>1
<1>2. CASE n = 4
  <2>1. k = 1 \/ k = 2 \/ k = 3 \/ k = 4
    BY <1>2
  <2> QED
    BY <1>2, <2>1
<1>3. CASE n = 6
  <2>1. k = 1 \/ k = 2 \/ k = 3 \/ k = 4 \/ k = 5 \/ k = 6
    BY <1>3
  <2> QED
    BY <1>3, <2>1
<1> QED
  BY <1>1, <1>2, <1>3

(* Every cycle has three, four or six steps.                               *)
LEMMA Lengths ==
  ASSUME sys \in AllSystems, NEW p \in Procs
  PROVE  Len(Cycle(p)) \in {3, 4, 6} /\ 1 \in 1..Len(Cycle(p)) /\ p \in 1..4
<1>0. sys = "ring" \/ sys = "offset" \/ sys = "words" \/ sys = "letters"
  BY DEF AllSystems
<1>1. Len(Cycle(p)) = 3 \/ Len(Cycle(p)) = 4 \/ Len(Cycle(p)) = 6
  <2>1. ASSUME sys = "ring" PROVE Len(Cycle(p)) = 3
    BY <2>1, CycleNames
  <2>2. ASSUME sys = "offset" PROVE Len(Cycle(p)) = 3
    BY <2>2, CycleNames
  <2>3. ASSUME sys = "words" PROVE Len(Cycle(p)) = 4
    BY <2>3, CycleNames, Zenon
  <2>4. ASSUME sys = "letters" PROVE Len(Cycle(p)) = 6
    BY <2>4, CycleNames, Zenon
  <2> QED
    BY <1>0, <2>1, <2>2, <2>3, <2>4, Zenon
<1>2. p \in 1..4
  BY CycleNames
<1> QED
  BY <1>1, <1>2

(* A program goes on to the next step of its cycle.                        *)
LEMMA GoesOn ==
  ASSUME TurnTypes, NEW p \in Procs, Go(p)
  PROVE  /\ step' \in [1..4 -> Nat] /\ \A q \in 1..4 : q # p => step'[q] = step[q]
         /\ step'[p] = (IF step[p] = Len(Cycle(p)) THEN 1 ELSE step[p] + 1)
         /\ step'[p] \in 1..Len(Cycle(p))
<1>1. sys \in AllSystems /\ step \in [1..4 -> Nat] /\ step[p] \in 1..Len(Cycle(p))
  BY TurnConstants DEF TurnTypes, AllSystems
<1>2. Len(Cycle(p)) \in {3, 4, 6} /\ p \in 1..4
  BY <1>1, Lengths
<1>3. /\ (step[p] % Len(Cycle(p))) + 1 = (IF step[p] = Len(Cycle(p)) THEN 1 ELSE step[p] + 1)
      /\ (step[p] % Len(Cycle(p))) + 1 \in 1..Len(Cycle(p))
  BY <1>1, <1>2, RoundAndRound
<1>4. step' = [step EXCEPT ![p] = (step[p] % Len(Cycle(p))) + 1]
  BY DEF Go
<1>5. (step[p] % Len(Cycle(p))) + 1 \in Nat
  BY <1>2, <1>3
<1> QED
  BY <1>1, <1>2, <1>3, <1>4, <1>5

(* One semaphore or one word is set.                                       *)
LEMMA SigSet ==
  ASSUME mem \in Memory, NEW g \in 0..MaxGen, NEW k \in 1..2, NEW x \in Nat,
         mem' = [mem EXCEPT ![g].s[k] = x]
  PROVE  /\ mem' \in Memory
         /\ \A h \in 0..MaxGen : \A j \in 1..2 :
              /\ Sig(h, j)' = (IF h = g /\ j = k THEN x ELSE Sig(h, j)) /\ Word(h, j)' = Word(h, j)
  BY DEF Memory, Sig, Word

(* One word is set.                                                        *)
LEMMA WordSet ==
  ASSUME mem \in Memory, NEW g \in 0..MaxGen, NEW k \in 1..2, NEW x \in Nat,
         mem' = [mem EXCEPT ![g].v[k] = x]
  PROVE  /\ mem' \in Memory
         /\ \A h \in 0..MaxGen : \A j \in 1..2 :
              /\ Word(h, j)' = (IF h = g /\ j = k THEN x ELSE Word(h, j)) /\ Sig(h, j)' = Sig(h, j)
  BY DEF Memory, Sig, Word

(* Both semaphores or both words are set (letters: SETVAL, strcpy).        *)
LEMMA BothSet ==
  ASSUME mem \in Memory, NEW g \in 0..MaxGen, NEW x \in Nat
  PROVE  /\ mem' = [mem EXCEPT ![g].s = <<x, x>>] =>
              /\ mem' \in Memory
              /\ \A h \in 0..MaxGen : \A j \in 1..2 :
                   Sig(h, j)' = (IF h = g THEN x ELSE Sig(h, j)) /\ Word(h, j)' = Word(h, j)
         /\ mem' = [mem EXCEPT ![g].v = <<x, x>>] =>
              /\ mem' \in Memory
              /\ \A h \in 0..MaxGen : \A j \in 1..2 :
                   Word(h, j)' = (IF h = g THEN x ELSE Word(h, j)) /\ Sig(h, j)' = Sig(h, j)
<1>1. <<x, x>> \in [1..2 -> Nat] /\ \A j \in 1..2 : <<x, x>>[j] = x
  OBVIOUS
<1>2. PICK w \in [1..2 -> Nat] : w = <<x, x>> /\ w[1] = x /\ w[2] = x
  BY <1>1
<1>3. \A j \in 1..2 : w[j] = x
  BY <1>2
<1>4. ASSUME mem' = [mem EXCEPT ![g].s = w]
      PROVE  /\ mem' \in Memory
             /\ \A h \in 0..MaxGen : \A j \in 1..2 :
                  Sig(h, j)' = (IF h = g THEN x ELSE Sig(h, j)) /\ Word(h, j)' = Word(h, j)
  BY <1>3, <1>4 DEF Memory, Sig, Word
<1>5. ASSUME mem' = [mem EXCEPT ![g].v = w]
      PROVE  /\ mem' \in Memory
             /\ \A h \in 0..MaxGen : \A j \in 1..2 :
                  Word(h, j)' = (IF h = g THEN x ELSE Word(h, j)) /\ Sig(h, j)' = Sig(h, j)
  BY <1>3, <1>5 DEF Memory, Sig, Word
<1> QED
  BY <1>2, <1>4, <1>5

(* Words and semaphores are numbers.                                       *)
LEMMA MemRead ==
  ASSUME mem \in Memory
  PROVE  \A h \in 0..MaxGen : \A j \in 1..2 : Sig(h, j) \in Nat /\ Word(h, j) \in Nat
  BY DEF Memory, Sig, Word

(* What a step does, state component by state component.                   *)
NowIn(p, ph) == phase'[p] = ph /\ \A q \in 1..4 : q # p => phase'[q] = phase[q]
GoneOn(p) == /\ step'[p] = (IF step[p] = Len(Cycle(p)) THEN 1 ELSE step[p] + 1)
             /\ \A q \in 1..4 : q # p => step'[q] = step[q]
SigIs(g, k, x) ==
  \A h \in 0..MaxGen : \A j \in 1..2 :
    Sig(h, j)' = (IF h = g /\ j = k THEN x ELSE Sig(h, j)) /\ Word(h, j)' = Word(h, j)
WordIs(g, k, x) ==
  \A h \in 0..MaxGen : \A j \in 1..2 :
    Word(h, j)' = (IF h = g /\ j = k THEN x ELSE Word(h, j)) /\ Sig(h, j)' = Sig(h, j)

(* The types, variable by variable.                                        *)
LEMMA TypesKept ==
  ASSUME TurnTypes, sys' = sys, left' = left, runs' \in Nat, gen' \in 0..MaxGen,
         phase' \in [1..4 -> Phases], step' \in [1..4 -> Nat],
         \A p \in Procs : step'[p] \in 1..Len(Cycle(p)),
         loc' \in [1..4 -> Nat], at' \in [1..4 -> 0..MaxGen], mem' \in Memory
  PROVE  TurnTypes'
<1>1. Procs' = Procs /\ \A p \in Procs : Cycle(p)' = Cycle(p)
  BY DEF Procs, Cycle
<1> QED
  BY <1>1 DEF TurnTypes

(* What the types say of the variables that the proofs read.               *)
LEMMA Typed ==
  ASSUME TurnTypes
  PROVE  /\ sys \in AllSystems /\ mem \in Memory /\ gen \in 0..MaxGen /\ runs \in Nat /\ left \in 0..1
         /\ phase \in [1..4 -> Phases] /\ step \in [1..4 -> Nat] /\ loc \in [1..4 -> Nat]
         /\ at \in [1..4 -> 0..MaxGen] /\ \A p \in Procs : p \in 1..4 /\ step[p] \in 1..Len(Cycle(p))
         /\ \A p \in Procs : sys # "ring" => p \in 1..2
         /\ \A h \in 0..MaxGen : \A j \in 1..2 : Sig(h, j) \in Nat /\ Word(h, j) \in Nat
<1>1. /\ sys \in AllSystems /\ mem \in Memory /\ gen \in 0..MaxGen /\ runs \in Nat /\ left \in 0..1
      /\ phase \in [1..4 -> Phases] /\ step \in [1..4 -> Nat] /\ loc \in [1..4 -> Nat]
      /\ at \in [1..4 -> 0..MaxGen] /\ \A p \in Procs : step[p] \in 1..Len(Cycle(p))
  BY TurnConstants DEF TurnTypes, AllSystems
<1>2. \A p \in Procs : p \in 1..4 /\ (sys # "ring" => p \in 1..2)
  BY DEF Procs
<1>3. \A h \in 0..MaxGen : \A j \in 1..2 : Sig(h, j) \in Nat /\ Word(h, j) \in Nat
  BY <1>1, MemRead
<1> QED
  BY <1>1, <1>2, <1>3

(* The step of p goes on, its phase stays.                                 *)
LEMMA OnlySteps ==
  ASSUME TurnTypes, Begun, NEW p \in Procs, Go(p), phase[p] = "loop", sys' = sys, left' = left, runs' = runs,
         gen' = gen, at' = at, phase' = phase, loc' \in [1..4 -> Nat], mem' \in Memory
  PROVE  TurnTypes' /\ Begun' /\ GoneOn(p)
<1>1. /\ step' \in [1..4 -> Nat] /\ \A q \in 1..4 : q # p => step'[q] = step[q]
      /\ step'[p] = (IF step[p] = Len(Cycle(p)) THEN 1 ELSE step[p] + 1)
      /\ step'[p] \in 1..Len(Cycle(p))
  BY GoesOn
<1>2. /\ runs \in Nat /\ gen \in 0..MaxGen /\ phase \in [1..4 -> Phases] /\ at \in [1..4 -> 0..MaxGen]
      /\ \A q \in Procs : q \in 1..4 /\ step[q] \in 1..Len(Cycle(q))
  BY Typed
<1>3. TurnTypes'
  <2>1. \A q \in Procs : step'[q] \in 1..Len(Cycle(q))
    BY <1>1, <1>2
  <2> QED
    BY <1>1, <1>2, <2>1, TypesKept
<1>4. Begun'
  <2>1. \A q \in 1..4 : ~Ready(q)' => ~Ready(q) /\ q # p
    BY DEF Ready
  <2> QED
    BY <1>1, <2>1 DEF Begun
<1> QED
  BY <1>1, <1>3, <1>4 DEF GoneOn

(* The phase of p changes, its step stays.                                 *)
LEMMA OnlyPhase ==
  ASSUME TurnTypes, Begun, NEW p \in Procs, NEW ph \in Phases, Goto(p, ph), sys' = sys, left' = left,
         runs' = runs, gen' \in 0..MaxGen, step' = step, loc' = loc, mem' \in Memory,
         at' \in [1..4 -> 0..MaxGen], sys = "offset" => at' = at,
         sys # "ring", sys = "offset" => ph = "gone",
         sys \in {"words", "letters"} /\ ph \in {"off", "init1", "init2"} => step[p] = 1
  PROVE  TurnTypes' /\ Begun' /\ NowIn(p, ph)
<1>1. /\ runs \in Nat /\ phase \in [1..4 -> Phases] /\ at \in [1..4 -> 0..MaxGen] /\ p \in 1..4
      /\ step \in [1..4 -> Nat] /\ loc \in [1..4 -> Nat]
      /\ \A q \in Procs : q \in 1..4 /\ step[q] \in 1..Len(Cycle(q))
  BY Typed
<1>2. phase' \in [1..4 -> Phases] /\ phase'[p] = ph /\ \A q \in 1..4 : q # p => phase'[q] = phase[q]
  BY <1>1 DEF Goto
<1>3. TurnTypes'
  BY <1>1, <1>2, TypesKept
<1>4. Begun'
  <2>1. ASSUME NEW q \in 1..4, ~Ready(q)', sys \in {"words", "letters"}, q \in 1..2 PROVE step[q] = 1
    <3>1. q # p => ~Ready(q)
      BY <1>2, <2>1 DEF Ready
    <3>2. q = p => ph \in {"off", "init1", "init2"}
      BY <1>2, <2>1 DEF Ready
    <3> QED
      BY <2>1, <3>1, <3>2 DEF Begun
  <2>2. /\ sys = "offset" /\ phase'[1] = "init1" => phase'[2] \in {"off", "gone"}
        /\ sys = "offset" => \A q \in 1..4 : phase'[q] \notin {"init2", "clean"}
    BY <1>2 DEF Begun
  <2>3. sys = "offset" => \A q \in 1..4 : at'[q] = 0
    BY DEF Begun
  <2>4. sys = "letters" => left = 0
    BY DEF Begun
  <2>5. sys \in {"words", "letters"} => \A q \in 1..2 : ~Ready(q)' => step'[q] = 1
    BY <2>1
  <2> QED
    BY <2>2, <2>3, <2>4, <2>5 DEF Begun
<1> QED
  BY <1>2, <1>3, <1>4 DEF NowIn

SameMem == \A h \in 0..MaxGen : \A j \in 1..2 : Sig(h, j)' = Sig(h, j) /\ Word(h, j)' = Word(h, j)

(* A program of words or letters attaches to what the names stand for.     *)
LEMMA StartMoves ==
  ASSUME TurnTypes, Begun, NEW p \in Procs, Start(p)
  PROVE  /\ TurnTypes' /\ Begun' /\ sys \in {"words", "letters"} /\ phase[p] = "off" /\ NowIn(p, "init1")
         /\ sys' = sys /\ left' = left /\ runs' = runs /\ step' = step /\ loc' = loc /\ gen' = gen
         /\ unread' = unread /\ SameMem
         /\ at'[p] = gen /\ \A q \in 1..4 : q # p => at'[q] = at[q]
<1>1. /\ sys \in {"words", "letters"} /\ phase[p] = "off" /\ Goto(p, "init1")
      /\ sys' = sys /\ left' = left /\ runs' = runs /\ step' = step /\ loc' = loc /\ gen' = gen
      /\ unread' = unread /\ mem' = mem /\ at' = [at EXCEPT ![p] = gen]
  BY DEF Start
<1>2. mem \in Memory /\ gen \in 0..MaxGen /\ at \in [1..4 -> 0..MaxGen] /\ p \in 1..4 /\ p \in 1..2
  BY <1>1, Typed
<1>3. at' \in [1..4 -> 0..MaxGen] /\ at'[p] = gen /\ \A q \in 1..4 : q # p => at'[q] = at[q]
  BY <1>1, <1>2
<1>4. step[p] = 1
  BY <1>1, <1>2 DEF Begun, Ready
<1>5. TurnTypes' /\ Begun' /\ NowIn(p, "init1")
  BY <1>1, <1>2, <1>3, <1>4, OnlyPhase DEF Phases
<1>6. SameMem
  BY <1>1 DEF SameMem, Sig, Word
<1> QED
  BY <1>1, <1>3, <1>5, <1>6

(* A program of words or letters prepares what is shared.                  *)
LEMMA PrepareMoves ==
  ASSUME TurnTypes, Begun, NEW p \in Procs, Prepare(p)
  PROVE  /\ TurnTypes' /\ Begun' /\ sys \in {"words", "letters"}
         /\ sys' = sys /\ left' = left /\ runs' = runs /\ step' = step /\ loc' = loc /\ gen' = gen
         /\ unread' = unread /\ at' = at
         /\ \/ phase[p] = "init1" /\ NowIn(p, "init2")
            \/ phase[p] = "init2" /\ NowIn(p, "loop")
         /\ sys = "words" => WordIs(at[p], IF phase[p] = "init1" THEN 1 ELSE 2, 1)
         /\ sys = "letters" /\ phase[p] = "init1" => \A h \in 0..MaxGen : \A j \in 1..2 :
              Sig(h, j)' = (IF h = at[p] THEN 1 ELSE Sig(h, j)) /\ Word(h, j)' = Word(h, j)
         /\ sys = "letters" /\ phase[p] = "init2" => \A h \in 0..MaxGen : \A j \in 1..2 :
              Word(h, j)' = (IF h = at[p] THEN 0 ELSE Word(h, j)) /\ Sig(h, j)' = Sig(h, j)
<1>1. /\ sys \in {"words", "letters"}
      /\ sys' = sys /\ left' = left /\ runs' = runs /\ step' = step /\ loc' = loc /\ gen' = gen
      /\ unread' = unread /\ at' = at
      /\ \/ phase[p] = "init1" /\ Goto(p, "init2")
         \/ phase[p] = "init2" /\ Goto(p, "loop")
  BY DEF Prepare
<1>2. /\ mem \in Memory /\ gen \in 0..MaxGen /\ at \in [1..4 -> 0..MaxGen] /\ p \in 1..4 /\ p \in 1..2
      /\ at[p] \in 0..MaxGen
  BY <1>1, Typed
<1>3. step[p] = 1
  BY <1>1, <1>2 DEF Begun, Ready
<1>4. mem' = [mem EXCEPT ![at[p]] =
        IF sys = "words" THEN [mem[at[p]] EXCEPT !.v[IF phase[p] = "init1" THEN 1 ELSE 2] = 1]
        ELSE IF phase[p] = "init1" THEN [mem[at[p]] EXCEPT !.s = <<1, 1>>]
        ELSE [mem[at[p]] EXCEPT !.v = <<0, 0>>]]
  BY DEF Prepare
<1>5. CASE sys = "words"
  <2>1. PICK k \in 1..2 : k = (IF phase[p] = "init1" THEN 1 ELSE 2)
    OBVIOUS
  <2>2. mem' = [mem EXCEPT ![at[p]].v[k] = 1]
    BY <1>4, <1>5, <2>1
  <2>3. mem' \in Memory /\ WordIs(at[p], k, 1)
    BY <1>2, <2>2, WordSet DEF WordIs
  <2>4. TurnTypes' /\ Begun' /\ (NowIn(p, "init2") \/ NowIn(p, "loop"))
        /\ (phase[p] = "init1" => NowIn(p, "init2")) /\ (phase[p] = "init2" => NowIn(p, "loop"))
    <3>1. CASE phase[p] = "init1" /\ Goto(p, "init2")
      BY <1>1, <1>2, <1>3, <1>5, <2>3, <3>1, OnlyPhase DEF Phases
    <3>2. CASE phase[p] = "init2" /\ Goto(p, "loop")
      BY <1>1, <1>2, <1>3, <1>5, <2>3, <3>2, OnlyPhase DEF Phases
    <3> QED
      BY <1>1, <3>1, <3>2
  <2> QED
    BY <1>1, <1>5, <2>1, <2>3, <2>4
<1>6. CASE sys = "letters" /\ phase[p] = "init1"
  <2>1. mem' = [mem EXCEPT ![at[p]].s = <<1, 1>>] /\ Goto(p, "init2")
    BY <1>1, <1>4, <1>6
  <2>2. /\ mem' \in Memory
        /\ \A h \in 0..MaxGen : \A j \in 1..2 :
              Sig(h, j)' = (IF h = at[p] THEN 1 ELSE Sig(h, j)) /\ Word(h, j)' = Word(h, j)
    BY <1>2, <2>1, BothSet
  <2>3. TurnTypes' /\ Begun' /\ NowIn(p, "init2")
    BY <1>1, <1>2, <1>3, <1>6, <2>1, <2>2, OnlyPhase DEF Phases
  <2> QED
    BY <1>1, <1>6, <2>2, <2>3
<1>7. CASE sys = "letters" /\ phase[p] = "init2"
  <2>1. mem' = [mem EXCEPT ![at[p]].v = <<0, 0>>] /\ Goto(p, "loop")
    BY <1>1, <1>4, <1>7
  <2>2. /\ mem' \in Memory
        /\ \A h \in 0..MaxGen : \A j \in 1..2 :
              Word(h, j)' = (IF h = at[p] THEN 0 ELSE Word(h, j)) /\ Sig(h, j)' = Sig(h, j)
    BY <1>2, <2>1, BothSet
  <2>3. TurnTypes' /\ Begun' /\ NowIn(p, "loop")
    BY <1>1, <1>2, <1>3, <1>7, <2>1, <2>2, OnlyPhase DEF Phases
  <2> QED
    BY <1>1, <1>7, <2>2, <2>3
<1> QED
  BY <1>1, <1>5, <1>6, <1>7

(* A shared word is written.                                               *)
LEMMA WriteMoves ==
  ASSUME TurnTypes, Begun, NEW p \in Procs, Write(p), sys # "ring", sys # "offset"
  PROVE  /\ TurnTypes' /\ Begun' /\ sys' = sys /\ left' = left /\ runs' = runs /\ loc' = loc /\ gen' = gen
         /\ at' = at /\ phase' = phase /\ phase[p] = "loop" /\ Cycle(p)[step[p]] = "write" /\ GoneOn(p)
         /\ unread' = (IF sys = "words" THEN unread \ {Other(p)} ELSE unread) \cup {p}
         /\ WordIs(at[p], p, (IF sys = "words" THEN Word(at[p], Other(p)) ELSE loc[p]) + 1)
<1>1. /\ sys' = sys /\ left' = left /\ runs' = runs /\ loc' = loc /\ gen' = gen
      /\ at' = at /\ phase' = phase /\ phase[p] = "loop" /\ Cycle(p)[step[p]] = "write" /\ Go(p)
      /\ unread' = (IF sys = "words" THEN unread \ {Other(p)} ELSE unread) \cup {p}
      /\ mem' = [mem EXCEPT ![at[p]].v[p] =
               (IF sys = "words" THEN mem[at[p]].v[Other(p)] ELSE loc[p]) + 1]
  BY DEF Write, At, Here
<1>2. /\ mem \in Memory /\ loc \in [1..4 -> Nat] /\ p \in 1..4 /\ p \in 1..2 /\ at[p] \in 0..MaxGen
      /\ \A h \in 0..MaxGen : \A j \in 1..2 : Sig(h, j) \in Nat /\ Word(h, j) \in Nat
  BY Typed
<1>3. PICK x \in Nat : x = (IF sys = "words" THEN Word(at[p], Other(p)) ELSE loc[p]) + 1
  <2>1. Other(p) \in 1..2
    BY <1>2 DEF Other
  <2> QED
    BY <1>2, <2>1
<1>4. mem' = [mem EXCEPT ![at[p]].v[p] = x]
  BY <1>1, <1>3 DEF Word
<1>5. mem' \in Memory /\ WordIs(at[p], p, x)
  BY <1>2, <1>4, WordSet DEF WordIs
<1>6. TurnTypes' /\ Begun' /\ GoneOn(p)
  BY <1>1, <1>2, <1>5, OnlySteps
<1> QED
  BY <1>1, <1>3, <1>5, <1>6

(* letters: the word of the other is copied.                               *)
LEMMA ReadMoves ==
  ASSUME TurnTypes, Begun, NEW p \in Procs, Read(p), sys # "ring"
  PROVE  /\ TurnTypes' /\ Begun' /\ sys' = sys /\ left' = left /\ runs' = runs /\ gen' = gen
         /\ at' = at /\ phase' = phase /\ phase[p] = "loop" /\ Cycle(p)[step[p]] = "read" /\ GoneOn(p)
         /\ unread' = unread \ {Other(p)} /\ SameMem
         /\ loc'[p] = Word(at[p], Other(p)) /\ \A q \in 1..4 : q # p => loc'[q] = loc[q]
<1>1. /\ sys' = sys /\ left' = left /\ runs' = runs /\ gen' = gen /\ mem' = mem
      /\ at' = at /\ phase' = phase /\ phase[p] = "loop" /\ Cycle(p)[step[p]] = "read" /\ Go(p)
      /\ unread' = unread \ {Other(p)}
      /\ loc' = [loc EXCEPT ![p] = Word(at[p], Other(p))]
  BY DEF Read, At, Here, Word
<1>2. /\ mem \in Memory /\ loc \in [1..4 -> Nat] /\ p \in 1..4 /\ p \in 1..2 /\ at[p] \in 0..MaxGen
      /\ \A h \in 0..MaxGen : \A j \in 1..2 : Sig(h, j) \in Nat /\ Word(h, j) \in Nat
  BY Typed
<1>3. Word(at[p], Other(p)) \in Nat
  BY <1>2 DEF Other
<1>4. /\ loc' \in [1..4 -> Nat] /\ loc'[p] = Word(at[p], Other(p))
      /\ \A q \in 1..4 : q # p => loc'[q] = loc[q]
  BY <1>1, <1>2, <1>3
<1>5. TurnTypes' /\ Begun' /\ GoneOn(p)
  BY <1>1, <1>2, <1>4, OnlySteps
<1>6. SameMem
  BY <1>1 DEF SameMem, Sig, Word
<1> QED
  BY <1>1, <1>4, <1>5, <1>6

(* A step that sets one semaphore and goes on.                             *)
LEMMA SignalMoves ==
  ASSUME TurnTypes, Begun, NEW p \in Procs,
         Post(p) \/ Wait(p) \/ CountDown(p) \/ WaitZero(p) \/ Reset(p),
         sys = "ring" => ~At(p, "reset"), sys = "offset" => ~At(p, "reset"), sys = "words" => ~At(p, "reset")
  PROVE  /\ TurnTypes' /\ Begun' /\ sys' = sys /\ left' = left /\ runs' = runs /\ loc' = loc /\ gen' = gen
         /\ at' = at /\ phase' = phase /\ phase[p] = "loop" /\ GoneOn(p) /\ unread' = unread
         /\ Post(p) => /\ sys # "letters" /\ Cycle(p)[step[p]] = "post"
                       /\ SigIs(at[p], Sem(p), Sig(at[p], Sem(p)) + 1)
         /\ Wait(p) => /\ sys # "letters" /\ Cycle(p)[step[p]] = "wait"
                       /\ Sig(at[p], WaitsFor(p)) > 0
                       /\ SigIs(at[p], WaitsFor(p), Sig(at[p], WaitsFor(p)) - 1)
         /\ CountDown(p) => /\ sys = "letters" /\ Cycle(p)[step[p]] = "post"
                            /\ Sig(at[p], p) > 0 /\ SigIs(at[p], p, Sig(at[p], p) - 1)
         /\ WaitZero(p) => /\ sys = "letters" /\ Cycle(p)[step[p]] = "wait"
                           /\ Sig(at[p], Other(p)) = 0 /\ SameMem
         /\ Reset(p) => /\ Cycle(p)[step[p]] = "reset" /\ SigIs(at[p], Other(p), 1)
<1>1. /\ sys' = sys /\ left' = left /\ runs' = runs /\ loc' = loc /\ gen' = gen
      /\ at' = at /\ phase' = phase /\ phase[p] = "loop" /\ Go(p) /\ unread' = unread
  BY DEF Post, Wait, CountDown, WaitZero, Reset, At
<1>2. /\ mem \in Memory /\ loc \in [1..4 -> Nat] /\ p \in 1..4 /\ at[p] \in 0..MaxGen
      /\ (sys # "ring" => p \in 1..2)
      /\ \A h \in 0..MaxGen : \A j \in 1..2 : Sig(h, j) \in Nat /\ Word(h, j) \in Nat
  BY Typed
<1>3. Sem(p) \in 1..2 /\ WaitsFor(p) \in 1..2 /\ (sys # "ring" => Other(p) \in 1..2)
  BY <1>2 DEF Sem, WaitsFor, Other
<1>4. ASSUME Post(p)
      PROVE  /\ mem' \in Memory /\ sys # "letters" /\ Cycle(p)[step[p]] = "post"
             /\ SigIs(at[p], Sem(p), Sig(at[p], Sem(p)) + 1)
  <2>1. PICK k \in 1..2, x \in Nat : k = Sem(p) /\ x = Sig(at[p], Sem(p)) + 1
    BY <1>2, <1>3
  <2>2. mem' = [mem EXCEPT ![at[p]].s[k] = x]
    BY <1>4, <2>1 DEF Post, Sig
  <2>3. mem' \in Memory /\ SigIs(at[p], k, x)
    BY <1>2, <2>2, SigSet DEF SigIs
  <2> QED
    BY <1>4, <2>1, <2>3 DEF Post, At
<1>5. ASSUME Wait(p)
      PROVE  /\ mem' \in Memory /\ sys # "letters" /\ Cycle(p)[step[p]] = "wait"
             /\ Sig(at[p], WaitsFor(p)) > 0
             /\ SigIs(at[p], WaitsFor(p), Sig(at[p], WaitsFor(p)) - 1)
  <2>0. Sig(at[p], WaitsFor(p)) > 0
    BY <1>5 DEF Wait, Here, Sig
  <2>1. PICK k \in 1..2, x \in Nat : k = WaitsFor(p) /\ x = Sig(at[p], WaitsFor(p)) - 1
    BY <1>2, <1>3, <2>0
  <2>2. mem' = [mem EXCEPT ![at[p]].s[k] = x]
    BY <1>5, <2>1 DEF Wait, Sig
  <2>3. mem' \in Memory /\ SigIs(at[p], k, x)
    BY <1>2, <2>2, SigSet DEF SigIs
  <2> QED
    BY <1>5, <2>0, <2>1, <2>3 DEF Wait, At
<1>6. ASSUME CountDown(p)
      PROVE  /\ mem' \in Memory /\ sys = "letters" /\ Cycle(p)[step[p]] = "post"
             /\ Sig(at[p], p) > 0 /\ SigIs(at[p], p, Sig(at[p], p) - 1)
  <2>0. Sig(at[p], p) > 0 /\ sys = "letters"
    BY <1>6 DEF CountDown, Here, Sig
  <2>1. PICK x \in Nat : x = Sig(at[p], p) - 1
    BY <1>2, <2>0
  <2>2. mem' = [mem EXCEPT ![at[p]].s[p] = x]
    BY <1>6, <2>1 DEF CountDown, Sig
  <2>3. mem' \in Memory /\ SigIs(at[p], p, x)
    BY <1>2, <2>0, <2>2, SigSet DEF SigIs
  <2> QED
    BY <1>6, <2>0, <2>1, <2>3 DEF CountDown, At
<1>7. ASSUME WaitZero(p)
      PROVE  /\ mem' \in Memory /\ sys = "letters" /\ Cycle(p)[step[p]] = "wait"
             /\ Sig(at[p], Other(p)) = 0 /\ SameMem
  BY <1>2, <1>7 DEF WaitZero, Here, At, Sig, Word, SameMem
<1>8. ASSUME Reset(p)
      PROVE  mem' \in Memory /\ Cycle(p)[step[p]] = "reset" /\ SigIs(at[p], Other(p), 1)
  <2>1. sys # "ring" /\ Cycle(p)[step[p]] = "reset"
    BY <1>8 DEF Reset, At
  <2>2. PICK k \in 1..2 : k = Other(p)
    BY <1>3, <2>1
  <2>3. mem' = [mem EXCEPT ![at[p]].s[k] = 1]
    BY <1>8, <2>2 DEF Reset
  <2>4. mem' \in Memory /\ SigIs(at[p], k, 1)
    BY <1>2, <2>3, SigSet DEF SigIs
  <2> QED
    BY <2>1, <2>2, <2>4
<1>9. mem' \in Memory
  BY <1>4, <1>5, <1>6, <1>7, <1>8
<1>10. TurnTypes' /\ Begun' /\ GoneOn(p)
  BY <1>1, <1>2, <1>9, OnlySteps
<1> QED
  BY <1>1, <1>4, <1>5, <1>6, <1>7, <1>8, <1>10

(* The limit is tested: go on or clean up.                                 *)
LEMMA TestMoves ==
  ASSUME TurnTypes, Begun, NEW p \in Procs, Test(p), sys # "ring", sys # "offset"
  PROVE  /\ TurnTypes' /\ Begun' /\ sys' = sys /\ left' = left /\ runs' = runs /\ loc' = loc /\ gen' = gen
         /\ at' = at /\ phase[p] = "loop" /\ Cycle(p)[step[p]] = "test" /\ unread' = unread /\ SameMem
         /\ \/ /\ Word(at[p], 1) >= (IF sys = "words" THEN Limit ELSE Limit + 1)
               /\ NowIn(p, "clean") /\ step' = step
            \/ /\ ~(Word(at[p], 1) >= (IF sys = "words" THEN Limit ELSE Limit + 1))
               /\ GoneOn(p) /\ phase' = phase
<1>1. /\ sys' = sys /\ left' = left /\ runs' = runs /\ loc' = loc /\ gen' = gen /\ mem' = mem
      /\ at' = at /\ phase[p] = "loop" /\ Cycle(p)[step[p]] = "test" /\ unread' = unread
      /\ \/ /\ Word(at[p], 1) >= (IF sys = "words" THEN Limit ELSE Limit + 1)
            /\ Goto(p, "clean") /\ step' = step
         \/ /\ ~(Word(at[p], 1) >= (IF sys = "words" THEN Limit ELSE Limit + 1))
            /\ Go(p) /\ phase' = phase
  BY DEF Test, At, Here, Word
<1>2. mem \in Memory /\ loc \in [1..4 -> Nat] /\ gen \in 0..MaxGen /\ at \in [1..4 -> 0..MaxGen]
  BY Typed
<1>3. SameMem
  BY <1>1 DEF SameMem, Sig, Word
<1>4. CASE /\ ~(Word(at[p], 1) >= (IF sys = "words" THEN Limit ELSE Limit + 1))
           /\ Go(p) /\ phase' = phase
  <2>1. TurnTypes' /\ Begun' /\ GoneOn(p)
    BY <1>1, <1>2, <1>4, OnlySteps
  <2> QED
    BY <1>1, <1>3, <1>4, <2>1
<1>5. CASE /\ Word(at[p], 1) >= (IF sys = "words" THEN Limit ELSE Limit + 1)
           /\ Goto(p, "clean") /\ step' = step
  <2>1. TurnTypes' /\ Begun' /\ NowIn(p, "clean")
    BY <1>1, <1>2, <1>5, OnlyPhase DEF Phases
  <2> QED
    BY <1>1, <1>3, <1>5, <2>1
<1> QED
  BY <1>1, <1>4, <1>5

(* A program leaves: its semaphores were removed, or it removes the names. *)
LEMMA LeaveMoves ==
  ASSUME TurnTypes, Begun, NEW p \in Procs, Removed(p) \/ Clean(p)
  PROVE  /\ TurnTypes' /\ Begun' /\ sys' = sys /\ left' = left /\ runs' = runs /\ loc' = loc
         /\ at' = at /\ unread' = unread /\ SameMem /\ NowIn(p, "gone") /\ step' = step
         /\ sys \in {"words", "letters"} /\ phase[p] \in {"loop", "clean"}
         /\ sys = "words" => phase[p] = "clean"
         /\ phase[p] = "loop" => gen' = gen
<1>1. /\ sys' = sys /\ left' = left /\ runs' = runs /\ loc' = loc
      /\ at' = at /\ unread' = unread /\ Goto(p, "gone") /\ step' = step
      /\ phase[p] \in {"loop", "clean"} /\ (sys = "words" => phase[p] = "clean")
      /\ (phase[p] = "loop" => gen' = gen /\ sys = "letters")
  BY DEF Removed, Clean, At
<1>2. mem \in Memory /\ loc \in [1..4 -> Nat] /\ gen \in 0..MaxGen /\ at \in [1..4 -> 0..MaxGen] /\ MaxGen \in Nat
      /\ sys \in AllSystems
  BY Typed, TurnConstants
<1>3. sys \in {"words", "letters"}
  <2>1. p \in 1..4
    BY Typed
  <2> QED
    BY <1>1, <1>2, <2>1 DEF Begun, AllSystems
<1>4. gen' \in 0..MaxGen
  BY <1>2 DEF Removed, Clean, Unlink
<1>5. mem' = mem \/ mem' = [mem EXCEPT ![at[p]].dead = TRUE]
  BY DEF Removed, Clean
<1>6. mem' \in Memory /\ SameMem
  <2>1. CASE mem' = mem
    BY <1>2, <2>1 DEF SameMem, Sig, Word
  <2>2. CASE mem' = [mem EXCEPT ![at[p]].dead = TRUE]
    BY <1>2, <2>2 DEF Memory, SameMem, Sig, Word
  <2> QED
    BY <1>5, <2>1, <2>2
<1>7. TurnTypes' /\ Begun' /\ NowIn(p, "gone")
  BY <1>1, <1>2, <1>3, <1>4, <1>6, OnlyPhase DEF Phases
<1> QED
  BY <1>1, <1>3, <1>6, <1>7

(* ring: a prompt; offset: a character is read.                            *)
LEMMA UseMoves ==
  ASSUME TurnTypes, Begun, NEW p \in Procs, Use(p) \/ ReadChar(p)
  PROVE  /\ TurnTypes' /\ Begun' /\ sys' = sys /\ left' = left /\ runs' = runs /\ gen' = gen
         /\ at' = at /\ phase' = phase /\ phase[p] = "loop" /\ Cycle(p)[step[p]] = "use"
         /\ sys \in {"ring", "offset"} /\ (GoneOn(p) \/ step' = step)
         /\ \A h \in 0..MaxGen : \A j \in 1..2 : Sig(h, j)' = Sig(h, j)
<1>1. /\ sys' = sys /\ left' = left /\ runs' = runs /\ gen' = gen
      /\ at' = at /\ phase' = phase /\ phase[p] = "loop" /\ Cycle(p)[step[p]] = "use"
      /\ sys \in {"ring", "offset"} /\ (Go(p) \/ step' = step)
  BY DEF Use, ReadChar, At
<1>2. /\ mem \in Memory /\ loc \in [1..4 -> Nat] /\ p \in 1..4 /\ at[p] \in 0..MaxGen /\ gen \in 0..MaxGen
      /\ phase \in [1..4 -> Phases] /\ step \in [1..4 -> Nat] /\ at \in [1..4 -> 0..MaxGen] /\ runs \in Nat
      /\ \A h \in 0..MaxGen : \A j \in 1..2 : Sig(h, j) \in Nat /\ Word(h, j) \in Nat
      /\ \A q \in Procs : step[q] \in 1..Len(Cycle(q))
  BY Typed
<1>3. /\ loc' \in [1..4 -> Nat] /\ mem' \in Memory
      /\ \A h \in 0..MaxGen : \A j \in 1..2 : Sig(h, j)' = Sig(h, j)
  <2>1. CASE Use(p)
    BY <1>2, <2>1 DEF Use, Sig
  <2>2. CASE ReadChar(p)
    <3>0. 1 \in 1..2 /\ at[p] \in 0..MaxGen
      BY <1>2
    <3>w. Word(at[p], 1) \in Nat
      BY <1>2, <3>0
    <3>1. PICK x \in Nat : x = Word(at[p], 1) + 1
      BY <3>w
    <3>2. mem' = [mem EXCEPT ![at[p]].v[1] = x]
      <4>1. mem' = [mem EXCEPT ![at[p]].v[1] = mem[at[p]].v[1] + 1]
        BY <2>2 DEF ReadChar
      <4> QED
        BY <4>1, <3>1 DEF Word
    <3>3. /\ mem' \in Memory
          /\ \A h \in 0..MaxGen : \A j \in 1..2 : Sig(h, j)' = Sig(h, j)
      BY <1>2, <3>0, <3>2, WordSet
    <3>4. (loc[p] + 1) % Chunk \in Nat
      <4>0. loc[p] \in Nat
        BY <1>2
      <4>1. loc[p] + 1 \in Nat /\ Chunk \in Nat /\ Chunk > 0
        BY <4>0, TurnConstants
      <4>2. \A x1, x2 \in Nat : x2 > 0 => x1 % x2 \in Nat
        OBVIOUS
      <4> QED
        BY <4>1, <4>2
    <3>5. loc' = [loc EXCEPT ![p] = (loc[p] + 1) % Chunk]
      BY <2>2 DEF ReadChar
    <3> QED
      BY <1>2, <3>3, <3>4, <3>5
  <2> QED
    BY <2>1, <2>2
<1>4. CASE Go(p)
  <2>1. TurnTypes' /\ Begun' /\ GoneOn(p)
    BY <1>1, <1>3, <1>4, OnlySteps
  <2> QED
    BY <1>1, <1>3, <2>1
<1>5. CASE step' = step
  <2>1. TurnTypes'
    BY <1>1, <1>2, <1>3, <1>5, TypesKept
  <2>2. Begun'
    BY <1>1, <1>5 DEF Begun, Ready
  <2> QED
    BY <1>1, <1>3, <1>5, <2>1, <2>2
<1> QED
  BY <1>1, <1>4, <1>5

(* offset: end of file.                                                    *)
LEMMA EndMoves ==
  ASSUME TurnTypes, Begun, NEW p \in Procs, EndOfFile(p)
  PROVE  /\ TurnTypes' /\ Begun' /\ sys' = sys /\ left' = left /\ runs' = runs
         /\ at' = at /\ phase[p] = "loop" /\ Cycle(p)[step[p]] = "use" /\ sys = "offset"
         /\ step' = step /\ NowIn(p, "gone") /\ SigIs(at[p], p, Sig(at[p], p) + 1) /\ p \in 1..2
<1>1. /\ sys' = sys /\ left' = left /\ runs' = runs /\ gen' = gen /\ loc' = loc
      /\ at' = at /\ phase[p] = "loop" /\ Cycle(p)[step[p]] = "use" /\ sys = "offset"
      /\ step' = step /\ Goto(p, "gone")
  BY DEF EndOfFile, At
<1>2. /\ mem \in Memory /\ p \in 1..4 /\ at[p] \in 0..MaxGen /\ gen \in 0..MaxGen /\ p \in 1..2
      /\ at \in [1..4 -> 0..MaxGen]
      /\ \A h \in 0..MaxGen : \A j \in 1..2 : Sig(h, j) \in Nat /\ Word(h, j) \in Nat
  BY <1>1, Typed
<1>3. PICK x \in Nat : x = Sig(at[p], p) + 1
  BY <1>2
<1>4. mem' = [mem EXCEPT ![at[p]].s[p] = x]
  BY <1>3 DEF EndOfFile, Sig
<1>5. mem' \in Memory /\ SigIs(at[p], p, x)
  BY <1>2, <1>4, SigSet DEF SigIs
<1>6. TurnTypes' /\ Begun' /\ NowIn(p, "gone")
  BY <1>1, <1>2, <1>5, OnlyPhase DEF Phases
<1> QED
  BY <1>1, <1>2, <1>3, <1>5, <1>6

(* offset: the server is started.                                          *)
LEMMA ServerStartMoves ==
  ASSUME TurnTypes, Begun, ServerStart
  PROVE  /\ TurnTypes' /\ Begun' /\ sys' = sys /\ left' = left /\ runs' = runs + 1
         /\ at' = at /\ sys = "offset" /\ step' = step /\ NowIn(1, "init1")
         /\ phase[1] \in {"off", "gone"} /\ \A h \in 0..MaxGen : \A j \in 1..2 : Sig(h, j)' = Sig(h, j)
<1>1. /\ sys' = sys /\ left' = left /\ runs' = runs + 1 /\ gen' = gen /\ loc' = loc
      /\ at' = at /\ sys = "offset" /\ step' = step /\ Goto(1, "init1")
      /\ phase[1] \in {"off", "gone"} /\ phase[2] \in {"off", "gone"}
      /\ mem' = [mem EXCEPT ![0].v = <<0, 0>>]
  BY DEF ServerStart, Procs
<1>2. /\ mem \in Memory /\ gen \in 0..MaxGen /\ at \in [1..4 -> 0..MaxGen] /\ runs \in Nat
      /\ phase \in [1..4 -> Phases] /\ step \in [1..4 -> Nat] /\ loc \in [1..4 -> Nat]
      /\ \A q \in Procs : step[q] \in 1..Len(Cycle(q))
  BY Typed
<1>3. 0 \in 0..MaxGen
  BY TurnConstants
<1>4. /\ mem' \in Memory
      /\ \A h \in 0..MaxGen : \A j \in 1..2 : Sig(h, j)' = Sig(h, j)
  <2>1. PICK g \in 0..MaxGen, x \in Nat : g = 0 /\ x = 0
    BY <1>3
  <2>2. mem' = [mem EXCEPT ![g].v = <<x, x>>]
    BY <1>1, <2>1
  <2> QED
    BY <1>2, <2>2, BothSet
<1>5. phase' \in [1..4 -> Phases] /\ NowIn(1, "init1")
  BY <1>1, <1>2, SMTT(30) DEF Goto, NowIn, Phases
<1>6. TurnTypes'
  BY <1>1, <1>2, <1>4, <1>5, TypesKept, SMTT(30)
<1>7. Begun'
  BY <1>1, <1>5 DEF Begun, NowIn
<1> QED
  BY <1>1, <1>4, <1>5, <1>6, <1>7

(* offset: the client has the descriptor; both go into their loops.        *)
LEMMA ClientStartMoves ==
  ASSUME TurnTypes, Begun, ClientStart
  PROVE  /\ TurnTypes' /\ Begun' /\ sys' = sys /\ left' = left /\ runs' = runs
         /\ at' = at /\ sys = "offset" /\ phase[1] = "init1" /\ phase[2] \in {"off", "gone"}
         /\ step'[1] = 1 /\ step'[2] = 1 /\ phase'[1] = "loop" /\ phase'[2] = "loop"
         /\ phase'[3] = phase[3] /\ phase'[4] = phase[4]
         /\ \A h \in 0..MaxGen : \A j \in 1..2 : Sig(h, j)' = Sig(h, j)
<1>1. /\ sys' = sys /\ left' = left /\ runs' = runs /\ gen' = gen /\ mem' = mem
      /\ at' = at /\ sys = "offset" /\ phase[1] = "init1"
      /\ phase' = [phase EXCEPT ![1] = "loop", ![2] = "loop"]
      /\ step' = [p \in 1..4 |-> 1] /\ loc' = [p \in 1..4 |-> 0]
  BY DEF ClientStart
<1>2. /\ mem \in Memory /\ gen \in 0..MaxGen /\ at \in [1..4 -> 0..MaxGen] /\ runs \in Nat
      /\ phase \in [1..4 -> Phases] /\ sys \in AllSystems
  BY Typed
<1>3. phase[2] \in {"off", "gone"}
  BY <1>1 DEF Begun
<1>4. /\ phase' \in [1..4 -> Phases] /\ phase'[1] = "loop" /\ phase'[2] = "loop"
      /\ phase'[3] = phase[3] /\ phase'[4] = phase[4]
  BY <1>1, <1>2 DEF Phases
<1>5. \A q \in Procs : step'[q] \in 1..Len(Cycle(q))
  <2>1. \A q \in Procs : 1 \in 1..Len(Cycle(q)) /\ q \in 1..4
    BY <1>2, Lengths
  <2>2. \A q \in 1..4 : step'[q] = 1
    BY <1>1
  <2> QED
    BY <2>1, <2>2
<1>6. step' \in [1..4 -> Nat] /\ loc' \in [1..4 -> Nat] /\ \A q \in 1..4 : step'[q] = 1
  BY <1>1
<1>7. TurnTypes'
  BY <1>1, <1>2, <1>4, <1>5, <1>6, TypesKept
<1>8. Begun'
  BY <1>1, <1>4 DEF Begun
<1>9. \A h \in 0..MaxGen : \A j \in 1..2 : Sig(h, j)' = Sig(h, j)
  BY <1>1 DEF Sig
<1> QED
  BY <1>1, <1>3, <1>4, <1>7, <1>8, <1>9

(* words: the cleaner removes the names.                                   *)
LEMMA CleanerMoves ==
  ASSUME TurnTypes, Begun, Cleaner
  PROVE  /\ TurnTypes' /\ Begun' /\ sys' = sys /\ left' = left /\ runs' = runs /\ sys = "words"
         /\ at' = at /\ step' = step /\ phase' = phase /\ unread' = unread /\ SameMem
<1>1. /\ sys' = sys /\ left' = left /\ runs' = runs /\ loc' = loc /\ mem' = mem /\ sys = "words"
      /\ at' = at /\ step' = step /\ phase' = phase /\ unread' = unread /\ gen < MaxGen /\ gen' = gen + 1
  BY DEF Cleaner, Unlink
<1>2. /\ mem \in Memory /\ gen \in 0..MaxGen /\ at \in [1..4 -> 0..MaxGen] /\ runs \in Nat
      /\ phase \in [1..4 -> Phases] /\ step \in [1..4 -> Nat] /\ loc \in [1..4 -> Nat]
      /\ \A q \in Procs : step[q] \in 1..Len(Cycle(q))
  BY Typed
<1>3. gen' \in 0..MaxGen
  BY <1>1, <1>2, TurnConstants
<1>4. TurnTypes'
  BY <1>1, <1>2, <1>3, TypesKept
<1>5. Begun'
  BY <1>1 DEF Begun, Ready
<1>6. SameMem
  BY <1>1 DEF SameMem, Sig, Word
<1> QED
  BY <1>1, <1>4, <1>5, <1>6

(* Which steps are a turn, and where they lead.                            *)
Active == {"use", "write", "post"}

(* Which steps are a turn, and what follows them.                          *)
LEMMA TurnTable ==
  ASSUME TurnTypes, sys # "letters", NEW p \in Procs, NEW n \in Nat,
         n = (IF step[p] = Len(Cycle(p)) THEN 1 ELSE step[p] + 1)
  PROVE  /\ Cycle(p)[step[p]] \in {"use", "write", "wait"} => Cycle(p)[n] \in Active
         /\ Cycle(p)[step[p]] \in {"post", "test"} => Cycle(p)[n] \notin Active
         /\ Cycle(p)[step[p]] \in {"use", "write", "wait", "post", "test"}
         /\ sys # "words" => Cycle(p)[step[p]] \in {"use", "wait", "post"}
         /\ sys = "words" => Cycle(p)[step[p]] \in {"write", "wait", "post", "test"}
         /\ p = 1 => Cycle(p)[1] \in Active
         /\ p # 1 => Cycle(p)[1] \notin Active
<1>1. sys \in AllSystems /\ step[p] \in 1..Len(Cycle(p))
  BY Typed
<1>2. CASE sys \in {"ring", "offset"}
  <2>1. /\ Len(Cycle(p)) = 3
        /\ p = 1 => (Cycle(p)[1] = "use" /\ Cycle(p)[2] = "post" /\ Cycle(p)[3] = "wait")
        /\ p # 1 => (Cycle(p)[1] = "wait" /\ Cycle(p)[2] = "use" /\ Cycle(p)[3] = "post")
    BY <1>1, <1>2, CycleNames
  <2>2. \/ step[p] = 1 /\ n = 2
        \/ step[p] = 2 /\ n = 3
        \/ step[p] = 3 /\ n = 1
    BY <1>1, <2>1
  <2> QED
    BY <1>2, <2>1, <2>2 DEF Active
<1>3. CASE sys = "words"
  <2>1. /\ Len(Cycle(p)) = 4
        /\ p = 1 => (/\ Cycle(p)[1] = "write" /\ Cycle(p)[2] = "post"
                     /\ Cycle(p)[3] = "test" /\ Cycle(p)[4] = "wait")
        /\ p # 1 => (/\ Cycle(p)[1] = "test" /\ Cycle(p)[2] = "wait"
                     /\ Cycle(p)[3] = "write" /\ Cycle(p)[4] = "post")
    BY <1>1, <1>3, CycleNames
  <2>2. \/ step[p] = 1 /\ n = 2
        \/ step[p] = 2 /\ n = 3
        \/ step[p] = 3 /\ n = 4
        \/ step[p] = 4 /\ n = 1
    BY <1>1, <2>1
  <2> QED
    BY <1>3, <2>1, <2>2 DEF Active
<1> QED
  BY <1>1, <1>2, <1>3 DEF AllSystems

(* The turn of one program, and the turns given out.                       *)
LEMMA TurnValue ==
  ASSUME sys # "letters", NEW q \in 1..4, NEW g \in 0..MaxGen
  PROVE  Turn(q, g) =
           IF q \in Procs /\ at[q] = g /\ (\/ phase[q] = "loop" /\ Cycle(q)[step[q]] \in Active
                                           \/ q = 1 /\ sys \in {"words", "offset"}
                                              /\ phase[q] \in {"init1", "init2"})
           THEN 1 ELSE 0
  BY DEF Turn, HasTurn, Active

(* The turn of one program after a step.                                   *)
LEMMA TurnValueNext ==
  ASSUME sys # "letters", sys' = sys, NEW q \in 1..4, NEW g \in 0..MaxGen
  PROVE  Turn(q, g)' =
           IF q \in Procs /\ at'[q] = g /\ (\/ phase'[q] = "loop" /\ Cycle(q)[step'[q]] \in Active
                                            \/ q = 1 /\ sys \in {"words", "offset"}
                                               /\ phase'[q] \in {"init1", "init2"})
           THEN 1 ELSE 0
<1>1. Procs' = Procs /\ Cycle(q)' = Cycle(q)
  BY DEF Procs, Cycle
<1> QED
  BY <1>1 DEF Turn, HasTurn, Active

(* The turns that were given out, system by system.                        *)
LEMMA GivenValue ==
  ASSUME TurnTypes, sys # "letters", NEW g \in 0..MaxGen
  PROVE  /\ Given(g) \in Nat
         /\ sys = "ring" => Given(g) = (IF g = 0 THEN left ELSE 0) + (IF g = 0 THEN 1 ELSE 0)
         /\ sys = "offset" => Given(g) = (IF g = 0 THEN left ELSE 0) + (IF g = 0 THEN runs ELSE 0)
         /\ sys = "words" => Given(g) = (IF g = 0 THEN left ELSE 0)
                                        + (IF at[1] = g /\ phase[1] # "off" THEN 1 ELSE 0)
<1>1. sys \in {"ring", "offset", "words"} /\ left \in 0..1 /\ runs \in Nat
  BY Typed DEF AllSystems
<1> QED
  BY <1>1 DEF Given

(* A step that starts nobody gives out no turn.                            *)
LEMMA GivenSame ==
  ASSUME TurnTypes, sys # "letters", sys' = sys, left' = left, runs' = runs, at'[1] = at[1],
         phase[1] = "off" <=> phase'[1] = "off", NEW g \in 0..MaxGen
  PROVE  Given(g)' = Given(g)
<1>1. sys \in {"ring", "offset", "words"}
  BY Typed DEF AllSystems
<1> QED
  BY <1>1 DEF Given

(* A step of p that trades its turn for a signal, or the other way round.  *)
LEMMA TurnTraded ==
  ASSUME TurnTypes, TurnTypes', TurnCount, sys # "letters", sys' = sys, NEW p \in Procs,
         \A q \in 1..4 : q # p => \A g \in 0..MaxGen : Turn(q, g)' = Turn(q, g),
         \A g \in 0..MaxGen :
           Turn(p, g)' + (Sig(g, 1)' + Sig(g, 2)') + Given(g)
             = Turn(p, g) + (Sig(g, 1) + Sig(g, 2)) + Given(g)'
  PROVE  TurnCount'
<1>1. ASSUME NEW g \in 0..MaxGen
      PROVE  (TurnsAt(g) + SignalsAt(g) = Given(g))'
  <2>1. \A q \in 1..4 : q # p => Turn(q, g)' = Turn(q, g)
    OBVIOUS
  <2>2. \A q \in 1..4 : Turn(q, g) \in Nat /\ Turn(q, g)' \in Nat
    BY TurnValue, TurnValueNext
  <2>3. /\ Sig(g, 1) \in Nat /\ Sig(g, 2) \in Nat
        /\ Sig(g, 1)' \in Nat /\ Sig(g, 2)' \in Nat
    <3>1. 1 \in 1..2 /\ 2 \in 1..2
      OBVIOUS
    <3>2. mem \in Memory /\ mem' \in Memory
      BY DEF TurnTypes
    <3>3. Sig(g, 1) \in Nat /\ Sig(g, 2) \in Nat
      BY <3>1, <3>2, MemRead
    <3> QED
      BY <3>1, <3>2, <3>3 DEF Memory, Sig
  <2>4. Given(g) \in Nat /\ Given(g)' \in Nat
    <3>1. Given(g) \in Nat
      BY GivenValue
    <3>2. sys' \in {"ring", "offset", "words"} /\ left' \in 0..1 /\ runs' \in Nat
      BY Typed DEF AllSystems, TurnTypes
    <3> QED
      BY <3>1, <3>2 DEF Given
  <2>5. TurnsAt(g) + SignalsAt(g) = Given(g)
    BY DEF TurnCount
  <2>6. SignalsAt(g) = Sig(g, 1) + Sig(g, 2) /\ SignalsAt(g)' = Sig(g, 1)' + Sig(g, 2)'
    BY DEF SignalsAt, Sig
  <2>7. /\ TurnsAt(g) = Turn(1, g) + Turn(2, g) + Turn(3, g) + Turn(4, g)
        /\ TurnsAt(g)' = Turn(1, g)' + Turn(2, g)' + Turn(3, g)' + Turn(4, g)'
    BY DEF TurnsAt
  <2>8. p = 1 \/ p = 2 \/ p = 3 \/ p = 4
    BY Typed
  <2>9. /\ Turn(1, g) \in Nat /\ Turn(2, g) \in Nat /\ Turn(3, g) \in Nat /\ Turn(4, g) \in Nat
        /\ Turn(1, g)' \in Nat /\ Turn(2, g)' \in Nat /\ Turn(3, g)' \in Nat /\ Turn(4, g)' \in Nat
        /\ 1 # p => Turn(1, g)' = Turn(1, g)
        /\ 2 # p => Turn(2, g)' = Turn(2, g)
        /\ 3 # p => Turn(3, g)' = Turn(3, g)
        /\ 4 # p => Turn(4, g)' = Turn(4, g)
    BY <2>1, <2>2
  <2>10. Turn(p, g)' + (Sig(g, 1)' + Sig(g, 2)') + Given(g)
           = Turn(p, g) + (Sig(g, 1) + Sig(g, 2)) + Given(g)'
    OBVIOUS
  <2> QED
    BY <2>3, <2>4, <2>5, <2>6, <2>7, <2>8, <2>9, <2>10
<1>2. \A g \in 0..MaxGen : (TurnsAt(g) + SignalsAt(g) = Given(g))'
  BY <1>1
<1>3. TurnCount'
  BY <1>2 DEF TurnCount
<1> QED
  BY <1>3

(* A program that does not move keeps its turn.                            *)
LEMMA SameTurn ==
  ASSUME sys # "letters", sys' = sys, NEW q \in 1..4, phase'[q] = phase[q], step'[q] = step[q], at'[q] = at[q]
  PROVE  \A g \in 0..MaxGen : Turn(q, g)' = Turn(q, g)
  BY TurnValue, TurnValueNext

(* The turn of a program that goes one step further.                       *)
LEMMA GoneTurn ==
  ASSUME TurnTypes, sys # "letters", NEW p \in Procs, sys' = sys, at' = at, phase' = phase,
         phase[p] = "loop", GoneOn(p), NEW g \in 0..MaxGen
  PROVE  /\ Turn(p, g) = IF at[p] = g /\ Cycle(p)[step[p]] \in Active THEN 1 ELSE 0
         /\ Turn(p, g)' = IF at[p] = g /\ Cycle(p)[step[p]] \in {"use", "write", "wait"} THEN 1 ELSE 0
<1>1. p \in 1..4 /\ step[p] \in 1..Len(Cycle(p))
  BY Typed
<1>2. PICK n \in Nat : n = (IF step[p] = Len(Cycle(p)) THEN 1 ELSE step[p] + 1)
  BY <1>1
<1>3. /\ Cycle(p)[step[p]] \in {"use", "write", "wait"} => Cycle(p)[n] \in Active
      /\ Cycle(p)[step[p]] \in {"post", "test"} => Cycle(p)[n] \notin Active
      /\ Cycle(p)[step[p]] \in {"use", "write", "wait", "post", "test"}
  BY <1>2, TurnTable
<1>4. step'[p] = n
  BY <1>2 DEF GoneOn
<1>5. phase[p] \notin {"init1", "init2"}
  OBVIOUS
<1>6. Turn(p, g) = IF at[p] = g /\ Cycle(p)[step[p]] \in Active THEN 1 ELSE 0
  BY <1>1, <1>5, TurnValue
<1>7. Turn(p, g)' = IF at[p] = g /\ Cycle(p)[n] \in Active THEN 1 ELSE 0
  BY <1>1, <1>4, <1>5, TurnValueNext
<1> QED
  BY <1>3, <1>6, <1>7

(* No step invents or loses a turn.                                        *)
LEMMA CountGoesOn ==
  ASSUME TurnTypes, TurnTypes', TurnCount, sys # "letters", NEW p \in Procs, sys' = sys, left' = left,
         runs' = runs, at' = at, phase' = phase, phase[p] = "loop", GoneOn(p),
         \A g \in 0..MaxGen :
           (IF at[p] = g /\ Cycle(p)[step[p]] \in {"use", "write", "wait"} THEN 1 ELSE 0)
             + (Sig(g, 1)' + Sig(g, 2)')
           = (IF at[p] = g /\ Cycle(p)[step[p]] \in Active THEN 1 ELSE 0) + (Sig(g, 1) + Sig(g, 2))
  PROVE  TurnCount'
<1>1. \A q \in 1..4 : q # p => \A g \in 0..MaxGen : Turn(q, g)' = Turn(q, g)
  <2>1. \A q \in 1..4 : q # p => phase'[q] = phase[q] /\ step'[q] = step[q] /\ at'[q] = at[q]
    BY DEF GoneOn
  <2> QED
    BY <2>1, SameTurn
<1>2. ASSUME NEW g \in 0..MaxGen
      PROVE  Turn(p, g)' + (Sig(g, 1)' + Sig(g, 2)') + Given(g)
               = Turn(p, g) + (Sig(g, 1) + Sig(g, 2)) + Given(g)'
  <2>1. /\ Turn(p, g) = IF at[p] = g /\ Cycle(p)[step[p]] \in Active THEN 1 ELSE 0
        /\ Turn(p, g)' = IF at[p] = g /\ Cycle(p)[step[p]] \in {"use", "write", "wait"} THEN 1 ELSE 0
    BY GoneTurn
  <2>2. Given(g)' = Given(g)
    BY GivenSame
  <2> QED
    BY <2>1, <2>2
<1> QED
  BY <1>1, <1>2, TurnTraded

(* The same for a step that changes a phase.                               *)
LEMMA CountPhase ==
  ASSUME TurnTypes, TurnTypes', TurnCount, sys # "letters", NEW p \in Procs, sys' = sys,
         \A q \in 1..4 : q # p => phase'[q] = phase[q] /\ at'[q] = at[q], step' = step,
         \A g \in 0..MaxGen :
           Turn(p, g)' + (Sig(g, 1)' + Sig(g, 2)') + Given(g)
             = Turn(p, g) + (Sig(g, 1) + Sig(g, 2)) + Given(g)'
  PROVE  TurnCount'
<1>1. \A q \in 1..4 : q # p => \A g \in 0..MaxGen : Turn(q, g)' = Turn(q, g)
  BY SameTurn
<1> QED
  BY <1>1, TurnTraded

(* The steps of the programs.                                              *)
LEMMA CountByProgram ==
  ASSUME TurnTypes, Begun, TurnCount, sys # "letters", NEW p \in Procs, Step(p)
  PROVE  TurnCount'
<1>a. p \in 1..4 /\ step[p] \in 1..Len(Cycle(p)) /\ sys \in AllSystems /\ at[p] \in 0..MaxGen
  BY Typed
<1>b. PICK n \in Nat : n = (IF step[p] = Len(Cycle(p)) THEN 1 ELSE step[p] + 1)
  BY <1>a
<1>c. /\ Cycle(p)[step[p]] \in {"use", "write", "wait", "post", "test"}
      /\ sys # "words" => Cycle(p)[step[p]] \in {"use", "wait", "post"}
      /\ p = 1 => Cycle(p)[1] \in Active
      /\ p # 1 => Cycle(p)[1] \notin Active
  BY <1>b, TurnTable
<1>d. \A h \in 0..MaxGen : Sig(h, 1) \in Nat /\ Sig(h, 2) \in Nat
  <2>1. 1 \in 1..2 /\ 2 \in 1..2
    OBVIOUS
  <2> QED
    BY <2>1, Typed
<1>e. sys = "ring" \/ p = 1 \/ p = 2
  BY Typed
<1>1. CASE Prepare(p)
  <2>1. /\ TurnTypes' /\ sys = "words" /\ sys' = sys /\ left' = left /\ runs' = runs
        /\ step' = step /\ at' = at
        /\ \/ phase[p] = "init1" /\ NowIn(p, "init2")
           \/ phase[p] = "init2" /\ NowIn(p, "loop")
        /\ WordIs(at[p], IF phase[p] = "init1" THEN 1 ELSE 2, 1)
    BY <1>1, PrepareMoves
  <2>2. step[p] = 1
    BY <1>e, <2>1 DEF Begun, Ready
  <2>3. \A h \in 0..MaxGen : Sig(h, 1)' = Sig(h, 1) /\ Sig(h, 2)' = Sig(h, 2)
    BY <2>1 DEF WordIs
  <2>4. \A q \in 1..4 : q # p => phase'[q] = phase[q] /\ at'[q] = at[q]
    BY <2>1 DEF NowIn
  <2>5. phase[1] = "off" <=> phase'[1] = "off"
    BY <2>1 DEF NowIn
  <2>6. ASSUME NEW g \in 0..MaxGen
        PROVE  Turn(p, g)' = Turn(p, g) /\ Given(g)' = Given(g)
    <3>1. Given(g)' = Given(g)
      BY <2>1, <2>5, GivenSame
    <3>2. phase'[p] \in {"init2", "loop"} /\ phase[p] \in {"init1", "init2"}
      BY <2>1 DEF NowIn
    <3>3. Turn(p, g) = IF at[p] = g /\ p = 1 THEN 1 ELSE 0
      BY <1>a, <2>1, <3>2, TurnValue
    <3>4. Turn(p, g)' = IF at[p] = g /\ p = 1 THEN 1 ELSE 0
      BY <1>a, <1>c, <2>1, <2>2, <3>2, TurnValueNext
    <3> QED
      BY <3>1, <3>3, <3>4
  <2>7. ASSUME NEW g \in 0..MaxGen
        PROVE  Turn(p, g)' + (Sig(g, 1)' + Sig(g, 2)') + Given(g)
                 = Turn(p, g) + (Sig(g, 1) + Sig(g, 2)) + Given(g)'
    BY <2>3, <2>6
  <2> QED
    BY <2>1, <2>4, <2>7, CountPhase
<1>2. CASE Use(p) \/ ReadChar(p)
  <2>1. /\ TurnTypes' /\ sys' = sys /\ left' = left /\ runs' = runs
        /\ at' = at /\ phase' = phase /\ phase[p] = "loop" /\ Cycle(p)[step[p]] = "use"
        /\ (GoneOn(p) \/ step' = step)
        /\ \A h \in 0..MaxGen : \A j \in 1..2 : Sig(h, j)' = Sig(h, j)
    BY <1>2, UseMoves
  <2>2. \A h \in 0..MaxGen : Sig(h, 1)' = Sig(h, 1) /\ Sig(h, 2)' = Sig(h, 2)
    BY <2>1
  <2>3. CASE GoneOn(p)
    BY <2>1, <2>2, <2>3, CountGoesOn DEF Active
  <2>4. CASE step' = step
    <3>1. ASSUME NEW g \in 0..MaxGen PROVE Turn(p, g)' = Turn(p, g) /\ Given(g)' = Given(g)
      BY <1>a, <2>1, <2>4, SameTurn, GivenSame
    <3>2. ASSUME NEW g \in 0..MaxGen
          PROVE  Turn(p, g)' + (Sig(g, 1)' + Sig(g, 2)') + Given(g)
                   = Turn(p, g) + (Sig(g, 1) + Sig(g, 2)) + Given(g)'
      BY <2>2, <3>1
    <3> QED
      BY <2>1, <2>4, <3>2, CountPhase
  <2> QED
    BY <2>1, <2>3, <2>4
<1>3. CASE EndOfFile(p)
  <2>1. /\ TurnTypes' /\ sys' = sys /\ left' = left /\ runs' = runs
        /\ at' = at /\ phase[p] = "loop" /\ Cycle(p)[step[p]] = "use" /\ sys = "offset"
        /\ step' = step /\ NowIn(p, "gone") /\ SigIs(at[p], p, Sig(at[p], p) + 1) /\ p \in 1..2
    BY <1>3, EndMoves
  <2>2. phase[1] = "off" <=> phase'[1] = "off"
    BY <2>1 DEF NowIn
  <2>3. ASSUME NEW g \in 0..MaxGen
        PROVE  Turn(p, g)' + (Sig(g, 1)' + Sig(g, 2)') + Given(g)
                 = Turn(p, g) + (Sig(g, 1) + Sig(g, 2)) + Given(g)'
    <3>1. Turn(p, g) = IF at[p] = g THEN 1 ELSE 0
      BY <1>a, <2>1, TurnValue DEF Active
    <3>2. Turn(p, g)' = 0
      BY <1>a, <2>1, TurnValueNext DEF NowIn
    <3>3. Given(g)' = Given(g)
      BY <2>1, <2>2, GivenSame
    <3>4. Sig(g, 1)' + Sig(g, 2)' = (Sig(g, 1) + Sig(g, 2)) + (IF at[p] = g THEN 1 ELSE 0)
      <4>1. /\ Sig(g, 1)' = (IF g = at[p] /\ 1 = p THEN Sig(at[p], p) + 1 ELSE Sig(g, 1))
            /\ Sig(g, 2)' = (IF g = at[p] /\ 2 = p THEN Sig(at[p], p) + 1 ELSE Sig(g, 2))
        BY <2>1 DEF SigIs
      <4>2. p = 1 \/ p = 2
        BY <2>1
      <4> QED
        BY <1>d, <4>1, <4>2
    <3> QED
      BY <1>d, <3>1, <3>2, <3>3, <3>4
  <2>4. \A q \in 1..4 : q # p => phase'[q] = phase[q] /\ at'[q] = at[q]
    BY <2>1 DEF NowIn
  <2> QED
    BY <2>1, <2>3, <2>4, CountPhase
<1>4. CASE Write(p)
  <2>0. sys # "ring" /\ sys # "offset" /\ sys = "words"
    BY <1>a, <1>c, <1>4 DEF Write, At, AllSystems
  <2>1. /\ TurnTypes' /\ sys' = sys /\ left' = left /\ runs' = runs
        /\ at' = at /\ phase' = phase /\ phase[p] = "loop" /\ Cycle(p)[step[p]] = "write" /\ GoneOn(p)
        /\ WordIs(at[p], p, (IF sys = "words" THEN Word(at[p], Other(p)) ELSE loc[p]) + 1)
    BY <1>4, <2>0, WriteMoves
  <2>2. \A h \in 0..MaxGen : Sig(h, 1)' = Sig(h, 1) /\ Sig(h, 2)' = Sig(h, 2)
    BY <2>1 DEF WordIs
  <2> QED
    BY <2>1, <2>2, CountGoesOn DEF Active
<1>5. CASE Read(p) \/ Reset(p)
  BY <1>5, <1>c DEF Read, Reset, At
<1>6. CASE CountDown(p) \/ WaitZero(p) \/ Removed(p)
  BY <1>6 DEF CountDown, WaitZero, Removed
<1>7. CASE Post(p) \/ Wait(p)
  <2>0. ~At(p, "reset")
    BY <1>c DEF At
  <2>1. /\ TurnTypes' /\ sys' = sys /\ left' = left /\ runs' = runs
        /\ at' = at /\ phase' = phase /\ phase[p] = "loop" /\ GoneOn(p)
        /\ Post(p) => /\ Cycle(p)[step[p]] = "post"
                      /\ SigIs(at[p], Sem(p), Sig(at[p], Sem(p)) + 1)
        /\ Wait(p) => /\ Cycle(p)[step[p]] = "wait"
                      /\ Sig(at[p], WaitsFor(p)) > 0
                      /\ SigIs(at[p], WaitsFor(p), Sig(at[p], WaitsFor(p)) - 1)
    BY <1>7, <2>0, SignalMoves
  <2>2. Sem(p) \in {1, 2} /\ WaitsFor(p) \in {1, 2}
    BY <1>e DEF Sem, WaitsFor, Other
  <2>3. CASE Post(p)
    <3>1. ASSUME NEW g \in 0..MaxGen
          PROVE  Sig(g, 1)' + Sig(g, 2)' = (Sig(g, 1) + Sig(g, 2)) + (IF at[p] = g THEN 1 ELSE 0)
      <4>1. PICK k \in {1, 2} : k = Sem(p)
        BY <2>2
      <4>2. /\ Sig(g, 1)' = (IF g = at[p] /\ 1 = k THEN Sig(at[p], k) + 1 ELSE Sig(g, 1))
            /\ Sig(g, 2)' = (IF g = at[p] /\ 2 = k THEN Sig(at[p], k) + 1 ELSE Sig(g, 2))
        BY <2>1, <2>3, <4>1 DEF SigIs
      <4> QED
        BY <1>d, <4>1, <4>2
    <3> QED
      BY <1>d, <2>1, <2>3, <3>1, CountGoesOn DEF Active
  <2>4. CASE Wait(p)
    <3>1. ASSUME NEW g \in 0..MaxGen
          PROVE  Sig(g, 1)' + Sig(g, 2)' + (IF at[p] = g THEN 1 ELSE 0) = (Sig(g, 1) + Sig(g, 2))
      <4>1. PICK k \in {1, 2} : k = WaitsFor(p)
        BY <2>2
      <4>2. /\ Sig(g, 1)' = (IF g = at[p] /\ 1 = k THEN Sig(at[p], k) - 1 ELSE Sig(g, 1))
            /\ Sig(g, 2)' = (IF g = at[p] /\ 2 = k THEN Sig(at[p], k) - 1 ELSE Sig(g, 2))
        BY <2>1, <2>4, <4>1 DEF SigIs
      <4> QED
        BY <1>d, <4>1, <4>2
    <3>2. \A h \in 0..MaxGen : Sig(h, 1)' \in Nat /\ Sig(h, 2)' \in Nat
      <4>1. 1 \in 1..2 /\ 2 \in 1..2
        OBVIOUS
      <4> QED
        BY <2>1, <4>1 DEF TurnTypes, Memory, Sig
    <3> QED
      BY <1>d, <2>1, <2>4, <3>1, <3>2, CountGoesOn DEF Active
  <2> QED
    BY <1>7, <2>3, <2>4
<1>8. CASE Test(p)
  <2>0. sys # "ring" /\ sys # "offset"
    BY <1>a, <1>c, <1>8 DEF Test, At, AllSystems
  <2>1. /\ TurnTypes' /\ sys' = sys /\ left' = left /\ runs' = runs
        /\ at' = at /\ phase[p] = "loop" /\ Cycle(p)[step[p]] = "test" /\ SameMem
        /\ (NowIn(p, "clean") /\ step' = step) \/ (GoneOn(p) /\ phase' = phase)
    BY <1>8, <2>0, TestMoves
  <2>2. \A h \in 0..MaxGen : Sig(h, 1)' = Sig(h, 1) /\ Sig(h, 2)' = Sig(h, 2)
    BY <2>1 DEF SameMem
  <2>3. CASE GoneOn(p) /\ phase' = phase
    BY <2>1, <2>2, <2>3, CountGoesOn DEF Active
  <2>4. CASE NowIn(p, "clean") /\ step' = step
    <3>1. ASSUME NEW g \in 0..MaxGen
          PROVE  Turn(p, g)' + (Sig(g, 1)' + Sig(g, 2)') + Given(g)
                   = Turn(p, g) + (Sig(g, 1) + Sig(g, 2)) + Given(g)'
      <4>1. Turn(p, g) = 0
        BY <1>a, <2>1, TurnValue DEF Active
      <4>2. Turn(p, g)' = 0
        BY <1>a, <2>1, <2>4, TurnValueNext DEF NowIn
      <4>3. phase[1] = "off" <=> phase'[1] = "off"
        BY <2>1, <2>4 DEF NowIn
      <4>4. Given(g)' = Given(g)
        BY <2>1, <4>3, GivenSame
      <4> QED
        BY <2>2, <4>1, <4>2, <4>4
    <3>2. \A q \in 1..4 : q # p => phase'[q] = phase[q] /\ at'[q] = at[q]
      BY <2>1, <2>4 DEF NowIn
    <3> QED
      BY <2>1, <2>4, <3>1, <3>2, CountPhase
  <2> QED
    BY <2>1, <2>3, <2>4
<1>9. CASE Clean(p)
  <2>1. /\ TurnTypes' /\ sys' = sys /\ left' = left /\ runs' = runs
        /\ at' = at /\ SameMem /\ NowIn(p, "gone") /\ step' = step /\ phase[p] = "clean"
    BY <1>9, LeaveMoves DEF Clean
  <2>2. ASSUME NEW g \in 0..MaxGen
        PROVE  Turn(p, g)' + (Sig(g, 1)' + Sig(g, 2)') + Given(g)
                 = Turn(p, g) + (Sig(g, 1) + Sig(g, 2)) + Given(g)'
    <3>1. Turn(p, g) = 0
      BY <1>a, <2>1, TurnValue
    <3>2. Turn(p, g)' = 0
      BY <1>a, <2>1, TurnValueNext DEF NowIn
    <3>3. phase[1] = "off" <=> phase'[1] = "off"
      BY <2>1 DEF NowIn
    <3>4. Given(g)' = Given(g)
      BY <2>1, <3>3, GivenSame
    <3>5. Sig(g, 1)' = Sig(g, 1) /\ Sig(g, 2)' = Sig(g, 2)
      BY <2>1 DEF SameMem
    <3> QED
      BY <3>1, <3>2, <3>4, <3>5
  <2>3. \A q \in 1..4 : q # p => phase'[q] = phase[q] /\ at'[q] = at[q]
    BY <2>1 DEF NowIn
  <2> QED
    BY <2>1, <2>2, <2>3, CountPhase
<1> QED
  BY <1>1, <1>2, <1>3, <1>4, <1>5, <1>6, <1>7, <1>8, <1>9
  DEF Step, Reader, Semaphore, SysVSemaphore

(* No step at all invents or loses a turn, the starts included.            *)
LEMMA CountStep ==
  ASSUME TurnTypes, Begun, TurnCount, sys # "letters", Next
  PROVE  TurnCount'
<1>1. ASSUME NEW p \in Procs, Start(p) PROVE TurnCount'
  <2>1. /\ TurnTypes' /\ sys = "words" /\ phase[p] = "off" /\ NowIn(p, "init1")
        /\ sys' = sys /\ left' = left /\ runs' = runs /\ step' = step /\ SameMem
        /\ at'[p] = gen /\ \A q \in 1..4 : q # p => at'[q] = at[q]
    BY <1>1, StartMoves
  <2>2. \A q \in 1..4 : q # p => phase'[q] = phase[q] /\ at'[q] = at[q]
    BY <2>1 DEF NowIn
  <2>3. p \in 1..4 /\ (p = 1 \/ p = 2) /\ left \in 0..1
    BY <2>1, Typed
  <2>4. ASSUME NEW g \in 0..MaxGen
        PROVE  Turn(p, g)' + (Sig(g, 1)' + Sig(g, 2)') + Given(g)
                 = Turn(p, g) + (Sig(g, 1) + Sig(g, 2)) + Given(g)'
    <3>1. Sig(g, 1)' = Sig(g, 1) /\ Sig(g, 2)' = Sig(g, 2)
      BY <2>1 DEF SameMem
    <3>2. Sig(g, 1) \in Nat /\ Sig(g, 2) \in Nat
      <4>1. 1 \in 1..2 /\ 2 \in 1..2
        OBVIOUS
      <4> QED
        BY <4>1, Typed
    <3>3. Turn(p, g) = 0
      BY <2>1, <2>3, TurnValue
    <3>4. Turn(p, g)' = IF p = 1 /\ gen = g THEN 1 ELSE 0
      BY <2>1, <2>3, TurnValueNext DEF NowIn
    <3>5. CASE p = 1
      <4>1. Given(g) = (IF g = 0 THEN left ELSE 0)
        BY <2>1, <2>3, <3>5, GivenValue
      <4>2. Given(g)' = (IF g = 0 THEN left ELSE 0) + (IF gen = g THEN 1 ELSE 0)
        <5>1. sys' = "words" /\ left' = left /\ at'[1] = gen /\ phase'[1] = "init1"
          BY <2>1, <3>5 DEF NowIn
        <5> QED
          BY <5>1 DEF Given
      <4> QED
        BY <2>3, <3>1, <3>2, <3>3, <3>4, <3>5, <4>1, <4>2
    <3>6. CASE p = 2
      <4>1. at'[1] = at[1] /\ phase'[1] = phase[1]
        BY <2>2, <3>6
      <4>2. Given(g)' = Given(g) /\ Given(g) \in Nat
        BY <2>1, <4>1, GivenSame, GivenValue
      <4> QED
        BY <3>1, <3>3, <3>4, <3>6, <4>2
    <3> QED
      BY <2>3, <3>5, <3>6
  <2> QED
    BY <2>1, <2>2, <2>4, CountPhase
<1>2. CASE ServerStart
  <2>1. /\ TurnTypes' /\ sys' = sys /\ left' = left /\ runs' = runs + 1
        /\ at' = at /\ sys = "offset" /\ step' = step /\ NowIn(1, "init1")
        /\ phase[1] \in {"off", "gone"} /\ \A h \in 0..MaxGen : \A j \in 1..2 : Sig(h, j)' = Sig(h, j)
    BY <1>2, ServerStartMoves
  <2>2. at[1] = 0 /\ 1 \in Procs /\ 1 \in 1..4 /\ runs \in Nat /\ left \in 0..1
    BY <2>1, Typed DEF Begun, Procs
  <2>3. \A q \in 1..4 : q # 1 => phase'[q] = phase[q] /\ at'[q] = at[q]
    BY <2>1 DEF NowIn
  <2>4. ASSUME NEW g \in 0..MaxGen
        PROVE  Turn(1, g)' + (Sig(g, 1)' + Sig(g, 2)') + Given(g)
                 = Turn(1, g) + (Sig(g, 1) + Sig(g, 2)) + Given(g)'
    <3>1. Sig(g, 1)' = Sig(g, 1) /\ Sig(g, 2)' = Sig(g, 2)
      BY <2>1
    <3>2. Sig(g, 1) \in Nat /\ Sig(g, 2) \in Nat
      <4>1. 1 \in 1..2 /\ 2 \in 1..2
        OBVIOUS
      <4> QED
        BY <4>1, Typed
    <3>3. Turn(1, g) = 0
      BY <2>1, <2>2, TurnValue
    <3>4. Turn(1, g)' = IF g = 0 THEN 1 ELSE 0
      BY <2>1, <2>2, TurnValueNext DEF NowIn
    <3>5. Given(g) = (IF g = 0 THEN left ELSE 0) + (IF g = 0 THEN runs ELSE 0)
      BY <2>1, GivenValue
    <3>6. Given(g)' = (IF g = 0 THEN left ELSE 0) + (IF g = 0 THEN runs + 1 ELSE 0)
      BY <2>1 DEF Given
    <3> QED
      BY <2>2, <3>1, <3>2, <3>3, <3>4, <3>5, <3>6
  <2>5. PICK p \in Procs : p = 1
    BY <2>2
  <2> QED
    BY <2>1, <2>3, <2>4, <2>5, CountPhase
<1>3. CASE ClientStart
  <2>1. /\ TurnTypes' /\ sys' = sys /\ left' = left /\ runs' = runs
        /\ at' = at /\ sys = "offset" /\ phase[1] = "init1" /\ phase[2] \in {"off", "gone"}
        /\ step'[1] = 1 /\ step'[2] = 1 /\ phase'[1] = "loop" /\ phase'[2] = "loop"
        /\ \A h \in 0..MaxGen : \A j \in 1..2 : Sig(h, j)' = Sig(h, j)
    BY <1>3, ClientStartMoves
  <2>2. PICK p \in Procs, q \in Procs : p = 1 /\ q = 2
    BY <2>1 DEF Procs
  <2>3. Cycle(1)[1] \in Active /\ Cycle(2)[1] \notin Active
    <3>1. p \in 1..4 /\ step[p] \in 1..Len(Cycle(p)) /\ q \in 1..4 /\ step[q] \in 1..Len(Cycle(q))
      BY Typed
    <3>2. PICK n \in Nat : n = (IF step[p] = Len(Cycle(p)) THEN 1 ELSE step[p] + 1)
      BY <3>1
    <3>3. PICK m \in Nat : m = (IF step[q] = Len(Cycle(q)) THEN 1 ELSE step[q] + 1)
      BY <3>1
    <3>4. Cycle(p)[1] \in Active
      BY <2>1, <2>2, <3>2, TurnTable
    <3>5. Cycle(q)[1] \notin Active
      BY <2>1, <2>2, <3>3, TurnTable
    <3> QED
      BY <2>2, <3>4, <3>5
  <2>4. ASSUME NEW g \in 0..MaxGen, NEW r \in 1..4 PROVE Turn(r, g)' = Turn(r, g)
    <3>1. r = 1 \/ r = 2 \/ r \notin Procs
      BY <2>1 DEF Procs
    <3>2. ASSUME r = 1 PROVE Turn(r, g) = (IF at[1] = g THEN 1 ELSE 0)
      BY <2>1, <2>2, <3>2, TurnValue
    <3>3. ASSUME r = 1 PROVE Turn(r, g)' = (IF at[1] = g THEN 1 ELSE 0)
      BY <2>1, <2>2, <2>3, <3>3, TurnValueNext
    <3>4. ASSUME r = 2 PROVE Turn(r, g) = 0
      BY <2>1, <3>4, TurnValue
    <3>5. ASSUME r = 2 PROVE Turn(r, g)' = 0
      BY <2>1, <2>3, <3>5, TurnValueNext
    <3>6. ASSUME r \notin Procs PROVE Turn(r, g) = 0 /\ Turn(r, g)' = 0
      BY <2>1, <3>6, TurnValue, TurnValueNext
    <3> QED
      BY <3>1, <3>2, <3>3, <3>4, <3>5, <3>6
  <2>5. ASSUME NEW g \in 0..MaxGen
        PROVE  Turn(p, g)' + (Sig(g, 1)' + Sig(g, 2)') + Given(g)
                 = Turn(p, g) + (Sig(g, 1) + Sig(g, 2)) + Given(g)'
    <3>1. Sig(g, 1)' = Sig(g, 1) /\ Sig(g, 2)' = Sig(g, 2)
      BY <2>1
    <3>2. Given(g)' = Given(g)
      BY <2>1, GivenSame
    <3>3. Turn(p, g)' = Turn(p, g)
      BY <2>2, <2>4
    <3> QED
      BY <3>1, <3>2, <3>3
  <2> QED
    BY <2>1, <2>4, <2>5, TurnTraded
<1>4. CASE Cleaner
  <2>1. /\ TurnTypes' /\ sys' = sys /\ left' = left /\ runs' = runs /\ sys = "words"
        /\ at' = at /\ step' = step /\ phase' = phase /\ SameMem
    BY <1>4, CleanerMoves
  <2>2. PICK p \in Procs : p = 1
    BY <2>1 DEF Procs
  <2>3. ASSUME NEW g \in 0..MaxGen
        PROVE  Turn(p, g)' + (Sig(g, 1)' + Sig(g, 2)') + Given(g)
                 = Turn(p, g) + (Sig(g, 1) + Sig(g, 2)) + Given(g)'
    <3>1. Sig(g, 1)' = Sig(g, 1) /\ Sig(g, 2)' = Sig(g, 2)
      BY <2>1 DEF SameMem
    <3>2. Given(g)' = Given(g)
      BY <2>1, GivenSame
    <3>3. Turn(p, g)' = Turn(p, g)
      BY <2>1, <2>2, SameTurn
    <3> QED
      BY <3>1, <3>2, <3>3
  <2> QED
    BY <2>1, <2>3, CountPhase
<1> QED
  BY <1>1, <1>2, <1>3, <1>4, CountByProgram DEF Next

(* words, nothing left: the one turn of the generation that p1 works on.   *)
P1Has == phase[1] \in {"init1", "init2"} \/ (phase[1] = "loop" /\ step[1] \in {1, 2})
P2Has == phase[2] = "loop" /\ step[2] \in {3, 4}

(* words: the steps of the two programs by their numbers.                  *)
LEMMA WordsSteps ==
  ASSUME TurnTypes, sys = "words"
  PROVE  /\ Procs = 1..2 /\ step[1] \in 1..4 /\ step[2] \in 1..4
         /\ at[1] \in 0..MaxGen /\ at[2] \in 0..MaxGen
         /\ Cycle(1)[step[1]] = "write" <=> step[1] = 1
         /\ Cycle(1)[step[1]] = "post" <=> step[1] = 2
         /\ Cycle(1)[step[1]] = "test" <=> step[1] = 3
         /\ Cycle(1)[step[1]] = "wait" <=> step[1] = 4
         /\ Cycle(2)[step[2]] = "test" <=> step[2] = 1
         /\ Cycle(2)[step[2]] = "wait" <=> step[2] = 2
         /\ Cycle(2)[step[2]] = "write" <=> step[2] = 3
         /\ Cycle(2)[step[2]] = "post" <=> step[2] = 4
         /\ GoneOn(1) => step'[1] = (IF step[1] = 4 THEN 1 ELSE step[1] + 1) /\ step'[2] = step[2]
         /\ GoneOn(2) => step'[2] = (IF step[2] = 4 THEN 1 ELSE step[2] + 1) /\ step'[1] = step[1]
<1>1. Procs = 1..2 /\ sys \in AllSystems /\ at[1] \in 0..MaxGen /\ at[2] \in 0..MaxGen
  BY Typed DEF Procs
<1>2. PICK p \in Procs, q \in Procs : p = 1 /\ q = 2
  BY <1>1
<1>3. /\ Len(Cycle(p)) = 4
      /\ Cycle(p)[1] = "write" /\ Cycle(p)[2] = "post" /\ Cycle(p)[3] = "test" /\ Cycle(p)[4] = "wait"
  BY <1>1, <1>2, CycleNames
<1>4. /\ Len(Cycle(q)) = 4
      /\ Cycle(q)[1] = "test" /\ Cycle(q)[2] = "wait" /\ Cycle(q)[3] = "write" /\ Cycle(q)[4] = "post"
  BY <1>1, <1>2, CycleNames
<1>5. step[p] \in 1..Len(Cycle(p)) /\ step[q] \in 1..Len(Cycle(q))
  BY Typed
<1>6. /\ step[1] \in 1..4 /\ step[2] \in 1..4 /\ Len(Cycle(1)) = 4 /\ Len(Cycle(2)) = 4
      /\ Cycle(1)[1] = "write" /\ Cycle(1)[2] = "post" /\ Cycle(1)[3] = "test" /\ Cycle(1)[4] = "wait"
      /\ Cycle(2)[1] = "test" /\ Cycle(2)[2] = "wait" /\ Cycle(2)[3] = "write" /\ Cycle(2)[4] = "post"
  BY <1>2, <1>3, <1>4, <1>5
<1>7. /\ step[1] = 1 \/ step[1] = 2 \/ step[1] = 3 \/ step[1] = 4
      /\ step[2] = 1 \/ step[2] = 2 \/ step[2] = 3 \/ step[2] = 4
  BY <1>6
<1>8. /\ Cycle(1)[step[1]] = "write" <=> step[1] = 1
      /\ Cycle(1)[step[1]] = "post" <=> step[1] = 2
      /\ Cycle(1)[step[1]] = "test" <=> step[1] = 3
      /\ Cycle(1)[step[1]] = "wait" <=> step[1] = 4
  BY <1>6, <1>7
<1>9. /\ Cycle(2)[step[2]] = "test" <=> step[2] = 1
      /\ Cycle(2)[step[2]] = "wait" <=> step[2] = 2
      /\ Cycle(2)[step[2]] = "write" <=> step[2] = 3
      /\ Cycle(2)[step[2]] = "post" <=> step[2] = 4
  BY <1>6, <1>7
<1>10. /\ GoneOn(1) => step'[1] = (IF step[1] = 4 THEN 1 ELSE step[1] + 1) /\ step'[2] = step[2]
       /\ GoneOn(2) => step'[2] = (IF step[2] = 4 THEN 1 ELSE step[2] + 1) /\ step'[1] = step[1]
  <2>1. 1 \in 1..4 /\ 2 \in 1..4 /\ 1 # 2
    OBVIOUS
  <2>2. ASSUME GoneOn(1) PROVE step'[1] = (IF step[1] = 4 THEN 1 ELSE step[1] + 1) /\ step'[2] = step[2]
    BY <1>6, <2>1, <2>2 DEF GoneOn
  <2>3. ASSUME GoneOn(2) PROVE step'[2] = (IF step[2] = 4 THEN 1 ELSE step[2] + 1) /\ step'[1] = step[1]
    BY <1>6, <2>1, <2>3 DEF GoneOn
  <2> QED
    BY <2>2, <2>3
<1> QED
  BY <1>1, <1>6, <1>8, <1>9, <1>10

(* words, nothing left: the sum of the turns leaves one place for the      *)
(* turn.                                                                   *)
LEMMA WordsTurns ==
  ASSUME TurnTypes, TurnCount, sys = "words", left = 0, NEW g \in 0..MaxGen
  PROVE  /\ P1Has \/ P2Has => Sig(g, 1) = 0 /\ Sig(g, 2) = 0
         /\ P2Has => ~P1Has /\ at[2] = at[1]
         /\ Sig(g, 1) > 0 => at[1] = g /\ Sig(g, 2) = 0
         /\ Sig(g, 2) > 0 => at[1] = g /\ Sig(g, 1) = 0
<1>1. ASSUME NEW h \in 0..MaxGen
      PROVE  /\ Sig(h, 1) \in Nat /\ Sig(h, 2) \in Nat
             /\ (IF at[1] = h /\ P1Has THEN 1 ELSE 0) + (IF at[2] = h /\ P2Has THEN 1 ELSE 0)
                + (Sig(h, 1) + Sig(h, 2)) = (IF at[1] = h /\ phase[1] # "off" THEN 1 ELSE 0)
  <2>1. /\ 1 \in Procs /\ 2 \in Procs /\ 3 \notin Procs /\ 4 \notin Procs
        /\ Cycle(1)[step[1]] \in Active <=> step[1] \in {1, 2}
        /\ Cycle(2)[step[2]] \in Active <=> step[2] \in {3, 4}
    <3>1. /\ Procs = 1..2 /\ step[1] \in 1..4 /\ step[2] \in 1..4
          /\ Cycle(1)[step[1]] = "write" <=> step[1] = 1
          /\ Cycle(1)[step[1]] = "post" <=> step[1] = 2
          /\ Cycle(1)[step[1]] = "test" <=> step[1] = 3
          /\ Cycle(1)[step[1]] = "wait" <=> step[1] = 4
          /\ Cycle(2)[step[2]] = "test" <=> step[2] = 1
          /\ Cycle(2)[step[2]] = "wait" <=> step[2] = 2
          /\ Cycle(2)[step[2]] = "write" <=> step[2] = 3
          /\ Cycle(2)[step[2]] = "post" <=> step[2] = 4
      BY WordsSteps
    <3> QED
      BY <3>1 DEF Active
  <2>2. 1 \in 1..4 /\ 2 \in 1..4 /\ 3 \in 1..4 /\ 4 \in 1..4
    OBVIOUS
  <2>3. Turn(1, h) = IF at[1] = h /\ P1Has THEN 1 ELSE 0
    BY <2>1, <2>2, TurnValue DEF P1Has
  <2>4. Turn(2, h) = IF at[2] = h /\ P2Has THEN 1 ELSE 0
    BY <2>1, <2>2, TurnValue DEF P2Has
  <2>5. Turn(3, h) = 0 /\ Turn(4, h) = 0
    BY <2>1, <2>2, TurnValue
  <2>6. Given(h) = IF at[1] = h /\ phase[1] # "off" THEN 1 ELSE 0
    BY GivenValue
  <2>7. TurnsAt(h) + SignalsAt(h) = Given(h)
    BY DEF TurnCount
  <2>8. Sig(h, 1) \in Nat /\ Sig(h, 2) \in Nat
    <3>1. 1 \in 1..2 /\ 2 \in 1..2
      OBVIOUS
    <3> QED
      BY <3>1, Typed
  <2>9. Turn(1, h) + Turn(2, h) + (Sig(h, 1) + Sig(h, 2)) = Given(h)
    <3>1. Turn(1, h) \in Nat /\ Turn(2, h) \in Nat
      BY <2>3, <2>4
    <3>2. SignalsAt(h) = Sig(h, 1) + Sig(h, 2)
      BY DEF SignalsAt, Sig
    <3>3. TurnsAt(h) = Turn(1, h) + Turn(2, h)
      BY <2>5, <3>1 DEF TurnsAt
    <3> QED
      BY <2>7, <3>2, <3>3
  <2> QED
    BY <2>3, <2>4, <2>6, <2>8, <2>9, Zenon
<1>2. at[1] \in 0..MaxGen /\ at[2] \in 0..MaxGen
  BY WordsSteps
<1>3. P1Has => phase[1] # "off"
  BY DEF P1Has
<1>4. P2Has => at[1] = at[2] /\ ~P1Has
  BY <1>1, <1>2
<1>5. ASSUME P1Has PROVE Sig(g, 1) = 0 /\ Sig(g, 2) = 0
  <2>1. PICK t \in Nat : t = (IF at[2] = g /\ P2Has THEN 1 ELSE 0)
    OBVIOUS
  <2>2. (IF at[1] = g THEN 1 ELSE 0) + t + (Sig(g, 1) + Sig(g, 2)) = (IF at[1] = g THEN 1 ELSE 0)
    BY <1>1, <1>3, <1>5, <2>1
  <2>3. Sig(g, 1) \in Nat /\ Sig(g, 2) \in Nat
    BY <1>1
  <2> QED
    BY <2>2, <2>3
<1>6. P2Has => Sig(g, 1) = 0 /\ Sig(g, 2) = 0
  <2>1. CASE at[1] = g
    BY <1>1, <1>4, <2>1
  <2>2. CASE at[1] # g
    BY <1>1, <2>2
  <2> QED
    BY <2>1, <2>2
<1>7. /\ Sig(g, 1) > 0 => at[1] = g /\ Sig(g, 2) = 0
      /\ Sig(g, 2) > 0 => at[1] = g /\ Sig(g, 1) = 0
  BY <1>1
<1> QED
  BY <1>4, <1>5, <1>6, <1>7

WordsHyp == TurnTypes /\ Begun /\ TurnCount /\ sys = "words" /\ left = 0 /\ WordsInTurn

(* What the cases below use of the invariant.                              *)
LEMMA WordsFacts ==
  ASSUME WordsHyp, NEW g \in 0..MaxGen
  PROVE  /\ WordsRead /\ WordsAt(g) /\ Limit \in Nat /\ Limit >= 1
         /\ Sig(g, 1) \in Nat /\ Sig(g, 2) \in Nat /\ Word(g, 1) \in Nat /\ Word(g, 2) \in Nat
         /\ P1Has \/ P2Has => Sig(g, 1) = 0 /\ Sig(g, 2) = 0
         /\ P2Has => ~P1Has /\ at[2] = at[1]
<1>1. TurnTypes /\ TurnCount /\ sys = "words" /\ left = 0 /\ WordsInTurn
  BY DEF WordsHyp
<1>2. /\ P1Has \/ P2Has => Sig(g, 1) = 0 /\ Sig(g, 2) = 0
      /\ P2Has => ~P1Has /\ at[2] = at[1]
  BY <1>1, WordsTurns
<1>3. Sig(g, 1) \in Nat /\ Sig(g, 2) \in Nat /\ Word(g, 1) \in Nat /\ Word(g, 2) \in Nat
  <2>1. 1 \in 1..2 /\ 2 \in 1..2
    OBVIOUS
  <2> QED
    BY <1>1, <2>1, Typed
<1>4. Limit \in Nat /\ Limit >= 1
  BY TurnConstants
<1> QED
  BY <1>1, <1>2, <1>3, <1>4 DEF WordsInTurn

(* A program starts.                                                       *)
LEMMA WordsStart ==
  ASSUME WordsHyp, NEW p \in Procs, Start(p)
  PROVE  WordsInTurn'
<1>1. /\ phase[p] = "off" /\ NowIn(p, "init1") /\ step' = step /\ unread' = unread /\ SameMem
      /\ at'[p] = gen /\ \A q \in 1..4 : q # p => at'[q] = at[q]
  BY StartMoves DEF WordsHyp
<1>2. p = 1 \/ p = 2
  BY WordsSteps DEF WordsHyp
<1>3. WordsRead'
  BY <1>1, <1>2, WordsFacts DEF NowIn, WordsRead, Ready, WordsHyp, WordsInTurn
<1>4. ASSUME NEW g \in 0..MaxGen PROVE WordsAt(g)'
  <2>1. WordsAt(g)
    BY WordsFacts
  <2>2. Sig(g, 1)' = Sig(g, 1) /\ Sig(g, 2)' = Sig(g, 2) /\ Word(g, 1)' = Word(g, 1) /\ Word(g, 2)' = Word(g, 2)
    BY <1>1 DEF SameMem
  <2>3. \/ p = 1 /\ phase'[1] = "init1" /\ phase'[2] = phase[2] /\ at'[2] = at[2]
        \/ p = 2 /\ phase'[2] = "init1" /\ phase'[1] = phase[1] /\ at'[1] = at[1] /\ phase[2] = "off"
    BY <1>1, <1>2 DEF NowIn
  <2> QED
    BY <1>1, <2>1, <2>2, <2>3 DEF WordsAt, Ready
<1> QED
  BY <1>3, <1>4 DEF WordsInTurn

(* A program sets x, then y, to 1, also while p1 already works.            *)
LEMMA WordsPrepare ==
  ASSUME WordsHyp, NEW p \in Procs, Prepare(p)
  PROVE  WordsInTurn'
<1>1. /\ step' = step /\ at' = at /\ unread' = unread
      /\ \/ phase[p] = "init1" /\ NowIn(p, "init2")
         \/ phase[p] = "init2" /\ NowIn(p, "loop")
      /\ WordIs(at[p], IF phase[p] = "init1" THEN 1 ELSE 2, 1)
  BY PrepareMoves DEF WordsHyp
<1>2. p = 1 \/ p = 2
  BY WordsSteps DEF WordsHyp
<1>3. step[p] = 1
  BY <1>1, <1>2 DEF WordsHyp, Begun, Ready
<1>4. \/ phase[p] = "init1" /\ phase'[p] = "init2"
      \/ phase[p] = "init2" /\ phase'[p] = "loop"
  BY <1>1 DEF NowIn
<1>5. (p = 1 => phase'[2] = phase[2]) /\ (p = 2 => phase'[1] = phase[1])
  BY <1>1 DEF NowIn
<1>6. WordsRead
  BY DEF WordsHyp, WordsInTurn
<1>7. WordsRead'
  BY <1>1, <1>2, <1>3, <1>4, <1>5, <1>6 DEF WordsRead, Ready
<1>8. ASSUME NEW g \in 0..MaxGen PROVE WordsAt(g)'
  <2>1. /\ WordsAt(g) /\ Limit \in Nat /\ Limit >= 1
        /\ Sig(g, 1) \in Nat /\ Sig(g, 2) \in Nat /\ Word(g, 1) \in Nat /\ Word(g, 2) \in Nat
        /\ P1Has \/ P2Has => Sig(g, 1) = 0 /\ Sig(g, 2) = 0
        /\ P2Has => ~P1Has /\ at[2] = at[1]
    BY WordsFacts
  <2>2. /\ Sig(g, 1)' = Sig(g, 1) /\ Sig(g, 2)' = Sig(g, 2)
        /\ Word(g, 1)' = (IF g = at[p] /\ phase[p] = "init1" THEN 1 ELSE Word(g, 1))
        /\ Word(g, 2)' = (IF g = at[p] /\ phase[p] # "init1" THEN 1 ELSE Word(g, 2))
    BY <1>1 DEF WordIs
  <2>3. CASE p = 1
    BY <1>1, <1>3, <1>4, <1>5, <2>1, <2>2, <2>3 DEF WordsAt, Ready, P1Has, P2Has
  <2>4. CASE p = 2
    BY <1>1, <1>3, <1>4, <1>5, <2>1, <2>2, <2>4 DEF WordsAt, Ready
  <2> QED
    BY <1>2, <2>3, <2>4
<1> QED
  BY <1>7, <1>8 DEF WordsInTurn

(* *x = *y + 1 or *y = *x + 1: it is the turn of the writer alone.         *)
LEMMA WordsWrite ==
  ASSUME WordsHyp, NEW p \in Procs, Write(p)
  PROVE  WordsInTurn'
<1>1. /\ at' = at /\ phase' = phase /\ phase[p] = "loop" /\ Cycle(p)[step[p]] = "write" /\ GoneOn(p)
      /\ unread' = (unread \ {Other(p)}) \cup {p}
      /\ WordIs(at[p], p, Word(at[p], Other(p)) + 1)
  <2>1. sys # "ring" /\ sys # "offset" /\ sys = "words" /\ TurnTypes /\ Begun
    BY DEF WordsHyp
  <2> QED
    BY <2>1, WriteMoves
<1>2. p = 1 \/ p = 2
  BY WordsSteps DEF WordsHyp
<1>3. /\ p = 1 => step[1] = 1 /\ step'[1] = 2 /\ step'[2] = step[2] /\ P1Has
      /\ p = 2 => step[2] = 3 /\ step'[2] = 4 /\ step'[1] = step[1] /\ P2Has
  BY <1>1, WordsSteps DEF WordsHyp, P1Has, P2Has
<1>4. WordsRead
  BY DEF WordsHyp, WordsInTurn
<1>5. P2Has => ~P1Has /\ at[1] = at[2]
  BY WordsTurns, WordsSteps DEF WordsHyp
<1>6. WordsRead'
  <2>1. CASE p = 1
    BY <1>1, <1>3, <1>4, <1>5, <2>1 DEF WordsRead, Ready, Other, P1Has, P2Has
  <2>2. CASE p = 2
    BY <1>1, <1>3, <1>4, <1>5, <2>2 DEF WordsRead, Ready, Other, P1Has, P2Has
  <2> QED
    BY <1>2, <2>1, <2>2
<1>7. ASSUME NEW g \in 0..MaxGen PROVE WordsAt(g)'
  <2>1. /\ WordsAt(g) /\ Limit \in Nat /\ Limit >= 1
        /\ Sig(g, 1) \in Nat /\ Sig(g, 2) \in Nat /\ Word(g, 1) \in Nat /\ Word(g, 2) \in Nat
        /\ P1Has \/ P2Has => Sig(g, 1) = 0 /\ Sig(g, 2) = 0
    BY WordsFacts
  <2>2. Other(1) = 2 /\ Other(2) = 1
    BY DEF Other
  <2>3. /\ Sig(g, 1)' = Sig(g, 1) /\ Sig(g, 2)' = Sig(g, 2)
        /\ p = 1 => Word(g, 1)' = (IF g = at[1] THEN Word(g, 2) + 1 ELSE Word(g, 1)) /\ Word(g, 2)' = Word(g, 2)
        /\ p = 2 => Word(g, 2)' = (IF g = at[2] THEN Word(g, 1) + 1 ELSE Word(g, 2)) /\ Word(g, 1)' = Word(g, 1)
    BY <1>1, <1>2, <2>2 DEF WordIs
  <2>4. CASE p = 1
    BY <1>1, <1>3, <1>5, <2>1, <2>3, <2>4 DEF WordsAt, Ready, P2Has
  <2>5. CASE p = 2
    BY <1>1, <1>3, <1>5, <2>1, <2>3, <2>5 DEF WordsAt, Ready, P1Has
  <2> QED
    BY <1>2, <2>4, <2>5
<1> QED
  BY <1>6, <1>7 DEF WordsInTurn

(* sem_post and sem_wait hand the turn over.                               *)
LEMMA WordsSignal ==
  ASSUME WordsHyp, NEW p \in Procs, Post(p) \/ Wait(p)
  PROVE  WordsInTurn'
<1>0. /\ TurnTypes /\ Begun /\ sys = "words" /\ TurnCount /\ left = 0 /\ WordsRead
  BY DEF WordsHyp, WordsInTurn
<1>2. p = 1 \/ p = 2
  BY <1>0, WordsSteps
<1>r. ~At(p, "reset")
  <2>1. p \in 1..4 /\ step[p] \in 1..Len(Cycle(p))
    BY <1>0, Typed
  <2>2. PICK n \in Nat : n = (IF step[p] = Len(Cycle(p)) THEN 1 ELSE step[p] + 1)
    BY <2>1
  <2>3. Cycle(p)[step[p]] \in {"use", "write", "wait", "post", "test"}
    BY <1>0, <2>2, TurnTable
  <2> QED
    BY <2>3 DEF At
<1>s. Sem(p) = p /\ WaitsFor(p) = Other(p) /\ Other(1) = 2 /\ Other(2) = 1
  BY <1>0 DEF Sem, WaitsFor, Other
<1>1. /\ at' = at /\ phase' = phase /\ phase[p] = "loop" /\ GoneOn(p) /\ unread' = unread
      /\ Post(p) => Cycle(p)[step[p]] = "post" /\ SigIs(at[p], p, Sig(at[p], p) + 1)
      /\ Wait(p) => /\ Cycle(p)[step[p]] = "wait" /\ Sig(at[p], Other(p)) > 0
                    /\ SigIs(at[p], Other(p), Sig(at[p], Other(p)) - 1)
  BY <1>0, <1>r, <1>s, SignalMoves
<1>3. /\ step[1] \in 1..4 /\ step[2] \in 1..4 /\ at[1] \in 0..MaxGen /\ at[2] \in 0..MaxGen
      /\ p = 1 => step'[2] = step[2]
      /\ p = 2 => step'[1] = step[1]
      /\ p = 1 /\ Post(p) => step[1] = 2 /\ step'[1] = 3
      /\ p = 1 /\ Wait(p) => step[1] = 4 /\ step'[1] = 1
      /\ p = 2 /\ Post(p) => step[2] = 4 /\ step'[2] = 1
      /\ p = 2 /\ Wait(p) => step[2] = 2 /\ step'[2] = 3
  BY <1>0, <1>1, WordsSteps
<1>4. /\ p = 1 /\ Wait(p) => Sig(at[1], 2) > 0 /\ 1 \notin unread
      /\ p = 2 /\ Wait(p) => Sig(at[2], 1) > 0 /\ 2 \notin unread
  BY <1>1, <1>3, <1>s, WordsFacts DEF WordsAt
<1>5. WordsRead'
  <2>1. CASE p = 1
    BY <1>0, <1>1, <1>3, <1>4, <2>1 DEF WordsRead, Ready
  <2>2. CASE p = 2
    BY <1>0, <1>1, <1>3, <1>4, <2>2 DEF WordsRead, Ready
  <2> QED
    BY <1>2, <2>1, <2>2
<1>6. ASSUME NEW g \in 0..MaxGen PROVE WordsAt(g)'
  <2>1. /\ WordsAt(g) /\ Limit \in Nat /\ Limit >= 1
        /\ Sig(g, 1) \in Nat /\ Sig(g, 2) \in Nat /\ Word(g, 1) \in Nat /\ Word(g, 2) \in Nat
        /\ P1Has \/ P2Has => Sig(g, 1) = 0 /\ Sig(g, 2) = 0
    BY WordsFacts
  <2>2. Word(g, 1)' = Word(g, 1) /\ Word(g, 2)' = Word(g, 2)
    BY <1>1 DEF SigIs
  <2>3. CASE p = 1 /\ Post(p)
    <3>1. Sig(g, 1)' = (IF g = at[1] THEN Sig(g, 1) + 1 ELSE Sig(g, 1)) /\ Sig(g, 2)' = Sig(g, 2)
      BY <1>1, <2>3 DEF SigIs
    <3>2. P1Has /\ 2 \notin unread
      BY <1>0, <1>1, <1>3, <2>3 DEF WordsRead, P1Has
    <3> QED
      BY <1>1, <1>3, <2>1, <2>2, <2>3, <3>1, <3>2 DEF WordsAt, Ready
  <2>4. CASE p = 1 /\ Wait(p)
    <3>1. /\ Sig(g, 2)' = (IF g = at[1] THEN Sig(g, 2) - 1 ELSE Sig(g, 2)) /\ Sig(g, 1)' = Sig(g, 1)
          /\ g = at[1] => Sig(g, 2) > 0
      BY <1>1, <1>s, <2>4 DEF SigIs
    <3> QED
      BY <1>1, <1>3, <2>1, <2>2, <2>4, <3>1 DEF WordsAt, Ready
  <2>5. CASE p = 2 /\ Post(p)
    <3>1. Sig(g, 2)' = (IF g = at[2] THEN Sig(g, 2) + 1 ELSE Sig(g, 2)) /\ Sig(g, 1)' = Sig(g, 1)
      BY <1>1, <2>5 DEF SigIs
    <3>2. P2Has /\ 1 \notin unread
      BY <1>0, <1>1, <1>3, <2>5 DEF WordsRead, P2Has
    <3> QED
      BY <1>1, <1>3, <2>1, <2>2, <2>5, <3>1, <3>2 DEF WordsAt, Ready
  <2>6. CASE p = 2 /\ Wait(p)
    <3>1. Sig(g, 1)' = (IF g = at[2] THEN Sig(g, 1) - 1 ELSE Sig(g, 1)) /\ Sig(g, 2)' = Sig(g, 2)
      BY <1>1, <1>s, <2>6 DEF SigIs
    <3> QED
      BY <1>1, <1>3, <2>1, <2>2, <2>6, <3>1 DEF WordsAt, Ready
  <2> QED
    BY <1>2, <2>3, <2>4, <2>5, <2>6
<1> QED
  BY <1>5, <1>6 DEF WordsInTurn

(* The limit is tested; it is p1 that keeps x below it.                    *)
LEMMA WordsTest ==
  ASSUME WordsHyp, NEW p \in Procs, Test(p)
  PROVE  WordsInTurn'
<1>0. /\ TurnTypes /\ Begun /\ sys = "words" /\ sys # "ring" /\ sys # "offset" /\ WordsRead
  BY DEF WordsHyp, WordsInTurn
<1>1. /\ at' = at /\ phase[p] = "loop" /\ Cycle(p)[step[p]] = "test" /\ unread' = unread /\ SameMem
      /\ \/ NowIn(p, "clean") /\ step' = step
         \/ ~(Word(at[p], 1) >= Limit) /\ GoneOn(p) /\ phase' = phase
  BY <1>0, TestMoves
<1>2. p = 1 \/ p = 2
  BY <1>0, WordsSteps
<1>3. CASE NowIn(p, "clean") /\ step' = step
  <2>1. \/ p = 1 /\ phase'[1] = "clean" /\ phase'[2] = phase[2] /\ phase[1] = "loop"
        \/ p = 2 /\ phase'[2] = "clean" /\ phase'[1] = phase[1] /\ phase[2] = "loop"
    BY <1>1, <1>2, <1>3 DEF NowIn
  <2>2. WordsRead'
    BY <1>0, <1>1, <1>3, <2>1 DEF WordsRead, Ready
  <2>3. ASSUME NEW g \in 0..MaxGen PROVE WordsAt(g)'
    <3>1. WordsAt(g)
      BY WordsFacts
    <3>2. Sig(g, 1)' = Sig(g, 1) /\ Sig(g, 2)' = Sig(g, 2) /\ Word(g, 1)' = Word(g, 1) /\ Word(g, 2)' = Word(g, 2)
      BY <1>1 DEF SameMem
    <3> QED
      BY <1>1, <1>3, <2>1, <3>1, <3>2 DEF WordsAt, Ready
  <2> QED
    BY <2>2, <2>3 DEF WordsInTurn
<1>4. CASE ~(Word(at[p], 1) >= Limit) /\ GoneOn(p) /\ phase' = phase
  <2>1. \/ p = 1 /\ step[1] = 3 /\ step'[1] = 4 /\ step'[2] = step[2]
        \/ p = 2 /\ step[2] = 1 /\ step'[2] = 2 /\ step'[1] = step[1]
    BY <1>0, <1>1, <1>2, <1>4, WordsSteps
  <2>2. WordsRead'
    BY <1>0, <1>1, <1>4, <2>1 DEF WordsRead, Ready
  <2>3. ASSUME NEW g \in 0..MaxGen PROVE WordsAt(g)'
    <3>1. WordsAt(g) /\ Word(g, 1) \in Nat /\ Limit \in Nat
      BY WordsFacts
    <3>2. Sig(g, 1)' = Sig(g, 1) /\ Sig(g, 2)' = Sig(g, 2) /\ Word(g, 1)' = Word(g, 1) /\ Word(g, 2)' = Word(g, 2)
      BY <1>1 DEF SameMem
    <3>3. p = 1 /\ at[1] = g => Word(g, 1) < Limit
      BY <1>4, <3>1
    <3> QED
      BY <1>1, <1>4, <2>1, <3>1, <3>2, <3>3 DEF WordsAt, Ready
  <2> QED
    BY <2>2, <2>3 DEF WordsInTurn
<1> QED
  BY <1>1, <1>3, <1>4

(* The names are removed; the objects stay.                                *)
LEMMA WordsClean ==
  ASSUME WordsHyp, \/ Cleaner
                   \/ \E p \in Procs : Clean(p)
  PROVE  WordsInTurn'
<1>0. /\ TurnTypes /\ Begun /\ sys = "words" /\ WordsRead
  BY DEF WordsHyp, WordsInTurn
<1>1. /\ at' = at /\ unread' = unread /\ SameMem /\ step' = step
      /\ \/ phase' = phase
         \/ phase[1] = "clean" /\ phase'[1] = "gone" /\ phase'[2] = phase[2]
         \/ phase[2] = "clean" /\ phase'[2] = "gone" /\ phase'[1] = phase[1]
  <2>1. CASE Cleaner
    BY <1>0, <2>1, CleanerMoves
  <2>2. ASSUME NEW p \in Procs, Clean(p) 
        PROVE  /\ at' = at /\ unread' = unread /\ SameMem /\ step' = step
               /\ \/ phase' = phase
                  \/ phase[1] = "clean" /\ phase'[1] = "gone" /\ phase'[2] = phase[2]
                  \/ phase[2] = "clean" /\ phase'[2] = "gone" /\ phase'[1] = phase[1]
    <3>1. /\ at' = at /\ unread' = unread /\ SameMem /\ NowIn(p, "gone") /\ step' = step /\ phase[p] = "clean"
      BY <1>0, <2>2, LeaveMoves
    <3>2. p = 1 \/ p = 2
      BY <1>0, WordsSteps
    <3> QED
      BY <3>1, <3>2 DEF NowIn
  <2> QED
    BY <2>1, <2>2
<1>2. WordsRead'
  BY <1>0, <1>1 DEF WordsRead, Ready
<1>3. ASSUME NEW g \in 0..MaxGen PROVE WordsAt(g)'
  <2>1. WordsAt(g)
    BY WordsFacts
  <2>2. Sig(g, 1)' = Sig(g, 1) /\ Sig(g, 2)' = Sig(g, 2) /\ Word(g, 1)' = Word(g, 1) /\ Word(g, 2)' = Word(g, 2)
    BY <1>1 DEF SameMem
  <2> QED
    BY <1>1, <2>1, <2>2 DEF WordsAt, Ready
<1> QED
  BY <1>2, <1>3 DEF WordsInTurn

(* words: every step.                                                      *)
LEMMA WordsStep ==
  ASSUME WordsHyp, Next
  PROVE  WordsInTurn'
<1>0. TurnTypes /\ sys = "words"
  BY DEF WordsHyp
<1>1. ASSUME NEW p \in Procs, Step(p) PROVE WordsInTurn'
  <2>1. p \in 1..4 /\ step[p] \in 1..Len(Cycle(p))
    BY <1>0, Typed
  <2>2. PICK n \in Nat : n = (IF step[p] = Len(Cycle(p)) THEN 1 ELSE step[p] + 1)
    BY <2>1
  <2>3. Cycle(p)[step[p]] \in {"write", "wait", "post", "test"}
    BY <1>0, <2>2, TurnTable
  <2>4. ~Use(p) /\ ~ReadChar(p) /\ ~EndOfFile(p) /\ ~CountDown(p) /\ ~WaitZero(p) /\ ~Removed(p)
    BY <1>0 DEF Use, ReadChar, EndOfFile, CountDown, WaitZero, Removed
  <2>5. ~Read(p) /\ ~Reset(p)
    BY <2>3 DEF Read, Reset, At
  <2>6. Prepare(p) \/ Write(p) \/ Post(p) \/ Wait(p) \/ Test(p) \/ Clean(p)
    BY <1>1, <2>4, <2>5 DEF Step, Reader, Semaphore, SysVSemaphore
  <2> QED
    BY <2>6, WordsPrepare, WordsWrite, WordsSignal, WordsTest, WordsClean
<1>2. ~ServerStart /\ ~ClientStart
  BY <1>0 DEF ServerStart, ClientStart
<1> QED
  BY <1>1, <1>2, WordsStart, WordsClean DEF Next

(* letters: the steps of the two programs, and what the other systems do   *)
(* not share: removed semaphores.                                          *)
LEMMA LettersSteps ==
  ASSUME TurnTypes, sys = "letters"
  PROVE  /\ Procs = 1..2 /\ step[1] \in 1..6 /\ step[2] \in 1..6
         /\ Cycle(1)[step[1]] = "test" => step[1] = 1
         /\ Cycle(1)[step[1]] = "write" <=> step[1] = 2
         /\ Cycle(1)[step[1]] = "post" <=> step[1] = 3
         /\ Cycle(1)[step[1]] = "wait" => step[1] = 4
         /\ Cycle(1)[step[1]] = "read" => step[1] = 5
         /\ Cycle(1)[step[1]] = "reset" => step[1] = 6
         /\ Cycle(2)[step[2]] = "test" => step[2] = 1
         /\ Cycle(2)[step[2]] = "wait" => step[2] = 2
         /\ Cycle(2)[step[2]] = "read" => step[2] = 3
         /\ Cycle(2)[step[2]] = "reset" => step[2] = 4
         /\ Cycle(2)[step[2]] = "write" <=> step[2] = 5
         /\ Cycle(2)[step[2]] = "post" <=> step[2] = 6
         /\ step[1] = 1 => Cycle(1)[step[1]] = "test"
         /\ Cycle(1)[step[1]] # "use" /\ Cycle(2)[step[2]] # "use"
         /\ GoneOn(1) => step'[1] = (IF step[1] = 6 THEN 1 ELSE step[1] + 1) /\ step'[2] = step[2]
         /\ GoneOn(2) => step'[2] = (IF step[2] = 6 THEN 1 ELSE step[2] + 1) /\ step'[1] = step[1]
<1>1. Procs = 1..2 /\ sys \in AllSystems
  BY Typed DEF Procs
<1>2. PICK p \in Procs, q \in Procs : p = 1 /\ q = 2
  BY <1>1
<1>3. /\ Len(Cycle(p)) = 6
      /\ Cycle(p)[1] = "test" /\ Cycle(p)[2] = "write" /\ Cycle(p)[3] = "post"
      /\ Cycle(p)[4] = "wait" /\ Cycle(p)[5] = "read" /\ Cycle(p)[6] = "reset"
  BY <1>1, <1>2, CycleNames
<1>4. /\ Len(Cycle(q)) = 6
      /\ Cycle(q)[1] = "test" /\ Cycle(q)[2] = "wait" /\ Cycle(q)[3] = "read"
      /\ Cycle(q)[4] = "reset" /\ Cycle(q)[5] = "write" /\ Cycle(q)[6] = "post"
  BY <1>1, <1>2, CycleNames
<1>5. step[p] \in 1..Len(Cycle(p)) /\ step[q] \in 1..Len(Cycle(q))
  BY Typed
<1>6. /\ step[1] \in 1..6 /\ step[2] \in 1..6 /\ Len(Cycle(1)) = 6 /\ Len(Cycle(2)) = 6
      /\ Cycle(1)[1] = "test" /\ Cycle(1)[2] = "write" /\ Cycle(1)[3] = "post"
      /\ Cycle(1)[4] = "wait" /\ Cycle(1)[5] = "read" /\ Cycle(1)[6] = "reset"
      /\ Cycle(2)[1] = "test" /\ Cycle(2)[2] = "wait" /\ Cycle(2)[3] = "read"
      /\ Cycle(2)[4] = "reset" /\ Cycle(2)[5] = "write" /\ Cycle(2)[6] = "post"
  BY <1>2, <1>3, <1>4, <1>5
<1>7. /\ step[1] = 1 \/ step[1] = 2 \/ step[1] = 3 \/ step[1] = 4 \/ step[1] = 5 \/ step[1] = 6
      /\ step[2] = 1 \/ step[2] = 2 \/ step[2] = 3 \/ step[2] = 4 \/ step[2] = 5 \/ step[2] = 6
  BY <1>6
<1>8. /\ Cycle(1)[step[1]] = "test" <=> step[1] = 1
      /\ Cycle(1)[step[1]] = "write" <=> step[1] = 2
      /\ Cycle(1)[step[1]] = "post" <=> step[1] = 3
      /\ Cycle(1)[step[1]] = "wait" <=> step[1] = 4
      /\ Cycle(1)[step[1]] = "read" <=> step[1] = 5
      /\ Cycle(1)[step[1]] = "reset" <=> step[1] = 6
      /\ Cycle(1)[step[1]] # "use"
  BY <1>6, <1>7
<1>9. /\ Cycle(2)[step[2]] = "test" <=> step[2] = 1
      /\ Cycle(2)[step[2]] = "wait" <=> step[2] = 2
      /\ Cycle(2)[step[2]] = "read" <=> step[2] = 3
      /\ Cycle(2)[step[2]] = "reset" <=> step[2] = 4
      /\ Cycle(2)[step[2]] = "write" <=> step[2] = 5
      /\ Cycle(2)[step[2]] = "post" <=> step[2] = 6
      /\ Cycle(2)[step[2]] # "use"
  BY <1>6, <1>7
<1>10. /\ GoneOn(1) => step'[1] = (IF step[1] = 6 THEN 1 ELSE step[1] + 1) /\ step'[2] = step[2]
       /\ GoneOn(2) => step'[2] = (IF step[2] = 6 THEN 1 ELSE step[2] + 1) /\ step'[1] = step[1]
  <2>1. 1 \in 1..4 /\ 2 \in 1..4 /\ 1 # 2
    OBVIOUS
  <2>2. ASSUME GoneOn(1) PROVE step'[1] = (IF step[1] = 6 THEN 1 ELSE step[1] + 1) /\ step'[2] = step[2]
    BY <1>6, <2>1, <2>2 DEF GoneOn
  <2>3. ASSUME GoneOn(2) PROVE step'[2] = (IF step[2] = 6 THEN 1 ELSE step[2] + 1) /\ step'[1] = step[1]
    BY <1>6, <2>1, <2>3 DEF GoneOn
  <2> QED
    BY <2>2, <2>3
<1> QED
  BY <1>1, <1>6, <1>8, <1>9, <1>10

(* Only Clean removes the semaphores.                                      *)
LEMMA AliveKept ==
  ASSUME TurnTypes, NEW p \in Procs, sys = "letters", ~Dead,
         \/ Start(p) \/ Prepare(p) \/ Write(p) \/ Read(p) \/ Test(p)
         \/ CountDown(p) \/ WaitZero(p) \/ Reset(p)
  PROVE  ~Dead'
<1>0. mem \in Memory /\ at[p] \in 0..MaxGen
  BY Typed
<1>1. mem \in Memory /\ at[p] \in 0..MaxGen /\ 0 \in 0..MaxGen
  BY <1>0, TurnConstants
<1>2. CASE mem' = mem
  BY <1>2 DEF Dead
<1>3. CASE Prepare(p)
  BY <1>1, <1>3 DEF Prepare, Memory, Dead
<1>4. CASE Write(p)
  BY <1>1, <1>4 DEF Write, Memory, Dead
<1>5. CASE CountDown(p)
  BY <1>1, <1>5 DEF CountDown, Memory, Dead
<1>6. CASE Reset(p)
  BY <1>1, <1>6 DEF Reset, Memory, Dead
<1> QED
  BY <1>2, <1>3, <1>4, <1>5, <1>6 DEF Start, Read, Test, WaitZero

LettersHyp == TurnTypes /\ Begun /\ sys = "letters" /\ LettersInTurn

(* The second of the two to get ready, or a program that goes on.          *)
LEMMA LettersFacts ==
  ASSUME LettersHyp
  PROVE  /\ TurnTypes /\ Begun /\ sys = "letters" /\ FirstGeneration /\ FirstAlone
         /\ at[1] = 0 /\ at[2] = 0 /\ 0 \in 0..MaxGen
         /\ Sig(0, 1) \in Nat /\ Sig(0, 2) \in Nat /\ Word(0, 1) \in Nat /\ Word(0, 2) \in Nat
         /\ loc[1] \in Nat /\ loc[2] \in Nat /\ Limit \in Nat /\ Limit >= 1
         /\ Word(0, 1) <= Limit + 2 /\ Word(0, 2) <= Limit + 3
         /\ Ready(1) /\ Ready(2) => AtP1 \/ ToP2 \/ AtP2 \/ ToP1 \/ Stuck
         /\ (~Ready(1) \/ ~Ready(2) => ~Dead)
         /\ ~Ready(1) => step[1] = 1
         /\ ~Ready(2) => step[2] = 1
<1>1. /\ TurnTypes /\ Begun /\ sys = "letters" /\ LettersInTurn
  BY DEF LettersHyp
<1>2. 0 \in 0..MaxGen /\ Limit \in Nat /\ Limit >= 1
  BY TurnConstants
<1>3. PICK g \in 0..MaxGen : g = 0
  BY <1>2
<1>4. Sig(0, 1) \in Nat /\ Sig(0, 2) \in Nat /\ Word(0, 1) \in Nat /\ Word(0, 2) \in Nat
  <2>1. 1 \in 1..2 /\ 2 \in 1..2
    OBVIOUS
  <2> QED
    BY <1>1, <1>2, <2>1, Typed
<1>5. loc[1] \in Nat /\ loc[2] \in Nat
  BY <1>1, Typed
<1>6. (~Ready(1) => step[1] = 1) /\ (~Ready(2) => step[2] = 1)
  BY <1>1 DEF Begun
<1>7. at[1] = 0 /\ at[2] = 0
  BY <1>1 DEF LettersInTurn, FirstGeneration
<1>8. /\ FirstGeneration /\ FirstAlone /\ Word(0, 1) <= Limit + 2 /\ Word(0, 2) <= Limit + 3
      /\ Ready(1) /\ Ready(2) => AtP1 \/ ToP2 \/ AtP2 \/ ToP1 \/ Stuck
      /\ (~Ready(1) \/ ~Ready(2) => ~Dead)
  BY <1>1, Zenon DEF LettersInTurn
<1> QED
  BY <1>1, <1>2, <1>4, <1>5, <1>6, <1>7, <1>8

(* letters: a step that changes no phase.                                  *)
LEMMA LettersKept ==
  ASSUME LettersHyp, at' = at, phase' = phase, gen' = gen, ~Dead => ~Dead',
         \A g \in 1..MaxGen : Word(g, 1)' = Word(g, 1) /\ Word(g, 2)' = Word(g, 2),
         (Word(0, 1) <= Limit + 2 /\ Word(0, 2) <= Limit + 3)', FirstAlone',
         Ready(1) /\ Ready(2) => (AtP1 \/ ToP2 \/ AtP2 \/ ToP1 \/ Stuck)'
  PROVE  LettersInTurn'
<1>1. FirstGeneration /\ (~Ready(1) \/ ~Ready(2) => ~Dead)
  BY LettersFacts
<1>2. (Ready(1)' <=> Ready(1)) /\ (Ready(2)' <=> Ready(2))
  BY DEF Ready
<1>3. FirstGeneration'
  BY <1>1, <1>2 DEF FirstGeneration
<1>4. (~Ready(1) \/ ~Ready(2) => ~Dead)'
  BY <1>1, <1>2, Zenon
<1>5. (Ready(1) /\ Ready(2) => AtP1 \/ ToP2 \/ AtP2 \/ ToP1 \/ Stuck)'
  BY <1>2, Zenon
<1> QED
  BY <1>3, <1>4, <1>5, Zenon DEF LettersInTurn

(* p1 writes at step 2, p2 at step 5.                                      *)
LEMMA LettersWrite ==
  ASSUME LettersHyp, NEW p \in Procs, Write(p)
  PROVE  LettersInTurn'
<1>0. /\ TurnTypes /\ Begun /\ sys = "letters" /\ FirstGeneration /\ FirstAlone
      /\ at[1] = 0 /\ at[2] = 0 /\ 0 \in 0..MaxGen
      /\ Sig(0, 1) \in Nat /\ Sig(0, 2) \in Nat /\ Word(0, 1) \in Nat /\ Word(0, 2) \in Nat
      /\ loc[1] \in Nat /\ loc[2] \in Nat /\ Limit \in Nat /\ Limit >= 1
      /\ Word(0, 1) <= Limit + 2 /\ Word(0, 2) <= Limit + 3
      /\ Ready(1) /\ Ready(2) => AtP1 \/ ToP2 \/ AtP2 \/ ToP1 \/ Stuck
  BY LettersFacts
<1>1. /\ loc' = loc /\ gen' = gen /\ at' = at /\ phase' = phase /\ phase[p] = "loop"
      /\ Cycle(p)[step[p]] = "write" /\ GoneOn(p) /\ unread' = unread \cup {p}
      /\ WordIs(at[p], p, loc[p] + 1)
  BY <1>0, WriteMoves
<1>2. p = 1 \/ p = 2
  BY <1>0, LettersSteps
<1>3. \/ p = 1 /\ step[1] = 2 /\ step'[1] = 3 /\ step'[2] = step[2]
      \/ p = 2 /\ step[2] = 5 /\ step'[2] = 6 /\ step'[1] = step[1]
  BY <1>0, <1>1, <1>2, LettersSteps
<1>4. ~Dead => ~Dead'
  BY <1>0, AliveKept
<1>5. \A g \in 1..MaxGen : Word(g, 1)' = Word(g, 1) /\ Word(g, 2)' = Word(g, 2)
  BY <1>0, <1>1, <1>2 DEF WordIs
<1>6. /\ Sig(0, 1)' = Sig(0, 1) /\ Sig(0, 2)' = Sig(0, 2)
      /\ Word(0, 1)' = (IF p = 1 THEN loc[1] + 1 ELSE Word(0, 1))
      /\ Word(0, 2)' = (IF p = 2 THEN loc[2] + 1 ELSE Word(0, 2))
  BY <1>0, <1>1, <1>2 DEF WordIs
<1>7. CASE p = 1
  <2>1. Ready(1) /\ (Ready(2) => AtP1)
    BY <1>0, <1>1, <1>3, <1>7 DEF Ready, ToP2, AtP2, ToP1, Stuck
  <2>2. (Word(0, 1) <= Limit + 2 /\ Word(0, 2) <= Limit + 3)'
    BY <1>0, <1>1, <1>3, <1>6, <1>7, <2>1 DEF AtP1, FirstAlone
  <2>3. FirstAlone'
    BY <1>0, <1>1, <1>3, <1>6, <1>7, <2>1 DEF FirstAlone, Ready
  <2>4. Ready(2) => AtP1'
    BY <1>0, <1>1, <1>3, <1>6, <1>7, <2>1 DEF AtP1
  <2> QED
    BY <1>1, <1>4, <1>5, <2>2, <2>3, <2>4, LettersKept
<1>8. CASE p = 2
  <2>1. Ready(2) /\ Ready(1) /\ AtP2
    BY <1>0, <1>1, <1>3, <1>8 DEF Ready, AtP1, ToP2, ToP1, Stuck, FirstAlone
  <2>2. (Word(0, 1) <= Limit + 2 /\ Word(0, 2) <= Limit + 3)'
    BY <1>0, <1>1, <1>3, <1>6, <1>8, <2>1 DEF AtP2
  <2>3. FirstAlone'
    BY <1>0, <1>1, <1>3, <1>6, <1>8, <2>1 DEF FirstAlone, Ready
  <2>4. AtP2'
    BY <1>0, <1>1, <1>3, <1>6, <1>8, <2>1 DEF AtP2
  <2> QED
    BY <1>1, <1>4, <1>5, <2>2, <2>3, <2>4, LettersKept
<1> QED
  BY <1>2, <1>7, <1>8

(* p1 reads at step 5, p2 at step 3.                                       *)
LEMMA LettersRead ==
  ASSUME LettersHyp, NEW p \in Procs, Read(p)
  PROVE  LettersInTurn'
<1>0. /\ TurnTypes /\ Begun /\ sys = "letters" /\ sys # "ring" /\ FirstGeneration /\ FirstAlone
      /\ at[1] = 0 /\ at[2] = 0 /\ 0 \in 0..MaxGen
      /\ Sig(0, 1) \in Nat /\ Sig(0, 2) \in Nat /\ Word(0, 1) \in Nat /\ Word(0, 2) \in Nat
      /\ Word(0, 1) <= Limit + 2 /\ Word(0, 2) <= Limit + 3
      /\ Ready(1) /\ Ready(2) => AtP1 \/ ToP2 \/ AtP2 \/ ToP1 \/ Stuck
  BY LettersFacts
<1>1. /\ gen' = gen /\ at' = at /\ phase' = phase /\ phase[p] = "loop"
      /\ Cycle(p)[step[p]] = "read" /\ GoneOn(p) /\ unread' = unread \ {Other(p)} /\ SameMem
      /\ loc'[p] = Word(at[p], Other(p)) /\ \A q \in 1..4 : q # p => loc'[q] = loc[q]
  BY <1>0, ReadMoves
<1>2. (p = 1 \/ p = 2) /\ Other(1) = 2 /\ Other(2) = 1
  BY <1>0, LettersSteps DEF Other
<1>3. \/ p = 1 /\ step[1] = 5 /\ step'[1] = 6 /\ step'[2] = step[2]
      \/ p = 2 /\ step[2] = 3 /\ step'[2] = 4 /\ step'[1] = step[1]
  BY <1>0, <1>1, <1>2, LettersSteps
<1>4. ~Dead => ~Dead'
  BY <1>0, AliveKept
<1>5. \A g \in 1..MaxGen : Word(g, 1)' = Word(g, 1) /\ Word(g, 2)' = Word(g, 2)
  BY <1>1 DEF SameMem
<1>6. /\ Sig(0, 1)' = Sig(0, 1) /\ Sig(0, 2)' = Sig(0, 2)
      /\ Word(0, 1)' = Word(0, 1) /\ Word(0, 2)' = Word(0, 2)
  BY <1>0, <1>1 DEF SameMem
<1>7. CASE p = 1
  <2>1. Ready(1) /\ Ready(2) /\ ToP1
    BY <1>0, <1>1, <1>3, <1>7 DEF Ready, AtP1, ToP2, AtP2, Stuck, FirstAlone
  <2>2. loc'[1] = Word(0, 2) /\ 2 \notin unread' /\ (1 \notin unread => 1 \notin unread')
    BY <1>0, <1>1, <1>2, <1>7
  <2>3. FirstAlone'
    BY <1>1, <2>1 DEF FirstAlone, Ready
  <2>4. ToP1'
    BY <1>0, <1>3, <1>6, <1>7, <2>1, <2>2 DEF ToP1
  <2> QED
    BY <1>0, <1>1, <1>4, <1>5, <1>6, <2>3, <2>4, LettersKept
<1>8. CASE p = 2
  <2>1. Ready(2) /\ Ready(1) /\ ToP2
    BY <1>0, <1>1, <1>3, <1>8 DEF Ready, AtP1, AtP2, ToP1, Stuck, FirstAlone
  <2>2. loc'[2] = Word(0, 1) /\ 1 \notin unread' /\ (2 \notin unread => 2 \notin unread')
    BY <1>0, <1>1, <1>2, <1>8
  <2>3. FirstAlone'
    BY <1>1, <2>1 DEF FirstAlone, Ready
  <2>4. ToP2'
    BY <1>0, <1>3, <1>6, <1>8, <2>1, <2>2 DEF ToP2
  <2> QED
    BY <1>0, <1>1, <1>4, <1>5, <1>6, <2>3, <2>4, LettersKept
<1> QED
  BY <1>2, <1>7, <1>8

(* semop -1, semop 0 and SETVAL 1 hand the turn over.                      *)
LEMMA LettersSignal ==
  ASSUME LettersHyp, NEW p \in Procs, CountDown(p) \/ WaitZero(p) \/ Reset(p)
  PROVE  LettersInTurn'
<1>0. /\ TurnTypes /\ Begun /\ sys = "letters" /\ FirstGeneration /\ FirstAlone
      /\ at[1] = 0 /\ at[2] = 0 /\ 0 \in 0..MaxGen
      /\ Sig(0, 1) \in Nat /\ Sig(0, 2) \in Nat /\ Word(0, 1) \in Nat /\ Word(0, 2) \in Nat
      /\ Word(0, 1) <= Limit + 2 /\ Word(0, 2) <= Limit + 3
      /\ Ready(1) /\ Ready(2) => AtP1 \/ ToP2 \/ AtP2 \/ ToP1 \/ Stuck
  BY LettersFacts
<1>1. /\ loc' = loc /\ gen' = gen /\ at' = at /\ phase' = phase /\ phase[p] = "loop"
      /\ GoneOn(p) /\ unread' = unread
      /\ CountDown(p) => Cycle(p)[step[p]] = "post" /\ Sig(at[p], p) > 0 /\ SigIs(at[p], p, Sig(at[p], p) - 1)
      /\ WaitZero(p) => Cycle(p)[step[p]] = "wait" /\ Sig(at[p], Other(p)) = 0 /\ SameMem
      /\ Reset(p) => Cycle(p)[step[p]] = "reset" /\ SigIs(at[p], Other(p), 1)
  BY <1>0, SignalMoves
<1>2. (p = 1 \/ p = 2) /\ Other(1) = 2 /\ Other(2) = 1
  BY <1>0, LettersSteps DEF Other
<1>3. /\ p = 1 => /\ step'[2] = step[2]
                  /\ CountDown(p) => step[1] = 3 /\ step'[1] = 4
                  /\ WaitZero(p) => step[1] = 4 /\ step'[1] = 5
                  /\ Reset(p) => step[1] = 6 /\ step'[1] = 1
      /\ p = 2 => /\ step'[1] = step[1]
                  /\ WaitZero(p) => step[2] = 2 /\ step'[2] = 3
                  /\ Reset(p) => step[2] = 4 /\ step'[2] = 5
                  /\ CountDown(p) => step[2] = 6 /\ step'[2] = 1
  BY <1>0, <1>1, <1>2, LettersSteps
<1>4. ~Dead => ~Dead'
  BY <1>0, AliveKept
<1>5. \A g \in 1..MaxGen : Word(g, 1)' = Word(g, 1) /\ Word(g, 2)' = Word(g, 2)
  BY <1>1 DEF SameMem, SigIs
<1>6. Word(0, 1)' = Word(0, 1) /\ Word(0, 2)' = Word(0, 2)
  BY <1>0, <1>1 DEF SameMem, SigIs
<1>7. /\ CountDown(p) /\ p = 1 => Sig(0, 1) > 0 /\ Sig(0, 1)' = Sig(0, 1) - 1 /\ Sig(0, 2)' = Sig(0, 2)
      /\ CountDown(p) /\ p = 2 => Sig(0, 2) > 0 /\ Sig(0, 2)' = Sig(0, 2) - 1 /\ Sig(0, 1)' = Sig(0, 1)
      /\ Reset(p) /\ p = 1 => Sig(0, 2)' = 1 /\ Sig(0, 1)' = Sig(0, 1)
      /\ Reset(p) /\ p = 2 => Sig(0, 1)' = 1 /\ Sig(0, 2)' = Sig(0, 2)
      /\ WaitZero(p) => Sig(0, 1)' = Sig(0, 1) /\ Sig(0, 2)' = Sig(0, 2)
      /\ WaitZero(p) /\ p = 1 => Sig(0, 2) = 0
      /\ WaitZero(p) /\ p = 2 => Sig(0, 1) = 0
  BY <1>0, <1>1, <1>2 DEF SameMem, SigIs
<1>8. (Ready(1)' <=> Ready(1)) /\ (Ready(2)' <=> Ready(2))
  BY <1>1 DEF Ready
<1>9. CASE p = 1 /\ CountDown(p)
  <2>1. Ready(1) /\ (Ready(2) => AtP1)
    BY <1>0, <1>1, <1>3, <1>9 DEF Ready, ToP2, AtP2, ToP1, Stuck
  <2>2. FirstAlone'
    BY <1>0, <1>1, <1>3, <1>6, <1>7, <1>8, <1>9, <2>1 DEF FirstAlone
  <2>3. Ready(2) => ToP2'
    BY <1>0, <1>1, <1>3, <1>6, <1>7, <1>9, <2>1 DEF AtP1, ToP2
  <2> QED
    BY <1>0, <1>1, <1>4, <1>5, <1>6, <2>2, <2>3, LettersKept
<1>10. CASE p = 2 /\ CountDown(p)
  <2>1. Ready(1) /\ Ready(2) /\ AtP2
    BY <1>0, <1>1, <1>3, <1>10 DEF Ready, AtP1, ToP2, ToP1, Stuck, FirstAlone
  <2>2. FirstAlone'
    BY <1>8, <2>1 DEF FirstAlone
  <2>3. ToP1'
    BY <1>0, <1>1, <1>3, <1>6, <1>7, <1>10, <2>1 DEF AtP2, ToP1
  <2> QED
    BY <1>0, <1>1, <1>4, <1>5, <1>6, <2>2, <2>3, LettersKept
<1>11. CASE p = 1 /\ WaitZero(p)
  <2>1. Ready(1) /\ Ready(2) /\ ToP1
    BY <1>0, <1>1, <1>3, <1>7, <1>11 DEF Ready, AtP1, ToP2, AtP2, Stuck, FirstAlone
  <2>2. FirstAlone'
    BY <1>8, <2>1 DEF FirstAlone
  <2>3. ToP1'
    BY <1>0, <1>1, <1>3, <1>6, <1>7, <1>11, <2>1 DEF ToP1
  <2> QED
    BY <1>0, <1>1, <1>4, <1>5, <1>6, <2>2, <2>3, LettersKept
<1>12. CASE p = 2 /\ WaitZero(p)
  <2>1. Ready(1) /\ Ready(2) /\ ToP2
    BY <1>0, <1>1, <1>3, <1>7, <1>12 DEF Ready, AtP1, AtP2, ToP1, Stuck, FirstAlone
  <2>2. FirstAlone'
    BY <1>8, <2>1 DEF FirstAlone
  <2>3. ToP2'
    BY <1>0, <1>1, <1>3, <1>6, <1>7, <1>12, <2>1 DEF ToP2
  <2> QED
    BY <1>0, <1>1, <1>4, <1>5, <1>6, <2>2, <2>3, LettersKept
<1>13. CASE p = 1 /\ Reset(p)
  <2>1. Ready(1) /\ Ready(2) /\ ToP1
    BY <1>0, <1>1, <1>3, <1>13 DEF Ready, AtP1, ToP2, AtP2, Stuck, FirstAlone
  <2>2. FirstAlone'
    BY <1>8, <2>1 DEF FirstAlone
  <2>3. AtP1'
    BY <1>0, <1>1, <1>3, <1>6, <1>7, <1>13, <2>1 DEF ToP1, AtP1
  <2> QED
    BY <1>0, <1>1, <1>4, <1>5, <1>6, <2>2, <2>3, LettersKept
<1>14. CASE p = 2 /\ Reset(p)
  <2>1. Ready(1) /\ Ready(2) /\ ToP2
    BY <1>0, <1>1, <1>3, <1>14 DEF Ready, AtP1, AtP2, ToP1, Stuck, FirstAlone
  <2>2. FirstAlone'
    BY <1>8, <2>1 DEF FirstAlone
  <2>3. AtP2'
    BY <1>0, <1>1, <1>3, <1>6, <1>7, <1>14, <2>1 DEF ToP2, AtP2
  <2> QED
    BY <1>0, <1>1, <1>4, <1>5, <1>6, <2>2, <2>3, LettersKept
<1> QED
  BY <1>2, <1>9, <1>10, <1>11, <1>12, <1>13, <1>14

(* The place is the same, both stay ready.                                 *)
LEMMA LettersStay ==
  ASSUME LettersHyp, Ready(1), Ready(2), Ready(1)', Ready(2)', at' = at, SameMem, step' = step,
         loc' = loc, unread' = unread, late' = late
  PROVE  LettersInTurn'
<1>1. /\ FirstGeneration /\ 0 \in 0..MaxGen /\ Word(0, 1) <= Limit + 2 /\ Word(0, 2) <= Limit + 3
      /\ AtP1 \/ ToP2 \/ AtP2 \/ ToP1 \/ Stuck
  BY LettersFacts
<1>2. /\ Sig(0, 1)' = Sig(0, 1) /\ Sig(0, 2)' = Sig(0, 2)
      /\ Word(0, 1)' = Word(0, 1) /\ Word(0, 2)' = Word(0, 2)
  BY <1>1 DEF SameMem
<1>3. FirstGeneration'
  BY <1>1 DEF FirstGeneration, SameMem
<1>4. (AtP1 => AtP1') /\ (ToP2 => ToP2') /\ (AtP2 => AtP2') /\ (ToP1 => ToP1')
  BY <1>2 DEF AtP1, ToP2, AtP2, ToP1
<1>5. Stuck => Stuck'
  BY <1>2 DEF Stuck
<1>6. FirstAlone'
  BY DEF FirstAlone
<1>7. (Word(0, 1) <= Limit + 2 /\ Word(0, 2) <= Limit + 3)'
  BY <1>1, <1>2
<1> QED
  BY <1>1, <1>3, <1>4, <1>5, <1>6, <1>7, Zenon DEF LettersInTurn

(* The limit is tested; alone nobody reaches it.                           *)
LEMMA LettersTest ==
  ASSUME LettersHyp, NEW p \in Procs, Test(p)
  PROVE  LettersInTurn'
<1>0. /\ TurnTypes /\ Begun /\ sys = "letters" /\ sys # "ring" /\ sys # "offset" /\ FirstAlone
      /\ at[1] = 0 /\ at[2] = 0 /\ 0 \in 0..MaxGen /\ Limit \in Nat /\ Limit >= 1 /\ loc[1] \in Nat
      /\ Sig(0, 1) \in Nat /\ Sig(0, 2) \in Nat /\ Word(0, 1) \in Nat /\ Word(0, 2) \in Nat
      /\ Word(0, 1) <= Limit + 2 /\ Word(0, 2) <= Limit + 3
      /\ Ready(1) /\ Ready(2) => AtP1 \/ ToP2 \/ AtP2 \/ ToP1 \/ Stuck
  BY LettersFacts
<1>1. /\ loc' = loc /\ gen' = gen /\ at' = at /\ phase[p] = "loop" /\ Cycle(p)[step[p]] = "test"
      /\ unread' = unread /\ SameMem
      /\ \/ Word(at[p], 1) >= Limit + 1 /\ NowIn(p, "clean") /\ step' = step
         \/ ~(Word(at[p], 1) >= Limit + 1) /\ GoneOn(p) /\ phase' = phase
  BY <1>0, TestMoves
<1>2. p = 1 \/ p = 2
  BY <1>0, LettersSteps
<1>3. late' = late
  BY DEF Test
<1>4. CASE Word(at[p], 1) >= Limit + 1 /\ NowIn(p, "clean") /\ step' = step
  <2>1. Word(0, 1) >= 2
    BY <1>0, <1>2, <1>4
  <2>2. Ready(1) /\ Ready(2)
    BY <1>0, <2>1 DEF FirstAlone
  <2>3. Ready(1)' /\ Ready(2)'
    BY <1>2, <1>4, <2>2 DEF NowIn, Ready
  <2> QED
    BY <1>1, <1>3, <1>4, <2>2, <2>3, LettersStay
<1>5. CASE ~(Word(at[p], 1) >= Limit + 1) /\ GoneOn(p) /\ phase' = phase
  <2>1. Word(0, 1) < Limit + 1
    BY <1>0, <1>2, <1>5
  <2>2. \/ p = 1 /\ step[1] = 1 /\ step'[1] = 2 /\ step'[2] = step[2]
        \/ p = 2 /\ step[2] = 1 /\ step'[2] = 2 /\ step'[1] = step[1]
    BY <1>0, <1>1, <1>2, <1>5, LettersSteps
  <2>3. ~Dead => ~Dead'
    BY <1>0, AliveKept
  <2>4. \A g \in 1..MaxGen : Word(g, 1)' = Word(g, 1) /\ Word(g, 2)' = Word(g, 2)
    BY <1>1 DEF SameMem
  <2>5. /\ Sig(0, 1)' = Sig(0, 1) /\ Sig(0, 2)' = Sig(0, 2)
        /\ Word(0, 1)' = Word(0, 1) /\ Word(0, 2)' = Word(0, 2)
    BY <1>0, <1>1 DEF SameMem
  <2>6. FirstAlone'
    BY <1>0, <1>1, <1>5, <2>2, <2>5 DEF FirstAlone, Ready
  <2>7. (AtP1 => AtP1') /\ (ToP2 => ToP2') /\ (AtP2 => AtP2') /\ (ToP1 => ToP1')
    BY <1>0, <1>1, <2>1, <2>2, <2>5 DEF AtP1, ToP2, AtP2, ToP1
  <2>8. Stuck => Stuck'
    BY <1>3, <2>2, <2>5 DEF Stuck
  <2> QED
    BY <1>0, <1>1, <1>5, <2>3, <2>4, <2>5, <2>6, <2>7, <2>8, LettersKept
<1> QED
  BY <1>1, <1>4, <1>5

(* A program leaves; both were ready.                                      *)
LEMMA LettersLeave ==
  ASSUME LettersHyp, NEW p \in Procs, Removed(p) \/ Clean(p)
  PROVE  LettersInTurn'
<1>0. /\ TurnTypes /\ Begun /\ sys = "letters" /\ FirstAlone /\ at[1] = 0 /\ at[2] = 0
      /\ (~Ready(1) \/ ~Ready(2) => ~Dead)
  BY LettersFacts
<1>1. /\ loc' = loc /\ at' = at /\ unread' = unread /\ SameMem /\ NowIn(p, "gone") /\ step' = step
  BY <1>0, LeaveMoves
<1>2. p = 1 \/ p = 2
  BY <1>0, LettersSteps
<1>3. late' = late
  BY DEF Removed, Clean
<1>4. Ready(1) /\ Ready(2)
  <2>1. CASE Removed(p)
    BY <1>0, <1>2, <2>1 DEF Removed, Dead, Here
  <2>2. CASE Clean(p)
    BY <1>0, <1>2, <2>2 DEF Clean, FirstAlone, Ready
  <2> QED
    BY <2>1, <2>2
<1>5. Ready(1)' /\ Ready(2)'
  BY <1>1, <1>2, <1>4 DEF NowIn, Ready
<1> QED
  BY <1>1, <1>3, <1>4, <1>5, LettersStay

(* A program starts.                                                       *)
LEMMA LettersStart ==
  ASSUME LettersHyp, NEW p \in Procs, Start(p)
  PROVE  LettersInTurn'
<1>0. /\ TurnTypes /\ Begun /\ sys = "letters" /\ FirstGeneration /\ FirstAlone
      /\ at[1] = 0 /\ at[2] = 0 /\ 0 \in 0..MaxGen
      /\ Word(0, 1) <= Limit + 2 /\ Word(0, 2) <= Limit + 3
      /\ (~Ready(1) \/ ~Ready(2) => ~Dead)
  BY LettersFacts
<1>1. /\ phase[p] = "off" /\ NowIn(p, "init1") /\ step' = step /\ loc' = loc /\ gen' = gen
      /\ unread' = unread /\ SameMem
      /\ at'[p] = gen /\ \A q \in 1..4 : q # p => at'[q] = at[q]
  BY <1>0, StartMoves
<1>2. p = 1 \/ p = 2
  BY <1>0, LettersSteps
<1>3. \/ p = 1 /\ phase[1] = "off" /\ phase'[1] = "init1" /\ phase'[2] = phase[2] /\ at'[1] = gen /\ at'[2] = at[2]
      \/ p = 2 /\ phase[2] = "off" /\ phase'[2] = "init1" /\ phase'[1] = phase[1] /\ at'[2] = gen /\ at'[1] = at[1]
  BY <1>1, <1>2 DEF NowIn
<1>4. gen = 0 /\ ~Dead
  BY <1>0, <1>3 DEF FirstGeneration, Ready
<1>5. ~Dead'
  BY <1>0, <1>4, AliveKept
<1>6. /\ Sig(0, 1)' = Sig(0, 1) /\ Sig(0, 2)' = Sig(0, 2)
      /\ Word(0, 1)' = Word(0, 1) /\ Word(0, 2)' = Word(0, 2)
  BY <1>0, <1>1 DEF SameMem
<1>7. FirstGeneration'
  BY <1>0, <1>1, <1>3, <1>4 DEF FirstGeneration, SameMem
<1>8. FirstAlone'
  BY <1>0, <1>1, <1>3, <1>6 DEF FirstAlone, Ready
<1>9. ~Ready(1)' \/ ~Ready(2)'
  BY <1>3 DEF Ready
<1>10. (Word(0, 1) <= Limit + 2 /\ Word(0, 2) <= Limit + 3)'
  BY <1>0, <1>6
<1> QED
  BY <1>5, <1>7, <1>8, <1>9, <1>10, Zenon DEF LettersInTurn

(* A program prepares what is shared; p2 may wipe out the signal of p1.    *)
LEMMA LettersPrepare ==
  ASSUME LettersHyp, NEW p \in Procs, Prepare(p)
  PROVE  LettersInTurn'
<1>0. /\ TurnTypes /\ Begun /\ sys = "letters" /\ FirstGeneration /\ FirstAlone
      /\ at[1] = 0 /\ at[2] = 0 /\ 0 \in 0..MaxGen /\ Limit \in Nat /\ Limit >= 1
      /\ Sig(0, 1) \in Nat /\ Sig(0, 2) \in Nat /\ Word(0, 1) \in Nat /\ Word(0, 2) \in Nat
      /\ Word(0, 1) <= Limit + 2 /\ Word(0, 2) <= Limit + 3
      /\ (~Ready(1) \/ ~Ready(2) => ~Dead)
      /\ ~Ready(1) => step[1] = 1
      /\ ~Ready(2) => step[2] = 1
  BY LettersFacts
<1>1. /\ step' = step /\ loc' = loc /\ gen' = gen /\ unread' = unread /\ at' = at
      /\ \/ phase[p] = "init1" /\ NowIn(p, "init2")
         \/ phase[p] = "init2" /\ NowIn(p, "loop")
      /\ phase[p] = "init1" => \A h \in 0..MaxGen : \A j \in 1..2 :
           Sig(h, j)' = (IF h = at[p] THEN 1 ELSE Sig(h, j)) /\ Word(h, j)' = Word(h, j)
      /\ phase[p] = "init2" => \A h \in 0..MaxGen : \A j \in 1..2 :
           Word(h, j)' = (IF h = at[p] THEN 0 ELSE Word(h, j)) /\ Sig(h, j)' = Sig(h, j)
  BY <1>0, PrepareMoves
<1>2. p = 1 \/ p = 2
  BY <1>0, LettersSteps
<1>3. /\ p = 1 => phase'[2] = phase[2] /\ ~Ready(1)
      /\ p = 2 => phase'[1] = phase[1] /\ ~Ready(2)
      /\ \/ phase[p] = "init1" /\ phase'[p] = "init2"
         \/ phase[p] = "init2" /\ phase'[p] = "loop"
  BY <1>1, <1>2 DEF NowIn, Ready
<1>4. ~Dead /\ gen = 0
  BY <1>0, <1>2, <1>3 DEF FirstGeneration
<1>5. ~Dead'
  BY <1>0, <1>4, AliveKept
<1>6. /\ phase[p] = "init1" => /\ Sig(0, 1)' = 1 /\ Sig(0, 2)' = 1
                               /\ Word(0, 1)' = Word(0, 1) /\ Word(0, 2)' = Word(0, 2)
      /\ phase[p] = "init2" => /\ Sig(0, 1)' = Sig(0, 1) /\ Sig(0, 2)' = Sig(0, 2)
                               /\ Word(0, 1)' = 0 /\ Word(0, 2)' = 0
  BY <1>0, <1>1, <1>2
<1>7. FirstGeneration'
  <2>1. \A g \in 1..MaxGen : Word(g, 1)' = Word(g, 1) /\ Word(g, 2)' = Word(g, 2)
    BY <1>0, <1>1, <1>2, <1>3
  <2> QED
    BY <1>0, <1>1, <1>4, <2>1 DEF FirstGeneration
<1>8. (Word(0, 1) <= Limit + 2 /\ Word(0, 2) <= Limit + 3)'
  BY <1>0, <1>3, <1>6
<1>9. FirstAlone'
  <2>1. CASE p = 1
    BY <1>0, <1>1, <1>3, <1>6, <2>1 DEF FirstAlone, Ready
  <2>2. CASE p = 2
    BY <1>0, <1>1, <1>3, <1>6, <2>2 DEF FirstAlone, Ready
  <2> QED
    BY <1>2, <2>1, <2>2
<1>10. ASSUME Ready(1)', Ready(2)' PROVE AtP1' \/ ToP2' \/ Stuck'
  <2>1. CASE p = 1
    <3>1. ~Ready(1) /\ Ready(2) /\ phase[p] = "init2"
      BY <1>3, <1>10, <2>1 DEF Ready
    <3> QED
      BY <1>0, <1>1, <1>6, <3>1 DEF FirstAlone, AtP1
  <2>2. CASE p = 2
    <3>1. Ready(1) /\ ~Ready(2) /\ phase[p] = "init2"
      BY <1>3, <1>10, <2>2 DEF Ready
    <3>2. /\ step[1] \in {1, 2, 3, 4} /\ loc[1] = 0 /\ 2 \notin unread /\ step[2] = 1
          /\ Sig(0, 2) = 1 /\ Sig(0, 1) <= 1 /\ (step[1] \in {1, 2} => 1 \notin unread)
          /\ (step[1] # 4 => Sig(0, 1) = 1)
      BY <1>0, <3>1 DEF FirstAlone
    <3>3. CASE step[1] # 4
      <4>1. AtP1'
        BY <1>0, <1>1, <1>6, <3>1, <3>2, <3>3 DEF AtP1
      <4> QED
        BY <4>1
    <3>4. CASE step[1] = 4 /\ Sig(0, 1) = 0
      <4>1. ToP2'
        BY <1>0, <1>1, <1>6, <3>1, <3>2, <3>4 DEF ToP2
      <4> QED
        BY <4>1
    <3>5. CASE step[1] = 4 /\ Sig(0, 1) = 1
      <4>1. late'
        BY <2>2, <3>1 DEF Prepare, Ready
      <4>2. (Sig(0, 1) = 1 /\ Sig(0, 2) = 1 /\ step[1] = 4 /\ step[2] \in {1, 2})'
        BY <1>1, <1>6, <3>1, <3>2, <3>5
      <4> QED
        BY <4>1, <4>2 DEF Stuck
    <3> QED
      BY <1>0, <3>2, <3>3, <3>4, <3>5
  <2> QED
    BY <1>2, <2>1, <2>2
<1>11. (Ready(1) /\ Ready(2) => AtP1 \/ ToP2 \/ AtP2 \/ ToP1 \/ Stuck)'
  BY <1>10, Zenon
<1>12. (~Ready(1) \/ ~Ready(2) => ~Dead)'
  BY <1>5, Zenon
<1> QED
  BY <1>7, <1>8, <1>9, <1>11, <1>12, Zenon DEF LettersInTurn

(* letters: every step.                                                    *)
LEMMA LettersStep ==
  ASSUME LettersHyp, Next
  PROVE  LettersInTurn'
<1>0. TurnTypes /\ sys = "letters"
  BY DEF LettersHyp
<1>1. ASSUME NEW p \in Procs, Step(p) PROVE LettersInTurn'
  <2>1. ~Use(p) /\ ~ReadChar(p) /\ ~EndOfFile(p) /\ ~Post(p) /\ ~Wait(p)
    BY <1>0 DEF Use, ReadChar, EndOfFile, Post, Wait
  <2>2. \/ Prepare(p) \/ Write(p) \/ Read(p) \/ Test(p)
        \/ CountDown(p) \/ WaitZero(p) \/ Reset(p) \/ Removed(p) \/ Clean(p)
    BY <1>1, <2>1 DEF Step, Reader, Semaphore, SysVSemaphore
  <2> QED
    BY <2>2, LettersPrepare, LettersWrite, LettersRead, LettersTest, LettersSignal, LettersLeave
<1>2. ~ServerStart /\ ~ClientStart /\ ~Cleaner
  BY <1>0 DEF ServerStart, ClientStart, Cleaner
<1> QED
  BY <1>1, <1>2, LettersStart DEF Next

(* Every step keeps the types and who has begun.                           *)
LEMMA TurnTypesStep ==
  ASSUME TurnTypes, Begun, Next
  PROVE  TurnTypes' /\ Begun' /\ sys' = sys /\ left' = left
<1>1. ASSUME NEW p \in Procs, Step(p) PROVE TurnTypes' /\ Begun' /\ sys' = sys /\ left' = left
  <2>0. p \in 1..4 /\ step[p] \in 1..Len(Cycle(p)) /\ sys \in AllSystems
    BY Typed
  <2>1. sys # "letters" => /\ Cycle(p)[step[p]] \in {"use", "write", "wait", "post", "test"}
                           /\ sys # "words" => Cycle(p)[step[p]] \in {"use", "wait", "post"}
    <3>1. PICK n \in Nat : n = (IF step[p] = Len(Cycle(p)) THEN 1 ELSE step[p] + 1)
      BY <2>0
    <3> QED
      BY <3>1, TurnTable
  <2>2. CASE Prepare(p)
    BY <2>2, PrepareMoves
  <2>3. CASE Use(p) \/ ReadChar(p)
    BY <2>3, UseMoves
  <2>4. CASE EndOfFile(p)
    BY <2>4, EndMoves
  <2>5. CASE Write(p)
    <3>1. sys # "ring" /\ sys # "offset"
      BY <2>1, <2>5 DEF Write, At
    <3> QED
      BY <2>5, <3>1, WriteMoves
  <2>6. CASE Read(p)
    <3>1. sys # "ring"
      BY <2>1, <2>6 DEF Read, At
    <3> QED
      BY <2>6, <3>1, ReadMoves
  <2>7. CASE Post(p) \/ Wait(p) \/ CountDown(p) \/ WaitZero(p) \/ Reset(p)
    <3>1. sys # "letters" => ~At(p, "reset")
      BY <2>1 DEF At
    <3>2. /\ sys = "ring" => ~At(p, "reset")
          /\ sys = "offset" => ~At(p, "reset")
          /\ sys = "words" => ~At(p, "reset")
      BY <3>1
    <3> QED
      BY <2>7, <3>2, SignalMoves
  <2>8. CASE Test(p)
    <3>1. sys # "ring" /\ sys # "offset"
      BY <2>1, <2>8 DEF Test, At
    <3> QED
      BY <2>8, <3>1, TestMoves
  <2>9. CASE Removed(p) \/ Clean(p)
    BY <2>9, LeaveMoves
  <2> QED
    BY <1>1, <2>2, <2>3, <2>4, <2>5, <2>6, <2>7, <2>8, <2>9 DEF Step, Reader, Semaphore, SysVSemaphore
<1> QED
  BY <1>1, StartMoves, ServerStartMoves, ClientStartMoves, CleanerMoves DEF Next

(* Every step of the four systems keeps the invariant.                     *)
LEMMA TurnStep == TurnIInv /\ [Next]_vars => TurnIInv'
<1>1. ASSUME TurnIInv, Next PROVE TurnIInv'
  <2>1. TurnTypes /\ Begun /\ TurnCount
    BY <1>1 DEF TurnIInv
  <2>2. TurnTypes' /\ Begun' /\ sys' = sys /\ left' = left
    BY <1>1, <2>1, TurnTypesStep
  <2>3. TurnCount'
    <3>1. CASE sys # "letters"
      BY <1>1, <2>1, <3>1, CountStep
    <3>2. CASE sys = "letters"
      BY <2>2, <3>2 DEF TurnCount
    <3> QED
      BY <3>1, <3>2
  <2>4. sys = "words" /\ left = 0 => WordsInTurn'
    BY <1>1, <2>1, WordsStep DEF TurnIInv, WordsHyp
  <2>5. sys = "letters" => LettersInTurn'
    BY <1>1, <2>1, LettersStep DEF TurnIInv, LettersHyp
  <2> QED
    BY <2>2, <2>3, <2>4, <2>5 DEF TurnIInv
<1>2. ASSUME TurnIInv, UNCHANGED vars PROVE TurnIInv'
  <2>1. /\ sys' = sys /\ phase' = phase /\ step' = step /\ loc' = loc /\ mem' = mem /\ gen' = gen /\ at' = at
        /\ unread' = unread /\ late' = late /\ left' = left /\ runs' = runs
    BY <1>2 DEF vars
  <2>3. (TurnTypes' <=> TurnTypes) /\ (Begun' <=> Begun)
    BY <2>1 DEF TurnTypes, Begun, Procs, Cycle, Ready
  <2>4. TurnCount' <=> TurnCount
    BY <2>1 DEF TurnCount, TurnsAt, SignalsAt, Given, Turn, HasTurn, At, Procs, Cycle
  <2>5. WordsInTurn' <=> WordsInTurn
    BY <2>1 DEF WordsInTurn, WordsRead, WordsAt, Sig, Word, Ready
  <2>6. LettersInTurn' <=> LettersInTurn
    BY <2>1 DEF LettersInTurn, FirstGeneration, FirstAlone, Dead, AtP1, ToP2, AtP2, ToP1, Stuck, Sig, Word, Ready
  <2> QED
    BY <1>2, <2>1, <2>3, <2>4, <2>5, <2>6 DEF TurnIInv
<1> QED
  BY <1>1, <1>2

(* The four systems start in the invariant.                                *)
LEMMA TurnStarts == Init => TurnIInv
<1> SUFFICES ASSUME Init PROVE TurnIInv
  OBVIOUS
<1>1. /\ sys \in Systems /\ sys \in AllSystems
      /\ phase = [p \in 1..4 |-> IF sys = "ring" THEN "loop" ELSE "off"]
      /\ step = [p \in 1..4 |-> 1] /\ loc = [p \in 1..4 |-> 0] /\ at = [p \in 1..4 |-> 0]
      /\ left \in 0..1 /\ (sys = "letters" => left = 0)
      /\ gen = 0 /\ unread = {} /\ runs = 0 /\ 0 \in 0..MaxGen
  BY TurnConstants DEF Init, AllSystems
<1>2. mem = [g \in 0..MaxGen |-> [v |-> <<0, 0>>, dead |-> FALSE,
                                   s |-> IF g = 0 /\ left = 1 THEN <<1, 0>> ELSE <<0, 0>>]]
  BY DEF Init
<1>3. /\ <<0, 0>> \in [1..2 -> Nat] /\ <<1, 0>> \in [1..2 -> Nat]
      /\ <<0, 0>>[1] = 0 /\ <<0, 0>>[2] = 0 /\ <<1, 0>>[1] = 1 /\ <<1, 0>>[2] = 0
  OBVIOUS
<1>4. mem \in Memory
  BY <1>2, <1>3 DEF Memory
<1>5. \A g \in 0..MaxGen : /\ Sig(g, 1) = (IF g = 0 THEN left ELSE 0) /\ Sig(g, 2) = 0
                           /\ Word(g, 1) = 0 /\ Word(g, 2) = 0
  BY <1>1, <1>2, <1>3 DEF Sig, Word
<1>6. TurnTypes
  <2>1. \A p \in Procs : p \in 1..4 /\ 1 \in 1..Len(Cycle(p))
    BY <1>1, Lengths
  <2>2. phase \in [1..4 -> Phases] /\ step \in [1..4 -> Nat] /\ loc \in [1..4 -> Nat]
    BY <1>1 DEF Phases
  <2>3. at \in [1..4 -> 0..MaxGen] /\ gen \in 0..MaxGen /\ runs \in Nat
    BY <1>1
  <2>4. \A p \in Procs : step[p] \in 1..Len(Cycle(p))
    BY <1>1, <2>1
  <2> QED
    BY <1>1, <1>4, <2>2, <2>3, <2>4 DEF TurnTypes
<1>7. Begun
  BY <1>1 DEF Begun
<1>8. TurnCount
  <2> SUFFICES ASSUME sys # "letters", NEW g \in 0..MaxGen PROVE TurnsAt(g) + SignalsAt(g) = Given(g)
    BY DEF TurnCount
  <2>1. 1 \in 1..4 /\ 2 \in 1..4 /\ 3 \in 1..4 /\ 4 \in 1..4
    OBVIOUS
  <2>2. ASSUME NEW p \in Procs PROVE (p = 1 => Cycle(p)[1] \in Active) /\ (p # 1 => Cycle(p)[1] \notin Active)
    <3>1. p \in 1..4 /\ step[p] \in 1..Len(Cycle(p))
      BY <1>6, Typed
    <3>2. PICK n \in Nat : n = (IF step[p] = Len(Cycle(p)) THEN 1 ELSE step[p] + 1)
      BY <3>1
    <3> QED
      BY <1>6, <3>2, TurnTable
  <2>3. 1 \in Procs
    BY DEF Procs
  <2>4. Turn(1, g) = IF g = 0 /\ sys = "ring" THEN 1 ELSE 0
    BY <1>1, <2>1, <2>2, <2>3, TurnValue
  <2>5. ASSUME NEW q \in 2..4 PROVE Turn(q, g) = 0
    <3>1. q \in 1..4 /\ q # 1 /\ step[q] = 1 /\ (q \in Procs => Cycle(q)[1] \notin Active)
      BY <1>1, <2>2
    <3> QED
      BY <3>1, TurnValue
  <2>6. Turn(2, g) = 0 /\ Turn(3, g) = 0 /\ Turn(4, g) = 0
    BY <2>5
  <2>7. Given(g) = (IF g = 0 THEN left ELSE 0) + (IF g = 0 /\ sys = "ring" THEN 1 ELSE 0)
    <3>1. sys = "ring" => Given(g) = (IF g = 0 THEN left ELSE 0) + (IF g = 0 THEN 1 ELSE 0)
      BY <1>6, GivenValue
    <3>2. sys = "offset" => Given(g) = (IF g = 0 THEN left ELSE 0) + 0
      BY <1>1, <1>6, GivenValue
    <3>3. sys = "words" => Given(g) = (IF g = 0 THEN left ELSE 0) + 0
      BY <1>1, <1>6, GivenValue
    <3> QED
      BY <1>1, <3>1, <3>2, <3>3 DEF AllSystems
  <2>8. SignalsAt(g) = (IF g = 0 THEN left ELSE 0)
    <3>1. SignalsAt(g) = Sig(g, 1) + Sig(g, 2)
      BY DEF SignalsAt, Sig
    <3> QED
      BY <1>1, <1>5, <3>1
  <2> QED
    BY <1>1, <2>4, <2>6, <2>7, <2>8 DEF TurnsAt
<1>9. left = 0 /\ sys = "words" => WordsInTurn
  BY <1>1, <1>5, TurnConstants DEF WordsInTurn, WordsRead, WordsAt, Ready
<1>10. sys = "letters" => LettersInTurn
  <2> SUFFICES ASSUME sys = "letters" PROVE LettersInTurn
    OBVIOUS
  <2>1. phase[1] = "off" /\ phase[2] = "off" /\ step[1] = 1 /\ step[2] = 1 /\ loc[1] = 0 /\ loc[2] = 0
    BY <1>1
  <2>2. Word(0, 1) = 0 /\ Word(0, 2) = 0
    BY <1>1, <1>5
  <2>3. FirstGeneration
    BY <1>1, <1>5 DEF FirstGeneration
  <2>4. FirstAlone
    BY <1>1, <2>1, <2>2 DEF FirstAlone, Ready
  <2>5. ~Dead
    BY <1>1, <1>2 DEF Dead
  <2>6. ~Ready(1)
    BY <2>1 DEF Ready
  <2>7. Word(0, 1) <= Limit + 2 /\ Word(0, 2) <= Limit + 3
    BY <2>2, TurnConstants
  <2> QED
    BY <2>3, <2>4, <2>5, <2>6, <2>7 DEF LettersInTurn
<1> QED
  BY <1>6, <1>7, <1>8, <1>9, <1>10 DEF TurnIInv

(* What the invariant says of the properties that the run checks.          *)
LEMMA TurnIsKept == TurnIInv => TurnsKept /\ TypeOK
<1> SUFFICES ASSUME TurnIInv PROVE TurnsKept /\ TypeOK
  OBVIOUS
<1>0. /\ TurnTypes /\ Begun /\ TurnCount
      /\ sys = "words" /\ left = 0 => WordsInTurn
      /\ sys = "letters" => LettersInTurn
  BY DEF TurnIInv
<1>1. TypeOK
  <2>1. \A g \in 0..MaxGen : \A i \in 1..2 : mem[g].v[i] >= 0 /\ mem[g].s[i] >= 0
    <3>1. mem \in Memory
      BY <1>0, Typed
    <3> QED
      BY <3>1 DEF Memory
  <2> QED
    BY <1>0, <2>1 DEF TypeOK, TurnTypes, Phases
<1>2. OneTurn
  <2>1. ASSUME sys = "letters", Together, \A p \in Procs : phase[p] = "loop"
        PROVE  TurnsAt(at[1]) + (1 - Here(1).s[1]) + (1 - Here(1).s[2]) = 1
    <3>1. /\ at[1] = 0 /\ at[2] = 0 /\ Sig(0, 1) \in Nat /\ Sig(0, 2) \in Nat
          /\ Ready(1) /\ Ready(2) => AtP1 \/ ToP2 \/ AtP2 \/ ToP1 \/ Stuck
      BY <1>0, <2>1, LettersFacts DEF LettersHyp
    <3>2. Procs = 1..2 /\ step[1] \in 1..6 /\ step[2] \in 1..6
      BY <1>0, <2>1, LettersSteps
    <3>3. phase[1] = "loop" /\ phase[2] = "loop" /\ Ready(1) /\ Ready(2)
      BY <2>1, <3>2 DEF Ready
    <3>4. ~Stuck
      BY <2>1 DEF Together, Stuck
    <3>5. (HasTurn(1) <=> step[1] \in {1, 2, 3}) /\ (HasTurn(2) <=> step[2] \in {5, 6})
      BY <1>0, <2>1, <3>2, <3>3, LettersSteps DEF HasTurn, At
    <3>6. /\ Turn(1, 0) = (IF step[1] \in {1, 2, 3} THEN 1 ELSE 0)
          /\ Turn(2, 0) = (IF step[2] \in {5, 6} THEN 1 ELSE 0)
          /\ Turn(3, 0) = 0 /\ Turn(4, 0) = 0
      BY <3>1, <3>2, <3>5 DEF Turn
    <3>7. Here(1).s[1] = Sig(0, 1) /\ Here(1).s[2] = Sig(0, 2)
      BY <3>1 DEF Here, Sig
    <3>8. TurnsAt(0) + (1 - Sig(0, 1)) + (1 - Sig(0, 2)) = 1
      BY <3>1, <3>2, <3>3, <3>4, <3>6 DEF TurnsAt, AtP1, ToP2, AtP2, ToP1
    <3> QED
      BY <3>1, <3>7, <3>8
  <2> QED
    BY <1>0, <2>1 DEF OneTurn, TurnCount
<1>3. NoLostUpdate
  <2> SUFFICES ASSUME left = 0, NEW p \in Procs, At(p, "write") PROVE p \notin unread
    BY DEF NoLostUpdate
  <2>1. phase[p] = "loop" /\ Cycle(p)[step[p]] = "write" /\ p \in 1..4 /\ step[p] \in 1..Len(Cycle(p))
        /\ sys \in AllSystems
    BY <1>0, Typed DEF At
  <2>2. PICK n \in Nat : n = (IF step[p] = Len(Cycle(p)) THEN 1 ELSE step[p] + 1)
    BY <2>1
  <2>3. sys = "words" \/ sys = "letters"
    BY <1>0, <2>1, <2>2, TurnTable
  <2>4. CASE sys = "words"
    <3>1. \/ p = 1 /\ step[1] = 1
          \/ p = 2 /\ step[2] = 3
      BY <1>0, <2>1, <2>4, WordsSteps
    <3> QED
      BY <1>0, <2>1, <2>4, <3>1 DEF WordsInTurn, WordsRead
  <2>5. CASE sys = "letters"
    <3>1. \/ p = 1 /\ step[1] = 2
          \/ p = 2 /\ step[2] = 5
      BY <1>0, <2>1, <2>5, LettersSteps
    <3>2. FirstAlone /\ (Ready(1) /\ Ready(2) => AtP1 \/ ToP2 \/ AtP2 \/ ToP1 \/ Stuck)
      BY <1>0, <2>5, LettersFacts DEF LettersHyp
    <3>3. CASE p = 1 /\ step[1] = 2
      <4>1. Ready(1)
        BY <2>1, <3>3 DEF Ready
      <4> QED
        BY <3>2, <3>3, <4>1 DEF FirstAlone, AtP1, ToP2, AtP2, ToP1, Stuck
    <3>4. CASE p = 2 /\ step[2] = 5
      <4>1. Ready(2)
        BY <2>1, <3>4 DEF Ready
      <4> QED
        BY <3>2, <3>4, <4>1 DEF FirstAlone, AtP1, ToP2, AtP2, ToP1, Stuck
    <3> QED
      BY <3>1, <3>3, <3>4
  <2> QED
    BY <2>3, <2>4, <2>5
<1>4. Overshoot
  <2> SUFFICES ASSUME left = 0, NEW g \in 0..MaxGen
               PROVE  /\ sys = "words" => mem[g].v[1] <= Limit + 1 /\ mem[g].v[2] <= Limit + 2
                      /\ sys = "letters" => mem[g].v[1] <= Limit + 2 /\ mem[g].v[2] <= Limit + 3
    BY DEF Overshoot
  <2>1. sys = "words" => Word(g, 1) <= Limit + 1 /\ Word(g, 2) <= Limit + 2
    BY <1>0 DEF WordsInTurn, WordsAt
  <2>2. ASSUME sys = "letters" PROVE Word(g, 1) <= Limit + 2 /\ Word(g, 2) <= Limit + 3
    <3>1. FirstGeneration /\ Word(0, 1) <= Limit + 2 /\ Word(0, 2) <= Limit + 3 /\ Limit \in Nat
      BY <1>0, <2>2, LettersFacts DEF LettersHyp
    <3>2. g = 0 \/ g \in 1..MaxGen
      BY TurnConstants
    <3> QED
      BY <3>1, <3>2 DEF FirstGeneration
  <2> QED
    BY <2>1, <2>2 DEF Word
<1> QED
  BY <1>1, <1>2, <1>3, <1>4 DEF TurnsKept

(* A step of the group is a step of TurnTaking or leaves it alone.         *)
LEMMA GroupIsTurns == [GroupNext]_all => [Next]_vars
  BY DEF GroupNext, all, InTurns, InTalk, InMail, InPoll, InExch

(* For every limit, chunk, file length and bound, and whichever of the     *)
(* four systems runs: no sem_post or sem_wait loses or invents a turn, two *)
(* words are never overwritten unread once both programs are ready, and    *)
(* the limit that both test without a semaphore is overshot by one turn of *)
(* each at most (q3/p1.c..p4.c, q4/p1.c, q4/p2.c, class_example, pass_fd). *)
THEOREM TurnsInOrder == GroupSpec => []TurnsKept
<1>1. GroupInit => TurnIInv
  BY TurnStarts DEF GroupInit
<1>2. TurnIInv /\ [GroupNext]_all => TurnIInv'
  BY TurnStep, GroupIsTurns
<1> QED
  BY <1>1, <1>2, TurnIsKept, PTL DEF GroupSpec

(* For every value of the constants the five groups of programs keep their *)
(* types: the places in the programs, the pipes, queues and sockets, the   *)
(* semaphores, which are never negative (class_example, q3, q4, pass_fd,   *)
(* 8-1-22, message queue, 11-1-22/poll, 27-1-22, 28-1-22).                 *)
THEOREM GroupTypesKept == GroupSpec => []GroupTypeOK
<1> DEFINE All == TurnIInv /\ TalkIInv /\ MailIInv /\ PollIInv /\ (ExchIInv /\ short \subseteq Calls)
<1>1. GroupInit => All
  BY TurnStarts, TalkStarts, MailStarts, PollStarts, ExchStarts DEF GroupInit
<1>2. All /\ [GroupNext]_all => All'
  BY TurnStep, TalkStep, MailStep, PollStep, ExchStep,
     GroupIsTurns, GroupIsTalk, GroupIsMail, GroupIsPoll, GroupIsExch
<1>3. All => GroupTypeOK
  BY TurnIsKept, TalkIsKept, MailIsKept, PollIsKept, ExchIsKept DEF GroupTypeOK
<1> QED
  BY <1>1, <1>2, <1>3, PTL DEF GroupSpec

=============================================================================
