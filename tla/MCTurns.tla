------------------------------- MODULE MCTurns -------------------------------
(***************************************************************************)
(* Programs that wait for each other: with semaphores (TurnTaking), over   *)
(* pipes (Dialogue), over a message queue (Mailbox), with poll (FifoPoll)  *)
(* or over sockets (Exchanges).  One run explores one after the other;     *)
(* "group" says which one moves.                                           *)
(***************************************************************************)
EXTENDS TurnTaking, Dialogue, Mailbox, FifoPoll, Exchanges

VARIABLE group

all == <<group, vars, talkVars, mailVars, pollVars, exchVars>>

InTurns(A) == group = "turns" /\ A /\ UNCHANGED <<group, talkVars, mailVars, pollVars, exchVars>>
InTalk(A) == group = "talk" /\ A /\ UNCHANGED <<group, vars, mailVars, pollVars, exchVars>>
InMail(A) == group = "mail" /\ A /\ UNCHANGED <<group, vars, talkVars, pollVars, exchVars>>
InPoll(A) == group = "poll" /\ A /\ UNCHANGED <<group, vars, talkVars, mailVars, exchVars>>
InExch(A) == group = "exch" /\ A /\ UNCHANGED <<group, vars, talkVars, mailVars, pollVars>>

GroupInit ==
  /\ group \in {"turns", "talk", "mail", "poll", "exch"}
  /\ Init /\ TalkInit /\ MailInit /\ PollInit /\ ExchInit
  /\ group # "turns" => sys = "words" /\ left = 0
  /\ group # "talk" => talk = "child"
  /\ group # "poll" => prog = "fifos"
  /\ group # "exch" => exch = "hello"

GroupNext ==
  InTurns(Next) \/ InTalk(TalkNext) \/ InMail(MailNext) \/ InPoll(PollNext) \/ InExch(ExchNext)

(* Started programs run on; of the users only those of TurnTaking have to  *)
(* answer their prompts.  Every waiting process is served in the end, so   *)
(* fairness is asked of each process.                                      *)
GroupSpec ==
  /\ GroupInit /\ [][GroupNext]_all
  /\ \A p \in 1..4 : WF_all(InTurns(Step(p)))
  /\ WF_all(InTalk(TalkAuto))
  /\ WF_all(InMail(TakeRequest)) /\ WF_all(InMail(Answer))
  /\ \A i \in Pids : WF_all(InMail(Request(i))) /\ WF_all(InMail(TakeAnswer(i)))
  /\ WF_all(InPoll(P1Step))
  /\ WF_all(InExch(ServerStep)) /\ \A i \in Calls : WF_all(InExch(CallerStep(i)))

(* The type invariants of the five groups.                                 *)
GroupTypeOK == TypeOK /\ TalkTypeOK /\ MailTypeOK /\ PollTypeOK /\ ExchTypeOK

(* Messages reach the one they are for: the answers of the queue           *)
(* (message queue/p1.c:45), and on sockets both sides in step, the server  *)
(* reachable, the verdict on the program sent (Exchanges).                 *)
MessagesKept == OneMessageEach /\ InStep /\ FirstServerReachable /\ VerdictOnSource

(* Whoever waits is served in the end: the programs with semaphores end    *)
(* (q4/p1.c, class_example), the dialogues end after exit (8-1-22), every  *)
(* request is answered unless the queue is full (message queue/p1.c), p1   *)
(* returns when all writers have left (poll/p1.c), and the callers of the  *)
(* simple servers end (27-1-22, 28-1-22, practice/socket).                 *)
AllServed == BothEnd /\ AllLeave /\ Answered /\ PollEnds /\ CallersEnd
=============================================================================
