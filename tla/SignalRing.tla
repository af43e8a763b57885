----------------------------- MODULE SignalRing -----------------------------
(***************************************************************************)
(* The four programs p1..p4 of 12-1-22/circular_signal and of              *)
(* 12-1-22/group_signal.  Both begin the same way: each program learns the *)
(* pid of the next from a typed message and the pid of the previous from   *)
(* the siginfo of a SIGUSR1.  The circular programs then send a signal     *)
(* three times round the ring, three times back, and stop one another; the *)
(* group programs give p1 all pids, and p1 gives all a process group.      *)
(* Which of the two directories was started is chosen in Init.             *)
(***************************************************************************)
EXTENDS Integers, Sequences, FiniteSets

CONSTANT CleanerRuns   \* whether cleaner.c was started as well

ASSUME RingConstants == CleanerRuns \in BOOLEAN

VARIABLES
  system,    \* "circular" or "group"
  pc,        \* the position of each program in its Script
  mode,      \* "run", "pausing" (pause() will be called), "asleep", "gone"
  mq,        \* the message queue
  removed,   \* the queue was removed with IPC_RMID
  signals,   \* signals[p][s]: the sender of p's pending signal s, or 0
  count,     \* sigusr1_count and sigusr2_count of each program
  prev,      \* pid of the previous program, taken from siginfo
  next,      \* pid of the next program, taken from a message
  collected, \* p1 of group_signal: the pids read from messages of type 18
  grouppid,  \* the group each program knows
  members,   \* the processes whose process group is p1's pid
  mishap     \* history: "missed", "stolen" or "cut" happened

ids == <<prev, next, collected, grouppid, members>>
vars == <<system, pc, mode, mq, removed, signals, count, ids, mishap>>

P == 1..4
Succ(p) == (p % 4) + 1
Pred(p) == ((p + 2) % 4) + 1
ALL == 18                 \* the message type every pid is announced under

Round(step) == <<step, "pause", step, "pause", step, "pause">>

(* The calls of each main() that other processes can see, in order.        *)
CircularP1 == <<"learn", "greet", "wait">> \o Round("forward")
                \o Round("backward") \o <<"stop", "remove">>
CircularP2 == <<"register", "wait", "learn", "pass1", "greet", "idle">>
CircularP3 == <<"register", "wait", "learn", "greet", "idle">>
CircularP4 == <<"register", "wait", "learn", "greet", "idle">>

GroupP1 == <<"learn", "greet", "wait", "collect", "collect", "collect",
             "form", "share2", "share3", "share4", "scanf", "remove">>
GroupP2 == <<"register", "wait", "learn", "pass1", "announce", "greet",
             "group", "killpg">>
GroupP3 == <<"register", "wait", "announce", "learn", "greet", "group",
             "killpg">>
GroupP4 == <<"register", "wait", "announce", "learn", "greet", "group",
             "killpg">>

Script(p) ==
  IF system = "circular"
    THEN <<CircularP1, CircularP2, CircularP3, CircularP4>>[p]
    ELSE <<GroupP1, GroupP2, GroupP3, GroupP4>>[p]

Init ==
  /\ system \in {"circular", "group"}
  /\ pc = [p \in P |-> 1]
  /\ mode = [p \in P |-> "run"]
  /\ mq = <<>>
  /\ removed = FALSE
  /\ signals = [p \in P |-> [s \in {"usr1", "usr2"} |-> 0]]
  /\ count = [p \in P |-> [s \in {"usr1", "usr2"} |-> 0]]
  /\ prev = [p \in P |-> 0]
  /\ next = [p \in P |-> 0]
  /\ collected = <<>>
  /\ grouppid = [p \in P |-> 0]
  /\ members = {}
  /\ mishap = {}

At(p, step) == mode[p] = "run" /\ Script(p)[pc[p]] = step
Last(p) == pc[p] = Len(Script(p))

(* The step is done; after the last one main() returns.                    *)
Advance(p) ==
  IF Last(p) THEN mode' = [mode EXCEPT ![p] = "gone"] /\ UNCHANGED pc
             ELSE pc' = [pc EXCEPT ![p] = @ + 1] /\ UNCHANGED mode

Fail(p) == mode' = [mode EXCEPT ![p] = "gone"] /\ UNCHANGED pc

(* kill: a signal already pending is not queued again; 0 is the caller's   *)
(* own process group, which holds the caller alone.                        *)
Signalled(sigs, from, to, s) ==
  LET q == IF to = 0 THEN from ELSE to IN
  IF mode[q] = "gone" \/ sigs[q][s] # 0
    THEN sigs ELSE [sigs EXCEPT ![q][s] = from]

-----------------------------------------------------------------------------
(* Messages                                                                *)

(* msgsnd; on a removed queue it fails and main() returns.                 *)
Send(p, type, pid) ==
  IF removed THEN Fail(p) /\ UNCHANGED mq
             ELSE Advance(p) /\ mq' = Append(mq, [type |-> type, pid |-> pid])

OfType(type) == {i \in 1..Len(mq) : mq[i].type = type}
First(type) == CHOOSE i \in OfType(type) : \A j \in OfType(type) : i <= j
Without(i) == SubSeq(mq, 1, i - 1) \o SubSeq(mq, i + 1, Len(mq))

(* msgrcv of a type: the oldest message of that type, once there is one.   *)
Receive(p, type) ==
  /\ ~removed
  /\ OfType(type) # {}
  /\ mq' = Without(First(type))
  /\ Advance(p)

(* msgrcv fails once the queue is removed, also in a blocked program.      *)
ReceiveFails(p) ==
  /\ removed
  /\ At(p, "learn") \/ At(p, "collect") \/ At(p, "group")
  /\ Fail(p)
  /\ UNCHANGED <<system, mq, removed, signals, count, ids, mishap>>

(* Mutant: the message is sent before the pid is printed into it.          *)
RegisterBlank(p) ==
  /\ At(p, "register")
  /\ Send(p, p, 0)
  /\ UNCHANGED <<system, removed, signals, count, ids, mishap>>

Register(p) ==
  /\ At(p, "register")
  /\ Send(p, p, p)
  /\ UNCHANGED <<system, removed, signals, count, ids, mishap>>

(* Mutant: msgrcv with type 0, which takes the oldest message of any type. *)
LearnAny(p) ==
  /\ At(p, "learn")
  /\ ~removed /\ mq # <<>>
  /\ mq' = Tail(mq)
  /\ next' = [next EXCEPT ![p] = Head(mq).pid]
  /\ Advance(p)
  /\ UNCHANGED <<system, removed, signals, count, prev, collected, grouppid,
                 members, mishap>>

Learn(p) ==
  /\ At(p, "learn")
  /\ Receive(p, Succ(p))
  /\ next' = [next EXCEPT ![p] = mq[First(Succ(p))].pid]
  /\ UNCHANGED <<system, removed, signals, count, prev, collected, grouppid,
                 members, mishap>>

(* p2 passes the pid of p1 on to p4.                                       *)
PassFirst(p) ==
  /\ At(p, "pass1")
  /\ Send(p, 1, prev[p])
  /\ UNCHANGED <<system, removed, signals, count, ids, mishap>>

Announce(p) ==
  /\ At(p, "announce")
  /\ Send(p, ALL, p)
  /\ UNCHANGED <<system, removed, signals, count, ids, mishap>>

(* p1 reads three messages of type 18; the second is p3's, the third p4's. *)
Collect ==
  /\ At(1, "collect")
  /\ Receive(1, ALL)
  /\ collected' = Append(collected, mq[First(ALL)].pid)
  /\ UNCHANGED <<system, removed, signals, count, prev, next, grouppid,
                 members, mishap>>

(* setpgid: p1 may move itself only; for the others, which are not its     *)
(* children, the call fails and main() goes on after perror.               *)
Form ==
  /\ At(1, "form")
  /\ grouppid' = [grouppid EXCEPT ![1] = 1]
  /\ members' = {1}
  /\ Advance(1)
  /\ UNCHANGED <<system, mq, removed, signals, count, prev, next, collected,
                 mishap>>

Share(p) ==
  /\ \/ p = 2 /\ At(1, "share2")
     \/ p = 3 /\ At(1, "share3")
     \/ p = 4 /\ At(1, "share4")
  /\ Send(1, p, grouppid[1])
  /\ UNCHANGED <<system, removed, signals, count, ids, mishap>>

Group(p) ==
  /\ At(p, "group")
  /\ Receive(p, p)
  /\ grouppid' = [grouppid EXCEPT ![p] = mq[First(p)].pid]
  /\ UNCHANGED <<system, removed, signals, count, prev, next, collected,
                 members, mishap>>

(* The user answers the scanf of p1.                                       *)
UserTypes ==
  /\ At(1, "scanf")
  /\ Advance(1)
  /\ UNCHANGED <<system, mq, removed, signals, count, ids, mishap>>

(* msgctl(IPC_RMID); "cut" when a message somebody needs is still in it.   *)
Remove ==
  /\ At(1, "remove")
  /\ removed' = TRUE
  /\ mishap' = IF mq = <<>> THEN mishap ELSE mishap \cup {"cut"}
  /\ mq' = <<>>
  /\ Advance(1)
  /\ UNCHANGED <<system, signals, count, ids>>

(* cleaner.c takes whatever message comes first.                           *)
CleanerTake ==
  /\ CleanerRuns /\ ~removed /\ mq # <<>>
  /\ mq' = Tail(mq)
  /\ mishap' = mishap \cup {"stolen"}
  /\ UNCHANGED <<system, pc, mode, removed, signals, count, ids>>

-----------------------------------------------------------------------------
(* Signals                                                                 *)

Kill(p, step, target, s) ==
  /\ At(p, step)
  /\ signals' = Signalled(signals, p, target, s)
  /\ Advance(p)
  /\ UNCHANGED <<system, mq, removed, count, ids, mishap>>

Greet(p) == Kill(p, "greet", next[p], "usr1")
Forward == Kill(1, "forward", next[1], "usr1")
Backward == Kill(1, "backward", prev[1], "usr2")
Stop == Kill(1, "stop", next[1], "usr2")

Killpg(p) ==
  /\ At(p, "killpg")
  /\ signals' = [q \in P |->
       IF q \in members THEN Signalled(signals, p, q, "usr2")[q]
                        ELSE signals[q]]
  /\ Advance(p)
  /\ UNCHANGED <<system, mq, removed, count, ids, mishap>>

(* while (pid == -1) pause(): the test and the call are two steps.         *)
Test(p) ==
  /\ At(p, "wait")
  /\ IF prev[p] # 0 THEN Advance(p)
                    ELSE mode' = [mode EXCEPT ![p] = "pausing"] /\ UNCHANGED pc
  /\ UNCHANGED <<system, mq, removed, signals, count, ids, mishap>>

(* Mutant: p1 does not wait for the end of the round.                      *)
PauseNot(p) ==
  /\ \/ mode[p] = "pausing" /\ mode' = [mode EXCEPT ![p] = "asleep"]
                            /\ UNCHANGED pc
     \/ At(p, "pause") /\ Advance(p)
  /\ UNCHANGED <<system, mq, removed, signals, count, ids, mishap>>

Pause(p) ==
  /\ mode[p] = "pausing" \/ At(p, "pause")
  /\ mode' = [mode EXCEPT ![p] = "asleep"]
  /\ UNCHANGED <<system, pc, mq, removed, signals, count, ids, mishap>>

AboutToPause(p) == mode[p] = "pausing" \/ At(p, "pause")

(* After a handler: pause() returns, and a scanf that had begun returns    *)
(* too (SA_RESTART is not set).                                            *)
Resume(p) ==
  \/ /\ mode[p] = "asleep"
     /\ mode' = [mode EXCEPT ![p] = "run"]
     /\ pc' = IF Script(p)[pc[p]] = "pause" THEN [pc EXCEPT ![p] = @ + 1] ELSE pc
  \/ /\ mode[p] # "asleep"
     /\ UNCHANGED <<pc, mode>>
  \/ /\ At(p, "scanf")
     /\ Advance(p)

Counted(p, s) == [count EXCEPT ![p][s] = @ + 1]
Taken(p, s) == [signals EXCEPT ![p][s] = 0]

(* Mutant: the handler forgets that the first signal is the introduction.  *)
Usr1Forwards(p) ==
  /\ signals[p]["usr1"] # 0 /\ mode[p] # "gone"
  /\ count' = Counted(p, "usr1")
  /\ prev' = [prev EXCEPT ![p] = signals[p]["usr1"]]
  /\ signals' = IF system = "circular" /\ p # 1 /\ count'[p]["usr1"] \in 1..4
                  THEN Signalled(Taken(p, "usr1"), p, next[p], "usr1")
                  ELSE Taken(p, "usr1")
  /\ mishap' = IF AboutToPause(p) THEN mishap \cup {"missed"} ELSE mishap
  /\ Resume(p)
  /\ UNCHANGED <<system, mq, removed, next, collected, grouppid, members>>

(* sigusr1_handler.  The first signal tells the pid of the previous        *)
(* program; circular: the next three are sent on, p1 keeps them.           *)
Usr1(p) ==
  LET n == count[p]["usr1"] + 1 IN
  /\ signals[p]["usr1"] # 0 /\ mode[p] # "gone"
  /\ count' = Counted(p, "usr1")
  /\ prev' = IF n = 1 \/ (system = "group" /\ p # 1)
               THEN [prev EXCEPT ![p] = signals[p]["usr1"]] ELSE prev
  /\ signals' = IF system = "circular" /\ p # 1 /\ n \in 2..4
                  THEN Signalled(Taken(p, "usr1"), p, next[p], "usr1")
                  ELSE Taken(p, "usr1")
  /\ mishap' = IF AboutToPause(p) THEN mishap \cup {"missed"} ELSE mishap
  /\ Resume(p)
  /\ UNCHANGED <<system, mq, removed, next, collected, grouppid, members>>

(* sigusr2_handler where it only prints: p1, and all of group_signal.      *)
Usr2Prints(p) ==
  /\ signals[p]["usr2"] # 0 /\ mode[p] # "gone"
  /\ p = 1 \/ system = "group"
  /\ count' = Counted(p, "usr2")
  /\ signals' = Taken(p, "usr2")
  /\ mishap' = IF AboutToPause(p) THEN mishap \cup {"missed"} ELSE mishap
  /\ Resume(p)
  /\ UNCHANGED <<system, mq, removed, ids>>

(* sigusr2_handler of the circular p2, p3, p4: three times back to the     *)
(* previous program; the fourth is the order to stop, which p2 and p3 send *)
(* on before they kill themselves.                                         *)
Usr2Returns(p) ==
  /\ system = "circular" /\ p # 1
  /\ signals[p]["usr2"] # 0 /\ mode[p] # "gone"
  /\ count[p]["usr2"] < 3
  /\ count' = Counted(p, "usr2")
  /\ signals' = Signalled(Taken(p, "usr2"), p, prev[p], "usr2")
  /\ mishap' = IF AboutToPause(p) THEN mishap \cup {"missed"} ELSE mishap
  /\ Resume(p)
  /\ UNCHANGED <<system, mq, removed, ids>>

(* Mutant: the order to stop is not sent on.                               *)
Usr2Dies(p) ==
  /\ system = "circular" /\ p # 1
  /\ signals[p]["usr2"] # 0 /\ mode[p] # "gone"
  /\ count[p]["usr2"] >= 3
  /\ count' = Counted(p, "usr2")
  /\ signals' = Taken(p, "usr2")
  /\ mode' = [mode EXCEPT ![p] = "gone"]
  /\ UNCHANGED <<system, pc, mq, removed, ids, mishap>>

Usr2Stops(p) ==
  /\ system = "circular" /\ p # 1
  /\ signals[p]["usr2"] # 0 /\ mode[p] # "gone"
  /\ count[p]["usr2"] >= 3
  /\ count' = Counted(p, "usr2")
  /\ signals' = IF p = 4 THEN Taken(p, "usr2")
                ELSE Signalled(Taken(p, "usr2"), p, next[p], "usr2")
  /\ mode' = [mode EXCEPT ![p] = "gone"]
  /\ UNCHANGED <<system, pc, mq, removed, ids, mishap>>

-----------------------------------------------------------------------------
Handler(p) == Usr1(p) \/ Usr2Prints(p) \/ Usr2Returns(p) \/ Usr2Stops(p)

Exchange(p) ==
  \/ Register(p) \/ Learn(p) \/ Greet(p) \/ Test(p) \/ Pause(p)
  \/ PassFirst(p) \/ Announce(p) \/ Group(p) \/ Killpg(p) \/ ReceiveFails(p)

Leader ==
  \/ Forward \/ Backward \/ Stop \/ Remove
  \/ Collect \/ Form \/ \E p \in 2..4 : Share(p)

Next ==
  \/ \E p \in P : Exchange(p) \/ Handler(p)
  \/ Leader
  \/ UserTypes
  \/ CleanerTake

Spec == Init /\ [][Next]_vars

(* Every program is scheduled and signals arrive; the user need not type.  *)
FairSpec ==
  /\ Spec
  /\ \A p \in P : WF_vars(Exchange(p)) /\ WF_vars(Handler(p))
  /\ WF_vars(Leader)

-----------------------------------------------------------------------------
(* Properties                                                              *)

(* Positions are inside the scripts, pids are pids or not known yet.       *)
TypeOK ==
  /\ system \in {"circular", "group"}
  /\ \A p \in P : pc[p] \in 1..Len(Script(p))
  /\ mode \in [P -> {"run", "pausing", "asleep", "gone"}]
  /\ \A i \in 1..Len(mq) : mq[i].type \in P \cup {ALL} /\ mq[i].pid \in P
  /\ signals \in [P -> [{"usr1", "usr2"} -> 0..4]]
  /\ prev \in [P -> 0..4] /\ next \in [P -> 0..4] /\ grouppid \in [P -> 0..1]
  /\ \A i \in 1..Len(collected) : collected[i] \in P

(* p1.c "send next ciruclar signal after this round finishes": there is    *)
(* never more than one signal under way in the ring, so none can merge     *)
(* with another, and no handler runs inside another.                       *)
OneSignalInRing ==
  system = "circular" =>
    Cardinality({x \in P \X {"usr1", "usr2"} : signals[x[1]][x[2]] # 0}) <= 1

(* A program that is asked to send a signal on knows whom to: it never     *)
(* calls kill(0, ...), which would signal its own process group.           *)
NeverKillsZero ==
  system = "circular" =>
    \A p \in P \ {1} :
      /\ signals[p]["usr1"] # 0 /\ count[p]["usr1"] > 0 => next[p] # 0
      /\ signals[p]["usr2"] # 0 => next[p] # 0 /\ prev[p] # 0

(* The rounds back begin when the rounds forward are complete: nobody sees *)
(* a SIGUSR2 before its third SIGUSR1 of the ring, and the order to stop   *)
(* comes after everybody's third SIGUSR2.                                  *)
RoundsInOrder ==
  system = "circular" =>
    \A p \in P \ {1} :
      /\ count[p]["usr2"] > 0 => \A q \in P : count[q]["usr1"] = 4
      /\ count[p]["usr2"] > 3 => \A q \in P \ {1} : count[q]["usr2"] >= 3

(* Pids travel in messages of one queue that all read, under types that    *)
(* are reused (2, 3 and 4 are first a pid, later the group): all the same  *)
(* everybody learns the right pids, unless cleaner.c takes a message.      *)
PidsAreRight ==
  "stolen" \notin mishap =>
    /\ \A p \in P : next[p] \in {0, Succ(p)} /\ prev[p] \in {0, Pred(p)}
    /\ \A i \in 1..Len(collected) : collected[i] = i + 1

(* Unless a signal slips in before pause(), the queue is removed too early *)
(* or cleaner.c interferes, all work ends: the ring stops with every       *)
(* program gone, and the members have all signalled the group.             *)
EverythingEnds ==
  <>(\/ mishap # {}
     \/ system = "circular" /\ \A p \in P : mode[p] = "gone"
     \/ system = "group" /\ \A p \in 2..4 : mode[p] = "gone" /\ grouppid[p] = 1)

(* The ring's traffic: one signal under way, always to a known program,    *)
(* and the rounds in their order (p1.c:72-95, handlers of p2, p3 and p4).  *)
RingInOrder == OneSignalInRing /\ NeverKillsZero /\ RoundsInOrder
=============================================================================
