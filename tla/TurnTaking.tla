----------------------------- MODULE TurnTaking -----------------------------
(***************************************************************************)
(* Programs that take turns with semaphores.  Which ones run is chosen in  *)
(* Init:                                                                   *)
(*   "ring"     12-1-22/q3: p1..p4 over four semaphore ids of ONE key      *)
(*   "words"    12-1-22/q4: p1, p2 write two shared words in turn          *)
(*   "letters"  practice/semaphore_sharedmem/class_example: the same with  *)
(*              System V semaphores that count down to 0                   *)
(*   "offset"   10-2-22/pass_fd (and practice/unix_domain_socket/pass_fd): *)
(*              server and client read one open file in turn               *)
(* Each program goes through a cycle of steps; the systems differ in the   *)
(* cycles and in what the steps do.  Named semaphores and segments outlive *)
(* the programs: "generation" counts how often the names were removed.     *)
(***************************************************************************)
EXTENDS Integers, Sequences, FiniteSets

CONSTANTS
  Systems,    \* the systems to check
  Limit,      \* limit in words and letters
  Chunk,      \* offset: characters read in one turn
  FileLength, \* offset: length of file.txt
  MaxRuns,    \* bound: offset: how often the two programs are started
  MaxGen      \* bound: how often names are removed

ASSUME TurnConstants ==
  /\ Systems \subseteq {"ring", "words", "letters", "offset"}
  /\ Limit \in Nat \ {0} /\ Chunk \in Nat \ {0} /\ FileLength \in Nat
  /\ MaxRuns \in Nat \ {0} /\ MaxGen \in Nat

VARIABLES
  sys,     \* the system that runs
  phase,   \* "off", "init1", "init2", "loop", "clean" or "gone"
  step,    \* position in the cycle
  loc,     \* letters: localcopy; offset: characters read in this turn
  mem,     \* per generation: v (shared words), s (semaphores), dead
  gen,     \* the generation the names stand for
  at,      \* the generation each program is attached to
  unread,  \* history: programs whose word the other has not read
  late,    \* history: p2 prepared what is shared while p1 was in its loop
  left,    \* signals that an earlier, interrupted run left behind
  runs     \* offset: starts so far

vars == <<sys, phase, step, loc, mem, gen, at, unread, late, left, runs>>

Procs == IF sys = "ring" THEN 1..4 ELSE 1..2
Other(p) == 3 - p

(* The loop of each program.                                               *)
RingP1 == <<"use", "post", "wait">>
RingP2 == <<"wait", "use", "post">>
RingP3 == <<"wait", "use", "post">>
RingP4 == <<"wait", "use", "post">>
WordsP1 == <<"write", "post", "test", "wait">>
WordsP2 == <<"test", "wait", "write", "post">>
LettersP1 == <<"test", "write", "post", "wait", "read", "reset">>
LettersP2 == <<"test", "wait", "read", "reset", "write", "post">>
OffsetServer == <<"use", "post", "wait">>
OffsetClient == <<"wait", "use", "post">>

Cycle(p) ==
  [ring |-> <<RingP1, RingP2, RingP3, RingP4>>, words |-> <<WordsP1, WordsP2>>,
   letters |-> <<LettersP1, LettersP2>>, offset |-> <<OffsetServer, OffsetClient>>][sys][p]

Init ==
  /\ sys \in Systems
  /\ phase = [p \in 1..4 |-> IF sys = "ring" THEN "loop" ELSE "off"]
  /\ step = [p \in 1..4 |-> 1]
  /\ loc = [p \in 1..4 |-> 0]
  /\ left \in IF sys = "letters" THEN {0} ELSE 0..1
  /\ mem = [g \in 0..MaxGen |->
       [v |-> <<0, 0>>, dead |-> FALSE,
        s |-> IF g = 0 /\ left = 1 THEN <<1, 0>> ELSE <<0, 0>>]]
  /\ gen = 0
  /\ at = [p \in 1..4 |-> 0]
  /\ unread = {} /\ late = FALSE /\ runs = 0

Here(p) == mem[at[p]]
At(p, name) == phase[p] = "loop" /\ Cycle(p)[step[p]] = name
Goto(p, ph) == phase' = [phase EXCEPT ![p] = ph]
Go(p) == step' = [step EXCEPT ![p] = (@ % Len(Cycle(p))) + 1]

-----------------------------------------------------------------------------
(* Start                                                                   *)

(* shmget, shmat, sem_open or semget of whatever the names stand for.      *)
Start(p) ==
  /\ sys \in {"words", "letters"} /\ p \in Procs
  /\ phase[p] = "off" /\ Goto(p, "init1")
  /\ at' = [at EXCEPT ![p] = gen]
  /\ UNCHANGED <<sys, step, loc, mem, gen, unread, late, left, runs>>

(* words: x = 1, then y = 1; letters: both semaphores are set to 1, then   *)
(* both strings to "".  Each program does it, whatever the other has done. *)
Prepare(p) ==
  /\ sys \in {"words", "letters"}
  /\ \/ phase[p] = "init1" /\ Goto(p, "init2")
     \/ phase[p] = "init2" /\ Goto(p, "loop")
  /\ mem' = [mem EXCEPT ![at[p]] =
       IF sys = "words" THEN [@ EXCEPT !.v[IF phase[p] = "init1" THEN 1 ELSE 2] = 1]
       ELSE IF phase[p] = "init1" THEN [@ EXCEPT !.s = <<1, 1>>]
       ELSE [@ EXCEPT !.v = <<0, 0>>]]
  /\ late' = (late \/ (p = 2 /\ phase[1] \notin {"off", "init1", "init2"}))
  /\ UNCHANGED <<sys, step, loc, gen, at, unread, left, runs>>

(* offset: the server opens the file and sends the descriptor to the       *)
(* client; neither program ever unlinks the semaphores.                    *)
ServerStart ==
  /\ sys = "offset" /\ runs < MaxRuns
  /\ \A p \in Procs : phase[p] \in {"off", "gone"}
  /\ Goto(1, "init1")
  /\ mem' = [mem EXCEPT ![0].v = <<0, 0>>]
  /\ runs' = runs + 1
  /\ UNCHANGED <<sys, step, loc, gen, at, unread, late, left>>

ClientStart ==
  /\ sys = "offset" /\ phase[1] = "init1"
  /\ phase' = [phase EXCEPT ![1] = "loop", ![2] = "loop"]
  /\ step' = [p \in 1..4 |-> 1] /\ loc' = [p \in 1..4 |-> 0]
  /\ UNCHANGED <<sys, mem, gen, at, unread, late, left, runs>>

-----------------------------------------------------------------------------
(* The steps of the cycles                                                 *)

(* ring: the user is asked for a character.                                *)
Use(p) ==
  /\ sys = "ring" /\ At(p, "use")
  /\ Go(p)
  /\ UNCHANGED <<sys, phase, loc, mem, gen, at, unread, late, left, runs>>

(* offset: one character; the offset v[1] belongs to the shared open file. *)
ReadChar(p) ==
  /\ sys = "offset" /\ At(p, "use")
  /\ Here(p).v[1] < FileLength
  /\ mem' = [mem EXCEPT ![at[p]].v[1] = @ + 1]
  /\ loc' = [loc EXCEPT ![p] = (@ + 1) % Chunk]
  /\ IF loc[p] + 1 = Chunk THEN Go(p) ELSE UNCHANGED step
  /\ UNCHANGED <<sys, phase, gen, at, unread, late, left, runs>>

(* offset: end of file: post and return.                                   *)
EndOfFile(p) ==
  /\ sys = "offset" /\ At(p, "use")
  /\ Here(p).v[1] >= FileLength
  /\ mem' = [mem EXCEPT ![at[p]].s[p] = @ + 1]
  /\ Goto(p, "gone")
  /\ UNCHANGED <<sys, step, loc, gen, at, unread, late, left, runs>>

(* words: *x = *y + 1 or *y = *x + 1; letters: the local copy plus one     *)
(* letter (a string is modelled by its length).                            *)
Write(p) ==
  /\ At(p, "write")
  /\ mem' = [mem EXCEPT ![at[p]].v[p] =
               (IF sys = "words" THEN Here(p).v[Other(p)] ELSE loc[p]) + 1]
  /\ unread' = (IF sys = "words" THEN unread \ {Other(p)} ELSE unread) \cup {p}
  /\ Go(p)
  /\ UNCHANGED <<sys, phase, loc, gen, at, late, left, runs>>

(* letters: strcpy(localcopy, ...).                                        *)
Read(p) ==
  /\ At(p, "read")
  /\ loc' = [loc EXCEPT ![p] = Here(p).v[Other(p)]]
  /\ unread' = unread \ {Other(p)}
  /\ Go(p)
  /\ UNCHANGED <<sys, phase, mem, gen, at, late, left, runs>>

Sem(p) == IF sys = "ring" THEN 1 ELSE p
WaitsFor(p) == IF sys = "ring" THEN 1 ELSE Other(p)

(* Mutant: the semaphore of the other program is posted as well.           *)
PostTwice(p) ==
  /\ sys # "letters" /\ At(p, "post")
  /\ mem' = [mem EXCEPT ![at[p]].s = <<@[1] + 1, @[2] + 1>>]
  /\ Go(p)
  /\ UNCHANGED <<sys, phase, loc, gen, at, unread, late, left, runs>>

Post(p) ==
  /\ sys # "letters" /\ At(p, "post")
  /\ mem' = [mem EXCEPT ![at[p]].s[Sem(p)] = @ + 1]
  /\ Go(p)
  /\ UNCHANGED <<sys, phase, loc, gen, at, unread, late, left, runs>>

(* Mutant: sem_trywait, whose result is not looked at.                     *)
WaitNot(p) ==
  /\ sys # "letters" /\ At(p, "wait")
  /\ mem' = [mem EXCEPT ![at[p]].s[WaitsFor(p)] = @ - 1]
  /\ Go(p)
  /\ UNCHANGED <<sys, phase, loc, gen, at, unread, late, left, runs>>

Wait(p) ==
  /\ sys # "letters" /\ At(p, "wait")
  /\ Here(p).s[WaitsFor(p)] > 0
  /\ mem' = [mem EXCEPT ![at[p]].s[WaitsFor(p)] = @ - 1]
  /\ Go(p)
  /\ UNCHANGED <<sys, phase, loc, gen, at, unread, late, left, runs>>

(* letters: semop -1 on the own semaphore.                                 *)
CountDown(p) ==
  /\ sys = "letters" /\ At(p, "post")
  /\ ~Here(p).dead /\ Here(p).s[p] > 0
  /\ mem' = [mem EXCEPT ![at[p]].s[p] = @ - 1]
  /\ Go(p)
  /\ UNCHANGED <<sys, phase, loc, gen, at, unread, late, left, runs>>

(* Mutant: semop 0 on the wrong semaphore.                                 *)
WaitZeroOwn(p) ==
  /\ sys = "letters" /\ At(p, "wait")
  /\ ~Here(p).dead /\ Here(p).s[1] = 0
  /\ Go(p)
  /\ UNCHANGED <<sys, phase, loc, mem, gen, at, unread, late, left, runs>>

(* letters: semop 0 waits until the other's semaphore is 0.                *)
WaitZero(p) ==
  /\ sys = "letters" /\ At(p, "wait")
  /\ ~Here(p).dead /\ Here(p).s[Other(p)] = 0
  /\ Go(p)
  /\ UNCHANGED <<sys, phase, loc, mem, gen, at, unread, late, left, runs>>

(* letters: SETVAL 1 on the other's semaphore.                             *)
Reset(p) ==
  /\ At(p, "reset") /\ ~Here(p).dead
  /\ mem' = [mem EXCEPT ![at[p]].s[Other(p)] = 1]
  /\ Go(p)
  /\ UNCHANGED <<sys, phase, loc, gen, at, unread, late, left, runs>>

(* letters: the semaphores were removed; semop or semctl fails.            *)
Removed(p) ==
  /\ sys = "letters" /\ Here(p).dead
  /\ At(p, "post") \/ At(p, "wait") \/ At(p, "reset")
  /\ Goto(p, "gone")
  /\ UNCHANGED <<sys, step, loc, mem, gen, at, unread, late, left, runs>>

(* Mutant: greater instead of greater or equal.                            *)
TestGreater(p) ==
  /\ At(p, "test")
  /\ IF Here(p).v[1] > (IF sys = "words" THEN Limit ELSE Limit + 1)
       THEN Goto(p, "clean") /\ UNCHANGED step
       ELSE Go(p) /\ UNCHANGED phase
  /\ UNCHANGED <<sys, loc, mem, gen, at, unread, late, left, runs>>

(* The limit is tested on x by both, without a semaphore.                  *)
Test(p) ==
  /\ At(p, "test")
  /\ IF Here(p).v[1] >= (IF sys = "words" THEN Limit ELSE Limit + 1)
       THEN Goto(p, "clean") /\ UNCHANGED step
       ELSE Go(p) /\ UNCHANGED phase
  /\ UNCHANGED <<sys, loc, mem, gen, at, unread, late, left, runs>>

(* The names are removed: whoever starts later gets new objects.           *)
Unlink == gen' = IF gen < MaxGen THEN gen + 1 ELSE gen

(* Mutant: the semaphores are left behind.                                 *)
CleanLeaves(p) ==
  /\ phase[p] = "clean"
  /\ Goto(p, "gone")
  /\ UNCHANGED <<sys, step, loc, mem, gen, at, unread, late, left, runs>>

(* words, letters: sleep, then remove; System V semaphores die at once.    *)
Clean(p) ==
  /\ phase[p] = "clean"
  /\ Goto(p, "gone")
  /\ mem' = IF sys = "letters" THEN [mem EXCEPT ![at[p]].dead = TRUE] ELSE mem
  /\ Unlink
  /\ UNCHANGED <<sys, step, loc, at, unread, late, left, runs>>

(* 12-1-22/q4/cleaner.c, run at any time.                                  *)
Cleaner ==
  /\ sys = "words" /\ gen < MaxGen
  /\ Unlink
  /\ UNCHANGED <<sys, phase, step, loc, mem, at, unread, late, left, runs>>

-----------------------------------------------------------------------------
Reader(p) == ReadChar(p) \/ EndOfFile(p)
Semaphore(p) == Post(p) \/ Wait(p)
SysVSemaphore(p) == CountDown(p) \/ WaitZero(p) \/ Reset(p) \/ Removed(p)

Step(p) ==
  \/ Prepare(p) \/ Use(p) \/ Reader(p) \/ Write(p) \/ Read(p)
  \/ Semaphore(p) \/ SysVSemaphore(p) \/ Test(p) \/ Clean(p)

Next ==
  \/ \E p \in Procs : Start(p) \/ Step(p)
  \/ ServerStart \/ ClientStart \/ Cleaner

Spec == Init /\ [][Next]_vars

(* Started programs run on; prompts are answered.                          *)
FairSpec == Spec /\ \A p \in 1..4 : WF_vars(Step(p))

-----------------------------------------------------------------------------
(* Properties                                                              *)

(* Positions are inside the cycles and semaphores are never negative.      *)
TypeOK ==
  /\ sys \in Systems
  /\ phase \in [1..4 -> {"off", "init1", "init2", "loop", "clean", "gone"}]
  /\ \A p \in Procs : step[p] \in 1..Len(Cycle(p))
  /\ gen \in 0..MaxGen /\ at \in [1..4 -> 0..MaxGen]
  /\ \A g \in 0..MaxGen : \A i \in 1..2 : mem[g].v[i] >= 0 /\ mem[g].s[i] >= 0

(* A program has the turn while it may touch what is shared.               *)
HasTurn(p) ==
  \/ phase[p] = "loop" /\ Cycle(p)[step[p]] \in {"use", "write", "post"}
  \/ p = 1 /\ sys = "letters" /\ At(1, "test")
  \/ p = 1 /\ sys \in {"words", "offset"} /\ phase[1] \in {"init1", "init2"}
Turn(p, g) == IF p \in Procs /\ at[p] = g /\ HasTurn(p) THEN 1 ELSE 0
TurnsAt(g) == Turn(1, g) + Turn(2, g) + Turn(3, g) + Turn(4, g)
SignalsAt(g) == mem[g].s[1] + mem[g].s[2]
(* The turns that were ever given out over the objects of generation g.    *)
Given(g) ==
  (IF g = 0 THEN left ELSE 0)
  + [ring |-> IF g = 0 THEN 1 ELSE 0, offset |-> IF g = 0 THEN runs ELSE 0,
     words |-> IF at[1] = g /\ phase[1] # "off" THEN 1 ELSE 0][sys]
Together == at[1] = at[2] /\ ~late

(* Turns and signals under way add up, for each generation of the shared   *)
(* objects: no turn is lost or invented, so there is one turn at a time.   *)
(* What an interrupted run left behind (left), and in "offset" each        *)
(* complete run, adds a turn, because nobody removes or resets the         *)
(* semaphores: from the second run of pass_fd on the server and the client *)
(* read at the same time.                                                  *)
OneTurn ==
  /\ sys # "letters" => \A g \in 0..MaxGen : TurnsAt(g) + SignalsAt(g) = Given(g)
  /\ sys = "letters" /\ Together /\ ~Here(1).dead /\ (\A p \in Procs : phase[p] = "loop")
       => TurnsAt(at[1]) + (1 - Here(1).s[1]) + (1 - Here(1).s[2]) = 1

(* A shared word is not overwritten before the other program has read it,  *)
(* if p2 was ready before p1 began and nothing was left from before.       *)
NoLostUpdate ==
  Together /\ left = 0 =>
    \A p \in Procs : At(p, "write") => p \notin unread

(* "length of x exceeded": both test x without a semaphore while the other *)
(* writes; all the same the limit is overshot by one turn of each at most. *)
Overshoot ==
  left = 0 => \A g \in 0..MaxGen :
    /\ sys = "words" => mem[g].v[1] <= Limit + 1 /\ mem[g].v[2] <= Limit + 2
    /\ sys = "letters" => mem[g].v[1] <= Limit + 2 /\ mem[g].v[2] <= Limit + 3

(* Two programs that work on the same objects both end, whichever of them  *)
(* sees the limit first and removes the semaphores.                        *)
BothEnd ==
  (\A p \in 1..2 : phase[p] = "loop") /\ Together /\ sys # "ring"
    ~> \A p \in 1..2 : phase[p] = "gone"

(* Turns are neither lost nor doubled, no word is overwritten unread and   *)
(* the limit holds up to one turn of each program.                         *)
TurnsKept == OneTurn /\ NoLostUpdate /\ Overshoot
=============================================================================
