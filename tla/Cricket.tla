------------------------------ MODULE Cricket ------------------------------
(***************************************************************************)
(* The cricket game of 15-3-22_RAW/cricket.  The ball is the descriptor of *)
(* ball.txt: bowl.c passes it to bat.c and signals umpire.c (SIGUSR1);     *)
(* bat.c misses, or signals the umpire (SIGUSR2) and broadcasts a number   *)
(* on a raw socket; umpire.c waits three seconds for the batsman's signal, *)
(* judges the number, which a fielder.c may have caught, and returns the   *)
(* ball to the bowler.                                                     *)
(*                                                                         *)
(* The umpire blocks SIGUSR2 after the first ball was announced and never  *)
(* unblocks it; both of its handlers are empty.                            *)
(***************************************************************************)
EXTENDS Integers, Sequences, FiniteSets

CONSTANTS
  Scores,      \* numbers rand()%41 may give
  NumFielders, \* NUM_FIELDERS
  MaxBalls     \* bound on balls

ASSUME CricketConstants ==
  /\ Scores \subseteq 0..40
  /\ NumFielders \in Nat \ {0}
  /\ MaxBalls \in Nat

Fielders == 1..NumFielders
fielders == [i \in Fielders |-> 10 * i]

(* Values besides numbers and runs.                                        *)
None == -1
Miss == -2
CaughtOut == -3

VARIABLES
  bowlpc,   \* bowler: sleep, signal or wait
  batpc,    \* batsman: recv, kill, score or return
  umppc,    \* umpire: ready, paused, block, wait, score, caught or ball
  toBat, toUmp, toBowl, \* descriptors on the three Unix sockets
  pending,  \* signals pending at the umpire
  blocked,  \* whether the umpire has blocked SIGUSR2
  rsfd1,    \* the umpire's queue of numbers
  rsfd2,    \* its queue of catches
  fq,       \* each fielder's queue of numbers
  total,    \* total_score
  outs,     \* current_batsman
  balls,    \* balls bowled
  shot,     \* what the batsman did with this ball: a number, None or Miss
  verdict,  \* what the umpire made of it: runs, None, Miss or CaughtOut
  deaf,     \* history: SIGUSR1 was forgotten outside pause and sigtimedwait
  tooSoon,  \* history: SIGUSR2 was forgotten because it was not blocked yet
  tooLate   \* history: sigtimedwait gave up before the batsman's signal

bats == <<batpc, toBat, shot>>
umpire == <<umppc, total, outs, verdict>>
raws == <<rsfd1, rsfd2, fq>>
history == <<deaf, tooSoon, tooLate>>
vars == <<bowlpc, bats, umpire, toUmp, toBowl, pending, blocked, raws, balls,
          history>>

Init ==
  /\ bowlpc = "sleep" /\ batpc = "recv" /\ umppc = "ready"
  /\ toBat = 0 /\ toUmp = 0 /\ toBowl = 0
  /\ pending = {} /\ blocked = FALSE
  /\ rsfd1 = <<>> /\ rsfd2 = <<>> /\ fq = [i \in Fielders |-> <<>>]
  /\ total = 0 /\ outs = 0 /\ balls = 0
  /\ shot = None /\ verdict = None
  /\ deaf = FALSE /\ tooSoon = FALSE /\ tooLate = FALSE

-----------------------------------------------------------------------------
(* bowl.c                                                                  *)

(* speed and spin are written, the ball goes to the batsman.               *)
Bowl ==
  /\ bowlpc = "sleep" /\ balls < MaxBalls
  /\ toBat' = toBat + 1
  /\ balls' = balls + 1
  /\ shot' = None
  /\ bowlpc' = "signal"
  /\ UNCHANGED <<batpc, umpire, toUmp, toBowl, pending, blocked, raws, history>>

InformUmpire ==
  /\ bowlpc = "signal"
  /\ pending' = pending \cup {"USR1"}
  /\ bowlpc' = "wait"
  /\ UNCHANGED <<bats, umpire, toUmp, toBowl, blocked, raws, balls, history>>

BowlerGetsBall ==
  /\ bowlpc = "wait" /\ toBowl > 0
  /\ toBowl' = toBowl - 1
  /\ bowlpc' = "sleep"
  /\ UNCHANGED <<bats, umpire, toUmp, pending, blocked, raws, balls, history>>

-----------------------------------------------------------------------------
(* bat.c                                                                   *)

(* recv_fd, and (speed + spin) % 4 decides.                                *)
FaceBall(s) ==
  /\ batpc = "recv" /\ toBat > 0
  /\ toBat' = toBat - 1
  /\ shot' = s
  /\ batpc' = IF s = Miss THEN "return" ELSE "kill"
  /\ UNCHANGED <<bowlpc, umpire, toUmp, toBowl, pending, blocked, raws, balls,
                 history>>

ReplyToUmpire ==
  /\ batpc = "kill"
  /\ pending' = pending \cup {"USR2"}
  /\ batpc' = "score"
  /\ UNCHANGED <<bowlpc, toBat, shot, umpire, toUmp, toBowl, blocked, raws,
                 balls, history>>

(* sendto on the raw socket: umpire and fielders all get a copy.           *)
SendScore ==
  /\ batpc = "score"
  /\ rsfd1' = Append(rsfd1, shot)
  /\ fq' = [i \in Fielders |-> Append(fq[i], shot)]
  /\ batpc' = "return"
  /\ UNCHANGED <<bowlpc, toBat, shot, umpire, toUmp, toBowl, pending, blocked,
                 rsfd2, balls, history>>

(* Mutant: the batsman keeps the ball he missed.                           *)
ReturnBallHit ==
  /\ batpc = "return"
  /\ toUmp' = IF shot = Miss THEN toUmp ELSE toUmp + 1
  /\ batpc' = "recv"
  /\ UNCHANGED <<bowlpc, toBat, shot, umpire, toBowl, pending, blocked, raws,
                 balls, history>>

ReturnBall ==
  /\ batpc = "return"
  /\ toUmp' = toUmp + 1
  /\ batpc' = "recv"
  /\ UNCHANGED <<bowlpc, toBat, shot, umpire, toBowl, pending, blocked, raws,
                 balls, history>>

-----------------------------------------------------------------------------
(* fielder.c                                                               *)

Boundary(score) == score % 6 = 0 \/ score % 4 = 0

Abs(n) == IF n < 0 THEN -n ELSE n
Distance(i, score) == Abs(score - fielders[i])

(* The loop changes to a later fielder only if it is nearer: the first of  *)
(* the nearest ones is left.                                               *)
findClosestFielder(score) ==
  CHOOSE i \in Fielders : \A k \in Fielders :
    Distance(i, score) < Distance(k, score) \/ (Distance(i, score) = Distance(k, score) /\ i <= k)

(* Mutant: every fielder at a smallest distance catches.                   *)
FieldNear(i) ==
  /\ fq[i] # <<>>
  /\ fq' = [fq EXCEPT ![i] = Tail(@)]
  /\ LET score == Head(fq[i]) IN
       rsfd2' = IF ~Boundary(score) /\ \A j \in Fielders :
                     Distance(i, score) <= Distance(j, score)
                  THEN Append(rsfd2, i) ELSE rsfd2
  /\ UNCHANGED <<bowlpc, bats, umpire, toUmp, toBowl, pending, blocked, rsfd1,
                 balls, history>>

Field(i) ==
  /\ fq[i] # <<>>
  /\ fq' = [fq EXCEPT ![i] = Tail(@)]
  /\ LET score == Head(fq[i]) IN
       rsfd2' = IF ~Boundary(score) /\ findClosestFielder(score) = i
                  THEN Append(rsfd2, i) ELSE rsfd2
  /\ UNCHANGED <<bowlpc, bats, umpire, toUmp, toBowl, pending, blocked, rsfd1,
                 balls, history>>

-----------------------------------------------------------------------------
(* umpire.c                                                                *)

UmpireGoes(from, to) ==
  /\ umppc = from /\ umppc' = to
  /\ UNCHANGED <<bowlpc, bats, toBowl, raws, balls>>

Pause ==
  /\ UmpireGoes("ready", "paused")
  /\ UNCHANGED <<total, outs, verdict, toUmp, pending, blocked, history>>

(* sig_bowler_handler or sig_batsman_handler runs.  pause() returns after  *)
(* either; sigtimedwait returns EINTR, which the umpire takes for neither  *)
(* a hit nor a timeout.                                                    *)
Deliver(sig) ==
  /\ sig \in pending /\ ~(sig = "USR2" /\ blocked)
  /\ pending' = pending \ {sig}
  /\ umppc' = CASE umppc = "paused" -> "block"
                [] umppc = "wait" -> "ball"
                [] OTHER -> umppc
  /\ deaf' = (deaf \/ (sig = "USR1" /\ umppc \notin {"paused", "wait"}))
  /\ tooSoon' = (tooSoon \/ sig = "USR2")
  /\ UNCHANGED <<bowlpc, bats, total, outs, verdict, toUmp, toBowl, blocked,
                 raws, balls, tooLate>>

(* sigprocmask(SIG_BLOCK)                                                  *)
Block ==
  /\ UmpireGoes("block", "wait")
  /\ blocked' = TRUE
  /\ verdict' = None
  /\ UNCHANGED <<total, outs, toUmp, pending, history>>

(* Mutant: the pending signal is not consumed.                             *)
BatsmanRepliedPeek ==
  /\ UmpireGoes("wait", "score")
  /\ "USR2" \in pending
  /\ UNCHANGED <<total, outs, verdict, toUmp, pending, blocked, history>>

(* sigtimedwait takes SIGUSR2.                                             *)
BatsmanReplied ==
  /\ UmpireGoes("wait", "score")
  /\ "USR2" \in pending
  /\ pending' = pending \ {"USR2"}
  /\ UNCHANGED <<total, outs, verdict, toUmp, blocked, history>>

(* Three seconds without SIGUSR2: "The batsman is out".                    *)
Timeout ==
  /\ UmpireGoes("wait", "ball")
  /\ pending = {}
  /\ outs' = outs + 1
  /\ verdict' = Miss
  /\ tooLate' = (tooLate \/ batpc = "kill" \/ toBat > 0)
  /\ UNCHANGED <<total, toUmp, pending, blocked, deaf, tooSoon>>

(* Mutant: fours are tested before sixes.                                  *)
RunsFourFirst(score) == IF score % 4 = 0 THEN 4 ELSE 6

(* Mutant: the batsman is given the number itself.                         *)
RunsRaw(score) == score

Runs(score) == IF score % 6 = 0 THEN 6 ELSE 4

JudgeScore ==
  /\ umppc = "score" /\ rsfd1 # <<>>
  /\ LET score == Head(rsfd1) IN
       IF Boundary(score)
         THEN /\ total' = total + Runs(score)
              /\ verdict' = Runs(score)
              /\ umppc' = "ball"
         ELSE umppc' = "caught" /\ UNCHANGED <<total, verdict>>
  /\ rsfd1' = Tail(rsfd1)
  /\ UNCHANGED <<bowlpc, bats, outs, toUmp, toBowl, pending, blocked, rsfd2, fq,
                 balls, history>>

JudgeCatch ==
  /\ umppc = "caught" /\ rsfd2 # <<>>
  /\ rsfd2' = Tail(rsfd2)
  /\ outs' = outs + 1
  /\ verdict' = CaughtOut
  /\ umppc' = "ball"
  /\ UNCHANGED <<bowlpc, bats, total, toUmp, toBowl, pending, blocked, rsfd1, fq,
                 balls, history>>

(* recv_fd from the batsman, send_fd to the bowler.                        *)
PassBall ==
  /\ umppc = "ball" /\ toUmp > 0
  /\ toUmp' = toUmp - 1 /\ toBowl' = toBowl + 1
  /\ umppc' = "ready"
  /\ UNCHANGED <<bowlpc, bats, total, outs, verdict, pending, blocked, raws,
                 balls, history>>

-----------------------------------------------------------------------------
Bowler == Bowl \/ InformUmpire \/ BowlerGetsBall
Batsman == (\E s \in Scores \cup {Miss} : FaceBall(s))
           \/ ReplyToUmpire \/ SendScore \/ ReturnBall
Umpire == Pause \/ Block \/ BatsmanReplied \/ Timeout \/ JudgeScore
          \/ JudgeCatch \/ PassBall

Next ==
  \/ Bowler \/ Batsman \/ Umpire
  \/ \E sig \in {"USR1", "USR2"} : Deliver(sig)
  \/ \E i \in Fielders : Field(i)

Spec == Init /\ [][Next]_vars

(* The programs run on and unblocked signals arrive.                       *)
Fairness ==
  /\ WF_vars(Bowler) /\ WF_vars(Batsman) /\ WF_vars(Umpire)
  /\ \A sig \in {"USR1", "USR2"} : WF_vars(Deliver(sig))
  /\ \A i \in Fielders : WF_vars(Field(i))

FairSpec == Spec /\ Fairness

-----------------------------------------------------------------------------
(* Properties                                                              *)

(* Control states and queues of the programs.                              *)
TypeOK ==
  /\ bowlpc \in {"sleep", "signal", "wait"}
  /\ batpc \in {"recv", "kill", "score", "return"}
  /\ umppc \in {"ready", "paused", "block", "wait", "score", "caught", "ball"}
  /\ {toBat, toUmp, toBowl} \subseteq Nat
  /\ pending \subseteq {"USR1", "USR2"}
  /\ {blocked, deaf, tooSoon, tooLate} \subseteq BOOLEAN
  /\ rsfd1 \in Seq(Scores) /\ rsfd2 \in Seq(Fielders)
  /\ fq \in [Fielders -> Seq(Scores)]
  /\ total \in Nat /\ outs \in Nat /\ balls \in 0..MaxBalls
  /\ shot \in Scores \cup {None, Miss}
  /\ verdict \in {None, Miss, CaughtOut, 4, 6}

Num(b) == IF b THEN 1 ELSE 0

(* There is one ball: whoever has it, it is neither lost nor duplicated,   *)
(* whatever signals go astray.                                             *)
OneBall ==
  Num(bowlpc = "sleep") + toBat + Num(batpc # "recv") + toUmp + toBowl = 1

Caught(q) == Cardinality({k \in DOMAIN q : ~Boundary(q[k])})

(* The places <<fielder, position>> of numbers that the fielder at whose   *)
(* socket they wait will catch.                                            *)
CatchesAhead ==
  {x \in UNION {{i} \X DOMAIN fq[i] : i \in Fielders} :
     ~Boundary(fq[x[1]][x[2]]) /\ findClosestFielder(fq[x[1]][x[2]]) = x[1]}

(* Exactly one fielder catches each ball that is no boundary: the catches  *)
(* told or still to be told are those the umpire has yet to read about, so *)
(* it never waits for a catch in vain nor credits one twice.               *)
OneCatchPerBall ==
  Caught(rsfd1) + Num(umppc = "caught")
    = Len(rsfd2) + Cardinality(CatchesAhead)

Judged(s) == IF s = Miss THEN Miss
             ELSE IF ~Boundary(s) THEN CaughtOut
             ELSE IF s % 6 = 0 THEN 6 ELSE 4

(* As long as the signals arrive in order and in time, the umpire's        *)
(* verdict on a ball is about that ball.                                   *)
VerdictIsOnThisBall ==
  ~(deaf \/ tooSoon \/ tooLate) /\ umppc = "ball" => verdict = Judged(shot)

(* The bowler gets the ball back, unless the umpire missed his signal.     *)
BallComesBack == bowlpc = "wait" ~> bowlpc = "sleep" \/ deaf

(* One ball in play and one catch for each ball that is no boundary,       *)
(* whatever signals are lost (bat.c, field programs, umpire.c:83-105).     *)
BallAndCatch == OneBall /\ OneCatchPerBall
============================================================================
