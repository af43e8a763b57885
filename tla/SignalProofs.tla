---------------------------- MODULE SignalProofs ----------------------------
(***************************************************************************)
(* Proofs about the two systems whose processes call each other by         *)
(* signals: the cricket game, for every number of fielders and balls, and  *)
(* the online stage show, for every number of judges, performers and       *)
(* rounds.                                                                 *)
(*                                                                         *)
(* Cricket: the verdict is on this ball because, as long as no signal went *)
(* astray, bowler, batsman and umpire are at the same ball (BowlerOK,      *)
(* BatsmanOK).  That there is one catch for each ball is a count of queue  *)
(* entries: each action changes both sides of OneCatchPerBall by the same  *)
(* amount.                                                                 *)
(*                                                                         *)
(* Show: a score is of this round because each judge either sends one      *)
(* score in a round, or is behind a connection at which the anchor's loop  *)
(* always breaks off (JudgesOK).  That the right performer is asked needs  *)
(* the whole way of the stage's signal (CalledOK, AskOK) and the order of  *)
(* the performers (ListenOK).                                              *)
(***************************************************************************)
EXTENDS Cricket, StageShow, SeqLemmas, FiniteSetTheorems, FunctionTheorems

(* Numbers are written by batsmen who hit the ball.                        *)
ShotOK ==
  /\ batpc \in {"kill", "score"} => shot \in Scores
  /\ batpc = "return" \/ toUmp > 0 => shot \in Scores \cup {Miss}
  /\ toBat > 0 => shot = None

Fine == ~deaf /\ ~tooSoon /\ ~tooLate
Judging == umppc \in {"block", "wait", "score", "caught", "ball"}

(* While all signals arrive in order: the umpire judges while the bowler   *)
(* waits, and SIGUSR1 is pending only before that.                         *)
BowlerOK ==
  /\ Judging => bowlpc = "wait" /\ toBowl = 0 /\ "USR1" \notin pending
  /\ "USR1" \in pending => bowlpc = "wait" /\ toBowl = 0
  /\ toBowl > 0 => bowlpc = "wait"

(* The batsman has hit this ball, signalled it, sent the number.           *)
Replied == shot \in Scores /\ (batpc \in {"score", "return"} \/ toUmp > 0)
NumberSent == shot \in Scores /\ (batpc = "return" \/ toUmp > 0)

(* SIGUSR2 and the number are those of this ball until the umpire has      *)
(* taken them.                                                             *)
BatsmanOK ==
  /\ "USR2" \in pending <=> umppc \in {"ready", "paused", "block", "wait"} /\ Replied
  /\ umppc \in {"score", "caught"} => Replied
  /\ umppc = "caught" => NumberSent /\ ~Boundary(shot)
  /\ rsfd1 = IF NumberSent /\ umppc \notin {"caught", "ball"} THEN <<shot>> ELSE <<>>
  /\ umppc = "ball" => verdict = Judged(shot) /\ (batpc = "return" \/ toUmp > 0)

IInv == TypeOK /\ OneBall /\ ShotOK /\ (Fine => BowlerOK /\ BatsmanOK)

(* The types, action by action.                                            *)
LEMMA TypesStep ==
  ASSUME TypeOK, ShotOK, [Next]_vars
  PROVE  TypeOK'
<1> USE CricketConstants DEF None, Miss, CaughtOut
<1>0. \A e \in Scores : Runs(e) \in {4, 6}
  BY DEF Runs
<1>1. CASE Bowler
  <2>1. CASE Bowl
    BY <2>1 DEF TypeOK, Bowl, umpire, raws, history
  <2>2. CASE InformUmpire
    BY <2>2 DEF TypeOK, InformUmpire, bats, umpire, raws, history
  <2>3. CASE BowlerGetsBall
    BY <2>3 DEF TypeOK, BowlerGetsBall, bats, umpire, raws, history
  <2> QED
    BY <1>1, <2>1, <2>2, <2>3 DEF Bowler
<1>2. ASSUME NEW s \in Scores \cup {Miss}, FaceBall(s)  PROVE TypeOK'
  BY <1>2 DEF TypeOK, FaceBall, umpire, raws, history
<1>3. CASE ReplyToUmpire \/ ReturnBall
  <2>1. CASE ReplyToUmpire
    BY <2>1 DEF TypeOK, ReplyToUmpire, umpire, raws, history
  <2>2. CASE ReturnBall
    BY <2>2 DEF TypeOK, ReturnBall, umpire, raws, history
  <2> QED
    BY <1>3, <2>1, <2>2
<1>4. CASE SendScore
  <2>1. shot \in Scores /\ rsfd1 \in Seq(Scores) /\ fq \in [Fielders -> Seq(Scores)]
    BY <1>4 DEF SendScore, ShotOK, TypeOK
  <2>2. rsfd1' \in Seq(Scores) /\ fq' \in [Fielders -> Seq(Scores)]
    BY <1>4, <2>1, AppendElements DEF SendScore
  <2> QED
    BY <1>4, <2>2 DEF SendScore, TypeOK, umpire, history
<1>5. CASE Pause \/ Block \/ BatsmanReplied \/ Timeout \/ PassBall
  <2>1. CASE Pause
    BY <2>1 DEF TypeOK, Pause, UmpireGoes, bats, raws, history
  <2>2. CASE Block
    BY <2>2 DEF TypeOK, Block, UmpireGoes, bats, raws, history
  <2>3. CASE BatsmanReplied
    BY <2>3 DEF TypeOK, BatsmanReplied, UmpireGoes, bats, raws, history
  <2>4. CASE Timeout
    BY <2>4 DEF TypeOK, Timeout, UmpireGoes, bats, raws
  <2>5. CASE PassBall
    BY <2>5 DEF TypeOK, PassBall, bats, raws, history
  <2> QED
    BY <1>5, <2>1, <2>2, <2>3, <2>4, <2>5
<1>6. CASE JudgeScore
  <2>1. Head(rsfd1) \in Scores /\ rsfd1' \in Seq(Scores)
    BY <1>6, TailElements DEF JudgeScore, TypeOK
  <2>2. Runs(Head(rsfd1)) \in {4, 6}
    BY <1>0, <2>1
  <2>3. total' \in Nat /\ verdict' \in {None, Miss, CaughtOut, 4, 6} /\ umppc' \in {"ball", "caught"}
    BY SMTT(30), <1>6, <2>2 DEF JudgeScore, TypeOK
  <2> QED
    BY <1>6, <2>1, <2>3 DEF JudgeScore, TypeOK, bats, history
<1>7. CASE JudgeCatch
  <2>1. rsfd2' \in Seq(Fielders)
    BY <1>7, TailElements DEF JudgeCatch, TypeOK
  <2> QED
    BY <1>7, <2>1 DEF JudgeCatch, TypeOK, bats, history
<1>8. ASSUME NEW sig \in {"USR1", "USR2"}, Deliver(sig)  PROVE TypeOK'
  BY <1>8 DEF Deliver, TypeOK, bats, raws
<1>9. ASSUME NEW i \in Fielders, Field(i)  PROVE TypeOK'
  <2>1. fq[i] \in Seq(Scores) /\ fq[i] # <<>> /\ rsfd2 \in Seq(Fielders)
    BY <1>9 DEF Field, TypeOK
  <2>2. Tail(fq[i]) \in Seq(Scores)
    BY <2>1, TailElements
  <2>3. fq' \in [Fielders -> Seq(Scores)]
    BY <1>9, <2>2 DEF Field, TypeOK
  <2>4. rsfd2' \in Seq(Fielders)
    BY <1>9, <2>1, AppendElements DEF Field
  <2> QED
    BY <1>9, <2>3, <2>4 DEF Field, TypeOK, bats, umpire, history
<1>10. CASE UNCHANGED vars
  BY <1>10 DEF TypeOK, vars, bats, umpire, raws, history
<1> QED
  BY <1>1, <1>2, <1>3, <1>4, <1>5, <1>6, <1>7, <1>8, <1>9, <1>10 DEF Next, Batsman, Umpire

(* Where the ball is: one step of the ball from one place to the next.     *)
LEMMA BallStep ==
  ASSUME TypeOK, OneBall, ShotOK, [Next]_vars
  PROVE  OneBall' /\ ShotOK'
<1> USE CricketConstants DEF None, Miss
<1>0. toBat \in Nat /\ toUmp \in Nat /\ toBowl \in Nat
  BY DEF TypeOK
<1>1. CASE Bowler
  BY SMTT(30), <1>0, <1>1 DEF TypeOK, OneBall, Num, ShotOK, Bowler, Bowl, InformUmpire, BowlerGetsBall,
     bats, umpire, raws, history
<1>2. ASSUME NEW s \in Scores \cup {Miss}, FaceBall(s)  PROVE OneBall' /\ ShotOK'
  BY SMTT(30), <1>0, <1>2 DEF TypeOK, OneBall, Num, ShotOK, FaceBall, umpire, raws, history
<1>3. CASE ReplyToUmpire \/ ReturnBall
  BY <1>0, <1>3 DEF TypeOK, OneBall, Num, ShotOK, ReplyToUmpire, ReturnBall, umpire, raws, history
<1>4. CASE SendScore
  BY <1>0, <1>4 DEF TypeOK, OneBall, Num, ShotOK, SendScore, umpire, history
<1>5. CASE Pause \/ Block \/ BatsmanReplied \/ Timeout \/ PassBall
  BY <1>0, <1>5 DEF OneBall, Num, ShotOK, Pause, Block, BatsmanReplied, Timeout, PassBall,
     UmpireGoes, bats, raws, history
<1>6. CASE \/ JudgeScore \/ JudgeCatch \/ UNCHANGED vars
           \/ \E sig \in {"USR1", "USR2"} : Deliver(sig)
           \/ \E i \in Fielders : Field(i)
  <2>1. UNCHANGED <<bowlpc, batpc, toBat, toUmp, toBowl, shot>>
    BY <1>6 DEF JudgeScore, JudgeCatch, Deliver, Field, vars, bats, umpire, raws, history
  <2> QED
    BY <2>1 DEF OneBall, Num, ShotOK
<1> QED
  BY <1>1, <1>2, <1>3, <1>4, <1>5, <1>6 DEF Next, Batsman, Umpire

(* A signal that went astray is remembered.                                *)
LEMMA FineBefore ==
  ASSUME [Next]_vars, Fine'
  PROVE  Fine
<1>1. CASE Bowler \/ Batsman \/ Pause \/ Block \/ BatsmanReplied \/ JudgeScore \/ JudgeCatch \/ PassBall
  <2>1. UNCHANGED <<deaf, tooSoon, tooLate>>
    BY <1>1 DEF Bowler, Bowl, InformUmpire, BowlerGetsBall, Batsman, FaceBall, ReplyToUmpire,
         SendScore, ReturnBall, Pause, Block, BatsmanReplied, JudgeScore, JudgeCatch, PassBall, history
  <2> QED
    BY <2>1 DEF Fine
<1>2. CASE Timeout
  BY <1>2 DEF Timeout, Fine
<1>3. CASE \E sig \in {"USR1", "USR2"} : Deliver(sig)
  <2>1. PICK sig : Deliver(sig)
    BY <1>3
  <2>2. /\ deaf' = (deaf \/ (sig = "USR1" /\ umppc \notin {"paused", "wait"}))
        /\ tooSoon' = (tooSoon \/ sig = "USR2") /\ tooLate' = tooLate
    BY <2>1 DEF Deliver
  <2>3. ~deaf' /\ ~tooSoon' /\ ~tooLate'
    BY DEF Fine
  <2>4. ~deaf
    BY <2>2, <2>3, Zenon
  <2>5. ~tooSoon
    BY <2>2, <2>3, Zenon
  <2> QED
    BY <2>2, <2>3, <2>4, <2>5, Zenon DEF Fine
<1>4. CASE (\E i \in Fielders : Field(i)) \/ UNCHANGED vars
  BY <1>4 DEF Field, vars, history, Fine
<1> QED
  BY <1>1, <1>2, <1>3, <1>4 DEF Next, Umpire

(* While no signal went astray, bowler, batsman and umpire are at the same *)
(* ball.                                                                   *)
LEMMA PlayStep ==
  ASSUME TypeOK, OneBall, ShotOK, OneBall', ShotOK', Fine, BowlerOK, BatsmanOK, [Next]_vars, Fine'
  PROVE  BowlerOK' /\ BatsmanOK'
<1> USE CricketConstants DEF None, Miss, OneBall, Num, ShotOK
<1>0. toBat \in Nat /\ toUmp \in Nat /\ toBowl \in Nat
      /\ bowlpc \in {"sleep", "signal", "wait"} /\ batpc \in {"recv", "kill", "score", "return"}
      /\ umppc \in {"ready", "paused", "block", "wait", "score", "caught", "ball"}
      /\ pending \subseteq {"USR1", "USR2"}
  BY DEF TypeOK
<1>1. CASE Bowl
  BY <1>0, <1>1 DEF Bowl, umpire, raws, history, BowlerOK, BatsmanOK, Judging, Replied, NumberSent
<1>2. CASE InformUmpire
  BY <1>0, <1>2 DEF InformUmpire, bats, umpire, raws, history, BowlerOK, BatsmanOK, Judging,
     Replied, NumberSent
<1>3. CASE BowlerGetsBall
  BY <1>0, <1>3 DEF BowlerGetsBall, bats, umpire, raws, history, BowlerOK, BatsmanOK, Judging,
     Replied, NumberSent
<1>4. ASSUME NEW s \in Scores \cup {Miss}, FaceBall(s)  PROVE BowlerOK' /\ BatsmanOK'
  BY <1>0, <1>4 DEF FaceBall, umpire, raws, history, BowlerOK, BatsmanOK, Judging, Replied,
     NumberSent
<1>5. CASE ReplyToUmpire
  BY <1>0, <1>5 DEF ReplyToUmpire, umpire, raws, history, BowlerOK, BatsmanOK, Judging,
     Replied, NumberSent
<1>6. CASE SendScore
  BY <1>0, <1>6, OneElement DEF SendScore, umpire, history, BowlerOK, BatsmanOK, Judging,
     Replied, NumberSent
<1>7. CASE ReturnBall
  BY <1>0, <1>7 DEF ReturnBall, umpire, raws, history, BowlerOK, BatsmanOK, Judging, Replied,
     NumberSent
<1>8. CASE Pause
  BY <1>0, <1>8 DEF Pause, UmpireGoes, bats, raws, history, BowlerOK, BatsmanOK, Judging,
     Replied, NumberSent
<1>9. CASE Block
  BY <1>0, <1>9 DEF Block, UmpireGoes, bats, raws, history, BowlerOK, BatsmanOK, Judging,
     Replied, NumberSent
<1>10. CASE BatsmanReplied
  BY <1>0, <1>10 DEF BatsmanReplied, UmpireGoes, bats, raws, history, BowlerOK, BatsmanOK,
     Judging, Replied, NumberSent
<1>11. CASE Timeout
  <2>1. tooLate' = (tooLate \/ batpc = "kill" \/ toBat > 0) /\ ~tooLate'
    BY <1>11 DEF Timeout, Fine
  <2>2. batpc # "kill" /\ ~(toBat > 0)
    BY <2>1, Zenon
  <2>3. /\ umppc = "wait" /\ umppc' = "ball" /\ pending = {} /\ pending' = {} /\ verdict' = Miss
        /\ UNCHANGED <<bowlpc, batpc, toBat, shot, toUmp, toBowl, rsfd1>>
    BY <1>11 DEF Timeout, UmpireGoes, bats, raws
  <2>4. ~Replied /\ bowlpc = "wait" /\ toBowl = 0
    BY <2>3 DEF BatsmanOK, BowlerOK, Judging
  <2>5. batpc = "return" \/ batpc = "score" \/ toUmp > 0
    BY <1>0, <2>2, <2>4
  <2>6. shot = Miss /\ (batpc = "return" \/ toUmp > 0) /\ shot \notin Scores
    BY <2>4, <2>5 DEF Replied
  <2> QED
    BY <1>0, <2>3, <2>4, <2>6 DEF BowlerOK, BatsmanOK, Judging, Replied, NumberSent, Judged
<1>12. CASE JudgeScore
  BY <1>0, <1>12, OneElement DEF JudgeScore, bats, history, BowlerOK, BatsmanOK, Judging,
     Replied, NumberSent, Judged, Runs
<1>13. CASE JudgeCatch
  BY <1>0, <1>13 DEF JudgeCatch, bats, history, BowlerOK, BatsmanOK, Judging, Replied,
     NumberSent, Judged
<1>14. CASE PassBall
  BY <1>0, <1>14 DEF PassBall, bats, raws, history, BowlerOK, BatsmanOK, Judging, Replied,
     NumberSent
<1>15. ASSUME NEW sig \in {"USR1", "USR2"}, Deliver(sig)  PROVE BowlerOK' /\ BatsmanOK'
  BY <1>0, <1>15 DEF Deliver, Fine, bats, raws, BowlerOK, BatsmanOK, Judging, Replied, NumberSent
<1>16. CASE (\E i \in Fielders : Field(i)) \/ UNCHANGED vars
  BY <1>0, <1>16 DEF Field, vars, bats, umpire, raws, history, BowlerOK, BatsmanOK, Judging,
     Replied, NumberSent
<1> QED
  BY <1>1, <1>2, <1>3, <1>4, <1>5, <1>6, <1>7, <1>8, <1>9, <1>10, <1>11, <1>12, <1>13, <1>14,
     <1>15, <1>16
  DEF Next, Bowler, Batsman, Umpire

-----------------------------------------------------------------------------
(* Catches                                                                 *)

(* findClosestFielder gives one of the fielders.                           *)
LEMMA ClosestIsFielder ==
  ASSUME NEW e \in Scores
  PROVE  findClosestFielder(e) \in Fielders
<1> USE CricketConstants
<1>1. \A i \in Fielders : Distance(i, e) \in Nat /\ i \in Nat
  BY DEF Distance, Abs, fielders, Fielders
<1> DEFINE D == {Distance(i, e) : i \in Fielders}
<1>2. D \in SUBSET Nat /\ D # {}
  BY <1>1 DEF Fielders
<1>3. PICK d \in D : \A y \in D : d <= y
  BY <1>2, LeastNat
<1> DEFINE I == {i \in Fielders : Distance(i, e) = d}
<1>4. I \in SUBSET Nat /\ I # {}
  BY <1>1, <1>3
<1>5. PICK i \in I : \A y \in I : i <= y
  BY <1>4, LeastNat
<1>6. i \in Fielders /\ Distance(i, e) = d
  BY <1>5
<1>7. \A k \in Fielders : Distance(i, e) < Distance(k, e)
                          \/ (Distance(i, e) = Distance(k, e) /\ i <= k)
  <2> SUFFICES ASSUME NEW k \in Fielders
               PROVE  d < Distance(k, e) \/ (d = Distance(k, e) /\ i <= k)
    BY <1>6
  <2>1. d <= Distance(k, e) /\ d \in Nat /\ Distance(k, e) \in Nat
    BY <1>1, <1>2, <1>3
  <2>2. d = Distance(k, e) => i <= k
    BY <1>5
  <2> QED
    BY <2>1, <2>2
<1> QED
  BY <1>6, <1>7 DEF findClosestFielder

(* Sets that a function pairs off have the same size.                      *)
LEMMA SameSize ==
  ASSUME NEW S, NEW T, IsFiniteSet(S), NEW f \in [S -> T],
         \A x, y \in S : f[x] = f[y] => x = y, \A z \in T : \E x \in S : f[x] = z
  PROVE  IsFiniteSet(T) /\ Cardinality(T) = Cardinality(S)
<1>1. f \in Bijection(S, T)
  BY DEF Bijection, Injection, Surjection, IsInjective
<1> QED
  BY <1>1, FS_Bijection DEF ExistsBijection

(* The numbers of a queue that are no boundary.                            *)
Catchable(q) == {k \in DOMAIN q : ~Boundary(q[k])}
One(e) == IF Boundary(e) THEN 0 ELSE 1

(* They are finitely many, and Caught counts them.                         *)
LEMMA CatchableFinite ==
  ASSUME NEW q \in Seq(Scores)
  PROVE  /\ IsFiniteSet(Catchable(q)) /\ Cardinality(Catchable(q)) \in Nat
         /\ Caught(q) = Cardinality(Catchable(q)) /\ Len(q) \in Nat
         /\ \A k : k \in Catchable(q) <=> k \in 1..Len(q) /\ ~Boundary(q[k])
<1>1. Len(q) \in Nat /\ DOMAIN q = 1..Len(q)
  BY LenProperties
<1>2. \A n \in Nat : IsFiniteSet(1..n)
  BY FS_Interval
<1>3. IsFiniteSet(Catchable(q))
  BY <1>1, <1>2, FS_Subset DEF Catchable
<1> QED
  BY <1>1, <1>3, FS_CardinalityType DEF Catchable, Caught

(* A number that arrives counts if it is no boundary.                      *)
LEMMA CaughtAppend ==
  ASSUME NEW q \in Seq(Scores), NEW e \in Scores
  PROVE  Caught(Append(q, e)) = Caught(q) + One(e)
<1> DEFINE r == Append(q, e)
           n == Len(q)
<1>1. r \in Seq(Scores) /\ Len(r) = n + 1 /\ r[n + 1] = e /\ \A i \in 1..n : r[i] = q[i]
  BY AppendElements
<1>2. n \in Nat /\ \A k : k \in Catchable(q) <=> k \in 1..n /\ ~Boundary(q[k])
  BY CatchableFinite
<1>3. \A k : k \in Catchable(r) <=> k \in 1..(n + 1) /\ ~Boundary(r[k])
  BY <1>1, CatchableFinite
<1>4. Caught(r) = Cardinality(Catchable(r)) /\ Caught(q) = Cardinality(Catchable(q))
      /\ IsFiniteSet(Catchable(q)) /\ Cardinality(Catchable(q)) \in Nat
  BY <1>1, CatchableFinite
<1> HIDE DEF r, n
<1>5. CASE Boundary(e)
  <2>1. ASSUME NEW k  PROVE k \in Catchable(r) <=> k \in Catchable(q)
    BY <1>1, <1>2, <1>3, <1>5
  <2>2. Catchable(r) = Catchable(q)
    BY <2>1
  <2> QED
    BY <1>4, <1>5, <2>2 DEF One, r
<1>6. CASE ~Boundary(e)
  <2>1. ASSUME NEW k  PROVE k \in Catchable(r) <=> k \in Catchable(q) \cup {n + 1}
    BY <1>1, <1>2, <1>3, <1>6
  <2>2. Catchable(r) = Catchable(q) \cup {n + 1} /\ n + 1 \notin Catchable(q)
    BY <1>2, <2>1
  <2> QED
    BY <1>4, <1>6, <2>2, FS_AddElement DEF One, r
<1> QED
  BY <1>5, <1>6

(* So does the number that is taken: the others move up by one place.      *)
LEMMA CaughtTail ==
  ASSUME NEW q \in Seq(Scores), q # <<>>
  PROVE  Caught(q) = Caught(Tail(q)) + One(Head(q))
<1> DEFINE r == Tail(q)
           n == Len(q)
           S == Catchable(q) \ {1}
           f == [k \in S |-> k - 1]
<1>1. /\ n > 0 /\ Head(q) = q[1] /\ r \in Seq(Scores) /\ Len(r) = n - 1
      /\ \A i \in 1..Len(r) : i + 1 \in 1..n /\ r[i] = q[i + 1]
  BY TailElements
<1>2. n \in Nat /\ \A k : k \in Catchable(q) <=> k \in 1..n /\ ~Boundary(q[k])
  BY CatchableFinite
<1>3. \A k : k \in Catchable(r) <=> k \in 1..(n - 1) /\ ~Boundary(r[k])
  BY <1>1, CatchableFinite
<1>4. Caught(r) = Cardinality(Catchable(r)) /\ Caught(q) = Cardinality(Catchable(q))
      /\ IsFiniteSet(Catchable(q)) /\ Cardinality(Catchable(q)) \in Nat
  BY <1>1, CatchableFinite
<1>5. IsFiniteSet(S) /\ Cardinality(S) = Cardinality(Catchable(q)) - One(Head(q))
  <2>1. 1 \in Catchable(q) <=> ~Boundary(Head(q))
    BY <1>1, <1>2
  <2> QED
    BY <1>4, <2>1, FS_RemoveElement DEF One
<1> HIDE DEF r, n
<1>6. \A k \in S : k \in 2..n /\ k - 1 \in Catchable(r)
  <2> SUFFICES ASSUME NEW k \in S PROVE k \in 2..n /\ k - 1 \in Catchable(r)
    OBVIOUS
  <2>1. k \in 2..n /\ ~Boundary(q[k])
    BY <1>2
  <2>2. k - 1 \in 1..(n - 1) /\ k - 1 \in 1..Len(r) /\ (k - 1) + 1 = k
    BY <1>1, <1>2, <2>1
  <2> QED
    BY <1>1, <1>3, <2>1, <2>2
<1>7. \A z \in Catchable(r) : z + 1 \in S /\ z \in Nat
  <2> SUFFICES ASSUME NEW z \in Catchable(r) PROVE z + 1 \in S /\ z \in Nat
    OBVIOUS
  <2>1. z \in 1..(n - 1) /\ ~Boundary(r[z]) /\ z \in 1..Len(r)
    BY <1>1, <1>2, <1>3
  <2>2. z + 1 \in 1..n /\ r[z] = q[z + 1] /\ z + 1 # 1 /\ z \in Nat
    BY <1>1, <1>2, <2>1
  <2> QED
    BY <1>2, <2>1, <2>2
<1>8. f \in [S -> Catchable(r)]
  BY <1>6
<1>9. \A x, y \in S : f[x] = f[y] => x = y
  BY <1>2, <1>6
<1>10. \A z \in Catchable(r) : \E x \in S : f[x] = z
  BY <1>7
<1>11. Cardinality(Catchable(r)) = Cardinality(S)
  <2> HIDE DEF f, S
  <2> QED
    BY <1>5, <1>8, <1>9, <1>10, SameSize
<1> QED
  BY <1>4, <1>5, <1>11 DEF One, r

(* The numbers that the fielders at whose sockets they wait will catch.    *)
Mine(i, e) == ~Boundary(e) /\ findClosestFielder(e) = i
Ahead(f) == {x \in UNION {{i} \X DOMAIN f[i] : i \in Fielders} : Mine(x[1], f[x[1]][x[2]])}

(* They are at a place in the queue of a fielder.                          *)
LEMMA AheadIs ==
  ASSUME NEW f \in [Fielders -> Seq(Scores)]
  PROVE  \A x : x \in Ahead(f) <=>
                  \E i \in Fielders : \E k \in 1..Len(f[i]) : x = <<i, k>> /\ Mine(i, f[i][k])
<1>1. \A i \in Fielders : f[i] \in Seq(Scores) /\ DOMAIN f[i] = 1..Len(f[i])
  <2>1. \A i \in Fielders : f[i] \in Seq(Scores)
    OBVIOUS
  <2> QED
    BY <2>1, LenProperties
<1>2. \A i, k : <<i, k>>[1] = i /\ <<i, k>>[2] = k
  OBVIOUS
<1>3. \A x : x \in UNION {{i} \X DOMAIN f[i] : i \in Fielders} <=>
               \E i \in Fielders : \E k \in 1..Len(f[i]) : x = <<i, k>>
  <2> SUFFICES ASSUME NEW x
               PROVE  x \in UNION {{i} \X DOMAIN f[i] : i \in Fielders} <=>
                        \E i \in Fielders : \E k \in 1..Len(f[i]) : x = <<i, k>>
    OBVIOUS
  <2>1. ASSUME NEW i \in Fielders
        PROVE  x \in {i} \X DOMAIN f[i] <=> \E k \in 1..Len(f[i]) : x = <<i, k>>
    BY <1>1
  <2>2. x \in UNION {{i} \X DOMAIN f[i] : i \in Fielders} <=>
          \E i \in Fielders : x \in {i} \X DOMAIN f[i]
    OBVIOUS
  <2> QED
    BY <2>1, <2>2
<1> QED
  BY <1>2, <1>3 DEF Ahead

(* A number that is broadcast will be caught once, if it is no boundary.   *)
LEMMA AheadSend ==
  ASSUME NEW f \in [Fielders -> Seq(Scores)], NEW g \in [Fielders -> Seq(Scores)], NEW e \in Scores,
         \A i \in Fielders : g[i] = Append(f[i], e), IsFiniteSet(Ahead(f))
  PROVE  IsFiniteSet(Ahead(g)) /\ Cardinality(Ahead(g)) = Cardinality(Ahead(f)) + One(e)
<1>1. \A i \in Fielders : /\ Len(f[i]) \in Nat /\ Len(g[i]) = Len(f[i]) + 1
                          /\ g[i][Len(f[i]) + 1] = e
                          /\ \A k \in 1..Len(f[i]) : g[i][k] = f[i][k]
  <2> SUFFICES ASSUME NEW i \in Fielders
               PROVE  /\ Len(f[i]) \in Nat /\ Len(g[i]) = Len(f[i]) + 1
                      /\ g[i][Len(f[i]) + 1] = e
                      /\ \A k \in 1..Len(f[i]) : g[i][k] = f[i][k]
    OBVIOUS
  <2>1. f[i] \in Seq(Scores) /\ g[i] = Append(f[i], e)
    OBVIOUS
  <2> QED
    BY <2>1, AppendElements, LenProperties
<1>2. PICK c \in Fielders : c = findClosestFielder(e)
  BY ClosestIsFielder
<1>3. PICK p : p = <<c, Len(f[c]) + 1>>
  OBVIOUS
<1>4. \A x : x \in Ahead(f) <=>
        \E i \in Fielders : \E k \in 1..Len(f[i]) : x = <<i, k>> /\ Mine(i, f[i][k])
  BY AheadIs
<1>5. \A x : x \in Ahead(g) <=>
        \E i \in Fielders : \E k \in 1..(Len(f[i]) + 1) : x = <<i, k>> /\ Mine(i, g[i][k])
  BY <1>1, AheadIs
<1>6. \A i \in Fielders : \A k : k \in 1..(Len(f[i]) + 1) <=> k \in 1..Len(f[i]) \/ k = Len(f[i]) + 1
  BY <1>1
<1>7. \A i \in Fielders : Mine(i, e) <=> ~Boundary(e) /\ i = c
  BY <1>2 DEF Mine
<1>8. ASSUME NEW x
      PROVE  x \in Ahead(g) <=> x \in Ahead(f) \/ (~Boundary(e) /\ x = p)
  <2>1. x \in Ahead(g) <=>
          \/ \E i \in Fielders : \E k \in 1..Len(f[i]) : x = <<i, k>> /\ Mine(i, f[i][k])
          \/ \E i \in Fielders : x = <<i, Len(f[i]) + 1>> /\ Mine(i, e)
    <3>1. ASSUME NEW i \in Fielders
          PROVE  (\E k \in 1..(Len(f[i]) + 1) : x = <<i, k>> /\ Mine(i, g[i][k])) <=>
                   \/ \E k \in 1..Len(f[i]) : x = <<i, k>> /\ Mine(i, f[i][k])
                   \/ x = <<i, Len(f[i]) + 1>> /\ Mine(i, e)
      BY <1>1, <1>6
    <3> QED
      BY <1>5, <3>1
  <2> QED
    BY <1>3, <1>4, <1>7, <2>1
<1>9. p \notin Ahead(f)
  <2> SUFFICES ASSUME NEW i \in Fielders, NEW k \in 1..Len(f[i]), p = <<i, k>> PROVE FALSE
    BY <1>4
  <2>1. i = c /\ k = Len(f[c]) + 1
    BY <1>3
  <2> QED
    BY <1>1, <2>1
<1>10. CASE Boundary(e)
  <2>1. Ahead(g) = Ahead(f)
    BY <1>8, <1>10
  <2> QED
    BY <1>10, <2>1, FS_CardinalityType DEF One
<1>11. CASE ~Boundary(e)
  <2>1. Ahead(g) = Ahead(f) \cup {p}
    BY <1>8, <1>11
  <2> QED
    BY <1>9, <1>11, <2>1, FS_AddElement DEF One
<1> QED
  BY <1>10, <1>11

(* A fielder looks at the first number of its queue.                       *)
LEMMA AheadField ==
  ASSUME NEW f \in [Fielders -> Seq(Scores)], NEW g \in [Fielders -> Seq(Scores)], NEW i \in Fielders,
         f[i] # <<>>, g[i] = Tail(f[i]), \A m \in Fielders : m # i => g[m] = f[m],
         IsFiniteSet(Ahead(f))
  PROVE  /\ IsFiniteSet(Ahead(g))
         /\ Cardinality(Ahead(f)) = Cardinality(Ahead(g)) + (IF Mine(i, Head(f[i])) THEN 1 ELSE 0)
<1>1. /\ Len(f[i]) \in Nat /\ Len(f[i]) > 0 /\ Head(f[i]) = f[i][1] /\ Len(g[i]) = Len(f[i]) - 1
      /\ \A k \in 1..Len(g[i]) : k + 1 \in 1..Len(f[i]) /\ g[i][k] = f[i][k + 1]
  <2>1. f[i] \in Seq(Scores) /\ g[i] = Tail(f[i])
    OBVIOUS
  <2> QED
    BY <2>1, TailElements, LenProperties
<1>2. \A m \in Fielders : m # i => g[m] = f[m]
  OBVIOUS
<1>3. \A x : x \in Ahead(f) <=>
        \E m \in Fielders : \E k \in 1..Len(f[m]) : x = <<m, k>> /\ Mine(m, f[m][k])
  BY AheadIs
<1>4. \A x : x \in Ahead(g) <=>
        \E m \in Fielders : \E k \in 1..Len(g[m]) : x = <<m, k>> /\ Mine(m, g[m][k])
  BY AheadIs
<1> DEFINE S == Ahead(f) \ {<<i, 1>>}
           h == [x \in S |-> IF x[1] = i THEN <<i, x[2] - 1>> ELSE x]
<1>5. IsFiniteSet(S) /\ Cardinality(S) = Cardinality(Ahead(f)) - (IF Mine(i, Head(f[i])) THEN 1 ELSE 0)
      /\ Cardinality(Ahead(f)) \in Nat
  <2>1. <<i, 1>> \in Ahead(f) <=> Mine(i, Head(f[i]))
    <3>1. 1 \in 1..Len(f[i])
      BY <1>1
    <3>2. \A m, k : <<i, 1>> = <<m, k>> => m = i /\ k = 1
      OBVIOUS
    <3>3. ASSUME <<i, 1>> \in Ahead(f)  PROVE Mine(i, f[i][1])
      <4>1. PICK m \in Fielders : \E k \in 1..Len(f[m]) : <<i, 1>> = <<m, k>> /\ Mine(m, f[m][k])
        BY <1>3, <3>3
      <4> QED
        BY <3>2, <4>1
    <3>4. ASSUME Mine(i, f[i][1])  PROVE <<i, 1>> \in Ahead(f)
      BY <1>3, <3>1, <3>4
    <3> QED
      BY <1>1, <3>3, <3>4
  <2>2. Cardinality(Ahead(f)) \in Nat
    BY FS_CardinalityType
  <2>3. CASE <<i, 1>> \in Ahead(f)
    <3>1. IsFiniteSet(S) /\ Cardinality(S) = Cardinality(Ahead(f)) - 1
      BY <2>3, FS_RemoveElement
    <3> QED
      BY <2>1, <2>2, <2>3, <3>1
  <2>4. CASE <<i, 1>> \notin Ahead(f)
    <3>1. S = Ahead(f)
      BY <2>4
    <3> HIDE DEF S
    <3>2. ~Mine(i, Head(f[i]))
      BY <2>1, <2>4
    <3> QED
      BY <2>2, <3>1, <3>2
  <2> QED
    BY <2>3, <2>4
<1>6. ASSUME NEW x \in S
      PROVE  \/ /\ x[1] # i /\ x \in Ahead(g) /\ h[x] = x
             \/ \E k \in 2..Len(f[i]) : x = <<i, k>> /\ h[x] = <<i, k - 1>> /\ h[x] \in Ahead(g)
  <2>1. PICK m \in Fielders : \E k \in 1..Len(f[m]) : x = <<m, k>> /\ Mine(m, f[m][k])
    BY <1>3
  <2>2. PICK k \in 1..Len(f[m]) : x = <<m, k>> /\ Mine(m, f[m][k])
    BY <2>1
  <2>3. x[1] = m /\ x[2] = k /\ x # <<i, 1>>
    BY <2>2
  <2>4. CASE m # i
    BY <1>2, <1>4, <2>2, <2>3, <2>4
  <2>5. CASE m = i
    <3>1. k \in 2..Len(f[i]) /\ k - 1 \in 1..Len(g[i]) /\ (k - 1) + 1 = k
      BY <1>1, <2>2, <2>3, <2>5
    <3>2. g[i][k - 1] = f[i][k]
      BY <1>1, <3>1
    <3>3. <<i, k - 1>> \in Ahead(g)
      BY <1>4, <2>2, <2>5, <3>1, <3>2
    <3> QED
      BY <2>2, <2>3, <2>5, <3>1, <3>3
  <2> QED
    BY <2>4, <2>5
<1>7. h \in [S -> Ahead(g)]
  BY <1>6
<1>8. \A x, y \in S : h[x] = h[y] => x = y
  <2> SUFFICES ASSUME NEW x \in S, NEW y \in S, h[x] = h[y] PROVE x = y
    OBVIOUS
  <2> HIDE DEF h, S
  <2>1. CASE x[1] # i /\ h[x] = x
    <3>1. CASE y[1] # i /\ h[y] = y
      BY <2>1, <3>1
    <3>2. ASSUME NEW k \in 2..Len(f[i]), y = <<i, k>>, h[y] = <<i, k - 1>>  PROVE FALSE
      <4>1. x = <<i, k - 1>> /\ <<i, k - 1>>[1] = i
        BY <2>1, <3>2
      <4> QED
        BY <2>1, <4>1
    <3> QED
      BY <1>6, <3>1, <3>2
  <2>2. ASSUME NEW k \in 2..Len(f[i]), x = <<i, k>>, h[x] = <<i, k - 1>>  PROVE x = y
    <3>1. CASE y[1] # i /\ h[y] = y
      <4>1. y = <<i, k - 1>> /\ <<i, k - 1>>[1] = i
        BY <2>2, <3>1
      <4> QED
        BY <3>1, <4>1
    <3>2. ASSUME NEW l \in 2..Len(f[i]), y = <<i, l>>, h[y] = <<i, l - 1>>  PROVE x = y
      <4>1. <<i, k - 1>> = <<i, l - 1>>
        BY <2>2, <3>2
      <4>2. k - 1 = l - 1
        BY <4>1
      <4> QED
        BY <1>1, <2>2, <3>2, <4>2
    <3> QED
      BY <1>6, <3>1, <3>2
  <2> QED
    BY <1>6, <2>1, <2>2
<1>9. \A z \in Ahead(g) : \E x \in S : h[x] = z
  <2> SUFFICES ASSUME NEW z \in Ahead(g) PROVE \E x \in S : h[x] = z
    OBVIOUS
  <2>1. PICK m \in Fielders : \E k \in 1..Len(g[m]) : z = <<m, k>> /\ Mine(m, g[m][k])
    BY <1>4
  <2>2. PICK k \in 1..Len(g[m]) : z = <<m, k>> /\ Mine(m, g[m][k])
    BY <2>1
  <2>3. CASE m # i
    <3>1. z \in Ahead(f) /\ z # <<i, 1>> /\ z[1] # i
      BY <1>2, <1>3, <2>2, <2>3
    <3> QED
      BY <3>1
  <2>4. CASE m = i
    <3>1. k + 1 \in 1..Len(f[i]) /\ g[i][k] = f[i][k + 1] /\ k \in Nat /\ k > 0
      BY <1>1, <2>2, <2>4
    <3>2. <<i, k + 1>> \in Ahead(f)
      BY <1>3, <2>2, <2>4, <3>1
    <3>3. <<i, k + 1>> \in S /\ <<i, k + 1>>[1] = i /\ <<i, k + 1>>[2] = k + 1
      BY <3>1, <3>2
    <3>4. h[<<i, k + 1>>] = <<i, k>>
      BY <3>1, <3>3
    <3> QED
      BY <2>2, <2>4, <3>3, <3>4
  <2> QED
    BY <2>3, <2>4
<1>10. IsFiniteSet(Ahead(g)) /\ Cardinality(Ahead(g)) = Cardinality(S)
  <2> HIDE DEF h, S
  <2> QED
    BY <1>5, <1>7, <1>8, <1>9, SameSize
<1> QED
  BY <1>5, <1>10

-----------------------------------------------------------------------------
(* One catch for each ball                                                 *)

CatchOK == IsFiniteSet(CatchesAhead) /\ OneCatchPerBall

(* The catches ahead are those in the fielders' queues.                    *)
LEMMA CatchesAreAhead == CatchesAhead = Ahead(fq)
  BY DEF CatchesAhead, Ahead, Mine

(* The numbers of OneCatchPerBall are natural numbers.                     *)
LEMMA CatchTypes ==
  ASSUME TypeOK, CatchOK
  PROVE  /\ Caught(rsfd1) \in Nat /\ Len(rsfd2) \in Nat /\ Cardinality(Ahead(fq)) \in Nat
         /\ IsFiniteSet(Ahead(fq))
         /\ Caught(rsfd1) + Num(umppc = "caught") = Len(rsfd2) + Cardinality(Ahead(fq))
<1>1. rsfd1 \in Seq(Scores) /\ rsfd2 \in Seq(Fielders)
  BY DEF TypeOK
<1>2. IsFiniteSet(Ahead(fq)) /\ Caught(rsfd1) + Num(umppc = "caught") = Len(rsfd2) + Cardinality(Ahead(fq))
  BY CatchesAreAhead DEF CatchOK, OneCatchPerBall
<1> QED
  BY <1>1, <1>2, CatchableFinite, LenProperties, FS_CardinalityType

(* Initially the queues are empty.                                         *)
LEMMA CatchInit ==
  ASSUME Init
  PROVE  CatchOK
<1> USE DEF Init
<1>1. CatchesAhead = {}
  BY DEF CatchesAhead
<1>2. Caught(rsfd1) = Cardinality({})
  BY DEF Caught
<1> QED
  BY <1>1, <1>2, FS_EmptySet DEF CatchOK, OneCatchPerBall, Num

(* Each step changes both sides of OneCatchPerBall alike.                  *)
LEMMA CatchStep ==
  ASSUME TypeOK, ShotOK, CatchOK, [Next]_vars
  PROVE  CatchOK'
<1>1. /\ Caught(rsfd1) \in Nat /\ Len(rsfd2) \in Nat /\ Cardinality(Ahead(fq)) \in Nat
      /\ IsFiniteSet(Ahead(fq))
      /\ Caught(rsfd1) + Num(umppc = "caught") = Len(rsfd2) + Cardinality(Ahead(fq))
  BY CatchTypes
<1>2. rsfd1 \in Seq(Scores) /\ rsfd2 \in Seq(Fielders) /\ fq \in [Fielders -> Seq(Scores)]
  BY DEF TypeOK
<1>3. CatchesAhead' = Ahead(fq')
  BY DEF CatchesAhead, Ahead, Mine
<1>4. SUFFICES /\ IsFiniteSet(Ahead(fq'))
               /\ Caught(rsfd1') + Num(umppc' = "caught") = Len(rsfd2') + Cardinality(Ahead(fq'))
  BY <1>3 DEF CatchOK, OneCatchPerBall, Caught, Num
<1>5. CASE UNCHANGED raws /\ (umppc = "caught" <=> umppc' = "caught")
  BY <1>1, <1>5 DEF raws, Num
<1>6. CASE SendScore
  <2>1. shot \in Scores /\ rsfd1' = Append(rsfd1, shot) /\ rsfd2' = rsfd2 /\ umppc' = umppc
    BY <1>6 DEF SendScore, ShotOK, umpire
  <2>2. fq' = [i \in Fielders |-> Append(fq[i], shot)]
    BY <1>6 DEF SendScore
  <2>3. \A i \in Fielders : fq'[i] = Append(fq[i], shot) /\ fq'[i] \in Seq(Scores)
    <3> SUFFICES ASSUME NEW i \in Fielders
                 PROVE  fq'[i] = Append(fq[i], shot) /\ Append(fq[i], shot) \in Seq(Scores)
      OBVIOUS
    <3>1. fq[i] \in Seq(Scores)
      BY <1>2
    <3> QED
      BY <2>1, <2>2, <3>1, AppendElements
  <2>4. fq' \in [Fielders -> Seq(Scores)]
    BY <2>2, <2>3
  <2>5. IsFiniteSet(Ahead(fq')) /\ Cardinality(Ahead(fq')) = Cardinality(Ahead(fq)) + One(shot)
    BY <1>1, <1>2, <2>1, <2>3, <2>4, AheadSend
  <2>6. Caught(rsfd1') = Caught(rsfd1) + One(shot)
    BY <1>2, <2>1, CaughtAppend
  <2> QED
    BY <1>1, <2>1, <2>5, <2>6 DEF Num, One
<1>7. ASSUME NEW i \in Fielders, Field(i)
      PROVE  /\ IsFiniteSet(Ahead(fq'))
             /\ Caught(rsfd1') + Num(umppc' = "caught") = Len(rsfd2') + Cardinality(Ahead(fq'))
  <2>1. fq[i] # <<>> /\ fq' = [fq EXCEPT ![i] = Tail(fq[i])] /\ rsfd1' = rsfd1 /\ umppc' = umppc
    BY <1>7 DEF Field, umpire
  <2>2. rsfd2' = IF Mine(i, Head(fq[i])) THEN Append(rsfd2, i) ELSE rsfd2
    BY <1>7 DEF Field, Mine
  <2>3. fq[i] \in Seq(Scores)
    BY <1>2
  <2>4. Tail(fq[i]) \in Seq(Scores)
    BY <2>1, <2>3, TailElements
  <2>5. fq' \in [Fielders -> Seq(Scores)]
    BY <1>2, <2>1, <2>4
  <2>6. /\ IsFiniteSet(Ahead(fq'))
        /\ Cardinality(Ahead(fq)) = Cardinality(Ahead(fq')) + (IF Mine(i, Head(fq[i])) THEN 1 ELSE 0)
    <3>1. PICK g \in [Fielders -> Seq(Scores)] : g = fq'
      BY <2>5
    <3>2. PICK f \in [Fielders -> Seq(Scores)] : f = fq
      BY <1>2
    <3>3. /\ f[i] # <<>> /\ g[i] = Tail(f[i]) /\ IsFiniteSet(Ahead(f))
          /\ \A m \in Fielders : m # i => g[m] = f[m]
      BY <1>1, <2>1, <3>1, <3>2
    <3>4. /\ IsFiniteSet(Ahead(g))
          /\ Cardinality(Ahead(f)) = Cardinality(Ahead(g)) + (IF Mine(i, Head(f[i])) THEN 1 ELSE 0)
      BY <3>3, AheadField
    <3> QED
      BY <3>1, <3>2, <3>4
  <2>7. Cardinality(Ahead(fq')) \in Nat
    BY <2>6, FS_CardinalityType
  <2>8. Len(rsfd2') = Len(rsfd2) + (IF Mine(i, Head(fq[i])) THEN 1 ELSE 0)
    BY <1>1, <1>2, <2>2, AppendLength
  <2> QED
    BY <1>1, <2>1, <2>6, <2>7, <2>8 DEF Num
<1>8. CASE JudgeScore
  <2>1. /\ rsfd1 # <<>> /\ rsfd1' = Tail(rsfd1) /\ rsfd2' = rsfd2 /\ fq' = fq /\ umppc = "score"
        /\ umppc' = IF Boundary(Head(rsfd1)) THEN "ball" ELSE "caught"
    BY <1>8 DEF JudgeScore
  <2>2. Caught(rsfd1) = Caught(rsfd1') + One(Head(rsfd1))
    BY <1>2, <2>1, CaughtTail
  <2>3. Tail(rsfd1) \in Seq(Scores)
    BY <1>2, <2>1, TailElements
  <2>4. Caught(rsfd1') \in Nat
    BY <2>1, <2>3, CatchableFinite
  <2> QED
    BY <1>1, <2>1, <2>2, <2>4 DEF Num, One
<1>9. CASE JudgeCatch
  <2>1. rsfd2 # <<>> /\ rsfd2' = Tail(rsfd2) /\ rsfd1' = rsfd1 /\ fq' = fq /\ umppc = "caught" /\ umppc' = "ball"
    BY <1>9 DEF JudgeCatch
  <2>2. Len(rsfd2') = Len(rsfd2) - 1
    BY <1>2, <2>1, TailElements
  <2> QED
    BY <1>1, <2>1, <2>2 DEF Num
<1>10. CASE Bowler
  <2>1. UNCHANGED raws /\ umppc' = umppc
    BY <1>10 DEF Bowler, Bowl, InformUmpire, BowlerGetsBall, umpire
  <2> QED
    BY <1>5, <2>1
<1>11. CASE ReplyToUmpire \/ ReturnBall
  <2>1. UNCHANGED raws /\ umppc' = umppc
    BY <1>11 DEF ReplyToUmpire, ReturnBall, umpire
  <2> QED
    BY <1>5, <2>1
<1>12. ASSUME NEW s \in Scores \cup {Miss}, FaceBall(s)
       PROVE  UNCHANGED raws /\ umppc' = umppc
  BY <1>12 DEF FaceBall, umpire
<1>13. CASE Pause \/ Block \/ BatsmanReplied \/ Timeout
  <2>1. UNCHANGED raws /\ umppc # "caught" /\ umppc' # "caught"
    BY <1>13 DEF Pause, Block, BatsmanReplied, Timeout, UmpireGoes
  <2> QED
    BY <1>5, <2>1
<1>14. CASE PassBall
  <2>1. UNCHANGED raws /\ umppc # "caught" /\ umppc' # "caught"
    BY <1>14 DEF PassBall
  <2> QED
    BY <1>5, <2>1
<1>15. ASSUME NEW sig \in {"USR1", "USR2"}, Deliver(sig)
       PROVE  UNCHANGED raws /\ (umppc = "caught" <=> umppc' = "caught")
  BY <1>15 DEF Deliver
<1>16. CASE UNCHANGED vars
  <2>1. UNCHANGED raws /\ umppc' = umppc
    BY <1>16 DEF vars, raws, umpire
  <2> QED
    BY <1>5, <2>1
<1> QED
  BY <1>5, <1>6, <1>7, <1>8, <1>9, <1>10, <1>11, <1>12, <1>13, <1>14, <1>15, <1>16
  DEF Next, Batsman, Umpire

-----------------------------------------------------------------------------
(* The theorems                                                            *)

(* The invariant holds initially.                                          *)
LEMMA InitHolds ==
  ASSUME Init
  PROVE  IInv /\ CatchOK
<1>1. TypeOK
  <2>1. rsfd1 \in Seq(Scores) /\ rsfd2 \in Seq(Fielders) /\ fq \in [Fielders -> Seq(Scores)]
    BY DEF Init
  <2>2. balls \in 0..MaxBalls /\ shot \in {None} /\ verdict \in {None}
    BY CricketConstants DEF Init
  <2>3. {blocked, deaf, tooSoon, tooLate} \subseteq BOOLEAN
    BY Zenon DEF Init
  <2>4. {toBat, toUmp, toBowl} \subseteq Nat /\ total \in Nat /\ outs \in Nat /\ pending \subseteq {"USR1", "USR2"}
    BY DEF Init
  <2>5. bowlpc = "sleep" /\ batpc = "recv" /\ umppc = "ready"
    BY DEF Init
  <2> QED
    BY <2>1, <2>2, <2>3, <2>4, <2>5 DEF TypeOK
<1>2. OneBall /\ ShotOK
  BY DEF Init, OneBall, ShotOK, Num, None
<1>3. BowlerOK /\ BatsmanOK
  BY DEF Init, BowlerOK, BatsmanOK, Judging, Replied, NumberSent
<1> QED
  BY <1>1, <1>2, <1>3, CatchInit DEF IInv

(* The invariant holds in every state.                                     *)
THEOREM AlwaysIInv == Spec => [](IInv /\ CatchOK)
<1>1. Init => IInv /\ CatchOK
  BY InitHolds
<1>2. IInv /\ CatchOK /\ [Next]_vars => (IInv /\ CatchOK)'
  <2> SUFFICES ASSUME IInv, CatchOK, [Next]_vars PROVE IInv' /\ CatchOK'
    OBVIOUS
  <2>1. TypeOK /\ OneBall /\ ShotOK /\ (Fine => BowlerOK /\ BatsmanOK)
    BY DEF IInv
  <2>2. TypeOK' /\ OneBall' /\ ShotOK' /\ CatchOK'
    BY <2>1, TypesStep, BallStep, CatchStep
  <2>3. Fine' => BowlerOK' /\ BatsmanOK'
    BY <2>1, <2>2, FineBefore, PlayStep
  <2> QED
    BY <2>2, <2>3 DEF IInv
<1> QED
  BY <1>1, <1>2, PTL DEF Spec

(* Control states, descriptors and queues keep their types: only numbers   *)
(* that rand()%41 may give arrive at the umpire and the fielders.          *)
THEOREM TypesKept == Spec => []TypeOK
<1>1. IInv => TypeOK
  BY DEF IInv
<1> QED
  BY <1>1, AlwaysIInv, PTL

(* With any number of fielders and of balls: while no signal went astray,  *)
(* what the umpire decides about a ball is what the batsman did with it    *)
(* (umpire.c:83-127).                                                      *)
THEOREM VerdictsAreOnTheirBall == Spec => []VerdictIsOnThisBall
<1>1. IInv => VerdictIsOnThisBall
  BY DEF IInv, Fine, BatsmanOK, VerdictIsOnThisBall
<1> QED
  BY <1>1, AlwaysIInv, PTL

(* With any number of fielders, whatever signals are lost: there is one    *)
(* ball, and the catches told or still to be told are those of the balls   *)
(* that are no boundary and that the umpire has yet to decide              *)
(* (bat.c, fielder.c, umpire.c:83-105).                                    *)
THEOREM OneBallOneCatch == Spec => []BallAndCatch
<1>1. IInv /\ CatchOK => BallAndCatch
  BY DEF IInv, CatchOK, BallAndCatch
<1> QED
  BY <1>1, AlwaysIInv, PTL

-----------------------------------------------------------------------------
(* The online stage show.                                                  *)

(* The types, group by group.                                              *)
Words == {"line", "exit"}
StageTyped ==
  /\ spc \in {"off", "accept", "watch", "signal", "answers", "gone"}
  /\ apid \in {AnchorPid, 0, NoPid} /\ onStage \in Performers \cup {NoPid} /\ door \in Seq(Performers)
PerformersTyped ==
  /\ ppc \in [Performers -> {"off", "perform", "bind", "accept", "answer", "gone"}]
  /\ toStage \in [Performers -> Seq(Words)] /\ typed \in [Performers -> Nat]
  /\ path \in Performers \cup {NoPid} /\ quits \in Nat /\ overlap \in BOOLEAN
SocketsTyped == callers \in [Performers -> Seq(Judges)] /\ chan \in [Judges -> Seq(Words)]
AnchorTyped ==
  /\ apc \in {"off", "run", "gone"}
  /\ jnsfd \in Seq(Judges) /\ jpid \in Seq(0..NumJudges \cup {NoPid}) /\ hall \in Seq(Judges)
  /\ Len(jpid) = Len(jnsfd) /\ Len(jnsfd) <= NumJudges
HandlerTyped ==
  /\ hpc \in {"none", "kill", "recv", "announce"} /\ hi \in Judges /\ asker \in Judges
  /\ scores \in [Judges -> [by : 0..NumJudges, round : Nat]]
  /\ round \in 0..MaxRounds /\ again \in BOOLEAN /\ (hpc # "none" => round > 0)
JudgesTyped ==
  /\ jpc \in [Judges -> {"off", "started", "idle", "ask", "score", "gone"}]
  /\ sigs \in [Judges -> [usr1 : 0..MaxRounds, usr2 : 0..MaxRounds]] /\ due \in [Judges -> 0..MaxRounds]
  /\ talk \in [Judges -> Performers \cup {NoPid}] /\ inbox \in [Judges -> Seq(Nat)]
ShowTypes == StageTyped /\ PerformersTyped /\ SocketsTyped /\ AnchorTyped /\ HandlerTyped /\ JudgesTyped

(* A performer answers a judge that has called.                            *)
Answering == \A p \in Performers : ppc[p] = "answer" => callers[p] # <<>>

(* Every score was asked for in some round.                                *)
RoundOf(j) ==
  /\ sigs[j].usr1 <= round /\ sigs[j].usr2 <= round
  /\ jpc[j] \in {"ask", "score"} => due[j] \in 1..round
  /\ \A k \in 1..Len(inbox[j]) : inbox[j][k] \in 1..round
RoundsOK == \A j \in Judges : RoundOf(j)

(* What a judge has to do or has sent; a judge that is gone does nothing.  *)
Asks(q) == jpc[q] \in {"ask", "score"} \/ (jpc[q] # "gone" /\ sigs[q].usr1 # 0)
Told(q) == jpc[q] # "gone" /\ sigs[q].usr2 # 0
Wrote(q) == inbox[q] # <<>>
Busy(q) == Asks(q) \/ Told(q) \/ Wrote(q)

(* Every judge has one connection, and is signalled by its own index.      *)
Fresh(q) == jpc[q] \in {"off", "started"}
HallOK ==
  /\ \A i, k \in 1..Len(hall) : hall[i] = hall[k] => i = k
  /\ \A k \in 1..Len(hall) : ~Fresh(hall[k])
  /\ \A i \in 1..Len(jnsfd), k \in 1..Len(hall) : jnsfd[i] # hall[k]
ConnectionsOK ==
  /\ \A i, k \in 1..Len(jnsfd) : jnsfd[i] = jnsfd[k] => i = k
  /\ \A i \in 1..Len(jnsfd) : ~Fresh(jnsfd[i])
  /\ \A i \in 1..Len(jpid) : jpid[i] \in {i, 0, NoPid}
  /\ \A q \in Judges : Busy(q) => q <= Len(jpid)
  /\ \A q \in Judges : Fresh(q) => inbox[q] = <<>>

(* The loop over the scores always breaks off at entry k, so that nothing  *)
(* from a later entry is read any more.                                    *)
Dead(k) == jpc[jnsfd[k]] = "gone" /\ inbox[jnsfd[k]] = <<>>
BehindDead(q) == \E k \in 1..Len(jnsfd) : Dead(k) /\ \A i \in 1..k : jnsfd[i] # q

(* All other judges send one score in each round.                          *)
OneScore(q) ==
  /\ Asks(q) => ~Told(q) /\ ~Wrote(q) /\ q = asker
  /\ Told(q) => ~Wrote(q)
  /\ jpc[q] \in {"ask", "score"} => sigs[q].usr1 = 0 /\ due[q] = round
  /\ jpc[q] = "gone" => ~Wrote(q)
  /\ jpc[q] # "gone" => sigs[q].usr1 \in {0, round} /\ sigs[q].usr2 \in {0, round}
  /\ Wrote(q) => inbox[q] = <<round>>
InRound(q) ==
  Busy(q) =>
    /\ hpc \in {"kill", "recv"}
    /\ hpc = "kill" => q < hi
    /\ hpc = "recv" => \A i \in 1..Len(jnsfd) : i < hi => jnsfd[i] # q
JudgesOK == \A q \in Judges : BehindDead(q) \/ (OneScore(q) /\ InRound(q))

(* What the handler has read.                                              *)
Scored(i) == i <= Len(jnsfd) /\ scores[i].by = jnsfd[i] /\ scores[i].round = round
HandlerOK ==
  /\ apc # "gone" /\ hpc = "kill" => \A i \in Judges : i < hi /\ i > Len(jpid) => i = asker
  /\ apc # "gone" /\ hpc = "recv" => \A i \in Judges : i > Len(jpid) => i = asker
  /\ hpc = "kill" => \A i \in Judges : scores[i] = Unset
  /\ hpc = "recv" =>
       /\ \A k \in 1..Len(jnsfd) : Dead(k) => hi <= k
       /\ \A i \in Judges : IF i < hi THEN Scored(i) /\ jnsfd[i] <= Len(jpid) ELSE scores[i] = Unset
  /\ hpc = "announce" =>
       /\ \A i \in Judges : scores[i] = Unset \/ Scored(i)
       /\ (\E i \in Judges : scores[i] = Unset) =>
            Len(jnsfd) < NumJudges \/ \E k \in 1..Len(jnsfd) : Dead(k)

ScoreInv == ShowTypes /\ Answering /\ RoundsOK /\ HallOK /\ ConnectionsOK /\ JudgesOK /\ HandlerOK

(* So far nobody is missing and one performer came after the other.        *)
InOrder ==
  /\ apc # "gone" /\ (\A j \in Judges : jpc[j] # "gone") /\ (\A i \in 1..Len(jpid) : jpid[i] = i)
  /\ ~overlap /\ quits = 0

(* The stage's signal has not yet led to a judge's question.               *)
ToSignal == hpc = "kill" /\ hi <= asker
Called == again \/ ToSignal \/ \E j \in Judges : sigs[j].usr1 # 0
Up == {"perform", "bind", "accept"}
InDoor(q) == \E i \in 1..Len(door) : door[i] = q

ApidOK ==
  /\ spc = "off" => apid = NoPid
  /\ again \/ round > 0 => apid = AnchorPid
  /\ spc = "gone" => apid = 0
SignalOK == again => ~ToSignal /\ \A j \in Judges : sigs[j].usr1 = 0
CalledOK ==
  Called =>
    /\ spc = "answers" /\ ppc[onStage] \in {"bind", "accept"}
    /\ \A j \in Judges : jpc[j] # "ask"

AskOK(j) ==
  jpc[j] = "ask" =>
    /\ spc = "answers" /\ talk[j] = onStage /\ ppc[onStage] \in {"accept", "answer"}
    /\ callers[onStage] = <<j>> /\ \A k \in 1..Len(chan[j]) : chan[j][k] # "exit"
CallersOK(p) == callers[p] # <<>> => ppc[p] = "gone" \/ (p = onStage /\ spc = "answers" /\ ~Called)
QuestionsOK == (\A j \in Judges : AskOK(j)) /\ \A p \in Performers : CallersOK(p)

StageOK ==
  /\ spc \in {"watch", "signal", "answers"} => onStage \in Performers
  /\ spc = "off" => door = <<>> /\ onStage = NoPid
  /\ spc = "accept" => onStage = NoPid \/ ppc[onStage] = "gone"
  /\ spc = "watch" => ppc[onStage] \in Up
  /\ spc = "signal" => ppc[onStage] \in {"bind", "accept"}
  /\ onStage \in Performers => ppc[onStage] # "off"

DoorOK ==
  /\ \A i \in 1..Len(door) : ppc[door[i]] \in Up /\ door[i] # onStage
  /\ \A i, k \in 1..Len(door) : door[i] = door[k] => i = k
  /\ \A q \in Performers : ppc[q] \in Up => InDoor(q) \/ (q = onStage /\ spc # "accept")
  /\ \A q \in Performers : ppc[q] \in {"off", "perform"} => \A k \in 1..Len(toStage[q]) : toStage[q][k] # "exit"

(* Who listens came before all others that are still to be asked.          *)
Earlier(x, y) == x = onStage \/ \E i, k \in 1..Len(door) : i < k /\ door[i] = x /\ door[k] = y
ListenOK ==
  \A x, y \in Performers : ppc[x] = "accept" /\ ppc[y] \in Up /\ x # y => Earlier(x, y)

PlayOK == ApidOK /\ SignalOK /\ CalledOK /\ QuestionsOK /\ StageOK /\ (spc # "gone" => DoorOK /\ ListenOK)
ShowInv == ScoreInv /\ (InOrder => PlayOK)

USE StageConstants DEF Judges, AnchorPid, Unset, Garbage, stageVars, perfVars, udsVars,
   anchorVars, handlerVars, judgeVars

(* Setting one entry of a function, or one of the two signals of a judge.  *)
LEMMA OneEntry ==
  ASSUME NEW P, NEW T, NEW f \in [P -> T], NEW k, NEW v \in T
  PROVE  [f EXCEPT ![k] = v] \in [P -> T]
  OBVIOUS

(* One more entry of one of several queues, or one less.                   *)
LEMMA OneQueue ==
  ASSUME NEW P, NEW T, NEW f \in [P -> Seq(T)], NEW k
  PROVE  /\ \A v \in T : [f EXCEPT ![k] = Append(@, v)] \in [P -> Seq(T)]
         /\ f[k] # <<>> => [f EXCEPT ![k] = Tail(@)] \in [P -> Seq(T)]
         /\ [f EXCEPT ![k] = <<>>] \in [P -> Seq(T)]
<1>1. CASE k \in P
  <2>1. f[k] \in Seq(T) /\ <<>> \in Seq(T)
    BY <1>1
  <2>2. (\A v \in T : Append(f[k], v) \in Seq(T)) /\ (f[k] # <<>> => Tail(f[k]) \in Seq(T))
    BY <2>1
  <2> QED BY <2>1, <2>2
<1>2. CASE k \notin P
  BY <1>2
<1> QED BY <1>1, <1>2

Signals == [usr1 : 0..MaxRounds, usr2 : 0..MaxRounds]
(* Setting one of the two signals of a judge.                              *)
LEMMA OneSignal ==
  ASSUME NEW f \in [Judges -> Signals], NEW q \in Judges, NEW n \in 0..MaxRounds
  PROVE  /\ [f EXCEPT ![q].usr1 = n] \in [Judges -> Signals]
         /\ [f EXCEPT ![q].usr1 = n][q].usr1 = n /\ [f EXCEPT ![q].usr1 = n][q].usr2 = f[q].usr2
         /\ [f EXCEPT ![q].usr2 = n] \in [Judges -> Signals]
         /\ [f EXCEPT ![q].usr2 = n][q].usr2 = n /\ [f EXCEPT ![q].usr2 = n][q].usr1 = f[q].usr1
         /\ \A z \in Judges \ {q} : [f EXCEPT ![q].usr1 = n][z] = f[z] /\ [f EXCEPT ![q].usr2 = n][z] = f[z]
BY DEF Signals

Asking(f, q, n) == [f EXCEPT ![q].usr1 = n]
Scoring(f, q, n) == [f EXCEPT ![q].usr2 = n]
(* The same with the two updates as operators, so that they can stay       *)
(* unexpanded.                                                             *)
LEMMA SignalEntry ==
  ASSUME NEW f \in [Judges -> Signals], NEW q \in Judges, NEW n \in 0..MaxRounds
  PROVE  /\ Asking(f, q, n) \in [Judges -> Signals] /\ Scoring(f, q, n) \in [Judges -> Signals]
         /\ Asking(f, q, n)[q].usr1 = n /\ Asking(f, q, n)[q].usr2 = f[q].usr2
         /\ Scoring(f, q, n)[q].usr2 = n /\ Scoring(f, q, n)[q].usr1 = f[q].usr1
         /\ \A z \in Judges \ {q} : Asking(f, q, n)[z] = f[z] /\ Scoring(f, q, n)[z] = f[z]
BY OneSignal DEF Asking, Scoring

(* What a step leaves alone keeps its types.                               *)
LEMMA SameTypes ==
  ASSUME ShowTypes
  PROVE  /\ UNCHANGED stageVars => StageTyped'
         /\ UNCHANGED perfVars => PerformersTyped'
         /\ UNCHANGED udsVars => SocketsTyped'
         /\ UNCHANGED anchorVars => AnchorTyped'
         /\ UNCHANGED handlerVars => HandlerTyped'
         /\ UNCHANGED judgeVars => JudgesTyped'
<1>1. UNCHANGED stageVars => StageTyped'
  BY DEF ShowTypes, StageTyped
<1>2. UNCHANGED perfVars => PerformersTyped'
  BY DEF ShowTypes, PerformersTyped
<1>3. UNCHANGED udsVars => SocketsTyped'
  BY DEF ShowTypes, SocketsTyped
<1>4. UNCHANGED anchorVars => AnchorTyped'
  BY DEF ShowTypes, AnchorTyped
<1>5. UNCHANGED handlerVars => HandlerTyped'
  BY DEF ShowTypes, HandlerTyped
<1>6. UNCHANGED judgeVars => JudgesTyped'
  BY DEF ShowTypes, JudgesTyped
<1> QED BY <1>1, <1>2, <1>3, <1>4, <1>5, <1>6

(* Every step leaves the state of the programs well typed.                 *)
LEMMA StageTypes ==
  ASSUME ShowTypes, Stage
  PROVE  ShowTypes'
<1>1. CASE StageStart
  <2>1. PerformersTyped' /\ SocketsTyped' /\ AnchorTyped' /\ HandlerTyped' /\ JudgesTyped'
    BY <1>1, SameTypes DEF StageStart
  <2>2. StageTyped'
    BY <1>1 DEF StageStart, ShowTypes, StageTyped
  <2> QED BY <2>1, <2>2 DEF ShowTypes
<1>2. CASE StageAccept
  <2>1. PerformersTyped' /\ SocketsTyped' /\ AnchorTyped' /\ HandlerTyped' /\ JudgesTyped'
    BY <1>2, SameTypes DEF StageAccept
  <2>2. StageTyped'
    BY <1>2 DEF StageAccept, ShowTypes, StageTyped
  <2> QED BY <2>1, <2>2 DEF ShowTypes
<1>3. CASE StageRecv
  <2>1. SocketsTyped' /\ AnchorTyped' /\ HandlerTyped' /\ JudgesTyped'
    BY <1>3, SameTypes DEF StageRecv
  <2>2. StageTyped'
    BY <1>3 DEF StageRecv, ShowTypes, StageTyped
  <2>3. PerformersTyped'
    <3>1. UNCHANGED <<ppc, typed, path, quits, overlap>>
      BY <1>3 DEF StageRecv
    <3>2. toStage' = toStage \/ \E p : toStage[p] # <<>> /\ p \in Performers /\ toStage' = [toStage EXCEPT ![p] = Tail(toStage[p])]
      <4>1. CASE onStage \in Performers
        BY <1>3, <4>1 DEF StageRecv
      <4>2. CASE onStage \notin Performers
        BY <1>3, <4>2 DEF StageRecv, ShowTypes, PerformersTyped
      <4> QED BY <4>1, <4>2
    <3>3. toStage' \in [Performers -> Seq(Words)]
      BY <3>2, OneEntry DEF ShowTypes, PerformersTyped
    <3> QED BY <3>1, <3>3 DEF ShowTypes, PerformersTyped
  <2> QED BY <2>1, <2>2, <2>3 DEF ShowTypes
<1>4. CASE StageSignal
  <2>1. PerformersTyped' /\ SocketsTyped' /\ AnchorTyped' /\ JudgesTyped'
    BY <1>4, SameTypes DEF StageSignal
  <2>2. StageTyped'
    BY <1>4 DEF StageSignal, ShowTypes, StageTyped
  <2>3. HandlerTyped'
    BY <1>4 DEF StageSignal, ShowTypes, HandlerTyped
  <2> QED BY <2>1, <2>2, <2>3 DEF ShowTypes
<1> QED BY <1>1, <1>2, <1>3, <1>4 DEF Stage

(* The performers' steps keep the types.                                   *)
LEMMA PerformersTypes ==
  ASSUME ShowTypes, Answering, NEW p \in Performers,
         PerformerStart(p) \/ PerformerTypes(p) \/ PerformerQuits(p) \/ Performer(p) \/ PerformerPipe(p)
  PROVE  ShowTypes'
<1>1. CASE PerformerStart(p)
  <2>1. SocketsTyped' /\ AnchorTyped' /\ HandlerTyped' /\ JudgesTyped'
    BY <1>1, SameTypes DEF PerformerStart
  <2>2. StageTyped'
    BY <1>1 DEF PerformerStart, ShowTypes, StageTyped
  <2>3. PerformersTyped'
    BY <1>1 DEF PerformerStart, ShowTypes, PerformersTyped
  <2> QED BY <2>1, <2>2, <2>3 DEF ShowTypes
<1>2. CASE PerformerTypes(p)
  <2>1. StageTyped' /\ SocketsTyped' /\ AnchorTyped' /\ HandlerTyped' /\ JudgesTyped'
    BY <1>2, SameTypes DEF PerformerTypes
  <2>2. PerformersTyped'
    <3>1. "line" \in Words /\ "exit" \in Words /\ toStage \in [Performers -> Seq(Words)] /\ typed \in [Performers -> Nat]
      BY DEF ShowTypes, PerformersTyped, Words
    <3>2. toStage' \in [Performers -> Seq(Words)]
      <4>1. \E w \in Words : toStage' = [toStage EXCEPT ![p] = Append(@, w)]
        BY <1>2, <3>1 DEF PerformerTypes
      <4> QED BY <3>1, <4>1, OneQueue
    <3>3. typed' \in [Performers -> Nat] /\ UNCHANGED <<path, quits, overlap>>
      <4>1. UNCHANGED <<path, quits, overlap>> /\ (typed' = typed \/ typed' = [typed EXCEPT ![p] = @ + 1])
        BY <1>2 DEF PerformerTypes
      <4> QED BY <3>1, <4>1
    <3>4. ppc' \in [Performers -> {"off", "perform", "bind", "accept", "answer", "gone"}]
      BY <1>2 DEF PerformerTypes, ShowTypes, PerformersTyped
    <3> QED BY <3>2, <3>3, <3>4 DEF ShowTypes, PerformersTyped
  <2> QED BY <2>1, <2>2 DEF ShowTypes
<1>3. CASE PerformerQuits(p)
  <2>1. StageTyped' /\ SocketsTyped' /\ AnchorTyped' /\ HandlerTyped' /\ JudgesTyped'
    BY <1>3, SameTypes DEF PerformerQuits
  <2>2. PerformersTyped'
    BY <1>3 DEF PerformerQuits, ShowTypes, PerformersTyped
  <2> QED BY <2>1, <2>2 DEF ShowTypes
<1>4. CASE PerformerBind(p)
  <2>1. StageTyped' /\ SocketsTyped' /\ AnchorTyped' /\ HandlerTyped' /\ JudgesTyped'
    BY <1>4, SameTypes DEF PerformerBind
  <2>2. PerformersTyped'
    BY <1>4 DEF PerformerBind, ShowTypes, PerformersTyped
  <2> QED BY <2>1, <2>2 DEF ShowTypes
<1>5. CASE PerformerAccept(p)
  <2>1. StageTyped' /\ SocketsTyped' /\ AnchorTyped' /\ HandlerTyped' /\ JudgesTyped'
    BY <1>5, SameTypes DEF PerformerAccept
  <2>2. PerformersTyped'
    BY <1>5 DEF PerformerAccept, ShowTypes, PerformersTyped
  <2> QED BY <2>1, <2>2 DEF ShowTypes
<1>6. CASE PerformerAnswers(p)
  <2>1. StageTyped' /\ AnchorTyped' /\ HandlerTyped' /\ JudgesTyped'
    BY <1>6, SameTypes DEF PerformerAnswers
  <2>2. PerformersTyped'
    <3>0. PICK j : j = Head(callers[p])
      OBVIOUS
    <3>1. /\ chan[j] # <<>> /\ toStage' = [toStage EXCEPT ![p] = Append(@, Head(chan[j]))]
          /\ UNCHANGED <<typed, path, quits, overlap>>
      BY <1>6, <3>0 DEF PerformerAnswers
    <3>2. ppc' \in [Performers -> {"off", "perform", "bind", "accept", "answer", "gone"}]
      BY <1>6 DEF PerformerAnswers, ShowTypes, PerformersTyped
    <3>3. callers[p] # <<>> => j \in Judges
      BY <3>0 DEF ShowTypes, SocketsTyped
    <3>4. j \in Judges => Head(chan[j]) \in Words
      BY <3>1 DEF ShowTypes, SocketsTyped
    <3>5. callers[p] # <<>>
      BY <1>6 DEF PerformerAnswers, Answering
    <3>6. toStage' \in [Performers -> Seq(Words)]
      BY <3>1, <3>3, <3>4, <3>5, OneQueue DEF ShowTypes, PerformersTyped
    <3> QED BY <3>1, <3>2, <3>6 DEF ShowTypes, PerformersTyped
  <2>3. SocketsTyped'
    <3>0. PICK j : j = Head(callers[p])
      OBVIOUS
    <3>1. chan[j] # <<>> /\ chan' = [chan EXCEPT ![j] = Tail(@)] /\ callers' = callers
      BY <1>6, <3>0 DEF PerformerAnswers
    <3>2. chan' \in [Judges -> Seq(Words)]
      BY <3>1, OneQueue DEF ShowTypes, SocketsTyped
    <3> QED BY <3>1, <3>2 DEF ShowTypes, SocketsTyped
  <2> QED BY <2>1, <2>2, <2>3 DEF ShowTypes
<1>7. CASE PerformerPipe(p)
  <2>1. StageTyped' /\ SocketsTyped' /\ AnchorTyped' /\ HandlerTyped' /\ JudgesTyped'
    BY <1>7, SameTypes DEF PerformerPipe
  <2>2. PerformersTyped'
    BY <1>7 DEF PerformerPipe, ShowTypes, PerformersTyped
  <2> QED BY <2>1, <2>2 DEF ShowTypes
<1> QED BY <1>1, <1>2, <1>3, <1>4, <1>5, <1>6, <1>7 DEF Performer

(* The steps of the anchor and of its handler keep the types.              *)
LEMMA AnchorTypes ==
  ASSUME ShowTypes, AnchorStart \/ AnchorAccept \/ sig_s_handler
  PROVE  ShowTypes'
<1>1. CASE AnchorStart
  <2>1. StageTyped' /\ PerformersTyped' /\ SocketsTyped' /\ HandlerTyped' /\ JudgesTyped'
    BY <1>1, SameTypes DEF AnchorStart
  <2>2. AnchorTyped'
    BY <1>1 DEF AnchorStart, ShowTypes, AnchorTyped
  <2> QED BY <2>1, <2>2 DEF ShowTypes
<1>2. CASE AnchorAccept
  <2>1. StageTyped' /\ PerformersTyped' /\ SocketsTyped' /\ HandlerTyped' /\ JudgesTyped'
    BY <1>2, SameTypes DEF AnchorAccept
  <2>2. AnchorTyped'
    BY <1>2 DEF AnchorAccept, pidof, ShowTypes, AnchorTyped
  <2> QED BY <2>1, <2>2 DEF ShowTypes
<1>3. CASE HandlerStart
  <2>1. StageTyped' /\ PerformersTyped' /\ SocketsTyped' /\ AnchorTyped' /\ JudgesTyped'
    BY <1>3, SameTypes DEF HandlerStart
  <2>2. HandlerTyped'
    <3>1. Unset \in [by : 0..NumJudges, round : Nat]
      OBVIOUS
    <3>2. scores' \in [Judges -> [by : 0..NumJudges, round : Nat]]
      BY <1>3, <3>1 DEF HandlerStart
    <3>3. hpc' = "kill" /\ hi' = 1 /\ 1 \in Judges /\ asker' \in Judges /\ round' = round + 1 /\ round < MaxRounds /\ again' = FALSE
      BY <1>3 DEF HandlerStart
    <3>4. round' \in 0..MaxRounds /\ round' > 0
      BY <3>3 DEF ShowTypes, HandlerTyped
    <3> QED BY <3>2, <3>3, <3>4 DEF HandlerTyped
  <2> QED BY <2>1, <2>2 DEF ShowTypes
<1>4. CASE HandlerKill
  <2>1. StageTyped' /\ PerformersTyped' /\ SocketsTyped'
    BY <1>4, SameTypes DEF HandlerKill
  <2>2. AnchorTyped'
    BY <1>4 DEF HandlerKill, NextIndex, ShowTypes, AnchorTyped
  <2>3. HandlerTyped'
    BY <1>4 DEF HandlerKill, NextIndex, ShowTypes, HandlerTyped
  <2>4. JudgesTyped'
    <3>1. /\ sigs' = sigs \/ \E q \in Judges : sigs' = [sigs EXCEPT ![q].usr1 = round] \/ sigs' = [sigs EXCEPT ![q].usr2 = round]
          /\ UNCHANGED <<jpc, due, talk, inbox>>
      BY <1>4 DEF HandlerKill
    <3>2. round \in 0..MaxRounds /\ sigs \in [Judges -> Signals]
      BY DEF ShowTypes, HandlerTyped, JudgesTyped, Signals
    <3>3. \A q \in Judges : /\ [sigs EXCEPT ![q].usr1 = round] \in [Judges -> Signals]
                           /\ [sigs EXCEPT ![q].usr2 = round] \in [Judges -> Signals]
      <4>1. TAKE q \in Judges
      <4> QED BY <3>2, OneSignal
    <3>4. sigs' \in [Judges -> Signals]
      BY <3>1, <3>2, <3>3
    <3> QED BY <3>1, <3>4 DEF ShowTypes, JudgesTyped, Signals
  <2> QED BY <2>1, <2>2, <2>3, <2>4 DEF ShowTypes
<1>5. CASE HandlerRecv
  <2>1. StageTyped' /\ PerformersTyped' /\ SocketsTyped' /\ AnchorTyped'
    BY <1>5, SameTypes DEF HandlerRecv
  <2>2. HandlerTyped'
    <3>0. PICK q : q = jnsfd[hi]
      OBVIOUS
    <3>0a. hi \in 1..Len(jnsfd) /\ jnsfd \in Seq(Judges)
      BY <1>5 DEF HandlerRecv, ShowTypes, AnchorTyped, HandlerTyped
    <3>0b. q \in Judges
      BY <3>0, <3>0a, ElementOfSeq
    <3>1. /\ q \in Judges /\ inbox[q] # <<>>
          /\ scores' = [scores EXCEPT ![hi] = [by |-> q, round |-> Head(inbox[q])]]
          /\ UNCHANGED <<asker, round, again>>
      BY <1>5, <3>0, <3>0b DEF HandlerRecv
    <3>2. PICK n : n = Head(inbox[q])
      OBVIOUS
    <3>3. n \in Nat
      <4>1. inbox[q] \in Seq(Nat)
        BY <3>1 DEF ShowTypes, JudgesTyped
      <4> QED BY <3>1, <3>2, <4>1
    <3>4. [by |-> q, round |-> n] \in [by : 0..NumJudges, round : Nat]
      BY <3>1, <3>3
    <3>5. scores' \in [Judges -> [by : 0..NumJudges, round : Nat]]
      BY <3>1, <3>2, <3>4, OneEntry DEF ShowTypes, HandlerTyped
    <3>6. hpc' \in {"recv", "announce"} /\ hi' \in Judges /\ hpc = "recv"
      BY <1>5 DEF HandlerRecv, NextIndex, ShowTypes, HandlerTyped
    <3> QED BY <3>1, <3>5, <3>6 DEF ShowTypes, HandlerTyped
  <2>3. JudgesTyped'
    <3>0. PICK q : q = jnsfd[hi]
      OBVIOUS
    <3>1. UNCHANGED <<jpc, sigs, due, talk>> /\ inbox' = [inbox EXCEPT ![q] = <<>>]
      BY <1>5, <3>0 DEF HandlerRecv
    <3>2a. inbox \in [Judges -> Seq(Nat)]
      BY DEF ShowTypes, JudgesTyped
    <3>2b. [inbox EXCEPT ![q] = <<>>] \in [Judges -> Seq(Nat)]
      BY <3>2a, OneQueue
    <3>2. inbox' \in [Judges -> Seq(Nat)]
      BY <3>1, <3>2b
    <3> QED BY <3>1, <3>2 DEF ShowTypes, JudgesTyped
  <2> QED BY <2>1, <2>2, <2>3 DEF ShowTypes
<1>6. CASE HandlerBreak
  <2>1. StageTyped' /\ PerformersTyped' /\ SocketsTyped' /\ AnchorTyped' /\ JudgesTyped'
    BY <1>6, SameTypes DEF HandlerBreak
  <2>2. HandlerTyped'
    BY <1>6 DEF HandlerBreak, ShowTypes, HandlerTyped
  <2> QED BY <2>1, <2>2 DEF ShowTypes
<1>7. CASE HandlerAnnounce
  <2>1. StageTyped' /\ PerformersTyped' /\ SocketsTyped' /\ AnchorTyped' /\ JudgesTyped'
    BY <1>7, SameTypes DEF HandlerAnnounce
  <2>2. HandlerTyped'
    BY <1>7 DEF HandlerAnnounce, ShowTypes, HandlerTyped
  <2> QED BY <2>1, <2>2 DEF ShowTypes
<1> QED BY <1>1, <1>2, <1>3, <1>4, <1>5, <1>6, <1>7 DEF sig_s_handler

(* The judges' steps keep the types.                                       *)
LEMMA JudgeTypesKept ==
  ASSUME ShowTypes, NEW j \in Judges, Judge(j)
  PROVE  ShowTypes'
<1>1. CASE JudgeStart(j)
  <2>1. StageTyped' /\ PerformersTyped' /\ SocketsTyped' /\ AnchorTyped' /\ HandlerTyped'
    BY <1>1, SameTypes DEF JudgeStart
  <2>2. JudgesTyped'
    BY <1>1 DEF JudgeStart, ShowTypes, JudgesTyped
  <2> QED BY <2>1, <2>2 DEF ShowTypes
<1>2. CASE JudgeConnect(j)
  <2>1. StageTyped' /\ PerformersTyped' /\ SocketsTyped' /\ HandlerTyped'
    BY <1>2, SameTypes DEF JudgeConnect
  <2>2. AnchorTyped'
    <3>1. UNCHANGED <<apc, jnsfd, jpid>> /\ (hall' = hall \/ hall' = Append(hall, j))
      BY <1>2 DEF JudgeConnect
    <3>2. hall' \in Seq(Judges)
      <4>1. hall \in Seq(Judges)
        BY DEF ShowTypes, AnchorTyped
      <4>2. Append(hall, j) \in Seq(Judges)
        BY <4>1, AppendElements
      <4> QED BY <3>1, <4>1, <4>2
    <3> QED BY <3>1, <3>2 DEF ShowTypes, AnchorTyped
  <2>3. JudgesTyped'
    BY <1>2 DEF JudgeConnect, ShowTypes, JudgesTyped
  <2> QED BY <2>1, <2>2, <2>3 DEF ShowTypes
<1>3. CASE JudgeKilled(j)
  <2>1. StageTyped' /\ PerformersTyped' /\ SocketsTyped' /\ AnchorTyped' /\ HandlerTyped'
    BY <1>3, SameTypes DEF JudgeKilled
  <2>2. JudgesTyped'
    <3>1. [usr1 |-> 0, usr2 |-> 0] \in Signals
      BY DEF ShowTypes, HandlerTyped, Signals
    <3>2. sigs' \in [Judges -> Signals]
      BY <1>3, <3>1, OneEntry DEF JudgeKilled, ShowTypes, JudgesTyped, Signals
    <3> QED BY <1>3, <3>2 DEF JudgeKilled, ShowTypes, JudgesTyped, Signals
  <2> QED BY <2>1, <2>2 DEF ShowTypes
<1>4. CASE AskConnect(j)
  <2>1. StageTyped' /\ PerformersTyped' /\ AnchorTyped' /\ HandlerTyped'
    BY <1>4, SameTypes DEF AskConnect
  <2>2. SocketsTyped'
    <3>1. \/ UNCHANGED <<chan, callers>>
          \/ /\ path \in Performers /\ chan' = [chan EXCEPT ![j] = <<>>]
             /\ callers' = [callers EXCEPT ![path] = Append(@, j)]
      BY <1>4 DEF AskConnect, ShowTypes, PerformersTyped
    <3>2. <<>> \in Seq(Words) /\ \A p \in Performers : Append(callers[p], j) \in Seq(Judges)
      BY DEF ShowTypes, SocketsTyped
    <3> QED BY <3>1, <3>2, OneEntry DEF ShowTypes, SocketsTyped
  <2>3. JudgesTyped'
    <3>0. 0 \in 0..MaxRounds /\ sigs[j].usr1 \in 0..MaxRounds /\ sigs \in [Judges -> Signals]
      BY DEF ShowTypes, JudgesTyped, Signals
    <3>1. sigs' \in [Judges -> Signals]
      BY <1>4, <3>0, OneSignal DEF AskConnect
    <3>2. due' \in [Judges -> 0..MaxRounds] /\ inbox' = inbox
      BY <1>4, <3>0, OneEntry DEF AskConnect, ShowTypes, JudgesTyped
    <3>3. jpc' \in [Judges -> {"off", "started", "idle", "ask", "score", "gone"}]
      BY <1>4 DEF AskConnect, ShowTypes, JudgesTyped
    <3>4. talk' \in [Judges -> Performers \cup {NoPid}]
      BY <1>4, OneEntry DEF AskConnect, ShowTypes, JudgesTyped, PerformersTyped
    <3> QED BY <3>1, <3>2, <3>3, <3>4 DEF ShowTypes, JudgesTyped, Signals
  <2> QED BY <2>1, <2>2, <2>3 DEF ShowTypes
<1>5. CASE JudgeTypes(j)
  <2>1. StageTyped' /\ AnchorTyped' /\ HandlerTyped'
    BY <1>5, SameTypes DEF JudgeTypes
  <2>2. PerformersTyped'
    <3>1. UNCHANGED <<ppc, toStage, path, quits, overlap>> /\ (typed' = typed \/ \E p : typed' = [typed EXCEPT ![p] = @ + 1])
      BY <1>5 DEF JudgeTypes
    <3> QED BY <3>1 DEF ShowTypes, PerformersTyped
  <2>3. SocketsTyped'
    <3>1. callers' = callers /\ (chan' = chan \/ \E w \in Words : chan' = [chan EXCEPT ![j] = Append(@, w)])
      BY <1>5 DEF JudgeTypes, Words
    <3>2. chan' \in [Judges -> Seq(Words)]
      <4>1. chan \in [Judges -> Seq(Words)]
        BY DEF ShowTypes, SocketsTyped
      <4>2. \A w \in Words : [chan EXCEPT ![j] = Append(@, w)] \in [Judges -> Seq(Words)]
        BY <4>1, OneQueue
      <4> QED BY <3>1, <4>1, <4>2
    <3> QED BY <3>1, <3>2 DEF ShowTypes, SocketsTyped
  <2>4. JudgesTyped'
    BY <1>5 DEF JudgeTypes, ShowTypes, JudgesTyped
  <2> QED BY <2>1, <2>2, <2>3, <2>4 DEF ShowTypes
<1>6. CASE AskScore(j)
  <2>1. StageTyped' /\ PerformersTyped' /\ SocketsTyped' /\ AnchorTyped' /\ HandlerTyped'
    BY <1>6, SameTypes DEF AskScore
  <2>2. JudgesTyped'
    <3>1. /\ UNCHANGED <<sigs, due, talk>> /\ inbox' = [inbox EXCEPT ![j] = Append(@, due[j])]
          /\ jpc' = [jpc EXCEPT ![j] = "idle"]
      BY <1>6 DEF AskScore
    <3>2. due[j] \in Nat /\ inbox \in [Judges -> Seq(Nat)]
      BY DEF ShowTypes, JudgesTyped
    <3>3. inbox' \in [Judges -> Seq(Nat)]
      BY <3>1, <3>2
    <3> QED BY <3>1, <3>3 DEF ShowTypes, JudgesTyped
  <2> QED BY <2>1, <2>2 DEF ShowTypes
<1>7. CASE sig_A2_handler(j)
  <2>1. StageTyped' /\ PerformersTyped' /\ SocketsTyped' /\ AnchorTyped' /\ HandlerTyped'
    BY <1>7, SameTypes DEF sig_A2_handler
  <2>2. JudgesTyped'
    <3>1. /\ UNCHANGED <<jpc, due, talk>> /\ inbox' = [inbox EXCEPT ![j] = Append(@, sigs[j].usr2)]
          /\ sigs' = [sigs EXCEPT ![j].usr2 = 0]
      BY <1>7 DEF sig_A2_handler
    <3>2a. sigs[j] \in Signals /\ 0 \in 0..MaxRounds
      BY DEF ShowTypes, JudgesTyped, Signals
    <3>2. 0 \in 0..MaxRounds /\ sigs[j].usr2 \in Nat /\ inbox \in [Judges -> Seq(Nat)] /\ sigs \in [Judges -> Signals]
      BY <3>2a DEF ShowTypes, JudgesTyped, Signals
    <3>3. inbox' \in [Judges -> Seq(Nat)]
      BY <3>1, <3>2
    <3>4. sigs' \in [Judges -> Signals]
      BY <3>1, <3>2, OneSignal
    <3> QED BY <3>1, <3>3, <3>4 DEF ShowTypes, JudgesTyped, Signals
  <2> QED BY <2>1, <2>2 DEF ShowTypes
<1> QED BY <1>1, <1>2, <1>3, <1>4, <1>5, <1>6, <1>7 DEF Judge, sig_A1_handler

ScoreParts == RoundsOK /\ HallOK /\ ConnectionsOK /\ JudgesOK /\ HandlerOK

(* Judges that are all accepted, once each, and signalled: everyone is.    *)
LEMMA EveryoneAccepted ==
  ASSUME ShowTypes, ConnectionsOK, NEW q \in 1..Len(jnsfd),
         \A i \in 1..Len(jnsfd) : jnsfd[i] <= Len(jnsfd)
  PROVE  \E i \in 1..Len(jnsfd) : jnsfd[i] = q
<1> DEFINE S == 1..Len(jnsfd)
<1>1. jnsfd \in Seq(Judges) /\ Len(jnsfd) \in Nat
  BY DEF ShowTypes, AnchorTyped
<1>2. \A i \in S : jnsfd[i] \in Judges
  BY <1>1
<1>3. jnsfd \in [S -> S]
  BY <1>1, <1>2
<1>4. jnsfd \in Injection(S, S)
  BY <1>3 DEF ConnectionsOK, Injection, IsInjective
<1>5. IsFiniteSet(S)
  BY <1>1, FS_Interval
<1>6. jnsfd \in Surjection(S, S)
  BY <1>4, <1>5, FS_Injection
<1> QED BY <1>6 DEF Surjection

(* A queue after Append: its elements stay in a set, no two are equal.     *)
LEMMA AppendIn ==
  ASSUME NEW S, NEW s \in Seq(S), NEW e \in S, NEW T, e \in T, \A k \in 1..Len(s) : s[k] \in T
  PROVE  \A k \in 1..Len(Append(s, e)) : Append(s, e)[k] \in T
<1>1. PICK r : r = Append(s, e)
  OBVIOUS
<1>2. Len(r) = Len(s) + 1 /\ r[Len(s) + 1] = e /\ (\A k \in 1..Len(s) : r[k] = s[k]) /\ Len(s) \in Nat
  BY <1>1, AppendElements
<1>3. \A k \in 1..Len(r) : r[k] \in T
  BY <1>2
<1> QED BY <1>1, <1>3

(* The same queue keeps its elements apart when the new one is not among   *)
(* them.                                                                   *)
LEMMA AppendOther ==
  ASSUME NEW S, NEW s \in Seq(S), NEW e \in S, \A k \in 1..Len(s) : s[k] # e,
         \A i, k \in 1..Len(s) : s[i] = s[k] => i = k
  PROVE  \A i, k \in 1..Len(Append(s, e)) : Append(s, e)[i] = Append(s, e)[k] => i = k
<1>1. PICK r : r = Append(s, e)
  OBVIOUS
<1>2. Len(r) = Len(s) + 1 /\ r[Len(s) + 1] = e /\ (\A k \in 1..Len(s) : r[k] = s[k]) /\ Len(s) \in Nat
  BY <1>1, AppendElements
<1>3. \A i, k \in 1..Len(r) : r[i] = r[k] => i = k
  BY <1>2
<1> QED BY <1>1, <1>3

(* The judge behind a connection.                                          *)
LEMMA Accepted ==
  ASSUME ShowTypes, NEW i \in 1..Len(jnsfd)
  PROVE  jnsfd[i] \in Judges
BY ElementOfSeq DEF ShowTypes, AnchorTyped

(* Steps that touch neither judges nor handler.                            *)
LEMMA QuietScores ==
  ASSUME ShowTypes, ScoreParts, apc' # "gone" => apc # "gone",
         UNCHANGED <<jnsfd, jpid, hall, hpc, hi, asker, scores, round, jpc, sigs, due, inbox>>
  PROVE  ScoreParts'
<1>1. RoundsOK'
  BY DEF ScoreParts, RoundsOK, RoundOf
<1>2. HallOK' /\ ConnectionsOK'
  BY DEF ScoreParts, HallOK, ConnectionsOK, Fresh, Busy, Asks, Told, Wrote
<1>3. JudgesOK'
  BY DEF ScoreParts, JudgesOK, BehindDead, Dead, OneScore, InRound, Busy, Asks, Told, Wrote
<1>4. HandlerOK'
  BY DEF ScoreParts, HandlerOK, Dead, Scored
<1> QED BY <1>1, <1>2, <1>3, <1>4 DEF ScoreParts

(* A step of one judge.                                                    *)
LEMMA JudgeFrame ==
  ASSUME ShowTypes, ScoreParts, NEW q \in Judges,
         UNCHANGED <<apc, jnsfd, jpid, hpc, hi, asker, scores, round>>,
         \A z \in Judges \ {q} : /\ jpc'[z] = jpc[z] /\ sigs'[z] = sigs[z]
                                 /\ due'[z] = due[z] /\ inbox'[z] = inbox[z],
         jpc[q] # "gone",
         Fresh(q)' => Fresh(q) /\ inbox'[q] = inbox[q],
         Busy(q)' => Busy(q),
         jpc'[q] = "gone" => Fresh(q) \/ Busy(q),
         OneScore(q) => OneScore(q)',
         RoundOf(q)'
  PROVE  /\ RoundsOK' /\ ConnectionsOK' /\ JudgesOK' /\ HandlerOK'
         /\ hall' = hall => HallOK'
<1>a. \A i \in 1..Len(jnsfd) : jnsfd[i] \in Judges
  BY Accepted
<1>b. \A z \in Judges \ {q} : /\ Fresh(z)' <=> Fresh(z)
                              /\ Busy(z)' <=> Busy(z)
                              /\ OneScore(z)' <=> OneScore(z)
                              /\ RoundOf(z)' <=> RoundOf(z)
  BY DEF Fresh, Busy, Asks, Told, Wrote, OneScore, RoundOf
<1>1. RoundsOK'
  BY <1>b DEF ScoreParts, RoundsOK
<1>2. ConnectionsOK'
  <2>1. \A z \in Judges : Fresh(z)' => Fresh(z) /\ inbox'[z] = inbox[z]
    BY <1>b
  <2>2. \A z \in Judges : Busy(z)' => Busy(z)
    BY <1>b
  <2> QED BY <1>a, <2>1, <2>2 DEF ScoreParts, ConnectionsOK
<1>3. \A k \in 1..Len(jnsfd) : Dead(k) => Dead(k)'
  BY <1>a DEF Dead
<1>4. \A z \in Judges : BehindDead(z) => BehindDead(z)'
  BY <1>3 DEF BehindDead
<1>5. JudgesOK'
  <2>1. \A z \in Judges : InRound(z) => InRound(z)'
    BY <1>b DEF InRound
  <2> QED BY <1>4, <1>b, <2>1 DEF ScoreParts, JudgesOK
<1>6. HandlerOK'
  <2>1. ASSUME NEW k \in 1..Len(jnsfd), Dead(k)', hpc = "recv"  PROVE hi <= k
    <3>1. CASE Dead(k)
      BY <3>1, <2>1 DEF ScoreParts, HandlerOK
    <3>2. CASE ~Dead(k)
      <4>1. jnsfd[k] = q
        BY <1>a, <2>1, <3>2 DEF Dead
      <4>2. Busy(q)
        BY <2>1, <4>1 DEF Dead, ScoreParts, ConnectionsOK
      <4>3. CASE BehindDead(q)
        <5>1. PICK m \in 1..Len(jnsfd) : Dead(m) /\ \A i \in 1..m : jnsfd[i] # q
          BY <4>3 DEF BehindDead
        <5>2. hi <= m /\ m < k
          BY <2>1, <4>1, <5>1 DEF ScoreParts, HandlerOK
        <5> QED BY <5>2 DEF ShowTypes, HandlerTyped, AnchorTyped
      <4>4. CASE InRound(q)
        BY <2>1, <4>1, <4>2, <4>4 DEF InRound, ShowTypes, HandlerTyped
      <4> QED BY <4>3, <4>4 DEF ScoreParts, JudgesOK
    <3> QED BY <3>1, <3>2
  <2>2. \A i \in Judges : Scored(i)' <=> Scored(i)
    BY DEF Scored
  <2> QED BY <1>3, <2>1, <2>2 DEF ScoreParts, HandlerOK
<1>7. ASSUME hall' = hall  PROVE HallOK'
  <2>1. \A k \in 1..Len(hall) : hall[k] \in Judges
    BY ElementOfSeq DEF ShowTypes, AnchorTyped
  <2>2. \A z \in Judges : Fresh(z)' => Fresh(z)
    BY <1>b
  <2> QED BY <1>7, <2>1, <2>2 DEF ScoreParts, HallOK
<1> QED BY <1>1, <1>2, <1>5, <1>6, <1>7

(* The steps of the judges.                                                *)
LEMMA JudgeScores ==
  ASSUME ShowTypes, ShowTypes', ScoreParts, NEW j \in Judges, Judge(j)
  PROVE  ScoreParts'
<1>a. /\ sigs \in [Judges -> Signals] /\ inbox \in [Judges -> Seq(Nat)]
      /\ jpc \in [Judges -> {"off", "started", "idle", "ask", "score", "gone"}]
      /\ due \in [Judges -> 0..MaxRounds] /\ round \in 0..MaxRounds
  BY DEF ShowTypes, JudgesTyped, HandlerTyped, Signals
<1>b. RoundOf(j) /\ (BehindDead(j) \/ OneScore(j)) /\ (Fresh(j) => inbox[j] = <<>>)
  BY DEF ScoreParts, RoundsOK, JudgesOK, ConnectionsOK
<1>c. sigs[j] \in Signals
  BY <1>a
<1>1. CASE JudgeStart(j)
  <2>1. jpc' = [jpc EXCEPT ![j] = "started"] /\ jpc[j] = "off" /\ UNCHANGED <<anchorVars, handlerVars, sigs, due, inbox>>
    BY <1>1 DEF JudgeStart
  <2>2. /\ jpc'[j] = "started"
        /\ \A z \in Judges \ {j} : jpc'[z] = jpc[z]
    BY <1>a, <2>1
  <2>3. Fresh(j) /\ (Busy(j)' => Busy(j))
    BY <2>1, <2>2 DEF Fresh, Busy, Asks, Told, Wrote
  <2>4. (OneScore(j) => OneScore(j)') /\ RoundOf(j)'
    BY <1>b, <2>1, <2>2 DEF OneScore, RoundOf, Asks, Told, Wrote
  <2> QED BY <2>1, <2>2, <2>3, <2>4, JudgeFrame DEF ScoreParts
<1>2. CASE JudgeConnect(j)
  <2>1. /\ jpc[j] = "started" /\ UNCHANGED <<apc, jnsfd, jpid, handlerVars, sigs, due, inbox>>
        /\ \/ jpc' = [jpc EXCEPT ![j] = "idle"] /\ hall' = Append(hall, j)
           \/ jpc' = [jpc EXCEPT ![j] = "gone"] /\ hall' = hall
    BY <1>2 DEF JudgeConnect
  <2>2. /\ jpc'[j] \in {"idle", "gone"}
        /\ \A z \in Judges \ {j} : jpc'[z] = jpc[z]
    BY <1>a, <2>1
  <2>3. Fresh(j) /\ ~Fresh(j)' /\ (Busy(j)' => Busy(j)) /\ ~Wrote(j)'
    BY <1>b, <2>1, <2>2 DEF Fresh, Busy, Asks, Told, Wrote
  <2>4. (OneScore(j) => OneScore(j)') /\ RoundOf(j)'
    BY <1>b, <2>1, <2>2, <2>3 DEF OneScore, RoundOf, Asks, Told, Wrote
  <2>5. RoundsOK' /\ ConnectionsOK' /\ JudgesOK' /\ HandlerOK' /\ (hall' = hall => HallOK')
    BY <2>1, <2>2, <2>3, <2>4, JudgeFrame
  <2>6. ASSUME hall' = Append(hall, j)  PROVE HallOK'
    <3>1. /\ hall \in Seq(Judges) /\ Len(hall) \in Nat /\ jnsfd \in Seq(Judges)
      BY DEF ShowTypes, AnchorTyped
    <3>2. /\ Len(hall') = Len(hall) + 1 /\ hall'[Len(hall) + 1] = j
          /\ \A i \in 1..Len(hall) : hall'[i] = hall[i]
      BY <3>1, <2>6, AppendElements
    <3>3. \A i \in 1..Len(hall) : hall[i] # j /\ hall[i] \in Judges
      BY <2>3, <3>1, ElementOfSeq DEF ScoreParts, HallOK
    <3>4. \A i \in 1..Len(jnsfd) : jnsfd[i] # j
      BY <2>3 DEF ScoreParts, ConnectionsOK
    <3>5. \A z \in Judges \ {j} : Fresh(z)' <=> Fresh(z)
      BY <2>2 DEF Fresh
    <3>6. \A i, k \in 1..Len(hall') : hall'[i] = hall'[k] => i = k
      <4>1. \A i, k \in 1..Len(hall) : hall[i] = hall[k] => i = k
        BY DEF ScoreParts, HallOK
      <4>2. \A i \in 1..Len(hall) : hall[i] # j
        BY <3>3
      <4> HIDE DEF Judges
      <4>3. \A i, k \in 1..Len(Append(hall, j)) : Append(hall, j)[i] = Append(hall, j)[k] => i = k
        BY <3>1, <4>1, <4>2, AppendOther
      <4> QED BY <2>6, <4>3
    <3>7. \A k \in 1..Len(hall') : \A i \in 1..Len(jnsfd') : jnsfd'[i] # hall'[k]
      <4>1. TAKE k \in 1..Len(hall')
      <4>2. k \in 1..Len(hall) \/ k = Len(hall) + 1
        BY <3>1, <3>2
      <4>3. CASE k \in 1..Len(hall)
        BY <2>1, <3>2, <4>3 DEF ScoreParts, HallOK
      <4>4. CASE k = Len(hall) + 1
        BY <2>1, <3>2, <3>4, <4>4
      <4> QED BY <4>2, <4>3, <4>4
    <3>8. ASSUME NEW k \in 1..Len(hall')  PROVE ~Fresh(hall[k])'
      <4>1. CASE k \in 1..Len(hall)
        BY <3>2, <3>3, <3>5, <4>1 DEF ScoreParts, HallOK
      <4>2. CASE k = Len(hall) + 1
        BY <3>2, <2>3, <4>2
      <4> QED BY <3>1, <3>2, <4>1, <4>2
    <3> QED BY <3>6, <3>7, <3>8 DEF HallOK
  <2> QED BY <2>1, <2>5, <2>6 DEF ScoreParts
<1>3. CASE JudgeKilled(j)
  <2>1. /\ jpc[j] = "started" /\ UNCHANGED <<anchorVars, handlerVars, due, inbox>>
        /\ jpc' = [jpc EXCEPT ![j] = "gone"]
        /\ sigs' = [sigs EXCEPT ![j] = [usr1 |-> 0, usr2 |-> 0]]
    BY <1>3 DEF JudgeKilled
  <2>2. /\ jpc'[j] = "gone" /\ sigs'[j] = [usr1 |-> 0, usr2 |-> 0]
        /\ \A z \in Judges \ {j} : jpc'[z] = jpc[z] /\ sigs'[z] = sigs[z]
    BY <1>a, <2>1
  <2>3. Fresh(j) /\ ~Fresh(j)' /\ ~Busy(j)' /\ ~Wrote(j)'
    BY <1>b, <2>1, <2>2 DEF Fresh, Busy, Asks, Told, Wrote
  <2>4. OneScore(j)' /\ RoundOf(j)'
    BY <1>a, <1>b, <2>1, <2>2, <2>3 DEF OneScore, RoundOf, Busy, Asks, Told, Wrote
  <2> QED BY <2>1, <2>2, <2>3, <2>4, JudgeFrame DEF ScoreParts
<1>4. CASE AskConnect(j)
  <2>1. /\ jpc[j] = "idle" /\ sigs[j].usr1 # 0 /\ UNCHANGED <<anchorVars, handlerVars, inbox>>
        /\ sigs' = [sigs EXCEPT ![j].usr1 = 0]
        /\ due' = [due EXCEPT ![j] = sigs[j].usr1]
        /\ jpc' = [jpc EXCEPT ![j] = "ask"] \/ jpc' = [jpc EXCEPT ![j] = "gone"]
    BY <1>4 DEF AskConnect
  <2>2. /\ jpc'[j] \in {"ask", "gone"} /\ due'[j] = sigs[j].usr1
        /\ \A z \in Judges \ {j} : jpc'[z] = jpc[z] /\ due'[z] = due[z]
    BY <1>a, <2>1
  <2>3. /\ sigs'[j].usr1 = 0 /\ sigs'[j].usr2 = sigs[j].usr2
        /\ \A z \in Judges \ {j} : sigs'[z] = sigs[z]
    BY <1>a, <2>1, OneSignal
  <2>4. Busy(j) /\ ~Fresh(j)' /\ Asks(j)
    BY <2>1, <2>2 DEF Fresh, Busy, Asks
  <2>5. RoundOf(j)'
    <3>1. due'[j] \in 1..round
      BY <1>a, <1>b, <1>c, <2>1, <2>2 DEF RoundOf, Signals
    <3> QED BY <1>a, <1>b, <2>1, <2>3, <3>1 DEF RoundOf
  <2>6. OneScore(j) => OneScore(j)'
    BY <2>1, <2>2, <2>3, <2>4 DEF OneScore, Asks, Told, Wrote
  <2> QED BY <2>1, <2>2, <2>3, <2>4, <2>5, <2>6, JudgeFrame DEF ScoreParts
<1>5. CASE JudgeTypes(j)
  <2>1. /\ jpc[j] = "ask" /\ UNCHANGED <<anchorVars, handlerVars, sigs, due, inbox>>
        /\ jpc' = jpc \/ jpc' = [jpc EXCEPT ![j] = "score"] \/ jpc' = [jpc EXCEPT ![j] = "gone"]
    BY <1>5 DEF JudgeTypes
  <2>2. /\ jpc'[j] \in {"ask", "score", "gone"}
        /\ \A z \in Judges \ {j} : jpc'[z] = jpc[z]
    BY <1>a, <2>1
  <2>3. Busy(j) /\ ~Fresh(j)' /\ Asks(j)
    BY <2>1, <2>2 DEF Fresh, Busy, Asks
  <2>4. (OneScore(j) => OneScore(j)') /\ RoundOf(j)'
    BY <1>b, <2>1, <2>2, <2>3 DEF OneScore, RoundOf, Asks, Told, Wrote
  <2> QED BY <2>1, <2>2, <2>3, <2>4, JudgeFrame DEF ScoreParts
<1>6. CASE AskScore(j)
  <2>1. /\ jpc[j] = "score" /\ UNCHANGED <<anchorVars, handlerVars, sigs, due>>
        /\ jpc' = [jpc EXCEPT ![j] = "idle"] /\ inbox' = [inbox EXCEPT ![j] = Append(@, due[j])]
    BY <1>6 DEF AskScore
  <2>2. /\ jpc'[j] = "idle" /\ inbox'[j] = Append(inbox[j], due[j])
        /\ \A z \in Judges \ {j} : jpc'[z] = jpc[z] /\ inbox'[z] = inbox[z]
    BY <1>a, <2>1
  <2>3. Busy(j) /\ ~Fresh(j)' /\ Asks(j)
    BY <2>1, <2>2 DEF Fresh, Busy, Asks
  <2>4. RoundOf(j)'
    <3>1. due[j] \in 1..round /\ inbox[j] \in Seq(Nat) /\ due[j] \in Nat
      BY <1>a, <1>b, <2>1 DEF RoundOf
    <3>2. \A k \in 1..Len(inbox'[j]) : inbox'[j][k] \in 1..round
      <4>1. \A k \in 1..Len(inbox[j]) : inbox[j][k] \in 1..round
        BY <1>b DEF RoundOf
      <4> QED BY <2>2, <3>1, <4>1, AppendIn
    <3> QED BY <1>b, <2>1, <2>2, <3>2 DEF RoundOf
  <2>5. ASSUME OneScore(j)  PROVE OneScore(j)'
    <3>1. ~Told(j) /\ ~Wrote(j) /\ due[j] = round /\ sigs[j].usr1 = 0
      BY <2>1, <2>3, <2>5 DEF OneScore
    <3>2. inbox'[j] = <<round>>
      BY <2>2, <3>1, OneElement DEF Wrote
    <3>3. ~Told(j)' /\ ~Asks(j)'
      BY <2>1, <2>2, <3>1 DEF Told, Asks
    <3> QED BY <2>1, <2>2, <2>5, <3>1, <3>2, <3>3 DEF OneScore
  <2> QED BY <2>1, <2>2, <2>3, <2>4, <2>5, JudgeFrame DEF ScoreParts
<1>7. CASE sig_A2_handler(j)
  <2>1. /\ jpc[j] \in {"idle", "ask", "score"} /\ sigs[j].usr2 # 0 /\ UNCHANGED <<anchorVars, handlerVars, jpc, due>>
        /\ sigs' = [sigs EXCEPT ![j].usr2 = 0]
        /\ inbox' = [inbox EXCEPT ![j] = Append(@, sigs[j].usr2)]
    BY <1>7 DEF sig_A2_handler
  <2>2. /\ inbox'[j] = Append(inbox[j], sigs[j].usr2)
        /\ \A z \in Judges \ {j} : inbox'[z] = inbox[z]
    BY <1>a, <2>1
  <2>3. /\ sigs'[j].usr2 = 0 /\ sigs'[j].usr1 = sigs[j].usr1
        /\ \A z \in Judges \ {j} : sigs'[z] = sigs[z]
    BY <1>a, <2>1, OneSignal
  <2>4. Busy(j) /\ ~Fresh(j)' /\ Told(j)
    BY <2>1 DEF Fresh, Busy, Told
  <2>5. RoundOf(j)'
    <3>0. PICK n : n = sigs[j].usr2
      OBVIOUS
    <3>1. n \in 1..round /\ inbox[j] \in Seq(Nat) /\ n \in Nat /\ inbox'[j] = Append(inbox[j], n)
      BY <1>a, <1>b, <1>c, <2>1, <2>2, <3>0 DEF RoundOf, Signals
    <3>2. \A k \in 1..Len(inbox'[j]) : inbox'[j][k] \in 1..round
      <4>1. \A k \in 1..Len(inbox[j]) : inbox[j][k] \in 1..round
        BY <1>b DEF RoundOf
      <4> QED BY <3>1, <4>1, AppendIn
    <3> QED BY <1>b, <1>a, <2>1, <2>3, <3>2 DEF RoundOf
  <2>6. ASSUME OneScore(j)  PROVE OneScore(j)'
    <3>1. ~Asks(j) /\ ~Wrote(j) /\ sigs[j].usr2 = round
      BY <2>1, <2>4, <2>6 DEF OneScore
    <3>2. inbox'[j] = <<round>>
      BY <2>2, <3>1, OneElement DEF Wrote
    <3>3. ~Told(j)' /\ ~Asks(j)'
      BY <2>1, <2>3, <3>1 DEF Told, Asks
    <3> QED BY <2>1, <2>3, <2>6, <3>1, <3>2, <3>3 DEF OneScore, Asks
  <2> QED BY <2>1, <2>2, <2>3, <2>4, <2>5, <2>6, JudgeFrame DEF ScoreParts
<1> QED BY <1>1, <1>2, <1>3, <1>4, <1>5, <1>6, <1>7 DEF Judge, sig_A1_handler

(* The steps of the anchor: a connection accepted.                         *)
LEMMA AcceptScores ==
  ASSUME ShowTypes, ScoreParts, AnchorAccept
  PROVE  ScoreParts'
<1> DEFINE L == Len(jnsfd)
<1>1. PICK pid \in pidof(L + 1) :
        /\ hpc = "none" /\ hall # <<>> /\ L < NumJudges
        /\ jnsfd' = Append(jnsfd, Head(hall)) /\ hall' = Tail(hall) /\ jpid' = Append(jpid, pid)
        /\ UNCHANGED <<apc, handlerVars, judgeVars>>
  BY DEF AnchorAccept
<1>2. /\ jnsfd \in Seq(Judges) /\ L \in Nat /\ hall \in Seq(Judges) /\ Len(hall) \in Nat
      /\ jpid \in Seq(0..NumJudges \cup {NoPid}) /\ Len(jpid) = L
  BY DEF ShowTypes, AnchorTyped
<1>3. pid \in {L + 1, 0, NoPid} /\ pid \in 0..NumJudges \cup {NoPid}
  BY <1>1, <1>2 DEF pidof
<1>4. PICK h : h = Head(hall)
  OBVIOUS
<1>5. /\ h = hall[1] /\ h \in Judges /\ Len(hall) > 0 /\ Len(hall') = Len(hall) - 1
      /\ \A i \in 1..Len(hall') : i + 1 \in 1..Len(hall) /\ hall'[i] = hall[i + 1]
  BY <1>1, <1>2, <1>4, TailElements
<1>6. /\ Len(jnsfd') = L + 1 /\ jnsfd'[L + 1] = h
      /\ \A i \in 1..L : jnsfd'[i] = jnsfd[i]
  BY <1>1, <1>2, <1>4, <1>5, AppendElements
<1>7. /\ Len(jpid') = L + 1 /\ jpid'[L + 1] = pid
      /\ \A i \in 1..L : jpid'[i] = jpid[i]
  BY <1>1, <1>2, <1>3, AppendElements
<1>8. \A z : /\ Fresh(z)' <=> Fresh(z)
             /\ Busy(z)' <=> Busy(z)
             /\ OneScore(z)' <=> OneScore(z)
             /\ RoundOf(z)' <=> RoundOf(z)
  BY <1>1 DEF Fresh, Busy, Asks, Told, Wrote, OneScore, RoundOf
<1>9. RoundsOK'
  BY <1>8 DEF ScoreParts, RoundsOK
<1>10. ~Fresh(h) /\ (\A i \in 1..L : jnsfd[i] # h) /\ \A k \in 1..Len(hall') : hall'[k] # h
  <2>1. 1 \in 1..Len(hall)
    BY <1>2, <1>5
  <2>2. ~Fresh(h) /\ \A i \in 1..L : jnsfd[i] # h
    BY <1>5, <2>1 DEF ScoreParts, HallOK
  <2>3. ASSUME NEW k \in 1..Len(hall'), hall'[k] = h  PROVE FALSE
    <3>1. k + 1 \in 1..Len(hall) /\ hall[k + 1] = hall[1]
      BY <1>5, <2>3
    <3>2. k + 1 = 1
      BY <2>1, <3>1 DEF ScoreParts, HallOK
    <3> QED BY <1>2, <1>5, <3>2
  <2> QED BY <2>2, <2>3
<1>11. HallOK'
  <2>1. ASSUME NEW i \in 1..Len(hall'), NEW k \in 1..Len(hall'), hall'[i] = hall'[k]  PROVE i = k
    <3>1. i + 1 \in 1..Len(hall) /\ k + 1 \in 1..Len(hall) /\ hall[i + 1] = hall[k + 1]
      BY <1>5, <2>1
    <3>2. i + 1 = k + 1
      BY <3>1 DEF ScoreParts, HallOK
    <3> QED BY <1>2, <1>5, <3>2
  <2>2. \A k \in 1..Len(hall') : ~Fresh(hall'[k])
    BY <1>5 DEF ScoreParts, HallOK
  <2>3. \A i \in 1..L, k \in 1..Len(hall') : jnsfd[i] # hall'[k]
    BY <1>5 DEF ScoreParts, HallOK
  <2>4. \A i \in 1..Len(jnsfd'), k \in 1..Len(hall') : jnsfd'[i] # hall'[k]
    <3>1. TAKE i \in 1..Len(jnsfd'), k \in 1..Len(hall')
    <3>2. i \in 1..L \/ i = L + 1
      BY <1>2, <1>6
    <3> QED BY <1>6, <1>10, <2>3, <3>2
  <2> QED BY <1>8, <2>1, <2>2, <2>4 DEF HallOK
<1>12. ConnectionsOK'
  <2>1. \A i, k \in 1..Len(jnsfd') : jnsfd'[i] = jnsfd'[k] => i = k
    <3>1. \A i, k \in 1..L : jnsfd[i] = jnsfd[k] => i = k
      BY DEF ScoreParts, ConnectionsOK
    <3>2. jnsfd' = Append(jnsfd, h)
      BY <1>1, <1>4
    <3> HIDE DEF Judges
    <3>3. \A i, k \in 1..Len(Append(jnsfd, h)) : Append(jnsfd, h)[i] = Append(jnsfd, h)[k] => i = k
      <4>1. jnsfd \in Seq(Judges) /\ h \in Judges
        BY <1>2, <1>5
      <4>2. \A i \in 1..L : jnsfd[i] # h
        BY <1>10
      <4> QED BY <3>1, <4>1, <4>2, AppendOther
    <3> QED BY <3>2, <3>3
  <2>2. \A i \in 1..L : ~Fresh(jnsfd[i])
    BY DEF ScoreParts, ConnectionsOK
  <2>3. ASSUME NEW i \in 1..Len(jnsfd')  PROVE ~Fresh(jnsfd'[i])
    <3>1. i \in 1..L \/ i = L + 1
      BY <1>2, <1>6
    <3> QED BY <1>6, <1>10, <2>2, <3>1
  <2>4. ASSUME NEW i \in 1..Len(jpid')  PROVE jpid'[i] \in {i, 0, NoPid}
    <3>1. i \in 1..L \/ i = L + 1
      BY <1>2, <1>7
    <3>2. CASE i \in 1..L
      BY <1>2, <1>7, <3>2 DEF ScoreParts, ConnectionsOK
    <3> QED BY <1>3, <1>7, <3>1, <3>2
  <2>5. \A z \in Judges : Busy(z) => z <= Len(jpid')
    BY <1>2, <1>7 DEF ScoreParts, ConnectionsOK
  <2>6. \A z \in Judges : Fresh(z) => inbox'[z] = <<>>
    BY <1>1 DEF ScoreParts, ConnectionsOK
  <2> QED BY <1>8, <2>1, <2>3, <2>4, <2>5, <2>6 DEF ConnectionsOK
<1>13. ASSUME NEW z \in Judges, BehindDead(z)  PROVE BehindDead(z)'
  <2>1. PICK k \in 1..L : Dead(k) /\ \A i \in 1..k : jnsfd[i] # z
    BY <1>13 DEF BehindDead
  <2>2. k \in 1..Len(jnsfd') /\ Dead(k)' /\ \A i \in 1..k : jnsfd'[i] # z
    BY <1>1, <1>2, <1>6, <2>1 DEF Dead
  <2> QED BY <2>2 DEF BehindDead
<1>14. JudgesOK'
  <2>1. \A z \in Judges : InRound(z) => InRound(z)'
    BY <1>1, <1>8 DEF InRound
  <2> QED BY <1>8, <1>13, <2>1 DEF ScoreParts, JudgesOK
<1>15. HandlerOK'
  BY <1>1 DEF HandlerOK
<1> QED BY <1>9, <1>11, <1>12, <1>14, <1>15 DEF ScoreParts

(* sig_s_handler begins: everything of the last performance is over.       *)
LEMMA StartScores ==
  ASSUME ShowTypes, ShowTypes', ScoreParts, HandlerStart
  PROVE  ScoreParts'
<1>1. /\ hpc = "none" /\ hpc' = "kill" /\ hi' = 1 /\ round' = round + 1 /\ round \in Nat
      /\ scores' = [i \in Judges |-> Unset]
      /\ UNCHANGED <<apc, jnsfd, jpid, hall, jpc, sigs, due, inbox>>
  BY DEF HandlerStart, ShowTypes, HandlerTyped
<1>2. \A z : /\ Fresh(z)' <=> Fresh(z)
             /\ Busy(z)' <=> Busy(z)
             /\ BehindDead(z)' <=> BehindDead(z)
  BY <1>1 DEF Fresh, Busy, Asks, Told, Wrote, BehindDead, Dead
<1>3. RoundsOK'
  <2>1. ASSUME NEW z \in Judges  PROVE RoundOf(z)'
    <3>1. RoundOf(z)
      BY DEF ScoreParts, RoundsOK
    <3>2. sigs[z].usr1 \in Nat /\ sigs[z].usr2 \in Nat /\ 1..round \subseteq 1..(round + 1)
      BY <1>1 DEF ShowTypes, JudgesTyped
    <3>3. round \in 0..MaxRounds
      BY DEF ShowTypes, HandlerTyped
    <3> QED BY <1>1, <3>1, <3>2, <3>3 DEF RoundOf
  <2> QED BY <2>1 DEF RoundsOK
<1>4. HallOK' /\ ConnectionsOK'
  BY <1>1, <1>2 DEF ScoreParts, HallOK, ConnectionsOK
<1>5. JudgesOK'
  <2>1. ASSUME NEW z \in Judges, OneScore(z) /\ InRound(z)  PROVE OneScore(z)' /\ InRound(z)'
    <3>1. ~Busy(z)
      BY <1>1, <2>1 DEF InRound
    <3>2. InRound(z)'
      BY <1>2, <3>1 DEF InRound
    <3>3. OneScore(z)'
      BY <1>1, <3>1, <2>1 DEF OneScore, Busy, Asks, Told, Wrote
    <3> QED BY <3>2, <3>3
  <2> QED BY <1>2, <2>1 DEF ScoreParts, JudgesOK
<1>6. HandlerOK'
  <2>1. ~\E i \in Judges : i < 1
    OBVIOUS
  <2> QED BY <1>1, <2>1 DEF HandlerOK
<1> QED BY <1>3, <1>4, <1>5, <1>6 DEF ScoreParts

(* One kill.                                                               *)
LEMMA KillScores ==
  ASSUME ShowTypes, ShowTypes', ScoreParts, HandlerKill
  PROVE  ScoreParts'
<1>0. PICK n : n = hi
  OBVIOUS
<1>1. PICK pid : pid = PidAt(hi)
  OBVIOUS
<1>2. /\ apc = "run" /\ hpc = "kill" /\ UNCHANGED <<jnsfd, jpid, hall, asker, scores, round, jpc, due, inbox>>
      /\ \/ n < NumJudges /\ hi' = n + 1 /\ hpc' = "kill"
         \/ n = NumJudges /\ hi' = 1 /\ hpc' = "recv"
      /\ pid = 0 /\ n # asker => apc' = "gone"
  <2>1. apc = "run" /\ hpc = "kill" /\ UNCHANGED <<jnsfd, jpid, hall, asker, scores, round, jpc, due, inbox>>
    BY DEF HandlerKill
  <2>2. hi \in 1..NumJudges /\ NextIndex("kill", "recv")
    BY DEF HandlerKill, ShowTypes, HandlerTyped
  <2>3. apc' = IF pid = 0 /\ hi # asker THEN "gone" ELSE apc
    BY <1>1, Zenon DEF HandlerKill
  <2> QED BY <1>0, <2>1, <2>2, <2>3 DEF NextIndex
<1>2a. \/ sigs' = sigs
       \/ pid \in Judges /\ jpc[pid] # "gone" /\ n = asker /\ sigs' = Asking(sigs, pid, round)
       \/ pid \in Judges /\ jpc[pid] # "gone" /\ n # asker /\ sigs' = Scoring(sigs, pid, round)
  <2>1. sigs' = IF pid \notin Judges THEN sigs
                ELSE IF jpc[pid] = "gone" THEN sigs
                ELSE IF hi = asker THEN Asking(sigs, pid, round) ELSE Scoring(sigs, pid, round)
    BY <1>1, Zenon DEF HandlerKill, Asking, Scoring
  <2> QED BY <1>0, <2>1
<1>3. /\ n \in Judges /\ round \in 0..MaxRounds /\ round > 0 /\ sigs \in [Judges -> Signals]
      /\ Len(jpid) = Len(jnsfd) /\ Len(jpid) \in Nat
  <2>1. n \in Judges /\ round \in 0..MaxRounds /\ round > 0
    BY <1>0, <1>2 DEF ShowTypes, HandlerTyped
  <2>2. sigs \in [Judges -> Signals]
    BY DEF ShowTypes, JudgesTyped, Signals
  <2>3. Len(jpid) = Len(jnsfd) /\ Len(jpid) \in Nat
    BY DEF ShowTypes, AnchorTyped
  <2> QED BY <2>1, <2>2, <2>3
<1>4. pid \in Judges => pid = n /\ n <= Len(jpid)
  BY <1>0, <1>1, <1>3 DEF ScoreParts, ConnectionsOK, PidAt
<1>5. /\ \A z \in Judges \ {n} : sigs'[z] = sigs[z]
      /\ \/ sigs' = sigs
         \/ /\ n <= Len(jpid) /\ jpc[n] # "gone"
            /\ sigs'[n].usr1 = round /\ n = asker /\ sigs'[n].usr2 = sigs[n].usr2
         \/ /\ n <= Len(jpid) /\ jpc[n] # "gone"
            /\ sigs'[n].usr2 = round /\ n # asker /\ sigs'[n].usr1 = sigs[n].usr1
  <2>1. /\ Asking(sigs, n, round)[n].usr1 = round /\ Asking(sigs, n, round)[n].usr2 = sigs[n].usr2
        /\ Scoring(sigs, n, round)[n].usr2 = round /\ Scoring(sigs, n, round)[n].usr1 = sigs[n].usr1
        /\ \A z \in Judges \ {n} : Asking(sigs, n, round)[z] = sigs[z] /\ Scoring(sigs, n, round)[z] = sigs[z]
    BY <1>3, SignalEntry
  <2> QED BY <1>2a, <1>4, <2>1
<1>6. \A z : /\ Fresh(z)' <=> Fresh(z)
             /\ BehindDead(z)' <=> BehindDead(z)
             /\ Wrote(z)' <=> Wrote(z)
  BY <1>2 DEF Fresh, BehindDead, Dead, Wrote
<1>7. \A z \in Judges \ {n} : /\ Busy(z)' <=> Busy(z)
                              /\ OneScore(z)' <=> OneScore(z)
                              /\ RoundOf(z)' <=> RoundOf(z)
  BY <1>2, <1>5 DEF Busy, Asks, Told, Wrote, OneScore, RoundOf
<1>8. RoundsOK'
  <2>1. RoundOf(n)
    BY <1>3 DEF ScoreParts, RoundsOK
  <2>2. RoundOf(n)'
    BY <1>2, <1>3, <1>5, <2>1 DEF RoundOf
  <2> QED BY <1>7, <2>2 DEF ScoreParts, RoundsOK
<1>9. HallOK'
  BY <1>2, <1>6 DEF ScoreParts, HallOK
<1>10. ConnectionsOK'
  <2>1. Busy(n)' => n <= Len(jpid)
    <3>1. CASE sigs' = sigs
      <4>1. Busy(n)' <=> Busy(n)
        BY <1>2, <3>1 DEF Busy, Asks, Told, Wrote
      <4> QED BY <1>3, <4>1 DEF ScoreParts, ConnectionsOK
    <3> QED BY <1>5, <3>1
  <2>2. \A z \in Judges : Busy(z)' => z <= Len(jpid)
    BY <1>7, <2>1 DEF ScoreParts, ConnectionsOK
  <2> QED BY <1>2, <1>6, <2>2 DEF ScoreParts, ConnectionsOK
<1>11. ASSUME NEW z \in Judges, OneScore(z) /\ InRound(z)  PROVE OneScore(z)' /\ InRound(z)'
  <2>1. CASE z # n
    <3>1. OneScore(z)'
      BY <1>7, <2>1, <1>11
    <3>2. Busy(z)' => z < n
      BY <1>0, <1>2, <1>7, <2>1, <1>11 DEF InRound
    <3>3. InRound(z)'
      BY <1>2, <1>3, <3>2 DEF InRound
    <3> QED BY <3>1, <3>3
  <2>2. CASE z = n
    <3>1. ~Busy(n)
      BY <1>0, <1>2, <1>3, <2>2, <1>11 DEF InRound
    <3>2. InRound(n)'
      BY <1>2, <1>3 DEF InRound
    <3>3. jpc[n] # "gone" => sigs[n].usr1 = 0 /\ sigs[n].usr2 = 0
      BY <3>1 DEF Busy, Asks, Told
    <3>4. /\ jpc[n] \notin {"ask", "score"} /\ ~Wrote(n) /\ jpc' = jpc /\ asker' = asker /\ round' = round
          /\ inbox' = inbox
      BY <1>2, <3>1 DEF Busy, Asks
    <3>5. OneScore(n)'
      <4>1. CASE sigs' = sigs
        BY <1>2, <2>2, <4>1, <1>11 DEF OneScore, Asks, Told, Wrote
      <4>2. CASE sigs'[n].usr1 = round /\ n = asker /\ sigs'[n].usr2 = sigs[n].usr2 /\ jpc[n] # "gone"
        BY <3>3, <3>4, <4>2 DEF OneScore, Asks, Told, Wrote
      <4>3. CASE sigs'[n].usr2 = round /\ sigs'[n].usr1 = sigs[n].usr1 /\ jpc[n] # "gone"
        BY <3>3, <3>4, <4>3 DEF OneScore, Asks, Told, Wrote
      <4> QED BY <1>5, <4>1, <4>2, <4>3
    <3> QED BY <2>2, <3>2, <3>5
  <2> QED BY <2>1, <2>2
<1>12. JudgesOK'
  BY <1>6, <1>11 DEF ScoreParts, JudgesOK
<1>13. HandlerOK'
  <2>1. \A i \in Judges : scores[i] = Unset
    BY <1>2 DEF ScoreParts, HandlerOK
  <2>2. ASSUME apc' # "gone", NEW i \in Judges, i <= n, i > Len(jpid)  PROVE i = asker
    <3>1. CASE i < n
      BY <1>0, <1>2, <2>2, <3>1 DEF ScoreParts, HandlerOK
    <3>2. CASE i = n
      BY <1>0, <1>1, <1>2, <1>3, <2>2, <3>2 DEF PidAt
    <3> QED BY <1>3, <2>2, <3>1, <3>2
  <2>3. CASE n < NumJudges /\ hi' = n + 1 /\ hpc' = "kill"
    <3>1. \A i \in Judges : i < hi' => i <= n
      BY <1>3, <2>3
    <3> QED BY <1>2, <2>1, <2>2, <2>3, <3>1 DEF HandlerOK
  <2>4. CASE n = NumJudges /\ hi' = 1 /\ hpc' = "recv"
    <3>1. \A i \in Judges : i <= n /\ ~(i < 1)
      BY <2>4
    <3>2. \A k \in 1..Len(jnsfd) : 1 <= k
      OBVIOUS
    <3> QED BY <1>2, <2>1, <2>2, <2>4, <3>1, <3>2 DEF HandlerOK
  <2> QED BY <1>2, <2>3, <2>4
<1> QED BY <1>8, <1>9, <1>10, <1>12, <1>13 DEF ScoreParts

(* One recv: the judge's only score, of this round.                        *)
LEMMA RecvScores ==
  ASSUME ShowTypes, ShowTypes', ScoreParts, HandlerRecv
  PROVE  ScoreParts'
<1>0. PICK n : n = hi
  OBVIOUS
<1>1. PICK q : q = jnsfd[n]
  OBVIOUS
<1>2. /\ hpc = "recv" /\ n <= Len(jnsfd) /\ inbox[q] # <<>>
      /\ scores' = [scores EXCEPT ![n] = [by |-> q, round |-> Head(inbox[q])]]
      /\ inbox' = [inbox EXCEPT ![q] = <<>>]
      /\ NextIndex("recv", "announce")
      /\ UNCHANGED <<apc, jnsfd, jpid, hall, asker, round, jpc, sigs, due>>
  BY <1>0, <1>1 DEF HandlerRecv
<1>3. /\ n \in Judges /\ n \in 1..Len(jnsfd) /\ Len(jnsfd) \in Nat /\ Len(jpid) = Len(jnsfd) /\ Len(jnsfd) <= NumJudges
      /\ inbox \in [Judges -> Seq(Nat)] /\ round \in Nat
      /\ scores \in [Judges -> [by : 0..NumJudges, round : Nat]]
  <2>1. n \in Judges /\ round \in Nat /\ scores \in [Judges -> [by : 0..NumJudges, round : Nat]]
    <3>1. hi \in Judges /\ round \in 0..MaxRounds /\ scores \in [Judges -> [by : 0..NumJudges, round : Nat]]
      BY DEF ShowTypes, HandlerTyped
    <3> QED BY <1>0, <3>1
  <2>2. Len(jnsfd) \in Nat /\ Len(jpid) = Len(jnsfd) /\ Len(jnsfd) <= NumJudges
    BY DEF ShowTypes, AnchorTyped
  <2>3. inbox \in [Judges -> Seq(Nat)]
    BY DEF ShowTypes, JudgesTyped
  <2>4. n \in 1..Len(jnsfd)
    BY <1>2, <2>1, <2>2
  <2> QED BY <2>1, <2>2, <2>3, <2>4
<1>4. \/ n < NumJudges /\ hi' = n + 1 /\ hpc' = "recv"
      \/ n = NumJudges /\ hi' = 1 /\ hpc' = "announce"
  BY <1>0, <1>2, <1>3 DEF NextIndex
<1>5. q \in Judges /\ ~Fresh(q)
  BY <1>1, <1>3, Accepted DEF ScoreParts, ConnectionsOK
<1>6. ~BehindDead(q)
  <2>1. ASSUME NEW k \in 1..Len(jnsfd), Dead(k), \A i \in 1..k : jnsfd[i] # q  PROVE FALSE
    <3>1. n <= k
      BY <1>0, <1>2, <2>1 DEF ScoreParts, HandlerOK
    <3> QED BY <1>1, <1>3, <2>1, <3>1
  <2> QED BY <2>1 DEF BehindDead
<1>7. /\ inbox[q] = <<round>> /\ Wrote(q) /\ Busy(q) /\ ~Asks(q) /\ ~Told(q) /\ jpc[q] # "gone"
      /\ q <= Len(jpid) /\ OneScore(q)
  <2>1. OneScore(q) /\ Wrote(q) /\ Busy(q)
    BY <1>2, <1>5, <1>6 DEF ScoreParts, JudgesOK, Wrote, Busy
  <2> QED BY <1>5, <2>1 DEF OneScore, ScoreParts, ConnectionsOK
<1>8. /\ inbox'[q] = <<>> /\ \A z \in Judges \ {q} : inbox'[z] = inbox[z]
      /\ scores'[n] = [by |-> q, round |-> round]
      /\ \A i \in Judges \ {n} : scores'[i] = scores[i]
  BY <1>2, <1>3, <1>5, <1>7, OneElement
<1>9. ~Busy(q)' /\ ~Wrote(q)' /\ ~Fresh(q)' /\ OneScore(q)'
  <2>1. ~Asks(q)' /\ ~Told(q)' /\ ~Wrote(q)' /\ ~Fresh(q)'
    BY <1>2, <1>5, <1>7, <1>8 DEF Asks, Told, Wrote, Fresh
  <2>2. OneScore(q)'
    BY <1>2, <1>7, <2>1 DEF OneScore
  <2> QED BY <2>1, <2>2 DEF Busy
<1>10. \A z \in Judges \ {q} : /\ Busy(z)' <=> Busy(z)
                               /\ Fresh(z)' <=> Fresh(z)
                               /\ OneScore(z)' <=> OneScore(z)
                               /\ RoundOf(z)' <=> RoundOf(z)
  BY <1>2, <1>8 DEF Busy, Asks, Told, Wrote, Fresh, OneScore, RoundOf
<1>11. RoundsOK'
  <2>1. RoundOf(q)'
    BY <1>2, <1>5, <1>8 DEF ScoreParts, RoundsOK, RoundOf
  <2> QED BY <1>10, <2>1 DEF ScoreParts, RoundsOK
<1>12. HallOK' /\ ConnectionsOK'
  <2>1. \A z \in Judges : (Fresh(z)' <=> Fresh(z)) /\ (Busy(z)' => Busy(z)) /\ (Fresh(z) => inbox'[z] = inbox[z])
    BY <1>5, <1>8, <1>9, <1>10
  <2>2. \A k \in 1..Len(hall) : hall[k] \in Judges
    BY ElementOfSeq DEF ShowTypes, AnchorTyped
  <2>3. \A k \in 1..Len(jnsfd) : jnsfd[k] \in Judges
    BY Accepted
  <2>4. HallOK'
    BY <1>2, <2>1, <2>2 DEF ScoreParts, HallOK
  <2>5. ConnectionsOK'
    BY <1>2, <2>1, <2>3 DEF ScoreParts, ConnectionsOK
  <2> QED BY <2>4, <2>5
<1>13. \A k \in 1..Len(jnsfd) : Dead(k)' <=> Dead(k)
  <2>1. TAKE k \in 1..Len(jnsfd)
  <2>2. jnsfd[k] \in Judges
    BY Accepted
  <2> QED BY <1>2, <1>7, <1>8, <2>2 DEF Dead
<1>14. \A z \in Judges : BehindDead(z)' <=> BehindDead(z)
  BY <1>2, <1>13 DEF BehindDead
<1>15. ASSUME NEW z \in Judges, z # q, InRound(z)  PROVE InRound(z)'
  <2>1. SUFFICES ASSUME Busy(z)
                 PROVE  hpc' = "recv" /\ \A i \in 1..Len(jnsfd) : i < hi' => jnsfd[i] # z
    BY <1>2, <1>10, <1>15 DEF InRound
  <2>2. \A i \in 1..Len(jnsfd) : i < n => jnsfd[i] # z
    BY <1>0, <1>2, <1>15, <2>1 DEF InRound
  <2>3. \A i \in 1..Len(jnsfd) : i <= n => jnsfd[i] # z
    BY <1>1, <1>3, <1>15, <2>2
  <2>4. n # NumJudges
    <3>1. ASSUME n = NumJudges  PROVE FALSE
      <4>1. Len(jnsfd) = NumJudges /\ z \in 1..Len(jnsfd)
        BY <1>3, <3>1
      <4>2. \A i \in 1..Len(jnsfd) : jnsfd[i] <= Len(jnsfd)
        BY <4>1, Accepted
      <4>3. \E i \in 1..Len(jnsfd) : jnsfd[i] = z
        BY <4>1, <4>2, EveryoneAccepted DEF ScoreParts
      <4> QED BY <1>3, <2>3, <3>1, <4>1, <4>3
    <3> QED BY <3>1
  <2>5. hi' = n + 1 /\ hpc' = "recv"
    BY <1>4, <2>4
  <2> QED BY <1>3, <2>3, <2>5
<1>16. JudgesOK'
  <2>1. InRound(q)'
    BY <1>9 DEF InRound
  <2> QED BY <1>9, <1>10, <1>14, <1>15, <2>1 DEF ScoreParts, JudgesOK
<1>17. ASSUME NEW i \in Judges, i <= n  PROVE Scored(i)' /\ jnsfd[i] <= Len(jpid)
  <2>1. CASE i = n
    BY <1>1, <1>2, <1>3, <1>7, <1>8, <2>1 DEF Scored
  <2>2. CASE i < n
    <3>1. Scored(i) /\ jnsfd[i] <= Len(jpid)
      BY <1>0, <1>2, <2>2 DEF ScoreParts, HandlerOK
    <3> QED BY <1>2, <1>3, <1>8, <2>2, <3>1 DEF Scored
  <2> QED BY <1>3, <1>17, <2>1, <2>2
<1>18. HandlerOK'
  <2>1. ASSUME NEW k \in 1..Len(jnsfd), Dead(k)  PROVE n < k
    <3>1. n <= k
      BY <1>0, <1>2, <2>1 DEF ScoreParts, HandlerOK
    <3>2. k # n
      BY <1>1, <1>2, <2>1 DEF Dead
    <3> QED BY <1>3, <3>1, <3>2
  <2>2. \A i \in Judges : i > n => scores'[i] = Unset
    BY <1>0, <1>2, <1>3, <1>8 DEF ScoreParts, HandlerOK
  <2>3. CASE n < NumJudges /\ hi' = n + 1 /\ hpc' = "recv"
    <3>1. apc' # "gone" => \A i \in Judges : i > Len(jpid) => i = asker
      BY <1>2 DEF ScoreParts, HandlerOK
    <3>2. \A k \in 1..Len(jnsfd) : Dead(k)' => hi' <= k
      BY <1>3, <1>13, <2>1, <2>3
    <3>3. \A i \in Judges : IF i < hi' THEN Scored(i)' /\ jnsfd[i] <= Len(jpid) ELSE scores'[i] = Unset
      BY <1>3, <1>17, <2>2, <2>3
    <3> QED BY <1>2, <2>3, <3>1, <3>2, <3>3 DEF HandlerOK
  <2>4. CASE n = NumJudges /\ hi' = 1 /\ hpc' = "announce"
    <3>1. \A i \in Judges : Scored(i)'
      BY <1>17, <2>4
    <3>2. \A i \in Judges : scores'[i] # Unset
      <4>1. TAKE i \in Judges
      <4>2. i <= Len(jnsfd) /\ scores'[i].by = jnsfd[i]
        BY <1>2, <3>1 DEF Scored
      <4>3. jnsfd[i] \in Judges
        BY <4>2, Accepted
      <4> QED BY <4>2, <4>3
    <3> QED BY <2>4, <3>1, <3>2 DEF HandlerOK
  <2> QED BY <1>4, <2>3, <2>4
<1> QED BY <1>11, <1>12, <1>16, <1>18 DEF ScoreParts

(* The loop breaks off, or was not entered for lack of a socket.           *)
LEMMA BreakScores ==
  ASSUME ShowTypes, ShowTypes', ScoreParts, HandlerBreak
  PROVE  ScoreParts'
<1>0. PICK n : n = hi
  OBVIOUS
<1>1. /\ hpc = "recv" /\ hpc' = "announce" /\ (n > Len(jnsfd) \/ (n <= Len(jnsfd) /\ Dead(n)))
      /\ UNCHANGED <<apc, jnsfd, jpid, hall, hi, asker, scores, round, jpc, sigs, due, inbox>>
  <2>1. hi > Len(jnsfd) \/ (hi <= Len(jnsfd) /\ Dead(hi))
    BY DEF HandlerBreak, Dead
  <2>2. /\ hpc = "recv" /\ hpc' = "announce"
        /\ UNCHANGED <<apc, jnsfd, jpid, hall, hi, asker, scores, round, jpc, sigs, due, inbox>>
    BY DEF HandlerBreak
  <2>3. n > Len(jnsfd) \/ (n <= Len(jnsfd) /\ Dead(n))
    BY <1>0, <2>1
  <2> QED BY <2>2, <2>3
<1>2. n \in Judges /\ Len(jnsfd) \in Nat /\ Len(jpid) = Len(jnsfd)
  BY <1>0 DEF ShowTypes, HandlerTyped, AnchorTyped
<1>3. \A z : /\ Fresh(z)' <=> Fresh(z)
             /\ Busy(z)' <=> Busy(z)
             /\ OneScore(z)' <=> OneScore(z)
             /\ RoundOf(z)' <=> RoundOf(z)
             /\ BehindDead(z)' <=> BehindDead(z)
             /\ Scored(z)' <=> Scored(z)
             /\ Dead(z)' <=> Dead(z)
  BY <1>1 DEF Fresh, Busy, Asks, Told, Wrote, OneScore, RoundOf, BehindDead, Dead, Scored
<1>4. RoundsOK' /\ HallOK' /\ ConnectionsOK'
  BY <1>1, <1>3 DEF ScoreParts, RoundsOK, HallOK, ConnectionsOK
<1>5. ASSUME NEW z \in Judges, OneScore(z) /\ InRound(z), Busy(z)  PROVE BehindDead(z)
  <2>1. \A i \in 1..Len(jnsfd) : i < n => jnsfd[i] # z
    BY <1>0, <1>1, <1>5 DEF InRound
  <2>2. CASE n <= Len(jnsfd) /\ Dead(n)
    <3>1. jnsfd[n] # z
      BY <1>5, <2>2 DEF Dead, Busy, Asks, Told, Wrote
    <3>2. n \in 1..Len(jnsfd) /\ \A i \in 1..n : jnsfd[i] # z
      BY <1>2, <2>1, <2>2, <3>1
    <3> QED BY <2>2, <3>2 DEF BehindDead
  <2>3. CASE n > Len(jnsfd)
    <3>1. \A i \in 1..Len(jnsfd) : jnsfd[i] # z
      BY <1>2, <2>1, <2>3
    <3>2. z \in 1..Len(jnsfd)
      BY <1>2, <1>5 DEF ScoreParts, ConnectionsOK
    <3>3. \A i \in 1..Len(jnsfd) : jnsfd[i] <= Len(jnsfd)
      BY <1>0, <1>1, <1>2, <2>3 DEF ScoreParts, HandlerOK
    <3> QED BY <3>1, <3>2, <3>3, EveryoneAccepted DEF ScoreParts
  <2> QED BY <1>1, <2>2, <2>3
<1>6. JudgesOK'
  <2>1. \A z \in Judges : ~Busy(z) => InRound(z)'
    BY <1>3 DEF InRound
  <2> QED BY <1>3, <1>5, <2>1 DEF ScoreParts, JudgesOK
<1>7. HandlerOK'
  <2>1. \A i \in Judges : scores[i] = Unset \/ Scored(i)
    BY <1>1 DEF ScoreParts, HandlerOK
  <2>2. Len(jnsfd) < NumJudges \/ \E k \in 1..Len(jnsfd) : Dead(k)
    BY <1>1, <1>2
  <2> QED BY <1>1, <1>3, <2>1, <2>2 DEF HandlerOK
<1> QED BY <1>4, <1>6, <1>7 DEF ScoreParts

(* The scores are announced.                                               *)
LEMMA AnnounceScores ==
  ASSUME ShowTypes, ScoreParts, HandlerAnnounce
  PROVE  ScoreParts'
<1>1. /\ hpc = "announce" /\ hpc' = "none"
      /\ UNCHANGED <<apc, jnsfd, jpid, hall, hi, asker, scores, round, jpc, sigs, due, inbox>>
  BY DEF HandlerAnnounce
<1>2. \A z : /\ Fresh(z)' <=> Fresh(z)
             /\ Busy(z)' <=> Busy(z)
             /\ OneScore(z)' <=> OneScore(z)
             /\ RoundOf(z)' <=> RoundOf(z)
             /\ BehindDead(z)' <=> BehindDead(z)
  BY <1>1 DEF Fresh, Busy, Asks, Told, Wrote, OneScore, RoundOf, BehindDead, Dead
<1>3. RoundsOK' /\ HallOK' /\ ConnectionsOK'
  BY <1>1, <1>2 DEF ScoreParts, RoundsOK, HallOK, ConnectionsOK
<1>4. JudgesOK'
  <2>1. \A z \in Judges : InRound(z) => InRound(z)'
    BY <1>1, <1>2 DEF InRound
  <2> QED BY <1>2, <2>1 DEF ScoreParts, JudgesOK
<1>5. HandlerOK'
  BY <1>1 DEF HandlerOK
<1> QED BY <1>3, <1>4, <1>5 DEF ScoreParts

(* A performer answers only a judge that called, and stays connected.      *)
LEMMA AnsweringKept ==
  ASSUME ShowTypes, Answering, ShowNext
  PROVE  Answering'
<1>1. ASSUME UNCHANGED <<ppc, callers>>  PROVE Answering'
  BY <1>1 DEF Answering
<1>2. ASSUME NEW p \in Performers, callers' = callers, NEW s, s # "answer",
             ppc' = [ppc EXCEPT ![p] = s] \/ ppc' = ppc
      PROVE  Answering'
  BY <1>2 DEF Answering, ShowTypes, PerformersTyped
<1>3. CASE Stage
  BY <1>1, <1>3 DEF Stage, StageStart, StageAccept, StageRecv, StageSignal
<1>4. ASSUME NEW p \in Performers, PerformerStart(p) \/ PerformerTypes(p) \/ PerformerQuits(p) \/ Performer(p) \/ PerformerPipe(p)
      PROVE  Answering'
  <2>1. CASE PerformerAccept(p)
    BY <2>1 DEF PerformerAccept, Answering, ShowTypes, PerformersTyped
  <2>2. CASE PerformerStart(p)
    <3>1. callers' = callers /\ (ppc' = [ppc EXCEPT ![p] = "gone"] \/ ppc' = [ppc EXCEPT ![p] = "perform"])
      BY <2>2 DEF PerformerStart
    <3> QED BY <1>2, <3>1
  <2>3. CASE PerformerTypes(p)
    <3>1. callers' = callers /\ (ppc' = [ppc EXCEPT ![p] = "bind"] \/ ppc' = ppc)
      BY <2>3 DEF PerformerTypes
    <3> QED BY <1>1, <1>2, <3>1
  <2>4. CASE PerformerQuits(p)
    <3>1. callers' = callers /\ ppc' = [ppc EXCEPT ![p] = "gone"]
      BY <2>4 DEF PerformerQuits
    <3> QED BY <1>2, <3>1
  <2>5. CASE PerformerBind(p)
    <3>1. callers' = callers /\ ppc' = [ppc EXCEPT ![p] = "accept"]
      BY <2>5 DEF PerformerBind
    <3> QED BY <1>2, <3>1
  <2>6. CASE PerformerAnswers(p)
    <3>1. callers' = callers /\ (ppc' = [ppc EXCEPT ![p] = "gone"] \/ ppc' = ppc)
      BY <2>6 DEF PerformerAnswers
    <3> QED BY <1>1, <1>2, <3>1
  <2>7. CASE PerformerPipe(p)
    <3>1. callers' = callers /\ ppc' = [ppc EXCEPT ![p] = "gone"]
      BY <2>7 DEF PerformerPipe
    <3> QED BY <1>2, <3>1
  <2> QED BY <1>4, <2>1, <2>2, <2>3, <2>4, <2>5, <2>6, <2>7 DEF Performer
<1>5. CASE AnchorStart \/ AnchorAccept \/ sig_s_handler
  BY <1>1, <1>5 DEF AnchorStart, AnchorAccept, sig_s_handler, HandlerStart, HandlerKill,
     HandlerRecv, HandlerBreak, HandlerAnnounce
<1>6. ASSUME NEW j \in Judges, Judge(j)  PROVE Answering'
  <2>1. CASE AskConnect(j)
    <3>1. ppc' = ppc /\ (callers' = callers \/ callers' = [callers EXCEPT ![path] = Append(@, j)])
      BY <2>1 DEF AskConnect
    <3>2. \A p \in Performers : callers[p] # <<>> => callers'[p] # <<>>
      <4>1. \A p \in Performers : callers[p] \in Seq(Judges)
        BY DEF ShowTypes, SocketsTyped
      <4>2. \A p \in Performers : Append(callers[p], j) # <<>>
        BY <4>1
      <4>3. callers \in [Performers -> Seq(Judges)]
        BY DEF ShowTypes, SocketsTyped
      <4> QED BY <3>1, <4>2, <4>3
    <3> QED BY <3>1, <3>2 DEF Answering
  <2> QED BY <1>1, <1>6, <2>1 DEF Judge, JudgeStart, JudgeConnect, JudgeKilled, JudgeTypes, sig_A1_handler, AskScore, sig_A2_handler
<1> QED BY <1>3, <1>4, <1>5, <1>6 DEF ShowNext, j1, j2

(* Which judge takes a step.                                               *)
LEMMA ShowSteps ==
  ASSUME ShowNext
  PROVE  \/ Stage
         \/ \E p \in Performers : PerformerStart(p) \/ PerformerTypes(p) \/ PerformerQuits(p) \/ Performer(p) \/ PerformerPipe(p)
         \/ AnchorStart \/ AnchorAccept \/ sig_s_handler
         \/ \E j \in Judges : Judge(j)
BY DEF ShowNext, j1, j2

(* Every step keeps the scores in order.                                   *)
LEMMA ScoreStep ==
  ASSUME ScoreInv, [ShowNext]_showVars
  PROVE  ScoreInv'
<1>1. CASE UNCHANGED showVars
  <2>1. ShowTypes'
    BY <1>1, SameTypes DEF showVars, ScoreInv, ShowTypes
  <2>2. ScoreParts'
    BY <1>1, QuietScores DEF showVars, ScoreInv, ScoreParts
  <2>3. Answering'
    BY <1>1 DEF showVars, ScoreInv, Answering
  <2> QED BY <2>1, <2>2, <2>3 DEF ScoreInv, ScoreParts
<1>2. CASE ShowNext
  <2>0. ShowTypes /\ Answering /\ ScoreParts
    BY DEF ScoreInv, ScoreParts
  <2>1. Answering'
    BY <1>2, <2>0, AnsweringKept
  <2>2. CASE Stage
    <3>1. UNCHANGED <<apc, jnsfd, jpid, hall, hpc, hi, asker, scores, round, jpc, sigs, due, inbox>>
      BY <2>2 DEF Stage, StageStart, StageAccept, StageRecv, StageSignal
    <3> QED BY <2>0, <2>1, <2>2, <3>1, StageTypes, QuietScores DEF ScoreInv, ScoreParts
  <2>3. ASSUME NEW p \in Performers, PerformerStart(p) \/ PerformerTypes(p) \/ PerformerQuits(p) \/ Performer(p) \/ PerformerPipe(p)
        PROVE  ScoreInv'
    <3>1. UNCHANGED <<apc, jnsfd, jpid, hall, hpc, hi, asker, scores, round, jpc, sigs, due, inbox>>
      BY <2>3 DEF Performer, PerformerStart, PerformerTypes, PerformerQuits, PerformerPipe,
         PerformerBind, PerformerAccept, PerformerAnswers
    <3> QED BY <2>0, <2>1, <2>3, <3>1, PerformersTypes, QuietScores DEF ScoreInv, ScoreParts
  <2>4. CASE AnchorStart \/ AnchorAccept \/ sig_s_handler
    <3>1. ShowTypes'
      BY <2>0, <2>4, AnchorTypes
    <3>2. ASSUME AnchorStart  PROVE ScoreParts'
      <4>1. apc # "gone" /\ UNCHANGED <<jnsfd, jpid, hall, hpc, hi, asker, scores, round, jpc, sigs, due, inbox>>
        BY <3>2 DEF AnchorStart
      <4> QED BY <2>0, <4>1, QuietScores
    <3>3. ScoreParts'
      BY <2>0, <2>4, <3>1, <3>2, AcceptScores, StartScores, KillScores, RecvScores, BreakScores,
         AnnounceScores DEF sig_s_handler
    <3> QED BY <2>1, <3>1, <3>3 DEF ScoreInv, ScoreParts
  <2>5. ASSUME NEW j \in Judges, Judge(j)  PROVE ScoreInv'
    <3>1. ShowTypes'
      BY <2>0, <2>5, JudgeTypesKept
    <3>2. ScoreParts'
      BY <2>0, <2>5, <3>1, JudgeScores
    <3> QED BY <2>1, <3>1, <3>2 DEF ScoreInv, ScoreParts
  <2> QED BY <1>2, <2>2, <2>3, <2>4, <2>5, ShowSteps
<1> QED BY <1>1, <1>2

(* At the start nothing has been asked.                                    *)
LEMMA ScoreStart ==
  ASSUME ShowInit
  PROVE  ScoreInv
<1>1. ShowTypes
  <2>1. StageTyped /\ PerformersTyped /\ SocketsTyped /\ AnchorTyped
    <3>1. StageTyped
      BY DEF ShowInit, StageTyped
    <3>2. PerformersTyped
      <4>1. ppc \in [Performers -> {"off", "perform", "bind", "accept", "answer", "gone"}]
        BY DEF ShowInit
      <4>2. toStage \in [Performers -> Seq(Words)] /\ typed \in [Performers -> Nat]
        BY DEF ShowInit
      <4>3. path = NoPid /\ quits = 0 /\ overlap = FALSE
        BY DEF ShowInit
      <4> QED BY <4>1, <4>2, <4>3 DEF PerformersTyped
    <3>3. SocketsTyped
      BY DEF ShowInit, SocketsTyped
    <3>4. AnchorTyped
      BY DEF ShowInit, AnchorTyped
    <3> QED BY <3>1, <3>2, <3>3, <3>4
  <2>2. HandlerTyped
    <3>1. scores = [i \in Judges |-> Unset] /\ Unset \in [by : 0..NumJudges, round : Nat]
      BY DEF ShowInit
    <3>2. scores \in [Judges -> [by : 0..NumJudges, round : Nat]]
      BY <3>1
    <3>3. hpc = "none" /\ hi = 1 /\ asker = 1 /\ 1 \in Judges /\ round = 0 /\ 0 \in 0..MaxRounds /\ again = FALSE
      BY DEF ShowInit
    <3> QED BY <3>2, <3>3 DEF HandlerTyped
  <2>3. JudgesTyped
    BY DEF ShowInit, JudgesTyped
  <2> QED BY <2>1, <2>2, <2>3 DEF ShowTypes
<1>2. \A j \in Judges : /\ jpc[j] = "off" /\ sigs[j].usr1 = 0 /\ sigs[j].usr2 = 0 /\ inbox[j] = <<>>
                        /\ ~Busy(j) /\ RoundOf(j) /\ OneScore(j) /\ InRound(j)
  <2>1. TAKE j \in Judges
  <2>2. jpc[j] = "off" /\ sigs[j].usr1 = 0 /\ sigs[j].usr2 = 0 /\ inbox[j] = <<>> /\ round = 0
    BY DEF ShowInit
  <2>3. ~Asks(j) /\ ~Told(j) /\ ~Wrote(j)
    BY <2>2 DEF Asks, Told, Wrote
  <2> QED BY <2>2, <2>3 DEF Busy, RoundOf, OneScore, InRound
<1>3. Answering /\ RoundsOK /\ HallOK /\ ConnectionsOK /\ JudgesOK /\ HandlerOK
  BY <1>2 DEF ShowInit, Answering, RoundsOK, HallOK, ConnectionsOK, JudgesOK, HandlerOK
<1> QED BY <1>1, <1>3 DEF ScoreInv

(* The invariant of the rounds holds in every state that the show reaches, *)
(* for any number of judges, performers and rounds.                        *)
THEOREM ScoresInv == ShowSpec => []ScoreInv
<1>1. ShowInit => ScoreInv
  BY ScoreStart
<1>2. ScoreInv /\ [ShowNext]_showVars => ScoreInv'
  BY ScoreStep
<1> QED BY <1>1, <1>2, PTL DEF ShowSpec

(* The types of the show's processes, sockets and signals (s.c, a.c, p.c,  *)
(* j1.c, j2.c), for any number of judges and performers.                   *)
THEOREM StageTypesKept == ShowSpec => []ShowTypeOK
<1>1. ScoreInv => ShowTypeOK
  BY DEF ScoreInv, ShowTypes, StageTyped, PerformersTyped, AnchorTyped, HandlerTyped,
     JudgesTyped, RoundsOK, RoundOf, ShowTypeOK
<1> QED BY <1>1, ScoresInv, PTL

(* For any number of judges, performers and rounds and whichever of them   *)
(* are missing, die or come early: a score that the anchor announces comes *)
(* from the connection it is printed for and was given in this round,      *)
(* never left over from an earlier one (a.c:98-121).                       *)
THEOREM ScoresAreTheRounds == ShowSpec => []AnnouncedScores
<1>1. ASSUME ScoreInv  PROVE AnnouncedScores
  <2>1. SUFFICES ASSUME hpc = "announce", NEW i \in Judges
                 PROVE  IF scores[i] = Unset THEN ~Healthy ELSE scores[i].by = jnsfd[i] /\ scores[i].round = round
    BY DEF AnnouncedScores
  <2>2. HandlerOK /\ ShowTypes
    BY <1>1 DEF ScoreInv
  <2>3. CASE scores[i] = Unset
    <3>1. Len(jnsfd) < NumJudges \/ \E k \in 1..Len(jnsfd) : Dead(k)
      BY <2>1, <2>2, <2>3 DEF HandlerOK
    <3>2. \A k \in 1..Len(jnsfd) : jnsfd[k] \in Judges
      BY <2>2, Accepted
    <3>3. Len(jnsfd) \in Nat
      BY <2>2 DEF ShowTypes, AnchorTyped
    <3>4. ~Healthy
      BY <3>1, <3>2, <3>3 DEF Healthy, Dead
    <3> QED BY <2>3, <3>4
  <2>4. CASE scores[i] # Unset
    BY <2>1, <2>2, <2>4 DEF HandlerOK, Scored
  <2> QED BY <2>3, <2>4
<1> QED BY <1>1, ScoresInv, PTL

(* What is missing or mixed up stays so.                                   *)
LEMMA InOrderBefore ==
  ASSUME ShowTypes, ShowNext, InOrder'
  PROVE  InOrder
<1>0. /\ jpc \in [Judges -> {"off", "started", "idle", "ask", "score", "gone"}]
      /\ jpid \in Seq(0..NumJudges \cup {NoPid}) /\ quits \in Nat /\ overlap \in BOOLEAN
  BY DEF ShowTypes, JudgesTyped, AnchorTyped, PerformersTyped
<1>1. ASSUME UNCHANGED <<jpc, jpid, apc>>, overlap => overlap', quits' \in {quits, quits + 1}  PROVE InOrder
  BY <1>0, <1>1 DEF InOrder
<1>2. CASE Stage
  <2>1. UNCHANGED <<jpc, jpid, apc, overlap, quits>>
    BY <1>2 DEF Stage, StageStart, StageAccept, StageRecv, StageSignal
  <2> QED BY <1>1, <2>1
<1>3. ASSUME NEW p \in Performers, PerformerStart(p) \/ PerformerTypes(p) \/ PerformerQuits(p) \/ Performer(p) \/ PerformerPipe(p)
      PROVE  InOrder
  <2>0. UNCHANGED <<jpc, jpid, apc>>
    BY <1>3 DEF Performer, PerformerStart, PerformerTypes, PerformerQuits, PerformerPipe,
       PerformerBind, PerformerAccept, PerformerAnswers
  <2>0a. overlap' = overlap \/ PerformerBind(p)
    BY <1>3 DEF Performer, PerformerStart, PerformerTypes, PerformerQuits, PerformerPipe,
       PerformerAccept, PerformerAnswers
  <2>0b. overlap => overlap'
    BY <2>0a, Zenon DEF PerformerBind
  <2>0c. quits' \in {quits, quits + 1}
    BY <1>3 DEF Performer, PerformerStart, PerformerTypes, PerformerQuits, PerformerPipe,
       PerformerBind, PerformerAccept, PerformerAnswers
  <2>1. UNCHANGED <<jpc, jpid, apc>> /\ (overlap => overlap') /\ quits' \in {quits, quits + 1}
    BY <2>0, <2>0b, <2>0c
  <2> QED BY <1>1, <2>1
<1>4. CASE AnchorStart \/ sig_s_handler
  <2>1. UNCHANGED <<jpc, jpid, overlap, quits>> /\ apc # "gone"
    BY <1>4 DEF AnchorStart, sig_s_handler, HandlerStart, HandlerKill, HandlerRecv,
       HandlerBreak, HandlerAnnounce
  <2> QED BY <2>1 DEF InOrder
<1>5. CASE AnchorAccept
  <2>1. PICK pid \in pidof(Len(jnsfd) + 1) : jpid' = Append(jpid, pid) /\ apc = "run" /\ UNCHANGED <<jpc, overlap, quits>>
    BY <1>5 DEF AnchorAccept
  <2>2. Len(jpid') = Len(jpid) + 1 /\ \A i \in 1..Len(jpid) : jpid'[i] = jpid[i]
    <3>1. pid \in 0..NumJudges \cup {NoPid}
      BY <1>5, <2>1 DEF pidof, AnchorAccept, ShowTypes, AnchorTyped
    <3> QED BY <1>0, <2>1, <3>1, AppendElements
  <2>3. \A i \in 1..Len(jpid) : i \in 1..Len(jpid')
    BY <1>0, <2>2
  <2> QED BY <2>1, <2>2, <2>3 DEF InOrder
<1>6. ASSUME NEW j \in Judges, Judge(j)  PROVE InOrder
  <2>1. UNCHANGED <<apc, jpid, overlap, quits>> /\ jpc[j] # "gone"
    BY <1>6 DEF Judge, JudgeStart, JudgeConnect, JudgeKilled, JudgeTypes, sig_A1_handler,
       AskConnect, AskScore, sig_A2_handler
  <2>2. jpc' = jpc \/ \E s : jpc' = [jpc EXCEPT ![j] = s]
    BY <1>6 DEF Judge, JudgeStart, JudgeConnect, JudgeKilled, JudgeTypes, sig_A1_handler,
       AskConnect, AskScore, sig_A2_handler
  <2>3. \A z \in Judges \ {j} : jpc'[z] = jpc[z]
    BY <1>0, <2>2
  <2> QED BY <2>1, <2>3 DEF InOrder
<1> QED BY <1>2, <1>3, <1>4, <1>5, <1>6, ShowSteps

(* While nobody is missing every judge has its part in the round.          *)
LEMMA AllHere ==
  ASSUME ScoreInv, InOrder, NEW j \in Judges
  PROVE  OneScore(j) /\ InRound(j) /\ jpc[j] # "gone"
<1>1. ~BehindDead(j)
  BY Accepted DEF BehindDead, Dead, InOrder, ScoreInv
<1> QED BY <1>1 DEF ScoreInv, JudgesOK, InOrder

(* Only the asker has been asked to ask, and only when its turn has come.  *)
LEMMA OnlyAsker ==
  ASSUME ScoreInv, InOrder, NEW j \in Judges, sigs[j].usr1 # 0
  PROVE  j = asker /\ ~ToSignal /\ jpc[j] \notin {"ask", "score"}
<1>1. Asks(j) /\ Busy(j) /\ OneScore(j) /\ InRound(j)
  BY AllHere DEF Asks, Busy
<1>2. j = asker /\ jpc[j] \notin {"ask", "score"}
  BY <1>1 DEF OneScore
<1>3. hpc = "kill" => j < hi
  BY <1>1 DEF InRound
<1>4. hi \in Judges
  BY DEF ScoreInv, ShowTypes, HandlerTyped
<1> QED BY <1>2, <1>3, <1>4 DEF ToSignal

(* Steps of the anchor and the judges that are no part of the play.        *)
LEMMA PlayFrame ==
  ASSUME PlayOK, UNCHANGED <<stageVars, perfVars, udsVars, talk>>,
         Called' => Called, ApidOK', SignalOK', \A j \in Judges : jpc'[j] = "ask" => jpc[j] = "ask"
  PROVE  PlayOK'
<1>1. CalledOK'
  BY DEF PlayOK, CalledOK
<1>2. QuestionsOK'
  BY DEF PlayOK, QuestionsOK, AskOK, CallersOK
<1>3. StageOK'
  BY DEF PlayOK, StageOK
<1>4. spc' # "gone" => DoorOK' /\ ListenOK'
  BY DEF PlayOK, DoorOK, InDoor, ListenOK, Earlier
<1> QED BY <1>1, <1>2, <1>3, <1>4 DEF PlayOK

(* The play goes on when the anchor or its handler makes a step: its       *)
(* SIGUSR1 to the asker is what turns the stage's signal into a question.  *)
LEMMA AnchorPlay ==
  ASSUME ScoreInv, ScoreInv', InOrder, InOrder', PlayOK, AnchorStart \/ AnchorAccept \/ sig_s_handler
  PROVE  PlayOK'
<1>0. hi \in Judges /\ asker \in Judges /\ round \in Nat /\ asker' \in Judges /\ (hpc # "none" => round > 0)
  BY DEF ScoreInv, ShowTypes, HandlerTyped
<1>1. CASE AnchorStart \/ AnchorAccept
  <2>1. UNCHANGED <<stageVars, perfVars, udsVars, talk, again, round, hpc, hi, asker, sigs, jpc>>
    BY <1>1 DEF AnchorStart, AnchorAccept
  <2>2. (Called' <=> Called) /\ ApidOK' /\ SignalOK'
    BY <2>1 DEF PlayOK, Called, ToSignal, ApidOK, SignalOK
  <2> QED BY <2>1, <2>2, PlayFrame
<1>2. CASE HandlerStart
  <2>1. /\ again /\ again' = FALSE /\ UNCHANGED <<stageVars, perfVars, udsVars, talk, sigs, jpc>>
    BY <1>2 DEF HandlerStart
  <2>2. Called /\ apid = AnchorPid
    BY <2>1 DEF Called, PlayOK, ApidOK
  <2>3. ApidOK' /\ SignalOK'
    BY <2>1, <2>2 DEF PlayOK, ApidOK, SignalOK
  <2> QED BY <2>1, <2>2, <2>3, PlayFrame
<1>3. CASE HandlerRecv \/ HandlerBreak \/ HandlerAnnounce
  <2>1. UNCHANGED <<stageVars, perfVars, udsVars, talk, again, round, sigs, jpc>> /\ hpc' # "kill"
    BY <1>3 DEF HandlerRecv, HandlerBreak, HandlerAnnounce, NextIndex
  <2>2. (Called' => Called) /\ ApidOK' /\ SignalOK'
    BY <2>1 DEF PlayOK, Called, ToSignal, ApidOK, SignalOK
  <2> QED BY <2>1, <2>2, PlayFrame
<1>4. CASE HandlerKill
  <2>0. PICK n : n = hi
    OBVIOUS
  <2>1. PICK pid : pid = PidAt(hi)
    OBVIOUS
  <2>2. /\ hpc = "kill" /\ UNCHANGED <<stageVars, perfVars, udsVars, talk, asker, round, jpc>>
        /\ \/ n < NumJudges /\ hi' = n + 1 /\ hpc' = "kill"
           \/ n = NumJudges /\ hi' = 1 /\ hpc' = "recv"
    BY <1>0, <1>4, <2>0 DEF HandlerKill, NextIndex
  <2>3. again' = (again \/ (pid = 0 /\ hi = asker))
    BY <1>4, <2>1, Zenon DEF HandlerKill
  <2>4. sigs' = IF pid \notin Judges THEN sigs
                ELSE IF jpc[pid] = "gone" THEN sigs
                ELSE IF hi = asker THEN Asking(sigs, pid, round) ELSE Scoring(sigs, pid, round)
    BY <1>4, <2>1, Zenon DEF HandlerKill, Asking, Scoring
  <2>5. round \in 0..MaxRounds /\ sigs \in [Judges -> Signals]
    BY DEF ScoreInv, ShowTypes, HandlerTyped, JudgesTyped, Signals
  <2>6. ToSignal' => n < asker
    BY <1>0, <2>0, <2>2 DEF ToSignal
  <2>7. n < asker \/ n = asker => ToSignal
    BY <1>0, <2>0, <2>2 DEF ToSignal
  <2>8. CASE n = asker
    <3>1. ToSignal /\ ~ToSignal' /\ Called /\ ~again /\ \A j \in Judges : sigs[j].usr1 = 0
      BY <1>0, <2>6, <2>7, <2>8, OnlyAsker DEF Called, PlayOK, SignalOK
    <3>2. ApidOK'
      BY <1>0, <2>2 DEF PlayOK, ApidOK
    <3>3. SignalOK'
      <4>1. again' => sigs' = sigs
        <5>1. again' => pid = 0
          BY <2>3, <3>1, Zenon
        <5>2. pid = 0 => sigs' = sigs
          BY <2>4
        <5> QED BY <5>1, <5>2
      <4> QED BY <3>1, <4>1 DEF SignalOK
    <3> QED BY <2>2, <3>1, <3>2, <3>3, PlayFrame
  <2>9. CASE n # asker
    <3>1. again' = again
      <4>1. again \in BOOLEAN
        BY DEF ScoreInv, ShowTypes, HandlerTyped
      <4>2. hi # asker
        BY <2>0, <2>9
      <4> QED BY <2>3, <4>1, <4>2, Zenon
    <3>2. \A j \in Judges : sigs'[j].usr1 = sigs[j].usr1
      <4>1. sigs' = sigs \/ (pid \in Judges /\ sigs' = Scoring(sigs, pid, round))
        BY <2>0, <2>4, <2>9
      <4>2. ASSUME pid \in Judges, sigs' = Scoring(sigs, pid, round)
            PROVE  \A j \in Judges : sigs'[j].usr1 = sigs[j].usr1
        <5>1. /\ sigs'[pid].usr1 = sigs[pid].usr1
              /\ \A z \in Judges \ {pid} : sigs'[z] = sigs[z]
          BY <2>5, <4>2, SignalEntry
        <5> QED BY <5>1
      <4> QED BY <4>1, <4>2
    <3>3. ToSignal' => ToSignal
      BY <2>6, <2>7
    <3>4. Called' => Called
      BY <3>1, <3>2, <3>3 DEF Called
    <3>5. ApidOK' /\ SignalOK'
      BY <2>2, <3>1, <3>2, <3>3 DEF PlayOK, ApidOK, SignalOK
    <3> QED BY <2>2, <3>4, <3>5, PlayFrame
  <2> QED BY <2>8, <2>9
<1> QED BY <1>1, <1>2, <1>3, <1>4 DEF sig_s_handler

(* The play goes on when a judge makes a step: only the judge that was     *)
(* signalled connects, and it finds the performer on the stage.            *)
LEMMA JudgePlay ==
  ASSUME ScoreInv, ScoreInv', InOrder, InOrder', PlayOK, NEW j \in Judges, Judge(j)
  PROVE  PlayOK'
<1>0. /\ jpc \in [Judges -> {"off", "started", "idle", "ask", "score", "gone"}]
      /\ sigs \in [Judges -> Signals] /\ talk \in [Judges -> Performers \cup {NoPid}]
      /\ chan \in [Judges -> Seq(Words)] /\ callers \in [Performers -> Seq(Judges)]
  BY DEF ScoreInv, ShowTypes, JudgesTyped, SocketsTyped, Signals
<1>1. jpc'[j] # "gone"
  BY DEF InOrder
<1>2. ASSUME UNCHANGED <<stageVars, perfVars, udsVars, talk, handlerVars>>,
             \A z \in Judges : sigs'[z].usr1 = sigs[z].usr1,
             \A z \in Judges : jpc'[z] = "ask" => jpc[z] = "ask"
      PROVE  PlayOK'
  <2>1. Called' => Called
    BY <1>2 DEF Called, ToSignal
  <2>2. ApidOK' /\ SignalOK'
    BY <1>2 DEF PlayOK, ApidOK, SignalOK, ToSignal
  <2> QED BY <1>2, <2>1, <2>2, PlayFrame
<1>3. CASE JudgeStart(j) \/ JudgeConnect(j) \/ AskScore(j)
  <2>1. /\ UNCHANGED <<stageVars, perfVars, udsVars, talk, handlerVars, sigs>>
        /\ \E s : s # "ask" /\ jpc' = [jpc EXCEPT ![j] = s]
    BY <1>3 DEF JudgeStart, JudgeConnect, AskScore
  <2>2. \A z \in Judges : jpc'[z] = "ask" => jpc[z] = "ask"
    BY <1>0, <2>1
  <2> QED BY <1>2, <2>1, <2>2
<1>4. CASE JudgeKilled(j)
  BY <1>0, <1>1, <1>4 DEF JudgeKilled
<1>5. CASE sig_A2_handler(j)
  <2>1. /\ UNCHANGED <<stageVars, perfVars, udsVars, talk, handlerVars, jpc>>
        /\ sigs' = [sigs EXCEPT ![j].usr2 = 0]
    BY <1>5 DEF sig_A2_handler
  <2>2. /\ sigs'[j].usr1 = sigs[j].usr1
        /\ \A z \in Judges \ {j} : sigs'[z] = sigs[z]
    <3>1. 0 \in 0..MaxRounds
      OBVIOUS
    <3> QED BY <1>0, <2>1, <3>1, OneSignal
  <2> QED BY <1>2, <2>1, <2>2
<1>6. CASE AskConnect(j)
  <2>1. /\ jpc[j] = "idle" /\ sigs[j].usr1 # 0 /\ UNCHANGED <<stageVars, perfVars, handlerVars>>
        /\ sigs' = [sigs EXCEPT ![j].usr1 = 0]
    BY <1>6 DEF AskConnect
  <2>2. /\ path # NoPid /\ ppc[path] \in {"accept", "answer"}
        /\ jpc' = [jpc EXCEPT ![j] = "ask"]
        /\ talk' = [talk EXCEPT ![j] = path] /\ chan' = [chan EXCEPT ![j] = <<>>]
        /\ callers' = [callers EXCEPT ![path] = Append(@, j)]
    BY <1>0, <1>1, <1>6 DEF AskConnect
  <2>3. PICK p : p = path
    OBVIOUS
  <2>4. p \in Performers
    BY <2>2, <2>3 DEF ScoreInv, ShowTypes, PerformersTyped
  <2>5. Called /\ spc = "answers" /\ ppc[onStage] \in {"bind", "accept"} /\ \A z \in Judges : jpc[z] # "ask"
    <3>1. Called
      BY <2>1 DEF Called
    <3> QED BY <3>1 DEF PlayOK, CalledOK
  <2>6. onStage \in Performers
    BY <2>5 DEF PlayOK, StageOK
  <2>7. callers[onStage] = <<>>
    BY <2>5, <2>6 DEF PlayOK, QuestionsOK, CallersOK
  <2>8. p = onStage
    <3>1. CASE ppc[p] = "answer"
      <4>1. callers[p] # <<>>
        BY <2>4, <3>1 DEF ScoreInv, Answering
      <4> QED BY <2>4, <2>5, <3>1, <4>1 DEF PlayOK, QuestionsOK, CallersOK
    <3>2. CASE ppc[p] = "accept"
      <4>1. PICK o : o = onStage
        OBVIOUS
      <4>2. p = o \/ Earlier(p, o)
        BY <2>4, <2>5, <2>6, <3>2, <4>1 DEF PlayOK, ListenOK, Up
      <4> QED BY <2>5, <4>1, <4>2 DEF PlayOK, Earlier, DoorOK
    <3> QED BY <2>2, <2>3, <3>1, <3>2
  <2>9. /\ sigs'[j].usr1 = 0
        /\ \A z \in Judges \ {j} : sigs'[z] = sigs[z]
    <3>1. 0 \in 0..MaxRounds
      OBVIOUS
    <3> QED BY <1>0, <2>1, <3>1, OneSignal
  <2>10. ~Called'
    <3>1. ~again /\ ~ToSignal /\ j = asker
      BY <2>1, OnlyAsker DEF PlayOK, SignalOK
    <3>2. \A z \in Judges : sigs'[z].usr1 = 0
      BY <2>9, <3>1, OnlyAsker
    <3> QED BY <2>1, <3>1, <3>2 DEF Called, ToSignal
  <2>11. callers'[onStage] = <<j>> /\ \A q \in Performers : q # onStage => callers'[q] = callers[q]
    BY <1>0, <2>2, <2>3, <2>4, <2>7, <2>8, OneElement
  <2>12. /\ jpc'[j] = "ask" /\ talk'[j] = onStage /\ chan'[j] = <<>>
         /\ \A z \in Judges \ {j} : jpc'[z] # "ask"
    BY <1>0, <2>2, <2>3, <2>5, <2>8
  <2>13. QuestionsOK'
    <3>1. \A z \in Judges : AskOK(z)'
      <4>1. AskOK(j)'
        BY <2>1, <2>2, <2>3, <2>5, <2>8, <2>11, <2>12 DEF AskOK
      <4> QED BY <2>12, <4>1 DEF AskOK
    <3>2. \A q \in Performers : CallersOK(q)'
      BY <2>1, <2>5, <2>10, <2>11 DEF PlayOK, QuestionsOK, CallersOK
    <3> QED BY <3>1, <3>2 DEF QuestionsOK
  <2>14. ApidOK' /\ SignalOK' /\ CalledOK'
    <3>1. ApidOK'
      BY <2>1 DEF PlayOK, ApidOK
    <3>2. again' => Called'
      BY DEF Called
    <3> QED BY <2>10, <3>1, <3>2 DEF SignalOK, CalledOK
  <2>15. StageOK' /\ DoorOK' /\ ListenOK'
    BY <2>1, <2>5 DEF PlayOK, StageOK, DoorOK, InDoor, ListenOK, Earlier
  <2> QED BY <2>13, <2>14, <2>15 DEF PlayOK
<1>7. CASE JudgeTypes(j)
  <2>1. /\ jpc[j] = "ask" /\ UNCHANGED <<stageVars, ppc, toStage, path, quits, overlap, callers, talk, handlerVars, sigs>>
        /\ \/ jpc' = jpc /\ chan' = [chan EXCEPT ![j] = Append(@, "line")]
           \/ jpc' = [jpc EXCEPT ![j] = "score"] /\ chan' = [chan EXCEPT ![j] = Append(@, "exit")]
    BY <1>0, <1>1, <1>7 DEF JudgeTypes
  <2>2. AskOK(j) /\ ~Called
    BY <2>1 DEF PlayOK, QuestionsOK, CalledOK
  <2>3. \A z \in Judges : jpc'[z] = "ask" => jpc[z] = "ask"
    BY <1>0, <2>1
  <2>4. \A z \in Judges \ {j} : jpc[z] # "ask"
    <3>1. \A z \in Judges : jpc[z] = "ask" => callers[onStage] = <<z>>
      BY DEF PlayOK, QuestionsOK, AskOK
    <3>2. callers[onStage] = <<j>>
      BY <2>1, <3>1
    <3>3. \A z : <<z>> = <<j>> => z = j
      OBVIOUS
    <3> QED BY <3>1, <3>2, <3>3
  <2>5. ~Called'
    BY <2>1, <2>2 DEF Called, ToSignal
  <2>6. QuestionsOK'
    <3>1. ASSUME jpc'[j] = "ask"  PROVE \A k \in 1..Len(chan'[j]) : chan'[j][k] # "exit"
      <4>1. jpc' = jpc \/ jpc' = [jpc EXCEPT ![j] = "score"]
        BY <2>1
      <4>2. jpc' = jpc
        BY <1>0, <3>1, <4>1
      <4>3. jpc' # [jpc EXCEPT ![j] = "score"]
        BY <1>0, <2>1, <4>2
      <4>4. chan'[j] = Append(chan[j], "line")
        BY <1>0, <2>1, <4>3
      <4>5. \A k \in 1..Len(chan[j]) : chan[j][k] \in {"line"}
        <5>1. chan[j] \in Seq(Words)
          BY <1>0
        <5>2. \A k \in 1..Len(chan[j]) : chan[j][k] \in Words
          BY <5>1
        <5> QED BY <2>1, <2>2, <5>2 DEF AskOK, Words
      <4>6. chan[j] \in Seq(Words) /\ "line" \in Words /\ "line" \in {"line"}
        BY <1>0 DEF Words
      <4>7. \A k \in 1..Len(chan'[j]) : chan'[j][k] \in {"line"}
        BY <4>4, <4>5, <4>6, AppendIn
      <4> QED BY <4>7
    <3>2. \A z \in Judges : AskOK(z)'
      <4>1. AskOK(j)'
        BY <2>1, <2>2, <3>1 DEF AskOK
      <4> QED BY <2>3, <2>4, <4>1 DEF AskOK
    <3>3. \A q \in Performers : CallersOK(q)'
      BY <2>1, <2>2, <2>5 DEF PlayOK, QuestionsOK, CallersOK
    <3> QED BY <3>2, <3>3 DEF QuestionsOK
  <2>7. ApidOK' /\ SignalOK' /\ CalledOK'
    <3>1. ApidOK'
      BY <2>1 DEF PlayOK, ApidOK
    <3>2. again' => Called'
      BY DEF Called
    <3> QED BY <2>5, <3>1, <3>2 DEF SignalOK, CalledOK
  <2>8. StageOK' /\ (spc' # "gone" => DoorOK' /\ ListenOK')
    BY <2>1 DEF PlayOK, StageOK, DoorOK, InDoor, ListenOK, Earlier
  <2> QED BY <2>6, <2>7, <2>8 DEF PlayOK
<1> QED BY <1>3, <1>4, <1>5, <1>6, <1>7 DEF Judge, sig_A1_handler

(* The play goes on while judges and anchor stand still: what Called says  *)
(* does not change.                                                        *)
LEMMA SameCall ==
  ASSUME UNCHANGED <<again, hpc, hi, asker, sigs>>
  PROVE  Called' <=> Called
BY DEF Called, ToSignal

(* The play goes on when the stage makes a step: the next performer is let *)
(* in only when the one on the stage is gone.                              *)
LEMMA StagePlay ==
  ASSUME ScoreInv, ScoreInv', InOrder, InOrder', PlayOK, Stage
  PROVE  PlayOK'
<1>0. /\ ppc \in [Performers -> {"off", "perform", "bind", "accept", "answer", "gone"}]
      /\ toStage \in [Performers -> Seq(Words)] /\ door \in Seq(Performers) /\ onStage \in Performers \cup {NoPid}
      /\ again \in BOOLEAN
  BY DEF ScoreInv, ShowTypes, StageTyped, PerformersTyped, HandlerTyped
<1>1. CASE StageStart
  <2>1. /\ spc = "off" /\ spc' = "accept" /\ UNCHANGED <<onStage, door, perfVars, udsVars, anchorVars, handlerVars, judgeVars>>
    BY <1>1 DEF StageStart
  <2>2. ~again /\ round = 0 /\ door = <<>> /\ onStage = NoPid
    <3>1. apid # AnchorPid
      BY <2>1 DEF PlayOK, ApidOK
    <3>2. round \in Nat
      BY DEF ScoreInv, ShowTypes, HandlerTyped
    <3> QED BY <2>1, <3>1, <3>2 DEF PlayOK, ApidOK, StageOK
  <2>3. ~Called /\ ~Called' /\ \A j \in Judges : jpc[j] # "ask"
    BY <2>1, SameCall DEF PlayOK, CalledOK, QuestionsOK, AskOK
  <2>4. ApidOK' /\ SignalOK' /\ CalledOK'
    BY <2>1, <2>2, <2>3 DEF ApidOK, SignalOK, CalledOK
  <2>5. QuestionsOK'
    BY <2>1, <2>3 DEF PlayOK, QuestionsOK, AskOK, CallersOK
  <2>6. StageOK'
    BY <2>1, <2>2 DEF StageOK
  <2>7. DoorOK'
    BY <2>1, <2>2 DEF PlayOK, DoorOK, InDoor
  <2>8. ListenOK'
    BY <2>1 DEF PlayOK, ListenOK, Earlier
  <2> QED BY <2>4, <2>5, <2>6, <2>7, <2>8 DEF PlayOK
<1>2. CASE StageAccept
  <2>1. /\ spc = "accept" /\ door # <<>> /\ spc' = "watch" /\ door' = Tail(door)
        /\ UNCHANGED <<apid, perfVars, udsVars, anchorVars, handlerVars, judgeVars>>
    BY <1>2 DEF StageAccept
  <2>2. PICK h : h = Head(door)
    OBVIOUS
  <2>3. /\ onStage' = h /\ h = door[1] /\ h \in Performers /\ Len(door) > 0 /\ Len(door) \in Nat
        /\ Len(door') = Len(door) - 1
        /\ \A i \in 1..Len(door') : i + 1 \in 1..Len(door) /\ door'[i] = door[i + 1]
    <3>1. onStage' = h
      BY <1>2, <2>2 DEF StageAccept
    <3> QED BY <1>0, <2>1, <2>2, <3>1, TailElements
  <2>4. ~Called /\ ~Called' /\ \A j \in Judges : jpc[j] # "ask"
    BY <2>1, SameCall DEF PlayOK, CalledOK, QuestionsOK, AskOK
  <2>5. ApidOK' /\ SignalOK' /\ CalledOK'
    <3>1. ApidOK'
      BY <2>1 DEF PlayOK, ApidOK
    <3>2. again' => Called'
      BY DEF Called
    <3> QED BY <2>4, <3>1, <3>2 DEF SignalOK, CalledOK
  <2>6. QuestionsOK'
    BY <2>1, <2>4 DEF PlayOK, QuestionsOK, AskOK, CallersOK
  <2>7. ppc[h] \in Up /\ h # onStage
    BY <2>1, <2>3 DEF PlayOK, DoorOK
  <2>8. StageOK'
    BY <2>1, <2>3, <2>7 DEF StageOK, Up
  <2>9. DoorOK'
    <3>1. ASSUME NEW i \in 1..Len(door')  PROVE ppc'[door'[i]] \in Up /\ door'[i] # onStage'
      <4>1. i + 1 \in 1..Len(door) /\ door'[i] = door[i + 1] /\ 1 \in 1..Len(door)
        BY <2>3
      <4>2. ppc[door[i + 1]] \in Up /\ (door[i + 1] = door[1] => i + 1 = 1)
        BY <2>1, <4>1 DEF PlayOK, DoorOK
      <4> QED BY <2>1, <2>3, <4>1, <4>2
    <3>2. ASSUME NEW i \in 1..Len(door'), NEW k \in 1..Len(door'), door'[i] = door'[k]  PROVE i = k
      <4>1. i + 1 \in 1..Len(door) /\ k + 1 \in 1..Len(door) /\ door[i + 1] = door[k + 1]
        BY <2>3, <3>2
      <4>2. i + 1 = k + 1
        BY <2>1, <4>1 DEF PlayOK, DoorOK
      <4> QED BY <2>3, <4>2
    <3>3. ASSUME NEW q \in Performers, ppc[q] \in Up, q # h  PROVE InDoor(q)'
      <4>1. PICK i \in 1..Len(door) : door[i] = q
        BY <2>1, <3>3 DEF PlayOK, DoorOK, InDoor
      <4>2. i # 1
        BY <2>3, <3>3, <4>1
      <4>3. (i - 1) \in 1..Len(door') /\ (i - 1) + 1 = i
        BY <2>3, <4>1, <4>2
      <4>4. door'[i - 1] = q
        BY <2>3, <4>1, <4>3
      <4> QED BY <4>3, <4>4 DEF InDoor
    <3>4. \A q \in Performers : ppc[q] \in {"off", "perform"} => \A k \in 1..Len(toStage[q]) : toStage[q][k] # "exit"
      BY <2>1 DEF PlayOK, DoorOK
    <3> QED BY <2>1, <2>3, <3>1, <3>2, <3>3, <3>4 DEF DoorOK
  <2>10. ListenOK'
    <3>1. SUFFICES ASSUME NEW x \in Performers, NEW y \in Performers, ppc[x] = "accept", ppc[y] \in Up, x # y, x # h
                   PROVE  Earlier(x, y)'
      BY <2>1, <2>3 DEF ListenOK, Earlier
    <3>2. Earlier(x, y) /\ x # onStage
      BY <2>1, <3>1 DEF PlayOK, ListenOK, StageOK
    <3>3. PICK i \in 1..Len(door), k \in 1..Len(door) : i < k /\ door[i] = x /\ door[k] = y
      BY <3>2 DEF Earlier
    <3>4. i # 1
      BY <2>3, <3>1, <3>3
    <3>5. /\ (i - 1) \in 1..Len(door') /\ (i - 1) + 1 = i
          /\ (k - 1) \in 1..Len(door') /\ (k - 1) + 1 = k /\ i - 1 < k - 1
      BY <2>3, <3>3, <3>4
    <3>6. door'[i - 1] = x /\ door'[k - 1] = y
      BY <2>3, <3>3, <3>5
    <3> QED BY <3>5, <3>6 DEF Earlier
  <2> QED BY <2>5, <2>6, <2>8, <2>9, <2>10 DEF PlayOK
<1>3. CASE StageRecv
  <2>1. PICK p : p = onStage
    OBVIOUS
  <2>2. /\ spc \in {"watch", "answers"} /\ (toStage[p] # <<>> \/ ppc[p] = "gone")
        /\ UNCHANGED <<apid, onStage, door, ppc, typed, path, quits, overlap, udsVars, anchorVars, handlerVars, judgeVars>>
    BY <1>3, <2>1 DEF StageRecv
  <2>3. p \in Performers
    BY <2>1, <2>2 DEF PlayOK, StageOK
  <2>4. toStage' = IF toStage[p] = <<>> THEN toStage ELSE [toStage EXCEPT ![p] = Tail(@)]
    BY <1>3, <2>1, Zenon DEF StageRecv
  <2>5. /\ spc' \in {spc, IF spc = "watch" THEN "signal" ELSE "accept"}
        /\ spc' # spc => toStage[p] = <<>> \/ (spc = "watch" /\ Head(toStage[p]) = "exit")
    BY <1>3, <2>1, Zenon DEF StageRecv
  <2>6. (Called' <=> Called) /\ spc' # "gone" /\ spc' # "off"
    BY <2>2, <2>5, SameCall
  <2>7. spc = "watch" => ppc[p] \in Up /\ toStage[p] # <<>>
    BY <2>1, <2>2 DEF PlayOK, StageOK, Up
  <2>8. ASSUME spc = "watch", spc' # "watch"  PROVE spc' = "signal" /\ ppc[p] \in {"bind", "accept"}
    <3>1. Head(toStage[p]) = "exit" /\ toStage[p] # <<>> /\ spc' = "signal"
      BY <2>5, <2>7, <2>8
    <3>2. toStage[p] \in Seq(Words)
      BY <1>0, <2>3
    <3>3. 1 \in 1..Len(toStage[p]) /\ toStage[p][1] = "exit"
      BY <3>1, <3>2
    <3>4. ppc[p] \notin {"off", "perform"}
      BY <2>3, <2>8, <3>3 DEF PlayOK, DoorOK
    <3> QED BY <2>7, <2>8, <3>1, <3>4 DEF Up
  <2>9. ASSUME spc = "answers", spc' # "answers"  PROVE spc' = "accept" /\ ppc[p] = "gone"
    BY <2>2, <2>5, <2>9
  <2>10. ASSUME NEW q \in Performers, \A k \in 1..Len(toStage[q]) : toStage[q][k] # "exit"
         PROVE  \A k \in 1..Len(toStage'[q]) : toStage'[q][k] # "exit"
    <3>1. CASE toStage'[q] = toStage[q]
      BY <2>10, <3>1
    <3>2. CASE toStage[q] # <<>> /\ toStage'[q] = Tail(toStage[q])
      <4>1. toStage[q] \in Seq(Words)
        BY <1>0
      <4>2. \A k \in 1..Len(Tail(toStage[q])) : k + 1 \in 1..Len(toStage[q]) /\ Tail(toStage[q])[k] = toStage[q][k + 1]
        BY <3>2, <4>1, TailElements
      <4> QED BY <2>10, <3>2, <4>2
    <3> QED BY <1>0, <2>3, <2>4, <3>1, <3>2
  <2>11. ApidOK' /\ SignalOK'
    BY <2>2, <2>6 DEF PlayOK, ApidOK, SignalOK, ToSignal
  <2>12. CalledOK'
    <3>1. Called => spc = "answers" /\ ppc[p] # "gone" /\ ppc[p] \in {"bind", "accept"} /\ \A j \in Judges : jpc[j] # "ask"
      BY <2>1 DEF PlayOK, CalledOK
    <3>2. Called => spc' = "answers"
      BY <2>9, <3>1
    <3> QED BY <2>1, <2>2, <2>6, <3>1, <3>2 DEF CalledOK
  <2>13. QuestionsOK'
    <3>1. ASSUME NEW j \in Judges  PROVE AskOK(j)'
      <4>1. AskOK(j)
        BY DEF PlayOK, QuestionsOK
      <4>2. jpc[j] = "ask" => spc' = "answers"
        BY <2>1, <2>9, <4>1 DEF AskOK
      <4> QED BY <2>2, <4>1, <4>2 DEF AskOK
    <3>2. ASSUME NEW q \in Performers  PROVE CallersOK(q)'
      <4>1. CallersOK(q)
        BY DEF PlayOK, QuestionsOK
      <4> QED BY <2>1, <2>2, <2>6, <2>9, <4>1 DEF CallersOK
    <3> QED BY <3>1, <3>2 DEF QuestionsOK
  <2>14. StageOK'
    BY <2>1, <2>2, <2>3, <2>6, <2>7, <2>8, <2>9 DEF PlayOK, StageOK
  <2>15. DoorOK' /\ ListenOK'
    <3>1. DoorOK /\ ListenOK
      BY <2>2 DEF PlayOK
    <3>2. \A q \in Performers : q = onStage /\ ppc[q] \in Up => spc' # "accept"
      BY <2>1, <2>2, <2>5, <2>8, <2>9 DEF Up
    <3>3. DoorOK'
      BY <2>2, <2>10, <3>1, <3>2 DEF DoorOK, InDoor
    <3>4. ListenOK'
      BY <2>2, <3>1 DEF ListenOK, Earlier
    <3> QED BY <3>3, <3>4
  <2> QED BY <2>11, <2>12, <2>13, <2>14, <2>15 DEF PlayOK
<1>4. CASE StageSignal
  <2>1. /\ spc = "signal" /\ spc' = (IF apid = 0 THEN "gone" ELSE "answers")
        /\ UNCHANGED <<apid, onStage, door, perfVars, udsVars, anchorVars, hpc, hi, asker, scores, round, judgeVars>>
    BY <1>4 DEF StageSignal
  <2>2. ~Called /\ \A j \in Judges : jpc[j] # "ask"
    BY <2>1 DEF PlayOK, CalledOK, QuestionsOK, AskOK
  <2>3. again' => apid = AnchorPid
    BY <1>4, <2>2, Zenon DEF StageSignal, Called
  <2>4. ApidOK'
    BY <2>1, <2>3 DEF PlayOK, ApidOK
  <2>5. ~ToSignal' /\ \A j \in Judges : sigs'[j].usr1 = 0
    BY <2>1, <2>2 DEF Called, ToSignal
  <2>6. Called' => again'
    BY <2>5 DEF Called
  <2>7. CalledOK'
    <3>1. again' => spc' = "answers"
      BY <2>1, <2>3
    <3>2. ppc[onStage] \in {"bind", "accept"}
      BY <2>1 DEF PlayOK, StageOK
    <3> QED BY <2>1, <2>2, <2>6, <3>1, <3>2 DEF CalledOK
  <2>8. SignalOK'
    BY <2>5 DEF SignalOK
  <2>9. QuestionsOK'
    BY <2>1, <2>2 DEF PlayOK, QuestionsOK, AskOK, CallersOK
  <2>10. StageOK'
    BY <2>1 DEF PlayOK, StageOK
  <2>11. DoorOK' /\ ListenOK'
    BY <2>1 DEF PlayOK, DoorOK, InDoor, ListenOK, Earlier
  <2> QED BY <2>4, <2>7, <2>8, <2>9, <2>10, <2>11 DEF PlayOK
<1> QED BY <1>1, <1>2, <1>3, <1>4 DEF Stage

(* The play goes on when a performer makes a step: it waits under the name *)
(* that the judge will call, and answers the judge that called.            *)
LEMMA PerformerPlay ==
  ASSUME ScoreInv, ScoreInv', InOrder, InOrder', PlayOK, NEW p \in Performers,
         PerformerStart(p) \/ PerformerTypes(p) \/ PerformerQuits(p) \/ Performer(p) \/ PerformerPipe(p)
  PROVE  PlayOK'
<1>0. /\ ppc \in [Performers -> {"off", "perform", "bind", "accept", "answer", "gone"}]
      /\ toStage \in [Performers -> Seq(Words)] /\ door \in Seq(Performers) /\ onStage \in Performers \cup {NoPid}
      /\ callers \in [Performers -> Seq(Judges)] /\ chan \in [Judges -> Seq(Words)] /\ Answering
      /\ Len(door) \in Nat /\ quits \in Nat
  <2>1. /\ ppc \in [Performers -> {"off", "perform", "bind", "accept", "answer", "gone"}]
        /\ toStage \in [Performers -> Seq(Words)] /\ quits \in Nat
    BY DEF ScoreInv, ShowTypes, PerformersTyped
  <2>2. door \in Seq(Performers) /\ onStage \in Performers \cup {NoPid} /\ Len(door) \in Nat
    BY DEF ScoreInv, ShowTypes, StageTyped
  <2>3. callers \in [Performers -> Seq(Judges)] /\ chan \in [Judges -> Seq(Words)] /\ Answering
    BY DEF ScoreInv, ShowTypes, SocketsTyped
  <2> QED BY <2>1, <2>2, <2>3
<1>a. UNCHANGED <<spc, apid, onStage, anchorVars, handlerVars, judgeVars>>
  BY DEF Performer, PerformerStart, PerformerTypes, PerformerQuits, PerformerPipe,
     PerformerBind, PerformerAccept, PerformerAnswers
<1>b. (Called' <=> Called) /\ ApidOK' /\ SignalOK'
  BY <1>a, SameCall DEF PlayOK, ApidOK, SignalOK, ToSignal
<1>c. \A q \in Performers : ppc[q] \in Up /\ ppc[q] # "perform" => ppc[q] \in {"bind", "accept"}
  BY DEF Up
<1>1. CASE PerformerStart(p)
  <2>1. ppc[p] = "off" /\ UNCHANGED <<toStage, typed, path, quits, overlap, udsVars>>
    BY <1>1 DEF PerformerStart
  <2>2. p # onStage /\ callers[p] = <<>>
    <3>1. p # onStage
      BY <2>1 DEF PlayOK, StageOK
    <3>2. CallersOK(p)
      BY DEF PlayOK, QuestionsOK
    <3> QED BY <2>1, <3>1, <3>2 DEF CallersOK
  <2>3. \A q \in Performers \ {p} : ppc'[q] = ppc[q]
    BY <1>0, <1>1 DEF PerformerStart
  <2>3a. onStage \in Performers => ppc'[onStage] = ppc[onStage]
    BY <2>2, <2>3
  <2>4. CalledOK'
    <3>1. Called => onStage \in Performers
      BY DEF PlayOK, CalledOK, StageOK
    <3> QED BY <1>a, <1>b, <2>3a, <3>1 DEF PlayOK, CalledOK
  <2>5. QuestionsOK'
    <3>1. ASSUME NEW j \in Judges  PROVE AskOK(j)'
      <4>1. AskOK(j) /\ (spc = "answers" => onStage \in Performers)
        BY DEF PlayOK, QuestionsOK, StageOK
      <4> QED BY <1>a, <2>1, <2>3a, <4>1 DEF AskOK
    <3>2. ASSUME NEW q \in Performers  PROVE CallersOK(q)'
      <4>1. CallersOK(q)
        BY DEF PlayOK, QuestionsOK
      <4> QED BY <1>a, <1>b, <2>1, <2>2, <2>3, <4>1 DEF CallersOK
    <3> QED BY <3>1, <3>2 DEF QuestionsOK
  <2>6. CASE spc \in {"off", "gone"}
    <3>1. ppc'[p] = "gone" /\ door' = door
      BY <1>0, <1>1, <2>6 DEF PerformerStart
    <3>2. StageOK'
      <4>1. StageOK
        BY DEF PlayOK
      <4> QED BY <1>a, <2>3a, <2>6, <3>1, <4>1 DEF StageOK
    <3>3. spc' # "gone" => DoorOK'
      <4>1. ASSUME spc = "off"  PROVE DoorOK'
        <5>1. door = <<>> /\ DoorOK
          BY <4>1 DEF PlayOK, StageOK
        <5>2. \A q \in Performers : (ppc'[q] \in Up => ppc[q] \in Up) /\ (ppc'[q] \in {"off", "perform"} => ppc[q] \in {"off", "perform"})
          BY <2>3, <3>1 DEF Up
        <5> QED BY <1>a, <2>1, <3>1, <5>1, <5>2 DEF DoorOK, InDoor
      <4> QED BY <1>a, <2>6, <4>1
    <3>4. spc' # "gone" => ListenOK'
      <4>1. ASSUME spc # "gone"  PROVE ListenOK'
        <5>1. \A q \in Performers : (ppc'[q] \in Up => ppc[q] \in Up) /\ (ppc'[q] = "accept" => ppc[q] = "accept")
          BY <2>3, <3>1 DEF Up
        <5> QED BY <1>a, <3>1, <4>1, <5>1 DEF PlayOK, ListenOK, Earlier
      <4> QED BY <1>a, <4>1
    <3> QED BY <1>b, <2>4, <2>5, <3>2, <3>3, <3>4 DEF PlayOK
  <2>7. CASE spc \notin {"off", "gone"}
    <3>0. DoorOK /\ ListenOK /\ StageOK
      BY <2>7 DEF PlayOK
    <3>1. ppc'[p] = "perform" /\ door' = Append(door, p)
      BY <1>0, <1>1, <2>7 DEF PerformerStart
    <3>2. /\ Len(door') = Len(door) + 1 /\ door'[Len(door) + 1] = p
          /\ \A i \in 1..Len(door) : door'[i] = door[i]
      BY <1>0, <3>1, AppendElements
    <3>3. StageOK'
      BY <1>0, <1>a, <2>3a, <2>7, <3>0, <3>1, <2>2 DEF StageOK
    <3>4. \A i \in 1..Len(door) : door[i] # p /\ door[i] \in Performers
      BY <1>0, <2>1, <3>0, ElementOfSeq DEF DoorOK, Up
    <3>5. DoorOK'
      <4>1. ASSUME NEW i \in 1..Len(door')  PROVE ppc'[door'[i]] \in Up /\ door'[i] # onStage
        <5>1. CASE i \in 1..Len(door)
          BY <2>3, <3>0, <3>2, <3>4, <5>1 DEF DoorOK
        <5>2. CASE i = Len(door) + 1
          BY <2>2, <3>1, <3>2, <5>2 DEF Up
        <5> QED BY <1>0, <3>2, <5>1, <5>2
      <4>2. \A i, k \in 1..Len(door') : door'[i] = door'[k] => i = k
        BY <1>0, <3>0, <3>1, <3>4, AppendOther DEF DoorOK
      <4>3. ASSUME NEW q \in Performers, ppc'[q] \in Up  PROVE InDoor(q)' \/ (q = onStage /\ spc # "accept")
        <5>1. CASE q = p
          <6>1. Len(door) + 1 \in 1..Len(door')
            BY <1>0, <3>2
          <6> QED BY <3>2, <5>1, <6>1 DEF InDoor
        <5>2. CASE q # p
          <6>1. InDoor(q) \/ (q = onStage /\ spc # "accept")
            BY <2>3, <3>0, <4>3, <5>2 DEF DoorOK
          <6>2. 1..Len(door) \subseteq 1..Len(door')
            BY <1>0, <3>2
          <6> QED BY <3>2, <6>1, <6>2 DEF InDoor
        <5> QED BY <5>1, <5>2
      <4>4. \A q \in Performers : ppc'[q] \in {"off", "perform"} => \A k \in 1..Len(toStage[q]) : toStage[q][k] # "exit"
        BY <2>1, <2>3, <3>0 DEF DoorOK
      <4> QED BY <1>a, <2>1, <4>1, <4>2, <4>3, <4>4 DEF DoorOK
    <3>6. ListenOK'
      <4>1. SUFFICES ASSUME NEW x \in Performers, NEW y \in Performers, ppc'[x] = "accept", ppc'[y] \in Up, x # y
                     PROVE  Earlier(x, y)'
        BY DEF ListenOK
      <4>2. x # p /\ ppc[x] = "accept"
        BY <2>3, <3>1, <4>1
      <4>3. CASE y = p
        <5>1. InDoor(x) \/ x = onStage
          BY <3>0, <4>2 DEF DoorOK, Up
        <5>2. ASSUME NEW i \in 1..Len(door), door[i] = x  PROVE Earlier(x, y)'
          <6>1. i \in 1..Len(door') /\ Len(door) + 1 \in 1..Len(door') /\ i < Len(door) + 1
            BY <1>0, <3>2
          <6>2. door'[i] = x /\ door'[Len(door) + 1] = y
            BY <3>2, <4>3, <5>2
          <6> QED BY <6>1, <6>2 DEF Earlier
        <5> QED BY <1>a, <5>1, <5>2 DEF InDoor, Earlier
      <4>4. CASE y # p
        <5>1. Earlier(x, y)
          BY <2>3, <3>0, <4>1, <4>2, <4>4 DEF ListenOK
        <5>2. 1..Len(door) \subseteq 1..Len(door')
          BY <1>0, <3>2
        <5> QED BY <1>a, <3>2, <5>1, <5>2 DEF Earlier
      <4> QED BY <4>3, <4>4
    <3> QED BY <1>b, <2>4, <2>5, <3>3, <3>5, <3>6 DEF PlayOK
  <2> QED BY <2>6, <2>7
<1>2. CASE PerformerTypes(p)
  <2>1. /\ ppc[p] = "perform" /\ UNCHANGED <<door, path, quits, overlap, udsVars>>
        /\ \/ toStage' = [toStage EXCEPT ![p] = Append(@, "line")] /\ ppc' = ppc
           \/ toStage' = [toStage EXCEPT ![p] = Append(@, "exit")] /\ ppc' = [ppc EXCEPT ![p] = "bind"]
    BY <1>2 DEF PerformerTypes
  <2>2. /\ ppc'[p] \in {"perform", "bind"}
        /\ \A q \in Performers \ {p} : ppc'[q] = ppc[q] /\ toStage'[q] = toStage[q]
    BY <1>0, <2>1
  <2>3. \A q \in Performers : /\ ppc'[q] \in Up <=> ppc[q] \in Up
                              /\ ppc'[q] = "gone" <=> ppc[q] = "gone"
                              /\ ppc'[q] = "off" <=> ppc[q] = "off"
                              /\ ppc'[q] = "accept" <=> ppc[q] = "accept"
                              /\ ppc[q] \in {"bind", "accept"} => ppc'[q] \in {"bind", "accept"}
                              /\ ppc[q] \in {"accept", "answer"} => ppc'[q] \in {"accept", "answer"}
    BY <1>0, <2>1, <2>2 DEF Up
  <2>4. CalledOK'
    <3>1. Called => onStage \in Performers
      BY DEF PlayOK, CalledOK, StageOK
    <3> QED BY <1>a, <1>b, <2>3, <3>1 DEF PlayOK, CalledOK
  <2>5. QuestionsOK'
    <3>1. ASSUME NEW j \in Judges  PROVE AskOK(j)'
      <4>1. AskOK(j) /\ (spc = "answers" => onStage \in Performers)
        BY DEF PlayOK, QuestionsOK, StageOK
      <4> QED BY <1>a, <2>1, <2>3, <4>1 DEF AskOK
    <3>2. ASSUME NEW q \in Performers  PROVE CallersOK(q)'
      <4>1. CallersOK(q)
        BY DEF PlayOK, QuestionsOK
      <4> QED BY <1>a, <1>b, <2>1, <2>3, <4>1 DEF CallersOK
    <3> QED BY <3>1, <3>2 DEF QuestionsOK
  <2>6. StageOK'
    <3>1. StageOK
      BY DEF PlayOK
    <3> QED BY <1>0, <1>a, <2>1, <2>3, <3>1 DEF StageOK
  <2>7. ASSUME spc # "gone"  PROVE DoorOK' /\ ListenOK'
    <3>0. DoorOK /\ ListenOK
      BY <2>7 DEF PlayOK
    <3>1. \A i \in 1..Len(door) : door[i] \in Performers
      BY <1>0, ElementOfSeq
    <3>2. ASSUME NEW q \in Performers, ppc'[q] \in {"off", "perform"}
          PROVE  \A k \in 1..Len(toStage'[q]) : toStage'[q][k] # "exit"
      <4>1. ASSUME q # p  PROVE toStage'[q] = toStage[q] /\ ppc[q] \in {"off", "perform"}
        BY <2>2, <3>2, <4>1
      <4>2. CASE q = p
        <5>1. ppc' = ppc \/ ppc' = [ppc EXCEPT ![p] = "bind"]
          BY <2>1
        <5>2. ppc' # [ppc EXCEPT ![p] = "bind"]
          BY <1>0, <3>2, <4>2
        <5>3. toStage' = [toStage EXCEPT ![p] = Append(@, "line")]
          BY <2>1, <5>2
        <5>4. toStage'[p] = Append(toStage[p], "line") /\ toStage[p] \in Seq(Words) /\ "line" \in Words
          BY <1>0, <5>3 DEF Words
        <5>5. \A k \in 1..Len(toStage[p]) : toStage[p][k] \in {"line"}
          <6>1. \A k \in 1..Len(toStage[p]) : toStage[p][k] \in Words
            BY <5>4
          <6> QED BY <2>1, <3>0, <6>1 DEF DoorOK, Words
        <5>6. \A k \in 1..Len(toStage'[p]) : toStage'[p][k] \in {"line"}
          BY <5>4, <5>5, AppendIn
        <5> QED BY <4>2, <5>6
      <4> QED BY <3>0, <4>1, <4>2 DEF DoorOK
    <3>3. DoorOK'
      BY <1>a, <2>1, <2>3, <3>0, <3>1, <3>2 DEF DoorOK, InDoor
    <3>4. ListenOK'
      BY <1>a, <2>1, <2>3, <3>0 DEF ListenOK, Earlier
    <3> QED BY <3>3, <3>4
  <2> QED BY <1>a, <1>b, <2>4, <2>5, <2>6, <2>7 DEF PlayOK
<1>3. CASE PerformerQuits(p)
  BY <1>0, <1>3 DEF PerformerQuits, InOrder
<1>4. CASE PerformerBind(p)
  <2>1. /\ ppc[p] = "bind" /\ ppc' = [ppc EXCEPT ![p] = "accept"]
        /\ UNCHANGED <<door, toStage, typed, quits, udsVars>>
    BY <1>4 DEF PerformerBind
  <2>2. ~\E q \in Performers \ {p} : ppc[q] \in {"perform", "bind", "accept"}
    BY <1>4, Zenon DEF PerformerBind, InOrder
  <2>3. ppc'[p] = "accept" /\ \A q \in Performers \ {p} : ppc'[q] = ppc[q]
    BY <1>0, <2>1
  <2>4. \A q \in Performers : /\ ppc'[q] \in Up <=> ppc[q] \in Up
                              /\ ppc'[q] = "gone" <=> ppc[q] = "gone"
                              /\ ppc'[q] = "off" <=> ppc[q] = "off"
                              /\ ppc'[q] = "perform" <=> ppc[q] = "perform"
                              /\ ppc[q] \in {"bind", "accept"} => ppc'[q] \in {"bind", "accept"}
                              /\ ppc[q] \in {"accept", "answer"} => ppc'[q] \in {"accept", "answer"}
    BY <1>0, <2>1, <2>3 DEF Up
  <2>5. CalledOK'
    <3>1. Called => onStage \in Performers
      BY DEF PlayOK, CalledOK, StageOK
    <3> QED BY <1>a, <1>b, <2>4, <3>1 DEF PlayOK, CalledOK
  <2>6. QuestionsOK'
    <3>1. ASSUME NEW j \in Judges  PROVE AskOK(j)'
      <4>1. AskOK(j) /\ (spc = "answers" => onStage \in Performers)
        BY DEF PlayOK, QuestionsOK, StageOK
      <4> QED BY <1>a, <2>1, <2>4, <4>1 DEF AskOK
    <3>2. ASSUME NEW q \in Performers  PROVE CallersOK(q)'
      <4>1. CallersOK(q)
        BY DEF PlayOK, QuestionsOK
      <4> QED BY <1>a, <1>b, <2>1, <2>4, <4>1 DEF CallersOK
    <3> QED BY <3>1, <3>2 DEF QuestionsOK
  <2>7. StageOK'
    <3>1. StageOK
      BY DEF PlayOK
    <3> QED BY <1>0, <1>a, <2>1, <2>4, <3>1 DEF StageOK
  <2>8. spc # "gone" => DoorOK'
    <3>1. \A i \in 1..Len(door) : door[i] \in Performers
      BY <1>0, ElementOfSeq
    <3> QED BY <1>a, <2>1, <2>4, <3>1 DEF PlayOK, DoorOK, InDoor
  <2>9. ListenOK'
    BY <2>2, <2>3 DEF ListenOK, Up
  <2> QED BY <1>a, <1>b, <2>5, <2>6, <2>7, <2>8, <2>9 DEF PlayOK
<1>5. CASE PerformerAccept(p)
  <2>1. /\ ppc[p] = "accept" /\ callers[p] # <<>> /\ ppc' = [ppc EXCEPT ![p] = "answer"]
        /\ UNCHANGED <<door, toStage, typed, path, quits, overlap, udsVars>>
    BY <1>5 DEF PerformerAccept
  <2>2. p = onStage /\ spc = "answers" /\ ~Called
    BY <2>1 DEF PlayOK, QuestionsOK, CallersOK
  <2>3. ppc'[p] = "answer" /\ \A q \in Performers \ {p} : ppc'[q] = ppc[q]
    BY <1>0, <2>1
  <2>4. CalledOK'
    BY <1>b, <2>2 DEF CalledOK
  <2>5. QuestionsOK'
    <3>1. \A j \in Judges : AskOK(j)'
      BY <1>a, <2>1, <2>2, <2>3 DEF PlayOK, QuestionsOK, AskOK
    <3>2. \A q \in Performers : CallersOK(q)'
      BY <1>a, <1>b, <2>1, <2>2, <2>3 DEF PlayOK, QuestionsOK, CallersOK
    <3> QED BY <3>1, <3>2 DEF QuestionsOK
  <2>6. StageOK'
    BY <1>a, <2>2, <2>3 DEF PlayOK, StageOK
  <2>7. DoorOK'
    <3>1. DoorOK
      BY <2>2 DEF PlayOK
    <3>2. \A i \in 1..Len(door) : door[i] \in Performers \ {p}
      BY <1>0, <2>2, <3>1, ElementOfSeq DEF DoorOK
    <3>3. \A q \in Performers : (ppc'[q] \in Up => ppc[q] \in Up) /\ (ppc'[q] \in {"off", "perform"} => ppc[q] \in {"off", "perform"})
      BY <2>1, <2>3 DEF Up
    <3> QED BY <1>a, <2>1, <2>3, <3>1, <3>2, <3>3 DEF DoorOK, InDoor
  <2>8. ListenOK'
    <3>1. \A q \in Performers : (ppc'[q] \in Up => ppc[q] \in Up) /\ (ppc'[q] = "accept" => ppc[q] = "accept")
      BY <2>1, <2>3 DEF Up
    <3> QED BY <1>a, <2>1, <2>2, <3>1 DEF PlayOK, ListenOK, Earlier
  <2> QED BY <1>b, <2>4, <2>5, <2>6, <2>7, <2>8 DEF PlayOK
<1>6. CASE PerformerAnswers(p)
  <2>0. PICK j : j = Head(callers[p])
    OBVIOUS
  <2>1. PICK w : w = Head(chan[j])
    OBVIOUS
  <2>2. /\ ppc[p] = "answer" /\ chan[j] # <<>> /\ chan' = [chan EXCEPT ![j] = Tail(@)]
        /\ toStage' = [toStage EXCEPT ![p] = Append(@, w)]
        /\ ppc' = (IF w = "exit" THEN [ppc EXCEPT ![p] = "gone"] ELSE ppc)
        /\ UNCHANGED <<door, typed, path, quits, overlap, callers>>
    BY <1>6, <2>0, <2>1 DEF PerformerAnswers
  <2>3. callers[p] # <<>> /\ p = onStage /\ spc = "answers" /\ ~Called
    <3>1. callers[p] # <<>>
      BY <1>0, <2>2 DEF Answering
    <3> QED BY <2>2, <3>1 DEF PlayOK, QuestionsOK, CallersOK
  <2>4. /\ ppc'[p] \in {"answer", "gone"} /\ (w # "exit" => ppc'[p] = "answer")
        /\ \A q \in Performers \ {p} : ppc'[q] = ppc[q] /\ toStage'[q] = toStage[q]
    BY <1>0, <2>2
  <2>5. CalledOK'
    BY <1>b, <2>3 DEF CalledOK
  <2>6. QuestionsOK'
    <3>1. ASSUME NEW z \in Judges, jpc[z] = "ask"  PROVE AskOK(z)'
      <4>1. /\ talk[z] = onStage /\ callers[onStage] = <<z>>
            /\ \A k \in 1..Len(chan[z]) : chan[z][k] # "exit"
        BY <3>1 DEF PlayOK, QuestionsOK, AskOK
      <4>2. j = z
        BY <2>0, <2>3, <4>1, OneElement
      <4>3. chan[z] \in Seq(Words) /\ chan'[z] = Tail(chan[z])
        BY <1>0, <2>2, <4>2
      <4>4. /\ Len(chan[z]) > 0 /\ w = chan[z][1] /\ 1 \in 1..Len(chan[z])
            /\ \A i \in 1..Len(Tail(chan[z])) : i + 1 \in 1..Len(chan[z]) /\ Tail(chan[z])[i] = chan[z][i + 1]
        BY <2>1, <2>2, <4>2, <4>3, TailElements
      <4>5. w # "exit" /\ \A k \in 1..Len(chan'[z]) : chan'[z][k] # "exit"
        BY <4>1, <4>3, <4>4
      <4> QED BY <1>a, <2>2, <2>3, <2>4, <4>1, <4>5 DEF AskOK
    <3>2. \A z \in Judges : AskOK(z)'
      BY <1>a, <3>1 DEF AskOK
    <3>3. \A q \in Performers : CallersOK(q)'
      BY <1>a, <1>b, <2>2, <2>3, <2>4 DEF PlayOK, QuestionsOK, CallersOK
    <3> QED BY <3>2, <3>3 DEF QuestionsOK
  <2>7. StageOK'
    BY <1>a, <2>3, <2>4 DEF PlayOK, StageOK
  <2>8. DoorOK'
    <3>1. DoorOK
      BY <2>3 DEF PlayOK
    <3>2. \A i \in 1..Len(door) : door[i] \in Performers \ {p}
      BY <1>0, <2>3, <3>1, ElementOfSeq DEF DoorOK
    <3>3. \A q \in Performers : (ppc'[q] \in Up => ppc[q] \in Up /\ q # p) /\ (ppc'[q] \in {"off", "perform"} => ppc[q] \in {"off", "perform"} /\ q # p)
      BY <2>4 DEF Up
    <3> QED BY <1>a, <2>2, <2>4, <3>1, <3>2, <3>3 DEF DoorOK, InDoor
  <2>9. ListenOK'
    <3>1. \A q \in Performers : (ppc'[q] \in Up => ppc[q] \in Up) /\ (ppc'[q] = "accept" => ppc[q] = "accept")
      BY <2>4 DEF Up
    <3> QED BY <1>a, <2>2, <2>3, <3>1 DEF PlayOK, ListenOK, Earlier
  <2> QED BY <1>b, <2>5, <2>6, <2>7, <2>8, <2>9 DEF PlayOK
<1>7. CASE PerformerPipe(p)
  <2>1. /\ spc = "gone" /\ ppc' = [ppc EXCEPT ![p] = "gone"] /\ UNCHANGED <<door, toStage, typed, path, quits, overlap, udsVars>>
    BY <1>7 DEF PerformerPipe
  <2>2. ~Called /\ \A j \in Judges : jpc[j] # "ask"
    BY <2>1 DEF PlayOK, CalledOK, QuestionsOK, AskOK
  <2>3. ppc'[p] = "gone" /\ \A q \in Performers \ {p} : ppc'[q] = ppc[q]
    BY <1>0, <2>1
  <2>4. CalledOK'
    BY <1>b, <2>2 DEF CalledOK
  <2>5. QuestionsOK'
    BY <1>a, <1>b, <2>1, <2>2, <2>3 DEF PlayOK, QuestionsOK, AskOK, CallersOK
  <2>6. StageOK'
    BY <1>a, <2>1, <2>3 DEF PlayOK, StageOK
  <2> QED BY <1>a, <1>b, <2>1, <2>4, <2>5, <2>6 DEF PlayOK
<1> QED BY <1>1, <1>2, <1>3, <1>4, <1>5, <1>6, <1>7 DEF Performer

(* The invariant of the whole show: the scores in every state, the play as *)
(* long as nobody is missing and the performers follow each other.         *)
THEOREM ShowInductive == ShowSpec => []ShowInv
<1>1. ShowInit => ShowInv
  <2>1. ASSUME ShowInit  PROVE PlayOK
    <3>1. /\ spc = "off" /\ apid = NoPid /\ onStage = NoPid /\ door = <<>> /\ again = FALSE /\ round = 0 /\ hpc = "none"
          /\ \A j \in Judges : jpc[j] = "off" /\ sigs[j].usr1 = 0
          /\ \A p \in Performers : ppc[p] = "off" /\ callers[p] = <<>> /\ toStage[p] = <<>>
      BY <2>1 DEF ShowInit
    <3>2. ~Called
      BY <3>1 DEF Called, ToSignal
    <3>3. ApidOK /\ SignalOK /\ CalledOK /\ QuestionsOK
      BY <3>1, <3>2 DEF ApidOK, SignalOK, CalledOK, QuestionsOK, AskOK, CallersOK
    <3>4. StageOK /\ DoorOK /\ ListenOK
      BY <3>1 DEF StageOK, DoorOK, ListenOK, Up
    <3> QED BY <3>3, <3>4 DEF PlayOK
  <2> QED BY <2>1, ScoreStart DEF ShowInv
<1>2. ShowInv /\ [ShowNext]_showVars => ShowInv'
  <2>1. ASSUME ShowInv, [ShowNext]_showVars  PROVE ShowInv'
    <3>1. ScoreInv /\ ScoreInv'
      BY <2>1, ScoreStep DEF ShowInv
    <3>2. ASSUME InOrder', ShowNext  PROVE PlayOK'
      <4>1. InOrder /\ PlayOK
        BY <2>1, <3>1, <3>2, InOrderBefore DEF ShowInv, ScoreInv
      <4> QED BY <3>1, <3>2, <4>1, ShowSteps, StagePlay, PerformerPlay, AnchorPlay, JudgePlay
    <3>3. ASSUME InOrder', UNCHANGED showVars  PROVE PlayOK'
      <4>1. InOrder /\ PlayOK
        BY <2>1, <3>3 DEF ShowInv, InOrder, showVars
      <4>2. Called' <=> Called
        BY <3>3, SameCall DEF showVars
      <4>3. ApidOK' /\ SignalOK'
        BY <3>3, <4>1 DEF showVars, PlayOK, ApidOK, SignalOK, ToSignal
      <4> QED BY <3>3, <4>1, <4>2, <4>3, PlayFrame DEF showVars
    <3> QED BY <2>1, <3>1, <3>2, <3>3 DEF ShowInv
  <2> QED BY <2>1
<1> QED BY <1>1, <1>2, PTL DEF ShowSpec

(* For any number of judges and performers: while no judge was lost one    *)
(* judge at a time asks or is told to ask, and as long as all programs are *)
(* there and one performer came after the other it is the performer on the *)
(* stage that is asked (a.c:103-106, j1.c:46-75, p.c:36-59).               *)
THEOREM OneJudgeAsksThePerformer == ShowSpec => []OneRightAsker
<1>1. ASSUME ShowInv  PROVE OneAsker
  <2>1. SUFFICES ASSUME Healthy
                 PROVE  Cardinality({j \in Judges : jpc[j] \in {"ask", "score"} \/ sigs[j].usr1 # 0}) <= 1
    BY DEF OneAsker
  <2>2. \A j \in Judges : jpc[j] # "gone" /\ ~BehindDead(j)
    BY <1>1, <2>1, Accepted DEF Healthy, BehindDead, Dead, ShowInv, ScoreInv
  <2>3. \A j \in Judges : OneScore(j)
    BY <1>1, <2>2 DEF ShowInv, ScoreInv, JudgesOK
  <2> DEFINE S == {j \in Judges : jpc[j] \in {"ask", "score"} \/ sigs[j].usr1 # 0}
  <2>4. S \subseteq {asker}
    BY <2>2, <2>3 DEF OneScore, Asks
  <2>5. IsFiniteSet({asker}) /\ Cardinality({asker}) = 1
    BY FS_Singleton
  <2> HIDE DEF S
  <2>6. Cardinality(S) <= 1
    BY <2>4, <2>5, FS_Subset
  <2> QED BY <2>6 DEF S
<1>2. ASSUME ShowInv  PROVE RightPerformer
  <2>1. Healthy /\ ~overlap /\ quits = 0 => InOrder
    BY <1>2 DEF Healthy, InOrder, ShowInv, ScoreInv, ShowTypes, AnchorTyped
  <2> QED BY <1>2, <2>1 DEF RightPerformer, ShowInv, PlayOK, QuestionsOK, AskOK
<1>3. ShowInv => OneRightAsker
  BY <1>1, <1>2 DEF OneRightAsker
<1> QED BY <1>3, ShowInductive, PTL
=============================================================================
