----------------------------- MODULE StageShow -----------------------------
(***************************************************************************)
(* 4-3-22/online_stage_show.  Performers (p.c) connect to the stage (s.c), *)
(* perform, and then wait on the Unix socket "stage_perform" for a judge's *)
(* questions.  When a performance is over the stage signals the anchor     *)
(* (a.c), whose handler picks one judge to ask (SIGUSR1), tells the others *)
(* to score (SIGUSR2) and reads all scores before it returns.  The judges  *)
(* j1.c, j2.c and j3.c have the same text.  pidof of a program that does   *)
(* not run leaves an uninitialised buffer to atoi: 0 or a pid of nobody.   *)
(***************************************************************************)
EXTENDS Integers, Sequences, FiniteSets

CONSTANTS
  NumJudges,      \* NUM_JUDGES
  Performers,     \* runs of p.c
  NoPid,          \* a pid that no process has
  MaxRounds,      \* bound: runs of the anchor's handler
  MaxLines,       \* bound: lines a performer or a judge types before exit
  MaxQuits        \* bound: performers the user interrupts on the stage

ASSUME StageConstants ==
  /\ NumJudges \in Nat \ {0}
  /\ NoPid \notin 0..(NumJudges + 1) /\ NoPid \notin Performers
  /\ MaxRounds \in Nat /\ MaxLines \in Nat /\ MaxQuits \in Nat

Judges == 1..NumJudges
AnchorPid == NumJudges + 1
Unset == [by |-> 0, round |-> 0]    \* an entry of scores[] never assigned
Garbage == {0, NoPid}               \* atoi of an uninitialised buffer

VARIABLES
  spc,        \* stage: "off", "accept", "watch", "signal", "answers", "gone"
  apid,       \* stage: the pid it has for the anchor
  onStage,    \* stage: the performer behind nsfd
  door,       \* performers connected to port 8080 and not accepted
  ppc,        \* performers
  toStage,    \* what each performer sent and the stage has not read
  typed,      \* lines typed so far, by performer or by judge asking it
  path,       \* the performer whose socket "stage_perform" names
  callers,    \* judges connected to each performer's socket
  chan,       \* what the judge sent to the performer it talks to
  apc,        \* anchor: "off", "run" or "gone"
  jnsfd,      \* anchor: the judge behind each accepted connection
  jpid,       \* anchor: the pid it looked up for that index
  hall,       \* judges connected to port 8085 and not accepted
  hpc, hi,    \* anchor's handler: control state and loop index
  asker,      \* anchor's handler: the index that asks
  scores,     \* anchor's handler: scores[]
  round,      \* runs of the handler so far
  again,      \* a SIGUSR1 is pending at the anchor
  jpc,        \* judges
  sigs,       \* round each judge's pending SIGUSR1, SIGUSR2 comes from, or 0
  due,        \* the round the running sig_A1_handler belongs to
  talk,       \* the performer each judge's usfd leads to
  inbox,      \* scores sent by each judge and not read by the anchor
  quits,      \* performers interrupted
  overlap     \* history: a performer took the path before a judge had met
              \* another performer

stageVars == <<spc, apid, onStage, door>>
perfVars == <<ppc, toStage, typed, path, quits, overlap>>
udsVars == <<callers, chan>>
anchorVars == <<apc, jnsfd, jpid, hall>>
handlerVars == <<hpc, hi, asker, scores, round, again>>
judgeVars == <<jpc, sigs, due, talk, inbox>>
showVars == <<stageVars, perfVars, udsVars, anchorVars, handlerVars, judgeVars>>

ShowInit ==
  /\ spc = "off" /\ apid = NoPid /\ onStage = NoPid /\ door = <<>>
  /\ ppc = [p \in Performers |-> "off"]
  /\ toStage = [p \in Performers |-> <<>>]
  /\ typed = [p \in Performers |-> 0]
  /\ path = NoPid /\ quits = 0 /\ overlap = FALSE
  /\ callers = [p \in Performers |-> <<>>]
  /\ chan = [j \in Judges |-> <<>>]
  /\ apc = "off" /\ jnsfd = <<>> /\ jpid = <<>> /\ hall = <<>>
  /\ hpc = "none" /\ hi = 1 /\ asker = 1 /\ round = 0 /\ again = FALSE
  /\ scores = [i \in Judges |-> Unset]
  /\ jpc = [j \in Judges |-> "off"]
  /\ sigs = [j \in Judges |-> [usr1 |-> 0, usr2 |-> 0]]
  /\ due = [j \in Judges |-> 0]
  /\ talk = [j \in Judges |-> NoPid]
  /\ inbox = [j \in Judges |-> <<>>]

-----------------------------------------------------------------------------
(* s.c                                                                     *)

(* Listen on 8080, then look up the anchor once and for all.               *)
StageStart ==
  /\ spc = "off" /\ spc' = "accept"
  /\ apid' \in IF apc = "run" THEN {AnchorPid} ELSE Garbage
  /\ UNCHANGED <<onStage, door, perfVars, udsVars, anchorVars, handlerVars,
                 judgeVars>>

StageAccept ==
  /\ spc = "accept" /\ door # <<>>
  /\ spc' = "watch"
  /\ onStage' = Head(door) /\ door' = Tail(door)
  /\ UNCHANGED <<apid, perfVars, udsVars, anchorVars, handlerVars, judgeVars>>

(* One recv of either loop: the performance ends with "exit\n" or when the *)
(* connection closes, the answers only when it closes ("exit" has no \n).  *)
StageRecv ==
  LET p == onStage
      over == \/ toStage[p] = <<>>
              \/ spc = "watch" /\ Head(toStage[p]) = "exit" IN
  /\ spc \in {"watch", "answers"}
  /\ toStage[p] # <<>> \/ ppc[p] = "gone"
  /\ toStage' = IF toStage[p] = <<>> THEN toStage
                ELSE [toStage EXCEPT ![p] = Tail(@)]
  /\ spc' = IF ~over THEN spc ELSE IF spc = "watch" THEN "signal" ELSE "accept"
  /\ UNCHANGED <<apid, onStage, door, ppc, typed, path, quits, overlap, udsVars,
                 anchorVars, handlerVars, judgeVars>>

(* Mutant: the stage does not wait for the answers.                        *)
StageSignalGoesOn ==
  /\ spc = "signal"
  /\ spc' = "accept"
  /\ again' = (again \/ (apid = AnchorPid /\ apc = "run"))
  /\ UNCHANGED <<apid, onStage, door, perfVars, udsVars, anchorVars, hpc, hi,
                 asker, scores, round, judgeVars>>

(* kill(apid, SIGUSR1); kill(0, ...) ends the stage itself.                *)
StageSignal ==
  /\ spc = "signal"
  /\ spc' = IF apid = 0 THEN "gone" ELSE "answers"
  /\ again' = (again \/ (apid = AnchorPid /\ apc = "run"))
  /\ UNCHANGED <<apid, onStage, door, perfVars, udsVars, anchorVars, hpc, hi,
                 asker, scores, round, judgeVars>>

Stage == StageStart \/ StageAccept \/ StageRecv \/ StageSignal

-----------------------------------------------------------------------------
(* p.c                                                                     *)

PerformerStart(p) ==
  /\ ppc[p] = "off"
  /\ IF spc \in {"off", "gone"}
       THEN ppc' = [ppc EXCEPT ![p] = "gone"] /\ UNCHANGED door
       ELSE /\ ppc' = [ppc EXCEPT ![p] = "perform"]
            /\ door' = Append(door, p)
  /\ UNCHANGED <<spc, apid, onStage, toStage, typed, path, quits, overlap, udsVars,
                 anchorVars, handlerVars, judgeVars>>

PerformerTypes(p) ==
  /\ ppc[p] = "perform"
  /\ \/ /\ typed[p] < MaxLines
        /\ typed' = [typed EXCEPT ![p] = @ + 1]
        /\ toStage' = [toStage EXCEPT ![p] = Append(@, "line")]
        /\ UNCHANGED ppc
     \/ /\ toStage' = [toStage EXCEPT ![p] = Append(@, "exit")]
        /\ ppc' = [ppc EXCEPT ![p] = "bind"]
        /\ UNCHANGED typed
  /\ UNCHANGED <<stageVars, path, quits, overlap, udsVars, anchorVars, handlerVars,
                 judgeVars>>

(* The user interrupts a performance.                                      *)
PerformerQuits(p) ==
  /\ ppc[p] = "perform" /\ quits < MaxQuits
  /\ ppc' = [ppc EXCEPT ![p] = "gone"]
  /\ quits' = quits + 1
  /\ UNCHANGED <<stageVars, toStage, typed, path, overlap, udsVars, anchorVars,
                 handlerVars, judgeVars>>

(* serv_uds_listen: unlink, bind and listen.                               *)
PerformerBind(p) ==
  /\ ppc[p] = "bind"
  /\ ppc' = [ppc EXCEPT ![p] = "accept"]
  /\ path' = p
  /\ overlap' = (overlap \/ \E q \in Performers \ {p} :
                              ppc[q] \in {"perform", "bind", "accept"})
  /\ UNCHANGED <<stageVars, toStage, typed, quits, udsVars, anchorVars,
                 handlerVars, judgeVars>>

PerformerAccept(p) ==
  /\ ppc[p] = "accept" /\ callers[p] # <<>>
  /\ ppc' = [ppc EXCEPT ![p] = "answer"]
  /\ UNCHANGED <<stageVars, toStage, typed, path, quits, overlap, udsVars, anchorVars,
                 handlerVars, judgeVars>>

(* recv a question and send an answer; "exit\n" is sent on, then main ends.*)
PerformerAnswers(p) ==
  LET j == Head(callers[p]) IN
  /\ ppc[p] = "answer" /\ chan[j] # <<>>
  /\ chan' = [chan EXCEPT ![j] = Tail(@)]
  /\ toStage' = [toStage EXCEPT ![p] = Append(@, Head(chan[j]))]
  /\ ppc' = IF Head(chan[j]) = "exit" THEN [ppc EXCEPT ![p] = "gone"] ELSE ppc
  /\ UNCHANGED <<stageVars, typed, path, quits, overlap, callers, anchorVars,
                 handlerVars, judgeVars>>

(* send to a stage that is gone ends the performer, at the latest the      *)
(* second time.                                                            *)
PerformerPipe(p) ==
  /\ spc = "gone" /\ ppc[p] \in {"perform", "answer"}
  /\ ppc' = [ppc EXCEPT ![p] = "gone"]
  /\ UNCHANGED <<stageVars, toStage, typed, path, quits, overlap, udsVars,
                 anchorVars, handlerVars, judgeVars>>

Performer(p) == PerformerBind(p) \/ PerformerAccept(p) \/ PerformerAnswers(p)

-----------------------------------------------------------------------------
(* a.c: main                                                               *)

AnchorStart ==
  /\ apc = "off" /\ apc' = "run"
  /\ UNCHANGED <<stageVars, perfVars, udsVars, jnsfd, jpid, hall, handlerVars,
                 judgeVars>>

(* pidof "./j<i>.exe" for the i-th connection, whichever judge made it.    *)
pidof(i) == IF jpc[i] \notin {"off", "gone"} THEN {i} ELSE Garbage

(* Mutant: a judge that pidof does not find is left out of jpid.           *)
AnchorAcceptSkips ==
  /\ apc = "run" /\ hpc = "none"
  /\ hall # <<>> /\ Len(jnsfd) < NumJudges
  /\ jnsfd' = Append(jnsfd, Head(hall)) /\ hall' = Tail(hall)
  /\ jpid' = IF jpc[Len(jnsfd) + 1] = "off" THEN jpid
             ELSE Append(jpid, Len(jnsfd) + 1)
  /\ UNCHANGED <<stageVars, perfVars, udsVars, apc, handlerVars, judgeVars>>

AnchorAccept ==
  /\ apc = "run" /\ hpc = "none"
  /\ hall # <<>> /\ Len(jnsfd) < NumJudges
  /\ jnsfd' = Append(jnsfd, Head(hall)) /\ hall' = Tail(hall)
  /\ \E pid \in pidof(Len(jnsfd) + 1) : jpid' = Append(jpid, pid)
  /\ UNCHANGED <<stageVars, perfVars, udsVars, apc, handlerVars, judgeVars>>

-----------------------------------------------------------------------------
(* a.c: sig_s_handler                                                      *)

HandlerStart ==
  /\ apc = "run" /\ hpc = "none" /\ again /\ round < MaxRounds
  /\ again' = FALSE
  /\ asker' \in Judges
  /\ hpc' = "kill" /\ hi' = 1 /\ round' = round + 1
  /\ scores' = [i \in Judges |-> Unset]
  /\ UNCHANGED <<stageVars, perfVars, udsVars, anchorVars, judgeVars>>

NextIndex(loop, after) ==
  IF hi < NumJudges THEN hi' = hi + 1 /\ hpc' = loop
                    ELSE hi' = 1 /\ hpc' = after

(* jpid[i], which is 0 until a judge was accepted.                         *)
PidAt(i) == IF i <= Len(jpid) THEN jpid[i] ELSE 0

(* Mutant: every judge is asked to ask.                                    *)
HandlerKillAsk ==
  LET pid == PidAt(hi) IN
  /\ apc = "run" /\ hpc = "kill"
  /\ NextIndex("kill", "recv")
  /\ pid \in Judges
  /\ sigs' = IF jpc[pid] = "gone" THEN sigs
             ELSE [sigs EXCEPT ![pid].usr1 = round]
  /\ UNCHANGED <<stageVars, perfVars, udsVars, anchorVars, asker, scores,
                 round, again, jpc, due, talk, inbox>>

(* Mutant: the loop of kills stops before the last judge.                  *)
HandlerKillShort ==
  LET pid == PidAt(hi) IN
  /\ apc = "run" /\ hpc = "kill"
  /\ NextIndex("kill", "recv")
  /\ pid \in Judges
  /\ sigs' = IF jpc[pid] = "gone" \/ hi = NumJudges THEN sigs
             ELSE IF hi = asker THEN [sigs EXCEPT ![pid].usr1 = round]
             ELSE [sigs EXCEPT ![pid].usr2 = round]
  /\ UNCHANGED <<stageVars, perfVars, udsVars, anchorVars, asker, scores,
                 round, again, jpc, due, talk, inbox>>

(* kill(jpid[i], ...): 0 is the anchor's own process group.  SIGUSR1 is    *)
(* blocked in its handler and stays pending, SIGUSR2 ends the anchor.      *)
HandlerKill ==
  LET pid == PidAt(hi) IN
  /\ apc = "run" /\ hpc = "kill"
  /\ NextIndex("kill", "recv")
  /\ again' = (again \/ (pid = 0 /\ hi = asker))
  /\ apc' = IF pid = 0 /\ hi # asker THEN "gone" ELSE apc
  /\ sigs' = IF pid \notin Judges THEN sigs
             ELSE IF jpc[pid] = "gone" THEN sigs
             ELSE IF hi = asker THEN [sigs EXCEPT ![pid].usr1 = round]
             ELSE [sigs EXCEPT ![pid].usr2 = round]
  /\ UNCHANGED <<stageVars, perfVars, udsVars, jnsfd, jpid, hall, asker,
                 scores, round, jpc, due, talk, inbox>>

(* Mutant: recv does not wait for the judge.                               *)
HandlerRecvNoWait ==
  /\ apc = "run" /\ hpc = "recv" /\ hi <= Len(jnsfd)
  /\ LET q == jnsfd[hi] IN
     /\ scores' = IF inbox[q] = <<>> THEN scores
                  ELSE [scores EXCEPT ![hi] = [by |-> q,
                                               round |-> Head(inbox[q])]]
     /\ inbox' = [inbox EXCEPT ![q] = <<>>]
  /\ NextIndex("recv", "announce")
  /\ UNCHANGED <<stageVars, perfVars, udsVars, anchorVars, asker, round,
                 again, jpc, sigs, due, talk>>

(* recv takes everything that has arrived, atoi the first number of it.    *)
HandlerRecv ==
  /\ apc = "run" /\ hpc = "recv" /\ hi <= Len(jnsfd)
  /\ LET q == jnsfd[hi] IN
     /\ inbox[q] # <<>>
     /\ scores' = [scores EXCEPT ![hi] = [by |-> q, round |-> Head(inbox[q])]]
     /\ inbox' = [inbox EXCEPT ![q] = <<>>]
  /\ NextIndex("recv", "announce")
  /\ UNCHANGED <<stageVars, perfVars, udsVars, anchorVars, asker, round,
                 again, jpc, sigs, due, talk>>

(* n <= 0: the judge is gone, or jnsfd[i] is still 0 and no socket.        *)
HandlerBreak ==
  /\ apc = "run" /\ hpc = "recv"
  /\ \/ hi > Len(jnsfd)
     \/ hi <= Len(jnsfd) /\ jpc[jnsfd[hi]] = "gone" /\ inbox[jnsfd[hi]] = <<>>
  /\ hpc' = "announce"
  /\ UNCHANGED <<stageVars, perfVars, udsVars, anchorVars, hi, asker, scores,
                 round, again, judgeVars>>

HandlerAnnounce ==
  /\ apc = "run" /\ hpc = "announce"
  /\ hpc' = "none"
  /\ UNCHANGED <<stageVars, perfVars, udsVars, anchorVars, hi, asker, scores,
                 round, again, judgeVars>>

sig_s_handler ==
  \/ HandlerStart \/ HandlerKill \/ HandlerRecv \/ HandlerBreak
  \/ HandlerAnnounce

-----------------------------------------------------------------------------
(* j1.c, j2.c, j3.c                                                        *)

JudgeStart(j) ==
  /\ jpc[j] = "off"
  /\ jpc' = [jpc EXCEPT ![j] = "started"]
  /\ UNCHANGED <<stageVars, perfVars, udsVars, anchorVars, handlerVars, sigs,
                 due, talk, inbox>>

(* Handlers are installed, then connect; no anchor ends the judge.  Until  *)
(* then a signal ends it too (JudgeKilled).                                *)
JudgeConnect(j) ==
  /\ jpc[j] = "started"
  /\ IF apc = "run"
       THEN /\ jpc' = [jpc EXCEPT ![j] = "idle"]
            /\ hall' = Append(hall, j)
       ELSE /\ jpc' = [jpc EXCEPT ![j] = "gone"]
            /\ UNCHANGED hall
  /\ UNCHANGED <<stageVars, perfVars, udsVars, apc, jnsfd, jpid, handlerVars,
                 sigs, due, talk, inbox>>

JudgeKilled(j) ==
  /\ jpc[j] = "started"
  /\ sigs[j].usr1 # 0 \/ sigs[j].usr2 # 0
  /\ jpc' = [jpc EXCEPT ![j] = "gone"]
  /\ sigs' = [sigs EXCEPT ![j] = [usr1 |-> 0, usr2 |-> 0]]
  /\ UNCHANGED <<stageVars, perfVars, udsVars, anchorVars, handlerVars, due,
                 talk, inbox>>

(* sig_A1_handler: cli_uds_conn; nobody listening ends the judge.          *)
AskConnect(j) ==
  LET up == path # NoPid /\ ppc[path] \in {"accept", "answer"} IN
  /\ jpc[j] = "idle" /\ sigs[j].usr1 # 0
  /\ sigs' = [sigs EXCEPT ![j].usr1 = 0]
  /\ due' = [due EXCEPT ![j] = sigs[j].usr1]
  /\ IF up THEN /\ jpc' = [jpc EXCEPT ![j] = "ask"]
                /\ talk' = [talk EXCEPT ![j] = path]
                /\ chan' = [chan EXCEPT ![j] = <<>>]
                /\ callers' = [callers EXCEPT ![path] = Append(@, j)]
           ELSE /\ jpc' = [jpc EXCEPT ![j] = "gone"]
                /\ UNCHANGED <<talk, chan, callers>>
  /\ UNCHANGED <<stageVars, perfVars, anchorVars, handlerVars, inbox>>

(* The judge's user types a question or exit; if the performer is gone the *)
(* send ends the judge (SIGPIPE).                                          *)
JudgeTypes(j) ==
  LET p == talk[j] IN
  /\ jpc[j] = "ask"
  /\ IF ppc[p] = "gone"
       THEN jpc' = [jpc EXCEPT ![j] = "gone"] /\ UNCHANGED <<chan, typed>>
       ELSE \/ /\ typed[p] < MaxLines
               /\ typed' = [typed EXCEPT ![p] = @ + 1]
               /\ chan' = [chan EXCEPT ![j] = Append(@, "line")]
               /\ UNCHANGED jpc
            \/ /\ chan' = [chan EXCEPT ![j] = Append(@, "exit")]
               /\ jpc' = [jpc EXCEPT ![j] = "score"]
               /\ UNCHANGED typed
  /\ UNCHANGED <<stageVars, ppc, toStage, path, quits, overlap, callers, anchorVars,
                 handlerVars, sigs, due, talk, inbox>>

(* The end of sig_A1_handler.                                              *)
AskScore(j) ==
  /\ jpc[j] = "score"
  /\ jpc' = [jpc EXCEPT ![j] = "idle"]
  /\ inbox' = [inbox EXCEPT ![j] = Append(@, due[j])]
  /\ UNCHANGED <<stageVars, perfVars, udsVars, anchorVars, handlerVars, sigs,
                 due, talk>>

(* sig_A2_handler; it may interrupt sig_A1_handler.                        *)
sig_A2_handler(j) ==
  /\ jpc[j] \in {"idle", "ask", "score"} /\ sigs[j].usr2 # 0
  /\ inbox' = [inbox EXCEPT ![j] = Append(@, sigs[j].usr2)]
  /\ sigs' = [sigs EXCEPT ![j].usr2 = 0]
  /\ UNCHANGED <<stageVars, perfVars, udsVars, anchorVars, handlerVars, jpc,
                 due, talk>>

sig_A1_handler(j) == AskConnect(j) \/ AskScore(j)

-----------------------------------------------------------------------------
Judge(j) ==
  \/ JudgeStart(j) \/ JudgeConnect(j) \/ JudgeKilled(j) \/ JudgeTypes(j)
  \/ sig_A1_handler(j) \/ sig_A2_handler(j)

(* j2.c and j3.c are j1.c under another name.                              *)
j1 == Judge(1)
j2 == \E j \in Judges \ {1} : Judge(j)

ShowNext ==
  \/ Stage
  \/ \E p \in Performers :
       PerformerStart(p) \/ PerformerTypes(p) \/ PerformerQuits(p) \/ Performer(p)
       \/ PerformerPipe(p)
  \/ AnchorStart \/ AnchorAccept \/ sig_s_handler
  \/ j1 \/ j2

ShowSpec == ShowInit /\ [][ShowNext]_showVars

(* The running programs go on; nobody has to start one or to type.         *)
ShowFairSpec ==
  /\ ShowSpec
  /\ WF_showVars(Stage) /\ WF_showVars(sig_s_handler)
  /\ \A p \in Performers : WF_showVars(Performer(p))
  /\ \A j \in Judges : WF_showVars(sig_A1_handler(j)) /\ WF_showVars(sig_A2_handler(j))

-----------------------------------------------------------------------------
(* Properties                                                              *)

(* Control states are those of the programs, a score comes from a round.   *)
ShowTypeOK ==
  /\ spc \in {"off", "accept", "watch", "signal", "answers", "gone"}
  /\ ppc \in [Performers -> {"off", "perform", "bind", "accept", "answer", "gone"}]
  /\ jpc \in [Judges -> {"off", "started", "idle", "ask", "score", "gone"}]
  /\ hpc \in {"none", "kill", "recv", "announce"} /\ hi \in Judges
  /\ path \in Performers \cup {NoPid} /\ talk \in [Judges -> Performers \cup {NoPid}]
  /\ Len(jpid) = Len(jnsfd)
  /\ round \in 0..MaxRounds
  /\ \A j \in Judges : \A k \in 1..Len(inbox[j]) : inbox[j][k] \in 1..round

(* All judges run, are accepted, and the anchor has their pids.            *)
Healthy ==
  /\ apc = "run" /\ Len(jnsfd) = NumJudges
  /\ \A j \in Judges : jpid[j] = j /\ jpc[j] # "gone"

(* What a.c announces as scores[i] was sent over connection i and belongs  *)
(* to this performance, never to an earlier one, although recv takes what  *)
(* has piled up and the loop may break off and leave scores unread; an     *)
(* entry stays unset only if a judge is gone or was not accepted yet.      *)
AnnouncedScores ==
  hpc = "announce" =>
    \A i \in Judges :
      IF scores[i] = Unset
        THEN ~Healthy
        ELSE scores[i].by = jnsfd[i] /\ scores[i].round = round

(* While all judges are there, the anchor has one of them ask at a time.   *)
OneAsker ==
  Healthy =>
    Cardinality({j \in Judges : jpc[j] \in {"ask", "score"} \/ sigs[j].usr1 # 0})
      <= 1

(* The asking judge talks to the performer on the stage, unless a second   *)
(* performer took the name "stage_perform" meanwhile or a performer left.  *)
RightPerformer ==
  Healthy /\ ~overlap /\ quits = 0 =>
    \A j \in Judges : jpc[j] = "ask" => talk[j] = onStage

(* Once the asking judge has typed exit, the anchor gets all its scores    *)
(* and returns from the handler, unless a judge is missing.                *)
RoundEnds ==
  \A j \in Judges :
    jpc[j] = "score" ~> hpc = "none" \/ ~Healthy

(* One judge asks at a time, and asks the performer on the stage           *)
(* (a.c:104, p.c:73).                                                      *)
OneRightAsker == OneAsker /\ RightPerformer
=============================================================================
