------------------------------ MODULE FifoPoll ------------------------------
(***************************************************************************)
(* p1 waits with poll for lines of three feeds.  In 11-1-22/poll they are  *)
(* three FIFOs, each with a writer p2, p3 or p4; in practice/poll they are *)
(* the terminal, the output of a program and a file.  p1 tests POLLHUP     *)
(* before POLLIN, so what a pipe still holds when its writer leaves is     *)
(* lost, and prints the first string of what it read.                      *)
(*                                                                         *)
(* A piece <<k, p, n>> is half a buffer: part p of the n parts of line k,  *)
(* the last part with the terminating NUL where the writer sends one.      *)
(***************************************************************************)
EXTENDS Integers, Sequences, FiniteSets, SequencesExt

CONSTANTS
  Programs,  \* subset of {"fifos", "mixed"}
  Buffer,    \* pieces that fit into buff: the longest line has as many
  MaxTyped,  \* bound: lines typed in all
  MaxOpens   \* bound: writers started in all

ASSUME PollConstants ==
  /\ Programs \subseteq {"fifos", "mixed"}
  /\ Buffer \in Nat \ {0} /\ MaxTyped \in Nat /\ MaxOpens \in Nat

Feeds == 1..3

VARIABLES
  prog,      \* which of the two programs
  p1at,      \* p1: "open", "loop" or "end"
  next,      \* the feed that p1 opens
  fd,        \* per feed: does pfd[i].fd hold an open descriptor
  nopenfds,  \* p1's count of them
  rev,       \* per feed: revents of the last poll that p1 has not looked at
  writer,    \* per feed: "none", "opening", "typing", "closed" or "killed"
  opens,     \* per feed: writers started
  written,     \* per feed: lines written
  fifo,      \* per feed: pieces written and not read
  shown,     \* history, per feed: pieces that p1 printed
  crowded,   \* history, per feed: lines written behind an unread one
  dropped    \* history, per feed: lines that p1 closed without reading

pollVars == <<prog, p1at, next, fd, nopenfds, rev, writer, opens, written, fifo,
              shown, crowded, dropped>>
p1Vars == <<p1at, next, fd, nopenfds, rev, shown, dropped>>

(* Does the end of the writer show as POLLHUP?  Terminal and file give     *)
(* POLLIN and a read of 0 instead.                                         *)
HangsUp(i) == prog = "fifos" \/ i = 2

(* mkfifo, or popen and the open of temp.txt, which holds one line.        *)
PollInit ==
  /\ prog \in Programs /\ next = 1 /\ nopenfds = 3 /\ rev = [i \in Feeds |-> {}]
  /\ p1at = IF prog = "fifos" THEN "open" ELSE "loop"
  /\ fd = [i \in Feeds |-> prog = "mixed"]
  /\ writer = [i \in Feeds |-> IF prog = "fifos" THEN "none"
                               ELSE IF i = 3 THEN "closed" ELSE "typing"]
  /\ opens = [i \in Feeds |-> IF prog = "fifos" THEN 0 ELSE 1]
  /\ written = [i \in Feeds |-> IF prog = "mixed" /\ i = 3 THEN 1 ELSE 0]
  /\ fifo = [i \in Feeds |-> IF prog = "mixed" /\ i = 3 THEN <<<<1, 1, 1>>>> ELSE <<>>]
  /\ shown = [i \in Feeds |-> {}] /\ crowded = [i \in Feeds |-> {}]
  /\ dropped = [i \in Feeds |-> {}]

-----------------------------------------------------------------------------
(* Writers                                                                 *)

Sum3(f) == f[1] + f[2] + f[3]

(* p2, p3 or p4 is started, and again after it ended.                      *)
StartWriter(i) ==
  /\ prog = "fifos" /\ writer[i] \in {"none", "closed", "killed"} /\ Sum3(opens) < MaxOpens
  /\ writer' = [writer EXCEPT ![i] = "opening"] /\ opens' = [opens EXCEPT ![i] = @ + 1]
  /\ UNCHANGED <<prog, p1Vars, written, fifo, crowded>>

(* open(O_WRONLY) of a FIFO that p1 has open; without it the open sleeps.  *)
OpenWriter(i) ==
  /\ writer[i] = "opening" /\ fd[i]
  /\ writer' = [writer EXCEPT ![i] = "typing"]
  /\ UNCHANGED <<prog, p1Vars, opens, written, fifo, crowded>>

(* fgets and write of a line with its NUL; without a reader, SIGPIPE.      *)
WriteLine(i, n) ==
  /\ writer[i] = "typing" /\ Sum3(written) < MaxTyped
  /\ IF ~fd[i]
     THEN /\ writer' = [writer EXCEPT ![i] = "killed"]
          /\ UNCHANGED <<written, fifo, crowded>>
     ELSE /\ written' = [written EXCEPT ![i] = @ + 1]
          /\ fifo' = [fifo EXCEPT ![i] = @ \o [p \in 1..n |-> <<written[i] + 1, p, n>>]]
          /\ crowded' = [crowded EXCEPT ![i] = IF fifo[i] = <<>> THEN @ ELSE @ \cup {written[i] + 1}]
          /\ UNCHANGED writer
  /\ UNCHANGED <<prog, p1Vars, opens>>

(* fgets returns NULL: close and return.                                   *)
CloseWriter(i) ==
  /\ writer[i] = "typing"
  /\ writer' = [writer EXCEPT ![i] = "closed"]
  /\ UNCHANGED <<prog, p1Vars, opens, written, fifo, crowded>>

-----------------------------------------------------------------------------
(* p1                                                                      *)

(* open(O_RDONLY), one FIFO after the other; it meets a writer's open.     *)
OpenReader ==
  /\ p1at = "open" /\ writer[next] = "opening"
  /\ fd' = [fd EXCEPT ![next] = TRUE]
  /\ writer' = [writer EXCEPT ![next] = "typing"]
  /\ IF next = 3 THEN p1at' = "loop" /\ next' = 1 ELSE p1at' = p1at /\ next' = next + 1
  /\ UNCHANGED <<prog, nopenfds, rev, opens, written, fifo, shown, crowded, dropped>>

Revents(i) ==
  {e \in {"IN", "HUP"} :
     /\ fd[i]
     /\ \/ e = "IN" /\ fifo[i] # <<>>
        \/ e = "IN" /\ ~HangsUp(i) /\ writer[i] = "closed"
        \/ e = "HUP" /\ HangsUp(i) /\ writer[i] # "typing"}

Idle == p1at = "loop" /\ \A i \in Feeds : rev[i] = {}

(* poll sleeps until a feed is ready; revents stay as they were then.      *)
Poll ==
  /\ Idle /\ nopenfds > 0
  /\ rev' = [i \in Feeds |-> Revents(i)] /\ rev' # rev
  /\ UNCHANGED <<prog, p1at, next, fd, nopenfds, writer, opens, written, fifo, shown, crowded, dropped>>

(* Mutant: POLLHUP is not tested.                                          *)
SeenHangupNever(i) == FALSE
(* Mutant: any event is taken for the end.                                 *)
SeenHangupAny(i) == rev[i] # {}
SeenHangup(i) == "HUP" \in rev[i]

(* Mutant: buff[x - 1] = 0 after the read.                                 *)
StringCut(r) == IF r = <<>> THEN {} ELSE {r[k] : k \in 1..Len(r) - 1}
(* What printf shows of the pieces read: the FIFOs' writers send the NUL,  *)
(* so only the first string; terminal, program and file do not.            *)
String(r) ==
  {r[k] : k \in {l \in 1..Len(r) : prog = "fifos" => \A e \in 1..l - 1 : r[e][2] < r[e][3]}}

(* Mutant: the feed is closed and still counted.                           *)
CountKept(i) == nopenfds
CountAfter(i) == nopenfds - 1

(* close, pfd[i].fd = -1, nopenfds--                                       *)
CloseFeed(i) ==
  /\ fd' = [fd EXCEPT ![i] = FALSE] /\ nopenfds' = CountAfter(i)
  /\ fifo' = [fifo EXCEPT ![i] = <<>>]
  /\ dropped' = [dropped EXCEPT ![i] = @ \cup {u[1] : u \in ToSet(fifo[i])}]

(* read(fd, buff, 100)                                                     *)
Input(i) == SubSeq(fifo[i], 1, IF Len(fifo[i]) < Buffer THEN Len(fifo[i]) ELSE Buffer)

(* The body of the loop over the feeds, for the next one with revents.     *)
Scan(i) ==
  /\ rev[i] # {} /\ \A k \in 1..i - 1 : rev[k] = {}
  /\ rev' = [rev EXCEPT ![i] = {}]
  /\ IF SeenHangup(i) \/ ("IN" \in rev[i] /\ Input(i) = <<>>)
     THEN CloseFeed(i) /\ UNCHANGED shown
     ELSE /\ fifo' = [fifo EXCEPT ![i] = SubSeq(@, Len(Input(i)) + 1, Len(@))]
          /\ shown' = [shown EXCEPT ![i] = @ \cup String(Input(i))]
          /\ UNCHANGED <<fd, nopenfds, dropped>>
  /\ UNCHANGED <<prog, p1at, next, writer, opens, written, crowded>>

(* return 0 when no feed is left.                                          *)
Finish ==
  /\ Idle /\ nopenfds = 0
  /\ p1at' = "end"
  /\ UNCHANGED <<prog, next, fd, nopenfds, rev, writer, opens, written, fifo, shown, crowded, dropped>>

P1Step == OpenReader \/ Poll \/ Finish \/ \E i \in Feeds : Scan(i)

PollNext ==
  \/ P1Step
  \/ \E i \in Feeds : StartWriter(i) \/ OpenWriter(i) \/ CloseWriter(i)
                      \/ \E n \in 1..Buffer : WriteLine(i, n)

-----------------------------------------------------------------------------
(* Properties                                                              *)

PollTypeOK ==
  /\ p1at \in {"open", "loop", "end"} /\ next \in Feeds
  /\ p1at # "open" => nopenfds = Cardinality({i \in Feeds : fd[i]})
  /\ rev \in [Feeds -> SUBSET {"IN", "HUP"}]
  /\ writer \in [Feeds -> {"none", "opening", "typing", "closed", "killed"}]
  /\ \A i \in Feeds : (crowded[i] \cup dropped[i]) \subseteq 1..written[i]

(* A line that met an empty pipe is printed whole, and so is every line of *)
(* a feed without NULs, unless p1 closed the feed over it (p1.c:57-75).    *)
LineShown ==
  \A i \in Feeds : \A k \in 1..written[i] :
    \/ k \in dropped[i] \/ \E u \in ToSet(fifo[i]) : u[1] = k
    \/ prog = "fifos" /\ k \in crowded[i]
    \/ \E n \in 1..Buffer : \A p \in 1..n : <<k, p, n>> \in shown[i]

(* Only a pipe whose writer had left loses lines, and the only writer that *)
(* dies of SIGPIPE is one started again after the poll had seen the first  *)
(* one leave (p1.c:58: revents are older than the close).                  *)
HangupOnly ==
  \A i \in Feeds :
    /\ dropped[i] # {} => HangsUp(i) /\ ~fd[i] /\ (opens[i] > 1 \/ writer[i] = "closed")
    /\ writer[i] = "killed" => opens[i] > 1

(* p1 returns once all writers have ended, whatever they left unread, if   *)
(* no further writer comes (p1.c:50).                                      *)
PollEnds ==
  (p1at # "open" /\ \A i \in Feeds : writer[i] \in {"closed", "killed"})
    ~> (p1at = "end" \/ \E i \in Feeds : writer[i] \in {"opening", "typing"})

(* What p1 prints is all that was written, except behind another line or   *)
(* at a hang-up, and only a hang-up costs anybody anything.                *)
PollKept == LineShown /\ HangupOnly
=============================================================================
