----------------------------- MODULE DataServer -----------------------------
(***************************************************************************)
(* 4-2-22: the multi-data server DS.  A client asks for data server Di by  *)
(* its digit; DS starts Di with popen for its first client, polls the pipe *)
(* and sends what it reads to all clients of Di.  clients_connected is an  *)
(* array of rows of Row cells: client number Row + 1 of a stream lands in  *)
(* the first cell of the next row.                                         *)
(***************************************************************************)
EXTENDS Integers, Sequences, FiniteSets, FiniteSetsExt, Functions

CONSTANTS
  NViewers,   \* clients (C)
  Streams,    \* the digits that clients type; a range of naturals
  Missing,    \* those with no executable: popen gives a pipe at its end
  Row,        \* cells in a row of clients_connected (5 in the code)
  MaxOut      \* bound: outputs of a data server that DS reads

(* Clients are numbered in the order in which they connect.                *)
Viewers == 1..NViewers
NoViewer == 0
Cells == (Min(Streams) * Row)..((Max(Streams) + 1) * Row + NViewers)
ASSUME DataConstants ==
  /\ NViewers \in Nat \ {0}
  /\ IsFiniteSet(Streams) /\ Streams \subseteq Nat /\ Streams # {}
  /\ Missing \subseteq Streams /\ Row \in Nat \ {0} /\ MaxOut \in Nat

VARIABLES
  pcDS,       \* "poll", "loop", "option" (blocked in recv) or "fan"
  d_number,   \* the stream behind pfds[1], pfds[2], ...
  due,        \* indices of pfds that this pass of the loop still visits
  cells,      \* clients_connected, row after row
  clients_connected_count,
  nsfd,       \* the client whose option DS waits for
  fan,        \* the stream whose output is being sent
  at,         \* index of the loop over the clients
  viewer,     \* "out", "queued", "in" or "gone"
  typed,      \* what each client has typed (0: nothing yet)
  output,     \* streams with output in their pipe
  outs,       \* per stream: outputs that DS has read
  seen,       \* per client and stream: messages received
  joined      \* history: outs of the stream when the client was entered

dataVars == <<pcDS, d_number, due, cells, clients_connected_count, nsfd, fan, at,
              viewer, typed, output, outs, seen, joined>>

DataInit ==
  /\ pcDS = "poll" /\ d_number = <<>> /\ due = {}
  /\ cells = [k \in Cells |-> NoViewer]
  /\ clients_connected_count = [d \in Streams |-> 0]
  /\ nsfd = NoViewer /\ fan = 0 /\ at = 0
  /\ viewer = [c \in Viewers |-> "out"] /\ typed = [c \in Viewers |-> 0]
  /\ output = {} /\ outs = [d \in Streams |-> 0]
  /\ seen = [c \in Viewers |-> [d \in Streams |-> 0]]
  /\ joined = [c \in Viewers |-> 0]

-----------------------------------------------------------------------------
(* The clients and the data servers                                        *)

(* C connects, the user types a digit, and C receives until DS is gone or  *)
(* the user stops it.                                                      *)
Viewer(c) ==
  /\ \/ /\ viewer[c] = "out" /\ \A b \in 1..(c-1) : viewer[b] # "out"
        /\ viewer' = [viewer EXCEPT ![c] = "queued"]
        /\ UNCHANGED typed
     \/ /\ viewer[c] \in {"queued", "in"} /\ typed[c] = 0
        /\ \E d \in Streams : typed' = [typed EXCEPT ![c] = d]
        /\ UNCHANGED viewer
     \/ /\ viewer[c] = "in" /\ viewer' = [viewer EXCEPT ![c] = "gone"]
        /\ UNCHANGED typed
  /\ UNCHANGED <<pcDS, d_number, due, cells, clients_connected_count, nsfd, fan,
                 at, output, outs, seen, joined>>

(* Di prints a line every few seconds from its start.                      *)
Print1(d) ==
  /\ d \in Range(d_number) \ (Missing \cup output) /\ outs[d] < MaxOut
  /\ output' = output \cup {d}
  /\ UNCHANGED <<pcDS, d_number, due, cells, clients_connected_count, nsfd, fan,
                 at, viewer, typed, outs, seen, joined>>

-----------------------------------------------------------------------------
(* DS                                                                      *)

(* A pipe at its end reports POLLHUP, which `revents && POLLIN' takes for  *)
(* input.                                                                  *)
Readable(d) == d \in output \/ (d \in Missing /\ outs[d] < MaxOut)

PollDS ==
  LET ready == {i \in 1..Len(d_number) : Readable(d_number[i])}
               \cup (IF \E c \in Viewers : viewer[c] = "queued" THEN {0} ELSE {})
  IN /\ pcDS = "poll" /\ ready # {}
     /\ pcDS' = "loop" /\ due' = ready
     /\ UNCHANGED <<d_number, cells, clients_connected_count, nsfd, fan, at,
                    viewer, typed, output, outs, seen, joined>>

AcceptDS ==
  /\ pcDS = "loop" /\ 0 \in due
  /\ nsfd' = Min({c \in Viewers : viewer[c] = "queued"})
  /\ viewer' = [viewer EXCEPT ![nsfd'] = "in"]
  /\ pcDS' = "option" /\ due' = due \ {0}
  /\ UNCHANGED <<d_number, cells, clients_connected_count, fan, at, typed,
                 output, outs, seen, joined>>

(* Mutant: the process is started for every client.                        *)
FirstClientAlways(d) == TRUE
FirstClient(d) == clients_connected_count[d] = 0

(* Mutant: n_pfds is incremented before the entry is filled.               *)
NewEntryNext == Len(d_number) + 2
NewEntry == Len(d_number) + 1

(* recv has returned: popen for the first client of Di; the new entry of   *)
(* pfds has a revents nobody has set, so this pass visits it or not.  When *)
(* the client left before it typed, option is not set either.              *)
Enter ==
  /\ pcDS = "option"
  /\ typed[nsfd] # 0 \/ viewer[nsfd] = "gone"
  /\ \E d \in IF typed[nsfd] # 0 THEN {typed[nsfd]} ELSE Streams :
       /\ IF FirstClient(d)
          THEN /\ d_number' = Append(d_number, d)
               /\ due' \in {due, due \cup {NewEntry}}
          ELSE UNCHANGED <<d_number, due>>
       /\ cells' = [cells EXCEPT ![d * Row + clients_connected_count[d]] = nsfd]
       /\ clients_connected_count' = [clients_connected_count EXCEPT ![d] = @ + 1]
       /\ joined' = [joined EXCEPT ![nsfd] = outs[d]]
  /\ pcDS' = "loop"
  /\ UNCHANGED <<nsfd, fan, at, viewer, typed, output, outs, seen>>

(* Mutant: the index in pfds is taken for the number of the stream.        *)
StreamOfIndex(i) == i
StreamOf(i) == d_number[i]

(* read of the next pipe: blocks DS when it has nothing (an entry visited  *)
(* because of its unset revents); 0 bytes are sent on as an empty message. *)
ReadDS ==
  /\ pcDS = "loop" /\ due # {} /\ 0 \notin due
  /\ LET i == Min(due) IN
       /\ Readable(d_number[i])
       /\ fan' = StreamOf(i) /\ due' = due \ {i}
       /\ output' = output \ {d_number[i]}
       /\ outs' = [outs EXCEPT ![d_number[i]] = @ + 1]
  /\ at' = 0 /\ pcDS' = "fan"
  /\ UNCHANGED <<d_number, cells, clients_connected_count, nsfd, viewer, typed,
                 seen, joined>>

(* Mutant: the loop over the clients starts at the second one.             *)
FromSecond == at + 1
From == at

(* send with MSG_NOSIGNAL: a client that left costs nothing.               *)
SendDS ==
  /\ pcDS = "fan" /\ From < clients_connected_count[fan]
  /\ LET c == cells[fan * Row + From] IN
       seen' = IF viewer[c] = "gone" THEN seen ELSE [seen EXCEPT ![c][fan] = @ + 1]
  /\ at' = From + 1
  /\ UNCHANGED <<pcDS, d_number, due, cells, clients_connected_count, nsfd, fan,
                 viewer, typed, output, outs, joined>>

NextDS ==
  /\ \/ /\ pcDS = "fan" /\ From >= clients_connected_count[fan]
        /\ pcDS' = "loop"
     \/ pcDS = "loop" /\ due = {} /\ pcDS' = "poll"
  /\ UNCHANGED <<d_number, due, cells, clients_connected_count, nsfd, fan, at,
                 viewer, typed, output, outs, seen, joined>>

DataNext ==
  \/ \E c \in Viewers : Viewer(c)
  \/ \E d \in Streams : Print1(d)
  \/ PollDS \/ AcceptDS \/ Enter \/ ReadDS \/ SendDS \/ NextDS

DataSpec == DataInit /\ [][DataNext]_dataVars

-----------------------------------------------------------------------------
(* Properties                                                              *)

DataTypeOK ==
  /\ pcDS \in {"poll", "loop", "option", "fan"}
  /\ d_number \in Seq(Streams) /\ due \subseteq 0..Len(d_number)
  /\ cells \in [Cells -> Viewers \cup {NoViewer}]
  /\ clients_connected_count \in [Streams -> 0..NViewers]
  /\ viewer \in [Viewers -> {"out", "queued", "in", "gone"}]
  /\ output \subseteq Streams /\ outs \in [Streams -> 0..MaxOut]

(* Every client has each output of its stream since it was entered, once,  *)
(* and nothing of another stream, as long as no row is full (DS.c:89 has   *)
(* no test, DS.c:100 finds the clients through d_number).                  *)
OwnStreamOnly ==
  (\A d \in Streams : clients_connected_count[d] <= Row) /\ pcDS # "fan" =>
    \A c \in Viewers : \A d \in Streams :
      viewer[c] = "in" /\ typed[c] # 0 =>
        seen[c][d] = IF c = nsfd /\ pcDS = "option" THEN 0
                     ELSE IF d = typed[c] THEN outs[d] - joined[c] ELSE 0

(* Di is started once: two entries of pfds never read the same stream      *)
(* (DS.c:72, also when its only client has left).                          *)
OneProcess ==
  \A i, k \in 1..Len(d_number) : d_number[i] = d_number[k] => i = k

(* Each stream has one process and its clients get that stream only, while *)
(* no row is full (DS.c:54-107).                                           *)
DataSafe == OwnStreamOnly /\ OneProcess
=============================================================================
