# TLA+ models of the CN_LAB programs

CN_LAB is a collection of small distributed systems written for a networks
laboratory. Each directory holds a handful of C or C++ programs that are started
side by side and talk over sockets, queues, shared memory and signals. There is
no common main program; the systems are independent, but they are built from the
same few mechanisms, and those are where they are hard to get right:

* **signals** (`kill`, `pause`, handlers that write globals): a signal that
  arrives before `pause()` is lost, and two pending signals of a kind are one;
* **descriptor passing** over Unix sockets: a session, a connection or "the ball"
  moves from process to process;
* **raw sockets**: every process with a raw socket receives a copy of every
  datagram, also of those it is not waiting for;
* **System V queues** that outlive the processes and are read by message type;
* **poll loops, timeouts and captures** that may give up before the answer comes.

## Inventory

| Part | State | Operations | Interaction | What is hard | What makes it correct |
|---|---|---|---|---|---|
| Toll plaza, `midlab/toll_gate` | listening queues, vehicle at each gate, requests to FT, raw queue per gate, counters | connect, accept, forward descriptor, relay, verdict, count | TCP, Unix socket with descriptor, UDP, raw broadcast, signals | each gate sees all verdicts; old verdicts; dropped datagrams; merged signals | a vehicle gets its own verdict; counts follow passages; everybody is answered |
| ESS hand-over, `11-2-22/ESS`, `minor1/Q2-ESS` | queue of waiting pids, the one session, a flag per client | register, wait, receive the session, talk, pass on | SysV queue, SIGUSR1, Unix socket with descriptor, TCP | lost wake-up, dead pids in the queue, rebinding of one path | one owner, in the order of registration; answers not mixed |
| RPC by hand, `endlab` | two queues with two types each, frames not captured | call, marshal, send frame, capture, dispatch, return | queues by type, Ethernet frames | capture timeout, two clients on one queue, 16 bits | no message lost or doubled; the result is the call's |
| Pizza shop, `4-3-22/pizza` and `12-3-22/pizza` (ACE) | customer at the counter, waiters' items, parcels | order, hand over, serve, signal, deliver | TCP, descriptor passing, SIGUSR1, poll | lost wake-up, parcels and customers in different orders, customers who leave | one order at a time; the customer's own parcel; everybody served |
| Cricket, `15-3-22_RAW/cricket` | the ball (a descriptor), the numbers and catches under way, score | bowl, hit or miss, judge, catch | descriptor passing, two signals, `sigtimedwait`, raw broadcast | signal before it is blocked, timeout against a late signal, stale numbers | one ball; one catch per ball; the verdict is on this ball |
| Signal ring and group, `12-1-22/circular_signal`, `group_signal` | pids known, rounds, queue | exchange pids, signal round and back, stop; collect pids, form group | SysV queue by type, siginfo, signals | signal before `pause()`, one signal with two meanings, pids told apart by order | one signal at a time; right pids; everything ends |
| ESS with announcements, `22-3-22_RAW/ESS` | the hand-over plus `i_am_running` and two threads per client | announce, print announcements | raw broadcast | the flag is stale when the thread announces | one client runs; a stopped one is announced once more at most |
| Stage show, `4-3-22/online_stage_show` | judges' connections and pids, the performer's socket name, scores | perform, ask, score, announce | TCP, Unix socket, signals | blocking in a handler, a judge who dies, scores of an earlier performance | scores belong to this performance; the judge asks the right performer; the handler returns |
| Turns by semaphore, `12-1-22/q3`, `q4`, `practice/semaphore_sharedmem/class_example`, `10-2-22/pass_fd`, `practice/unix_domain_socket/pass_fd` | semaphores, shared words, a file offset | P, V, write, read, remove | SysV and POSIX semaphores, shared memory | one key for all semaphores; initialisation races; objects left by an earlier run | one turn at a time; no word lost; both programs end |
| Dialogues over pipes, `8-1-22` | lines in the pipes, buffers | type, read, pass on, exit | pipes, fork, exec | lines longer than the buffer, end of the pipe, who waits for whom | one speaker; all leave after exit |
| Message queue, `11-1-22/message queue` | one queue for requests and answers | ask, answer, take | SysV queue by type | a full queue, answers nobody took | everybody gets its own answer |
| Poll exercises, `11-1-22/poll`, `practice/poll` | FIFOs, `revents`, `nopenfds` | write, poll, read, close | FIFOs, poll | hang-up before data, old `revents`, several lines in one read | lines lost only where the code must lose them; p1 ends |
| Chat, `10-11-22/ChatServer` | two FIFOs, the server's buffer | say, copy, hear, leave | FIFOs, threads | many readers of one FIFO, end of input, opens that wait for each other | a message is in one place; nothing repeats while all stay |
| Audio streams, `minor1/Q3-AIO` | table of clients, range being served | accept, poll, send to all, hand over | pipes, FIFO, poll, signal handler, fork | the handler changes the table under the loop, descriptors are reused | nobody skipped or served twice; a client handed over hears the echo process only |
| Multi-data server, `4-2-22` | rows of clients, entries of the poll table | ask for a stream, start it, send to its clients | TCP, popen, poll | entries without `revents`, full rows, absent programs | clients get their own stream |
| Servers with threads or processes, `27-1-22/multisfd_poll`, `practice/socket/{threaded,choose_server,fork}` | the loop's `nsfd`, threads, descriptors | accept, start a thread or a process, serve | TCP, pthread, fork | the thread reads `nsfd` after the next accept | thread and client belong together unless that happened |
| Super server, `10-2-22/inet_d` | clients, running services | accept, pass the descriptor, serve | TCP, Unix socket with descriptor | clients and services come in any order and leave | the client reaches the service it chose |
| Iterative servers, judge and straight-line examples, `27-1-22/iterative_server`, `28-1-22`, `practice/socket/{basic,basic_gfg}`, `practice/unix_domain_socket/basic`, `observer` of the end-lab practice | position of each program, messages on the way, the socket file, `P.exe` | accept, send, recv, compile, compare, unlink | TCP, Unix socket | a file removed by the other side, a caller that leaves, ports accepted in a fixed order, an old `P.exe` | both sides in step; the first server reachable; the verdict on the source sent; callers end |

The remaining directories (course examples, header printers, ARP frames, rpcgen
output, templates, drivers) keep no protocol state; `PROJECT.json` lists them
under `components` with the reason. `hazards` in `PROJECT.json` lists what a test
of these programs would hardly reach, line by line.

## Modules

| Module | Models | Process or mechanism -> variables |
|---|---|---|
| `TollGate`, `MCTollGate` | `v.c`, `g1.c`, `g2.c` (`g3.c` is a copy of it), `TM.c`, `FT.c` | vehicles `vpc tag answer`; ports `backlog`; gates `gpc revents cur ftText raw lost`; manager `uds tmReady pending count`; server `udp ftpc ftValid` |
| `TollGateProofs`, `EndlabRpcProofs`, `PizzaProofs` | theorems about the module of that name | |
| `SignalProofs` | theorems about `Cricket` and `StageShow` | |
| `EssProofs` | theorems about `EssHandover` and `EssAnnounce` | |
| `TurnsProofs` | theorems about `MCTurns`: `TurnTaking`, `Dialogue`, `Mailbox`, `FifoPoll`, `Exchanges` | |
| `LabProofs` | theorems about `MCLab`: `AudioStreams`, `DataServer`, `ThreadServers`, `SuperServer`, `ChatFifo` | |
| `SeqLemmas` | facts about queues and about least numbers that the proofs share | |
| `EssHandover` | `first_client.c`, `C.c`, `ess.c`, `cleaner.c` | clients `pc flag pending nextPid conn heard`; the queue `mq`; the Unix socket `path backlog transit`; the session `toServer toClient` |
| `EssSession` | what the hand-over promises: an exclusive session passed on first come, first served | `holder chosen waiting` |
| `EndlabRpc` | `client.c`, `client_stub.c`, `server_stub.c`, `server.c`, `rpc.h` | clients `cpc call result`; queues `q1..q4`; frames `toServer toClient`; stubs `cspc sspc` |
| `Pizza` | both pizza shops; `version` says which programs run | customers `cpc got`; `b` `bpc nsfd signal_recieved`; waiters `wpc wfd combo_items`; `d` `dpc dfd dq` |
| `Cricket` | `bowl.c`, `bat.c`, `umpire.c`, `fielder.c` | `bowlpc batpc umppc`; the ball `toBat toUmp toBowl`; signals `pending blocked`; raw queues `rsfd1 rsfd2 fq`; `total outs` |
| `SignalRing` | both rings of `12-1-22`; `system` says which | `pc` is a position in the program's `Script`; `mode`; `mq removed`; `signals count`; `prev next collected grouppid members` |
| `EssAnnounce` (extends `EssHandover`) | `C.c`, `first_client.c`, `ess.c`, `cleaner.c` of `22-3-22_RAW/ESS` | the steps of `EssHandover` and the threads `running sender listens raw shown` |
| `StageShow` | `a.c`, `s.c`, `p.c`, `j1.c`, `j2.c` (`j3.c` is a copy of it) | anchor `apc hpc hi jnsfd jpid scores`; stage `spc`; performers `ppc`; judges `jpc talk sigs inbox`; socket name `path` |
| `TurnTaking` | four systems; `sys` says which | `phase step` position in a program's `Cycle`; `mem gen at` shared objects, each generation of names apart |
| `Dialogue` | `8-1-22/1`, `2`, `3`; `talk` says which | `doing pipe buffer` |
| `Mailbox` | `p1.c`-`p4.c` of the message queue exercise | `queue taken`; programs by pid `proc stage` |
| `FifoPoll` | both poll programs and the writers; `prog` says which | p1 `p1at next fd nopenfds rev`; writers `writer`; pipes `fifo` |
| `Exchanges` | six systems whose programs are lists of calls; `exch` says which | server `srun spos slot sockets`; callers `cpos peer`; streams `upward downward backlog`; socket file or port `path`; judge `binary judged verdict` |
| `MCTurns` | composes the five modules above for one run | `group` says which one moves |
| `AudioStreams` | `S.c` with `C.c`, `E.c`, `P1.c`-`P4.c` | loop `pcS nsfds nsfd_start c_start c_end j msg`; kernel `table`; clients `client got`; streams `stream` |
| `DataServer` | `DS.c`, `C.c`, `D1.c`-`D4.c`, `D.c` | `pcDS d_number due cells clients_connected_count`; clients `viewer typed seen` |
| `ThreadServers` | four servers and their clients; `kind` says which | loop `shared`; `thr` threads; `fdTable`; clients `up heard` |
| `SuperServer` | `inet.c`, `S1.c`, `S2.c`, `C.c` | `pcInet guest`; services `inst`; clients `gStage choice gRound net back` |
| `ChatFifo` | `server.c`, `client.c` | server `srv held`; FIFOs `chan1 chan2`; threads `sender reader` |
| `MCLab` | composes the five servers above for one run | `lab` says which one moves |

One action stands for one system call that another process can notice, together
with the local code around it; `PROJECT.json` maps every definition to its lines.
Where several programs are variants of one text, each has a definition of its own
that says what it does: the gates `Gate1` and `Gate2`, the clients `first_client`
and `C`, the pizza programs `c_c` to `d_cpp`, the judges `j1` and `j2`, the scripts
of the rings, the cycles of `TurnTaking` and the call lists of `Exchanges`.
Programs start with their fixed connections made where the code makes them in a
fixed order before its loop (toll plaza, pizza, cricket). Texts and payloads are
model values: items are identified with the customer who ordered them, an ESS
greeting with its sender, a plate with the number `atoi` reads from it. Byte
order and the 16 bits of `htons` are kept in `EndlabRpc`.

Signals are modelled the same way everywhere: a signal already pending is not
queued again, its handler runs at any later point, and `while (x == -1) pause();`
is a test and a call with a gap in between. Where a property holds only when that
gap is not hit, a history variable (`lost`, `timedOut`, `lostSignal`, `deaf`,
`tooSoon`, `tooLate`, `mishap`) records that it was, and the property says so.

Definitions whose comment begins with "Mutant:" are not part of any
specification: each is a plausible mistake in one operation, and the property it
belongs to fails when it takes the operation's place.

## Runs

A property of a run is a conjunction of named parts where several statements are
about one mechanism; each part has its own comment and definition.

| Run | Checks | Bounds and why they are enough |
|---|---|---|
| `toll` | `VerdictIsMine`, `TrafficBounded` (`CountNeverExceeds`, `OneRequestPerGate`), `EveryVehicleAnswered`, `TypeOK` | 2 gates, 3 vehicles, two of them at one gate and in both lanes; raw queues of 4 so that one can overflow; ports 3 and 5 so that both verdicts occur |
| `ess` | `HandoverSafe` (`OneOwner`, `AcceptsTheSignalled`, `ConnectSucceeds`, `AnswerIsMine`), `SessionSafe`, `WokenIsServed`, `TypeOK` | 4 clients: two hand-overs, and one more registration taken by the cleaner or left by an interrupted client |
| `announce` | `AnnounceSafe` (`OneRunning`, `LateAtMostOnce`, `AnnouncedWasServed`, `ATypeOK`) | 3 clients: a late announcement of the first can meet the second and be seen by the third |
| `rpc` | `WireSafe` (`TypeOK`, `NothingLost`), `AnswerMatchesCall`, `EveryCallReturns` | 2 clients, 3 calls, 1 restart; 1 and 40000 give a sum beyond 16 bits and a negative difference |
| `pizza` | `ParcelsRight` (`ParcelIsMine`, `ParcelsNotShared`, `EveryDeliveryHasAParcel`), `OrdersInTurn` (`OneOrderAtATime`, `FlagIsForThisCustomer`), `EveryCustomerServed`, `TypeOK` | both versions, 3 customers, one of whom may leave, the code's 3 waiters: parcels can overtake one another |
| `cricket` | `BallAndCatch` (`OneBall`, `OneCatchPerBall`), `VerdictIsOnThisBall`, `BallComesBack`, `TypeOK` | 2 balls, so that a number of the first can be read for the second; 3 fielders; 12 is a six and 16 a four, 15 and 25 are caught and lie half-way between two fielders |
| `ring` | `RingInOrder` (`OneSignalInRing`, `NeverKillsZero`, `RoundsInOrder`), `PidsAreRight`, `EverythingEnds`, `TypeOK` | the code's own numbers: four programs, three rounds each way, and a cleaner |
| `stage` | `AnnouncedScores`, `OneRightAsker` (`OneAsker`, `RightPerformer`), `RoundEnds`, `ShowTypeOK` | 2 judges (one asks, one scores), 2 performers who may overlap, 2 performances so that a score can be left over, 1 departure |
| `turns` | `TurnsKept` (`OneTurn`, `NoLostUpdate`, `Overshoot`), `TalkKept` (`OneSpeaker`, `EndsQuietly`), `MessagesKept` (`OneMessageEach`, `InStep`, `FirstServerReachable`, `VerdictOnSource`), `PollKept` (`LineShown`, `HangupOnly`), `AllServed` (`BothEnd`, `AllLeave`, `Answered`, `PollEnds`, `CallersEnd`), `GroupTypeOK` | words up to 5 and a file of 5 reach the end from both sides, 3 runs of `pass_fd`, 2 generations of names; 5 lines, among them long ones; a queue of 3 for 3 programs with 2 pids, so that it fills and a pid returns; 3 feeds, a writer started twice, 2 lines of half a buffer or a whole one, so that reads cut and merge them; 3 callers and 2 runs of each straight-line server, so that something of the first run meets the second, 1 caller stopped, 2 descriptors for the iterative server, so that they run out |
| `lab` | `StreamsSafe` (`NoRepeat`, `NobodySkipped`, `EchoAlone`, `EchoInOrder`), `DataSafe` (`OwnStreamOnly`, `OneProcess`), `ThreadsSafe` (`OwnThread`, `ConnectionKept`, `DiesOfTheRace`), `PassedSafe` (`PassedRight`, `InStep`), `ChatSafe` (`OnePlace`, `QuietWhileAllStay`), `LabTypeOK` | 3 clients of each server: one can leave or be handed over while another connects and gets its descriptor's number; rows of 2 (5 in the code) so that the third overflows; 2 of 3 rounds; 3 chat messages over a channel of 2, so that messages merge and the server sleeps on a full channel |

`SessionSafe` is a refinement: under the mapping of `EssHandover` (the holder is
the one client between receiving and sending the descriptor, the successor is its
`next_client_pid`) every step of the programs is a step of `EssSession`.

Two runs end in a violation and document where the code does not do what its
comment says (`findings` quotes the comments):

* `ess_lost_signal`: SIGUSR1 between the test and `pause()` stops the chain;
* `rpc_timeout`: after a 20 ms capture timeout the stub waits for a new request
  and the reply stays on the wire.

Other disagreements are visible in the conditions of the passing properties: a
plate seen before is answered from an old verdict that the gate's raw socket
still holds (plates are distinct in `toll`); two passages signalled before the
manager's handler runs count as one; with several waiters a customer may get the
items of another; a first hit signalled before SIGUSR2 is blocked is judged out;
a gate that lost a datagram may misread pairs for ever; an ESS owner whose
successor was interrupted waits for ever in `accept`; two RPC clients may take
each other's replies, and an interrupted client leaves its reply to the next
call; `b.c` can lose a waiter's signal where the ACE version cannot, while the
ACE delivery sends a buffer it never wrote; a ring whose signal returns before
p1's `pause()` stops; p2's `killpg` interrupts the `scanf` of p1 in
`group_signal`, and p1 removes the queue while others still wait for it; a
semaphore left by an earlier run gives a second turn; the child of `8-1-22/1`
takes the rest of a long line for the next line; a thread that reads `nsfd` late
serves the wrong client and may end the server by SIGPIPE; the sixth client of a
stream is written into the next stream's row; the chat server repeats its last
message when the last writer has left, and each message reaches one client only;
a client of `unix_domain_socket/basic` may remove the file of the next server, which
then waits for ever; the judge runs an old `P.exe` when the new source does not
compile; a stopped caller can end the observed server by SIGPIPE, and the others
get no name.

## Fairness

Every program's own steps and the delivery of pending signals are weakly fair:
the operating system schedules every runnable process and delivers signals. What
a person decides is not fair: starting a client or vehicle, calling, interrupting
a program, answering `scanf`; the exception is that a pizza customer who has
connected types the order, without which the shop rightly waits. The cleaner is
not fair. In `turns`, each started program with semaphores or messages, the
dialogue's programs, p1 of the poll exercise and the servers and callers of
`Exchanges` are weakly fair; of the users only
those of `TurnTaking` have to answer their prompts. In `stage`, stage, performers
and judges are fair, and so are the handlers. `announce` and `lab` check safety only.
Runs with `CHECK_DEADLOCK FALSE` are those where the programs may all end or all
wait for a person, which is every run here.

## Proofs

The theorems hold for every value of the constants that the named `ASSUME` of the
module admits: any number of gates, vehicles, clients, customers, fielders, balls,
streams, messages and rounds, and any queue length. `PROJECT.json` lists them
under `theorems`.

| Module | Theorem | Says |
|---|---|---|
| `TollGateProofs` | `TypeCorrect` | `Spec => []TypeOK` |
| | `VerdictsNeverMixed` | with distinct plates, `Spec => []VerdictIsMine` |
| | `TrafficIsBounded` | with distinct plates, `Spec => []TrafficBounded` |
| | `CountsNeverExceed` | `Spec => []CountNeverExceeds`, whatever the plates |
| `EssProofs` | `TypesKept`, `HandoverIsSafe` | `Spec => []TypeOK`, `Spec => []HandoverSafe` |
| | `SessionRefined` | `Spec => SessionSafe`: the programs implement `EssSession` |
| | `AnnouncementsAreSafe` | `ASpec => []AnnounceSafe` |
| | `AnnouncersHandOver` | `ASpec => []HandoverSafe /\ SessionSafe` |
| `EndlabRpcProofs` | `PathIsSafe`, `AnswersMatch` | `Spec => []WireSafe`, `Spec => []AnswerMatchesCall` |
| `PizzaProofs` | `TypesKept`, `OrdersTakeTurns`, `ParcelsAreRight` | `Spec => []TypeOK`, `[]OrdersInTurn`, `[]ParcelsRight` |
| `SignalProofs` | `TypesKept`, `VerdictsAreOnTheirBall`, `OneBallOneCatch` | `Spec => []TypeOK`, `[]VerdictIsOnThisBall`, `[]BallAndCatch` |
| | `StageTypesKept` | `ShowSpec => []ShowTypeOK` |
| | `ScoresAreTheRounds` | `ShowSpec => []AnnouncedScores` |
| | `OneJudgeAsksThePerformer` | `ShowSpec => []OneRightAsker` |
| `LabProofs` | `StreamsAreSafe` | `AudioSpec => []StreamsSafe` |
| | `StreamsReachTheirClients` | `DataSpec => []DataSafe` |
| | `GuestsArePassedRight` | `SuperSpec => []PassedSafe` |
| | `ThreadsAreSafe` | `Spec => []ThreadsSafe` |
| | `ChatReachesOneClient` | `Spec => []ChatSafe` |
| | `LabTypesKept` | `Spec => []LabTypeOK` |
| `TurnsProofs` | `TurnsInOrder` | `GroupSpec => []TurnsKept` |
| | `TalkInOrder` | `GroupSpec => []TalkKept` |
| | `PollPrintsAll` | `GroupSpec => []PollKept` |
| | `MessagesArrive` | `GroupSpec => []MessagesKept` |
| | `GroupTypesKept` | `GroupSpec => []GroupTypeOK` |

None of the safety properties is inductive as it stands. Each module first states
its inductive invariant, which TLC has confirmed on the instance of the run, then
has one lemma per conjunct or per kind of step, and combines them at the end.

**Toll plaza.** `VerdictIsMine` speaks of the end of a chain of five queues, and
the invariant `IInv` follows the chain: `QueuesOK` says that whatever is queued
belongs to a vehicle that has connected, whose tag no longer changes, and that a
request carries that tag; `PairsOK` says that the texts a gate has yet to read
form pairs of a plate and the verdict on that plate's vehicle, the last one
possibly completed by the verdict FT still holds; `AnswersOK` is the property.
The pairing needs the parity of the number of texts, which a dropped datagram
destroys: hence the condition on `lost`. `OneRequestPerGate` bounds the requests
at the FastTag server by the number of gates, a bound on the length of one queue
that all gates share: by `RequestsOK` its entries belong to different gates, all
of which still wait for the verdict. That needs distinct plates: a gate that takes an old verdict on the same
plate goes on while its request is still queued. `PlatesDistinct` is a hypothesis
of those two theorems, not an assumption on the constants; the run's instance
satisfies it.

**ESS.** `OwnerOK` is the property of one owner with the descriptors under way,
`QueueOK` says that registered clients wait, unsignalled, and are registered once,
`CallOK` that a client is signalled or connects only when the owner has called it,
that the path is then the owner's and its backlog holds nobody else, `TalkOK` and
`IdleOK` that only the client that waits for a reply has something on the session.
The refinement maps registering to `Join`, the owner's `msgrcv` to `Choose`,
`send_fd` to `HandOver`, the cleaner's `msgrcv` to `Drop`, and every other step to
a stutter. The steps that `EssAnnounce` adds leave the variables of `EssHandover`
alone, so its theorems reuse that invariant.

**RPC.** `NothingLost` counts messages on the path, and `AnswerMatchesCall` needs
to know what each of them says: `PathOK` gives the content of a message from the
place it is at, with the swaps of bytes done so far. That two swaps cancel is a
lemma for all 16-bit words.

**Pizza.** One invariant serves both versions: `DescriptorsOK` says whose
descriptor each process holds, `VersionOK` which of pause and flag is in use.
`ParcelsRight` adds `CountOK` (an inequality between sets of queue entries),
`FifoOK` (with one waiter hired, customers and parcels reach `d` in the same order)
and `OnceOK` (while all customers stay, a parcel is in one place).

**Cricket.** `VerdictIsOnThisBall` needs `BowlerOK` and `BatsmanOK`: as long as no
signal went astray, the umpire is at the bowler's ball, the pending SIGUSR2 is the
batsman's reply to it, and the number read is that shot. `OneCatchPerBall` equates
the sizes of two sets of queue entries; when a number is taken the other entries
move up by one place, and a bijection shows that their number stays the same.

**Stage show.** `ScoreInv` holds whatever programs are missing, die or start
early. Its heart is `JudgesOK`: each judge either sends exactly one score in a
round (`OneScore`, `InRound`), or its connection comes after one whose judge is
gone with nothing left to read (`BehindDead`). Scores of the second kind do pile
up, but the anchor's loop breaks off before it reaches them, in this round and in
every later one, so that they are never announced. `HandlerOK` says how far the
handler has come; that an entry stays unset only when a judge is missing uses a
counting fact: when the n accepted judges have numbers up to n, each of these
judges is behind one of the connections (`EveryoneAccepted`).
`OneRightAsker` needs `PlayOK` besides, which holds while nobody is missing and
the performers follow each other (`InOrder`). It follows the stage's signal on
its way to a judge (`Called`): until it has become a question, the performer on
the stage is about to listen or listens, and nobody else asks. A performer who
listens was accepted before all others that are still to be asked (`ListenOK`),
so that a judge whose connect succeeds has reached the performer on the stage.

**Lab servers.** `AudioInv` relates the numbers in the loop's variables to the
descriptors in the kernel's table although the handler changes both under the
loop; `SuperInv` pairs each client with the instance it was passed to and the
rounds both have done; `DataInv` says which client sits in which cell, as long as
the rows were never too short (`RowsFit`).

`ThreadInv` has two layers. `ThreadCore` holds whatever happens: each descriptor
leads to one accepted client, each client has one thread, and `ClientOK` bounds
what a client can have said at its place in the script. `Unraced` holds until a
thread reads an `nsfd` that is not its own: a thread at work has its client's
connection (`HasConn`) and service (`HasService`), and the client waits for what
the thread has still to send (`Awaited`). The last part looks unrelated and is
what excludes SIGPIPE: a thread that sends to a client that has finished would
end the server, so the two scripts must be shown to stay in step for each of the
four servers.

`ChatInv` gives each message one spot: the second FIFO, the server's buffer, the
first FIFO, or the client that read it (`Spot`). `StayOK` explains why nothing is
repeated while nobody leaves: every state the server has reached means that a
client has opened the other end, so that its `read` never sees the end of input and
its `write` never a FIFO without readers.

**Turns.** The five groups of `MCTurns` share no variable; each has an inductive
invariant of its own, and a step of the composition is a step of one group.
`TalkIInv` lists the places of the processes with the one line in the pipes, since
`OneSpeaker` alone does not say where the line is. `MailIInv` says that whatever
is in the queue for a process is the answer to its one request. `PollIInv` counts:
every line is in a pipe, printed, or lost for a named reason. `ExchIInv` equates,
for both directions of each connection, what one side has sent at its place in the
program with what the other has received plus what is under way, for six pairs of
programs at once (`Agreed`). `TurnIInv` needs four arguments for the four systems:
turns and signals add up to what was given for every generation of names
(`TurnCount`), the words are read before they are overwritten because of where the
other writer is (`WordsAt`), and the System V version walks through four positions,
`AtP1`, `ToP2`, `AtP2` and `ToP1`, or has lost a signal to the preparation of the
semaphores (`Stuck`). That both `Limit` and the number of runs are arbitrary is why
`Overshoot` can be proved as the bound by one turn of each.

`SeqLemmas` states what `Append` and `Tail` do to the elements of a queue, and
that a set of natural numbers has a least element. Induction over data is out of
the provers' reach, and this fact, which follows from the well-foundedness of the
natural numbers, takes its place: facts about the smallest free descriptor or the
nearest fielder come from it.

Only model-checked are

* all liveness properties (`EveryVehicleAnswered`, `WokenIsServed`,
  `EveryCallReturns`, `EveryCustomerServed`, `BallComesBack`, `EverythingEnds`,
  `RoundEnds`, `AllServed`), which are outside the prover's reach, and
* the invariants of `SignalRing`, which has the code's own four processes and
  three rounds. Its only constant says whether the cleaner was started; with it
  started every behaviour without it is possible too, so that TLC has explored
  every state of every instance.

## Not modelled, and why

Inside the modelled systems: error exits of `socket`, `bind` and the like at
start-up; exhaustion of descriptors (`4-3-22/pizza/b.c` never closes one); the 20
entries of `batsman_score`; overflow of raw queues in `Cricket`; stale messages of
an earlier run in the ring's queue; printing from handlers; more than `MAX_NSFD`
clients in `AudioStreams`; what the echo process of `minor1/Q3-AIO` and the
services of the thread servers do with the text they get; the start-up order of
the constant connections of `StageShow` beyond the judges'; outputs of 1024 bytes
or more in the judge, whose buffers then have no terminator; two servers of one
kind at a time in `Exchanges`; `obs.c`, which only prints what passes.

Whole parts: the ACE version of the stage show (its three acceptors on one port
are decided inside ACE); the
capitalizer and the single-call practice programs (straight sequences, nothing
runs beside them); kernel modules, rpcgen output and templates; sniffers, header
printers, raw-socket and ARP programs, which build or print single frames and
keep no protocol state; the Hamming code, a pure function over strings. They are
listed in `PROJECT.json` with their reasons.

## Plan

The models are complete up to the parts named above, and every safety property
with parameters that the runs check is proved.
