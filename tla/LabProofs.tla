----------------------------- MODULE LabProofs -----------------------------
(***************************************************************************)
(* For any number of clients, streams and signals: what the servers of the *)
(* lab exercises promise to their clients.                                 *)
(*                                                                         *)
(* Audio streams.  Clients come, are accepted and are handed over in the   *)
(* order of their numbers, so entry k of nsfds was made for client k.  The *)
(* invariant says which entries still lead to their client, why the other  *)
(* ones never lead a message to a client twice, and what the loop over the *)
(* clients has done so far.                                                *)
(*                                                                         *)
(* Super server.  inet accepts the clients in the order of their numbers   *)
(* as well; between a service and a client that is there one message is on *)
(* its way, and it says which of the two moves next.                       *)
(*                                                                         *)
(* Multi-data server.  While no row of clients_connected is full, rows do  *)
(* not overlap, every client that is entered has one cell, in the row of   *)
(* its stream, and is owed at most the message that is being sent.         *)
(*                                                                         *)
(* Threads.  ThreadCore holds whatever happens: how far threads, clients   *)
(* and the table of descriptors can be.  Until a thread has read nsfd too  *)
(* late, every thread at work also has its own client's connection and     *)
(* service, and its client waits for what the thread has still to send.    *)
(*                                                                         *)
(* Chat.  A message has one spot: a FIFO, the server's buffer or the       *)
(* client that read it.  While nobody leaves, every open of the server has *)
(* met a client, so that it never reads or writes alone.                   *)
(***************************************************************************)
EXTENDS MCLab, SeqLemmas, FiniteSetTheorems, FunctionTheorems

(* Min of a set of natural numbers is its least element.                   *)
LEMMA MinNat ==
  ASSUME NEW S \in SUBSET Nat, S # {}
  PROVE  Min(S) \in S /\ \A y \in S : Min(S) <= y
  BY LeastNat DEF Min

(* Max of a finite set of natural numbers is its greatest element: a       *)
(* smallest subset without one has an element to take away.                *)
LEMMA MaxNat ==
  ASSUME NEW S \in SUBSET Nat, S # {}, IsFiniteSet(S)
  PROVE  Max(S) \in S /\ \A y \in S : y <= Max(S)
<1> DEFINE Top(T) == \E x \in T : \A y \in T : y <= x
           Bad == {T \in SUBSET S : T # {} /\ ~Top(T)}
           Sizes == {Cardinality(T) : T \in Bad}
<1>1. \A T \in SUBSET S : IsFiniteSet(T) /\ Cardinality(T) \in Nat
  BY FS_Subset, FS_CardinalityType
<1>2. Bad = {}
  <2> SUFFICES ASSUME Bad # {} PROVE FALSE
    OBVIOUS
  <2>1. Sizes \in SUBSET Nat /\ Sizes # {}
    BY <1>1
  <2>2. PICK n \in Sizes : \A k \in Sizes : n <= k
    BY <2>1, LeastNat
  <2>3. PICK T \in Bad : Cardinality(T) = n
    BY <2>2
  <2>4. PICK x : x \in T
    BY <2>3
  <2>5. T \ {x} \in SUBSET S /\ IsFiniteSet(T) /\ Cardinality(T \ {x}) = Cardinality(T) - 1
    <3>1. T \in SUBSET S /\ T \ {x} \in SUBSET S
      BY <2>3
    <3>2. IsFiniteSet(T)
      BY <1>1, <3>1
    <3> QED
      BY <2>4, <3>1, <3>2, FS_RemoveElement
  <2>6. T \ {x} \notin Bad
    <3>1. Cardinality(T) \in Nat /\ Cardinality(T \ {x}) < Cardinality(T)
      BY <1>1, <2>3, <2>5
    <3>2. ASSUME T \ {x} \in Bad  PROVE FALSE
      <4>1. Cardinality(T \ {x}) \in Sizes
        BY <3>2
      <4>2. n <= Cardinality(T \ {x}) /\ n = Cardinality(T) /\ Cardinality(T \ {x}) \in Nat
        BY <1>1, <2>2, <2>3, <2>5, <4>1
      <4> HIDE DEF Sizes, Bad
      <4> QED
        BY <3>1, <4>2
    <3> QED
      BY <3>2
  <2>7. CASE T \ {x} = {}
    BY <2>4, <2>7
  <2>8. CASE Top(T \ {x})
    <3>1. PICK z \in T \ {x} : \A y \in T \ {x} : y <= z
      BY <2>8
    <3>2. x \in Nat /\ z \in Nat /\ \A y \in T : y \in Nat
      BY <2>4
    <3>3. CASE x <= z
      BY <2>4, <3>1, <3>2, <3>3
    <3>4. CASE z <= x
      BY <2>4, <3>1, <3>2, <3>4
    <3> QED
      BY <3>2, <3>3, <3>4
  <2> QED
    BY <2>5, <2>6, <2>7, <2>8
<1>3. Top(S)
  BY <1>2
<1> QED
  BY <1>3 DEF Max

-----------------------------------------------------------------------------
(* The audio streams server                                                *)

(* Types that the run's invariant leaves out.                              *)
AudioTypes ==
  /\ AudioTypeOK
  /\ todo \subseteq Sources \cup {"sfd"}
  /\ c_start <= c_end
  /\ j \in Nat /\ (pcS = "send" => j >= c_start /\ "sfd" \notin todo)
  /\ got \in [Listeners -> Seq(Nat)] /\ cut \in [Listeners -> Nat]
  /\ echoed \in Seq(Listeners)

Talking == {s \in Sources : stream[s] = "data"}
Unread == msg + Cardinality(Talking) <= MaxRead

(* The clients that were accepted are the first ones, and a client waits   *)
(* where the loop expects one.                                             *)
ArrivalOK ==
  /\ Len(nsfds) <= NListeners
  /\ \A c \in Listeners : client[c] \in {"in", "gone"} <=> c <= Len(nsfds)
  /\ \A b, c \in Listeners : b < c /\ client[c] # "out" => client[b] # "out"
  /\ "sfd" \in todo => \E c \in Listeners : client[c] = "queued"

(* Entry k leads to client k until it is handed over, and no descriptor is *)
(* open but theirs.                                                        *)
EntriesOK ==
  /\ \A k \in nsfd_start..Len(nsfds) : table[nsfds[k]] = k
  /\ pcS # "dead" => \A f \in Fds : table[f] # Nobody =>
                       table[f] \in nsfd_start..Len(nsfds) /\ nsfds[table[f]] = f

(* Two entries of the range that is being served are different numbers.    *)
RangeOK == \A i, k \in c_start..(c_end - 1) : nsfds[i] = nsfds[k] => i = k

EchoOK ==
  /\ Len(echoed) < nsfd_start /\ (pcS # "dead" => Len(echoed) + 1 = nsfd_start)
  /\ EchoInOrder /\ EchoAlone

OrderOK == NoRepeat /\ \A c \in Listeners : \A k \in 1..Len(got[c]) : got[c][k] <= msg

(* What is ahead of the loop has not had the message, what is behind has.  *)
LoopOK ==
  pcS = "send" =>
    /\ \A i \in j..(c_end - 1) : \A c \in nsfd_start..Len(nsfds) :
         nsfds[c] = nsfds[i] => \A k \in 1..Len(got[c]) : got[c][k] < msg
    /\ \A k \in nsfd_start..(c_end - 1) :
         k < j => client[k] = "gone" \/ (got[k] # <<>> /\ got[k][Len(got[k])] = msg)

AudioInv ==
  AudioTypes /\ Unread /\ ArrivalOK /\ EntriesOK /\ RangeOK /\ EchoOK /\ OrderOK /\ LoopOK

(* Steps that neither read nor send nor touch the entries.                 *)
LEMMA AudioFrame ==
  ASSUME EntriesOK, RangeOK, EchoOK, OrderOK, LoopOK,
         UNCHANGED <<nsfds, nsfd_start, c_start, c_end, j, table, msg, got, echoed, cut>>,
         pcS' # "dead" => pcS # "dead", pcS' = "send" => pcS = "send",
         \A c \in DOMAIN client : client[c] = "gone" => client'[c] = "gone",
         nsfd_start..(c_end - 1) \subseteq DOMAIN client
  PROVE  EntriesOK' /\ RangeOK' /\ EchoOK' /\ OrderOK' /\ LoopOK'
<1>1. EntriesOK' /\ RangeOK'
  BY DEF EntriesOK, RangeOK
<1>2. EchoOK'
  BY DEF EchoOK, EchoInOrder, EchoAlone
<1>3. OrderOK'
  BY DEF OrderOK, NoRepeat
<1>4. LoopOK'
  BY DEF LoopOK
<1> QED
  BY <1>1, <1>2, <1>3, <1>4

(* Indices: what is being served and what is held are accepted clients.    *)
LEMMA AudioRanges ==
  ASSUME AudioTypes, ArrivalOK
  PROVE  /\ Len(nsfds) \in Nat /\ nsfd_start \in Nat /\ c_start \in Nat /\ c_end \in Nat
         /\ 1 <= c_start /\ c_start <= nsfd_start /\ nsfd_start <= Len(nsfds) + 1
         /\ c_start <= c_end /\ c_end <= Len(nsfds) + 1
         /\ \A k \in 1..Len(nsfds) : k \in Listeners /\ nsfds[k] \in Fds
         /\ \A k \in nsfd_start..Len(nsfds) : k \in 1..Len(nsfds)
         /\ \A k \in nsfd_start..(c_end - 1) : k \in 1..Len(nsfds)
         /\ \A k \in c_start..(c_end - 1) : k \in 1..Len(nsfds)
<1>1. nsfds \in Seq(Fds) /\ Len(nsfds) \in Nat
  BY LenProperties DEF AudioTypes, AudioTypeOK
<1>2. /\ nsfd_start \in 1..(Len(nsfds) + 1) /\ c_end \in 1..(Len(nsfds) + 1)
      /\ c_start \in 1..nsfd_start /\ c_start <= c_end /\ Len(nsfds) <= NListeners
  BY DEF AudioTypes, AudioTypeOK, ArrivalOK
<1> DEFINE n == Len(nsfds)
<1>3. \A k \in 1..n : nsfds[k] \in Fds
  BY <1>1
<1>4. n \in Nat /\ n <= NListeners /\ NListeners \in Nat
  BY <1>1, <1>2, AudioConstants
<1> HIDE DEF n
<1>5. \A k \in 1..n : k \in Listeners
  BY <1>4 DEF Listeners
<1>6. nsfd_start \in 1..(n + 1) /\ c_end \in 1..(n + 1)
  BY <1>2 DEF n
<1>7. /\ n \in Nat /\ nsfd_start \in Nat /\ c_start \in Nat /\ c_end \in Nat
      /\ 1 <= c_start /\ c_start <= nsfd_start /\ nsfd_start <= n + 1
      /\ c_start <= c_end /\ c_end <= n + 1
      /\ \A k \in nsfd_start..n : k \in 1..n
      /\ \A k \in nsfd_start..(c_end - 1) : k \in 1..n
      /\ \A k \in c_start..(c_end - 1) : k \in 1..n
  BY <1>2, <1>4, <1>6
<1> QED
  BY <1>3, <1>5, <1>7 DEF n

(* The environment of S and the steps of S between poll and the loop.      *)
LEMMA AudioQuiet ==
  ASSUME AudioInv,
         \/ \E c \in Listeners : ClientConnects(c) \/ ClientQuits(c)
         \/ Kill \/ OpenStreams \/ Listen \/ Poll \/ SendDone \/ LoopDone
         \/ UNCHANGED audioVars
  PROVE  AudioInv'
<1> USE AudioConstants DEF AudioInv, audioVars
<1>1. /\ UNCHANGED <<nsfds, nsfd_start, c_start, c_end, j, table, stream, msg, got, echoed, cut>>
      /\ pcS' # "dead" => pcS # "dead"
      /\ pcS' = "send" => pcS = "send"
      /\ pcS' # "send" \/ todo' = todo
  BY DEF ClientConnects, ClientQuits, Kill, OpenStreams, Listen, Poll, SendDone, LoopDone
<1>2. \A c \in Listeners : client[c] = "gone" => client'[c] = "gone"
  BY DEF ClientConnects, ClientQuits, Kill, OpenStreams, Listen, Poll, SendDone, LoopDone,
         AudioTypes, AudioTypeOK
<1>3. DOMAIN client = Listeners /\ nsfd_start..(c_end - 1) \subseteq DOMAIN client
  BY AudioRanges DEF AudioTypes, AudioTypeOK
<1>4. EntriesOK' /\ RangeOK' /\ EchoOK' /\ OrderOK' /\ LoopOK'
  BY <1>1, <1>2, <1>3, AudioFrame
<1>5. Unread'
  BY <1>1 DEF Unread, Talking
<1>6. AudioTypes' /\ ArrivalOK'
  <2>1. ASSUME NEW c \in Listeners, ClientConnects(c) PROVE AudioTypes' /\ ArrivalOK'
    <3>1. AudioTypes'
      BY <2>1 DEF ClientConnects, AudioTypes, AudioTypeOK
    <3>2. ArrivalOK'
      <4>1. /\ client[c] = "out" /\ \A b \in 1..(c - 1) : client[b] # "out"
            /\ client'[c] = "queued" /\ UNCHANGED <<nsfds, todo>>
            /\ \A b \in Listeners : b # c => client'[b] = client[b]
        BY <2>1 DEF ClientConnects, AudioTypes, AudioTypeOK
      <4>2. \A b \in Listeners : client'[b] \in {"in", "gone"} <=> b <= Len(nsfds')
        BY <4>1 DEF ArrivalOK
      <4>3. \A b \in Listeners : b < c => client'[b] # "out"
        BY <4>1 DEF Listeners
      <4>4. \A b, d \in Listeners : b < d /\ client'[d] # "out" => client'[b] # "out"
        BY <4>1, <4>3 DEF ArrivalOK
      <4>5. "sfd" \in todo' => \E b \in Listeners : client'[b] = "queued"
        BY <4>1
      <4> QED
        BY <4>1, <4>2, <4>4, <4>5 DEF ArrivalOK
    <3> QED
      BY <3>1, <3>2
  <2>2. ASSUME NEW c \in Listeners, ClientQuits(c) PROVE AudioTypes' /\ ArrivalOK'
    <3>1. AudioTypes'
      BY <2>2 DEF ClientQuits, AudioTypes, AudioTypeOK
    <3>2. ArrivalOK'
      BY <2>2 DEF ClientQuits, AudioTypes, AudioTypeOK, ArrivalOK, Listeners
    <3> QED
      BY <3>1, <3>2
  <2>3. CASE Kill \/ OpenStreams \/ Listen \/ SendDone \/ LoopDone \/ UNCHANGED audioVars
    <3>1. UNCHANGED <<todo, client>> /\ UNCHANGED nsfds
      BY <2>3 DEF Kill, OpenStreams, Listen, SendDone, LoopDone
    <3>2. ArrivalOK'
      BY <3>1 DEF ArrivalOK
    <3>3. AudioTypes'
      <4>1. pcS' \in {"open", "listen", "snapshot", "poll", "loop", "send", "dead"}
        BY <2>3 DEF Kill, OpenStreams, Listen, SendDone, LoopDone, AudioTypes, AudioTypeOK
      <4> QED
        BY <1>1, <3>1, <4>1 DEF AudioTypes, AudioTypeOK
    <3> QED
      BY <3>2, <3>3
  <2>4. CASE Poll
    <3>1. ArrivalOK'
      BY <2>4 DEF Poll, ArrivalOK, Ready
    <3>2. AudioTypes'
      BY <2>4 DEF Poll, AudioTypes, AudioTypeOK, Ready
    <3> QED
      BY <3>1, <3>2
  <2> QED
    BY <2>1, <2>2, <2>3, <2>4
<1> QED
  BY <1>4, <1>5, <1>6

(* A stream gets a message or ends.                                        *)
LEMMA AudioProduce ==
  ASSUME AudioInv, NEW s \in Sources, Produce(s)
  PROVE  AudioInv'
<1> USE AudioConstants DEF AudioInv
<1>1. /\ UNCHANGED <<pcS, nsfds, nsfd_start, c_start, c_end, todo, j, table, client, msg, got,
                     echoed, cut>>
      /\ stream[s] = "quiet"
      /\ \/ /\ msg + Cardinality(Talking) < MaxRead
            /\ stream' = [stream EXCEPT ![s] = "data"]
         \/ stream' = [stream EXCEPT ![s] = "ended"]
  BY DEF Produce, Talking
<1>2. nsfd_start..(c_end - 1) \subseteq DOMAIN client
  BY AudioRanges DEF AudioTypes, AudioTypeOK
<1>3. EntriesOK' /\ RangeOK' /\ EchoOK' /\ OrderOK' /\ LoopOK'
  BY <1>1, <1>2, AudioFrame
<1>4. AudioTypes' /\ ArrivalOK'
  BY <1>1 DEF AudioTypes, AudioTypeOK, ArrivalOK
<1>5. IsFiniteSet(Talking) /\ Cardinality(Talking) \in Nat /\ msg \in Nat
  BY FS_Subset, FS_CardinalityType DEF Talking, AudioTypes, AudioTypeOK
<1>6. Unread'
  <2>1. CASE stream' = [stream EXCEPT ![s] = "ended"]
    <3>1. Talking' = Talking
      BY <1>1, <2>1 DEF Talking, AudioTypes, AudioTypeOK
    <3> QED
      BY <1>1, <3>1 DEF Unread
  <2>2. CASE /\ msg + Cardinality(Talking) < MaxRead
             /\ stream' = [stream EXCEPT ![s] = "data"]
    <3>1. Talking' = Talking \cup {s} /\ s \notin Talking
      BY <1>1, <2>2 DEF Talking, AudioTypes, AudioTypeOK
    <3>2. Cardinality(Talking') = Cardinality(Talking) + 1
      BY <1>5, <3>1, FS_AddElement
    <3> QED
      BY <1>1, <1>5, <2>2, <3>2 DEF Unread
  <2> QED
    BY <1>1, <2>1, <2>2
<1> QED
  BY <1>3, <1>4, <1>6

(* The copy of nsfd_start and nsfd_count: the entries of the range lead to *)
(* different clients, so their numbers differ.                             *)
LEMMA AudioSnapshot ==
  ASSUME AudioInv, Snapshot
  PROVE  AudioInv'
<1> USE AudioConstants DEF AudioInv
<1>1. /\ UNCHANGED <<nsfds, nsfd_start, todo, j, table, client, stream, msg, got, echoed, cut>>
      /\ pcS = "snapshot" /\ pcS' = "poll"
      /\ c_start' = nsfd_start /\ c_end' = Len(nsfds) + 1
  BY DEF Snapshot, Count
<1>2. AudioTypes'
  BY <1>1, AudioRanges DEF AudioTypes, AudioTypeOK
<1>3. Unread' /\ ArrivalOK'
  BY <1>1 DEF Unread, Talking, ArrivalOK
<1>4. EntriesOK'
  BY <1>1 DEF EntriesOK
<1>5. RangeOK'
  <2> SUFFICES ASSUME NEW i \in c_start'..(c_end' - 1), NEW k \in c_start'..(c_end' - 1),
                      nsfds'[i] = nsfds'[k]
               PROVE  i = k
    BY DEF RangeOK
  <2>1. i \in nsfd_start..Len(nsfds) /\ k \in nsfd_start..Len(nsfds)
    BY <1>1, AudioRanges
  <2>2. table[nsfds[i]] = i /\ table[nsfds[k]] = k
    BY <2>1 DEF EntriesOK
  <2> QED
    BY <1>1, <2>2
<1>6. EchoOK' /\ OrderOK' /\ LoopOK'
  BY <1>1 DEF EchoOK, EchoInOrder, EchoAlone, OrderOK, NoRepeat, LoopOK
<1> QED
  BY <1>2, <1>3, <1>4, <1>5, <1>6

(* accept: the next client in order gets a number that is free.            *)
LEMMA AcceptNext ==
  ASSUME AudioInv, Accept
  PROVE  LET n == Len(nsfds) + 1 IN
         /\ n \in Listeners /\ client[n] = "queued" /\ client' = [client EXCEPT ![n] = "in"]
         /\ \E f \in Fds : /\ table[f] = Nobody /\ table' = [table EXCEPT ![f] = n]
                           /\ nsfds' = Append(nsfds, f)
<1> USE AudioConstants DEF AudioInv
<1> DEFINE n == Len(nsfds) + 1
           waiting == {x \in Listeners : client[x] = "queued"}
           free == {x \in Fds : table[x] = Nobody}
<1>1. pcS = "loop" /\ "sfd" \in todo
  BY DEF Accept
<1>2. PICK q \in Listeners : client[q] = "queued"
  BY <1>1 DEF ArrivalOK
<1>3. Len(nsfds) \in Nat /\ q > Len(nsfds) /\ q \in 1..NListeners
  BY SMTT(30), <1>2, AudioRanges DEF ArrivalOK, Listeners
<1>4. n \in Listeners /\ n <= q /\ n \in Nat /\ Len(nsfds) < NListeners
  BY <1>3 DEF Listeners
<1>5. client[n] = "queued"
  <2>1. client[n] # "out"
    BY <1>2, <1>4, <1>3 DEF ArrivalOK
  <2>2. client[n] \notin {"in", "gone"}
    BY <1>3, <1>4 DEF ArrivalOK
  <2> QED
    BY <1>4, <2>1, <2>2 DEF AudioTypes, AudioTypeOK
<1>6. \A x \in waiting : x \in Int /\ n <= x
  <2> SUFFICES ASSUME NEW x \in waiting PROVE x \in Int /\ n <= x
    OBVIOUS
  <2>1. x \in 1..NListeners /\ ~(x <= Len(nsfds))
    BY DEF ArrivalOK, Listeners
  <2> QED
    BY <1>3, <2>1
<1>7. Min(waiting) = n
  <2>1. n \in waiting
    BY <1>4, <1>5
  <2> QED
    BY <1>4, <1>6, <2>1 DEF Min
<1>8. free # {}
  <2> SUFFICES ASSUME free = {} PROVE FALSE
    OBVIOUS
  <2>1. \A f \in Fds : table[f] \in nsfd_start..Len(nsfds) /\ nsfds[table[f]] = f
    BY <1>1 DEF EntriesOK
  <2>2. \A f \in Fds : table[f] \in 1..Len(nsfds)
    BY <2>1, AudioRanges
  <2>3. table \in [Fds -> 1..Len(nsfds)]
    BY <2>2 DEF AudioTypes, AudioTypeOK
  <2>4. \A f, h \in Fds : table[f] = table[h] => f = h
    BY <2>1
  <2>5. table \in Injection(Fds, 1..Len(nsfds))
    BY <2>3, <2>4 DEF Injection, IsInjective
  <2>6. \A m \in Nat : IsFiniteSet(1..m) /\ Cardinality(1..m) = m
    BY FS_Interval
  <2>7. Cardinality(Fds) <= Cardinality(1..Len(nsfds)) /\ Cardinality(Fds) = NListeners
    BY <1>3, <2>5, <2>6, FS_Injection DEF Fds
  <2> QED
    BY <1>3, <1>4, <2>6, <2>7
<1>9. Min(free) \in free
  <2>1. free \subseteq Nat
    BY DEF Fds
  <2> QED
    BY <1>8, <2>1, MinNat
<1>10. /\ client' = [client EXCEPT ![Min(waiting)] = "in"]
       /\ table' = [table EXCEPT ![Min(free)] = Min(waiting)]
       /\ nsfds' = Append(nsfds, Min(free))
  BY DEF Accept
<1> QED
  BY <1>4, <1>5, <1>7, <1>9, <1>10

(* A new entry and its client are beyond everything that is being served.  *)
LEMMA AudioAccept ==
  ASSUME AudioInv, Accept
  PROVE  AudioInv'
<1> USE AudioConstants DEF AudioInv
<1>1. PICK n \in Listeners : n = Len(nsfds) + 1
  BY AcceptNext
<1>2. client[n] = "queued" /\ client' = [client EXCEPT ![n] = "in"]
  BY <1>1, AcceptNext
<1>3. PICK f \in Fds : /\ table[f] = Nobody /\ table' = [table EXCEPT ![f] = n]
                       /\ nsfds' = Append(nsfds, f)
  BY <1>1, AcceptNext
<1>4. /\ pcS = "loop" /\ pcS' = pcS /\ todo' = todo \ {"sfd"}
      /\ UNCHANGED <<nsfd_start, c_start, c_end, j, stream, msg, got, echoed, cut>>
  BY DEF Accept
<1>5. nsfds \in Seq(Fds)
  BY DEF AudioTypes, AudioTypeOK
<1>6. /\ nsfds' \in Seq(Fds) /\ Len(nsfds') = n /\ nsfds'[n] = f
      /\ \A k \in 1..Len(nsfds) : nsfds'[k] = nsfds[k]
  BY <1>1, <1>3, <1>5, AppendElements
<1>7. /\ n \in Nat /\ n \in 1..NListeners /\ n - 1 = Len(nsfds) /\ n # Nobody
      /\ \A k \in 1..n : k = n \/ k \in 1..Len(nsfds)
      /\ nsfd_start \in 1..n /\ c_end \in 1..n /\ c_start \in 1..nsfd_start
      /\ \A k \in nsfd_start..n : k = n \/ k \in nsfd_start..Len(nsfds)
  BY <1>1, AudioRanges DEF Listeners, Nobody
<1>8. AudioTypes'
  <2>1. nsfd_start \in 1..(Len(nsfds') + 1) /\ c_end \in 1..(Len(nsfds') + 1)
    BY <1>6, <1>7
  <2>2. /\ table' \in [Fds -> Listeners \cup {Nobody}]
        /\ client' \in [Listeners -> {"out", "queued", "in", "gone"}]
    BY <1>2, <1>3 DEF AudioTypes, AudioTypeOK
  <2> QED
    BY <1>4, <1>6, <2>1, <2>2 DEF AudioTypes, AudioTypeOK
<1>9. Unread'
  BY <1>4 DEF Unread, Talking
<1>10. ArrivalOK'
  <2>1. client'[n] = "in" /\ \A c \in Listeners : c # n => client'[c] = client[c]
    BY <1>2 DEF AudioTypes, AudioTypeOK
  <2>2. \A c \in Listeners : client'[c] \in {"in", "gone"} <=> c <= Len(nsfds')
    <3> SUFFICES ASSUME NEW c \in Listeners
                 PROVE  client'[c] \in {"in", "gone"} <=> c <= n
      BY <1>6
    <3>1. CASE c = n
      BY <1>7, <2>1, <3>1
    <3>2. CASE c # n
      <4>1. client[c] \in {"in", "gone"} <=> c <= Len(nsfds)
        BY DEF ArrivalOK
      <4>2. c <= Len(nsfds) <=> c <= n
        BY <1>7, <3>2 DEF Listeners
      <4> QED
        BY <2>1, <3>2, <4>1, <4>2
    <3> QED
      BY <3>1, <3>2
  <2>3. \A b, c \in Listeners : b < c /\ client'[c] # "out" => client'[b] # "out"
    BY <1>2, <2>1 DEF ArrivalOK
  <2> QED
    BY <1>4, <1>6, <1>7, <2>2, <2>3 DEF ArrivalOK
<1>11. EntriesOK'
  <2>1. table'[f] = n /\ \A h \in Fds : h # f => table'[h] = table[h]
    BY <1>3 DEF AudioTypes, AudioTypeOK
  <2>2. ASSUME NEW k \in nsfd_start..n PROVE table'[nsfds'[k]] = k
    <3>1. CASE k = n
      BY <1>6, <2>1, <3>1
    <3>2. CASE k \in nsfd_start..Len(nsfds)
      <4>1. table[nsfds[k]] = k /\ k \in 1..Len(nsfds) /\ nsfds[k] \in Fds /\ k # Nobody
        BY <3>2, AudioRanges DEF EntriesOK, Nobody
      <4> QED
        BY <1>3, <1>6, <2>1, <4>1
    <3> QED
      BY <1>7, <3>1, <3>2
  <2>3. ASSUME NEW h \in Fds, table'[h] # Nobody
        PROVE  table'[h] \in nsfd_start..n /\ nsfds'[table'[h]] = h
    <3>1. CASE h = f
      BY <1>6, <1>7, <2>1, <3>1
    <3>2. CASE h # f
      <4>1. table[h] \in nsfd_start..Len(nsfds) /\ nsfds[table[h]] = h
        BY <1>4, <2>1, <2>3, <3>2 DEF EntriesOK
      <4>2. table[h] \in 1..Len(nsfds) /\ table[h] \in nsfd_start..n
        BY <1>7, <4>1, AudioRanges
      <4> QED
        BY <1>6, <2>1, <3>2, <4>1, <4>2
    <3> QED
      BY <3>1, <3>2
  <2> QED
    BY <1>4, <1>6, <2>2, <2>3 DEF EntriesOK
<1>12. RangeOK'
  <2>1. \A k \in c_start..(c_end - 1) : nsfds'[k] = nsfds[k]
    BY <1>6, AudioRanges
  <2> QED
    BY <1>4, <2>1 DEF RangeOK
<1>13. EchoOK' /\ OrderOK' /\ LoopOK'
  BY <1>4 DEF EchoOK, EchoInOrder, EchoAlone, OrderOK, NoRepeat, LoopOK
<1> QED
  BY <1>8, <1>9, <1>10, <1>11, <1>12, <1>13

(* read: with a message the loop over the clients begins.                  *)
LEMMA AudioRead ==
  ASSUME AudioInv, Read
  PROVE  AudioInv'
<1> USE AudioConstants DEF AudioInv
<1>1. PICK s \in todo : Read!2!(s)
  BY DEF Read
<1>2. /\ pcS = "loop" /\ "sfd" \notin todo /\ s \in Sources /\ todo' = todo \ {s}
      /\ UNCHANGED <<nsfds, nsfd_start, c_start, c_end, table, client, got, echoed, cut>>
  BY <1>1 DEF Read, AudioTypes
<1>3. ArrivalOK' /\ RangeOK'
  BY <1>2 DEF ArrivalOK, RangeOK
<1>4. CASE stream[s] = "data"
  <2>1. /\ stream' = [stream EXCEPT ![s] = "quiet"] /\ msg' = msg + 1 /\ j' = c_start
        /\ pcS' = "send"
    BY <1>1, <1>4
  <2>2. IsFiniteSet(Talking) /\ Cardinality(Talking) \in Nat /\ msg \in Nat
    BY FS_Subset, FS_CardinalityType DEF Talking, AudioTypes, AudioTypeOK
  <2>3. Talking' = Talking \ {s} /\ s \in Talking
    BY <1>2, <1>4, <2>1 DEF Talking, AudioTypes, AudioTypeOK
  <2>4. Cardinality(Talking') = Cardinality(Talking) - 1 /\ Cardinality(Talking') \in Nat
    BY <2>2, <2>3, FS_RemoveElement, FS_CardinalityType
  <2>5. Unread' /\ msg' \in 0..MaxRead
    BY <2>1, <2>2, <2>4 DEF Unread
  <2>6. AudioTypes'
    <3>1. stream' \in [Sources -> {"quiet", "data", "ended"}]
      BY <2>1 DEF AudioTypes, AudioTypeOK
    <3>2. c_start \in Nat
      BY AudioRanges
    <3> QED
      BY <1>2, <2>1, <2>5, <3>1, <3>2 DEF AudioTypes, AudioTypeOK
  <2>7. EntriesOK' /\ EchoOK'
    BY <1>2, <2>1 DEF EntriesOK, EchoOK, EchoInOrder, EchoAlone
  <2>8. \A c \in Listeners : \A k \in 1..Len(got[c]) : got[c][k] \in Nat /\ got[c][k] < msg + 1
    <3> SUFFICES ASSUME NEW c \in Listeners, NEW k \in 1..Len(got[c])
                 PROVE  got[c][k] \in Nat /\ got[c][k] < msg + 1
      OBVIOUS
    <3>1. got[c] \in Seq(Nat) /\ got[c][k] <= msg
      BY DEF OrderOK, AudioTypes
    <3>2. got[c][k] \in Nat
      BY <3>1
    <3> QED
      BY <2>2, <3>1, <3>2
  <2>9. OrderOK'
    <3>1. NoRepeat'
      BY <1>2 DEF OrderOK, NoRepeat
    <3>2. \A c \in Listeners : \A k \in 1..Len(got[c]) : got[c][k] <= msg + 1
      BY <2>2, <2>8
    <3> QED
      BY <1>2, <2>1, <3>1, <3>2 DEF OrderOK
  <2>10. LoopOK'
    <3>1. \A c \in nsfd_start..Len(nsfds) : c \in Listeners
      BY AudioRanges
    <3>2. \A i \in c_start..(c_end - 1) : \A c \in nsfd_start..Len(nsfds) :
            nsfds[c] = nsfds[i] => \A k \in 1..Len(got[c]) : got[c][k] < msg + 1
      BY <2>8, <3>1
    <3>3. \A k \in nsfd_start..(c_end - 1) : ~(k < c_start)
      BY AudioRanges
    <3> QED
      BY <1>2, <2>1, <3>2, <3>3 DEF LoopOK
  <2> QED
    BY <1>3, <2>5, <2>6, <2>7, <2>9, <2>10
<1>5. CASE stream[s] # "data"
  <2>1. UNCHANGED <<stream, msg, j, pcS>>
    BY <1>1, <1>5
  <2>2. AudioTypes' /\ Unread'
    BY <1>2, <2>1 DEF AudioTypes, AudioTypeOK, Unread, Talking
  <2>3. nsfd_start..(c_end - 1) \subseteq DOMAIN client
    BY AudioRanges DEF AudioTypes, AudioTypeOK
  <2>4. EntriesOK' /\ RangeOK' /\ EchoOK' /\ OrderOK' /\ LoopOK'
    BY <1>2, <2>1, <2>3, AudioFrame
  <2> QED
    BY <1>3, <2>2, <2>4
<1> QED
  BY <1>4, <1>5

(* send: the descriptor of entry j leads to nobody, or to one client that  *)
(* has not had the message; entry j of a client that still waits leads to  *)
(* client j.                                                               *)
LEMMA AudioSend ==
  ASSUME AudioInv, Send
  PROVE  AudioInv'
<1> USE AudioConstants DEF AudioInv
<1>1. /\ pcS = "send" /\ j < c_end /\ j \in Nat /\ j >= c_start /\ msg \in Nat
      /\ UNCHANGED <<nsfds, nsfd_start, c_start, c_end, todo, table, client, stream, msg,
                     echoed, cut>>
  BY DEF Send, LoopEnd, AudioTypes, AudioTypeOK
<1>2. j \in c_start..(c_end - 1) /\ j \in 1..Len(nsfds) /\ nsfds[j] \in Fds
  BY <1>1, AudioRanges
<1>3. PICK c \in Listeners \cup {Nobody} : c = table[nsfds[j]]
  BY <1>2 DEF AudioTypes, AudioTypeOK
<1>4. Unread' /\ ArrivalOK' /\ RangeOK'
  BY <1>1 DEF Unread, Talking, ArrivalOK, RangeOK
<1>5. EntriesOK'
  BY <1>1 DEF EntriesOK
<1>6. \A k \in nsfd_start..Len(nsfds) : k = j => c = k
  BY <1>3 DEF EntriesOK
<1>7. CASE UNCHANGED got /\ pcS' = "dead" /\ j' = j
  <2>1. AudioTypes'
    BY <1>1, <1>7 DEF AudioTypes, AudioTypeOK
  <2>2. EchoOK' /\ OrderOK' /\ LoopOK'
    BY <1>1, <1>7 DEF EchoOK, EchoInOrder, EchoAlone, OrderOK, NoRepeat, LoopOK
  <2> QED
    BY <1>4, <1>5, <2>1, <2>2
<1>8. CASE /\ UNCHANGED <<got, pcS>> /\ j' = j + 1
           /\ \/ c = Nobody
              \/ c \in Listeners /\ client[c] = "gone"
  <2>1. AudioTypes'
    BY <1>1, <1>8, AudioRanges DEF AudioTypes, AudioTypeOK
  <2>2. EchoOK' /\ OrderOK'
    BY <1>1, <1>8 DEF EchoOK, EchoInOrder, EchoAlone, OrderOK, NoRepeat
  <2>3. ASSUME NEW i \in (j + 1)..(c_end - 1) PROVE i \in j..(c_end - 1)
    BY <1>1, AudioRanges
  <2>4. ASSUME NEW k \in nsfd_start..(c_end - 1), k < j + 1
        PROVE  client[k] = "gone" \/ (got[k] # <<>> /\ got[k][Len(got[k])] = msg)
    <3>1. CASE k < j
      BY <1>1, <2>4, <3>1 DEF LoopOK
    <3>2. CASE k = j
      <4>1. k \in nsfd_start..Len(nsfds) /\ k # Nobody
        BY AudioRanges DEF Nobody
      <4> QED
        BY <1>6, <1>8, <3>2, <4>1
    <3> QED
      BY <1>1, <2>4, <3>1, <3>2, AudioRanges
  <2>5. LoopOK'
    BY <1>1, <1>8, <2>3, <2>4 DEF LoopOK
  <2> QED
    BY <1>4, <1>5, <2>1, <2>2, <2>5
<1>9. CASE /\ c \in Listeners /\ UNCHANGED pcS /\ j' = j + 1
           /\ got' = [got EXCEPT ![c] = Append(@, msg)]
  <2>0. c # Nobody
    BY <1>9 DEF Listeners, Nobody
  <2>1. c \in nsfd_start..Len(nsfds) /\ nsfds[c] = nsfds[j]
    BY <1>1, <1>2, <1>3, <2>0 DEF EntriesOK
  <2>2. got \in [Listeners -> Seq(Nat)] /\ got[c] \in Seq(Nat) /\ Len(got[c]) \in Nat
    BY <1>9, LenProperties DEF AudioTypes
  <2>3. /\ got'[c] = Append(got[c], msg)
        /\ \A d \in Listeners : d # c => got'[d] = got[d]
    BY <1>9, <2>2
  <2>4. /\ got'[c] \in Seq(Nat) /\ Len(got'[c]) = Len(got[c]) + 1
        /\ got'[c][Len(got[c]) + 1] = msg
        /\ \A k \in 1..Len(got[c]) : got'[c][k] = got[c][k]
        /\ \A k \in 1..Len(got'[c]) : k = Len(got[c]) + 1 \/ k \in 1..Len(got[c])
    BY <1>1, <2>2, <2>3, AppendElements
  <2>5. \A k \in 1..Len(got[c]) : got[c][k] < msg
    <3>1. j \in j..(c_end - 1)
      BY <1>1, AudioRanges
    <3> QED
      BY <1>1, <2>1, <3>1 DEF LoopOK
  <2>6. AudioTypes'
    <3>1. got' \in [Listeners -> Seq(Nat)]
      BY <1>9, <2>2, <2>3, <2>4
    <3> QED
      BY <1>1, <1>9, <3>1, AudioRanges DEF AudioTypes, AudioTypeOK
  <2>7. EchoOK'
    <3>1. \A k \in 1..Len(echoed) : echoed[k] = k /\ k # c
      <4>1. Len(echoed) < nsfd_start /\ Len(echoed) \in Nat
        BY LenProperties DEF EchoOK, AudioTypes
      <4>2. \A k \in 1..Len(echoed) : k # c
        BY <2>1, <4>1, AudioRanges
      <4> QED
        BY <4>2 DEF EchoOK, EchoInOrder
    <3>2. \A k \in 1..Len(echoed) : echoed[k] \in Listeners
      BY DEF AudioTypes
    <3>3. \A k \in 1..Len(echoed) : got'[echoed[k]] = got[echoed[k]]
      BY <2>3, <3>1, <3>2
    <3>4. UNCHANGED <<echoed, cut, nsfd_start, pcS>>
      BY <1>1, <1>9
    <3>5. EchoAlone'
      BY <3>3, <3>4 DEF EchoOK, EchoAlone
    <3> QED
      BY <3>4, <3>5 DEF EchoOK, EchoInOrder
  <2>8. OrderOK'
    <3>1. ASSUME NEW d \in Listeners, NEW k \in 2..Len(got'[d]) PROVE got'[d][k-1] < got'[d][k]
      <4>1. CASE d # c
        BY <2>3, <3>1, <4>1 DEF OrderOK, NoRepeat
      <4>2. CASE d = c /\ k \in 2..Len(got[c])
        <5>1. k - 1 \in 1..Len(got[c]) /\ k \in 1..Len(got[c])
          BY <2>2, <4>2
        <5>2. got[c][k-1] < got[c][k]
          BY <4>2 DEF OrderOK, NoRepeat
        <5> QED
          BY <2>4, <4>2, <5>1, <5>2
      <4>3. CASE d = c /\ k = Len(got[c]) + 1
        <5>1. k - 1 \in 1..Len(got[c])
          BY <2>2, <3>1, <4>3
        <5> QED
          BY <2>4, <2>5, <4>3, <5>1
      <4> QED
        BY <2>2, <2>4, <4>1, <4>2, <4>3
    <3>2. ASSUME NEW d \in Listeners, NEW k \in 1..Len(got'[d]) PROVE got'[d][k] <= msg
      <4>1. CASE d # c
        BY <2>3, <3>2, <4>1 DEF OrderOK
      <4>2. CASE d = c /\ k \in 1..Len(got[c])
        BY <2>4, <4>2 DEF OrderOK
      <4>3. CASE d = c /\ k = Len(got[c]) + 1
        BY <1>1, <2>4, <4>3
      <4> QED
        BY <2>4, <4>1, <4>2, <4>3
    <3> QED
      BY <1>1, <3>1, <3>2 DEF OrderOK, NoRepeat
  <2>9. LoopOK'
    <3>1. ASSUME NEW i \in (j + 1)..(c_end - 1), NEW d \in nsfd_start..Len(nsfds),
                 nsfds[d] = nsfds[i], NEW k \in 1..Len(got'[d])
          PROVE  got'[d][k] < msg
      <4>1. i \in j..(c_end - 1) /\ i \in c_start..(c_end - 1) /\ i # j
        BY <1>1, AudioRanges
      <4>2. d # c
        BY <1>2, <2>1, <3>1, <4>1 DEF RangeOK
      <4>3. d \in Listeners
        BY AudioRanges
      <4> QED
        BY <1>1, <2>3, <3>1, <4>1, <4>2, <4>3 DEF LoopOK
    <3>2. ASSUME NEW k \in nsfd_start..(c_end - 1), k < j + 1
          PROVE  client[k] = "gone" \/ (got'[k] # <<>> /\ got'[k][Len(got'[k])] = msg)
      <4>0. k \in nsfd_start..Len(nsfds) /\ k \in Listeners
        BY AudioRanges
      <4>1. CASE k = c
        <5>1. got'[k] # <<>>
          BY <2>2, <2>4, <4>1
        <5> QED
          BY <2>4, <4>1, <5>1
      <4>2. CASE k # c
        <5>1. k < j
          BY <1>1, <1>6, <3>2, <4>0, <4>2, AudioRanges
        <5> QED
          BY <1>1, <2>3, <4>0, <4>2, <5>1 DEF LoopOK
      <4> QED
        BY <4>1, <4>2
    <3> QED
      BY <1>1, <1>9, <3>1, <3>2 DEF LoopOK
  <2> QED
    BY <1>4, <1>5, <2>6, <2>7, <2>8, <2>9
<1> QED
  BY <1>3, <1>7, <1>8, <1>9 DEF Send

(* sig_usr1_handler: the client that waits longest is the one behind entry *)
(* nsfd_start; its number is free from now on, also for the running loop.  *)
LEMMA AudioHandler ==
  ASSUME AudioInv, Handler
  PROVE  AudioInv'
<1> USE AudioConstants DEF AudioInv
<1>1. /\ pcS # "dead"
      /\ UNCHANGED <<nsfds, c_start, c_end, todo, j, client, stream, msg, got>>
  BY DEF Handler
<1>2. pcS' \in {pcS, "snapshot", "dead"}
  BY DEF Handler
<1>3. Unread' /\ ArrivalOK' /\ RangeOK'
  BY <1>1 DEF Unread, Talking, ArrivalOK, RangeOK
<1>4. OrderOK'
  BY <1>1 DEF OrderOK, NoRepeat
<1>5. CASE nsfd_start > Len(nsfds)
  <2>1. UNCHANGED <<nsfd_start, table, echoed, cut>> /\ pcS' # "dead"
    BY <1>1, <1>5, AudioRanges DEF Handler
  <2>2. AudioTypes'
    BY <1>1, <1>2, <2>1 DEF AudioTypes, AudioTypeOK
  <2>3. nsfd_start..(c_end - 1) \subseteq DOMAIN client
    BY AudioRanges DEF AudioTypes, AudioTypeOK
  <2>4. pcS' = "send" => pcS = "send"
    BY <1>2
  <2>5. EntriesOK' /\ RangeOK' /\ EchoOK' /\ OrderOK' /\ LoopOK'
    BY <1>1, <2>1, <2>3, <2>4, AudioFrame
  <2> QED
    BY <1>3, <2>2, <2>5
<1>6. CASE ~(nsfd_start > Len(nsfds))
  <2> DEFINE n == nsfd_start
  <2>1. /\ n \in Nat /\ n \in 1..Len(nsfds) /\ n \in n..Len(nsfds) /\ n \in Listeners
        /\ nsfds[n] \in Fds /\ nsfd_start' = n + 1 /\ n # Nobody
    BY <1>6, AudioRanges DEF Handler, Nobody
  <2>2. table[nsfds[n]] = n
    BY <2>1 DEF EntriesOK
  <2>3. /\ \A k \in (n + 1)..Len(nsfds) : k \in n..Len(nsfds) /\ k # n
        /\ \A k \in (n + 1)..(c_end - 1) : k \in n..(c_end - 1) /\ k # n
        /\ n + 1 \in 1..(Len(nsfds) + 1) /\ c_start \in 1..(n + 1)
    BY <2>1, AudioRanges
  <2>4. LoopOK'
    <3> SUFFICES ASSUME pcS' = "send" PROVE LoopOK'
      BY DEF LoopOK
    <3>1. pcS = "send"
      BY <1>2
    <3> QED
      BY <1>1, <2>1, <2>3, <3>1 DEF LoopOK
  <2>5. CASE pcS' = "dead"
    <3>1. UNCHANGED <<table, echoed, cut>>
      BY <1>6, <2>5 DEF Handler
    <3>2. AudioTypes'
      BY <1>1, <2>1, <2>3, <2>5, <3>1 DEF AudioTypes, AudioTypeOK
    <3>3. EntriesOK'
      BY <1>1, <2>1, <2>3, <2>5, <3>1 DEF EntriesOK
    <3>4. Len(echoed) < n + 1
      BY <2>1, LenProperties DEF EchoOK, AudioTypes
    <3>5. EchoOK'
      BY <1>1, <2>1, <2>5, <3>1, <3>4 DEF EchoOK, EchoInOrder, EchoAlone
    <3> QED
      BY <1>3, <1>4, <2>4, <3>2, <3>3, <3>5
  <2>6. CASE pcS' # "dead"
    <3>1. /\ table' = [table EXCEPT ![nsfds[n]] = Nobody]
          /\ echoed' = Append(echoed, n)
          /\ cut' = [cut EXCEPT ![n] = Len(got[n])]
      BY <1>6, <2>2, <2>6 DEF Handler, First, Close
    <3>2. /\ echoed \in Seq(Listeners) /\ Len(echoed) \in Nat /\ Len(echoed) + 1 = n
      BY <1>1, LenProperties DEF EchoOK, AudioTypes
    <3>3. /\ echoed' \in Seq(Listeners) /\ Len(echoed') = n /\ echoed'[n] = n
          /\ \A k \in 1..Len(echoed) : echoed'[k] = echoed[k]
          /\ \A k \in 1..Len(echoed') : k = n \/ k \in 1..Len(echoed)
      BY <2>1, <3>1, <3>2, AppendElements
    <3>4. Len(got[n]) \in Nat
      BY <2>1, LenProperties DEF AudioTypes
    <3>5. AudioTypes'
      <4>1. table' \in [Fds -> Listeners \cup {Nobody}] /\ cut' \in [Listeners -> Nat]
        BY <2>1, <3>1, <3>4 DEF AudioTypes, AudioTypeOK
      <4>2. pcS' \in {"open", "listen", "snapshot", "poll", "loop", "send", "dead"}
        BY <1>2 DEF AudioTypes, AudioTypeOK
      <4>3. pcS' = "send" => pcS = "send"
        BY <1>2
      <4> QED
        BY <1>1, <2>1, <2>3, <3>3, <4>1, <4>2, <4>3 DEF AudioTypes, AudioTypeOK
    <3>6. table'[nsfds[n]] = Nobody /\ \A f \in Fds : f # nsfds[n] => table'[f] = table[f]
      BY <2>1, <3>1 DEF AudioTypes, AudioTypeOK
    <3>7. EntriesOK'
      <4>1. ASSUME NEW k \in (n + 1)..Len(nsfds) PROVE table'[nsfds[k]] = k
        <5>1. k \in n..Len(nsfds) /\ k # n /\ table[nsfds[k]] = k /\ nsfds[k] \in Fds
          BY <2>3, AudioRanges DEF EntriesOK
        <5> QED
          BY <2>2, <3>6, <5>1
      <4>2. ASSUME NEW f \in Fds, table'[f] # Nobody
            PROVE  table'[f] \in (n + 1)..Len(nsfds) /\ nsfds[table'[f]] = f
        <5>1. f # nsfds[n] /\ table'[f] = table[f]
          BY <3>6, <4>2
        <5>2. table[f] \in n..Len(nsfds) /\ nsfds[table[f]] = f
          BY <1>1, <4>2, <5>1 DEF EntriesOK
        <5>3. table[f] # n
          BY <5>1, <5>2
        <5> QED
          BY <2>1, <5>1, <5>2, <5>3, AudioRanges
      <4> QED
        BY <1>1, <2>1, <4>1, <4>2 DEF EntriesOK
    <3>8. EchoOK'
      <4>1. Len(echoed') < nsfd_start' /\ Len(echoed') + 1 = nsfd_start'
        BY <2>1, <3>3
      <4>2. EchoInOrder'
        BY <3>3 DEF EchoOK, EchoInOrder
      <4>3. \A k \in 1..Len(echoed) : k # n /\ echoed[k] = k /\ Len(got[k]) = cut[k] /\ k \in Listeners
        BY <3>2 DEF EchoOK, EchoInOrder, EchoAlone
      <4>4. cut'[n] = Len(got[n]) /\ \A k \in Listeners : k # n => cut'[k] = cut[k]
        BY <2>1, <3>1 DEF AudioTypes
      <4>5. EchoAlone'
        BY <1>1, <3>3, <4>3, <4>4 DEF EchoAlone
      <4> QED
        BY <4>1, <4>2, <4>5 DEF EchoOK
    <3> QED
      BY <1>3, <1>4, <2>4, <3>5, <3>7, <3>8
  <2> QED
    BY <2>5, <2>6
<1> QED
  BY <1>5, <1>6

(* S starts without clients.                                               *)
LEMMA AudioStarts == AudioInit => AudioInv
<1> SUFFICES ASSUME AudioInit PROVE AudioInv
  OBVIOUS
<1> USE AudioConstants DEF AudioInit
<1>1. AudioTypes
  BY DEF AudioTypes, AudioTypeOK
<1>2. Unread
  <2>1. Talking = {}
    BY DEF Talking
  <2> QED
    BY <2>1, FS_EmptySet DEF Unread
<1>3. ArrivalOK
  BY DEF ArrivalOK, Listeners
<1>4. EntriesOK /\ RangeOK
  BY DEF EntriesOK, RangeOK, Nobody
<1>5. EchoOK /\ OrderOK /\ LoopOK
  BY DEF EchoOK, EchoInOrder, EchoAlone, OrderOK, NoRepeat, LoopOK
<1> QED
  BY <1>1, <1>2, <1>3, <1>4, <1>5 DEF AudioInv

(* Every step of S, its handler and its clients keeps the invariant.       *)
LEMMA AudioKeeps == AudioInv /\ [AudioNext]_audioVars => AudioInv'
  BY AudioQuiet, AudioProduce, AudioSnapshot, AudioAccept, AudioRead, AudioSend, AudioHandler
     DEF AudioNext

(* For any number of clients, streams, messages and signals: S sends each  *)
(* client every message once and in order until the handler has handed it  *)
(* over, hands clients over in the order they came and sends them nothing  *)
(* afterwards, wherever the handler interrupts the loops and whichever     *)
(* descriptor numbers the next accepts get again.                          *)
THEOREM StreamsAreSafe == AudioSpec => []StreamsSafe
<1>1. AudioInv => StreamsSafe
  <2> SUFFICES ASSUME AudioInv PROVE NobodySkipped
    BY DEF StreamsSafe, AudioInv, EchoOK, OrderOK
  <2> SUFFICES ASSUME pcS = "send", j >= c_end, NEW k \in nsfd_start..(c_end - 1)
               PROVE  client[table[nsfds[k]]] = "gone" \/
                      (got[table[nsfds[k]]] # <<>> /\
                       got[table[nsfds[k]]][Len(got[table[nsfds[k]]])] = msg)
    BY DEF NobodySkipped, LoopEnd
  <2>1. k \in nsfd_start..Len(nsfds) /\ k < j
    BY AudioRanges DEF AudioInv, AudioTypes
  <2>2. table[nsfds[k]] = k
    BY <2>1 DEF AudioInv, EntriesOK
  <2> QED
    BY <2>1, <2>2 DEF AudioInv, LoopOK
<1> QED
  BY <1>1, AudioKeeps, AudioStarts, PTL DEF AudioSpec

-----------------------------------------------------------------------------
(* The super server                                                        *)

Instance == [service : 1..2, stage : {"queued", "serving", "ended"}, guest : 0..NGuests,
             round : 0..Rounds, sent : BOOLEAN]
Instances == 1..Len(inst)

SuperTypes ==
  /\ SuperTypeOK
  /\ inst \in Seq(Instance) /\ handed \in Seq(Guests) /\ gRound \in [Guests -> 0..Rounds]

(* inet has accepted the clients up to guest, and has passed on earlier    *)
(* ones while it deals with one.                                           *)
Busy == pcInet \in {"recv", "uds"}
GuestsOK ==
  /\ \A c \in Guests : gStage[c] \in {"in", "gone"} <=> c <= guest
  /\ \A b, c \in Guests : b < c /\ gStage[c] # "out" => gStage[b] # "out"
  /\ Busy => guest # 0 /\ \A i \in Instances : inst[i].guest # guest
  /\ pcInet = "uds" => choice[guest] \in {1, 2}

HandedOK ==
  /\ \A i \in 1..Len(handed) : handed[i] <= guest /\ (Busy => handed[i] # guest)
  /\ \A i, k \in 1..Len(handed) : i < k => handed[i] < handed[k]

InstancesOK ==
  /\ \A i \in Instances :
       /\ inst[i].guest <= guest
       /\ inst[i].guest = 0 <=> inst[i].stage = "queued"
       /\ inst[i].stage = "queued" => inst[i].round = 0 /\ ~inst[i].sent
       /\ inst[i].stage = "serving" => inst[i].round < Rounds
       /\ inst[i].guest # 0 => choice[inst[i].guest] = inst[i].service
  /\ \A i, k \in Instances : inst[i].guest # 0 /\ inst[i].guest = inst[k].guest => i = k

(* Between a service and a client that is there one message is on its way, *)
(* in one direction, from the send to the recv of the service.             *)
Paired(i, c) ==
  /\ inst[i].stage = "serving"
  /\ ~inst[i].sent => net[c] = 0 /\ back[c] = 0 /\ gRound[c] = inst[i].round
  /\ inst[i].sent => \/ net[c] = 1 /\ back[c] = 0 /\ gRound[c] = inst[i].round
                     \/ net[c] = 0 /\ back[c] = 1 /\ gRound[c] = inst[i].round + 1

RoundsOK ==
  /\ \A c \in Guests : gStage[c] = "in" => gRound[c] < Rounds
  /\ \A i \in Instances : inst[i].guest # 0 /\ gStage[inst[i].guest] = "in" =>
                            Paired(i, inst[i].guest)
  /\ \A c \in Guests : (\A i \in Instances : inst[i].guest # c) =>
                         net[c] = 0 /\ back[c] = 0 /\ gRound[c] = 0

SuperInv == SuperTypes /\ GuestsOK /\ HandedOK /\ InstancesOK /\ RoundsOK

(* An entry of the table of services is replaced.                          *)
LEMMA InstanceSet ==
  ASSUME SuperTypes, NEW i \in Instances, NEW e \in Instance,
         inst' = [inst EXCEPT ![i] = e]
  PROVE  /\ inst' \in Seq(Instance) /\ Instances' = Instances /\ inst'[i] = e
         /\ \A k \in Instances : k # i => inst'[k] = inst[k]
<1>1. inst \in Seq(Instance)
  BY DEF SuperTypes
<1>2. /\ [inst EXCEPT ![i] = e] \in Seq(Instance)
      /\ Len([inst EXCEPT ![i] = e]) = Len(inst)
      /\ \A k \in 1..Len(inst) : [inst EXCEPT ![i] = e][k] = IF k = i THEN e ELSE inst[k]
  BY <1>1, ExceptSeq DEF Instances
<1> QED
  BY <1>2 DEF Instances

(* What the types say about one service.                                   *)
LEMMA InstanceTypes ==
  ASSUME SuperTypes
  PROVE  /\ inst \in Seq(Instance) /\ Len(inst) \in Nat
         /\ \A i \in Instances : /\ inst[i] \in Instance
                                 /\ inst[i].guest \in 0..NGuests /\ inst[i].round \in 0..Rounds
                                 /\ inst[i].service \in 1..2
                                 /\ inst[i].stage \in {"queued", "serving", "ended"}
                                 /\ inst[i].sent \in BOOLEAN
<1>1. inst \in Seq(Instance) /\ Len(inst) \in Nat
  BY LenProperties DEF SuperTypes
<1>2. \A i \in Instances : inst[i] \in Instance
  BY <1>1 DEF Instances
<1> QED
  BY <1>1, <1>2 DEF Instance

(* A client connects, types its choice or is stopped.                      *)
LEMMA SuperClients ==
  ASSUME SuperInv, NEW c \in Guests, GuestArrives(c) \/ GuestLeaves(c)
  PROVE  SuperInv'
<1> USE SuperConstants DEF SuperInv
<1>0. UNCHANGED <<pcInet, guest, gRound, inst, net, back, handed>>
  BY DEF GuestArrives, GuestLeaves
<1>1. SuperTypes'
  <2>1. gStage' \in [Guests -> {"out", "queued", "in", "gone"}]
    BY DEF SuperTypes, SuperTypeOK, GuestArrives, GuestLeaves
  <2>2. choice' \in [Guests -> -1..2]
    <3>1. choice \in [Guests -> -1..2] /\ \A k \in Options : k \in -1..2
      BY DEF SuperTypes, SuperTypeOK, Options
    <3>2. choice' = choice \/ \E k \in Options : choice' = [choice EXCEPT ![c] = k]
      BY DEF GuestArrives, GuestLeaves
    <3> QED
      BY <3>1, <3>2
  <2> QED
    BY <1>0, <2>1, <2>2 DEF SuperTypes, SuperTypeOK
<1>2. /\ \A b \in Guests : /\ gStage'[b] \in {"in", "gone"} <=> gStage[b] \in {"in", "gone"}
                           /\ gStage'[b] = "in" => gStage[b] = "in"
                           /\ gStage[b] # "out" => gStage'[b] # "out"
      /\ \A b \in Guests : choice'[b] = choice[b] \/ choice[b] = -1
  BY DEF SuperTypes, SuperTypeOK, GuestArrives, GuestLeaves
<1>3. \A a, b \in Guests : a < b /\ gStage'[b] # "out" => gStage'[a] # "out"
  BY SMTT(30), <1>2 DEF SuperTypes, SuperTypeOK, GuestArrives, GuestLeaves, GuestsOK, Guests
<1>4. guest \in 0..NGuests /\ (Busy => guest \in Guests)
  BY DEF SuperTypes, SuperTypeOK, GuestsOK, Guests
<1>5. GuestsOK'
  BY <1>0, <1>2, <1>3, <1>4 DEF GuestsOK, Busy, Instances
<1>6. HandedOK'
  BY <1>0 DEF HandedOK, Busy
<1>7. \A i \in Instances : inst[i].guest # 0 => inst[i].guest \in Guests /\ inst[i].service \in 1..2
  BY InstanceTypes DEF Guests
<1>8. InstancesOK'
  BY <1>0, <1>2, <1>7 DEF InstancesOK, Instances
<1>9. RoundsOK'
  BY <1>0, <1>2, <1>7 DEF RoundsOK, Instances, Paired
<1> QED
  BY <1>1, <1>5, <1>6, <1>8, <1>9

(* A round of a client.                                                    *)
LEMMA SuperRound ==
  ASSUME SuperInv, NEW c \in Guests, GuestRound(c)
  PROVE  SuperInv'
<1> USE SuperConstants DEF SuperInv
<1>0. UNCHANGED <<pcInet, guest, choice, inst, handed>>
  BY DEF GuestRound
<1>1. \A i \in Instances : inst[i].guest # 0 => inst[i].guest \in Guests
  BY InstanceTypes DEF Guests
<1>2. net[c] > 0 /\ gStage[c] = "in" /\ gRound[c] < Rounds
  BY DEF GuestRound, RoundsOK
<1>3. PICK s \in Instances : inst[s].guest = c
  BY <1>2 DEF RoundsOK
<1>4. \A i \in Instances : inst[i].guest = c => Paired(i, c)
  BY <1>2 DEF RoundsOK, Guests
<1>5. net \in [Guests -> 0..1] /\ back \in [Guests -> Nat] /\ gRound \in [Guests -> 0..Rounds]
      /\ gStage \in [Guests -> {"out", "queued", "in", "gone"}]
  BY DEF SuperTypes, SuperTypeOK
<1>6. /\ net' = [net EXCEPT ![c] = net[c] - 1] /\ back' = [back EXCEPT ![c] = back[c] + 1]
      /\ gRound' = [gRound EXCEPT ![c] = gRound[c] + 1]
      /\ gStage' = IF gRound[c] + 1 = Rounds THEN [gStage EXCEPT ![c] = "gone"] ELSE gStage
  BY DEF GuestRound
<1>7. /\ net[c] = 1 /\ back[c] = 0
      /\ \A i \in Instances : inst[i].guest = c => inst[i].stage = "serving" /\ inst[i].sent
                                                   /\ gRound[c] = inst[i].round
  BY <1>2, <1>3, <1>4 DEF Paired
<1>8. SuperTypes'
  BY <1>0, <1>2, <1>5, <1>6, <1>7 DEF SuperTypes, SuperTypeOK
<1>9. \A b \in Guests : /\ gStage'[b] \in {"in", "gone"} <=> gStage[b] \in {"in", "gone"}
                        /\ gStage'[b] = "in" => gStage[b] = "in"
                        /\ gStage[b] # "out" <=> gStage'[b] # "out"
                        /\ b # c => gStage'[b] = gStage[b] /\ net'[b] = net[b]
                                    /\ back'[b] = back[b] /\ gRound'[b] = gRound[b]
  BY <1>2, <1>5, <1>6
<1>10. net'[c] = 0 /\ back'[c] = 1 /\ gRound'[c] = gRound[c] + 1 /\ (gStage'[c] = "in" => gRound'[c] < Rounds)
  BY <1>2, <1>5, <1>6, <1>7
<1>11. GuestsOK'
  BY <1>0, <1>9 DEF GuestsOK, Busy, Instances
<1>12. HandedOK' /\ InstancesOK'
  BY <1>0 DEF HandedOK, Busy, InstancesOK, Instances
<1>13. \A b \in Guests : gStage'[b] = "in" => gRound'[b] < Rounds
  BY <1>9, <1>10 DEF RoundsOK
<1>14. \A b \in Guests : (\A i \in Instances' : inst'[i].guest # b) =>
                           net'[b] = 0 /\ back'[b] = 0 /\ gRound'[b] = 0
  BY <1>0, <1>3, <1>9 DEF RoundsOK, Instances
<1>15. ASSUME NEW i \in Instances', inst'[i].guest # 0, gStage'[inst'[i].guest] = "in"
       PROVE  Paired(i, inst[i].guest)'
  <2>0. i \in Instances /\ inst'[i] = inst[i] /\ inst[i].guest \in Guests
    BY <1>0, <1>1, <1>15 DEF Instances
  <2>1. CASE inst[i].guest = c
    BY <2>0, <2>1, <1>0, <1>7, <1>10 DEF Paired
  <2>2. CASE inst[i].guest # c
    <3>1. Paired(i, inst[i].guest)
      BY <2>0, <1>9, <1>15 DEF RoundsOK
    <3> QED
      BY <2>0, <2>2, <3>1, <1>9, <1>0 DEF Paired
  <2> QED
    BY <2>1, <2>2
<1>16. RoundsOK'
  BY <1>13, <1>14, <1>15 DEF RoundsOK
<1> QED
  BY <1>8, <1>11, <1>12, <1>16

(* accept takes the next client, the one after guest.                      *)
LEMMA SuperAccept ==
  ASSUME SuperInv, AcceptGuest
  PROVE  SuperInv'
<1> USE SuperConstants DEF SuperInv
<1> DEFINE Queued == {c \in Guests : gStage[c] = "queued"}
<1>0. UNCHANGED <<choice, gRound, inst, net, back, handed>> /\ pcInet' = "recv"
  BY DEF AcceptGuest
<1>1. Queued \in SUBSET Nat /\ Queued # {}
  BY DEF AcceptGuest, Guests
<1>2. PICK g \in Guests : g = Min(Queued) /\ gStage[g] = "queued" /\ \A c \in Queued : g <= c
  BY <1>1, MinNat
<1>3. guest' = g /\ gStage' = [gStage EXCEPT ![g] = "in"]
  BY <1>2 DEF AcceptGuest
<1>4. /\ gStage \in [Guests -> {"out", "queued", "in", "gone"}]
      /\ guest \in 0..NGuests /\ guest \in Nat
  BY DEF SuperTypes, SuperTypeOK
<1>5. g = guest + 1
  <2>1. g > guest
    BY <1>2, <1>4 DEF GuestsOK, Guests
  <2>2. ASSUME g > guest + 1  PROVE FALSE
    <3>1. guest + 1 \in Guests
      BY <1>2, <1>4, <2>2 DEF Guests
    <3>2. guest + 1 < g
      BY <1>2, <1>4, <2>2 DEF Guests
    <3>3. gStage[guest + 1] # "out" /\ gStage[guest + 1] \notin {"in", "gone"}
      BY <1>2, <1>4, <3>1, <3>2 DEF GuestsOK
    <3>4. guest + 1 \in Queued
      BY <1>4, <3>1, <3>3
    <3> QED
      BY <1>2, <1>4, <3>2, <3>4 DEF Guests
  <2> QED
    BY <1>2, <1>4, <2>1, <2>2 DEF Guests
<1> HIDE DEF Queued
<1>6. \A c \in Guests : gStage'[c] = IF c = g THEN "in" ELSE gStage[c]
  BY <1>2, <1>3, <1>4
<1>7. \A i \in Instances : inst[i].guest <= guest /\ inst[i].guest \in Nat
  BY InstanceTypes DEF InstancesOK
<1>8. SuperTypes'
  <2>1. gStage' \in [Guests -> {"out", "queued", "in", "gone"}] /\ guest' \in 0..NGuests
    BY <1>2, <1>3, <1>4 DEF Guests
  <2> QED
    BY <1>0, <2>1 DEF SuperTypes, SuperTypeOK
<1>9. GuestsOK'
  <2>1. \A c \in Guests : gStage'[c] \in {"in", "gone"} <=> c <= guest'
    BY <1>3, <1>4, <1>5, <1>6 DEF GuestsOK, Guests
  <2>2. \A b, c \in Guests : b < c /\ gStage'[c] # "out" => gStage'[b] # "out"
    BY <1>2, <1>6 DEF GuestsOK
  <2>3. guest' # 0 /\ \A i \in Instances' : inst'[i].guest # guest'
    BY <1>0, <1>3, <1>4, <1>5, <1>7 DEF Instances
  <2> QED
    BY <1>0, <2>1, <2>2, <2>3 DEF GuestsOK, Busy
<1>10. HandedOK'
  <2>1. \A i \in 1..Len(handed) : handed[i] \in Nat /\ handed[i] <= guest
    BY DEF HandedOK, SuperTypes, Guests
  <2> QED
    BY <1>0, <1>3, <1>4, <1>5, <2>1 DEF HandedOK
<1>11. InstancesOK'
  BY <1>0, <1>3, <1>4, <1>5, <1>7 DEF InstancesOK, Instances
<1>12. RoundsOK'
  <2>1. \A i \in Instances : inst[i].guest # g
    BY <1>4, <1>5, <1>7
  <2>2. net[g] = 0 /\ back[g] = 0 /\ gRound[g] = 0
    BY <2>1 DEF RoundsOK
  <2>3. \A c \in Guests : gStage'[c] = "in" => gRound'[c] < Rounds
    BY <1>0, <1>6, <2>2 DEF RoundsOK
  <2>4. \A i \in Instances : inst[i].guest # 0 => inst[i].guest \in Guests /\ gStage'[inst[i].guest] = gStage[inst[i].guest]
    BY <2>1, <1>6, InstanceTypes DEF Guests
  <2> QED
    BY <1>0, <2>3, <2>4 DEF RoundsOK, Paired, Instances
<1> QED
  BY <1>8, <1>9, <1>10, <1>11, <1>12

(* recv of the choice, and steps that change nothing.                      *)
LEMMA SuperRecv ==
  ASSUME SuperInv, RecvChoice \/ UNCHANGED superVars
  PROVE  SuperInv'
<1> USE DEF SuperInv
<1>0. UNCHANGED <<guest, gStage, choice, gRound, inst, net, back, handed>>
  BY DEF RecvChoice, superVars
<1>1. pcInet' \in {"accept", "recv", "uds"} /\ (Busy' => Busy)
      /\ (pcInet' = "uds" => pcInet = "uds" \/ choice[guest] \in {1, 2})
  BY DEF RecvChoice, superVars, Busy, SuperTypes, SuperTypeOK
<1>2. SuperTypes'
  BY <1>0, <1>1 DEF SuperTypes, SuperTypeOK
<1>3. GuestsOK' /\ HandedOK'
  BY <1>0, <1>1 DEF GuestsOK, HandedOK, Instances
<1>4. InstancesOK' /\ RoundsOK'
  BY <1>0 DEF InstancesOK, RoundsOK, Paired, Instances
<1> QED
  BY <1>2, <1>3, <1>4

(* A service is started.                                                   *)
LEMMA SuperStart ==
  ASSUME SuperInv, NEW k \in 1..2, StartService(k)
  PROVE  SuperInv'
<1> USE SuperConstants DEF SuperInv
<1>0. UNCHANGED <<pcInet, guest, gStage, choice, gRound, net, back, handed>>
  BY DEF StartService
<1> DEFINE n == Len(inst)
<1> DEFINE e == [service |-> k, stage |-> "queued", guest |-> 0, round |-> 0, sent |-> FALSE]
<1>1. inst' = Append(inst, e) /\ e \in Instance
  BY DEF StartService, Instance
<1>2. /\ e.service = k /\ e.stage = "queued" /\ e.guest = 0 /\ e.round = 0 /\ ~e.sent
  OBVIOUS
<1> HIDE DEF e
<1>3. /\ inst' \in Seq(Instance) /\ n \in Nat /\ Len(inst') = n + 1 /\ inst'[n + 1] = e
      /\ \A i \in 1..n : inst'[i] = inst[i]
  BY <1>1, InstanceTypes, AppendElements
<1>4. /\ Instances' = 1..(n + 1) /\ Instances = 1..n
      /\ \A i \in Instances' : (i = n + 1 /\ inst'[i] = e) \/ (i \in Instances /\ inst'[i] = inst[i])
  BY <1>3 DEF Instances
<1> HIDE DEF n
<1>5. SuperTypes'
  <2>1. \A i \in Instances' : inst'[i].guest \in 0..NGuests /\ inst'[i].round \in 0..Rounds
    BY <1>2, <1>4, InstanceTypes
  <2> QED
    BY <1>0, <1>3, <2>1 DEF SuperTypes, SuperTypeOK, Instances
<1>6. guest \in 0..NGuests
  BY DEF SuperTypes, SuperTypeOK
<1>7. GuestsOK' /\ HandedOK'
  BY <1>0, <1>2, <1>4 DEF GuestsOK, HandedOK, Busy
<1>8. InstancesOK'
  <2>1. \A i \in Instances' : inst'[i].guest # 0 => i \in Instances /\ inst'[i] = inst[i]
    BY <1>2, <1>4
  <2>2. \A i, m \in Instances' : inst'[i].guest # 0 /\ inst'[i].guest = inst'[m].guest => i = m
    BY <2>1 DEF InstancesOK
  <2> QED
    BY <1>0, <1>2, <1>4, <1>6, <2>2 DEF InstancesOK
<1>9. RoundsOK'
  <2>1. \A i \in Instances' : inst'[i].guest # 0 => i \in Instances /\ inst'[i] = inst[i]
    BY <1>2, <1>4
  <2>2. \A i \in Instances : i \in Instances' /\ inst'[i] = inst[i]
    BY <1>3, <1>4
  <2> QED
    BY <1>0, <2>1, <2>2 DEF RoundsOK, Paired
<1> QED
  BY <1>5, <1>7, <1>8, <1>9

(* inet passes its client on to the service of its choice.                 *)
LEMMA SuperPass ==
  ASSUME SuperInv, PassGuest
  PROVE  SuperInv'
<1> USE SuperConstants DEF SuperInv
<1> DEFINE w == Waiting(SocketOf(choice[guest]))
<1>0. UNCHANGED <<guest, gStage, choice, gRound, net, back>> /\ pcInet = "uds" /\ pcInet' = "accept"
      /\ handed' = Append(handed, guest)
  BY DEF PassGuest
<1>1. guest \in Guests /\ Busy /\ guest # 0
  BY <1>0 DEF Busy, GuestsOK, SuperTypes, SuperTypeOK, Guests
<1>2. w \in SUBSET Nat /\ w # {} /\ w \subseteq Instances
  BY DEF PassGuest, Waiting, Instances
<1>3. PICK m \in Instances : /\ m = Min(w) /\ inst[m].stage = "queued"
                             /\ inst[m].service = choice[guest]
  <2>1. Min(w) \in w
    BY <1>2, MinNat
  <2> QED
    BY <1>2, <2>1 DEF Waiting, SocketOf
<1>4. inst' = [inst EXCEPT ![m].stage = "serving", ![m].guest = guest]
  BY <1>3 DEF PassGuest
<1> DEFINE e == [inst[m] EXCEPT !.stage = "serving", !.guest = guest]
<1>5. inst[m] \in Instance /\ inst \in Seq(Instance)
  BY InstanceTypes
<1>6. e \in Instance
  <2>1. guest \in 0..NGuests
    BY <1>1 DEF Guests
  <2> QED
    BY <1>5, <2>1 DEF Instance
<1>7. /\ e.stage = "serving" /\ e.guest = guest /\ e.service = inst[m].service
      /\ e.round = inst[m].round /\ e.sent = inst[m].sent
  BY <1>5 DEF Instance
<1>8. inst' = [inst EXCEPT ![m] = e]
  <2>1. inst \in [1..Len(inst) -> Instance] /\ m \in 1..Len(inst)
    BY <1>5 DEF Instances
  <2> QED
    BY <1>4, <2>1
<1> HIDE DEF e
<1>9. /\ inst' \in Seq(Instance) /\ Instances' = Instances /\ inst'[m] = e
      /\ \A k \in Instances : k # m => inst'[k] = inst[k]
  BY <1>6, <1>8, InstanceSet
<1>10. inst[m].guest = 0 /\ inst[m].round = 0 /\ ~inst[m].sent
  BY <1>3 DEF InstancesOK
<1>11. \A i \in Instances : inst[i].guest # guest
  BY <1>1 DEF GuestsOK
<1>12. SuperTypes'
  <2>1. \A i \in Instances' : inst'[i].guest \in 0..NGuests /\ inst'[i].round \in 0..Rounds
    BY <1>1, <1>7, <1>9, <1>10, InstanceTypes DEF Guests
  <2>2. handed' \in Seq(Guests)
    BY <1>0, <1>1, AppendElements DEF SuperTypes
  <2> QED
    BY <1>0, <1>9, <2>1, <2>2 DEF SuperTypes, SuperTypeOK, Instances
<1>13. GuestsOK'
  BY <1>0 DEF GuestsOK, Busy
<1>14. HandedOK'
  <2>1. handed \in Seq(Guests) /\ \A i \in 1..Len(handed) : handed[i] \in Guests
    BY DEF SuperTypes
  <2>2. \A i \in 1..Len(handed) : handed[i] < guest
    BY <1>1, <2>1 DEF HandedOK, Guests
  <2>3. /\ Len(handed) \in Nat /\ Len(handed') = Len(handed) + 1 /\ handed'[Len(handed) + 1] = guest
        /\ \A i \in 1..Len(handed) : handed'[i] = handed[i]
        /\ \A i \in 1..Len(handed') : i = Len(handed) + 1 \/ i \in 1..Len(handed)
    BY <1>0, <1>1, <2>1, AppendElements, LenProperties
  <2>4. \A i \in 1..Len(handed') : handed'[i] <= guest
    <3>1. guest \in Nat /\ \A i \in 1..Len(handed) : handed[i] \in Nat
      BY <1>1, <2>1 DEF Guests
    <3> QED
      BY <2>2, <2>3, <3>1
  <2>5. \A i, k \in 1..Len(handed') : i < k => handed'[i] < handed'[k]
    <3> SUFFICES ASSUME NEW i \in 1..Len(handed'), NEW k \in 1..Len(handed'), i < k
                 PROVE  handed'[i] < handed'[k]
      OBVIOUS
    <3>1. i \in 1..Len(handed)
      BY <2>3
    <3>2. CASE k = Len(handed) + 1
      BY <2>2, <2>3, <3>1, <3>2
    <3>3. CASE k \in 1..Len(handed)
      BY <2>3, <3>1, <3>3 DEF HandedOK
    <3> QED
      BY <2>3, <3>2, <3>3
  <2> QED
    BY <1>0, <2>4, <2>5 DEF HandedOK, Busy
<1>15. InstancesOK'
  <2>1. \A i, k \in Instances' : inst'[i].guest # 0 /\ inst'[i].guest = inst'[k].guest => i = k
    BY <1>7, <1>9, <1>11 DEF InstancesOK
  <2> QED
    BY <1>0, <1>1, <1>3, <1>7, <1>9, <1>10, <2>1 DEF InstancesOK, Guests
<1>16. RoundsOK'
  <2>1. net[guest] = 0 /\ back[guest] = 0 /\ gRound[guest] = 0
    BY <1>1, <1>11 DEF RoundsOK
  <2>2. ASSUME NEW i \in Instances', inst'[i].guest # 0, gStage'[inst'[i].guest] = "in"
        PROVE  Paired(i, inst[i].guest)'
    <3>1. CASE i = m
      BY <1>0, <1>7, <1>9, <1>10, <2>1, <3>1 DEF Paired
    <3>2. CASE i # m
      BY <1>0, <1>9, <2>2, <3>2 DEF Paired, RoundsOK
    <3> QED
      BY <3>1, <3>2
  <2>3. \A c \in Guests : (\A i \in Instances' : inst'[i].guest # c) => \A i \in Instances : inst[i].guest # c
    BY <1>9, <1>10 DEF Guests
  <2> QED
    BY <1>0, <2>2, <2>3 DEF RoundsOK
<1> QED
  BY <1>12, <1>13, <1>14, <1>15, <1>16

(* A service keeps its client while it serves.                             *)
LEMMA ServiceKeeps ==
  ASSUME SuperInv, NEW i \in Instances, NEW e \in Instance, inst[i].stage = "serving",
         inst' = [inst EXCEPT ![i] = e],
         e.guest = inst[i].guest, e.service = inst[i].service, e.stage \in {"serving", "ended"},
         e.stage = "serving" => e.round < Rounds,
         UNCHANGED <<pcInet, guest, gStage, choice, gRound, handed>>,
         net' \in [Guests -> 0..1], back' \in [Guests -> Nat]
  PROVE  /\ SuperTypes' /\ GuestsOK' /\ HandedOK' /\ InstancesOK'
         /\ Instances' = Instances /\ inst'[i] = e
         /\ \A k \in Instances : k # i => inst'[k] = inst[k]
<1> USE SuperConstants DEF SuperInv
<1>1. /\ inst' \in Seq(Instance) /\ Instances' = Instances /\ inst'[i] = e
      /\ \A k \in Instances : k # i => inst'[k] = inst[k]
  BY InstanceSet
<1>2. /\ \A k \in Instances' : inst'[k].guest \in 0..NGuests /\ inst'[k].round \in 0..Rounds
      /\ \A k \in Instances : inst'[k].guest = inst[k].guest /\ inst'[k].service = inst[k].service
  BY <1>1, InstanceTypes DEF Instance
<1>3. inst[i].guest # 0
  BY DEF InstancesOK
<1>4. SuperTypes'
  BY <1>1, <1>2 DEF SuperTypes, SuperTypeOK, Instances
<1>5. GuestsOK' /\ HandedOK'
  BY <1>1, <1>2 DEF GuestsOK, HandedOK, Busy
<1>6. InstancesOK'
  BY <1>1, <1>2, <1>3 DEF InstancesOK
<1> QED
  BY <1>1, <1>4, <1>5, <1>6

(* The service and its client, and the others, after a step of a service.  *)
LEMMA RoundsKept ==
  ASSUME SuperInv, NEW i \in Instances, NEW c \in Guests, inst[i].guest = c,
         Instances' = Instances, inst'[i].guest = c,
         \A k \in Instances : k # i => inst'[k] = inst[k],
         UNCHANGED <<gStage, gRound>>,
         \A b \in Guests : b # c => net'[b] = net[b] /\ back'[b] = back[b],
         gStage[c] = "in" => Paired(i, c)'
  PROVE  RoundsOK'
<1> USE SuperConstants DEF SuperInv
<1>1. \A k \in Instances : inst'[k].guest = inst[k].guest /\ (inst[k].guest # 0 => inst[k].guest \in Guests)
  BY InstanceTypes DEF Guests
<1>2. \A k \in Instances : k # i => inst[k].guest # c
  BY DEF InstancesOK, Guests
<1>3. ASSUME NEW k \in Instances', inst'[k].guest # 0, gStage'[inst'[k].guest] = "in"
      PROVE  Paired(k, inst[k].guest)'
  <2>1. CASE k = i
    BY <1>3, <2>1 DEF Paired
  <2>2. CASE k # i
    <3>1. Paired(k, inst[k].guest) /\ inst[k].guest \in Guests /\ inst[k].guest # c
      BY <1>1, <1>2, <1>3, <2>2 DEF RoundsOK
    <3> QED
      BY <3>1, <2>2 DEF Paired
  <2> QED
    BY <2>1, <2>2
<1>4. \A b \in Guests : (\A k \in Instances' : inst'[k].guest # b) =>
                          net'[b] = 0 /\ back'[b] = 0 /\ gRound'[b] = 0
  BY <1>1 DEF RoundsOK
<1> QED
  BY <1>3, <1>4 DEF RoundsOK

(* A service sends its line.                                               *)
LEMMA SuperSend ==
  ASSUME SuperInv, NEW i \in Instances, ServiceSend(i)
  PROVE  SuperInv'
<1> USE SuperConstants DEF SuperInv
<1>0. UNCHANGED <<pcInet, guest, gStage, choice, gRound, back, handed>>
      /\ inst[i].stage = "serving" /\ ~inst[i].sent
  BY DEF ServiceSend
<1>1. PICK c \in Guests : c = inst[i].guest
  BY <1>0, InstanceTypes DEF InstancesOK, Guests
<1>2. gStage[c] \in {"in", "gone"}
  BY <1>1, InstanceTypes DEF InstancesOK, GuestsOK
<1>3. inst[i].round < Rounds
  BY <1>0 DEF InstancesOK
<1>4. inst[i] \in Instance /\ inst \in [1..Len(inst) -> Instance] /\ i \in 1..Len(inst)
  BY InstanceTypes DEF Instances
<1>5. net \in [Guests -> 0..1] /\ back' \in [Guests -> Nat]
  BY <1>0 DEF SuperTypes, SuperTypeOK
<1> DEFINE on  == [inst[i] EXCEPT !.sent = TRUE]
           off == [inst[i] EXCEPT !.stage = "ended"]
<1>6. /\ on \in Instance /\ on.sent /\ on.stage = "serving" /\ on.guest = c
      /\ on.round = inst[i].round /\ on.service = inst[i].service
      /\ off \in Instance /\ off.stage = "ended" /\ off.guest = c /\ off.service = inst[i].service
  BY <1>0, <1>1, <1>4 DEF Instance
<1>7. \/ /\ gStage[c] = "gone" /\ net' = net
         /\ inst' = [inst EXCEPT ![i] = on] \/ inst' = [inst EXCEPT ![i] = off]
      \/ /\ gStage[c] # "gone" /\ inst' = [inst EXCEPT ![i] = on]
         /\ net' = [net EXCEPT ![c] = net[c] + 1]
  BY <1>1, <1>4 DEF ServiceSend
<1> HIDE DEF on, off
<1>8. gStage[c] = "in" => Paired(i, c)
  BY <1>1 DEF RoundsOK, Guests
<1>9. gStage[c] = "in" => net[c] = 0 /\ back[c] = 0 /\ gRound[c] = inst[i].round
  BY <1>0, <1>8 DEF Paired
<1>10. net' \in [Guests -> 0..1] /\ (\A b \in Guests : b # c => net'[b] = net[b])
       /\ (gStage[c] = "in" => net'[c] = 1)
  BY <1>2, <1>5, <1>7, <1>9
<1>11. CASE inst' = [inst EXCEPT ![i] = on]
  <2>1. /\ SuperTypes' /\ GuestsOK' /\ HandedOK' /\ InstancesOK'
        /\ Instances' = Instances /\ inst'[i] = on
        /\ \A k \in Instances : k # i => inst'[k] = inst[k]
    <3>1. /\ inst[i].stage = "serving" /\ UNCHANGED <<pcInet, guest, gStage, choice, gRound, handed>>
          /\ net' \in [Guests -> 0..1] /\ back' \in [Guests -> Nat]
      BY <1>0, <1>5, <1>10
    <3>2. /\ on \in Instance /\ on.guest = inst[i].guest /\ on.service = inst[i].service
          /\ on.stage \in {"serving", "ended"} /\ on.round < Rounds
      BY <1>1, <1>3, <1>6
    <3> QED
      BY <1>11, <3>1, <3>2, ServiceKeeps
  <2>2. gStage[c] = "in" => Paired(i, c)'
    <3>1. gRound' = gRound /\ back' = back
      BY <1>0
    <3> QED
      BY <1>6, <1>9, <1>10, <2>1, <3>1 DEF Paired
  <2>3. RoundsOK'
    BY <1>0, <1>1, <1>6, <1>10, <2>1, <2>2, RoundsKept
  <2> QED
    BY <2>1, <2>3
<1>12. CASE inst' = [inst EXCEPT ![i] = off] /\ gStage[c] = "gone"
  <2>1. /\ SuperTypes' /\ GuestsOK' /\ HandedOK' /\ InstancesOK'
        /\ Instances' = Instances /\ inst'[i] = off
        /\ \A k \in Instances : k # i => inst'[k] = inst[k]
    BY <1>0, <1>1, <1>5, <1>6, <1>10, <1>12, ServiceKeeps
  <2>2. RoundsOK'
    BY <1>0, <1>1, <1>6, <1>10, <1>12, <2>1, RoundsKept
  <2> QED
    BY <2>1, <2>2
<1> QED
  BY <1>7, <1>11, <1>12

(* A service receives a line or the end of the connection.                 *)
LEMMA SuperReceive ==
  ASSUME SuperInv, NEW i \in Instances, ServiceRecv(i)
  PROVE  SuperInv'
<1> USE SuperConstants DEF SuperInv
<1>0. UNCHANGED <<pcInet, guest, gStage, choice, gRound, net, handed>>
      /\ inst[i].stage = "serving" /\ inst[i].sent /\ LineThere(inst[i].guest)
  BY DEF ServiceRecv
<1>1. PICK c \in Guests : c = inst[i].guest
  BY <1>0, InstanceTypes DEF InstancesOK, Guests
<1>3. inst[i].round < Rounds /\ inst[i].round \in Nat
  BY <1>0, InstanceTypes DEF InstancesOK
<1>4. inst[i] \in Instance /\ inst \in [1..Len(inst) -> Instance] /\ i \in 1..Len(inst)
  BY InstanceTypes DEF Instances
<1>5. net' \in [Guests -> 0..1] /\ back \in [Guests -> Nat]
  BY <1>0 DEF SuperTypes, SuperTypeOK
<1> DEFINE st == IF RoundDone(inst[i].round) THEN "ended" ELSE "serving"
           e == [inst[i] EXCEPT !.sent = FALSE, !.round = inst[i].round + 1, !.stage = st]
<1>6. inst[i].round + 1 \in 0..Rounds /\ st \in {"serving", "ended"}
      /\ (st = "serving" => inst[i].round + 1 < Rounds)
      /\ (st = "ended" => inst[i].round + 1 = Rounds)
  BY <1>3 DEF RoundDone
<1>7. inst' = [inst EXCEPT ![i].sent = FALSE, ![i].round = @ + 1, ![i].stage = st]
  BY <1>0, <1>4 DEF ServiceRecv
<1> HIDE DEF st
<1>8. /\ e \in Instance /\ ~e.sent /\ e.stage = st /\ e.guest = c
      /\ e.round = inst[i].round + 1 /\ e.service = inst[i].service
  BY <1>1, <1>4, <1>6 DEF Instance
<1>9. inst' = [inst EXCEPT ![i] = e]
  BY <1>4, <1>7
<1> HIDE DEF e
<1>10. back' = [back EXCEPT ![c] = IF back[c] > 0 THEN back[c] - 1 ELSE 0]
  BY <1>1 DEF ServiceRecv
<1>11. back' \in [Guests -> Nat] /\ \A b \in Guests : b # c => back'[b] = back[b]
  BY <1>5, <1>10
<1>12. gStage[c] = "in" => back'[c] = 0 /\ net[c] = 0 /\ gRound[c] = inst[i].round + 1
                           /\ gRound[c] < Rounds
  <2> SUFFICES ASSUME gStage[c] = "in"
               PROVE  back'[c] = 0 /\ net[c] = 0 /\ gRound[c] = inst[i].round + 1 /\ gRound[c] < Rounds
    OBVIOUS
  <2>1. Paired(i, c) /\ gRound[c] < Rounds
    BY <1>1 DEF RoundsOK, Guests
  <2>2. back[c] > 0
    BY <1>0, <1>1 DEF LineThere
  <2> QED
    BY <1>0, <1>5, <1>10, <2>1, <2>2 DEF Paired
<1>13. /\ SuperTypes' /\ GuestsOK' /\ HandedOK' /\ InstancesOK'
       /\ Instances' = Instances /\ inst'[i] = e
       /\ \A k \in Instances : k # i => inst'[k] = inst[k]
  BY ZenonT(40), <1>0, <1>1, <1>5, <1>6, <1>8, <1>9, <1>11, ServiceKeeps
<1>14. gStage[c] = "in" => Paired(i, c)'
  BY <1>0, <1>6, <1>8, <1>12, <1>13 DEF Paired
<1>15. RoundsOK'
  BY <1>0, <1>1, <1>8, <1>11, <1>13, <1>14, RoundsKept
<1> QED
  BY <1>13, <1>15

(* The initial state: nobody has connected, no service is started.         *)
LEMMA SuperStarts == SuperInit => SuperInv
<1> SUFFICES ASSUME SuperInit PROVE SuperInv
  OBVIOUS
<1> USE SuperConstants
<1>1. Len(inst) = 0 /\ Len(handed) = 0 /\ Instances = {} /\ inst \in Seq(Instance) /\ handed \in Seq(Guests)
  BY DEF SuperInit, Instances
<1>2. SuperTypes
  BY <1>1 DEF SuperInit, SuperTypes, SuperTypeOK
<1>3. GuestsOK /\ HandedOK
  BY <1>1 DEF SuperInit, GuestsOK, HandedOK, Busy, Guests
<1>4. InstancesOK /\ RoundsOK
  BY <1>1 DEF SuperInit, InstancesOK, RoundsOK
<1> QED
  BY <1>2, <1>3, <1>4 DEF SuperInv

(* Every step of inet, its services and its clients keeps the invariant.   *)
LEMMA SuperKeeps == SuperInv /\ [SuperNext]_superVars => SuperInv'
<1> SUFFICES ASSUME SuperInv, [SuperNext]_superVars  PROVE SuperInv'
  OBVIOUS
<1>1. ASSUME NEW c \in Guests, GuestArrives(c) \/ GuestRound(c) \/ GuestLeaves(c)
      PROVE  SuperInv'
  BY <1>1, SuperClients, SuperRound
<1>2. CASE AcceptGuest \/ RecvChoice \/ PassGuest \/ UNCHANGED superVars
  BY <1>2, SuperAccept, SuperRecv, SuperPass
<1>3. ASSUME NEW k \in 1..2, StartService(k)  PROVE SuperInv'
  BY <1>3, SuperStart
<1>4. ASSUME NEW i \in 1..Len(inst), Service(i)  PROVE SuperInv'
  BY <1>4, SuperSend, SuperReceive DEF Service, Instances
<1> QED
  BY <1>1, <1>2, <1>3, <1>4 DEF SuperNext

(* Every client is passed on once, in order, to the service that it chose, *)
(* and stays in step with it until it leaves (inet.c:103-123): for any     *)
(* number of clients, starts and rounds.                                   *)
THEOREM GuestsArePassedRight == SuperSpec => []PassedSafe
<1>1. ASSUME SuperInv  PROVE PassedSafe
  <2>1. PassedRight
    BY <1>1 DEF SuperInv, HandedOK, InstancesOK, Instances, PassedRight
  <2>2. ASSUME NEW i \in 1..Len(inst), NEW c, c = inst[i].guest, c # 0
        PROVE  /\ gStage[c] = "in" => gRound[c] - inst[i].round \in 0..1
               /\ inst[i].stage = "ended" => gRound[c] = Rounds \/ gStage[c] = "gone"
    <3>0. i \in Instances /\ c \in Guests /\ inst[i].round \in Nat /\ gRound[c] \in Nat
      BY <1>1, <2>2, InstanceTypes DEF Instances, Guests, SuperInv, SuperTypes
    <3>1. gStage[c] \in {"in", "gone"}
      BY <1>1, <2>2, <3>0 DEF SuperInv, InstancesOK, GuestsOK
    <3>2. gStage[c] = "in" => Paired(i, c)
      BY <1>1, <2>2, <3>0 DEF SuperInv, RoundsOK
    <3> QED
      BY <3>0, <3>1, <3>2 DEF Paired
  <2>3. InStep
    BY <2>2 DEF InStep
  <2> QED
    BY <2>1, <2>3 DEF PassedSafe
<1> QED
  BY <1>1, SuperKeeps, SuperStarts, PTL DEF SuperSpec

-----------------------------------------------------------------------------
(* The multi-data server                                                   *)

DataTypes ==
  /\ DataTypeOK
  /\ nsfd \in 0..NViewers /\ at \in Nat /\ (pcDS = "fan" => fan \in Streams)
  /\ typed \in [Viewers -> Streams \cup {0}]
  /\ \A d \in output : outs[d] < MaxOut

(* DS has accepted the clients up to nsfd, and entered those before the    *)
(* one it waits for.                                                       *)
EnteredUpTo == IF pcDS = "option" THEN nsfd - 1 ELSE nsfd
AcceptedOK ==
  /\ \A c \in Viewers : viewer[c] \in {"in", "gone"} <=> c <= nsfd
  /\ \A b, c \in Viewers : b < c /\ viewer[c] # "out" => viewer[b] # "out"
  /\ 0 \in due => \E c \in Viewers : viewer[c] = "queued"
  /\ pcDS = "option" => nsfd # 0
  /\ \A d \in Streams : clients_connected_count[d] <= EnteredUpTo

(* A stream has an entry of pfds from its first client on, and one only.   *)
ProcessOK ==
  /\ OneProcess
  /\ \A d \in Streams : clients_connected_count[d] > 0 <=> d \in Range(d_number)

(* Cell a of the row of stream d, and how many of them hold a client.      *)
RowsFit == \A d \in Streams : clients_connected_count[d] <= Row
Cell(d, a) == d * Row + a
Filled(d) == 0..(clients_connected_count[d] - 1)

(* What is still to be sent of the output that DS has just read.           *)
Owed(d, a) == IF pcDS = "fan" /\ d = fan /\ a >= at THEN 1 ELSE 0

(* Client c, in cell a of stream d, has had what that stream has sent.     *)
Served(d, a, c) ==
  /\ typed[c] = d /\ d # 0
  /\ \A e \in Streams : seen[c][e] = IF e = d THEN outs[d] - joined[c] - Owed(d, a) ELSE 0

(* As long as no row is full, a client that is entered is in one cell, in  *)
(* the row of the stream it typed.                                         *)
CellsOK ==
  /\ seen \in [Viewers -> [Streams -> Int]] /\ joined \in [Viewers -> Nat]
  /\ \A d \in Streams : \A a \in Filled(d) : cells[Cell(d, a)] \in 1..EnteredUpTo
  /\ \A d, e \in Streams : \A a \in Filled(d), b \in Filled(e) :
       cells[Cell(d, a)] = cells[Cell(e, b)] => d = e /\ a = b
  /\ \A c \in 1..EnteredUpTo : \E d \in Streams : \E a \in Filled(d) : cells[Cell(d, a)] = c
  /\ \A d \in Streams : \A a \in Filled(d) :
       viewer[cells[Cell(d, a)]] = "in" => Served(d, a, cells[Cell(d, a)])
  /\ \A c \in Viewers : c > EnteredUpTo => \A d \in Streams : seen[c][d] = 0

DataInv == DataTypes /\ AcceptedOK /\ ProcessOK /\ (RowsFit => CellsOK)

(* Rows do not overlap, and clients_connected has a cell for all of them.  *)
LEMMA RowCells ==
  /\ \A d \in Streams : \A a \in 0..(Row - 1) : Cell(d, a) \in Cells
  /\ \A d, e \in Streams : \A a, b \in 0..(Row - 1) : Cell(d, a) = Cell(e, b) => d = e /\ a = b
<1> USE DataConstants
<1>1. \A x, y \in Nat : x < y => x * Row + Row <= y * Row
  <2> SUFFICES ASSUME NEW x \in Nat, NEW y \in Nat, x < y PROVE x * Row + Row <= y * Row
    OBVIOUS
  <2>1. PICK k \in Nat : y = x + 1 + k
    <3>1. y - x - 1 \in Nat /\ y = x + 1 + (y - x - 1)
      OBVIOUS
    <3> QED
      BY <3>1
  <2>2. y * Row = x * Row + Row + k * Row
    BY <2>1
  <2>3. k * Row \in Nat /\ x * Row \in Nat
    OBVIOUS
  <2> QED
    BY <2>2, <2>3
<1>2. \A x \in Nat : x * Row \in Nat
  OBVIOUS
<1>3. Min(Streams) \in Nat /\ \A d \in Streams : d \in Nat /\ Min(Streams) <= d
  BY MinNat
<1>4. Max(Streams) \in Nat /\ \A d \in Streams : d <= Max(Streams)
  BY MaxNat
<1>5. ASSUME NEW d \in Streams, NEW a \in 0..(Row - 1)  PROVE Cell(d, a) \in Cells
  <2>1. Min(Streams) * Row <= d * Row
    BY <1>1, <1>2, <1>3
  <2>2. d * Row + Row <= (Max(Streams) + 1) * Row
    BY <1>1, <1>2, <1>3, <1>4
  <2>3. /\ Min(Streams) * Row \in Nat /\ d * Row \in Nat /\ (Max(Streams) + 1) * Row \in Nat
    BY <1>2, <1>3, <1>4
  <2> QED
    BY <2>1, <2>2, <2>3 DEF Cells, Cell
<1>6. ASSUME NEW d \in Streams, NEW e \in Streams, NEW a \in 0..(Row - 1), NEW b \in 0..(Row - 1),
             Cell(d, a) = Cell(e, b)
      PROVE  d = e /\ a = b
  <2>1. d * Row \in Nat /\ e * Row \in Nat /\ d \in Nat /\ e \in Nat
    BY <1>2
  <2>2. d * Row + a = e * Row + b
    BY <1>6 DEF Cell
  <2>3. ~(d < e) /\ ~(e < d)
    BY <1>1, <2>1, <2>2
  <2>4. d = e
    BY <2>1, <2>3
  <2> QED
    BY <2>1, <2>2, <2>4
<1> QED
  BY <1>5, <1>6

(* Types that the proofs use by themselves.                                *)
LEMMA DataFacts ==
  ASSUME DataTypes, AcceptedOK
  PROVE  /\ d_number \in Seq(Streams) /\ Len(d_number) \in Nat
         /\ \A d \in Streams : /\ clients_connected_count[d] \in Nat
                               /\ clients_connected_count[d] <= EnteredUpTo
                               /\ outs[d] \in Nat /\ d \in Nat
         /\ nsfd \in Nat /\ nsfd <= NViewers /\ EnteredUpTo \in Nat /\ EnteredUpTo <= nsfd
         /\ \A c \in 1..EnteredUpTo : c \in Viewers /\ viewer[c] \in {"in", "gone"}
<1> USE DataConstants
<1>1. d_number \in Seq(Streams) /\ Len(d_number) \in Nat
  BY LenProperties DEF DataTypes, DataTypeOK
<1>2. nsfd \in Nat /\ nsfd <= NViewers /\ EnteredUpTo \in Nat /\ EnteredUpTo <= nsfd
  BY DEF DataTypes, AcceptedOK, EnteredUpTo
<1>3. \A d \in Streams : /\ clients_connected_count[d] \in Nat
                         /\ clients_connected_count[d] <= EnteredUpTo
                         /\ outs[d] \in Nat /\ d \in Nat
  BY DEF DataTypes, DataTypeOK, AcceptedOK
<1>4. \A c \in 1..EnteredUpTo : c \in Viewers /\ viewer[c] \in {"in", "gone"}
  BY <1>2 DEF AcceptedOK, Viewers
<1> QED
  BY <1>1, <1>2, <1>3, <1>4

(* The cells in use are different ones of clients_connected.               *)
LEMMA FilledCells ==
  ASSUME DataTypes, AcceptedOK, RowsFit
  PROVE  \A d \in Streams : \A a \in Filled(d) : a \in Nat /\ a \in 0..(Row - 1)
  BY DataConstants, DataFacts DEF RowsFit, Filled

(* Steps that neither enter a client nor send to one.                      *)
LEMMA CellsFrame ==
  ASSUME DataTypes, AcceptedOK, CellsOK,
         UNCHANGED <<cells, clients_connected_count, outs, seen, joined>>,
         EnteredUpTo' = EnteredUpTo,
         \A c \in 1..EnteredUpTo : viewer'[c] = "in" => viewer[c] = "in",
         \A c \in 1..EnteredUpTo : typed[c] # 0 => typed'[c] = typed[c],
         \A d \in Streams : \A a \in Filled(d) : Owed(d, a)' = Owed(d, a)
  PROVE  CellsOK'
<1>0. \A d : Filled(d)' = Filled(d)
  BY DEF Filled
<1>1. /\ seen' \in [Viewers -> [Streams -> Int]] /\ joined' \in [Viewers -> Nat]
      /\ \A d \in Streams : \A a \in Filled(d)' : cells'[Cell(d, a)] \in 1..EnteredUpTo'
      /\ \A c \in Viewers : c > EnteredUpTo' => \A d \in Streams : seen'[c][d] = 0
  BY <1>0 DEF CellsOK
<1>2. \A d, e \in Streams : \A a \in Filled(d)', b \in Filled(e)' :
        cells'[Cell(d, a)] = cells'[Cell(e, b)] => d = e /\ a = b
  BY <1>0 DEF CellsOK
<1>3. \A c \in 1..EnteredUpTo' : \E d \in Streams : \E a \in Filled(d)' : cells'[Cell(d, a)] = c
  BY <1>0 DEF CellsOK
<1>4. ASSUME NEW d \in Streams, NEW a \in Filled(d), NEW c, c = cells[Cell(d, a)], viewer'[c] = "in"
      PROVE  Served(d, a, c)'
  <2>1. c \in 1..EnteredUpTo /\ Served(d, a, c)
    BY <1>4 DEF CellsOK
  <2> QED
    BY <2>1, <1>4 DEF Served
<1>5. \A d \in Streams : \A a \in Filled(d)' :
        viewer'[cells'[Cell(d, a)]] = "in" => Served(d, a, cells[Cell(d, a)])'
  <2> SUFFICES ASSUME NEW d \in Streams, NEW a \in Filled(d), viewer'[cells[Cell(d, a)]] = "in"
               PROVE  Served(d, a, cells[Cell(d, a)])'
    BY <1>0
  <2> PICK c : c = cells[Cell(d, a)]
    OBVIOUS
  <2>1. Served(d, a, c)'
    BY <1>4
  <2> QED
    BY <2>1 DEF Served, Cell, Owed
<1> QED
  BY <1>1, <1>2, <1>3, <1>5 DEF CellsOK

(* A client connects, types or is stopped; a data server prints; poll; the *)
(* end of a loop.                                                          *)
LEMMA DataQuiet ==
  ASSUME DataInv,
         \/ \E c \in Viewers : Viewer(c)
         \/ \E d \in Streams : Print1(d)
         \/ PollDS \/ NextDS \/ UNCHANGED dataVars
  PROVE  DataInv'
<1> USE DataConstants DEF DataInv, dataVars
<1>0. UNCHANGED <<d_number, cells, clients_connected_count, nsfd, fan, at, outs, seen, joined>>
  BY DEF Viewer, Print1, PollDS, NextDS
<1>1. /\ pcDS' = "option" <=> pcDS = "option"
      /\ pcDS' = "fan" => pcDS = "fan"
      /\ pcDS' = "loop" \/ due' = due
  BY DEF Viewer, Print1, PollDS, NextDS
<1>2. (viewer' = viewer /\ typed' = typed) \/ \E c \in Viewers : Viewer(c)
  BY DEF Print1, PollDS, NextDS
<1>3. /\ viewer' \in [Viewers -> {"out", "queued", "in", "gone"}]
      /\ typed' \in [Viewers -> Streams \cup {0}]
  BY <1>2 DEF Viewer, DataTypes, DataTypeOK
<1>4. /\ \A c \in Viewers : /\ viewer'[c] \in {"in", "gone"} <=> viewer[c] \in {"in", "gone"}
                            /\ viewer'[c] = "in" => viewer[c] = "in"
                            /\ viewer[c] # "out" => viewer'[c] # "out"
                            /\ viewer[c] = "queued" => viewer'[c] = "queued"
                            /\ typed[c] # 0 => typed'[c] = typed[c]
  BY <1>2 DEF Viewer, DataTypes, DataTypeOK
<1>5. \A b, c \in Viewers : b < c /\ viewer'[c] # "out" => viewer'[b] # "out"
  BY <1>2, <1>4 DEF Viewer, DataTypes, DataTypeOK, AcceptedOK, Viewers
<1>6. output' \subseteq Streams /\ \A d \in output' : outs[d] < MaxOut
  BY DEF Viewer, Print1, PollDS, NextDS, DataTypes, DataTypeOK
<1>7. due' \subseteq 0..Len(d_number) /\ (0 \in due' => \E c \in Viewers : viewer'[c] = "queued")
  <2>1. CASE PollDS
    BY <2>1, DataFacts DEF PollDS
  <2>2. CASE ~PollDS
    <3>1. due' = due
      BY <2>2 DEF Viewer, Print1, NextDS
    <3> QED
      BY <1>4, <3>1 DEF DataTypes, DataTypeOK, AcceptedOK
  <2> QED
    BY <2>1, <2>2
<1>8. pcDS' \in {"poll", "loop", "option", "fan"}
  BY DEF Viewer, Print1, PollDS, NextDS, DataTypes, DataTypeOK
<1>9. DataTypes'
  BY <1>0, <1>1, <1>3, <1>6, <1>7, <1>8 DEF DataTypes, DataTypeOK
<1>10. EnteredUpTo' = EnteredUpTo
  BY <1>0, <1>1 DEF EnteredUpTo
<1>11. AcceptedOK'
  BY <1>0, <1>1, <1>4, <1>5, <1>7, <1>10 DEF AcceptedOK
<1>12. ProcessOK'
  BY <1>0 DEF ProcessOK, OneProcess
<1>13. ASSUME RowsFit'  PROVE CellsOK'
  <2>1. CellsOK
    BY <1>0, <1>13 DEF RowsFit
  <2>2. \A d \in Streams : \A a \in Filled(d) : Owed(d, a)' = Owed(d, a)
    <3>1. CASE pcDS = "fan" /\ pcDS' # "fan"
      <4>1. at >= clients_connected_count[fan]
        BY <3>1 DEF NextDS, Viewer, Print1, PollDS, From
      <4>2. \A d \in Streams : \A a \in Filled(d) : a \in Nat /\ a < clients_connected_count[d]
        BY DataFacts DEF Filled
      <4>3. at \in Nat /\ fan \in Streams
        BY <3>1 DEF DataTypes
      <4> QED
        BY <3>1, <4>1, <4>2, <4>3, DataFacts DEF Owed
    <3>2. CASE pcDS' = "fan" <=> pcDS = "fan"
      BY <1>0, <3>2 DEF Owed
    <3> QED
      BY <1>1, <3>1, <3>2
  <2>3. \A c \in 1..EnteredUpTo : c \in Viewers
    BY DataFacts
  <2> QED
    BY <1>0, <1>4, <1>10, <2>1, <2>2, <2>3, CellsFrame
<1> QED
  BY <1>9, <1>11, <1>12, <1>13

(* accept takes the next client, the one after nsfd.                       *)
LEMMA DataAccept ==
  ASSUME DataInv, AcceptDS
  PROVE  DataInv'
<1> USE DataConstants DEF DataInv
<1> DEFINE Queued == {c \in Viewers : viewer[c] = "queued"}
<1>0. /\ UNCHANGED <<d_number, cells, clients_connected_count, fan, at, typed, output, outs, seen, joined>>
      /\ pcDS = "loop" /\ 0 \in due /\ pcDS' = "option" /\ due' = due \ {0}
  BY DEF AcceptDS
<1>1. Queued \in SUBSET Nat /\ Queued # {}
  BY <1>0 DEF AcceptedOK, Viewers
<1>2. PICK g \in Viewers : g = Min(Queued) /\ viewer[g] = "queued" /\ \A c \in Queued : g <= c
  BY <1>1, MinNat
<1>3. nsfd' = g /\ viewer' = [viewer EXCEPT ![g] = "in"]
  BY <1>2 DEF AcceptDS
<1>4. viewer \in [Viewers -> {"out", "queued", "in", "gone"}] /\ nsfd \in Nat
  BY DataFacts DEF DataTypes, DataTypeOK
<1>5. g = nsfd + 1
  <2>1. g > nsfd
    BY <1>2, <1>4 DEF AcceptedOK, Viewers
  <2>2. ASSUME g > nsfd + 1  PROVE FALSE
    <3>1. nsfd + 1 \in Viewers
      BY <1>2, <1>4, <2>2 DEF Viewers
    <3>2. nsfd + 1 < g
      BY <1>2, <1>4, <2>2 DEF Viewers
    <3>3. viewer[nsfd + 1] # "out" /\ viewer[nsfd + 1] \notin {"in", "gone"}
      BY <1>2, <1>4, <3>1, <3>2 DEF AcceptedOK
    <3>4. nsfd + 1 \in Queued
      BY <1>4, <3>1, <3>3
    <3> QED
      BY <1>2, <1>4, <3>2, <3>4 DEF Viewers
  <2> QED
    BY <1>2, <1>4, <2>1, <2>2 DEF Viewers
<1> HIDE DEF Queued
<1>6. \A c \in Viewers : viewer'[c] = IF c = g THEN "in" ELSE viewer[c]
  BY <1>2, <1>3, <1>4
<1>7. EnteredUpTo = nsfd /\ EnteredUpTo' = nsfd
  BY <1>0, <1>3, <1>4, <1>5 DEF EnteredUpTo
<1>8. DataTypes'
  <2>1. viewer' \in [Viewers -> {"out", "queued", "in", "gone"}] /\ nsfd' \in 0..NViewers
    BY <1>2, <1>3, <1>4 DEF Viewers
  <2> QED
    BY <1>0, <2>1 DEF DataTypes, DataTypeOK
<1>9. AcceptedOK'
  <2>1. \A c \in Viewers : viewer'[c] \in {"in", "gone"} <=> c <= nsfd'
    BY <1>3, <1>4, <1>5, <1>6 DEF AcceptedOK, Viewers
  <2>2. \A b, c \in Viewers : b < c /\ viewer'[c] # "out" => viewer'[b] # "out"
    BY <1>2, <1>6 DEF AcceptedOK
  <2>3. nsfd' # 0
    BY <1>3, <1>4, <1>5
  <2> QED
    BY <1>0, <1>7, <2>1, <2>2, <2>3 DEF AcceptedOK
<1>10. ProcessOK'
  BY <1>0 DEF ProcessOK, OneProcess
<1>11. ASSUME RowsFit'  PROVE CellsOK'
  <2>1. CellsOK
    BY <1>0, <1>11 DEF RowsFit
  <2>2. \A d, a : Owed(d, a)' = Owed(d, a)
    BY <1>0 DEF Owed
  <2>3. \A c \in 1..EnteredUpTo : c \in Viewers /\ c # g
    BY <1>4, <1>5, <1>7, DataFacts
  <2>4. \A c \in 1..EnteredUpTo : viewer'[c] = viewer[c]
    BY <1>6, <2>3
  <2> QED
    BY <1>0, <1>7, <2>1, <2>2, <2>4, CellsFrame
<1> QED
  BY <1>8, <1>9, <1>10, <1>11

(* DS reads the pipe of a stream: every client of it is owed the message.  *)
LEMMA DataRead ==
  ASSUME DataInv, ReadDS
  PROVE  DataInv'
<1> USE DataConstants DEF DataInv
<1>0. /\ UNCHANGED <<d_number, cells, clients_connected_count, nsfd, viewer, typed, seen, joined>>
      /\ pcDS = "loop" /\ due # {} /\ 0 \notin due /\ at' = 0 /\ pcDS' = "fan"
  BY DEF ReadDS
<1>1. due \in SUBSET Nat /\ due \subseteq 0..Len(d_number) /\ Len(d_number) \in Nat
  BY DataFacts DEF DataTypes, DataTypeOK
<1>2. Min(due) \in due
  BY <1>0, <1>1, MinNat
<1>3. PICK i \in 1..Len(d_number) : i = Min(due)
  <2>1. Min(due) \in 0..Len(d_number) /\ Min(due) # 0
    BY <1>0, <1>1, <1>2
  <2> QED
    BY <1>1, <2>1
<1>4. PICK s \in Streams : s = d_number[i]
  <2>1. d_number \in Seq(Streams)
    BY DataFacts
  <2>2. d_number[i] \in Streams
    BY <2>1, ElementOfSeq
  <2> QED
    BY <2>2
<1>5. /\ Readable(s) /\ fan' = s /\ due' = due \ {i}
      /\ output' = output \ {s} /\ outs' = [outs EXCEPT ![s] = outs[s] + 1]
  BY <1>3, <1>4 DEF ReadDS, StreamOf
<1>6. outs \in [Streams -> 0..MaxOut] /\ outs[s] < MaxOut /\ output \subseteq Streams
      /\ \A d \in output : outs[d] < MaxOut
  BY <1>5 DEF Readable, DataTypes, DataTypeOK
<1>7. outs' \in [Streams -> 0..MaxOut] /\ outs'[s] = outs[s] + 1
      /\ \A d \in Streams : d # s => outs'[d] = outs[d]
  BY <1>5, <1>6
<1>8. DataTypes'
  BY <1>0, <1>5, <1>6, <1>7 DEF DataTypes, DataTypeOK
<1>9. EnteredUpTo' = EnteredUpTo
  BY <1>0 DEF EnteredUpTo
<1>10. AcceptedOK'
  BY <1>0, <1>5, <1>9 DEF AcceptedOK
<1>11. ProcessOK'
  BY <1>0 DEF ProcessOK, OneProcess
<1>12. ASSUME RowsFit'  PROVE CellsOK'
  <2>1. CellsOK
    BY <1>0, <1>12 DEF RowsFit
  <2>2. \A d : Filled(d)' = Filled(d)
    BY <1>0 DEF Filled
  <2>3. ASSUME NEW d \in Streams, NEW a \in Filled(d), NEW c, c = cells[Cell(d, a)], viewer[c] = "in"
        PROVE  Served(d, a, c)'
    <3>1. c \in 1..EnteredUpTo /\ Served(d, a, c)
      BY <2>1, <2>3 DEF CellsOK
    <3>2. c \in Viewers /\ a \in Nat /\ joined[c] \in Nat /\ outs[d] \in Nat
      BY <2>1, <3>1, DataFacts DEF CellsOK, Filled
    <3>3. Owed(d, a) = 0 /\ Owed(d, a)' = IF d = s THEN 1 ELSE 0
      BY <1>0, <1>5, <3>2 DEF Owed
    <3>4. outs'[d] - joined[c] - Owed(d, a)' = outs[d] - joined[c] - Owed(d, a)
      BY <1>7, <3>2, <3>3
    <3> QED
      BY <1>0, <3>1, <3>4 DEF Served
  <2>4. ASSUME NEW d \in Streams, NEW a \in Filled(d), viewer'[cells'[Cell(d, a)]] = "in"
        PROVE  Served(d, a, cells[Cell(d, a)])'
    <3> PICK c : c = cells[Cell(d, a)]
      OBVIOUS
    <3>1. Served(d, a, c)'
      BY <1>0, <2>3, <2>4
    <3> QED
      BY <1>0, <3>1 DEF Served, Cell, Owed
  <2>5. /\ seen' \in [Viewers -> [Streams -> Int]] /\ joined' \in [Viewers -> Nat]
        /\ \A d \in Streams : \A a \in Filled(d) : cells'[Cell(d, a)] \in 1..EnteredUpTo'
        /\ \A d, e \in Streams : \A a \in Filled(d), b \in Filled(e) :
             cells'[Cell(d, a)] = cells'[Cell(e, b)] => d = e /\ a = b
        /\ \A c \in 1..EnteredUpTo' : \E d \in Streams : \E a \in Filled(d) : cells'[Cell(d, a)] = c
        /\ \A c \in Viewers : c > EnteredUpTo' => \A d \in Streams : seen'[c][d] = 0
    BY <1>0, <1>9, <2>1 DEF CellsOK
  <2> QED
    BY <2>2, <2>4, <2>5 DEF CellsOK
<1> QED
  BY <1>8, <1>10, <1>11, <1>12

(* DS sends the message to the next client of the stream.                  *)
LEMMA DataSend ==
  ASSUME DataInv, SendDS
  PROVE  DataInv'
<1> USE DataConstants DEF DataInv
<1>0. /\ UNCHANGED <<pcDS, d_number, due, cells, clients_connected_count, nsfd, fan,
                     viewer, typed, output, outs, joined>>
      /\ pcDS = "fan" /\ at < clients_connected_count[fan] /\ at' = at + 1
  BY DEF SendDS, From
<1>1. fan \in Streams /\ at \in Nat /\ at \in Filled(fan)
  <2>1. fan \in Streams /\ at \in Nat
    BY <1>0 DEF DataTypes
  <2>2. clients_connected_count[fan] \in Nat
    BY <2>1, DataFacts
  <2> QED
    BY <1>0, <2>1, <2>2 DEF Filled
<1>2. PICK g : g = cells[Cell(fan, at)]
  OBVIOUS
<1>3. seen' = IF viewer[g] = "gone" THEN seen ELSE [seen EXCEPT ![g][fan] = @ + 1]
  BY <1>2 DEF SendDS, From, Cell
<1>4. DataTypes'
  BY <1>0, <1>1 DEF DataTypes, DataTypeOK
<1>5. EnteredUpTo' = EnteredUpTo
  BY <1>0 DEF EnteredUpTo
<1>6. AcceptedOK' /\ ProcessOK'
  BY <1>0, <1>5 DEF AcceptedOK, ProcessOK, OneProcess
<1>7. ASSUME RowsFit'  PROVE CellsOK'
  <2>1. CellsOK
    BY <1>0, <1>7 DEF RowsFit
  <2>2. \A d : Filled(d)' = Filled(d)
    BY <1>0 DEF Filled
  <2>3. g \in 1..EnteredUpTo /\ g \in Viewers /\ viewer[g] \in {"in", "gone"}
    BY <1>1, <1>2, <2>1, DataFacts DEF CellsOK
  <2>4. seen \in [Viewers -> [Streams -> Int]] /\ joined \in [Viewers -> Nat]
    BY <2>1 DEF CellsOK
  <2>5. /\ seen' \in [Viewers -> [Streams -> Int]]
        /\ \A c \in Viewers : \A e \in Streams :
             seen'[c][e] = IF c = g /\ e = fan /\ viewer[g] = "in" THEN seen[c][e] + 1 ELSE seen[c][e]
    BY <1>1, <1>3, <2>3, <2>4
  <2>6. ASSUME NEW d \in Streams, NEW a \in Filled(d), NEW c, c = cells[Cell(d, a)], viewer[c] = "in"
        PROVE  Served(d, a, c)'
    <3>1. c \in 1..EnteredUpTo /\ Served(d, a, c)
      BY <2>1, <2>6 DEF CellsOK
    <3>2. c \in Viewers /\ a \in Nat /\ joined[c] \in Nat /\ outs[d] \in Nat
      BY <2>4, <3>1, DataFacts DEF Filled
    <3>3. c = g <=> d = fan /\ a = at
      BY <1>1, <1>2, <2>1, <2>6 DEF CellsOK
    <3>4. /\ c = g => Owed(d, a) = 1 /\ Owed(d, a)' = 0
          /\ c # g => Owed(d, a)' = Owed(d, a)
      BY <1>0, <1>1, <3>2, <3>3 DEF Owed
    <3>5. \A e \in Streams : seen'[c][e] = IF e = d THEN outs[d] - joined[c] - Owed(d, a)' ELSE 0
      <4> SUFFICES ASSUME NEW e \in Streams
                   PROVE  seen'[c][e] = IF e = d THEN outs[d] - joined[c] - Owed(d, a)' ELSE 0
        OBVIOUS
      <4>1. seen[c][e] = IF e = d THEN outs[d] - joined[c] - Owed(d, a) ELSE 0
        BY <3>1 DEF Served
      <4>2. CASE c = g
        BY <2>5, <2>6, <3>2, <3>3, <3>4, <4>1, <4>2
      <4>3. CASE c # g
        BY <2>5, <3>2, <3>4, <4>1, <4>3
      <4> QED
        BY <4>2, <4>3
    <3> QED
      BY <1>0, <3>1, <3>5 DEF Served
  <2>7. ASSUME NEW d \in Streams, NEW a \in Filled(d), viewer'[cells'[Cell(d, a)]] = "in"
        PROVE  Served(d, a, cells[Cell(d, a)])'
    <3> PICK c : c = cells[Cell(d, a)]
      OBVIOUS
    <3>1. Served(d, a, c)'
      BY <1>0, <2>6, <2>7
    <3> QED
      BY <1>0, <3>1 DEF Served, Cell, Owed
  <2>8. \A c \in Viewers : c > EnteredUpTo => c # g
    BY <2>3, DataFacts DEF Viewers
  <2>9. \A c \in Viewers : c > EnteredUpTo' => \A d \in Streams : seen'[c][d] = 0
    BY <1>5, <2>1, <2>5, <2>8 DEF CellsOK
  <2>10. /\ joined' \in [Viewers -> Nat]
         /\ \A d \in Streams : \A a \in Filled(d) : cells'[Cell(d, a)] \in 1..EnteredUpTo'
         /\ \A d, e \in Streams : \A a \in Filled(d), b \in Filled(e) :
              cells'[Cell(d, a)] = cells'[Cell(e, b)] => d = e /\ a = b
         /\ \A c \in 1..EnteredUpTo' : \E d \in Streams : \E a \in Filled(d) : cells'[Cell(d, a)] = c
    BY <1>0, <1>5, <2>1 DEF CellsOK
  <2> QED
    BY <2>2, <2>5, <2>7, <2>9, <2>10 DEF CellsOK
<1> QED
  BY <1>4, <1>6, <1>7

(* A client is entered in the next cell of the row of its stream.          *)
LEMMA DataEnter ==
  ASSUME DataInv, Enter
  PROVE  DataInv'
<1> USE DataConstants DEF DataInv
<1>0. /\ UNCHANGED <<nsfd, fan, at, viewer, typed, output, outs, seen>>
      /\ pcDS = "option" /\ pcDS' = "loop" /\ (typed[nsfd] # 0 \/ viewer[nsfd] = "gone")
  BY DEF Enter
<1>1. PICK s \in Streams :
        /\ typed[nsfd] # 0 => s = typed[nsfd]
        /\ IF FirstClient(s)
           THEN d_number' = Append(d_number, s) /\ due' \in {due, due \cup {NewEntry}}
           ELSE UNCHANGED <<d_number, due>>
        /\ cells' = [cells EXCEPT ![Cell(s, clients_connected_count[s])] = nsfd]
        /\ clients_connected_count' = [clients_connected_count EXCEPT ![s] = @ + 1]
        /\ joined' = [joined EXCEPT ![nsfd] = outs[s]]
  <2>1. nsfd \in Viewers /\ typed[nsfd] \in Streams \cup {0}
    BY <1>0, DataFacts DEF AcceptedOK, DataTypes, Viewers
  <2> QED
    BY <2>1 DEF Enter, Cell
<1>2. /\ nsfd \in Nat /\ nsfd > 0 /\ nsfd \in Viewers /\ EnteredUpTo = nsfd - 1 /\ EnteredUpTo' = nsfd
  BY <1>0, DataFacts DEF AcceptedOK, EnteredUpTo, Viewers
<1> DEFINE n == clients_connected_count[s]
<1>3. /\ n \in Nat /\ n <= nsfd - 1 /\ clients_connected_count'[s] = n + 1
      /\ \A d \in Streams : d # s => clients_connected_count'[d] = clients_connected_count[d]
      /\ clients_connected_count' \in [Streams -> 0..NViewers]
  BY SMTT(30), <1>1, <1>2, DataFacts DEF DataTypes, DataTypeOK
<1>4. d_number \in Seq(Streams) /\ Len(d_number) \in Nat /\ due \subseteq 0..Len(d_number)
      /\ cells \in [Cells -> Viewers \cup {NoViewer}]
      /\ viewer \in [Viewers -> {"out", "queued", "in", "gone"}]
  BY DataFacts DEF DataTypes, DataTypeOK
<1>5. d_number' \in Seq(Streams) /\ due' \subseteq 0..Len(d_number') /\ (0 \in due' => 0 \in due)
      /\ ProcessOK'
  <2>1. CASE FirstClient(s)
    <3>1. d_number' = Append(d_number, s) /\ due' \in {due, due \cup {Len(d_number) + 1}} /\ n = 0
      BY <1>1, <2>1 DEF NewEntry, FirstClient
    <3>2. /\ d_number' \in Seq(Streams) /\ Len(d_number') = Len(d_number) + 1
          /\ d_number'[Len(d_number) + 1] = s
          /\ \A i \in 1..Len(d_number) : d_number'[i] = d_number[i]
          /\ \A i \in 1..Len(d_number') : i = Len(d_number) + 1 \/ i \in 1..Len(d_number)
      BY <1>4, <3>1, AppendElements
    <3>3. s \notin Range(d_number)
      BY <3>1 DEF ProcessOK
    <3>4. DOMAIN d_number = 1..Len(d_number) /\ DOMAIN d_number' = 1..Len(d_number')
      BY <1>4, <3>2
    <3>5. Range(d_number') = Range(d_number) \cup {s}
      BY <1>4, <3>2, <3>4 DEF Range
    <3>6. OneProcess'
      BY SMTT(30), <3>2, <3>3, <3>4 DEF OneProcess, ProcessOK, Range
    <3>7. due' \subseteq 0..Len(d_number') /\ (0 \in due' => 0 \in due)
      BY <1>4, <3>1, <3>2
    <3>8. ProcessOK'
      BY <1>3, <3>1, <3>5, <3>6, DataFacts DEF ProcessOK
    <3> QED
      BY <3>2, <3>7, <3>8
  <2>2. CASE ~FirstClient(s)
    <3>1. d_number' = d_number /\ due' = due /\ n # 0
      BY <1>1, <2>2 DEF FirstClient
    <3>2. ProcessOK'
      BY <1>3, <3>1, DataFacts DEF ProcessOK, OneProcess
    <3> QED
      BY <1>4, <3>1, <3>2
  <2> QED
    BY <2>1, <2>2
<1>6. DataTypes'
  <2>1. cells' \in [Cells -> Viewers \cup {NoViewer}]
    BY <1>1, <1>2, <1>4
  <2> QED
    BY <1>0, <1>3, <1>5, <2>1 DEF DataTypes, DataTypeOK
<1>7. AcceptedOK'
  <2>1. \A d \in Streams : clients_connected_count'[d] <= nsfd
    BY <1>2, <1>3, DataFacts
  <2> QED
    BY <1>0, <1>2, <1>5, <2>1 DEF AcceptedOK
<1>8. ASSUME RowsFit'  PROVE CellsOK'
  <2>1. RowsFit /\ n + 1 <= Row
    <3>1. \A d \in Streams : clients_connected_count[d] \in Nat /\ clients_connected_count[d] <= clients_connected_count'[d]
      BY <1>3, DataFacts
    <3>2. \A d \in Streams : clients_connected_count'[d] <= Row
      BY <1>8 DEF RowsFit
    <3>3. \A d \in Streams : clients_connected_count'[d] \in Nat
      BY <1>3
    <3> QED
      BY <1>3, <3>1, <3>2, <3>3 DEF RowsFit
  <2>2. CellsOK
    BY <2>1
  <2>3. /\ \A d \in Streams : d # s => Filled(d)' = Filled(d)
        /\ Filled(s)' = Filled(s) \cup {n} /\ n \notin Filled(s)
    BY <1>3 DEF Filled
  <2>4. \A d \in Streams : \A a \in Filled(d)' : a \in 0..(Row - 1) /\ a \in Nat
    BY <1>3, <2>1, <2>3, FilledCells
  <2>5. cells'[Cell(s, n)] = nsfd
    <3>1. Cell(s, n) \in Cells
      BY <1>3, <2>1, RowCells
    <3> QED
      BY <1>1, <1>4, <3>1
  <2>6. \A d \in Streams : \A a \in Filled(d) : cells'[Cell(d, a)] = cells[Cell(d, a)]
    <3> SUFFICES ASSUME NEW d \in Streams, NEW a \in Filled(d)
                 PROVE  cells'[Cell(d, a)] = cells[Cell(d, a)]
      OBVIOUS
    <3>1. a \in 0..(Row - 1) /\ n \in 0..(Row - 1) /\ ~(d = s /\ a = n)
      BY <1>3, <2>1, <2>3, FilledCells
    <3>2. Cell(d, a) \in Cells /\ Cell(d, a) # Cell(s, n)
      BY <3>1, RowCells
    <3> QED
      BY <1>1, <1>4, <3>2
  <2>7. \A d \in Streams : \A a \in Filled(d)' :
          \/ d = s /\ a = n /\ cells'[Cell(d, a)] = nsfd
          \/ /\ a \in Filled(d) /\ cells'[Cell(d, a)] = cells[Cell(d, a)]
             /\ cells[Cell(d, a)] \in 1..(nsfd - 1)
    BY <1>2, <2>2, <2>3, <2>5, <2>6 DEF CellsOK
  <2>8. /\ seen' \in [Viewers -> [Streams -> Int]] /\ joined \in [Viewers -> Nat]
        /\ joined' \in [Viewers -> Nat] /\ joined'[nsfd] = outs[s]
        /\ \A c \in 1..(nsfd - 1) : joined'[c] = joined[c]
    BY SMTT(30), <1>0, <1>1, <1>2, <2>2, DataFacts DEF CellsOK, Viewers
  <2>9. \A d \in Streams : \A a \in Filled(d)' : cells'[Cell(d, a)] \in 1..nsfd
    BY <1>2, <2>7
  <2>10. \A d, e \in Streams : \A a \in Filled(d)', b \in Filled(e)' :
           cells'[Cell(d, a)] = cells'[Cell(e, b)] => d = e /\ a = b
    <3> SUFFICES ASSUME NEW d \in Streams, NEW e \in Streams, NEW a \in Filled(d)', NEW b \in Filled(e)',
                        cells'[Cell(d, a)] = cells'[Cell(e, b)]
                 PROVE  d = e /\ a = b
      OBVIOUS
    <3>1. \A x \in 1..(nsfd - 1) : x # nsfd
      BY <1>2
    <3> QED
      BY <2>2, <2>7, <3>1 DEF CellsOK
  <2>11. \A c \in 1..nsfd : \E d \in Streams : \E a \in Filled(d)' : cells'[Cell(d, a)] = c
    <3> SUFFICES ASSUME NEW c \in 1..nsfd
                 PROVE  \E d \in Streams : \E a \in Filled(d)' : cells'[Cell(d, a)] = c
      OBVIOUS
    <3>1. CASE c = nsfd
      BY <2>3, <2>5, <3>1
    <3>2. CASE c # nsfd
      <4>1. c \in 1..EnteredUpTo
        BY <1>2, <3>2
      <4>2. PICK d \in Streams : \E a \in Filled(d) : cells[Cell(d, a)] = c
        BY <2>2, <4>1 DEF CellsOK
      <4>3. PICK a \in Filled(d) : cells[Cell(d, a)] = c
        BY <4>2
      <4>4. a \in Filled(d)'
        BY <2>3
      <4> QED
        BY <2>6, <4>3, <4>4
    <3> QED
      BY <3>1, <3>2
  <2>12. ASSUME NEW d \in Streams, NEW a \in Filled(d)', NEW c, c = cells'[Cell(d, a)], viewer[c] = "in"
         PROVE  Served(d, a, c)'
    <3>1. Owed(d, a)' = 0 /\ Owed(d, a) = 0
      BY <1>0 DEF Owed
    <3>2. CASE d = s /\ a = n /\ c = nsfd
      <4>1. typed[nsfd] # 0 /\ s = typed[nsfd]
        BY <1>0, <1>1, <2>12, <3>2
      <4>2. \A e \in Streams : seen[nsfd][e] = 0
        BY <1>2, <2>2 DEF CellsOK
      <4>3. outs[s] - joined'[nsfd] - 0 = 0
        BY <2>8, DataFacts
      <4> QED
        BY <1>0, <3>1, <3>2, <4>1, <4>2, <4>3 DEF Served
    <3>3. CASE a \in Filled(d) /\ c = cells[Cell(d, a)] /\ c \in 1..(nsfd - 1)
      <4>1. Served(d, a, c)
        BY <2>2, <2>12, <3>3 DEF CellsOK
      <4>2. joined'[c] = joined[c]
        BY <2>8, <3>3
      <4> QED
        BY <1>0, <3>1, <4>1, <4>2 DEF Served
    <3> QED
      BY <2>7, <2>12, <3>2, <3>3
  <2>13. ASSUME NEW d \in Streams, NEW a \in Filled(d)', viewer'[cells'[Cell(d, a)]] = "in"
         PROVE  Served(d, a, cells[Cell(d, a)])'
    <3> PICK c : c = cells'[Cell(d, a)]
      OBVIOUS
    <3>1. Served(d, a, c)'
      BY <1>0, <2>12, <2>13
    <3> QED
      BY <3>1 DEF Served, Cell, Owed
  <2>14. \A c \in Viewers : c > nsfd => \A d \in Streams : seen'[c][d] = 0
    <3>1. \A c \in Viewers : c > nsfd => c > EnteredUpTo
      BY <1>2 DEF Viewers
    <3> QED
      BY <1>0, <2>2, <3>1 DEF CellsOK
  <2> QED
    BY <1>2, <2>8, <2>9, <2>10, <2>11, <2>13, <2>14 DEF CellsOK
<1> QED
  BY <1>5, <1>6, <1>7, <1>8

(* The initial state: nobody is accepted, no process is started.           *)
LEMMA DataStarts == DataInit => DataInv
<1> SUFFICES ASSUME DataInit PROVE DataInv
  OBVIOUS
<1> USE DataConstants DEF DataInit, NoViewer
<1>1. Len(d_number) = 0 /\ d_number \in Seq(Streams) /\ Range(d_number) = {}
  BY DEF Range
<1>2. DataTypes
  BY <1>1 DEF DataTypes, DataTypeOK
<1>3. EnteredUpTo = 0
  BY DEF EnteredUpTo
<1>4. AcceptedOK
  BY <1>3 DEF AcceptedOK, Viewers
<1>5. ProcessOK
  BY <1>1 DEF ProcessOK, OneProcess
<1>6. \A d \in Streams : Filled(d) = {}
  BY DEF Filled
<1>7. CellsOK
  BY <1>3, <1>6 DEF CellsOK
<1> QED
  BY <1>2, <1>4, <1>5, <1>7 DEF DataInv

(* The message loop and the entries: what the run checks.                  *)
LEMMA DataHolds == DataInv => DataSafe
<1> SUFFICES ASSUME DataInv PROVE DataSafe
  OBVIOUS
<1> USE DEF DataInv
<1>1. OneProcess
  BY DEF ProcessOK
<1>2. ASSUME RowsFit, pcDS # "fan", NEW c \in Viewers, NEW d \in Streams,
             viewer[c] = "in", typed[c] # 0
      PROVE  seen[c][d] = IF c = nsfd /\ pcDS = "option" THEN 0
                          ELSE IF d = typed[c] THEN outs[d] - joined[c] ELSE 0
  <2>0. CellsOK
    BY <1>2
  <2>1. c \in Nat /\ 1 <= c /\ c <= nsfd /\ nsfd \in Nat
    BY <1>2, DataConstants, DataFacts DEF AcceptedOK, Viewers
  <2>2. CASE c = nsfd /\ pcDS = "option"
    <3>1. c > EnteredUpTo
      BY <2>1, <2>2 DEF EnteredUpTo
    <3> QED
      BY <2>0, <2>2, <3>1 DEF CellsOK
  <2>3. CASE ~(c = nsfd /\ pcDS = "option")
    <3>1. c \in 1..EnteredUpTo
      BY <2>1, <2>3 DEF EnteredUpTo
    <3>2. PICK e \in Streams : \E a \in Filled(e) : cells[Cell(e, a)] = c
      BY <2>0, <3>1 DEF CellsOK
    <3>3. PICK a \in Filled(e) : cells[Cell(e, a)] = c
      BY <3>2
    <3>4. Served(e, a, c)
      BY <1>2, <2>0, <3>3 DEF CellsOK
    <3>5. Owed(e, a) = 0
      BY <1>2 DEF Owed
    <3>6. joined[c] \in Nat /\ outs[e] \in Nat
      BY <2>0, DataFacts DEF CellsOK
    <3> QED
      BY <2>3, <3>4, <3>5, <3>6 DEF Served
  <2> QED
    BY <2>2, <2>3
<1>3. OwnStreamOnly
  BY <1>2 DEF OwnStreamOnly, RowsFit
<1> QED
  BY <1>1, <1>3 DEF DataSafe

(* Every step of DS, its processes and its clients keeps the invariant.    *)
LEMMA DataKeeps == DataInv /\ [DataNext]_dataVars => DataInv'
<1> SUFFICES ASSUME DataInv, [DataNext]_dataVars  PROVE DataInv'
  OBVIOUS
<1> QED
  BY DataQuiet, DataAccept, DataEnter, DataRead, DataSend DEF DataNext

(* Each stream has one process, and its clients get that stream only and   *)
(* all of it, while no row is full (DS.c:54-107): for any number of        *)
(* clients, streams and cells in a row.                                    *)
THEOREM StreamsReachTheirClients == DataSpec => []DataSafe
  BY DataKeeps, DataStarts, DataHolds, PTL DEF DataSpec

-----------------------------------------------------------------------------
(* Servers with a thread or a process for every connection                 *)

(* The last steps of the scripts of threads and clients.                   *)
LastStep(k, p) ==
  IF k = "choose" THEN (IF p = 3 THEN 4 ELSE 7) ELSE IF k = "poll" /\ p # 1 THEN 4 ELSE 3
LastCall(k) == IF k = "choose" THEN 5 ELSE IF k = "poll" THEN 3 ELSE 2

ThreadRec == [p : 1..3, mine : Callers, fd : 0..NCallers, sock : 0..NCallers, step : 0..7]
Threads == 1..Len(thr)
ThreadTypes ==
  /\ kind \in Kinds /\ ports \subseteq 1..3 /\ shared \in 0..NCallers
  /\ fdTable \in [Callers -> 0..NCallers] /\ thr \in Seq(ThreadRec)
  /\ caller \in [Callers -> -1..6] /\ want \in [Callers -> 0..3] /\ up \in [Callers -> 0..3]
  /\ down \in [Callers -> Seq(Nat)] /\ heard \in [Callers -> Seq(Nat)]

(* A client's lines have been sent and its answers come after the accept.  *)
ClientOK(c) ==
  /\ caller[c] # -1 => want[c] \in 1..3 /\ caller[c] <= LastCall(kind) + 1
  /\ caller[c] <= 0 => heard[c] = <<>> /\ down[c] = <<>>
  /\ kind \in {"poll", "choose"} /\ caller[c] <= 2 => up[c] = 0
  /\ kind = "poll" /\ caller[c] <= 3 => up[c] <= 1
  /\ kind = "choose" /\ caller[c] <= 4 => up[c] <= 1
  /\ kind \in {"thread", "fork"} => up[c] <= 1 /\ (caller[c] <= 1 => up[c] = 0)
  /\ up[c] <= 2

(* Descriptors are of accepted clients, one for each.                      *)
TableOK ==
  /\ \A f \in Callers : fdTable[f] # 0 => caller[fdTable[f]] > 0
  /\ \A f, g \in Callers : fdTable[f] = fdTable[g] /\ fdTable[f] # 0 => f = g
  /\ kind = "fork" => \A f \in Callers : fdTable[f] = 0
  /\ kind # "fork" /\ Len(thr) > 0 => shared # 0
MineOK == \A t, u \in Threads : thr[t].mine = thr[u].mine => t = u

ThreadOK(t) ==
  /\ thr[t].step <= LastStep(kind, thr[t].p)
  /\ caller[thr[t].mine] > 0 /\ (thr[t].sock # 0 => caller[thr[t].sock] > 0)
  /\ kind = "fork" => thr[t].fd # 0 /\ thr[t].sock = thr[t].mine
  /\ kind \in {"poll", "thread"} => thr[t].sock = 0
  /\ kind = "choose" =>
       /\ thr[t].sock = 0 => thr[t].step <= 3 \/ (thr[t].p = 3 /\ thr[t].step = 4)
       /\ thr[t].sock # 0 => thr[t].step = 0 \/ thr[t].step >= 4

ThreadCore ==
  /\ ThreadTypes /\ TableOK /\ MineOK
  /\ \A c \in Callers : ClientOK(c)
  /\ \A t \in Threads : ThreadOK(t)

(* Without a race: a working thread has its client's connection.           *)
HasConn(t) ==
  thr[t].step # 0 =>
    /\ thr[t].sock # 0 => thr[t].sock = thr[t].mine
    /\ thr[t].sock = 0 => \E f \in Callers : fdTable[f] = thr[t].mine /\ (thr[t].fd # 0 => f = thr[t].fd)

HasService(t, c) ==
  /\ kind = "poll" => thr[t].p = want[c]
  /\ kind = "choose" /\ thr[t].step \notin {1, 2} => thr[t].p = want[c]
  /\ kind = "choose" /\ thr[t].step \in {2, 3} => Len(heard[c]) + Len(down[c]) <= 1

(* The client waits for what its thread has still to send.                 *)
Awaited(t, c) ==
  /\ kind \in {"poll", "choose"} /\ thr[t].step = 1 => caller[c] = 1 /\ down[c] = <<>> /\ heard[c] = <<>>
  /\ (kind = "choose" \/ (kind = "poll" /\ thr[t].p # 1)) /\ thr[t].step \in {2, 3} =>
       /\ caller[c] <= 3 /\ (caller[c] > 1 => down[c] = <<>>) /\ Len(down[c]) <= 1
  /\ kind = "thread" /\ thr[t].step \in {1, 2} => caller[c] <= 2 /\ down[c] = <<>>

Works(t) == HasConn(t) /\ \A c \in Callers : thr[t].mine = c => HasService(t, c) /\ Awaited(t, c)

Words(c) ==
  /\ \A k \in 1..Len(heard[c]) : heard[c][k] \in Threads /\ thr[heard[c][k]].mine = c
  /\ \A k \in 1..Len(down[c]) : down[c][k] \in Threads /\ thr[down[c][k]].mine = c

Unraced == (\A t \in Threads : Works(t)) /\ (\A c \in Callers : Words(c))

ThreadInv ==
  /\ ThreadCore
  /\ dead \in BOOLEAN /\ raced \in BOOLEAN
  /\ ~raced => Unraced /\ ~dead
  /\ kind = "fork" => ~raced

FourKinds == {"poll", "thread", "choose", "fork"}

(* The elements of two sequences put together.                             *)
LEMMA JoinElements ==
  ASSUME NEW S, NEW x \in Seq(S), NEW y \in Seq(S)
  PROVE  /\ x \o y \in Seq(S)
         /\ Len(x \o y) = Len(x) + Len(y)
         /\ \A i \in 1..Len(x) : (x \o y)[i] = x[i]
         /\ \A i \in 1..Len(y) : (x \o y)[Len(x) + i] = y[i]
OBVIOUS

Calls == {"send", "recv", "fork", "close", "end", "lines"}

(* Elements of the scripts that the code's branches put together.          *)
LEMMA JoinSeven ==
  ASSUME NEW S, NEW w1 \in S, NEW w2 \in S, NEW w3 \in S, NEW w4 \in S, NEW w5 \in S, NEW w6 \in S, NEW w7 \in S
  PROVE  LET s == <<w1, w2>> \o (<<w3>> \o <<w4, w5, w6, w7>>) IN
         /\ Len(s) = 7 /\ s[1] = w1 /\ s[2] = w2 /\ s[3] = w3 /\ s[4] = w4
         /\ s[5] = w5 /\ s[6] = w6 /\ s[7] = w7
<1>0. <<w1, w2>> \in Seq(S) /\ <<w3>> \in Seq(S) /\ <<w4, w5, w6, w7>> \in Seq(S)
  OBVIOUS
<1>1. PICK a \in Seq(S) : a = <<w1, w2>>
  BY <1>0
<1>2. PICK b \in Seq(S) : b = <<w3>>
  BY <1>0
<1>3. PICK c \in Seq(S) : c = <<w4, w5, w6, w7>>
  BY <1>0
<1>4. Len(a) = 2 /\ a[1] = w1 /\ a[2] = w2 /\ Len(b) = 1 /\ b[1] = w3
  BY <1>1, <1>2
<1>5. Len(c) = 4 /\ c[1] = w4 /\ c[2] = w5 /\ c[3] = w6 /\ c[4] = w7
  BY <1>3
<1>6. PICK d \in Seq(S) : d = b \o c
  BY JoinElements
<1>7. /\ Len(d) = Len(b) + Len(c) /\ \A i \in 1..Len(b) : d[i] = b[i]
      /\ \A i \in 1..Len(c) : d[Len(b) + i] = c[i]
  BY <1>6, JoinElements
<1>8. /\ Len(d) = 5 /\ d[1] = b[1] /\ d[1 + 1] = c[1] /\ d[1 + 2] = c[2] /\ d[1 + 3] = c[3]
      /\ d[1 + 4] = c[4]
  BY <1>4, <1>5, <1>7
<1>9. /\ Len(a \o d) = Len(a) + Len(d) /\ \A i \in 1..Len(a) : (a \o d)[i] = a[i]
      /\ \A i \in 1..Len(d) : (a \o d)[Len(a) + i] = d[i]
  BY JoinElements
<1>10. PICK e \in Seq(S) : e = a \o d
  BY JoinElements
<1>11. /\ Len(e) = 7 /\ e[1] = a[1] /\ e[2] = a[2] /\ e[2 + 1] = d[1] /\ e[2 + 2] = d[2]
       /\ e[2 + 3] = d[3] /\ e[2 + 4] = d[4] /\ e[2 + 5] = d[5]
  <2>1. /\ Len(e) = 2 + 5 /\ (\A i \in 1..2 : e[i] = a[i]) /\ (\A i \in 1..5 : e[2 + i] = d[i])
    BY <1>4, <1>8, <1>9, <1>10
  <2>2. 1 \in 1..2 /\ 2 \in 1..2 /\ 1 \in 1..5 /\ 2 \in 1..5 /\ 3 \in 1..5 /\ 4 \in 1..5 /\ 5 \in 1..5
    OBVIOUS
  <2>3. 2 + 5 = 7
    OBVIOUS
  <2> QED BY <2>1, <2>2, <2>3, Zenon
<1>12. /\ Len(e) = 7 /\ e[1] = w1 /\ e[2] = w2 /\ e[3] = w3 /\ e[4] = w4
       /\ e[5] = w5 /\ e[6] = w6 /\ e[7] = w7
  BY <1>4, <1>5, <1>8, <1>11
<1>13. e = <<w1, w2>> \o (<<w3>> \o <<w4, w5, w6, w7>>)
  BY <1>1, <1>2, <1>3, <1>6, <1>10, Zenon
<1> QED BY <1>12, <1>13, Zenon

(* The same for a script of four calls.                                    *)
LEMMA JoinFour ==
  ASSUME NEW S, NEW w1 \in S, NEW w2 \in S, NEW w3 \in S, NEW w4 \in S
  PROVE  LET s == <<w1, w2>> \o <<w3, w4>> IN
         Len(s) = 4 /\ s[1] = w1 /\ s[2] = w2 /\ s[3] = w3 /\ s[4] = w4
<1>0. <<w1, w2>> \in Seq(S) /\ <<w3, w4>> \in Seq(S)
  OBVIOUS
<1>1. PICK a \in Seq(S) : a = <<w1, w2>>
  BY <1>0
<1>2. PICK d \in Seq(S) : d = <<w3, w4>>
  BY <1>0
<1>3. Len(a) = 2 /\ a[1] = w1 /\ a[2] = w2 /\ Len(d) = 2 /\ d[1] = w3 /\ d[2] = w4
  BY <1>1, <1>2
<1>4. /\ Len(a \o d) = Len(a) + Len(d) /\ \A i \in 1..Len(a) : (a \o d)[i] = a[i]
      /\ \A i \in 1..Len(d) : (a \o d)[Len(a) + i] = d[i]
  BY JoinElements
<1>5. /\ Len(a \o d) = 4 /\ (a \o d)[1] = a[1] /\ (a \o d)[2] = a[2]
      /\ (a \o d)[2 + 1] = d[1] /\ (a \o d)[2 + 2] = d[2]
  BY <1>3, <1>4
<1>6. a \o d = <<w1, w2>> \o <<w3, w4>>
  BY <1>1, <1>2, Zenon
<1>7. Len(a \o d) = 4 /\ (a \o d)[1] = w1 /\ (a \o d)[2] = w2 /\ (a \o d)[3] = w3 /\ (a \o d)[4] = w4
  BY <1>3, <1>5
<1> QED BY <1>6, <1>7, Zenon

(* The calls of a thread, in the order it makes them.                      *)
LEMMA CallFacts ==
  ASSUME kind \in FourKinds, NEW p \in 1..3, NEW s \in 1..LastStep(kind, p)
  PROVE  /\ Len(Script(p)) = LastStep(kind, p)
         /\ Script(p)[s] = "send" =>
              /\ s < LastStep(kind, p)
              /\ kind = "poll" => s = 1 \/ (p # 1 /\ s = 3)
              /\ kind = "choose" => s = 1 \/ (p = 3 /\ s = 3) \/ (p # 3 /\ s \in {4, 6})
              /\ kind \in {"thread", "fork"} => s = 2
         /\ Script(p)[s] = "recv" =>
              /\ s < LastStep(kind, p)
              /\ kind = "poll" => p # 1 /\ s = 2
              /\ kind = "choose" => s = 2 \/ (p # 3 /\ s = 5)
              /\ kind \in {"thread", "fork"} => s = 1
         /\ Script(p)[s] = "lines" => kind = "poll" /\ p = 1 /\ s = 2
         /\ Script(p)[s] = "fork" => kind = "choose" /\ p # 3 /\ s = 3
         /\ Script(p)[s] = "close" => s = LastStep(kind, p)
         /\ Script(p)[s] = "end" => kind = "choose" /\ p = 3 /\ s = 4
<1>1. CASE kind = "poll" /\ p = 1
  <2>1. Script(p) = <<"send", "lines", "close">>
    BY <1>1 DEF Script, ServiceLines
  <2> QED BY <1>1, <2>1 DEF LastStep
<1>2. CASE kind = "poll" /\ p # 1
  <2>1. Script(p) = <<"send", "recv", "send", "close">>
    BY <1>2 DEF Script, ServiceConvert
  <2> QED BY <1>2, <2>1 DEF LastStep
<1>3. CASE kind \in {"thread", "fork"}
  <2>1. Script(p) = <<"recv", "send", "close">>
    <3>1. kind = "thread" => Script(p) = ServerThread
      BY DEF Script
    <3>2. kind = "fork" => Script(p) = ForkedService
      BY DEF Script
    <3> QED BY <1>3, <3>1, <3>2 DEF ServerThread, ForkedService
  <2> QED BY <1>3, <2>1 DEF LastStep
<1>4. ASSUME kind = "choose"
      PROVE  Script(p) = ChoiceThread \o
                (IF p = 3 THEN <<"send", "end">>
                 ELSE <<"fork">> \o (IF p = 1 THEN ReverseString ELSE SmallToCapital))
  BY <1>4 DEF Script
<1>5. CASE kind = "choose" /\ p = 3
  <2>1. PICK q : q = Script(p)
    OBVIOUS
  <2>2. q = <<"send", "recv">> \o <<"send", "end">>
    BY <1>4, <1>5, <2>1 DEF ChoiceThread
  <2>3. Len(q) = 4 /\ q[1] = "send" /\ q[2] = "recv" /\ q[3] = "send" /\ q[4] = "end"
    BY <2>2, JoinFour DEF Calls
  <2>4. s \in 1..4
    BY <1>5 DEF LastStep
  <2> QED BY <1>5, <2>1, <2>3, <2>4 DEF LastStep
<1>6. CASE kind = "choose" /\ p # 3
  <2>1. PICK q : q = Script(p)
    OBVIOUS
  <2>2. q = <<"send", "recv">> \o (<<"fork">> \o <<"send", "recv", "send", "close">>)
    BY <1>4, <1>6, <2>1 DEF ChoiceThread, ReverseString, SmallToCapital
  <2>3. /\ Len(q) = 7 /\ q[1] = "send" /\ q[2] = "recv" /\ q[3] = "fork" /\ q[4] = "send"
        /\ q[5] = "recv" /\ q[6] = "send" /\ q[7] = "close"
    BY <2>2, JoinSeven DEF Calls
  <2>4. s \in 1..7
    BY <1>6 DEF LastStep
  <2> QED BY <1>6, <2>1, <2>3, <2>4 DEF LastStep
<1> QED BY <1>1, <1>2, <1>3, <1>5, <1>6 DEF FourKinds

(* The calls of a client.                                                  *)
LEMMA ClientFacts ==
  ASSUME kind \in FourKinds, NEW p \in 1..3
  PROVE  /\ Len(ClientScript(p)) = LastCall(kind)
         /\ \A s \in 1..LastCall(kind) :
              /\ ClientScript(p)[s] = "send" =>
                   /\ kind = "poll" => (p = 1 /\ s \in {2, 3}) \/ (p # 1 /\ s = 2)
                   /\ kind = "choose" => s \in {2, 4}
                   /\ kind \in {"thread", "fork"} => s = 1
              /\ ClientScript(p)[s] = "recv" =>
                   /\ kind = "poll" => s = 1 \/ (p # 1 /\ s = 3)
                   /\ kind = "choose" => s \in {1, 3, 5}
                   /\ kind \in {"thread", "fork"} => s = 2
<1>1. CASE kind = "poll"
  <2>1. ClientScript(p) = IF p = 1 THEN <<"recv", "send", "send">> ELSE <<"recv", "send", "recv">>
    BY <1>1 DEF ClientScript, PollClient
  <2> QED BY <1>1, <2>1 DEF LastCall
<1>2. CASE kind = "choose"
  <2>1. ClientScript(p) = <<"recv", "send", "recv", "send", "recv">>
    BY <1>2 DEF ClientScript, ChooseClient
  <2> QED BY <1>2, <2>1 DEF LastCall
<1>3. CASE kind = "thread"
  <2>1. ClientScript(p) = <<"send", "recv">>
    BY <1>3 DEF ClientScript, ThreadClient
  <2> QED BY <1>3, <2>1 DEF LastCall
<1>4. CASE kind = "fork"
  <2>1. ClientScript(p) = <<"send", "recv">>
    BY <1>4 DEF ClientScript, ForkClient
  <2> QED BY <1>4, <2>1 DEF LastCall
<1> QED BY <1>1, <1>2, <1>3, <1>4 DEF FourKinds


(* The entry of a thread, and the client at the other end of the           *)
(* connection it uses.                                                     *)
LEMMA ThreadFacts ==
  ASSUME ThreadCore, NEW t \in Threads
  PROVE  /\ kind \in FourKinds /\ t \in Nat
         /\ thr[t] \in ThreadRec
         /\ thr[t].p \in 1..3 /\ thr[t].mine \in Callers /\ thr[t].fd \in 0..NCallers
         /\ thr[t].sock \in 0..NCallers /\ thr[t].step \in 0..7
         /\ NCallers \in Nat /\ Callers = 1..NCallers
         /\ Behind(t) \in 0..NCallers
         /\ Behind(t) # 0 => /\ Behind(t) \in Callers /\ caller[Behind(t)] > 0
                             /\ want[Behind(t)] \in 1..3 /\ caller[Behind(t)] \in 1..6
<1>1. thr \in Seq(ThreadRec) /\ kind \in FourKinds /\ NCallers \in Nat /\ Callers = 1..NCallers
  BY ThreadConstants DEF ThreadCore, ThreadTypes, FourKinds, Callers
<1>2. thr[t] \in ThreadRec /\ t \in Nat
  BY <1>1 DEF Threads
<1>3. /\ thr[t].p \in 1..3 /\ thr[t].mine \in Callers /\ thr[t].fd \in 0..NCallers
      /\ thr[t].sock \in 0..NCallers /\ thr[t].step \in 0..7
  BY <1>2 DEF ThreadRec
<1>4. thr[t].fd # 0 => thr[t].fd \in Callers /\ fdTable[thr[t].fd] \in 0..NCallers
  BY <1>1, <1>3, SMTT(30) DEF ThreadCore, ThreadTypes
<1>5. Behind(t) \in 0..NCallers
  BY <1>1, <1>3, <1>4 DEF Behind, NoCaller
<1>6. ASSUME Behind(t) # 0
      PROVE  Behind(t) \in Callers /\ caller[Behind(t)] > 0
  <2>1. Behind(t) \in Callers
    BY <1>1, <1>5, <1>6
  <2>2. CASE thr[t].sock # 0
    BY <2>1, <2>2 DEF Behind, NoCaller, ThreadCore, ThreadOK
  <2>3. CASE thr[t].sock = 0
    BY <1>4, <1>6, <2>1, <2>3 DEF Behind, NoCaller, ThreadCore, TableOK
  <2> QED BY <2>1, <2>2, <2>3
<1>7. ASSUME Behind(t) # 0
      PROVE  want[Behind(t)] \in 1..3 /\ caller[Behind(t)] \in 1..6
  <2>1. \A c \in Callers : caller[c] > 0 => want[c] \in 1..3 /\ caller[c] \in 1..6
    BY DEF ThreadCore, ThreadTypes, ClientOK
  <2> QED BY <1>6, <1>7, <2>1
<1> QED BY <1>1, <1>2, <1>3, <1>5, <1>6, <1>7

(* A thread that makes a call is at that call of its script.               *)
LEMMA RunsFacts ==
  ASSUME ThreadCore, NEW t \in Threads, NEW call \in Calls, Runs(t, call)
  PROVE  /\ thr[t].fd # 0 /\ thr[t].fd \in Callers /\ thr[t].step # 0
         /\ thr[t].step \in 1..LastStep(kind, thr[t].p)
         /\ Script(thr[t].p)[thr[t].step] = call
<1>1. /\ thr[t].step \in 0..7 /\ thr[t].p \in 1..3 /\ thr[t].fd \in 0..NCallers /\ Callers = 1..NCallers
      /\ NCallers \in Nat
  BY ThreadFacts
<1>2. thr[t].fd # 0 /\ Call(t) = call
  BY DEF Runs
<1>3. thr[t].step # 0 /\ Script(thr[t].p)[thr[t].step] = call
  BY <1>2 DEF Call, Calls
<1>4. thr[t].step <= LastStep(kind, thr[t].p) /\ LastStep(kind, thr[t].p) \in Nat
  BY DEF ThreadCore, ThreadOK, LastStep
<1> QED BY <1>1, <1>2, <1>3, <1>4

(* A working thread talks to its own client, if there was no race.         *)
LEMMA OwnConnection ==
  ASSUME ThreadCore, Unraced, NEW t \in Threads, thr[t].fd # 0, thr[t].step # 0
  PROVE  Behind(t) = thr[t].mine /\ (thr[t].sock = 0 => fdTable[thr[t].fd] = thr[t].mine)
BY DEF Unraced, Works, HasConn, Behind, NoCaller

(* A step of thread t on its own entry.                                    *)
Moved(t) ==
  /\ thr' \in Seq(ThreadRec) /\ Len(thr') = Len(thr)
  /\ \A u \in Threads : u # t => thr'[u] = thr[u]
  /\ thr'[t].mine = thr[t].mine

(* A step of thread t that gives it the entry r leaves the other entries   *)
(* alone.                                                                  *)
LEMMA MovesTo ==
  ASSUME ThreadCore, NEW t \in Threads, NEW r \in ThreadRec, r.mine = thr[t].mine,
         thr' = [thr EXCEPT ![t] = r]
  PROVE  Moved(t) /\ thr'[t] = r
<1>1. thr \in Seq(ThreadRec)
  BY DEF ThreadCore, ThreadTypes
<1>2. thr' \in Seq(ThreadRec) /\ Len(thr') = Len(thr) /\ thr'[t] = r
  BY <1>1 DEF Threads
<1>3. \A u \in Threads : u # t => thr'[u] = thr[u]
  BY <1>1 DEF Threads
<1> QED BY <1>2, <1>3 DEF Moved

(* The core of the invariant after a step of thread t: only what the       *)
(* thread itself is at can be new.                                         *)
LEMMA ThreadFrame ==
  ASSUME ThreadCore, NEW t \in Threads, Moved(t), ThreadOK(t)',
         UNCHANGED <<kind, ports, shared, caller, want, heard>>,
         fdTable' = fdTable \/ \E f \in Callers : fdTable' = [fdTable EXCEPT ![f] = 0],
         up' \in [Callers -> 0..3], \A c \in Callers : up'[c] <= up[c],
         down' \in [Callers -> Seq(Nat)], \A c \in Callers : caller[c] <= 0 => down'[c] = down[c]
  PROVE  ThreadCore'
<1>1. fdTable' \in [Callers -> 0..NCallers] /\ \A f \in Callers : fdTable'[f] = fdTable[f] \/ fdTable'[f] = 0
  BY ThreadConstants DEF ThreadCore, ThreadTypes
<1>2. ThreadTypes'
  BY <1>1 DEF ThreadCore, ThreadTypes, Moved
<1>3. TableOK'
  BY <1>1 DEF ThreadCore, TableOK, Moved
<1>4. Threads' = Threads /\ \A u \in Threads : thr'[u].mine = thr[u].mine
  BY DEF Threads, Moved
<1>5. MineOK'
  BY <1>4 DEF ThreadCore, MineOK
<1>6. ASSUME NEW c \in Callers
      PROVE  ClientOK(c)'
  <2>1. ClientOK(c) /\ up[c] \in 0..3 /\ up'[c] \in 0..3 /\ up'[c] <= up[c]
    BY DEF ThreadCore, ThreadTypes
  <2> QED BY <2>1 DEF ClientOK
<1>7. ASSUME NEW u \in Threads, u # t
      PROVE  ThreadOK(u)'
  BY <1>7 DEF ThreadCore, ThreadOK, Moved
<1> QED BY <1>2, <1>3, <1>4, <1>5, <1>6, <1>7 DEF ThreadCore

(* The rest of the invariant after such a step, when there was no race:    *)
(* what t sends goes to its own client, and the descriptor that it closes  *)
(* is its own.                                                             *)
LEMMA WorkFrame ==
  ASSUME ThreadCore, Unraced, NEW t \in Threads, NEW c \in Callers, thr[t].mine = c, Moved(t), Works(t)',
         UNCHANGED <<kind, caller, want, heard>>,
         \/ fdTable' = fdTable
         \/ /\ thr[t].fd # 0 /\ fdTable[thr[t].fd] = c
            /\ fdTable' = [fdTable EXCEPT ![thr[t].fd] = 0],
         down' \in [Callers -> Seq(Nat)], \A d \in Callers : d # c => down'[d] = down[d],
         down'[c] = down[c] \/ down'[c] = Append(down[c], t)
  PROVE  Unraced'
<1>1. Threads' = Threads /\ \A u \in Threads : thr'[u].mine = thr[u].mine
  BY DEF Threads, Moved
<1>2. ASSUME NEW u \in Threads, u # t
      PROVE  Works(u)'
  <2>1. Works(u) /\ thr'[u] = thr[u] /\ thr[u].mine # c /\ thr[u].mine \in Callers
    BY <1>2, ThreadFacts DEF Unraced, Moved, ThreadCore, MineOK
  <2>2. HasConn(u)'
    <3>1. ASSUME NEW f \in Callers, fdTable[f] = thr[u].mine
          PROVE  fdTable'[f] = fdTable[f]
      BY <2>1, <3>1 DEF ThreadCore, ThreadTypes
    <3>2. HasConn(u)
      BY <2>1 DEF Works
    <3> QED BY <2>1, <3>1, <3>2 DEF HasConn
  <2>3. ASSUME NEW d \in Callers, thr'[u].mine = d
        PROVE  HasService(u, d)' /\ Awaited(u, d)'
    <3>1. HasService(u, d) /\ Awaited(u, d) /\ down'[d] = down[d] /\ thr'[u] = thr[u]
      BY <2>1, <2>3 DEF Works
    <3>2. HasService(u, d)'
      BY <3>1 DEF HasService
    <3>3. Awaited(u, d)'
      BY <3>1 DEF Awaited
    <3> QED BY <3>2, <3>3
  <2> QED BY <2>2, <2>3 DEF Works
<1>3. ASSUME NEW d \in Callers
      PROVE  Words(d)'
  <2>1. Words(d)
    BY DEF Unraced
  <2>2. \A k \in 1..Len(heard'[d]) : heard'[d][k] \in Threads' /\ thr'[heard'[d][k]].mine = d
    BY <1>1, <2>1 DEF Words
  <2>3. CASE down'[d] = down[d]
    BY <1>1, <2>1, <2>2, <2>3, SMTT(30) DEF Words
  <2>4. CASE d = c /\ down'[d] = Append(down[d], t)
    <3>1. down[d] \in Seq(Nat) /\ t \in Nat
      BY ThreadFacts DEF ThreadCore, ThreadTypes
    <3>2. /\ Len(down'[d]) = Len(down[d]) + 1 /\ Len(down[d]) \in Nat
          /\ down'[d][Len(down[d]) + 1] = t
          /\ \A k \in 1..Len(down[d]) : down'[d][k] = down[d][k]
      BY <2>4, <3>1, AppendElements
    <3>3. \A k \in 1..Len(down'[d]) : k \in 1..Len(down[d]) \/ k = Len(down[d]) + 1
      BY <3>2
    <3>4. \A k \in 1..Len(down'[d]) : down'[d][k] \in Threads /\ thr[down'[d][k]].mine = d
      BY <2>1, <2>4, <3>2, <3>3 DEF Words
    <3> QED BY <1>1, <2>2, <3>4 DEF Words
  <2> QED BY <2>3, <2>4
<1> QED BY <1>1, <1>2, <1>3 DEF Unraced


(* What a thread's step leaves for ThreadFrame to know.                    *)
LEMMA SameData ==
  ASSUME ThreadCore
  PROVE  /\ up \in [Callers -> 0..3] /\ (\A c \in Callers : up[c] <= up[c])
         /\ down \in [Callers -> Seq(Nat)] /\ (\A c \in Callers : caller[c] <= 0 => down[c] = down[c])
<1>1. up \in [Callers -> 0..3] /\ down \in [Callers -> Seq(Nat)]
  BY DEF ThreadCore, ThreadTypes
<1>2. \A c \in Callers : up[c] \in 0..3
  BY <1>1
<1> QED BY <1>1, <1>2

(* The thread reads nsfd through the pointer it was given: it has its own  *)
(* client unless the main thread has overwritten nsfd, which raced         *)
(* records.                                                                *)
LEMMA ReadsNsfd ==
  ASSUME ThreadCore, NEW t \in Threads, ReadNsfd(t)
  PROVE  /\ ThreadCore'
         /\ Unraced /\ fdTable[shared] = thr[t].mine => Unraced'
<1>1. /\ thr[t].fd = 0 /\ thr' = [thr EXCEPT ![t].fd = shared]
      /\ UNCHANGED <<kind, ports, shared, fdTable, caller, want, up, down, heard>>
  BY DEF ReadNsfd
<1>2. shared \in 0..NCallers
  BY DEF ThreadCore, ThreadTypes
<1>3. PICK r : r = [thr[t] EXCEPT !.fd = shared]
  OBVIOUS
<1>4. /\ r \in ThreadRec /\ r.mine = thr[t].mine /\ r.fd = shared /\ r.p = thr[t].p
      /\ r.sock = thr[t].sock /\ r.step = thr[t].step
  BY <1>2, <1>3, ThreadFacts DEF ThreadRec
<1>5. thr' = [thr EXCEPT ![t] = r]
  BY <1>1, <1>3
<1>6. Moved(t) /\ thr'[t] = r
  BY <1>4, <1>5, MovesTo
<1>7. ThreadOK(t)'
  BY <1>1, <1>4, <1>6 DEF ThreadCore, ThreadOK
<1>8. ThreadCore'
  BY <1>1, <1>6, <1>7, SameData, ThreadFrame
<1>9. ASSUME Unraced, fdTable[shared] = thr[t].mine
      PROVE  Unraced'
  <2>1. PICK c \in Callers : thr[t].mine = c
    BY ThreadFacts
  <2>2. Works(t)
    BY <1>9 DEF Unraced
  <2>3. shared \in Callers
    <3>1. kind # "fork" /\ Len(thr) > 0
      BY <1>1 DEF ThreadCore, ThreadTypes, ThreadOK, Threads
    <3> QED BY <1>2, <3>1, ThreadFacts DEF ThreadCore, TableOK
  <2>4. HasConn(t)'
    BY <1>1, <1>4, <1>6, <1>9, <2>2, <2>3 DEF Works, HasConn
  <2>5. HasService(t, c)' /\ Awaited(t, c)'
    BY <1>1, <1>4, <1>6, <2>1, <2>2 DEF Works, HasService, Awaited
  <2>6. Works(t)'
    BY <1>4, <1>6, <2>1, <2>4, <2>5 DEF Works
  <2>7. /\ down' \in [Callers -> Seq(Nat)] /\ down'[c] = down[c]
        /\ \A d \in Callers : d # c => down'[d] = down[d]
    BY <1>1, SameData
  <2> QED BY <1>1, <1>6, <1>9, <2>1, <2>6, <2>7, WorkFrame
<1> QED BY <1>8, <1>9

(* The steps of thread t that go on, with service q, or stop.              *)
LEMMA GoesTo ==
  ASSUME ThreadCore, NEW t \in Threads, NEW q \in 1..3, NEW n \in 0..7,
         thr' = [thr EXCEPT ![t].p = q, ![t].step = n]
  PROVE  /\ Moved(t)
         /\ thr'[t].p = q /\ thr'[t].step = n /\ thr'[t].fd = thr[t].fd
         /\ thr'[t].sock = thr[t].sock /\ thr'[t].mine = thr[t].mine
<1>1. PICK r : r = [thr[t] EXCEPT !.p = q, !.step = n]
  OBVIOUS
<1>2. /\ r \in ThreadRec /\ r.mine = thr[t].mine /\ r.fd = thr[t].fd /\ r.p = q
      /\ r.sock = thr[t].sock /\ r.step = n
  BY <1>1, ThreadFacts DEF ThreadRec
<1>3. thr' = [thr EXCEPT ![t] = r]
  BY <1>1, ThreadFacts DEF ThreadCore, ThreadTypes, ThreadRec, Threads
<1> QED BY <1>2, <1>3, MovesTo

(* The same for a step that stays with its service.                        *)
LEMMA StepsTo ==
  ASSUME ThreadCore, NEW t \in Threads, NEW n \in 0..7, thr' = [thr EXCEPT ![t].step = n]
  PROVE  /\ Moved(t)
         /\ thr'[t].p = thr[t].p /\ thr'[t].step = n /\ thr'[t].fd = thr[t].fd
         /\ thr'[t].sock = thr[t].sock /\ thr'[t].mine = thr[t].mine
<1>1. PICK r : r = [thr[t] EXCEPT !.step = n]
  OBVIOUS
<1>2. /\ r \in ThreadRec /\ r.mine = thr[t].mine /\ r.fd = thr[t].fd /\ r.p = thr[t].p
      /\ r.sock = thr[t].sock /\ r.step = n
  BY <1>1, ThreadFacts DEF ThreadRec
<1>3. thr' = [thr EXCEPT ![t] = r]
  BY <1>1
<1> QED BY <1>2, <1>3, MovesTo

(* close(nsfd).                                                            *)
LEMMA ClosesConn ==
  ASSUME ThreadCore, NEW t \in Threads, CloseConn(t)
  PROVE  ThreadCore' /\ (Unraced => Unraced')
<1>1. /\ thr' = [thr EXCEPT ![t].step = 0]
      /\ UNCHANGED <<kind, ports, shared, caller, want, up, down, heard>>
  BY DEF CloseConn, Stop
<1>2. PICK call \in {"close", "end"} : Runs(t, call)
  BY DEF CloseConn
<1>3. /\ thr[t].fd # 0 /\ thr[t].fd \in Callers /\ thr[t].step # 0
      /\ thr[t].step \in 1..LastStep(kind, thr[t].p)
      /\ Script(thr[t].p)[thr[t].step] = call
  BY <1>2, RunsFacts DEF Calls
<1>4. /\ Moved(t)
      /\ thr'[t].p = thr[t].p /\ thr'[t].step = 0 /\ thr'[t].fd = thr[t].fd
      /\ thr'[t].sock = thr[t].sock /\ thr'[t].mine = thr[t].mine
  <2>1. PICK n \in 0..7 : n = 0
    OBVIOUS
  <2> QED BY <1>1, <2>1, StepsTo
<1>5. \/ fdTable' = fdTable
      \/ thr[t].sock = 0 /\ fdTable' = [fdTable EXCEPT ![thr[t].fd] = 0]
  BY DEF CloseConn, ClosedFd, NoCaller
<1>6. ThreadOK(t)'
  BY <1>1, <1>4 DEF ThreadCore, ThreadOK, LastStep
<1>7. fdTable' = fdTable \/ \E f \in Callers : fdTable' = [fdTable EXCEPT ![f] = 0]
  BY <1>3, <1>5
<1>8. ThreadCore'
  BY <1>1, <1>4, <1>6, <1>7, SameData, ThreadFrame
<1>9. ASSUME Unraced
      PROVE  Unraced'
  <2>1. PICK c \in Callers : thr[t].mine = c
    BY ThreadFacts
  <2>2. Works(t) /\ (thr[t].sock = 0 => fdTable[thr[t].fd] = c)
    BY <1>3, <1>9, <2>1, OwnConnection DEF Unraced
  <2>3. kind = "choose" => thr[t].step \notin {1, 2}
    BY <1>2, <1>3, CallFacts, ThreadFacts, SMTT(30) DEF LastStep
  <2>4. HasConn(t)'
    BY <1>4 DEF HasConn
  <2>5. HasService(t, c)' /\ Awaited(t, c)'
    <3>1. HasService(t, c)
      BY <2>1, <2>2 DEF Works
    <3>2. HasService(t, c)'
      <4>1. kind' = kind /\ want' = want /\ thr'[t].p = thr[t].p /\ thr'[t].step = 0
        BY <1>1, <1>4
      <4>2. kind = "poll" => thr[t].p = want[c]
        BY <3>1 DEF HasService
      <4>3. kind = "choose" => thr[t].p = want[c]
        BY <2>3, <3>1 DEF HasService
      <4> QED BY <4>1, <4>2, <4>3 DEF HasService
    <3>3. Awaited(t, c)'
      BY <1>4 DEF Awaited
    <3> QED BY <3>2, <3>3
  <2>6. Works(t)'
    BY <1>4, <2>1, <2>4, <2>5 DEF Works
  <2>7. /\ down' \in [Callers -> Seq(Nat)] /\ down'[c] = down[c]
        /\ \A d \in Callers : d # c => down'[d] = down[d]
    BY <1>1, SameData
  <2>8. \/ fdTable' = fdTable
        \/ /\ thr[t].fd # 0 /\ fdTable[thr[t].fd] = c
           /\ fdTable' = [fdTable EXCEPT ![thr[t].fd] = 0]
    BY <1>3, <1>5, <2>2
  <2> QED BY <1>1, <1>4, <1>9, <2>1, <2>6, <2>7, <2>8, WorkFrame
<1> QED BY <1>8, <1>9


(* The entry of t differs in its step only.                                *)
At(t, n) ==
  /\ Moved(t)
  /\ thr'[t].p = thr[t].p /\ thr'[t].step = n /\ thr'[t].fd = thr[t].fd
  /\ thr'[t].sock = thr[t].sock /\ thr'[t].mine = thr[t].mine

(* Go and Stop in terms of At.                                             *)
LEMMA GoesOn ==
  ASSUME ThreadCore, NEW t \in Threads, thr[t].step <= 6, Go(t)
  PROVE  At(t, thr[t].step + 1)
<1>1. PICK n \in 0..7 : n = thr[t].step + 1
  BY ThreadFacts, SMTT(30)
<1>2. thr' = [thr EXCEPT ![t].step = n]
  BY <1>1 DEF Go
<1> QED BY <1>1, <1>2, StepsTo DEF At

(* A thread that returns is at step 0.                                     *)
LEMMA Stops ==
  ASSUME ThreadCore, NEW t \in Threads, Stop(t)
  PROVE  At(t, 0)
<1>1. PICK n \in 0..7 : n = 0
  OBVIOUS
<1>2. thr' = [thr EXCEPT ![t].step = n]
  BY <1>1 DEF Stop
<1> QED BY <1>1, <1>2, StepsTo DEF At

(* fork and exec: the child keeps the connection in its sock.              *)
LEMMA ForksService ==
  ASSUME ThreadCore, NEW t \in Threads, ForkService(t)
  PROVE  ThreadCore' /\ (Unraced => Unraced')
<1>1. /\ Runs(t, "fork")
      /\ fdTable' = [fdTable EXCEPT ![thr[t].fd] = 0]
      /\ UNCHANGED <<kind, ports, shared, caller, want, up, down, heard>>
  BY DEF ForkService, NoCaller
<1>2. /\ thr[t].fd # 0 /\ thr[t].fd \in Callers /\ thr[t].step # 0
      /\ thr[t].step \in 1..LastStep(kind, thr[t].p)
      /\ Script(thr[t].p)[thr[t].step] = "fork"
  BY <1>1, RunsFacts DEF Calls
<1>3. kind = "choose" /\ thr[t].p # 3 /\ thr[t].step = 3
  BY <1>2, CallFacts, ThreadFacts
<1>4. thr[t].sock = 0
  BY <1>3 DEF ThreadCore, ThreadOK
<1>5. PICK b \in 0..NCallers : b = Behind(t)
  BY ThreadFacts
<1>6. b # 0 => b \in Callers /\ caller[b] > 0
  BY <1>5, ThreadFacts
<1>7. PICK n \in 0..7 : n = IF b = 0 THEN 0 ELSE 4
  OBVIOUS
<1>8. PICK r : r = [thr[t] EXCEPT !.sock = b, !.step = n]
  OBVIOUS
<1>9. /\ r \in ThreadRec /\ r.mine = thr[t].mine /\ r.fd = thr[t].fd /\ r.p = thr[t].p
      /\ r.sock = b /\ r.step = n
  BY <1>8, ThreadFacts DEF ThreadRec
<1>10. thr' = [thr EXCEPT ![t] = r]
  <2>1. thr' = [thr EXCEPT ![t].sock = b, ![t].step = n]
    BY <1>3, <1>5, <1>7 DEF ForkService, NoCaller
  <2> QED BY <1>8, <2>1, ThreadFacts DEF ThreadCore, ThreadTypes, ThreadRec, Threads
<1>11. Moved(t) /\ thr'[t] = r
  BY <1>9, <1>10, MovesTo
<1>12. ThreadOK(t)'
  BY <1>1, <1>3, <1>6, <1>7, <1>9, <1>11 DEF ThreadCore, ThreadOK, LastStep
<1>13. fdTable' = fdTable \/ \E f \in Callers : fdTable' = [fdTable EXCEPT ![f] = 0]
  BY <1>1, <1>2
<1>14. ThreadCore'
  BY <1>1, <1>11, <1>12, <1>13, SameData, ThreadFrame
<1>15. ASSUME Unraced
       PROVE  Unraced'
  <2>1. PICK c \in Callers : thr[t].mine = c
    BY ThreadFacts
  <2>2. Works(t) /\ fdTable[thr[t].fd] = c /\ b = c
    BY <1>2, <1>4, <1>5, <1>15, <2>1, OwnConnection DEF Unraced
  <2>3. b # 0 /\ n = 4
    BY <1>7, <2>2, ThreadFacts
  <2>4. HasConn(t)'
    BY <1>9, <1>11, <2>1, <2>2, <2>3 DEF HasConn
  <2>5. thr[t].p = want[c]
    <3>1. HasService(t, c)
      BY <2>1, <2>2 DEF Works
    <3>2. kind = "choose" /\ thr[t].step \notin {1, 2}
      BY <1>3
    <3> QED BY <3>1, <3>2, Zenon DEF HasService
  <2>6. HasService(t, c)'
    <3>1. kind' = "choose" /\ thr'[t].p = want'[c] /\ thr'[t].step = 4
      BY <1>1, <1>3, <1>9, <1>11, <2>3, <2>5
    <3> QED BY <3>1 DEF HasService
  <2>7. Awaited(t, c)'
    BY <1>1, <1>3, <1>9, <1>11, <2>3 DEF Awaited
  <2>8. Works(t)'
    BY <1>9, <1>11, <2>1, <2>4, <2>6, <2>7 DEF Works
  <2>9. /\ down' \in [Callers -> Seq(Nat)] /\ down'[c] = down[c]
        /\ \A d \in Callers : d # c => down'[d] = down[d]
    BY <1>1, SameData
  <2> QED BY <1>1, <1>2, <1>11, <1>15, <2>1, <2>2, <2>8, <2>9, WorkFrame
<1> QED BY <1>14, <1>15

(* "lines": the thread of the first port receives until its client is done. *)
LEMMA ReceivesLines ==
  ASSUME ThreadCore, NEW t \in Threads, RecvLines(t)
  PROVE  ThreadCore' /\ (Unraced => Unraced')
<1>1. /\ Runs(t, "lines")
      /\ UNCHANGED <<kind, ports, shared, fdTable, caller, want, down, heard>>
  BY DEF RecvLines
<1>2. /\ thr[t].fd # 0 /\ thr[t].fd \in Callers /\ thr[t].step # 0
      /\ thr[t].step \in 1..LastStep(kind, thr[t].p)
      /\ Script(thr[t].p)[thr[t].step] = "lines"
  BY <1>1, RunsFacts DEF Calls
<1>3. kind = "poll" /\ thr[t].p = 1 /\ thr[t].step = 2
  BY <1>2, CallFacts, ThreadFacts
<1>4. PICK b \in 0..NCallers : b = Behind(t)
  BY ThreadFacts
<1>5. b # 0 => b \in Callers
  BY <1>4, ThreadFacts
<1>6. up' \in [Callers -> 0..3] /\ \A c \in Callers : up'[c] <= up[c]
  <2>1. up \in [Callers -> 0..3]
    BY DEF ThreadCore, ThreadTypes
  <2>2. CASE up' = up
    BY <2>1, <2>2
  <2>3. CASE b # 0 /\ \E n \in 1..up[b] : up' = [up EXCEPT ![b] = @ - n]
    <3>1. PICK n \in 1..up[b] : up' = [up EXCEPT ![b] = up[b] - n]
      BY <2>3
    <3>2. up[b] \in 0..3 /\ up[b] - n \in 0..3 /\ up[b] - n <= up[b]
      BY <1>5, <2>1, <2>3
    <3>3. up' \in [Callers -> 0..3]
      BY <2>1, <3>1, <3>2
    <3>4. ASSUME NEW c \in Callers
          PROVE  up'[c] <= up[c]
      BY <2>1, <3>1, <3>2
    <3> QED BY <3>3, <3>4
  <2> QED BY <1>4, <2>2, <2>3 DEF RecvLines, NoCaller
<1>7. thr' = thr \/ Go(t)
  BY DEF RecvLines
<1>8. At(t, 2) \/ At(t, 3)
  <2>1. CASE thr' = thr
    BY <1>3, <2>1 DEF At, Moved, ThreadCore, ThreadTypes
  <2>2. CASE Go(t)
    BY <1>3, <2>2, GoesOn
  <2> QED BY <1>7, <2>1, <2>2
<1>9. Moved(t)
  BY <1>8 DEF At
<1>10. ThreadOK(t)'
  BY <1>1, <1>3, <1>8 DEF At, ThreadCore, ThreadOK, LastStep
<1>11. ThreadCore'
  BY <1>1, <1>6, <1>9, <1>10, SameData, ThreadFrame
<1>12. ASSUME Unraced
       PROVE  Unraced'
  <2>1. PICK c \in Callers : thr[t].mine = c
    BY ThreadFacts
  <2>2. Works(t)
    BY <1>12 DEF Unraced
  <2>3. HasConn(t)'
    BY <1>1, <1>3, <1>8, <2>2 DEF At, Works, HasConn
  <2>4. HasService(t, c)
    BY <2>1, <2>2 DEF Works
  <2>5. HasService(t, c)'
    BY <1>1, <1>3, <1>8, <2>4 DEF At, HasService
  <2>6. Awaited(t, c)'
    BY <1>1, <1>3, <1>8 DEF At, Awaited
  <2>7. Works(t)'
    BY <1>8, <2>1, <2>3, <2>5, <2>6 DEF At, Works
  <2>8. /\ down' \in [Callers -> Seq(Nat)] /\ down'[c] = down[c]
        /\ \A d \in Callers : d # c => down'[d] = down[d]
    BY <1>1, SameData
  <2> QED BY <1>1, <1>9, <1>12, <2>1, <2>7, <2>8, WorkFrame
<1> QED BY <1>11, <1>12


(* The parts of Works(t)' for a thread that has asked, or works for good.  *)
LEMMA SocketWorks ==
  ASSUME ThreadCore, Unraced, NEW t \in Threads, NEW c \in Callers, thr[t].mine = c,
         thr[t].step # 0, thr[t].sock # 0, UNCHANGED <<kind, want>>,
         At(t, thr[t].step + 1) \/ At(t, 0)
  PROVE  Works(t)'
<1>1. HasConn(t) /\ HasService(t, c) /\ ThreadOK(t) /\ thr[t].step \in 0..7 /\ kind \in FourKinds
  BY ThreadFacts DEF Unraced, Works, ThreadCore
<1>2. kind # "poll" /\ kind # "thread" /\ (kind = "choose" => thr[t].step >= 4)
  BY <1>1 DEF ThreadOK
<1>3. thr[t].step \notin {1, 2} => (kind = "choose" => thr[t].p = want[c])
  BY <1>1, Zenon DEF HasService
<1>4. PICK n \in Int : thr'[t].step = n /\ (n = 0 \/ n = thr[t].step + 1)
  BY <1>1 DEF At
<1>5. thr'[t].p = thr[t].p /\ thr'[t].sock = thr[t].sock /\ thr'[t].mine = c
  BY DEF At
<1>6. HasConn(t)'
  BY <1>1, <1>5 DEF HasConn
<1>7. kind = "choose" => thr[t].p = want[c] /\ n \notin {1, 2, 3}
  BY <1>1, <1>2, <1>3, <1>4
<1>8. HasService(t, c)'
  <2>1. /\ kind' # "poll" /\ (kind' = "choose" => thr'[t].p = want'[c])
        /\ kind' = "choose" => thr'[t].step \notin {2, 3}
    BY <1>2, <1>4, <1>5, <1>7
  <2> QED BY <2>1, Zenon DEF HasService
<1>9. Awaited(t, c)'
  <2>1. kind' # "poll" /\ kind' # "thread" /\ (kind' = "choose" => thr'[t].step # 1 /\ thr'[t].step \notin {2, 3})
    BY <1>2, <1>4, <1>7
  <2> QED BY <2>1 DEF Awaited
<1> QED BY <1>5, <1>6, <1>8, <1>9 DEF Works

(* A thread that has still to answer has a client that waits.              *)
LEMMA ClientWaits ==
  ASSUME ThreadCore, Unraced, NEW t \in Threads, Runs(t, "send"), thr[t].sock = 0,
         NEW c \in Callers, thr[t].mine = c
  PROVE  ~Finished(c)
<1>1. /\ thr[t].step \in 1..LastStep(kind, thr[t].p) /\ Script(thr[t].p)[thr[t].step] = "send"
      /\ kind \in FourKinds /\ thr[t].p \in 1..3
  BY RunsFacts, ThreadFacts DEF Calls
<1>2. Awaited(t, c) /\ ThreadOK(t) /\ ClientOK(c) /\ caller[c] \in -1..6 /\ want[c] \in 0..3
  BY DEF Unraced, Works, ThreadCore, ThreadTypes
<1>3. caller[c] > 0 => Len(ClientScript(want[c])) = LastCall(kind)
  BY <1>1, <1>2, ClientFacts DEF ClientOK
<1>4. kind # "fork"
  BY <1>2, ThreadFacts DEF ThreadOK
<1>5. caller[c] <= LastCall(kind)
  <2>1. CASE kind = "poll"
    <3>1. thr[t].step = 1 \/ (thr[t].p # 1 /\ thr[t].step = 3)
      BY <1>1, <2>1, CallFacts
    <3> QED BY <1>2, <2>1, <3>1 DEF Awaited, LastCall
  <2>2. CASE kind = "choose"
    <3>1. thr[t].step = 1 \/ thr[t].step = 3
      <4>1. thr[t].step = 1 \/ (thr[t].p = 3 /\ thr[t].step = 3) \/ (thr[t].p # 3 /\ thr[t].step \in {4, 6})
        BY <1>1, <2>2, CallFacts
      <4> QED BY <1>2, <2>2, <4>1 DEF ThreadOK
    <3> QED BY <1>2, <2>2, <3>1 DEF Awaited, LastCall
  <2>3. CASE kind = "thread"
    <3>1. thr[t].step = 2
      BY <1>1, <2>3, CallFacts
    <3> QED BY <1>2, <2>3, <3>1 DEF Awaited, LastCall
  <2> QED BY <1>1, <1>4, <2>1, <2>2, <2>3 DEF FourKinds
<1> QED BY <1>2, <1>3, <1>5 DEF Finished, Connected, LastCall

(* send: without a race the connection is open and the client has not      *)
(* left, so that the process is not killed by SIGPIPE.                     *)
LEMMA SendsMsg ==
  ASSUME ThreadCore, NEW t \in Threads, SendMsg(t)
  PROVE  ThreadCore' /\ (Unraced => Unraced' /\ dead' = dead)
<1>1. /\ Runs(t, "send")
      /\ UNCHANGED <<kind, ports, shared, fdTable, caller, want, up, heard>>
  BY DEF SendMsg
<1>2. /\ thr[t].fd # 0 /\ thr[t].fd \in Callers /\ thr[t].step # 0
      /\ thr[t].step \in 1..LastStep(kind, thr[t].p)
      /\ Script(thr[t].p)[thr[t].step] = "send"
      /\ kind \in FourKinds /\ thr[t].p \in 1..3 /\ thr[t].step \in 0..7 /\ t \in Nat
  BY <1>1, RunsFacts, ThreadFacts DEF Calls
<1>3. /\ thr[t].step < LastStep(kind, thr[t].p)
      /\ kind = "poll" => thr[t].step = 1 \/ (thr[t].p # 1 /\ thr[t].step = 3)
      /\ kind = "choose" => \/ thr[t].step = 1 \/ (thr[t].p = 3 /\ thr[t].step = 3)
                            \/ (thr[t].p # 3 /\ thr[t].step \in {4, 6})
      /\ kind \in {"thread", "fork"} => thr[t].step = 2
  BY <1>2, CallFacts
<1>4. thr[t].step <= 6
  BY <1>2, <1>3 DEF LastStep
<1>5. PICK b \in 0..NCallers : b = Behind(t)
  BY ThreadFacts
<1>6. b # 0 => b \in Callers /\ caller[b] > 0 /\ down[b] \in Seq(Nat)
  BY <1>5, ThreadFacts DEF ThreadCore, ThreadTypes
<1>7. \/ b = 0 /\ Go(t) /\ UNCHANGED down /\ dead' = dead
      \/ b # 0 /\ Finished(b) /\ UNCHANGED down /\ Go(t) /\ dead' = dead
      \/ b # 0 /\ Finished(b) /\ UNCHANGED down /\ thr[t].sock # 0 /\ Stop(t) /\ dead' = dead
      \/ b # 0 /\ Finished(b) /\ UNCHANGED down /\ thr[t].sock = 0 /\ UNCHANGED thr
      \/ b # 0 /\ ~Finished(b) /\ down' = [down EXCEPT ![b] = Append(@, t)] /\ Go(t) /\ dead' = dead
  BY <1>5, Zenon DEF SendMsg, NoCaller
<1>8. \/ At(t, thr[t].step + 1)
      \/ thr[t].sock # 0 /\ At(t, 0)
      \/ thr[t].sock = 0 /\ b # 0 /\ Finished(b) /\ UNCHANGED thr
  BY <1>4, <1>7, GoesOn, Stops
<1>9. Moved(t)
  <2>1. UNCHANGED thr => Moved(t)
    BY DEF Moved, ThreadCore, ThreadTypes
  <2> QED BY <1>8, <2>1 DEF At
<1>10. ThreadOK(t)'
  <2>1. ThreadOK(t)
    BY DEF ThreadCore
  <2>2. CASE UNCHANGED thr
    BY <1>1, <2>1, <2>2 DEF ThreadOK
  <2>3. CASE At(t, 0) /\ thr[t].sock # 0
    BY <1>1, <2>1, <2>3 DEF At, ThreadOK, LastStep
  <2>4. CASE At(t, thr[t].step + 1)
    BY <1>1, <1>2, <1>3, <2>1, <2>4 DEF At, ThreadOK, LastStep
  <2> QED BY <1>8, <2>2, <2>3, <2>4
<1>11. /\ down' \in [Callers -> Seq(Nat)]
       /\ \A d \in Callers : d # b => down'[d] = down[d]
       /\ b # 0 => down'[b] = down[b] \/ down'[b] = Append(down[b], t)
  <2>1. down \in [Callers -> Seq(Nat)]
    BY DEF ThreadCore, ThreadTypes
  <2>2. CASE UNCHANGED down
    BY <2>1, <2>2
  <2>3. CASE b # 0 /\ down' = [down EXCEPT ![b] = Append(@, t)]
    <3>1. Append(down[b], t) \in Seq(Nat) /\ b \in Callers
      BY <1>2, <1>6, <2>3, AppendElements
    <3> QED BY <2>1, <2>3, <3>1
  <2> QED BY <1>7, <2>2, <2>3
<1>12. \A d \in Callers : caller[d] <= 0 => down'[d] = down[d]
  <2>1. TAKE d \in Callers
  <2>2. CASE d = b
    <3>1. caller[d] > 0 /\ caller[d] \in -1..6
      BY <1>6, <2>2, ThreadConstants DEF Callers, ThreadCore, ThreadTypes
    <3> QED BY <3>1
  <2>3. CASE d # b
    BY <1>11, <2>3
  <2> QED BY <2>2, <2>3
<1>13. ThreadCore'
  BY <1>1, <1>9, <1>10, <1>11, <1>12, SameData, ThreadFrame
<1>14. ASSUME Unraced
       PROVE  Unraced' /\ dead' = dead
  <2>1. PICK c \in Callers : thr[t].mine = c
    BY ThreadFacts
  <2>2. b = c /\ b # 0
    BY <1>2, <1>5, <1>14, <2>1, OwnConnection, ThreadFacts
  <2>3. thr[t].sock = 0 => ~Finished(b)
    BY <1>1, <1>14, <2>1, <2>2, ClientWaits
  <2>4. dead' = dead
    BY <1>7, <2>2, <2>3, Zenon
  <2>5. /\ HasConn(t) /\ HasService(t, c) /\ Awaited(t, c) /\ ThreadOK(t)
        /\ down[c] \in Seq(Nat) /\ heard[c] \in Seq(Nat)
    BY <1>14, <2>1 DEF Unraced, Works, ThreadCore, ThreadTypes
  <2>6. Works(t)'
    <3>1. CASE thr[t].sock # 0
      <4>1. At(t, thr[t].step + 1) \/ At(t, 0)
        BY <1>8, <3>1
      <4> QED BY <1>1, <1>2, <1>14, <2>1, <3>1, <4>1, SocketWorks
    <3>2. CASE thr[t].sock = 0
      <4>1. At(t, thr[t].step + 1) /\ down' = [down EXCEPT ![c] = Append(@, t)]
        BY <1>7, <1>8, <2>2, <2>3, <3>2, Zenon
      <4>2. down'[c] = Append(down[c], t)
        BY <4>1, SameData
      <4>3. HasConn(t)'
        BY <1>1, <1>2, <2>5, <4>1 DEF At, HasConn
      <4>4. kind # "fork" /\ (kind = "choose" => thr[t].step = 1 \/ (thr[t].p = 3 /\ thr[t].step = 3))
        BY <1>3, <2>5, <3>2, ThreadFacts DEF ThreadOK
      <4>5. kind \in {"poll", "choose"} /\ thr[t].step = 1 =>
              Len(heard[c]) = 0 /\ Len(down'[c]) = 1 /\ caller[c] = 1
        BY <2>5, <4>2, OneElement DEF Awaited
      <4>6. PICK n \in Int : n = thr[t].step + 1 /\ thr'[t].step = n
        BY <1>2, <4>1 DEF At
      <4>7. HasService(t, c)'
        <5>1. kind = "poll" => thr'[t].p = want[c]
          BY <2>5, <4>1 DEF HasService, At
        <5>2. CASE kind = "choose" /\ thr[t].step = 1
          <6>1. kind' = "choose" /\ n = 2 /\ heard' = heard
            BY <1>1, <4>6, <5>2
          <6>2. /\ kind' # "poll" /\ thr'[t].step \in {1, 2}
                /\ Len(heard'[c]) + Len(down'[c]) <= 1
            <7>1. Len(heard'[c]) = 0 /\ Len(down'[c]) = 1
              BY <4>5, <5>2, <6>1
            <7>2. kind' # "poll" /\ thr'[t].step \in {1, 2}
              BY <4>6, <6>1
            <7> QED BY <7>1, <7>2
          <6> QED BY <6>2, Zenon DEF HasService
        <5>3. CASE kind = "choose" /\ thr[t].step = 3
          <6>1. thr[t].p = want[c]
            <7>1. thr[t].step \notin {1, 2}
              BY <5>3
            <7> QED BY <2>5, <5>3, <7>1, Zenon DEF HasService
          <6>2. kind' = "choose" /\ n = 4 /\ thr'[t].p = want'[c]
            BY <1>1, <4>1, <4>6, <5>3, <6>1 DEF At
          <6>3. kind' # "poll" /\ thr'[t].step \notin {2, 3}
            BY <4>6, <6>2
          <6> QED BY <6>2, <6>3, Zenon DEF HasService
        <5>4. CASE kind # "choose"
          <6>1. kind' # "choose" /\ (kind' = "poll" => thr'[t].p = want'[c])
            BY <1>1, <5>1, <5>4
          <6> QED BY <6>1, Zenon DEF HasService
        <5> QED BY <4>4, <5>2, <5>3, <5>4
      <4>8. Awaited(t, c)'
        <5>1. CASE kind \in {"poll", "choose"} /\ thr[t].step = 1
          <6>1. /\ kind' \in {"poll", "choose"} /\ thr'[t].step = 2 /\ caller'[c] = 1
                /\ Len(down'[c]) = 1
            BY <1>1, <4>5, <4>6, <5>1
          <6> QED BY <6>1 DEF Awaited
        <5>2. CASE kind \in {"poll", "choose"} /\ thr[t].step # 1
          <6>1. kind' \in {"poll", "choose"} /\ thr'[t].step = 4
            BY <1>1, <1>3, <4>4, <4>6, <5>2
          <6> QED BY <6>1 DEF Awaited
        <5>3. CASE kind = "thread"
          <6>1. kind' = "thread" /\ thr'[t].step = 3
            BY <1>1, <1>3, <4>6, <5>3
          <6> QED BY <6>1 DEF Awaited
        <5> QED BY <1>2, <4>4, <5>1, <5>2, <5>3 DEF FourKinds
      <4>9. thr'[t].mine = c
        BY <2>1, <4>1 DEF At
      <4> QED BY <4>3, <4>7, <4>8, <4>9 DEF Works
    <3> QED BY <3>1, <3>2
  <2> QED BY <1>1, <1>9, <1>11, <1>14, <2>1, <2>2, <2>4, <2>6, WorkFrame
<1> QED BY <1>13, <1>14


(* The entry of t after it received: its service and its step.             *)
To(t, q, n) ==
  /\ Moved(t)
  /\ thr'[t].p = q /\ thr'[t].step = n /\ thr'[t].fd = thr[t].fd
  /\ thr'[t].sock = thr[t].sock /\ thr'[t].mine = thr[t].mine

(* Where a receive can leave a thread: with the client's answer, or with   *)
(* end of file.                                                            *)
LEMMA Receives ==
  ASSUME ThreadCore, NEW t \in Threads, RecvMsg(t), NEW b \in 0..NCallers, b = Behind(t),
         thr[t].step <= 6
  PROVE  \E q \in 1..3, n \in 0..7 :
           /\ To(t, q, n)
           /\ n = thr[t].step + 1 \/ (n = 0 /\ b = 0 /\ kind \notin {"choose", "poll"} /\ q = thr[t].p)
           /\ q = thr[t].p \/ (b = 0 /\ kind = "choose") \/ (b # 0 /\ kind = "choose" /\ thr[t].step = 2)
           /\ b # 0 /\ kind = "choose" /\ thr[t].step = 2 => q = want[b] \/ Finished(b)
<1>1. PICK m \in 0..7 : m = thr[t].step + 1
  BY ThreadFacts, SMTT(30)
<1>2. /\ thr[t].p \in 1..3 /\ kind \in FourKinds
      /\ b # 0 => want[b] \in 1..3
  BY ThreadFacts
<1>3. \/ b = 0 /\ kind = "choose" /\ \E q \in Services : thr' = [thr EXCEPT ![t].p = q, ![t].step = @ + 1]
      \/ b = 0 /\ kind = "poll" /\ Go(t)
      \/ b = 0 /\ kind \notin {"choose", "poll"} /\ Stop(t)
      \/ b # 0 /\ thr' = [thr EXCEPT ![t].p = IF kind = "choose" /\ thr[t].step = 2 THEN want[b] ELSE @,
                                     ![t].step = @ + 1]
      \/ b # 0 /\ Finished(b) /\ Go(t)
  BY DEF RecvMsg, NoCaller
<1>4. CASE b = 0 /\ kind = "choose" /\ \E q \in Services : thr' = [thr EXCEPT ![t].p = q, ![t].step = @ + 1]
  <2>1. PICK q \in Services : thr' = [thr EXCEPT ![t].p = q, ![t].step = m]
    BY <1>1, <1>4
  <2>2. q \in 1..3
    BY ThreadConstants DEF Services
  <2>3. To(t, q, m)
    BY <2>1, <2>2, GoesTo DEF To
  <2> QED BY <1>1, <1>4, <2>2, <2>3
<1>5. CASE Go(t) /\ ((b = 0 /\ kind = "poll") \/ (b # 0 /\ Finished(b)))
  <2>1. To(t, thr[t].p, m)
    BY <1>1, <1>5, GoesOn DEF At, To
  <2> QED BY <1>1, <1>2, <1>5, <2>1
<1>6. CASE b = 0 /\ kind \notin {"choose", "poll"} /\ Stop(t)
  <2>1. To(t, thr[t].p, 0)
    BY <1>6, Stops DEF At, To
  <2> QED BY <1>2, <1>6, <2>1
<1>7. CASE b # 0 /\ thr' = [thr EXCEPT ![t].p = IF kind = "choose" /\ thr[t].step = 2 THEN want[b] ELSE @,
                                       ![t].step = @ + 1]
  <2>1. PICK q \in 1..3 : q = IF kind = "choose" /\ thr[t].step = 2 THEN want[b] ELSE thr[t].p
    BY <1>2, <1>7
  <2>2. thr' = [thr EXCEPT ![t].p = q, ![t].step = m]
    BY <1>1, <1>7, <2>1
  <2>3. To(t, q, m)
    BY <2>2, GoesTo DEF To
  <2> QED BY <1>1, <1>7, <2>1, <2>3
<1> QED BY <1>3, <1>4, <1>5, <1>6, <1>7

(* recv.                                                                   *)
LEMMA ReceivesMsg ==
  ASSUME ThreadCore, NEW t \in Threads, RecvMsg(t)
  PROVE  ThreadCore' /\ (Unraced => Unraced')
<1>1. /\ Runs(t, "recv")
      /\ UNCHANGED <<kind, ports, shared, fdTable, caller, want, down, heard>>
  BY DEF RecvMsg
<1>2. /\ thr[t].fd # 0 /\ thr[t].fd \in Callers /\ thr[t].step # 0
      /\ thr[t].step \in 1..LastStep(kind, thr[t].p)
      /\ Script(thr[t].p)[thr[t].step] = "recv"
      /\ kind \in FourKinds /\ thr[t].p \in 1..3 /\ thr[t].step \in 0..7 /\ t \in Nat
  BY <1>1, RunsFacts, ThreadFacts DEF Calls
<1>3. /\ thr[t].step < LastStep(kind, thr[t].p)
      /\ kind = "poll" => thr[t].p # 1 /\ thr[t].step = 2
      /\ kind = "choose" => thr[t].step = 2 \/ (thr[t].p # 3 /\ thr[t].step = 5)
      /\ kind \in {"thread", "fork"} => thr[t].step = 1
  BY <1>2, CallFacts
<1>4. thr[t].step <= 6
  BY <1>2, <1>3 DEF LastStep
<1>5. PICK b \in 0..NCallers : b = Behind(t)
  BY ThreadFacts
<1>6. b # 0 => b \in Callers
  BY <1>5, ThreadFacts
<1>7. PICK q \in 1..3, n \in 0..7 :
           /\ To(t, q, n)
           /\ n = thr[t].step + 1 \/ (n = 0 /\ b = 0 /\ kind \notin {"choose", "poll"} /\ q = thr[t].p)
           /\ q = thr[t].p \/ (b = 0 /\ kind = "choose") \/ (b # 0 /\ kind = "choose" /\ thr[t].step = 2)
           /\ b # 0 /\ kind = "choose" /\ thr[t].step = 2 => q = want[b] \/ Finished(b)
  BY <1>4, <1>5, Receives
<1>8. Moved(t)
  BY <1>7 DEF To
<1>9. up' \in [Callers -> 0..3] /\ \A c \in Callers : up'[c] <= up[c]
  <2>1. up \in [Callers -> 0..3]
    BY DEF ThreadCore, ThreadTypes
  <2>2. CASE up' = up
    BY <2>1, <2>2
  <2>3. CASE b # 0 /\ up[b] > 0 /\ up' = [up EXCEPT ![b] = @ - 1]
    <3>1. up' = [up EXCEPT ![b] = up[b] - 1] /\ up[b] \in 0..3 /\ up[b] - 1 \in 0..3
      BY <1>6, <2>1, <2>3
    <3>2. up' \in [Callers -> 0..3]
      BY <2>1, <3>1
    <3>3. ASSUME NEW c \in Callers
          PROVE  up'[c] <= up[c]
      BY <2>1, <3>1
    <3> QED BY <3>2, <3>3
  <2> QED BY <1>5, <2>2, <2>3 DEF RecvMsg, NoCaller
<1>10. ThreadOK(t) /\ (kind = "choose" /\ q # thr[t].p => thr[t].sock = 0 /\ thr[t].step = 2)
  <2>1. ThreadOK(t)
    BY DEF ThreadCore
  <2>2. ASSUME kind = "choose", b = 0
        PROVE  thr[t].sock = 0 /\ thr[t].step = 2
    <3>1. thr[t].sock = 0
      BY <1>5, <2>2 DEF Behind, NoCaller
    <3> QED BY <1>3, <2>1, <2>2, <3>1 DEF ThreadOK
  <2>3. ASSUME kind = "choose", thr[t].step = 2
        PROVE  thr[t].sock = 0
    BY <2>1, <2>3 DEF ThreadOK
  <2> QED BY <1>7, <2>1, <2>2, <2>3
<1>11. ThreadOK(t)'
  <2>1. /\ kind' = kind /\ caller' = caller /\ thr'[t].p = q /\ thr'[t].step = n
        /\ thr'[t].fd = thr[t].fd /\ thr'[t].sock = thr[t].sock /\ thr'[t].mine = thr[t].mine
    BY <1>1, <1>7 DEF To
  <2>2. n <= LastStep(kind, q)
    BY <1>2, <1>3, <1>7, <1>10 DEF LastStep
  <2>3. ASSUME kind = "choose"
        PROVE  /\ thr[t].sock = 0 => n <= 3 \/ (q = 3 /\ n = 4)
               /\ thr[t].sock # 0 => n = 0 \/ n >= 4
    BY <1>3, <1>7, <1>10, <2>3 DEF ThreadOK
  <2> QED BY <1>10, <2>1, <2>2, <2>3 DEF ThreadOK
<1>12. ThreadCore'
  BY <1>1, <1>8, <1>9, <1>11, SameData, ThreadFrame
<1>13. ASSUME Unraced
       PROVE  Unraced'
  <2>1. PICK c \in Callers : thr[t].mine = c
    BY ThreadFacts
  <2>2. b = c /\ b # 0
    BY <1>2, <1>5, <1>13, <2>1, OwnConnection, ThreadFacts
  <2>3. n = thr[t].step + 1
    BY <1>7, <2>2
  <2>4. /\ HasConn(t) /\ HasService(t, c) /\ Awaited(t, c)
    BY <1>13, <2>1 DEF Unraced, Works
  <2>5. /\ thr'[t].p = q /\ thr'[t].step = n
        /\ thr'[t].fd = thr[t].fd /\ thr'[t].sock = thr[t].sock /\ thr'[t].mine = c
    BY <1>7, <2>1 DEF To
  <2>6. Works(t)'
    <3>1. CASE thr[t].sock # 0
      <4>1. At(t, thr[t].step + 1)
        <5>1. q = thr[t].p
          BY <1>7, <1>10, <3>1
        <5> QED BY <1>7, <2>3, <5>1 DEF To, At
      <4> QED BY <1>1, <1>2, <1>13, <2>1, <3>1, <4>1, SocketWorks
    <3>2. CASE thr[t].sock = 0
      <4>1. HasConn(t)'
        BY <1>1, <1>2, <2>1, <2>4, <2>5 DEF HasConn
      <4>2. kind # "fork" /\ (kind = "choose" => thr[t].step = 2)
        BY <1>3, <1>10, <3>2, ThreadFacts DEF ThreadOK
      <4>3. CASE kind = "thread"
        <5>1. Awaited(t, c)'
          <6>1. kind' = "thread" /\ caller'[c] <= 2 /\ down'[c] = <<>>
            BY <1>1, <1>3, <2>4, <4>3 DEF Awaited
          <6> QED BY <6>1 DEF Awaited
        <5>2. HasService(t, c)'
          <6>1. kind' = "thread"
            BY <1>1, <4>3
          <6> QED BY <6>1 DEF HasService
        <5> QED BY <2>5, <4>1, <5>1, <5>2 DEF Works
      <4>4. CASE kind = "poll"
        <5>1. q = thr[t].p /\ q # 1 /\ n = 3 /\ thr[t].step = 2 /\ kind' = "poll"
          BY <1>1, <1>3, <1>7, <2>3, <4>4
        <5>2. caller'[c] <= 3 /\ (caller'[c] > 1 => down'[c] = <<>>) /\ Len(down'[c]) <= 1
          BY <1>1, <2>4, <4>4, <5>1 DEF Awaited
        <5>3. Awaited(t, c)'
          BY <2>5, <5>1, <5>2 DEF Awaited
        <5>4. HasService(t, c)'
          <6>1. thr'[t].p = want'[c] /\ kind' # "choose"
            BY <1>1, <2>4, <2>5, <4>4, <5>1 DEF HasService
          <6> QED BY <6>1, Zenon DEF HasService
        <5> QED BY <2>5, <4>1, <5>3, <5>4 DEF Works
      <4>5. CASE kind = "choose"
        <5>1. n = 3 /\ thr[t].step = 2 /\ kind' = "choose" /\ thr[t].step \in {2, 3}
          BY <1>1, <2>3, <4>2, <4>5
        <5>2. caller'[c] <= 3 /\ (caller'[c] > 1 => down'[c] = <<>>) /\ Len(down'[c]) <= 1
          BY <1>1, <2>4, <4>5, <5>1 DEF Awaited
        <5>3. Awaited(t, c)'
          BY <2>5, <5>1, <5>2 DEF Awaited
        <5>4. ~Finished(c)
          <6>1. ClientOK(c) /\ caller[c] \in -1..6 /\ caller[c] <= 3
            BY <1>1, <5>2 DEF ThreadCore, ThreadTypes
          <6>2. ASSUME caller[c] > 0
                PROVE  Len(ClientScript(want[c])) = 5
            <7>1. want[c] \in 1..3
              BY <6>1, <6>2 DEF ClientOK
            <7> QED BY <1>2, <4>5, <7>1, ClientFacts DEF LastCall
          <6>3. ~(caller[c] > 5)
            BY <6>1
          <6> QED BY <6>2, <6>3 DEF Finished, Connected
        <5>5. q = want[c]
          BY <1>7, <2>2, <4>5, <5>1, <5>4
        <5>6. Len(heard'[c]) + Len(down'[c]) <= 1
          <6>1. Len(heard[c]) + Len(down[c]) <= 1
            BY <2>4, <4>5, <5>1, Zenon DEF HasService
          <6> QED BY <1>1, <6>1
        <5>7. HasService(t, c)'
          <6>1. kind' # "poll" /\ thr'[t].p = want'[c]
            BY <1>1, <2>5, <5>1, <5>5
          <6> QED BY <5>6, <6>1, Zenon DEF HasService
        <5> QED BY <2>5, <4>1, <5>3, <5>7 DEF Works
      <4> QED BY <1>2, <4>2, <4>3, <4>4, <4>5 DEF FourKinds
    <3> QED BY <3>1, <3>2
  <2>7. /\ down' \in [Callers -> Seq(Nat)] /\ down'[c] = down[c]
        /\ \A d \in Callers : d # c => down'[d] = down[d]
    BY <1>1, SameData
  <2> QED BY <1>1, <1>8, <1>13, <2>1, <2>6, <2>7, WorkFrame
<1> QED BY <1>12, <1>13


(* Clients: the threads' entries stay as they are.                         *)
LEMMA Connects ==
  ASSUME ThreadCore, NEW c \in Callers, Connect(c)
  PROVE  ThreadCore' /\ (Unraced => Unraced')
<1>1. PICK p \in Services : want' = [want EXCEPT ![c] = p]
  BY DEF Connect
<1>2. /\ caller[c] = -1 /\ caller' = [caller EXCEPT ![c] = 0]
      /\ UNCHANGED <<kind, ports, shared, fdTable, thr, up, down, heard>>
  BY DEF Connect
<1>3. p \in 1..3
  BY ThreadConstants DEF Services
<1>4. caller' \in [Callers -> -1..6] /\ caller'[c] = 0 /\ want' \in [Callers -> 0..3] /\ want'[c] = p
  BY <1>1, <1>2, <1>3 DEF ThreadCore, ThreadTypes
<1>5. \A d \in Callers : d # c => caller'[d] = caller[d] /\ want'[d] = want[d]
  BY <1>1, <1>2 DEF ThreadCore, ThreadTypes
<1>6. ThreadTypes'
  BY <1>2, <1>4 DEF ThreadCore, ThreadTypes
<1>7. TableOK'
  <2>1. ASSUME NEW f \in Callers, fdTable[f] # 0
        PROVE  caller'[fdTable[f]] > 0
    <3>1. fdTable[f] \in Callers /\ caller[fdTable[f]] > 0
      <4>1. fdTable[f] \in 0..NCallers /\ NCallers \in Nat
        BY ThreadConstants DEF ThreadCore, ThreadTypes
      <4>2. fdTable[f] \in Callers
        BY <2>1, <4>1 DEF Callers
      <4> QED BY <2>1, <4>2 DEF ThreadCore, TableOK
    <3> QED BY <1>2, <1>5, <3>1
  <2> QED BY <1>2, <2>1 DEF ThreadCore, TableOK
<1>8. MineOK'
  BY <1>2 DEF ThreadCore, MineOK, Threads
<1>9. ASSUME NEW d \in Callers
      PROVE  ClientOK(d)'
  <2>1. ClientOK(d)
    BY DEF ThreadCore
  <2>2. CASE d # c
    <3>1. caller'[d] = caller[d] /\ want'[d] = want[d]
      BY <1>5, <2>2
    <3> QED BY <1>2, <2>1, <3>1 DEF ClientOK
  <2>3. CASE d = c
    <3>1. LastCall(kind) \in Nat
      BY DEF LastCall
    <3>2. caller[d] = -1 /\ caller'[d] = 0 /\ want'[d] \in 1..3
      BY <1>2, <1>3, <1>4, <2>3
    <3> QED BY <1>2, <2>1, <3>1, <3>2 DEF ClientOK
  <2> QED BY <2>2, <2>3
<1>10. \A t \in Threads : /\ thr[t].mine \in Callers /\ thr[t].mine # c
                          /\ (thr[t].sock # 0 => thr[t].sock \in Callers /\ thr[t].sock # c)
  <2>1. TAKE t \in Threads
  <2>2. /\ thr[t].mine \in Callers /\ thr[t].sock \in 0..NCallers /\ Callers = 1..NCallers
        /\ NCallers \in Nat /\ ThreadOK(t)
    BY ThreadFacts DEF ThreadCore
  <2> QED BY <1>2, <2>2 DEF ThreadOK
<1>11. ASSUME NEW t \in Threads
       PROVE  ThreadOK(t)'
  <2>1. ThreadOK(t)
    BY DEF ThreadCore
  <2> QED BY <1>2, <1>5, <1>10, <2>1 DEF ThreadOK
<1>12. ThreadCore'
  BY <1>2, <1>6, <1>7, <1>8, <1>9, <1>11 DEF ThreadCore, Threads
<1>13. ASSUME Unraced
       PROVE  Unraced'
  <2>1. ASSUME NEW t \in Threads
        PROVE  Works(t)'
    <3>1. PICK d \in Callers : thr[t].mine = d /\ d # c
      BY <1>10
    <3>2. HasConn(t) /\ HasService(t, d) /\ Awaited(t, d) /\ caller'[d] = caller[d] /\ want'[d] = want[d]
      BY <1>5, <1>13, <3>1 DEF Unraced, Works
    <3>3. HasConn(t)'
      BY <1>2, <3>2 DEF HasConn
    <3>4. HasService(t, d)'
      BY <1>2, <3>2 DEF HasService
    <3>5. Awaited(t, d)'
      BY <1>2, <3>2 DEF Awaited
    <3> QED BY <1>2, <3>1, <3>3, <3>4, <3>5 DEF Works
  <2>2. ASSUME NEW d \in Callers
        PROVE  Words(d)'
    BY <1>2, <1>13 DEF Unraced, Words, Threads
  <2> QED BY <1>2, <2>1, <2>2 DEF Unraced, Threads
<1> QED BY <1>12, <1>13

(* poll changes which ports are dealt with and no thread.                  *)
LEMMA PollsPorts ==
  ASSUME ThreadCore, PollPorts
  PROVE  ThreadCore' /\ (Unraced => Unraced')
<1>1. UNCHANGED <<kind, shared, fdTable, thr, caller, want, up, down, heard>>
  BY DEF PollPorts
<1>2. ports' = {want[d] : d \in {x \in Callers : caller[x] = 0}}
  BY DEF PollPorts
<1>3. ports' \subseteq 1..3
  BY <1>2 DEF ThreadCore, ClientOK
<1>4. ThreadTypes'
  BY <1>1, <1>3 DEF ThreadCore, ThreadTypes
<1>5. ThreadCore'
  BY <1>1, <1>4 DEF ThreadCore, TableOK, MineOK, ClientOK, ThreadOK, Threads
<1>6. ASSUME Unraced
      PROVE  Unraced'
  <2>1. ASSUME NEW t \in Threads
        PROVE  Works(t)'
    <3>1. Works(t)
      BY <1>6 DEF Unraced
    <3>2. HasConn(t)'
      BY <1>1, <3>1 DEF Works, HasConn
    <3>3. ASSUME NEW d \in Callers, thr[t].mine = d
          PROVE  HasService(t, d)' /\ Awaited(t, d)'
      <4>1. HasService(t, d) /\ Awaited(t, d)
        BY <3>1, <3>3 DEF Works
      <4>2. HasService(t, d)'
        BY <1>1, <4>1 DEF HasService
      <4>3. Awaited(t, d)'
        BY <1>1, <4>1 DEF Awaited
      <4> QED BY <4>2, <4>3
    <3> QED BY <1>1, <3>2, <3>3 DEF Works
  <2>2. ASSUME NEW d \in Callers
        PROVE  Words(d)'
    BY <1>1, <1>6 DEF Unraced, Words, Threads
  <2> QED BY <1>1, <2>1, <2>2 DEF Unraced, Threads
<1> QED BY <1>5, <1>6


(* A connection whose thread works is not at its end.                      *)
LEMMA OpenConnection ==
  ASSUME ThreadCore, Unraced, ~dead, NEW t \in Threads, NEW c \in Callers, thr[t].mine = c,
         thr[t].step # 0, thr[t].sock = 0
  PROVE  ~Closed(c)
<1>1. PICK f \in Callers : fdTable[f] = c
  BY DEF Unraced, Works, HasConn
<1>2. DOMAIN fdTable = Callers
  BY DEF ThreadCore, ThreadTypes
<1> QED BY <1>1, <1>2, Zenon DEF Closed

(* What a client's call does to its own data.                              *)
ClientMoves(c) ==
  \/ /\ ClientScript(want[c])[caller[c]] = "send"
     /\ up' = [up EXCEPT ![c] = up[c] + 1] /\ UNCHANGED <<down, heard>>
  \/ /\ ClientScript(want[c])[caller[c]] = "recv" /\ down[c] # <<>> /\ UNCHANGED up
     /\ down' = [down EXCEPT ![c] = Tail(down[c])]
     /\ heard' = [heard EXCEPT ![c] = Append(heard[c], Head(down[c]))]
  \/ /\ ClientScript(want[c])[caller[c]] = "recv" /\ down[c] = <<>> /\ Closed(c)
     /\ UNCHANGED <<up, down, heard>>

(* A client makes the next call of its script.                             *)
LEMMA ClientStepFacts ==
  ASSUME ThreadCore, NEW c \in Callers, ClientStep(c)
  PROVE  /\ ClientMoves(c) /\ kind \in FourKinds
         /\ caller[c] \in 1..LastCall(kind) /\ want[c] \in 1..3
         /\ caller' = [caller EXCEPT ![c] = caller[c] + 1]
         /\ UNCHANGED <<kind, ports, shared, fdTable, thr, want>>
<1>1. /\ ClientMoves(c) /\ Connected(c) /\ ~Finished(c)
      /\ caller' = [caller EXCEPT ![c] = caller[c] + 1]
      /\ UNCHANGED <<kind, ports, shared, fdTable, thr, want>>
  BY DEF ClientStep, ClientMoves
<1>2. caller[c] \in -1..6 /\ ClientOK(c) /\ kind \in FourKinds
  BY ThreadConstants DEF ThreadCore, ThreadTypes, FourKinds
<1>3. caller[c] > 0 /\ want[c] \in 1..3
  BY <1>1, <1>2 DEF Connected, ClientOK
<1>4. Len(ClientScript(want[c])) = LastCall(kind)
  BY <1>2, <1>3, ClientFacts
<1>5. ~(caller[c] > LastCall(kind)) /\ LastCall(kind) \in Nat
  BY <1>1, <1>4 DEF Finished, LastCall
<1> QED BY <1>1, <1>2, <1>3, <1>5

(* A client's call and the core of the invariant.                          *)
LEMMA ClientCore ==
  ASSUME ThreadCore, NEW c \in Callers, ClientStep(c)
  PROVE  ThreadCore'
<1>1. /\ ClientMoves(c) /\ kind \in FourKinds
      /\ caller[c] \in 1..LastCall(kind) /\ want[c] \in 1..3
      /\ caller' = [caller EXCEPT ![c] = caller[c] + 1]
      /\ UNCHANGED <<kind, ports, shared, fdTable, thr, want>>
  BY ClientStepFacts
<1>2. LastCall(kind) \in 2..5 /\ caller[c] + 1 \in 2..6
  BY <1>1 DEF LastCall
<1>3. /\ caller' \in [Callers -> -1..6] /\ caller'[c] = caller[c] + 1
      /\ \A d \in Callers : d # c => caller'[d] = caller[d]
  BY <1>1, <1>2, SMTT(30) DEF ThreadCore, ThreadTypes
<1>4. ClientOK(c) /\ up[c] \in 0..3 /\ down[c] \in Seq(Nat) /\ heard[c] \in Seq(Nat)
  BY DEF ThreadCore, ThreadTypes
<1>5. /\ up' \in [Callers -> 0..3] /\ \A d \in Callers : d # c => up'[d] = up[d]
      /\ up'[c] = up[c] \/ (ClientScript(want[c])[caller[c]] = "send" /\ up'[c] = up[c] + 1)
  <2>1. up \in [Callers -> 0..3] /\ up[c] <= 2
    BY <1>4 DEF ThreadCore, ThreadTypes, ClientOK
  <2>2. CASE up' = up
    BY <2>1, <2>2
  <2>3. CASE ClientScript(want[c])[caller[c]] = "send" /\ up' = [up EXCEPT ![c] = up[c] + 1]
    <3>1. up[c] + 1 \in 0..3
      BY <1>4, <2>1
    <3> QED BY <2>1, <2>3, <3>1
  <2> QED BY <1>1, <2>2, <2>3 DEF ClientMoves
<1>6. /\ down' \in [Callers -> Seq(Nat)] /\ heard' \in [Callers -> Seq(Nat)]
      /\ \A d \in Callers : d # c => down'[d] = down[d] /\ heard'[d] = heard[d]
  <2>1. down \in [Callers -> Seq(Nat)] /\ heard \in [Callers -> Seq(Nat)]
    BY DEF ThreadCore, ThreadTypes
  <2>2. CASE UNCHANGED <<down, heard>>
    BY <2>1, <2>2
  <2>3. CASE /\ down[c] # <<>>
             /\ down' = [down EXCEPT ![c] = Tail(down[c])]
             /\ heard' = [heard EXCEPT ![c] = Append(heard[c], Head(down[c]))]
    <3>1. Tail(down[c]) \in Seq(Nat) /\ Head(down[c]) \in Nat
      BY <1>4, <2>3, TailElements
    <3>2. Append(heard[c], Head(down[c])) \in Seq(Nat)
      BY <1>4, <3>1, AppendElements
    <3> QED BY <2>1, <2>3, <3>1, <3>2
  <2> QED BY <1>1, <2>2, <2>3 DEF ClientMoves
<1>7. ThreadTypes'
  BY <1>1, <1>3, <1>5, <1>6 DEF ThreadCore, ThreadTypes
<1>8. \A d \in Callers : caller[d] > 0 => caller'[d] > 0
  BY <1>1, <1>2, <1>3
<1>9. TableOK'
  <2>1. ASSUME NEW f \in Callers, fdTable[f] # 0
        PROVE  caller'[fdTable[f]] > 0
    <3>1. fdTable[f] \in 0..NCallers /\ NCallers \in Nat
      BY ThreadConstants DEF ThreadCore, ThreadTypes
    <3>2. fdTable[f] \in Callers
      BY <2>1, <3>1 DEF Callers
    <3> QED BY <1>8, <2>1, <3>2 DEF ThreadCore, TableOK
  <2> QED BY <1>1, <2>1 DEF ThreadCore, TableOK
<1>10. MineOK'
  BY <1>1 DEF ThreadCore, MineOK, Threads
<1>11. ASSUME NEW d \in Callers
       PROVE  ClientOK(d)'
  <2>1. CASE d # c
    <3>1. /\ ClientOK(d) /\ caller'[d] = caller[d] /\ want'[d] = want[d] /\ up'[d] = up[d]
          /\ down'[d] = down[d] /\ heard'[d] = heard[d]
      BY <1>1, <1>3, <1>5, <1>6, <2>1 DEF ThreadCore
    <3> QED BY <1>1, <3>1 DEF ClientOK
  <2>2. CASE d = c
    <3>1. ClientScript(want[c])[caller[c]] = "send" =>
             /\ kind = "poll" => caller[c] \in {2, 3}
             /\ kind = "choose" => caller[c] \in {2, 4}
             /\ kind \in {"thread", "fork"} => caller[c] = 1
      BY <1>1, ClientFacts
    <3>2. /\ kind \in {"poll", "choose"} /\ caller'[c] <= 2 => up'[c] = 0
          /\ kind = "poll" /\ caller'[c] <= 3 => up'[c] <= 1
          /\ kind = "choose" /\ caller'[c] <= 4 => up'[c] <= 1
          /\ kind \in {"thread", "fork"} => up'[c] <= 1 /\ (caller'[c] <= 1 => up'[c] = 0)
          /\ up'[c] <= 2
      <4>1. CASE kind = "poll"
        BY <1>1, <1>3, <1>4, <1>5, <3>1, <4>1 DEF ClientOK
      <4>2. CASE kind = "choose"
        BY <1>1, <1>3, <1>4, <1>5, <3>1, <4>2 DEF ClientOK, LastCall
      <4>3. CASE kind \in {"thread", "fork"}
        BY <1>1, <1>3, <1>4, <1>5, <3>1, <4>3 DEF ClientOK
      <4> QED BY <1>1, <4>1, <4>2, <4>3 DEF FourKinds
    <3>3. caller'[c] <= LastCall(kind) + 1 /\ caller'[c] > 0
      BY <1>1, <1>2, <1>3
    <3> QED BY <1>1, <2>2, <3>2, <3>3 DEF ClientOK
  <2> QED BY <2>1, <2>2
<1>12. ASSUME NEW t \in Threads
       PROVE  ThreadOK(t)'
  <2>1. /\ ThreadOK(t) /\ thr[t].mine \in Callers /\ thr[t].sock \in 0..NCallers
        /\ Callers = 1..NCallers /\ NCallers \in Nat
    BY ThreadFacts DEF ThreadCore
  <2> QED BY <1>1, <1>8, <2>1 DEF ThreadOK
<1> QED BY <1>1, <1>7, <1>9, <1>10, <1>11, <1>12 DEF ThreadCore, Threads


(* A client's call and the rest of the invariant: a client that has an     *)
(* answer has the one of its own thread.                                   *)
LEMMA ClientWork ==
  ASSUME ThreadCore, Unraced, ~dead, NEW c \in Callers, ClientStep(c)
  PROVE  Unraced'
<1>1. /\ ClientMoves(c) /\ kind \in FourKinds
      /\ caller[c] \in 1..LastCall(kind) /\ want[c] \in 1..3
      /\ caller' = [caller EXCEPT ![c] = caller[c] + 1]
      /\ UNCHANGED <<kind, ports, shared, fdTable, thr, want>>
  BY ClientStepFacts
<1>2. /\ caller'[c] = caller[c] + 1 /\ caller[c] \in 1..5
      /\ \A d \in Callers : d # c => caller'[d] = caller[d]
      /\ \A d \in Callers : d # c => down'[d] = down[d] /\ heard'[d] = heard[d]
  <2>1. caller[c] \in 1..5
    BY <1>1 DEF LastCall
  <2>2. DOMAIN caller = Callers /\ DOMAIN down = Callers /\ DOMAIN heard = Callers
    BY DEF ThreadCore, ThreadTypes
  <2>3. \A d \in Callers : d # c => down'[d] = down[d] /\ heard'[d] = heard[d]
    BY <1>1, <2>2 DEF ClientMoves
  <2> QED BY <1>1, <2>1, <2>2, <2>3 DEF ThreadCore, ThreadTypes
<1>3. down[c] \in Seq(Nat) /\ heard[c] \in Seq(Nat)
  BY DEF ThreadCore, ThreadTypes
<1>4. \/ /\ ClientScript(want[c])[caller[c]] = "send" /\ down'[c] = down[c] /\ heard'[c] = heard[c]
      \/ /\ ClientScript(want[c])[caller[c]] = "recv" /\ down[c] # <<>>
         /\ down'[c] = Tail(down[c]) /\ heard'[c] = Append(heard[c], Head(down[c]))
      \/ /\ ClientScript(want[c])[caller[c]] = "recv" /\ down[c] = <<>> /\ Closed(c)
         /\ down'[c] = down[c] /\ heard'[c] = heard[c]
  <2>1. DOMAIN down = Callers /\ DOMAIN heard = Callers
    BY DEF ThreadCore, ThreadTypes
  <2> QED BY <1>1, <2>1 DEF ClientMoves
<1>5. /\ ClientScript(want[c])[caller[c]] = "send" =>
           /\ kind = "poll" => (want[c] = 1 /\ caller[c] \in {2, 3}) \/ (want[c] # 1 /\ caller[c] = 2)
           /\ kind = "choose" => caller[c] \in {2, 4}
           /\ kind \in {"thread", "fork"} => caller[c] = 1
      /\ ClientScript(want[c])[caller[c]] = "recv" =>
           /\ kind = "poll" => caller[c] = 1 \/ (want[c] # 1 /\ caller[c] = 3)
           /\ kind = "choose" => caller[c] \in {1, 3, 5}
           /\ kind \in {"thread", "fork"} => caller[c] = 2
  BY <1>1, ClientFacts
<1>6. Len(heard'[c]) + Len(down'[c]) = Len(heard[c]) + Len(down[c])
  <2>1. CASE down'[c] = down[c] /\ heard'[c] = heard[c]
    BY <2>1
  <2>2. CASE down[c] # <<>> /\ down'[c] = Tail(down[c]) /\ heard'[c] = Append(heard[c], Head(down[c]))
    <3>1. Len(down'[c]) = Len(down[c]) - 1 /\ Head(down[c]) \in Nat
      BY <1>3, <2>2, TailElements
    <3>2. Len(heard'[c]) = Len(heard[c]) + 1
      BY <1>3, <2>2, <3>1, AppendElements
    <3>3. PICK h \in Nat : h = Len(heard[c])
      BY <1>3, SMTT(30)
    <3>4. PICK e \in Nat : e = Len(down[c])
      BY <1>3
    <3>5. Len(heard'[c]) = h + 1 /\ Len(down'[c]) = e - 1
      BY <3>1, <3>2, <3>3, <3>4
    <3>6. (h + 1) + (e - 1) = h + e
      OBVIOUS
    <3> QED BY <3>3, <3>4, <3>5, <3>6
  <2> QED BY <1>4, <2>1, <2>2
<1>7. ASSUME NEW t \in Threads, thr[t].mine # c
      PROVE  Works(t)'
  <2>1. PICK d \in Callers : thr[t].mine = d /\ d # c
    BY <1>7, ThreadFacts
  <2>2. /\ HasConn(t) /\ HasService(t, d) /\ Awaited(t, d) /\ caller'[d] = caller[d]
        /\ down'[d] = down[d] /\ heard'[d] = heard[d]
    BY <1>2, <2>1 DEF Unraced, Works
  <2>3. HasConn(t)'
    BY <1>1, <2>2 DEF HasConn
  <2>4. HasService(t, d)'
    BY <1>1, <2>2 DEF HasService
  <2>5. Awaited(t, d)'
    BY <1>1, <2>2 DEF Awaited
  <2> QED BY <1>1, <2>1, <2>3, <2>4, <2>5 DEF Works
<1>8. ASSUME NEW t \in Threads, thr[t].mine = c
      PROVE  Works(t)'
  <2>1. HasConn(t) /\ HasService(t, c) /\ Awaited(t, c) /\ ThreadOK(t) /\ thr[t].step \in 0..7
    BY <1>8, ThreadFacts DEF Unraced, Works, ThreadCore
  <2>2. HasConn(t)'
    BY <1>1, <2>1 DEF HasConn
  <2>3. HasService(t, c)'
    <3>1. kind' = kind /\ want' = want /\ thr' = thr
      BY <1>1
    <3>2. Len(heard[c]) + Len(down[c]) <= 1 => Len(heard'[c]) + Len(down'[c]) <= 1
      BY <1>6
    <3>3. want'[c] = want[c] /\ thr'[t].p = thr[t].p /\ thr'[t].step = thr[t].step
      BY <3>1
    <3>4. /\ kind' = "poll" => thr'[t].p = want'[c]
          /\ kind' = "choose" /\ thr'[t].step \notin {1, 2} => thr'[t].p = want'[c]
          /\ kind' = "choose" /\ thr'[t].step \in {2, 3} => Len(heard'[c]) + Len(down'[c]) <= 1
      BY <2>1, <3>1, <3>2, <3>3 DEF HasService
    <3> QED BY <3>4, Zenon DEF HasService
  <2>4. thr[t].sock = 0 /\ thr[t].step # 0 => ~Closed(c)
    BY <1>8, OpenConnection
  <2>5. kind # "fork" /\ thr[t].step \in {1, 2, 3} => ~Closed(c)
    BY <1>1, <2>1, <2>4 DEF ThreadOK, FourKinds
  <2>6. Awaited(t, c)'
    <3>1. CASE kind \in {"poll", "choose"} /\ thr[t].step = 1
      <4>1. caller[c] = 1 /\ down[c] = <<>>
        BY <2>1, <3>1 DEF Awaited
      <4>2. ~Closed(c)
        BY <2>5, <3>1
      <4>3. FALSE
        BY <1>4, <1>5, <3>1, <4>1, <4>2
      <4> QED BY <4>3
    <3>2. CASE (kind = "choose" \/ (kind = "poll" /\ thr[t].p # 1)) /\ thr[t].step \in {2, 3}
      <4>1. caller[c] <= 3 /\ (caller[c] > 1 => down[c] = <<>>) /\ Len(down[c]) <= 1
        BY <2>1, <3>2 DEF Awaited
      <4>2. ~Closed(c)
        BY <2>5, <3>2
      <4>3. kind = "poll" => want[c] # 1
        BY <2>1, <3>2 DEF HasService
      <4>4. CASE caller[c] = 1
        <5>1. down[c] # <<>> /\ down'[c] = Tail(down[c])
          BY <1>4, <1>5, <3>2, <4>2, <4>4
        <5>2. Len(down'[c]) = 0 /\ down'[c] \in Seq(Nat)
          <6>1. Len(down[c]) > 0 /\ Tail(down[c]) \in Seq(Nat) /\ Len(Tail(down[c])) = Len(down[c]) - 1
            <7>1. PICK x \in Seq(Nat) : x = down[c]
              BY <1>3
            <7>2. x # <<>>
              BY <5>1, <7>1
            <7>3. Len(x) > 0 /\ Tail(x) \in Seq(Nat) /\ Len(Tail(x)) = Len(x) - 1
              BY <7>2, TailElements
            <7> QED BY <7>1, <7>3
          <6>2. PICK e \in Nat : e = Len(down[c])
            BY <1>3
          <6>3. e <= 1 /\ e > 0
            <7>1. e <= 1
              BY <4>1, <6>2, Zenon
            <7>2. e > 0
              BY <6>1, <6>2, Zenon
            <7> QED BY <7>1, <7>2
          <6>4. e = 1
            BY <6>3
          <6>5. Len(Tail(down[c])) = e - 1
            BY <6>1, <6>2, Zenon
          <6>6. Len(Tail(down[c])) = 0
            BY <6>4, <6>5
          <6> QED BY <5>1, <6>1, <6>6, Zenon
        <5>3. down'[c] = <<>> /\ caller'[c] = 2
          BY <1>2, <4>4, <5>2
        <5>4. thr' = thr /\ kind' = kind
          BY <1>1
        <5> QED BY <3>2, <5>2, <5>3, <5>4 DEF Awaited
      <4>5. CASE caller[c] = 2
        <5>1. down'[c] = down[c] /\ down[c] = <<>> /\ caller'[c] = 3
          BY <1>2, <1>4, <1>5, <3>2, <4>1, <4>5
        <5>2. thr' = thr /\ kind' = kind
          BY <1>1
        <5> QED BY <3>2, <4>1, <5>1, <5>2 DEF Awaited
      <4>6. CASE caller[c] = 3
        <5>1. FALSE
          BY <1>4, <1>5, <3>2, <4>1, <4>2, <4>3, <4>6
        <5> QED BY <5>1
      <4> QED BY <1>2, <4>1, <4>4, <4>5, <4>6
    <3>3. CASE kind = "thread" /\ thr[t].step \in {1, 2}
      <4>1. caller[c] <= 2 /\ down[c] = <<>>
        BY <2>1, <3>3 DEF Awaited
      <4>2. ~Closed(c)
        BY <2>5, <3>3
      <4>3. caller[c] = 1 /\ down'[c] = <<>> /\ caller'[c] = 2
        BY <1>2, <1>4, <1>5, <3>3, <4>1, <4>2
      <4>4. kind' = "thread"
        BY <1>1, <3>3
      <4> QED BY <4>3, <4>4 DEF Awaited
    <3>4. kind' = kind /\ thr' = thr
      BY <1>1
    <3> QED BY <3>1, <3>2, <3>3, <3>4 DEF Awaited
  <2> QED BY <1>1, <1>8, <2>2, <2>3, <2>6 DEF Works
<1>9. ASSUME NEW d \in Callers
      PROVE  Words(d)'
  <2>1. Words(d) /\ Threads' = Threads /\ thr' = thr
    BY <1>1 DEF Unraced, Threads
  <2>2. CASE down'[d] = down[d] /\ heard'[d] = heard[d]
    BY <2>1, <2>2 DEF Words
  <2>3. CASE d = c /\ down[c] # <<>> /\ down'[c] = Tail(down[c]) /\ heard'[c] = Append(heard[c], Head(down[c]))
    <3>1. /\ Len(down[c]) > 0 /\ Head(down[c]) = down[c][1] /\ Head(down[c]) \in Nat
          /\ Len(down'[c]) = Len(down[c]) - 1 /\ Len(down[c]) \in Nat
          /\ \A i \in 1..Len(down'[c]) : i + 1 \in 1..Len(down[c]) /\ down'[c][i] = down[c][i + 1]
      BY <1>3, <2>3, TailElements
    <3>2. /\ Len(heard'[c]) = Len(heard[c]) + 1 /\ Len(heard[c]) \in Nat
          /\ heard'[c][Len(heard[c]) + 1] = Head(down[c])
          /\ \A i \in 1..Len(heard[c]) : heard'[c][i] = heard[c][i]
      BY <1>3, <2>3, <3>1, AppendElements
    <3>3. Head(down[c]) \in Threads /\ thr[Head(down[c])].mine = c
      BY <2>1, <2>3, <3>1 DEF Words
    <3>4. \A k \in 1..Len(heard'[c]) : heard'[c][k] \in Threads /\ thr[heard'[c][k]].mine = c
      <4>1. TAKE k \in 1..Len(heard'[c])
      <4>2. k \in 1..Len(heard[c]) \/ k = Len(heard[c]) + 1
        BY <3>2
      <4> QED BY <2>1, <2>3, <3>2, <3>3, <4>2 DEF Words
    <3>5. \A k \in 1..Len(down'[c]) : down'[c][k] \in Threads /\ thr[down'[c][k]].mine = c
      BY <2>1, <2>3, <3>1 DEF Words
    <3> QED BY <2>1, <2>3, <3>4, <3>5 DEF Words
  <2> QED BY <1>2, <1>4, <2>2, <2>3
<1>10. Threads' = Threads
  BY <1>1 DEF Threads
<1> QED BY <1>7, <1>8, <1>9, <1>10 DEF Unraced

(* While a client waits at accept, a descriptor is free.                   *)
LEMMA FreeDescriptor ==
  ASSUME ThreadCore, NEW c \in Callers, caller[c] = 0
  PROVE  LET f == Min({x \in DOMAIN fdTable : fdTable[x] = NoCaller})
         IN  f \in Callers /\ fdTable[f] = 0
<1>1. /\ fdTable \in [Callers -> 0..NCallers] /\ DOMAIN fdTable = Callers
      /\ Callers = 1..NCallers /\ NCallers \in Nat \ {0}
  BY ThreadConstants DEF ThreadCore, ThreadTypes, Callers
<1>2. \E x \in Callers : fdTable[x] = 0
  <2>1. SUFFICES ASSUME \A x \in Callers : fdTable[x] # 0 PROVE FALSE
    OBVIOUS
  <2>2. \A x \in Callers : fdTable[x] \in Callers \ {c}
    BY <1>1, <2>1 DEF ThreadCore, TableOK
  <2>3. fdTable \in [Callers -> Callers \ {c}]
    BY <1>1, <2>2
  <2>4. IsFiniteSet(Callers) /\ Cardinality(Callers) = NCallers
    BY <1>1, FS_Interval
  <2>5. IsFiniteSet(Callers \ {c}) /\ Cardinality(Callers \ {c}) = NCallers - 1
    BY <2>4, FS_RemoveElement
  <2>6. Cardinality(Callers \ {c}) < Cardinality(Callers)
    BY <1>1, <2>4, <2>5
  <2>7. \E x, y \in Callers : x # y /\ fdTable[x] = fdTable[y]
    BY <2>3, <2>4, <2>5, <2>6, FS_PigeonHole
  <2> QED BY <2>1, <2>7 DEF ThreadCore, TableOK
<1>3. PICK S : S = {x \in DOMAIN fdTable : fdTable[x] = NoCaller}
  OBVIOUS
<1>4. S \in SUBSET Nat /\ S # {}
  BY <1>1, <1>2, <1>3 DEF NoCaller
<1>5. Min(S) \in S
  BY <1>4, MinNat
<1> QED BY <1>1, <1>3, <1>5 DEF NoCaller

(* accept: the new thread's entry, and the descriptor it may find.         *)
AcceptMoves(c, r) ==
  /\ caller[c] = 0 /\ caller' = [caller EXCEPT ![c] = 1]
  /\ r \in ThreadRec /\ r.mine = c /\ r.step = 1 /\ thr' = Append(thr, r)
  /\ UNCHANGED <<kind, want, up, down, heard>> /\ ports' \subseteq ports
  /\ \/ kind = "fork" /\ r.sock = c /\ r.fd # 0 /\ UNCHANGED <<shared, fdTable>>
     \/ /\ kind # "fork" /\ r.sock = 0 /\ r.fd = 0 /\ (kind = "poll" => r.p = want[c])
        /\ \E f \in Callers : shared' = f /\ fdTable[f] = 0 /\ fdTable' = [fdTable EXCEPT ![f] = c]

(* accept gives the client a free descriptor and starts one thread for it. *)
LEMMA AcceptFacts ==
  ASSUME ThreadCore, AcceptConn
  PROVE  \E c \in Callers : \E r : AcceptMoves(c, r)
<1> DEFINE F == Min({x \in DOMAIN fdTable : fdTable[x] = NoCaller})
<1>1. PICK c \in Callers :
        /\ caller[c] = 0 /\ caller' = [caller EXCEPT ![c] = 1]
        /\ IF kind = "fork" THEN ForkConn(c, F) ELSE ThreadConn(c, F)
        /\ ports' = ports \ {want[c]}
  BY DEF AcceptConn
<1>2. UNCHANGED <<kind, want, up, down, heard>>
  BY DEF AcceptConn
<1>3. PICK f \in Callers : f = F /\ fdTable[f] = 0
  BY <1>1, FreeDescriptor
<1>4. f \in 1..NCallers /\ c \in 1..NCallers /\ NCallers \in Nat /\ want[c] \in 1..3
  BY <1>1, ThreadConstants DEF Callers, ThreadCore, ClientOK
<1> HIDE DEF F
<1>5. CASE kind = "fork"
  <2>1. PICK r : r = [p |-> 1, mine |-> c, fd |-> f, sock |-> c, step |-> 1]
    OBVIOUS
  <2>2. thr' = Append(thr, r) /\ UNCHANGED <<shared, fdTable>>
    BY <1>1, <1>3, <1>5, <2>1 DEF ForkConn
  <2>3. r \in ThreadRec /\ r.mine = c /\ r.step = 1 /\ r.sock = c /\ r.fd # 0
    BY <1>4, <2>1 DEF ThreadRec
  <2> QED BY <1>1, <1>2, <1>5, <2>2, <2>3 DEF AcceptMoves
<1>6. CASE kind # "fork"
  <2>1. PICK q \in 1..3 : q = IF kind = "poll" THEN want[c] ELSE 1
    BY <1>4
  <2>2. PICK r : r = [p |-> q, mine |-> c, fd |-> 0, sock |-> 0, step |-> 1]
    OBVIOUS
  <2>3. thr' = Append(thr, r) /\ shared' = f /\ fdTable' = [fdTable EXCEPT ![f] = c]
    BY <1>1, <1>3, <1>6, <2>1, <2>2 DEF ThreadConn, NoCaller
  <2>4. r \in ThreadRec /\ r.mine = c /\ r.step = 1 /\ r.sock = 0 /\ r.fd = 0 /\ r.p = q
    BY <1>4, <2>2 DEF ThreadRec
  <2> QED BY <1>1, <1>2, <1>3, <1>6, <2>1, <2>3, <2>4 DEF AcceptMoves
<1> QED BY <1>5, <1>6


(* The threads and clients after accept.                                   *)
LEMMA AcceptThreads ==
  ASSUME ThreadCore, NEW c \in Callers, NEW r, AcceptMoves(c, r)
  PROVE  /\ thr' \in Seq(ThreadRec) /\ Len(thr') = Len(thr) + 1 /\ Len(thr) \in Nat
         /\ thr'[Len(thr) + 1] = r
         /\ \A t \in Threads : thr'[t] = thr[t] /\ t \in Threads'
         /\ \A t \in Threads' : t \in Threads \/ t = Len(thr) + 1
         /\ caller' \in [Callers -> -1..6] /\ caller'[c] = 1
         /\ \A d \in Callers : d # c => caller'[d] = caller[d]
         /\ fdTable' \in [Callers -> 0..NCallers] /\ shared' \in 0..NCallers
<1>1. thr \in Seq(ThreadRec) /\ r \in ThreadRec /\ thr' = Append(thr, r)
  BY DEF ThreadCore, ThreadTypes, AcceptMoves
<1>2. /\ thr' \in Seq(ThreadRec) /\ Len(thr') = Len(thr) + 1 /\ Len(thr) \in Nat
      /\ thr'[Len(thr) + 1] = r /\ \A i \in 1..Len(thr) : thr'[i] = thr[i]
  BY <1>1, AppendElements
<1>3. /\ \A t \in Threads : thr'[t] = thr[t] /\ t \in Threads'
      /\ \A t \in Threads' : t \in Threads \/ t = Len(thr) + 1
  BY <1>2 DEF Threads
<1>4. /\ caller' \in [Callers -> -1..6] /\ caller'[c] = 1
      /\ \A d \in Callers : d # c => caller'[d] = caller[d]
  BY DEF ThreadCore, ThreadTypes, AcceptMoves
<1>5. fdTable' \in [Callers -> 0..NCallers] /\ shared' \in 0..NCallers
  <2>1. fdTable \in [Callers -> 0..NCallers] /\ shared \in 0..NCallers
    BY DEF ThreadCore, ThreadTypes
  <2>2. CASE UNCHANGED <<shared, fdTable>>
    BY <2>1, <2>2
  <2>3. ASSUME NEW f \in Callers, shared' = f, fdTable' = [fdTable EXCEPT ![f] = c]
        PROVE  fdTable' \in [Callers -> 0..NCallers] /\ shared' \in 0..NCallers
    <3>1. f \in 0..NCallers /\ c \in 0..NCallers
      BY ThreadConstants DEF Callers
    <3> QED BY <2>1, <2>3, <3>1
  <2> QED BY <2>2, <2>3 DEF AcceptMoves
<1> QED BY <1>2, <1>3, <1>4, <1>5

(* accept and the core of the invariant.                                   *)
LEMMA AcceptCore ==
  ASSUME ThreadCore, NEW c \in Callers, NEW r, AcceptMoves(c, r)
  PROVE  ThreadCore'
<1>1. /\ thr' \in Seq(ThreadRec) /\ Len(thr') = Len(thr) + 1 /\ Len(thr) \in Nat
      /\ thr'[Len(thr) + 1] = r
      /\ \A t \in Threads : thr'[t] = thr[t] /\ t \in Threads'
      /\ \A t \in Threads' : t \in Threads \/ t = Len(thr) + 1
      /\ caller' \in [Callers -> -1..6] /\ caller'[c] = 1
      /\ \A d \in Callers : d # c => caller'[d] = caller[d]
      /\ fdTable' \in [Callers -> 0..NCallers] /\ shared' \in 0..NCallers
  BY AcceptThreads
<1>2. /\ caller[c] = 0 /\ r \in ThreadRec /\ r.mine = c /\ r.step = 1
      /\ UNCHANGED <<kind, want, up, down, heard>> /\ ports' \subseteq ports
      /\ \/ kind = "fork" /\ r.sock = c /\ r.fd # 0 /\ UNCHANGED <<shared, fdTable>>
         \/ /\ kind # "fork" /\ r.sock = 0
            /\ \E f \in Callers : shared' = f /\ fdTable[f] = 0 /\ fdTable' = [fdTable EXCEPT ![f] = c]
  BY DEF AcceptMoves
<1>3. ThreadTypes'
  BY <1>1, <1>2 DEF ThreadCore, ThreadTypes
<1>4. \A d \in Callers : caller[d] > 0 => caller'[d] > 0
  BY <1>1, <1>2
<1>5. \A f \in Callers : fdTable[f] # 0 => fdTable[f] \in Callers /\ fdTable[f] # c
  <2>1. TAKE f \in Callers
  <2>2. fdTable[f] \in 0..NCallers /\ NCallers \in Nat
    BY ThreadConstants DEF ThreadCore, ThreadTypes
  <2>3. fdTable[f] # 0 => fdTable[f] \in Callers
    BY <2>2 DEF Callers
  <2> QED BY <1>2, <2>3 DEF ThreadCore, TableOK
<1>6. TableOK'
  <2>1. CASE kind = "fork" /\ UNCHANGED <<shared, fdTable>>
    BY <1>2, <1>4, <1>5, <2>1 DEF ThreadCore, TableOK
  <2>2. ASSUME kind # "fork", NEW f \in Callers, shared' = f, fdTable[f] = 0,
               fdTable' = [fdTable EXCEPT ![f] = c]
        PROVE  TableOK'
    <3>1. fdTable'[f] = c /\ \A g \in Callers : g # f => fdTable'[g] = fdTable[g]
      BY <2>2 DEF ThreadCore, ThreadTypes
    <3>2. \A g \in Callers : fdTable'[g] # 0 => caller'[fdTable'[g]] > 0
      BY <1>1, <1>4, <1>5, <3>1 DEF ThreadCore, TableOK
    <3>3. \A g, h \in Callers : fdTable'[g] = fdTable'[h] /\ fdTable'[g] # 0 => g = h
      BY <1>5, <3>1 DEF ThreadCore, TableOK
    <3>4. kind' # "fork" /\ shared' # 0
      BY <1>2, <2>2, ThreadConstants DEF Callers
    <3> QED BY <3>2, <3>3, <3>4 DEF TableOK
  <2> QED BY <1>2, <2>1, <2>2
<1>7. \A t \in Threads : thr[t].mine \in Callers /\ thr[t].mine # c
  <2>1. TAKE t \in Threads
  <2>2. thr[t].mine \in Callers /\ ThreadOK(t)
    BY ThreadFacts DEF ThreadCore
  <2> QED BY <1>2, <2>2 DEF ThreadOK
<1>8. MineOK'
  BY <1>1, <1>2, <1>7 DEF ThreadCore, MineOK
<1>9. ASSUME NEW d \in Callers
      PROVE  ClientOK(d)'
  <2>1. ClientOK(d) /\ LastCall(kind) \in Nat
    BY DEF ThreadCore, LastCall
  <2>2. CASE d # c
    BY <1>1, <1>2, <2>1, <2>2 DEF ClientOK
  <2>3. CASE d = c
    <3>1. /\ caller'[d] = 1 /\ caller[d] = 0 /\ want'[d] \in 1..3 /\ up' = up /\ up[d] \in 0..3
      BY <1>1, <1>2, <2>1, <2>3 DEF ClientOK, ThreadCore, ThreadTypes
    <3> QED BY <1>2, <2>1, <3>1 DEF ClientOK
  <2> QED BY <2>2, <2>3
<1>10. ASSUME NEW t \in Threads
       PROVE  ThreadOK(t)'
  <2>1. /\ ThreadOK(t) /\ thr[t].mine \in Callers /\ thr[t].sock \in 0..NCallers
        /\ Callers = 1..NCallers /\ NCallers \in Nat /\ thr'[t] = thr[t]
    BY <1>1, ThreadFacts DEF ThreadCore
  <2> QED BY <1>2, <1>4, <2>1 DEF ThreadOK
<1>11. ASSUME NEW t, t = Len(thr) + 1
       PROVE  ThreadOK(t)'
  <2>1. thr'[t] = r /\ c # 0 /\ caller'[c] > 0
    BY <1>1, <1>11, ThreadConstants DEF Callers
  <2> QED BY <1>2, <2>1 DEF ThreadOK, LastStep
<1> QED BY <1>1, <1>3, <1>6, <1>8, <1>9, <1>10, <1>11 DEF ThreadCore

(* accept and the rest of the invariant: the new thread starts with its    *)
(* own client.                                                             *)
LEMMA AcceptWork ==
  ASSUME ThreadCore, Unraced, NEW c \in Callers, NEW r, AcceptMoves(c, r)
  PROVE  Unraced'
<1>1. /\ thr' \in Seq(ThreadRec) /\ Len(thr') = Len(thr) + 1 /\ Len(thr) \in Nat
      /\ thr'[Len(thr) + 1] = r
      /\ \A t \in Threads : thr'[t] = thr[t] /\ t \in Threads'
      /\ \A t \in Threads' : t \in Threads \/ t = Len(thr) + 1
      /\ caller' \in [Callers -> -1..6] /\ caller'[c] = 1
      /\ \A d \in Callers : d # c => caller'[d] = caller[d]
  BY AcceptThreads
<1>2. /\ caller[c] = 0 /\ r.mine = c /\ r.step = 1
      /\ UNCHANGED <<kind, want, up, down, heard>>
      /\ \/ kind = "fork" /\ r.sock = c /\ UNCHANGED fdTable
         \/ /\ kind # "fork" /\ r.sock = 0 /\ r.fd = 0 /\ (kind = "poll" => r.p = want[c])
            /\ \E f \in Callers : fdTable[f] = 0 /\ fdTable' = [fdTable EXCEPT ![f] = c]
  BY DEF AcceptMoves
<1>3. /\ DOMAIN fdTable = Callers /\ 0 \notin Callers
      /\ \A f \in Callers : fdTable[f] # 0 => fdTable'[f] = fdTable[f]
  BY <1>2, ThreadConstants, SMTT(30) DEF ThreadCore, ThreadTypes, Callers
<1>4. ASSUME NEW t \in Threads
      PROVE  Works(t)'
  <2>1. PICK d \in Callers : thr[t].mine = d
    BY ThreadFacts
  <2>2. /\ HasConn(t) /\ HasService(t, d) /\ Awaited(t, d) /\ ThreadOK(t) /\ thr'[t] = thr[t]
    BY <1>1, <2>1 DEF Unraced, Works, ThreadCore
  <2>3. d # c /\ caller'[d] = caller[d] /\ d # 0
    BY <1>1, <1>2, <1>3, <2>1, <2>2 DEF ThreadOK
  <2>4. HasConn(t)'
    BY <1>3, <2>1, <2>2, <2>3 DEF HasConn
  <2>5. HasService(t, d)'
    BY <1>2, <2>2 DEF HasService
  <2>6. Awaited(t, d)'
    BY <1>2, <2>2, <2>3 DEF Awaited
  <2> QED BY <2>1, <2>2, <2>4, <2>5, <2>6 DEF Works
<1>5. heard[c] = <<>> /\ down[c] = <<>>
  BY <1>2 DEF ThreadCore, ClientOK
<1>6. ASSUME NEW t, t = Len(thr) + 1
      PROVE  Works(t)'
  <2>1. thr'[t] = r
    BY <1>1, <1>6
  <2>2. HasConn(t)'
    <3>1. CASE kind = "fork" /\ r.sock = c
      BY <1>2, <1>3, <2>1, <3>1 DEF HasConn
    <3>2. ASSUME NEW f \in Callers, r.sock = 0, r.fd = 0, fdTable' = [fdTable EXCEPT ![f] = c]
          PROVE  HasConn(t)'
      <4>1. fdTable'[f] = c
        BY <1>3, <3>2
      <4> QED BY <1>2, <2>1, <3>2, <4>1 DEF HasConn
    <3> QED BY <1>2, <3>1, <3>2
  <2>3. HasService(t, c)'
    <3>1. thr'[t].step \in {1, 2} /\ thr'[t].step \notin {2, 3} /\ (kind' = "poll" => thr'[t].p = want'[c])
      BY <1>2, <2>1
    <3> QED BY <3>1, Zenon DEF HasService
  <2>4. Awaited(t, c)'
    BY <1>1, <1>2, <1>5, <2>1 DEF Awaited
  <2> QED BY <1>2, <2>1, <2>2, <2>3, <2>4 DEF Works
<1>7. ASSUME NEW d \in Callers
      PROVE  Words(d)'
  <2>1. Words(d) /\ heard' = heard /\ down' = down
    BY <1>2 DEF Unraced
  <2>2. \A k \in 1..Len(heard[d]) : heard[d][k] \in Threads' /\ thr'[heard[d][k]].mine = d
    BY <1>1, <2>1 DEF Words
  <2>3. \A k \in 1..Len(down[d]) : down[d][k] \in Threads' /\ thr'[down[d][k]].mine = d
    BY <1>1, <2>1 DEF Words
  <2> QED BY <2>1, <2>2, <2>3 DEF Words
<1> QED BY <1>1, <1>4, <1>6, <1>7 DEF Unraced


(* The servers start without threads.                                      *)
LEMMA ThreadStarts == TSInit => ThreadInv
<1> SUFFICES ASSUME TSInit PROVE ThreadInv
  OBVIOUS
<1>1. /\ kind \in Kinds /\ ports = {} /\ shared = 0
      /\ fdTable = [f \in Callers |-> 0] /\ thr = <<>>
      /\ caller = [c \in Callers |-> -1] /\ want = [c \in Callers |-> 0]
      /\ up = [c \in Callers |-> 0] /\ down = [c \in Callers |-> <<>>]
      /\ heard = [c \in Callers |-> <<>>]
  BY DEF TSInit, Callers, NoCaller
<1>2. ~dead /\ ~raced /\ dead \in BOOLEAN /\ raced \in BOOLEAN
  BY DEF TSInit
<1>3. Len(thr) = 0 /\ Threads = {} /\ thr \in Seq(ThreadRec)
  BY <1>1 DEF Threads
<1>4. ThreadTypes
  BY <1>1, <1>3, ThreadConstants DEF ThreadTypes
<1>5. TableOK /\ MineOK
  BY <1>1, <1>3 DEF TableOK, MineOK
<1>6. ASSUME NEW c \in Callers
      PROVE  ClientOK(c) /\ Words(c)
  <2>1. caller[c] = -1 /\ up[c] = 0 /\ down[c] = <<>> /\ heard[c] = <<>>
    BY <1>1
  <2> QED BY <2>1 DEF ClientOK, Words
<1>7. ThreadCore /\ Unraced
  BY <1>3, <1>4, <1>5, <1>6 DEF ThreadCore, Unraced
<1> QED BY <1>2, <1>7 DEF ThreadInv

(* Flags that a step leaves alone.                                         *)
LEMMA FlagsKept ==
  ASSUME ThreadInv, ThreadCore', UNCHANGED <<dead, raced>>, kind' = kind,
         ~raced => Unraced'
  PROVE  ThreadInv'
<1>1. dead' \in BOOLEAN /\ raced' \in BOOLEAN /\ (kind' = "fork" => ~raced')
  BY Zenon DEF ThreadInv
<1>2. ~raced' => Unraced' /\ ~dead'
  BY Zenon DEF ThreadInv
<1> QED BY <1>1, <1>2, Zenon DEF ThreadInv

(* Every step of the servers, their threads and their clients keeps the    *)
(* invariant.                                                              *)
LEMMA ThreadKeeps == ThreadInv /\ [TSNext]_tsVars => ThreadInv'
<1> SUFFICES ASSUME ThreadInv, [TSNext]_tsVars PROVE ThreadInv'
  OBVIOUS
<1>0. ThreadCore /\ (~raced => Unraced /\ ~dead) /\ raced \in BOOLEAN /\ dead \in BOOLEAN
  BY Zenon DEF ThreadInv
<1>1. ASSUME UNCHANGED tsVars
      PROVE  ThreadInv'
  <2>1. /\ UNCHANGED <<kind, ports, shared, fdTable, thr, caller, want, up, down, heard>>
        /\ UNCHANGED <<dead, raced>>
    BY <1>1 DEF tsVars
  <2>2. ThreadCore'
    BY <1>0, <2>1 DEF ThreadCore, ThreadTypes, TableOK, MineOK, ClientOK, ThreadOK, Threads
  <2>3. ASSUME Unraced
        PROVE  Unraced'
    <3>1. ASSUME NEW t \in Threads
          PROVE  Works(t)'
      <4>1. Works(t)
        BY <2>3 DEF Unraced
      <4>2. HasConn(t)'
        BY <2>1, <4>1 DEF Works, HasConn
      <4>3. ASSUME NEW d \in Callers, thr[t].mine = d
            PROVE  HasService(t, d)' /\ Awaited(t, d)'
        <5>1. HasService(t, d) /\ Awaited(t, d)
          BY <4>1, <4>3 DEF Works
        <5>2. HasService(t, d)'
          BY <2>1, <5>1 DEF HasService
        <5>3. Awaited(t, d)'
          BY <2>1, <5>1 DEF Awaited
        <5> QED BY <5>2, <5>3
      <4> QED BY <2>1, <4>2, <4>3 DEF Works
    <3>2. ASSUME NEW d \in Callers
          PROVE  Words(d)'
      BY <2>1, <2>3 DEF Unraced, Words, Threads
    <3> QED BY <2>1, <3>1, <3>2 DEF Unraced, Threads
  <2> QED BY <1>0, <2>1, <2>2, <2>3, FlagsKept
<1>2. ASSUME NEW c \in Callers, Connect(c)
      PROVE  ThreadInv'
  <2>1. UNCHANGED <<dead, raced>> /\ kind' = kind
    BY <1>2 DEF Connect
  <2> QED BY <1>0, <1>2, <2>1, Connects, FlagsKept
<1>3. ASSUME NEW c \in Callers, ClientStep(c)
      PROVE  ThreadInv'
  <2>1. UNCHANGED <<dead, raced>> /\ kind' = kind
    BY <1>3 DEF ClientStep
  <2>2. ThreadCore'
    BY <1>0, <1>3, ClientCore
  <2>3. ~raced => Unraced'
    BY <1>0, <1>3, ClientWork
  <2> QED BY <2>1, <2>2, <2>3, FlagsKept
<1>4. ASSUME PollPorts
      PROVE  ThreadInv'
  <2>1. UNCHANGED <<dead, raced>> /\ kind' = kind
    BY <1>4 DEF PollPorts
  <2> QED BY <1>0, <1>4, <2>1, PollsPorts, FlagsKept
<1>5. ASSUME AcceptConn
      PROVE  ThreadInv'
  <2>1. UNCHANGED <<dead, raced>> /\ kind' = kind
    BY <1>5 DEF AcceptConn
  <2>2. PICK c \in Callers : \E r : AcceptMoves(c, r)
    BY <1>0, <1>5, AcceptFacts
  <2>3. PICK r : AcceptMoves(c, r)
    BY <2>2
  <2>4. ThreadCore' /\ (Unraced => Unraced')
    BY <1>0, <2>3, AcceptCore, AcceptWork
  <2> QED BY <1>0, <2>1, <2>4, FlagsKept
<1>6. ASSUME NEW t \in Threads, ReadNsfd(t)
      PROVE  ThreadInv'
  <2>1. /\ raced' = (raced \/ fdTable[shared] # thr[t].mine) /\ dead' = dead /\ kind' = kind
        /\ thr[t].fd = 0
    BY <1>6 DEF ReadNsfd
  <2>2. ThreadCore' /\ (Unraced /\ fdTable[shared] = thr[t].mine => Unraced')
    BY <1>0, <1>6, ReadsNsfd
  <2>3. kind # "fork"
    BY <1>0, <2>1 DEF ThreadCore, ThreadOK
  <2>4. raced' \in BOOLEAN /\ dead' \in BOOLEAN
    BY <1>0, <2>1, Zenon
  <2>5. ~raced' => Unraced' /\ ~dead'
    BY <1>0, <2>1, <2>2, Zenon
  <2> QED BY <2>1, <2>2, <2>3, <2>4, <2>5, Zenon DEF ThreadInv
<1>7. ASSUME NEW t \in Threads, SendMsg(t)
      PROVE  ThreadInv'
  <2>1. raced' = raced /\ kind' = kind /\ dead' \in BOOLEAN
    BY <1>0, <1>7, Zenon DEF SendMsg
  <2>2. ThreadCore' /\ (Unraced => Unraced' /\ dead' = dead)
    BY <1>0, <1>7, SendsMsg
  <2>3. ~raced' => Unraced' /\ ~dead'
    BY <1>0, <2>1, <2>2, Zenon
  <2>4. kind' = "fork" => ~raced'
    BY <2>1, Zenon DEF ThreadInv
  <2> QED BY <1>0, <2>1, <2>2, <2>3, <2>4, Zenon DEF ThreadInv
<1>8. ASSUME NEW t \in Threads, RecvMsg(t)
      PROVE  ThreadInv'
  <2>1. UNCHANGED <<dead, raced>> /\ kind' = kind
    BY <1>8 DEF RecvMsg
  <2> QED BY <1>0, <1>8, <2>1, ReceivesMsg, FlagsKept
<1>9. ASSUME NEW t \in Threads, RecvLines(t)
      PROVE  ThreadInv'
  <2>1. UNCHANGED <<dead, raced>> /\ kind' = kind
    BY <1>9 DEF RecvLines
  <2> QED BY <1>0, <1>9, <2>1, ReceivesLines, FlagsKept
<1>10. ASSUME NEW t \in Threads, ForkService(t)
       PROVE  ThreadInv'
  <2>1. UNCHANGED <<dead, raced>> /\ kind' = kind
    BY <1>10 DEF ForkService
  <2> QED BY <1>0, <1>10, <2>1, ForksService, FlagsKept
<1>11. ASSUME NEW t \in Threads, CloseConn(t)
       PROVE  ThreadInv'
  <2>1. UNCHANGED <<dead, raced>> /\ kind' = kind
    BY <1>11 DEF CloseConn
  <2> QED BY <1>0, <1>11, <2>1, ClosesConn, FlagsKept
<1> QED BY <1>1, <1>2, <1>3, <1>4, <1>5, <1>6, <1>7, <1>8, <1>9, <1>10, <1>11 DEF TSNext, Threads

(* What the invariant says of the property that the run checks.            *)
LEMMA ThreadHolds == ThreadInv => ThreadsSafe /\ TSTypeOK
<1> SUFFICES ASSUME ThreadInv PROVE ThreadsSafe /\ TSTypeOK
  OBVIOUS
<1>1. ThreadCore /\ (~raced => Unraced /\ ~dead) /\ raced \in BOOLEAN /\ dead \in BOOLEAN
      /\ (kind = "fork" => ~raced)
  BY Zenon DEF ThreadInv
<1>2. ASSUME Unraced, NEW c \in Callers, NEW k \in 1..Len(heard[c])
      PROVE  LET t == heard[c][k] IN
             thr[t].mine = c /\ (kind = "poll" \/ (kind = "choose" /\ k > 1) => thr[t].p = want[c])
  <2>1. PICK t \in Threads : t = heard[c][k] /\ thr[t].mine = c
    BY <1>2 DEF Unraced, Words
  <2>2. HasService(t, c) /\ Awaited(t, c) /\ thr[t].step \in 0..7
    BY <1>1, <1>2, <2>1, ThreadFacts DEF Unraced, Works
  <2>3. heard[c] \in Seq(Nat) /\ down[c] \in Seq(Nat)
    BY <1>1 DEF ThreadCore, ThreadTypes
  <2>4. ASSUME kind = "choose", k > 1
        PROVE  thr[t].p = want[c]
    <3>1. thr[t].step # 1
      <4>1. heard[c] # <<>>
        BY <2>3
      <4> QED BY <2>2, <2>4, <4>1 DEF Awaited
    <3>2. thr[t].step # 2
      <4>1. PICK h \in Nat : h = Len(heard[c])
        BY <2>3
      <4>2. PICK e \in Nat : e = Len(down[c])
        BY <2>3
      <4>3. ~(h + e <= 1)
        BY <2>4, <4>1
      <4>4. ~(Len(heard[c]) + Len(down[c]) <= 1)
        BY <4>1, <4>2, <4>3, Zenon
      <4>5. thr[t].step \notin {2, 3}
        BY <2>2, <2>4, <4>4, Zenon DEF HasService
      <4> QED BY <4>5
    <3>3. thr[t].step \notin {1, 2}
      BY <3>1, <3>2
    <3> QED BY <2>2, <2>4, <3>3, Zenon DEF HasService
  <2>5. kind = "poll" => thr[t].p = want[c]
    BY <2>2, Zenon DEF HasService
  <2> QED BY <2>1, <2>4, <2>5
<1>3. OwnThread
  BY <1>1, <1>2 DEF OwnThread
<1>4. ASSUME Unraced, NEW t \in Threads, thr[t].fd # 0, thr[t].step # 0
      PROVE  Behind(t) = thr[t].mine
  BY <1>1, <1>4, OwnConnection
<1>5. ConnectionKept
  BY <1>1, <1>4 DEF ConnectionKept, Threads
<1>6. DiesOfTheRace
  BY <1>1, Zenon DEF DiesOfTheRace
<1>7. TSTypeOK
  <2>1. /\ fdTable \in [DOMAIN fdTable -> Callers \cup {NoCaller}]
        /\ shared \in 0..NCallers /\ ports \subseteq 1..3 /\ up \in [Callers -> 0..3]
    <3>1. 0..NCallers = Callers \cup {NoCaller}
      BY ThreadConstants DEF Callers, NoCaller
    <3> QED BY <1>1, <3>1 DEF ThreadCore, ThreadTypes
  <2>2. ASSUME NEW t \in Threads
        PROVE  /\ thr[t].p \in 1..3 /\ thr[t].fd \in 0..NCallers
               /\ thr[t].step \in 0..Len(Script(thr[t].p))
    <3>1. /\ thr[t].p \in 1..3 /\ thr[t].fd \in 0..NCallers /\ thr[t].step \in 0..7
          /\ thr[t].step <= LastStep(kind, thr[t].p) /\ kind \in FourKinds
      BY <1>1, ThreadFacts DEF ThreadCore, ThreadOK
    <3>2. 1 \in 1..LastStep(kind, thr[t].p)
      BY DEF LastStep
    <3>3. Len(Script(thr[t].p)) = LastStep(kind, thr[t].p)
      BY <3>1, <3>2, CallFacts
    <3> QED BY <3>1, <3>3 DEF LastStep
  <2> QED BY <1>1, <2>1, <2>2 DEF TSTypeOK, Threads
<1> QED BY <1>3, <1>5, <1>6, <1>7 DEF ThreadsSafe

(* For any number of clients and each of the four servers, whatever order  *)
(* threads and clients move in: each thread works for its own client on an *)
(* open connection, and only the race on nsfd breaks that or ends the      *)
(* server; the server that forks has no such race.                         *)
THEOREM ThreadsAreSafe == Spec => []ThreadsSafe
<1>1. Init => ThreadInv
  BY ThreadStarts DEF Init
<1>2. ThreadInv /\ [Next]_<<lab, audioVars, dataVars, tsVars, superVars, chatVars>> => ThreadInv'
  BY ThreadKeeps DEF Next
<1>3. ThreadInv => ThreadsSafe
  BY ThreadHolds
<1> QED BY <1>1, <1>2, <1>3, PTL DEF Spec

-----------------------------------------------------------------------------
(* The chat over two FIFOs                                                 *)

(* A message is a pair, so Blank is one too.                               *)
Message == Nat \X Nat
ChatTypes ==
  /\ srv \in {"open1", "open2", "read", "write", "dead"}
  /\ held \in Seq(Message) /\ held # <<>>
  /\ chan1 \in Seq(Seq(Message)) /\ chan2 \in Seq(Message)
  /\ \A k \in 1..Len(chan1) : chan1[k] # <<>>
  /\ sender \in [Chatters -> {"none", "opening", "on", "gone"}]
  /\ reader \in [Chatters -> {"none", "opening", "on", "gone"}]
  /\ said \in SUBSET Message /\ IsFiniteSet(said)

(* Serial numbers grow.                                                    *)
SerialsOK == \A m \in said : m[1] \in Chatters /\ m[2] \in 1..Cardinality(said)

(* Nothing but what was typed, and the blank buffer, is anywhere.          *)
Known == said \cup {Blank}
Origin ==
  /\ ToSet(chan2) \subseteq said /\ ToSet(held) \subseteq Known
  /\ \A k \in 1..Len(chan1) : ToSet(chan1[k]) \subseteq Known
  /\ readOff \subseteq Known /\ \A c \in Chatters : \A m : <<c, m>> \in displays => m \in Known

In2(m) == \E k \in 1..Len(chan2) : chan2[k] = m
In1(m) == \E k \in 1..Len(chan1) : m \in ToSet(chan1[k])
InBuf(m) == srv = "write" /\ m \in ToSet(held)
Off(m) == m \in readOff

(* A message is in one place, and shown by the one client that read it.    *)
Spot(m) ==
  /\ In2(m) \/ In1(m) \/ InBuf(m) \/ Off(m)
  /\ In2(m) => ~In1(m) /\ ~InBuf(m) /\ ~Off(m)
  /\ In1(m) => ~InBuf(m) /\ ~Off(m)
  /\ InBuf(m) => ~Off(m)
  /\ \A k, l \in 1..Len(chan2) : chan2[k] = m /\ chan2[l] = m => k = l
  /\ \A k, l \in 1..Len(chan1) : m \in ToSet(chan1[k]) /\ m \in ToSet(chan1[l]) => k = l
Seen(m) ==
  /\ \A c \in Chatters : <<c, m>> \in displays => Off(m)
  /\ \A c, d \in Chatters : <<c, m>> \in displays /\ <<d, m>> \in displays => c = d
SpotsOK == \A m \in said : m \notin again /\ m \notin wasted => Spot(m) /\ Seen(m)

(* While nobody has left, the opens of both sides have met.                *)
AllStay == \A c \in Chatters : sender[c] # "gone"
StayOK ==
  /\ \A c \in Chatters : (sender[c] = "gone" <=> reader[c] = "gone") /\ (sender[c] = "none" <=> reader[c] = "none")
  /\ AllStay =>
       /\ srv \in {"open2", "read", "write"} => \E c \in Chatters : reader[c] = "on"
       /\ srv \in {"read", "write"} => \E c \in Chatters : sender[c] = "on"
       /\ srv # "dead" /\ again = {} /\ Blank \notin readOff
       /\ srv = "write" => Blank \notin ToSet(held)
       /\ \A k \in 1..Len(chan1) : Blank \notin ToSet(chan1[k])

ChatRoom == Len(chan1) <= ChanCap
ChatInv == ChatTypes /\ ChatRoom /\ SerialsOK /\ Origin /\ SpotsOK /\ StayOK

(* ToSet of what queues become.                                            *)
LEMMA ToSetFacts ==
  ASSUME NEW S, NEW s \in Seq(S)
  PROVE  /\ \A k \in 1..Len(s) : s[k] \in ToSet(s)
         /\ \A x : x \in ToSet(s) <=> \E k \in 1..Len(s) : s[k] = x
         /\ ToSet(s) \subseteq S
BY DEF ToSet

(* The elements after an append.                                           *)
LEMMA ToSetAppend ==
  ASSUME NEW S, NEW s \in Seq(S), NEW e \in S
  PROVE  ToSet(Append(s, e)) = ToSet(s) \cup {e}
<1>1. Append(s, e) \in Seq(S)
  BY AppendElements
<1> QED
  BY <1>1, AppendElements DEF ToSet

(* Steps that only open or close channels.                                 *)
ChatOpens ==
  /\ UNCHANGED <<held, chan1, chan2, said, displays, readOff, wasted, again>>
  /\ srv' = "write" <=> srv = "write"

(* Steps that open ends of the FIFOs leave the messages alone.             *)
LEMMA ChatFrame ==
  ASSUME ChatInv, ChatOpens
  PROVE  ChatRoom' /\ SerialsOK' /\ Origin' /\ SpotsOK'
<1>1. ChatRoom' /\ SerialsOK'
  BY DEF ChatInv, ChatOpens, ChatRoom, SerialsOK
<1>2. Origin'
  BY DEF ChatInv, ChatOpens, Origin, Known, ToSet
<1>3. ASSUME NEW m \in said, m \notin again, m \notin wasted
      PROVE  Spot(m)' /\ Seen(m)'
  <2>1. Spot(m) /\ Seen(m)
    BY <1>3 DEF ChatInv, SpotsOK
  <2>2. Spot(m)'
    BY <2>1 DEF ChatOpens, Spot, In1, In2, InBuf, Off, ToSet
  <2>3. Seen(m)'
    BY <2>1 DEF ChatOpens, Seen, Off
  <2> QED BY <2>2, <2>3
<1>4. SpotsOK'
  BY <1>3 DEF SpotsOK, ChatOpens
<1> QED BY <1>1, <1>2, <1>4

(* A client starts, opens its ends or leaves.                              *)
LEMMA ChatClients ==
  ASSUME ChatInv, NEW c \in Chatters, StartChatter(c) \/ SendOpens(c) \/ RecvOpens(c) \/ Quit(c)
  PROVE  ChatInv'
<1>1. ChatOpens /\ srv' = srv
  BY DEF StartChatter, SendOpens, RecvOpens, Quit, ChatOpens
<1>2. ChatRoom' /\ SerialsOK' /\ Origin' /\ SpotsOK'
  BY <1>1, ChatFrame
<1>3. /\ sender' \in [Chatters -> {"none", "opening", "on", "gone"}]
      /\ reader' \in [Chatters -> {"none", "opening", "on", "gone"}]
  BY DEF ChatInv, ChatTypes, StartChatter, SendOpens, RecvOpens, Quit
<1>4. ChatTypes'
  BY <1>1, <1>3 DEF ChatInv, ChatTypes, ChatOpens
<1>5. /\ \A d \in Chatters : (sender'[d] = "gone" <=> reader'[d] = "gone") /\ (sender'[d] = "none" <=> reader'[d] = "none")
      /\ \A d \in Chatters : sender[d] = "gone" => sender'[d] = "gone"
      /\ \A d \in Chatters : sender[d] = "on" => sender'[d] \in {"on", "gone"}
      /\ \A d \in Chatters : reader[d] = "on" => reader'[d] \in {"on", "gone"}
  BY DEF ChatInv, ChatTypes, StayOK, StartChatter, SendOpens, RecvOpens, Quit
<1>6. StayOK'
  BY <1>1, <1>5 DEF ChatInv, ChatOpens, StayOK, AllStay, ToSet
<1> QED BY <1>2, <1>4, <1>6 DEF ChatInv

(* The server's two opens: each returns when the other end is there.       *)
LEMMA ChatServerOpens ==
  ASSUME ChatInv, ServerOpens1 \/ ServerOpens2
  PROVE  ChatInv'
<1>1. ChatOpens /\ srv' \in {"open2", "read"}
  BY DEF ServerOpens1, ServerOpens2, ChatOpens
<1>2. ChatRoom' /\ SerialsOK' /\ Origin' /\ SpotsOK'
  BY <1>1, ChatFrame
<1>3. /\ sender' \in [Chatters -> {"none", "opening", "on", "gone"}]
      /\ reader' \in [Chatters -> {"none", "opening", "on", "gone"}]
      /\ \A d \in Chatters : /\ sender'[d] = sender[d] \/ (sender[d] = "opening" /\ sender'[d] = "on")
                             /\ reader'[d] = reader[d] \/ (reader[d] = "opening" /\ reader'[d] = "on")
  <2>1. CASE ServerOpens1
    BY <2>1 DEF ChatInv, ChatTypes, ServerOpens1, Opened
  <2>2. CASE ServerOpens2
    BY <2>2 DEF ChatInv, ChatTypes, ServerOpens2, Opened
  <2> QED BY <2>1, <2>2
<1>4. ChatTypes'
  BY <1>1, <1>3 DEF ChatInv, ChatTypes, ChatOpens
<1>5. /\ ServerOpens1 => \E d \in Chatters : reader'[d] = "on"
      /\ ServerOpens2 => \E d \in Chatters : sender'[d] = "on"
  BY DEF ChatInv, ChatTypes, ServerOpens1, ServerOpens2, Opened, Asleep
<1>6. AllStay' => AllStay
  BY <1>3 DEF AllStay
<1>7. StayOK'
  <2>1. \A d \in Chatters : (sender'[d] = "gone" <=> reader'[d] = "gone") /\ (sender'[d] = "none" <=> reader'[d] = "none")
    BY <1>3 DEF ChatInv, StayOK
  <2>2. ASSUME AllStay'
        PROVE  /\ \E d \in Chatters : reader'[d] = "on"
               /\ srv' = "read" => \E d \in Chatters : sender'[d] = "on"
    BY <1>3, <1>5, <1>6, <2>2 DEF ChatInv, StayOK, ServerOpens1, ServerOpens2
  <2> QED BY <1>1, <1>6, <2>1, <2>2 DEF ChatInv, StayOK, ChatOpens, ToSet
<1> QED BY <1>2, <1>4, <1>7 DEF ChatInv


(* What is typed is new.                                                   *)
LEMMA NewMessage ==
  ASSUME ChatInv, NEW c \in Chatters
  PROVE  LET m == <<c, Cardinality(said) + 1>> IN
         /\ m \in Message /\ m # Blank /\ m \notin Known
         /\ IsFiniteSet(said \cup {m}) /\ Cardinality(said \cup {m}) = Cardinality(said) + 1
         /\ Cardinality(said) \in Nat
<1> DEFINE m == <<c, Cardinality(said) + 1>>
<1>1. IsFiniteSet(said) /\ Cardinality(said) \in Nat
  BY FS_CardinalityType DEF ChatInv, ChatTypes
<1>2. c \in Nat /\ c > 0
  BY ChatConstants DEF Chatters
<1>3. m \in Message /\ m # Blank
  BY <1>1, <1>2 DEF Message, Blank
<1>4. m \notin said
  BY <1>1 DEF ChatInv, SerialsOK
<1>5. IsFiniteSet(said \cup {m}) /\ Cardinality(said \cup {m}) = Cardinality(said) + 1
  BY <1>1, <1>4, FS_AddElement
<1> QED BY <1>1, <1>3, <1>4, <1>5 DEF Known

(* A client types a message: it is in the second FIFO and nowhere else.    *)
LEMMA ChatSays ==
  ASSUME ChatInv, NEW c \in Chatters, Say(c)
  PROVE  ChatInv'
<1>0. PICK m : m = <<c, Cardinality(said) + 1>>
  OBVIOUS
<1>1. /\ m \in Message /\ m # Blank /\ m \notin Known
      /\ IsFiniteSet(said \cup {m}) /\ Cardinality(said \cup {m}) = Cardinality(said) + 1
      /\ Cardinality(said) \in Nat
  BY <1>0, NewMessage
<1>2. /\ said' = said \cup {m}
      /\ UNCHANGED <<srv, held, chan1, displays, readOff, again>>
      /\ \/ srv = "dead" /\ wasted' = wasted \cup {m} /\ UNCHANGED chan2
         \/ srv # "dead" /\ chan2' = Append(chan2, m) /\ UNCHANGED <<sender, reader, wasted>>
  BY <1>0 DEF Say
<1>3. /\ sender' \in [Chatters -> {"none", "opening", "on", "gone"}]
      /\ reader' \in [Chatters -> {"none", "opening", "on", "gone"}]
      /\ \A d \in Chatters : (sender'[d] = "gone" <=> reader'[d] = "gone") /\ (sender'[d] = "none" <=> reader'[d] = "none")
      /\ AllStay' => AllStay /\ UNCHANGED <<sender, reader>>
  BY DEF Say, ChatInv, ChatTypes, StayOK, AllStay
<1>4. chan2' \in Seq(Message) /\ (ToSet(chan2') = ToSet(chan2) \/ ToSet(chan2') = ToSet(chan2) \cup {m})
  <2>1. chan2 \in Seq(Message)
    BY DEF ChatInv, ChatTypes
  <2>2. Append(chan2, m) \in Seq(Message) /\ ToSet(Append(chan2, m)) = ToSet(chan2) \cup {m}
    BY <1>1, <2>1, ToSetAppend, AppendElements
  <2> QED BY <1>2, <2>1, <2>2
<1>5. ChatTypes'
  BY <1>1, <1>2, <1>3, <1>4 DEF ChatInv, ChatTypes
<1>6. ChatRoom'
  BY <1>2 DEF ChatInv, ChatRoom
<1>7. SerialsOK'
  BY <1>0, <1>1, <1>2 DEF ChatInv, SerialsOK
<1>8. Origin'
  BY <1>2, <1>4 DEF ChatInv, Origin, Known, ToSet
<1>9. ASSUME NEW n \in said', n \notin again', n \notin wasted'
      PROVE  Spot(n)' /\ Seen(n)'
  <2>1. CASE n # m
    <3>1. Spot(n) /\ Seen(n)
      BY <1>2, <1>9, <2>1 DEF ChatInv, SpotsOK
    <3>2. chan2 \in Seq(Message)
      BY DEF ChatInv, ChatTypes
    <3>3. /\ In2(n)' <=> In2(n)
          /\ \A k, l \in 1..Len(chan2') : chan2'[k] = n /\ chan2'[l] = n => k = l
      <4>1. CASE UNCHANGED chan2
        BY <3>1, <4>1 DEF Spot, In2
      <4>2. CASE chan2' = Append(chan2, m)
        <5>1. /\ Len(chan2') = Len(chan2) + 1 /\ chan2'[Len(chan2) + 1] = m
              /\ \A i \in 1..Len(chan2) : chan2'[i] = chan2[i]
              /\ Len(chan2) \in Nat
          BY <1>1, <3>2, <4>2, AppendElements
        <5> QED BY <2>1, <3>1, <5>1 DEF Spot, In2
      <4> QED BY <1>2, <4>1, <4>2
    <3>4. Spot(n)'
      BY <1>2, <3>1, <3>3 DEF Spot, In1, InBuf, Off, ToSet
    <3>5. Seen(n)'
      BY <1>2, <3>1 DEF Seen, Off
    <3> QED BY <3>4, <3>5
  <2>2. CASE n = m
    <3>1. srv # "dead" /\ chan2' = Append(chan2, m)
      BY <1>2, <1>9, <2>2
    <3>2. /\ Len(chan2') = Len(chan2) + 1 /\ chan2'[Len(chan2) + 1] = m
          /\ \A i \in 1..Len(chan2) : chan2'[i] = chan2[i]
          /\ Len(chan2) \in Nat /\ chan2 \in Seq(Message)
      BY <1>1, <3>1, AppendElements DEF ChatInv, ChatTypes
    <3>3. \A i \in 1..Len(chan2) : chan2[i] # m
      BY <1>1, <3>2, ToSetFacts DEF ChatInv, Origin, Known
    <3>4. /\ m \notin ToSet(held) /\ m \notin readOff
          /\ \A k \in 1..Len(chan1) : m \notin ToSet(chan1[k])
          /\ \A d \in Chatters : <<d, m>> \notin displays
      BY <1>1 DEF ChatInv, Origin
    <3>5. In2(m)' /\ ~In1(m)' /\ ~InBuf(m)' /\ ~Off(m)'
      BY <1>2, <3>2, <3>4 DEF In1, In2, InBuf, Off, ToSet
    <3>6. Spot(m)'
      BY <1>2, <3>2, <3>3, <3>4, <3>5 DEF Spot, ToSet
    <3>7. Seen(m)'
      BY <1>2, <3>4 DEF Seen
    <3> QED BY <2>2, <3>6, <3>7
  <2> QED BY <2>1, <2>2
<1>10. SpotsOK'
  BY <1>9 DEF SpotsOK
<1>11. StayOK'
  BY <1>2, <1>3 DEF ChatInv, StayOK, ToSet
<1> QED BY <1>5, <1>6, <1>7, <1>8, <1>10, <1>11 DEF ChatInv


(* A client reads what is in the first FIFO and shows it: the message has  *)
(* gone from there, so that no other client will show it.                  *)
LEMMA ChatHears ==
  ASSUME ChatInv, NEW c \in Chatters, Hear(c)
  PROVE  ChatInv'
<1>0. PICK copy : copy = Head(chan1)
  OBVIOUS
<1>1. /\ chan1 \in Seq(Seq(Message)) /\ chan1 # <<>>
  BY DEF Hear, ChatInv, ChatTypes
<1>2. /\ Len(chan1) > 0 /\ copy = chan1[1] /\ copy \in Seq(Message)
      /\ chan1' \in Seq(Seq(Message)) /\ Len(chan1) \in Nat /\ Len(chan1') = Len(chan1) - 1
      /\ \A i \in 1..Len(chan1') : i + 1 \in 1..Len(chan1) /\ chan1'[i] = chan1[i + 1]
  BY <1>0, <1>1, TailElements DEF Hear, TakenBy
<1>3. copy # <<>> /\ copy[1] \in ToSet(copy)
  <2>1. copy # <<>>
    BY <1>2 DEF ChatInv, ChatTypes
  <2> QED BY <1>2, <2>1, ToSetFacts
<1>4. /\ readOff' = readOff \cup ToSet(copy)
      /\ displays' = displays \/ displays' = displays \cup {<<c, copy[1]>>}
      /\ UNCHANGED <<srv, held, chan2, sender, reader, said, wasted, again>>
  BY <1>0 DEF Hear
<1>5. ChatTypes'
  BY <1>2, <1>4 DEF ChatInv, ChatTypes
<1>6. ChatRoom' /\ SerialsOK'
  BY <1>2, <1>4, ChatConstants DEF ChatInv, ChatRoom, SerialsOK
<1>7. ToSet(copy) \subseteq Known
  BY <1>2 DEF ChatInv, Origin
<1>8. Origin'
  <2>1. \A k \in 1..Len(chan1') : ToSet(chan1'[k]) \subseteq Known
    BY <1>2 DEF ChatInv, Origin
  <2>2. Known' = Known /\ ToSet(chan2') = ToSet(chan2) /\ ToSet(held') = ToSet(held)
    BY <1>4 DEF Known, ToSet
  <2>3. \A d \in Chatters : \A m : <<d, m>> \in displays' => m \in Known
    BY <1>3, <1>4, <1>7 DEF ChatInv, Origin
  <2> QED BY <1>4, <1>7, <2>1, <2>2, <2>3 DEF ChatInv, Origin, ToSet
<1>9. ASSUME NEW n \in said', n \notin again', n \notin wasted'
      PROVE  Spot(n)' /\ Seen(n)'
  <2>1. Spot(n) /\ Seen(n)
    BY <1>4, <1>9 DEF ChatInv, SpotsOK
  <2>2. (In2(n)' <=> In2(n)) /\ (InBuf(n)' <=> InBuf(n))
    BY <1>4 DEF In2, InBuf, ToSet
  <2>3. \A k, l \in 1..Len(chan2') : chan2'[k] = n /\ chan2'[l] = n => k = l
    BY <1>4, <2>1 DEF Spot
  <2>4. Off(n)' <=> Off(n) \/ n \in ToSet(copy)
    BY <1>4 DEF Off
  <2>5. \A k, l \in 1..Len(chan1') : n \in ToSet(chan1'[k]) /\ n \in ToSet(chan1'[l]) => k = l
    <3>1. \A k, l \in 1..Len(chan1) : n \in ToSet(chan1[k]) /\ n \in ToSet(chan1[l]) => k = l
      BY <2>1 DEF Spot
    <3>2. TAKE k, l \in 1..Len(chan1')
    <3>3. /\ chan1'[k] = chan1[k + 1] /\ k + 1 \in 1..Len(chan1)
          /\ chan1'[l] = chan1[l + 1] /\ l + 1 \in 1..Len(chan1)
      BY <1>2
    <3>4. k \in Int /\ l \in Int
      BY <1>2
    <3>5. n \in ToSet(chan1[k + 1]) /\ n \in ToSet(chan1[l + 1]) => k + 1 = l + 1
      BY <3>1, <3>3
    <3> QED BY <3>3, <3>4, <3>5
  <2>6. /\ n \in ToSet(copy) => In1(n) /\ ~In1(n)'
        /\ n \notin ToSet(copy) => (In1(n)' <=> In1(n))
    <3>1. In1(n)' <=> \E k \in 1..Len(chan1') : n \in ToSet(chan1'[k])
      BY DEF In1, ToSet
    <3>2. ASSUME n \in ToSet(copy)
          PROVE  In1(n) /\ ~In1(n)'
      <4>1. 1 \in 1..Len(chan1) /\ n \in ToSet(chan1[1])
        BY <1>2, <3>2
      <4>2. \A k \in 1..Len(chan1) : n \in ToSet(chan1[k]) => k = 1
        BY <2>1, <4>1 DEF Spot
      <4>3. \A k \in 1..Len(chan1') : n \notin ToSet(chan1'[k])
        <5>1. TAKE k \in 1..Len(chan1')
        <5>2. k + 1 \in 1..Len(chan1) /\ chan1'[k] = chan1[k + 1] /\ k + 1 # 1
          BY <1>2
        <5> QED BY <4>2, <5>2
      <4> QED BY <3>1, <4>1, <4>3 DEF In1
    <3>3. ASSUME n \notin ToSet(copy)
          PROVE  In1(n)' <=> In1(n)
      <4>1. ASSUME In1(n)
            PROVE  \E k \in 1..Len(chan1') : n \in ToSet(chan1'[k])
        <5>1. PICK k \in 1..Len(chan1) : n \in ToSet(chan1[k])
          BY <4>1 DEF In1
        <5>2. k - 1 \in 1..Len(chan1') /\ chan1'[k - 1] = chan1[k]
          BY <1>2, <3>3, <5>1
        <5> QED BY <5>1, <5>2
      <4>2. ASSUME \E k \in 1..Len(chan1') : n \in ToSet(chan1'[k])
            PROVE  In1(n)
        BY <1>2, <4>2 DEF In1
      <4> QED BY <3>1, <4>1, <4>2
    <3> QED BY <3>2, <3>3
  <2>7. Spot(n)'
    <3>1. /\ In2(n)' \/ In1(n)' \/ InBuf(n)' \/ Off(n)'
          /\ In2(n)' => ~In1(n)' /\ ~InBuf(n)' /\ ~Off(n)'
          /\ In1(n)' => ~InBuf(n)' /\ ~Off(n)'
          /\ InBuf(n)' => ~Off(n)'
      BY <2>1, <2>2, <2>4, <2>6 DEF Spot
    <3> QED BY <2>3, <2>5, <3>1 DEF Spot, ToSet
  <2>8. Seen(n)'
    <3>1. \A d \in Chatters : <<d, n>> \in displays => Off(n) /\ n \notin ToSet(copy)
      BY <2>1, <2>6 DEF Seen, Spot
    <3>2. \A d \in Chatters : <<d, n>> \in displays' => <<d, n>> \in displays \/ (d = c /\ n \in ToSet(copy))
      BY <1>3, <1>4
    <3> QED BY <2>1, <2>4, <3>1, <3>2 DEF Seen
  <2> QED BY <2>7, <2>8
<1>10. SpotsOK'
  BY <1>9 DEF SpotsOK
<1>11. StayOK'
  <2>1. (AllStay' <=> AllStay) /\ ToSet(held') = ToSet(held)
    BY <1>4 DEF AllStay, ToSet
  <2>2. AllStay => Blank \notin ToSet(copy) /\ \A k \in 1..Len(chan1') : Blank \notin ToSet(chan1'[k])
    BY <1>2, SMTT(30) DEF ChatInv, StayOK
  <2> QED BY <1>4, <2>1, <2>2 DEF ChatInv, StayOK, ToSet
<1> QED BY <1>5, <1>6, <1>8, <1>10, <1>11 DEF ChatInv

(* The server's read takes everything out of the second FIFO.              *)
LEMMA ChatReads ==
  ASSUME ChatInv, ServerReads
  PROVE  ChatInv'
<1>1. /\ srv = "read" /\ srv' = "write" /\ chan2' = <<>>
      /\ UNCHANGED <<chan1, sender, reader, said, displays, readOff, wasted>>
  BY DEF ServerReads
<1>2. chan2 \in Seq(Message) /\ held \in Seq(Message) /\ held # <<>>
  BY DEF ChatInv, ChatTypes
<1>3. \/ chan2 # <<>> /\ held' = chan2 /\ again' = again
      \/ /\ chan2 = <<>> /\ held' = held /\ again' = again \cup ToSet(held)
         /\ \A c \in Chatters : sender[c] # "on"
  BY DEF ServerReads, Received, EndOfInput, Writing
<1>4. chan2' \in Seq(Message) /\ ToSet(chan2') = {} /\ Len(chan2') = 0
  BY <1>1 DEF ToSet
<1>5. ChatTypes'
  BY <1>1, <1>2, <1>3, <1>4 DEF ChatInv, ChatTypes
<1>6. ChatRoom' /\ SerialsOK'
  BY <1>1 DEF ChatInv, ChatRoom, SerialsOK
<1>7. Origin'
  BY <1>1, <1>3, <1>4 DEF ChatInv, Origin, Known, ToSet
<1>8. ASSUME NEW n \in said', n \notin again', n \notin wasted'
      PROVE  Spot(n)' /\ Seen(n)'
  <2>1. Spot(n) /\ Seen(n) /\ ~InBuf(n)
    BY <1>1, <1>3, <1>8 DEF ChatInv, SpotsOK, InBuf
  <2>2. ~In2(n)' /\ (In1(n)' <=> In1(n)) /\ (Off(n)' <=> Off(n))
    BY <1>1, <1>4 DEF In1, In2, Off, ToSet
  <2>3. InBuf(n)' <=> In2(n)
    <3>1. InBuf(n)' <=> n \in ToSet(held')
      BY <1>1 DEF InBuf, ToSet
    <3>2. CASE chan2 = <<>>
      BY <1>2, <1>3, <1>8, <3>1, <3>2 DEF In2
    <3>3. CASE chan2 # <<>>
      BY <1>2, <1>3, <3>1, <3>3, ToSetFacts DEF In2
    <3> QED BY <3>2, <3>3
  <2>4. Spot(n)'
    BY <1>1, <1>4, <2>1, <2>2, <2>3 DEF Spot, ToSet
  <2>5. Seen(n)'
    BY <1>1, <2>1 DEF Seen, Off
  <2> QED BY <2>4, <2>5
<1>9. SpotsOK'
  BY <1>8 DEF SpotsOK
<1>10. StayOK'
  <2>1. ASSUME AllStay
        PROVE  held' = chan2 /\ again' = again
    BY <1>1, <1>3, <2>1 DEF ChatInv, StayOK
  <2>2. Blank \notin ToSet(chan2)
    <3>1. Blank \notin said
      BY ChatConstants DEF ChatInv, SerialsOK, Blank, Chatters
    <3> QED BY <3>1 DEF ChatInv, Origin
  <2>3. AllStay' <=> AllStay
    BY <1>1 DEF AllStay
  <2> QED BY <1>1, <2>1, <2>2, <2>3 DEF ChatInv, StayOK, ToSet
<1> QED BY <1>5, <1>6, <1>7, <1>9, <1>10 DEF ChatInv

(* The server's write puts its buffer into the first FIFO.                 *)
LEMMA ChatWrites ==
  ASSUME ChatInv, ServerWrites
  PROVE  ChatInv'
<1>1. /\ srv = "write"
      /\ UNCHANGED <<held, chan2, sender, reader, said, displays, readOff, again>>
  BY DEF ServerWrites
<1>2. /\ chan1 \in Seq(Seq(Message)) /\ chan2 \in Seq(Message) /\ held \in Seq(Message)
      /\ held # <<>>
  BY DEF ChatInv, ChatTypes
<1>3. SerialsOK'
  BY <1>1 DEF ChatInv, SerialsOK
<1>4. AllStay' <=> AllStay
  BY <1>1 DEF AllStay
<1>5. CASE \A d \in Chatters : reader[d] # "on"
  <2>1. /\ srv' = "dead" /\ chan1' = <<>>
        /\ wasted' = wasted \cup UNION {ToSet(copy) : copy \in ToSet(chan1) \cup {held, chan2}}
    BY <1>5 DEF ServerWrites, Reading
  <2>2. Len(chan1') = 0 /\ chan1' \in Seq(Seq(Message))
    BY <2>1
  <2>3. ChatTypes' /\ ChatRoom'
    BY <1>1, <2>1, <2>2, ChatConstants DEF ChatInv, ChatTypes, ChatRoom
  <2>4. Origin'
    BY <1>1, <2>2 DEF ChatInv, Origin, Known, ToSet
  <2>5. ASSUME NEW n \in said', n \notin again', n \notin wasted'
        PROVE  Spot(n)' /\ Seen(n)'
    <3>1. Spot(n) /\ Seen(n)
      BY <1>1, <2>1, <2>5 DEF ChatInv, SpotsOK
    <3>2. n \notin ToSet(chan2) /\ n \notin ToSet(held) /\ \A copy \in ToSet(chan1) : n \notin ToSet(copy)
      BY <2>1, <2>5
    <3>3. ~In2(n) /\ ~InBuf(n) /\ ~In1(n)
      <4>1. \A k \in 1..Len(chan1) : chan1[k] \in ToSet(chan1)
        BY <1>2, ToSetFacts
      <4>2. \A k \in 1..Len(chan2) : chan2[k] \in ToSet(chan2)
        BY <1>2, ToSetFacts
      <4> QED BY <3>2, <4>1, <4>2 DEF In2, InBuf, In1
    <3>4. ~In2(n)' /\ ~InBuf(n)' /\ ~In1(n)' /\ Off(n)'
      BY <1>1, <2>1, <2>2, <3>1, <3>3 DEF Spot, In2, InBuf, In1, Off
    <3>5. Spot(n)'
      BY <1>1, <2>2, <3>1, <3>4 DEF Spot, ToSet
    <3>6. Seen(n)'
      BY <1>1, <3>1 DEF Seen, Off
    <3> QED BY <3>5, <3>6
  <2>6. SpotsOK'
    BY <2>5 DEF SpotsOK
  <2>7. StayOK'
    <3>1. ~AllStay
      BY <1>1, <1>5 DEF ChatInv, StayOK
    <3> QED BY <1>1, <1>4, <3>1 DEF ChatInv, StayOK
  <2> QED BY <1>3, <2>3, <2>4, <2>6, <2>7 DEF ChatInv
<1>6. CASE \E d \in Chatters : reader[d] = "on"
  <2>1. /\ srv' = "read" /\ chan1' = Append(chan1, held) /\ UNCHANGED wasted
        /\ Len(chan1) < ChanCap
    BY <1>6 DEF ServerWrites, Reading
  <2>2. /\ chan1' \in Seq(Seq(Message)) /\ Len(chan1) \in Nat /\ Len(chan1') = Len(chan1) + 1
        /\ chan1'[Len(chan1) + 1] = held
        /\ \A i \in 1..Len(chan1) : chan1'[i] = chan1[i]
    BY <1>2, <2>1, AppendElements
  <2>3. \A k \in 1..Len(chan1') : k \in 1..Len(chan1) \/ k = Len(chan1) + 1
    BY <2>2
  <2>4. ChatTypes' /\ ChatRoom'
    BY <1>1, <1>2, <2>1, <2>2, <2>3, ChatConstants DEF ChatInv, ChatTypes, ChatRoom
  <2>5. Origin'
    <3>1. \A k \in 1..Len(chan1') : ToSet(chan1'[k]) \subseteq Known
      BY <2>2, <2>3 DEF ChatInv, Origin
    <3> QED BY <1>1, <3>1 DEF ChatInv, Origin, Known, ToSet
  <2>6. ASSUME NEW n \in said', n \notin again', n \notin wasted'
        PROVE  Spot(n)' /\ Seen(n)'
    <3>1. Spot(n) /\ Seen(n)
      BY <1>1, <2>1, <2>6 DEF ChatInv, SpotsOK
    <3>2. (In2(n)' <=> In2(n)) /\ ~InBuf(n)' /\ (Off(n)' <=> Off(n))
      BY <1>1, <2>1 DEF In2, InBuf, Off
    <3>3. InBuf(n) <=> n \in ToSet(held)
      BY <1>1 DEF InBuf
    <3>4. (In1(n) <=> \E k \in 1..Len(chan1) : n \in ToSet(chan1[k]))
          /\ (In1(n)' <=> \E k \in 1..Len(chan1') : n \in ToSet(chan1'[k]))
      BY DEF In1, ToSet
    <3>5. In1(n)' <=> In1(n) \/ InBuf(n)
      <4>1. Len(chan1) + 1 \in 1..Len(chan1') /\ 1..Len(chan1) \subseteq 1..Len(chan1')
        BY <2>2
      <4>2. ASSUME In1(n)'
            PROVE  In1(n) \/ InBuf(n)
        <5>1. PICK k \in 1..Len(chan1') : n \in ToSet(chan1'[k])
          BY <3>4, <4>2
        <5> QED BY <2>2, <2>3, <3>3, <3>4, <5>1
      <4>3. ASSUME In1(n)
            PROVE  In1(n)'
        <5>1. PICK k \in 1..Len(chan1) : n \in ToSet(chan1[k])
          BY <3>4, <4>3
        <5>2. chan1'[k] = chan1[k] /\ k \in 1..Len(chan1')
          BY <2>2, <4>1, <5>1
        <5> QED BY <3>4, <5>1, <5>2
      <4>4. ASSUME InBuf(n)
            PROVE  In1(n)'
        BY <2>2, <3>3, <3>4, <4>1, <4>4
      <4> QED BY <4>2, <4>3, <4>4
    <3>6. \A k, l \in 1..Len(chan1') : n \in ToSet(chan1'[k]) /\ n \in ToSet(chan1'[l]) => k = l
      BY <2>2, <2>3, <3>1, <3>3 DEF Spot, In1
    <3>7. Spot(n)'
      BY <1>1, <3>1, <3>2, <3>5, <3>6 DEF Spot, ToSet
    <3>8. Seen(n)'
      BY <1>1, <3>1 DEF Seen, Off
    <3> QED BY <3>7, <3>8
  <2>7. SpotsOK'
    BY <2>6 DEF SpotsOK
  <2>8. StayOK'
    <3>1. ASSUME AllStay
          PROVE  \A k \in 1..Len(chan1') : Blank \notin ToSet(chan1'[k])
      BY <1>1, <2>2, <2>3, <3>1 DEF ChatInv, StayOK
    <3> QED BY <1>1, <1>4, <2>1, <3>1 DEF ChatInv, StayOK, ToSet
  <2> QED BY <1>3, <2>4, <2>5, <2>7, <2>8 DEF ChatInv
<1> QED BY <1>5, <1>6


(* The chat starts with empty FIFOs.                                       *)
LEMMA ChatStarts == ChatInit => ChatInv
<1> SUFFICES ASSUME ChatInit PROVE ChatInv
  OBVIOUS
<1> USE DEF ChatInit
<1>1. Blank \in Message /\ <<Blank>> \in Seq(Message)
  BY DEF Blank, Message
<1>2. IsFiniteSet(said)
  BY FS_EmptySet
<1>3. ChatTypes
  BY <1>1, <1>2 DEF ChatTypes
<1>4. ChatRoom /\ SerialsOK
  BY ChatConstants DEF ChatRoom, SerialsOK
<1>5. ToSet(held) = {Blank} /\ ToSet(chan2) = {}
  BY DEF ToSet
<1>6. Origin /\ SpotsOK
  BY <1>5 DEF Origin, Known, SpotsOK
<1>7. StayOK
  BY DEF StayOK
<1> QED BY <1>3, <1>4, <1>6, <1>7 DEF ChatInv

(* Every step of the chat keeps the invariant.                             *)
LEMMA ChatKeeps == ChatInv /\ [ChatNext]_chatVars => ChatInv'
<1> SUFFICES ASSUME ChatInv, [ChatNext]_chatVars PROVE ChatInv'
  OBVIOUS
<1>1. CASE UNCHANGED chatVars
  <2>1. UNCHANGED <<srv, held, chan1, chan2, sender, reader, said, displays, readOff, wasted, again>>
    BY <1>1 DEF chatVars
  <2>2. ChatRoom' /\ SerialsOK' /\ Origin' /\ SpotsOK'
    BY <2>1, ChatFrame DEF ChatOpens
  <2>3. ChatTypes'
    BY <2>1 DEF ChatInv, ChatTypes
  <2>4. StayOK'
    BY <2>1 DEF ChatInv, StayOK, AllStay, ToSet
  <2> QED BY <2>2, <2>3, <2>4 DEF ChatInv
<1>2. CASE ChatNext
  BY <1>2, ChatClients, ChatServerOpens, ChatSays, ChatHears, ChatReads, ChatWrites DEF ChatNext
<1> QED BY <1>1, <1>2

(* What the places of a message add up to.                                 *)
LEMMA AtMostOne ==
  ASSUME NEW S, \A x, y \in S : x = y
  PROVE  Cardinality(S) = IF S = {} THEN 0 ELSE 1
<1>1. CASE S = {}
  BY <1>1, FS_EmptySet
<1>2. CASE S # {}
  <2>1. PICK x \in S : TRUE
    BY <1>2
  <2>2. S = {x}
    BY <2>1
  <2> QED BY <1>2, <2>2, FS_Singleton
<1> QED BY <1>1, <1>2

(* What the invariant says of the property that the run checks.            *)
LEMMA ChatHolds == ChatInv => ChatSafe /\ ChatTypeOK
<1> SUFFICES ASSUME ChatInv PROVE ChatSafe /\ ChatTypeOK
  OBVIOUS
<1>1. ASSUME NEW m \in said \ (again \cup wasted)
      PROVE  Places(m) = 1 /\ Cardinality({c \in Chatters : <<c, m>> \in displays}) <= 1
  <2> DEFINE T == {k \in 1..Len(chan2) : chan2[k] = m}
             C == Copies(m)
             D == {c \in Chatters : <<c, m>> \in displays}
  <2>1. Spot(m) /\ Seen(m)
    BY <1>1 DEF ChatInv, SpotsOK
  <2>2. Cardinality(T) = IF T = {} THEN 0 ELSE 1
    <3>1. \A x, y \in T : x = y
      BY <2>1 DEF Spot
    <3> QED BY <3>1, AtMostOne
  <2>3. Cardinality(C) = IF C = {} THEN 0 ELSE 1
    <3>1. \A x, y \in C : x = y
      BY <2>1 DEF Spot, Copies
    <3> QED BY <3>1, AtMostOne
  <2>4. Cardinality(D) = IF D = {} THEN 0 ELSE 1
    <3>1. \A x, y \in D : x = y
      BY <2>1 DEF Seen
    <3> QED BY <3>1, AtMostOne
  <2>5. (T # {} <=> In2(m)) /\ (C # {} <=> In1(m))
    BY DEF In2, In1, Copies
  <2>6. Places(m) = Cardinality(T) + Cardinality(C)
                      + (IF InBuf(m) THEN 1 ELSE 0) + (IF Off(m) THEN 1 ELSE 0)
    BY DEF Places, InBuf, Off
  <2> HIDE DEF T, C, D
  <2>7. Places(m) = 1
    BY <2>1, <2>2, <2>3, <2>5, <2>6 DEF Spot
  <2>8. Cardinality(D) <= 1
    BY <2>4
  <2> QED BY <2>7, <2>8 DEF D
<1>2. OnePlace
  BY <1>1 DEF OnePlace
<1>3. QuietWhileAllStay
  BY DEF QuietWhileAllStay, ChatInv, StayOK, AllStay
<1>4. ChatTypeOK
  BY DEF ChatTypeOK, ChatInv, ChatTypes, ChatRoom, Origin
<1> QED BY <1>2, <1>3, <1>4 DEF ChatSafe

(* For any number of clients and messages, and whatever the clients and    *)
(* the server do in whatever order: a message is in one place at a time    *)
(* and one client at most shows it, and as long as nobody leaves the       *)
(* server lives and sends nothing twice (server.c:37-46, client.c:23-71).  *)
THEOREM ChatReachesOneClient == Spec => []ChatSafe
<1>1. Init => ChatInv
  BY ChatStarts DEF Init
<1>2. ChatInv /\ [Next]_<<lab, audioVars, dataVars, tsVars, superVars, chatVars>> => ChatInv'
  BY ChatKeeps DEF Next
<1>3. ChatInv => ChatSafe
  BY ChatHolds
<1> QED BY <1>1, <1>2, <1>3, PTL DEF Spec

-----------------------------------------------------------------------------
(* The five servers together                                               *)

LabInv == AudioInv /\ DataInv /\ ThreadInv /\ SuperInv /\ ChatInv

(* The state of each of the five servers keeps its types, for any number   *)
(* of clients, streams, services and messages.                             *)
THEOREM LabTypesKept == Spec => []LabTypeOK
<1>1. Init => LabInv
  BY AudioStarts, DataStarts, ThreadStarts, SuperStarts, ChatStarts DEF Init, LabInv
<1>2. LabInv /\ [Next]_<<lab, audioVars, dataVars, tsVars, superVars, chatVars>> => LabInv'
  BY AudioKeeps, DataKeeps, ThreadKeeps, SuperKeeps, ChatKeeps DEF Next, LabInv
<1>3. LabInv => LabTypeOK
  BY ThreadHolds, ChatHolds
     DEF LabInv, LabTypeOK, AudioInv, AudioTypes, DataInv, DataTypes, SuperInv, SuperTypes
<1> QED
  BY <1>1, <1>2, <1>3, PTL DEF Spec
============================================================================
