------------------------------ MODULE ChatFifo ------------------------------
(***************************************************************************)
(* 10-11-22/ChatServer: the clients write to channel2, the server copies   *)
(* what it reads there to channel1, and all clients read channel1.  Each   *)
(* copy reaches the one client that reads it; its own sender shows nothing *)
(* (a message is meant for the others).  A read at the end of channel2     *)
(* leaves the server's buffer as it was and the old message is sent again. *)
(*                                                                         *)
(* Clients are numbered in the order they start; a message is              *)
(* <<client, serial number>>; Blank is what an empty buffer shows.         *)
(***************************************************************************)
EXTENDS Integers, Sequences, FiniteSets, SequencesExt

CONSTANTS
  NChatters,  \* bound: clients started
  MaxSaid,    \* bound: messages typed in all
  ChanCap     \* copies that channel1 holds

ASSUME ChatConstants == NChatters \in Nat /\ MaxSaid \in Nat /\ ChanCap \in Nat \ {0}

Chatters == 1..NChatters
Blank == <<0, 0>>

VARIABLES
  srv,       \* server: "open1", "open2", "read", "write" or "dead"
  held,      \* the server's buf: messages, the first of which is seen
  chan1,     \* per write of the server: the messages in its 1024 bytes
  chan2,     \* messages that the server has not read
  sender,    \* per client, its send_thread: "none", "opening", "on" or "gone"
  reader,    \* per client, its recv_thread: the same
  said,      \* messages typed so far, a set
  displays,  \* history: <<client, message>> for each time a client printed one
  readOff,   \* history: messages in the copies that clients have read
  wasted,    \* history: messages that died with the server
  again      \* history: messages that the server sent more than once

chatVars == <<srv, held, chan1, chan2, sender, reader, said, displays, readOff, wasted, again>>

ChatInit ==
  /\ srv = "open1" /\ held = <<Blank>> /\ chan1 = <<>> /\ chan2 = <<>>
  /\ sender = [c \in Chatters |-> "none"] /\ reader = [c \in Chatters |-> "none"]
  /\ said = {} /\ displays = {} /\ readOff = {} /\ wasted = {} /\ again = {}

Writing == {c \in Chatters : sender[c] = "on"}
Reading == {c \in Chatters : reader[c] = "on"}
Asleep(thread) == {c \in Chatters : thread[c] = "opening"}
Opened(thread) == [c \in Chatters |-> IF thread[c] = "opening" THEN "on" ELSE thread[c]]

-----------------------------------------------------------------------------
(* Clients                                                                 *)

(* main: two threads, each of which opens its channel.                     *)
StartChatter(c) ==
  /\ sender[c] = "none" /\ \A d \in 1..c - 1 : sender[d] # "none"
  /\ sender' = [sender EXCEPT ![c] = "opening"] /\ reader' = [reader EXCEPT ![c] = "opening"]
  /\ UNCHANGED <<srv, held, chan1, chan2, said, displays, readOff, wasted, again>>

(* open of channel2 for writing: the server has it open for reading.       *)
SendOpens(c) ==
  /\ sender[c] = "opening" /\ srv \in {"read", "write"}
  /\ sender' = [sender EXCEPT ![c] = "on"]
  /\ UNCHANGED <<srv, held, chan1, chan2, reader, said, displays, readOff, wasted, again>>

(* open of channel1 for reading: the server has it open for writing.       *)
RecvOpens(c) ==
  /\ reader[c] = "opening" /\ srv \in {"open2", "read", "write"}
  /\ reader' = [reader EXCEPT ![c] = "on"]
  /\ UNCHANGED <<srv, held, chan1, chan2, sender, said, displays, readOff, wasted, again>>

(* scanf, sprintf, write with the NUL.  Without a reader SIGPIPE ends the  *)
(* client.                                                                 *)
Say(c) ==
  /\ sender[c] = "on" /\ Cardinality(said) < MaxSaid
  /\ LET msg == <<c, Cardinality(said) + 1>> IN
       /\ said' = said \cup {msg}
       /\ IF srv = "dead"
          THEN /\ sender' = [sender EXCEPT ![c] = "gone"] /\ reader' = [reader EXCEPT ![c] = "gone"]
               /\ wasted' = wasted \cup {msg} /\ UNCHANGED chan2
          ELSE chan2' = Append(chan2, msg) /\ UNCHANGED <<sender, reader, wasted>>
  /\ UNCHANGED <<srv, held, chan1, displays, readOff, again>>

(* buf_client != client_no                                                 *)
ForMe(c, msg) == msg[1] # c

(* Mutant: the copy stays for the other readers.                           *)
TakenByAll(c) == chan1
(* The read takes the copy away from all other readers.                    *)
TakenBy(c) == Tail(chan1)

(* read of 1024 bytes, as much as one write; only the first string is seen. *)
Hear(c) ==
  /\ reader[c] = "on" /\ chan1 # <<>>
  /\ LET msg == Head(chan1)[1] IN
       displays' = IF ForMe(c, msg) THEN displays \cup {<<c, msg>>} ELSE displays
  /\ readOff' = readOff \cup ToSet(Head(chan1))
  /\ chan1' = TakenBy(c)
  /\ UNCHANGED <<srv, held, chan2, sender, reader, said, wasted, again>>

(* The client is stopped; what nobody can read any more is lost.           *)
Quit(c) ==
  /\ sender[c] \in {"opening", "on"}
  /\ sender' = [sender EXCEPT ![c] = "gone"] /\ reader' = [reader EXCEPT ![c] = "gone"]
  /\ UNCHANGED <<srv, held, chan1, chan2, said, displays, readOff, wasted, again>>

-----------------------------------------------------------------------------
(* Server                                                                  *)

(* open(channel1, O_WRONLY) meets the readers that wait for it.            *)
ServerOpens1 ==
  /\ srv = "open1" /\ Asleep(reader) # {}
  /\ srv' = "open2" /\ reader' = Opened(reader)
  /\ UNCHANGED <<held, chan1, chan2, sender, said, displays, readOff, wasted, again>>

(* open(channel2, O_RDONLY) meets the writers that wait for it.            *)
ServerOpens2 ==
  /\ srv = "open2" /\ Asleep(sender) # {}
  /\ srv' = "read" /\ sender' = Opened(sender)
  /\ UNCHANGED <<held, chan1, chan2, reader, said, displays, readOff, wasted, again>>

(* Mutant: read does not wait for a writer.                                *)
EndOfInputAlways == chan2 = <<>>
EndOfInput == chan2 = <<>> /\ Writing = {}

(* Mutant: only the bytes that read returned are kept.                     *)
ReceivedOnly == chan2
Received == IF chan2 = <<>> THEN held ELSE chan2

(* read: all that is there, or nothing when no writer is left, and then    *)
(* buf still holds the message before.                                     *)
ServerReads ==
  /\ srv = "read" /\ (chan2 # <<>> \/ EndOfInput)
  /\ srv' = "write" /\ chan2' = <<>>
  /\ held' = Received
  /\ again' = IF chan2 = <<>> THEN again \cup ToSet(held) ELSE again
  /\ UNCHANGED <<chan1, sender, reader, said, displays, readOff, wasted>>

(* write of 1024 bytes, which sleeps on a full channel; SIGPIPE when no    *)
(* client reads.                                                           *)
ServerWrites ==
  /\ srv = "write" /\ (Reading = {} \/ Len(chan1) < ChanCap)
  /\ IF Reading = {}
     THEN /\ srv' = "dead" /\ chan1' = <<>>
          /\ wasted' = wasted \cup UNION {ToSet(copy) : copy \in ToSet(chan1) \cup {held, chan2}}
     ELSE srv' = "read" /\ chan1' = Append(chan1, held) /\ UNCHANGED wasted
  /\ UNCHANGED <<held, chan2, sender, reader, said, displays, readOff, again>>

ChatNext ==
  \/ ServerOpens1 \/ ServerOpens2 \/ ServerReads \/ ServerWrites
  \/ \E c \in Chatters : \/ StartChatter(c) \/ SendOpens(c) \/ RecvOpens(c)
                         \/ Say(c) \/ Hear(c) \/ Quit(c)

-----------------------------------------------------------------------------
(* Properties                                                              *)

ChatTypeOK ==
  /\ srv \in {"open1", "open2", "read", "write", "dead"} /\ held # <<>>
  /\ Len(chan1) <= ChanCap /\ ToSet(chan2) \subseteq said
  /\ sender \in [Chatters -> {"none", "opening", "on", "gone"}]
  /\ reader \in [Chatters -> {"none", "opening", "on", "gone"}]

Copies(msg) == {k \in 1..Len(chan1) : msg \in ToSet(chan1[k])}
Places(msg) ==
  Cardinality({k \in 1..Len(chan2) : chan2[k] = msg}) + Cardinality(Copies(msg))
    + (IF srv = "write" /\ msg \in ToSet(held) THEN 1 ELSE 0) + (IF msg \in readOff THEN 1 ELSE 0)

(* A message is in one place at a time and one client at most shows it:    *)
(* the chat has one reader for each message, not all (server.c:46,         *)
(* client.c:61).  Exempt are messages that the server sent again or took   *)
(* with it.                                                                *)
OnePlace ==
  \A msg \in said \ (again \cup wasted) :
    /\ Places(msg) = 1
    /\ Cardinality({c \in Chatters : <<c, msg>> \in displays}) <= 1

(* As long as no client leaves, the server lives, sends nothing twice and  *)
(* nobody reads an empty buffer, in whatever order the threads of clients  *)
(* and server open the two channels (server.c:37-46, client.c:23-71).      *)
QuietWhileAllStay ==
  (\A c \in Chatters : sender[c] # "gone") => srv # "dead" /\ again = {} /\ Blank \notin readOff

(* Messages are in one place at a time, and nothing goes wrong as long as  *)
(* all clients stay (server.c, client.c).                                  *)
ChatSafe == OnePlace /\ QuietWhileAllStay
=============================================================================
