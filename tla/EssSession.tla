----------------------------- MODULE EssSession -----------------------------
(***************************************************************************)
(* What the clients of 11-2-22/ESS promise each other: one TCP session     *)
(* with the server, used by one client at a time and passed on in the      *)
(* order in which the clients registered.                                  *)
(***************************************************************************)
EXTENDS Sequences

CONSTANTS Clients, FirstClient, Nobody

VARIABLES
  holder,   \* the client that owns the session
  chosen,   \* the successor it has picked, or Nobody
  waiting   \* registered clients that nobody has picked

sessionVars == <<holder, chosen, waiting>>

SessionInit == holder = FirstClient /\ chosen = Nobody /\ waiting = <<>>

Join(c) ==
  /\ waiting' = Append(waiting, c)
  /\ UNCHANGED <<holder, chosen>>

(* The holder picks whoever registered first.                              *)
Choose ==
  /\ chosen = Nobody /\ waiting # <<>>
  /\ chosen' = Head(waiting)
  /\ waiting' = Tail(waiting)
  /\ UNCHANGED holder

HandOver ==
  /\ chosen # Nobody
  /\ holder' = chosen
  /\ chosen' = Nobody
  /\ UNCHANGED waiting

(* The cleaner program drops a registration.                               *)
Drop ==
  /\ waiting # <<>>
  /\ waiting' = Tail(waiting)
  /\ UNCHANGED <<holder, chosen>>

SessionNext == (\E c \in Clients : Join(c)) \/ Choose \/ HandOver \/ Drop

SessionSpec == SessionInit /\ [][SessionNext]_sessionVars
=============================================================================
