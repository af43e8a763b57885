-------------------------------- MODULE MCLab --------------------------------
(***************************************************************************)
(* The audio streams server, the multi-data server and the servers with a  *)
(* thread for every connection, the super server and the chat server have  *)
(* nothing in common; one run explores one after the other.  "lab" says    *)
(* which moves.                                                            *)
(***************************************************************************)
EXTENDS AudioStreams, DataServer, ThreadServers, SuperServer, ChatFifo

VARIABLE lab

Init == /\ lab \in {"audio", "data", "threads", "super", "chat"}
        /\ AudioInit /\ DataInit /\ SuperInit /\ ChatInit
        /\ TSInit /\ (lab # "threads" => kind = CHOOSE k \in Kinds : TRUE)

Next ==
  /\ UNCHANGED lab
  /\ \/ lab = "audio" /\ AudioNext /\ UNCHANGED <<dataVars, tsVars, superVars, chatVars>>
     \/ lab = "data" /\ DataNext /\ UNCHANGED <<audioVars, tsVars, superVars, chatVars>>
     \/ lab = "threads" /\ TSNext /\ UNCHANGED <<audioVars, dataVars, superVars, chatVars>>
     \/ lab = "super" /\ SuperNext /\ UNCHANGED <<audioVars, dataVars, tsVars, chatVars>>
     \/ lab = "chat" /\ ChatNext /\ UNCHANGED <<audioVars, dataVars, tsVars, superVars>>

Spec == Init /\ [][Next]_<<lab, audioVars, dataVars, tsVars, superVars, chatVars>>

(* The type invariants of the five servers.                                *)
LabTypeOK == AudioTypeOK /\ DataTypeOK /\ TSTypeOK /\ SuperTypeOK /\ ChatTypeOK
=============================================================================
