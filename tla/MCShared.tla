------------------------------ MODULE MCShared ------------------------------
(* Shm and Crc32 for TLC, one at a time: job says which one a behaviour is *)
(* about, the other stays idle.                                            *)
EXTENDS Shm, Crc32

VARIABLE job

SharedInit == job \in {"shm", "crc"} /\ Init /\ CrcInit

SharedNext ==
  /\ UNCHANGED job
  /\ \/ job = "shm" /\ Next /\ UNCHANGED crcVars
     \/ job = "crc" /\ CrcNext /\ UNCHANGED vars

sharedVars == <<job, vars, crcVars>>

SharedSpec == SharedInit /\ [][SharedNext]_sharedVars
=============================================================================
