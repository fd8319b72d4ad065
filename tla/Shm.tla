-------------------------------- MODULE Shm --------------------------------
(***************************************************************************)
(* TShm (myshm.cpp): one object in each process, all on one key.  The      *)
(* kernel keeps a removed segment until the last process detaches; ids are *)
(* never handed out twice.  Sizes and positions are counted in cells.      *)
(***************************************************************************)
EXTENDS Integers

CONSTANTS Procs,
          MaxSeg,   \* bound on the segments ever created
          MaxSize   \* bound on the size of a segment

ASSUME ShmAssumption == MaxSeg \in Nat \ {0} /\ MaxSize \in Nat \ {0}

Segs  == 1 .. MaxSeg
Sizes == 1 .. MaxSize
NULL  == 0
None  == -1

VARIABLES
  \* the kernel
  keyed,     \* the segment under the key, or None
  segSize,   \* size of each segment, 0 until it is created
  attached,  \* the processes attached to each segment
  data,      \* the cells of each segment that hold data; a fresh one has none
  gone,      \* the segments that are destroyed
  \* members of TShm; m_Addr is the segment mapped there, m_key whether it is set
  m_key, m_shmid, m_Addr,
  \* locals
  pc, size, shmid, nOldSize, Addr,
  \* history
  raced,     \* processes whose ShmExtend found the key taken after its ShmDelete,
             \* and those such an extension has copied its contents over
  lost       \* processes whose ShmDelete lost the race for the removal

kernel  == <<keyed, segSize, attached, data, gone>>
members == <<m_key, m_shmid, m_Addr>>
locals  == <<pc, size, shmid, nOldSize, Addr>>
vars    == <<kernel, members, locals, raced, lost>>

Init ==
  /\ keyed = None
  /\ segSize = [i \in Segs |-> 0]
  /\ attached = [i \in Segs |-> {}] /\ data = [i \in Segs |-> {}] /\ gone = {}
  /\ m_key = [p \in Procs |-> FALSE] /\ m_shmid = [p \in Procs |-> None]
  /\ m_Addr = [p \in Procs |-> NULL]
  /\ pc = [p \in Procs |-> "idle"] /\ size = [p \in Procs |-> 0]
  /\ shmid = [p \in Procs |-> None]
  /\ nOldSize = [p \in Procs |-> 0] /\ Addr = [p \in Procs |-> {}]
  /\ raced = {} /\ lost = {}

Goto(p, from, to) == pc[p] = from /\ pc' = [pc EXCEPT ![p] = to]

\* The call ends; nothing of its locals is left.
Return(p, from) ==
  /\ Goto(p, from, "idle")
  /\ size' = [size EXCEPT ![p] = 0] /\ shmid' = [shmid EXCEPT ![p] = None]
  /\ nOldSize' = [nOldSize EXCEPT ![p] = 0] /\ Addr' = [Addr EXCEPT ![p] = {}]
  /\ raced' = raced \ {p}

Extending(p) == nOldSize[p] > 0
Mapped(p)    == m_Addr[p] # NULL /\ p \in attached[m_Addr[p]]

\* shmdt: the last one out destroys a segment that is removed.
Detach(p, i) ==
  /\ attached' = [attached EXCEPT ![i] = @ \ {p}]
  /\ gone' = IF keyed # i /\ attached[i] = {p} THEN gone \cup {i} ELSE gone

----------------------------------------------------------------------------
\* Calls

\* ShmInit and ShmConnect refuse an object that is connected.
ShmInit(p) ==
  /\ Goto(p, "idle", "create")
  /\ m_shmid[p] = None
  /\ \E s \in Sizes : size' = [size EXCEPT ![p] = s]
  /\ UNCHANGED <<kernel, members, shmid, nOldSize, Addr, raced, lost>>

ShmConnect(p) ==
  /\ Goto(p, "idle", "find")
  /\ m_shmid[p] = None
  /\ UNCHANGED <<kernel, members, size, shmid, nOldSize, Addr, raced, lost>>

\* Nothing happens to an object that is not connected, nor, as shmdt fails,
\* to one whose segment has been detached already.
Disconnect(p) ==
  \/ /\ Mapped(p)
     /\ Detach(p, m_Addr[p])
     /\ m_Addr' = [m_Addr EXCEPT ![p] = NULL] /\ m_shmid' = [m_shmid EXCEPT ![p] = None]
     /\ UNCHANGED <<keyed, segSize, data, m_key>>
  \/ ~Mapped(p) /\ UNCHANGED <<kernel, members>>

ShmDisconnect(p) ==
  /\ Goto(p, "idle", "idle")
  /\ Disconnect(p)
  /\ UNCHANGED <<size, shmid, nOldSize, Addr, raced, lost>>

\* The result of ShmDisconnect is not looked at.  shmget fails without a key.
ShmReconnect(p) ==
  /\ Goto(p, "idle", "find")
  /\ m_key[p]
  /\ Disconnect(p)
  /\ UNCHANGED <<size, shmid, nOldSize, Addr, raced, lost>>

ShmDelete(p) ==
  /\ Goto(p, "idle", "detach")
  /\ m_shmid[p] # None /\ m_Addr[p] # NULL
  /\ UNCHANGED <<kernel, members, size, shmid, nOldSize, Addr, raced, lost>>

\* IPC_STAT fails when the segment is gone; GetFlag likewise.
GetSize(p) == IF m_shmid[p] \in gone THEN -1 ELSE segSize[m_shmid[p]]

\* calloc succeeds, which it cannot for -1 bytes, and the contents are saved.
ShmExtend(p) ==
  /\ Goto(p, "idle", "detach")
  /\ m_shmid[p] # None /\ m_Addr[p] # NULL /\ m_key[p]
  /\ GetSize(p) # -1
  /\ \E s \in Sizes : s > GetSize(p) /\ size' = [size EXCEPT ![p] = s]
  /\ nOldSize' = [nOldSize EXCEPT ![p] = GetSize(p)]
  /\ Addr' = [Addr EXCEPT ![p] = data[m_Addr[p]]]
  /\ raced' = raced \ {p}
  /\ UNCHANGED <<kernel, members, shmid, lost>>

----------------------------------------------------------------------------
\* Steps

\* shmdt of ShmDelete.
Shmdt(p) ==
  \/ /\ Goto(p, "detach", "rmid")
     /\ Mapped(p) /\ Detach(p, m_Addr[p])
     /\ UNCHANGED <<keyed, segSize, data, members, size, shmid, nOldSize, Addr, raced, lost>>
  \/ ~Mapped(p) /\ Return(p, "detach") /\ UNCHANGED <<kernel, members, lost>>

\* m_shmid keeps the id of the removed segment.
RmidStaleId(p) ==
  LET i == m_shmid[p] IN
  \/ /\ pc[p] = "rmid" /\ i \notin gone
     /\ keyed' = IF keyed = i THEN None ELSE keyed
     /\ gone' = IF attached[i] = {} THEN gone \cup {i} ELSE gone
     /\ m_Addr' = [m_Addr EXCEPT ![p] = NULL]
     /\ IF Extending(p) THEN Goto(p, "rmid", "create") /\ UNCHANGED <<size, shmid, nOldSize, Addr, raced>>
                        ELSE Return(p, "rmid")
     /\ UNCHANGED <<segSize, attached, data, m_key, m_shmid, lost>>
  \/ /\ Return(p, "rmid")
     /\ i \in gone
     /\ lost' = lost \cup {p}
     /\ UNCHANGED <<kernel, members>>

\* IPC_RMID frees the key, and the segment when nobody is attached.  It fails
\* when the detaching before it was the end of a segment another process had
\* removed; the members then keep what they were.
Rmid(p) ==
  LET i == m_shmid[p] IN
  \/ /\ pc[p] = "rmid" /\ i \notin gone
     /\ keyed' = IF keyed = i THEN None ELSE keyed
     /\ gone' = IF attached[i] = {} THEN gone \cup {i} ELSE gone
     /\ m_Addr' = [m_Addr EXCEPT ![p] = NULL] /\ m_shmid' = [m_shmid EXCEPT ![p] = None]
     /\ IF Extending(p) THEN Goto(p, "rmid", "create") /\ UNCHANGED <<size, shmid, nOldSize, Addr, raced>>
                        ELSE Return(p, "rmid")
     /\ UNCHANGED <<segSize, attached, data, m_key, lost>>
  \/ /\ Return(p, "rmid")
     /\ i \in gone
     /\ lost' = lost \cup {p}
     /\ UNCHANGED <<kernel, members>>

\* shmget(IPC_CREAT | IPC_EXCL)
Create(p) ==
  \/ /\ Goto(p, "create", "attach")
     /\ keyed = None
     /\ \E i \in Segs :
          /\ segSize[i] = 0 /\ \A j \in 1 .. i - 1 : segSize[j] > 0
          /\ keyed' = i
          /\ segSize' = [segSize EXCEPT ![i] = size[p]]
          /\ shmid' = [shmid EXCEPT ![p] = i]
     /\ UNCHANGED <<attached, data, gone, members, size, nOldSize, Addr, raced, lost>>
  \/ /\ Goto(p, "create", "find")
     /\ keyed # None
     /\ raced' = IF Extending(p) THEN raced \cup {p} ELSE raced
     /\ UNCHANGED <<kernel, members, size, shmid, nOldSize, Addr, lost>>
  \/ /\ Return(p, "create") \* no memory, no id left
     /\ UNCHANGED <<kernel, members, lost>>

\* shmget of a key that is there, or has been a step ago
Find(p) ==
  \/ /\ Goto(p, "find", "attach")
     /\ keyed # None
     /\ shmid' = [shmid EXCEPT ![p] = keyed]
     /\ UNCHANGED <<kernel, members, size, nOldSize, Addr, raced, lost>>
  \/ /\ keyed = None
     /\ Return(p, "find")
     /\ UNCHANGED <<kernel, members, lost>>

\* shmat fails when the segment is gone, or for want of memory; a segment the
\* call has created stays.
Shmat(p) ==
  LET i == shmid[p] IN
  \/ /\ pc[p] = "attach" /\ i \notin gone
     /\ attached' = [attached EXCEPT ![i] = @ \cup {p}]
     /\ m_key' = [m_key EXCEPT ![p] = TRUE]
     /\ m_shmid' = [m_shmid EXCEPT ![p] = i] /\ m_Addr' = [m_Addr EXCEPT ![p] = i]
     /\ lost' = lost \ {p}
     /\ IF Extending(p) THEN Goto(p, "attach", "restore") /\ UNCHANGED <<size, shmid, nOldSize, Addr, raced>>
                        ELSE Return(p, "attach")
     /\ UNCHANGED <<keyed, segSize, data, gone>>
  \/ Return(p, "attach") /\ UNCHANGED <<kernel, members, lost>>

\* One cell short.
RestoreShort(p) ==
  /\ Goto(p, "restore", "extended")
  /\ data' = [data EXCEPT ![m_Addr[p]] =
                (@ \ (1 .. nOldSize[p] - 1)) \cup (Addr[p] \cap 1 .. nOldSize[p] - 1)]
  /\ raced' = IF p \in raced THEN raced \cup attached[m_Addr[p]] ELSE raced
  /\ UNCHANGED <<keyed, segSize, attached, gone, members, size, shmid, nOldSize, Addr, lost>>

\* memcpy of nOldSize cells, whatever the size of the segment found; what
\* lies beyond it is left out.
Restore(p) ==
  /\ Goto(p, "restore", "extended")
  /\ data' = [data EXCEPT ![m_Addr[p]] =
                (@ \ (1 .. nOldSize[p])) \cup (Addr[p] \cap 1 .. segSize[m_Addr[p]])]
  /\ raced' = IF p \in raced THEN raced \cup attached[m_Addr[p]] ELSE raced
  /\ UNCHANGED <<keyed, segSize, attached, gone, members, size, shmid, nOldSize, Addr, lost>>

\* ShmExtend returns 0.
Extended(p) == Return(p, "extended") /\ UNCHANGED <<kernel, members, lost>>

\* The program stores data where it is attached.
Store(p) ==
  /\ pc[p] = "idle" /\ Mapped(p)
  /\ \E c \in 1 .. segSize[m_Addr[p]] : data' = [data EXCEPT ![m_Addr[p]] = @ \cup {c}]
  /\ UNCHANGED <<keyed, segSize, attached, gone, members, locals, raced, lost>>

\* The process exits anywhere in a call, or, through the destructor, outside;
\* another takes its place.
Exit(p) ==
  /\ \/ \E i \in Segs : p \in attached[i] /\ Detach(p, i)
     \/ (\A i \in Segs : p \notin attached[i]) /\ UNCHANGED <<attached, gone>>
  /\ m_key' = [m_key EXCEPT ![p] = FALSE]
  /\ m_shmid' = [m_shmid EXCEPT ![p] = None] /\ m_Addr' = [m_Addr EXCEPT ![p] = NULL]
  /\ pc' = [pc EXCEPT ![p] = "idle"]
  /\ size' = [size EXCEPT ![p] = 0] /\ shmid' = [shmid EXCEPT ![p] = None]
  /\ nOldSize' = [nOldSize EXCEPT ![p] = 0] /\ Addr' = [Addr EXCEPT ![p] = {}]
  /\ raced' = raced \ {p} /\ lost' = lost \ {p}
  /\ UNCHANGED <<keyed, segSize, data>>

Next ==
  \E p \in Procs :
    \/ ShmInit(p) \/ ShmConnect(p) \/ ShmDisconnect(p) \/ ShmReconnect(p) \/ ShmDelete(p)
    \/ ShmExtend(p)
    \/ Shmdt(p) \/ Rmid(p) \/ Create(p) \/ Find(p) \/ Shmat(p) \/ Restore(p) \/ Extended(p)
    \/ Store(p) \/ Exit(p)

Spec == Init /\ [][Next]_vars

----------------------------------------------------------------------------
\* Properties

\* Outside its calls an object is attached to the segment it names and to no
\* other, whatever failed and whoever removed the segment, unless its
\* ShmDelete lost the race for the removal: then it names a segment it is no
\* longer attached to.
AttachExact ==
  \A p \in Procs : pc[p] = "idle" =>
    LET at == {i \in Segs : p \in attached[i]} IN
    /\ m_Addr[p] = NULL <=> m_shmid[p] = None
    /\ IF p \in lost THEN at = {} /\ m_Addr[p] # NULL
                     ELSE at = {m_shmid[p]} \ {None}

\* When ShmExtend returns 0 the object is attached to a segment of the new
\* size with everything the old one held at the call, unless another process
\* created the segment between the removal and the creation, or extended too
\* and copied its own old contents over.
ExtendKeeps ==
  \A p \in Procs : pc[p] = "extended" /\ p \notin raced =>
    /\ Mapped(p) /\ segSize[m_Addr[p]] = size[p]
    /\ Addr[p] \subseteq data[m_Addr[p]]
=============================================================================
