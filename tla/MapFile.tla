------------------------------ MODULE MapFile ------------------------------
(***************************************************************************)
(* TMapFile (mapfile.cpp, the Linux build): objects of one process, each   *)
(* used by a thread of its own, map whole files.  The process's memory is  *)
(* a row of pages; munmap takes away whatever lies in its range.           *)
(***************************************************************************)
EXTENDS Integers, FiniteSets

CONSTANTS Objs,
          Files,
          MaxPages,  \* bound on the size of a file, in pages
          Memory     \* pages of memory for mappings are 1 .. Memory

Pages  == 1 .. Memory
NULL   == 0
NoObj  == "free"
NoFile == "-1"

ASSUME MapFileAssumption ==
  /\ MaxPages \in Nat /\ Memory \in Nat
  /\ IsFiniteSet(Objs) /\ NoObj \notin Objs /\ NoFile \notin Files

VARIABLES
  fileSize,   \* in pages
  memory,     \* the object that mapped the page, or NoObj
  fds,        \* how many descriptors are open on each file
  m_fd,       \* the file its descriptor is open on, or NoFile
  m_strPath, m_nSize, m_Addr,
  mapPc,      \* of the thread that uses the object
  \* history
  unmapped,   \* objects that have unmapped the memory m_Addr points to
  reused      \* some mmap got memory such an object points to

mapVars == <<fileSize, memory, fds, m_fd, m_strPath, m_nSize, m_Addr, mapPc, unmapped, reused>>

MapInit ==
  /\ fileSize \in [Files -> 0 .. MaxPages]
  /\ memory = [p \in Pages |-> NoObj]
  /\ fds = [f \in Files |-> 0]
  /\ m_fd = [o \in Objs |-> NoFile]
  /\ m_strPath \in [Objs -> Files]
  /\ m_nSize = [o \in Objs |-> 0] /\ m_Addr = [o \in Objs |-> NULL]
  /\ mapPc = [o \in Objs |-> "idle"]
  /\ unmapped = {} /\ reused = FALSE

MapGoto(o, from, to) == mapPc[o] = from /\ mapPc' = [mapPc EXCEPT ![o] = to]

Area(o) == {p \in Pages : m_Addr[o] # NULL /\ p \in m_Addr[o] .. m_Addr[o] + m_nSize[o] - 1}

\* munmap(m_Addr, m_nSize); it succeeds on pages that are not mapped.
Munmap(o) == memory' = [p \in Pages |-> IF p \in Area(o) THEN NoObj ELSE memory[p]]

\* Close, which Open begins with.
CloseObj(o) ==
  /\ Munmap(o)
  /\ fds' = [f \in Files |-> IF f = m_fd[o] THEN fds[f] - 1 ELSE fds[f]]
  /\ m_fd' = [m_fd EXCEPT ![o] = NoFile]
  /\ m_Addr' = [m_Addr EXCEPT ![o] = NULL]
  /\ m_nSize' = [m_nSize EXCEPT ![o] = 0]
  /\ unmapped' = unmapped \ {o}

Close(o) ==
  /\ MapGoto(o, "idle", "idle")
  /\ CloseObj(o)
  /\ UNCHANGED <<fileSize, m_strPath, reused>>

Open(o) ==
  /\ MapGoto(o, "idle", "open")
  /\ CloseObj(o)
  /\ \E f \in Files : m_strPath' = [m_strPath EXCEPT ![o] = f]
  /\ UNCHANGED <<fileSize, reused>>

\* Open returns OP_FAIL: stat or open fails, or, once open has succeeded,
\* GetFileSize or mmap does and the descriptor is closed again.
OpenFailsOpen(o) ==
  /\ MapGoto(o, "open", "idle")
  /\ fds' \in {fds, [fds EXCEPT ![m_strPath[o]] = @ + 1]}
  /\ UNCHANGED <<fileSize, memory, m_fd, m_strPath, m_nSize, m_Addr, unmapped, reused>>

OpenFails(o) ==
  /\ MapGoto(o, "open", "idle")
  /\ UNCHANGED <<fileSize, memory, fds, m_fd, m_strPath, m_nSize, m_Addr, unmapped, reused>>

\* mmap gives any free range; there is none of length 0.
Open4Linux(o) ==
  LET f == m_strPath[o] IN
  /\ MapGoto(o, "open", "idle")
  /\ fileSize[f] > 0
  /\ \E addr \in Pages :
       LET range == addr .. addr + fileSize[f] - 1 IN
       /\ range \subseteq {p \in Pages : memory[p] = NoObj}
       /\ memory' = [p \in Pages |-> IF p \in range THEN o ELSE memory[p]]
       /\ m_Addr' = [m_Addr EXCEPT ![o] = addr]
       /\ reused' = (reused \/ \E u \in unmapped : range \cap Area(u) # {})
  /\ m_nSize' = [m_nSize EXCEPT ![o] = fileSize[f]]
  /\ m_fd' = [m_fd EXCEPT ![o] = f]
  /\ fds' = [fds EXCEPT ![f] = @ + 1]
  /\ UNCHANGED <<fileSize, m_strPath, unmapped>>

\* Flush is an munmap and forgets nothing; without a mapping it fails.
Flush(o) ==
  /\ MapGoto(o, "idle", "idle")
  /\ m_nSize[o] > 0
  /\ Munmap(o)
  /\ unmapped' = unmapped \cup {o}
  /\ UNCHANGED <<fileSize, fds, m_fd, m_strPath, m_nSize, m_Addr, reused>>

\* Extend4Linux unmaps ...
Extend(o) ==
  /\ MapGoto(o, "idle", "truncate")
  /\ m_nSize[o] > 0
  /\ Munmap(o)
  /\ unmapped' = unmapped \cup {o}
  /\ UNCHANGED <<fileSize, fds, m_fd, m_strPath, m_nSize, m_Addr, reused>>

\* ... gives the file a size beyond m_nSize, which may be less than another
\* object has given it, or returns with m_Addr as it was, ...
Ftruncate(o) ==
  /\ \/ /\ MapGoto(o, "truncate", "reopen")
        /\ \E size \in m_nSize[o] + 1 .. MaxPages :
             fileSize' = [fileSize EXCEPT ![m_fd[o]] = size]
     \/ MapGoto(o, "truncate", "idle") /\ UNCHANGED fileSize
  /\ UNCHANGED <<memory, fds, m_fd, m_strPath, m_nSize, m_Addr, unmapped, reused>>

\* ... and opens the file again, which unmaps the same range once more.
Reopen(o) ==
  /\ MapGoto(o, "reopen", "open")
  /\ CloseObj(o)
  /\ UNCHANGED <<fileSize, m_strPath, reused>>

MapNext ==
  \E o \in Objs : \/ Close(o) \/ Open(o) \/ OpenFails(o) \/ Open4Linux(o)
                  \/ Flush(o) \/ Extend(o) \/ Ftruncate(o) \/ Reopen(o)

MapSpec == MapInit /\ [][MapNext]_mapVars

----------------------------------------------------------------------------
\* However calls fail and threads interleave, no descriptor is open but those
\* the objects hold, and, until some mmap lands on memory that Flush or Extend
\* has unmapped under an object, every object that was not flushed has exactly
\* the pages it says it has: none is lost to another, none is left mapped.
MapExact ==
  /\ \A f \in Files : fds[f] = Cardinality({o \in Objs : m_fd[o] = f})
  /\ ~reused => \A o \in Objs \ unmapped : Area(o) = {p \in Pages : memory[p] = o}
=============================================================================
