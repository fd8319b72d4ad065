----------------------------- MODULE FileProofs -----------------------------
(***************************************************************************)
(* The files for every bound: descriptors and mappings of TMapFile, what a *)
(* copy or a move leaves when it is cut short, what the check of a dump is *)
(* worth.                                                                  *)
(***************************************************************************)
EXTENDS MapFile, Copy, Crc32, FiniteSetTheorems, SequenceTheorems, TLAPS

----------------------------------------------------------------------------
\* TMapFile

MapTypeOK ==
  /\ fileSize \in [Files -> Nat]
  /\ memory \in [Pages -> Objs \cup {NoObj}]
  /\ fds \in [Files -> Int]
  /\ m_fd \in [Objs -> Files \cup {NoFile}]
  /\ m_strPath \in [Objs -> Files] /\ m_nSize \in [Objs -> Nat]
  /\ m_Addr \in [Objs -> Pages \cup {NULL}]
  /\ mapPc \in [Objs -> {"idle", "open", "truncate", "reopen"}]
  /\ unmapped \subseteq Objs /\ reused \in BOOLEAN

Holders(fl) == {o \in Objs : m_fd[o] = fl}

FdsInv ==
  /\ \A fl \in Files : fds[fl] = Cardinality(Holders(fl))
  /\ \A o \in Objs : mapPc[o] = "open" => m_fd[o] = NoFile /\ m_Addr[o] = NULL /\ o \notin unmapped

\* What m_Addr of an object points to is the object's own, or, after an
\* munmap, nobody's.
AreaInv ==
  ~reused => \A o \in Objs :
    /\ \A p \in Pages : memory[p] = o <=> p \in Area(o) /\ o \notin unmapped
    /\ \A p \in Area(o) : o \in unmapped => memory[p] = NoObj

MapInv == MapTypeOK /\ FdsInv /\ AreaInv

----------------------------------------------------------------------------
\* CpFile and MovFile

First(n) == [k \in 1 .. n |-> k]

CopyTypeOK ==
  /\ size \in Nat /\ cross \in BOOLEAN
  /\ dir \in [Paths -> Inodes \cup {None, Dir}] /\ data \in [Inodes -> Seq(Nat)]
  /\ op \in {"copy", "move"} /\ dst \in Paths /\ bOverWrite \in BOOLEAN /\ nRead \in Nat
  /\ ret \in BOOLEAN

AcrossPcs == {"open", "map", "unlinkOut", "bigOpen", "bigCopy", "bigOut"}

\* "a" is never made again, and has its contents as long as it is there; a
\* client under way finds it there, but the first steps of a call.
SourceInv ==
  /\ dir["a"] \in {None, 1}
  /\ dir["a"] = 1 => data[1] = Source
  /\ dir["a"] = None => Whole("b") /\ copyPc \in {"idle", "link", "rename"}
  /\ cross => dir["b"] # 1

\* Only "b" is ever unlinked or written to; how far the client is.
ProgressInv ==
  /\ copyPc = "link" /\ dst = "a" => ~bOverWrite
  /\ copyPc \in AcrossPcs \cup {"unlinkDst", "unlinkSrc"} => dst = "b"
  /\ copyPc \in AcrossPcs => cross
  /\ copyPc \in {"map", "bigCopy"} => f = 2 /\ dir["b"] = 2
  /\ copyPc \in {"rename", "link", "unlinkDst", "open", "map", "unlinkOut", "bigOpen"} => nRead = 0
  /\ copyPc = "bigCopy" => nRead <= size /\ data[2] = First(nRead)
  /\ copyPc = "unlinkSrc" => Whole("b")
  /\ copyPc = "idle" /\ ret => Whole(dst)
  /\ copyPc # "idle" => ~ret

CopyInv == spoiled \in BOOLEAN /\ (~spoiled => CopyTypeOK /\ SourceInv /\ ProgressInv)

----------------------------------------------------------------------------
\* The dumps

Part(d, n) == [k \in 1 .. n |-> <<d, k>>]

DumpPcs == {"idle", "write", "append"}

\* One dump at a time: the file is a beginning of somebody's data, with or
\* without the checksum; while a dumper is at work, what it has written.
DumpInv ==
  /\ dumpPc \in [Dumpers -> DumpPcs] /\ written \in [Dumpers -> Nat]
  /\ \A d, e \in Dumpers : dumpPc[d] # "idle" /\ dumpPc[e] # "idle" => d = e
  /\ \/ dump = <<>>
     \/ \E d \in Dumpers, n \in 1 .. DataLen : dump = Part(d, n)
     \/ \E d \in Dumpers, n \in 1 .. DataLen :
          dump = Append(Part(d, n), Crc(d)) /\ (n = DataLen => d \in wholes)
  /\ \A d \in Dumpers : IF dumpPc[d] = "write"
       THEN written[d] <= DataLen /\ dump = Part(d, written[d])
       ELSE written[d] = 0
  /\ \A d \in Dumpers : dumpPc[d] = "append" => \E n \in 1 .. DataLen : dump = Part(d, n)

CheckInv ==
  /\ checkPc \in {"idle", "crc"}
  /\ checkPc = "crc" => checkRs = -1 /\ mapped \in Nat
  /\ checkRs = 0 => \E d \in wholes : nFileCrc32Code = Data(d)

CrcInv == overlapped \in BOOLEAN /\ (~overlapped => DumpInv /\ CheckInv)

----------------------------------------------------------------------------
USE DEF mapVars, copyVars, crcVars, MapGoto

\* A descriptor more, or less, of one file.
LEMMA HoldersChange ==
  ASSUME NEW o \in Objs, m_fd \in [Objs -> Files \cup {NoFile}],
         m_fd' \in [Objs -> Files \cup {NoFile}],
         \A u \in Objs \ {o} : m_fd'[u] = m_fd[u], NEW fl \in Files
  PROVE  Cardinality(Holders(fl))' = Cardinality(Holders(fl))
           + (IF m_fd'[o] = fl THEN 1 ELSE 0) - (IF m_fd[o] = fl THEN 1 ELSE 0)
<1>. DEFINE A == Holders(fl) \ {o}
            H == {u \in Objs : m_fd'[u] = fl}
<1>1. IsFiniteSet(A) /\ o \notin A
  BY FS_Subset, MapFileAssumption DEF MapFileAssumption, Holders
<1>2. Cardinality(A) \in Nat /\ Cardinality(A \cup {o}) = Cardinality(A) + 1
  BY <1>1, FS_CardinalityType, FS_AddElement
<1>3. Holders(fl) = IF m_fd[o] = fl THEN A \cup {o} ELSE A
  BY DEF Holders
<1>4. H = IF m_fd'[o] = fl THEN A \cup {o} ELSE A
  BY DEF Holders
<1>5. Cardinality(Holders(fl))' = Cardinality(H)
  BY DEF Holders
<1>. QED  BY <1>2, <1>3, <1>4, <1>5

\* The initial state satisfies the invariant.
LEMMA MapInitInv == MapInit => MapInv
<1>. SUFFICES ASSUME MapInit PROVE MapInv
  OBVIOUS
<1>1. MapTypeOK
  <2>1. fileSize \in [Files -> Nat]
    BY MapFileAssumption DEF MapFileAssumption, MapInit
  <2>2. memory \in [Pages -> Objs \cup {NoObj}] /\ fds \in [Files -> Int]
    BY DEF MapInit
  <2>3. /\ m_fd \in [Objs -> Files \cup {NoFile}] /\ m_nSize \in [Objs -> Nat]
        /\ m_Addr \in [Objs -> Pages \cup {NULL}]
        /\ mapPc \in [Objs -> {"idle", "open", "truncate", "reopen"}]
    BY DEF MapInit
  <2>. QED  BY <2>1, <2>2, <2>3 DEF MapInit, MapTypeOK
<1>2. FdsInv
  <2>1. \A fl \in Files : Holders(fl) = {}
    BY MapFileAssumption DEF MapFileAssumption, MapInit, Holders
  <2>. QED  BY <2>1, FS_EmptySet DEF MapInit, FdsInv
<1>3. AreaInv
  BY MapFileAssumption DEF MapFileAssumption, MapInit, AreaInv, Area
<1>. QED  BY <1>1, <1>2, <1>3 DEF MapInv

\* munmap, whoever calls it, takes the object's own pages or nobody's.
LEMMA MunmapArea ==
  ASSUME MapInv, ~reused, NEW o \in Objs, Munmap(o)
  PROVE  /\ \A p \in Pages : memory'[p] = (IF p \in Area(o) THEN NoObj ELSE memory[p])
         /\ \A p \in Pages : memory'[p] # o
         /\ \A u \in Objs \ {o} : \A p \in Pages : memory'[p] = u <=> memory[p] = u
<1>1. \A p \in Pages : memory'[p] = (IF p \in Area(o) THEN NoObj ELSE memory[p])
  BY DEF Munmap
<1>2. \A p \in Area(o) : memory[p] = o \/ memory[p] = NoObj
  BY DEF MapInv, AreaInv, Area
<1>3. NoObj \notin Objs
  BY MapFileAssumption DEF MapFileAssumption
<1>. QED  BY <1>1, <1>2, <1>3 DEF MapInv, AreaInv

\* Close, alone or at the beginning of Open.
LEMMA CloseObjStep ==
  ASSUME MapInv, NEW o \in Objs, CloseObj(o), UNCHANGED <<fileSize, reused>>,
         m_strPath' \in [Objs -> Files],
         mapPc' \in [Objs -> {"idle", "open", "truncate", "reopen"}],
         \A u \in Objs \ {o} : mapPc'[u] = mapPc[u]
  PROVE  MapInv'
<1>1. /\ m_fd'[o] = NoFile /\ m_Addr'[o] = NULL /\ o \notin unmapped'
      /\ \A u \in Objs \ {o} : /\ m_fd'[u] = m_fd[u] /\ m_Addr'[u] = m_Addr[u]
                                /\ m_nSize'[u] = m_nSize[u] /\ (u \in unmapped' <=> u \in unmapped)
  BY DEF MapInv, MapTypeOK, CloseObj
<1>2. MapTypeOK'
  <2>1. memory' \in [Pages -> Objs \cup {NoObj}]
    BY DEF MapInv, MapTypeOK, CloseObj, Munmap
  <2>2. fds' \in [Files -> Int] /\ m_nSize' \in [Objs -> Nat] /\ m_fd' \in [Objs -> Files \cup {NoFile}]
    BY DEF MapInv, MapTypeOK, CloseObj
  <2>3. m_Addr' \in [Objs -> Pages \cup {NULL}] /\ unmapped' \subseteq Objs
    BY DEF MapInv, MapTypeOK, CloseObj
  <2>. QED  BY <2>1, <2>2, <2>3 DEF MapInv, MapTypeOK
<1>3. FdsInv'
  <2>1. ASSUME NEW fl \in Files
        PROVE  fds'[fl] = Cardinality(Holders(fl))'
    <3>1. Cardinality(Holders(fl))' = Cardinality(Holders(fl))
             + (IF m_fd'[o] = fl THEN 1 ELSE 0) - (IF m_fd[o] = fl THEN 1 ELSE 0)
      BY <1>1, <1>2, HoldersChange DEF MapInv, MapTypeOK
    <3>2. fds'[fl] = (IF fl = m_fd[o] THEN fds[fl] - 1 ELSE fds[fl])
      BY DEF CloseObj
    <3>3. m_fd'[o] # fl
      BY <1>1, MapFileAssumption DEF MapFileAssumption
    <3>4. fds[fl] = Cardinality(Holders(fl)) /\ fds[fl] \in Int
      BY DEF MapInv, MapTypeOK, FdsInv
    <3>. QED  BY <3>1, <3>2, <3>3, <3>4
  <2>. QED  BY <1>1, <2>1 DEF MapInv, FdsInv
<1>4. AreaInv'
  <2>. SUFFICES ASSUME ~reused PROVE AreaInv'
    BY DEF AreaInv
  <2>1. /\ \A p \in Pages : memory'[p] = (IF p \in Area(o) THEN NoObj ELSE memory[p])
        /\ \A p \in Pages : memory'[p] # o
        /\ \A u \in Objs \ {o} : \A p \in Pages : memory'[p] = u <=> memory[p] = u
    BY MunmapArea DEF CloseObj
  <2>2. Area(o)' = {} /\ \A u \in Objs \ {o} : Area(u)' = Area(u) /\ Area(u) \subseteq Pages
    BY <1>1 DEF Area
  <2>. QED  BY <1>1, <2>1, <2>2 DEF MapInv, AreaInv
<1>. QED  BY <1>2, <1>3, <1>4 DEF MapInv

\* Open4Linux maps the file.
LEMMA Open4LinuxStep ==
  ASSUME MapInv, NEW o \in Objs, Open4Linux(o)
  PROVE  MapInv'
<1>. DEFINE fl == m_strPath[o]
<1>1. PICK addr \in Pages :
        LET range == addr .. addr + fileSize[fl] - 1 IN
        /\ range \subseteq {p \in Pages : memory[p] = NoObj}
        /\ memory' = [p \in Pages |-> IF p \in range THEN o ELSE memory[p]]
        /\ m_Addr' = [m_Addr EXCEPT ![o] = addr]
        /\ reused' = (reused \/ \E u \in unmapped : range \cap Area(u) # {})
  BY DEF Open4Linux
<1>. DEFINE range == addr .. addr + fileSize[fl] - 1
<1>2. /\ fl \in Files /\ mapPc[o] = "open" /\ fileSize[fl] \in Nat
      /\ m_fd[o] = NoFile /\ m_Addr[o] = NULL /\ o \notin unmapped
  BY DEF MapInv, MapTypeOK, FdsInv, Open4Linux
<1>3. /\ m_fd'[o] = fl /\ m_Addr'[o] = addr /\ m_nSize'[o] = fileSize[fl] /\ mapPc'[o] = "idle"
      /\ \A u \in Objs \ {o} : /\ m_fd'[u] = m_fd[u] /\ m_Addr'[u] = m_Addr[u]
                                /\ m_nSize'[u] = m_nSize[u] /\ mapPc'[u] = mapPc[u]
      /\ UNCHANGED <<fileSize, m_strPath, unmapped>>
  BY <1>1 DEF MapInv, MapTypeOK, Open4Linux
<1>4. MapTypeOK'
  <2>1. memory' \in [Pages -> Objs \cup {NoObj}] /\ m_Addr' \in [Objs -> Pages \cup {NULL}]
    BY <1>1 DEF MapInv, MapTypeOK
  <2>2. /\ fds' \in [Files -> Int] /\ m_nSize' \in [Objs -> Nat]
        /\ m_fd' \in [Objs -> Files \cup {NoFile}]
        /\ mapPc' \in [Objs -> {"idle", "open", "truncate", "reopen"}]
    BY <1>2 DEF MapInv, MapTypeOK, Open4Linux
  <2>3. reused' \in BOOLEAN
    BY <1>1 DEF MapInv, MapTypeOK
  <2>. QED  BY <1>3, <2>1, <2>2, <2>3 DEF MapInv, MapTypeOK
<1>5. FdsInv'
  <2>1. ASSUME NEW g \in Files
        PROVE  fds'[g] = Cardinality(Holders(g))'
    <3>1. Cardinality(Holders(g))' = Cardinality(Holders(g))
             + (IF m_fd'[o] = g THEN 1 ELSE 0) - (IF m_fd[o] = g THEN 1 ELSE 0)
      BY <1>3, <1>4, HoldersChange DEF MapInv, MapTypeOK
    <3>2. fds'[g] = (IF g = fl THEN fds[g] + 1 ELSE fds[g])
      BY <1>2 DEF MapInv, MapTypeOK, Open4Linux
    <3>3. m_fd[o] # g
      BY <1>2, MapFileAssumption DEF MapFileAssumption
    <3>4. fds[g] = Cardinality(Holders(g)) /\ fds[g] \in Int
      BY DEF MapInv, MapTypeOK, FdsInv
    <3>. QED  BY <1>3, <3>1, <3>2, <3>3, <3>4
  <2>. QED  BY <1>3, <2>1 DEF MapInv, FdsInv
<1>6. AreaInv'
  <2>. SUFFICES ASSUME ~reused' PROVE AreaInv'
    BY DEF AreaInv
  <2>1. ~reused /\ \A u \in unmapped : range \cap Area(u) = {}
    BY <1>1
  <2>2. \A u \in Objs \ {o} : Area(u)' = Area(u)
    BY <1>3 DEF Area
  <2>3. Area(o)' = range /\ Area(o) = {}
    <3>1. addr # NULL /\ range \subseteq Pages
      BY <1>1 DEF Pages, NULL
    <3>. QED  BY <1>2, <1>3, <3>1 DEF Area
  <2>4. /\ \A p \in range : memory[p] = NoObj
        /\ \A p \in Pages : memory'[p] = IF p \in range THEN o ELSE memory[p]
    BY <1>1
  <2>5. NoObj \notin Objs
    BY MapFileAssumption DEF MapFileAssumption
  <2>6. ASSUME NEW p \in Pages
        PROVE  memory'[p] = o <=> p \in Area(o)' /\ o \notin unmapped'
    BY <1>2, <1>3, <2>1, <2>3, <2>4 DEF MapInv, AreaInv
  <2>7. ASSUME NEW u \in Objs \ {o}, NEW p \in Pages
        PROVE  memory'[p] = u <=> p \in Area(u)' /\ u \notin unmapped'
    BY <1>3, <2>1, <2>2, <2>4, <2>5 DEF MapInv, AreaInv
  <2>8. ASSUME NEW u \in unmapped, NEW p \in Area(u)
        PROVE  memory'[p] = NoObj
    <3>1. u \in Objs /\ p \in Pages /\ p \notin range
      BY <2>1, <2>8 DEF MapInv, MapTypeOK, Area
    <3>. QED  BY <2>1, <2>4, <2>8, <3>1 DEF MapInv, AreaInv
  <2>. QED  BY <1>2, <1>3, <2>2, <2>6, <2>7, <2>8 DEF MapInv, MapTypeOK, AreaInv
<1>. QED  BY <1>4, <1>5, <1>6 DEF MapInv

\* Flush, and the first step of Extend4Linux.
LEMMA UnmapStep ==
  ASSUME MapInv, NEW o \in Objs, Flush(o) \/ Extend(o)
  PROVE  MapInv'
<1>1. /\ Munmap(o) /\ unmapped' = unmapped \cup {o}
      /\ UNCHANGED <<fileSize, fds, m_fd, m_strPath, m_nSize, m_Addr, reused>>
      /\ mapPc[o] = "idle" /\ mapPc'[o] \in {"idle", "truncate"}
      /\ mapPc' \in [Objs -> {"idle", "open", "truncate", "reopen"}]
      /\ \A u \in Objs \ {o} : mapPc'[u] = mapPc[u]
  BY DEF MapInv, MapTypeOK, Flush, Extend
<1>2. MapTypeOK'
  BY <1>1 DEF MapInv, MapTypeOK, Munmap
<1>3. FdsInv'
  BY <1>1 DEF MapInv, FdsInv, Holders
<1>4. AreaInv'
  <2>. SUFFICES ASSUME ~reused PROVE AreaInv'
    BY <1>1 DEF AreaInv
  <2>1. /\ \A p \in Pages : memory'[p] = (IF p \in Area(o) THEN NoObj ELSE memory[p])
        /\ \A p \in Pages : memory'[p] # o
        /\ \A u \in Objs \ {o} : \A p \in Pages : memory'[p] = u <=> memory[p] = u
    BY <1>1, MunmapArea
  <2>2. \A u \in Objs : Area(u)' = Area(u) /\ Area(u) \subseteq Pages
    BY <1>1 DEF Area
  <2>. QED  BY <1>1, <2>1, <2>2 DEF MapInv, AreaInv
<1>. QED  BY <1>2, <1>3, <1>4 DEF MapInv

\* Steps that leave mappings and descriptors alone.
LEMMA MapRestStep ==
  ASSUME MapInv, NEW o \in Objs, OpenFails(o) \/ Ftruncate(o)
  PROVE  MapInv'
<1>1. /\ UNCHANGED <<memory, fds, m_fd, m_strPath, m_nSize, m_Addr, unmapped, reused>>
      /\ mapPc' \in [Objs -> {"idle", "open", "truncate", "reopen"}]
      /\ \A u \in Objs : mapPc'[u] = "open" => mapPc[u] = "open"
  BY DEF MapInv, MapTypeOK, OpenFails, Ftruncate
<1>2. fileSize' \in [Files -> Nat]
  BY DEF MapInv, MapTypeOK, OpenFails, Ftruncate
<1>3. MapTypeOK'
  BY <1>1, <1>2 DEF MapInv, MapTypeOK
<1>4. FdsInv' /\ AreaInv'
  BY <1>1 DEF MapInv, FdsInv, AreaInv, Holders, Area
<1>. QED  BY <1>3, <1>4 DEF MapInv

\* Every step keeps the invariant.
LEMMA MapInductive == MapInv /\ [MapNext]_mapVars => MapInv'
<1>. SUFFICES ASSUME MapInv, [MapNext]_mapVars PROVE MapInv'
  OBVIOUS
<1>1. ASSUME NEW o \in Objs, Close(o) \/ Open(o) \/ Reopen(o)
      PROVE  MapInv'
  <2>1. /\ CloseObj(o) /\ UNCHANGED <<fileSize, reused>> /\ m_strPath' \in [Objs -> Files]
        /\ mapPc' \in [Objs -> {"idle", "open", "truncate", "reopen"}]
        /\ \A u \in Objs \ {o} : mapPc'[u] = mapPc[u]
    BY <1>1 DEF MapInv, MapTypeOK, Close, Open, Reopen
  <2>. QED  BY <2>1, CloseObjStep
<1>2. CASE UNCHANGED mapVars
  BY <1>2 DEF MapInv, MapTypeOK, FdsInv, AreaInv, Holders, Area
<1>. QED  BY <1>1, <1>2, Open4LinuxStep, UnmapStep, MapRestStep DEF MapNext

\* The strengthened invariant of TMapFile holds of every behaviour.
THEOREM MapInvariance == MapSpec => []MapInv
BY MapInitInv, MapInductive, PTL DEF MapSpec

\* No descriptor is open but those the objects hold, and until some mmap lands
\* on memory that Flush or Extend4Linux has unmapped under an object, each
\* object has exactly the pages it says it has (mapfile.cpp:40-255).
THEOREM MappingsExact == MapSpec => []MapExact
<1>1. MapInv => MapExact
  BY DEF MapInv, FdsInv, AreaInv, MapExact, Holders, Area
<1>. QED  BY MapInvariance, <1>1, PTL

----------------------------------------------------------------------------
\* The empty sequence and one block more.
LEMMA FirstBlocks ==
  /\ First(0) = <<>>
  /\ \A n \in Nat : First(n) \in Seq(Nat) /\ Append(First(n), n + 1) = First(n + 1)
<1>1. ASSUME NEW n \in Nat
      PROVE  First(n) \in Seq(Nat) /\ Len(First(n)) = n /\ \A k \in 1 .. n : First(n)[k] = k
  BY DEF First
<1>2. First(0) = <<>>
  BY <1>1, EmptySeq
<1>3. ASSUME NEW n \in Nat
      PROVE  Append(First(n), n + 1) = First(n + 1)
  <2>1. /\ First(n) \in Seq(Nat) /\ Len(First(n)) = n
        /\ First(n + 1) \in Seq(Nat) /\ Len(First(n + 1)) = n + 1
    BY <1>1
  <2>2. /\ Append(First(n), n + 1) \in Seq(Nat)
        /\ Len(Append(First(n), n + 1)) = n + 1
        /\ \A k \in 1 .. n : Append(First(n), n + 1)[k] = First(n)[k]
        /\ Append(First(n), n + 1)[n + 1] = n + 1
    BY <2>1, AppendProperties
  <2>3. \A k \in 1 .. n + 1 : Append(First(n), n + 1)[k] = First(n + 1)[k]
    BY <1>1, <2>2
  <2>. QED  BY <2>1, <2>2, <2>3, SeqEqual
<1>. QED  BY <1>1, <1>2, <1>3

\* The numbers of paths and inodes are expanded from here on.
LEMMA SourceIsFirst == Source = First(size)
BY DEF Source, First

USE DEF Paths, Inodes, None, Dir, AcrossPcs, At, call

\* An inode is free as long as one of the names is.
LEMMA FreeInode ==
  ASSUME dir["a"] \in {None, 1}, dir["b"] = None
  PROVE  NewInode \in Inodes /\ NewInode # dir["a"]
<1>1. \A p \in Paths : dir[p] # 2
  OBVIOUS
<1>2. NewInode \in Inodes /\ \A p \in Paths : dir[p] # NewInode
  BY <1>1 DEF NewInode
<1>. QED  BY <1>2

\* The initial state satisfies the invariant.
LEMMA CopyInitInv == CopyInit => CopyInv
<1>. SUFFICES ASSUME CopyInit PROVE CopyInv
  OBVIOUS
<1>1. size \in Nat /\ Source \in Seq(Nat) /\ Old \in Seq(Nat)
  BY CopyAssumption, FirstBlocks, SourceIsFirst DEF CopyAssumption, CopyInit, Old
<1>2. CopyTypeOK
  <2>1. data \in [Inodes -> Seq(Nat)]
    BY <1>1 DEF CopyInit
  <2>2. dir \in [Paths -> Inodes \cup {None, Dir}]
    BY DEF CopyInit
  <2>. QED  BY <1>1, <2>1, <2>2 DEF CopyInit, CopyTypeOK
<1>3. SourceInv /\ ProgressInv
  BY DEF CopyInit, SourceInv, ProgressInv
<1>. QED  BY <1>2, <1>3 DEF CopyInv, CopyInit

\* A call of CpFile or MovFile.
LEMMA CopyCallStep ==
  ASSUME CopyInv, CpFile \/ MovFile
  PROVE  CopyInv'
<1>0. spoiled' \in BOOLEAN /\ (spoiled => spoiled')
  BY DEF CopyInv, CpFile, MovFile
<1>. SUFFICES ASSUME ~spoiled' PROVE CopyTypeOK' /\ SourceInv' /\ ProgressInv'
  BY <1>0 DEF CopyInv
<1>1. ~spoiled /\ CopyTypeOK /\ SourceInv /\ ProgressInv
  BY <1>0 DEF CopyInv
<1>2. /\ UNCHANGED <<size, cross, dir, data>>
      /\ copyPc' \in {"link", "rename"} /\ op' \in {"copy", "move"} /\ dst' \in Paths
      /\ bOverWrite' \in BOOLEAN /\ nRead' = 0 /\ ret' = FALSE
  BY DEF CpFile, MovFile
<1>3. copyPc' = "link" /\ dst' = "a" => ~bOverWrite'
  BY DEF CpFile, MovFile
<1>4. CopyTypeOK'
  BY <1>1, <1>2 DEF CopyTypeOK
<1>5. SourceInv'
  BY <1>1, <1>2 DEF SourceInv, Whole, Source
<1>6. ProgressInv'
  BY <1>2, <1>3 DEF ProgressInv
<1>. QED  BY <1>4, <1>5, <1>6

\* rename(2)
LEMMA RenameStep ==
  ASSUME CopyInv, Rename
  PROVE  CopyInv'
<1>0. spoiled' \in BOOLEAN /\ (spoiled => spoiled')
  BY DEF CopyInv, Rename
<1>. SUFFICES ASSUME ~spoiled' PROVE CopyTypeOK' /\ SourceInv' /\ ProgressInv'
  BY <1>0 DEF CopyInv
<1>1. ~spoiled /\ CopyTypeOK /\ SourceInv /\ ProgressInv
  BY <1>0 DEF CopyInv
<1>2. CopyTypeOK'
  BY <1>1 DEF CopyTypeOK, Rename
<1>3. UNCHANGED <<size, cross, data, dst, nRead, bOverWrite>> /\ nRead = 0
  BY <1>1 DEF ProgressInv, Rename
<1>4. CASE copyPc' = "link" /\ UNCHANGED <<dir, ret>> /\ OtherSystem
  <2>1. ~ret /\ dst # "a"
    BY <1>1, <1>4 DEF ProgressInv, Rename, OtherSystem
  <2>2. SourceInv'
    BY <1>1, <1>3, <1>4 DEF SourceInv, Whole, Source
  <2>3. ProgressInv'
    BY <1>3, <1>4, <2>1 DEF ProgressInv
  <2>. QED  BY <1>2, <2>2, <2>3
<1>5. CASE /\ ~OtherSystem /\ dir["a"] # None /\ dir[dst] # Dir
           /\ dir' = IF dir[dst] = dir["a"] THEN dir
                     ELSE [dir EXCEPT ![dst] = dir["a"], !["a"] = None]
           /\ copyPc' = "idle"
  <2>1. dst \in Paths /\ dir["a"] = 1 /\ data[1] = Source
    BY <1>1, <1>5 DEF CopyTypeOK, SourceInv
  <2>2. dir'[dst] = 1 /\ dir'["a"] \in {None, 1} /\ (dir'["a"] = None => dir'["b"] = 1)
    BY <1>1, <1>5, <2>1 DEF CopyTypeOK
  <2>3. cross' => dir'["b"] # 1
    BY <1>1, <1>3, <1>5, <2>1 DEF CopyTypeOK, SourceInv, OtherSystem
  <2>4. SourceInv'
    BY <1>3, <1>5, <2>1, <2>2, <2>3 DEF SourceInv, Whole, Source
  <2>5. Whole(dst)'
    BY <1>3, <2>1, <2>2 DEF Whole, Source
  <2>6. ProgressInv'
    BY <1>5, <2>5 DEF ProgressInv
  <2>. QED  BY <1>2, <2>4, <2>6
<1>6. CASE copyPc' = "idle" /\ UNCHANGED <<dir, ret>> /\ copyPc = "rename"
  <2>1. ~ret
    BY <1>1, <1>6 DEF ProgressInv
  <2>2. SourceInv'
    BY <1>1, <1>3, <1>6 DEF SourceInv, Whole, Source
  <2>3. ProgressInv'
    BY <1>6, <2>1 DEF ProgressInv
  <2>. QED  BY <1>2, <2>2, <2>3
<1>. QED  BY <1>4, <1>5, <1>6 DEF Rename

\* link(2), the first attempt of CpFile.
LEMMA LinkStep ==
  ASSUME CopyInv, Link
  PROVE  CopyInv'
<1>0. spoiled' \in BOOLEAN /\ (spoiled => spoiled')
  BY DEF CopyInv, Link
<1>. SUFFICES ASSUME ~spoiled' PROVE CopyTypeOK' /\ SourceInv' /\ ProgressInv'
  BY <1>0 DEF CopyInv
<1>1. ~spoiled /\ CopyTypeOK /\ SourceInv /\ ProgressInv
  BY <1>0 DEF CopyInv
<1>2. CopyTypeOK'
  BY <1>1 DEF CopyTypeOK, Link, CpReturn
<1>3. SourceInv' /\ ProgressInv'
  BY <1>1 DEF CopyTypeOK, SourceInv, ProgressInv, Whole, Source, Link, CpReturn, OtherSystem
<1>. QED  BY <1>2, <1>3

\* unlink(dst), before another link and when a copy across has failed.
LEMMA UnlinkStep ==
  ASSUME CopyInv, UnlinkDst \/ CrossOut \/ BigOut
  PROVE  CopyInv'
<1>0. spoiled' \in BOOLEAN /\ (spoiled => spoiled')
  BY DEF CopyInv, UnlinkDst, CrossOut, BigOut
<1>. SUFFICES ASSUME ~spoiled' PROVE CopyTypeOK' /\ SourceInv' /\ ProgressInv'
  BY <1>0 DEF CopyInv
<1>1. ~spoiled /\ CopyTypeOK /\ SourceInv /\ ProgressInv
  BY <1>0 DEF CopyInv
<1>2. CopyTypeOK'
  BY <1>1 DEF CopyTypeOK, UnlinkDst, CrossOut, BigOut, Unlink, CpReturn
<1>3. SourceInv' /\ ProgressInv'
  BY <1>1 DEF CopyTypeOK, SourceInv, ProgressInv, Whole, Source, UnlinkDst, CrossOut, BigOut,
       Unlink, CpReturn
<1>. QED  BY <1>2, <1>3

\* The destination is opened, for a mapping or for CpBig.
LEMMA OpenStep ==
  ASSUME CopyInv, CrossOpen \/ BigOpen
  PROVE  CopyInv'
<1>0. spoiled' \in BOOLEAN /\ (spoiled => spoiled')
  BY DEF CopyInv, CrossOpen, BigOpen
<1>. SUFFICES ASSUME ~spoiled' PROVE CopyTypeOK' /\ SourceInv' /\ ProgressInv'
  BY <1>0 DEF CopyInv
<1>1. ~spoiled /\ CopyTypeOK /\ SourceInv /\ ProgressInv
  BY <1>0 DEF CopyInv
<1>2. /\ copyPc \in {"open", "bigOpen"} /\ dst = "b" /\ cross /\ dir["a"] = 1 /\ dir["b"] # 1
      /\ nRead = 0 /\ ~ret
  BY <1>1 DEF SourceInv, ProgressInv, CrossOpen, BigOpen
<1>3. ASSUME NEW to \in {"map", "bigCopy"}, OpenDst(to), UNCHANGED <<call, nRead, ret>>
      PROVE  CopyTypeOK' /\ SourceInv' /\ ProgressInv'
  <2>1. f' = 2
    BY <1>1, <1>2, <1>3, FreeInode DEF CopyTypeOK, OpenDst
  <2>2. /\ dir' \in [Paths -> Inodes \cup {None, Dir}] /\ dir'["a"] = 1 /\ dir'["b"] = 2
        /\ data' \in [Inodes -> Seq(Nat)] /\ data'[1] = data[1] /\ data'[2] = <<>>
        /\ copyPc' = to
    BY <1>1, <1>2, <1>3, <2>1 DEF CopyTypeOK, OpenDst
  <2>3. CopyTypeOK'
    BY <1>1, <1>3, <2>2 DEF CopyTypeOK
  <2>4. SourceInv'
    BY <1>1, <1>2, <1>3, <2>2 DEF SourceInv, Source
  <2>5. ProgressInv'
    <3>1. size' \in Nat /\ nRead' = 0 /\ data'[2] = First(0) /\ dst' = "b" /\ cross' /\ ~ret'
      BY <1>1, <1>2, <1>3, <2>2, FirstBlocks DEF CopyTypeOK
    <3>. QED  BY <1>3, <2>1, <2>2, <3>1 DEF ProgressInv
  <2>. QED  BY <2>3, <2>4, <2>5
<1>4. ASSUME copyPc' \in {"unlinkOut", "bigOut"}, UNCHANGED <<call, dir, data, f, nRead, ret>>
      PROVE  CopyTypeOK' /\ SourceInv' /\ ProgressInv'
  BY <1>1, <1>2, <1>4 DEF CopyTypeOK, SourceInv, ProgressInv, Source
<1>. QED  BY <1>3, <1>4 DEF CrossOpen, BigOpen, CrossFails

\* The mapped copy.
LEMMA CrossMapStep ==
  ASSUME CopyInv, CrossMap
  PROVE  CopyInv'
<1>0. spoiled' \in BOOLEAN /\ (spoiled => spoiled')
  BY DEF CopyInv, CrossMap
<1>. SUFFICES ASSUME ~spoiled' PROVE CopyTypeOK' /\ SourceInv' /\ ProgressInv'
  BY <1>0 DEF CopyInv
<1>1. ~spoiled /\ CopyTypeOK /\ SourceInv /\ ProgressInv
  BY <1>0 DEF CopyInv
<1>2. /\ copyPc = "map" /\ dst = "b" /\ cross /\ dir["a"] = 1 /\ dir["b"] = 2 /\ f = 2
  BY <1>1 DEF SourceInv, ProgressInv, CrossMap
<1>3. data' \in [Inodes -> Seq(Nat)] /\ data'[1] = data[1] /\ data'[2] \in {data[1], data[2]}
  <2>1. data \in [Inodes -> Seq(Nat)] /\ data[1] \in Seq(Nat)
    BY <1>1 DEF CopyTypeOK
  <2>2. data' = [data EXCEPT ![2] = data[1]] \/ data' = data
    BY <1>2 DEF CrossMap
  <2>. QED  BY <2>1, <2>2
<1>4. CopyTypeOK'
  BY <1>1, <1>3 DEF CopyTypeOK, CrossMap, CpReturn
<1>5. SourceInv'
  BY <1>1, <1>2, <1>3 DEF CopyTypeOK, SourceInv, Source, CrossMap
<1>6. ProgressInv'
  BY <1>1, <1>2 DEF CopyTypeOK, SourceInv, ProgressInv, Whole, Source, CrossMap, CpReturn,
       CrossFails
<1>. QED  BY <1>4, <1>5, <1>6

\* One turn of CpBig's loop, and its end.
LEMMA BigStep ==
  ASSUME CopyInv, BigCopy \/ BigEnd
  PROVE  CopyInv'
<1>0. spoiled' \in BOOLEAN /\ (spoiled => spoiled')
  BY DEF CopyInv, BigCopy, BigEnd
<1>. SUFFICES ASSUME ~spoiled' PROVE CopyTypeOK' /\ SourceInv' /\ ProgressInv'
  BY <1>0 DEF CopyInv
<1>1. ~spoiled /\ CopyTypeOK /\ SourceInv /\ ProgressInv
  BY <1>0 DEF CopyInv
<1>2. /\ copyPc = "bigCopy" /\ dst = "b" /\ cross /\ dir["a"] = 1 /\ dir["b"] = 2 /\ f = 2
      /\ data[2] = First(nRead) /\ nRead \in Nat /\ size \in Nat
  BY <1>1 DEF CopyTypeOK, SourceInv, ProgressInv, BigCopy, BigEnd
<1>3. CASE BigCopy
  <2>1. CASE /\ data' = [data EXCEPT ![f] = Append(@, nRead + 1)]
             /\ nRead' = nRead + 1 /\ UNCHANGED <<copyPc, spoiled>>
    <3>1. /\ data' \in [Inodes -> Seq(Nat)] /\ data'[1] = data[1]
          /\ data'[2] = First(nRead + 1)
      <4>1. data \in [Inodes -> Seq(Nat)]
        BY <1>1 DEF CopyTypeOK
      <4>2. Append(data[2], nRead + 1) = First(nRead + 1) /\ First(nRead + 1) \in Seq(Nat)
        <5>1. Append(First(nRead), nRead + 1) = First(nRead + 1)
          BY <1>2, FirstBlocks
        <5>2. nRead + 1 \in Nat
          BY <1>2
        <5>. QED  BY <1>2, <5>1, <5>2, FirstBlocks
      <4>3. data' = [data EXCEPT ![2] = First(nRead + 1)]
        BY <1>2, <2>1, <4>2, Zenon
      <4>4. 2 \in Inodes /\ 1 \in Inodes /\ 1 # 2
        BY DEF Inodes
      <4>. QED  BY <4>1, <4>2, <4>3, <4>4, Zenon
    <3>2. CopyTypeOK'
      BY <1>1, <1>2, <1>3, <2>1, <3>1 DEF CopyTypeOK, BigCopy
    <3>3. SourceInv'
      BY <1>1, <1>2, <1>3, <3>1 DEF SourceInv, Source, BigCopy
    <3>4. ProgressInv'
      BY <1>1, <1>2, <1>3, <2>1, <3>1 DEF ProgressInv, BigCopy
    <3>. QED  BY <3>2, <3>3, <3>4
  <2>2. CASE copyPc' = "bigOut" /\ UNCHANGED <<data, nRead, spoiled>>
    BY <1>1, <1>2, <1>3, <2>2 DEF CopyTypeOK, SourceInv, ProgressInv, Source, BigCopy
  <2>. QED  BY <1>3, <2>1, <2>2 DEF BigCopy
<1>4. CASE BigEnd
  <2>1. Whole("b") /\ Source' = Source
    BY <1>2, <1>4, SourceIsFirst DEF Whole, Source, BigEnd
  <2>2. CopyTypeOK'
    BY <1>1, <1>4 DEF CopyTypeOK, BigEnd, CpReturn
  <2>3. SourceInv' /\ ProgressInv'
    BY <1>1, <1>2, <1>4, <2>1 DEF SourceInv, ProgressInv, Whole, BigEnd, CpReturn
  <2>. QED  BY <2>2, <2>3
<1>. QED  BY <1>3, <1>4

\* MovFile removes the source.
LEMMA UnlinkSrcStep ==
  ASSUME CopyInv, UnlinkSrc
  PROVE  CopyInv'
<1>0. spoiled' \in BOOLEAN /\ (spoiled => spoiled')
  BY DEF CopyInv, UnlinkSrc
<1>. SUFFICES ASSUME ~spoiled' PROVE CopyTypeOK' /\ SourceInv' /\ ProgressInv'
  BY <1>0 DEF CopyInv
<1>1. ~spoiled /\ CopyTypeOK /\ SourceInv /\ ProgressInv
  BY <1>0 DEF CopyInv
<1>2. CopyTypeOK'
  BY <1>1 DEF CopyTypeOK, UnlinkSrc, Unlink
<1>3. SourceInv' /\ ProgressInv'
  BY <1>1 DEF CopyTypeOK, SourceInv, ProgressInv, Whole, Source, UnlinkSrc, Unlink
<1>. QED  BY <1>2, <1>3

\* The client dies, or the other process creates "b".
LEMMA OutsideStep ==
  ASSUME CopyInv, Crash \/ Intrude
  PROVE  CopyInv'
<1>0. spoiled' \in BOOLEAN /\ (spoiled => spoiled')
  BY DEF CopyInv, Crash, Intrude
<1>. SUFFICES ASSUME ~spoiled' PROVE CopyTypeOK' /\ SourceInv' /\ ProgressInv'
  BY <1>0 DEF CopyInv
<1>1. ~spoiled /\ CopyTypeOK /\ SourceInv /\ ProgressInv
  BY <1>0 DEF CopyInv
<1>2. CASE Crash
  BY <1>1, <1>2 DEF CopyTypeOK, SourceInv, ProgressInv, Whole, Source, Crash
<1>3. CASE Intrude
  <2>1. dir["a"] = 1 /\ dir["b"] = None /\ NewInode = 2
    BY <1>1, <1>3, FreeInode DEF SourceInv, Whole, Intrude
  <2>2. Theirs \in Seq(Nat)
    BY CopyAssumption DEF CopyAssumption, Theirs
  <2>3. /\ dir' \in [Paths -> Inodes \cup {None, Dir}] /\ dir'["a"] = 1 /\ dir'["b"] = 2
        /\ data' \in [Inodes -> Seq(Nat)] /\ data'[1] = data[1]
    BY <1>1, <1>3, <2>1, <2>2 DEF CopyTypeOK, Intrude
  <2>4. CopyTypeOK'
    BY <1>1, <1>3, <2>3 DEF CopyTypeOK, Intrude
  <2>5. SourceInv' /\ ProgressInv'
    BY <1>1, <1>3, <2>1, <2>3 DEF CopyTypeOK, SourceInv, ProgressInv, Whole, Source, Intrude
  <2>. QED  BY <2>4, <2>5
<1>. QED  BY <1>2, <1>3

\* Every step keeps the invariant.
LEMMA CopyInductive == CopyInv /\ [CopyNext]_copyVars => CopyInv'
<1>. SUFFICES ASSUME CopyInv, [CopyNext]_copyVars PROVE CopyInv'
  OBVIOUS
<1>1. CASE UNCHANGED copyVars
  BY <1>1 DEF CopyInv, CopyTypeOK, SourceInv, ProgressInv, Whole, Source
<1>. QED  BY <1>1, CopyCallStep, RenameStep, LinkStep, UnlinkStep, OpenStep, CrossMapStep,
            BigStep, UnlinkSrcStep, OutsideStep DEF CopyNext, CopyStep

\* The strengthened invariant of the copy holds of every behaviour.
THEOREM CopyInvariance == CopySpec => []CopyInv
BY CopyInitInv, CopyInductive, PTL DEF CopySpec

\* Wherever the client dies, whatever fails, whatever the other process makes,
\* the contents of the source are complete under one of the two names
\* (myfdcntl.cpp:389-769), for a file of any size.
THEOREM SourceIsKept == CopySpec => []SourceKept
<1>1. CopyInv => SourceKept
  BY DEF CopyInv, SourceInv, SourceKept, Whole
<1>. QED  BY CopyInvariance, <1>1, PTL

\* CpFile and MovFile return true only with the complete contents at the
\* destination, whichever of the three ways they took.
THEOREM CopyIsComplete == CopySpec => []CopyComplete
<1>1. CopyInv => CopyComplete
  BY DEF CopyInv, ProgressInv, CopyComplete
<1>. QED  BY CopyInvariance, <1>1, PTL

----------------------------------------------------------------------------
Blocks == Dumpers \X Nat

\* A beginning of the data, alone and with the checksum behind it.
LEMMA PartIsSeq ==
  ASSUME NEW d \in Dumpers, NEW n \in 1 .. DataLen
  PROVE  /\ Part(d, n) \in Seq(Blocks) /\ Len(Part(d, n)) = n /\ Part(d, n) # <<>>
         /\ Append(Part(d, n), Crc(d)) \in Seq(Blocks)
         /\ Len(Append(Part(d, n), Crc(d))) = n + 1
         /\ Append(Part(d, n), Crc(d))[n + 1] = Crc(d)
<1>1. n \in Nat /\ n > 0 /\ DataLen \in Nat
  BY Crc32Assumption DEF Crc32Assumption
<1>2. Part(d, n) \in Seq(Blocks) /\ Len(Part(d, n)) = n
  BY <1>1 DEF Part, Blocks
<1>3. Crc(d) \in Blocks
  BY <1>1 DEF Crc, Blocks
<1>. QED  BY <1>1, <1>2, <1>3, AppendProperties

\* What the file is at any time, with one dump at a time.
LEMMA DumpIsSeq ==
  ASSUME DumpInv
  PROVE  dump \in Seq(Blocks) /\ Len(dump) \in Nat /\ (dump # <<>> => Len(dump) > 0)
<1>1. CASE dump = <<>>
  BY <1>1
<1>2. CASE \E d \in Dumpers, n \in 1 .. DataLen : dump \in {Part(d, n), Append(Part(d, n), Crc(d))}
  BY <1>2, PartIsSeq
<1>. QED  BY <1>1, <1>2 DEF DumpInv

\* The initial state satisfies the invariant.
LEMMA CrcInitInv == CrcInit => CrcInv
<1>. SUFFICES ASSUME CrcInit PROVE CrcInv
  OBVIOUS
<1>1. DumpInv
  BY DEF CrcInit, DumpInv, DumpPcs
<1>2. CheckInv
  BY DEF CrcInit, CheckInv
<1>. QED  BY <1>1, <1>2 DEF CrcInit, CrcInv

\* What the check has found stays true whatever is dumped.
LEMMA DumpKeepsCheck ==
  ASSUME CheckInv, wholes \subseteq wholes',
         UNCHANGED <<checkPc, mapped, nFileCrc32Code, checkRs>>
  PROVE  CheckInv'
BY DEF CheckInv, Data

\* The pc of one dumper.
LEMMA DumpGotoPc ==
  ASSUME DumpInv, NEW d \in Dumpers, NEW from, NEW to \in DumpPcs, DumpGoto(d, from, to)
  PROVE  /\ dumpPc' \in [Dumpers -> DumpPcs] /\ dumpPc[d] = from /\ dumpPc'[d] = to
         /\ \A e \in Dumpers \ {d} : dumpPc'[e] = dumpPc[e]
         /\ UNCHANGED <<checkPc, mapped, nFileCrc32Code, checkRs>>
BY DEF DumpInv, DumpGoto

\* Nothing of the data is an empty file.
LEMMA PartOfNothing ==
  ASSUME NEW d \in Dumpers
  PROVE  Part(d, 0) = <<>>
BY DEF Part

\* WriteFile opens the file.
LEMMA DumpOpenStep ==
  ASSUME CrcInv, NEW d \in Dumpers, DumpOpen(d)
  PROVE  CrcInv'
<1>0. overlapped' \in BOOLEAN /\ (overlapped => overlapped') /\ UNCHANGED <<written, wholes>>
  BY DEF CrcInv, DumpOpen
<1>. SUFFICES ASSUME ~overlapped' PROVE DumpInv' /\ CheckInv'
  BY <1>0 DEF CrcInv
<1>1. DumpInv /\ CheckInv /\ \A e \in Dumpers \ {d} : dumpPc[e] = "idle"
  BY <1>0 DEF CrcInv, DumpOpen
<1>2. UNCHANGED <<checkPc, mapped, nFileCrc32Code, checkRs>>
  BY DEF DumpOpen, DumpGoto
<1>3. CheckInv'
  BY <1>0, <1>1, <1>2, DumpKeepsCheck
<1>4. CASE DumpGoto(d, "idle", "write") /\ dump' = <<>>
  <2>1. /\ dumpPc' \in [Dumpers -> DumpPcs] /\ dumpPc[d] = "idle" /\ dumpPc'[d] = "write"
        /\ \A e \in Dumpers \ {d} : dumpPc'[e] = "idle"
    BY <1>1, <1>4, DumpGotoPc DEF DumpPcs
  <2>2. written'[d] = 0 /\ dump' = Part(d, 0) /\ DataLen \in Nat
    BY <1>0, <1>1, <1>4, <2>1, PartOfNothing, Crc32Assumption DEF DumpInv, Crc32Assumption
  <2>3. \A e \in Dumpers \ {d} : written'[e] = 0
    BY <1>0, <1>1 DEF DumpInv
  <2>. QED  BY <1>0, <1>1, <1>3, <1>4, <2>1, <2>2, <2>3 DEF DumpInv, Part
<1>5. CASE DumpGoto(d, "idle", "idle") /\ UNCHANGED dump
  <2>1. "idle" \in DumpPcs
    BY DEF DumpPcs
  <2>2. dumpPc' \in [Dumpers -> DumpPcs] /\ \A e \in Dumpers : dumpPc[e] = "idle" /\ dumpPc'[e] = "idle"
    BY <1>1, <1>5, <2>1, DumpGotoPc
  <2>. QED  BY <1>0, <1>1, <1>3, <1>5, <2>2 DEF DumpInv, Part, Crc
<1>. QED  BY <1>4, <1>5 DEF DumpOpen

\* write writes another block.
LEMMA DumpWriteStep ==
  ASSUME CrcInv, NEW d \in Dumpers, DumpWrite(d)
  PROVE  CrcInv'
<1>0. overlapped' = overlapped /\ wholes \subseteq wholes'
  BY DEF DumpWrite, NoteWholes
<1>. SUFFICES ASSUME ~overlapped PROVE DumpInv' /\ CheckInv'
  BY <1>0 DEF CrcInv
<1>1. /\ DumpInv /\ CheckInv /\ dumpPc[d] = "write"
      /\ \A e \in Dumpers \ {d} : dumpPc[e] = "idle"
  BY DEF CrcInv, DumpInv, DumpPcs, DumpWrite, DumpGoto
<1>2. /\ dumpPc' \in [Dumpers -> DumpPcs] /\ dumpPc'[d] = "write"
      /\ \A e \in Dumpers \ {d} : dumpPc'[e] = "idle"
      /\ UNCHANGED <<checkPc, mapped, nFileCrc32Code, checkRs>>
  BY <1>1, DumpGotoPc DEF DumpWrite, DumpPcs
<1>3. CheckInv'
  BY <1>0, <1>1, <1>2, DumpKeepsCheck
<1>4. PICK n \in Nat : n = written[d]
  BY <1>1 DEF DumpInv
<1>5. /\ dump = Part(d, n) /\ n < DataLen /\ DataLen \in Nat
      /\ written' = [written EXCEPT ![d] = n + 1]
      /\ dump' = Over(n + 1, Data(d)[n + 1])
  BY <1>1, <1>4, Crc32Assumption DEF DumpInv, DumpWrite, Crc32Assumption
<1>6. Len(dump) = n
  BY <1>5 DEF Part
<1>7. dump' = Part(d, n + 1)
  <2>1. (IF n + 1 > Len(dump) THEN n + 1 ELSE Len(dump)) = n + 1
    BY <1>6
  <2>2. Data(d)[n + 1] = <<d, n + 1>>
    BY <1>5 DEF Data
  <2>3. ASSUME NEW k \in 1 .. (n + 1)
        PROVE  (IF k = n + 1 THEN Data(d)[n + 1] ELSE IF k <= Len(dump) THEN dump[k] ELSE Zero)
                 = <<d, k>>
    BY <1>5, <1>6, <2>2 DEF Part
  <2>. QED  BY <1>5, <2>1, <2>3 DEF Over, Part
<1>8. /\ written' \in [Dumpers -> Nat] /\ written'[d] = n + 1 /\ n + 1 \in 1 .. DataLen
      /\ \A e \in Dumpers \ {d} : written'[e] = 0
  BY <1>1, <1>5 DEF DumpInv
<1>. QED  BY <1>2, <1>3, <1>7, <1>8 DEF DumpInv, Part

\* write returns, with all of the data or less.
LEMMA DumpWrittenStep ==
  ASSUME CrcInv, NEW d \in Dumpers, DumpWritten(d)
  PROVE  CrcInv'
<1>0. UNCHANGED <<dump, wholes, overlapped>>
  BY DEF DumpWritten
<1>. SUFFICES ASSUME ~overlapped PROVE DumpInv' /\ CheckInv'
  BY <1>0 DEF CrcInv
<1>1. /\ DumpInv /\ CheckInv /\ dumpPc[d] = "write"
      /\ \A e \in Dumpers \ {d} : dumpPc[e] = "idle"
  BY DEF CrcInv, DumpInv, DumpPcs, DumpWritten, DumpGoto
<1>2. PICK to \in DumpPcs : DumpGoto(d, "write", to) /\ to = IF written[d] > 0 THEN "append" ELSE "idle"
  BY DEF DumpWritten, DumpPcs
<1>3. /\ dumpPc' \in [Dumpers -> DumpPcs] /\ dumpPc'[d] = to
      /\ \A e \in Dumpers \ {d} : dumpPc'[e] = "idle"
      /\ UNCHANGED <<checkPc, mapped, nFileCrc32Code, checkRs>>
  BY <1>1, <1>2, DumpGotoPc
<1>4. CheckInv'
  BY <1>0, <1>1, <1>3, DumpKeepsCheck
<1>5. written' \in [Dumpers -> Nat] /\ \A e \in Dumpers : written'[e] = 0
  BY <1>1 DEF DumpInv, DumpWritten
<1>6. to = "append" => \E n \in 1 .. DataLen : dump = Part(d, n)
  <2>1. written[d] \in Nat /\ written[d] <= DataLen /\ dump = Part(d, written[d]) /\ DataLen \in Nat
    BY <1>1, Crc32Assumption DEF DumpInv, Crc32Assumption
  <2>2. PICK n \in Nat : n = written[d] /\ n <= DataLen /\ dump = Part(d, n)
    BY <2>1
  <2>3. to = "append" => n \in 1 .. DataLen
    BY <1>2, <2>1, <2>2
  <2>. QED  BY <2>2, <2>3
<1>7. to # "write"
  BY <1>2
<1>. QED  BY <1>0, <1>1, <1>3, <1>4, <1>5, <1>6, <1>7 DEF DumpInv, Part, Crc

\* AppendFile writes the checksum.
LEMMA DumpAppendStep ==
  ASSUME CrcInv, NEW d \in Dumpers, DumpAppend(d)
  PROVE  CrcInv'
<1>0. overlapped' = overlapped /\ written' = written /\ wholes \subseteq wholes'
  BY DEF DumpAppend, NoteWholes
<1>. SUFFICES ASSUME ~overlapped PROVE DumpInv' /\ CheckInv'
  BY <1>0 DEF CrcInv
<1>1. /\ DumpInv /\ CheckInv /\ dumpPc[d] = "append"
      /\ \A e \in Dumpers \ {d} : dumpPc[e] = "idle"
  BY DEF CrcInv, DumpInv, DumpPcs, DumpAppend, DumpGoto
<1>2. UNCHANGED <<checkPc, mapped, nFileCrc32Code, checkRs>>
  BY DEF DumpAppend, DumpGoto
<1>3. CheckInv'
  BY <1>0, <1>1, <1>2, DumpKeepsCheck
<1>4. /\ dumpPc' \in [Dumpers -> DumpPcs] /\ \A e \in Dumpers : dumpPc'[e] = "idle"
      /\ \A e \in Dumpers : written'[e] = 0
  <2>1. dumpPc' \in [Dumpers -> DumpPcs] /\ \A e \in Dumpers : dumpPc'[e] = "idle"
    BY <1>1, DumpGotoPc DEF DumpAppend, DumpPcs
  <2>2. \A e \in Dumpers : written[e] = 0
    BY <1>1 DEF DumpInv
  <2>. QED  BY <1>0, <2>1, <2>2
<1>5. PICK n \in 1 .. DataLen : dump = Part(d, n)
  BY <1>1 DEF DumpInv
<1>6. CASE dump' = Append(dump, Crc(d))
  <2>1. dump' = Append(Part(d, n), Crc(d))
    BY <1>5, <1>6
  <2>2. n = DataLen => d \in wholes'
    BY <2>1 DEF DumpAppend, NoteWholes, Part, Data
  <2>. QED  BY <1>0, <1>1, <1>3, <1>4, <2>1, <2>2 DEF DumpInv, Part, Crc
<1>7. CASE UNCHANGED dump
  BY <1>0, <1>1, <1>3, <1>4, <1>5, <1>7 DEF DumpInv, Part
<1>. QED  BY <1>6, <1>7 DEF DumpAppend

\* A dumper dies.
LEMMA DumpCrashStep ==
  ASSUME CrcInv, NEW d \in Dumpers, DumpCrash(d)
  PROVE  CrcInv'
<1>0. UNCHANGED <<dump, wholes, overlapped, checkPc, mapped, nFileCrc32Code, checkRs>>
  BY DEF DumpCrash, DumpGoto
<1>. SUFFICES ASSUME ~overlapped PROVE DumpInv' /\ CheckInv'
  BY <1>0 DEF CrcInv
<1>1. DumpInv /\ CheckInv /\ \A e \in Dumpers \ {d} : dumpPc[e] = "idle"
  BY DEF CrcInv, DumpInv, DumpPcs, DumpCrash, DumpGoto
<1>2. dumpPc' \in [Dumpers -> DumpPcs] /\ \A e \in Dumpers : dumpPc'[e] = "idle"
  BY <1>1, DumpGotoPc DEF DumpCrash, DumpPcs
<1>3. written' \in [Dumpers -> Nat] /\ \A e \in Dumpers : written'[e] = 0
  BY <1>1 DEF DumpInv, DumpCrash
<1>4. CheckInv'
  BY <1>0, <1>1, DumpKeepsCheck
<1>. QED  BY <1>0, <1>1, <1>2, <1>3, <1>4 DEF DumpInv, Part, Crc

\* The dumpers do not notice a check.
LEMMA CheckKeepsDump ==
  ASSUME DumpInv, UNCHANGED <<dump, dumpPc, written, wholes>>
  PROVE  DumpInv'
BY DEF DumpInv, Part, Crc

\* The steps of a check up to the comparison.
LEMMA CheckStep ==
  ASSUME CrcInv, CheckOpen \/ CheckDies \/ CheckCrc
  PROVE  CrcInv'
<1>0. UNCHANGED <<dump, dumpPc, written, wholes, overlapped>>
  BY DEF CheckOpen, CheckDies, CheckCrc, CheckGoto
<1>. SUFFICES ASSUME ~overlapped PROVE DumpInv' /\ CheckInv'
  BY <1>0 DEF CrcInv
<1>1. DumpInv /\ CheckInv
  BY DEF CrcInv
<1>2. CASE CheckOpen
  BY <1>0, <1>1, <1>2, DumpIsSeq, CheckKeepsDump DEF CheckInv, CheckOpen, CheckGoto
<1>3. CASE CheckDies
  BY <1>0, <1>1, <1>3, CheckKeepsDump DEF CheckInv, CheckDies, CheckGoto
<1>4. CASE CheckCrc
  BY <1>0, <1>1, <1>4, CheckKeepsDump DEF CheckInv, CheckCrc, CheckGoto
<1>. QED  BY <1>2, <1>3, <1>4

\* The comparison.  A checksum at its place behind data as long as a whole
\* dump's is found only in a whole dump; the zeros behind the end are none.
LEMMA CheckCompareStep ==
  ASSUME CrcInv, CheckCompare
  PROVE  CrcInv'
<1>0. /\ UNCHANGED <<dump, dumpPc, written, wholes, overlapped, mapped, nFileCrc32Code>>
      /\ checkPc' = "idle"
  BY DEF CheckCompare, CheckGoto
<1>. SUFFICES ASSUME ~overlapped PROVE DumpInv' /\ CheckInv'
  BY <1>0 DEF CrcInv
<1>1. DumpInv /\ CheckInv /\ DataLen \in Nat \ {0}
  BY Crc32Assumption DEF Crc32Assumption, CrcInv
<1>2. /\ checkRs' = (IF Matches(nFileCrc32Code, Block(mapped)) THEN 0 ELSE 1)
      /\ Len(nFileCrc32Code) + 1 = mapped /\ mapped \in Nat
  BY <1>1 DEF CheckInv, CheckCompare, CheckGoto, toRead
<1>3. ASSUME NEW d \in Dumpers, nFileCrc32Code = Data(d), Block(mapped) = Crc(d)
      PROVE  d \in wholes
  <2>1. mapped = DataLen + 1
    <3>1. Len(Data(d)) = DataLen
      BY <1>1 DEF Data
    <3>. QED  BY <1>1, <1>2, <1>3, <3>1
  <2>2. mapped <= Len(dump) /\ dump[mapped] = Crc(d)
    <3>1. Crc(d) # Zero
      BY <1>1 DEF Crc, Zero
    <3>. QED  BY <1>3, <3>1 DEF Block
  <2>3. dump # <<>>
    BY <1>1, <2>1, <2>2
  <2>4. ASSUME NEW e \in Dumpers, NEW n \in 1 .. DataLen, dump = Part(e, n)
        PROVE  FALSE
    <3>1. Len(dump) = n
      BY <2>4, PartIsSeq, Zenon
    <3>. QED  BY <1>1, <2>1, <2>2, <3>1
  <2>5. ASSUME NEW e \in Dumpers, NEW n \in 1 .. DataLen,
               dump = Append(Part(e, n), Crc(e)), n = DataLen => e \in wholes
        PROVE  d \in wholes
    <3>1. Len(dump) = n + 1 /\ dump[n + 1] = Crc(e)
      BY <2>5, PartIsSeq, Zenon
    <3>2. n = DataLen
      BY <1>1, <2>1, <2>2, <3>1
    <3>3. Crc(e) = Crc(d)
      BY <2>1, <2>2, <3>1, <3>2
    <3>. QED  BY <2>5, <3>2, <3>3 DEF Crc
  <2>. QED  BY <1>1, <2>3, <2>4, <2>5 DEF DumpInv
<1>4. CheckInv'
  BY <1>0, <1>2, <1>3 DEF CheckInv, Matches, Data
<1>. QED  BY <1>0, <1>1, <1>4, CheckKeepsDump

\* Every step keeps the invariant.
LEMMA CrcInductive == CrcInv /\ [CrcNext]_crcVars => CrcInv'
<1>. SUFFICES ASSUME CrcInv, [CrcNext]_crcVars PROVE CrcInv'
  OBVIOUS
<1>1. CASE UNCHANGED crcVars
  <2>1. DumpInv => DumpInv'
    BY <1>1, CheckKeepsDump
  <2>2. CheckInv => CheckInv'
    BY <1>1, DumpKeepsCheck
  <2>. QED  BY <1>1, <2>1, <2>2 DEF CrcInv
<1>. QED  BY <1>1, DumpOpenStep, DumpWriteStep, DumpWrittenStep, DumpAppendStep, DumpCrashStep,
            CheckStep, CheckCompareStep DEF CrcNext

\* The strengthened invariant of the dumps holds of every behaviour.
THEOREM CrcInvariance == CrcSpec => []CrcInv
BY CrcInitInv, CrcInductive, PTL DEF CrcSpec

\* As long as no dump begins during another, CheckFileWithCrc32 finds nothing
\* wrong only with a dump that has been all of the file (myCrc32.cpp), for
\* data of any length and any number of processes.
THEOREM CheckIsWorthIt == CrcSpec => []CrcDetects
<1>1. CrcInv => CrcDetects
  BY DEF CrcInv, CheckInv, CrcDetects
<1>. QED  BY CrcInvariance, <1>1, PTL

=============================================================================
