------------------------------- MODULE MemReg -------------------------------
(***************************************************************************)
(* TMemReg (myMemReg.cpp) under the macros of myMemReg.h built with        *)
(* _MEM_REG_DEBUG, after MM_INIT: threads register every block they get    *)
(* from calloc or new and take it out before they free it.  Each thread    *)
(* keeps one pointer variable, pt.  The allocator gives any free address.  *)
(***************************************************************************)
EXTENDS Integers

CONSTANTS Threads,
          Addrs,     \* addresses of blocks
          NullPt,
          NoThread

ASSUME MemRegAssumption == NullPt \notin Addrs /\ NoThread \notin Threads

VARIABLES
  heap,      \* the blocks that are allocated
  m_PtInfo,  \* the registered addresses
  m_pLock,   \* who holds the lock
  pt, regPc,
  unknown    \* history: some Del did not find its pointer

regVars == <<heap, m_PtInfo, m_pLock, pt, regPc, unknown>>

RegInit ==
  /\ heap = {} /\ m_PtInfo = {} /\ m_pLock = NoThread
  /\ pt = [t \in Threads |-> NullPt] /\ regPc = [t \in Threads |-> "idle"]
  /\ unknown = FALSE

RegGoto(t, from, to) == regPc[t] = from /\ regPc' = [regPc EXCEPT ![t] = to]

----------------------------------------------------------------------------
\* MM_ALLOC: calloc, then Add.  A NULL is not registered.
Alloc(t) ==
  /\ pt[t] = NullPt
  /\ \/ /\ RegGoto(t, "idle", "addLock")
        /\ \E a \in Addrs \ heap : heap' = heap \cup {a} /\ pt' = [pt EXCEPT ![t] = a]
     \/ RegGoto(t, "idle", "idle") /\ UNCHANGED <<heap, pt>>
  /\ UNCHANGED <<m_PtInfo, m_pLock, unknown>>

\* The block is given back before it is taken out of the register.
FreeFirst(t) ==
  /\ RegGoto(t, "idle", "delLock")
  /\ heap' = heap \ {pt[t]}
  /\ UNCHANGED <<m_PtInfo, m_pLock, pt, unknown>>

\* MM_FREE and MM_DELETE begin with Del, of a NULL too.
Free(t) ==
  /\ RegGoto(t, "idle", "delLock")
  /\ UNCHANGED <<heap, m_PtInfo, m_pLock, pt, unknown>>

\* PRINT_MEM_INFO
ShowMemInfo(t) ==
  /\ RegGoto(t, "idle", "showLock")
  /\ UNCHANGED <<heap, m_PtInfo, m_pLock, pt, unknown>>

\* The program hands its block to another thread.
Pass(t) ==
  /\ \E u \in Threads : /\ regPc[t] = "idle" /\ regPc[u] = "idle" /\ pt[u] = NullPt
                        /\ pt' = [pt EXCEPT ![u] = pt[t], ![t] = NullPt]
  /\ UNCHANGED <<heap, m_PtInfo, m_pLock, regPc, unknown>>

----------------------------------------------------------------------------
\* m_pLock->Lock() of Add, Del and ShowMemInfo
Lock(t) ==
  /\ \/ RegGoto(t, "addLock", "add")
     \/ RegGoto(t, "delLock", "del")
     \/ RegGoto(t, "showLock", "show")
  /\ m_pLock = NoThread /\ m_pLock' = t
  /\ UNCHANGED <<heap, m_PtInfo, pt, unknown>>

\* An address that is registered already keeps its entry.
Add(t) ==
  /\ RegGoto(t, "add", "idle")
  /\ m_PtInfo' = m_PtInfo \cup {pt[t]}
  /\ m_pLock' = NoThread
  /\ UNCHANGED <<heap, pt, unknown>>

\* Every return of Del keeps the lock.
DelKeepsLock(t) ==
  /\ RegGoto(t, "del", "free")
  /\ m_PtInfo' = m_PtInfo \ {pt[t]}
  /\ unknown' = (unknown \/ pt[t] \notin m_PtInfo)
  /\ UNCHANGED <<heap, m_pLock, pt>>

\* The return at line 65 leaves the lock held.
Del(t) ==
  /\ RegGoto(t, "del", "free")
  /\ m_PtInfo' = m_PtInfo \ {pt[t]}
  /\ m_pLock' = IF pt[t] \in m_PtInfo THEN NoThread ELSE m_pLock
  /\ unknown' = (unknown \/ pt[t] \notin m_PtInfo)
  /\ UNCHANGED <<heap, pt>>

\* FREE_PT
FreePt(t) ==
  /\ RegGoto(t, "free", "idle")
  /\ heap' = heap \ {pt[t]}
  /\ pt' = [pt EXCEPT ![t] = NullPt]
  /\ UNCHANGED <<m_PtInfo, m_pLock, unknown>>

Show(t) ==
  /\ RegGoto(t, "show", "idle")
  /\ m_pLock' = NoThread
  /\ UNCHANGED <<heap, m_PtInfo, pt, unknown>>

Step(t) == Lock(t) \/ Add(t) \/ Del(t) \/ FreePt(t) \/ Show(t)

RegNext == \E t \in Threads : Alloc(t) \/ Free(t) \/ ShowMemInfo(t) \/ Pass(t) \/ Step(t)

RegSpec == RegInit /\ [][RegNext]_regVars

----------------------------------------------------------------------------
\* Properties

\* The register has exactly the blocks that are allocated and neither still
\* on the way in (Add) nor already out (Del): no block is lost from it when an
\* address is used again at once by another thread.
Registered ==
  m_PtInfo = {pt[t] : t \in {u \in Threads : regPc[u] \notin {"addLock", "add", "free"}}} \ {NullPt}

\* The lock is held inside Add, Del and ShowMemInfo only: every call gives it
\* back, until some Del is given a pointer it does not know.
LockGivenBack ==
  unknown \/ m_pLock = NoThread \/ regPc[m_pLock] \in {"add", "del", "show"}
=============================================================================
