---------------------------- MODULE MemRegProofs ----------------------------
(***************************************************************************)
(* TMemReg for every set of threads and addresses: the register is exact.  *)
(***************************************************************************)
EXTENDS MemReg, TLAPS

Pcs == {"idle", "addLock", "add", "delLock", "del", "free", "showLock", "show"}

TypeOK ==
  /\ heap \subseteq Addrs /\ m_PtInfo \subseteq Addrs
  /\ m_pLock \in Threads \cup {NoThread}
  /\ pt \in [Threads -> Addrs \cup {NullPt}] /\ regPc \in [Threads -> Pcs]
  /\ unknown \in BOOLEAN

\* A block is allocated as long as a thread has it, and one thread has it.
OwnInv ==
  /\ \A t \in Threads : pt[t] # NullPt => pt[t] \in heap
  /\ \A t, u \in Threads : pt[t] # NullPt /\ pt[t] = pt[u] => t = u
  /\ \A t \in Threads : regPc[t] \in {"addLock", "add"} => pt[t] # NullPt

\* Only the holder of the lock is at the register.
HeldInv == \A t \in Threads : regPc[t] \in {"add", "del", "show"} => m_pLock = t

IInv == TypeOK /\ OwnInv /\ HeldInv /\ LockGivenBack /\ Registered
----------------------------------------------------------------------------
\* The form of a step is expanded everywhere.
USE DEF RegGoto, regVars

\* Whether a thread's block is to be in the register.
LEMMA WhatIsRegistered ==
  Registered <=> \A a : a \in m_PtInfo <=>
    a # NullPt /\ \E t \in Threads : a = pt[t] /\ regPc[t] \notin {"addLock", "add", "free"}
BY DEF Registered

\* It is the same after a step.
LEMMA WhatIsRegisteredNext ==
  Registered' <=> \A a : a \in m_PtInfo' <=>
    a # NullPt /\ \E t \in Threads : a = pt'[t] /\ regPc'[t] \notin {"addLock", "add", "free"}
BY DEF Registered

\* The initial state satisfies the invariant.
LEMMA InitInv == RegInit => IInv
<1>. SUFFICES ASSUME RegInit PROVE IInv
  OBVIOUS
<1>1. TypeOK /\ OwnInv /\ HeldInv /\ LockGivenBack
  BY DEF RegInit, TypeOK, Pcs, OwnInv, HeldInv, LockGivenBack
<1>2. Registered
  BY DEF RegInit, Registered
<1>. QED  BY <1>1, <1>2 DEF IInv

\* A block is allocated.
LEMMA AllocStep ==
  ASSUME IInv, NEW t \in Threads, Alloc(t)
  PROVE  IInv'
<1>1. CASE RegGoto(t, "idle", "idle") /\ UNCHANGED <<heap, pt>>
  <2>1. UNCHANGED regVars
    BY <1>1 DEF IInv, TypeOK, Alloc
  <2>. QED  BY <2>1 DEF IInv, TypeOK, OwnInv, HeldInv, LockGivenBack, Registered
<1>2. ASSUME NEW a \in Addrs \ heap, RegGoto(t, "idle", "addLock"),
             heap' = heap \cup {a}, pt' = [pt EXCEPT ![t] = a]
      PROVE  IInv'
  <2>1. TypeOK'
    BY <1>2 DEF IInv, TypeOK, Pcs, Alloc
  <2>2. OwnInv' /\ HeldInv' /\ LockGivenBack'
    BY <1>2, MemRegAssumption
       DEF MemRegAssumption, IInv, TypeOK, OwnInv, HeldInv, LockGivenBack, Alloc
  <2>3. Registered'
    BY <1>2, WhatIsRegistered, WhatIsRegisteredNext DEF IInv, TypeOK, Alloc
  <2>. QED  BY <2>1, <2>2, <2>3 DEF IInv
<1>. QED  BY <1>1, <1>2 DEF Alloc

\* MM_FREE and PRINT_MEM_INFO begin.
LEMMA BeginStep ==
  ASSUME IInv, NEW t \in Threads, Free(t) \/ ShowMemInfo(t)
  PROVE  IInv'
<1>1. TypeOK' /\ OwnInv' /\ HeldInv' /\ LockGivenBack'
  BY DEF IInv, TypeOK, Pcs, OwnInv, HeldInv, LockGivenBack, Free, ShowMemInfo
<1>2. Registered'
  BY WhatIsRegistered, WhatIsRegisteredNext DEF IInv, TypeOK, Free, ShowMemInfo
<1>. QED  BY <1>1, <1>2 DEF IInv

\* A block goes from one thread to another.
LEMMA PassStep ==
  ASSUME IInv, NEW t \in Threads, Pass(t)
  PROVE  IInv'
<1>1. PICK u \in Threads : /\ regPc[t] = "idle" /\ regPc[u] = "idle" /\ pt[u] = NullPt
                           /\ pt' = [pt EXCEPT ![u] = pt[t], ![t] = NullPt]
  BY DEF Pass
<1>2. UNCHANGED <<heap, m_PtInfo, m_pLock, regPc, unknown>>
  BY DEF Pass
<1>3. \A v \in Threads : pt'[v] = IF v = t THEN NullPt ELSE IF v = u THEN pt[t] ELSE pt[v]
  BY <1>1 DEF IInv, TypeOK
<1>4. TypeOK' /\ OwnInv' /\ HeldInv' /\ LockGivenBack'
  BY <1>1, <1>2, <1>3 DEF IInv, TypeOK, OwnInv, HeldInv, LockGivenBack
<1>5. Registered'
  <2>1. m_PtInfo' = m_PtInfo /\ regPc' = regPc
    BY <1>2
  <2>2. ASSUME NEW a, a # NullPt,
               NEW v \in Threads, a = pt[v], regPc[v] \notin {"addLock", "add", "free"}
        PROVE  \E w \in Threads : a = pt'[w] /\ regPc'[w] \notin {"addLock", "add", "free"}
    <3>1. CASE v = t
      BY <1>1, <1>3, <2>1, <2>2, <3>1
    <3>2. CASE v # t
      BY <1>1, <1>3, <2>1, <2>2, <3>2
    <3>. QED  BY <3>1, <3>2
  <2>3. ASSUME NEW a, a # NullPt,
               NEW v \in Threads, a = pt'[v], regPc'[v] \notin {"addLock", "add", "free"}
        PROVE  \E w \in Threads : a = pt[w] /\ regPc[w] \notin {"addLock", "add", "free"}
    <3>1. CASE v = u
      BY <1>1, <1>3, <2>1, <2>3, <3>1
    <3>2. CASE v # u
      BY <1>1, <1>3, <2>1, <2>3, <3>2
    <3>. QED  BY <3>1, <3>2
  <2>4. \A a : a \in m_PtInfo <=>
          a # NullPt /\ \E v \in Threads : a = pt[v] /\ regPc[v] \notin {"addLock", "add", "free"}
    BY WhatIsRegistered DEF IInv
  <2>5. ASSUME NEW a
        PROVE  a \in m_PtInfo' <=>
          a # NullPt /\ \E v \in Threads : a = pt'[v] /\ regPc'[v] \notin {"addLock", "add", "free"}
    <3>1. a \in m_PtInfo' <=>
            a # NullPt /\ \E v \in Threads : a = pt[v] /\ regPc[v] \notin {"addLock", "add", "free"}
      BY <2>1, <2>4
    <3>. QED  BY <2>2, <2>3, <3>1, Zenon
  <2>. QED  BY <2>5, WhatIsRegisteredNext
<1>. QED  BY <1>4, <1>5 DEF IInv

\* The lock is taken.
LEMMA LockStep ==
  ASSUME IInv, NEW t \in Threads, Lock(t)
  PROVE  IInv'
<1>1. TypeOK' /\ OwnInv'
  BY DEF IInv, TypeOK, Pcs, OwnInv, Lock
<1>2. HeldInv' /\ LockGivenBack'
  BY MemRegAssumption DEF MemRegAssumption, IInv, TypeOK, HeldInv, LockGivenBack, Lock
<1>3. Registered'
  BY WhatIsRegistered, WhatIsRegisteredNext DEF IInv, TypeOK, Lock
<1>. QED  BY <1>1, <1>2, <1>3 DEF IInv

\* A block is registered.
LEMMA AddStep ==
  ASSUME IInv, NEW t \in Threads, Add(t)
  PROVE  IInv'
<1>1. TypeOK' /\ OwnInv' /\ HeldInv' /\ LockGivenBack'
  BY DEF IInv, TypeOK, Pcs, OwnInv, HeldInv, LockGivenBack, Add
<1>2. Registered'
  BY WhatIsRegistered, WhatIsRegisteredNext DEF IInv, TypeOK, OwnInv, Add
<1>. QED  BY <1>1, <1>2 DEF IInv

\* A block is taken out of the register.
LEMMA DelStep ==
  ASSUME IInv, NEW t \in Threads, Del(t)
  PROVE  IInv'
<1>1. TypeOK' /\ OwnInv' /\ HeldInv' /\ LockGivenBack'
  BY DEF IInv, TypeOK, Pcs, OwnInv, HeldInv, LockGivenBack, Del
<1>2. Registered'
  BY WhatIsRegistered, WhatIsRegisteredNext DEF IInv, TypeOK, OwnInv, Del
<1>. QED  BY <1>1, <1>2 DEF IInv

\* The block is freed.
LEMMA FreePtStep ==
  ASSUME IInv, NEW t \in Threads, FreePt(t)
  PROVE  IInv'
<1>1. TypeOK' /\ OwnInv' /\ HeldInv' /\ LockGivenBack'
  BY DEF IInv, TypeOK, Pcs, OwnInv, HeldInv, LockGivenBack, FreePt
<1>2. Registered'
  BY WhatIsRegistered, WhatIsRegisteredNext DEF IInv, TypeOK, FreePt
<1>. QED  BY <1>1, <1>2 DEF IInv

\* The register has been printed.
LEMMA ShowStep ==
  ASSUME IInv, NEW t \in Threads, Show(t)
  PROVE  IInv'
<1>1. TypeOK' /\ OwnInv' /\ HeldInv' /\ LockGivenBack'
  BY DEF IInv, TypeOK, Pcs, OwnInv, HeldInv, LockGivenBack, Show
<1>2. Registered'
  BY WhatIsRegistered, WhatIsRegisteredNext DEF IInv, TypeOK, Show
<1>. QED  BY <1>1, <1>2 DEF IInv

\* Every step keeps the invariant.
LEMMA Inductive == IInv /\ [RegNext]_regVars => IInv'
<1>. SUFFICES ASSUME IInv, [RegNext]_regVars PROVE IInv'
  OBVIOUS
<1>1. ASSUME NEW t \in Threads,
             Alloc(t) \/ Free(t) \/ ShowMemInfo(t) \/ Pass(t) \/ Step(t)
      PROVE  IInv'
  BY <1>1, AllocStep, BeginStep, PassStep, LockStep, AddStep, DelStep, FreePtStep, ShowStep
     DEF Step
<1>2. CASE UNCHANGED regVars
  BY <1>2 DEF IInv, TypeOK, OwnInv, HeldInv, LockGivenBack, Registered
<1>. QED  BY <1>1, <1>2 DEF RegNext

\* The strengthened invariant holds of every behaviour.
THEOREM Invariance == RegSpec => []IInv
BY InitInv, Inductive, PTL DEF RegSpec

\* The register has exactly the blocks that are allocated and neither on the
\* way in nor already out (myMemReg.cpp:25-77 under the macros of myMemReg.h),
\* however many threads allocate, pass on and free them.
THEOREM RegisterExact == RegSpec => []Registered
BY Invariance, PTL DEF IInv

\* Every call of TMemReg gives the lock back (myMemReg.cpp:25-77), until a Del
\* is given a pointer that is not registered.
THEOREM LockIsGivenBack == RegSpec => []LockGivenBack
BY Invariance, PTL DEF IInv

\* The macros never hand Del a block it does not know: the return at
\* myMemReg.cpp:65, which keeps the lock, is taken for NULL alone.
THEOREM OnlyNullUnknown ==
  RegSpec => [](\A t \in Threads : regPc[t] = "del" /\ pt[t] \notin m_PtInfo => pt[t] = NullPt)
<1>1. IInv => \A t \in Threads : regPc[t] = "del" /\ pt[t] \notin m_PtInfo => pt[t] = NullPt
  BY WhatIsRegistered DEF IInv
<1>. QED  BY Invariance, <1>1, PTL

=============================================================================
