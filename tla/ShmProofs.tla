----------------------------- MODULE ShmProofs -----------------------------
(***************************************************************************)
(* TShm for every number of processes and segments and every size: objects *)
(* are attached to what they name, and an extension keeps the contents.    *)
(***************************************************************************)
EXTENDS Shm, TLAPS

Pcs == {"idle", "create", "find", "detach", "rmid", "attach", "restore", "extended"}

TypeOK ==
  /\ keyed \in Segs \cup {None} /\ segSize \in [Segs -> 0 .. MaxSize]
  /\ attached \in [Segs -> SUBSET Procs] /\ data \in [Segs -> SUBSET Sizes]
  /\ gone \subseteq Segs
  /\ m_key \in [Procs -> BOOLEAN] /\ m_shmid \in [Procs -> Segs \cup {None}]
  /\ m_Addr \in [Procs -> Segs \cup {NULL}]
  /\ pc \in [Procs -> Pcs] /\ size \in [Procs -> 0 .. MaxSize]
  /\ shmid \in [Procs -> Segs \cup {None}]
  /\ nOldSize \in [Procs -> 0 .. MaxSize] /\ Addr \in [Procs -> SUBSET Sizes]
  /\ raced \subseteq Procs /\ lost \subseteq Procs

\* m_shmid and m_Addr are set together, and name what the process is attached
\* to, but between shmdt and shmctl, and after a removal that was lost.
MemberInv ==
  \A p \in Procs :
    /\ m_Addr[p] = NULL <=> m_shmid[p] = None
    /\ m_Addr[p] # NULL => m_shmid[p] = m_Addr[p]

AtInv ==
  \A p \in Procs : \A i \in Segs :
    p \in attached[i] <=> i = m_Addr[p] /\ p \notin lost /\ pc[p] # "rmid"

\* What the members are at each step of a call.
CallInv ==
  \A p \in Procs :
    /\ pc[p] = "create" => m_Addr[p] = NULL
    /\ pc[p] \in {"find", "attach"} => m_Addr[p] = NULL \/ p \in lost
    /\ pc[p] \in {"detach", "rmid", "restore", "extended"} => m_Addr[p] # NULL
    /\ p \in lost => m_Addr[p] \in gone /\ pc[p] \in {"idle", "detach", "find", "attach"}

\* The locals of an extension; one that finds the key taken has raced.
ExtendInv ==
  \A p \in Procs :
    /\ pc[p] = "idle" => nOldSize[p] = 0
    /\ pc[p] = "attach" => shmid[p] \in Segs
    /\ pc[p] \in {"restore", "extended"} => Extending(p) /\ shmid[p] = m_Addr[p]
    /\ Extending(p) => nOldSize[p] < size[p]
    /\ Addr[p] \subseteq 1 .. nOldSize[p]
    /\ pc[p] = "find" /\ Extending(p) => p \in raced

DataInv == \A i \in Segs : data[i] \subseteq 1 .. segSize[i]

\* An extension that has not raced has created its segment, which no other
\* such extension has.
Owner(p) == p \notin raced /\ Extending(p) /\ pc[p] \in {"attach", "restore", "extended"}

OwnerInv ==
  \A p \in Procs : Owner(p) =>
    /\ segSize[shmid[p]] = size[p]
    /\ pc[p] = "extended" => Addr[p] \subseteq data[shmid[p]]
    /\ \A q \in Procs : Owner(q) /\ shmid[q] = shmid[p] => q = p

IInv == TypeOK /\ MemberInv /\ AtInv /\ CallInv /\ ExtendInv /\ DataInv /\ OwnerInv
----------------------------------------------------------------------------
\* Tuples of variables and the form of a step are expanded everywhere.
USE DEF Goto, kernel, members, locals, vars

\* No segment has the number of none.
LEMMA NoSegment == NULL \notin Segs /\ None \notin Segs /\ NULL # None
BY DEF Segs, NULL, None

\* The initial state satisfies the invariant.
LEMMA InitInv == Init => IInv
<1>. SUFFICES ASSUME Init PROVE IInv
  OBVIOUS
<1>1. TypeOK
  BY ShmAssumption DEF ShmAssumption, Init, TypeOK, Pcs
<1>2. MemberInv /\ AtInv /\ CallInv
  BY NoSegment DEF Init, MemberInv, AtInv, CallInv
<1>3. ExtendInv /\ DataInv /\ OwnerInv
  BY DEF Init, ExtendInv, DataInv, OwnerInv, Owner, Extending
<1>. QED  BY <1>1, <1>2, <1>3 DEF IInv

\* The locals of a call that ends.
LEMMA ReturnLocals ==
  ASSUME TypeOK, NEW p \in Procs, NEW from, Return(p, from)
  PROVE  /\ pc' \in [Procs -> Pcs] /\ size' \in [Procs -> 0 .. MaxSize]
         /\ shmid' \in [Procs -> Segs \cup {None}] /\ nOldSize' \in [Procs -> 0 .. MaxSize]
         /\ Addr' \in [Procs -> SUBSET Sizes] /\ raced' \subseteq Procs
         /\ pc'[p] = "idle" /\ nOldSize'[p] = 0 /\ Addr'[p] = {}
         /\ \A q \in Procs \ {p} :
              /\ pc'[q] = pc[q] /\ size'[q] = size[q] /\ shmid'[q] = shmid[q]
              /\ nOldSize'[q] = nOldSize[q] /\ Addr'[q] = Addr[q]
              /\ q \in raced' <=> q \in raced
<1>1. pc' \in [Procs -> Pcs] /\ size' \in [Procs -> 0 .. MaxSize]
      /\ nOldSize' \in [Procs -> 0 .. MaxSize]
  BY ShmAssumption DEF ShmAssumption, Return, TypeOK, Pcs
<1>2. shmid' \in [Procs -> Segs \cup {None}] /\ Addr' \in [Procs -> SUBSET Sizes]
      /\ raced' \subseteq Procs
  BY DEF Return, TypeOK
<1>. QED  BY <1>1, <1>2 DEF Return, TypeOK

\* A call that ends early, or is done, and leaves members and kernel alone.
LEMMA ReturnStep ==
  ASSUME IInv, NEW p \in Procs, NEW from \in Pcs \ {"rmid"}, Return(p, from),
         UNCHANGED <<kernel, members, lost>>
  PROVE  IInv'
<1>. USE ReturnLocals DEF IInv
<1>0. pc[p] = from
  BY DEF Return
<1>1. TypeOK'
  BY DEF TypeOK
<1>2. MemberInv' /\ AtInv' /\ CallInv'
  BY <1>0 DEF MemberInv, AtInv, CallInv
<1>3. ExtendInv' /\ DataInv'
  BY DEF ExtendInv, DataInv, Extending
<1>4. OwnerInv'
  BY DEF OwnerInv, Owner, Extending
<1>. QED  BY <1>1, <1>2, <1>3, <1>4

\* A call begins, or a segment is found under the key: the kernel and the
\* members stay.
LEMMA ShmInitStep ==
  ASSUME IInv, NEW p \in Procs, ShmInit(p)
  PROVE  IInv'
<1>1. TypeOK'
  BY DEF IInv, ShmInit, TypeOK, Pcs, Sizes
<1>2. MemberInv' /\ AtInv' /\ CallInv'
  BY NoSegment DEF IInv, ShmInit, TypeOK, MemberInv, AtInv, CallInv
<1>3. ExtendInv' /\ DataInv'
  BY DEF IInv, ShmInit, TypeOK, ExtendInv, DataInv, Extending
<1>4. OwnerInv'
  BY DEF IInv, ShmInit, TypeOK, OwnerInv, Owner, Extending
<1>. QED  BY <1>1, <1>2, <1>3, <1>4 DEF IInv

\* ShmConnect begins.
LEMMA ShmConnectStep ==
  ASSUME IInv, NEW p \in Procs, ShmConnect(p)
  PROVE  IInv'
<1>1. TypeOK'
  BY DEF IInv, ShmConnect, TypeOK, Pcs
<1>2. MemberInv' /\ AtInv' /\ CallInv'
  BY NoSegment DEF IInv, ShmConnect, TypeOK, MemberInv, AtInv, CallInv
<1>3. ExtendInv' /\ DataInv'
  BY DEF IInv, ShmConnect, TypeOK, ExtendInv, DataInv, Extending
<1>4. OwnerInv'
  BY DEF IInv, ShmConnect, TypeOK, OwnerInv, Owner, Extending
<1>. QED  BY <1>1, <1>2, <1>3, <1>4 DEF IInv

\* ShmDelete begins.
LEMMA ShmDeleteStep ==
  ASSUME IInv, NEW p \in Procs, ShmDelete(p)
  PROVE  IInv'
<1>1. TypeOK'
  BY DEF IInv, ShmDelete, TypeOK, Pcs
<1>2. MemberInv' /\ AtInv' /\ CallInv'
  BY NoSegment DEF IInv, ShmDelete, TypeOK, MemberInv, AtInv, CallInv
<1>3. ExtendInv' /\ DataInv'
  BY DEF IInv, ShmDelete, TypeOK, ExtendInv, DataInv, Extending
<1>4. OwnerInv'
  BY DEF IInv, ShmDelete, TypeOK, OwnerInv, Owner, Extending
<1>. QED  BY <1>1, <1>2, <1>3, <1>4 DEF IInv

\* ShmExtend begins: the contents are saved.
LEMMA ShmExtendStep ==
  ASSUME IInv, NEW p \in Procs, ShmExtend(p)
  PROVE  IInv'
<1>1. PICK s \in Sizes : s > GetSize(p) /\ size' = [size EXCEPT ![p] = s]
  BY DEF ShmExtend
<1>2. /\ m_Addr[p] \in Segs /\ m_shmid[p] = m_Addr[p] /\ pc[p] = "idle"
      /\ GetSize(p) = segSize[m_Addr[p]] /\ m_Addr[p] \notin gone
  BY NoSegment DEF IInv, ShmExtend, TypeOK, MemberInv, GetSize
<1>3. /\ segSize[m_Addr[p]] \in 0 .. MaxSize
      /\ data[m_Addr[p]] \subseteq 1 .. segSize[m_Addr[p]] /\ data[m_Addr[p]] \subseteq Sizes
  BY <1>2 DEF IInv, TypeOK, DataInv
<1>4. /\ pc'[p] = "detach" /\ size'[p] = s /\ nOldSize'[p] = segSize[m_Addr[p]]
      /\ Addr'[p] = data[m_Addr[p]] /\ p \notin lost
      /\ UNCHANGED <<kernel, members, shmid, lost>>
      /\ \A q \in Procs \ {p} :
           /\ pc'[q] = pc[q] /\ size'[q] = size[q] /\ nOldSize'[q] = nOldSize[q]
           /\ Addr'[q] = Addr[q] /\ (q \in raced' <=> q \in raced)
  BY <1>1, <1>2 DEF IInv, TypeOK, CallInv, ShmExtend
<1>5. TypeOK'
  <2>1. /\ pc' \in [Procs -> Pcs] /\ size' \in [Procs -> 0 .. MaxSize]
        /\ nOldSize' \in [Procs -> 0 .. MaxSize] /\ Addr' \in [Procs -> SUBSET Sizes]
        /\ raced' \subseteq Procs
    BY <1>1, <1>2, <1>3 DEF IInv, TypeOK, ShmExtend, Pcs, Sizes
  <2>. QED  BY <1>4, <2>1 DEF IInv, TypeOK
<1>6. MemberInv' /\ AtInv' /\ CallInv'
  BY <1>2, <1>4, NoSegment DEF IInv, MemberInv, AtInv, CallInv
<1>7. ExtendInv' /\ DataInv'
  <2>1. s > segSize[m_Addr[p]]
    BY <1>1, <1>2
  <2>. QED  BY <1>3, <1>4, <2>1 DEF IInv, ExtendInv, DataInv, Extending
<1>8. OwnerInv'
  BY <1>4 DEF IInv, OwnerInv, Owner, Extending
<1>. QED  BY <1>5, <1>6, <1>7, <1>8 DEF IInv

\* What detaching does to the kernel.
LEMMA DetachKernel ==
  ASSUME TypeOK, NEW p \in Procs, NEW i \in Segs, Detach(p, i)
  PROVE  /\ attached' \in [Segs -> SUBSET Procs] /\ gone' \subseteq Segs /\ gone \subseteq gone'
         /\ \A q \in Procs, j \in Segs :
              q \in attached'[j] <=> q \in attached[j] /\ ~(q = p /\ j = i)
BY DEF TypeOK, Detach

\* ShmDisconnect, of its own or first in ShmReconnect.
LEMMA DisconnectStep ==
  ASSUME IInv, NEW p \in Procs, ShmDisconnect(p) \/ ShmReconnect(p)
  PROVE  IInv'
<1>1. /\ pc[p] = "idle" /\ pc'[p] \in {"idle", "find"} /\ pc' \in [Procs -> Pcs]
      /\ \A q \in Procs \ {p} : pc'[q] = pc[q]
      /\ UNCHANGED <<keyed, segSize, data, m_key, size, shmid, nOldSize, Addr, raced, lost>>
  BY DEF IInv, TypeOK, Pcs, ShmDisconnect, ShmReconnect, Disconnect
<1>2. DataInv' /\ OwnerInv'
  BY <1>1 DEF IInv, DataInv, OwnerInv, Owner, Extending
<1>3. CASE /\ Mapped(p)
           /\ Detach(p, m_Addr[p])
           /\ m_Addr' = [m_Addr EXCEPT ![p] = NULL] /\ m_shmid' = [m_shmid EXCEPT ![p] = None]
  <2>1. m_Addr[p] \in Segs
    BY <1>3 DEF IInv, TypeOK, Mapped
  <2>2. /\ attached' \in [Segs -> SUBSET Procs] /\ gone' \subseteq Segs /\ gone \subseteq gone'
        /\ \A q \in Procs, j \in Segs :
             q \in attached'[j] <=> q \in attached[j] /\ ~(q = p /\ j = m_Addr[p])
    BY <1>3, <2>1, DetachKernel DEF IInv
  <2>3. /\ m_Addr' \in [Procs -> Segs \cup {NULL}] /\ m_shmid' \in [Procs -> Segs \cup {None}]
        /\ m_Addr'[p] = NULL /\ m_shmid'[p] = None
        /\ \A q \in Procs \ {p} : m_Addr'[q] = m_Addr[q] /\ m_shmid'[q] = m_shmid[q]
    BY <1>3 DEF IInv, TypeOK
  <2>4. TypeOK'
    BY <1>1, <2>2, <2>3 DEF IInv, TypeOK
  <2>5. p \notin lost
    BY <1>3, <2>1 DEF IInv, AtInv, Mapped
  <2>6. MemberInv' /\ AtInv' /\ CallInv'
    BY <1>1, <2>1, <2>2, <2>3, <2>5, NoSegment DEF IInv, MemberInv, AtInv, CallInv
  <2>7. ExtendInv'
    BY <1>1, <2>3 DEF IInv, ExtendInv, Extending
  <2>. QED  BY <1>2, <2>4, <2>6, <2>7 DEF IInv
<1>4. CASE ~Mapped(p) /\ UNCHANGED <<kernel, members>>
  <2>1. TypeOK'
    BY <1>1, <1>4 DEF IInv, TypeOK
  <2>2. m_Addr[p] = NULL \/ p \in lost
    BY <1>1, <1>4 DEF IInv, TypeOK, AtInv, Mapped
  <2>3. MemberInv' /\ AtInv' /\ CallInv'
    BY <1>1, <1>4, <2>2, NoSegment DEF IInv, MemberInv, AtInv, CallInv
  <2>4. ExtendInv'
    BY <1>1, <1>4 DEF IInv, ExtendInv, Extending
  <2>. QED  BY <1>2, <2>1, <2>3, <2>4 DEF IInv
<1>. QED  BY <1>3, <1>4 DEF ShmDisconnect, ShmReconnect, Disconnect

\* shmdt of ShmDelete.
LEMMA ShmdtStep ==
  ASSUME IInv, NEW p \in Procs, Shmdt(p)
  PROVE  IInv'
<1>1. CASE ~Mapped(p) /\ Return(p, "detach") /\ UNCHANGED <<kernel, members, lost>>
  BY <1>1, ReturnStep DEF Pcs
<1>2. CASE /\ Goto(p, "detach", "rmid") /\ Mapped(p) /\ Detach(p, m_Addr[p])
           /\ UNCHANGED <<keyed, segSize, data, members, size, shmid, nOldSize, Addr, raced, lost>>
  <2>1. m_Addr[p] \in Segs /\ p \notin lost
    BY <1>2, NoSegment DEF IInv, TypeOK, AtInv, Mapped
  <2>2. /\ attached' \in [Segs -> SUBSET Procs] /\ gone' \subseteq Segs /\ gone \subseteq gone'
        /\ \A q \in Procs, j \in Segs :
             q \in attached'[j] <=> q \in attached[j] /\ ~(q = p /\ j = m_Addr[p])
    BY <1>2, <2>1, DetachKernel DEF IInv
  <2>3. /\ pc[p] = "detach" /\ pc'[p] = "rmid" /\ pc' \in [Procs -> Pcs]
        /\ \A q \in Procs \ {p} : pc'[q] = pc[q]
    BY <1>2 DEF IInv, TypeOK, Pcs
  <2>4. TypeOK'
    BY <1>2, <2>2, <2>3 DEF IInv, TypeOK
  <2>5. MemberInv' /\ AtInv' /\ CallInv'
    BY <1>2, <2>1, <2>2, <2>3 DEF IInv, MemberInv, AtInv, CallInv
  <2>6. ExtendInv' /\ DataInv'
    BY <1>2, <2>3 DEF IInv, ExtendInv, DataInv, Extending
  <2>7. OwnerInv'
    BY <1>2, <2>3 DEF IInv, OwnerInv, Owner, Extending
  <2>. QED  BY <2>4, <2>5, <2>6, <2>7 DEF IInv
<1>. QED  BY <1>1, <1>2 DEF Shmdt

\* The segment is removed, unless it is gone.
LEMMA RmidStep ==
  ASSUME IInv, NEW p \in Procs, Rmid(p)
  PROVE  IInv'
<1>. DEFINE i == m_shmid[p]
<1>1. /\ pc[p] = "rmid" /\ m_Addr[p] \in Segs /\ i = m_Addr[p] /\ p \notin lost
      /\ \A j \in Segs : p \notin attached[j]
  BY NoSegment DEF IInv, TypeOK, MemberInv, AtInv, CallInv, Rmid, Return
<1>2. CASE Return(p, "rmid") /\ i \in gone /\ lost' = lost \cup {p} /\ UNCHANGED <<kernel, members>>
  <2>1. TypeOK'
    BY <1>2, ReturnLocals DEF IInv, TypeOK
  <2>2. MemberInv' /\ AtInv' /\ CallInv'
    BY <1>1, <1>2, ReturnLocals, NoSegment DEF IInv, MemberInv, AtInv, CallInv
  <2>3. ExtendInv' /\ DataInv'
    BY <1>2, ReturnLocals DEF IInv, ExtendInv, DataInv, Extending
  <2>4. OwnerInv'
    BY <1>2, ReturnLocals DEF IInv, OwnerInv, Owner, Extending
  <2>. QED  BY <2>1, <2>2, <2>3, <2>4 DEF IInv
<1>3. CASE /\ i \notin gone
           /\ keyed' = IF keyed = i THEN None ELSE keyed
           /\ gone' = IF attached[i] = {} THEN gone \cup {i} ELSE gone
           /\ m_Addr' = [m_Addr EXCEPT ![p] = NULL] /\ m_shmid' = [m_shmid EXCEPT ![p] = None]
           /\ IF Extending(p) THEN Goto(p, "rmid", "create") /\ UNCHANGED <<size, shmid, nOldSize, Addr, raced>>
                              ELSE Return(p, "rmid")
           /\ UNCHANGED <<segSize, attached, data, m_key, lost>>
  <2>1. /\ pc' \in [Procs -> Pcs] /\ size' \in [Procs -> 0 .. MaxSize]
        /\ shmid' \in [Procs -> Segs \cup {None}] /\ nOldSize' \in [Procs -> 0 .. MaxSize]
        /\ Addr' \in [Procs -> SUBSET Sizes] /\ raced' \subseteq Procs
        /\ \/ pc'[p] = "idle" /\ nOldSize'[p] = 0 /\ Addr'[p] = {}
           \/ /\ pc'[p] = "create" /\ nOldSize'[p] = nOldSize[p] /\ size'[p] = size[p]
              /\ Addr'[p] = Addr[p]
        /\ \A q \in Procs \ {p} :
             /\ pc'[q] = pc[q] /\ size'[q] = size[q] /\ shmid'[q] = shmid[q]
             /\ nOldSize'[q] = nOldSize[q] /\ Addr'[q] = Addr[q]
             /\ q \in raced' <=> q \in raced
    <3>1. CASE Extending(p)
      BY <1>3, <3>1 DEF IInv, TypeOK, Pcs
    <3>2. CASE ~Extending(p)
      BY <1>3, <3>2, ReturnLocals DEF IInv
    <3>. QED  BY <3>1, <3>2
  <2>2. /\ m_Addr' \in [Procs -> Segs \cup {NULL}] /\ m_shmid' \in [Procs -> Segs \cup {None}]
        /\ m_Addr'[p] = NULL /\ m_shmid'[p] = None
        /\ \A q \in Procs \ {p} : m_Addr'[q] = m_Addr[q] /\ m_shmid'[q] = m_shmid[q]
    BY <1>3 DEF IInv, TypeOK
  <2>3. keyed' \in Segs \cup {None} /\ gone' \subseteq Segs /\ gone \subseteq gone'
    BY <1>1, <1>3 DEF IInv, TypeOK
  <2>4. TypeOK'
    BY <1>3, <2>1, <2>2, <2>3 DEF IInv, TypeOK
  <2>5. MemberInv' /\ AtInv' /\ CallInv'
    BY <1>1, <1>3, <2>1, <2>2, <2>3, NoSegment DEF IInv, MemberInv, AtInv, CallInv
  <2>6. ExtendInv' /\ DataInv'
    BY <1>1, <1>3, <2>1, <2>2 DEF IInv, ExtendInv, DataInv, Extending
  <2>7. OwnerInv'
    BY <1>3, <2>1 DEF IInv, OwnerInv, Owner, Extending
  <2>. QED  BY <2>4, <2>5, <2>6, <2>7 DEF IInv
<1>. QED  BY <1>1, <1>2, <1>3 DEF Rmid

\* A segment is created, or the key is taken.
LEMMA CreateStep ==
  ASSUME IInv, NEW p \in Procs, Create(p)
  PROVE  IInv'
<1>1. CASE Return(p, "create") /\ UNCHANGED <<kernel, members, lost>>
  BY <1>1, ReturnStep DEF Pcs
<1>2. CASE /\ Goto(p, "create", "find")
           /\ keyed # None
           /\ raced' = IF Extending(p) THEN raced \cup {p} ELSE raced
           /\ UNCHANGED <<kernel, members, size, shmid, nOldSize, Addr, lost>>
  <2>1. /\ pc[p] = "create" /\ pc'[p] = "find" /\ pc' \in [Procs -> Pcs]
        /\ \A q \in Procs \ {p} : pc'[q] = pc[q] /\ (q \in raced' <=> q \in raced)
        /\ raced' \subseteq Procs
    BY <1>2 DEF IInv, TypeOK, Pcs
  <2>2. TypeOK'
    BY <1>2, <2>1 DEF IInv, TypeOK
  <2>3. MemberInv' /\ AtInv' /\ CallInv'
    BY <1>2, <2>1, NoSegment DEF IInv, MemberInv, AtInv, CallInv
  <2>4. ExtendInv' /\ DataInv'
    BY <1>2, <2>1 DEF IInv, ExtendInv, DataInv, Extending
  <2>5. OwnerInv'
    BY <1>2, <2>1 DEF IInv, OwnerInv, Owner, Extending
  <2>. QED  BY <2>2, <2>3, <2>4, <2>5 DEF IInv
<1>3. ASSUME Goto(p, "create", "attach"), NEW i \in Segs, segSize[i] = 0, keyed' = i,
             segSize' = [segSize EXCEPT ![i] = size[p]], shmid' = [shmid EXCEPT ![p] = i],
             UNCHANGED <<attached, data, gone, members, size, nOldSize, Addr, raced, lost>>
      PROVE  IInv'
  <2>1. /\ pc[p] = "create" /\ pc'[p] = "attach" /\ pc' \in [Procs -> Pcs]
        /\ \A q \in Procs \ {p} : pc'[q] = pc[q] /\ shmid'[q] = shmid[q]
        /\ shmid'[p] = i /\ shmid' \in [Procs -> Segs \cup {None}]
    BY <1>3 DEF IInv, TypeOK, Pcs
  <2>2. /\ segSize' \in [Segs -> 0 .. MaxSize] /\ segSize'[i] = size[p]
        /\ \A j \in Segs \ {i} : segSize'[j] = segSize[j]
    BY <1>3 DEF IInv, TypeOK
  <2>3. TypeOK'
    BY <1>3, <2>1, <2>2 DEF IInv, TypeOK
  <2>4. MemberInv' /\ AtInv' /\ CallInv'
    BY <1>3, <2>1, NoSegment DEF IInv, MemberInv, AtInv, CallInv
  <2>5. ExtendInv'
    BY <1>3, <2>1 DEF IInv, ExtendInv, Extending
  <2>6. DataInv'
    <3>1. data[i] = {}
      BY <1>3 DEF IInv, DataInv
    <3>. QED  BY <1>3, <2>2, <3>1 DEF IInv, DataInv
  <2>7. OwnerInv'
    <3>1. ASSUME NEW q \in Procs, Owner(q)
          PROVE  q # p /\ shmid[q] \in Segs \ {i} /\ segSize[shmid[q]] = size[q]
      <4>1. shmid[q] \in Segs
        BY <3>1, NoSegment DEF IInv, TypeOK, ExtendInv, CallInv, Owner
      <4>2. segSize[shmid[q]] = size[q] /\ size[q] > 0
        BY <3>1 DEF IInv, TypeOK, OwnerInv, ExtendInv, Owner, Extending
      <4>. QED  BY <1>3, <2>1, <3>1, <4>1, <4>2 DEF Owner
    <3>2. \A q \in Procs \ {p} : Owner(q)' <=> Owner(q)
      BY <1>3, <2>1 DEF Owner, Extending
    <3>. QED  BY <1>3, <2>1, <2>2, <3>1, <3>2 DEF IInv, OwnerInv
  <2>. QED  BY <2>3, <2>4, <2>5, <2>6, <2>7 DEF IInv
<1>. QED  BY <1>1, <1>2, <1>3 DEF Create

\* The segment under the key is found.
LEMMA FindStep ==
  ASSUME IInv, NEW p \in Procs, Find(p)
  PROVE  IInv'
<1>1. CASE Return(p, "find") /\ UNCHANGED <<kernel, members, lost>>
  BY <1>1, ReturnStep DEF Pcs
<1>2. CASE /\ Goto(p, "find", "attach")
           /\ keyed # None
           /\ shmid' = [shmid EXCEPT ![p] = keyed]
           /\ UNCHANGED <<kernel, members, size, nOldSize, Addr, raced, lost>>
  <2>1. /\ pc[p] = "find" /\ pc'[p] = "attach" /\ pc' \in [Procs -> Pcs]
        /\ \A q \in Procs \ {p} : pc'[q] = pc[q] /\ shmid'[q] = shmid[q]
        /\ shmid'[p] = keyed /\ keyed \in Segs /\ shmid' \in [Procs -> Segs \cup {None}]
    BY <1>2 DEF IInv, TypeOK, Pcs
  <2>2. TypeOK'
    BY <1>2, <2>1 DEF IInv, TypeOK
  <2>3. MemberInv' /\ AtInv' /\ CallInv'
    BY <1>2, <2>1 DEF IInv, MemberInv, AtInv, CallInv
  <2>4. ExtendInv' /\ DataInv'
    BY <1>2, <2>1 DEF IInv, ExtendInv, DataInv, Extending
  <2>5. OwnerInv'
    BY <1>2, <2>1 DEF IInv, ExtendInv, OwnerInv, Owner, Extending
  <2>. QED  BY <2>2, <2>3, <2>4, <2>5 DEF IInv
<1>. QED  BY <1>1, <1>2 DEF Find

\* The segment is attached.
LEMMA ShmatStep ==
  ASSUME IInv, NEW p \in Procs, Shmat(p)
  PROVE  IInv'
<1>. DEFINE i == shmid[p]
<1>1. CASE Return(p, "attach") /\ UNCHANGED <<kernel, members, lost>>
  BY <1>1, ReturnStep DEF Pcs
<1>2. CASE /\ pc[p] = "attach" /\ i \notin gone
           /\ attached' = [attached EXCEPT ![i] = @ \cup {p}]
           /\ m_key' = [m_key EXCEPT ![p] = TRUE]
           /\ m_shmid' = [m_shmid EXCEPT ![p] = i] /\ m_Addr' = [m_Addr EXCEPT ![p] = i]
           /\ lost' = lost \ {p}
           /\ IF Extending(p) THEN Goto(p, "attach", "restore") /\ UNCHANGED <<size, shmid, nOldSize, Addr, raced>>
                              ELSE Return(p, "attach")
           /\ UNCHANGED <<keyed, segSize, data, gone>>
  <2>1. i \in Segs /\ \A j \in Segs : p \notin attached[j]
    BY <1>2, NoSegment DEF IInv, TypeOK, ExtendInv, CallInv, AtInv
  <2>2. /\ pc' \in [Procs -> Pcs] /\ size' \in [Procs -> 0 .. MaxSize]
        /\ shmid' \in [Procs -> Segs \cup {None}] /\ nOldSize' \in [Procs -> 0 .. MaxSize]
        /\ Addr' \in [Procs -> SUBSET Sizes] /\ raced' \subseteq Procs
        /\ \/ pc'[p] = "idle" /\ nOldSize'[p] = 0 /\ Addr'[p] = {}
           \/ /\ Extending(p) /\ pc'[p] = "restore" /\ nOldSize'[p] = nOldSize[p]
              /\ size'[p] = size[p] /\ Addr'[p] = Addr[p] /\ shmid'[p] = i
              /\ (p \in raced' <=> p \in raced)
        /\ \A q \in Procs \ {p} :
             /\ pc'[q] = pc[q] /\ size'[q] = size[q] /\ shmid'[q] = shmid[q]
             /\ nOldSize'[q] = nOldSize[q] /\ Addr'[q] = Addr[q]
             /\ q \in raced' <=> q \in raced
    <3>1. CASE Extending(p)
      BY <1>2, <3>1 DEF IInv, TypeOK, Pcs
    <3>2. CASE ~Extending(p)
      BY <1>2, <3>2, ReturnLocals DEF IInv
    <3>. QED  BY <3>1, <3>2
  <2>3. /\ m_Addr' \in [Procs -> Segs \cup {NULL}] /\ m_shmid' \in [Procs -> Segs \cup {None}]
        /\ m_key' \in [Procs -> BOOLEAN] /\ lost' \subseteq Procs
        /\ m_Addr'[p] = i /\ m_shmid'[p] = i /\ p \notin lost'
        /\ \A q \in Procs \ {p} : /\ m_Addr'[q] = m_Addr[q] /\ m_shmid'[q] = m_shmid[q]
                                    /\ (q \in lost' <=> q \in lost)
    BY <1>2, <2>1 DEF IInv, TypeOK
  <2>4. /\ attached' \in [Segs -> SUBSET Procs]
        /\ \A q \in Procs, j \in Segs : q \in attached'[j] <=> q \in attached[j] \/ (q = p /\ j = i)
    <3>1. attached \in [Segs -> SUBSET Procs]
      BY DEF IInv, TypeOK
    <3>2. attached' = [attached EXCEPT ![i] = attached[i] \cup {p}]
      BY <1>2
    <3>3. attached[i] \cup {p} \in SUBSET Procs
      BY <2>1, <3>1
    <3>4. attached' \in [Segs -> SUBSET Procs]
      BY <3>1, <3>2, <3>3
    <3>5. \A j \in Segs : attached'[j] = IF j = i THEN attached[i] \cup {p} ELSE attached[j]
      BY <3>1, <3>2
    <3>. QED  BY <3>4, <3>5
  <2>5. TypeOK'
    BY <1>2, <2>2, <2>3, <2>4 DEF IInv, TypeOK
  <2>6. MemberInv' /\ CallInv'
    BY <1>2, <2>1, <2>2, <2>3, NoSegment DEF IInv, MemberInv, CallInv
  <2>7. AtInv'
    <3>1. ASSUME NEW j \in Segs PROVE p \in attached'[j] <=> j = m_Addr'[p]
      BY <2>1, <2>3, <2>4
    <3>2. pc'[p] # "rmid"
      BY <2>2
    <3>3. ASSUME NEW q \in Procs \ {p}, NEW j \in Segs
          PROVE  q \in attached'[j] <=> j = m_Addr'[q] /\ q \notin lost' /\ pc'[q] # "rmid"
      <4>1. /\ pc'[q] = pc[q] /\ m_Addr'[q] = m_Addr[q] /\ (q \in lost' <=> q \in lost)
            /\ q \in attached'[j] <=> q \in attached[j]
        BY <2>2, <2>3, <2>4
      <4>. QED  BY <4>1 DEF IInv, AtInv
    <3>. QED  BY <2>3, <3>1, <3>2, <3>3 DEF AtInv
  <2>8. ExtendInv' /\ DataInv'
    BY <1>2, <2>2, <2>3 DEF IInv, ExtendInv, DataInv, Extending
  <2>9. OwnerInv'
    BY <1>2, <2>2 DEF IInv, OwnerInv, Owner, Extending
  <2>. QED  BY <2>5, <2>6, <2>7, <2>8, <2>9 DEF IInv
<1>. QED  BY <1>1, <1>2 DEF Shmat

\* The contents are copied back.
LEMMA RestoreStep ==
  ASSUME IInv, NEW p \in Procs, Restore(p)
  PROVE  IInv'
<1>. DEFINE i == m_Addr[p]
<1>1. /\ pc[p] = "restore" /\ pc'[p] = "extended" /\ pc' \in [Procs -> Pcs]
      /\ \A q \in Procs \ {p} : pc'[q] = pc[q]
      /\ UNCHANGED <<keyed, segSize, attached, gone, members, size, shmid, nOldSize, Addr, lost>>
  BY DEF IInv, TypeOK, Pcs, Restore
<1>2. i \in Segs /\ shmid[p] = i /\ Extending(p) /\ p \in attached[i]
  BY <1>1, NoSegment DEF IInv, TypeOK, CallInv, AtInv, ExtendInv
<1>3. /\ segSize[i] \in 0 .. MaxSize /\ nOldSize[p] \in 0 .. MaxSize
      /\ Addr[p] \subseteq 1 .. nOldSize[p]
      /\ data[i] \subseteq 1 .. segSize[i]
  BY <1>2 DEF IInv, TypeOK, ExtendInv, DataInv
<1>4. /\ data'[i] = (data[i] \ (1 .. nOldSize[p])) \cup (Addr[p] \cap 1 .. segSize[i])
      /\ \A j \in Segs \ {i} : data'[j] = data[j]
  BY <1>2 DEF IInv, TypeOK, Restore
<1>5. data'[i] \subseteq 1 .. segSize[i]
  BY <1>3, <1>4
<1>6. TypeOK'
  <2>1. \A j \in Segs : data'[j] \subseteq Sizes
    BY <1>2, <1>3, <1>4, <1>5 DEF IInv, TypeOK, Sizes
  <2>2. data' \in [Segs -> SUBSET Sizes]
    <3>1. data' = [data EXCEPT ![i] = data'[i]]
      BY <1>2, <1>4 DEF IInv, TypeOK, Restore
    <3>. QED  BY <1>2, <2>1, <3>1 DEF IInv, TypeOK
  <2>3. raced' \subseteq Procs
    BY <1>2 DEF IInv, TypeOK, Restore
  <2>. QED  BY <1>1, <2>2, <2>3 DEF IInv, TypeOK
<1>7. MemberInv' /\ AtInv' /\ CallInv'
  BY <1>1 DEF IInv, MemberInv, AtInv, CallInv
<1>8. raced \subseteq raced' /\ (p \in raced => attached[i] \subseteq raced')
  BY DEF Restore
<1>9. ExtendInv'
  BY <1>1, <1>2, <1>8 DEF IInv, ExtendInv, Extending
<1>10. DataInv'
  BY <1>1, <1>2, <1>4, <1>5 DEF IInv, DataInv
<1>11. OwnerInv'
  <2>1. ASSUME NEW q \in Procs, Owner(q)'
        PROVE  Owner(q)
    BY <1>1, <1>8, <2>1 DEF Owner, Extending
  <2>2. ASSUME NEW q \in Procs, Owner(q)', pc'[q] = "extended"
        PROVE  Addr[q] \subseteq data'[shmid[q]]
    <3>1. CASE q = p
      <4>1. p \notin raced
        BY <1>8, <2>2, <3>1 DEF Owner
      <4>2. segSize[i] = size[p] /\ nOldSize[p] < size[p] /\ size[p] \in 0 .. MaxSize
        BY <1>1, <1>2, <4>1 DEF IInv, TypeOK, OwnerInv, Owner, ExtendInv
      <4>. QED  BY <1>2, <1>3, <1>4, <3>1, <4>2
    <3>2. CASE q # p
      <4>1. /\ Addr[q] \subseteq data[shmid[q]] /\ shmid[q] = m_Addr[q] /\ shmid[q] \in Segs
            /\ q \in attached[m_Addr[q]]
        BY <1>1, <2>1, <2>2, <3>2, NoSegment DEF IInv, TypeOK, OwnerInv, ExtendInv, CallInv, AtInv
      <4>2. shmid[q] # i
        <5>1. CASE p \in raced
          BY <1>8, <2>2, <4>1, <5>1 DEF Owner
        <5>2. CASE p \notin raced
          <6>1. Owner(p) /\ Owner(q)
            BY <1>1, <1>2, <2>1, <2>2, <5>2 DEF Owner
          <6>. QED  BY <1>2, <3>2, <6>1 DEF IInv, OwnerInv
        <5>. QED  BY <5>1, <5>2
      <4>. QED  BY <1>4, <4>1, <4>2
    <3>. QED  BY <3>1, <3>2
  <2>3. ASSUME NEW q \in Procs, Owner(q)'
        PROVE  /\ segSize[shmid[q]] = size[q]
               /\ \A r \in Procs : Owner(r)' /\ shmid[r] = shmid[q] => r = q
    BY <2>1, <2>3 DEF IInv, OwnerInv
  <2>. QED  BY <1>1, <2>2, <2>3 DEF OwnerInv
<1>. QED  BY <1>6, <1>7, <1>9, <1>10, <1>11 DEF IInv

\* ShmExtend returns.
LEMMA ExtendedStep ==
  ASSUME IInv, NEW p \in Procs, Extended(p)
  PROVE  IInv'
BY ReturnStep DEF Extended, Pcs

\* The program stores data.
LEMMA StoreStep ==
  ASSUME IInv, NEW p \in Procs, Store(p)
  PROVE  IInv'
<1>. DEFINE i == m_Addr[p]
<1>1. PICK c \in 1 .. segSize[i] : data' = [data EXCEPT ![i] = @ \cup {c}]
  BY DEF Store
<1>2. UNCHANGED <<keyed, segSize, attached, gone, members, locals, raced, lost>>
  BY DEF Store
<1>3. i \in Segs /\ segSize[i] \in 0 .. MaxSize
  BY DEF IInv, TypeOK, Store, Mapped
<1>4. /\ data'[i] = data[i] \cup {c} /\ data[i] \subseteq data'[i]
      /\ \A j \in Segs \ {i} : data'[j] = data[j]
  BY <1>1, <1>3 DEF IInv, TypeOK
<1>5. TypeOK'
  <2>1. c \in Sizes
    BY <1>3, ShmAssumption DEF ShmAssumption, Sizes
  <2>2. data' \in [Segs -> SUBSET Sizes]
    BY <1>1, <1>3, <2>1 DEF IInv, TypeOK
  <2>. QED  BY <1>2, <2>2 DEF IInv, TypeOK
<1>6. MemberInv' /\ AtInv' /\ CallInv' /\ ExtendInv'
  BY <1>2 DEF IInv, MemberInv, AtInv, CallInv, ExtendInv, Extending
<1>7. DataInv'
  BY <1>2, <1>3, <1>4 DEF IInv, DataInv
<1>8. OwnerInv'
  <2>1. \A q \in Procs : Owner(q)' <=> Owner(q)
    BY <1>2 DEF Owner, Extending
  <2>2. ASSUME NEW q \in Procs, Owner(q) PROVE shmid[q] \in Segs
    BY <2>2, NoSegment DEF IInv, TypeOK, CallInv, ExtendInv, Owner
  <2>. QED  BY <1>2, <1>3, <1>4, <2>1, <2>2 DEF IInv, OwnerInv
<1>. QED  BY <1>5, <1>6, <1>7, <1>8 DEF IInv

\* A process exits.
LEMMA ExitStep ==
  ASSUME IInv, NEW p \in Procs, Exit(p)
  PROVE  IInv'
<1>1. /\ attached' \in [Segs -> SUBSET Procs] /\ gone' \subseteq Segs /\ gone \subseteq gone'
      /\ \A q \in Procs, j \in Segs : q \in attached'[j] <=> q \in attached[j] /\ q # p
  <2>1. CASE (\A i \in Segs : p \notin attached[i]) /\ UNCHANGED <<attached, gone>>
    BY <2>1 DEF IInv, TypeOK
  <2>2. ASSUME NEW i \in Segs, p \in attached[i], Detach(p, i)
        PROVE  /\ attached' \in [Segs -> SUBSET Procs] /\ gone' \subseteq Segs /\ gone \subseteq gone'
               /\ \A q \in Procs, j \in Segs : q \in attached'[j] <=> q \in attached[j] /\ q # p
    <3>1. \A j \in Segs : p \in attached[j] => j = i
      BY <2>2 DEF IInv, AtInv
    <3>. QED  BY <2>2, <3>1, DetachKernel DEF IInv
  <2>. QED  BY <2>1, <2>2 DEF Exit
<1>2. /\ pc' \in [Procs -> Pcs] /\ size' \in [Procs -> 0 .. MaxSize]
      /\ nOldSize' \in [Procs -> 0 .. MaxSize] /\ m_key' \in [Procs -> BOOLEAN]
  BY ShmAssumption DEF ShmAssumption, IInv, TypeOK, Pcs, Exit
<1>3. /\ shmid' \in [Procs -> Segs \cup {None}] /\ Addr' \in [Procs -> SUBSET Sizes]
      /\ m_Addr' \in [Procs -> Segs \cup {NULL}] /\ m_shmid' \in [Procs -> Segs \cup {None}]
      /\ raced' \subseteq Procs /\ lost' \subseteq Procs
  BY DEF IInv, TypeOK, Exit
<1>4. /\ UNCHANGED <<keyed, segSize, data>>
      /\ pc'[p] = "idle" /\ m_Addr'[p] = NULL /\ m_shmid'[p] = None /\ p \notin lost'
      /\ nOldSize'[p] = 0 /\ Addr'[p] = {}
      /\ \A q \in Procs \ {p} :
           /\ pc'[q] = pc[q] /\ size'[q] = size[q] /\ shmid'[q] = shmid[q]
           /\ nOldSize'[q] = nOldSize[q] /\ Addr'[q] = Addr[q]
           /\ m_Addr'[q] = m_Addr[q] /\ m_shmid'[q] = m_shmid[q]
           /\ (q \in raced' <=> q \in raced) /\ (q \in lost' <=> q \in lost)
  BY DEF IInv, TypeOK, Exit
<1>5. TypeOK'
  BY <1>1, <1>2, <1>3, <1>4 DEF IInv, TypeOK
<1>6. MemberInv' /\ AtInv' /\ CallInv'
  BY <1>1, <1>4, NoSegment DEF IInv, MemberInv, AtInv, CallInv
<1>7. ExtendInv' /\ DataInv'
  BY <1>4 DEF IInv, ExtendInv, DataInv, Extending
<1>8. OwnerInv'
  BY <1>4 DEF IInv, OwnerInv, Owner, Extending
<1>. QED  BY <1>5, <1>6, <1>7, <1>8 DEF IInv

\* Every step keeps the invariant.
LEMMA Inductive == IInv /\ [Next]_vars => IInv'
<1>. SUFFICES ASSUME IInv, [Next]_vars PROVE IInv'
  OBVIOUS
<1>1. CASE Next
  BY <1>1, ShmInitStep, ShmConnectStep, DisconnectStep, ShmDeleteStep, ShmExtendStep, ShmdtStep,
     RmidStep, CreateStep, FindStep, ShmatStep, RestoreStep, ExtendedStep, StoreStep, ExitStep
     DEF Next
<1>2. CASE UNCHANGED vars
  BY <1>2 DEF IInv, TypeOK, MemberInv, AtInv, CallInv, ExtendInv, DataInv, OwnerInv, Owner,
       Extending
<1>. QED  BY <1>1, <1>2

\* The strengthened invariant holds of every behaviour.
THEOREM Invariance == Spec => []IInv
BY InitInv, Inductive, PTL DEF Spec

\* Between calls an object is attached to exactly the segment it names, unless
\* its ShmDelete lost the race for the removal (myshm.cpp:123-160), however
\* many processes connect, remove, extend and exit.
THEOREM AttachedToWhatItNames == Spec => []AttachExact
<1>1. IInv => AttachExact
  <2>. SUFFICES ASSUME IInv, NEW p \in Procs, pc[p] = "idle"
                PROVE  LET at == {i \in Segs : p \in attached[i]} IN
                       /\ m_Addr[p] = NULL <=> m_shmid[p] = None
                       /\ IF p \in lost THEN at = {} /\ m_Addr[p] # NULL
                                         ELSE at = {m_shmid[p]} \ {None}
    BY DEF AttachExact
  <2>1. p \in lost => m_Addr[p] # NULL
    BY NoSegment DEF IInv, TypeOK, CallInv
  <2>2. /\ m_Addr[p] = NULL <=> m_shmid[p] = None
        /\ m_Addr[p] # NULL => m_shmid[p] = m_Addr[p]
        /\ m_Addr[p] \in Segs \cup {NULL}
    BY DEF IInv, TypeOK, MemberInv
  <2>3. \A i \in Segs : p \in attached[i] <=> i = m_Addr[p] /\ p \notin lost
    BY DEF IInv, AtInv
  <2>. QED  BY <2>1, <2>2, <2>3, NoSegment
<1>. QED  BY Invariance, <1>1, PTL

\* ShmExtend returns 0 with the new size and everything the segment held,
\* unless another process came between the removal and the creation or copied
\* its own contents over (myshm.cpp:163-208).
THEOREM ExtensionKeeps == Spec => []ExtendKeeps
<1>1. IInv => ExtendKeeps
  <2>. SUFFICES ASSUME IInv, NEW p \in Procs, pc[p] = "extended", p \notin raced
                PROVE  /\ Mapped(p) /\ segSize[m_Addr[p]] = size[p]
                       /\ Addr[p] \subseteq data[m_Addr[p]]
    BY DEF ExtendKeeps
  <2>1. m_Addr[p] \in Segs /\ m_Addr[p] # NULL /\ p \notin lost /\ shmid[p] = m_Addr[p] /\ Owner(p)
    BY NoSegment DEF IInv, TypeOK, CallInv, ExtendInv, Owner
  <2>2. Mapped(p)
    BY <2>1 DEF IInv, AtInv, Mapped
  <2>. QED  BY <2>1, <2>2 DEF IInv, OwnerInv
<1>. QED  BY Invariance, <1>1, PTL

=============================================================================
