----------------------------- MODULE SemProofs -----------------------------
(***************************************************************************)
(* TSem for every finite set of processes, every set of semaphores, every  *)
(* initial value and every count: what the semaphores hold and what the    *)
(* processes have taken is what sem_create put in.                         *)
(***************************************************************************)
EXTENDS Sem, FiniteSetTheorems, WellFoundedInduction, TLAPS

----------------------------------------------------------------------------
TypeOK ==
  /\ SemTypeOK
  /\ pc \in [Procs -> {"idle", "fill", "poll", "semop"}]
  /\ m_semid \in [Procs -> SemIds \cup {NoId}] /\ semid \in [Procs -> SemIds \cup {NoId}]
  /\ tries \in [Procs -> Nat]
  /\ no \in [Procs -> Nums \cup {0}] /\ count \in [Procs -> Int]
  /\ held \in [Procs -> [SemIds -> [Nums -> Int]]] /\ clamped \subseteq SemIds

\* SEM_UNDO holds, for each process, what its calls have taken.
UndoInv == held = adj

\* An object that polls or calls has a set; any it keeps is one in use.
UseInv ==
  \A p \in Procs :
    /\ pc[p] \in {"poll", "semop"} => m_semid[p] \in SemIds
    /\ pc[p] = "semop" => no[p] \in Nums
    /\ pc[p] # "poll" /\ m_semid[p] # NoId => otime[m_semid[p]]

\* A process in sem_create is the only one to fill its set.
FillInv ==
  \A p \in Procs : pc[p] = "fill" =>
    /\ semid[p] \in SemIds /\ life[semid[p]] # "unused" /\ ~otime[semid[p]]
    /\ \A q \in Procs : pc[q] = "fill" /\ semid[q] = semid[p] => q = p

\* A set before its first semop is empty, and nobody has taken of it.
FreshInv ==
  \A s \in SemIds :
    /\ life[s] = "unused" => ~otime[s]
    /\ ~otime[s] => \A n \in Nums : val[s][n] = 0 /\ \A p \in Procs : held[p][s][n] = 0

LocalInv == TypeOK /\ UndoInv /\ UseInv /\ FillInv /\ FreshInv

SumTo(H, s, n, S) == MapThenSumSet(LAMBDA p : H[p][s][n], S)

\* The units of a set that is filled are those of its creator.
BalanceInv ==
  \A s \in SemIds \ clamped : Initialised(s) =>
    \A n \in Nums : val[s][n] + SumTo(held, s, n, Procs) = Total[n]

IInv == LocalInv /\ BalanceInv

----------------------------------------------------------------------------
\* A sum over a set of processes is found by taking one after the other.
Chosen(t) == CHOOSE x \in t : TRUE
SumBody(H, s, n, g, t) ==
  IF t = {} THEN 0 ELSE H[Chosen(t)][s][n] + g[t \ {Chosen(t)}]
AreInts(H, s, n, S) == \A q \in S : H[q][s][n] \in Int
Computes(g, H, s, n, S) ==
  /\ SumTo(H, s, n, S) = g[S]
  /\ \A t \in SUBSET S : g[t] \in Int /\ g[t] = SumBody(H, s, n, g, t)
IsSum(H, s, n, g, S) == g = [t \in SUBSET S |-> SumBody(H, s, n, g, t)]

\* A non-empty family of subsets of a finite set has a smallest member.
LEMMA Smallest ==
  ASSUME NEW P, IsFiniteSet(P), NEW T, T \subseteq SUBSET P, T # {}
  PROVE  \E m \in T : \A y \in T : ~(y \subseteq m /\ y # m)
<1>1. IsWellFoundedOn(StrictSubsetOrdering(P), FiniteSubsetsOf(P))
  BY FS_StrictSubsetOrderingWellFounded
<1>2. T \subseteq FiniteSubsetsOf(P)
  BY FS_FiniteSubsetsOfFinite
<1>3. PICK m \in T : \A y \in T : ~(<<y, m>> \in StrictSubsetOrdering(P))
  BY <1>1, <1>2, WFMin, Zenon
<1>4. ASSUME NEW y \in T, y \subseteq m, y # m
      PROVE  <<y, m>> \in StrictSubsetOrdering(P)
  BY <1>4 DEF StrictSubsetOrdering
<1>5. ASSUME NEW y \in T
      PROVE  ~(y \subseteq m /\ y # m)
  <2>1. ~(<<y, m>> \in StrictSubsetOrdering(P))
    BY <1>3, Zenon
  <2>. QED  BY <1>4, <2>1, Zenon
<1>. QED  BY <1>5

\* What taking one away leaves.
LEMMA ChosenFacts ==
  ASSUME NEW t, t # {}
  PROVE  /\ Chosen(t) \in t
         /\ t \ {Chosen(t)} \subseteq t /\ t \ {Chosen(t)} # t
<1>1. Chosen(t) \in t
  BY Zenon DEF Chosen
<1>. QED  BY <1>1

\* Sums agree where both are defined.
LEMMA SumUnique ==
  ASSUME NEW H, NEW s, NEW n, NEW S, IsFiniteSet(S), NEW R, R \subseteq S,
         NEW g, IsSum(H, s, n, g, S), NEW h, IsSum(H, s, n, h, R)
  PROVE  \A t \in SUBSET R : g[t] = h[t]
<1>. DEFINE Bad == {t \in SUBSET R : g[t] # h[t]}
<1>1. SUFFICES ASSUME Bad # {} PROVE FALSE
  OBVIOUS
<1>2. PICK t \in Bad : \A y \in Bad : ~(y \subseteq t /\ y # t)
  <2>1. Bad \subseteq SUBSET S
    OBVIOUS
  <2>. HIDE DEF Bad
  <2>. QED  BY <1>1, <2>1, Smallest
<1>3. t \in SUBSET R /\ t \in SUBSET S /\ g[t] # h[t]
  OBVIOUS
<1>4. g[t] = SumBody(H, s, n, g, t) /\ h[t] = SumBody(H, s, n, h, t)
  <2>1. g[t] = SumBody(H, s, n, g, t)
    <3>1. g = [u \in SUBSET S |-> SumBody(H, s, n, g, u)]
      BY Zenon DEF IsSum
    <3>. QED  BY <1>3, <3>1, Zenon
  <2>2. h[t] = SumBody(H, s, n, h, t)
    <3>1. h = [u \in SUBSET R |-> SumBody(H, s, n, h, u)]
      BY Zenon DEF IsSum
    <3>. QED  BY <1>3, <3>1, Zenon
  <2>. QED  BY <2>1, <2>2
<1>5. t # {}
  BY <1>3, <1>4, Zenon DEF SumBody
<1>6. g[t \ {Chosen(t)}] = h[t \ {Chosen(t)}]
  BY <1>2, <1>3, <1>5, ChosenFacts
<1>. QED  BY <1>3, <1>4, <1>5, <1>6, Zenon DEF SumBody

\* Every finite set has a sum.
LEMMA SumExists ==
  ASSUME NEW H, NEW s, NEW n, NEW S, IsFiniteSet(S)
  PROVE  \E g : IsSum(H, s, n, g, S)
<1>. DEFINE Bad == {t \in SUBSET S : ~\E g : IsSum(H, s, n, g, t)}
<1>1. SUFFICES ASSUME Bad # {} PROVE FALSE
  OBVIOUS
<1>2. PICK m \in Bad : \A y \in Bad : ~(y \subseteq m /\ y # m)
  <2>1. Bad \subseteq SUBSET S
    OBVIOUS
  <2>. HIDE DEF Bad
  <2>. QED  BY <1>1, <2>1, Smallest
<1>3. /\ m \in SUBSET S /\ IsFiniteSet(m)
      /\ \A g : ~IsSum(H, s, n, g, m)
      /\ \A u : u \subseteq m /\ u # m => \E g : IsSum(H, s, n, g, u)
  <2>1. m \in SUBSET S /\ \A g : ~IsSum(H, s, n, g, m)
    OBVIOUS
  <2>2. \A u : u \subseteq m /\ u # m => u \in SUBSET S /\ u \notin Bad
    BY <1>2, <2>1
  <2>. QED  BY <2>1, <2>2, FS_Subset
<1>. HIDE DEF Bad
<1>. DEFINE G(u) == CHOOSE g : IsSum(H, s, n, g, u)
            Val(t) == IF t = {} THEN 0
                      ELSE H[Chosen(t)][s][n] + G(t \ {Chosen(t)})[t \ {Chosen(t)}]
            g == [t \in SUBSET m |-> Val(t)]
<1>4. ASSUME NEW u, u \subseteq m, u # m
      PROVE  IsSum(H, s, n, G(u), u)
  BY <1>3, <1>4, Zenon
<1>. HIDE DEF G
<1>5. ASSUME NEW u, u \subseteq m, u # m
      PROVE  G(u)[u] = Val(u)
  <2>1. G(u)[u] = SumBody(H, s, n, G(u), u)
    <3>1. G(u) = [t \in SUBSET u |-> SumBody(H, s, n, G(u), t)]
      BY <1>4, <1>5, Zenon DEF IsSum
    <3>2. u \in SUBSET u
      OBVIOUS
    <3>. QED  BY <3>1, <3>2, Zenon
  <2>2. CASE u = {}
    BY <2>1, <2>2, Zenon DEF SumBody
  <2>3. CASE u # {}
    <3>1. PICK w : w = u \ {Chosen(u)}
      OBVIOUS
    <3>2. w \subseteq u /\ w \subseteq m /\ w # m /\ w \in SUBSET w /\ IsFiniteSet(u)
      BY <1>3, <1>5, <2>3, <3>1, ChosenFacts, FS_Subset
    <3>3. IsSum(H, s, n, G(w), w) /\ IsSum(H, s, n, G(u), u)
      BY <1>4, <1>5, <3>2, Zenon
    <3>4. G(u)[w] = G(w)[w]
      <4>1. PICK gu, gw : gu = G(u) /\ gw = G(w)
        OBVIOUS
      <4>2. IsSum(H, s, n, gu, u) /\ IsSum(H, s, n, gw, w)
        BY <3>3, <4>1, Zenon
      <4>3. \A t \in SUBSET w : gu[t] = gw[t]
        BY <3>2, <4>2, SumUnique
      <4>. QED  BY <3>2, <4>1, <4>3, Zenon
    <3>. QED  BY <2>1, <2>3, <3>1, <3>4, Zenon DEF SumBody
  <2>. QED  BY <2>2, <2>3
<1>6. ASSUME NEW t \in SUBSET m
      PROVE  Val(t) = SumBody(H, s, n, g, t)
  <2>1. CASE t = {}
    BY <2>1, Zenon DEF SumBody
  <2>2. CASE t # {}
    <3>1. PICK w : w = t \ {Chosen(t)}
      OBVIOUS
    <3>2. w \subseteq m /\ w # m /\ w \in SUBSET m
      BY <2>2, <3>1, ChosenFacts
    <3>3. g[w] = G(w)[w]
      <4>1. g[w] = Val(w)
        BY <3>2, Zenon
      <4>. QED  BY <1>5, <3>2, <4>1, Zenon
    <3>. QED  BY <2>2, <3>1, <3>3, Zenon DEF SumBody
  <2>. QED  BY <2>1, <2>2
<1>7. IsSum(H, s, n, g, m)
  BY <1>6, Zenon DEF IsSum
<1>. QED  BY <1>3, <1>7, Zenon

\* The sum of integers is one, found by that recursion.
LEMMA SumFound ==
  ASSUME NEW H, NEW s, NEW n, NEW S, IsFiniteSet(S), AreInts(H, s, n, S)
  PROVE  \E g : Computes(g, H, s, n, S)
<1>. DEFINE g == CHOOSE h : h = [t \in SUBSET S |-> SumBody(H, s, n, h, t)]
<1>1. IsSum(H, s, n, g, S)
  <2>1. PICK h : IsSum(H, s, n, h, S)
    BY SumExists, Zenon
  <2>. QED  BY <2>1, Zenon DEF IsSum
<1>2. SumTo(H, s, n, S) = g[S]
  BY Zenon DEF SumTo, MapThenSumSet, MapThenFoldSet, SumBody, Chosen
<1>. HIDE DEF g
<1>3. \A t \in SUBSET S : g[t] = SumBody(H, s, n, g, t)
  <2>1. g = [t \in SUBSET S |-> SumBody(H, s, n, g, t)]
    BY <1>1, Zenon DEF IsSum
  <2>. QED  BY <2>1, Zenon
<1>4. \A t \in SUBSET S : g[t] \in Int
  <2>. DEFINE Bad == {t \in SUBSET S : g[t] \notin Int}
  <2>1. SUFFICES ASSUME Bad # {} PROVE FALSE
    OBVIOUS
  <2>2. PICK t \in Bad : \A y \in Bad : ~(y \subseteq t /\ y # t)
    <3>1. Bad \subseteq SUBSET S
      OBVIOUS
    <3>. HIDE DEF Bad
    <3>. QED  BY <2>1, <3>1, Smallest
  <2>3. t \in SUBSET S /\ g[t] \notin Int /\ g[t] = SumBody(H, s, n, g, t)
    BY <1>3
  <2>4. t # {}
    BY <2>3 DEF SumBody
  <2>5. g[t \ {Chosen(t)}] \in Int /\ H[Chosen(t)][s][n] \in Int
    BY <2>2, <2>3, <2>4, ChosenFacts DEF AreInts
  <2>6. g[t] = H[Chosen(t)][s][n] + g[t \ {Chosen(t)}]
    BY <2>3, <2>4, Zenon DEF SumBody
  <2>. QED  BY <2>3, <2>5, <2>6
<1>. QED  BY <1>2, <1>3, <1>4, Zenon DEF Computes

\* What a change of one term does to the sum.
LEMMA SumChange ==
  ASSUME NEW H, NEW K, NEW s, NEW n, NEW S, IsFiniteSet(S), NEW p \in S,
         \A q \in S : H[q][s][n] \in Int /\ K[q][s][n] \in Int,
         \A q \in S : q # p => K[q][s][n] = H[q][s][n]
  PROVE  /\ SumTo(H, s, n, S) \in Int
         /\ SumTo(K, s, n, S) = SumTo(H, s, n, S) + (K[p][s][n] - H[p][s][n])
<1>1. PICK g : /\ SumTo(H, s, n, S) = g[S]
               /\ \A t \in SUBSET S : g[t] \in Int /\ g[t] = SumBody(H, s, n, g, t)
  <2>1. AreInts(H, s, n, S)
    BY DEF AreInts
  <2>2. PICK g : Computes(g, H, s, n, S)
    BY <2>1, SumFound, Zenon
  <2>. QED  BY <2>2, Zenon DEF Computes
<1>2. PICK h : /\ SumTo(K, s, n, S) = h[S]
               /\ \A t \in SUBSET S : h[t] \in Int /\ h[t] = SumBody(K, s, n, h, t)
  <2>1. AreInts(K, s, n, S)
    BY DEF AreInts
  <2>2. PICK h : Computes(h, K, s, n, S)
    BY <2>1, SumFound, Zenon
  <2>. QED  BY <2>2, Zenon DEF Computes
<1>3. PICK d \in Int : d = K[p][s][n] - H[p][s][n] /\ K[p][s][n] = H[p][s][n] + d
  <2>1. PICK a \in Int, b \in Int : a = H[p][s][n] /\ b = K[p][s][n]
    OBVIOUS
  <2>2. b - a \in Int /\ b = a + (b - a)
    OBVIOUS
  <2>. QED  BY <2>1, <2>2, Zenon
<1>. DEFINE Bad == {t \in SUBSET S : h[t] # g[t] + (IF p \in t THEN d ELSE 0)}
<1>4. Bad = {}
  <2>1. SUFFICES ASSUME Bad # {} PROVE FALSE
    OBVIOUS
  <2>2. PICK t \in Bad : \A y \in Bad : ~(y \subseteq t /\ y # t)
    <3>1. Bad \subseteq SUBSET S
      OBVIOUS
    <3>. HIDE DEF Bad
    <3>. QED  BY <2>1, <3>1, Smallest
  <2>3. t \in SUBSET S /\ h[t] # g[t] + (IF p \in t THEN d ELSE 0)
    OBVIOUS
  <2>4. g[t] = SumBody(H, s, n, g, t) /\ h[t] = SumBody(K, s, n, h, t)
    BY <1>1, <1>2, <2>3, Zenon
  <2>5. t # {}
    <3>1. t = {} => g[t] = 0 /\ h[t] = 0
      BY <2>4, Zenon DEF SumBody
    <3>. QED  BY <2>3, <3>1
  <2>6. PICK x, w : x = Chosen(t) /\ w = t \ {x}
    OBVIOUS
  <2>7. x \in t /\ x \in S /\ w \subseteq t /\ w # t /\ w \in SUBSET S
    BY <2>3, <2>5, <2>6, ChosenFacts
  <2>8. g[t] = H[x][s][n] + g[w] /\ h[t] = K[x][s][n] + h[w]
    BY <2>4, <2>5, <2>6, Zenon DEF SumBody
  <2>9. h[w] = g[w] + (IF p \in w THEN d ELSE 0)
    BY <2>2, <2>7
  <2>10. PICK a \in Int, b \in Int, c \in Int :
           a = H[x][s][n] /\ b = g[w] /\ c = K[x][s][n]
    BY <1>1, <2>7
  <2>11. g[t] = a + b /\ h[t] = c + (b + (IF p \in w THEN d ELSE 0))
    BY <2>8, <2>9, <2>10, Zenon
  <2>12. CASE x = p
    <3>1. p \in t /\ p \notin w /\ c = a + d
      BY <1>3, <2>6, <2>7, <2>10, <2>12, Zenon
    <3>2. h[t] # (a + b) + d
      BY <2>3, <2>11, <3>1, Zenon
    <3>3. h[t] = (a + d) + (b + 0)
      BY <2>11, <3>1, Zenon
    <3>. QED  BY <3>2, <3>3
  <2>13. CASE x # p
    <3>1. (p \in t <=> p \in w) /\ c = a
      BY <2>6, <2>7, <2>10, <2>13
    <3>2. h[t] # (a + b) + (IF p \in w THEN d ELSE 0)
      BY <2>3, <2>11, <3>1, Zenon
    <3>3. h[t] = a + (b + (IF p \in w THEN d ELSE 0))
      BY <2>11, <3>1, Zenon
    <3>. QED  BY <3>2, <3>3
  <2>. QED  BY <2>12, <2>13
<1>5. h[S] = g[S] + d /\ g[S] \in Int
  BY <1>1, <1>4
<1>. QED  BY <1>1, <1>2, <1>3, <1>5, Zenon

\* The sum of nothing.
LEMMA SumZero ==
  ASSUME NEW H, NEW s, NEW n, NEW S, IsFiniteSet(S), \A q \in S : H[q][s][n] = 0
  PROVE  SumTo(H, s, n, S) = 0
<1>1. PICK g : /\ SumTo(H, s, n, S) = g[S]
               /\ \A t \in SUBSET S : g[t] \in Int /\ g[t] = SumBody(H, s, n, g, t)
  <2>1. AreInts(H, s, n, S)
    BY DEF AreInts
  <2>2. PICK g : Computes(g, H, s, n, S)
    BY <2>1, SumFound, Zenon
  <2>. QED  BY <2>2, Zenon DEF Computes
<1>. DEFINE Bad == {t \in SUBSET S : g[t] # 0}
<1>2. Bad = {}
  <2>1. SUFFICES ASSUME Bad # {} PROVE FALSE
    OBVIOUS
  <2>2. PICK t \in Bad : \A y \in Bad : ~(y \subseteq t /\ y # t)
    <3>1. Bad \subseteq SUBSET S
      OBVIOUS
    <3>. HIDE DEF Bad
    <3>. QED  BY <2>1, <3>1, Smallest
  <2>3. t \in SUBSET S /\ g[t] # 0 /\ g[t] = SumBody(H, s, n, g, t)
    BY <1>1
  <2>4. t # {}
    BY <2>3, Zenon DEF SumBody
  <2>5. g[t \ {Chosen(t)}] = 0 /\ H[Chosen(t)][s][n] = 0
    BY <2>2, <2>3, <2>4, ChosenFacts
  <2>6. g[t] = H[Chosen(t)][s][n] + g[t \ {Chosen(t)}]
    BY <2>3, <2>4, Zenon DEF SumBody
  <2>. QED  BY <2>3, <2>5, <2>6
<1>. QED  BY <1>1, <1>2

----------------------------------------------------------------------------
\* The initial state satisfies the invariant.
LEMMA InitInv == Init => IInv
<1>. SUFFICES ASSUME Init PROVE IInv
  OBVIOUS
<1>. USE DEF Init, SemInit, NoneHeld, NoAdj
<1>1. TypeOK
  <2>1. SemTypeOK
    BY DEF SemTypeOK
  <2>. QED  BY <2>1 DEF TypeOK
<1>2. UndoInv
  BY DEF UndoInv
<1>3. UseInv
  BY DEF UseInv
<1>4. FillInv
  BY DEF FillInv
<1>5. FreshInv
  BY DEF FreshInv
<1>6. BalanceInv
  BY DEF BalanceInv, Initialised
<1>. QED  BY <1>1, <1>2, <1>3, <1>4, <1>5, <1>6 DEF IInv, LocalInv

\* sem_create gets a set nobody has used.
LEMMA CreateLocal ==
  ASSUME LocalInv, NEW p \in Procs, sem_create(p)
  PROVE  LocalInv'
<1>1. PICK s \in SemIds :
        /\ life[s] = "unused" /\ life' = [life EXCEPT ![s] = "live"]
        /\ semid' = [semid EXCEPT ![p] = s]
  BY Zenon DEF sem_create, SemCreate
<1>2. /\ pc[p] = "idle" /\ pc' = [pc EXCEPT ![p] = "fill"]
      /\ UNCHANGED <<val, otime, adj, m_semid, tries, no, count, held, clamped>>
  BY DEF sem_create, SemCreate, Goto
<1>. USE DEF LocalInv
<1>3. TypeOK'
  <2>1. SemTypeOK'
    BY <1>1, <1>2 DEF TypeOK, SemTypeOK
  <2>. QED  BY <1>1, <1>2, <2>1 DEF TypeOK
<1>4. UndoInv'
  BY <1>2 DEF UndoInv
<1>5. UseInv'
  BY <1>2 DEF UseInv, TypeOK
<1>6. ~otime[s] /\ \A q \in Procs : pc[q] = "fill" => semid[q] # s
  BY <1>1 DEF FreshInv, FillInv
<1>7. FillInv'
  BY <1>1, <1>2, <1>6 DEF FillInv, TypeOK, SemTypeOK
<1>8. FreshInv'
  BY <1>1, <1>2, <1>6 DEF FreshInv, TypeOK, SemTypeOK
<1>. QED  BY <1>3, <1>4, <1>5, <1>7, <1>8

\* Filling a set is its first semop.
LEMMA FillLocal ==
  ASSUME LocalInv, NEW p \in Procs, Fill(p)
  PROVE  LocalInv'
<1>. USE DEF LocalInv
<1>1. /\ pc[p] = "fill" /\ pc' = [pc EXCEPT ![p] = "idle"]
      /\ semid' = [semid EXCEPT ![p] = NoId]
      /\ UNCHANGED <<tries, no, count, held, clamped>>
  BY DEF Fill, Goto
<1>2. PICK s \in SemIds : s = semid[p] /\ life[s] # "unused" /\ ~otime[s]
  BY <1>1 DEF FillInv
<1>3. \A q \in Procs : q # p /\ pc[q] = "fill" => semid[q] # s
  BY <1>1, <1>2 DEF FillInv
<1>4. CASE SemopAll(s, Total) /\ m_semid' = [m_semid EXCEPT ![p] = s]
  <2>1. /\ val' = [val EXCEPT ![s] = [n \in Nums |-> val[s][n] + Total[n]]]
        /\ otime' = [otime EXCEPT ![s] = TRUE] /\ UNCHANGED <<life, adj>>
    BY <1>4 DEF SemopAll
  <2>2. TypeOK'
    <3>1. [n \in Nums |-> val[s][n] + Total[n]] \in [Nums -> Nat]
      BY SemAssumption DEF SemAssumption, TypeOK, SemTypeOK
    <3>2. SemTypeOK'
      BY <2>1, <3>1 DEF TypeOK, SemTypeOK
    <3>. QED  BY <1>1, <1>4, <3>2 DEF TypeOK
  <2>3. UndoInv'
    BY <1>1, <2>1 DEF UndoInv
  <2>4. UseInv'
    BY <1>1, <1>4, <2>1 DEF UseInv, TypeOK, SemTypeOK
  <2>5. FillInv'
    BY <1>1, <1>2, <1>3, <2>1 DEF FillInv, TypeOK, SemTypeOK
  <2>6. FreshInv'
    BY <1>1, <1>2, <2>1 DEF FreshInv, TypeOK, SemTypeOK
  <2>. QED  BY <2>2, <2>3, <2>4, <2>5, <2>6
<1>5. CASE UNCHANGED semVars /\ UNCHANGED m_semid
  <2>. USE <1>5 DEF semVars
  <2>2. TypeOK'
    <3>2. SemTypeOK'
      BY DEF TypeOK, SemTypeOK
    <3>. QED  BY <1>1, <3>2 DEF TypeOK
  <2>3. UndoInv'
    BY <1>1 DEF UndoInv
  <2>4. UseInv'
    BY <1>1 DEF UseInv, TypeOK
  <2>5. FillInv'
    BY <1>1 DEF FillInv, TypeOK
  <2>6. FreshInv'
    BY <1>1 DEF FreshInv
  <2>. QED  BY <2>2, <2>3, <2>4, <2>5, <2>6
<1>. QED  BY <1>2, <1>4, <1>5 DEF Fill, SemGone

\* sem_get, its polling and the calls touch no set.
LEMMA QuietLocal ==
  ASSUME LocalInv, NEW p \in Procs, sem_get(p) \/ Poll(p) \/ CallLock(p)
  PROVE  LocalInv'
<1>. USE DEF LocalInv
<1>1. UNCHANGED <<life, val, otime, adj, semid, held, clamped>>
  BY DEF sem_get, Poll, CallLock, semVars
<1>2. /\ pc[p] # "fill"
      /\ \E a \in {"idle", "poll", "semop"} : pc' = [pc EXCEPT ![p] = a]
  BY DEF sem_get, Poll, CallLock, Goto
<1>3. /\ \E a \in SemIds \cup {NoId} : m_semid' = [m_semid EXCEPT ![p] = a]
      /\ \E a \in Nat : tries' = [tries EXCEPT ![p] = a]
      /\ \E a \in Nums \cup {0} : no' = [no EXCEPT ![p] = a]
      /\ \E a \in Int : count' = [count EXCEPT ![p] = a]
  <2>1. \A f, S : f \in [Procs -> S] => f[p] \in S /\ f = [f EXCEPT ![p] = f[p]]
    OBVIOUS
  <2>2. /\ m_semid[p] \in SemIds \cup {NoId} /\ m_semid = [m_semid EXCEPT ![p] = m_semid[p]]
        /\ tries[p] \in Nat /\ tries = [tries EXCEPT ![p] = tries[p]]
        /\ no[p] \in Nums \cup {0} /\ no = [no EXCEPT ![p] = no[p]]
        /\ count[p] \in Int /\ count = [count EXCEPT ![p] = count[p]]
    BY <2>1, Zenon DEF TypeOK
  <2>3. tries[p] + 1 \in Nat /\ 0 \in Nat
    BY <2>2
  <2>4. CASE sem_get(p)
    BY <2>2, <2>3, <2>4 DEF sem_get
  <2>5. CASE Poll(p)
    BY <2>2, <2>3, <2>5 DEF Poll
  <2>6. CASE CallLock(p)
    BY <2>2, <2>3, <2>6, SemAssumption DEF CallLock, SemAssumption
  <2>. QED  BY <2>4, <2>5, <2>6
<1>4. /\ pc'[p] \in {"poll", "semop"} => m_semid'[p] \in SemIds
      /\ pc'[p] = "semop" => no'[p] \in Nums
      /\ pc'[p] # "poll" /\ m_semid'[p] # NoId => otime[m_semid'[p]]
  <2>1. CASE sem_get(p)
    BY <2>1 DEF sem_get, Goto, TypeOK
  <2>2. CASE Poll(p)
    BY <2>2 DEF Poll, Goto, TypeOK, UseInv, Initialised
  <2>3. CASE CallLock(p)
    BY <2>3 DEF CallLock, Goto, TypeOK, UseInv
  <2>. QED  BY <2>1, <2>2, <2>3
<1>5. TypeOK'
  <2>1. SemTypeOK'
    BY <1>1 DEF TypeOK, SemTypeOK
  <2>. QED  BY <1>1, <1>2, <1>3, <2>1 DEF TypeOK
<1>6. UndoInv'
  BY <1>1 DEF UndoInv
<1>7. UseInv'
  BY <1>1, <1>2, <1>3, <1>4 DEF UseInv, TypeOK
<1>8. FillInv'
  BY <1>1, <1>2 DEF FillInv, TypeOK
<1>9. FreshInv'
  BY <1>1 DEF FreshInv
<1>. QED  BY <1>5, <1>6, <1>7, <1>8, <1>9

\* What a semop that succeeds does to the semaphore and to the two accounts.
SetOpDone(p) ==
  \E s \in SemIds, n \in Nums, c \in Int, v \in Nat, h \in Int, g \in Int :
    /\ life[s] = "live" /\ otime[s] /\ v = val[s][n] - c /\ h = held[p][s][n] /\ g = h + c
    /\ val' = [val EXCEPT ![s][n] = v] /\ held' = [held EXCEPT ![p][s][n] = g]
    /\ adj' = held' /\ otime' = otime /\ life' = life

\* A semop of a process on the set of its object: what it takes, the kernel
\* notes as well.
LEMMA SetOpEffect ==
  ASSUME LocalInv, NEW p \in Procs, set_op(p), life[m_semid[p]] = "live"
  PROVE  SetOpDone(p)
<1>. USE DEF LocalInv
<1>1. pc[p] = "semop"
  BY DEF set_op, Goto
<1>2. PICK s \in SemIds, n \in Nums, c \in Int : s = m_semid[p] /\ n = no[p] /\ c = count[p]
  BY <1>1 DEF UseInv, TypeOK
<1>3. /\ life[s] = "live" /\ otime[s]
  BY <1>1, <1>2, SemAssumption DEF UseInv, SemAssumption
<1>4. /\ Semop(p, s, IF c = 0 THEN {n} ELSE {}, n, -c, c # 0)
      /\ held' = [held EXCEPT ![p][s][n] = @ + c]
  BY <1>2, <1>3 DEF set_op, SemGone
<1>5. PICK v \in Nat, h \in Int, g \in Int :
        /\ v = val[s][n] + (-c) /\ v = val[s][n] - c /\ h = held[p][s][n] /\ g = h + c
        /\ g = h - (-c) /\ (c = 0 => g = h)
  <2>1. val[s][n] \in Nat /\ held[p][s][n] \in Int /\ val[s][n] + (-c) >= 0
    BY <1>4 DEF Semop, TypeOK, SemTypeOK
  <2>2. PICK a \in Nat, b \in Int : a = val[s][n] /\ b = held[p][s][n] /\ a + (-c) >= 0
    BY <2>1
  <2>3. /\ a + (-c) \in Nat /\ a + (-c) = a - c /\ b + c \in Int /\ b + c = b - (-c)
        /\ (c = 0 => b + c = b)
    BY <2>2
  <2>. QED  BY <2>2, <2>3
<1>6. val' = [val EXCEPT ![s][n] = v] /\ held' = [held EXCEPT ![p][s][n] = g]
  BY <1>4, <1>5, Zenon DEF Semop
<1>7. adj' = held'
  <2>1. CASE c # 0
    BY <1>4, <1>5, <1>6, <2>1, Zenon DEF Semop, UndoInv
  <2>2. CASE c = 0
    <3>1. adj' = held
      BY <1>4, <2>2, Zenon DEF Semop, UndoInv
    <3>2. held' = held
      BY <1>5, <1>6, <2>2 DEF TypeOK
    <3>. QED  BY <3>1, <3>2
  <2>. QED  BY <2>1, <2>2
<1>8. otime' = otime /\ life' = life
  BY <1>3, <1>4 DEF Semop, TypeOK, SemTypeOK
<1>. QED  BY <1>3, <1>5, <1>6, <1>7, <1>8, Zenon DEF SetOpDone

\* A semop keeps the accounts of what each process has taken.
LEMMA SetOpLocal ==
  ASSUME LocalInv, NEW p \in Procs, set_op(p)
  PROVE  LocalInv'
<1>. USE DEF LocalInv
<1>1. /\ pc[p] = "semop" /\ pc' = [pc EXCEPT ![p] = "idle"]
      /\ no' = [no EXCEPT ![p] = 0] /\ count' = [count EXCEPT ![p] = 0]
      /\ UNCHANGED <<m_semid, semid, tries, clamped>>
  BY DEF set_op, Goto
<1>2. /\ SemTypeOK' /\ held' \in [Procs -> [SemIds -> [Nums -> Int]]] /\ UndoInv'
      /\ otime' = otime /\ life' = life
      /\ \A s \in SemIds : ~otime[s] => \A n \in Nums :
           val'[s][n] = val[s][n] /\ \A q \in Procs : held'[q][s][n] = held[q][s][n]
  <2>1. CASE life[m_semid[p]] = "live"
    <3>0. SetOpDone(p)
      BY <2>1, SetOpEffect, Zenon
    <3>1. PICK s \in SemIds, n \in Nums, c \in Int, v \in Nat, h \in Int, g \in Int :
            /\ life[s] = "live" /\ otime[s] /\ v = val[s][n] - c /\ h = held[p][s][n] /\ g = h + c
            /\ val' = [val EXCEPT ![s][n] = v] /\ held' = [held EXCEPT ![p][s][n] = g]
            /\ adj' = held' /\ otime' = otime /\ life' = life
      BY <3>0, Zenon DEF SetOpDone
    <3>2. held' \in [Procs -> [SemIds -> [Nums -> Int]]]
      BY <3>1 DEF TypeOK
    <3>3. val' \in [SemIds -> [Nums -> Nat]]
      BY <3>1 DEF TypeOK, SemTypeOK
    <3>4. SemTypeOK'
      BY <3>1, <3>2, <3>3 DEF TypeOK, SemTypeOK
    <3>5. ASSUME NEW t \in SemIds, ~otime[t], NEW m \in Nums
          PROVE  val'[t][m] = val[t][m] /\ \A q \in Procs : held'[q][t][m] = held[q][t][m]
      BY <3>1, <3>5 DEF TypeOK, SemTypeOK
    <3>. QED  BY <3>1, <3>2, <3>4, <3>5 DEF UndoInv
  <2>2. CASE life[m_semid[p]] # "live"
    <3>1. UNCHANGED <<life, val, otime, adj, held>>
      BY <2>2 DEF set_op, Semop, SemGone, semVars
    <3>. QED  BY <3>1 DEF TypeOK, SemTypeOK, UndoInv
  <2>. QED  BY <2>1, <2>2
<1>3. TypeOK'
  <2>1. SemTypeOK' /\ held' \in [Procs -> [SemIds -> [Nums -> Int]]]
    BY <1>2, Zenon
  <2>2. /\ pc' \in [Procs -> {"idle", "fill", "poll", "semop"}]
        /\ no' \in [Procs -> Nums \cup {0}] /\ count' \in [Procs -> Int]
    BY <1>1 DEF TypeOK
  <2>3. /\ m_semid' \in [Procs -> SemIds \cup {NoId}] /\ semid' \in [Procs -> SemIds \cup {NoId}]
        /\ tries' \in [Procs -> Nat] /\ clamped' \subseteq SemIds
    BY <1>1 DEF TypeOK
  <2>. QED  BY <2>1, <2>2, <2>3, Zenon DEF TypeOK
<1>4. UseInv'
  BY <1>1, <1>2 DEF UseInv, TypeOK
<1>5. FillInv'
  BY <1>1, <1>2 DEF FillInv, TypeOK
<1>6. FreshInv'
  <2>1. ASSUME NEW s \in SemIds
        PROVE  /\ life'[s] = "unused" => ~otime'[s]
               /\ ~otime'[s] =>
                    \A n \in Nums : val'[s][n] = 0 /\ \A q \in Procs : held'[q][s][n] = 0
    <3>1. /\ life'[s] = life[s] /\ otime'[s] = otime[s]
          /\ ~otime[s] => \A n \in Nums :
               val'[s][n] = val[s][n] /\ \A q \in Procs : held'[q][s][n] = held[q][s][n]
      BY <1>2, Zenon
    <3>2. /\ life[s] = "unused" => ~otime[s]
          /\ ~otime[s] => \A n \in Nums : val[s][n] = 0 /\ \A q \in Procs : held[q][s][n] = 0
      BY DEF FreshInv
    <3>. QED  BY <3>1, <3>2
  <2>. QED  BY <2>1, Zenon DEF FreshInv
<1>. QED  BY <1>2, <1>3, <1>4, <1>5, <1>6

\* sem_delete voids what has been taken of the set.
LEMMA DeleteLocal ==
  ASSUME LocalInv, NEW p \in Procs, sem_delete(p)
  PROVE  LocalInv'
<1>. USE DEF LocalInv
<1>1. PICK s \in SemIds :
        /\ life[s] = "live" /\ life' = [life EXCEPT ![s] = "removed"]
        /\ adj' = [q \in Procs |-> [adj[q] EXCEPT ![s] = [n \in Nums |-> 0]]]
        /\ held' = [q \in Procs |-> [held[q] EXCEPT ![s] = [n \in Nums |-> 0]]]
        /\ UNCHANGED <<val, otime, pc, m_semid, semid, tries, no, count, clamped>>
  BY DEF sem_delete, SemRemove, TypeOK, objVars
<1>2. /\ adj' \in [Procs -> [SemIds -> [Nums -> Int]]]
      /\ held' \in [Procs -> [SemIds -> [Nums -> Int]]]
      /\ \A q \in Procs, t \in SemIds, n \in Nums :
           held'[q][t][n] = IF t = s THEN 0 ELSE held[q][t][n]
  BY <1>1 DEF TypeOK, SemTypeOK
<1>3. TypeOK'
  <2>1. SemTypeOK'
    BY <1>1, <1>2 DEF TypeOK, SemTypeOK
  <2>. QED  BY <1>1, <1>2, <2>1 DEF TypeOK
<1>4. UndoInv'
  BY <1>1, Zenon DEF UndoInv
<1>5. UseInv'
  BY <1>1 DEF UseInv
<1>6. FillInv'
  BY <1>1 DEF FillInv, TypeOK, SemTypeOK
<1>7. FreshInv'
  BY <1>1, <1>2 DEF FreshInv, TypeOK, SemTypeOK
<1>. QED  BY <1>3, <1>4, <1>5, <1>6, <1>7

\* An exit gives back what the process has taken.
LEMMA ExitEffect ==
  ASSUME LocalInv, NEW p \in Procs, Exit(p)
  PROVE  /\ \A s \in SemIds, n \in Nums :
              val'[s][n] = IF val[s][n] + held[p][s][n] < 0 THEN 0
                           ELSE val[s][n] + held[p][s][n]
         /\ \A q \in Procs, s \in SemIds, n \in Nums :
              held'[q][s][n] = IF q = p THEN 0 ELSE held[q][s][n]
         /\ val' \in [SemIds -> [Nums -> Nat]]
         /\ held' \in [Procs -> [SemIds -> [Nums -> Int]]]
         /\ adj' = held' /\ otime' = otime /\ life' = life
         /\ clamped' = clamped \cup
              {s \in SemIds : \E n \in Nums : val[s][n] + held[p][s][n] < 0}
<1>. USE DEF LocalInv
<1>1. /\ val' = [s \in SemIds |-> [n \in Nums |-> IF val[s][n] + held[p][s][n] < 0 THEN 0
                                                  ELSE val[s][n] + held[p][s][n]]]
      /\ adj' = [held EXCEPT ![p] = NoneHeld] /\ held' = [held EXCEPT ![p] = NoneHeld]
      /\ otime' = otime /\ life' = life
      /\ clamped' = clamped \cup
           {s \in SemIds : \E n \in Nums : val[s][n] + held[p][s][n] < 0}
  BY Zenon DEF Exit, SemExit, UndoInv, NoneHeld, NoAdj
<1>2. \A s \in SemIds, n \in Nums :
        (IF val[s][n] + held[p][s][n] < 0 THEN 0 ELSE val[s][n] + held[p][s][n]) \in Nat
  BY DEF TypeOK, SemTypeOK
<1>3. NoneHeld \in [SemIds -> [Nums -> Int]] /\ \A s \in SemIds, n \in Nums : NoneHeld[s][n] = 0
  BY DEF NoneHeld
<1>4. val' \in [SemIds -> [Nums -> Nat]]
  BY <1>1, <1>2
<1>5. /\ held' \in [Procs -> [SemIds -> [Nums -> Int]]]
      /\ \A q \in Procs, s \in SemIds, n \in Nums :
           held'[q][s][n] = IF q = p THEN 0 ELSE held[q][s][n]
  BY <1>1, <1>3 DEF TypeOK
<1>. QED  BY <1>1, <1>4, <1>5

\* After an exit nothing of the process is left.
LEMMA ExitLocal ==
  ASSUME LocalInv, NEW p \in Procs, Exit(p)
  PROVE  LocalInv'
<1>1. /\ val' \in [SemIds -> [Nums -> Nat]]
      /\ held' \in [Procs -> [SemIds -> [Nums -> Int]]]
      /\ adj' = held' /\ otime' = otime /\ life' = life
      /\ clamped' \subseteq SemIds
      /\ \A s \in SemIds : ~otime[s] => \A n \in Nums :
           val'[s][n] = 0 /\ \A q \in Procs : held'[q][s][n] = 0
  <2>1. ASSUME NEW s \in SemIds, ~otime[s], NEW n \in Nums
        PROVE  val'[s][n] = 0 /\ \A q \in Procs : held'[q][s][n] = 0
    <3>1. val[s][n] = 0 /\ \A q \in Procs : held[q][s][n] = 0
      BY <2>1 DEF LocalInv, FreshInv
    <3>2. /\ val'[s][n] = IF val[s][n] + held[p][s][n] < 0 THEN 0
                           ELSE val[s][n] + held[p][s][n]
          /\ \A q \in Procs : held'[q][s][n] = IF q = p THEN 0 ELSE held[q][s][n]
      BY ExitEffect
    <3>3. ~(0 + 0 < 0) /\ 0 + 0 = 0
      OBVIOUS
    <3>. QED  BY <3>1, <3>2, <3>3, Zenon
  <2>2. clamped' \subseteq SemIds
    BY ExitEffect DEF LocalInv, TypeOK
  <2>. QED  BY <2>1, <2>2, ExitEffect
<1>2. /\ pc' = [pc EXCEPT ![p] = "idle"] /\ m_semid' = [m_semid EXCEPT ![p] = NoId]
      /\ semid' = [semid EXCEPT ![p] = NoId] /\ tries' = [tries EXCEPT ![p] = 0]
      /\ no' = [no EXCEPT ![p] = 0] /\ count' = [count EXCEPT ![p] = 0]
  BY DEF Exit
<1>. USE DEF LocalInv
<1>3. TypeOK'
  <2>1. SemTypeOK'
    BY <1>1 DEF TypeOK, SemTypeOK
  <2>. QED  BY <1>1, <1>2, <2>1 DEF TypeOK
<1>4. UndoInv'
  BY <1>1 DEF UndoInv
<1>5. UseInv'
  BY <1>1, <1>2 DEF UseInv, TypeOK
<1>6. FillInv'
  BY <1>1, <1>2 DEF FillInv, TypeOK
<1>7. FreshInv'
  BY <1>1 DEF FreshInv
<1>. QED  BY <1>3, <1>4, <1>5, <1>6, <1>7

----------------------------------------------------------------------------
\* What one process takes, the semaphore has less.
LEMMA Moved ==
  ASSUME NEW H, NEW K, NEW s, NEW n, NEW p \in Procs, NEW v \in Int, NEW w \in Int,
         AreInts(H, s, n, Procs), AreInts(K, s, n, Procs),
         \A q \in Procs : q # p => K[q][s][n] = H[q][s][n],
         w + K[p][s][n] = v + H[p][s][n]
  PROVE  w + SumTo(K, s, n, Procs) = v + SumTo(H, s, n, Procs)
<1>1. \A q \in Procs : H[q][s][n] \in Int /\ K[q][s][n] \in Int
  BY DEF AreInts
<1>2. IsFiniteSet(Procs)
  BY SemAssumption DEF SemAssumption
<1>3. /\ SumTo(H, s, n, Procs) \in Int
      /\ SumTo(K, s, n, Procs) = SumTo(H, s, n, Procs) + (K[p][s][n] - H[p][s][n])
  BY <1>1, <1>2, SumChange
<1>4. PICK a \in Int, b \in Int, c \in Int :
        a = SumTo(H, s, n, Procs) /\ b = H[p][s][n] /\ c = K[p][s][n]
  BY <1>1, <1>3
<1>5. w + c = v + b /\ SumTo(K, s, n, Procs) = a + (c - b)
  BY <1>3, <1>4, Zenon
<1>6. w + (a + (c - b)) = v + a
  BY <1>5
<1>. QED  BY <1>4, <1>5, <1>6, Zenon

\* The balance, with the new values named.
LEMMA BalanceNext ==
  (\A s \in SemIds \ clamped' : life'[s] = "live" /\ otime'[s] =>
     \A n \in Nums : val'[s][n] + SumTo(held', s, n, Procs) = Total[n])
  => BalanceInv'
BY Zenon DEF BalanceInv, Initialised, SumTo, MapThenSumSet, MapThenFoldSet

\* A step keeps the balance in which no set gets ready and process p alone
\* takes what the semaphores lose.
LEMMA BalanceKept ==
  ASSUME IInv, LocalInv', NEW p \in Procs, clamped \subseteq clamped',
         \A s \in SemIds \ clamped' : life'[s] = "live" /\ otime'[s] =>
           /\ life[s] = "live" /\ otime[s]
           /\ \A n \in Nums :
                /\ val'[s][n] + held'[p][s][n] = val[s][n] + held[p][s][n]
                /\ \A q \in Procs : q # p => held'[q][s][n] = held[q][s][n]
  PROVE  BalanceInv'
<1>1. ASSUME NEW s \in SemIds \ clamped', life'[s] = "live", otime'[s], NEW n \in Nums
      PROVE  val'[s][n] + SumTo(held', s, n, Procs) = Total[n]
  <2>1. val[s][n] + SumTo(held, s, n, Procs) = Total[n]
    BY <1>1, Zenon DEF IInv, BalanceInv, Initialised
  <2>2. PICK v \in Int, w \in Int : v = val[s][n] /\ w = val'[s][n]
    <3>1. val[s][n] \in Int
      BY DEF IInv, LocalInv, TypeOK, SemTypeOK
    <3>2. val'[s][n] \in Int
      BY DEF LocalInv, TypeOK, SemTypeOK
    <3>. QED  BY <3>1, <3>2
  <2>3. AreInts(held, s, n, Procs)
    BY DEF AreInts, IInv, LocalInv, TypeOK
  <2>4. \A q \in Procs : held'[q][s][n] \in Int
    BY DEF LocalInv, TypeOK
  <2>5. PICK K : K = held'
    OBVIOUS
  <2>6. AreInts(K, s, n, Procs)
    BY <2>4, <2>5, Zenon DEF AreInts
  <2>7. /\ \A q \in Procs : q # p => K[q][s][n] = held[q][s][n]
        /\ w + K[p][s][n] = v + held[p][s][n]
    BY <1>1, <2>2, <2>5, Zenon
  <2>8. w + SumTo(K, s, n, Procs) = v + SumTo(held, s, n, Procs)
    BY <2>3, <2>6, <2>7, Moved
  <2>. QED  BY <2>1, <2>2, <2>5, <2>8, Zenon
<1>. QED  BY <1>1, BalanceNext, Zenon

\* Filling a set gives it the units of Total.
LEMMA FillBalance ==
  ASSUME IInv, LocalInv', NEW p \in Procs, Fill(p)
  PROVE  BalanceInv'
<1>1. PICK s \in SemIds : s = semid[p] /\ ~otime[s]
  BY DEF Fill, Goto, IInv, LocalInv, FillInv
<1>2. held' = held /\ clamped' = clamped
  BY DEF Fill
<1>3. CASE SemopAll(s, Total)
  <2>1. /\ val' = [val EXCEPT ![s] = [n \in Nums |-> val[s][n] + Total[n]]]
        /\ otime' = [otime EXCEPT ![s] = TRUE] /\ life' = life
    BY <1>3 DEF SemopAll
  <2>2. ASSUME NEW t \in SemIds \ clamped, life[t] = "live", otime'[t], NEW n \in Nums
        PROVE  val'[t][n] + SumTo(held, t, n, Procs) = Total[n]
    <3>1. CASE t = s
      <4>1. val[s][n] = 0 /\ \A q \in Procs : held[q][s][n] = 0
        BY <1>1 DEF IInv, LocalInv, FreshInv
      <4>2. SumTo(held, s, n, Procs) = 0
        BY <4>1, SumZero, SemAssumption DEF SemAssumption
      <4>3. val'[s][n] = val[s][n] + Total[n]
        BY <2>1 DEF IInv, LocalInv, TypeOK, SemTypeOK
      <4>4. Total[n] \in Nat
        BY SemAssumption DEF SemAssumption
      <4>5. val'[t][n] + SumTo(held, t, n, Procs) = (0 + Total[n]) + 0
        BY <3>1, <4>1, <4>2, <4>3, Zenon
      <4>. QED  BY <4>4, <4>5
    <3>2. CASE t # s
      <4>1. val'[t] = val[t] /\ otime[t]
        BY <2>1, <2>2, <3>2 DEF IInv, LocalInv, TypeOK, SemTypeOK
      <4>. QED  BY <2>2, <4>1, Zenon DEF IInv, BalanceInv, Initialised
    <3>. QED  BY <3>1, <3>2
  <2>. QED  BY <1>2, <2>1, <2>2, BalanceNext, Zenon
<1>4. CASE UNCHANGED semVars
  <2>1. \A t \in SemIds \ clamped : life[t] = "live" /\ otime[t] =>
          \A n \in Nums : val[t][n] + SumTo(held, t, n, Procs) = Total[n]
    BY Zenon DEF IInv, BalanceInv, Initialised
  <2>2. life' = life /\ otime' = otime /\ val' = val
    BY <1>4 DEF semVars
  <2>. QED  BY <1>2, <2>1, <2>2, BalanceNext, Zenon
<1>. QED  BY <1>1, <1>3, <1>4 DEF Fill, SemGone

\* A semop moves units between the semaphore and the process.
LEMMA SetOpMoves ==
  ASSUME LocalInv, NEW p \in Procs, set_op(p), life[m_semid[p]] = "live"
  PROVE  /\ life' = life /\ otime' = otime
         /\ \A t \in SemIds, m \in Nums :
              /\ val'[t][m] + held'[p][t][m] = val[t][m] + held[p][t][m]
              /\ \A q \in Procs : q # p => held'[q][t][m] = held[q][t][m]
<1>2. PICK s \in SemIds, n \in Nums, c \in Int, v \in Nat, h \in Int, g \in Int :
        /\ life[s] = "live" /\ otime[s] /\ v = val[s][n] - c /\ h = held[p][s][n] /\ g = h + c
        /\ val' = [val EXCEPT ![s][n] = v] /\ held' = [held EXCEPT ![p][s][n] = g]
        /\ adj' = held' /\ otime' = otime /\ life' = life
  BY SetOpEffect, Zenon DEF SetOpDone
<1>3. /\ val \in [SemIds -> [Nums -> Nat]]
      /\ held \in [Procs -> [SemIds -> [Nums -> Int]]]
  BY DEF LocalInv, TypeOK, SemTypeOK
<1>4. v + g = val[s][n] + held[p][s][n]
  <2>1. PICK a \in Int, b \in Int : a = val[s][n] /\ b = held[p][s][n]
    BY <1>3
  <2>2. v = a - c /\ g = b + c
    BY <1>2, <2>1, Zenon
  <2>3. v + g = a + b
    BY <2>2
  <2>. QED  BY <2>1, <2>3, Zenon
<1>5. ASSUME NEW t \in SemIds, NEW m \in Nums
      PROVE  /\ val'[t][m] + held'[p][t][m] = val[t][m] + held[p][t][m]
             /\ \A q \in Procs : q # p => held'[q][t][m] = held[q][t][m]
  <2>1. \A q \in Procs : q # p => held'[q][t][m] = held[q][t][m]
    BY <1>2, <1>3
  <2>2. CASE t = s /\ m = n
    <3>1. val'[s][n] = v /\ held'[p][s][n] = g
      BY <1>2, <1>3
    <3>. QED  BY <1>4, <2>1, <2>2, <3>1, Zenon
  <2>3. CASE ~(t = s /\ m = n)
    <3>1. val'[t][m] = val[t][m] /\ held'[p][t][m] = held[p][t][m]
      BY <1>2, <1>3, <2>3
    <3>. QED  BY <2>1, <3>1, Zenon
  <2>. QED  BY <2>2, <2>3
<1>. QED  BY <1>2, <1>5, Zenon

\* The steps that change no semaphore, or take from it what they note.
LEMMA OtherBalance ==
  ASSUME IInv, LocalInv', NEW p \in Procs,
         \/ sem_create(p) \/ sem_get(p) \/ Poll(p) \/ CallLock(p) \/ set_op(p)
         \/ sem_delete(p) \/ Exit(p)
  PROVE  BalanceInv'
<1>. DEFINE Kept == \A s \in SemIds \ clamped' : life'[s] = "live" /\ otime'[s] =>
           /\ life[s] = "live" /\ otime[s]
           /\ \A n \in Nums :
                /\ val'[s][n] + held'[p][s][n] = val[s][n] + held[p][s][n]
                /\ \A q \in Procs : q # p => held'[q][s][n] = held[q][s][n]
<1>1. SUFFICES clamped \subseteq clamped' /\ Kept
  BY BalanceKept
<1>2. CASE sem_create(p)
  <2>1. PICK s \in SemIds : life[s] = "unused" /\ life' = [life EXCEPT ![s] = "live"]
    BY <1>2, Zenon DEF sem_create, SemCreate
  <2>2. UNCHANGED <<val, otime, held, clamped>>
    BY <1>2 DEF sem_create, SemCreate
  <2>3. ~otime[s]
    BY <2>1 DEF IInv, LocalInv, FreshInv
  <2>4. \A t \in SemIds : t # s => life'[t] = life[t]
    BY <2>1 DEF IInv, LocalInv, TypeOK, SemTypeOK
  <2>. QED  BY <2>2, <2>3, <2>4, Zenon
<1>3. CASE sem_get(p) \/ Poll(p) \/ CallLock(p)
  <2>1. UNCHANGED <<life, val, otime, held, clamped>>
    BY <1>3 DEF sem_get, Poll, CallLock, semVars
  <2>. QED  BY <2>1, Zenon
<1>4. CASE set_op(p)
  <2>1. CASE life[m_semid[p]] = "live"
    <3>1. LocalInv
      BY DEF IInv
    <3>2. /\ life' = life /\ otime' = otime
          /\ \A t \in SemIds, m \in Nums :
               /\ val'[t][m] + held'[p][t][m] = val[t][m] + held[p][t][m]
               /\ \A q \in Procs : q # p => held'[q][t][m] = held[q][t][m]
      BY <1>4, <2>1, <3>1, SetOpMoves
    <3>5. clamped' = clamped
      BY <1>4 DEF set_op
    <3>. QED  BY <3>2, <3>5, Zenon
  <2>2. CASE life[m_semid[p]] # "live"
    <3>1. UNCHANGED <<life, val, otime, held, clamped>>
      BY <1>4, <2>2 DEF set_op, Semop, SemGone, semVars
    <3>. QED  BY <3>1, Zenon
  <2>. QED  BY <2>1, <2>2
<1>5. CASE sem_delete(p)
  <2>1. PICK s \in SemIds :
          /\ life' = [life EXCEPT ![s] = "removed"]
          /\ held' = [q \in Procs |-> [held[q] EXCEPT ![s] = [n \in Nums |-> 0]]]
          /\ UNCHANGED <<val, otime, clamped>>
    BY <1>5 DEF sem_delete, SemRemove, IInv, LocalInv, TypeOK
  <2>2. \A t \in SemIds : /\ life'[t] = IF t = s THEN "removed" ELSE life[t]
                          /\ t # s => \A q \in Procs : held'[q][t] = held[q][t]
    BY <2>1 DEF IInv, LocalInv, TypeOK, SemTypeOK
  <2>3. ASSUME NEW t \in SemIds, life'[t] = "live"
        PROVE  life[t] = "live" /\ \A q \in Procs : held'[q][t] = held[q][t]
    BY <2>2, <2>3
  <2>. QED  BY <2>1, <2>3, Zenon
<1>6. CASE Exit(p)
  <2>1. LocalInv
    BY DEF IInv
  <2>2. /\ \A s \in SemIds, n \in Nums :
              val'[s][n] = IF val[s][n] + held[p][s][n] < 0 THEN 0
                           ELSE val[s][n] + held[p][s][n]
        /\ \A q \in Procs, s \in SemIds, n \in Nums :
              held'[q][s][n] = IF q = p THEN 0 ELSE held[q][s][n]
        /\ otime' = otime /\ life' = life
        /\ clamped' = clamped \cup
              {s \in SemIds : \E n \in Nums : val[s][n] + held[p][s][n] < 0}
    BY <1>6, <2>1, ExitEffect
  <2>3. ASSUME NEW s \in SemIds \ clamped', NEW n \in Nums
        PROVE  /\ val'[s][n] + held'[p][s][n] = val[s][n] + held[p][s][n]
               /\ \A q \in Procs : q # p => held'[q][s][n] = held[q][s][n]
    <3>1. ~(val[s][n] + held[p][s][n] < 0)
      BY <2>2
    <3>2. val'[s][n] = val[s][n] + held[p][s][n] /\ held'[p][s][n] = 0
      BY <2>2, <3>1, Zenon
    <3>3. PICK a \in Int : a = val[s][n] + held[p][s][n]
      BY <2>1 DEF LocalInv, TypeOK, SemTypeOK
    <3>4. a + 0 = a
      OBVIOUS
    <3>. QED  BY <2>2, <3>2, <3>3, <3>4, Zenon
  <2>4. clamped \subseteq clamped'
    BY <2>2
  <2>. QED  BY <2>2, <2>3, <2>4, Zenon
<1>. QED  BY <1>2, <1>3, <1>4, <1>5, <1>6

\* Every step keeps the invariant.
LEMMA Inductive == IInv /\ [Next]_vars => IInv'
<1>. SUFFICES ASSUME IInv, [Next]_vars PROVE IInv'
  OBVIOUS
<1>1. CASE UNCHANGED vars
  <2>1. /\ UNCHANGED <<life, val, otime, adj>>
        /\ UNCHANGED <<pc, m_semid, semid, tries, no, count, held, clamped>>
    BY <1>1 DEF vars, semVars, objVars
  <2>2. TypeOK'
    BY <2>1 DEF IInv, LocalInv, TypeOK, SemTypeOK
  <2>3. UndoInv' /\ UseInv' /\ FillInv' /\ FreshInv'
    BY <2>1 DEF IInv, LocalInv, UndoInv, UseInv, FillInv, FreshInv
  <2>4. \A s \in SemIds \ clamped : life[s] = "live" /\ otime[s] =>
          \A n \in Nums : val[s][n] + SumTo(held, s, n, Procs) = Total[n]
    BY Zenon DEF IInv, BalanceInv, Initialised
  <2>5. BalanceInv'
    BY <2>1, <2>4, BalanceNext, Zenon
  <2>. QED  BY <2>2, <2>3, <2>5 DEF IInv, LocalInv
<1>2. ASSUME NEW p \in Procs,
             \/ sem_create(p) \/ Fill(p) \/ sem_get(p) \/ Poll(p) \/ CallLock(p) \/ set_op(p)
             \/ sem_delete(p) \/ Exit(p)
      PROVE  IInv'
  <2>1. LocalInv
    BY DEF IInv
  <2>2. LocalInv'
    BY <1>2, <2>1, CreateLocal, FillLocal, QuietLocal, SetOpLocal, DeleteLocal, ExitLocal, Zenon
  <2>3. BalanceInv'
    BY <1>2, <2>2, FillBalance, OtherBalance, Zenon
  <2>. QED  BY <2>2, <2>3 DEF IInv
<1>. QED  BY <1>1, <1>2 DEF Next

\* The strengthened invariant of TSem holds of every behaviour.
THEOREM Invariance == Spec => []IInv
BY InitInv, Inductive, PTL DEF Spec

\* Typing: the semaphores never fall below 0, an object names a set or none.
THEOREM SemTypes == Spec => []TypeOK
<1>1. IInv => TypeOK
  BY DEF IInv, LocalInv
<1>. QED  BY Invariance, <1>1, PTL

\* SEM_UNDO as set_op of mysem.cpp passes it notes for every process what the
\* successful calls of sem_lock and sem_unlock have taken, neither more nor less.
THEOREM UndoIsExact == Spec => [](held = adj)
<1>1. IInv => held = adj
  BY DEF IInv, LocalInv, UndoInv
<1>. QED  BY Invariance, <1>1, PTL

\* Nobody uses a set its creator has not filled, and the units of a filled set
\* are those sem_create gave it: those it holds and those living processes have
\* taken, for any number of processes, semaphores and units.
THEOREM UnitsAreKept == Spec => []SemBalance
<1>1. IInv => SemBalance
  <2>. SUFFICES ASSUME IInv PROVE SemBalance
    OBVIOUS
  <2>1. \A p \in Procs : pc[p] \in {"idle", "semop"} /\ m_semid[p] # NoId => otime[m_semid[p]]
    BY DEF IInv, LocalInv, UseInv
  <2>2. \A s \in SemIds \ clamped : Initialised(s) =>
          \A n \in Nums :
            val[s][n] + MapThenSumSet(LAMBDA p : held[p][s][n], Procs) = Total[n]
    BY Zenon DEF IInv, BalanceInv, SumTo
  <2>. QED  BY <2>1, <2>2, Zenon DEF SemBalance
<1>. QED  BY Invariance, <1>1, PTL

=============================================================================
