----------------------------- MODULE TextProofs -----------------------------
(***************************************************************************)
(* The sequential functions for every bound: what BinarySearch finds, what *)
(* MyEtc reads, what strreplace writes, where TSplit cuts.                 *)
(***************************************************************************)
EXTENDS Search, Etc, Replace, Split, FiniteSetTheorems, SequenceTheorems,
        WellFoundedInduction, TLAPS

----------------------------------------------------------------------------
\* BinarySearch: in an ascending array an element equal to the key is not
\* outside low .. high.
Excluded ==
  Ascending(cnt, array) =>
    \A p \in 0 .. cnt - 1 : (p < low => array[p] < key) /\ (p > high => key < array[p])

Answered ==
  Ascending(cnt, array) =>
    IF Present THEN found \in 0 .. cnt - 1 /\ array[found] = key ELSE found = -1

SearchInv ==
  /\ cnt \in Nat /\ array \in Arrays(cnt) /\ key \in Elements
  /\ searching \in BOOLEAN
  /\ SearchFits =>
       IF searching
         THEN found = -1 /\ low \in 0 .. cnt - 1 /\ high \in low .. cnt - 1 /\ Excluded
         ELSE Answered

----------------------------------------------------------------------------
\* MyEtc: what has been read so far is in the map.  SegIn and MeantIn are SegOf
\* and Meant of any file.
SegIn(lines, n) ==
  LET before == {m \in 1 .. n : lines[m].kind \in {"seg", "badseg"}}
  IN IF before = {} THEN Blank ELSE lines[LastOf(before)].name

MeantIn(lines, s, k) ==
  LET setting == {n \in DOMAIN lines : /\ lines[n].kind = "item" /\ lines[n].name = k
                                       /\ SegIn(lines, n) = s}
  IN IF setting = {} THEN Blank ELSE lines[LastOf(setting)].value

\* A line in segment sg that makes the key of an item; one that is a line of it.
Touches(line, sg, s, k) ==
  line.kind \in {"item", "bare"} /\ sg \in Segs /\ Key(sg, line.name) = Key(s, k)
Own(line, sg, s, k) == line.kind = "item" /\ sg = s /\ line.name = k

ClearIn(lines, s, k) ==
  \A n \in DOMAIN lines :
    Touches(lines[n], SegIn(lines, n), s, k) => Own(lines[n], SegIn(lines, n), s, k)

EtcInv ==
  /\ file \in Seq(Lines) /\ etcPc \in {"ready", "read", "spin"}
  /\ seg \in Segs \cup {Blank} /\ value \in Values \cup {Blank}
  /\ m_EtcInfo \in [Keys -> Values \cup {Blank}]
  /\ etcPc = "read" => seg = SegIn(file, Len(file))
  /\ \A s \in Segs, k \in Items :
       ClearIn(file, s, k) => m_EtcInfo[Key(s, k)] = MeantIn(file, s, k)

----------------------------------------------------------------------------
\* A sequence over A with a elements; one whose a elements are all y.
Of(s, A, a) == s \in Seq(A) /\ a \in Nat /\ Len(s) = a
AllAre(s, a, y) == \A p \in 1 .. a : s[p] = y

\* The concatenation u of s and t, in terms of the lengths of its parts.
IsJoin(u, A, s, a, t, b) ==
  /\ Of(u, A, a + b)
  /\ \A p \in 1 .. a : u[p] = s[p]
  /\ \A p \in 1 .. b : u[a + p] = t[p]

\* What strreplace puts for an element; t is put for the first k elements of
\* rest, whose other m are r.
Out(x) == IF x = "S" THEN "D" ELSE "c"
Follows(rest, t, k, r, m) ==
  /\ Of(t, {"c", "D"}, k) /\ Of(r, {"c", "S"}, m) /\ Len(rest) = k + m
  /\ \A p \in 1 .. k : t[p] = Out(rest[p])
  /\ \A p \in 1 .. m : r[p] = rest[k + p]

\* out holds what comes before rest in text, replaced.
Copied(text, rest, out) ==
  /\ text \in Seq({"c", "S"}) /\ rest \in Seq({"c", "S"}) /\ out \in Seq({"c", "D"})
  /\ Len(out) + Len(rest) = Len(text)
  /\ \A p \in 1 .. Len(out) : out[p] = Out(text[p])
  /\ \A p \in 1 .. Len(rest) : rest[p] = text[Len(out) + p]

\* How many bytes that is.
Bytes(out, dst) == Count(out, "c") + dst * Count(out, "D")

ReplaceInv ==
  /\ nSrcLen \in Nat /\ nDstLen \in Nat /\ nPos \in Nat /\ nReplaceLen \in Nat
  /\ nPos < nReplaceLen
  /\ replacing \in BOOLEAN /\ replaced \in BOOLEAN /\ (replacing => ~replaced)
  /\ replacing => Copied(strText, left, strBuf) /\ nPos = Bytes(strBuf, nDstLen)
  /\ replaced => Copied(strText, <<>>, strBuf) /\ nPos = Bytes(strBuf, nDstLen)

----------------------------------------------------------------------------
\* TSplit: how many tokens a text has up to p, where its k-th field ends.
Toks(text, p) == Cardinality({q \in 1 .. p : text[q] = "T"})
EndAt(text, k, p) == (p = Len(text) + 1 \/ text[p] = "T") /\ Toks(text, p - 1) = k - 1
EndOf(text, k) == IF k = 0 THEN 0 ELSE CHOOSE p \in 1 .. Len(text) + 1 : EndAt(text, k, p)

\* arr holds the lengths of the first fields of text.
Fields(text, arr) ==
  \A k \in 1 .. Len(arr) : arr[k] = EndOf(text, k) - EndOf(text, k - 1) - 1

\* Between two turns of the loop arr holds the fields up to i, which is the
\* start of the text or a token, and rest is what comes behind i.
SplitTo(text, i, rest, arr) ==
  /\ text \in Seq({"c", "T"}) /\ rest \in Seq({"c", "T"}) /\ arr \in Seq(Nat)
  /\ Len(text) = i + Len(rest)
  /\ \A p \in 1 .. Len(rest) : rest[p] = text[i + p]
  /\ i = EndOf(text, Len(arr)) /\ Toks(text, i) = Len(arr)
  /\ Fields(text, arr)

\* n is where the next field ends in rest.
NextEnd(rest, n) ==
  /\ n \in 1 .. Len(rest) + 1
  /\ \A p \in 1 .. n - 1 : rest[p] = "c"
  /\ n = Len(rest) + 1 \/ rest[n] = "T"

\* What has been found when that field is appended.
OneMore(text, i, rest, arr, n) ==
  /\ Append(arr, n - 1) \in Seq(Nat) /\ Len(Append(arr, n - 1)) = Len(arr) + 1
  /\ EndOf(text, Len(arr) + 1) = i + n
  /\ Fields(text, Append(arr, n - 1))
  /\ Toks(text, i + n - 1) = Len(arr)
  /\ n <= Len(rest) => text[i + n] = "T" /\ Toks(text, i + n) = Len(arr) + 1

\* At the end it holds them all, with at most one more than there is room for.
Whole(text, arr, total) ==
  /\ text \in Seq({"c", "T"}) /\ arr \in Seq(Nat)
  /\ Len(arr) = IF text = <<>> THEN 0 ELSE Toks(text, Len(text)) + 1
  /\ Fields(text, arr)
  /\ Len(arr) > total => text[Len(text)] = "T" /\ Len(arr) = total + 1

SplitInv ==
  /\ m_nTotalCnt \in Nat /\ splitting \in BOOLEAN
  /\ splitting =>
       /\ Len(m_Array) <= m_nTotalCnt
       /\ \E i \in Nat : /\ SplitTo(buf, i, bufPt, m_Array)
                         /\ i = 0 \/ buf[i] = "T"
  /\ ~splitting /\ splitRs = 0 => Whole(buf, m_Array, m_nTotalCnt)

----------------------------------------------------------------------------
USE DEF searchVars, etcVars, replaceVars, splitVars

\* A set of integers with a lower bound has a least element.
LEMMA LeastOf ==
  ASSUME NEW S, S \subseteq Int, S # {}, NEW a \in Int, NEW b \in Int, S \subseteq a .. b
  PROVE  \E m \in S : \A y \in S : m <= y
<1>. DEFINE I == a .. b
            T == {a .. y : y \in S}
<1>1. IsWellFoundedOn(StrictSubsetOrdering(I), FiniteSubsetsOf(I))
  BY FS_StrictSubsetOrderingWellFounded
<1>2. T \subseteq FiniteSubsetsOf(I)
  <2>1. IsFiniteSet(I)
    BY FS_Interval
  <2>2. T \subseteq SUBSET I
    OBVIOUS
  <2>. QED  BY <2>1, <2>2, FS_FiniteSubsetsOfFinite
<1>3. T # {}
  <2>1. PICK y \in S : TRUE
    OBVIOUS
  <2>2. a .. y \in T
    BY <2>1
  <2>. QED  BY <2>2
<1>4. PICK A \in T : \A B \in T : ~ (<<B, A>> \in StrictSubsetOrdering(I))
  BY <1>1, <1>2, <1>3, WFMin
<1>5. PICK m \in S : A = a .. m
  BY <1>4
<1>6. ASSUME NEW y \in S, y < m
      PROVE  FALSE
  <2>1. /\ a .. y \in T /\ a .. y \in SUBSET I /\ A \in SUBSET I
        /\ a .. y \subseteq A /\ m \in A /\ m \notin a .. y
    BY <1>5, <1>6
  <2>. QED  BY <1>4, <2>1 DEF StrictSubsetOrdering
<1>. QED  BY <1>6

\* And one with an upper bound a greatest.
LEMMA GreatestOf ==
  ASSUME NEW S, S # {}, NEW a \in Int, NEW b \in Int, S \subseteq a .. b
  PROVE  \E m \in S : \A y \in S : y <= m
<1>. DEFINE N == {-y : y \in S}
<1>1. N \subseteq Int /\ N \subseteq (-b) .. (-a) /\ -b \in Int /\ -a \in Int
  OBVIOUS
<1>3. N # {}
  BY Zenon
<1>2. PICK m \in N : \A y \in N : m <= y
  BY <1>1, <1>3, LeastOf
<1>. QED  BY <1>2

----------------------------------------------------------------------------
\* The probe of a loop that excludes nothing equal to the key.
LEMMA MidInside ==
  ASSUME SearchInv, SearchFits, searching
  PROVE  /\ mid \in low .. high /\ mid \in 0 .. cnt - 1
         /\ low \in Int /\ high \in Int /\ cnt \in Nat
         /\ Outcomes = {Compare(key, array[mid])}
<1>1. cnt \in Nat /\ low \in 0 .. cnt - 1 /\ high \in low .. cnt - 1
  BY DEF SearchInv
<1>2. low + high \in Nat /\ low + high <= IntMax /\ IntMax \in Nat
  BY <1>1, SearchAssumption DEF SearchAssumption, SearchFits
<1>3. mid = (low + high) \div 2
  BY <1>1, <1>2 DEF mid, Half, Wrapped
<1>4. mid \in low .. high
  BY <1>1, <1>3
<1>5. mid \in 0 .. cnt - 1
  BY <1>1, <1>4
<1>. QED  BY <1>1, <1>4, <1>5 DEF Outcomes

\* The initial state satisfies the invariant.
LEMMA SearchInitInv == SearchInit => SearchInv
<1>. SUFFICES ASSUME SearchInit PROVE SearchInv
  OBVIOUS
<1>1. Answered
  BY DEF SearchInit, Answered, Present
<1>2. cnt \in Nat /\ array \in Arrays(cnt) /\ key \in Elements /\ searching = FALSE
  BY SearchAssumption DEF SearchAssumption, SearchInit, Elements
<1>. QED  BY <1>1, <1>2 DEF SearchInv

\* A call of BinarySearch.
LEMMA SearchCallStep ==
  ASSUME SearchInv, BinarySearch
  PROVE  SearchInv'
<1>1. PICK n \in Nat : /\ cnt' = n /\ array' \in Arrays(n) /\ high' = n - 1
                      /\ key' \in Elements /\ low' = 0 /\ found' = -1
                      /\ searching' = (n > 0)
  BY SearchAssumption DEF SearchAssumption, BinarySearch
<1>2. cnt' \in Nat /\ array' \in Arrays(cnt)' /\ key' \in Elements
  BY <1>1 DEF Arrays, Elements
<1>3. searching' \in BOOLEAN /\ (searching' <=> n > 0)
  <2>1. searching' \in BOOLEAN
    BY <1>1
  <2>2. searching' <=> n > 0
    BY <1>1, Zenon
  <2>. QED  BY <2>1, <2>2
<1>4. CASE n > 0
  <2>1. Excluded'
    BY <1>1 DEF Excluded
  <2>2. 0 \in 0 .. n - 1 /\ n - 1 \in 0 .. n - 1
    BY <1>4
  <2>. QED  BY <1>1, <1>2, <1>3, <1>4, <2>1, <2>2 DEF SearchInv, Elements
<1>5. CASE n = 0
  <2>1. Answered'
    BY <1>1, <1>5 DEF Answered, Present
  <2>2. ~searching'
    BY <1>3, <1>5
  <2>. QED  BY <1>2, <1>3, <2>1, <2>2 DEF SearchInv, Elements
<1>. QED  BY <1>1, <1>4, <1>5

\* One turn of the loop.
LEMMA ProbeStep ==
  ASSUME SearchInv, Probe
  PROVE  SearchInv'
<1>1. /\ UNCHANGED <<cnt, array, key>> /\ searching
      /\ cnt \in Nat /\ array \in Arrays(cnt) /\ key \in Elements
  <2>1. UNCHANGED <<cnt, array, key>> /\ searching
    BY DEF Probe
  <2>. QED  BY <2>1 DEF SearchInv
<1>2. ASSUME SearchFits
      PROVE  IF searching'
               THEN found' = -1 /\ low' \in 0 .. cnt' - 1 /\ high' \in low' .. cnt' - 1 /\ Excluded'
               ELSE Answered'
  <2>1. /\ mid \in low .. high /\ mid \in 0 .. cnt - 1 /\ low \in Int /\ high \in Int
        /\ Outcomes = {Compare(key, array[mid])}
    BY <1>1, <1>2, MidInside
  <2>2. found = -1 /\ low \in 0 .. cnt - 1 /\ high \in low .. cnt - 1 /\ Excluded
    BY <1>1, <1>2 DEF SearchInv
  <2>3. /\ \A p \in 0 .. cnt - 1 : array[p] \in Nat
        /\ Ascending(cnt, array) => \A p, q \in 0 .. cnt - 1 : p < q => array[p] <= array[q]
        /\ key \in Nat
        /\ Ascending(cnt, array)' = Ascending(cnt, array)
    BY <1>1 DEF Arrays, Elements, Ascending
  <2>4. PICK m \in 0 .. cnt - 1 : m = mid /\ low <= m /\ m <= high
    BY <2>1
  <2>5. CASE Compare(key, array[m]) = 0 /\ found' = m /\ searching' = FALSE
    <3>1. array[m] = key
      BY <2>3, <2>5 DEF Compare
    <3>. QED  BY <1>1, <2>5, <3>1 DEF Answered, Present
  <2>6. CASE Compare(key, array[m]) < 0 /\ high' = m - 1 /\ UNCHANGED <<low, found>>
             /\ searching' = (low <= high')
    <3>0. searching' <=> low <= m - 1
      BY <2>6, Zenon
    <3>1. key < array[m]
      BY <2>3, <2>6 DEF Compare
    <3>2. Ascending(cnt, array) => \A p \in 0 .. cnt - 1 : p > m - 1 => key < array[p]
      BY <2>3, <3>1
    <3>3. CASE low <= m - 1
      <4>1. m - 1 \in low .. cnt - 1
        BY <1>1, <2>1, <2>2, <2>4, <3>3
      <4>2. Excluded'
        BY <1>1, <2>2, <2>3, <2>6, <3>2 DEF Excluded
      <4>. QED  BY <1>1, <2>2, <2>6, <3>0, <3>3, <4>1, <4>2
    <3>4. CASE ~(low <= m - 1)
      <4>1. Ascending(cnt, array) => \A p \in 0 .. cnt - 1 : array[p] # key
        BY <2>1, <2>2, <2>3, <3>2, <3>4 DEF Excluded
      <4>2. ~searching'
        BY <3>0, <3>4
      <4>. QED  BY <1>1, <2>2, <2>3, <2>6, <4>1, <4>2 DEF Answered, Present
    <3>. QED  BY <3>3, <3>4
  <2>7. CASE Compare(key, array[m]) > 0 /\ low' = m + 1 /\ UNCHANGED <<high, found>>
             /\ searching' = (low' <= high)
    <3>0. searching' <=> m + 1 <= high
      BY <2>7, Zenon
    <3>1. key > array[m]
      BY <2>3, <2>7 DEF Compare
    <3>2. Ascending(cnt, array) => \A p \in 0 .. cnt - 1 : p < m + 1 => array[p] < key
      BY <2>3, <3>1
    <3>3. CASE m + 1 <= high
      <4>1. m + 1 \in 0 .. cnt - 1 /\ high \in m + 1 .. cnt - 1
        BY <1>1, <2>1, <2>2, <2>4, <3>3
      <4>2. Excluded'
        BY <1>1, <2>2, <2>3, <2>7, <3>2 DEF Excluded
      <4>. QED  BY <1>1, <2>2, <2>7, <3>0, <3>3, <4>1, <4>2
    <3>4. CASE ~(m + 1 <= high)
      <4>1. Ascending(cnt, array) => \A p \in 0 .. cnt - 1 : array[p] # key
        BY <2>1, <2>2, <2>3, <3>2, <3>4 DEF Excluded
      <4>2. ~searching'
        BY <3>0, <3>4
      <4>. QED  BY <1>1, <2>2, <2>3, <2>7, <4>1, <4>2 DEF Answered, Present
    <3>. QED  BY <3>3, <3>4
  <2>. QED  BY <2>1, <2>4, <2>5, <2>6, <2>7 DEF Probe
<1>3. searching' \in BOOLEAN
  <2>1. \/ searching' = FALSE
        \/ searching' = (low <= high')
        \/ searching' = (low' <= high)
    BY Zenon DEF Probe
  <2>2. (low <= high') \in BOOLEAN /\ (low' <= high) \in BOOLEAN
    OBVIOUS
  <2>. QED  BY <2>1, <2>2, Zenon
<1>. QED  BY <1>1, <1>2, <1>3 DEF SearchInv, SearchFits, Arrays, Elements, Ascending, Descending

\* Every step keeps the invariant.
LEMMA SearchInductive == SearchInv /\ [SearchNext]_searchVars => SearchInv'
<1>. SUFFICES ASSUME SearchInv, [SearchNext]_searchVars PROVE SearchInv'
  OBVIOUS
<1>1. CASE UNCHANGED searchVars
  BY <1>1 DEF SearchInv, SearchFits, Arrays, Ascending, Descending, Excluded, Answered, Present
<1>. QED  BY <1>1, SearchCallStep, ProbeStep DEF SearchNext

\* The strengthened invariant of the search holds of every behaviour.
THEOREM SearchInvariance == SearchSpec => []SearchInv
BY SearchInitInv, SearchInductive, PTL DEF SearchSpec

\* BinarySearch (mySearch.cpp) reads inside a sorted array only and, if the
\* array ascends, finds an element equal to the key whenever there is one, for
\* arrays of any length up to where low + high passes the greatest int.
THEOREM SearchFinds == SearchSpec => []SearchRight
<1>1. SearchInv => SearchRight
  BY MidInside DEF SearchInv, SearchRight, Answered
<1>. QED  BY SearchInvariance, <1>1, PTL

----------------------------------------------------------------------------
\* The last of some lines is one of them.
LEMMA LastIsOne ==
  ASSUME NEW n \in Nat, NEW S, S # {}, S \subseteq 1 .. n
  PROVE  LastOf(S) \in S /\ \A y \in S : y <= LastOf(S)
<1>1. \E x \in S : \A y \in S : y <= x
  <2>1. 1 \in Int /\ n \in Int
    OBVIOUS
  <2>. QED  BY <2>1, GreatestOf
<1>. QED  BY <1>1 DEF LastOf

\* A line behind all the others is the last.
LEMMA LastOfMore ==
  ASSUME NEW n \in Nat, NEW S, S \subseteq 1 .. n
  PROVE  LastOf(S \cup {n + 1}) = n + 1
<1>1. /\ LastOf(S \cup {n + 1}) \in S \cup {n + 1}
      /\ \A y \in S \cup {n + 1} : y <= LastOf(S \cup {n + 1})
  <2>1. n + 1 \in Nat /\ S \cup {n + 1} \subseteq 1 .. n + 1
    OBVIOUS
  <2>. QED  BY <2>1, LastIsOne
<1>2. PICK x \in S \cup {n + 1} : x = LastOf(S \cup {n + 1})
  BY <1>1
<1>3. n + 1 <= x /\ (x \in S => x <= n)
  BY <1>1, <1>2
<1>. QED  BY <1>2, <1>3

\* The segment of each line when a line is added.
LEMMA SegOfMore ==
  ASSUME NEW lines \in Seq(Lines), NEW line \in Lines
  PROVE  /\ \A n \in 0 .. Len(lines) : SegIn(Append(lines, line), n) = SegIn(lines, n)
         /\ SegIn(Append(lines, line), Len(lines) + 1) =
              IF line.kind \in {"seg", "badseg"} THEN line.name ELSE SegIn(lines, Len(lines))
<1>. DEFINE more == Append(lines, line)
            Opens(ls, n) == {m \in 1 .. n : ls[m].kind \in {"seg", "badseg"}}
            L == Len(lines)
<1>1. L \in Nat /\ (\A m \in 1 .. L : more[m] = lines[m]) /\ more[L + 1] = line
  BY AppendProperties
<1>. HIDE DEF more
<1>2. ASSUME NEW n \in 0 .. L
      PROVE  SegIn(more, n) = SegIn(lines, n)
  <2>1. Opens(more, n) = Opens(lines, n)
    BY <1>1
  <2>2. CASE Opens(lines, n) = {}
    BY <2>1, <2>2 DEF SegIn
  <2>3. CASE Opens(lines, n) # {}
    <3>1. LastOf(Opens(lines, n)) \in Opens(lines, n)
      <4>1. Opens(lines, n) \subseteq 1 .. n /\ n \in Nat
        BY <1>1
      <4>. QED  BY <2>3, <4>1, LastIsOne
    <3>2. more[LastOf(Opens(lines, n))] = lines[LastOf(Opens(lines, n))]
      BY <1>1, <3>1
    <3>. QED  BY <2>1, <2>3, <3>2 DEF SegIn
  <2>. QED  BY <2>2, <2>3
<1>3. CASE line.kind \in {"seg", "badseg"}
  <2>1. Opens(more, L + 1) = Opens(more, L) \cup {L + 1}
    BY <1>1, <1>3
  <2>2. LastOf(Opens(more, L + 1)) = L + 1
    <3>1. Opens(more, L) \subseteq 1 .. L
      OBVIOUS
    <3>. QED  BY <1>1, <2>1, <3>1, LastOfMore
  <2>3. SegIn(more, L + 1) = line.name
    BY <1>1, <2>1, <2>2 DEF SegIn
  <2>. QED  BY <1>2, <1>3, <2>3 DEF more
<1>4. CASE line.kind \notin {"seg", "badseg"}
  <2>1. Opens(more, L + 1) = Opens(more, L)
    BY <1>1, <1>4
  <2>2. SegIn(more, L + 1) = SegIn(more, L)
    BY <2>1 DEF SegIn
  <2>. QED  BY <1>1, <1>2, <1>4, <2>2 DEF more
<1>. QED  BY <1>3, <1>4

\* What a file means when a line is added.
LEMMA MeantOfMore ==
  ASSUME NEW lines \in Seq(Lines), NEW line \in Lines, NEW s \in Segs, NEW k \in Items
  PROVE  MeantIn(Append(lines, line), s, k) =
           IF line.kind = "item" /\ line.name = k /\ SegIn(lines, Len(lines)) = s
             THEN line.value ELSE MeantIn(lines, s, k)
<1>. DEFINE more == Append(lines, line)
            Sets(ls) == {n \in DOMAIN ls : /\ ls[n].kind = "item" /\ ls[n].name = k
                                            /\ SegIn(ls, n) = s}
            L == Len(lines)
<1>1. /\ L \in Nat /\ (\A m \in 1 .. L : more[m] = lines[m]) /\ more[L + 1] = line
      /\ DOMAIN lines = 1 .. L /\ DOMAIN more = 1 .. L + 1
  BY AppendProperties, LenProperties
<1>2. /\ \A n \in 1 .. L : SegIn(more, n) = SegIn(lines, n)
      /\ line.kind = "item" => SegIn(more, L + 1) = SegIn(lines, L)
  BY <1>1, SegOfMore
<1>. HIDE DEF more
<1>3. Sets(lines) \subseteq 1 .. L
  BY <1>1
<1>4. CASE line.kind = "item" /\ line.name = k /\ SegIn(lines, L) = s
  <2>1. Sets(more) = Sets(lines) \cup {L + 1}
    BY <1>1, <1>2, <1>4
  <2>2. LastOf(Sets(more)) = L + 1
    BY <1>1, <1>3, <2>1, LastOfMore
  <2>3. MeantIn(more, s, k) = line.value
    BY <1>1, <2>1, <2>2 DEF MeantIn
  <2>. QED  BY <1>4, <2>3 DEF more
<1>5. CASE ~(line.kind = "item" /\ line.name = k /\ SegIn(lines, L) = s)
  <2>1. Sets(more) = Sets(lines)
    BY <1>1, <1>2, <1>5
  <2>2. CASE Sets(lines) = {}
    BY <1>5, <2>1, <2>2 DEF MeantIn, more
  <2>3. CASE Sets(lines) # {}
    <3>1. LastOf(Sets(lines)) \in 1 .. L
      BY <1>1, <1>3, <2>3, LastIsOne
    <3>2. more[LastOf(Sets(lines))] = lines[LastOf(Sets(lines))]
      BY <1>1, <3>1
    <3>3. MeantIn(more, s, k) = MeantIn(lines, s, k)
      BY <2>1, <2>3, <3>2 DEF MeantIn
    <3>. QED  BY <1>5, <3>3 DEF more
  <2>. QED  BY <2>2, <2>3
<1>. QED  BY <1>4, <1>5

\* An empty file says nothing of any item.
LEMMA NothingMeant ==
  /\ <<>> \in Seq(Lines) /\ SegIn(<<>>, 0) = Blank
  /\ \A s \in Segs, k \in Items : MeantIn(<<>>, s, k) = Blank
<1>1. 1 .. 0 = {} /\ DOMAIN <<>> = {}
  OBVIOUS
<1>. QED  BY <1>1 DEF SegIn, MeantIn

\* The initial state satisfies the invariant.
LEMMA EtcInitInv == EtcInit => EtcInv
<1>. SUFFICES ASSUME EtcInit PROVE EtcInv
  OBVIOUS
<1>1. /\ Empty \in [Keys -> Values \cup {Blank}]
      /\ \A s \in Segs, k \in Items : Empty[Key(s, k)] = Blank
  BY DEF Empty, Keys
<1>. QED  BY <1>1, NothingMeant DEF EtcInit, EtcInv

\* Init begins a file.
LEMMA InitEtcStep ==
  ASSUME EtcInv, InitEtc
  PROVE  EtcInv'
<1>1. /\ Empty \in [Keys -> Values \cup {Blank}]
      /\ \A s \in Segs, k \in Items : Empty[Key(s, k)] = Blank
  BY DEF Empty, Keys
<1>2. /\ file' = <<>> /\ Len(<<>>) = 0 /\ seg' = Blank /\ value' = Blank /\ m_EtcInfo' = Empty
      /\ etcPc' \in {"read", "ready"}
  BY EmptySeq DEF InitEtc
<1>. QED  BY <1>1, <1>2, NothingMeant DEF EtcInv

\* A line, whichever it is, whose effect is the one the file means.
LEMMA LineStep ==
  ASSUME EtcInv, NEW line \in Lines, file' = Append(file, line),
         etcPc' \in {"read", "spin"}, seg' \in Segs \cup {Blank}, value' \in Values \cup {Blank},
         m_EtcInfo' \in [Keys -> Values \cup {Blank}],
         etcPc' = "read" =>
           seg' = IF line.kind \in {"seg", "badseg"} THEN line.name ELSE SegIn(file, Len(file)),
         \A s \in Segs, k \in Items :
           (Touches(line, SegIn(file, Len(file)), s, k) => Own(line, SegIn(file, Len(file)), s, k))
             => m_EtcInfo'[Key(s, k)] =
                  IF Own(line, SegIn(file, Len(file)), s, k)
                    THEN line.value ELSE m_EtcInfo[Key(s, k)]
  PROVE  EtcInv'
<1>1. /\ file \in Seq(Lines) /\ file' \in Seq(Lines) /\ Len(file) \in Nat
      /\ Len(file') = Len(file) + 1 /\ file'[Len(file) + 1] = line
      /\ \A n \in 1 .. Len(file) : file'[n] = file[n]
      /\ DOMAIN file = 1 .. Len(file) /\ DOMAIN file' = 1 .. Len(file) + 1
  BY AppendProperties, LenProperties DEF EtcInv
<1>2. etcPc' = "read" => seg' = SegIn(file', Len(file'))
  BY <1>1, SegOfMore
<1>3. ASSUME NEW s \in Segs, NEW k \in Items, ClearIn(file', s, k)
      PROVE  m_EtcInfo'[Key(s, k)] = MeantIn(file', s, k)
  <2>1. /\ \A n \in 1 .. Len(file) : SegIn(file', n) = SegIn(file, n)
        /\ line.kind \in {"item", "bare"} =>
             SegIn(file', Len(file) + 1) = SegIn(file, Len(file))
    BY <1>1, SegOfMore
  <2>2. ClearIn(file, s, k)
    BY <1>1, <1>3, <2>1 DEF ClearIn
  <2>3. Touches(line, SegIn(file, Len(file)), s, k) => Own(line, SegIn(file, Len(file)), s, k)
    BY <1>1, <1>3, <2>1 DEF ClearIn, Touches
  <2>4. m_EtcInfo[Key(s, k)] = MeantIn(file, s, k)
    BY <2>2 DEF EtcInv
  <2>. QED  BY <1>1, <2>3, <2>4, MeantOfMore DEF Own
<1>. QED  BY <1>1, <1>2, <1>3 DEF EtcInv

\* What the kinds of lines hold.
LEMMA LineKinds ==
  ASSUME NEW line \in Lines
  PROVE  /\ line.value \in Values \cup {Blank}
         /\ line.kind = "seg" => line.name \in Segs \cup {Blank}
         /\ line.kind \in {"item", "novalue", "bare"} => line.name \in Items
         /\ line.kind = "badseg" => line.name = Blank
BY DEF Lines

\* Lines that set no item.
LEMMA QuietLineStep ==
  ASSUME EtcInv, NEW line \in Lines,
         Skip(line) \/ SegLine(line) \/ BadSegLine(line) \/ LineOutside(line)
  PROVE  EtcInv'
<1>1. /\ file' = Append(file, line) /\ etcPc = "read" /\ seg = SegIn(file, Len(file))
      /\ UNCHANGED <<m_EtcInfo, value>> /\ etcPc' \in {"read", "spin"}
  BY DEF EtcInv, GetLine, Skip, SegLine, BadSegLine, LineOutside
<1>2. seg' \in Segs \cup {Blank}
  BY LineKinds DEF EtcInv, GetLine, Skip, SegLine, BadSegLine, LineOutside
<1>3. etcPc' = "read" =>
        seg' = IF line.kind \in {"seg", "badseg"} THEN line.name ELSE SegIn(file, Len(file))
  BY <1>1 DEF GetLine, Skip, SegLine, BadSegLine, LineOutside
<1>4. line.kind = "item" => SegIn(file, Len(file)) \notin Segs
  BY <1>1, EtcAssumption DEF EtcAssumption, GetLine, Skip, SegLine, BadSegLine, LineOutside, Blank
<1>5. \A s \in Segs, k \in Items : m_EtcInfo'[Key(s, k)] =
        IF Own(line, SegIn(file, Len(file)), s, k) THEN line.value ELSE m_EtcInfo[Key(s, k)]
  BY <1>1, <1>4 DEF Own
<1>. QED  BY <1>1, <1>2, <1>3, <1>5, LineStep DEF EtcInv

\* Lines inside a segment.
LEMMA ItemLineStep ==
  ASSUME EtcInv, NEW line \in Lines, ItemLine(line)
  PROVE  EtcInv'
<1>1. /\ file' = Append(file, line) /\ etcPc = "read" /\ etcPc' = "read"
      /\ seg = SegIn(file, Len(file)) /\ seg' = seg /\ seg \in Segs
      /\ line.kind \in {"item", "novalue", "bare", "noname"}
  BY DEF EtcInv, GetLine, ItemLine
<1>2. value' = ValueOf(line) /\ value' \in Values \cup {Blank}
  BY LineKinds DEF EtcInv, ItemLine, ValueOf
<1>3. CASE IsItem(line) /\ m_EtcInfo' = Store(line)
  <2>1. line.name \in Items
    BY <1>3, LineKinds DEF IsItem
  <2>2. m_EtcInfo' \in [Keys -> Values \cup {Blank}]
    BY <1>1, <1>2, <1>3, <2>1 DEF EtcInv, Store
  <2>3. ASSUME NEW s \in Segs, NEW k \in Items, Touches(line, seg, s, k) => Own(line, seg, s, k)
        PROVE  m_EtcInfo'[Key(s, k)] =
                 IF Own(line, seg, s, k) THEN line.value ELSE m_EtcInfo[Key(s, k)]
    <3>1. Key(s, k) \in Keys /\ Key(seg, line.name) \in Keys
      BY <1>1, <2>1 DEF Keys
    <3>2. m_EtcInfo'[Key(s, k)] =
            IF Key(seg, line.name) = Key(s, k) THEN ValueOf(line) ELSE m_EtcInfo[Key(s, k)]
      BY <1>3, <3>1 DEF EtcInv, Store
    <3>3. line.kind \in {"item", "bare"} /\ (line.kind = "item" => ValueOf(line) = line.value)
      BY <1>3 DEF IsItem, ValueOf
    <3>4. CASE Key(seg, line.name) = Key(s, k)
      BY <1>1, <2>3, <3>2, <3>3, <3>4 DEF Touches, Own
    <3>5. CASE Key(seg, line.name) # Key(s, k)
      BY <3>2, <3>5 DEF Own
    <3>. QED  BY <3>4, <3>5
  <2>. QED  BY <1>1, <1>2, <2>2, <2>3, LineStep
<1>4. CASE ~IsItem(line) /\ UNCHANGED m_EtcInfo
  <2>1. \A s \in Segs, k \in Items : ~Own(line, seg, s, k)
    BY <1>4 DEF IsItem, Own
  <2>. QED  BY <1>1, <1>2, <1>4, <2>1, LineStep DEF EtcInv
<1>. QED  BY <1>3, <1>4 DEF ItemLine

\* Every step keeps the invariant.
LEMMA EtcInductive == EtcInv /\ [EtcNext]_etcVars => EtcInv'
<1>. SUFFICES ASSUME EtcInv, [EtcNext]_etcVars PROVE EtcInv'
  OBVIOUS
<1>1. CASE UNCHANGED etcVars
  BY <1>1 DEF EtcInv
<1>2. CASE EndOfFile
  BY <1>2 DEF EtcInv, EndOfFile
<1>3. CASE Spin
  BY <1>1, <1>3 DEF Spin
<1>. QED  BY <1>1, <1>2, <1>3, InitEtcStep, QuietLineStep, ItemLineStep DEF EtcNext, AnalyseText

\* The strengthened invariant of the reader holds of every behaviour.
THEOREM EtcInvariance == EtcSpec => []EtcInv
BY EtcInitInv, EtcInductive, PTL DEF EtcSpec

\* MyEtc (myetc.cpp) gives an item the value the file says it has, and the
\* caller's default if it says none, for files of any length, when no line
\* without its = and no other item makes the item's key.
THEOREM ReadsWhatIsMeant == EtcSpec => []EtcRight
<1>1. ASSUME EtcInv, NEW s \in Segs, NEW k \in Items, Clear(s, k)
      PROVE  m_EtcInfo[Key(s, k)] = Meant(s, k)
  <2>1. \A n \in DOMAIN file : SegOf(n) = SegIn(file, n)
    BY DEF SegOf, SegIn
  <2>2. ClearIn(file, s, k)
    BY <1>1, <2>1 DEF Clear, ClearIn, Touches, Own
  <2>3. Meant(s, k) = MeantIn(file, s, k)
    BY DEF Meant, MeantIn, SegOf, SegIn
  <2>. QED  BY <1>1, <2>2, <2>3 DEF EtcInv
<1>2. ASSUME EtcInv
      PROVE  EtcRight
  <2>1. \A s \in Segs, k \in Items : Clear(s, k) => m_EtcInfo[Key(s, k)] = Meant(s, k)
    BY <1>1, <1>2
  <2>2. ASSUME NEW s \in Segs, NEW k \in Items, m_EtcInfo[Key(s, k)] = Meant(s, k)
        PROVE  /\ \A def \in Values :
                    GetValue2(s, k, def) = IF Meant(s, k) = Blank THEN def ELSE Meant(s, k)
               /\ \A def \in BOOLEAN : GetValue2Bool(s, k, def) <=> Meant(s, k) # "false"
    <3>1. GetValue(s, k).buf = Meant(s, k)
      BY <2>2 DEF GetValue
    <3>2. GetValue(s, k).rs = 0 <=> Meant(s, k) # Blank
      BY <2>2 DEF GetValue
    <3>. QED  BY <3>1, <3>2 DEF GetValue2, GetValue2Bool
  <2>. QED  BY <2>1, <2>2 DEF EtcRight
<1>. QED  BY EtcInvariance, <1>2, PTL

----------------------------------------------------------------------------
\* Counting goes on behind a block of equal elements.
LEMMA CountMore ==
  ASSUME NEW A, NEW s \in Seq(A), NEW t, NEW k, NEW y, Of(t, A, k), AllAre(t, k, y)
  PROVE  \A x : /\ Count(s, x) \in Nat
                /\ Count(s \o t, x) = Count(s, x) + (IF x = y THEN k ELSE 0)
<1>. TAKE x
<1>7. t \in Seq(A) /\ k \in Nat /\ Len(t) = k /\ \A p \in 1 .. Len(t) : t[p] = y
  BY DEF Of, AllAre
<1>. DEFINE In(u) == {p \in DOMAIN u : u[p] = x}
            More == Len(s) + 1 .. Len(s) + Len(t)
<1>1. /\ Len(s) \in Nat /\ Len(t) \in Nat /\ DOMAIN s = 1 .. Len(s)
      /\ s \o t \in Seq(A) /\ DOMAIN (s \o t) = 1 .. Len(s) + Len(t)
      /\ \A p \in 1 .. Len(s) : (s \o t)[p] = s[p]
      /\ \A p \in More : (s \o t)[p] = y
  <2>1. Len(s) \in Nat /\ Len(t) \in Nat
    BY <1>7
  <2>2. /\ s \o t \in Seq(A) /\ Len(s \o t) = Len(s) + Len(t)
        /\ \A i \in 1 .. Len(s) + Len(t) :
             (s \o t)[i] = IF i <= Len(s) THEN s[i] ELSE t[i - Len(s)]
    BY <1>7, ConcatProperties
  <2>. QED  BY <1>7, <2>1, <2>2, LenProperties
<1>2. IsFiniteSet(In(s)) /\ Cardinality(In(s)) \in Nat /\ In(s) \subseteq 1 .. Len(s)
  <2>1. IsFiniteSet(1 .. Len(s)) /\ In(s) \in SUBSET (1 .. Len(s))
    BY <1>1, FS_Interval
  <2>. QED  BY <2>1, FS_Subset, FS_CardinalityType
<1>3. IsFiniteSet(More) /\ Cardinality(More) = Len(t)
  <2>1. Len(s) + 1 \in Int /\ Len(s) + Len(t) \in Int
    BY <1>1
  <2>2. /\ IsFiniteSet(More)
        /\ Cardinality(More) = IF Len(s) + 1 > Len(s) + Len(t) THEN 0
                               ELSE (Len(s) + Len(t)) - (Len(s) + 1) + 1
    BY <2>1, FS_Interval
  <2>. QED  BY <1>1, <2>2
<1>6. \A u : Count(u, x) = Cardinality(In(u))
  BY DEF Count
<1>4. CASE x = y
  <2>1. In(s \o t) = In(s) \cup More /\ In(s) \cap More = {}
    BY <1>1, <1>4
  <2>2. Cardinality(In(s) \cup More) =
          Cardinality(In(s)) + Cardinality(More) - Cardinality(In(s) \cap More)
    BY <1>2, <1>3, FS_Union
  <2>3. Cardinality(In(s) \cap More) = 0
    BY <2>1, FS_EmptySet
  <2>. HIDE DEF In, More
  <2>4. Cardinality(In(s \o t)) = Cardinality(In(s)) + Len(t)
    BY <1>1, <1>2, <1>3, <2>1, <2>2, <2>3
  <2>. QED  BY <1>2, <1>4, <1>6, <1>7, <2>4
<1>5. CASE x # y
  <2>1. In(s \o t) = In(s)
    BY <1>1, <1>5
  <2>. HIDE DEF In
  <2>. QED  BY <1>2, <1>5, <1>6, <2>1
<1>. QED  BY <1>4, <1>5

\* Nothing has no bytes.
LEMMA NoBytes == \A dst \in Nat : Bytes(<<>>, dst) = 0
<1>1. \A x : Count(<<>>, x) = 0
  BY FS_EmptySet DEF Count
<1>. QED  BY <1>1 DEF Bytes

\* The next occurrence of strSrc is the first.
LEMMA NextSrcIsFirst ==
  ASSUME left \in Seq({"c", "S"}), SrcAt # {}
  PROVE  /\ NextSrc \in 1 .. Len(left) /\ left[NextSrc] = "S"
         /\ \A p \in 1 .. NextSrc - 1 : left[p] = "c"
<1>1. SrcAt \subseteq 1 .. Len(left) /\ Len(left) \in Nat
  BY LenProperties DEF SrcAt
<1>2. \E p \in SrcAt : \A q \in SrcAt : p <= q
  <2>1. SrcAt \subseteq Int /\ 1 \in Int /\ Len(left) \in Int
    BY <1>1
  <2>. QED  BY <1>1, <2>1, LeastOf
<1>3. NextSrc \in SrcAt /\ \A q \in SrcAt : NextSrc <= q
  BY <1>2 DEF NextSrc
<1>4. PICK n \in SrcAt : n = NextSrc
  BY <1>3
<1>5. ASSUME NEW p \in 1 .. n - 1
      PROVE  left[p] = "c"
  <2>1. p \in 1 .. Len(left) /\ p < n
    BY <1>1
  <2>2. left[p] \in {"c", "S"} /\ DOMAIN left = 1 .. Len(left)
    BY <2>1, ElementOfSeq, LenProperties
  <2>3. p \notin SrcAt
    BY <1>1, <1>3, <1>4, <2>1
  <2>. QED  BY <2>1, <2>2, <2>3 DEF SrcAt
<1>. QED  BY <1>1, <1>4, <1>5 DEF SrcAt

\* What \o returns is the concatenation.
LEMMA Joined ==
  ASSUME NEW A, NEW s, NEW t, NEW a, NEW b, Of(s, A, a), Of(t, A, b)
  PROVE  IsJoin(s \o t, A, s, a, t, b)
<1>. s \in Seq(A) /\ t \in Seq(A) /\ a \in Nat /\ b \in Nat /\ Len(s) = a /\ Len(t) = b
  BY DEF Of
<1>1. /\ s \o t \in Seq(A) /\ Len(s \o t) = Len(s) + Len(t)
      /\ \A i \in 1 .. Len(s) + Len(t) : (s \o t)[i] = IF i <= Len(s) THEN s[i] ELSE t[i - Len(s)]
  BY ConcatProperties
<1>2. \A i \in 1 .. a + b : (s \o t)[i] = IF i <= a THEN s[i] ELSE t[i - a]
  BY <1>1, Zenon
<1>3. ASSUME NEW p \in 1 .. a
      PROVE  (s \o t)[p] = s[p]
  <2>1. p \in 1 .. a + b /\ p <= a
    OBVIOUS
  <2>. QED  BY <1>2, <2>1, Zenon
<1>4. ASSUME NEW p \in 1 .. b
      PROVE  (s \o t)[a + p] = t[p]
  <2>1. a + p \in 1 .. a + b /\ ~(a + p <= a) /\ (a + p) - a = p
    OBVIOUS
  <2>2. (s \o t)[a + p] = t[(a + p) - a]
    BY <1>2, <2>1, Zenon
  <2>. QED  BY <2>1, <2>2, Zenon
<1>5. Of(s \o t, A, a + b)
  <2>1. a + b \in Nat
    OBVIOUS
  <2>. QED  BY <1>1, <2>1, Zenon DEF Of
<1>. QED  BY <1>3, <1>4, <1>5, Zenon DEF IsJoin

\* Copying the first k elements of the rest, whatever the loop puts for them.
LEMMA CopiedOn ==
  ASSUME NEW text, NEW rest, NEW out, Copied(text, rest, out),
         NEW t, NEW k, NEW r, NEW m, Follows(rest, t, k, r, m)
  PROVE  Copied(text, r, out \o t)
<1>. /\ Of(t, {"c", "D"}, k) /\ Of(r, {"c", "S"}, m) /\ Len(rest) = k + m
     /\ \A p \in 1 .. k : t[p] = Out(rest[p])
     /\ \A p \in 1 .. m : r[p] = rest[k + p]
  BY Zenon DEF Follows
<1>. t \in Seq({"c", "D"}) /\ r \in Seq({"c", "S"}) /\ k \in Nat /\ m \in Nat
     /\ Len(r) = m
  BY Zenon DEF Of
<1>1. PICK a \in Nat : Len(out) = a
  BY DEF Copied
<1>2. /\ text \in Seq({"c", "S"}) /\ out \in Seq({"c", "D"})
      /\ a + (k + m) = Len(text)
      /\ \A p \in 1 .. a : out[p] = Out(text[p])
      /\ \A p \in 1 .. k + m : rest[p] = text[a + p]
  BY <1>1, Zenon DEF Copied
<1>3. /\ out \o t \in Seq({"c", "D"}) /\ Len(out \o t) = a + k
      /\ \A p \in 1 .. a : (out \o t)[p] = out[p]
      /\ \A p \in 1 .. k : (out \o t)[a + p] = t[p]
  <2>1. Of(out, {"c", "D"}, a)
    BY <1>1, <1>2, Zenon DEF Of
  <2>2. IsJoin(out \o t, {"c", "D"}, out, a, t, k)
    BY <2>1, Joined, Zenon
  <2>. QED  BY <2>2, Zenon DEF IsJoin, Of
<1>4. ASSUME NEW p \in 1 .. a + k
      PROVE  (out \o t)[p] = Out(text[p])
  <2>1. CASE p \in 1 .. a
    BY <1>2, <1>3, <2>1, Zenon
  <2>2. ASSUME NEW q \in 1 .. k, p = a + q
        PROVE  (out \o t)[p] = Out(text[p])
    <3>1. q \in 1 .. k + m
      OBVIOUS
    <3>. QED  BY <1>2, <1>3, <2>2, <3>1, Zenon
  <2>3. p \in 1 .. a \/ (p - a \in 1 .. k /\ p = a + (p - a))
    OBVIOUS
  <2>. QED  BY <2>1, <2>2, <2>3, Zenon
<1>5. ASSUME NEW p \in 1 .. m
      PROVE  r[p] = text[(a + k) + p]
  <2>1. k + p \in 1 .. k + m /\ a + (k + p) = (a + k) + p
    OBVIOUS
  <2>2. rest[k + p] = text[a + (k + p)]
    BY <1>2, <2>1, Zenon
  <2>. QED  BY <2>1, <2>2, Zenon
<1>6. (a + k) + m = Len(text)
  <2>1. a + (k + m) = (a + k) + m
    OBVIOUS
  <2>. QED  BY <1>2, <2>1, Zenon
<1>. QED  BY <1>2, <1>3, <1>4, <1>5, <1>6, Zenon DEF Copied

\* What a block of equal elements adds to the bytes.
LEMMA BytesOn ==
  ASSUME NEW out \in Seq({"c", "D"}), NEW dst \in Nat, NEW t, NEW k, Of(t, {"c", "D"}, k)
  PROVE  /\ Bytes(out, dst) \in Nat
         /\ AllAre(t, k, "c") => Bytes(out \o t, dst) = Bytes(out, dst) + k
         /\ AllAre(t, k, "D") => Bytes(out \o t, dst) = Bytes(out, dst) + k * dst
<1>. k \in Nat
  BY DEF Of
<1>1. ASSUME NEW y, AllAre(t, k, y)
      PROVE  \A x : /\ Count(out, x) \in Nat
                    /\ Count(out \o t, x) = Count(out, x) + (IF x = y THEN k ELSE 0)
  BY <1>1, CountMore
<1>2. PICK c \in Nat, d \in Nat : Count(out, "c") = c /\ Count(out, "D") = d
  <2>1. Of(<<>>, {"c", "D"}, 0) /\ AllAre(<<>>, 0, "c")
    BY DEF Of, AllAre
  <2>2. \A x : Count(out, x) \in Nat
    BY <2>1, CountMore, Zenon
  <2>. QED  BY <2>2
<1>3. Bytes(out, dst) = c + dst * d
  BY <1>2, Zenon DEF Bytes
<1>4. ASSUME AllAre(t, k, "c")
      PROVE  Bytes(out \o t, dst) = (c + k) + dst * d
  <2>1. Count(out \o t, "c") = c + k /\ Count(out \o t, "D") = d + 0
    <3>1. "D" # "c"
      OBVIOUS
    <3>. QED  BY <1>1, <1>2, <1>4, <3>1, Zenon
  <2>2. d + 0 = d
    OBVIOUS
  <2>. QED  BY <2>1, <2>2, Zenon DEF Bytes
<1>5. ASSUME AllAre(t, k, "D")
      PROVE  Bytes(out \o t, dst) = c + dst * (d + k)
  <2>1. Count(out \o t, "c") = c + 0 /\ Count(out \o t, "D") = d + k
    <3>1. "D" # "c"
      OBVIOUS
    <3>. QED  BY <1>1, <1>2, <1>5, <3>1, Zenon
  <2>2. c + 0 = c
    OBVIOUS
  <2>. QED  BY <2>1, <2>2, Zenon DEF Bytes
<1>6. dst * d \in Nat /\ dst * (d + k) = dst * d + k * dst
  OBVIOUS
<1>7. /\ c + dst * d \in Nat /\ (c + k) + dst * d = (c + dst * d) + k
      /\ c + dst * (d + k) = (c + dst * d) + k * dst
  BY <1>6
<1>. QED  BY <1>3, <1>4, <1>5, <1>7, Zenon

\* The next strSrc is at n; what is there when strDst has been put for it.
IsNextSrc(rest, n) ==
  n \in 1 .. Len(rest) /\ rest[n] = "S" /\ \A p \in 1 .. n - 1 : rest[p] = "c"

OneReplaced(text, rest, out, dst, n) ==
  /\ Copied(text, SubSeq(rest, n + 1, Len(rest)), out \o SubSeq(rest, 1, n - 1) \o <<"D">>)
  /\ Bytes(out \o SubSeq(rest, 1, n - 1) \o <<"D">>, dst) = Bytes(out, dst) + (n - 1) + dst

\* Copying up to an occurrence of strSrc, and strDst for it.
LEMMA CopiedMore ==
  ASSUME NEW text, NEW rest, NEW out, Copied(text, rest, out), NEW dst \in Nat,
         NEW n, IsNextSrc(rest, n)
  PROVE  OneReplaced(text, rest, out, dst, n)
<1>0. n \in 1 .. Len(rest) /\ rest[n] = "S" /\ \A p \in 1 .. n - 1 : rest[p] = "c"
  BY DEF IsNextSrc
<1>. USE <1>0
<1>. DEFINE t == SubSeq(rest, 1, n - 1)
            d == <<"D">>
            s == SubSeq(rest, n, Len(rest))
            r == SubSeq(rest, n + 1, Len(rest))
            u == out \o t
<1>1. /\ text \in Seq({"c", "S"}) /\ rest \in Seq({"c", "S"}) /\ out \in Seq({"c", "D"})
      /\ Len(rest) \in Nat
  BY DEF Copied
<1>2. PICK j \in Nat, m \in Nat : j = n - 1 /\ m = Len(rest) - n
  <2>1. n - 1 \in Nat /\ Len(rest) - n \in Nat
    BY <1>1
  <2>. QED  BY <2>1
<1>3. n = j + 1 /\ Len(rest) = j + (m + 1) /\ m + 1 \in Nat
  BY <1>1, <1>2
<1>4. \A i \in 1 .. Len(rest) : rest[i] \in {"c", "S"}
  BY <1>1, ElementOfSeq
<1>5. t \in Seq({"c", "D"}) /\ Len(t) = j /\ \A p \in 1 .. j : t[p] = "c" /\ rest[p] = "c"
  <2>1. \A i \in 1 .. n - 1 : rest[i] \in {"c", "D"}
    OBVIOUS
  <2>2. /\ t \in Seq({"c", "D"}) /\ Len(t) = IF 1 <= n - 1 THEN n - 1 - 1 + 1 ELSE 0
        /\ \A i \in 1 .. n - 1 - 1 + 1 : t[i] = rest[1 + i - 1]
    <3>1. 1 \in Int /\ n - 1 \in Int
      OBVIOUS
    <3>. QED  BY <2>1, <3>1, SubSeqProperties
  <2>. HIDE DEF t
  <2>3. Len(t) = j
    BY <1>2, <1>3, <2>2
  <2>4. ASSUME NEW p \in 1 .. j
        PROVE  t[p] = "c" /\ rest[p] = "c"
    <3>1. p \in 1 .. n - 1 /\ p \in 1 .. n - 1 - 1 + 1 /\ 1 + p - 1 = p
      BY <1>2
    <3>2. t[p] = rest[p]
      BY <2>2, <3>1, Zenon
    <3>. QED  BY <3>1, <3>2
  <2>. QED  BY <2>2, <2>3, <2>4, Zenon
<1>6. s \in Seq({"c", "S"}) /\ Len(s) = m + 1 /\ \A p \in 1 .. m + 1 : s[p] = rest[j + p]
  <2>1. \A i \in n .. Len(rest) : rest[i] \in {"c", "S"}
    BY <1>4
  <2>2. /\ s \in Seq({"c", "S"}) /\ Len(s) = IF n <= Len(rest) THEN Len(rest) - n + 1 ELSE 0
        /\ \A i \in 1 .. Len(rest) - n + 1 : s[i] = rest[n + i - 1]
    <3>1. n \in Int /\ Len(rest) \in Int
      BY <1>1
    <3>. QED  BY <2>1, <3>1, SubSeqProperties
  <2>. HIDE DEF s
  <2>3. Len(s) = m + 1
    BY <1>1, <1>2, <2>2
  <2>4. ASSUME NEW p \in 1 .. m + 1
        PROVE  s[p] = rest[j + p]
    <3>1. p \in 1 .. Len(rest) - n + 1 /\ n + p - 1 = j + p
      BY <1>1, <1>2
    <3>. QED  BY <2>2, <3>1, Zenon
  <2>. QED  BY <2>2, <2>3, <2>4, Zenon
<1>7. r \in Seq({"c", "S"}) /\ Len(r) = m /\ \A p \in 1 .. m : r[p] = s[1 + p]
  <2>1. \A i \in n + 1 .. Len(rest) : rest[i] \in {"c", "S"}
    BY <1>4
  <2>2. /\ r \in Seq({"c", "S"})
        /\ Len(r) = IF n + 1 <= Len(rest) THEN Len(rest) - (n + 1) + 1 ELSE 0
        /\ \A i \in 1 .. Len(rest) - (n + 1) + 1 : r[i] = rest[n + 1 + i - 1]
    <3>1. n + 1 \in Int /\ Len(rest) \in Int
      BY <1>1
    <3>. QED  BY <2>1, <3>1, SubSeqProperties
  <2>. HIDE DEF r, s
  <2>3. Len(r) = m
    BY <1>1, <1>2, <2>2
  <2>4. ASSUME NEW p \in 1 .. m
        PROVE  r[p] = s[1 + p]
    <3>1. /\ p \in 1 .. Len(rest) - (n + 1) + 1 /\ 1 + p \in 1 .. m + 1
          /\ n + 1 + p - 1 = j + (1 + p)
      BY <1>1, <1>2
    <3>2. r[p] = rest[n + 1 + p - 1]
      BY <2>2, <3>1, Zenon
    <3>3. s[1 + p] = rest[j + (1 + p)]
      BY <1>6, <3>1, Zenon
    <3>. QED  BY <3>1, <3>2, <3>3, Zenon
  <2>. QED  BY <2>2, <2>3, <2>4, Zenon
<1>8. d \in Seq({"c", "D"}) /\ Len(d) = 1 /\ d[1] = "D" /\ \A p \in 1 .. 1 : d[p] = "D"
  OBVIOUS
<1>. HIDE DEF t, d, s, r
<1>9. Copied(text, s, u)
  <2>1. \A p \in 1 .. j : t[p] = Out(rest[p])
    <3>1. Out("c") = "c"
      BY DEF Out
    <3>. QED  BY <1>5, <3>1, Zenon
  <2>2. Follows(rest, t, j, s, m + 1)
    BY <1>2, <1>3, <1>5, <1>6, <2>1, Zenon DEF Follows, Of
  <2>. QED  BY <2>2, CopiedOn, Zenon
<1>10. Copied(text, r, u \o d)
  <2>1. s[1] = "S" /\ \A p \in 1 .. 1 : d[p] = Out(s[p])
    <3>1. 1 \in 1 .. m + 1 /\ j + 1 = n
      BY <1>3
    <3>2. s[1] = "S"
      BY <1>6, <3>1, Zenon
    <3>3. Out("S") = "D" /\ \A p \in 1 .. 1 : p = 1
      BY DEF Out
    <3>. QED  BY <1>8, <3>2, <3>3, Zenon
  <2>2. Len(s) = 1 + m /\ 1 \in Nat
    BY <1>6
  <2>3. Follows(s, d, 1, r, m)
    BY <1>2, <1>7, <1>8, <2>1, <2>2, Zenon DEF Follows, Of
  <2>. HIDE DEF u
  <2>. QED  BY <1>9, <2>3, CopiedOn, Zenon
<1>11. Bytes(u, dst) = Bytes(out, dst) + j /\ Bytes(out, dst) \in Nat
  <2>1. out \in Seq({"c", "D"}) /\ Of(t, {"c", "D"}, j) /\ AllAre(t, j, "c")
    BY <1>1, <1>2, <1>5, Zenon DEF Of, AllAre
  <2>2. Bytes(out, dst) \in Nat
    BY <2>1, BytesOn
  <2>3. Bytes(u, dst) = Bytes(out, dst) + j
    BY <2>1, BytesOn
  <2>. QED  BY <2>2, <2>3, Zenon
<1>12. Bytes(u \o d, dst) = Bytes(u, dst) + 1 * dst
  <2>1. u \in Seq({"c", "D"})
    BY <1>9, Zenon DEF Copied
  <2>2. Of(d, {"c", "D"}, 1) /\ AllAre(d, 1, "D")
    BY <1>8 DEF Of, AllAre
  <2>. HIDE DEF u
  <2>. QED  BY <2>1, <2>2, BytesOn
<1>. HIDE DEF u
<1>13. Bytes(u \o d, dst) = Bytes(out, dst) + (n - 1) + dst
  BY <1>2, <1>11, <1>12
<1>. QED  BY <1>10, <1>13, Zenon DEF u, t, d, r, OneReplaced

\* Copying what no strSrc is left in.
LEMMA CopiedAll ==
  ASSUME NEW text, NEW rest, NEW out, Copied(text, rest, out), NEW dst \in Nat,
         \A p \in 1 .. Len(rest) : rest[p] = "c"
  PROVE  /\ Copied(text, <<>>, out \o rest)
         /\ Bytes(out \o rest, dst) = Bytes(out, dst) + Len(rest)
<1>1. rest \in Seq({"c", "S"}) /\ out \in Seq({"c", "D"}) /\ Len(rest) \in Nat
  BY DEF Copied
<1>2. rest \in Seq({"c", "D"})
  <2>1. rest = [p \in 1 .. Len(rest) |-> rest[p]]
    BY <1>1
  <2>. QED  BY <1>1, <2>1
<1>3. /\ <<>> \in Seq({"c", "S"}) /\ Len(<<>>) = 0 /\ 0 \in Nat
      /\ \A p \in 1 .. 0 : <<>>[p] = rest[Len(rest) + p]
      /\ Len(rest) = Len(rest) + 0
  BY <1>1
<1>4. \A p \in 1 .. Len(rest) : rest[p] = Out(rest[p])
  <2>1. Out("c") = "c"
    BY DEF Out
  <2>. QED  BY <2>1, Zenon
<1>5. Copied(text, <<>>, out \o rest)
  <2>1. Follows(rest, rest, Len(rest), <<>>, 0)
    BY <1>1, <1>2, <1>3, <1>4, Zenon DEF Follows, Of
  <2>. QED  BY <2>1, CopiedOn, Zenon
<1>6. Bytes(out \o rest, dst) = Bytes(out, dst) + Len(rest)
  <2>1. Of(rest, {"c", "D"}, Len(rest)) /\ AllAre(rest, Len(rest), "c")
    BY <1>1, <1>2, Zenon DEF Of, AllAre
  <2>. QED  BY <1>1, <2>1, BytesOn
<1>. QED  BY <1>5, <1>6, Zenon

\* The initial state satisfies the invariant.
LEMMA ReplaceInitInv == ReplaceInit => ReplaceInv
<1>. SUFFICES ASSUME ReplaceInit PROVE ReplaceInv
  OBVIOUS
<1>1. Copied(strText, <<>>, strBuf) /\ nPos = Bytes(strBuf, nDstLen)
  BY NoBytes DEF ReplaceInit, Copied
<1>2. /\ nSrcLen \in Nat /\ nDstLen \in Nat /\ nPos \in Nat /\ nReplaceLen \in Nat
      /\ nPos < nReplaceLen /\ replacing = FALSE /\ replaced = TRUE
  BY ReplaceAssumption DEF ReplaceAssumption, ReplaceInit
<1>. QED  BY <1>1, <1>2 DEF ReplaceInv

\* A call of strreplace.
LEMMA ReplaceCallStep ==
  ASSUME ReplaceInv, strreplace
  PROVE  ReplaceInv'
<1>1. PICK n \in Nat : strText' \in [1 .. n -> {"c", "S"}]
  BY ReplaceAssumption DEF ReplaceAssumption, strreplace
<1>2. PICK text \in Seq({"c", "S"}) : text = strText'
  BY <1>1
<1>3. PICK src \in Nat, dst \in Nat : src = nSrcLen' /\ dst = nDstLen'
  BY ReplaceAssumption DEF ReplaceAssumption, strreplace
<1>4. PICK len \in Nat : len = nReplaceLen' /\ 0 < len
  <2>. DEFINE guess == Count(text, "c") + src * Count(text, "S")
  <2>1. Count(text, "c") \in Nat /\ Count(text, "S") \in Nat
    <3>1. Of(<<>>, {"c", "S"}, 0) /\ AllAre(<<>>, 0, "c")
      BY DEF Of, AllAre
    <3>. QED  BY <3>1, CountMore, Zenon
  <2>2. guess \in Nat
    BY <2>1
  <2>3. nReplaceLen' = IF ReplaceDefCnt < guess * 2 THEN guess * 2 ELSE ReplaceDefCnt
    BY <1>2, <1>3 DEF strreplace
  <2>. HIDE DEF guess
  <2>. QED  BY <2>2, <2>3, ReplaceAssumption DEF ReplaceAssumption
<1>5. /\ left' = text /\ strBuf' = <<>> /\ nPos' = 0 /\ replacing' \in BOOLEAN
      /\ replaced' = FALSE
  BY <1>2 DEF strreplace
<1>6. Copied(text, text, <<>>)
  BY DEF Copied
<1>. QED  BY <1>2, <1>3, <1>4, <1>5, <1>6, NoBytes DEF ReplaceInv

\* One turn of the loop.
LEMMA NextSrcStep ==
  ASSUME ReplaceInv, ReplaceNextSrc
  PROVE  ReplaceInv'
<1>1. /\ Copied(strText, left, strBuf) /\ nPos = Bytes(strBuf, nDstLen) /\ SrcAt # {}
      /\ nDstLen \in Nat /\ nPos \in Nat /\ nReplaceLen \in Nat /\ nPos < nReplaceLen
      /\ replacing /\ replaced = FALSE
  BY DEF ReplaceInv, ReplaceNextSrc
<1>2. PICK n \in 1 .. Len(left) : /\ n = NextSrc /\ left[n] = "S"
                                  /\ \A p \in 1 .. n - 1 : left[p] = "c"
  BY <1>1, NextSrcIsFirst DEF Copied
<1>3. /\ nReplaceLen' = Grown(n - 1)
      /\ strBuf' = strBuf \o SubSeq(left, 1, n - 1) \o <<"D">>
      /\ nPos' = nPos + (n - 1) + nDstLen
      /\ left' = SubSeq(left, n + 1, Len(left))
      /\ UNCHANGED <<strText, nSrcLen, nDstLen, replacing, replaced>>
  BY <1>2 DEF ReplaceNextSrc
<1>4. PICK pos \in Nat, len \in Nat : pos = nPos' /\ len = nReplaceLen' /\ pos < len
  <2>1. /\ Grown(n - 1) \in Nat /\ nPos + (n - 1) + nDstLen \in Nat
        /\ nPos + (n - 1) + nDstLen < Grown(n - 1)
    BY <1>1 DEF Grown
  <2>. QED  BY <1>3, <2>1
<1>5. Copied(strText, left', strBuf') /\ Bytes(strBuf', nDstLen) = nPos'
  <2>1. IsNextSrc(left, n)
    BY <1>2, Zenon DEF IsNextSrc
  <2>2. OneReplaced(strText, left, strBuf, nDstLen, n)
    BY <1>1, <2>1, CopiedMore, Zenon
  <2>. QED  BY <1>1, <1>3, <2>2, Zenon DEF OneReplaced
<1>. QED  BY <1>1, <1>3, <1>4, <1>5 DEF ReplaceInv

\* What comes behind the last strSrc, and the final zero.
LEMMA RestStep ==
  ASSUME ReplaceInv, ReplaceRest
  PROVE  ReplaceInv'
<1>1. /\ Copied(strText, left, strBuf) /\ nPos = Bytes(strBuf, nDstLen) /\ SrcAt = {}
      /\ nDstLen \in Nat /\ nPos \in Nat /\ nReplaceLen \in Nat /\ nPos < nReplaceLen
      /\ Len(left) \in Nat
  BY DEF ReplaceInv, ReplaceRest, Copied
<1>2. PICK pos \in Nat, len \in Nat : pos = nPos' /\ len = nReplaceLen' /\ pos < len
  <2>1. left = <<>> => Len(left) = 0
    OBVIOUS
  <2>. QED  BY <1>1, <2>1 DEF ReplaceRest
<1>3. ASSUME NEW p \in 1 .. Len(left)
      PROVE  left[p] = "c"
  <2>1. left[p] \in {"c", "S"} /\ p \in DOMAIN left
    BY <1>1, ElementOfSeq, LenProperties DEF Copied
  <2>. QED  BY <1>1, <2>1 DEF SrcAt
<1>4. /\ Copied(strText, <<>>, strBuf \o left)
      /\ Bytes(strBuf \o left, nDstLen) = nPos + Len(left)
  BY <1>1, <1>3, CopiedAll
<1>. QED  BY <1>2, <1>4 DEF ReplaceInv, ReplaceRest

\* Every step keeps the invariant.
LEMMA ReplaceInductive == ReplaceInv /\ [ReplaceNext]_replaceVars => ReplaceInv'
<1>. SUFFICES ASSUME ReplaceInv, [ReplaceNext]_replaceVars PROVE ReplaceInv'
  OBVIOUS
<1>1. CASE UNCHANGED replaceVars
  BY <1>1 DEF ReplaceInv
<1>2. CASE ReplaceFails
  BY <1>2 DEF ReplaceInv, ReplaceFails
<1>. QED  BY <1>1, <1>2, ReplaceCallStep, NextSrcStep, RestStep DEF ReplaceNext

\* The strengthened invariant of strreplace holds of every behaviour.
THEOREM ReplaceInvariance == ReplaceSpec => []ReplaceInv
BY ReplaceInitInv, ReplaceInductive, PTL DEF ReplaceSpec

\* strreplace (mystr.cpp) never writes behind its buffer, the final zero
\* included, and the buffer it returns is the text with every strSrc replaced,
\* for texts and replacements of any length.
THEOREM ReplacesAll == ReplaceSpec => []ReplaceRight
<1>1. ASSUME ReplaceInv, replaced
      PROVE  strBuf = [p \in DOMAIN strText |-> IF strText[p] = "S" THEN "D" ELSE "c"]
  <2>1. Copied(strText, <<>>, strBuf)
    BY <1>1 DEF ReplaceInv
  <2>2. /\ strBuf \in Seq({"c", "D"}) /\ DOMAIN strBuf = DOMAIN strText
        /\ \A p \in DOMAIN strBuf : strBuf[p] = Out(strText[p])
    BY <2>1, LenProperties DEF Copied
  <2>. QED  BY <2>2 DEF Out
<1>2. ReplaceInv => ReplaceRight
  BY <1>1 DEF ReplaceInv, ReplaceRight, Bytes
<1>. QED  BY ReplaceInvariance, <1>2, PTL

----------------------------------------------------------------------------
\* Counting tokens: none up to 0, the more the further, one more at a token,
\* and as many where there are none in between.
LEMMA ToksFacts ==
  ASSUME NEW text
  PROVE  /\ Toks(text, 0) = 0
         /\ \A i \in Nat : Toks(text, i) \in Nat
         /\ \A i \in Nat : text[i + 1] = "T" => Toks(text, i + 1) = Toks(text, i) + 1
         /\ \A i \in Nat, j \in Nat : i <= j => Toks(text, i) <= Toks(text, j)
         /\ \A i \in Nat, j \in Nat :
              i <= j /\ (\A p \in i + 1 .. j : text[p] # "T") => Toks(text, j) = Toks(text, i)
<1>. DEFINE In(i) == {q \in 1 .. i : text[q] = "T"}
<1>1. ASSUME NEW i \in Nat
      PROVE  IsFiniteSet(In(i)) /\ Toks(text, i) = Cardinality(In(i)) /\ Toks(text, i) \in Nat
  <2>1. IsFiniteSet(1 .. i) /\ In(i) \in SUBSET (1 .. i)
    BY FS_Interval
  <2>2. IsFiniteSet(In(i))
    BY <2>1, FS_Subset
  <2>. QED  BY <2>2, FS_CardinalityType DEF Toks
<1>2. Toks(text, 0) = 0
  <2>1. In(0) = {}
    OBVIOUS
  <2>2. 0 \in Nat
    OBVIOUS
  <2>. HIDE DEF In
  <2>. QED  BY <1>1, <2>1, <2>2, FS_EmptySet
<1>3. ASSUME NEW i \in Nat, text[i + 1] = "T"
      PROVE  Toks(text, i + 1) = Toks(text, i) + 1
  <2>1. In(i + 1) = In(i) \cup {i + 1} /\ i + 1 \notin In(i) /\ i + 1 \in Nat
    BY <1>3
  <2>. HIDE DEF In
  <2>2. Cardinality(In(i) \cup {i + 1}) = Cardinality(In(i)) + 1
    BY <1>1, <2>1, FS_AddElement
  <2>. QED  BY <1>1, <2>1, <2>2, Zenon
<1>4. ASSUME NEW i \in Nat, NEW j \in Nat, i <= j
      PROVE  Toks(text, i) <= Toks(text, j)
  <2>1. In(i) \in SUBSET In(j)
    BY <1>4
  <2>. HIDE DEF In
  <2>2. Cardinality(In(i)) <= Cardinality(In(j))
    BY <1>1, <2>1, FS_Subset
  <2>. QED  BY <1>1, <2>2, Zenon
<1>5. ASSUME NEW i \in Nat, NEW j \in Nat, i <= j, \A p \in i + 1 .. j : text[p] # "T"
      PROVE  Toks(text, j) = Toks(text, i)
  <2>1. In(j) = In(i)
    BY <1>5
  <2>. HIDE DEF In
  <2>. QED  BY <1>1, <2>1, Zenon
<1>. QED  BY <1>1, <1>2, <1>3, <1>4, <1>5

\* A field ends in one place.
LEMMA EndUnique ==
  ASSUME NEW text, NEW k \in Nat \ {0}, Len(text) \in Nat,
         NEW p \in 1 .. Len(text) + 1, EndAt(text, k, p)
  PROVE  EndOf(text, k) = p
<1>1. ASSUME NEW a \in 1 .. Len(text) + 1, NEW b \in 1 .. Len(text) + 1, a < b,
             EndAt(text, k, a), EndAt(text, k, b)
      PROVE  FALSE
  <2>1. text[a] = "T" /\ Toks(text, a - 1) = k - 1 /\ Toks(text, b - 1) = k - 1
    BY <1>1 DEF EndAt
  <2>2. PICK c \in Nat, d \in Nat : c = a - 1 /\ d = b - 1 /\ a = c + 1 /\ c + 1 <= d
    <3>1. a - 1 \in Nat /\ b - 1 \in Nat /\ a = (a - 1) + 1 /\ (a - 1) + 1 <= b - 1
      BY <1>1
    <3>. QED  BY <3>1
  <2>3. Toks(text, c + 1) = Toks(text, c) + 1
    <3>1. text[c + 1] = "T"
      BY <2>1, <2>2, Zenon
    <3>. QED  BY <3>1, ToksFacts, Zenon
  <2>4. Toks(text, c + 1) <= Toks(text, d)
    <3>1. c + 1 \in Nat
      OBVIOUS
    <3>. QED  BY <2>2, <3>1, ToksFacts, Zenon
  <2>5. Toks(text, c) = k - 1 /\ Toks(text, d) = k - 1
    BY <2>1, <2>2, Zenon
  <2>6. (k - 1) + 1 <= k - 1
    BY <2>3, <2>4, <2>5, Zenon
  <2>. QED  BY <2>6
<1>2. PICK e \in 1 .. Len(text) + 1 : EndOf(text, k) = e /\ EndAt(text, k, e)
  BY Zenon DEF EndOf
<1>3. e < p \/ p < e \/ e = p
  OBVIOUS
<1>. QED  BY <1>1, <1>2, <1>3, Zenon

\* One more field: it ends n behind i, at the first token in the rest of the
\* text or behind the text.
LEMMA FieldFound ==
  ASSUME NEW text, NEW i \in Nat, NEW rest, NEW arr, SplitTo(text, i, rest, arr),
         NEW n, NextEnd(rest, n)
  PROVE  OneMore(text, i, rest, arr, n)
<1>. /\ n \in 1 .. Len(rest) + 1 /\ \A p \in 1 .. n - 1 : rest[p] = "c"
     /\ n = Len(rest) + 1 \/ rest[n] = "T"
  BY Zenon DEF NextEnd
<1>1. PICK m \in Nat, a \in Nat : Len(rest) = m /\ Len(arr) = a
  BY DEF SplitTo
<1>2. /\ Len(text) = i + m /\ arr \in Seq(Nat)
      /\ \A p \in 1 .. m : rest[p] = text[i + p]
      /\ i = EndOf(text, a) /\ Toks(text, i) = a
      /\ \A k \in 1 .. a : arr[k] = EndOf(text, k) - EndOf(text, k - 1) - 1
  BY <1>1, Zenon DEF SplitTo, Fields
<1>3. n \in 1 .. m + 1 /\ n - 1 \in Nat /\ n \in Nat
  BY <1>1
<1>4. ASSUME NEW p \in i + 1 .. i + (n - 1)
      PROVE  text[p] # "T"
  <2>1. p - i \in 1 .. m /\ p - i \in 1 .. n - 1 /\ p = i + (p - i)
    BY <1>3
  <2>2. text[p] = "c"
    BY <1>2, <2>1, Zenon
  <2>. QED  BY <2>2
<1>5. Toks(text, i + (n - 1)) = a
  <2>1. i + (n - 1) \in Nat /\ i <= i + (n - 1)
    BY <1>3
  <2>. QED  BY <1>2, <1>4, <2>1, ToksFacts, Zenon
<1>6. n <= m => text[i + n] = "T"
  <2>1. n <= m => n \in 1 .. m /\ n # m + 1
    BY <1>3
  <2>. QED  BY <1>1, <1>2, <2>1, Zenon
<1>7. EndOf(text, a + 1) = i + n
  <2>1. n = m + 1 \/ n <= m
    BY <1>3
  <2>2. /\ i + n \in 1 .. Len(text) + 1 /\ (n = m + 1 => i + n = Len(text) + 1)
        /\ (i + n) - 1 = i + (n - 1) /\ (a + 1) - 1 = a /\ a + 1 \in Nat \ {0}
        /\ Len(text) \in Nat
    <3>1. Len(text) = i + m
      BY <1>2, Zenon
    <3>2. /\ i + n \in 1 .. i + m + 1 /\ (n = m + 1 => i + n = i + m + 1)
          /\ (i + n) - 1 = i + (n - 1) /\ (a + 1) - 1 = a /\ a + 1 \in Nat \ {0}
          /\ i + m \in Nat
      BY <1>3
    <3>. QED  BY <3>1, <3>2, Zenon
  <2>3. EndAt(text, a + 1, i + n)
    BY <1>5, <1>6, <2>1, <2>2, Zenon DEF EndAt
  <2>. QED  BY <2>2, <2>3, EndUnique, Zenon
<1>8. n <= m => Toks(text, i + n) = a + 1
  <2>1. (i + (n - 1)) + 1 = i + n /\ i + (n - 1) \in Nat
    BY <1>3
  <2>2. n <= m => Toks(text, (i + (n - 1)) + 1) = Toks(text, i + (n - 1)) + 1
    <3>1. n <= m => text[(i + (n - 1)) + 1] = "T"
      BY <1>6, <2>1, Zenon
    <3>. QED  BY <2>1, <3>1, ToksFacts, Zenon
  <2>. QED  BY <1>5, <2>1, <2>2, Zenon
<1>9. PICK new : new = Append(arr, n - 1)
  OBVIOUS
<1>10. /\ new \in Seq(Nat) /\ Len(new) = a + 1 /\ new[a + 1] = n - 1
       /\ \A k \in 1 .. a : new[k] = arr[k]
  BY <1>1, <1>2, <1>3, <1>9, AppendProperties
<1>11. Fields(text, new)
  <2>1. ASSUME NEW k \in 1 .. a + 1
        PROVE  new[k] = EndOf(text, k) - EndOf(text, k - 1) - 1
    <3>1. CASE k \in 1 .. a
      BY <1>2, <1>10, <3>1, Zenon
    <3>2. CASE k = a + 1
      <4>1. (a + 1) - 1 = a /\ n - 1 = (i + n) - i - 1
        BY <1>3
      <4>2. EndOf(text, (a + 1) - 1) = i
        BY <1>2, <4>1, Zenon
      <4>. QED  BY <1>7, <1>10, <3>2, <4>1, <4>2, Zenon
    <3>. QED  BY <3>1, <3>2
  <2>. QED  BY <1>10, <2>1, Zenon DEF Fields
<1>12. i + n - 1 = i + (n - 1)
  BY <1>3
<1>. QED  BY <1>1, <1>5, <1>6, <1>7, <1>8, <1>9, <1>10, <1>11, <1>12, Zenon DEF OneMore

\* The first token in what is left.
LEMMA FirstToken ==
  ASSUME bufPt \in Seq({"c", "T"}), TokenAt # {}
  PROVE  /\ First(TokenAt) \in 1 .. Len(bufPt) /\ bufPt[First(TokenAt)] = "T"
         /\ \A p \in 1 .. First(TokenAt) - 1 : bufPt[p] = "c"
<1>1. TokenAt \subseteq 1 .. Len(bufPt) /\ Len(bufPt) \in Nat
  BY LenProperties DEF TokenAt
<1>2. \E p \in TokenAt : \A q \in TokenAt : p <= q
  <2>1. TokenAt \subseteq Int /\ 1 \in Int /\ Len(bufPt) \in Int
    BY <1>1
  <2>. QED  BY <1>1, <2>1, LeastOf
<1>3. PICK n \in TokenAt : n = First(TokenAt) /\ \A q \in TokenAt : n <= q
  BY <1>2 DEF First
<1>4. ASSUME NEW p \in 1 .. n - 1
      PROVE  bufPt[p] = "c"
  <2>1. p \in 1 .. Len(bufPt) /\ p < n
    BY <1>1
  <2>2. bufPt[p] \in {"c", "T"} /\ DOMAIN bufPt = 1 .. Len(bufPt)
    BY <2>1, ElementOfSeq, LenProperties
  <2>3. p \notin TokenAt
    BY <1>1, <1>3, <2>1
  <2>. QED  BY <2>1, <2>2, <2>3 DEF TokenAt
<1>. QED  BY <1>1, <1>3, <1>4 DEF TokenAt

\* Where no token is left, every character is another one.
LEMMA NoToken ==
  ASSUME bufPt \in Seq({"c", "T"}), TokenAt = {}
  PROVE  \A p \in 1 .. Len(bufPt) : bufPt[p] = "c"
<1>. TAKE p \in 1 .. Len(bufPt)
<1>1. bufPt[p] \in {"c", "T"} /\ p \in DOMAIN bufPt
  BY ElementOfSeq, LenProperties
<1>. QED  BY <1>1 DEF TokenAt

\* The last field: behind it there are the fields of the whole text.
LEMMA LastField ==
  ASSUME NEW text, NEW i \in Nat, NEW rest, NEW arr, SplitTo(text, i, rest, arr),
         \A p \in 1 .. Len(rest) : rest[p] = "c", text # <<>>, NEW total,
         Len(arr) + 1 > total => text[Len(text)] = "T" /\ Len(arr) = total
  PROVE  Whole(text, Append(arr, Len(rest)), total)
<1>1. PICK m \in Nat, a \in Nat : Len(rest) = m /\ Len(arr) = a
  BY DEF SplitTo
<1>2. PICK n \in Nat : n = m + 1 /\ n \in 1 .. m + 1 /\ n - 1 = m /\ n \in 1 .. n
                       /\ i + n - 1 = i + m
  <2>1. /\ m + 1 \in Nat /\ m + 1 \in 1 .. m + 1 /\ (m + 1) - 1 = m
        /\ i + (m + 1) - 1 = i + m
    OBVIOUS
  <2>. QED  BY <2>1
<1>3. /\ Append(arr, m) \in Seq(Nat)
      /\ Len(Append(arr, m)) = a + 1 /\ Fields(text, Append(arr, m))
      /\ Toks(text, i + m) = a
  <2>1. \A p \in 1 .. n - 1 : rest[p] = "c"
    BY <1>1, <1>2, Zenon
  <2>2. NextEnd(rest, n)
    BY <1>1, <1>2, <2>1, Zenon DEF NextEnd
  <2>3. /\ Append(arr, n - 1) \in Seq(Nat)
        /\ Len(Append(arr, n - 1)) = Len(arr) + 1 /\ Fields(text, Append(arr, n - 1))
        /\ Toks(text, i + n - 1) = Len(arr)
    <3>1. OneMore(text, i, rest, arr, n)
      BY <2>2, FieldFound, Zenon
    <3>. QED  BY <3>1, Zenon DEF OneMore
  <2>. QED  BY <1>1, <1>2, <2>3, Zenon
<1>4. text \in Seq({"c", "T"}) /\ Len(text) = i + m
  BY <1>1, Zenon DEF SplitTo
<1>5. a + 1 > total => text[Len(text)] = "T" /\ a + 1 = total + 1
  BY <1>1, Zenon
<1>. QED  BY <1>1, <1>3, <1>4, <1>5, Zenon DEF Whole

\* The initial state satisfies the invariant.
LEMMA SplitInitInv == SplitInit => SplitInv
<1>1. Whole(<<>>, <<>>, 0)
  <2>1. Fields(<<>>, <<>>)
    BY DEF Fields
  <2>. QED  BY <2>1 DEF Whole
<1>2. SplitInit => /\ buf = <<>> /\ m_Array = <<>> /\ m_nTotalCnt = 0 /\ splitting = FALSE
  BY Zenon DEF SplitInit
<1>3. 0 \in Nat
  OBVIOUS
<1>. QED  BY <1>1, <1>2, <1>3, Zenon DEF SplitInv

\* A call of split.
LEMMA SplitCallStep ==
  ASSUME SplitInv, Split
  PROVE  SplitInv'
<1>1. PICK text \in Texts :
        /\ buf' = text /\ bufPt' = text
        /\ \/ splitting' = TRUE /\ m_Array' = <<>>
           \/ splitting' = FALSE /\ splitRs' = -1
  <2>1. splitting = FALSE
    BY Zenon DEF SplitInv, Split
  <2>. QED  BY <2>1, Zenon DEF Split
<1>2. text \in Seq({"c", "T"}) /\ Len(text) \in Nat
  BY <1>1, SplitAssumption DEF SplitAssumption, Texts
<1>3. SplitTo(text, 0, text, <<>>)
  <2>1. <<>> \in Seq(Nat) /\ Len(<<>>) = 0 /\ Len(text) = 0 + Len(text) /\ \A k \in 1 .. 0 : FALSE
    BY <1>2
  <2>2. ASSUME NEW p \in 1 .. Len(text)
        PROVE  text[p] = text[0 + p]
    <3>1. 0 + p = p
      BY <1>2
    <3>. QED  BY <3>1, Zenon
  <2>3. Toks(text, 0) = 0 /\ EndOf(text, 0) = 0
    BY ToksFacts, Zenon DEF EndOf
  <2>. QED  BY <1>2, <2>1, <2>2, <2>3, Zenon DEF SplitTo, Fields
<1>4. m_nTotalCnt' = m_nTotalCnt /\ m_nTotalCnt \in Nat /\ 0 <= m_nTotalCnt /\ 0 \in Nat
  BY DEF Split, SplitInv
<1>5. CASE splitting' = TRUE /\ m_Array' = <<>>
  <2>1. Len(<<>>) = 0
    OBVIOUS
  <2>2. \E i \in Nat : SplitTo(buf', i, bufPt', m_Array') /\ (i = 0 \/ buf'[i] = "T")
    BY <1>1, <1>3, <1>4, <1>5, Zenon
  <2>3. Len(m_Array') <= m_nTotalCnt' /\ m_nTotalCnt' \in Nat
    BY <1>4, <1>5, <2>1, Zenon
  <2>. QED  BY <1>5, <2>2, <2>3, Zenon DEF SplitInv, SplitTo, Toks, EndOf, EndAt, Fields
<1>6. CASE splitting' = FALSE /\ splitRs' = -1
  <2>1. -1 # 0
    OBVIOUS
  <2>2. m_nTotalCnt' \in Nat
    BY <1>4, Zenon
  <2>. QED  BY <1>6, <2>1, <2>2, Zenon DEF SplitInv
<1>. QED  BY <1>1, <1>5, <1>6

\* The end of the text behind its last token.
LEMMA EndStep ==
  ASSUME SplitInv, EndOfText
  PROVE  SplitInv'
<1>1. /\ m_nTotalCnt \in Nat /\ Len(m_Array) <= m_nTotalCnt /\ bufPt = <<>>
      /\ buf' = buf /\ m_nTotalCnt' = m_nTotalCnt /\ splitting' = FALSE
      /\ m_Array' = IF m_Array = <<>> THEN m_Array ELSE Append(m_Array, 0)
  BY Zenon DEF SplitInv, EndOfText, Return
<1>2. PICK i \in Nat : SplitTo(buf, i, <<>>, m_Array) /\ (i = 0 \/ buf[i] = "T")
  BY <1>1, Zenon DEF SplitInv, EndOfText
<1>3. /\ buf \in Seq({"c", "T"}) /\ Len(<<>>) = 0 /\ Len(buf) = i + 0 /\ m_Array \in Seq(Nat)
      /\ Toks(buf, i) = Len(m_Array) /\ Len(m_Array) \in Nat
  BY <1>2 DEF SplitTo
<1>4. Len(buf) = i
  BY <1>3
<1>5. CASE m_Array = <<>>
  <2>1. Len(m_Array) = 0 /\ Toks(buf, i) = 0
    BY <1>3, <1>5
  <2>2. i = 0
    <3>1. SUFFICES ASSUME i # 0 PROVE FALSE
      OBVIOUS
    <3>2. PICK j \in Nat : i = j + 1
      <4>1. i - 1 \in Nat /\ i = (i - 1) + 1
        BY <3>1
      <4>. QED  BY <4>1
    <3>3. buf[j + 1] = "T"
      BY <1>2, <3>1, <3>2, Zenon
    <3>4. Toks(buf, j + 1) = Toks(buf, j) + 1 /\ Toks(buf, j) \in Nat
      BY <3>3, ToksFacts, Zenon
    <3>5. Toks(buf, j) + 1 = 0 /\ Toks(buf, j) \in Nat
      BY <2>1, <3>2, <3>4, Zenon
    <3>. QED  BY <3>5
  <2>3. buf = <<>>
    BY <1>3, <1>4, <2>2, EmptySeq
  <2>4. ~(Len(m_Array) > m_nTotalCnt) /\ Fields(buf, m_Array)
    BY <1>1, <2>1 DEF Fields
  <2>5. Whole(buf, m_Array, m_nTotalCnt)
    BY <1>3, <2>1, <2>3, <2>4, Zenon DEF Whole
  <2>6. Whole(buf', m_Array', m_nTotalCnt') /\ splitting' = FALSE /\ m_nTotalCnt' \in Nat
    BY <1>1, <1>5, <2>5, Zenon
  <2>. QED  BY <2>6, Zenon DEF SplitInv, Whole, Fields, Toks, EndOf, EndAt
<1>6. CASE m_Array # <<>>
  <2>1. Len(m_Array) # 0
    BY <1>3, <1>6, EmptySeq
  <2>2. i # 0
    <3>1. i = 0 => Toks(buf, i) = 0
      BY ToksFacts, Zenon
    <3>. QED  BY <1>3, <2>1, <3>1, Zenon
  <2>3. buf # <<>> /\ buf[Len(buf)] = "T"
    <3>1. buf = <<>> => Len(buf) = 0
      OBVIOUS
    <3>. QED  BY <1>2, <1>4, <2>2, <3>1, Zenon
  <2>4. Len(m_Array) + 1 > m_nTotalCnt => Len(m_Array) = m_nTotalCnt
    BY <1>1, <1>3
  <2>5. \A p \in 1 .. Len(<<>>) : <<>>[p] = "c"
    OBVIOUS
  <2>6. Whole(buf, Append(m_Array, Len(<<>>)), m_nTotalCnt)
    BY <1>2, <2>3, <2>4, <2>5, LastField, Zenon
  <2>7. Whole(buf, Append(m_Array, 0), m_nTotalCnt)
    BY <1>3, <2>6, Zenon
  <2>8. Whole(buf', m_Array', m_nTotalCnt') /\ splitting' = FALSE /\ m_nTotalCnt' \in Nat
    BY <1>1, <1>6, <2>7, Zenon
  <2>. QED  BY <2>8, Zenon DEF SplitInv, Whole, Fields, Toks, EndOf, EndAt
<1>. QED  BY <1>5, <1>6

\* One turn of the loop.
LEMMA FieldStep ==
  ASSUME SplitInv, Field
  PROVE  SplitInv'
<1>1. /\ splitting /\ m_nTotalCnt \in Nat /\ Len(m_Array) <= m_nTotalCnt /\ bufPt # <<>>
      /\ buf' = buf /\ m_nTotalCnt' = Room
  BY Zenon DEF SplitInv, Field
<1>2. PICK i \in Nat : SplitTo(buf, i, bufPt, m_Array)
  BY <1>1, Zenon DEF SplitInv
<1>3. /\ buf \in Seq({"c", "T"}) /\ bufPt \in Seq({"c", "T"}) /\ m_Array \in Seq(Nat)
      /\ Len(buf) = i + Len(bufPt)
  BY <1>2, Zenon DEF SplitTo
<1>4. Len(bufPt) \in Nat \ {0} /\ Len(m_Array) \in Nat /\ Len(buf) \in Nat
  BY <1>1, <1>3, EmptySeq
<1>5. PICK room \in Nat : room = m_nTotalCnt' /\ Len(m_Array) + 1 <= room
  <2>1. SplitLen \in Nat \ {0}
    BY SplitAssumption DEF SplitAssumption
  <2>2. Room \in Nat /\ Len(m_Array) + 1 <= Room
    BY <1>1, <1>4, <2>1 DEF Room
  <2>. QED  BY <1>1, <2>2
<1>6. CASE TokenAt = {}
  <2>1. \A p \in 1 .. Len(bufPt) : bufPt[p] = "c"
    BY <1>3, <1>6, NoToken, Zenon
  <2>2. buf # <<>>
    <3>1. buf = <<>> => Len(buf) = 0
      OBVIOUS
    <3>2. Len(buf) # 0
      BY <1>3, <1>4
    <3>. QED  BY <3>1, <3>2, Zenon
  <2>3. ~(Len(m_Array) + 1 > room)
    BY <1>4, <1>5
  <2>4. Whole(buf, Append(m_Array, Len(bufPt)), room)
    BY <1>2, <2>1, <2>2, <2>3, LastField, Zenon
  <2>5. m_Array' = Append(m_Array, Len(bufPt)) /\ splitting' = FALSE
    BY <1>6, Zenon DEF Field, Return
  <2>6. Whole(buf', m_Array', m_nTotalCnt') /\ splitting' = FALSE /\ m_nTotalCnt' \in Nat
    BY <1>1, <1>5, <2>4, <2>5, Zenon
  <2>. QED  BY <2>6, Zenon DEF SplitInv, Whole, Fields, Toks, EndOf, EndAt
<1>7. CASE TokenAt # {}
  <2>1. PICK n \in 1 .. Len(bufPt) : /\ n = First(TokenAt) /\ bufPt[n] = "T"
                                     /\ \A p \in 1 .. n - 1 : bufPt[p] = "c"
    BY <1>3, <1>7, FirstToken, Zenon
  <2>2. /\ m_Array' = Append(m_Array, n - 1) /\ splitting' = splitting
        /\ bufPt' = SubSeq(bufPt, n + 1, Len(bufPt))
    BY <1>7, <2>1, Zenon DEF Field
  <2>3. PICK arr, rest : arr = m_Array' /\ rest = bufPt'
    OBVIOUS
  <2>4. /\ n \in 1 .. Len(bufPt) + 1 /\ n <= Len(bufPt) /\ i + n \in Nat /\ n \in Int
        /\ n + 1 \in Int /\ n # Len(bufPt) + 1
    BY <1>4
  <2>5. /\ arr \in Seq(Nat) /\ Len(arr) = Len(m_Array) + 1
        /\ EndOf(buf, Len(m_Array) + 1) = i + n
        /\ Fields(buf, arr)
        /\ buf[i + n] = "T" /\ Toks(buf, i + n) = Len(m_Array) + 1
    <3>1. /\ Append(m_Array, n - 1) \in Seq(Nat)
          /\ Len(Append(m_Array, n - 1)) = Len(m_Array) + 1
          /\ EndOf(buf, Len(m_Array) + 1) = i + n
          /\ Fields(buf, Append(m_Array, n - 1))
          /\ n <= Len(bufPt) => buf[i + n] = "T" /\ Toks(buf, i + n) = Len(m_Array) + 1
      <4>1. NextEnd(bufPt, n)
        BY <2>1, <2>4, Zenon DEF NextEnd
      <4>2. OneMore(buf, i, bufPt, m_Array, n)
        BY <1>2, <4>1, FieldFound, Zenon
      <4>. QED  BY <4>2, Zenon DEF OneMore
    <3>. QED  BY <2>2, <2>3, <2>4, <3>1, Zenon
  <2>6. /\ rest \in Seq({"c", "T"}) /\ Len(buf) = (i + n) + Len(rest)
        /\ \A p \in 1 .. Len(rest) : rest[p] = buf[(i + n) + p]
    <3>1. \A j \in n + 1 .. Len(bufPt) : bufPt[j] \in {"c", "T"}
      BY <1>3, ElementOfSeq
    <3>2. /\ SubSeq(bufPt, n + 1, Len(bufPt)) \in Seq({"c", "T"})
          /\ Len(SubSeq(bufPt, n + 1, Len(bufPt))) =
               IF n + 1 <= Len(bufPt) THEN Len(bufPt) - (n + 1) + 1 ELSE 0
          /\ \A j \in 1 .. Len(bufPt) - (n + 1) + 1 :
               SubSeq(bufPt, n + 1, Len(bufPt))[j] = bufPt[n + 1 + j - 1]
      <4>1. n + 1 \in Int /\ Len(bufPt) \in Int
        BY <1>4
      <4>. QED  BY <3>1, <4>1, SubSeqProperties
    <3>3. /\ rest \in Seq({"c", "T"})
          /\ Len(rest) = IF n + 1 <= Len(bufPt) THEN Len(bufPt) - (n + 1) + 1 ELSE 0
          /\ \A j \in 1 .. Len(bufPt) - (n + 1) + 1 : rest[j] = bufPt[n + 1 + j - 1]
      BY <2>2, <2>3, <3>2, Zenon
    <3>4. Len(rest) = Len(bufPt) - n
      BY <1>4, <2>4, <3>3
    <3>5. Len(buf) = (i + n) + Len(rest)
      BY <1>3, <1>4, <2>4, <3>4
    <3>6. ASSUME NEW p \in 1 .. Len(rest)
          PROVE  rest[p] = buf[(i + n) + p]
      <4>1. /\ p \in 1 .. Len(bufPt) - (n + 1) + 1 /\ n + 1 + p - 1 = n + p
            /\ n + p \in 1 .. Len(bufPt) /\ i + (n + p) = (i + n) + p
        BY <1>4, <3>4
      <4>2. bufPt[n + p] = buf[i + (n + p)]
        BY <1>2, <4>1, Zenon DEF SplitTo
      <4>. QED  BY <3>3, <4>1, <4>2, Zenon
    <3>. QED  BY <3>3, <3>5, <3>6, Zenon
  <2>7. SplitTo(buf, i + n, rest, arr)
    BY <1>3, <2>5, <2>6, Zenon DEF SplitTo
  <2>8. Len(arr) <= room
    BY <1>5, <2>5, Zenon
  <2>9. /\ m_nTotalCnt' \in Nat /\ splitting' = TRUE /\ Len(m_Array') <= m_nTotalCnt'
        /\ SplitTo(buf', i + n, bufPt', m_Array') /\ buf'[i + n] = "T"
    <3>1. splitting' = TRUE
      BY <1>1, <2>2, Zenon DEF SplitInv
    <3>. QED  BY <1>1, <1>5, <2>3, <2>5, <2>7, <2>8, <3>1, Zenon
  <2>. QED  BY <2>4, <2>9, Zenon DEF SplitInv, SplitTo, Toks, EndOf, EndAt, Fields
<1>. QED  BY <1>6, <1>7

\* Every step keeps the invariant.
LEMMA SplitInductive == SplitInv /\ [SplitNext]_splitVars => SplitInv'
<1>. SUFFICES ASSUME SplitInv, [SplitNext]_splitVars PROVE SplitInv'
  OBVIOUS
<1>1. CASE UNCHANGED splitVars
  <2>1. /\ buf' = buf /\ bufPt' = bufPt /\ m_Array' = m_Array /\ m_nTotalCnt' = m_nTotalCnt
        /\ splitting' = splitting /\ splitRs' = splitRs
    BY <1>1 DEF splitVars
  <2>2. CASE splitting
    <3>1. /\ Len(m_Array') <= m_nTotalCnt' /\ m_nTotalCnt' \in Nat /\ splitting' = TRUE
          /\ \E i \in Nat : SplitTo(buf', i, bufPt', m_Array') /\ (i = 0 \/ buf'[i] = "T")
      BY <2>1, <2>2, Zenon DEF SplitInv
    <3>. QED  BY <3>1, Zenon DEF SplitInv, SplitTo, Toks, EndOf, EndAt, Fields
  <2>3. CASE ~splitting
    <3>1. /\ m_nTotalCnt' \in Nat /\ splitting' = FALSE
          /\ splitRs' = 0 => Whole(buf', m_Array', m_nTotalCnt')
      BY <2>1, <2>3, Zenon DEF SplitInv
    <3>. QED  BY <3>1, Zenon DEF SplitInv, Whole, Toks, EndOf, EndAt, Fields
  <2>. QED  BY <2>2, <2>3
<1>2. CASE ExtendFails
  <2>1. m_nTotalCnt' = m_nTotalCnt /\ splitting' = FALSE /\ splitRs' = -1 /\ -1 # 0
    BY <1>2 DEF ExtendFails, Return
  <2>. QED  BY <2>1, Zenon DEF SplitInv
<1>3. CASE WriteToNull
  <2>1. SplitInit'
    BY <1>3, Zenon DEF WriteToNull, SplitInit
  <2>. QED  BY <2>1, SplitInitInv, PTL
<1>. QED  BY <1>1, <1>2, <1>3, SplitCallStep, EndStep, FieldStep DEF SplitNext

\* The strengthened invariant of TSplit holds of every behaviour.
THEOREM SplitInvariance == SplitSpec => []SplitInv
BY SplitInitInv, SplitInductive, PTL DEF SplitSpec

\* A split (mySplit.cpp) that succeeds finds what is before, between and behind
\* the tokens of a text of any length, with any first capacity, and leaves the
\* room of m_Array behind for one field at most, the empty one at the end.
THEOREM CutsAtTheTokens == SplitSpec => []SplitRight
<1>1. ASSUME SplitInv, ~splitting, splitRs = 0
      PROVE  /\ Len(m_Array) = FieldCount
             /\ \A k \in DOMAIN m_Array :
                  m_Array[k] = FieldEnd(k) - (IF k = 1 THEN 0 ELSE FieldEnd(k - 1)) - 1
             /\ Len(m_Array) > m_nTotalCnt =>
                  buf[Len(buf)] = "T" /\ FieldCount = m_nTotalCnt + 1
  <2>1. Whole(buf, m_Array, m_nTotalCnt)
    BY <1>1, Zenon DEF SplitInv
  <2>2. /\ buf \in Seq({"c", "T"}) /\ m_Array \in Seq(Nat) /\ Fields(buf, m_Array)
        /\ Len(m_Array) = IF buf = <<>> THEN 0 ELSE Toks(buf, Len(buf)) + 1
        /\ Len(m_Array) > m_nTotalCnt => buf[Len(buf)] = "T" /\ Len(m_Array) = m_nTotalCnt + 1
    BY <2>1, Zenon DEF Whole
  <2>3. DOMAIN buf = 1 .. Len(buf) /\ DOMAIN m_Array = 1 .. Len(m_Array)
        /\ Len(m_Array) \in Nat
    BY <2>2, LenProperties
  <2>4. Len(m_Array) = FieldCount
    BY <2>2, <2>3, Zenon DEF FieldCount, Toks
  <2>5. ASSUME NEW k \in DOMAIN m_Array
        PROVE  m_Array[k] = FieldEnd(k) - (IF k = 1 THEN 0 ELSE FieldEnd(k - 1)) - 1
    <3>1. k \in 1 .. Len(m_Array)
      BY <2>3, Zenon
    <3>2. k \in Int /\ k # 0 /\ (k = 1 <=> k - 1 = 0)
      BY <2>3, <3>1
    <3>3. m_Array[k] = EndOf(buf, k) - EndOf(buf, k - 1) - 1
      BY <2>2, <3>1, Zenon DEF Fields
    <3>4. EndOf(buf, k) = FieldEnd(k)
      BY <3>2, Zenon DEF EndOf, EndAt, FieldEnd, Toks
    <3>5. EndOf(buf, k - 1) = IF k = 1 THEN 0 ELSE FieldEnd(k - 1)
      <4>1. CASE k = 1
        BY <3>2, <4>1, Zenon DEF EndOf
      <4>2. CASE k # 1
        <5>1. EndOf(buf, k - 1) = FieldEnd(k - 1)
          BY <3>2, <4>2, Zenon DEF EndOf, EndAt, FieldEnd, Toks
        <5>. QED  BY <4>2, <5>1, Zenon
      <4>. QED  BY <4>1, <4>2
    <3>. QED  BY <3>3, <3>4, <3>5, Zenon
  <2>. QED  BY <2>2, <2>4, <2>5, Zenon
<1>2. SplitInv => SplitRight
  BY <1>1, Zenon DEF SplitRight
<1>. QED  BY SplitInvariance, <1>2, PTL

=============================================================================
