------------------------------- MODULE Split -------------------------------
(***************************************************************************)
(* TSplit (mySplit.cpp): one object splits one text after another.  A text *)
(* is what strstr makes of it: "T" an occurrence of the token (not empty), *)
(* "c" any other character.  A field is known by its length.               *)
(***************************************************************************)
EXTENDS Integers, Sequences, FiniteSets

CONSTANTS SplitLen,  \* SPLIT_LEN, the first capacity
          MaxText    \* bound on the length of a text

ASSUME SplitAssumption == SplitLen \in Nat \ {0} /\ MaxText \in Nat

Texts == UNION {[1 .. n -> {"c", "T"}] : n \in 0 .. MaxText}

VARIABLES
  buf,          \* the argument of split
  bufPt,        \* what is left of it from buf_pt on
  m_Array,      \* the lengths of the fields 0 .. m_nCnt - 1
  m_nTotalCnt,  \* how many fields there is room for
  arrayLost,    \* m_Array is NULL while m_nTotalCnt says there is room
  splitting,    \* inside split
  splitRs       \* what the last call returned

splitVars == <<buf, bufPt, m_Array, m_nTotalCnt, arrayLost, splitting, splitRs>>

SplitInit ==
  /\ buf = <<>> /\ bufPt = <<>> /\ m_Array = <<>> /\ m_nTotalCnt = 0
  /\ arrayLost = FALSE /\ splitting = FALSE /\ splitRs = 0

\* m_nBufLen stays 0, so every call replaces m_strBuf; when calloc fails the
\* fields of the last call are still counted.
Split ==
  /\ ~splitting
  /\ \E text \in Texts :
       /\ buf' = text /\ bufPt' = text
       /\ \/ splitting' = TRUE /\ m_Array' = <<>> /\ UNCHANGED splitRs
          \/ splitRs' = -1 /\ UNCHANGED <<splitting, m_Array>>
  /\ UNCHANGED <<m_nTotalCnt, arrayLost>>

Return(rs) == splitting' = FALSE /\ splitRs' = rs /\ UNCHANGED bufPt

\* At the end of the text, past the last token: an empty field, without a look
\* at the room there is.
EndOfText ==
  /\ splitting /\ bufPt = <<>>
  /\ m_Array' = IF m_Array = <<>> THEN m_Array ELSE Append(m_Array, 0)
  /\ Return(0)
  /\ UNCHANGED <<buf, m_nTotalCnt, arrayLost>>

\* `m_nTotalCnt < m_nCnt'.
RoomOneLate == IF m_nTotalCnt < Len(m_Array) THEN 2 * m_nTotalCnt
               ELSE IF m_nTotalCnt = 0 THEN SplitLen ELSE m_nTotalCnt

\* CheckExtend when realloc succeeds
Room == IF m_nTotalCnt > Len(m_Array) THEN m_nTotalCnt
        ELSE IF m_nTotalCnt = 0 THEN SplitLen ELSE 2 * m_nTotalCnt

TokenAt == {p \in DOMAIN bufPt : bufPt[p] = "T"}
First(S) == CHOOSE p \in S : \A q \in S : p <= q

Field ==
  /\ splitting /\ bufPt # <<>> /\ ~arrayLost
  /\ m_nTotalCnt' = Room
  /\ \/ /\ TokenAt = {}
        /\ m_Array' = Append(m_Array, Len(bufPt))
        /\ Return(0)
     \/ /\ TokenAt # {}
        /\ m_Array' = Append(m_Array, First(TokenAt) - 1)
        /\ bufPt' = SubSeq(bufPt, First(TokenAt) + 1, Len(bufPt))
        /\ UNCHANGED <<splitting, splitRs>>
  /\ UNCHANGED <<buf, arrayLost>>

\* realloc fails: m_Array is overwritten with NULL, m_nTotalCnt is kept.
ExtendFails ==
  /\ splitting /\ bufPt # <<>> /\ ~arrayLost /\ m_nTotalCnt <= Len(m_Array)
  /\ arrayLost' = (m_nTotalCnt > 0)
  /\ Return(-1)
  /\ UNCHANGED <<buf, m_Array, m_nTotalCnt>>

\* A call after that writes through NULL; the next process starts afresh.
WriteToNull ==
  /\ splitting /\ bufPt # <<>> /\ arrayLost
  /\ buf' = <<>> /\ bufPt' = <<>> /\ m_Array' = <<>> /\ m_nTotalCnt' = 0
  /\ arrayLost' = FALSE /\ splitting' = FALSE /\ splitRs' = 0

SplitNext == Split \/ EndOfText \/ Field \/ ExtendFails \/ WriteToNull

SplitSpec == SplitInit /\ [][SplitNext]_splitVars

----------------------------------------------------------------------------
\* Where the k-th field of the text ends: at the k-th token, or behind the last.
FieldEnd(k) ==
  CHOOSE p \in 1 .. Len(buf) + 1 :
    /\ p = Len(buf) + 1 \/ buf[p] = "T"
    /\ Cardinality({q \in 1 .. p - 1 : buf[q] = "T"}) = k - 1

FieldCount ==
  IF buf = <<>> THEN 0 ELSE Cardinality({p \in DOMAIN buf : buf[p] = "T"}) + 1

\* A split that succeeds finds the text before, between and behind the tokens,
\* also when the object is used again, and it writes beyond the room of m_Array
\* in one case only: the text ends in a token and its other fields fill m_Array.
SplitRight ==
  ~splitting /\ splitRs = 0 =>
    /\ Len(m_Array) = FieldCount
    /\ \A k \in DOMAIN m_Array :
         m_Array[k] = FieldEnd(k) - (IF k = 1 THEN 0 ELSE FieldEnd(k - 1)) - 1
    /\ Len(m_Array) > m_nTotalCnt =>
         buf[Len(buf)] = "T" /\ FieldCount = m_nTotalCnt + 1
=============================================================================
