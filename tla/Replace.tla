------------------------------ MODULE Replace ------------------------------
(***************************************************************************)
(* strreplace (mystr.cpp): the text with every occurrence of strSrc        *)
(* replaced by strDst, in a buffer whose size is guessed and extended.     *)
(* A text is what strstr makes of it: "S" an occurrence of strSrc, which   *)
(* is not empty, "c" any other character.                                  *)
(***************************************************************************)
EXTENDS Naturals, Sequences, FiniteSets

CONSTANTS ReplaceDefCnt,  \* nReplaceDefCnt
          MaxLen,         \* bound on the length of a text, in occurrences and characters
          MaxSrc, MaxDst  \* bounds on the lengths of strSrc and strDst

ASSUME ReplaceAssumption ==
  ReplaceDefCnt \in Nat \ {0} /\ MaxLen \in Nat /\ MaxSrc \in Nat \ {0} /\ MaxDst \in Nat

VARIABLES
  strText, nSrcLen, nDstLen,  \* the arguments
  left,                       \* the text from pBeg on
  strBuf,                     \* what has been copied: "c", or "D" for strDst
  nPos, nReplaceLen,
  replacing,                  \* inside strreplace
  replaced                    \* the last call returned a buffer, not NULL

replaceVars == <<strText, nSrcLen, nDstLen, left, strBuf, nPos, nReplaceLen, replacing, replaced>>

Count(s, x) == Cardinality({p \in DOMAIN s : s[p] = x})

ReplaceInit ==
  /\ strText = <<>> /\ nSrcLen = 1 /\ nDstLen = 0 /\ left = <<>> /\ strBuf = <<>>
  /\ nPos = 0 /\ nReplaceLen = ReplaceDefCnt /\ replacing = FALSE /\ replaced = TRUE

\* The guess: twice the text, at least nReplaceDefCnt.  calloc may fail.
strreplace ==
  /\ ~replacing
  /\ \E n \in 0 .. MaxLen : strText' \in [1 .. n -> {"c", "S"}]
  /\ nSrcLen' \in 1 .. MaxSrc /\ nDstLen' \in 0 .. MaxDst
  /\ left' = strText' /\ strBuf' = <<>> /\ nPos' = 0
  /\ LET nTextLen == Count(strText', "c") + nSrcLen' * Count(strText', "S")
     IN nReplaceLen' = IF ReplaceDefCnt < nTextLen * 2 THEN nTextLen * 2 ELSE ReplaceDefCnt
  /\ replacing' \in BOOLEAN
  /\ replaced' = FALSE

SrcAt == {p \in DOMAIN left : left[p] = "S"}
NextSrc == CHOOSE p \in SrcAt : \A q \in SrcAt : p <= q

\* `>' for `>=': no room kept for the final zero.
GrownTight(nTmpLen) ==
  IF nTmpLen + nDstLen > nReplaceLen - nPos
    THEN (nReplaceLen + nTmpLen + nDstLen) * 2 ELSE nReplaceLen

Grown(nTmpLen) ==
  IF nTmpLen + nDstLen >= nReplaceLen - nPos
    THEN (nReplaceLen + nTmpLen + nDstLen) * 2 ELSE nReplaceLen

\* One turn of the loop: the text up to strSrc, then strDst.
ReplaceNextSrc ==
  /\ replacing /\ SrcAt # {}
  /\ LET nTmpLen == NextSrc - 1
     IN /\ nReplaceLen' = Grown(nTmpLen)
        /\ strBuf' = strBuf \o SubSeq(left, 1, nTmpLen) \o <<"D">>
        /\ nPos' = nPos + nTmpLen + nDstLen
        /\ left' = SubSeq(left, NextSrc + 1, Len(left))
  /\ UNCHANGED <<strText, nSrcLen, nDstLen, replacing, replaced>>

\* The rest, and the zero at nPos + nLeft, which nPos stands for at the end.
ReplaceRest ==
  /\ replacing /\ SrcAt = {}
  /\ nReplaceLen' = IF left # <<>> /\ nReplaceLen - nPos <= Len(left)
                      THEN nReplaceLen + Len(left) + 1 ELSE nReplaceLen
  /\ strBuf' = strBuf \o left
  /\ nPos' = nPos + Len(left)
  /\ replacing' = FALSE /\ replaced' = TRUE
  /\ UNCHANGED <<strText, nSrcLen, nDstLen, left>>

\* realloc fails: NULL is returned and the old buffer is lost.
ReplaceFails ==
  /\ replacing
  /\ IF SrcAt # {} THEN Grown(NextSrc - 1) > nReplaceLen
                   ELSE left # <<>> /\ nReplaceLen - nPos <= Len(left)
  /\ replacing' = FALSE
  /\ UNCHANGED <<strText, nSrcLen, nDstLen, left, strBuf, nPos, nReplaceLen, replaced>>

ReplaceNext == strreplace \/ ReplaceNextSrc \/ ReplaceRest \/ ReplaceFails

ReplaceSpec == ReplaceInit /\ [][ReplaceNext]_replaceVars

----------------------------------------------------------------------------
\* Every byte written, the final zero too, lies inside the buffer, and the
\* buffer a call returns holds the whole text with each strSrc replaced.
ReplaceRight ==
  /\ nPos < nReplaceLen
  /\ replaced =>
       /\ strBuf = [p \in DOMAIN strText |-> IF strText[p] = "S" THEN "D" ELSE "c"]
       /\ nPos = Count(strBuf, "c") + nDstLen * Count(strBuf, "D")
=============================================================================
