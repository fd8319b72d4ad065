-------------------------------- MODULE Etc --------------------------------
(***************************************************************************)
(* MyEtc (myetc.cpp), the reader of configuration files: a file is read    *)
(* line by line into a map from "segment|item" to value.  A line is one of *)
(* the kinds the parser tells apart; the buffers seg and value live as     *)
(* long as the whole reading.  Names and values are trimmed and fit        *)
(* SEG_LEN, ITEM_LEN and VALUE_LEN, lines fit the buffer of fgets.         *)
(***************************************************************************)
EXTENDS Naturals, Sequences

CONSTANTS Segs, Items,
          Values,    \* values with some text
          MaxLines   \* bound on the lines of a file

ASSUME EtcAssumption == "" \notin Segs \cup Items \cup Values /\ MaxLines \in Nat

Blank == ""          \* nothing but blanks, or no text at all

(* "skip"    blank, or a comment                                           *)
(* "seg"     [name], the name may be blank                                 *)
(* "badseg"  [] or a [ without a ] among the next SEG_LEN characters       *)
(* "item"    name = value, the value may be blank                          *)
(* "novalue" name= with not even a blank behind it                         *)
(* "bare"    a name without =                                              *)
(* "noname"  a line that starts with =                                     *)
Lines ==
  [kind : {"skip", "badseg", "noname"}, name : {Blank}, value : {Blank}]
    \cup [kind : {"seg"}, name : Segs \cup {Blank}, value : {Blank}]
    \cup [kind : {"item"}, name : Items, value : Values \cup {Blank}]
    \cup [kind : {"novalue", "bare"}, name : Items, value : {Blank}]

VARIABLES
  m_EtcInfo,   \* the value under each key, Blank if it has none
  seg, value,  \* locals of AnalyseText
  etcPc,       \* "ready", "read", or "spin": in the inner loop for ever
  file         \* the lines read so far

etcVars == <<m_EtcInfo, seg, value, etcPc, file>>

\* Two items have one key where a name contains the | between them.
Key(s, k) == s \o "|" \o k
Keys == {Key(s, k) : s \in Segs, k \in Items}

Empty == [key \in Keys |-> Blank]

EtcInit == m_EtcInfo = Empty /\ seg = Blank /\ value = Blank /\ etcPc = "ready" /\ file = <<>>

\* Init: a path that IsFile refuses leaves the map as it was, which is no step;
\* a file that fopen refuses leaves it empty.
InitEtc ==
  /\ etcPc = "ready"
  /\ m_EtcInfo' = Empty /\ seg' = Blank /\ value' = Blank /\ file' = <<>>
  /\ etcPc' \in {"read", "ready"}

GetLine(kind, line) ==
  /\ etcPc = "read" /\ Len(file) < MaxLines
  /\ line.kind \in kind
  /\ file' = Append(file, line)

Skip(line) ==
  /\ GetLine({"skip"}, line)
  /\ UNCHANGED <<m_EtcInfo, seg, value, etcPc>>

SegLine(line) ==
  /\ GetLine({"seg"}, line)
  /\ seg' = line.name
  /\ UNCHANGED <<m_EtcInfo, value, etcPc>>

\* GetSegName empties seg and returns 1; without a segment nothing moves on
\* from the character at hand.
BadSegLine(line) ==
  /\ GetLine({"badseg"}, line)
  /\ seg' = Blank
  /\ etcPc' = "spin"
  /\ UNCHANGED <<m_EtcInfo, value>>

\* GetItemName: without a = the buffer of the value keeps what it had.
ValueOf(line) ==
  CASE line.kind = "item"    -> line.value
    [] line.kind = "novalue" -> Blank
    [] OTHER                 -> value

IsItem(line) == line.kind = "item" \/ (line.kind = "bare" /\ value # Blank)

\* map::insert, which keeps the first value.
StoreFirst(line) ==
  IF m_EtcInfo[Key(seg, line.name)] = Blank
    THEN [m_EtcInfo EXCEPT ![Key(seg, line.name)] = ValueOf(line)] ELSE m_EtcInfo

Store(line) == [m_EtcInfo EXCEPT ![Key(seg, line.name)] = ValueOf(line)]

\* The `break' inside the test of rs: a line that is no item is never left.
ItemLineNoBreak(line) ==
  /\ GetLine({"item", "novalue", "bare", "noname"}, line)
  /\ seg # Blank
  /\ value' = ValueOf(line)
  /\ \/ IsItem(line) /\ m_EtcInfo' = Store(line) /\ UNCHANGED etcPc
     \/ ~IsItem(line) /\ etcPc' = "spin" /\ UNCHANGED m_EtcInfo
  /\ UNCHANGED seg

ItemLine(line) ==
  /\ GetLine({"item", "novalue", "bare", "noname"}, line)
  /\ seg # Blank
  /\ value' = ValueOf(line)
  /\ \/ IsItem(line) /\ m_EtcInfo' = Store(line)
     \/ ~IsItem(line) /\ UNCHANGED m_EtcInfo
  /\ UNCHANGED <<seg, etcPc>>

\* Text before the first segment, or after a blank one, is never left.
LineOutside(line) ==
  /\ GetLine({"item", "novalue", "bare", "noname"}, line)
  /\ seg = Blank
  /\ etcPc' = "spin"
  /\ UNCHANGED <<m_EtcInfo, seg, value>>

Spin == etcPc = "spin" /\ UNCHANGED etcVars

EndOfFile ==
  /\ etcPc = "read"
  /\ etcPc' = "ready"
  /\ UNCHANGED <<m_EtcInfo, seg, value, file>>

AnalyseText ==
  \/ \E line \in Lines :
       Skip(line) \/ SegLine(line) \/ BadSegLine(line) \/ ItemLine(line) \/ LineOutside(line)
  \/ Spin \/ EndOfFile

EtcNext == InitEtc \/ AnalyseText

EtcSpec == EtcInit /\ [][EtcNext]_etcVars /\ WF_etcVars(AnalyseText)

\* GetValue returns 0, or 1 for an item without a value (the empty entry it
\* adds for one that is missing tells nothing new).
GetValue(s, k) ==
  [rs |-> IF m_EtcInfo[Key(s, k)] = Blank THEN 1 ELSE 0, buf |-> m_EtcInfo[Key(s, k)]]

\* GetValue2Int, Long, Double and Str
GetValue2(s, k, def) == IF GetValue(s, k).rs = 0 THEN GetValue(s, k).buf ELSE def

\* GetValue2Bool does not look at def.
GetValue2Bool(s, k, def) == GetValue(s, k).buf # "false"

----------------------------------------------------------------------------
LastOf(S) == CHOOSE x \in S : \A y \in S : y <= x

\* The name of the segment that line n belongs to.
SegOf(n) ==
  LET before == {m \in 1 .. n : file[m].kind \in {"seg", "badseg"}}
  IN IF before = {} THEN Blank ELSE file[LastOf(before)].name

\* What a file says of an item: the last line of the segment that sets it.
Meant(s, k) ==
  LET lines == {n \in DOMAIN file : /\ file[n].kind = "item" /\ file[n].name = k
                                    /\ SegOf(n) = s}
  IN IF lines = {} THEN Blank ELSE file[LastOf(lines)].value

\* Every line whose name makes the key of this item is a proper line of it.
Clear(s, k) ==
  \A n \in DOMAIN file :
    /\ file[n].kind \in {"item", "bare"} /\ SegOf(n) \in Segs
    /\ Key(SegOf(n), file[n].name) = Key(s, k)
    => file[n].kind = "item" /\ SegOf(n) = s /\ file[n].name = k

\* An item whose lines all have their =, and whose key no other item of the
\* file makes, has the value the file gives it, the caller's default if it
\* gives none, wherever the segments are taken up again and whatever the rest
\* of the file is like.  A bool without a value is left out.
EtcRight ==
  \A s \in Segs, k \in Items : Clear(s, k) =>
    /\ \A def \in Values :
         GetValue2(s, k, def) = IF Meant(s, k) = Blank THEN def ELSE Meant(s, k)
    /\ \A def \in BOOLEAN :
         Meant(s, k) # Blank => (GetValue2Bool(s, k, def) <=> Meant(s, k) # "false")

\* A [ that opens no segment, or text that no segment with a name precedes.
Malformed ==
  \E n \in DOMAIN file :
    \/ file[n].kind = "badseg"
    \/ file[n].kind \in {"item", "novalue", "bare", "noname"} /\ SegOf(n) = Blank

\* Init returns for every file that is not malformed.
EtcReturns == etcPc = "read" ~> etcPc = "ready" \/ Malformed
=============================================================================
