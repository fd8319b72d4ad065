------------------------------- MODULE Crc32 -------------------------------
(***************************************************************************)
(* DumpFileWithCrc32 and CheckFileWithCrc32 (myCrc32.cpp) with WriteFile   *)
(* and AppendFile (myfdcntl.cpp): processes dump data of their own into    *)
(* one file and may die anywhere, while another maps it and checks it.  A  *)
(* file is a sequence of blocks <<owner, part>> of the size of a checksum; *)
(* the last part is the checksum, taken to differ whenever the data do.    *)
(***************************************************************************)
EXTENDS Integers, Sequences

CONSTANTS Dumpers,
          DataLen,     \* blocks of data of a dump
          PageBlocks,  \* blocks of a page of memory
          MaxFile      \* bound on the length of the file

ASSUME Crc32Assumption ==
  DataLen \in Nat \ {0} /\ PageBlocks \in Nat \ {0} /\ MaxFile \in Nat

VARIABLES
  dump,           \* the contents of the file
  dumpPc,
  written,        \* the blocks of its data each dumper's write has written
  checkPc,
  mapped,         \* the length of the file when the check mapped it
  nFileCrc32Code, \* the blocks the check has read for its checksum
  checkRs,
  \* history
  wholes,         \* the dumps that have at some time been all the file
  overlapped      \* a dump began while another was going on

crcVars == <<dump, dumpPc, written, checkPc, mapped, nFileCrc32Code, checkRs, wholes, overlapped>>

Data(d)  == [k \in 1 .. DataLen |-> <<d, k>>]
Crc(d)   == <<d, DataLen + 1>>
Zero     == <<"zero", 0>>

CrcInit ==
  /\ dump = <<>>
  /\ dumpPc = [d \in Dumpers |-> "idle"] /\ written = [d \in Dumpers |-> 0]
  /\ checkPc = "idle" /\ mapped = 0 /\ nFileCrc32Code = <<>> /\ checkRs = -1
  /\ wholes = {} /\ overlapped = FALSE

NoteWholes == wholes' = wholes \cup {d \in Dumpers : dump' = Append(Data(d), Crc(d))}

DumpGoto(d, from, to) ==
  /\ dumpPc[d] = from /\ dumpPc' = [dumpPc EXCEPT ![d] = to]
  /\ UNCHANGED <<checkPc, mapped, nFileCrc32Code, checkRs>>

\* WriteFile: open with O_TRUNC, or fail.
DumpOpen(d) ==
  /\ \/ DumpGoto(d, "idle", "write") /\ dump' = <<>>
     \/ DumpGoto(d, "idle", "idle") /\ UNCHANGED dump
  /\ overlapped' = (overlapped \/ \E e \in Dumpers \ {d} : dumpPc[e] # "idle")
  /\ UNCHANGED <<written, wholes>>

\* The file with b as block n, and zeros in a gap before it.
Over(n, b) ==
  [k \in 1 .. (IF n > Len(dump) THEN n ELSE Len(dump)) |->
     IF k = n THEN b ELSE IF k <= Len(dump) THEN dump[k] ELSE Zero]

\* A block of write, which whoever has the file mapped sees block by block.
DumpWrite(d) ==
  /\ DumpGoto(d, "write", "write") /\ written[d] < DataLen
  /\ dump' = Over(written[d] + 1, Data(d)[written[d] + 1])
  /\ written' = [written EXCEPT ![d] = @ + 1]
  /\ NoteWholes
  /\ UNCHANGED overlapped

\* write returns: all of it, less, which WriteFile does not notice and its
\* caller only if it is nothing at all, or a failure.
DumpWritten(d) ==
  /\ DumpGoto(d, "write", IF written[d] > 0 THEN "append" ELSE "idle")
  /\ written' = [written EXCEPT ![d] = 0]
  /\ UNCHANGED <<dump, wholes, overlapped>>

\* AppendFile writes at the end of the file, wherever that is by now, or fails.
DumpAppend(d) ==
  /\ DumpGoto(d, "append", "idle")
  /\ \/ Len(dump) < MaxFile /\ dump' = Append(dump, Crc(d))
     \/ UNCHANGED dump
  /\ NoteWholes
  /\ UNCHANGED <<written, overlapped>>

DumpCrash(d) ==
  /\ \E from \in {"write", "append"} : DumpGoto(d, from, "idle")
  /\ written' = [written EXCEPT ![d] = 0]
  /\ UNCHANGED <<dump, wholes, overlapped>>

CheckGoto(from, to) ==
  /\ checkPc = from /\ checkPc' = to
  /\ UNCHANGED <<dump, dumpPc, written, wholes, overlapped>>

\* mf.Open, which fails for an empty file.
CheckOpen ==
  /\ \/ /\ CheckGoto("idle", "crc") /\ dump # <<>>
        /\ mapped' = Len(dump) /\ nFileCrc32Code' = <<>>
     \/ CheckGoto("idle", "idle") /\ UNCHANGED <<mapped, nFileCrc32Code>>
  /\ checkRs' = -1

\* The check reads the memory, and with it what the file is at that time.  In
\* the file's last page zeros follow its end.
Page(k)  == (k - 1) \div PageBlocks
There(k) == dump # <<>> /\ Page(k) <= Page(Len(dump))
Block(k) == IF k <= Len(dump) THEN dump[k] ELSE Zero

\* The block the check reads next.
toRead == Len(nFileCrc32Code) + 1

\* The page is wholly behind the end of the file: the process dies of SIGBUS.
CheckDies ==
  /\ CheckGoto("crc", "idle")
  /\ ~There(toRead)
  /\ UNCHANGED <<mapped, nFileCrc32Code, checkRs>>

\* A turn of the loop of GetCrc32.
CheckCrc ==
  /\ CheckGoto("crc", "crc")
  /\ toRead < mapped /\ There(toRead)
  /\ nFileCrc32Code' = Append(nFileCrc32Code, Block(toRead))
  /\ UNCHANGED <<mapped, checkRs>>

\* A checksum of the first block only.
MatchesFirst(data, crc) == data # <<>> /\ \E d \in Dumpers : data[1] = <<d, 1>> /\ crc = Crc(d)

Matches(data, crc) == \E d \in Dumpers : data = Data(d) /\ crc = Crc(d)

\* memcpy of the checksum, and the comparison.
CheckCompare ==
  /\ CheckGoto("crc", "idle")
  /\ toRead = mapped /\ There(mapped)
  /\ checkRs' = IF Matches(nFileCrc32Code, Block(mapped)) THEN 0 ELSE 1
  /\ UNCHANGED <<mapped, nFileCrc32Code>>

CrcNext ==
  \/ \E d \in Dumpers : DumpOpen(d) \/ DumpWrite(d) \/ DumpWritten(d) \/ DumpAppend(d) \/ DumpCrash(d)
  \/ CheckOpen \/ CheckCrc \/ CheckCompare \/ CheckDies

CrcSpec == CrcInit /\ [][CrcNext]_crcVars

----------------------------------------------------------------------------
\* A check that finds nothing wrong has read a dump that was once the whole
\* file, although a dump may be cut short by a crash, a failure or a short
\* write, and the file be dumped anew under the check, which then reads old
\* blocks, new ones and the zeros behind the end.  Two dumps at a time are
\* beyond it: the data it sums up may be overwritten by the other process
\* before the checksum they lack is appended.
CrcDetects ==
  checkPc = "idle" /\ checkRs = 0 /\ ~overlapped =>
    \E d \in wholes : nFileCrc32Code = Data(d)
=============================================================================
