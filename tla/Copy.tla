-------------------------------- MODULE Copy -------------------------------
(***************************************************************************)
(* CpFile and MovFile with CpFileCrossFileSystem and                       *)
(* CpBigFileCrossFileSystem (myfdcntl.cpp, the Linux build): a client,     *)
(* which may die at any point, copies or moves "a" to a path; any system   *)
(* call may fail; another process may create "b" when it is not there.     *)
(***************************************************************************)
EXTENDS Integers, Sequences

CONSTANTS MaxBlocks,     \* bound on the size of "a", in buffers of CpBig
          MaxIntrusions  \* bound on the files the other process creates

ASSUME CopyAssumption == MaxBlocks \in Nat /\ MaxIntrusions \in Nat

Paths  == {"a", "b"}
Inodes == 1 .. 2
None   == 0
Dir    == -1        \* "b" may be a directory

VARIABLES
  size,             \* blocks of the file "a" has to begin with
  cross,            \* "a" and "b" are on different file systems
  dir, data,        \* the inode of each path, the blocks of each inode; 0 is a gap
  op, dst, bOverWrite,  \* what the client has called
  copyPc, f,        \* f: the inode the client has open for writing
  nRead,            \* blocks CpBig has read
  errno, ret,
  intrusions,
  spoiled           \* history: a copy onto itself, a short write, or a failed
                    \* calloc of CpBig, which no caller is told of

copyVars == <<size, cross, dir, data, op, dst, bOverWrite, copyPc, f, nRead, errno, ret,
              intrusions, spoiled>>

call   == <<size, cross, op, dst, bOverWrite>>

Source == [n \in 1 .. size |-> n]
Old    == <<MaxBlocks + 1>>
Theirs == <<MaxBlocks + 2>>

CopyInit ==
  /\ size \in 0 .. MaxBlocks /\ cross \in BOOLEAN
  /\ dir \in [Paths -> {None, Dir, 1, 2}] /\ dir["a"] = 1 /\ dir["b"] # 1
  /\ data = [n \in Inodes |-> IF n = 1 THEN Source ELSE Old]
  /\ op = "copy" /\ dst = "b" /\ bOverWrite = TRUE
  /\ copyPc = "idle" /\ f = None /\ nRead = 0 /\ errno = "none" /\ ret = FALSE
  /\ intrusions = 0 /\ spoiled = FALSE

CpFile ==
  /\ copyPc = "idle" /\ copyPc' = "link"
  /\ op' = "copy" /\ dst' \in Paths /\ bOverWrite' \in BOOLEAN
  /\ spoiled' = (spoiled \/ (dst' = "a" /\ bOverWrite'))
  /\ f' = None /\ nRead' = 0 /\ errno' = "none" /\ ret' = FALSE
  /\ UNCHANGED <<size, cross, dir, data, intrusions>>

MovFile ==
  /\ copyPc = "idle" /\ copyPc' = "rename"
  /\ op' = "move" /\ dst' \in Paths /\ bOverWrite' = TRUE
  /\ f' = None /\ nRead' = 0 /\ errno' = "none" /\ ret' = FALSE
  /\ UNCHANGED <<size, cross, dir, data, intrusions, spoiled>>

At(from) == copyPc = from /\ UNCHANGED <<call, intrusions>>

\* The result of CpFile not looked at.
CpReturnUnchecked(b) ==
  IF op = "move" THEN copyPc' = "unlinkSrc" /\ ret' = ret ELSE copyPc' = "idle" /\ ret' = b

\* CpFile returns b; MovFile goes on to remove the source if it is true.
CpReturn(b) ==
  IF op = "move" /\ b THEN copyPc' = "unlinkSrc" /\ ret' = ret ELSE copyPc' = "idle" /\ ret' = b

OtherSystem == cross /\ dst # "a"

\* rename(2) does nothing when both names are links to one file.
Rename ==
  /\ At("rename")
  /\ \/ /\ OtherSystem /\ dir["a"] # None
        /\ copyPc' = "link" /\ UNCHANGED <<dir, ret>>
     \/ /\ ~OtherSystem /\ dir["a"] # None /\ dir[dst] # Dir
        /\ dir' = IF dir[dst] = dir["a"] THEN dir
                  ELSE [dir EXCEPT ![dst] = dir["a"], !["a"] = None]
        /\ copyPc' = "idle" /\ ret' = TRUE
     \/ copyPc' = "idle" /\ UNCHANGED <<dir, ret>>
  /\ UNCHANGED <<data, f, nRead, errno, spoiled>>

\* `goto redo' outside the test of bOverWrite.
LinkRedo ==
  /\ At("link")
  /\ \/ /\ dir["a"] # None /\ dir[dst] # None
        /\ copyPc' = (IF bOverWrite THEN "unlinkDst" ELSE "link") /\ UNCHANGED <<dir, ret>>
     \/ /\ dir["a"] # None /\ dir[dst] = None /\ OtherSystem
        /\ copyPc' = "open" /\ UNCHANGED <<dir, ret>>
     \/ /\ dir["a"] # None /\ dir[dst] = None /\ ~OtherSystem
        /\ dir' = [dir EXCEPT ![dst] = dir["a"]]
        /\ CpReturn(TRUE)
     \/ /\ dir["a"] = None \/ dir[dst] = None
        /\ CpReturn(FALSE) /\ UNCHANGED dir
  /\ UNCHANGED <<data, f, nRead, errno, spoiled>>

\* link(2) refuses a name that exists before it looks at the file systems.
Link ==
  /\ At("link")
  /\ \/ /\ dir["a"] # None /\ dir[dst] # None /\ bOverWrite
        /\ copyPc' = "unlinkDst" /\ UNCHANGED <<dir, ret>>
     \/ /\ dir["a"] # None /\ dir[dst] = None /\ OtherSystem
        /\ copyPc' = "open" /\ UNCHANGED <<dir, ret>>
     \/ /\ dir["a"] # None /\ dir[dst] = None /\ ~OtherSystem
        /\ dir' = [dir EXCEPT ![dst] = dir["a"]]
        /\ CpReturn(TRUE)
     \/ /\ dir["a"] = None \/ dir[dst] = None \/ ~bOverWrite
        /\ CpReturn(FALSE) /\ UNCHANGED dir
  /\ UNCHANGED <<data, f, nRead, errno, spoiled>>

\* unlink(2) removes a name, never a directory, or fails, as it does for ever
\* in a directory that must not be written to; goto redo whatever it says.
Unlink(p) ==
  \/ dir[p] # Dir /\ dir' = [dir EXCEPT ![p] = None]
  \/ UNCHANGED dir

UnlinkDst ==
  /\ At("unlinkDst") /\ copyPc' = "link"
  /\ Unlink(dst)
  /\ UNCHANGED <<data, f, nRead, errno, ret, spoiled>>

\* open(dst, O_CREAT | O_TRUNC) or, not to overwrite, O_CREAT | O_EXCL
NewInode == CHOOSE n \in Inodes : \A p \in Paths : dir[p] # n

OpenDst(to) ==
  /\ dir[dst] = None \/ (bOverWrite /\ dir[dst] # Dir)
  /\ f' = IF dir[dst] = None THEN NewInode ELSE dir[dst]
  /\ dir' = [dir EXCEPT ![dst] = f']
  /\ data' = [data EXCEPT ![f'] = <<>>]
  /\ copyPc' = to

\* A call fails: `goto out', to unlink(dst).
CrossFails == copyPc' = "unlinkOut" /\ errno' \in {"ENOMEM", "other"}

\* CpFileCrossFileSystem up to the open of dst.
CrossOpen ==
  /\ At("open")
  /\ \/ dir["a"] # None /\ OpenDst("map") /\ UNCHANGED errno
     \/ CrossFails /\ UNCHANGED <<dir, data, f>>
  /\ UNCHANGED <<nRead, ret, spoiled>>

\* memcpy without the source's last block.
CrossMapShort ==
  /\ At("map")
  /\ \/ /\ size > 0 /\ dir["a"] # None
        /\ data' = [data EXCEPT ![f] = [n \in 1 .. size |-> IF n = size THEN 0 ELSE n]]
        /\ CpReturn(TRUE) /\ UNCHANGED errno
     \/ CrossFails /\ UNCHANGED <<data, ret>>
  /\ UNCHANGED <<dir, f, nRead, spoiled>>

\* ftruncate, both mappings and memcpy.  An empty file cannot be mapped.
CrossMap ==
  /\ At("map")
  /\ \/ /\ size > 0 /\ dir["a"] # None
        /\ data' = [data EXCEPT ![f] = data[dir["a"]]]
        /\ CpReturn(TRUE) /\ UNCHANGED errno
     \/ CrossFails /\ UNCHANGED <<data, ret>>
  /\ UNCHANGED <<dir, f, nRead, spoiled>>

\* unlink(dst), whoever has created it; CpFile then tries CpBig if errno says so.
CrossOut ==
  /\ At("unlinkOut")
  /\ Unlink(dst)
  /\ \/ errno = "ENOMEM" /\ copyPc' = "bigOpen" /\ UNCHANGED ret
     \/ errno = "other" /\ CpReturn(FALSE)
  /\ UNCHANGED <<data, f, nRead, errno, spoiled>>

\* CpBigFileCrossFileSystem.  When calloc fails it returns -1, which is true.
BigOpen ==
  /\ At("bigOpen")
  /\ \/ CpReturn(TRUE) /\ spoiled' = TRUE /\ UNCHANGED <<dir, data, f>>
     \/ dir["a"] # None /\ OpenDst("bigCopy") /\ UNCHANGED <<ret, spoiled>>
     \/ copyPc' = "bigOut" /\ UNCHANGED <<dir, data, f, ret, spoiled>>
  /\ UNCHANGED <<nRead, errno>>

\* One turn of the loop.  A short write is not noticed.
BigCopy ==
  /\ At("bigCopy") /\ nRead < size
  /\ \/ /\ data' = [data EXCEPT ![f] = Append(@, nRead + 1)]
        /\ nRead' = nRead + 1 /\ UNCHANGED <<copyPc, spoiled>>
     \/ /\ data' = [data EXCEPT ![f] = Append(@, 0)] /\ spoiled' = TRUE
        /\ nRead' = nRead + 1 /\ UNCHANGED copyPc
     \/ copyPc' = "bigOut" /\ UNCHANGED <<data, nRead, spoiled>>
  /\ UNCHANGED <<dir, f, errno, ret>>

\* The last read finds the end of the file, or fails.
BigEnd ==
  /\ At("bigCopy") /\ nRead = size
  /\ CpReturn(TRUE) \/ (copyPc' = "bigOut" /\ UNCHANGED ret)
  /\ UNCHANGED <<dir, data, f, nRead, errno, spoiled>>

BigOut ==
  /\ At("bigOut")
  /\ Unlink(dst)
  /\ CpReturn(FALSE)
  /\ UNCHANGED <<data, f, nRead, errno, spoiled>>

UnlinkSrc ==
  /\ At("unlinkSrc") /\ copyPc' = "idle" /\ ret' = TRUE
  /\ Unlink("a")
  /\ UNCHANGED <<data, f, nRead, errno, spoiled>>

CopyStep ==
  \/ Rename \/ Link \/ UnlinkDst \/ CrossOpen \/ CrossMap \/ CrossOut
  \/ BigOpen \/ BigCopy \/ BigEnd \/ BigOut \/ UnlinkSrc

Crash ==
  /\ copyPc # "idle" /\ copyPc' = "idle" /\ ret' = FALSE
  /\ UNCHANGED <<call, dir, data, f, nRead, errno, intrusions, spoiled>>

\* The other process.
Intrude ==
  /\ intrusions < MaxIntrusions /\ dir["b"] = None
  /\ intrusions' = intrusions + 1
  /\ dir' = [dir EXCEPT !["b"] = NewInode]
  /\ data' = [data EXCEPT ![NewInode] = Theirs]
  /\ UNCHANGED <<call, copyPc, f, nRead, errno, ret, spoiled>>

CopyNext == CpFile \/ MovFile \/ CopyStep \/ Crash \/ Intrude

CopySpec == CopyInit /\ [][CopyNext]_copyVars /\ WF_copyVars(CopyStep)

----------------------------------------------------------------------------
Whole(p) == dir[p] \in Inodes /\ data[dir[p]] = Source

\* Wherever the client dies and whatever fails, the contents of "a" are
\* complete under one of the two names.
SourceKept == spoiled \/ Whole("a") \/ Whole("b")

\* A copy or a move that returned true has left the complete contents at dst.
CopyComplete == copyPc = "idle" /\ ret => spoiled \/ Whole(dst)

\* CpFile and MovFile return, unless unlink leaves what it should remove again
\* and again: a directory, or a name in a directory that is not to be written.
CopyReturns ==
  (copyPc # "idle" ~> copyPc = "idle") \/ []<><<UnlinkDst /\ UNCHANGED dir>>_copyVars
=============================================================================
