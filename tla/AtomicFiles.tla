----------------------------- MODULE AtomicFiles -----------------------------
(***************************************************************************)
(* What the file system promises (filesys/filesys.h, filesys/openfile.h):  *)
(* named files of a fixed size, each a sequence of bytes.  An operation    *)
(* touches the file it names and no other; a write changes the bytes it    *)
(* covers, up to the end of the file; a read returns those it covers.      *)
(***************************************************************************)
EXTENDS Integers, Sequences

CONSTANTS Names, Bytes, MaxTransfer, None

VARIABLES
    files,  \* the bytes of each file, None if there is no such file
    data    \* what the last read returned

vars == <<files, data>>

Init == files = [n \in Names |-> None] /\ data = <<>>

Create(n) ==
    /\ files[n] = None
    /\ files'[n] # None
    /\ files' = [files EXCEPT ![n] = files'[n]]
    /\ UNCHANGED data

Remove(n) ==
    /\ files[n] # None
    /\ files' = [files EXCEPT ![n] = None]
    /\ UNCHANGED data

Write(n, pos, bytes) ==
    /\ files[n] # None
    /\ files' = [files EXCEPT ![n] =
           [i \in DOMAIN @ |-> IF pos < i /\ i <= pos + Len(bytes) THEN bytes[i - pos] ELSE @[i]]]
    /\ UNCHANGED data

Read(n, pos, k) ==
    /\ files[n] # None
    /\ data' = SubSeq(files[n], pos + 1,
                      IF pos + k < Len(files[n]) THEN pos + k ELSE Len(files[n]))
    /\ UNCHANGED files

Positions(n) == 0 .. IF files[n] = None THEN 0 ELSE Len(files[n])

Next == \E n \in Names :
    \/ Create(n) \/ Remove(n)
    \/ \E pos \in Positions(n), k \in 1 .. MaxTransfer :
         Read(n, pos, k) \/ \E bytes \in [1 .. k -> Bytes] : Write(n, pos, bytes)

Spec == Init /\ [][Next]_vars
=============================================================================
