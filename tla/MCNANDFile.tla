----------------------------- MODULE MCNANDFile -----------------------------
(* Small instances of NANDFile for TLC.                                     *)
EXTENDS NANDFile, TLC

CONSTANTS f1, f2, w1, w2

MCInfo  == {f1, f2}
MCWrite == {w1, w2}
MCInode == 1 .. 3

BothOpens    == {"NANDSafeOpen", "NANDOpen"}
PlainOpens   == {"NANDOpen"}
ReadersOnly  == {"read"}

EveryFailure == HostCall
OnlyFlush    == {"flush"}

\* NANDFileInfo structures are alike, and so are writes.
Alike == Permutations(MCInfo) \cup Permutations(MCWrite)

\* A free file is overwritten before it is read again, so that what is left in
\* it does not tell states apart.
WhatIsUsed ==
    [fs EXCEPT !.data = [i \in Inode |-> IF InUse(i) THEN @[i] ELSE {}],
               !.may  = [i \in Inode |-> IF InUse(i) THEN @[i] ELSE {{}}]]
UsedView == <<WhatIsUsed, handle, flag, wrote, acked, committing, written>>
=============================================================================
