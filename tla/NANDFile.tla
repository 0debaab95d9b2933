------------------------------ MODULE NANDFile ------------------------------
(* One file of the save data and its scratch file on the host, and the NAND *)
(* library calls on it (runtime/src/hle/storage/nand_api.cpp and the safe   *)
(* open and close of nand_async.cpp).                                       *)
(*                                                                          *)
(* Guest threads are cooperative fibers and no NAND call switches them, so  *)
(* a call is one step, except that a commit leaves a gap for a loss of      *)
(* power between the rename and the flush of the directory. Anywhere else   *)
(* inside a call a loss of power finds nothing that it does not find before *)
(* or after the call: what a call did to the disk adds to the directories   *)
(* and contents the disk may hold, and only a flush takes any away.         *)
(*                                                                          *)
(* A content is the set of the writes that are in it.                       *)
EXTENDS Naturals, FiniteSets

CONSTANTS
    Info,      \* the NANDFileInfo structures of the game
    Write,     \* its NANDWrite calls, each made once
    Inode,     \* the host's files, as many as an instance needs
    None,
    Fails,     \* the host calls that may fail
    Overlap,   \* the kinds of open handle under which the game opens or deletes
    Opens,     \* the calls the game opens the file with
    Retries,   \* does the game close again after a close that failed?
    Unflushed  \* bound: the directories the disk may hold, before an open
               \* or a delete adds more

HostCall == {"remove", "copy", "open", "reopen", "flush", "rename", "dirsync"}

ASSUME FailsAssumption == Fails \subseteq HostCall

\* A file that is missing is no file, no structure of the game and no content.
ASSUME NoneAssumption ==
    /\ Inode # {} /\ None \notin Inode /\ None \notin Info
    /\ \A c \in SUBSET Write : c # None

VARIABLES
    fs,          \* the host's file system
    handle,      \* per NANDFileInfo, the live handle its descriptor names
    flag,        \* its openFlag
    wrote,       \* ghost: what was written through it since it was opened
    acked,       \* ghost: what a close reported as saved, see Saved
    committing,  \* the NANDFileInfo whose rename is not yet durable
    written      \* bound: the writes made so far

vars == <<fs, handle, flag, wrote, acked, committing, written>>

Content == SUBSET Write
Names   == [target : Inode \cup {None}, scratch : Inode \cup {None}]

\* Where a handle writes: in place, or to a scratch file, its shadow.
Handle == [ino : Inode, kind : {"read", "direct", "shadow"}]
NoHandle == [kind |-> "none"]

TypeOK ==
    /\ fs \in [dir : Names, ondisk : SUBSET Names,
               data : [Inode -> Content], may : [Inode -> SUBSET Content]]
    /\ fs.dir \in fs.ondisk
    /\ handle \in [Info -> Handle \cup {NoHandle}]
    /\ flag \in [Info -> {"NONE", "OPEN", "CLOSED", "SAFE_OPEN", "SAFE_CLOSED"}]
    /\ wrote \in [Info -> Content]
    /\ acked \in Content /\ written \in Content
    /\ committing \in Info \cup {None}
-----------------------------------------------------------------------------
(* The host's file system: the live directory and every directory that may  *)
(* be on the disk; per file its live content and those that may be.         *)

Renames(s, d) == [s EXCEPT !.dir = d, !.ondisk = @ \cup {d}]

Target(s)  == s.dir.target
Scratch(s) == s.dir.scratch

WithTarget(s, i)  == Renames(s, [s.dir EXCEPT !.target = i])
WithScratch(s, i) == Renames(s, [s.dir EXCEPT !.scratch = i])

\* A new file's content reaches the disk piece by piece.
CopiedTo(s, i, c) == [s EXCEPT !.data[i] = c, !.may[i] = SUBSET c]

WrittenTo(s, i, w) ==
    [s EXCEPT !.data[i] = @ \cup {w}, !.may[i] = @ \cup {c \cup {w} : c \in @}]

Truncated(s, i) == [s EXCEPT !.data[i] = {}, !.may[i] = @ \cup {{}}]

FlushFileToDisk(s, i) == [s EXCEPT !.may[i] = {s.data[i]}]

DirectoryFlushed(s) == [s EXCEPT !.ondisk = {s.dir}]

InUse(i) ==
    \/ \E d \in fs.ondisk : i \in {d.target, d.scratch}
    \/ \E f \in Info : handle[f] # NoHandle /\ handle[f].ino = i

\* Which free file the host takes makes no difference.
HasFree == \E i \in Inode : ~InUse(i)
Fresh   == CHOOSE i \in Inode : ~InUse(i)

MayFail(c) == c \in Fails
-----------------------------------------------------------------------------
(* Opening                                                                  *)

IsHostPathOpen == \E f \in Info : handle[f] # NoHandle

\* Bounds: the game leaves an open handle alone, and opens or deletes the file
\* only under handles of the kinds Overlap names.
AllowsOverlap ==
    \A f \in Info : handle[f] = NoHandle \/ handle[f].kind \in Overlap

WithinBounds == HasFree /\ Cardinality(fs.ondisk) <= Unflushed

MayOpen(f, call) ==
    /\ committing = None
    /\ call \in Opens /\ handle[f] = NoHandle /\ AllowsOverlap /\ WithinBounds

Opened(f, h, fl) ==
    /\ handle' = [handle EXCEPT ![f] = h]
    /\ flag' = [flag EXCEPT ![f] = fl]
    /\ wrote' = [wrote EXCEPT ![f] = {}]
    /\ UNCHANGED <<committing, written>>

ShadowOf(i) == [ino |-> i, kind |-> "shadow"]
DirectOf(i) == [ino |-> i, kind |-> "direct"]
ReaderOf(i) == [ino |-> i, kind |-> "read"]

\* DiscardStaleSafeTemp, then copy_file.
Discarded == IF Scratch(fs) = None THEN fs ELSE WithScratch(fs, None)
SeededEmpty == WithScratch(CopiedTo(Discarded, Fresh, {}), Fresh)
Seeded == WithScratch(CopiedTo(Discarded, Fresh, fs.data[Target(fs)]), Fresh)

\* The file system after an attempt at a shadow that failed: the old scratch
\* stays, or the new one is removed, or that fails too.
SeedFailures ==
    (IF MayFail("remove") /\ Scratch(fs) # None THEN {fs} ELSE {})
    \cup
    (IF MayFail("copy") \/ MayFail("open")
     THEN {WithScratch(Seeded, None)} \cup (IF MayFail("remove") THEN {Seeded} ELSE {})
     ELSE {})

NANDSafeOpen(f) ==
    /\ MayOpen(f, "NANDSafeOpen")
    /\ Target(fs) # None
    /\ \/ fs' = Seeded /\ Opened(f, ShadowOf(Fresh), "SAFE_OPEN")
       \/ /\ fs' \in SeedFailures
          /\ UNCHANGED <<handle, flag, wrote, committing, written>>
    /\ UNCHANGED acked

\* Mode 1 of either open: the original, in place.
OpensWhatIsNotThere(f, call, fl) ==
    /\ MayOpen(f, call)
    /\ Opened(f, ReaderOf(Target(fs)), fl)
    /\ UNCHANGED <<fs, acked>>

OpensForReading(f, call, fl) ==
    /\ MayOpen(f, call)
    /\ Target(fs) # None
    /\ Opened(f, ReaderOf(Target(fs)), fl)
    /\ UNCHANGED <<fs, acked>>

NANDSafeOpenRead(f) == OpensForReading(f, "NANDSafeOpen", "SAFE_OPEN")
NANDOpenRead(f)     == OpensForReading(f, "NANDOpen", "OPEN")

\* fopen r+b, and w+b when the host refuses that: what was saved is given up.
InPlace(f, s) ==
    /\ \/ fs' = s /\ UNCHANGED acked
       \/ MayFail("reopen") /\ fs' = Truncated(s, Target(s)) /\ acked' = {}
    /\ Opened(f, DirectOf(Target(s)), "OPEN")

TakesShadow == ~IsHostPathOpen

NANDOpen(f) ==
    /\ MayOpen(f, "NANDOpen")
    /\ Target(fs) # None
    /\ \/ TakesShadow /\ fs' = Seeded /\ Opened(f, ShadowOf(Fresh), "OPEN") /\ UNCHANGED acked
       \/ TakesShadow /\ \E s \in SeedFailures : InPlace(f, s)
       \/ ~TakesShadow /\ InPlace(f, fs)

WithNewFile == WithTarget(CopiedTo(fs, Fresh, {}), Fresh)

NANDOpenCreates(f) ==
    /\ MayOpen(f, "NANDOpen")
    /\ Target(fs) = None
    /\ fs' = WithNewFile /\ Opened(f, DirectOf(Fresh), "OPEN")
    /\ UNCHANGED acked

NANDCreate ==
    /\ committing = None /\ WithinBounds
    /\ Target(fs) = None
    /\ fs' = WithNewFile
    /\ UNCHANGED <<handle, flag, wrote, acked, committing, written>>

NANDDelete ==
    /\ committing = None /\ AllowsOverlap /\ WithinBounds
    /\ Target(fs) # None
    /\ fs' = WithTarget(fs, None)
    /\ acked' = {}
    /\ UNCHANGED <<handle, flag, wrote, committing, written>>

NANDWrite(f, w) ==
    /\ committing = None
    /\ handle[f] # NoHandle /\ handle[f].kind # "read"
    /\ w \notin written
    /\ fs' = WrittenTo(fs, handle[f].ino, w)
    /\ wrote' = [wrote EXCEPT ![f] = @ \cup {w}]
    /\ written' = written \cup {w}
    /\ UNCHANGED <<handle, flag, acked, committing>>
-----------------------------------------------------------------------------
(* Closing. NANDSafeClose of a plain handle is NANDClose, and NANDClose of  *)
(* a safe one is refused, so that the open flag decides.                    *)

IsOpen(f) == flag[f] \in {"OPEN", "SAFE_OPEN"}
ClosedFlag(f) == IF flag[f] = "OPEN" THEN "CLOSED" ELSE "SAFE_CLOSED"

\* What counts as saved: the writes of the session, unless the file itself is
\* so new, or its predecessor so lately deleted, that the directory entry is
\* not on the disk yet; no call flushes that but a commit.
EntryOnDisk == \A d \in fs.ondisk : d.target = Target(fs)
Saved(f) == IF EntryOnDisk \/ committing = f THEN wrote[f] ELSE {}

ReportsSuccess(f, saved) ==
    /\ flag' = [flag EXCEPT ![f] = ClosedFlag(f)]
    /\ acked' = acked \cup saved
    /\ wrote' = [wrote EXCEPT ![f] = {}]

ReportsFailure(f) == UNCHANGED <<flag, acked, wrote>>

MayClose(f) == committing = None /\ IsOpen(f) /\ UNCHANGED written

\* CommitAndCloseFd takes the handle out of the table before anything else.
Retires(f) == handle' = [handle EXCEPT ![f] = NoHandle]

ScratchDropped(s) == IF Scratch(s) = None THEN {s}
                     ELSE {WithScratch(s, None)} \cup (IF MayFail("remove") THEN {s} ELSE {})

CloseReader(f) ==
    /\ MayClose(f) /\ handle[f] # NoHandle /\ handle[f].kind = "read"
    /\ Retires(f) /\ ReportsSuccess(f, Saved(f))
    /\ UNCHANGED <<fs, committing>>

CloseDirect(f) ==
    /\ MayClose(f) /\ handle[f] # NoHandle /\ handle[f].kind = "direct"
    /\ Retires(f)
    /\ \/ fs' = FlushFileToDisk(fs, handle[f].ino) /\ ReportsSuccess(f, Saved(f))
       \/ MayFail("flush") /\ ReportsFailure(f) /\ UNCHANGED fs
    /\ UNCHANGED committing

ShadowNotFlushed(f) == fs
FlushedShadow(f) == FlushFileToDisk(fs, handle[f].ino)

\* rename(scratch, target), whatever file the name of the scratch now names
Replaced(s) == Renames(s, [target |-> Scratch(s), scratch |-> None])

CloseShadow(f) ==
    /\ MayClose(f) /\ handle[f] # NoHandle /\ handle[f].kind = "shadow"
    /\ Retires(f)
    /\ \/ /\ Scratch(fs) # None
          /\ fs' = Replaced(FlushedShadow(f))
          /\ committing' = f
          /\ UNCHANGED <<flag, acked, wrote>>
       \/ /\ MayFail("flush")
          /\ fs' \in ScratchDropped(fs)
          /\ ReportsFailure(f) /\ UNCHANGED committing
       \/ /\ MayFail("rename") \/ Scratch(fs) = None
          /\ fs' \in ScratchDropped(FlushedShadow(f))
          /\ ReportsFailure(f) /\ UNCHANGED committing

\* AtomicReplaceHostFile flushes the directory and does not look how it went;
\* when it failed, the writes do not count as saved.
CommitReturns(f) ==
    /\ committing = f
    /\ committing' = None
    /\ \/ fs' = DirectoryFlushed(fs) /\ ReportsSuccess(f, Saved(f))
       \/ MayFail("dirsync") /\ UNCHANGED fs /\ ReportsSuccess(f, {})
    /\ UNCHANGED <<handle, written>>

\* A second NANDClose finds no handle and is content with that, whatever became
\* of the writes; a second NANDSafeClose is not.
CloseAgain(f) ==
    /\ Retries /\ MayClose(f) /\ handle[f] = NoHandle
    /\ flag[f] = "OPEN" /\ ReportsSuccess(f, {})
    /\ UNCHANGED <<fs, handle, committing>>
-----------------------------------------------------------------------------
(* The machine stops, for good or to be started again. The disk holds one   *)
(* of the directories and contents it may hold; a process that only dies    *)
(* leaves the live ones.                                                    *)

Crash ==
    \E d \in fs.ondisk :
      \E c \in [{d.target, d.scratch} \ {None} -> Content] :
        /\ \A i \in DOMAIN c : c[i] \in fs.may[i]
        /\ fs' = [dir    |-> d,
                  ondisk |-> {d},
                  data   |-> [i \in Inode |-> IF i \in DOMAIN c THEN c[i] ELSE {}],
                  may    |-> [i \in Inode |-> IF i \in DOMAIN c THEN {c[i]} ELSE {{}}]]
        /\ handle' = [f \in Info |-> NoHandle]
        /\ flag' = [f \in Info |-> "NONE"]
        /\ wrote' = [f \in Info |-> {}]
        /\ committing' = None
        /\ UNCHANGED <<acked, written>>

\* The game starts without the file, or with one it saved earlier.
Init ==
    /\ \E t \in {None, CHOOSE i \in Inode : TRUE} :
         fs = [dir    |-> [target |-> t, scratch |-> None],
               ondisk |-> {[target |-> t, scratch |-> None]},
               data   |-> [i \in Inode |-> {}],
               may    |-> [i \in Inode |-> {{}}]]
    /\ handle = [f \in Info |-> NoHandle]
    /\ flag = [f \in Info |-> "NONE"]
    /\ wrote = [f \in Info |-> {}]
    /\ acked = {} /\ written = {} /\ committing = None

Close(f) ==
    CloseReader(f) \/ CloseDirect(f) \/ CloseShadow(f) \/ CommitReturns(f) \/ CloseAgain(f)

Next ==
    \/ \E f \in Info :
         \/ NANDSafeOpen(f) \/ NANDSafeOpenRead(f)
         \/ NANDOpen(f) \/ NANDOpenRead(f) \/ NANDOpenCreates(f)
         \/ \E w \in Write : NANDWrite(f, w)
         \/ Close(f)
    \/ NANDCreate \/ NANDDelete \/ Crash

Spec == Init /\ [][Next]_vars
-----------------------------------------------------------------------------
(* Properties                                                               *)

ContentOf(c, i) == IF i = None THEN None ELSE c[i]

\* What a loss of power may leave of the file.
AfterCrash ==
    UNION {IF d.target = None THEN {None} ELSE fs.may[d.target] : d \in fs.ondisk}

Session(f) ==
    IF handle[f] # NoHandle /\ handle[f].kind = "shadow"
    THEN [kind |-> "prepared", content |-> fs.data[handle[f].ino]]
    ELSE IF handle[f] # NoHandle /\ handle[f].kind = "direct" THEN [kind |-> "direct"]
    ELSE [kind |-> "closed"]

File == INSTANCE TransactionalFile
    WITH Client <- Info, NoFile <- None,
         content <- ContentOf(fs.data, Target(fs)),
         maybe <- AfterCrash,
         session <- [f \in Info |-> Session(f)]

(* The shadow files and their commit make every session a transaction: its  *)
(* writes appear in the file all at once or never, in a reader's eyes and   *)
(* after a loss of power at any point, and a close that fails leaves the    *)
(* file as it was (nand_async.cpp 286-385, nand_api.cpp 94-138).            *)
AllOrNothing == File!Spec

(* What the first close of a session saved, its failures apart that the     *)
(* code overlooks, is in the file from then on, until it is deleted,        *)
(* whenever the power goes (nand_async.cpp 326-385).                        *)
SavedIsDurable == \A c \in AfterCrash : acked # {} => c # None /\ acked \subseteq c

(* A close that reports success leaves the session's writes in the file: a  *)
(* failure is reported, never swallowed (nand_api.cpp 191-200).             *)
SuccessIsReal ==
    [][\A f \in Info : IsOpen(f) /\ flag'[f] = ClosedFlag(f)
           => wrote[f] \subseteq ContentOf(fs.data, Target(fs))']_vars
=============================================================================
