-------------------------- MODULE NANDFile_proofs ---------------------------
(* The save data survives: the sessions of one file are transactions, for   *)
(* any number of structures, writes and directories not yet on the disk,    *)
(* whatever host call fails, when the game opens a file for writing only    *)
(* while at most readers hold it. The types need no such discipline.        *)
EXTENDS NANDFile, TLAPS

(* The discipline of the game SavedSurvives and SessionsAreTransactions rest *)
(* on: two sessions that write share the name of the scratch file.           *)
OneSession == Overlap \subseteq {"read"}

FileSystem == [dir : Names, ondisk : SUBSET Names,
               data : [Inode -> Content], may : [Inode -> SUBSET Content]]

Targets(s) == {d.target : d \in s.ondisk}

-----------------------------------------------------------------------------
(* The inductive invariant.                                                 *)

Live(s) == \A i \in Inode : s.data[i] \in s.may[i]

Writes(f) == handle[f] # NoHandle /\ handle[f].kind # "read"

OneWriter == \A f, g \in Info : Writes(f) /\ Writes(g) => f = g

Reading(f) == wrote[f] = {}

InPlaceOf(f) == handle[f].ino = Target(fs) /\ wrote[f] \subseteq fs.data[handle[f].ino]

Shadowing(f) == /\ handle[f].ino = Scratch(fs) /\ handle[f].ino \notin Targets(fs)
                /\ Target(fs) # None
                /\ acked \cup wrote[f] \subseteq fs.data[handle[f].ino]

Sessions ==
    \A f \in Info : handle[f] # NoHandle =>
        /\ handle[f].kind = "read" => Reading(f)
        /\ handle[f].kind = "direct" => InPlaceOf(f)
        /\ handle[f].kind = "shadow" => Shadowing(f)

(* Between the rename and the flush of the directory.                       *)
Renamed ==
    committing # None =>
        /\ \A g \in Info : ~Writes(g)
        /\ Target(fs) # None
        /\ acked \cup wrote[committing] \subseteq fs.data[Target(fs)]
        /\ fs.may[Target(fs)] = {fs.data[Target(fs)]}

IInv == TypeOK /\ Live(fs) /\ OneWriter /\ Sessions /\ Renamed /\ SavedIsDurable

-----------------------------------------------------------------------------
(* The host's file system.                                                  *)

USE NoneAssumption

LEMMA RenamesFields ==
    ASSUME NEW s \in FileSystem, NEW d \in Names
    PROVE  /\ Renames(s, d) \in FileSystem /\ Renames(s, d).dir = d
           /\ Renames(s, d).ondisk = s.ondisk \cup {d}
           /\ Renames(s, d).data = s.data /\ Renames(s, d).may = s.may
           /\ Targets(Renames(s, d)) = Targets(s) \cup {d.target}
<1>1. /\ Renames(s, d) \in FileSystem /\ Renames(s, d).dir = d
      /\ Renames(s, d).ondisk = s.ondisk \cup {d}
      /\ Renames(s, d).data = s.data /\ Renames(s, d).may = s.may
  BY DEF Renames, FileSystem
<1>2. Targets(Renames(s, d)) = Targets(s) \cup {d.target}
  BY <1>1 DEF Targets
<1> QED
  BY <1>1, <1>2

LEMMA TargetFields ==
    ASSUME NEW s \in FileSystem, NEW i \in Inode \cup {None}
    PROVE  /\ WithTarget(s, i) \in FileSystem /\ Target(WithTarget(s, i)) = i
           /\ Scratch(WithTarget(s, i)) = Scratch(s)
           /\ WithTarget(s, i).dir \in WithTarget(s, i).ondisk
           /\ WithTarget(s, i).data = s.data /\ WithTarget(s, i).may = s.may
           /\ Targets(WithTarget(s, i)) = Targets(s) \cup {i}
<1> DEFINE d == [s.dir EXCEPT !.target = i]
<1>1. d \in Names /\ d.target = i /\ d.scratch = s.dir.scratch
  BY DEF FileSystem, Names
<1> DEFINE r == WithTarget(s, i)
<1>3. r = Renames(s, d)
  BY DEF WithTarget
<1> HIDE DEF d, r
<1>4. /\ r \in FileSystem /\ r.dir = d /\ r.ondisk = s.ondisk \cup {d}
      /\ r.data = s.data /\ r.may = s.may /\ Targets(r) = Targets(s) \cup {d.target}
  BY <1>1, <1>3, RenamesFields
<1>5. Target(r) = d.target /\ Scratch(r) = d.scratch /\ Scratch(s) = s.dir.scratch /\ Target(s) = s.dir.target
  BY <1>4 DEF Target, Scratch
<1> QED
  BY <1>1, <1>4, <1>5 DEF r

LEMMA ScratchFields ==
    ASSUME NEW s \in FileSystem, NEW i \in Inode \cup {None}, s.dir \in s.ondisk
    PROVE  /\ WithScratch(s, i) \in FileSystem /\ Scratch(WithScratch(s, i)) = i
           /\ Target(WithScratch(s, i)) = Target(s)
           /\ WithScratch(s, i).dir \in WithScratch(s, i).ondisk
           /\ WithScratch(s, i).data = s.data /\ WithScratch(s, i).may = s.may
           /\ Targets(WithScratch(s, i)) = Targets(s)
<1> DEFINE d == [s.dir EXCEPT !.scratch = i]
<1>1. d \in Names /\ d.scratch = i /\ d.target = s.dir.target
  BY DEF FileSystem, Names
<1>2. s.dir.target \in Targets(s)
  BY DEF Targets
<1> DEFINE r == WithScratch(s, i)
<1>3. r = Renames(s, d)
  BY DEF WithScratch
<1> HIDE DEF d, r
<1>4. /\ r \in FileSystem /\ r.dir = d /\ r.ondisk = s.ondisk \cup {d}
      /\ r.data = s.data /\ r.may = s.may /\ Targets(r) = Targets(s) \cup {d.target}
  BY <1>1, <1>3, RenamesFields
<1>5. Target(r) = d.target /\ Scratch(r) = d.scratch /\ Scratch(s) = s.dir.scratch /\ Target(s) = s.dir.target
  BY <1>4 DEF Target, Scratch
<1> QED
  BY <1>1, <1>2, <1>4, <1>5 DEF r

(* Changing the content of one file.                                        *)
Filled(s, i, c, m) == [s EXCEPT !.data[i] = c, !.may[i] = m]

LEMMA FilledFields ==
    ASSUME NEW s \in FileSystem, NEW i \in Inode, NEW c \in Content, NEW m \in SUBSET Content
    PROVE  /\ Filled(s, i, c, m) \in FileSystem
           /\ Filled(s, i, c, m).dir = s.dir /\ Filled(s, i, c, m).ondisk = s.ondisk
           /\ Targets(Filled(s, i, c, m)) = Targets(s)
           /\ Filled(s, i, c, m).data[i] = c /\ Filled(s, i, c, m).may[i] = m
           /\ \A j \in Inode : j # i => /\ Filled(s, i, c, m).data[j] = s.data[j]
                                        /\ Filled(s, i, c, m).may[j] = s.may[j]
<1> DEFINE t == Filled(s, i, c, m)
<1>1. t \in FileSystem /\ t.dir = s.dir /\ t.ondisk = s.ondisk
  BY DEF Filled, FileSystem
<1>2. t.data = [s.data EXCEPT ![i] = c] /\ t.may = [s.may EXCEPT ![i] = m]
  BY DEF Filled, FileSystem
<1>3. s.data \in [Inode -> Content] /\ s.may \in [Inode -> SUBSET Content]
  BY DEF FileSystem
<1> HIDE DEF t
<1>4. /\ t.data[i] = c /\ t.may[i] = m
      /\ \A j \in Inode : j # i => t.data[j] = s.data[j] /\ t.may[j] = s.may[j]
  BY <1>2, <1>3
<1> QED
  BY <1>1, <1>4 DEF t, Targets

(* What the operations on a file's content do to it.                        *)
WithWrite(m, w) == m \cup {b \cup {w} : b \in m}

LEMMA Writing ==
    ASSUME NEW s \in FileSystem, Live(s), NEW i \in Inode, NEW w \in Write
    PROVE  /\ WrittenTo(s, i, w) = Filled(s, i, s.data[i] \cup {w}, WithWrite(s.may[i], w))
           /\ s.data[i] \cup {w} \in Content /\ WithWrite(s.may[i], w) \in SUBSET Content
<1>1. s.data[i] \in Content /\ s.may[i] \in SUBSET Content
  BY DEF FileSystem, Live
<1> QED
  BY <1>1 DEF WrittenTo, Filled, Content, FileSystem, WithWrite

LEMMA Contents ==
    ASSUME NEW s \in FileSystem, Live(s), NEW i \in Inode
    PROVE  /\ Truncated(s, i) = Filled(s, i, {}, s.may[i] \cup {{}})
           /\ s.may[i] \cup {{}} \in SUBSET Content /\ {} \in Content
           /\ FlushFileToDisk(s, i) = Filled(s, i, s.data[i], {s.data[i]})
           /\ s.data[i] \in Content /\ s.data[i] \in s.may[i]
<1>1. s.data[i] \in Content /\ s.may[i] \in SUBSET Content /\ s.data[i] \in s.may[i]
  BY DEF FileSystem, Live
<1>2. Truncated(s, i) = Filled(s, i, {}, s.may[i] \cup {{}})
  BY DEF Truncated, Filled, FileSystem
<1>3. FlushFileToDisk(s, i) = Filled(s, i, s.data[i], {s.data[i]})
  <2>1. s.data = [s.data EXCEPT ![i] = s.data[i]]
    BY DEF FileSystem
  <2>2. s = [s EXCEPT !.data = s.data]
    BY DEF FileSystem
  <2> QED
    BY <2>1, <2>2 DEF FlushFileToDisk, Filled, FileSystem
<1> QED
  BY <1>1, <1>2, <1>3 DEF Content

(* A file that is open or in a directory is not free.                       *)
LEMMA FreshIsFree ==
    ASSUME TypeOK, HasFree
    PROVE  /\ Fresh \in Inode /\ ~InUse(Fresh) /\ Fresh \notin Targets(fs)
           /\ Fresh # Target(fs) /\ Fresh # Scratch(fs) /\ Fresh # None
           /\ \A f \in Info : handle[f] # NoHandle => handle[f].ino # Fresh
<1>1. Fresh \in Inode /\ ~InUse(Fresh)
  BY DEF HasFree, Fresh
<1>2. fs.dir \in fs.ondisk
  BY DEF TypeOK
<1> QED
  BY <1>1, <1>2 DEF InUse, Targets, Target, Scratch

(* A file system that differs only in files that are no target.             *)
Beside(s) ==
    /\ s \in FileSystem /\ s.dir \in s.ondisk /\ Live(s)
    /\ Target(s) = Target(fs) /\ Targets(s) = Targets(fs)
    /\ \A i \in Inode \cap Targets(fs) : s.data[i] = fs.data[i] /\ s.may[i] = fs.may[i]

LEMMA BesideItself == TypeOK /\ Live(fs) => Beside(fs)
BY DEF Beside, TypeOK, FileSystem

LEMMA Dropped ==
    ASSUME NEW s, Beside(s)
    PROVE  Beside(WithScratch(s, None)) /\ Scratch(WithScratch(s, None)) = None
<1> DEFINE t == WithScratch(s, None)
<1>1. /\ t \in FileSystem /\ Scratch(t) = None /\ Target(t) = Target(s) /\ t.dir \in t.ondisk
      /\ t.data = s.data /\ t.may = s.may /\ Targets(t) = Targets(s)
  BY ScratchFields DEF Beside
<1> HIDE DEF t
<1>2. Beside(t)
  BY <1>1 DEF Beside, Live
<1> QED
  BY <1>1, <1>2 DEF t

(* A free file is filled and becomes the scratch file.                      *)
LEMMA Seeding ==
    ASSUME TypeOK, Live(fs), HasFree, Target(fs) # None
    PROVE  /\ Beside(Discarded) /\ Beside(Seeded) /\ Scratch(Seeded) = Fresh
           /\ Seeded.data[Fresh] = fs.data[Target(fs)] /\ Target(fs) \in Inode
           /\ \A s \in SeedFailures : Beside(s)
<1>1. Beside(Discarded)
  BY BesideItself, Dropped DEF Discarded
<1>2. /\ Target(fs) \in Inode /\ fs.data[Target(fs)] \in Content /\ fs \in FileSystem
      /\ Target(fs) \in Targets(fs)
  BY DEF TypeOK, Names, Target, Targets, FileSystem
<1> DEFINE c == fs.data[Target(fs)]
           u == CopiedTo(Discarded, Fresh, c)
<1>3. /\ u \in FileSystem /\ u.dir = Discarded.dir /\ u.ondisk = Discarded.ondisk
      /\ Targets(u) = Targets(Discarded) /\ u.data[Fresh] = c /\ u.may[Fresh] = SUBSET c
      /\ \A j \in Inode : j # Fresh => u.data[j] = Discarded.data[j] /\ u.may[j] = Discarded.may[j]
  <2>1. c \in Content /\ SUBSET c \in SUBSET Content /\ Fresh \in Inode /\ Discarded \in FileSystem
    BY <1>1, <1>2, FreshIsFree DEF Content, Beside
  <2>2. u = Filled(Discarded, Fresh, c, SUBSET c)
    BY DEF CopiedTo, Filled
  <2> HIDE DEF u, c
  <2> QED
    BY <2>1, <2>2, FilledFields
<1>4. Beside(u)
  <2>1. c \in SUBSET c
    OBVIOUS
  <2> HIDE DEF u, c
  <2> QED
    BY <1>1, <1>3, <2>1, FreshIsFree DEF Beside, Live, Target
<1>5. Seeded = WithScratch(u, Fresh)
  BY DEF Seeded
<1> HIDE DEF u, c
<1> DEFINE t == WithScratch(u, Fresh)
<1>6. /\ t \in FileSystem /\ Scratch(t) = Fresh /\ Target(t) = Target(u) /\ t.dir \in t.ondisk
      /\ t.data = u.data /\ t.may = u.may /\ Targets(t) = Targets(u)
  BY <1>4, FreshIsFree, ScratchFields DEF Beside
<1> HIDE DEF t
<1>7. Beside(t)
  BY <1>4, <1>6 DEF Beside, Live
<1>8. Beside(Seeded) /\ Scratch(Seeded) = Fresh /\ Seeded.data[Fresh] = c
  BY <1>3, <1>5, <1>6, <1>7 DEF t
<1>9. ASSUME NEW s \in SeedFailures PROVE Beside(s)
  <2>1. s \in {fs, WithScratch(Seeded, None), Seeded}
    BY <1>9 DEF SeedFailures
  <2> QED
    BY <1>8, <2>1, BesideItself, Dropped
<1> QED
  BY <1>1, <1>2, <1>8, <1>9 DEF c

(* What a loss of power may leave depends on the targets only.              *)
LEMMA Leaves ==
    ASSUME NEW c
    PROVE  c \in AfterCrash <=>
             \E t \in Targets(fs) : (t = None /\ c = None) \/ (t # None /\ c \in fs.may[t])
BY DEF AfterCrash, Targets

LEMMA BesideLeaves ==
    ASSUME TypeOK, Beside(fs')
    PROVE  /\ AfterCrash' = AfterCrash /\ Target(fs)' = Target(fs)
           /\ Target(fs) # None => fs'.data[Target(fs)] = fs.data[Target(fs)]
<1>1. /\ Targets(fs') = Targets(fs) /\ Target(fs') = Target(fs)
      /\ \A i \in Inode \cap Targets(fs) : fs'.data[i] = fs.data[i] /\ fs'.may[i] = fs.may[i]
  BY DEF Beside
<1>2. \A t \in Targets(fs) : t # None => t \in Inode
  BY DEF TypeOK, Targets, Names
<1>3. Target(fs) \in Targets(fs)
  BY DEF TypeOK, Target, Targets
<1>4. \A c : c \in AfterCrash' <=>
               \E t \in Targets(fs') : (t = None /\ c = None) \/ (t # None /\ c \in fs'.may[t])
  BY DEF AfterCrash, Targets
<1>5. AfterCrash' = AfterCrash
  BY <1>1, <1>2, <1>4, Leaves
<1> QED
  BY <1>1, <1>2, <1>3, <1>5

-----------------------------------------------------------------------------
(* The sessions.                                                            *)

Flags == {"NONE", "OPEN", "CLOSED", "SAFE_OPEN", "SAFE_CLOSED"}

HandleTypes ==
    /\ handle \in [Info -> Handle \cup {NoHandle}] /\ flag \in [Info -> Flags]
    /\ wrote \in [Info -> Content]

GhostTypes == acked \in Content /\ written \in Content /\ committing \in Info \cup {None}

LEMMA TypeParts ==
    TypeOK <=> fs \in FileSystem /\ fs.dir \in fs.ondisk /\ HandleTypes /\ GhostTypes
BY DEF TypeOK, FileSystem, HandleTypes, GhostTypes, Flags

LEMMA Kinds ==
    /\ \A h \in Handle : h # NoHandle /\ h.kind \in {"read", "direct", "shadow"} /\ h.ino \in Inode
    /\ \A i \in Inode : /\ ShadowOf(i) \in Handle /\ ShadowOf(i).kind = "shadow" /\ ShadowOf(i).ino = i
                        /\ DirectOf(i) \in Handle /\ DirectOf(i).kind = "direct" /\ DirectOf(i).ino = i
                        /\ ReaderOf(i) \in Handle /\ ReaderOf(i).kind = "read" /\ ReaderOf(i).ino = i
<1>1. \A h \in Handle : h.kind \in {"read", "direct", "shadow"} /\ h.ino \in Inode
  BY DEF Handle
<1>2. NoHandle.kind = "none"
  BY DEF NoHandle
<1>3. \A h \in Handle : h # NoHandle
  BY <1>1, <1>2
<1> QED
  BY <1>1, <1>3 DEF Handle, ShadowOf, DirectOf, ReaderOf

LEMMA OnlyReaders ==
    ASSUME OneSession, AllowsOverlap
    PROVE  \A f \in Info : ~Writes(f)
BY DEF OneSession, AllowsOverlap, Writes

LEMMA AckedInside ==
    ASSUME TypeOK, Live(fs), SavedIsDurable
    PROVE  /\ Target(fs) # None => Target(fs) \in Inode /\ acked \subseteq fs.data[Target(fs)]
           /\ Target(fs) = None => acked = {}
<1>1. Target(fs) \in Targets(fs) /\ Target(fs) \in Inode \cup {None}
  BY DEF TypeOK, Names, Target, Targets
<1>2. CASE Target(fs) # None
  <2>1. fs.data[Target(fs)] \in AfterCrash
    BY <1>1, <1>2, Leaves DEF Live
  <2> QED
    BY <1>1, <1>2, <2>1 DEF SavedIsDurable
<1>3. CASE Target(fs) = None
  <2>1. None \in AfterCrash
    BY <1>1, <1>3, Leaves
  <2> QED
    BY <1>3, <2>1 DEF SavedIsDurable
<1> QED
  BY <1>2, <1>3

(* One session begins, while at most readers have the file.                 *)
LEMMA Opening ==
    ASSUME HandleTypes, \A g \in Info : ~Writes(g), NEW f \in Info, NEW h \in Handle,
           NEW fl \in Flags, Opened(f, h, fl)
    PROVE  /\ HandleTypes' /\ OneWriter' /\ UNCHANGED <<committing, written>>
           /\ handle'[f] = h /\ handle'[f] # NoHandle /\ wrote'[f] = {}
           /\ \A g \in Info : g # f => handle'[g] = handle[g] /\ wrote'[g] = wrote[g]
<1>1. /\ handle' = [handle EXCEPT ![f] = h] /\ flag' = [flag EXCEPT ![f] = fl]
      /\ wrote' = [wrote EXCEPT ![f] = {}] /\ UNCHANGED <<committing, written>>
  BY DEF Opened
<1>2. h # NoHandle /\ {} \in Content
  BY Kinds DEF Content
<1>3. HandleTypes'
  BY <1>1, <1>2 DEF HandleTypes
<1>4. /\ handle'[f] = h /\ wrote'[f] = {}
      /\ \A g \in Info : g # f => handle'[g] = handle[g] /\ wrote'[g] = wrote[g]
  BY <1>1 DEF HandleTypes
<1>5. \A g \in Info : g # f => ~Writes(g)'
  BY <1>4 DEF Writes
<1> QED
  BY <1>1, <1>2, <1>3, <1>4, <1>5 DEF OneWriter

(* Nothing but files that are no target changes, and no session writes: the *)
(* invariant is kept.                                                       *)
LEMMA BesideKept ==
    ASSUME IInv, Beside(fs'), \A g \in Info : ~Writes(g), committing = None,
           UNCHANGED <<handle, flag, wrote, committing, written, acked>>
    PROVE  IInv'
<1>1. TypeOK /\ fs' \in FileSystem /\ fs'.dir \in fs'.ondisk /\ Live(fs')
  BY DEF IInv, Beside
<1>2. TypeOK'
  BY <1>1, TypeParts DEF HandleTypes, GhostTypes, FileSystem, TypeOK
<1>3. OneWriter' /\ Renamed'
  BY DEF IInv, OneWriter, Renamed, Writes
<1>4. Sessions'
  <2>1. \A g \in Info : handle[g] # NoHandle => handle[g].kind = "read"
    BY DEF Writes
  <2> QED
    BY <2>1 DEF IInv, Sessions, Reading
<1>5. SavedIsDurable'
  BY <1>1, BesideLeaves DEF IInv, SavedIsDurable
<1> QED
  BY <1>1, <1>2, <1>3, <1>4, <1>5 DEF IInv

LEMMA SafeOpens ==
    ASSUME OneSession, IInv, NEW f \in Info, NEW fl \in Flags,
           committing = None, AllowsOverlap, HasFree, Target(fs) # None, acked' = acked,
           fs' = Seeded, Opened(f, ShadowOf(Fresh), fl)
    PROVE  IInv'
<1>1. /\ TypeOK /\ Live(fs) /\ SavedIsDurable /\ Sessions /\ HandleTypes /\ GhostTypes
      /\ \A g \in Info : ~Writes(g)
  BY OnlyReaders, TypeParts DEF IInv
<1>2. /\ Beside(fs') /\ Scratch(fs') = Fresh /\ fs'.data[Fresh] = fs.data[Target(fs)]
      /\ Fresh \in Inode /\ Fresh \notin Targets(fs)
  BY <1>1, Seeding, FreshIsFree
<1>3. ShadowOf(Fresh) \in Handle /\ ShadowOf(Fresh).kind = "shadow" /\ ShadowOf(Fresh).ino = Fresh
  BY <1>2, Kinds
<1>4. /\ HandleTypes' /\ OneWriter' /\ UNCHANGED <<committing, written>>
      /\ handle'[f] = ShadowOf(Fresh) /\ wrote'[f] = {}
      /\ \A g \in Info : g # f => handle'[g] = handle[g] /\ wrote'[g] = wrote[g]
  BY <1>1, <1>3, Opening
<1>5. /\ fs' \in FileSystem /\ fs'.dir \in fs'.ondisk /\ Live(fs') /\ Targets(fs') = Targets(fs)
      /\ Target(fs') # None
  BY <1>2 DEF Beside
<1>6. TypeOK'
  BY <1>1, <1>4, <1>5, TypeParts DEF GhostTypes, TypeOK, HandleTypes, FileSystem, Flags
<1>7. SavedIsDurable'
  BY <1>1, <1>2, BesideLeaves DEF SavedIsDurable
<1>8. acked \subseteq fs'.data[Fresh]
  BY <1>1, <1>2, AckedInside
<1>9. Sessions'
  <2> SUFFICES ASSUME NEW g \in Info, handle'[g] # NoHandle
               PROVE  /\ handle'[g].kind = "read" => Reading(g)'
                      /\ handle'[g].kind = "direct" => InPlaceOf(g)'
                      /\ handle'[g].kind = "shadow" => Shadowing(g)'
    BY DEF Sessions
  <2>1. CASE g = f
    BY <1>2, <1>3, <1>4, <1>5, <1>8, <2>1 DEF Shadowing
  <2>2. CASE g # f
    BY <1>1, <1>4, <2>2 DEF Sessions, Reading, Writes
  <2> QED
    BY <2>1, <2>2
<1> QED
  BY <1>4, <1>5, <1>6, <1>7, <1>9 DEF IInv, Renamed

LEMMA OpensToRead ==
    ASSUME IInv, NEW f \in Info, NEW fl \in Flags, \A g \in Info : ~Writes(g),
           committing = None, Target(fs) # None, UNCHANGED <<fs, acked>>,
           Opened(f, ReaderOf(Target(fs)), fl)
    PROVE  IInv'
<1>1. /\ TypeOK /\ Live(fs) /\ SavedIsDurable /\ Sessions /\ HandleTypes /\ GhostTypes
      /\ Target(fs) \in Inode /\ fs \in FileSystem /\ fs.dir \in fs.ondisk
  BY AckedInside, TypeParts DEF IInv
<1>2. ReaderOf(Target(fs)) \in Handle /\ ReaderOf(Target(fs)).kind = "read"
  BY <1>1, Kinds
<1>3. /\ HandleTypes' /\ OneWriter' /\ UNCHANGED <<committing, written>>
      /\ handle'[f] = ReaderOf(Target(fs)) /\ wrote'[f] = {}
      /\ \A g \in Info : g # f => handle'[g] = handle[g] /\ wrote'[g] = wrote[g]
  BY <1>1, <1>2, Opening
<1>4. TypeOK' /\ Live(fs') /\ SavedIsDurable'
  <2>1. GhostTypes' /\ fs' \in FileSystem /\ fs'.dir \in fs'.ondisk /\ Live(fs')
    BY <1>1, <1>3 DEF GhostTypes
  <2>2. TypeOK'
    BY <1>3, <2>1 DEF TypeOK, FileSystem, HandleTypes, GhostTypes, Flags
  <2>3. SavedIsDurable'
    BY <1>1 DEF SavedIsDurable, AfterCrash
  <2> QED
    BY <2>1, <2>2, <2>3
<1>5. Sessions'
  <2> SUFFICES ASSUME NEW g \in Info, handle'[g] # NoHandle
               PROVE  /\ handle'[g].kind = "read" => Reading(g)'
                      /\ handle'[g].kind = "direct" => InPlaceOf(g)'
                      /\ handle'[g].kind = "shadow" => Shadowing(g)'
    BY DEF Sessions
  <2>1. CASE g = f
    BY <1>2, <1>3, <2>1 DEF Reading
  <2>2. CASE g # f
    BY <1>1, <1>3, <2>2 DEF Sessions, Reading, Writes
  <2> QED
    BY <2>1, <2>2
<1> QED
  BY <1>3, <1>4, <1>5 DEF IInv, Renamed

(* A session in place, on a file system of which nothing is asked but that  *)
(* what it may leave holds what was saved.                                  *)
LEMMA OpensInPlace ==
    ASSUME IInv, NEW f \in Info, NEW fl \in Flags, \A g \in Info : ~Writes(g), committing = None,
           fs' \in FileSystem, fs'.dir \in fs'.ondisk, Live(fs'), Target(fs') \in Inode,
           acked' \in Content, SavedIsDurable', Opened(f, DirectOf(Target(fs')), fl)
    PROVE  IInv'
<1>1. /\ TypeOK /\ Sessions /\ HandleTypes /\ GhostTypes
  BY TypeParts DEF IInv
<1>2. /\ DirectOf(Target(fs')) \in Handle /\ DirectOf(Target(fs')).kind = "direct"
      /\ DirectOf(Target(fs')).ino = Target(fs')
  BY Kinds
<1>3. /\ HandleTypes' /\ OneWriter' /\ UNCHANGED <<committing, written>>
      /\ handle'[f] = DirectOf(Target(fs')) /\ wrote'[f] = {}
      /\ \A g \in Info : g # f => handle'[g] = handle[g] /\ wrote'[g] = wrote[g]
  BY <1>1, <1>2, Opening
<1>4. TypeOK'
  BY <1>1, <1>3, TypeParts DEF GhostTypes, TypeOK, HandleTypes, FileSystem, Flags
<1>5. Sessions'
  <2> SUFFICES ASSUME NEW g \in Info, handle'[g] # NoHandle
               PROVE  /\ handle'[g].kind = "read" => Reading(g)'
                      /\ handle'[g].kind = "direct" => InPlaceOf(g)'
                      /\ handle'[g].kind = "shadow" => Shadowing(g)'
    BY DEF Sessions
  <2>1. CASE g = f
    BY <1>2, <1>3, <2>1 DEF InPlaceOf
  <2>2. CASE g # f
    BY <1>1, <1>3, <2>2 DEF Sessions, Reading, Writes
  <2> QED
    BY <2>1, <2>2
<1> QED
  BY <1>3, <1>4, <1>5 DEF IInv, Renamed

(* The two outcomes of an open in place.                                    *)
LEMMA InPlaceKept ==
    ASSUME IInv, NEW f \in Info, \A g \in Info : ~Writes(g), committing = None,
           Target(fs) # None, NEW s, Beside(s), InPlace(f, s)
    PROVE  IInv'
<1>1. /\ TypeOK /\ Live(fs) /\ SavedIsDurable /\ GhostTypes /\ Target(fs) \in Inode
  BY TypeParts, AckedInside DEF IInv
<1>2. /\ s \in FileSystem /\ s.dir \in s.ondisk /\ Live(s) /\ Target(s) = Target(fs)
  BY DEF Beside
<1>3. CASE fs' = s /\ acked' = acked
  <2>1. SavedIsDurable'
    BY <1>1, <1>3, BesideLeaves DEF SavedIsDurable
  <2>2. Opened(f, DirectOf(Target(fs')), "OPEN")
    BY <1>3 DEF InPlace
  <2> QED
    BY <1>1, <1>2, <1>3, <2>1, <2>2, OpensInPlace DEF Flags, GhostTypes
<1>4. CASE fs' = Truncated(s, Target(s)) /\ acked' = {}
  <2> DEFINE i == Target(s)
  <2>1. /\ fs' = Filled(s, i, {}, s.may[i] \cup {{}}) /\ {} \in Content
        /\ s.may[i] \cup {{}} \in SUBSET Content
    BY <1>1, <1>2, <1>4, Contents
  <2> HIDE DEF i
  <2>2. /\ fs' \in FileSystem /\ fs'.dir = s.dir /\ fs'.ondisk = s.ondisk
        /\ fs'.data[i] = {} /\ fs'.may[i] = s.may[i] \cup {{}}
        /\ \A j \in Inode : j # i => fs'.data[j] = s.data[j] /\ fs'.may[j] = s.may[j]
    BY <1>1, <1>2, <2>1, FilledFields DEF i
  <2>3. Live(fs')
    BY <1>2, <2>2 DEF Live
  <2>4. Target(fs') = i /\ i \in Inode
    BY <1>1, <1>2, <2>2 DEF Target, i
  <2>5. SavedIsDurable' /\ acked' \in Content
    BY <1>4, <2>1 DEF SavedIsDurable
  <2>6. Opened(f, DirectOf(Target(fs')), "OPEN")
    BY <2>4 DEF InPlace, i
  <2> QED
    BY <1>2, <2>2, <2>3, <2>4, <2>5, <2>6, OpensInPlace DEF Flags
<1> QED
  BY <1>3, <1>4 DEF InPlace

LEMMA NewFile ==
    ASSUME TypeOK, Live(fs), HasFree, Target(fs) = None
    PROVE  /\ WithNewFile \in FileSystem /\ WithNewFile.dir \in WithNewFile.ondisk /\ Live(WithNewFile)
           /\ Target(WithNewFile) = Fresh /\ Fresh \in Inode
           /\ Targets(WithNewFile) = Targets(fs) \cup {Fresh}
           /\ WithNewFile.data[Fresh] = {} /\ WithNewFile.may[Fresh] = {{}}
           /\ \A j \in Inode : j # Fresh => /\ WithNewFile.data[j] = fs.data[j]
                                            /\ WithNewFile.may[j] = fs.may[j]
<1> DEFINE u == CopiedTo(fs, Fresh, {})
           n == WithTarget(u, Fresh)
<1>1. Fresh \in Inode /\ {} \in Content /\ {{}} \in SUBSET Content /\ fs \in FileSystem
  BY FreshIsFree, TypeParts DEF Content
<1>2. u = Filled(fs, Fresh, {}, {{}})
  BY DEF CopiedTo, Filled
<1> HIDE DEF u
<1>3. /\ u \in FileSystem /\ Targets(u) = Targets(fs)
      /\ u.data[Fresh] = {} /\ u.may[Fresh] = {{}}
      /\ \A j \in Inode : j # Fresh => u.data[j] = fs.data[j] /\ u.may[j] = fs.may[j]
  <2> DEFINE c == {}
             m == {{}}
  <2>1. c \in Content /\ m \in SUBSET Content /\ u = Filled(fs, Fresh, c, m)
    BY <1>1, <1>2
  <2> HIDE DEF c, m
  <2>2. /\ u \in FileSystem /\ Targets(u) = Targets(fs) /\ u.data[Fresh] = c /\ u.may[Fresh] = m
        /\ \A j \in Inode : j # Fresh => u.data[j] = fs.data[j] /\ u.may[j] = fs.may[j]
    BY <1>1, <2>1, FilledFields
  <2> QED
    BY <2>2 DEF c, m
<1>4. /\ n \in FileSystem /\ Target(n) = Fresh /\ n.dir \in n.ondisk
      /\ n.data = u.data /\ n.may = u.may /\ Targets(n) = Targets(u) \cup {Fresh}
  <2>1. u \in FileSystem /\ Fresh \in Inode \cup {None}
    BY <1>1, <1>3
  <2> QED
    BY <2>1, TargetFields
<1>5. n = WithNewFile
  BY DEF WithNewFile, u
<1> HIDE DEF n
<1>6. Live(n)
  BY <1>3, <1>4 DEF Live
<1> QED
  BY <1>1, <1>3, <1>4, <1>5, <1>6

(* Where the file is missing nothing counts as saved.                       *)
LEMMA CreatingSaves ==
    ASSUME TypeOK, Live(fs), SavedIsDurable, Target(fs) = None, acked' = acked
    PROVE  SavedIsDurable' /\ acked' \in Content
BY AckedInside DEF SavedIsDurable, Content

LEMMA OpenCreatesKept ==
    ASSUME OneSession, IInv, NEW f \in Info, NANDOpenCreates(f)
    PROVE  IInv'
<1>1. /\ TypeOK /\ Live(fs) /\ SavedIsDurable /\ committing = None /\ Target(fs) = None
      /\ HasFree /\ AllowsOverlap /\ fs' = WithNewFile /\ acked' = acked
      /\ Opened(f, DirectOf(Fresh), "OPEN")
  BY DEF IInv, NANDOpenCreates, MayOpen, WithinBounds
<1>2. /\ fs' \in FileSystem /\ fs'.dir \in fs'.ondisk /\ Live(fs') /\ Target(fs') = Fresh
      /\ Fresh \in Inode
  BY <1>1, NewFile
<1>3. (\A g \in Info : ~Writes(g)) /\ SavedIsDurable' /\ acked' \in Content
  BY <1>1, OnlyReaders, CreatingSaves
<1> QED
  BY <1>1, <1>2, <1>3, OpensInPlace DEF Flags

(* A step after which no session writes.                                    *)
LEMMA QuietAfter ==
    ASSUME fs' \in FileSystem, fs'.dir \in fs'.ondisk, Live(fs'), HandleTypes', GhostTypes',
           SavedIsDurable', committing' = None,
           \A g \in Info : handle'[g] # NoHandle => handle'[g].kind = "read" /\ wrote'[g] = {}
    PROVE  IInv'
<1>1. TypeOK'
  BY DEF TypeOK, FileSystem, HandleTypes, GhostTypes, Flags
<1>2. OneWriter' /\ Renamed'
  BY DEF OneWriter, Renamed, Writes
<1>3. Sessions'
  BY DEF Sessions, Reading
<1> QED
  BY <1>1, <1>2, <1>3 DEF IInv

LEMMA OthersRead ==
    ASSUME IInv
    PROVE  \A g \in Info : handle[g] # NoHandle /\ ~Writes(g) => handle[g].kind = "read" /\ wrote[g] = {}
BY DEF IInv, Sessions, Reading, Writes

(* Steps of the directory while no session writes.                          *)
LEMMA NoSessionKept ==
    ASSUME IInv, \A g \in Info : ~Writes(g), committing = None,
           fs' \in FileSystem, fs'.dir \in fs'.ondisk, Live(fs'), acked' \in Content, SavedIsDurable',
           UNCHANGED <<handle, flag, wrote, committing, written>>
    PROVE  IInv'
<1>1. HandleTypes' /\ GhostTypes'
  BY TypeParts DEF IInv, HandleTypes, GhostTypes
<1> QED
  BY <1>1, QuietAfter, OthersRead

(* What was saved is in all that the targets may hold.                      *)
LEMMA SavedInside ==
    ASSUME TypeOK, SavedIsDurable, acked # {}, NEW t \in Targets(fs)
    PROVE  t # None /\ t \in Inode /\ \A c \in fs.may[t] : acked \subseteq c
<1>1. t \in Inode \cup {None}
  BY DEF TypeOK, Targets, Names
<1>2. t # None
  BY Leaves DEF SavedIsDurable
<1> QED
  BY <1>1, <1>2, Leaves DEF SavedIsDurable

LEMMA InsideSaved ==
    ASSUME fs' \in FileSystem,
           \A t \in Targets(fs') : acked' # {} => t # None /\ \A c \in fs'.may[t] : acked' \subseteq c
    PROVE  SavedIsDurable'
<1> SUFFICES ASSUME acked' # {}, NEW c \in AfterCrash' PROVE c # None /\ acked' \subseteq c
  BY DEF SavedIsDurable
<1>1. PICK t \in Targets(fs') : t # None /\ c \in fs'.may[t] /\ t \in Inode \cup {None}
  BY DEF AfterCrash, Targets, FileSystem, Names
<1>2. c \in SUBSET Write
  BY <1>1 DEF FileSystem, Content
<1> QED
  BY <1>1, <1>2

LEMMA CreateKept ==
    ASSUME OneSession, IInv, NANDCreate
    PROVE  IInv'
<1>1. /\ TypeOK /\ Live(fs) /\ SavedIsDurable /\ Sessions /\ committing = None /\ Target(fs) = None
      /\ HasFree /\ fs' = WithNewFile /\ acked' = acked /\ HandleTypes
      /\ UNCHANGED <<handle, flag, wrote, committing, written>>
  BY TypeParts DEF IInv, NANDCreate, WithinBounds
<1>2. fs' \in FileSystem /\ fs'.dir \in fs'.ondisk /\ Live(fs')
  BY <1>1, NewFile
<1>3. \A g \in Info : ~Writes(g)
  BY <1>1, Kinds DEF Sessions, Writes, InPlaceOf, Shadowing, HandleTypes
<1> QED
  BY <1>1, <1>2, <1>3, CreatingSaves, NoSessionKept

LEMMA DeleteKept ==
    ASSUME OneSession, IInv, NANDDelete
    PROVE  IInv'
<1>1. /\ TypeOK /\ Live(fs) /\ committing = None /\ AllowsOverlap /\ fs \in FileSystem
      /\ fs' = WithTarget(fs, None) /\ acked' = {}
      /\ UNCHANGED <<handle, flag, wrote, committing, written>>
  BY TypeParts DEF IInv, NANDDelete
<1>2. fs' \in FileSystem /\ fs'.dir \in fs'.ondisk /\ fs'.data = fs.data /\ fs'.may = fs.may
  BY <1>1, TargetFields
<1>3. Live(fs') /\ SavedIsDurable' /\ acked' \in Content
  BY <1>1, <1>2 DEF Live, SavedIsDurable, Content
<1> QED
  BY <1>1, <1>2, <1>3, OnlyReaders, NoSessionKept

LEMMA WriteKept ==
    ASSUME IInv, NEW f \in Info, NEW w \in Write, NANDWrite(f, w)
    PROVE  IInv'
<1> DEFINE i == handle[f].ino
           c == fs.data[i] \cup {w}
           m == WithWrite(fs.may[i], w)
<1>1. /\ TypeOK /\ Live(fs) /\ SavedIsDurable /\ Sessions /\ OneWriter /\ committing = None
      /\ fs \in FileSystem /\ fs.dir \in fs.ondisk /\ HandleTypes /\ GhostTypes
      /\ Writes(f) /\ handle[f] \in Handle /\ i \in Inode
  <2>1. handle[f] # NoHandle /\ handle[f].kind # "read" /\ committing = None
    BY DEF NANDWrite
  <2> QED
    BY <2>1, TypeParts, Kinds DEF IInv, HandleTypes, Writes
<1>2. /\ fs' = Filled(fs, i, c, m) /\ c \in Content /\ m \in SUBSET Content
      /\ wrote' = [wrote EXCEPT ![f] = @ \cup {w}] /\ written' = written \cup {w}
      /\ UNCHANGED <<handle, flag, acked, committing>>
  <2>1. WrittenTo(fs, i, w) = Filled(fs, i, c, m) /\ c \in Content /\ m \in SUBSET Content
    <3>1. fs \in FileSystem /\ Live(fs) /\ i \in Inode
      BY <1>1
    <3> HIDE DEF i
    <3> QED
      BY <3>1, Writing
  <2>2. /\ fs' = WrittenTo(fs, i, w)
        /\ wrote' = [wrote EXCEPT ![f] = @ \cup {w}] /\ written' = written \cup {w}
        /\ UNCHANGED <<handle, flag, acked, committing>>
    BY DEF NANDWrite
  <2> QED
    BY <2>1, <2>2
<1>3. fs.data[i] \in fs.may[i] /\ fs.may[i] \in SUBSET Content /\ c \in m
  BY <1>1 DEF Live, FileSystem, WithWrite
<1>4. \A b \in m : \E a \in fs.may[i] : a \subseteq b
  BY DEF WithWrite
<1>5. fs.data[i] \subseteq c /\ w \in c
  OBVIOUS
<1> HIDE DEF i, c, m
<1>6. /\ fs' \in FileSystem /\ fs'.dir = fs.dir /\ fs'.ondisk = fs.ondisk /\ Targets(fs') = Targets(fs)
      /\ fs'.data[i] = c /\ fs'.may[i] = m
      /\ \A j \in Inode : j # i => fs'.data[j] = fs.data[j] /\ fs'.may[j] = fs.may[j]
  BY <1>1, <1>2, FilledFields
<1>7. Live(fs') /\ Target(fs') = Target(fs) /\ Scratch(fs') = Scratch(fs)
  BY <1>1, <1>3, <1>6 DEF Live, Target, Scratch
<1>8. /\ wrote'[f] = wrote[f] \cup {w} /\ wrote' \in [Info -> Content]
      /\ \A g \in Info : g # f => wrote'[g] = wrote[g]
  BY <1>1, <1>2 DEF HandleTypes, Content
<1>9. HandleTypes' /\ GhostTypes'
  BY <1>1, <1>2, <1>8 DEF HandleTypes, GhostTypes, Content
<1>10. TypeOK'
  BY <1>1, <1>6, <1>9 DEF TypeOK, FileSystem, HandleTypes, GhostTypes, Flags
<1>11. SavedIsDurable'
  <2> SUFFICES ASSUME acked # {}, NEW t \in Targets(fs)
               PROVE  t # None /\ \A b \in fs'.may[t] : acked \subseteq b
    BY <1>2, <1>6, InsideSaved
  <2>1. t # None /\ t \in Inode /\ \A b \in fs.may[t] : acked \subseteq b
    BY <1>1, SavedInside
  <2>2. CASE t = i
    BY <1>4, <1>6, <2>1, <2>2
  <2>3. CASE t # i
    BY <1>6, <2>1, <2>3
  <2> QED
    BY <2>2, <2>3
<1>12. Sessions'
  <2> SUFFICES ASSUME NEW g \in Info, handle[g] # NoHandle
               PROVE  /\ handle[g].kind = "read" => Reading(g)'
                      /\ handle[g].kind = "direct" => InPlaceOf(g)'
                      /\ handle[g].kind = "shadow" => Shadowing(g)'
    BY <1>2 DEF Sessions
  <2>1. CASE g = f
    <3>1. handle'[g] = handle[g] /\ handle[g].ino = i /\ handle[g].kind # "read"
      BY <1>1, <1>2, <2>1 DEF Writes, i
    <3>2. CASE handle[g].kind = "direct"
      BY <1>1, <1>5, <1>6, <1>7, <1>8, <2>1, <3>1, <3>2 DEF Sessions, InPlaceOf
    <3>3. CASE handle[g].kind = "shadow"
      <4>1. /\ i = Scratch(fs) /\ i \notin Targets(fs) /\ Target(fs) # None
            /\ acked \cup wrote[g] \subseteq fs.data[i]
        BY <1>1, <3>1, <3>3 DEF Sessions, Shadowing
      <4>2. acked' \cup wrote'[g] \subseteq fs'.data[i]
        BY <1>2, <1>5, <1>6, <1>8, <2>1, <4>1
      <4> QED
        BY <1>2, <1>6, <1>7, <3>1, <3>3, <4>1, <4>2 DEF Shadowing
    <3> QED
      BY <3>1, <3>2, <3>3, <1>1, <2>1, Kinds
  <2>2. CASE g # f
    <3>1. handle[g].kind = "read" /\ wrote[g] = {}
      BY <1>1, <2>2 DEF OneWriter, Writes, Sessions, Reading
    <3> QED
      BY <1>2, <1>8, <2>2, <3>1 DEF Reading
  <2> QED
    BY <2>1, <2>2
<1> QED
  BY <1>1, <1>2, <1>7, <1>10, <1>11, <1>12 DEF IInv, OneWriter, Writes, Renamed

(* A close: the handle is gone, and what the others are is kept.            *)
LEMMA Retired ==
    ASSUME IInv, NEW f \in Info, Retires(f),
           (flag' = [flag EXCEPT ![f] = ClosedFlag(f)] /\ wrote' = [wrote EXCEPT ![f] = {}])
           \/ UNCHANGED <<flag, wrote>>
    PROVE  /\ HandleTypes' /\ handle'[f] = NoHandle
           /\ \A g \in Info : g # f => handle'[g] = handle[g] /\ wrote'[g] = wrote[g]
<1>1. HandleTypes
  BY TypeParts DEF IInv
<1>2. handle' = [handle EXCEPT ![f] = NoHandle] /\ ClosedFlag(f) \in Flags /\ {} \in Content
  BY DEF Retires, ClosedFlag, Flags, Content
<1>3. wrote' \in [Info -> Content] /\ \A g \in Info : g # f => wrote'[g] = wrote[g]
  BY <1>1, <1>2 DEF HandleTypes
<1>4. flag' \in [Info -> Flags]
  BY <1>1, <1>2 DEF HandleTypes
<1> QED
  BY <1>1, <1>2, <1>3, <1>4 DEF HandleTypes

(* When the one session that writes is closed.                              *)
LEMMA WriterRetired ==
    ASSUME IInv, NEW f \in Info, Writes(f), Retires(f),
           (flag' = [flag EXCEPT ![f] = ClosedFlag(f)] /\ wrote' = [wrote EXCEPT ![f] = {}])
           \/ UNCHANGED <<flag, wrote>>
    PROVE  /\ HandleTypes' /\ \A g \in Info : ~Writes(g)'
           /\ \A g \in Info : handle'[g] # NoHandle => handle'[g].kind = "read" /\ wrote'[g] = {}
<1>1. /\ HandleTypes' /\ handle'[f] = NoHandle
      /\ \A g \in Info : g # f => handle'[g] = handle[g] /\ wrote'[g] = wrote[g]
  BY Retired
<1>2. \A g \in Info : g # f => ~Writes(g)
  BY DEF IInv, OneWriter
<1> QED
  BY <1>1, <1>2, OthersRead DEF Writes

LEMMA ReportsWell ==
    ASSUME TypeOK, NEW f \in Info, NEW saved \in Content, ReportsSuccess(f, saved)
    PROVE  acked' = acked \cup saved /\ acked' \in Content
BY DEF ReportsSuccess, TypeOK, Content

LEMMA SavedParts ==
    ASSUME TypeOK, NEW f \in Info
    PROVE  Saved(f) \in Content /\ Saved(f) \subseteq wrote[f]
BY DEF Saved, TypeOK, Content

LEMMA CloseReaderKept ==
    ASSUME IInv, NEW f \in Info, CloseReader(f)
    PROVE  IInv'
<1>1. /\ TypeOK /\ fs \in FileSystem /\ fs.dir \in fs.ondisk /\ Live(fs) /\ SavedIsDurable /\ Sessions
      /\ OneWriter /\ GhostTypes /\ committing = None /\ handle[f] # NoHandle /\ handle[f].kind = "read"
      /\ UNCHANGED <<fs, committing, written>> /\ ReportsSuccess(f, Saved(f)) /\ Retires(f)
  BY TypeParts DEF IInv, CloseReader, MayClose
<1>2. Saved(f) = {}
  BY <1>1, SavedParts DEF Sessions, Reading
<1>3. acked' = acked /\ acked' \in Content
  BY <1>1, <1>2, ReportsWell, SavedParts
<1>4. /\ HandleTypes' /\ handle'[f] = NoHandle
      /\ \A g \in Info : g # f => handle'[g] = handle[g] /\ wrote'[g] = wrote[g]
  BY <1>1, Retired DEF ReportsSuccess
<1>5. TypeOK' /\ SavedIsDurable'
  <2>1. GhostTypes' /\ fs' \in FileSystem /\ fs'.dir \in fs'.ondisk
    BY <1>1, <1>3 DEF GhostTypes
  <2>2. TypeOK'
    BY <1>4, <2>1 DEF TypeOK, FileSystem, HandleTypes, GhostTypes, Flags
  <2>3. SavedIsDurable'
    BY <1>1, <1>3 DEF SavedIsDurable, AfterCrash
  <2> QED
    BY <2>2, <2>3
<1>6. OneWriter'
  BY <1>1, <1>4 DEF OneWriter, Writes
<1>7. Sessions'
  <2> SUFFICES ASSUME NEW g \in Info, handle'[g] # NoHandle, g # f
               PROVE  /\ handle'[g].kind = "read" => Reading(g)'
                      /\ handle'[g].kind = "direct" => InPlaceOf(g)'
                      /\ handle'[g].kind = "shadow" => Shadowing(g)'
    BY <1>4 DEF Sessions
  <2> QED
    BY <1>1, <1>3, <1>4 DEF Sessions, Reading, InPlaceOf, Shadowing
<1> QED
  BY <1>1, <1>5, <1>6, <1>7 DEF IInv, Renamed

LEMMA Flushed ==
    ASSUME NEW s \in FileSystem, Live(s), NEW i \in Inode
    PROVE  /\ FlushFileToDisk(s, i) \in FileSystem /\ Live(FlushFileToDisk(s, i))
           /\ FlushFileToDisk(s, i).dir = s.dir /\ FlushFileToDisk(s, i).ondisk = s.ondisk
           /\ Targets(FlushFileToDisk(s, i)) = Targets(s)
           /\ FlushFileToDisk(s, i).data = s.data /\ FlushFileToDisk(s, i).may[i] = {s.data[i]}
           /\ \A j \in Inode : j # i => FlushFileToDisk(s, i).may[j] = s.may[j]
<1> DEFINE t == FlushFileToDisk(s, i)
           c == s.data[i]
           m == {c}
<1>1. t = Filled(s, i, c, m) /\ c \in Content /\ m \in SUBSET Content
  BY Contents
<1>2. c = s.data[i] /\ m = {c}
  OBVIOUS
<1> HIDE DEF t, c, m
<1>3. /\ t \in FileSystem /\ t.dir = s.dir /\ t.ondisk = s.ondisk /\ Targets(t) = Targets(s)
      /\ t.data[i] = c /\ t.may[i] = m
      /\ \A j \in Inode : j # i => t.data[j] = s.data[j] /\ t.may[j] = s.may[j]
  BY <1>1, FilledFields
<1>4. t.data = s.data
  <2>1. t.data \in [Inode -> Content] /\ s.data \in [Inode -> Content]
    BY <1>3 DEF FileSystem
  <2> QED
    BY <1>2, <1>3, <2>1
<1>5. Live(t)
  BY <1>2, <1>3, <1>4 DEF Live
<1> QED
  BY <1>2, <1>3, <1>4, <1>5 DEF t

LEMMA CloseDirectKept ==
    ASSUME IInv, NEW f \in Info, CloseDirect(f)
    PROVE  IInv'
<1> DEFINE i == handle[f].ino
<1>1. /\ TypeOK /\ fs \in FileSystem /\ fs.dir \in fs.ondisk /\ Live(fs) /\ SavedIsDurable
      /\ GhostTypes /\ committing = None /\ committing' = None /\ written' = written /\ Writes(f)
      /\ i \in Inode /\ i = Target(fs) /\ wrote[f] \subseteq fs.data[i] /\ Retires(f)
  <2>1. handle[f] # NoHandle /\ handle[f].kind = "direct" /\ committing = None
    BY DEF CloseDirect, MayClose
  <2>2. InPlaceOf(f) /\ handle[f] \in Handle
    BY <2>1, TypeParts DEF IInv, Sessions, HandleTypes
  <2> QED
    BY <2>1, <2>2, TypeParts, Kinds DEF IInv, CloseDirect, MayClose, Writes, InPlaceOf
<1>2. CASE fs' = FlushFileToDisk(fs, i) /\ ReportsSuccess(f, Saved(f))
  <2>1. /\ HandleTypes'
        /\ \A g \in Info : handle'[g] # NoHandle => handle'[g].kind = "read" /\ wrote'[g] = {}
    BY <1>1, <1>2, WriterRetired DEF ReportsSuccess
  <2>2. /\ fs' \in FileSystem /\ fs'.dir \in fs'.ondisk /\ Live(fs') /\ Targets(fs') = Targets(fs)
        /\ fs'.may[i] = {fs.data[i]} /\ \A j \in Inode : j # i => fs'.may[j] = fs.may[j]
    BY <1>1, <1>2, Flushed
  <2>3. acked' = acked \cup Saved(f) /\ acked' \in Content
    BY <1>1, <1>2, ReportsWell, SavedParts
  <2>4. acked \subseteq fs.data[i] /\ Saved(f) \subseteq fs.data[i]
    BY <1>1, AckedInside, SavedParts
  <2>5. SavedIsDurable'
    <3> SUFFICES ASSUME acked' # {}, NEW t \in Targets(fs)
                 PROVE  t # None /\ \A c \in fs'.may[t] : acked' \subseteq c
      BY <2>2, InsideSaved
    <3>1. CASE t = i
      BY <1>1, <2>2, <2>3, <2>4, <3>1
    <3>2. CASE t # i
      <4>1. Saved(f) = {}
        BY <1>1, <3>2 DEF Saved, EntryOnDisk, Targets
      <4>2. t # None /\ t \in Inode /\ \A c \in fs.may[t] : acked \subseteq c
        BY <1>1, <2>3, <4>1, SavedInside
      <4> QED
        BY <2>2, <2>3, <3>2, <4>1, <4>2
    <3> QED
      BY <3>1, <3>2
  <2> QED
    BY <1>1, <2>1, <2>2, <2>3, <2>5, QuietAfter DEF GhostTypes
<1>3. CASE ReportsFailure(f) /\ UNCHANGED fs
  <2>1. /\ HandleTypes'
        /\ \A g \in Info : handle'[g] # NoHandle => handle'[g].kind = "read" /\ wrote'[g] = {}
    BY <1>1, <1>3, WriterRetired DEF ReportsFailure
  <2>2. acked' = acked /\ SavedIsDurable'
    BY <1>1, <1>3 DEF ReportsFailure, SavedIsDurable, AfterCrash
  <2> QED
    BY <1>1, <1>3, <2>1, <2>2, QuietAfter DEF GhostTypes
<1> QED
  BY <1>2, <1>3 DEF CloseDirect

(* The scratch file of a session, when its close begins.                    *)
LEMMA ShadowParts ==
    ASSUME IInv, NEW f \in Info, CloseShadow(f)
    PROVE  /\ TypeOK /\ fs \in FileSystem /\ fs.dir \in fs.ondisk /\ Live(fs) /\ SavedIsDurable
           /\ GhostTypes /\ committing = None /\ written' = written /\ Writes(f) /\ Retires(f)
           /\ handle[f].ino \in Inode /\ Shadowing(f)
<1>1. /\ handle[f] # NoHandle /\ handle[f].kind = "shadow" /\ committing = None
      /\ written' = written /\ Retires(f)
  BY DEF CloseShadow, MayClose
<1>2. Shadowing(f) /\ handle[f] \in Handle
  BY <1>1, TypeParts DEF IInv, Sessions, HandleTypes
<1> QED
  BY <1>1, <1>2, TypeParts, Kinds DEF IInv, Writes

(* The scratch file takes the place of the target.                          *)
LEMMA ReplacedFields ==
    ASSUME NEW s \in FileSystem, NEW i \in Inode, Scratch(s) = i
    PROVE  /\ Replaced(s) \in FileSystem /\ Target(Replaced(s)) = i /\ Scratch(Replaced(s)) = None
           /\ Replaced(s).dir \in Replaced(s).ondisk
           /\ Replaced(s).data = s.data /\ Replaced(s).may = s.may
           /\ Targets(Replaced(s)) = Targets(s) \cup {i}
<1> DEFINE d == [target |-> Scratch(s), scratch |-> None]
           r == Replaced(s)
<1>1. d \in Names /\ d.target = i /\ d.scratch = None
  BY DEF Names
<1>2. r = Renames(s, d)
  BY DEF Replaced
<1> HIDE DEF d, r
<1>3. /\ r \in FileSystem /\ r.dir = d /\ r.ondisk = s.ondisk \cup {d}
      /\ r.data = s.data /\ r.may = s.may /\ Targets(r) = Targets(s) \cup {d.target}
  BY <1>1, <1>2, RenamesFields
<1> QED
  BY <1>1, <1>3 DEF Target, Scratch, r

LEMMA CommitKept ==
    ASSUME IInv, NEW f \in Info, CloseShadow(f), fs' = Replaced(FlushedShadow(f)), committing' = f,
           UNCHANGED <<flag, acked, wrote>>
    PROVE  IInv'
<1> DEFINE i == handle[f].ino
           s == FlushedShadow(f)
<1>1. /\ TypeOK /\ fs \in FileSystem /\ fs.dir \in fs.ondisk /\ Live(fs) /\ SavedIsDurable
      /\ GhostTypes /\ written' = written /\ Writes(f) /\ Retires(f)
      /\ i \in Inode /\ i = Scratch(fs) /\ i \notin Targets(fs) /\ Target(fs) # None
      /\ acked \cup wrote[f] \subseteq fs.data[i]
  BY ShadowParts DEF Shadowing
<1>2. s = FlushFileToDisk(fs, i)
  BY DEF FlushedShadow
<1> HIDE DEF i, s
<1>3. /\ s \in FileSystem /\ Live(s) /\ Scratch(s) = i /\ Targets(s) = Targets(fs)
      /\ s.data = fs.data /\ s.may[i] = {fs.data[i]} /\ \A j \in Inode : j # i => s.may[j] = fs.may[j]
  <2>1. fs \in FileSystem /\ Live(fs) /\ i \in Inode
    BY <1>1
  <2>2. /\ s \in FileSystem /\ Live(s) /\ s.dir = fs.dir /\ Targets(s) = Targets(fs)
        /\ s.data = fs.data /\ s.may[i] = {fs.data[i]} /\ \A j \in Inode : j # i => s.may[j] = fs.may[j]
    BY <1>2, <2>1, Flushed
  <2> QED
    BY <1>1, <2>2 DEF Scratch
<1>4. /\ fs' \in FileSystem /\ Target(fs') = i /\ fs'.dir \in fs'.ondisk
      /\ fs'.data = s.data /\ fs'.may = s.may /\ Targets(fs') = Targets(fs) \cup {i}
  <2>1. fs' = Replaced(s)
    BY DEF s
  <2> QED
    BY <1>1, <1>3, <2>1, ReplacedFields
<1>5. /\ HandleTypes' /\ \A g \in Info : ~Writes(g)'
      /\ \A g \in Info : handle'[g] # NoHandle => handle'[g].kind = "read" /\ wrote'[g] = {}
  BY <1>1, WriterRetired
<1>6. TypeOK'
  BY <1>1, <1>4, <1>5 DEF TypeOK, FileSystem, HandleTypes, GhostTypes, Flags
<1>7. Live(fs')
  BY <1>3, <1>4 DEF Live
<1>8. SavedIsDurable'
  <2> SUFFICES ASSUME acked # {}, NEW t \in Targets(fs) \cup {i}
               PROVE  t # None /\ \A c \in fs'.may[t] : acked \subseteq c
    BY <1>4, InsideSaved
  <2>1. CASE t = i
    BY <1>1, <1>3, <1>4, <2>1
  <2>2. CASE t # i
    <3>1. t # None /\ t \in Inode /\ \A c \in fs.may[t] : acked \subseteq c
      BY <1>1, <2>2, SavedInside
    <3> QED
      BY <1>3, <1>4, <2>2, <3>1
  <2> QED
    BY <2>1, <2>2
<1>9. Renamed'
  BY <1>1, <1>3, <1>4, <1>5 DEF Renamed
<1>10. OneWriter' /\ Sessions'
  BY <1>5 DEF OneWriter, Sessions, Reading
<1> QED
  BY <1>6, <1>7, <1>8, <1>9, <1>10 DEF IInv

(* A close that failed leaves the targets as they were.                     *)
LEMMA DroppedBeside ==
    ASSUME NEW s, Beside(s), NEW r \in ScratchDropped(s)
    PROVE  Beside(r)
BY Dropped DEF ScratchDropped

LEMMA FailedCloseKept ==
    ASSUME IInv, NEW f \in Info, CloseShadow(f), ReportsFailure(f), Beside(fs'),
           UNCHANGED committing
    PROVE  IInv'
<1>1. /\ TypeOK /\ SavedIsDurable /\ GhostTypes /\ committing = None /\ written' = written
      /\ Writes(f) /\ Retires(f)
  BY ShadowParts
<1>2. UNCHANGED <<flag, acked, wrote>>
  BY DEF ReportsFailure
<1>3. /\ HandleTypes'
      /\ \A g \in Info : handle'[g] # NoHandle => handle'[g].kind = "read" /\ wrote'[g] = {}
  BY <1>1, <1>2, WriterRetired
<1>4. SavedIsDurable'
  BY <1>1, <1>2, BesideLeaves DEF SavedIsDurable
<1> QED
  BY <1>1, <1>2, <1>3, <1>4, QuietAfter DEF GhostTypes, Beside

LEMMA FlushedBeside ==
    ASSUME IInv, NEW f \in Info, CloseShadow(f)
    PROVE  Beside(fs) /\ Beside(FlushedShadow(f))
<1> DEFINE i == handle[f].ino
           s == FlushedShadow(f)
<1>1. /\ TypeOK /\ fs \in FileSystem /\ fs.dir \in fs.ondisk /\ Live(fs)
      /\ i \in Inode /\ i \notin Targets(fs)
  BY ShadowParts DEF Shadowing
<1>2. s = FlushFileToDisk(fs, i)
  BY DEF FlushedShadow
<1> HIDE DEF i, s
<1>3. /\ s \in FileSystem /\ Live(s) /\ s.dir = fs.dir /\ s.ondisk = fs.ondisk /\ Targets(s) = Targets(fs)
      /\ s.data = fs.data /\ \A j \in Inode : j # i => s.may[j] = fs.may[j]
  <2>1. fs \in FileSystem /\ Live(fs) /\ i \in Inode
    BY <1>1
  <2> QED
    BY <1>2, <2>1, Flushed
<1>4. Beside(s)
  BY <1>1, <1>3 DEF Beside, Target
<1> QED
  BY <1>1, <1>4, BesideItself DEF s

LEMMA CloseShadowKept ==
    ASSUME IInv, NEW f \in Info, CloseShadow(f)
    PROVE  IInv'
<1>1. CASE fs' = Replaced(FlushedShadow(f)) /\ committing' = f /\ UNCHANGED <<flag, acked, wrote>>
  BY <1>1, CommitKept
<1>2. CASE /\ fs' \in ScratchDropped(fs) \cup ScratchDropped(FlushedShadow(f))
           /\ ReportsFailure(f) /\ UNCHANGED committing
  <2>1. Beside(fs')
    BY <1>2, FlushedBeside, DroppedBeside
  <2> QED
    BY <1>2, <2>1, FailedCloseKept
<1> QED
  BY <1>1, <1>2 DEF CloseShadow

LEMMA CommitReturnsKept ==
    ASSUME IInv, NEW f \in Info, CommitReturns(f)
    PROVE  IInv'
<1>1. /\ TypeOK /\ fs \in FileSystem /\ fs.dir \in fs.ondisk /\ Live(fs) /\ SavedIsDurable /\ Renamed
      /\ HandleTypes /\ GhostTypes /\ committing = f /\ f # None /\ committing' = None
      /\ UNCHANGED <<handle, written>>
  BY TypeParts DEF IInv, CommitReturns
<1>2. /\ \A g \in Info : ~Writes(g)
      /\ Target(fs) # None /\ Target(fs) \in Inode
      /\ acked \cup wrote[f] \subseteq fs.data[Target(fs)]
      /\ fs.may[Target(fs)] = {fs.data[Target(fs)]}
  BY <1>1, AckedInside DEF Renamed
<1>3. ASSUME NEW saved \in Content, ReportsSuccess(f, saved)
      PROVE  /\ HandleTypes' /\ GhostTypes' /\ acked' = acked \cup saved
             /\ \A g \in Info : handle'[g] # NoHandle => handle'[g].kind = "read" /\ wrote'[g] = {}
  <2>1. ClosedFlag(f) \in Flags /\ {} \in Content
    BY DEF ClosedFlag, Flags, Content
  <2>2. /\ flag' = [flag EXCEPT ![f] = ClosedFlag(f)] /\ wrote' = [wrote EXCEPT ![f] = {}]
        /\ acked' = acked \cup saved
    BY <1>3 DEF ReportsSuccess
  <2>3. HandleTypes' /\ GhostTypes'
    BY <1>1, <2>1, <2>2 DEF HandleTypes, GhostTypes, Content
  <2>4. \A g \in Info : wrote'[g] = {} \/ wrote'[g] = wrote[g]
    BY <1>1, <2>2 DEF HandleTypes
  <2> QED
    BY <1>1, <1>2, <2>2, <2>3, <2>4, OthersRead
<1>4. CASE fs' = DirectoryFlushed(fs) /\ ReportsSuccess(f, Saved(f))
  <2>1. fs' \in FileSystem /\ fs'.dir = fs.dir /\ fs'.ondisk = {fs.dir} /\ fs'.data = fs.data /\ fs'.may = fs.may
    BY <1>1, <1>4 DEF DirectoryFlushed, FileSystem
  <2>2. Targets(fs') = {Target(fs)} /\ Live(fs')
    BY <1>1, <2>1 DEF Targets, Target, Live
  <2>3. /\ Saved(f) = wrote[f] /\ HandleTypes' /\ GhostTypes' /\ acked' = acked \cup Saved(f)
        /\ \A g \in Info : handle'[g] # NoHandle => handle'[g].kind = "read" /\ wrote'[g] = {}
    BY <1>1, <1>3, <1>4, SavedParts DEF Saved
  <2>4. SavedIsDurable'
    BY <1>2, <2>1, <2>2, <2>3, InsideSaved
  <2> QED
    BY <1>1, <2>1, <2>2, <2>3, <2>4, QuietAfter
<1>5. CASE UNCHANGED fs /\ ReportsSuccess(f, {})
  <2>1. {} \in Content
    BY DEF Content
  <2>2. /\ HandleTypes' /\ GhostTypes' /\ acked' = acked
        /\ \A g \in Info : handle'[g] # NoHandle => handle'[g].kind = "read" /\ wrote'[g] = {}
    BY <1>3, <1>5, <2>1
  <2>3. SavedIsDurable'
    BY <1>1, <1>5, <2>2 DEF SavedIsDurable, AfterCrash
  <2> QED
    BY <1>1, <1>5, <2>2, <2>3, QuietAfter
<1> QED
  BY <1>4, <1>5 DEF CommitReturns

LEMMA CloseAgainKept ==
    ASSUME IInv, NEW f \in Info, CloseAgain(f)
    PROVE  IInv'
<1>1. /\ TypeOK /\ fs \in FileSystem /\ fs.dir \in fs.ondisk /\ Live(fs) /\ SavedIsDurable /\ Sessions
      /\ HandleTypes /\ GhostTypes /\ committing = None /\ handle[f] = NoHandle
      /\ UNCHANGED <<fs, handle, committing, written>> /\ ReportsSuccess(f, {})
  BY TypeParts DEF IInv, CloseAgain, MayClose
<1>2. ClosedFlag(f) \in Flags /\ {} \in Content
  BY DEF ClosedFlag, Flags, Content
<1>3. /\ flag' = [flag EXCEPT ![f] = ClosedFlag(f)] /\ wrote' = [wrote EXCEPT ![f] = {}]
      /\ acked' = acked
  BY <1>1 DEF ReportsSuccess
<1>4. HandleTypes' /\ GhostTypes'
  BY <1>1, <1>2, <1>3 DEF HandleTypes, GhostTypes
<1>5. TypeOK' /\ SavedIsDurable'
  <2>1. fs' \in FileSystem /\ fs'.dir \in fs'.ondisk
    BY <1>1
  <2>2. TypeOK'
    BY <1>4, <2>1 DEF TypeOK, FileSystem, HandleTypes, GhostTypes, Flags
  <2>3. SavedIsDurable'
    BY <1>1, <1>3 DEF SavedIsDurable, AfterCrash
  <2> QED
    BY <2>2, <2>3
<1>6. \A g \in Info : g # f => wrote'[g] = wrote[g]
  BY <1>1, <1>3 DEF HandleTypes
<1>7. Sessions'
  BY <1>1, <1>3, <1>6 DEF Sessions, Reading, InPlaceOf, Shadowing
<1> QED
  BY <1>1, <1>3, <1>5, <1>7 DEF IInv, OneWriter, Writes, Renamed

(* What a loss of power leaves: a directory, and a content for each file in *)
(* it.                                                                      *)
LeftData(c) == [i \in Inode |-> IF i \in DOMAIN c THEN c[i] ELSE {}]
LeftMay(c)  == [i \in Inode |-> IF i \in DOMAIN c THEN {c[i]} ELSE {{}}]

LeavesOnDisk(d, c) ==
    /\ \A i \in DOMAIN c : c[i] \in fs.may[i]
    /\ fs' = [dir |-> d, ondisk |-> {d}, data |-> LeftData(c), may |-> LeftMay(c)]
    /\ handle' = [f \in Info |-> NoHandle]
    /\ flag' = [f \in Info |-> "NONE"]
    /\ wrote' = [f \in Info |-> {}]
    /\ committing' = None
    /\ UNCHANGED <<acked, written>>

LEMMA Left ==
    ASSUME NEW D \in SUBSET Inode, NEW c \in [D -> Content]
    PROVE  /\ LeftData(c) \in [Inode -> Content] /\ LeftMay(c) \in [Inode -> SUBSET Content]
           /\ \A i \in Inode : LeftData(c)[i] \in LeftMay(c)[i]
           /\ \A i \in D : LeftMay(c)[i] = {c[i]}
<1>1. DOMAIN c = D /\ {} \in Content /\ \A i \in D : c[i] \in Content
  BY DEF Content
<1> QED
  BY <1>1 DEF LeftData, LeftMay

LEMMA CrashKept ==
    ASSUME IInv, Crash
    PROVE  IInv'
<1>1. TypeOK /\ fs \in FileSystem /\ SavedIsDurable /\ GhostTypes
  BY TypeParts DEF IInv
<1>2. PICK d \in fs.ondisk :
        \E c \in [{d.target, d.scratch} \ {None} -> Content] : LeavesOnDisk(d, c)
  BY DEF Crash, LeavesOnDisk, LeftData, LeftMay
<1> DEFINE D == {d.target, d.scratch} \ {None}
<1>3. PICK c \in [D -> Content] : LeavesOnDisk(d, c)
  BY <1>2
<1>4. d \in Names /\ d.target \in Inode \cup {None} /\ d.target \in Targets(fs) /\ D \in SUBSET Inode
  BY <1>1 DEF FileSystem, Names, Targets
<1>5. d.target # None => d.target \in D
  OBVIOUS
<1> HIDE DEF D
<1>6. /\ \A i \in D : c[i] \in fs.may[i]
      /\ fs'.dir = d /\ fs'.ondisk = {d} /\ fs'.data = LeftData(c) /\ fs'.may = LeftMay(c)
      /\ fs' = [dir |-> d, ondisk |-> {d}, data |-> LeftData(c), may |-> LeftMay(c)]
  BY <1>3 DEF LeavesOnDisk
<1>7. fs' \in FileSystem
  BY <1>3, <1>4, <1>6, Left DEF FileSystem
<1>8. Live(fs') /\ Targets(fs') = {d.target} /\ fs'.dir \in fs'.ondisk
  BY <1>4, <1>6, Left DEF Live, Targets
<1>9. /\ HandleTypes' /\ GhostTypes' /\ acked' = acked /\ committing' = None
      /\ \A g \in Info : handle'[g] = NoHandle
  <2>1. /\ handle' = [f \in Info |-> NoHandle] /\ flag' = [f \in Info |-> "NONE"]
        /\ wrote' = [f \in Info |-> {}] /\ committing' = None /\ acked' = acked /\ written' = written
    BY <1>3 DEF LeavesOnDisk
  <2> QED
    BY <1>1, <2>1 DEF HandleTypes, GhostTypes, Flags, Content
<1>10. SavedIsDurable'
  <2> SUFFICES ASSUME acked # {}
               PROVE  d.target # None /\ \A b \in fs'.may[d.target] : acked \subseteq b
    BY <1>7, <1>8, <1>9, InsideSaved
  <2>1. d.target # None /\ d.target \in Inode /\ \A b \in fs.may[d.target] : acked \subseteq b
    BY <1>1, <1>4, SavedInside
  <2>2. fs'.may[d.target] = {c[d.target]}
    BY <1>4, <1>5, <1>6, <2>1, Left
  <2> QED
    BY <1>5, <1>6, <2>1, <2>2
<1> QED
  BY <1>7, <1>8, <1>9, <1>10, QuietAfter

LEMMA SafeOpenKept ==
    ASSUME OneSession, IInv, NEW f \in Info, NANDSafeOpen(f)
    PROVE  IInv'
<1>1. /\ TypeOK /\ Live(fs) /\ committing = None /\ AllowsOverlap /\ HasFree /\ Target(fs) # None /\ acked' = acked
  BY DEF IInv, NANDSafeOpen, MayOpen, WithinBounds
<1>2. CASE fs' = Seeded /\ Opened(f, ShadowOf(Fresh), "SAFE_OPEN")
  BY <1>1, <1>2, SafeOpens DEF Flags
<1>3. CASE fs' \in SeedFailures /\ UNCHANGED <<handle, flag, wrote, committing, written>>
  BY <1>1, <1>3, Seeding, OnlyReaders, BesideKept
<1> QED
  BY <1>2, <1>3 DEF NANDSafeOpen

LEMMA OpensForReadingKept ==
    ASSUME OneSession, IInv, NEW f \in Info, NANDSafeOpenRead(f) \/ NANDOpenRead(f)
    PROVE  IInv'
<1>1. ASSUME NEW call, NEW fl \in Flags, OpensForReading(f, call, fl)
      PROVE  IInv'
  BY <1>1, OnlyReaders, OpensToRead DEF OpensForReading, MayOpen
<1> QED
  BY <1>1 DEF NANDSafeOpenRead, NANDOpenRead, Flags

LEMMA OpenKept ==
    ASSUME OneSession, IInv, NEW f \in Info, NANDOpen(f)
    PROVE  IInv'
<1>1. /\ TypeOK /\ Live(fs) /\ committing = None /\ AllowsOverlap /\ HasFree /\ Target(fs) # None
      /\ \A g \in Info : ~Writes(g)
  BY OnlyReaders DEF IInv, NANDOpen, MayOpen, WithinBounds
<1>2. CASE fs' = Seeded /\ Opened(f, ShadowOf(Fresh), "OPEN") /\ UNCHANGED acked
  BY <1>1, <1>2, SafeOpens DEF Flags
<1>3. ASSUME NEW s \in SeedFailures \cup {fs}, InPlace(f, s)
      PROVE  IInv'
  BY <1>1, <1>3, Seeding, BesideItself, InPlaceKept
<1> QED
  BY <1>2, <1>3 DEF NANDOpen

LEMMA NextKept == OneSession /\ IInv /\ [Next]_vars => IInv'
<1> SUFFICES ASSUME OneSession, IInv, [Next]_vars PROVE IInv'
  OBVIOUS
<1>1. CASE UNCHANGED vars
  <2>1. /\ fs' = fs /\ handle' = handle /\ flag' = flag /\ wrote' = wrote /\ acked' = acked
        /\ committing' = committing /\ written' = written
    BY <1>1 DEF vars
  <2>2. TypeOK' /\ Live(fs') /\ OneWriter'
    BY <2>1 DEF IInv, TypeOK, OneWriter, Writes
  <2>3. Sessions' /\ Renamed' /\ SavedIsDurable'
    BY <2>1 DEF IInv, Sessions, Reading, InPlaceOf, Shadowing, Writes, Renamed, SavedIsDurable, AfterCrash
  <2> QED
    BY <2>2, <2>3 DEF IInv
<1>2. ASSUME NEW f \in Info, Close(f)
      PROVE  IInv'
  BY <1>2, CloseReaderKept, CloseDirectKept, CloseShadowKept, CommitReturnsKept, CloseAgainKept DEF Close
<1>3. ASSUME NEW f \in Info,
             \/ NANDSafeOpen(f) \/ NANDSafeOpenRead(f)
             \/ NANDOpen(f) \/ NANDOpenRead(f) \/ NANDOpenCreates(f)
      PROVE  IInv'
  BY <1>3, SafeOpenKept, OpensForReadingKept, OpenKept, OpenCreatesKept
<1>4. ASSUME NEW f \in Info, NEW w \in Write, NANDWrite(f, w)
      PROVE  IInv'
  BY <1>4, WriteKept
<1>5. CASE NANDCreate \/ NANDDelete \/ Crash
  BY <1>5, CreateKept, DeleteKept, CrashKept
<1> QED
  BY <1>1, <1>2, <1>3, <1>4, <1>5 DEF Next

LEMMA InitGood == Init => IInv
<1> SUFFICES ASSUME Init PROVE IInv
  OBVIOUS
<1>1. PICK t \in {None, CHOOSE i \in Inode : TRUE} :
         fs = [dir    |-> [target |-> t, scratch |-> None],
               ondisk |-> {[target |-> t, scratch |-> None]},
               data   |-> [i \in Inode |-> {}],
               may    |-> [i \in Inode |-> {{}}]]
  BY DEF Init
<1>2. t \in Inode \cup {None}
  OBVIOUS
<1>3. fs \in FileSystem /\ fs.dir \in fs.ondisk /\ Live(fs)
  BY <1>1, <1>2 DEF FileSystem, Names, Content, Live
<1>4. HandleTypes /\ GhostTypes /\ acked = {}
  BY DEF Init, HandleTypes, GhostTypes, Flags, Content
<1>5. (\A f \in Info : handle[f] = NoHandle) /\ committing = None
  BY DEF Init
<1>6. OneWriter /\ Sessions /\ Renamed
  BY <1>5 DEF OneWriter, Writes, Sessions, Renamed
<1> QED
  BY <1>3, <1>4, <1>6, TypeParts DEF IInv, SavedIsDurable

LEMMA Inductive ==
    ASSUME OneSession
    PROVE  Spec => []IInv
<1>1. IInv /\ [Next]_vars => IInv'
  BY NextKept
<1> QED
  BY <1>1, InitGood, PTL DEF Spec

(* What a close reported as saved is in the file from then on, until it is  *)
(* deleted, whenever the power goes and whatever host call fails            *)
(* (nand_async.cpp 326-385).                                                *)
THEOREM SavedSurvives ==
    ASSUME OneSession
    PROVE  Spec => []SavedIsDurable
<1>1. IInv => SavedIsDurable
  BY DEF IInv
<1> QED
  BY <1>1, Inductive, PTL

-----------------------------------------------------------------------------
(* The types, which need no discipline of the game: they are kept also      *)
(* where two sessions that write overlap.                                   *)

Sound(s) == s \in FileSystem /\ s.dir \in s.ondisk /\ Live(s)

Typed == Sound(fs) /\ HandleTypes /\ GhostTypes

LEMMA TypedFile == TypeOK /\ Live(fs) <=> Typed
BY TypeParts DEF Typed, Sound

LEMMA SoundContents ==
    ASSUME NEW s, Sound(s), NEW i \in Inode
    PROVE  Sound(FlushFileToDisk(s, i)) /\ Sound(Truncated(s, i)) /\ Target(Truncated(s, i)) = Target(s)
<1>1. s \in FileSystem /\ Live(s) /\ s.dir \in s.ondisk
  BY DEF Sound
<1>2. Sound(FlushFileToDisk(s, i))
  BY <1>1, Flushed DEF Sound
<1> DEFINE t == Truncated(s, i)
           c == {}
           m == s.may[i] \cup {{}}
<1>3. t = Filled(s, i, c, m) /\ c \in Content /\ m \in SUBSET Content
  BY <1>1, Contents
<1>4. c \in m
  OBVIOUS
<1> HIDE DEF t, c, m
<1>5. /\ t \in FileSystem /\ t.dir = s.dir /\ t.ondisk = s.ondisk /\ t.data[i] = c /\ t.may[i] = m
      /\ \A j \in Inode : j # i => t.data[j] = s.data[j] /\ t.may[j] = s.may[j]
  BY <1>1, <1>3, FilledFields
<1>6. Sound(t) /\ Target(t) = Target(s)
  BY <1>1, <1>4, <1>5 DEF Sound, Live, Target
<1> QED
  BY <1>2, <1>6 DEF t

LEMMA SoundDropped ==
    ASSUME NEW s, Sound(s), NEW r \in ScratchDropped(s)
    PROVE  Sound(r)
<1>1. s \in FileSystem /\ s.dir \in s.ondisk /\ Live(s)
  BY DEF Sound
<1> DEFINE t == WithScratch(s, None)
<1>2. t \in FileSystem /\ t.dir \in t.ondisk /\ t.data = s.data /\ t.may = s.may
  BY <1>1, ScratchFields
<1> HIDE DEF t
<1>3. Sound(t)
  BY <1>1, <1>2 DEF Sound, Live
<1> QED
  BY <1>3 DEF ScratchDropped, t

(* A call that opens, and one that closes.                                  *)
LEMMA OpensTyped ==
    ASSUME HandleTypes, GhostTypes, NEW f \in Info, NEW h \in Handle, NEW fl \in Flags,
           Opened(f, h, fl), acked' \in Content
    PROVE  HandleTypes' /\ GhostTypes'
BY DEF Opened, HandleTypes, GhostTypes, Content

LEMMA ClosesTyped ==
    ASSUME HandleTypes, GhostTypes, NEW f \in Info, handle' \in {handle, [handle EXCEPT ![f] = NoHandle]},
           ReportsFailure(f) \/ \E saved \in Content : ReportsSuccess(f, saved),
           committing' \in Info \cup {None}, written' = written
    PROVE  HandleTypes' /\ GhostTypes'
<1>1. handle' \in [Info -> Handle \cup {NoHandle}]
  BY DEF HandleTypes
<1>2. CASE ReportsFailure(f)
  BY <1>1, <1>2 DEF ReportsFailure, HandleTypes, GhostTypes
<1>3. ASSUME NEW saved \in Content, ReportsSuccess(f, saved)
      PROVE  HandleTypes' /\ GhostTypes'
  <2>1. ClosedFlag(f) \in Flags /\ {} \in Content /\ acked \cup saved \in Content
    BY <1>3 DEF ClosedFlag, Flags, Content, GhostTypes
  <2> QED
    BY <1>1, <1>3, <2>1 DEF ReportsSuccess, HandleTypes, GhostTypes
<1> QED
  BY <1>2, <1>3

LEMMA SafeOpenTyped ==
    ASSUME TypeOK, Live(fs), NEW f \in Info, NANDSafeOpen(f)
    PROVE  Typed'
<1>1. /\ Typed /\ HasFree /\ Target(fs) # None /\ UNCHANGED acked
  BY TypedFile DEF NANDSafeOpen, MayOpen, WithinBounds
<1>2. CASE fs' = Seeded /\ Opened(f, ShadowOf(Fresh), "SAFE_OPEN")
  <2>1. Sound(fs') /\ ShadowOf(Fresh) \in Handle
    BY <1>1, <1>2, Seeding, FreshIsFree, Kinds DEF Beside, Sound
  <2> QED
    BY <1>1, <1>2, <2>1, OpensTyped DEF Typed, Flags, GhostTypes
<1>3. CASE fs' \in SeedFailures /\ UNCHANGED <<handle, flag, wrote, committing, written>>
  <2>1. Sound(fs')
    BY <1>1, <1>3, Seeding DEF Beside, Sound
  <2> QED
    BY <1>1, <1>3, <2>1 DEF Typed, HandleTypes, GhostTypes
<1> QED
  BY <1>2, <1>3 DEF NANDSafeOpen

LEMMA ReadersTyped ==
    ASSUME TypeOK, Live(fs), NEW f \in Info, NANDSafeOpenRead(f) \/ NANDOpenRead(f)
    PROVE  Typed'
<1>1. PICK fl \in Flags : /\ Opened(f, ReaderOf(Target(fs)), fl) /\ Target(fs) # None
                          /\ UNCHANGED <<fs, acked>>
  BY DEF NANDSafeOpenRead, NANDOpenRead, OpensForReading, Flags
<1>2. Typed /\ Target(fs) \in Inode
  BY <1>1, TypedFile DEF Typed, Sound, FileSystem, Names, Target
<1>3. HandleTypes' /\ GhostTypes'
  BY <1>1, <1>2, Kinds, OpensTyped DEF Typed, GhostTypes
<1> QED
  BY <1>1, <1>2, <1>3 DEF Typed, Sound, Live

LEMMA InPlaceTyped ==
    ASSUME Typed, NEW f \in Info, NEW s, Sound(s), Target(s) # None, InPlace(f, s)
    PROVE  Typed'
<1>1. Target(s) \in Inode
  BY DEF Sound, FileSystem, Names, Target
<1>2. Sound(fs')
  BY <1>1, SoundContents DEF InPlace
<1>3. acked' \in Content
  BY DEF InPlace, Typed, GhostTypes, Content
<1>4. Opened(f, DirectOf(Target(s)), "OPEN") /\ DirectOf(Target(s)) \in Handle
  BY <1>1, Kinds DEF InPlace
<1>5. HandleTypes' /\ GhostTypes'
  BY <1>3, <1>4, OpensTyped DEF Typed, Flags
<1> QED
  BY <1>2, <1>5 DEF Typed

LEMMA OpenTyped ==
    ASSUME TypeOK, Live(fs), NEW f \in Info, NANDOpen(f)
    PROVE  Typed'
<1>1. /\ Typed /\ HasFree /\ Target(fs) # None
  BY TypedFile DEF NANDOpen, MayOpen, WithinBounds
<1>2. CASE fs' = Seeded /\ Opened(f, ShadowOf(Fresh), "OPEN") /\ UNCHANGED acked
  <2>1. Sound(fs') /\ ShadowOf(Fresh) \in Handle
    BY <1>1, <1>2, Seeding, FreshIsFree, Kinds DEF Beside, Sound
  <2> QED
    BY <1>1, <1>2, <2>1, OpensTyped DEF Typed, Flags, GhostTypes
<1>3. ASSUME NEW s \in SeedFailures \cup {fs}, InPlace(f, s)
      PROVE  Typed'
  <2>1. Beside(s)
    BY <1>1, <1>3, Seeding, BesideItself
  <2> QED
    BY <1>1, <1>3, <2>1, InPlaceTyped DEF Beside, Sound
<1> QED
  BY <1>2, <1>3 DEF NANDOpen

LEMMA CreatingTyped ==
    ASSUME TypeOK, Live(fs), (\E f \in Info : NANDOpenCreates(f)) \/ NANDCreate
    PROVE  Typed'
<1>1. Typed /\ HasFree /\ Target(fs) = None /\ fs' = WithNewFile /\ acked' = acked
  BY TypedFile DEF NANDOpenCreates, NANDCreate, MayOpen, WithinBounds
<1>2. Sound(fs') /\ Fresh \in Inode
  BY <1>1, NewFile DEF Sound
<1>3. HandleTypes' /\ GhostTypes'
  <2>1. ASSUME NEW f \in Info, NANDOpenCreates(f)
        PROVE  HandleTypes' /\ GhostTypes'
    <3>1. Opened(f, DirectOf(Fresh), "OPEN") /\ DirectOf(Fresh) \in Handle
      BY <1>2, <2>1, Kinds DEF NANDOpenCreates
    <3> QED
      BY <1>1, <3>1, OpensTyped DEF Typed, Flags, GhostTypes
  <2>2. CASE NANDCreate
    BY <1>1, <2>2 DEF NANDCreate, Typed, HandleTypes, GhostTypes
  <2> QED
    BY <2>1, <2>2
<1> QED
  BY <1>2, <1>3 DEF Typed

LEMMA DeleteTyped ==
    ASSUME TypeOK, Live(fs), NANDDelete
    PROVE  Typed'
<1>1. /\ Typed /\ fs' = WithTarget(fs, None) /\ acked' = {}
      /\ UNCHANGED <<handle, flag, wrote, committing, written>>
  BY TypedFile DEF NANDDelete
<1> DEFINE t == WithTarget(fs, None)
<1>2. t \in FileSystem /\ t.dir \in t.ondisk /\ t.data = fs.data /\ t.may = fs.may
  BY <1>1, TargetFields DEF Typed, Sound
<1> HIDE DEF t
<1>3. Sound(t)
  BY <1>1, <1>2 DEF Typed, Sound, Live
<1> QED
  BY <1>1, <1>3 DEF t, Typed, HandleTypes, GhostTypes, Content

LEMMA WriteTyped ==
    ASSUME TypeOK, Live(fs), NEW f \in Info, NEW w \in Write, NANDWrite(f, w)
    PROVE  Typed'
<1> DEFINE i == handle[f].ino
           c == fs.data[i] \cup {w}
           m == WithWrite(fs.may[i], w)
<1>1. /\ Typed /\ fs \in FileSystem /\ fs.dir \in fs.ondisk /\ i \in Inode /\ fs' = WrittenTo(fs, i, w)
      /\ wrote' = [wrote EXCEPT ![f] = @ \cup {w}] /\ written' = written \cup {w}
      /\ UNCHANGED <<handle, flag, acked, committing>>
  BY TypedFile, Kinds DEF NANDWrite, Typed, Sound, HandleTypes
<1> HIDE DEF i
<1>2. fs' = Filled(fs, i, c, m) /\ c \in Content /\ m \in SUBSET Content
  BY <1>1, Writing
<1>3. c \in m
  BY <1>1 DEF WithWrite, Live
<1> HIDE DEF c, m
<1>4. /\ fs' \in FileSystem /\ fs'.dir = fs.dir /\ fs'.ondisk = fs.ondisk /\ fs'.data[i] = c /\ fs'.may[i] = m
      /\ \A j \in Inode : j # i => fs'.data[j] = fs.data[j] /\ fs'.may[j] = fs.may[j]
  BY <1>1, <1>2, FilledFields
<1>5. Sound(fs')
  BY <1>1, <1>3, <1>4 DEF Sound, Live
<1>6. wrote' \in [Info -> Content] /\ written' \in Content
  BY <1>1 DEF Typed, HandleTypes, GhostTypes, Content
<1> QED
  BY <1>1, <1>5, <1>6 DEF Typed, HandleTypes, GhostTypes

LEMMA CloseTyped ==
    ASSUME TypeOK, Live(fs), NEW f \in Info, Close(f)
    PROVE  Typed'
<1>1. Typed /\ Saved(f) \in Content /\ {} \in Content /\ written' = written
  BY TypedFile, SavedParts DEF Close, CloseReader, CloseDirect, CloseShadow, CommitReturns, CloseAgain,
                               MayClose, Content
<1>2. /\ handle' \in {handle, [handle EXCEPT ![f] = NoHandle]}
      /\ committing' \in {committing, f, None}
  BY DEF Close, CloseReader, CloseDirect, CloseShadow, CommitReturns, CloseAgain, Retires
<1>3. committing' \in Info \cup {None} /\ HandleTypes /\ GhostTypes
  BY <1>1, <1>2 DEF Typed, GhostTypes
<1>4. \/ ReportsFailure(f)
      \/ ReportsSuccess(f, Saved(f)) \/ ReportsSuccess(f, {})
  BY DEF Close, CloseReader, CloseDirect, CloseShadow, CommitReturns, CloseAgain, ReportsFailure
<1>5. HandleTypes' /\ GhostTypes'
  BY <1>1, <1>2, <1>3, <1>4, ClosesTyped
<1>6. Sound(fs')
  <2>1. handle[f] # NoHandle => handle[f].ino \in Inode
    BY <1>1, Kinds DEF Typed, HandleTypes
  <2>2. CASE UNCHANGED fs
    BY <1>1, <2>2 DEF Typed, Sound, Live
  <2>3. CASE CloseDirect(f)
    BY <1>1, <2>1, <2>2, <2>3, SoundContents DEF CloseDirect, Typed
  <2>4. CASE CloseShadow(f)
    <3> DEFINE i == handle[f].ino
               s == FlushedShadow(f)
    <3>1. i \in Inode /\ s = FlushFileToDisk(fs, i) /\ Sound(fs)
      BY <1>1, <2>1, <2>4 DEF CloseShadow, FlushedShadow, Typed
    <3> HIDE DEF i
    <3> HIDE DEF s
    <3>2. Sound(s) /\ Scratch(s) = Scratch(fs)
      <4>1. fs \in FileSystem /\ Live(fs) /\ i \in Inode
        BY <3>1 DEF Sound
      <4>2. s.dir = fs.dir
        BY <3>1, <4>1, Flushed
      <4> QED
        BY <3>1, <4>2, SoundContents DEF Scratch
    <3>3. CASE fs' = Replaced(s) /\ Scratch(fs) # None
      <4>1. Scratch(s) \in Inode
        BY <3>1, <3>2, <3>3 DEF Sound, FileSystem, Names, Scratch
      <4> DEFINE r == Replaced(s)
      <4>2. r \in FileSystem /\ r.dir \in r.ondisk /\ r.data = s.data /\ r.may = s.may
        BY <3>2, <4>1, ReplacedFields DEF Sound
      <4> HIDE DEF r
      <4>3. Sound(r)
        BY <3>2, <4>2 DEF Sound, Live
      <4> QED
        BY <3>3, <4>3 DEF r
    <3>4. CASE fs' \in ScratchDropped(fs) \cup ScratchDropped(s)
      BY <3>1, <3>2, <3>4, SoundDropped
    <3> QED
      BY <2>4, <3>3, <3>4 DEF CloseShadow, s
  <2>5. CASE fs' = DirectoryFlushed(fs)
    BY <1>1, <2>5 DEF DirectoryFlushed, Typed, Sound, FileSystem, Live
  <2> QED
    BY <2>2, <2>3, <2>4, <2>5 DEF Close, CloseReader, CommitReturns, CloseAgain
<1> QED
  BY <1>5, <1>6 DEF Typed

LEMMA CrashTyped ==
    ASSUME TypeOK, Crash
    PROVE  Typed'
<1>1. TypeOK /\ fs \in FileSystem /\ GhostTypes
  BY TypeParts
<1>2. PICK d \in fs.ondisk :
        \E c \in [{d.target, d.scratch} \ {None} -> Content] : LeavesOnDisk(d, c)
  BY DEF Crash, LeavesOnDisk, LeftData, LeftMay
<1> DEFINE D == {d.target, d.scratch} \ {None}
<1>3. PICK c \in [D -> Content] : LeavesOnDisk(d, c)
  BY <1>2
<1>4. d \in Names /\ D \in SUBSET Inode
  BY <1>1 DEF FileSystem, Names
<1> HIDE DEF D
<1>5. fs' = [dir |-> d, ondisk |-> {d}, data |-> LeftData(c), may |-> LeftMay(c)]
  BY <1>3 DEF LeavesOnDisk
<1>6. Sound(fs')
  BY <1>3, <1>4, <1>5, Left DEF FileSystem, Sound, Live
<1>7. /\ handle' = [f \in Info |-> NoHandle] /\ flag' = [f \in Info |-> "NONE"]
      /\ wrote' = [f \in Info |-> {}] /\ committing' = None /\ acked' = acked /\ written' = written
  BY <1>3 DEF LeavesOnDisk
<1> QED
  BY <1>1, <1>6, <1>7 DEF Typed, HandleTypes, GhostTypes, Flags, Content

LEMMA TypesKept == Typed /\ [Next]_vars => Typed'
<1> SUFFICES ASSUME TypeOK, Live(fs), [Next]_vars PROVE Typed'
  BY TypedFile
<1>1. CASE UNCHANGED vars
  <2>1. Typed
    BY TypedFile
  <2> QED
    BY <1>1, <2>1 DEF vars, Typed, Sound, Live, HandleTypes, GhostTypes
<1>2. ASSUME NEW f \in Info, Close(f)
      PROVE  Typed'
  BY <1>2, CloseTyped
<1>3. ASSUME NEW f \in Info,
             \/ NANDSafeOpen(f) \/ NANDSafeOpenRead(f)
             \/ NANDOpen(f) \/ NANDOpenRead(f) \/ NANDOpenCreates(f)
      PROVE  Typed'
  BY <1>3, SafeOpenTyped, ReadersTyped, OpenTyped, CreatingTyped
<1>4. ASSUME NEW f \in Info, NEW w \in Write, NANDWrite(f, w)
      PROVE  Typed'
  BY <1>4, WriteTyped
<1>5. CASE NANDCreate \/ NANDDelete \/ Crash
  BY <1>5, CreatingTyped, DeleteTyped, CrashTyped
<1> QED
  BY <1>1, <1>2, <1>3, <1>4, <1>5 DEF Next

(* Every call and every loss of power keeps to the types, in any sequence   *)
(* of calls and with any handles open at once (nand_api.cpp,                *)
(* nand_async.cpp).                                                         *)
THEOREM TypesCorrect == Spec => []TypeOK
<1>1. Init => Typed
  BY InitGood, TypedFile DEF IInv
<1>2. Typed => TypeOK
  BY TypedFile
<1> QED
  BY <1>1, <1>2, TypesKept, PTL DEF Spec

-----------------------------------------------------------------------------
(* The sessions are transactions: every call is a step of the abstract file *)
(* or is not seen in it.                                                    *)

TheContent == ContentOf(fs.data, Target(fs))
TheSession == [f \in Info |-> Session(f)]

ContentIn(s) == IF Target(s) = None THEN None ELSE s.data[Target(s)]
LeftBy(s) == UNION {IF d.target = None THEN {None} ELSE s.may[d.target] : d \in s.ondisk}

LEMMA InFile ==
    /\ TheContent = ContentIn(fs) /\ AfterCrash = LeftBy(fs)
    /\ TheContent' = ContentIn(fs') /\ AfterCrash' = LeftBy(fs')
BY DEF TheContent, ContentOf, ContentIn, AfterCrash, LeftBy, Target

LEMMA LeftParts ==
    ASSUME NEW s, NEW c
    PROVE  c \in LeftBy(s) <=>
             \E t \in Targets(s) : (t = None /\ c = None) \/ (t # None /\ c \in s.may[t])
BY DEF LeftBy, Targets

LEMMA CurrentLeft ==
    ASSUME NEW s \in FileSystem, s.dir \in s.ondisk, Live(s)
    PROVE  ContentIn(s) \in LeftBy(s)
<1>1. Target(s) \in Targets(s) /\ Target(s) \in Inode \cup {None}
  BY DEF Target, Targets, FileSystem, Names
<1>2. Target(s) # None => s.data[Target(s)] \in s.may[Target(s)]
  BY <1>1 DEF Live
<1>3. ContentIn(s) \in LeftBy(s) <=>
         \E t \in Targets(s) : (t = None /\ ContentIn(s) = None) \/ (t # None /\ ContentIn(s) \in s.may[t])
  BY LeftParts
<1> QED
  BY <1>1, <1>2, <1>3 DEF ContentIn

ShutSession == [kind |-> "closed"]
InPlaceSession == [kind |-> "direct"]
PreparedSession(c) == [kind |-> "prepared", content |-> c]

LEMMA SessionKinds ==
    ASSUME NEW g \in Info
    PROVE  /\ ~Writes(g) => Session(g) = ShutSession
           /\ Writes(g) /\ handle[g].kind = "direct" => Session(g) = InPlaceSession
           /\ Writes(g) /\ handle[g].kind = "shadow" => Session(g) = PreparedSession(fs.data[handle[g].ino])
           /\ ~Writes(g)' => Session(g)' = ShutSession
           /\ Writes(g)' /\ handle'[g].kind = "direct" => Session(g)' = InPlaceSession
           /\ Writes(g)' /\ handle'[g].kind = "shadow" =>
                Session(g)' = PreparedSession(fs'.data[handle'[g].ino])
<1>1. ~Writes(g) => Session(g) = ShutSession
  BY DEF Writes, Session, ShutSession
<1>2. Writes(g) /\ handle[g].kind = "direct" => Session(g) = InPlaceSession
  BY DEF Writes, Session, InPlaceSession
<1>3. Writes(g) /\ handle[g].kind = "shadow" => Session(g) = PreparedSession(fs.data[handle[g].ino])
  BY DEF Writes, Session, PreparedSession
<1>4. ~Writes(g)' => Session(g)' = ShutSession
  BY DEF Writes, Session, ShutSession
<1>5. Writes(g)' /\ handle'[g].kind = "direct" => Session(g)' = InPlaceSession
  BY DEF Writes, Session, InPlaceSession
<1>6. Writes(g)' /\ handle'[g].kind = "shadow" => Session(g)' = PreparedSession(fs'.data[handle'[g].ino])
  BY DEF Writes, Session, PreparedSession
<1> QED
  BY <1>1, <1>2, <1>3, <1>4, <1>5, <1>6

LEMMA OthersClosed ==
    ASSUME NEW f \in Info, \A g \in Info : g # f => ~Writes(g) /\ ~Writes(g)'
    PROVE  TheSession' = [TheSession EXCEPT ![f] = Session(f)']
<1>1. \A g \in Info : g # f => Session(g)' = Session(g)
  BY SessionKinds
<1>2. /\ TheSession = [g \in Info |-> Session(g)]
      /\ TheSession' = [g \in Info |-> Session(g)']
  BY DEF TheSession
<1> QED
  BY <1>1, <1>2

LEMMA AllClosed ==
    ASSUME \A g \in Info : ~Writes(g) /\ ~Writes(g)'
    PROVE  TheSession' = TheSession
<1>1. \A g \in Info : Session(g)' = Session(g)
  BY SessionKinds
<1> QED
  BY <1>1 DEF TheSession

(* The steps of the abstract file.                                          *)
MapsTo == [File!Next]_(File!vars)

BecomesSo(c, more) ==
    /\ ContentIn(fs') = c
    /\ c \in LeftBy(fs') /\ LeftBy(fs') \subseteq LeftBy(fs) \cup {c} \cup more

LEMMA Becoming ==
    ASSUME NEW c, NEW more, BecomesSo(c, more)
    PROVE  File!Becomes(c, more)
BY InFile DEF BecomesSo, File!Becomes, TheContent

LEMMA Unseen ==
    ASSUME ContentIn(fs') = ContentIn(fs), LeftBy(fs') = LeftBy(fs), TheSession' = TheSession
    PROVE  MapsTo
BY InFile DEF MapsTo, File!vars, TheContent, TheSession

LEMMA Begins ==
    ASSUME NEW f \in Info, ContentIn(fs) # None, ContentIn(fs') = ContentIn(fs), LeftBy(fs') = LeftBy(fs),
           TheSession' = [TheSession EXCEPT ![f] = PreparedSession(ContentIn(fs))]
    PROVE  MapsTo
<1>1. File!Begin(f)
  BY InFile DEF File!Begin, File!Exists, File!Prepared, PreparedSession, TheContent, TheSession
<1> QED
  BY <1>1 DEF MapsTo, File!Next

LEMMA BeginsDirect ==
    ASSUME NEW f \in Info, TheSession' = [TheSession EXCEPT ![f] = InPlaceSession],
           BecomesSo(ContentIn(fs), {}) \/ BecomesSo({}, {})
    PROVE  MapsTo
<1>1. File!BeginDirect(f)
  BY InFile, Becoming DEF File!BeginDirect, File!Direct, InPlaceSession, TheContent, TheSession
<1> QED
  BY <1>1 DEF MapsTo, File!Next

LEMMA Ends ==
    ASSUME NEW f \in Info, TheSession' = [TheSession EXCEPT ![f] = ShutSession],
           BecomesSo(ContentIn(fs), {})
    PROVE  MapsTo
<1>1. File!End(f)
  BY InFile, Becoming DEF File!End, File!Closed, ShutSession, TheContent, TheSession
<1> QED
  BY <1>1 DEF MapsTo, File!Next

LEMMA Publishes ==
    ASSUME NEW f \in Info, NEW c, TheSession[f] = PreparedSession(c), BecomesSo(c, {}),
           TheSession' = [TheSession EXCEPT ![f] = ShutSession]
    PROVE  MapsTo
<1>1. TheSession[f].kind = "prepared" /\ TheSession[f].content = c
  BY DEF PreparedSession
<1>2. File!Publish(f)
  BY <1>1, Becoming DEF File!Publish, File!Closed, ShutSession, TheContent, TheSession
<1> QED
  BY <1>2 DEF MapsTo, File!Next

LEMMA Settles ==
    ASSUME TheSession' = TheSession,
           \/ BecomesSo(ContentIn(fs), {})
           \/ ContentIn(fs) = None /\ BecomesSo({}, {})
           \/ ContentIn(fs) # None /\ BecomesSo(None, {})
    PROVE  MapsTo
<1>1. File!Settle \/ File!Create \/ File!Delete
  BY InFile, Becoming DEF File!Settle, File!Create, File!Delete, File!Exists, TheContent, TheSession
<1> QED
  BY <1>1 DEF MapsTo, File!Next

LEMMA PutsPrepared ==
    ASSUME NEW f \in Info, NEW w \in Write, NEW c, TheSession[f] = PreparedSession(c),
           TheSession' = [TheSession EXCEPT ![f] = PreparedSession(c \cup {w})],
           ContentIn(fs') = ContentIn(fs), LeftBy(fs') = LeftBy(fs)
    PROVE  MapsTo
<1>1. TheSession[f].kind = "prepared" /\ TheSession[f].content = c
  BY DEF PreparedSession
<1>2. File!Put(f, w)
  BY <1>1, InFile DEF File!Put, File!Prepared, PreparedSession, TheContent, TheSession
<1> QED
  BY <1>2 DEF MapsTo, File!Next

LEMMA PutsDirect ==
    ASSUME NEW f \in Info, NEW w \in Write, TheSession[f] = InPlaceSession, TheSession' = TheSession,
           ContentIn(fs) # None,
           BecomesSo(ContentIn(fs) \cup {w}, {c \cup {w} : c \in LeftBy(fs) \ {None}})
    PROVE  MapsTo
<1>1. File!Becomes(ContentIn(fs) \cup {w}, {c \cup {w} : c \in LeftBy(fs) \ {None}})
  BY Becoming
<1>2. File!Put(f, w)
  BY <1>1, InFile DEF File!Put, File!Direct, File!Exists, InPlaceSession, TheContent, TheSession
<1> QED
  BY <1>2 DEF MapsTo, File!Next

LEMMA LosesPower ==
    ASSUME TheSession' = [f \in Info |-> ShutSession],
           ContentIn(fs') \in LeftBy(fs), LeftBy(fs') = {ContentIn(fs')}
    PROVE  MapsTo
<1>1. File!PowerLoss
  BY InFile DEF File!PowerLoss, File!Closed, ShutSession, TheContent, TheSession
<1> QED
  BY <1>1 DEF MapsTo, File!Next

(* What the operations of the calls look like in the file.                  *)
LEMMA BesideInFile ==
    ASSUME TypeOK, NEW s, Beside(s)
    PROVE  ContentIn(s) = ContentIn(fs) /\ LeftBy(s) = LeftBy(fs)
<1>1. /\ Targets(s) = Targets(fs) /\ Target(s) = Target(fs)
      /\ \A i \in Inode \cap Targets(fs) : s.data[i] = fs.data[i] /\ s.may[i] = fs.may[i]
  BY DEF Beside
<1>2. \A t \in Targets(fs) : t # None => t \in Inode
  BY DEF TypeOK, Targets, Names
<1>3. Target(fs) \in Targets(fs)
  BY DEF TypeOK, Target, Targets
<1>4. LeftBy(s) = LeftBy(fs)
  BY <1>1, <1>2, LeftParts
<1> QED
  BY <1>1, <1>2, <1>3, <1>4 DEF ContentIn

LEMMA InGoodOrder ==
    /\ IInv => TypeOK /\ fs \in FileSystem /\ fs.dir \in fs.ondisk /\ Live(fs)
    /\ IInv' => fs' \in FileSystem /\ fs'.dir \in fs'.ondisk /\ Live(fs')
BY DEF IInv, TypeOK, FileSystem

LEMMA ReadersMap ==
    ASSUME OneSession, IInv, NEW f \in Info, NANDSafeOpenRead(f) \/ NANDOpenRead(f)
    PROVE  MapsTo
<1>1. AllowsOverlap /\ fs' = fs /\ handle' = [handle EXCEPT ![f] = ReaderOf(Target(fs))]
  BY DEF NANDSafeOpenRead, NANDOpenRead, OpensForReading, MayOpen, Opened
<1>2. handle \in [Info -> Handle \cup {NoHandle}]
  BY DEF IInv, TypeOK
<1>3. \A g \in Info : ~Writes(g) /\ ~Writes(g)'
  BY <1>1, <1>2, OnlyReaders DEF Writes, ReaderOf
<1> QED
  BY <1>1, <1>3, AllClosed, Unseen

LEMMA SeedsMap ==
    ASSUME IInv, NEW f \in Info, NEW fl, \A g \in Info : ~Writes(g), HasFree, Target(fs) # None,
           fs' = Seeded, Opened(f, ShadowOf(Fresh), fl)
    PROVE  MapsTo
<1>1. /\ TypeOK /\ Live(fs) /\ handle \in [Info -> Handle \cup {NoHandle}]
  BY DEF IInv, TypeOK
<1>2. /\ Beside(fs') /\ fs'.data[Fresh] = fs.data[Target(fs)] /\ Target(fs) \in Inode /\ Fresh \in Inode
  BY <1>1, Seeding, FreshIsFree
<1>3. ShadowOf(Fresh) \in Handle /\ ShadowOf(Fresh).kind = "shadow" /\ ShadowOf(Fresh).ino = Fresh
      /\ ShadowOf(Fresh) # NoHandle
  BY <1>2, Kinds
<1>4. handle'[f] = ShadowOf(Fresh) /\ \A g \in Info : g # f => handle'[g] = handle[g]
  BY <1>1 DEF Opened
<1>5. \A g \in Info : g # f => ~Writes(g) /\ ~Writes(g)'
  BY <1>4 DEF Writes
<1>6. Session(f)' = PreparedSession(ContentIn(fs))
  <2>1. Writes(f)' /\ handle'[f].kind = "shadow" /\ handle'[f].ino = Fresh
    BY <1>3, <1>4 DEF Writes
  <2>2. ContentIn(fs) = fs.data[Target(fs)]
    BY DEF ContentIn
  <2> QED
    BY <1>2, <2>1, <2>2, SessionKinds
<1>7. ContentIn(fs') = ContentIn(fs) /\ LeftBy(fs') = LeftBy(fs) /\ ContentIn(fs) # None
  <2>1. fs.data[Target(fs)] # None
    BY <1>1, <1>2 DEF TypeOK, Content
  <2> QED
    BY <1>1, <1>2, <2>1, BesideInFile DEF ContentIn
<1> QED
  BY <1>5, <1>6, <1>7, OthersClosed, Begins

LEMMA StaysMap ==
    ASSUME IInv, \A g \in Info : ~Writes(g), Beside(fs'), UNCHANGED handle
    PROVE  MapsTo
<1>1. TypeOK /\ \A g \in Info : ~Writes(g)'
  BY DEF IInv, Writes
<1> QED
  BY <1>1, AllClosed, BesideInFile, Unseen

LEMMA SafeOpenMap ==
    ASSUME OneSession, IInv, NEW f \in Info, NANDSafeOpen(f)
    PROVE  MapsTo
<1>1. /\ TypeOK /\ Live(fs) /\ HasFree /\ Target(fs) # None /\ \A g \in Info : ~Writes(g)
  BY OnlyReaders DEF IInv, NANDSafeOpen, MayOpen, WithinBounds
<1>2. CASE fs' = Seeded /\ Opened(f, ShadowOf(Fresh), "SAFE_OPEN")
  BY <1>1, <1>2, SeedsMap
<1>3. CASE fs' \in SeedFailures /\ UNCHANGED <<handle, flag, wrote, committing, written>>
  BY <1>1, <1>3, Seeding, StaysMap
<1> QED
  BY <1>2, <1>3 DEF NANDSafeOpen

(* A session in place.                                                      *)
LEMMA InPlaceBegins ==
    ASSUME IInv, NEW f \in Info, NEW fl, NEW i \in Inode, \A g \in Info : ~Writes(g),
           Opened(f, DirectOf(i), fl), BecomesSo(ContentIn(fs), {}) \/ BecomesSo({}, {})
    PROVE  MapsTo
<1>1. handle \in [Info -> Handle \cup {NoHandle}]
  BY DEF IInv, TypeOK
<1>2. DirectOf(i) \in Handle /\ DirectOf(i).kind = "direct" /\ DirectOf(i) # NoHandle
  BY Kinds
<1>3. handle'[f] = DirectOf(i) /\ \A g \in Info : g # f => handle'[g] = handle[g]
  BY <1>1 DEF Opened
<1>4. \A g \in Info : g # f => ~Writes(g) /\ ~Writes(g)'
  BY <1>3 DEF Writes
<1>5. Session(f)' = InPlaceSession
  BY <1>2, <1>3, SessionKinds DEF Writes
<1> QED
  BY <1>4, <1>5, OthersClosed, BeginsDirect

LEMMA InPlaceMap ==
    ASSUME IInv, IInv', NEW f \in Info, \A g \in Info : ~Writes(g), Target(fs) # None,
           NEW s, Beside(s), InPlace(f, s)
    PROVE  MapsTo
<1>1. /\ TypeOK /\ fs' \in FileSystem /\ fs'.dir \in fs'.ondisk /\ Live(fs') /\ Target(fs) \in Inode
  BY InGoodOrder, AckedInside DEF IInv
<1>2. s \in FileSystem /\ Live(s) /\ Target(s) = Target(fs) /\ ContentIn(s) = ContentIn(fs) /\ LeftBy(s) = LeftBy(fs)
  BY <1>1, BesideInFile DEF Beside
<1>3. Opened(f, DirectOf(Target(s)), "OPEN") /\ Target(s) \in Inode
  BY <1>1, <1>2 DEF InPlace
<1>4. CASE fs' = s
  <2>1. BecomesSo(ContentIn(fs), {})
    BY <1>1, <1>2, <1>4, CurrentLeft DEF BecomesSo
  <2> QED
    BY <1>3, <2>1, InPlaceBegins
<1>5. CASE fs' = Truncated(s, Target(s))
  <2> DEFINE i == Target(s)
  <2>1. /\ fs' = Filled(s, i, {}, s.may[i] \cup {{}}) /\ {} \in Content
        /\ s.may[i] \cup {{}} \in SUBSET Content
    BY <1>1, <1>2, <1>5, Contents
  <2> HIDE DEF i
  <2>2. /\ fs'.dir = s.dir /\ Targets(fs') = Targets(s)
        /\ fs'.data[i] = {} /\ fs'.may[i] = s.may[i] \cup {{}}
        /\ \A j \in Inode : j # i => fs'.may[j] = s.may[j]
    BY <1>2, <1>3, <2>1, FilledFields DEF i
  <2>3. ContentIn(fs') = {}
    BY <1>1, <1>2, <2>2 DEF ContentIn, Target, i
  <2>4. ASSUME NEW b \in LeftBy(fs') PROVE b \in LeftBy(s) \cup {{}}
    <3>1. PICK t \in Targets(s) : (t = None /\ b = None) \/ (t # None /\ b \in fs'.may[t])
      BY <2>2, <2>4, LeftParts
    <3>2. t \in Inode \cup {None}
      BY <1>2 DEF Targets, FileSystem, Names
    <3>3. (t = None /\ b = None) \/ (t # None /\ b \in s.may[t]) \/ b = {}
      BY <2>2, <3>1, <3>2
    <3> QED
      BY <3>1, <3>3, LeftParts
  <2>5. BecomesSo({}, {})
    BY <1>1, <1>2, <2>3, <2>4, CurrentLeft DEF BecomesSo
  <2> QED
    BY <1>3, <2>5, InPlaceBegins
<1> QED
  BY <1>4, <1>5 DEF InPlace

LEMMA OpenMap ==
    ASSUME OneSession, IInv, IInv', NEW f \in Info, NANDOpen(f)
    PROVE  MapsTo
<1>1. /\ TypeOK /\ Live(fs) /\ HasFree /\ Target(fs) # None /\ \A g \in Info : ~Writes(g)
  BY OnlyReaders DEF IInv, NANDOpen, MayOpen, WithinBounds
<1>2. CASE fs' = Seeded /\ Opened(f, ShadowOf(Fresh), "OPEN")
  BY <1>1, <1>2, SeedsMap
<1>3. ASSUME NEW s \in SeedFailures \cup {fs}, InPlace(f, s)
      PROVE  MapsTo
  BY <1>1, <1>3, Seeding, BesideItself, InPlaceMap
<1> QED
  BY <1>2, <1>3 DEF NANDOpen

(* A new file is empty, on the disk too once its entry is.                  *)
LEMMA NewFileInFile ==
    ASSUME IInv, HasFree, Target(fs) = None, fs' = WithNewFile
    PROVE  BecomesSo({}, {}) /\ ContentIn(fs) = None
<1>1. TypeOK /\ Live(fs)
  BY DEF IInv
<1>2. /\ fs' \in FileSystem /\ fs'.dir \in fs'.ondisk /\ Live(fs') /\ Target(fs') = Fresh /\ Fresh \in Inode
      /\ Targets(fs') = Targets(fs) \cup {Fresh} /\ fs'.data[Fresh] = {} /\ fs'.may[Fresh] = {{}}
      /\ \A j \in Inode : j # Fresh => fs'.may[j] = fs.may[j]
  BY <1>1, NewFile
<1>3. ContentIn(fs') = {} /\ ContentIn(fs) = None
  BY <1>2 DEF ContentIn
<1>4. ASSUME NEW b \in LeftBy(fs') PROVE b \in LeftBy(fs) \cup {{}}
  <2>1. PICK t \in Targets(fs') : (t = None /\ b = None) \/ (t # None /\ b \in fs'.may[t])
    BY <1>4, LeftParts
  <2>2. t \in Inode \cup {None}
    BY <1>2 DEF Targets, FileSystem, Names
  <2>3. CASE t = Fresh
    BY <1>2, <2>1, <2>3
  <2>4. CASE t # Fresh
    BY <1>2, <2>1, <2>2, <2>4, LeftParts
  <2> QED
    BY <2>3, <2>4
<1>5. {} \in LeftBy(fs')
  BY <1>2, <1>3, CurrentLeft
<1>6. LeftBy(fs') \subseteq LeftBy(fs) \cup {{}}
  BY <1>4
<1> QED
  BY <1>3, <1>5, <1>6 DEF BecomesSo

LEMMA OpenCreatesMap ==
    ASSUME OneSession, IInv, NEW f \in Info, NANDOpenCreates(f)
    PROVE  MapsTo
<1>1. /\ TypeOK /\ HasFree /\ Target(fs) = None /\ fs' = WithNewFile /\ Opened(f, DirectOf(Fresh), "OPEN")
      /\ \A g \in Info : ~Writes(g)
  BY OnlyReaders DEF IInv, NANDOpenCreates, MayOpen, WithinBounds
<1>2. Fresh \in Inode /\ BecomesSo({}, {})
  BY <1>1, FreshIsFree, NewFileInFile
<1> QED
  BY <1>1, <1>2, InPlaceBegins

LEMMA CreateMap ==
    ASSUME IInv, NANDCreate
    PROVE  MapsTo
<1>1. HasFree /\ Target(fs) = None /\ fs' = WithNewFile /\ handle' = handle
  BY DEF NANDCreate, WithinBounds
<1>2. \A g \in Info : ~Writes(g)
  <2>1. HandleTypes /\ Sessions
    BY TypeParts DEF IInv
  <2> QED
    BY <1>1, <2>1, Kinds DEF Sessions, Writes, InPlaceOf, Shadowing, HandleTypes
<1>3. \A g \in Info : ~Writes(g)'
  BY <1>1, <1>2 DEF Writes
<1> QED
  BY <1>1, <1>2, <1>3, NewFileInFile, AllClosed, Settles

LEMMA DeleteMap ==
    ASSUME OneSession, IInv, IInv', NANDDelete
    PROVE  MapsTo
<1>1. /\ TypeOK /\ Live(fs) /\ fs \in FileSystem /\ Target(fs) # None /\ fs' = WithTarget(fs, None)
      /\ handle' = handle /\ \A g \in Info : ~Writes(g)
  BY OnlyReaders, InGoodOrder DEF IInv, NANDDelete
<1>2. /\ fs' \in FileSystem /\ fs'.dir \in fs'.ondisk /\ Target(fs') = None
      /\ fs'.may = fs.may /\ Targets(fs') = Targets(fs) \cup {None}
  BY <1>1, TargetFields
<1>3. \A g \in Info : ~Writes(g)'
  BY <1>1 DEF Writes
<1>4. ContentIn(fs') = None
  BY <1>2 DEF ContentIn
<1>5. ContentIn(fs) # None
  <2>1. Target(fs) \in Inode
    BY <1>1 DEF FileSystem, Names, Target
  <2>2. fs.data[Target(fs)] # None
    BY <1>1, <2>1 DEF FileSystem, Content
  <2> QED
    BY <1>1, <2>2 DEF ContentIn
<1>6. LeftBy(fs') \subseteq LeftBy(fs) \cup {None}
  BY <1>2, LeftParts
<1>7. BecomesSo(None, {})
  BY <1>2, <1>4, <1>6, CurrentLeft, InGoodOrder DEF BecomesSo
<1> QED
  BY <1>1, <1>3, <1>5, <1>7, AllClosed, Settles

LEMMA WriteMap ==
    ASSUME IInv, IInv', NEW f \in Info, NEW w \in Write, NANDWrite(f, w)
    PROVE  MapsTo
<1> DEFINE i == handle[f].ino
           c == fs.data[i] \cup {w}
           m == WithWrite(fs.may[i], w)
<1>1. /\ TypeOK /\ Live(fs) /\ Sessions /\ OneWriter /\ fs \in FileSystem /\ fs.dir \in fs.ondisk
      /\ Writes(f) /\ handle[f] \in Handle /\ i \in Inode /\ handle' = handle
  <2>1. handle[f] # NoHandle /\ handle[f].kind # "read" /\ handle' = handle
    BY DEF NANDWrite
  <2> QED
    BY <2>1, TypeParts, Kinds DEF IInv, HandleTypes, Writes
<1>2. fs' = Filled(fs, i, c, m) /\ c \in Content /\ m \in SUBSET Content
  <2>1. fs' = WrittenTo(fs, i, w) /\ fs \in FileSystem /\ Live(fs) /\ i \in Inode
    BY <1>1 DEF NANDWrite
  <2> HIDE DEF i
  <2> QED
    BY <2>1, Writing
<1>3. /\ c = fs.data[i] \cup {w} /\ m = WithWrite(fs.may[i], w) /\ fs.may[i] \in SUBSET Content
      /\ fs.data[i] \in Content
  BY <1>1 DEF FileSystem
<1>4. handle[f].ino = i
  OBVIOUS
<1> HIDE DEF i, c, m
<1>5. /\ fs'.dir = fs.dir /\ fs'.ondisk = fs.ondisk /\ Targets(fs') = Targets(fs)
      /\ fs'.data[i] = c /\ fs'.may[i] = m /\ Target(fs') = Target(fs)
      /\ \A j \in Inode : j # i => fs'.data[j] = fs.data[j] /\ fs'.may[j] = fs.may[j]
  BY <1>1, <1>2, FilledFields DEF Target
<1>6. \A t \in Targets(fs) : t \in Inode \cup {None}
  BY <1>1 DEF Targets, FileSystem, Names
<1>7. Target(fs) \in Targets(fs)
  BY <1>1 DEF Target, Targets
<1>8. Writes(f)' /\ \A g \in Info : g # f => ~Writes(g) /\ ~Writes(g)'
  BY <1>1 DEF OneWriter, Writes
<1>9. TheSession' = [TheSession EXCEPT ![f] = Session(f)'] /\ TheSession[f] = Session(f)
  BY <1>8, OthersClosed DEF TheSession
<1>10. CASE handle[f].kind = "shadow"
  <2>1. i \notin Targets(fs)
    BY <1>1, <1>4, <1>10 DEF Sessions, Shadowing, Writes
  <2>2. ContentIn(fs') = ContentIn(fs)
    BY <1>5, <1>6, <1>7, <2>1 DEF ContentIn
  <2>3. LeftBy(fs') = LeftBy(fs)
    <3>1. \A t \in Targets(fs) : t # None => fs'.may[t] = fs.may[t]
      BY <1>5, <1>6, <2>1
    <3>2. \A b : b \in LeftBy(fs') <=> b \in LeftBy(fs)
      BY <1>5, <3>1, LeftParts
    <3> QED
      BY <3>2
  <2>4. Session(f) = PreparedSession(fs.data[i]) /\ Session(f)' = PreparedSession(c)
    BY <1>1, <1>4, <1>5, <1>8, <1>10, SessionKinds
  <2> QED
    BY <1>3, <1>9, <2>2, <2>3, <2>4, PutsPrepared
<1>11. CASE handle[f].kind = "direct"
  <2>1. i = Target(fs) /\ i # None
    BY <1>1, <1>4, <1>11 DEF Sessions, InPlaceOf, Writes
  <2>2. ContentIn(fs') = c /\ ContentIn(fs) = fs.data[i] /\ ContentIn(fs) # None
    BY <1>3, <1>5, <2>1 DEF ContentIn, Content
  <2>3. Session(f) = InPlaceSession /\ Session(f)' = InPlaceSession
    BY <1>1, <1>8, <1>11, SessionKinds
  <2>4. TheSession' = TheSession
    BY <1>9, <2>3 DEF TheSession
  <2>5. ASSUME NEW b \in LeftBy(fs')
        PROVE  b \in LeftBy(fs) \/ \E a \in LeftBy(fs) \ {None} : b = a \cup {w}
    <3>1. PICK t \in Targets(fs) : (t = None /\ b = None) \/ (t # None /\ b \in fs'.may[t])
      BY <1>5, <2>5, LeftParts
    <3>2. CASE t = i
      <4>1. b \in m
        BY <1>5, <2>1, <3>1, <3>2
      <4>2. b \in fs.may[i] \/ \E a \in fs.may[i] : b = a \cup {w}
        BY <1>3, <4>1 DEF WithWrite
      <4>3. \A a \in fs.may[i] : a \in LeftBy(fs) \ {None}
        BY <1>3, <1>7, <2>1, LeftParts DEF Content
      <4> QED
        BY <4>2, <4>3
    <3>3. CASE t # i
      BY <1>5, <1>6, <3>1, <3>3, LeftParts
    <3> QED
      BY <3>2, <3>3
  <2>6. LeftBy(fs') \subseteq LeftBy(fs) \cup {c} \cup {a \cup {w} : a \in LeftBy(fs) \ {None}}
    BY <2>5
  <2>7. c \in LeftBy(fs')
    BY <2>2, CurrentLeft, InGoodOrder
  <2>8. BecomesSo(ContentIn(fs) \cup {w}, {a \cup {w} : a \in LeftBy(fs) \ {None}})
    BY <1>3, <2>2, <2>6, <2>7 DEF BecomesSo
  <2> QED
    BY <1>9, <2>2, <2>3, <2>4, <2>8, PutsDirect
<1> QED
  BY <1>1, <1>10, <1>11, Kinds DEF Writes

LEMMA CloseReaderMap ==
    ASSUME IInv, NEW f \in Info, CloseReader(f) \/ CloseAgain(f)
    PROVE  MapsTo
<1>1. HandleTypes /\ ~Writes(f)
  BY TypeParts DEF IInv, CloseReader, CloseAgain, Writes
<1>2. fs' = fs /\ handle' \in {handle, [handle EXCEPT ![f] = NoHandle]}
  BY DEF CloseReader, CloseAgain, Retires
<1>3. ~Writes(f)' /\ \A g \in Info : g # f => handle'[g] = handle[g]
  BY <1>1, <1>2 DEF HandleTypes, Writes
<1>4. \A g \in Info : g # f => Session(g)' = Session(g)
  BY <1>2, <1>3 DEF Session
<1>5. Session(f)' = Session(f)
  BY <1>1, <1>3, SessionKinds
<1>6. TheSession' = TheSession
  BY <1>4, <1>5 DEF TheSession
<1> QED
  BY <1>2, <1>6, Unseen

(* The close of a session that writes.                                      *)
LEMMA Closing ==
    ASSUME IInv, NEW f \in Info, CloseDirect(f) \/ CloseShadow(f)
    PROVE  TheSession' = [TheSession EXCEPT ![f] = ShutSession] /\ TheSession[f] = Session(f)
<1>1. Writes(f) /\ Retires(f)
  BY DEF CloseDirect, CloseShadow, Writes
<1>2. HandleTypes
  BY TypeParts DEF IInv
<1>3. handle'[f] = NoHandle /\ \A g \in Info : g # f => handle'[g] = handle[g]
  BY <1>1, <1>2 DEF Retires, HandleTypes
<1>4. ~Writes(f)' /\ \A g \in Info : g # f => ~Writes(g) /\ ~Writes(g)'
  BY <1>1, <1>3 DEF IInv, OneWriter, Writes
<1> QED
  BY <1>4, OthersClosed, SessionKinds DEF TheSession

LEMMA CloseDirectMap ==
    ASSUME IInv, IInv', NEW f \in Info, CloseDirect(f)
    PROVE  MapsTo
<1> DEFINE i == handle[f].ino
<1>1. /\ fs \in FileSystem /\ fs.dir \in fs.ondisk /\ Live(fs) /\ i \in Inode
      /\ fs' = FlushFileToDisk(fs, i) \/ fs' = fs
  <2>1. handle[f] # NoHandle /\ (fs' = FlushFileToDisk(fs, i) \/ fs' = fs)
    BY DEF CloseDirect
  <2> QED
    BY <2>1, TypeParts, Kinds DEF IInv, HandleTypes
<1> HIDE DEF i
<1>2. CASE fs' = FlushFileToDisk(fs, i)
  <2>1. /\ Target(fs') = Target(fs) /\ Targets(fs') = Targets(fs) /\ fs'.data = fs.data
        /\ fs'.may[i] = {fs.data[i]} /\ fs.data[i] \in fs.may[i]
        /\ \A j \in Inode : j # i => fs'.may[j] = fs.may[j]
    BY <1>1, <1>2, Flushed DEF Target, Live
  <2>2. ContentIn(fs') = ContentIn(fs)
    BY <2>1 DEF ContentIn
  <2>3. \A t \in Targets(fs) : t = None \/ fs'.may[t] \subseteq fs.may[t]
    BY <1>1, <2>1 DEF Targets, FileSystem, Names
  <2>4. LeftBy(fs') \subseteq LeftBy(fs)
    BY <2>1, <2>3, LeftParts
  <2>5. BecomesSo(ContentIn(fs), {})
    BY <2>2, <2>4, CurrentLeft, InGoodOrder DEF BecomesSo
  <2> QED
    BY <2>5, Closing, Ends
<1>3. CASE fs' = fs
  <2>1. BecomesSo(ContentIn(fs), {})
    BY <1>1, <1>3, CurrentLeft DEF BecomesSo
  <2> QED
    BY <2>1, Closing, Ends
<1> QED
  BY <1>1, <1>2, <1>3

LEMMA CloseShadowMap ==
    ASSUME IInv, IInv', NEW f \in Info, CloseShadow(f)
    PROVE  MapsTo
<1> DEFINE i == handle[f].ino
           s == FlushedShadow(f)
<1>1. /\ TypeOK /\ fs \in FileSystem /\ fs.dir \in fs.ondisk /\ Live(fs) /\ Writes(f)
      /\ i \in Inode /\ i = Scratch(fs) /\ i \notin Targets(fs) /\ handle[f].kind = "shadow"
  <2>1. handle[f].kind = "shadow"
    BY DEF CloseShadow
  <2> QED
    BY <2>1, ShadowParts DEF Shadowing
<1>2. s = FlushFileToDisk(fs, i) /\ handle[f].ino = i
  BY DEF FlushedShadow
<1>3. CASE fs' = Replaced(s)
  <2> HIDE DEF i, s
  <2>1. /\ s \in FileSystem /\ Scratch(s) = i /\ Targets(s) = Targets(fs)
        /\ s.data = fs.data /\ s.may[i] = {fs.data[i]} /\ \A j \in Inode : j # i => s.may[j] = fs.may[j]
    BY <1>1, <1>2, Flushed DEF Scratch
  <2>2. /\ Target(fs') = i /\ fs'.data = fs.data /\ fs'.may = s.may /\ Targets(fs') = Targets(fs) \cup {i}
    BY <1>1, <1>3, <2>1, ReplacedFields
  <2>3. Session(f) = PreparedSession(fs.data[i])
    BY <1>1, <1>2, SessionKinds
  <2>4. ContentIn(fs') = fs.data[i]
    BY <1>1, <2>2 DEF ContentIn
  <2>5. ASSUME NEW b \in LeftBy(fs') PROVE b \in LeftBy(fs) \cup {fs.data[i]}
    <3>1. PICK t \in Targets(fs') : (t = None /\ b = None) \/ (t # None /\ b \in fs'.may[t])
      BY <2>5, LeftParts
    <3>2. CASE t = i
      BY <1>1, <2>1, <2>2, <3>1, <3>2
    <3>3. CASE t # i
      <4>1. t \in Targets(fs) /\ t \in Inode \cup {None}
        <5>1. t \in Targets(fs)
          BY <2>2, <3>1, <3>3
        <5> QED
          BY <1>1, <5>1 DEF Targets, FileSystem, Names
      <4> QED
        BY <2>1, <2>2, <3>1, <3>3, <4>1, LeftParts
    <3> QED
      BY <3>2, <3>3
  <2>6. BecomesSo(fs.data[i], {})
    BY <2>4, <2>5, CurrentLeft, InGoodOrder DEF BecomesSo
  <2> QED
    BY <2>3, <2>6, Closing, Publishes
<1>4. CASE fs' \in ScratchDropped(fs) \cup ScratchDropped(s)
  <2>1. Beside(fs')
    BY <1>4, FlushedBeside, DroppedBeside
  <2>2. BecomesSo(ContentIn(fs), {})
    BY <1>1, <2>1, BesideInFile, CurrentLeft DEF BecomesSo
  <2> QED
    BY <2>2, Closing, Ends
<1> QED
  BY <1>3, <1>4 DEF CloseShadow

LEMMA CommitReturnsMap ==
    ASSUME IInv, IInv', NEW f \in Info, CommitReturns(f)
    PROVE  MapsTo
<1>1. /\ fs \in FileSystem /\ fs.dir \in fs.ondisk /\ Live(fs) /\ handle' = handle
      /\ fs' = DirectoryFlushed(fs) \/ fs' = fs
      /\ \A g \in Info : ~Writes(g)
  BY InGoodOrder DEF IInv, Renamed, CommitReturns
<1>2. TheSession' = TheSession
  BY <1>1, AllClosed DEF Writes
<1>3. /\ fs'.dir = fs.dir /\ fs'.ondisk \subseteq fs.ondisk /\ fs'.data = fs.data /\ fs'.may = fs.may
  BY <1>1 DEF DirectoryFlushed, FileSystem
<1>4. ContentIn(fs') = ContentIn(fs) /\ Targets(fs') \subseteq Targets(fs)
  BY <1>3 DEF ContentIn, Target, Targets
<1>5. LeftBy(fs') \subseteq LeftBy(fs)
  BY <1>3, <1>4, LeftParts
<1>6. BecomesSo(ContentIn(fs), {})
  BY <1>4, <1>5, CurrentLeft, InGoodOrder DEF BecomesSo
<1> QED
  BY <1>2, <1>6, Settles

LEMMA CrashMap ==
    ASSUME IInv, Crash
    PROVE  MapsTo
<1>1. TypeOK /\ fs \in FileSystem
  BY InGoodOrder
<1>2. PICK d \in fs.ondisk :
        \E c \in [{d.target, d.scratch} \ {None} -> Content] : LeavesOnDisk(d, c)
  BY DEF Crash, LeavesOnDisk, LeftData, LeftMay
<1> DEFINE D == {d.target, d.scratch} \ {None}
<1>3. PICK c \in [D -> Content] : LeavesOnDisk(d, c)
  BY <1>2
<1>4. d \in Names /\ d.target \in Inode \cup {None} /\ d.target \in Targets(fs) /\ D \in SUBSET Inode
  BY <1>1 DEF FileSystem, Names, Targets
<1>5. d.target # None => d.target \in D
  OBVIOUS
<1> HIDE DEF D
<1>6. /\ \A i \in D : c[i] \in fs.may[i]
      /\ fs'.dir = d /\ fs'.ondisk = {d} /\ fs'.data = LeftData(c) /\ fs'.may = LeftMay(c)
      /\ handle' = [f \in Info |-> NoHandle]
  BY <1>3 DEF LeavesOnDisk
<1>7. Target(fs') = d.target /\ Targets(fs') = {d.target}
  BY <1>6 DEF Target, Targets
<1>8. TheSession' = [f \in Info |-> ShutSession]
  <2>1. \A g \in Info : Session(g)' = ShutSession
    BY <1>6, SessionKinds DEF Writes
  <2> QED
    BY <2>1 DEF TheSession
<1>9. CASE d.target = None
  <2>1. ContentIn(fs') = None /\ None \in LeftBy(fs)
    BY <1>4, <1>7, <1>9, LeftParts DEF ContentIn
  <2>2. \A b : b \in LeftBy(fs') <=> b = None
    BY <1>7, <1>9, LeftParts
  <2> QED
    BY <1>8, <2>1, <2>2, LosesPower
<1>10. CASE d.target # None
  <2> DEFINE b == c[d.target]
  <2>1. fs'.may[d.target] = {b} /\ fs'.data[d.target] = b /\ b \in fs.may[d.target]
    BY <1>3, <1>4, <1>5, <1>6, <1>10, Left
  <2> HIDE DEF b
  <2>2. ContentIn(fs') = b /\ b \in LeftBy(fs)
    BY <1>4, <1>7, <1>10, <2>1, LeftParts DEF ContentIn
  <2>3. \A a : a \in LeftBy(fs') <=> a = b
    BY <1>7, <1>10, <2>1, LeftParts
  <2> QED
    BY <1>8, <2>2, <2>3, LosesPower
<1> QED
  BY <1>9, <1>10

LEMMA NextMaps ==
    ASSUME OneSession, IInv, IInv', [Next]_vars
    PROVE  MapsTo
<1>1. CASE UNCHANGED vars
  <2>1. fs' = fs /\ handle' = handle
    BY <1>1 DEF vars
  <2>2. TheSession' = TheSession
    BY <2>1 DEF TheSession, Session
  <2> QED
    BY <2>1, <2>2, Unseen
<1>2. ASSUME NEW f \in Info, Close(f)
      PROVE  MapsTo
  BY <1>2, CloseReaderMap, CloseDirectMap, CloseShadowMap, CommitReturnsMap DEF Close
<1>3. ASSUME NEW f \in Info,
             \/ NANDSafeOpen(f) \/ NANDSafeOpenRead(f)
             \/ NANDOpen(f) \/ NANDOpenRead(f) \/ NANDOpenCreates(f)
      PROVE  MapsTo
  BY <1>3, SafeOpenMap, ReadersMap, OpenMap, OpenCreatesMap
<1>4. ASSUME NEW f \in Info, NEW w \in Write, NANDWrite(f, w)
      PROVE  MapsTo
  BY <1>4, WriteMap
<1>5. CASE NANDCreate \/ NANDDelete \/ Crash
  BY <1>5, CreateMap, DeleteMap, CrashMap
<1> QED
  BY <1>1, <1>2, <1>3, <1>4, <1>5 DEF Next

LEMMA InitMaps == Init => File!Init
<1> SUFFICES ASSUME Init PROVE File!Init
  OBVIOUS
<1>1. IInv
  BY InitGood
<1>2. /\ TypeOK /\ fs \in FileSystem /\ fs.dir \in fs.ondisk /\ Live(fs)
  BY <1>1, InGoodOrder
<1>3. \A f \in Info : handle[f] = NoHandle
  BY DEF Init
<1>4. TheSession = [f \in Info |-> ShutSession]
  BY <1>3, SessionKinds DEF TheSession, Writes
<1>5. ContentIn(fs) \in Content \cup {None}
  BY <1>2 DEF ContentIn, FileSystem, Names, Target
<1>6. LeftBy(fs) = {ContentIn(fs)}
  <2>1. fs.ondisk = {fs.dir} /\ \A i \in Inode : fs.may[i] = {fs.data[i]}
    BY DEF Init
  <2>2. Targets(fs) = {Target(fs)} /\ Target(fs) \in Inode \cup {None}
    BY <1>2, <2>1 DEF Targets, Target, FileSystem, Names
  <2>3. \A b : b \in LeftBy(fs) <=> b = ContentIn(fs)
    BY <2>1, <2>2, LeftParts DEF ContentIn
  <2> QED
    BY <2>3
<1> QED
  BY <1>4, <1>5, <1>6, InFile DEF File!Init, File!Content, File!Closed, Content, ShutSession, TheContent, TheSession

(* A session's writes appear in the file together or never, in a reader's   *)
(* eyes and after a loss of power at any point, and a close that fails      *)
(* leaves the file as it was (nand_async.cpp 286-385, nand_api.cpp 94-138). *)
THEOREM SessionsAreTransactions ==
    ASSUME OneSession
    PROVE  Spec => AllOrNothing
<1>1. IInv /\ IInv' /\ [Next]_vars => [File!Next]_(File!vars)
  BY NextMaps DEF MapsTo
<1> QED
  BY <1>1, InitMaps, Inductive, PTL DEF Spec, AllOrNothing, File!Spec
=============================================================================
