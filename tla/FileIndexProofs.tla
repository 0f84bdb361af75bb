--------------------------- MODULE FileIndexProofs ---------------------------
(***************************************************************************)
(* What the index holds and what a refresh returns, for any set of paths   *)
(* and files, any anchor window, any order of appends, replacements,       *)
(* archivings, deletions, I/O errors and cancelled refreshes.              *)
(*                                                                         *)
(* Between the first and the second Stat of a path, the path may come to   *)
(* name another file, and Open may open that one.  But a path never comes  *)
(* to name a file it has named before, so if the second Stat finds the     *)
(* file of the first, Open found it too (SameThroughout).  On that rest    *)
(*   - IndexIsFaithful: what was read is a prefix of the log (ReadSoFar);  *)
(*   - CleanReturnCounts: every log there was has one place where it is    *)
(*     counted, or will be (Recorded, Covered);                            *)
(*   - SettledIndexIsDisk: what nobody writes to is read to its end;       *)
(*   - SettledIndexEndsLikeDisk: and has the records its stamp stands for, *)
(*     window by window (Stamped).                                         *)
(***************************************************************************)
EXTENDS FileIndex, FiniteSetTheorems, TLAPS

Visiting == {"match", "open", "scan", "anchor", "post"}
Reading == {"scan", "anchor", "post"}

UniqueNames == \A p, q \in Paths : dir[p] # None /\ dir[p] = dir[q] => p = q

KnownAreBorn ==
    /\ \A p \in Paths : dir[p] # None => mtime[dir[p]] > 0
    /\ \A p \in Paths : cache[p] # None => mtime[cache[p].ino] > 0
    /\ pc \in Visiting => mtime[info.ino] > 0
    /\ pc \in Reading => mtime[handle] > 0

\* A file that was in the archive when it was looked at is not in a session
\* directory again.
NotUnarchived ==
    pc \in Visiting /\ RootOf[cur] = ArchiveRoot =>
        \A p \in Paths : RootOf[p] # ArchiveRoot => dir[p] # info.ino

SameThroughout == pc \in Reading /\ dir[cur] = info.ino => handle = info.ino

NothingReadYet ==
    /\ pc \notin {"open"} \cup Reading => got = <<>>
    /\ pc = "match" => cache[cur].ino = info.ino

ReadSoFar ==
    /\ pc = "open" => PrefixOf(got, content[info.ino])
    /\ pc \in Reading /\ handle = info.ino => PrefixOf(got, content[info.ino])

IInv ==
    /\ TypeOK
    /\ UniqueNames
    /\ KnownAreBorn
    /\ NotUnarchived
    /\ SameThroughout
    /\ NothingReadYet
    /\ Rewrites = "never" => ReadSoFar /\ Faithful

-----------------------------------------------------------------------------
(* Type correctness *)

LEMMA RootsFacts ==
    /\ Len(Roots) = 3
    /\ \A k \in 1..3 : Roots[k] = ClaudeRoot <=> k = 1
    /\ \A k \in 1..3 : Roots[k] = SessionsRoot <=> k = 2
    BY DEF Roots, ClaudeRoot, SessionsRoot, ArchiveRoot

LEMMA WindowType ==
    ASSUME NEW s \in Seq(Records), NEW n \in Nat, n <= Len(s)
    PROVE  Window(s, n) \in Seq(Records)
    BY AnchorAssumption DEF Window

LEMMA LogsType == Logs \subseteq Seq(Records)
    BY BoundsAssumption DEF Logs

LEMMA NoInfoType == NoInfo \in Info
    BY DEF NoInfo, Info

LEMMA EmptyType == <<>> \in Seq(Records)
    OBVIOUS

LEMMA StatType ==
    ASSUME TypeOK, NEW p \in Paths, dir[p] # None
    PROVE  StatOf(p) \in Info /\ StatOf(p).ino \in Inodes
    BY DEF TypeOK, StatOf, Info

LEMMA NoStartType ==
    DOMAIN NoStart \subseteq Inodes /\ \A i \in DOMAIN NoStart : NoStart[i] \in Nat
    BY DEF NoStart

LEMMA TypeInit == Init => TypeOK
<1> SUFFICES ASSUME Init PROVE TypeOK
    OBVIOUS
<1>1. DOMAIN start \subseteq Inodes /\ \A i \in DOMAIN start : start[i] \in Nat
    BY NoStartType DEF Init
<1>2. content \in [Inodes -> Seq(Records)] /\ got \in Seq(Records) /\ anchor \in Seq(Records)
    BY EmptyType DEF Init
<1>3. errs \in BOOLEAN /\ ctxDone \in BOOLEAN /\ quiet \in BOOLEAN
    BY DEF Init
<1>4. info \in Info /\ root \in 1..Len(Roots)
    BY NoInfoType, RootsFacts DEF Init
<1> QED BY <1>1, <1>2, <1>3, <1>4 DEF Init, TypeOK, PCs

LEMMA TypeWrite == TypeOK /\ Write => TypeOK'
<1> SUFFICES ASSUME TypeOK, Write PROVE TypeOK'
    OBVIOUS
<1> USE DEF TypeOK, Change, pass, visit
<1>1. ASSUME NEW i \in Inodes, NEW r \in Records, AppendRecord(i, r) PROVE TypeOK'
    BY <1>1 DEF AppendRecord
<1>2. ASSUME NEW p \in Paths, NEW i \in Inodes, NEW c \in Logs, Place(p, i, c) PROVE TypeOK'
    BY <1>2, LogsType DEF Place
<1>3. ASSUME NEW p \in Paths, Remove(p) PROVE TypeOK'
    BY <1>3 DEF Remove
<1>4. ASSUME NEW p \in DOMAIN ArchivedAs, Archive(p) PROVE TypeOK'
    <2>1. p \in Paths /\ ArchivedAs[p] \in Paths
        BY ArchiveAssumption
    <2>2. dir' \in [Paths -> Inodes \cup {None}]
        BY <1>4, <2>1 DEF Archive
    <2>3. Change /\ UNCHANGED <<content, mtime>> /\ archived' = archived \cup {p}
        BY <1>4 DEF Archive
    <2> QED BY <2>2, <2>3
<1>5. ASSUME NEW i \in Inodes, NEW c \in Logs, Rewrite(i, c) PROVE TypeOK'
    BY <1>5, LogsType DEF Rewrite
<1> QED BY <1>1, <1>2, <1>3, <1>4, <1>5 DEF Write

LEMMA TypeRefresh ==
    TypeOK /\ (BeginRefresh \/ Advance \/ DiscoverFails \/ ScanFails \/ ExpireContext)
        => TypeOK'
<1> SUFFICES ASSUME TypeOK,
                    BeginRefresh \/ Advance \/ DiscoverFails \/ ScanFails \/ ExpireContext
             PROVE  TypeOK'
    OBVIOUS
<1> USE NoneAssumption, BoundsAssumption, NoInfoType, EmptyType
    DEF TypeOK, RefreshStep, Fault, ClearVisit, SkipFile, PCs, fs, pass, visit
<1>1. CASE BeginRefresh
    BY <1>1, RootsFacts DEF BeginRefresh, Linked
<1>2. CASE Discover
    BY <1>2, RootsFacts DEF Discover, FilesFound, Listed, AfterListing
<1>3. ASSUME NEW p \in Paths, StatFile(p) PROVE TypeOK'
    BY <1>3, StatType DEF StatFile, Grown, IsNext
<1>4. CASE MatchAnchor
    BY <1>4 DEF MatchAnchor, Entry
<1>5. CASE OpenFile
    BY <1>5 DEF OpenFile
<1>6. CASE ReadRecord
    BY <1>6 DEF ReadRecord
<1>7. CASE ReachEOF
    BY <1>7 DEF ReachEOF
<1>8. CASE ReadAnchor
    <2>1. handle \in Inodes
        BY <1>8 DEF ReadAnchor
    <2>2. CASE ~AnchorReadable(handle, Len(got))
        BY <1>8, <2>2 DEF ReadAnchor
    <2>3. CASE AnchorReadable(handle, Len(got))
        <3>1. Window(content[handle], Len(got)) \in Seq(Records)
            BY <2>1, <2>3, WindowType DEF AnchorReadable
        <3> QED BY <1>8, <2>3, <3>1 DEF ReadAnchor
    <2> QED BY <2>2, <2>3
<1>9. CASE PostStat
    <2>1. cur \in Paths
        BY <1>9 DEF PostStat
    <2>2. CASE ~StillThere
        BY <1>9, <2>2 DEF PostStat
    <2>3. CASE StillThere
        <3>1. StatOf(cur) \in Info /\ dir[cur] \in Inodes
            BY <2>1, <2>3, StatType DEF StillThere
        <3>2. [ino |-> dir[cur], size |-> StatOf(cur).size, mtime |-> StatOf(cur).mtime,
               records |-> got, anchor |-> anchor] \in Entry
            BY <3>1 DEF Info, Entry
        <3>3. cache' \in [Paths -> Entry \cup {None}]
            BY <1>9, <2>3, <3>2 DEF PostStat
        <3> QED BY <1>9, <2>3, <3>3 DEF PostStat
    <2> QED BY <2>2, <2>3
<1>10. CASE Prune
    BY <1>10, RootsFacts DEF Prune
<1>11. CASE Return
    <2>1. DOMAIN start' \subseteq Inodes /\ \A i \in DOMAIN start' : start'[i] \in Nat
        BY <1>11, NoStartType DEF Return
    <2>2. errs' \in BOOLEAN /\ ctxDone' \in BOOLEAN /\ quiet' \in BOOLEAN
        BY <1>11 DEF Return
    <2>3. root' \in 1..Len(Roots)
        BY <1>11, RootsFacts DEF Return
    <2> QED BY <1>11, <2>1, <2>2, <2>3 DEF Return
<1>12. CASE DiscoverFails
    BY <1>12, RootsFacts DEF DiscoverFails, FilesFound, Listed, AfterListing
<1>13. CASE ScanFails
    BY <1>13 DEF ScanFails
<1>14. CASE ExpireContext
    BY <1>14 DEF ExpireContext
<1> QED BY <1>1, <1>2, <1>3, <1>4, <1>5, <1>6, <1>7, <1>8, <1>9, <1>10, <1>11,
           <1>12, <1>13, <1>14 DEF Advance

LEMMA TypeStep == TypeOK /\ [Next]_vars => TypeOK'
<1>1. TypeOK /\ UNCHANGED vars => TypeOK'
    BY DEF TypeOK, vars, fs, pass, visit
<1> QED BY <1>1, TypeWrite, TypeRefresh DEF Next

\* Type correctness: among others, that the reader always has an open file and
\* a first Stat to compare with when it reads, anchors and stats again.
THEOREM TypeCorrect == Spec => []TypeOK
    BY TypeInit, TypeStep, PTL DEF Spec

-----------------------------------------------------------------------------
(* Writers *)

LEMMA PrefixTransitive ==
    ASSUME NEW r \in Seq(Records), NEW s \in Seq(Records), NEW t \in Seq(Records),
           PrefixOf(r, s), PrefixOf(s, t)
    PROVE  PrefixOf(r, t)
    BY DEF PrefixOf

LEMMA PrefixReflexive == ASSUME NEW s \in Seq(Records) PROVE PrefixOf(s, s)
    BY DEF PrefixOf

LEMMA WriteFrame ==
    Write => UNCHANGED <<cache, pc, pass, visit, errs, ctxDone, faults, start>>
    BY DEF Write, AppendRecord, Place, Remove, Archive, Rewrite, Change

LEMMA WriteBorn ==
    ASSUME TypeOK, Write, NEW i \in Inodes, mtime[i] > 0
    PROVE  mtime'[i] > 0
<1> USE DEF TypeOK, Change
<1>1. ASSUME NEW j \in Inodes, NEW r \in Records, AppendRecord(j, r) PROVE mtime'[i] > 0
    BY <1>1 DEF AppendRecord
<1>2. ASSUME NEW q \in Paths, NEW j \in Inodes, NEW c \in Logs, Place(q, j, c)
      PROVE  mtime'[i] > 0
    BY <1>2 DEF Place
<1>3. ASSUME NEW j \in Inodes, NEW c \in Logs, Rewrite(j, c) PROVE mtime'[i] > 0
    BY <1>3 DEF Rewrite
<1> QED BY <1>1, <1>2, <1>3, ArchiveAssumption DEF Write, Remove, Archive

\* Logs are not rewritten in place now.
Appending == Rewrites = "never" \/ (Rewrites # "anytime" /\ pc # "idle")

\* Without rewrites in place a file, once created, only grows.
LEMMA WriteAppends ==
    ASSUME TypeOK, Appending, Write, NEW i \in Inodes, mtime[i] > 0
    PROVE  PrefixOf(content[i], content'[i])
<1> USE DEF TypeOK, Change
<1>1. content[i] \in Seq(Records) /\ PrefixOf(content[i], content[i])
    BY PrefixReflexive
<1>2. ASSUME NEW j \in Inodes, NEW r \in Records, AppendRecord(j, r)
      PROVE  PrefixOf(content[i], content'[i])
    <2>1. CASE j = i
        <3>1. content'[i] = Append(content[i], r)
            BY <1>2, <2>1 DEF AppendRecord
        <3> QED BY <1>1, <3>1 DEF PrefixOf
    <2>2. CASE j # i
        <3>1. content'[i] = content[i]
            BY <1>2, <2>2 DEF AppendRecord
        <3> QED BY <1>1, <3>1
    <2> QED BY <2>1, <2>2
<1>3. ASSUME NEW q \in Paths, NEW j \in Inodes, NEW c \in Logs, Place(q, j, c)
      PROVE  PrefixOf(content[i], content'[i])
    <2>1. content'[i] = content[i]
        BY <1>3 DEF Place, Born
    <2> QED BY <1>1, <2>1
<1>4. ASSUME NEW q \in Paths, Remove(q) \/ (q \in DOMAIN ArchivedAs /\ Archive(q))
      PROVE  PrefixOf(content[i], content'[i])
    <2>1. content' = content
        BY <1>4 DEF Remove, Archive
    <2> QED BY <1>1, <2>1
<1>5. \A j \in Inodes, c \in Logs : ~Rewrite(j, c)
    BY DEF Rewrite, Appending
<1> QED BY <1>2, <1>3, <1>4, <1>5, ArchiveAssumption DEF Write

\* What a path can come to name: nothing, a new file, or an archived one.
LEMMA WriteNames ==
    ASSUME TypeOK, Write, NEW p \in Paths
    PROVE  \/ dir'[p] = dir[p]
           \/ dir'[p] = None
           \/ dir'[p] \in Inodes /\ mtime[dir'[p]] = 0 /\ mtime'[dir'[p]] > 0
           \/ /\ RootOf[p] = ArchiveRoot
              /\ \E q \in Paths : /\ RootOf[q] = SessionsRoot
                                  /\ dir[q] # None
                                  /\ dir'[p] = dir[q]
<1> USE DEF TypeOK, Change
<1>1. ASSUME NEW i \in Inodes, NEW r \in Records, AppendRecord(i, r)
      PROVE  dir'[p] = dir[p]
    BY <1>1 DEF AppendRecord
<1>2. ASSUME NEW q \in Paths, NEW i \in Inodes, NEW c \in Logs, Place(q, i, c)
      PROVE  \/ dir'[p] = dir[p]
             \/ dir'[p] \in Inodes /\ mtime[dir'[p]] = 0 /\ mtime'[dir'[p]] > 0
    BY <1>2 DEF Place, Born
<1>3. ASSUME NEW q \in Paths, Remove(q)
      PROVE  dir'[p] = dir[p] \/ dir'[p] = None
    BY <1>3 DEF Remove
<1>4. ASSUME NEW q \in DOMAIN ArchivedAs, Archive(q)
      PROVE  \/ dir'[p] = dir[p]
             \/ dir'[p] = None
             \/ /\ RootOf[p] = ArchiveRoot
                /\ RootOf[q] = SessionsRoot
                /\ dir[q] # None
                /\ dir'[p] = dir[q]
    <2>1. /\ q \in Paths /\ RootOf[q] = SessionsRoot
          /\ ArchivedAs[q] \in Paths /\ RootOf[ArchivedAs[q]] = ArchiveRoot
        BY ArchiveAssumption
    <2> QED BY <1>4, <2>1 DEF Archive
<1>5. ASSUME NEW i \in Inodes, NEW c \in Logs, Rewrite(i, c)
      PROVE  dir'[p] = dir[p]
    BY <1>5 DEF Rewrite
<1> QED BY <1>1, <1>2, <1>3, <1>4, <1>5, ArchiveAssumption DEF Write

LEMMA WriteUniqueNames ==
    ASSUME TypeOK, UniqueNames, KnownAreBorn, Write
    PROVE  UniqueNames'
<1> USE DEF TypeOK, UniqueNames, Change
<1>1. ASSUME NEW i \in Inodes, NEW r \in Records, AppendRecord(i, r) PROVE UniqueNames'
    BY <1>1 DEF AppendRecord
<1>2. ASSUME NEW q \in Paths, NEW i \in Inodes, NEW c \in Logs, Place(q, i, c)
      PROVE  UniqueNames'
    <2>1. \A p \in Paths : dir[p] # i
        BY <1>2, NoneAssumption DEF Place, Born, KnownAreBorn
    <2> QED BY <1>2, <2>1 DEF Place
<1>3. ASSUME NEW q \in Paths, Remove(q) PROVE UniqueNames'
    BY <1>3 DEF Remove
<1>4. ASSUME NEW q \in DOMAIN ArchivedAs, Archive(q) PROVE UniqueNames'
    <2>1. q \in Paths /\ ArchivedAs[q] \in Paths
        BY ArchiveAssumption
    <2>2. \A p \in Paths : dir'[p] = IF p = ArchivedAs[q] THEN dir[q]
                                     ELSE IF p = q THEN None ELSE dir[p]
        BY <1>4, <2>1 DEF Archive
    <2> QED BY <2>1, <2>2
<1>5. ASSUME NEW i \in Inodes, NEW c \in Logs, Rewrite(i, c) PROVE UniqueNames'
    BY <1>5 DEF Rewrite
<1> QED BY <1>1, <1>2, <1>3, <1>4, <1>5 DEF Write

-----------------------------------------------------------------------------
(* The inductive invariant *)

LEMMA InvInit == Init => IInv
<1> SUFFICES ASSUME Init PROVE IInv
    OBVIOUS
<1>1. TypeOK
    BY TypeInit
<1>2. UniqueNames /\ KnownAreBorn /\ Faithful
    BY DEF Init, UniqueNames, KnownAreBorn, Faithful, Visiting, Reading
<1>3. NotUnarchived /\ SameThroughout /\ NothingReadYet /\ ReadSoFar
    BY DEF Init, NotUnarchived, SameThroughout, NothingReadYet, ReadSoFar, Visiting, Reading
<1> QED BY <1>1, <1>2, <1>3 DEF IInv

LEMMA InvWrite ==
    ASSUME IInv, Write
    PROVE  IInv'
<1> USE DEF IInv
<1>1. UNCHANGED <<cache, pc, cur, info, handle, got>>
    BY WriteFrame DEF pass, visit
<1>2. TypeOK'
    BY TypeWrite
<1>3. UniqueNames'
    BY WriteUniqueNames
<1>4. KnownAreBorn'
    <2>1. ASSUME NEW p \in Paths, dir'[p] # None PROVE mtime'[dir'[p]] > 0
        BY <2>1, WriteNames, WriteBorn DEF KnownAreBorn, TypeOK
    <2>2. ASSUME NEW p \in Paths, cache[p] # None PROVE mtime'[cache[p].ino] > 0
        <3>1. cache[p].ino \in Inodes
            BY <2>2 DEF TypeOK, Entry
        <3> QED BY <2>2, <3>1, WriteBorn DEF KnownAreBorn
    <2>3. pc \in Visiting => mtime'[info.ino] > 0
        BY WriteBorn DEF KnownAreBorn, TypeOK, Visiting
    <2>4. pc \in Reading => mtime'[handle] > 0
        BY WriteBorn DEF KnownAreBorn, TypeOK, Reading
    <2> QED BY <1>1, <2>1, <2>2, <2>3, <2>4 DEF KnownAreBorn
<1>5. NotUnarchived'
    <2> SUFFICES ASSUME pc \in Visiting, RootOf[cur] = ArchiveRoot,
                        NEW p \in Paths, RootOf[p] # ArchiveRoot
                 PROVE  dir'[p] # info.ino
        BY <1>1 DEF NotUnarchived
    <2>1. info.ino \in Inodes /\ mtime[info.ino] > 0 /\ dir[p] # info.ino
        BY DEF TypeOK, KnownAreBorn, NotUnarchived, Visiting
    <2> QED BY <2>1, WriteNames, NoneAssumption
<1>6. SameThroughout'
    <2> SUFFICES ASSUME pc \in Reading, dir'[cur] = info.ino
                 PROVE  handle = info.ino
        BY <1>1 DEF SameThroughout
    <2>1. /\ cur \in Paths /\ info.ino \in Inodes /\ mtime[info.ino] > 0
        BY DEF TypeOK, KnownAreBorn, Visiting, Reading
    <2>2. RootOf[cur] = ArchiveRoot =>
              \A q \in Paths : RootOf[q] = SessionsRoot => dir[q] # info.ino
        BY DEF NotUnarchived, Visiting, Reading, ArchiveRoot, SessionsRoot
    <2>3. dir[cur] = info.ino
        BY <2>1, <2>2, WriteNames, NoneAssumption
    <2> QED BY <2>3 DEF SameThroughout
<1>7. NothingReadYet'
    BY <1>1 DEF NothingReadYet
<1>8. ASSUME Rewrites = "never" PROVE ReadSoFar'
    <2>1. ASSUME pc = "open" \/ (pc \in Reading /\ handle = info.ino)
          PROVE  PrefixOf(got, content'[info.ino])
        <3>1. /\ info.ino \in Inodes /\ mtime[info.ino] > 0
              /\ got \in Seq(Records) /\ PrefixOf(got, content[info.ino])
            BY <1>8, <2>1 DEF TypeOK, KnownAreBorn, ReadSoFar, Visiting, Reading
        <3>2. content[info.ino] \in Seq(Records) /\ content'[info.ino] \in Seq(Records)
            BY <1>2, <3>1 DEF TypeOK
        <3> QED BY <1>8, <3>1, <3>2, WriteAppends, PrefixTransitive DEF Appending
    <2> QED BY <1>1, <2>1 DEF ReadSoFar
<1>9. ASSUME Rewrites = "never" PROVE Faithful'
    <2> SUFFICES ASSUME NEW p \in Paths, cache[p] # None
                 PROVE  PrefixOf(cache[p].records, content'[cache[p].ino])
        BY <1>1 DEF Faithful
    <2>1. /\ cache[p].ino \in Inodes /\ mtime[cache[p].ino] > 0
          /\ cache[p].records \in Seq(Records)
          /\ PrefixOf(cache[p].records, content[cache[p].ino])
        BY <1>9 DEF TypeOK, KnownAreBorn, Faithful, Entry
    <2>2. content[cache[p].ino] \in Seq(Records) /\ content'[cache[p].ino] \in Seq(Records)
        BY <1>2, <2>1 DEF TypeOK
    <2> QED BY <1>9, <2>1, <2>2, WriteAppends, PrefixTransitive DEF Appending
<1> QED BY <1>2, <1>3, <1>4, <1>5, <1>6, <1>7, <1>8, <1>9

\* Steps that end outside the visit of a file leave nothing to show but the cache.
LEMMA InvNotVisiting ==
    ASSUME IInv, TypeOK', UNCHANGED fs, pc' \notin Visiting, got' = <<>>,
           \A p \in Paths : cache'[p] # None => cache'[p] = cache[p]
    PROVE  IInv'
<1> USE DEF IInv, fs
<1>1. UniqueNames'
    BY DEF UniqueNames
<1>2. KnownAreBorn'
    BY DEF KnownAreBorn, Visiting, Reading
<1>3. NotUnarchived' /\ SameThroughout' /\ NothingReadYet' /\ ReadSoFar'
    BY DEF NotUnarchived, SameThroughout, NothingReadYet, ReadSoFar, Visiting, Reading
<1>4. Faithful => Faithful'
    BY DEF Faithful
<1> QED BY <1>1, <1>2, <1>3, <1>4

\* Steps within a visit leave the disk and the cache alone.
LEMMA InvVisiting ==
    ASSUME IInv, TypeOK', UNCHANGED <<fs, cache>>,
           KnownAreBorn', NotUnarchived', SameThroughout', NothingReadYet',
           Rewrites = "never" => ReadSoFar'
    PROVE  IInv'
    BY DEF IInv, UniqueNames, Faithful, fs

LEMMA InvStatFile ==
    ASSUME IInv, TypeOK', NEW p \in Paths, StatFile(p)
    PROVE  IInv'
<1> USE DEF IInv, RefreshStep, fs
<1>1. CASE pc' = "stat"
    BY <1>1, InvNotVisiting DEF StatFile, NothingReadYet, Visiting, Reading
<1>2. CASE pc' # "stat"
    <2>1. /\ dir[p] # None /\ cur' = p /\ info' = StatOf(p) /\ info'.ino = dir[p]
          /\ pc' = IF Grown(cache[p], StatOf(p)) THEN "match" ELSE "open"
          /\ UNCHANGED <<cache, handle, got>>
        BY <1>2 DEF StatFile, StatOf
    <2>2. got = <<>>
        BY DEF StatFile, NothingReadYet, Reading
    <2>3. KnownAreBorn'
        BY <2>1 DEF StatFile, KnownAreBorn, Visiting, Reading
    <2>4. NotUnarchived'
        BY <2>1 DEF StatFile, NotUnarchived, UniqueNames
    <2>5. SameThroughout'
        BY <2>1 DEF SameThroughout, Reading
    <2>6. NothingReadYet' /\ ReadSoFar'
        BY <2>1, <2>2 DEF NothingReadYet, ReadSoFar, Reading, Grown, PrefixOf
    <2> QED BY <2>1, <2>3, <2>4, <2>5, <2>6, InvVisiting DEF StatFile
<1> QED BY <1>1, <1>2

LEMMA InvSkipFile ==
    ASSUME IInv, TypeOK', UNCHANGED fs, SkipFile
    PROVE  IInv'
    BY InvNotVisiting DEF SkipFile, ClearVisit, Visiting

LEMMA InvMatchAnchor ==
    ASSUME IInv, TypeOK', MatchAnchor
    PROVE  IInv'
<1> USE DEF IInv, RefreshStep
<1>1. CASE SkipFile
    BY <1>1, InvSkipFile DEF MatchAnchor
<1>2. CASE ~SkipFile
    <2>1. /\ pc = "match" /\ pc' = "open"
          /\ UNCHANGED <<fs, cache, cur, info, handle>>
          /\ got' \in {<<>>, cache[cur].records}
        BY <1>2 DEF MatchAnchor, visit, NothingReadYet, Reading
    <2>2. KnownAreBorn' /\ NotUnarchived' /\ SameThroughout' /\ NothingReadYet'
        BY <2>1 DEF KnownAreBorn, NotUnarchived, SameThroughout, NothingReadYet,
                    Visiting, Reading, fs
    <2>3. ASSUME Rewrites = "never" PROVE PrefixOf(got', content[info.ino])
        <3>1. cur \in Paths /\ cache[cur] # None /\ cache[cur].ino = info.ino
              /\ info.ino \in Inodes
            BY <2>1 DEF TypeOK, NothingReadYet
        <3>2. PrefixOf(cache[cur].records, content[info.ino])
            BY <2>3, <3>1 DEF Faithful
        <3>3. PrefixOf(<<>>, content[info.ino])
            BY <3>1 DEF TypeOK, PrefixOf
        <3> QED BY <2>1, <3>2, <3>3
    <2>4. ASSUME Rewrites = "never" PROVE ReadSoFar'
        BY <2>1, <2>3, <2>4 DEF ReadSoFar, Reading, fs
    <2> QED BY <2>1, <2>2, <2>4, InvVisiting
<1> QED BY <1>1, <1>2

LEMMA InvOpenFile ==
    ASSUME IInv, TypeOK', OpenFile
    PROVE  IInv'
<1> USE DEF IInv, RefreshStep
<1>1. CASE SkipFile
    BY <1>1, InvSkipFile DEF OpenFile
<1>2. CASE ~SkipFile
    <2>1. /\ pc = "open" /\ pc' = "scan" /\ dir[cur] # None /\ handle' = dir[cur]
          /\ UNCHANGED <<fs, cache, cur, info, got>>
        BY <1>2 DEF OpenFile
    <2>2. KnownAreBorn' /\ NotUnarchived' /\ SameThroughout' /\ NothingReadYet'
        BY <2>1 DEF TypeOK, KnownAreBorn, NotUnarchived, SameThroughout, NothingReadYet,
                    Visiting, Reading, fs
    <2>3. Rewrites = "never" => ReadSoFar'
        BY <2>1 DEF ReadSoFar, Reading, fs
    <2> QED BY <2>1, <2>2, <2>3, InvVisiting
<1> QED BY <1>1, <1>2

LEMMA InvReadRecord ==
    ASSUME IInv, TypeOK', ReadRecord
    PROVE  IInv'
<1> USE DEF IInv, RefreshStep
<1>1. /\ pc = "scan" /\ pc' = pc /\ Len(got) < Len(content[handle])
      /\ got' = Append(got, content[handle][Len(got) + 1])
      /\ UNCHANGED <<fs, cache, cur, info, handle>>
    BY DEF ReadRecord
<1>2. KnownAreBorn' /\ NotUnarchived' /\ SameThroughout' /\ NothingReadYet'
    BY <1>1 DEF KnownAreBorn, NotUnarchived, SameThroughout, NothingReadYet, Reading, fs
<1>3. ASSUME Rewrites = "never", handle = info.ino PROVE PrefixOf(got', content[info.ino])
    <2>1. /\ got \in Seq(Records) /\ content[info.ino] \in Seq(Records)
          /\ PrefixOf(got, content[info.ino])
        BY <1>1, <1>3 DEF TypeOK, ReadSoFar, Reading
    <2> QED BY <1>1, <1>3, <2>1 DEF PrefixOf
<1>4. ASSUME Rewrites = "never" PROVE ReadSoFar'
    BY <1>1, <1>3, <1>4 DEF ReadSoFar, Reading, fs
<1> QED BY <1>1, <1>2, <1>4, InvVisiting

LEMMA InvReachEOF ==
    ASSUME IInv, TypeOK', ReachEOF
    PROVE  IInv'
<1>1. /\ pc = "scan" /\ pc' = "anchor"
      /\ UNCHANGED <<fs, cache, cur, info, handle, got>>
    BY DEF ReachEOF, RefreshStep, visit
<1>2. KnownAreBorn' /\ NotUnarchived' /\ SameThroughout' /\ NothingReadYet'
    BY <1>1 DEF IInv, KnownAreBorn, NotUnarchived, SameThroughout, NothingReadYet,
                Visiting, Reading, fs
<1>3. Rewrites = "never" => ReadSoFar'
    BY <1>1 DEF IInv, ReadSoFar, Reading, fs
<1> QED BY <1>1, <1>2, <1>3, InvVisiting

LEMMA InvReadAnchor ==
    ASSUME IInv, TypeOK', ReadAnchor
    PROVE  IInv'
<1>1. CASE SkipFile
    BY <1>1, InvSkipFile DEF ReadAnchor, RefreshStep
<1>2. CASE ~SkipFile
    <2>1. /\ pc = "anchor" /\ pc' = "post"
          /\ UNCHANGED <<fs, cache, cur, info, handle, got>>
        BY <1>2 DEF ReadAnchor, RefreshStep
    <2>2. KnownAreBorn' /\ NotUnarchived' /\ SameThroughout' /\ NothingReadYet'
        BY <2>1 DEF IInv, KnownAreBorn, NotUnarchived, SameThroughout, NothingReadYet,
                    Visiting, Reading, fs
    <2>3. Rewrites = "never" => ReadSoFar'
        BY <2>1 DEF IInv, ReadSoFar, Reading, fs
    <2> QED BY <2>1, <2>2, <2>3, InvVisiting
<1> QED BY <1>1, <1>2

LEMMA InvPostStat ==
    ASSUME IInv, TypeOK', PostStat
    PROVE  IInv'
<1> USE DEF IInv, RefreshStep
<1>1. CASE SkipFile
    BY <1>1, InvSkipFile DEF PostStat
<1>2. CASE ~SkipFile
    <2>1. /\ pc = "post" /\ pc' = "stat" /\ StillThere /\ cur \in Paths /\ got' = <<>>
          /\ cache' = [cache EXCEPT ![cur] =
                 [ino |-> dir[cur], size |-> StatOf(cur).size, mtime |-> StatOf(cur).mtime,
                  records |-> got, anchor |-> anchor]]
          /\ UNCHANGED fs
        BY <1>2 DEF PostStat, ClearVisit, TypeOK
    <2>2. dir[cur] = info.ino /\ handle = info.ino /\ mtime[dir[cur]] > 0
        BY <2>1 DEF StillThere, SameThroughout, KnownAreBorn, Reading
    <2>3. \A p \in Paths : cache'[p] # None => mtime[cache'[p].ino] > 0
        BY <2>1, <2>2 DEF TypeOK, KnownAreBorn
    <2>4. ASSUME Rewrites = "never" PROVE Faithful'
        <3>1. PrefixOf(got, content[dir[cur]])
            BY <2>1, <2>2, <2>4 DEF ReadSoFar, Reading
        <3> QED BY <2>1, <2>4, <3>1 DEF TypeOK, Faithful, fs
    <2>5. UniqueNames' /\ KnownAreBorn'
        BY <2>1, <2>3 DEF UniqueNames, KnownAreBorn, Visiting, Reading, fs
    <2>6. NotUnarchived' /\ SameThroughout' /\ NothingReadYet' /\ ReadSoFar'
        BY <2>1 DEF NotUnarchived, SameThroughout, NothingReadYet, ReadSoFar, Visiting, Reading
    <2> QED BY <2>4, <2>5, <2>6
<1> QED BY <1>1, <1>2

LEMMA InvOtherRefresh ==
    ASSUME IInv, TypeOK',
           \/ BeginRefresh \/ Discover \/ DiscoverFails \/ ScanFails \/ Prune \/ Return
           \/ ExpireContext \/ UNCHANGED vars
    PROVE  IInv'
<1> USE DEF IInv, RefreshStep, NothingReadYet, Visiting, Reading
<1>1. CASE BeginRefresh \/ Return
    BY <1>1, InvNotVisiting DEF BeginRefresh, Return, fs, visit
<1>2. CASE Discover \/ DiscoverFails
    BY <1>2, InvNotVisiting DEF Discover, DiscoverFails, FilesFound, AfterListing, fs, visit
<1>3. CASE ScanFails
    BY <1>3, InvNotVisiting DEF ScanFails, ClearVisit
<1>4. CASE Prune
    BY <1>4, InvNotVisiting DEF Prune, visit
<1>5. CASE ExpireContext \/ UNCHANGED vars
    BY <1>5 DEF ExpireContext, vars, fs, pass, visit, UniqueNames, KnownAreBorn,
                NotUnarchived, SameThroughout, ReadSoFar, Faithful
<1> QED BY <1>1, <1>2, <1>3, <1>4, <1>5

LEMMA InvStep ==
    ASSUME IInv, [Next]_vars
    PROVE  IInv'
<1>1. TypeOK'
    BY TypeStep DEF IInv
<1>2. CASE Write
    BY <1>2, InvWrite
<1>3. CASE Advance
    BY <1>1, <1>3, InvStatFile, InvMatchAnchor, InvOpenFile, InvReadRecord,
       InvReachEOF, InvReadAnchor, InvPostStat, InvOtherRefresh DEF Advance
<1>4. CASE BeginRefresh \/ DiscoverFails \/ ScanFails \/ ExpireContext \/ UNCHANGED vars
    BY <1>1, <1>4, InvOtherRefresh
<1> QED BY <1>2, <1>3, <1>4 DEF Next

LEMMA Invariance == Spec => []IInv
<1>1. IInv /\ [Next]_vars => IInv'
    BY InvStep
<1> QED BY <1>1, InvInit, PTL DEF Spec

\* Every entry of the index is a prefix of the file it was read from: for logs
\* that are appended to, replaced, archived or deleted at any moment of a
\* refresh, nothing is counted that the file does not hold, and nothing twice.
THEOREM IndexIsFaithful == Rewrites = "never" => (Spec => []Faithful)
<1>1. SUFFICES ASSUME Rewrites = "never" PROVE Spec => []Faithful
    OBVIOUS
<1>2. IInv => Faithful
    BY <1>1 DEF IInv
<1> QED BY <1>2, Invariance, PTL

-----------------------------------------------------------------------------
(* What a refresh without error has counted.  A file that is still there is *)
(* where it was when its entry was made, or archived since; in the latter   *)
(* case the archive was listed without it.  So no file is counted twice     *)
(* (Recorded), and none that was there from the beginning is passed over    *)
(* (Covered): it is counted, still to be visited, or to be listed yet, or   *)
(* its visit is going to fail.                                              *)

\* Files of the pass that have still to be visited, or are being visited.
Waiting == todo \cup IF pc \in Visiting THEN {cur} ELSE {}

\* Paths whose entry is of this refresh.
Visited ==
    {p \in Paths : /\ cache[p] # None
                   /\ \/ p \in seen \ Waiting
                      \/ RootOf[p] = ClaudeRoot /\ root > 1
                      \/ pc = "done"}

\* The root that p lies under has still to be listed.
NotListed(p) ==
    \E k \in root..3 : RootOf[p] = Roots[k] /\ (k = root => pc \in {"idle", "list"})

Bookkeeping ==
    /\ pc \in Visiting => cur \in seen \ todo
    /\ \A p \in seen : RootOf[p] = ClaudeRoot <=> root = 1
    /\ pc = "idle" => root = 1
    /\ root = 2 => pc = "list"
    /\ pc = "done" => root = 3
    /\ pc \in {"idle", "done"} \/ (pc = "list" /\ root < 3) => seen = {}
    /\ pc = "list" => todo = seen

ArchivedOnce ==
    /\ \A p \in archived : dir[p] = None
    /\ \A q \in Paths : RootOf[q] = ArchiveRoot /\ (dir[q] # None \/ q \in seen) =>
           \E p \in archived : ArchivedAs[p] = q

StartHeld ==
    /\ pc = "idle" => DOMAIN start = {}
    /\ \A i \in DOMAIN start : mtime[i] > 0 /\ start[i] <= Len(content[i])
    /\ pc \in {"anchor", "post"} /\ handle \in DOMAIN start => start[handle] <= Len(got)

\* The file an entry was made of is not there any more, or under one of two names.
Whereabouts(p) ==
    \/ cache[p].ino \notin Linked
    \/ dir[p] = cache[p].ino
    \/ p \in DOMAIN ArchivedAs /\ dir[ArchivedAs[p]] = cache[p].ino

CountedOnce(p) ==
    /\ p \in DOMAIN ArchivedAs => ArchivedAs[p] \notin seen
    /\ cache[p].ino \in DOMAIN start => start[cache[p].ino] <= Len(cache[p].records)
    /\ \A q \in Visited : cache[q].ino = cache[p].ino => q = p

Recorded == ~errs => \A p \in Visited : Whereabouts(p) /\ CountedOnce(p)

\* Where a file of the beginning is on its way into the index.
Expected(i) ==
    \/ \E p \in Visited : cache[p].ino = i
    \/ \E p \in Waiting : dir[p] = i \/ (p \in archived /\ dir[ArchivedAs[p]] = i)
    \/ \E p \in Paths : NotListed(p) /\ dir[p] = i

Covered == ~errs => \A i \in DOMAIN start \cap Linked : Expected(i)

CountInv ==
    /\ IInv
    /\ Bookkeeping
    /\ ArchivedOnce
    /\ StartHeld
    /\ Recorded
    /\ Covered

LEMMA BookkeepingStep == ASSUME TypeOK, Bookkeeping, [Next]_vars PROVE Bookkeeping'
<1> USE RootsFacts DEF TypeOK, Bookkeeping, Visiting, RefreshStep, ClearVisit, SkipFile,
                       fs, pass, visit
<1>1. CASE Write
    BY <1>1, WriteFrame
<1>2. CASE BeginRefresh
    BY <1>2 DEF BeginRefresh
<1>3. CASE Discover
    BY <1>3 DEF Discover, FilesFound, Listed, AfterListing
<1>4. CASE DiscoverFails
    BY <1>4 DEF DiscoverFails, FilesFound, Listed, AfterListing
<1>5. ASSUME NEW p \in Paths, StatFile(p) PROVE Bookkeeping'
    BY <1>5 DEF StatFile, IsNext
<1>6. CASE MatchAnchor
    BY <1>6 DEF MatchAnchor
<1>7. CASE OpenFile
    BY <1>7 DEF OpenFile
<1>8. CASE ReadRecord \/ ReachEOF
    BY <1>8 DEF ReadRecord, ReachEOF
<1>9. CASE ReadAnchor
    BY <1>9 DEF ReadAnchor
<1>10. CASE PostStat
    BY <1>10 DEF PostStat
<1>11. CASE ScanFails
    BY <1>11 DEF ScanFails
<1>12. CASE Prune
    BY <1>12 DEF Prune
<1>13. CASE Return
    BY <1>13 DEF Return
<1>14. CASE ExpireContext \/ UNCHANGED vars
    BY <1>14 DEF ExpireContext, vars
<1> QED BY <1>1, <1>2, <1>3, <1>4, <1>5, <1>6, <1>7, <1>8, <1>9, <1>10, <1>11, <1>12,
           <1>13, <1>14 DEF Next, Advance

\* What a path can come to name, and for an archive path by whom.
LEMMA WriteMoves ==
    ASSUME TypeOK, Write, NEW p \in Paths
    PROVE  \/ dir'[p] = dir[p]
           \/ dir'[p] = None
           \/ /\ dir'[p] \in Inodes /\ mtime[dir'[p]] = 0
              /\ RootOf[p] # ArchiveRoot /\ p \notin archived'
           \/ \E q \in DOMAIN ArchivedAs : /\ p = ArchivedAs[q] /\ dir[q] # None
                                           /\ dir'[p] = dir[q] /\ q \in archived'
<1> USE DEF TypeOK, Change
<1>1. ASSUME NEW i \in Inodes, NEW r \in Records, AppendRecord(i, r)
      PROVE  dir'[p] = dir[p]
    BY <1>1 DEF AppendRecord
<1>2. ASSUME NEW q \in Paths, NEW i \in Inodes, NEW c \in Logs, Place(q, i, c)
      PROVE  \/ dir'[p] = dir[p]
             \/ /\ dir'[p] \in Inodes /\ mtime[dir'[p]] = 0
                /\ RootOf[p] # ArchiveRoot /\ p \notin archived'
    BY <1>2 DEF Place, Born
<1>3. ASSUME NEW q \in Paths, Remove(q)
      PROVE  dir'[p] = dir[p] \/ dir'[p] = None
    BY <1>3 DEF Remove
<1>4. ASSUME NEW q \in DOMAIN ArchivedAs, Archive(q)
      PROVE  \/ dir'[p] = dir[p]
             \/ dir'[p] = None
             \/ /\ p = ArchivedAs[q] /\ dir[q] # None
                /\ dir'[p] = dir[q] /\ q \in archived'
    BY <1>4, ArchiveAssumption DEF Archive
<1>5. ASSUME NEW i \in Inodes, NEW c \in Logs, Rewrite(i, c)
      PROVE  dir'[p] = dir[p]
    BY <1>5 DEF Rewrite
<1> QED BY <1>1, <1>2, <1>3, <1>4, <1>5 DEF Write

LEMMA ArchiveNames ==
    ASSUME NEW p \in DOMAIN ArchivedAs
    PROVE  /\ p \in Paths /\ ArchivedAs[p] \in Paths /\ ArchivedAs[p] \notin DOMAIN ArchivedAs
           /\ RootOf[p] = SessionsRoot /\ RootOf[ArchivedAs[p]] = ArchiveRoot
           /\ \A q \in DOMAIN ArchivedAs : ArchivedAs[q] = ArchivedAs[p] => q = p
    BY ArchiveAssumption DEF SessionsRoot, ArchiveRoot

\* A file that was there is where it was, or archived from there, or gone for good.
LEMMA WriteKeeps ==
    ASSUME IInv, Write, NEW i \in Inodes, mtime[i] > 0, i \in Linked'
    PROVE  /\ i \in Linked
           /\ \A p \in Paths : dir[p] = i =>
                 \/ dir'[p] = i
                 \/ p \in DOMAIN ArchivedAs /\ p \in archived' /\ dir'[ArchivedAs[p]] = i
<1> USE DEF IInv
<1>1. PICK r \in Paths : dir'[r] = i
    BY DEF Linked
<1>2. dir[r] = i \/ \E q \in DOMAIN ArchivedAs : /\ r = ArchivedAs[q] /\ dir[q] = i
                                                 /\ q \in archived'
    BY <1>1, WriteMoves, NoneAssumption
<1> QED BY <1>1, <1>2, ArchiveNames, NoneAssumption DEF Linked, UniqueNames

LEMMA ArchivedOnceStep ==
    ASSUME TypeOK, ArchivedOnce, [Next]_vars
    PROVE  ArchivedOnce'
<1>1. CASE Write
    <2>1. seen' = seen
        BY <1>1, WriteFrame DEF pass
    <2>2. archived \subseteq archived'
        BY <1>1 DEF Write, AppendRecord, Place, Remove, Archive, Rewrite
    <2>3. ASSUME NEW p \in archived' PROVE dir'[p] = None
        <3>1. CASE p \in archived
            <4>1. p \in DOMAIN ArchivedAs /\ p \in Paths /\ dir[p] = None
                BY <3>1, ArchiveNames DEF TypeOK, ArchivedOnce
            <4>2. \A q \in DOMAIN ArchivedAs : p # ArchivedAs[q]
                BY <4>1, ArchiveNames
            <4> QED BY <1>1, <2>2, <3>1, <4>1, <4>2, WriteMoves
        <3>2. CASE p \notin archived
            <4>1. p \in DOMAIN ArchivedAs /\ Archive(p)
                BY <1>1, <2>3, <3>2 DEF Write, AppendRecord, Place, Remove, Archive, Rewrite
            <4> QED BY <4>1, ArchiveNames DEF Archive, TypeOK
        <3> QED BY <3>1, <3>2
    <2>4. ASSUME NEW q \in Paths, RootOf[q] = ArchiveRoot, dir'[q] # None \/ q \in seen
          PROVE  \E p \in archived' : ArchivedAs[p] = q
        BY <1>1, <2>2, <2>4, WriteMoves DEF ArchivedOnce
    <2> QED BY <2>1, <2>3, <2>4 DEF ArchivedOnce
<1>2. CASE ~Write
    <2>1. UNCHANGED <<dir, archived>>
        BY <1>2 DEF Next, Advance, BeginRefresh, Discover, StatFile, MatchAnchor, OpenFile,
            ReadRecord, ReachEOF, ReadAnchor, PostStat, Prune, Return, DiscoverFails,
            ScanFails, ExpireContext, RefreshStep, vars, fs
    <2>2. \A q \in seen' : q \in seen \/ dir[q] # None
        BY <1>2 DEF Next, Advance, BeginRefresh, Discover, StatFile, MatchAnchor, OpenFile,
            ReadRecord, ReachEOF, ReadAnchor, PostStat, Prune, Return, DiscoverFails,
            ScanFails, ExpireContext, RefreshStep, SkipFile, FilesFound, Listed, vars, pass
    <2> QED BY <2>1, <2>2 DEF ArchivedOnce
<1> QED BY <1>1, <1>2

LEMMA StartHeldStep ==
    ASSUME IInv, IInv', Rewrites # "anytime", StartHeld, [Next]_vars
    PROVE  StartHeld'
<1> USE DEF IInv, TypeOK
<1>1. CASE Write
    <2>1. UNCHANGED <<start, pc, handle, got>>
        BY <1>1, WriteFrame DEF visit
    <2>2. ASSUME NEW i \in DOMAIN start
          PROVE  mtime'[i] > 0 /\ start[i] <= Len(content'[i])
        BY <1>1, <2>2, WriteBorn, WriteAppends DEF StartHeld, PrefixOf, Appending
    <2> QED BY <2>1, <2>2 DEF StartHeld
<1>2. CASE BeginRefresh
    BY <1>2, NoneAssumption DEF BeginRefresh, Linked, StartHeld, KnownAreBorn, fs
<1>3. CASE Return
    BY <1>3 DEF Return, NoStart, StartHeld
<1>4. CASE ReachEOF
    BY <1>4 DEF ReachEOF, RefreshStep, StartHeld, fs, visit
<1>5. CASE ~Write /\ ~BeginRefresh /\ ~Return /\ ~ReachEOF
    <2>1. /\ UNCHANGED <<mtime, content, start>>
          /\ pc' = "idle" => pc = "idle"
          /\ pc' \in {"anchor", "post"} => pc \in {"anchor", "post"} /\ UNCHANGED <<handle, got>>
        BY <1>5 DEF Next, Advance, Discover, StatFile, MatchAnchor, OpenFile,
            ReadRecord, ReadAnchor, PostStat, Prune, DiscoverFails, FilesFound, AfterListing,
            ScanFails, ExpireContext, RefreshStep, SkipFile, vars, fs, visit
    <2> QED BY <2>1 DEF StartHeld
<1> QED BY <1>1, <1>2, <1>3, <1>4, <1>5

-----------------------------------------------------------------------------
(* Recorded and Covered.                                                   *)

LEMMA KnownIno ==
    ASSUME IInv, NEW p \in Visited
    PROVE  /\ p \in Paths /\ cache[p] \in Entry /\ cache[p].ino \in Inodes
           /\ mtime[cache[p].ino] > 0
    BY DEF IInv, TypeOK, KnownAreBorn, Entry, Visited

LEMMA CountWrite ==
    ASSUME CountInv, Write
    PROVE  Recorded' /\ Covered'
<1> USE DEF CountInv
<1>1. UNCHANGED <<cache, pc, root, todo, seen, cur, errs, start>>
    BY WriteFrame DEF pass, visit
<1>2. Visited' = Visited /\ Waiting' = Waiting /\ \A p \in Paths : NotListed(p)' = NotListed(p)
    BY <1>1 DEF Visited, Waiting, NotListed
<1>3. archived \subseteq archived'
    BY DEF Write, AppendRecord, Place, Remove, Archive, Rewrite
<1>4. ASSUME NEW p \in Visited, Whereabouts(p) PROVE Whereabouts(p)'
    <2> SUFFICES ASSUME cache[p].ino \in Linked'
                 PROVE  \/ dir'[p] = cache[p].ino
                        \/ p \in DOMAIN ArchivedAs /\ dir'[ArchivedAs[p]] = cache[p].ino
        BY <1>1 DEF Whereabouts
    <2>1. cache[p].ino \in Linked
        BY KnownIno, WriteKeeps
    <2>2. CASE dir[p] = cache[p].ino
        BY <2>2, KnownIno, WriteKeeps
    <2>3. CASE p \in DOMAIN ArchivedAs /\ dir[ArchivedAs[p]] = cache[p].ino
        BY <2>3, KnownIno, WriteKeeps, ArchiveNames
    <2> QED BY <1>4, <2>1, <2>2, <2>3 DEF Whereabouts
<1>5. Recorded'
    BY <1>1, <1>2, <1>4 DEF Recorded, CountedOnce
<1>6. ASSUME ~errs, NEW i \in DOMAIN start \cap Linked' PROVE Expected(i)'
    <2>1. i \in Inodes /\ mtime[i] > 0
        BY DEF IInv, TypeOK, StartHeld
    <2>2. i \in Linked /\ Expected(i)
        BY <1>6, <2>1, WriteKeeps DEF Covered
    <2>3. CASE \E p \in Visited : cache[p].ino = i
        BY <1>1, <1>2, <2>3 DEF Expected
    <2>4. ASSUME NEW p \in Waiting, dir[p] = i PROVE Expected(i)'
        <3>1. p \in Paths
            BY DEF Waiting, IInv, TypeOK, Visiting
        <3> QED BY <1>2, <2>1, <2>4, <3>1, WriteKeeps DEF Expected
    <2>5. ASSUME NEW p \in Waiting, p \in archived, dir[ArchivedAs[p]] = i PROVE Expected(i)'
        <3>1. p \in DOMAIN ArchivedAs
            BY <2>5 DEF IInv, TypeOK
        <3>2. dir'[ArchivedAs[p]] = i
            BY <2>1, <2>5, <3>1, WriteKeeps, ArchiveNames
        <3> QED BY <1>2, <1>3, <2>5, <3>2 DEF Expected
    <2>6. ASSUME NEW p \in Paths, NotListed(p), dir[p] = i PROVE Expected(i)'
        <3>1. CASE dir'[p] = i
            BY <1>2, <2>6, <3>1 DEF Expected
        <3>2. CASE p \in DOMAIN ArchivedAs /\ dir'[ArchivedAs[p]] = i
            <4>1. /\ ArchivedAs[p] \in Paths /\ RootOf[p] = SessionsRoot
                  /\ RootOf[ArchivedAs[p]] = Roots[3]
                BY <3>2, ArchiveNames DEF Roots
            <4>2. root \in 1..3
                BY RootsFacts DEF IInv, TypeOK
            <4>3. PICK k \in root..3 : Roots[k] = SessionsRoot
                BY <2>6, <4>1 DEF NotListed
            <4>4. root # 3
                BY <4>2, <4>3, RootsFacts
            <4>5. NotListed(ArchivedAs[p])
                BY <4>1, <4>2, <4>4 DEF NotListed
            <4> QED BY <1>2, <3>2, <4>1, <4>5 DEF Expected
        <3> QED BY <2>1, <2>6, <3>1, <3>2, WriteKeeps
    <2> QED BY <2>2, <2>3, <2>4, <2>5, <2>6 DEF Expected
<1> QED BY <1>1, <1>5, <1>6 DEF Covered

\* Steps that add no entry, and take nothing from what is waited for.
Keeps ==
    /\ UNCHANGED <<fs, start, errs, quiet>>
    /\ seen' \subseteq seen
    /\ Visited' = Visited
    /\ \A p \in Visited : cache'[p] = cache[p]
    /\ Waiting \subseteq Waiting'
    /\ \A p \in Paths : NotListed(p) => NotListed(p)'

\* Steps that end the visit of p with an entry for the file that p names now.
Counts(p) ==
    /\ UNCHANGED <<fs, start, errs, quiet, seen>>
    /\ p \in seen \ Visited
    /\ dir[p] # None
    /\ Visited' = Visited \cup {p}
    /\ \A q \in Visited : cache'[q] = cache[q]
    /\ cache'[p].ino = dir[p] /\ cache'[p].mtime = mtime[dir[p]]
    /\ \/ Len(cache'[p].records) = Len(content[dir[p]])
       \/ /\ pc = "post" /\ handle = dir[p] /\ cache'[p].records = got
          /\ Len(got) <= Len(content[dir[p]])
    /\ Waiting \subseteq Waiting' \cup {p}
    /\ \A q \in Paths : NotListed(q) => NotListed(q)'

LEMMA DiscoverKind ==
    ASSUME CountInv, Discover
    PROVE  /\ UNCHANGED <<fs, cache, start, errs, quiet>>
           /\ seen' = seen \cup Listed
           /\ \A p \in Visited : RootOf[p] = ClaudeRoot
           /\ Visited' = Visited
           /\ Waiting \subseteq Waiting'
           /\ \A p \in Paths : NotListed(p) /\ dir[p] # None => p \in Waiting' \/ NotListed(p)'
<1> USE DEF CountInv, Bookkeeping, RefreshStep, Discover, FilesFound
<1>1. /\ pc = "list" /\ todo = seen /\ seen' = seen \cup Listed /\ todo' = seen'
      /\ UNCHANGED <<fs, cache, start, errs, quiet>>
      /\ pc' \in {"list", "stat"} /\ root' \in {root, root + 1}
      /\ root \in 1..3 /\ (root = 1 <=> root' = 1)
    BY RootsFacts DEF AfterListing, IInv, TypeOK
<1>2. /\ \A p \in Visited : RootOf[p] = ClaudeRoot
      /\ Visited' = Visited /\ Waiting \subseteq Waiting'
    BY <1>1 DEF Visited, Waiting, Visiting
<1>3. ASSUME NEW p \in Paths, NotListed(p), dir[p] # None
      PROVE  p \in todo' \/ NotListed(p)'
    <2>1. PICK k \in root..3 : RootOf[p] = Roots[k]
        BY <1>3 DEF NotListed
    <2>2. CASE k = root
        BY <1>1, <1>3, <2>1, <2>2 DEF Listed
    <2>3. CASE k # root
        <3>1. k \in root'..3 /\ (k = root' => pc' = "list")
            BY <1>1, <2>1, <2>3, RootsFacts DEF AfterListing
        <3> QED BY <2>1, <3>1 DEF NotListed
    <2> QED BY <2>2, <2>3
<1> QED BY <1>1, <1>2, <1>3 DEF Waiting

\* A refresh begins, and ends, with no file visited and every root to be listed.
LEMMA IdleKind ==
    ASSUME CountInv
    PROVE  /\ BeginRefresh \/ Return => Visited' = {} /\ \A p \in Paths : NotListed(p)'
           /\ pc = "idle" => Visited = {} /\ \A p \in Paths : NotListed(p)
<1>1. RootOf \in [Paths -> {Roots[k] : k \in 1..3}]
    BY RootAssumption DEF Roots
<1>2. /\ BeginRefresh \/ Return => seen' = {} /\ root' = 1 /\ pc' \in {"idle", "list"}
      /\ pc = "idle" => seen = {} /\ root = 1
    BY DEF CountInv, Bookkeeping, BeginRefresh, Return
<1> QED BY <1>1, <1>2 DEF Visited, NotListed

LEMMA PruneKind ==
    ASSUME CountInv, Prune
    PROVE  Keeps
<1> USE DEF CountInv, Bookkeeping, RefreshStep, Prune
<1>1. /\ pc = "stat" /\ todo = {} /\ todo' = {} /\ root \in {1, 3} /\ seen' = {}
      /\ UNCHANGED <<fs, start, errs, quiet>>
      /\ root = 1 => pc' = "list" /\ root' = 2
      /\ root = 3 => pc' = "done" /\ root' = 3
    BY RootsFacts DEF IInv, TypeOK
<1>2. Waiting = {} /\ Waiting' = {}
    BY <1>1 DEF Waiting, Visiting
<1>3. \A p \in Paths : InPass(p) <=> (RootOf[p] = ClaudeRoot <=> root = 1)
    BY <1>1, RootsFacts DEF InPass
<1>4. cache' = [p \in Paths |-> IF InPass(p) /\ p \notin seen THEN None ELSE cache[p]]
    OBVIOUS
<1>5. Visited' = Visited
    BY <1>1, <1>2, <1>3, <1>4 DEF Visited, IInv, TypeOK
<1>6. \A p \in Visited : cache'[p] = cache[p]
    BY <1>4, <1>5 DEF Visited
<1>7. \A p \in Paths : NotListed(p) => NotListed(p)'
    BY <1>1 DEF NotListed
<1> QED BY <1>1, <1>2, <1>5, <1>6, <1>7 DEF Keeps

LEMMA StatFileKind ==
    ASSUME CountInv, NEW p \in Paths, StatFile(p), ~errs'
    PROVE  Keeps \/ Counts(p)
<1> USE DEF CountInv, RefreshStep
<1>1. /\ pc = "stat" /\ p \in todo /\ todo' = todo \ {p}
      /\ UNCHANGED <<fs, start, cache, root, seen, quiet, errs>> /\ dir[p] # None
      /\ pc' # "idle" /\ pc' # "list" /\ pc' # "done"
    BY DEF StatFile, IsNext
<1>2. /\ Waiting = todo /\ p \in seen
      /\ \A q \in Paths : NotListed(q) => NotListed(q)'
    BY <1>1 DEF Waiting, Visiting, NotListed, IInv, TypeOK
<1>3. CASE pc' # "stat"
    <2>1. cur' = p /\ pc' \in Visiting
        BY <1>1, <1>3 DEF StatFile, Visiting
    <2>2. Waiting' = Waiting
        BY <1>1, <1>2, <2>1 DEF Waiting
    <2>3. Visited' = Visited
        BY <1>1, <2>1, <2>2 DEF Visited
    <2> QED BY <1>1, <1>2, <2>2, <2>3 DEF Keeps
<1>4. CASE pc' = "stat"
    <2>1. UpToDate(cache[p], StatOf(p))
        BY <1>1, <1>4 DEF StatFile
    <2>2. Waiting' = todo \ {p}
        BY <1>1, <1>4 DEF Waiting, Visiting
    <2>3. p \notin Visited /\ Visited' = Visited \cup {p}
        BY <1>1, <1>2, <1>4, <2>1, <2>2 DEF Visited, UpToDate, Bookkeeping
    <2>4. /\ cache[p].ino = dir[p] /\ cache[p].mtime = mtime[dir[p]]
          /\ Len(cache[p].records) = Len(content[dir[p]])
        BY <2>1 DEF UpToDate, StatOf
    <2> QED BY <1>1, <1>2, <2>2, <2>3, <2>4 DEF Counts
<1> QED BY <1>3, <1>4

LEMMA PostStatKind ==
    ASSUME CountInv, PostStat, ~errs'
    PROVE  Counts(cur)
<1> USE DEF CountInv, RefreshStep
<1> DEFINE entry == [ino |-> dir[cur], size |-> StatOf(cur).size,
                     mtime |-> StatOf(cur).mtime, records |-> got, anchor |-> anchor]
<1>1. /\ StillThere /\ pc = "post" /\ pc' = "stat" /\ cur \in Paths
      /\ cache' = [cache EXCEPT ![cur] = entry]
      /\ UNCHANGED <<fs, pass, errs, start, quiet>>
    BY DEF PostStat, SkipFile, IInv, TypeOK
<1>2. dir[cur] # None /\ handle = dir[cur] /\ Len(got) <= Len(content[dir[cur]])
    BY <1>1 DEF StillThere, SameThroughout, IInv, Reading
<1>3. entry \in Entry
    BY <1>1, <1>2, StatType DEF IInv, TypeOK, Entry, Info
<1>4. /\ cache'[cur] = entry /\ cache'[cur] # None
      /\ \A q \in Paths : q # cur => cache'[q] = cache[q]
    BY <1>1, <1>3, EntryAssumption DEF IInv, TypeOK
<1>5. Waiting = todo \cup {cur} /\ Waiting' = todo /\ cur \in seen \ todo
    BY <1>1 DEF Waiting, Visiting, pass, Bookkeeping
<1>6. cur \notin Visited /\ Visited' = Visited \cup {cur}
    BY <1>1, <1>4, <1>5 DEF Visited, Bookkeeping, pass
<1>7. \A q \in Paths : NotListed(q) => NotListed(q)'
    BY <1>1 DEF NotListed, pass
<1>8. \A q \in Visited : cache'[q] = cache[q]
    BY <1>4, <1>6 DEF Visited
<1>9. /\ cache'[cur].ino = dir[cur] /\ cache'[cur].mtime = mtime[dir[cur]]
      /\ cache'[cur].records = got
    BY <1>4 DEF StatOf
<1> HIDE DEF entry
<1> QED BY <1>1, <1>2, <1>5, <1>6, <1>7, <1>8, <1>9 DEF Counts, pass

LEMMA RefreshKinds ==
    ASSUME CountInv, ~errs',
           BeginRefresh \/ Advance \/ DiscoverFails \/ ScanFails \/ ExpireContext
               \/ UNCHANGED vars
    PROVE  BeginRefresh \/ Return \/ Discover \/ Keeps \/ \E p \in Paths : Counts(p)
<1>1. ~SkipFile /\ ~DiscoverFails /\ ~ScanFails
    BY DEF SkipFile, DiscoverFails, ScanFails
<1>2. CASE MatchAnchor \/ OpenFile \/ ReadRecord \/ ReachEOF \/ ReadAnchor
    <2>1. /\ pc \in Visiting /\ pc' \in Visiting
          /\ UNCHANGED <<fs, cache, pass, cur, errs, start, quiet>>
        BY <1>1, <1>2 DEF MatchAnchor, OpenFile, ReadRecord, ReachEOF, ReadAnchor, RefreshStep,
                          visit, Visiting
    <2> QED BY <2>1 DEF Keeps, Visited, Waiting, NotListed, pass, Visiting
<1>3. CASE ExpireContext \/ UNCHANGED vars
    <2>1. UNCHANGED <<fs, cache, pc, pass, visit, errs, start, quiet>>
        BY <1>3 DEF ExpireContext, vars
    <2> QED BY <2>1 DEF Keeps, Visited, Waiting, NotListed, pass, visit
<1>4. PostStat => cur \in Paths
    BY DEF PostStat, RefreshStep, CountInv, IInv, TypeOK
<1> QED BY <1>1, <1>2, <1>3, <1>4, PruneKind, StatFileKind, PostStatKind DEF Advance

LEMMA CountKeeps ==
    ASSUME Recorded, Covered, Keeps
    PROVE  Recorded' /\ Covered'
<1> USE DEF Keeps
<1>1. Recorded'
    BY DEF Recorded, Whereabouts, CountedOnce, Linked, fs
<1>2. Covered'
    BY DEF Covered, Expected, Linked, fs
<1> QED BY <1>1, <1>2

LEMMA CountCounts ==
    ASSUME CountInv, NEW p \in Paths, Counts(p), ~errs
    PROVE  Recorded' /\ Covered'
<1> USE DEF CountInv, Counts
<1>1. dir[p] \in Linked /\ (dir[p] \in DOMAIN start => start[dir[p]] <= Len(cache'[p].records))
    <2>1. dir[p] \in Linked
        BY NoneAssumption DEF Linked, IInv, TypeOK
    <2>2. dir[p] \in DOMAIN start => start[dir[p]] <= Len(cache'[p].records)
        BY DEF StartHeld
    <2> QED BY <2>1, <2>2
<1>2. p \in DOMAIN ArchivedAs => ArchivedAs[p] \notin seen
    BY ArchiveNames DEF ArchivedOnce, IInv, TypeOK
<1>3. \A q \in Visited : cache[q].ino # dir[p]
    <2> SUFFICES ASSUME NEW q \in Visited, cache[q].ino = dir[p] PROVE FALSE
        OBVIOUS
    <2>1. q \in Paths /\ q # p /\ Whereabouts(q) /\ CountedOnce(q)
        BY DEF Recorded, Visited
    <2>2. CASE dir[q] = dir[p]
        BY <2>1, <2>2 DEF IInv, UniqueNames
    <2>3. CASE q \in DOMAIN ArchivedAs /\ dir[ArchivedAs[q]] = dir[p]
        <3>1. ArchivedAs[q] = p
            BY <2>3, ArchiveNames DEF IInv, UniqueNames
        <3> QED BY <2>1, <2>3, <3>1 DEF CountedOnce
    <2> QED BY <1>1, <2>1, <2>2, <2>3 DEF Whereabouts
<1>4. ASSUME NEW q \in Visited' PROVE Whereabouts(q)' /\ CountedOnce(q)'
    <2>1. CASE q = p
        BY <1>1, <1>2, <1>3, <2>1 DEF Whereabouts, CountedOnce, fs
    <2>2. CASE q # p
        <3>1. q \in Visited /\ Whereabouts(q) /\ CountedOnce(q)
            BY <1>4, <2>2 DEF Recorded
        <3>2. Whereabouts(q)'
            BY <3>1 DEF Whereabouts, Linked, fs
        <3>3. CountedOnce(q)'
            BY <1>3, <3>1 DEF CountedOnce
        <3> QED BY <3>2, <3>3
    <2> QED BY <2>1, <2>2
<1>5. ASSUME NEW i \in DOMAIN start \cap Linked PROVE Expected(i)'
    <2>1. Expected(i)
        BY DEF Covered
    <2>2. CASE dir[p] = i
        BY <2>2 DEF Expected
    <2>3. CASE dir[p] # i
        <3>1. ASSUME NEW q \in Waiting, q \in archived, dir[ArchivedAs[q]] = i
              PROVE  Expected(i)'
            <4>1. q # p
                BY <3>1 DEF ArchivedOnce
            <4> QED BY <3>1, <4>1 DEF Expected, fs
        <3>2. ASSUME NEW q \in Waiting, dir[q] = i PROVE Expected(i)'
            BY <2>3, <3>2 DEF Expected, fs
        <3>3. CASE \E q \in Visited : cache[q].ino = i
            BY <3>3 DEF Expected
        <3>4. CASE \E q \in Paths : NotListed(q) /\ dir[q] = i
            BY <3>4 DEF Expected, fs
        <3> QED BY <2>1, <3>1, <3>2, <3>3, <3>4 DEF Expected
    <2> QED BY <2>2, <2>3
<1> QED BY <1>4, <1>5 DEF Recorded, Covered, Linked, fs

LEMMA CountDiscover ==
    ASSUME CountInv, Discover, ~errs
    PROVE  Recorded' /\ Covered'
<1> USE DiscoverKind DEF CountInv
<1>1. Recorded'
    <2>1. ASSUME NEW p \in Visited PROVE p \notin DOMAIN ArchivedAs
        BY <2>1, ArchiveNames DEF ClaudeRoot, SessionsRoot
    <2> QED BY <2>1 DEF Recorded, Whereabouts, CountedOnce, Linked, fs
<1>2. ASSUME NEW i \in DOMAIN start \cap Linked PROVE Expected(i)'
    <2>1. i # None /\ Expected(i)
        BY NoneAssumption DEF IInv, TypeOK, Covered
    <2>2. CASE \E p \in Paths : NotListed(p) /\ dir[p] = i
        <3>1. PICK p \in Paths : NotListed(p) /\ dir[p] = i
            BY <2>2
        <3>2. p \in Waiting' \/ NotListed(p)'
            BY <2>1, <3>1
        <3> QED BY <3>1, <3>2 DEF Expected, fs
    <2> QED BY <2>1, <2>2 DEF Expected, fs
<1> QED BY <1>1, <1>2 DEF Covered, Linked, fs

LEMMA CountRefresh ==
    ASSUME CountInv,
           BeginRefresh \/ Advance \/ DiscoverFails \/ ScanFails \/ ExpireContext
               \/ UNCHANGED vars
    PROVE  Recorded' /\ Covered'
<1>1. CASE errs'
    BY <1>1 DEF Recorded, Covered
<1>2. CASE BeginRefresh
    BY <1>2, IdleKind DEF BeginRefresh, Recorded, Covered, Expected, Linked, fs
<1>3. CASE Return
    BY <1>3, IdleKind DEF Return, NoStart, Recorded, Covered
<1>4. CASE ~errs' /\ (Discover \/ Keeps \/ \E p \in Paths : Counts(p))
    BY <1>4, CountDiscover, CountKeeps, CountCounts DEF CountInv, Discover, Keeps, Counts
<1> QED BY <1>1, <1>2, <1>3, <1>4, RefreshKinds

LEMMA CountInit == Init => CountInv
<1> SUFFICES ASSUME Init PROVE CountInv
    OBVIOUS
<1>1. IInv
    BY InvInit
<1>2. Bookkeeping /\ ArchivedOnce /\ StartHeld
    BY DEF Init, Bookkeeping, ArchivedOnce, StartHeld, NoStart, Visiting
<1>3. Recorded /\ Covered
    BY DEF Init, Recorded, Covered, Visited, NoStart
<1> QED BY <1>1, <1>2, <1>3 DEF CountInv

LEMMA CountStep ==
    ASSUME CountInv, Rewrites # "anytime", [Next]_vars
    PROVE  CountInv'
<1>1. IInv'
    BY InvStep DEF CountInv
<1>2. Bookkeeping'
    BY BookkeepingStep DEF CountInv, IInv
<1>3. ArchivedOnce' /\ StartHeld'
    BY <1>1, ArchivedOnceStep, StartHeldStep DEF CountInv, IInv
<1>4. Recorded' /\ Covered'
    BY CountWrite, CountRefresh DEF Next
<1> QED BY <1>1, <1>2, <1>3, <1>4 DEF CountInv

LEMMA CountImplies == CountInv => CleanReturnCountsOnce
<1> SUFFICES ASSUME CountInv, pc = "done", ~errs PROVE CleanReturnCountsOnce
    BY DEF CleanReturnCountsOnce, CleanReturn
<1> USE DEF CountInv
<1>1. /\ \A p \in Paths : cache[p] # None => p \in Visited
      /\ \A p \in Visited : p \in Paths /\ cache[p] # None
    BY DEF Visited
<1>2. \A p, q \in Visited : cache[p].ino = cache[q].ino => p = q
    BY DEF Recorded, CountedOnce
<1>3. ASSUME NEW i \in Inodes PROVE Cardinality(Counting(i)) <= 1
    <2>1. CASE Counting(i) = {}
        BY <2>1, FS_EmptySet
    <2>2. CASE Counting(i) # {}
        <3>1. PICK p \in Counting(i) : TRUE
            BY <2>2
        <3>2. Counting(i) = {p}
            BY <1>1, <1>2, <3>1 DEF Counting
        <3>3. Cardinality({p}) = 1
            BY FS_Singleton
        <3> QED BY <3>2, <3>3
    <2> QED BY <2>1, <2>2
<1>4. ASSUME NEW i \in DOMAIN start \cap Linked
      PROVE  \E p \in Counting(i) : Len(cache[p].records) >= start[i]
    <2>1. Expected(i)
        BY DEF Covered
    <2>2. Waiting = {}
        BY DEF Bookkeeping, Waiting, Visiting, IInv, TypeOK
    <2>3. \A p \in Paths : ~NotListed(p)
        BY DEF Bookkeeping, NotListed
    <2>4. PICK p \in Visited : cache[p].ino = i
        BY <2>1, <2>2, <2>3 DEF Expected
    <2>5. start[i] <= Len(cache[p].records)
        BY <2>4 DEF Recorded, CountedOnce
    <2>6. start[i] \in Nat /\ Len(cache[p].records) \in Nat /\ p \in Counting(i)
        BY <1>1, <2>4, KnownIno DEF Counting, IInv, TypeOK, Entry
    <2> QED BY <2>5, <2>6
<1> QED BY <1>3, <1>4 DEF CleanReturnCountsOnce

\* A refresh that reports no error has counted every log that was there when it
\* began and is still there, with at least what it held then, and no file twice:
\* whatever was written, replaced, archived or deleted while it ran, whatever
\* failed in earlier refreshes, and with logs rewritten in place between refreshes.
THEOREM CleanReturnCounts == Rewrites # "anytime" => (Spec => []CleanReturnCountsOnce)
<1>1. SUFFICES ASSUME Rewrites # "anytime" PROVE Spec => []CleanReturnCountsOnce
    OBVIOUS
<1>2. Init => CountInv
    BY CountInit
<1>3. CountInv /\ [Next]_vars => CountInv'
    BY <1>1, CountStep
<1>4. CountInv => CleanReturnCountsOnce
    BY CountImplies
<1> QED BY <1>2, <1>3, <1>4, PTL DEF Spec

-----------------------------------------------------------------------------
(* A refresh during which nothing is written.  What it reads to the end is  *)
(* the whole log, and so is an entry whose offset reached the size.         *)

QuietRead == quiet /\ pc \in {"anchor", "post"} => Len(content[handle]) <= Len(got)

\* Neither more nor fewer records than the log, and of its last version.
Whole(p) ==
    /\ dir[p] = cache[p].ino
    /\ cache[p].mtime = mtime[dir[p]]
    /\ Len(cache[p].records) = Len(content[dir[p]])

QuietWhole ==
    quiet /\ ~errs =>
        /\ \A p \in Visited : Whole(p)
        /\ \A p \in Paths : dir[p] # None => p \in Visited \cup Waiting \/ NotListed(p)

QuietInv == CountInv /\ QuietRead /\ QuietWhole

LEMMA QuietReadStep ==
    ASSUME TypeOK, QuietRead, [Next]_vars
    PROVE  QuietRead'
<1> USE DEF TypeOK
<1>1. CASE Write
    <2>1. pc' = pc /\ quiet' = (pc = "idle")
        BY <1>1 DEF Write, AppendRecord, Place, Remove, Archive, Rewrite, Change
    <2> QED BY <2>1 DEF QuietRead
<1>2. CASE ReachEOF
    BY <1>2 DEF ReachEOF, RefreshStep, QuietRead, fs, visit
<1>3. CASE ~Write /\ ~ReachEOF
    <2>1. pc' \in {"anchor", "post"} =>
              pc \in {"anchor", "post"} /\ UNCHANGED <<content, handle, got, quiet>>
        BY <1>3 DEF Next, Advance, BeginRefresh, Return, Discover, StatFile, MatchAnchor, OpenFile,
            ReadRecord, ReadAnchor, PostStat, Prune, DiscoverFails, FilesFound, AfterListing,
            ScanFails, ExpireContext, RefreshStep, SkipFile, vars, fs, visit
    <2> QED BY <2>1 DEF QuietRead
<1> QED BY <1>1, <1>2, <1>3

LEMMA QuietWrite ==
    ASSUME QuietInv, Write
    PROVE  QuietWhole'
<1>1. quiet' = (pc = "idle") /\ UNCHANGED <<cache, pc, root, todo, seen, cur>>
    BY DEF Write, AppendRecord, Place, Remove, Archive, Rewrite, Change, pass, visit
<1>2. Visited' = Visited /\ \A p \in Paths : NotListed(p)' = NotListed(p)
    BY <1>1 DEF Visited, Waiting, NotListed
<1> QED BY <1>1, <1>2, IdleKind DEF QuietWhole, QuietInv

LEMMA QuietCounts ==
    ASSUME QuietInv, IInv', NEW p \in Paths, Counts(p)
    PROVE  QuietWhole'
<1> USE DEF QuietInv, CountInv, Counts
<1> SUFFICES ASSUME quiet, ~errs PROVE QuietWhole'
    BY DEF QuietWhole
<1>1. Whole(p)'
    <2>1. dir[p] \in Inodes /\ content[dir[p]] \in Seq(Records)
        BY DEF IInv, TypeOK
    <2>2. cache'[p] # None /\ cache'[p] \in Entry
        BY DEF Visited, IInv, TypeOK
    <2>3. PICK n \in Nat : n = Len(cache'[p].records)
        BY <2>2 DEF Entry
    <2>4. CASE Len(cache'[p].records) = Len(content[dir[p]])
        BY <2>4 DEF Whole, fs
    <2>5. CASE /\ pc = "post" /\ handle = dir[p] /\ cache'[p].records = got
               /\ Len(got) <= Len(content[dir[p]])
        <3>1. Len(content[dir[p]]) <= Len(got)
            BY <2>5 DEF QuietRead
        <3> QED BY <2>1, <2>3, <2>5, <3>1 DEF Whole, fs
    <2> QED BY <2>4, <2>5
<1>2. \A q \in Visited' : Whole(q)'
    BY <1>1 DEF QuietWhole, Whole, fs
<1>3. \A q \in Paths : dir[q] # None => q \in Visited' \cup Waiting' \/ NotListed(q)'
    BY DEF QuietWhole
<1> QED BY <1>2, <1>3 DEF QuietWhole, fs

LEMMA QuietRefresh ==
    ASSUME QuietInv, IInv',
           BeginRefresh \/ Advance \/ DiscoverFails \/ ScanFails \/ ExpireContext
               \/ UNCHANGED vars
    PROVE  QuietWhole'
<1> USE DEF QuietInv
<1>1. CASE errs'
    BY <1>1 DEF QuietWhole
<1>2. CASE BeginRefresh \/ Return
    BY <1>2, IdleKind DEF QuietWhole
<1>3. CASE Discover
    BY <1>3, DiscoverKind DEF QuietWhole, Whole, fs
<1>4. CASE Keeps
    BY <1>4 DEF QuietWhole, Whole, Keeps, fs
<1>5. CASE \E p \in Paths : Counts(p)
    BY <1>5, QuietCounts
<1> QED BY <1>1, <1>2, <1>3, <1>4, <1>5, RefreshKinds

LEMMA QuietStep ==
    ASSUME QuietInv, Rewrites # "anytime", [Next]_vars
    PROVE  QuietInv'
<1>1. CountInv'
    BY CountStep DEF QuietInv
<1>2. QuietRead'
    BY QuietReadStep DEF QuietInv, CountInv, IInv
<1>3. QuietWhole'
    BY <1>1, QuietWrite, QuietRefresh DEF Next, CountInv
<1> QED BY <1>1, <1>2, <1>3 DEF QuietInv

LEMMA QuietInit == Init => QuietInv
<1> SUFFICES ASSUME Init PROVE QuietInv
    OBVIOUS
<1>1. CountInv
    BY CountInit
<1>2. pc = "idle"
    BY DEF Init
<1> QED BY <1>1, <1>2, IdleKind DEF QuietInv, QuietRead, QuietWhole

\* What a quiet refresh without error leaves: nothing of what is not there, and
\* of what is there an entry as long as the log.
LEMMA QuietReturn ==
    ASSUME QuietInv, CleanReturn, quiet, NEW p \in Paths
    PROVE  /\ dir[p] = None => cache[p] = None
           /\ dir[p] # None => /\ cache[p] \in Entry /\ cache[p] # None
                               /\ content[dir[p]] \in Seq(Records)
                               /\ Whole(p)
<1> USE DEF QuietInv, CountInv, CleanReturn
<1>1. Visited = {q \in Paths : cache[q] # None} /\ Waiting = {} /\ ~NotListed(p)
    BY DEF Visited, Waiting, NotListed, Visiting, Bookkeeping, IInv, TypeOK
<1>2. CASE cache[p] = None
    BY <1>1, <1>2 DEF QuietWhole
<1>3. CASE cache[p] # None
    <2>1. Whole(p)
        BY <1>1, <1>3 DEF QuietWhole
    <2>2. cache[p] \in Entry /\ dir[p] \in Inodes
        BY <1>1, <1>3, <2>1, KnownIno DEF Whole
    <2> QED BY <1>3, <2>1, <2>2, NoneAssumption DEF IInv, TypeOK
<1> QED BY <1>2, <1>3

LEMMA PrefixOfEqualLength ==
    ASSUME NEW s \in Seq(Records), NEW t \in Seq(Records), PrefixOf(s, t), Len(t) = Len(s)
    PROVE  s = t
    BY DEF PrefixOf

LEMMA QuietImplies == Rewrites = "never" /\ QuietInv => SettledIsExact
<1> SUFFICES ASSUME Rewrites = "never", QuietInv, CleanReturn, quiet, NEW p \in Paths
             PROVE  IF dir[p] = None
                      THEN cache[p] = None
                      ELSE cache[p] # None /\ cache[p].records = content[dir[p]]
    BY DEF SettledIsExact, IndexIsDisk
<1>1. ASSUME dir[p] # None PROVE cache[p] # None /\ cache[p].records = content[dir[p]]
    <2>1. /\ cache[p] \in Entry /\ cache[p] # None /\ content[dir[p]] \in Seq(Records)
          /\ Whole(p)
        BY <1>1, QuietReturn
    <2>2. cache[p].records \in Seq(Records) /\ PrefixOf(cache[p].records, content[dir[p]])
        BY <2>1 DEF QuietInv, CountInv, IInv, Faithful, Entry, Whole
    <2> QED BY <2>1, <2>2, PrefixOfEqualLength DEF Whole
<1> QED BY <1>1, QuietReturn

\* "Truncated, replaced, and deleted files rebuild or leave the index cleanly."
\* (README.md:16): a refresh that reports no error and during which nothing was
\* written leaves an index equal to the disk, whatever happened before it.
THEOREM SettledIndexIsDisk == Rewrites = "never" => (Spec => []SettledIsExact)
<1>1. SUFFICES ASSUME Rewrites = "never" PROVE Spec => []SettledIsExact
    OBVIOUS
<1>2. QuietInv /\ [Next]_vars => QuietInv'
    BY <1>1, QuietStep
<1>3. QuietInv => SettledIsExact
    BY <1>1, QuietImplies
<1> QED BY QuietInit, <1>2, <1>3, PTL DEF Spec

-----------------------------------------------------------------------------
(* Logs that are rewritten in place, between refreshes.  The window that    *)
(* was kept is the window of what was taken over, and a refresh that takes  *)
(* records over reads one more at least; so whatever ends where the log     *)
(* ends has the log's last records, the window and one more.                *)

\* s is no longer than t, and equal to it after position k.
AgreeAfter(s, t, k) ==
    /\ Len(s) <= Len(t)
    /\ \A n \in 1..Len(s) : n > k => s[n] = t[n]

\* An entry whose stamp is the file's last has the file's last records.
Stamped(e) ==
    /\ e.anchor = Window(e.records, Len(e.records))
    /\ e.mtime <= writes
    /\ e.mtime = mtime[e.ino] =>
           AgreeAfter(e.records, content[e.ino], Len(e.records) - AnchorLen - 1)

EntriesStamped == \A p \in Paths : cache[p] # None => Stamped(cache[p])

\* What the visit has learnt, as long as the path still names the file it took.
VisitStamped ==
    /\ pc \in Visiting => info.size <= Len(content[info.ino])
    /\ pc = "match" => Len(cache[cur].records) < info.size
    /\ pc \in {"open", "scan"} /\ dir[cur] = info.ino =>
           \E b \in 0..Len(got) : /\ b = 0 \/ b < info.size
                                  /\ AgreeAfter(got, content[info.ino], b - AnchorLen)
    /\ pc \in {"anchor", "post"} /\ dir[cur] = info.ino =>
           AgreeAfter(got, content[info.ino], Len(got) - AnchorLen - 1)
    /\ pc = "post" /\ dir[cur] = info.ino => anchor = Window(got, Len(got))

StampInv ==
    /\ QuietInv
    /\ \A i \in Inodes : mtime[i] <= writes
    /\ EntriesStamped
    /\ VisitStamped

LEMMA AgreeExtends ==
    ASSUME NEW s \in Seq(Records), NEW t \in Seq(Records), NEW u \in Seq(Records),
           NEW k \in Int, AgreeAfter(s, t, k), PrefixOf(t, u)
    PROVE  AgreeAfter(s, u, k)
    BY DEF AgreeAfter, PrefixOf

LEMMA AgreeLess ==
    ASSUME NEW s \in Seq(Records), NEW t \in Seq(Records), NEW j \in Int, NEW k \in Int,
           AgreeAfter(s, t, j), j <= k
    PROVE  AgreeAfter(s, t, k)
    BY DEF AgreeAfter

\* Equal windows, of n records of each.
LEMMA WindowAgrees ==
    ASSUME NEW s \in Seq(Records), NEW t \in Seq(Records), Len(s) <= Len(t)
    PROVE  Window(s, Len(s)) = Window(t, Len(s)) <=> AgreeAfter(s, t, Len(s) - AnchorLen)
<1> DEFINE a == IF Len(s) > AnchorLen THEN Len(s) - AnchorLen + 1 ELSE 1
           v == Window(s, Len(s))
           w == Window(t, Len(s))
<1>1. a \in 1..(Len(s) + 1) /\ \A n \in 1..Len(s) : n > Len(s) - AnchorLen <=> n >= a
    BY AnchorAssumption
<1>2. /\ v = SubSeq(s, a, Len(s)) /\ w = SubSeq(t, a, Len(s))
    BY DEF Window
<1> HIDE DEF a, v, w
<1>3. /\ v \in Seq(Records) /\ w \in Seq(Records)
      /\ Len(v) = Len(s) - a + 1 /\ Len(w) = Len(s) - a + 1
      /\ \A k \in 1..(Len(s) - a + 1) : v[k] = s[a + k - 1] /\ w[k] = t[a + k - 1]
    BY <1>1, <1>2
<1>4. ASSUME v = w PROVE AgreeAfter(s, t, Len(s) - AnchorLen)
    <2> SUFFICES ASSUME NEW n \in 1..Len(s), n >= a PROVE s[n] = t[n]
        BY <1>1 DEF AgreeAfter
    <2>1. n - a + 1 \in 1..(Len(s) - a + 1) /\ a + (n - a + 1) - 1 = n
        BY <1>1
    <2> QED BY <1>3, <1>4, <2>1
<1>5. ASSUME AgreeAfter(s, t, Len(s) - AnchorLen) PROVE v = w
    <2>1. \A k \in 1..(Len(s) - a + 1) : a + k - 1 \in 1..Len(s) /\ a + k - 1 >= a
        BY <1>1
    <2>2. \A k \in 1..(Len(s) - a + 1) : v[k] = w[k]
        BY <1>1, <1>3, <1>5, <2>1 DEF AgreeAfter
    <2> QED BY <1>3, <2>2
<1> QED BY <1>4, <1>5 DEF v, w

\* A write gives the file a later stamp than any there is, or leaves it alone.
LEMMA WriteStamps ==
    ASSUME TypeOK, Write, NEW i \in Inodes, mtime[i] <= writes
    PROVE  /\ writes' = writes + 1
           /\ \/ mtime'[i] = mtime[i] /\ (mtime[i] > 0 => content'[i] = content[i])
              \/ mtime'[i] = writes + 1
<1> USE DEF TypeOK, Change
<1>1. ASSUME NEW j \in Inodes, NEW r \in Records, AppendRecord(j, r)
      PROVE  mtime'[i] = writes + 1 \/ (mtime'[i] = mtime[i] /\ content'[i] = content[i])
    BY <1>1 DEF AppendRecord
<1>2. ASSUME NEW q \in Paths, NEW j \in Inodes, NEW c \in Logs, Place(q, j, c)
      PROVE  mtime'[i] = writes + 1 \/ (mtime'[i] = mtime[i] /\ content'[i] = content[i])
    BY <1>2 DEF Place
<1>3. ASSUME NEW j \in Inodes, NEW c \in Logs, Rewrite(j, c)
      PROVE  mtime'[i] = writes + 1 \/ (mtime'[i] = mtime[i] /\ content'[i] = content[i])
    BY <1>3 DEF Rewrite
<1>4. writes' = writes + 1
    BY DEF Write, AppendRecord, Place, Remove, Archive, Rewrite
<1> QED BY <1>1, <1>2, <1>3, <1>4 DEF Write, Remove, Archive

LEMMA StampWrite ==
    ASSUME StampInv, IInv', Rewrites # "anytime", Write
    PROVE  /\ \A i \in Inodes : mtime'[i] <= writes'
           /\ EntriesStamped' /\ VisitStamped'
<1> USE DEF StampInv, QuietInv, CountInv, IInv
<1>1. UNCHANGED <<cache, pc, cur, info, handle, got, anchor>>
    BY WriteFrame DEF pass, visit
<1>2. ASSUME NEW i \in Inodes PROVE mtime'[i] <= writes'
    <2>1. mtime[i] \in Nat /\ writes \in Nat /\ mtime[i] <= writes
        BY DEF TypeOK
    <2> QED BY <2>1, WriteStamps
<1>3. ASSUME NEW p \in Paths, cache[p] # None PROVE Stamped(cache[p])'
    <2>1. /\ cache[p] \in Entry /\ cache[p].ino \in Inodes /\ cache[p].mtime \in Nat
          /\ mtime[cache[p].ino] > 0
        BY <1>3 DEF TypeOK, KnownAreBorn, Entry
    <2>2. Stamped(cache[p])
        BY <1>3 DEF EntriesStamped
    <2>3. mtime[cache[p].ino] <= writes /\ writes \in Nat
        BY <2>1 DEF TypeOK
    <2>4. /\ writes' = writes + 1
          /\ \/ /\ mtime'[cache[p].ino] = mtime[cache[p].ino]
                /\ content'[cache[p].ino] = content[cache[p].ino]
             \/ mtime'[cache[p].ino] = writes + 1
        BY <2>1, <2>3, WriteStamps
    <2> QED BY <1>1, <2>1, <2>2, <2>3, <2>4 DEF Stamped
<1>4. ASSUME pc \in Visiting
      PROVE  /\ info \in Info /\ info.ino \in Inodes
             /\ content[info.ino] \in Seq(Records) /\ content'[info.ino] \in Seq(Records)
             /\ PrefixOf(content[info.ino], content'[info.ino])
             /\ dir'[cur] = info.ino => dir[cur] = info.ino
    <2>1. info \in Info /\ info.ino \in Inodes /\ mtime[info.ino] > 0 /\ cur \in Paths
        BY <1>4 DEF TypeOK, KnownAreBorn, Visiting
    <2>2. content[info.ino] \in Seq(Records) /\ content'[info.ino] \in Seq(Records)
        BY <2>1 DEF TypeOK
    <2>3. Appending
        BY <1>4 DEF Appending, Visiting
    <2>4. RootOf[cur] = ArchiveRoot =>
              \A q \in Paths : RootOf[q] = SessionsRoot => dir[q] # info.ino
        BY <1>4 DEF NotUnarchived, ArchiveRoot, SessionsRoot
    <2> QED BY <2>1, <2>2, <2>3, <2>4, WriteAppends, WriteNames, NoneAssumption
<1>5. VisitStamped'
    <2>1. ASSUME pc \in Visiting PROVE info.size <= Len(content'[info.ino])
        BY <1>4, <2>1 DEF VisitStamped, PrefixOf, Info
    <2>2. ASSUME pc \in {"open", "scan"}, dir'[cur] = info.ino
          PROVE  \E b \in 0..Len(got) : /\ b = 0 \/ b < info.size
                                        /\ AgreeAfter(got, content'[info.ino], b - AnchorLen)
        <3>1. PICK b \in 0..Len(got) : /\ b = 0 \/ b < info.size
                                       /\ AgreeAfter(got, content[info.ino], b - AnchorLen)
            BY <1>4, <2>2 DEF VisitStamped, Visiting
        <3>2. got \in Seq(Records) /\ b - AnchorLen \in Int
            BY AnchorAssumption DEF TypeOK
        <3> QED BY <1>4, <2>2, <3>1, <3>2, AgreeExtends DEF Visiting
    <2>3. ASSUME pc \in {"anchor", "post"}, dir'[cur] = info.ino
          PROVE  AgreeAfter(got, content'[info.ino], Len(got) - AnchorLen - 1)
        <3>1. got \in Seq(Records) /\ Len(got) - AnchorLen - 1 \in Int
            BY AnchorAssumption DEF TypeOK
        <3> QED BY <1>4, <2>3, <3>1, AgreeExtends DEF VisitStamped, Visiting
    <2>4. pc = "post" /\ dir'[cur] = info.ino => anchor = Window(got, Len(got))
        BY <1>4 DEF VisitStamped, Visiting
    <2> QED BY <1>1, <2>1, <2>2, <2>3, <2>4 DEF VisitStamped
<1> QED BY <1>1, <1>2, <1>3, <1>5 DEF EntriesStamped

\* Steps of the refresh that do not leave a visit going on.
LEMMA StampNotVisiting ==
    ASSUME StampInv, UNCHANGED fs, pc' \notin Visiting,
           \A p \in Paths : cache'[p] # None => cache'[p] = cache[p] \/ Stamped(cache'[p])
    PROVE  EntriesStamped' /\ VisitStamped'
    BY DEF StampInv, EntriesStamped, VisitStamped, Stamped, Visiting, fs

LEMMA StampStatFile ==
    ASSUME StampInv, NEW p \in Paths, StatFile(p), pc' \in Visiting
    PROVE  VisitStamped'
<1> USE DEF StampInv, QuietInv, CountInv, IInv, RefreshStep
<1>1. /\ pc = "stat" /\ dir[p] # None /\ cur' = p /\ info' = StatOf(p)
      /\ pc' = IF Grown(cache[p], StatOf(p)) THEN "match" ELSE "open"
      /\ UNCHANGED <<fs, cache, got>>
    BY DEF StatFile, Visiting
<1>2. got = <<>>
    BY <1>1 DEF NothingReadYet, Reading
<1>3. info'.ino = dir[p] /\ info'.size = Len(content[dir[p]]) /\ content[dir[p]] \in Seq(Records)
    BY <1>1 DEF StatOf, TypeOK
<1>4. pc' = "match" => Len(cache[p].records) < info'.size
    <2> HAVE pc' = "match"
    <2>1. cache[p] # None /\ info'.size > Len(cache[p].records)
        BY <1>1 DEF Grown
    <2>2. Len(cache[p].records) \in Nat
        BY <2>1 DEF TypeOK, Entry
    <2> QED BY <1>3, <2>1, <2>2
<1>5. AgreeAfter(<<>>, content[dir[p]], 0 - AnchorLen)
    BY <1>3, AnchorAssumption DEF AgreeAfter
<1>6. \E b \in 0..Len(got) : /\ b = 0 \/ b < info'.size
                             /\ AgreeAfter(got, content[info'.ino], b - AnchorLen)
    BY <1>2, <1>3, <1>5
<1>7. /\ info'.size <= Len(content[info'.ino])
      /\ pc' \in {"match", "open"}
    BY <1>1, <1>3
<1> QED BY <1>1, <1>4, <1>6, <1>7 DEF VisitStamped, fs

LEMMA StampMatchAnchor ==
    ASSUME StampInv, MatchAnchor, pc' \in Visiting
    PROVE  VisitStamped'
<1> USE DEF StampInv, QuietInv, CountInv, IInv, RefreshStep
<1> DEFINE old == cache[cur]
<1>1. /\ pc = "match" /\ pc' = "open" /\ UNCHANGED <<fs, cache, cur, info>>
      /\ got = <<>> /\ cur \in Paths /\ old # None /\ info \in Info /\ info.ino \in Inodes
    BY DEF MatchAnchor, SkipFile, visit, Visiting, NothingReadYet, Reading, TypeOK
<1>2. content[info.ino] \in Seq(Records) /\ old.records \in Seq(Records)
    BY <1>1 DEF TypeOK, Entry
<1>3. info.size <= Len(content[info.ino]) /\ Len(old.records) < info.size
    BY <1>1 DEF VisitStamped, Visiting
<1>4. ASSUME dir[cur] = info.ino
      PROVE  \E b \in 0..Len(got') : /\ b = 0 \/ b < info.size
                                     /\ AgreeAfter(got', content[info.ino], b - AnchorLen)
    <2>1. CASE got' = <<>>
        <3>1. AgreeAfter(<<>>, content[info.ino], 0 - AnchorLen)
            BY <1>2 DEF AgreeAfter
        <3> QED BY <2>1, <3>1
    <2>2. CASE got' # <<>>
        <3>1. /\ got' = old.records /\ Len(old.records) <= Len(content[info.ino])
              /\ Window(content[info.ino], Len(old.records)) = old.anchor
            BY <1>1, <1>2, <1>3, <1>4, <2>2 DEF MatchAnchor, SkipFile, AnchorReadable, visit, Info
        <3>2. old.anchor = Window(old.records, Len(old.records))
            BY <1>1 DEF EntriesStamped, Stamped
        <3>3. AgreeAfter(old.records, content[info.ino], Len(old.records) - AnchorLen)
            BY <1>2, <3>1, <3>2, WindowAgrees
        <3>4. Len(old.records) \in 0..Len(old.records)
            BY <1>2
        <3> QED BY <1>3, <3>1, <3>3, <3>4
    <2> QED BY <2>1, <2>2
<1> QED BY <1>1, <1>3, <1>4 DEF VisitStamped, fs

LEMMA StampReading ==
    ASSUME StampInv, OpenFile \/ ReadRecord \/ ReachEOF \/ ReadAnchor, pc' \in Visiting
    PROVE  VisitStamped'
<1> USE DEF StampInv, QuietInv, CountInv, IInv, RefreshStep
<1>1. /\ UNCHANGED <<fs, cur, info>> /\ info \in Info /\ info.ino \in Inodes
      /\ pc \in Visiting /\ pc # "match" /\ pc' # "match"
    BY DEF OpenFile, ReadRecord, ReachEOF, ReadAnchor, SkipFile, visit, TypeOK, Visiting
<1>2. content[info.ino] \in Seq(Records) /\ got \in Seq(Records) /\ AnchorLen \in Nat
    BY <1>1, AnchorAssumption DEF TypeOK
<1>3. info.size <= Len(content[info.ino]) /\ info.size \in Nat
    BY <1>1 DEF VisitStamped, Info
<1>4. ASSUME pc \in {"open", "scan"}, dir[cur] = info.ino
      PROVE  \E b \in 0..Len(got) : /\ b = 0 \/ b < info.size
                                    /\ AgreeAfter(got, content[info.ino], b - AnchorLen)
    BY <1>4 DEF VisitStamped
<1>5. pc \in Reading /\ dir[cur] = info.ino => handle = info.ino
    BY DEF SameThroughout
<1>6. CASE OpenFile
    <2>1. pc = "open" /\ pc' = "scan" /\ got' = got
        BY <1>6 DEF OpenFile, SkipFile, Visiting
    <2> QED BY <1>1, <1>3, <1>4, <2>1 DEF VisitStamped, fs
<1>7. CASE ReadRecord
    <2>1. /\ pc = "scan" /\ pc' = "scan" /\ Len(got) < Len(content[handle])
          /\ got' = Append(got, content[handle][Len(got) + 1])
        BY <1>7 DEF ReadRecord
    <2>2. ASSUME dir[cur] = info.ino
          PROVE  \E b \in 0..Len(got') : /\ b = 0 \/ b < info.size
                                         /\ AgreeAfter(got', content[info.ino], b - AnchorLen)
        <3>1. PICK b \in 0..Len(got) : /\ b = 0 \/ b < info.size
                                       /\ AgreeAfter(got, content[info.ino], b - AnchorLen)
            BY <1>4, <2>1, <2>2
        <3>2. handle = info.ino
            BY <1>5, <2>1, <2>2 DEF Reading
        <3>3. /\ Len(got') = Len(got) + 1 /\ got'[Len(got) + 1] = content[info.ino][Len(got) + 1]
              /\ \A n \in 1..Len(got) : got'[n] = got[n]
            BY <1>2, <2>1, <3>2
        <3>4. AgreeAfter(got', content[info.ino], b - AnchorLen)
            BY <1>2, <2>1, <3>1, <3>2, <3>3 DEF AgreeAfter
        <3>5. b \in 0..Len(got')
            BY <1>2, <3>3
        <3> QED BY <3>1, <3>4, <3>5
    <2> QED BY <1>1, <1>3, <2>1, <2>2 DEF VisitStamped, fs
<1>8. CASE ReachEOF
    <2>1. pc = "scan" /\ pc' = "anchor" /\ Len(got) >= Len(content[handle]) /\ got' = got
        BY <1>8 DEF ReachEOF, visit
    <2>2. ASSUME dir[cur] = info.ino
          PROVE  AgreeAfter(got, content[info.ino], Len(got) - AnchorLen - 1)
        <3>1. PICK b \in 0..Len(got) : /\ b = 0 \/ b < info.size
                                       /\ AgreeAfter(got, content[info.ino], b - AnchorLen)
            BY <1>4, <2>1, <2>2
        <3>2. Len(content[info.ino]) <= Len(got)
            BY <1>2, <1>5, <2>1, <2>2 DEF Reading
        <3>3. b = 0 \/ b < Len(got)
            BY <1>2, <1>3, <3>1, <3>2
        <3> QED BY <1>2, <3>1, <3>3 DEF AgreeAfter
    <2> QED BY <1>1, <1>3, <2>1, <2>2 DEF VisitStamped, fs
<1>9. CASE ReadAnchor
    <2>1. /\ pc = "anchor" /\ pc' = "post" /\ got' = got
          /\ anchor' = Window(content[handle], Len(got))
        BY <1>9 DEF ReadAnchor, SkipFile, Visiting
    <2>2. ASSUME dir[cur] = info.ino
          PROVE  /\ AgreeAfter(got, content[info.ino], Len(got) - AnchorLen - 1)
                 /\ anchor' = Window(got, Len(got))
        <3>1. AgreeAfter(got, content[info.ino], Len(got) - AnchorLen - 1)
            BY <2>1, <2>2 DEF VisitStamped
        <3>2. AgreeAfter(got, content[info.ino], Len(got) - AnchorLen)
            BY <1>2, <3>1, AgreeLess
        <3>3. Window(got, Len(got)) = Window(content[info.ino], Len(got))
            BY <1>2, <3>1, <3>2, WindowAgrees DEF AgreeAfter
        <3>4. handle = info.ino
            BY <1>5, <2>1, <2>2 DEF Reading
        <3> QED BY <2>1, <3>1, <3>3, <3>4
    <2> QED BY <1>1, <1>3, <2>1, <2>2 DEF VisitStamped, fs
<1> QED BY <1>6, <1>7, <1>8, <1>9

LEMMA StampPostStat ==
    ASSUME StampInv, PostStat
    PROVE  EntriesStamped' /\ VisitStamped'
<1> USE DEF StampInv, QuietInv, CountInv, IInv, RefreshStep
<1> DEFINE entry == [ino |-> dir[cur], size |-> StatOf(cur).size,
                     mtime |-> StatOf(cur).mtime, records |-> got, anchor |-> anchor]
<1>1. pc = "post" /\ pc' = "stat" /\ UNCHANGED fs /\ cur \in Paths
    BY DEF PostStat, SkipFile, TypeOK
<1>2. CASE cache' = cache
    BY <1>1, <1>2, StampNotVisiting DEF Visiting
<1>3. CASE cache' # cache
    <2>1. /\ cache' = [cache EXCEPT ![cur] = entry]
          /\ dir[cur] = info.ino /\ info.ino \in Inodes
        BY <1>1, <1>3 DEF PostStat, SkipFile, StillThere, TypeOK
    <2>2. /\ anchor = Window(got, Len(got))
          /\ AgreeAfter(got, content[dir[cur]], Len(got) - AnchorLen - 1)
        BY <1>1, <2>1 DEF VisitStamped
    <2>3. mtime[dir[cur]] <= writes
        BY <2>1
    <2>4. Stamped(entry)
        BY <2>2, <2>3 DEF Stamped, StatOf
    <2>5. \A p \in Paths : cache'[p] = IF p = cur THEN entry ELSE cache[p]
        BY <2>1 DEF TypeOK
    <2> QED BY <1>1, <2>4, <2>5, StampNotVisiting DEF Visiting
<1> QED BY <1>2, <1>3

LEMMA StampRefresh ==
    ASSUME StampInv,
           BeginRefresh \/ Advance \/ DiscoverFails \/ ScanFails \/ ExpireContext
               \/ UNCHANGED vars
    PROVE  /\ \A i \in Inodes : mtime'[i] <= writes'
           /\ EntriesStamped' /\ VisitStamped'
<1>1. UNCHANGED fs
    BY DEF BeginRefresh, Advance, DiscoverFails, ScanFails, ExpireContext, Discover, StatFile,
           MatchAnchor, OpenFile, ReadRecord, ReachEOF, ReadAnchor, PostStat, Prune, Return,
           RefreshStep, vars
<1>2. \A i \in Inodes : mtime'[i] <= writes'
    BY <1>1 DEF fs, StampInv
<1>3. CASE PostStat
    BY <1>2, <1>3, StampPostStat
<1>4. CASE ExpireContext \/ UNCHANGED vars
    BY <1>2, <1>4 DEF ExpireContext, vars, fs, visit, StampInv, EntriesStamped, VisitStamped,
                      Stamped
<1>5. CASE ~PostStat /\ ~ExpireContext /\ ~UNCHANGED vars
    <2>1. \A p \in Paths : cache'[p] # None => cache'[p] = cache[p]
        BY <1>5 DEF BeginRefresh, Advance, DiscoverFails, ScanFails, Discover, StatFile,
            MatchAnchor, OpenFile, ReadRecord, ReachEOF, ReadAnchor, Prune, Return,
            FilesFound, SkipFile
    <2>2. CASE pc' \notin Visiting
        BY <1>1, <1>2, <2>1, <2>2, StampNotVisiting
    <2>3. CASE pc' \in Visiting
        <3>1. ~BeginRefresh /\ ~Return /\ ~Discover /\ ~DiscoverFails /\ ~ScanFails /\ ~Prune
            BY <2>3 DEF BeginRefresh, Return, Discover, DiscoverFails, ScanFails, Prune,
                        FilesFound, AfterListing, Visiting
        <3>2. VisitStamped'
            BY <1>5, <2>3, <3>1, StampStatFile, StampMatchAnchor, StampReading DEF Advance
        <3>3. EntriesStamped'
            BY <1>1, <2>1 DEF StampInv, EntriesStamped, Stamped, fs
        <3> QED BY <1>2, <3>2, <3>3
    <2> QED BY <2>2, <2>3
<1> QED BY <1>3, <1>4, <1>5

LEMMA StampStep ==
    ASSUME StampInv, Rewrites # "anytime", [Next]_vars
    PROVE  StampInv'
<1>1. QuietInv'
    BY QuietStep DEF StampInv
<1>2. /\ \A i \in Inodes : mtime'[i] <= writes'
      /\ EntriesStamped' /\ VisitStamped'
    BY <1>1, StampWrite, StampRefresh DEF Next, QuietInv, CountInv
<1> QED BY <1>1, <1>2 DEF StampInv

LEMMA StampInit == Init => StampInv
    BY QuietInit DEF Init, StampInv, EntriesStamped, VisitStamped, Visiting

LEMMA LastFewAgree ==
    ASSUME NEW s \in Seq(Records), NEW t \in Seq(Records), Len(s) = Len(t),
           AgreeAfter(s, t, Len(s) - AnchorLen - 1)
    PROVE  LastFew(s) = LastFew(t)
<1> DEFINE a == IF Len(s) > AnchorLen THEN Len(s) - AnchorLen ELSE 1
<1>1. a \in 1..(Len(s) + 1) /\ \A n \in 1..Len(s) : n >= a => s[n] = t[n]
    BY AnchorAssumption DEF AgreeAfter
<1>2. LastFew(s) = SubSeq(s, a, Len(s)) /\ LastFew(t) = SubSeq(t, a, Len(s))
    BY DEF LastFew
<1> HIDE DEF a
<1>3. SubSeq(s, a, Len(s)) = SubSeq(t, a, Len(s))
    BY <1>1
<1> QED BY <1>2, <1>3

LEMMA StampImplies == StampInv => SettledTailIsExact
<1> SUFFICES ASSUME StampInv, CleanReturn, quiet, NEW p \in Paths
             PROVE  /\ dir[p] = None => cache[p] = None
                    /\ dir[p] # None =>
                           /\ cache[p] # None
                           /\ Len(cache[p].records) = Len(content[dir[p]])
                           /\ LastFew(cache[p].records) = LastFew(content[dir[p]])
    BY DEF SettledTailIsExact, IndexEndsLikeDisk
<1>1. dir[p] = None => cache[p] = None
    BY QuietReturn DEF StampInv
<1>2. ASSUME dir[p] # None
      PROVE  /\ cache[p] # None
             /\ Len(cache[p].records) = Len(content[dir[p]])
             /\ LastFew(cache[p].records) = LastFew(content[dir[p]])
    <2>1. /\ cache[p] \in Entry /\ cache[p] # None /\ content[dir[p]] \in Seq(Records)
          /\ Whole(p)
        BY <1>2, QuietReturn DEF StampInv
    <2>2. Stamped(cache[p]) /\ cache[p].records \in Seq(Records)
        BY <2>1 DEF StampInv, EntriesStamped, Entry
    <2> QED BY <2>1, <2>2, LastFewAgree DEF Stamped, Whole
<1> QED BY <1>1, <1>2

\* The same where logs are rewritten in place between refreshes: the number of
\* records of every log is right, and so are the anchor window at its end and
\* the record before it, though a rewrite that happens to keep the window is
\* taken for an append.
THEOREM SettledIndexEndsLikeDisk == Rewrites # "anytime" => (Spec => []SettledTailIsExact)
<1>1. SUFFICES ASSUME Rewrites # "anytime" PROVE Spec => []SettledTailIsExact
    OBVIOUS
<1>2. StampInv /\ [Next]_vars => StampInv'
    BY <1>1, StampStep
<1> QED BY StampInit, <1>2, StampImplies, PTL DEF Spec

=============================================================================
