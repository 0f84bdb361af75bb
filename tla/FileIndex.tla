------------------------------ MODULE FileIndex ------------------------------
(***************************************************************************)
(* The incremental index of usage logs: Indexer.Refresh, refreshClaude and *)
(* refreshCodex (internal/parser/index.go) with the file access they do    *)
(* (jsonlFiles in scanner.go, scanJSONLTail and cursorMatchesFile in       *)
(* tail.go), running against a file system that other processes change     *)
(* between any two system calls.                                           *)
(*                                                                         *)
(* Data abstraction.  A log is a sequence of records, and a byte offset is *)
(* a number of records, so a cursor's offset is the length of the records  *)
(* it has delivered; torn, blank and oversized lines are TailScan's        *)
(* subject.  Paths are numbers in the order the refresh visits them.  The  *)
(* two passes run the same text over their own cache; cache[p] is the      *)
(* entry of whichever map p belongs to.                                    *)
(***************************************************************************)
EXTENDS Integers, Sequences, FiniteSets

CONSTANTS
    Paths,          \* path names, numbered in visiting order
    RootOf,         \* the root directory each path lies under
    ArchivedAs,     \* session path -> the path of the same name in the archive
    Inodes,         \* file identities (os.SameFile); one is never used twice
    Records,        \* what one log line can contribute
    AnchorLen,      \* streamAnchorBytes, in records
    Rewrites,       \* when a log may be rewritten in place: never, idle, anytime
    MaxLen,         \* bound: records in one log
    MaxWrites,      \* bound: changes made to the file system
    MaxFaults,      \* bound: I/O errors and expired contexts
    None

ClaudeRoot == "claude"
SessionsRoot == "sessions"
ArchiveRoot == "archived_sessions"
Roots == <<ClaudeRoot, SessionsRoot, ArchiveRoot>>

ASSUME PathsAssumption == Paths \subseteq Nat
ASSUME RootAssumption == RootOf \in [Paths -> {ClaudeRoot, SessionsRoot, ArchiveRoot}]
ASSUME ArchiveAssumption ==
    \A p \in DOMAIN ArchivedAs :
        /\ p \in Paths
        /\ RootOf[p] = SessionsRoot
        /\ ArchivedAs[p] \in Paths
        /\ RootOf[ArchivedAs[p]] = ArchiveRoot
        /\ \A q \in DOMAIN ArchivedAs : ArchivedAs[p] = ArchivedAs[q] => p = q
ASSUME NoneAssumption == None \notin Inodes
ASSUME AnchorAssumption == AnchorLen \in Nat \ {0}
ASSUME RewritesAssumption == Rewrites \in {"never", "idle", "anytime"}
ASSUME BoundsAssumption == /\ MaxLen \in Nat
                           /\ MaxWrites \in Nat
                           /\ MaxFaults \in Nat

VARIABLES
    dir,        \* path -> the inode it names, or None
    archived,   \* session paths whose file has been archived
    content,    \* inode -> the records in the file
    mtime,      \* inode -> time of its last write; 0 until it is created
    writes,     \* changes made so far: the clock mtime is read from
    cache,      \* Indexer.claude and Indexer.codex: path -> entry, or None
    pc,         \* where the refresh is
    root,       \* index into Roots of the directory being worked on
    todo,       \* files of the pass still to be visited
    seen,       \* every file of the pass that discovery found
    cur,        \* path: the file being visited
    info,       \* os.Stat before the read
    handle,     \* inode os.Open returned
    got,        \* records parsed, those taken over from the cache included
    anchor,     \* the window at the end of what was read
    errs,       \* refreshErrors is not empty
    ctxDone,    \* ctx.Err() # nil
    faults,     \* faults injected so far
    start,      \* history: logs linked when the refresh began, with their length
    quiet       \* history: nothing was written since the refresh began

fs == <<dir, archived, content, mtime, writes>>
visit == <<cur, info, handle, got, anchor>>
pass == <<root, todo, seen>>
vars == <<fs, cache, pc, pass, visit, errs, ctxDone, faults, start, quiet>>

PCs == {"idle", "list", "stat", "match", "open", "scan", "anchor", "post", "done"}

Born == {i \in Inodes : mtime[i] > 0}
Linked == {i \in Inodes : \E p \in Paths : dir[p] = i}

\* Faulty: no window is kept, growth is always taken for an append.
WindowEmpty(s, n) == <<>>

\* readStreamAnchor: the last AnchorLen records before position n.
Window(s, n) == SubSeq(s, IF n > AnchorLen THEN n - AnchorLen + 1 ELSE 1, n)

\* os.Stat, with fileStamp: identity, size and modification time of a path.
StatOf(p) == [ino |-> dir[p], size |-> Len(content[dir[p]]), mtime |-> mtime[dir[p]]]

Entry == [ino : Inodes, size : Nat, mtime : Nat,
          records : Seq(Records), anchor : Seq(Records)]

ASSUME EntryAssumption == None \notin Entry

Info == [ino : Inodes \cup {None}, size : Nat, mtime : Nat]

NoStart == [i \in {} |-> 0]

NoInfo == [ino |-> None, size |-> 0, mtime |-> 0]

Init ==
    /\ dir = [p \in Paths |-> None]
    /\ archived = {}
    /\ content = [i \in Inodes |-> <<>>]
    /\ mtime = [i \in Inodes |-> 0]
    /\ writes = 0
    /\ cache = [p \in Paths |-> None]
    /\ pc = "idle"
    /\ root = 1
    /\ todo = {}
    /\ seen = {}
    /\ cur = None
    /\ info = NoInfo
    /\ handle = None
    /\ got = <<>>
    /\ anchor = <<>>
    /\ errs = FALSE
    /\ ctxDone = FALSE
    /\ faults = 0
    /\ start = NoStart
    /\ quiet = TRUE

-----------------------------------------------------------------------------
(* The programs that write the logs.  Every change gets a later mtime.     *)

Change ==
    /\ writes < MaxWrites
    /\ writes' = writes + 1
    /\ quiet' = (pc = "idle")
    /\ UNCHANGED <<cache, pc, pass, visit, errs, ctxDone, faults, start>>

\* A writer adds one record to a log.
AppendRecord(i, r) ==
    /\ Change
    /\ i \in Linked
    /\ Len(content[i]) < MaxLen
    /\ content' = [content EXCEPT ![i] = Append(@, r)]
    /\ mtime' = [mtime EXCEPT ![i] = writes + 1]
    /\ UNCHANGED <<dir, archived>>

\* A new file appears under p: created, or renamed over what was there.  A
\* session's name carries its id and its time of birth and is not used again
\* after it was archived; only archiving puts a file in the archive.
Place(p, i, c) ==
    /\ Change
    /\ RootOf[p] # ArchiveRoot
    /\ p \notin archived
    /\ i \notin Born
    /\ dir' = [dir EXCEPT ![p] = i]
    /\ content' = [content EXCEPT ![i] = c]
    /\ mtime' = [mtime EXCEPT ![i] = writes + 1]
    /\ UNCHANGED archived

Remove(p) ==
    /\ Change
    /\ dir[p] # None
    /\ dir' = [dir EXCEPT ![p] = None]
    /\ UNCHANGED <<archived, content, mtime>>

\* Codex archives a session: the file keeps its identity and its mtime.
Archive(p) ==
    /\ Change
    /\ dir[p] # None
    /\ dir' = [dir EXCEPT ![p] = None, ![ArchivedAs[p]] = dir[p]]
    /\ archived' = archived \cup {p}
    /\ UNCHANGED <<content, mtime>>

\* A log is truncated or rewritten in place, under the same inode.
Rewrite(i, c) ==
    /\ Change
    /\ Rewrites = "anytime" \/ (Rewrites = "idle" /\ pc = "idle")
    /\ i \in Linked
    /\ content' = [content EXCEPT ![i] = c]
    /\ mtime' = [mtime EXCEPT ![i] = writes + 1]
    /\ UNCHANGED <<dir, archived>>

Logs == UNION {[1..n -> Records] : n \in 0..MaxLen}

Write ==
    \/ \E i \in Inodes, r \in Records : AppendRecord(i, r)
    \/ \E p \in Paths, i \in Inodes, c \in Logs : Place(p, i, c)
    \/ \E p \in Paths : Remove(p)
    \/ \E p \in DOMAIN ArchivedAs : Archive(p)
    \/ \E i \in Inodes, c \in Logs : Rewrite(i, c)

-----------------------------------------------------------------------------
(* Indexer.Refresh.  One action per system call, in the order of the code. *)

RefreshStep(at) ==
    /\ pc = at
    /\ UNCHANGED <<fs, ctxDone, start, quiet>>

\* An I/O error nobody caused: permissions, a bad sector, a removed directory.
Fault ==
    /\ faults < MaxFaults
    /\ faults' = faults + 1

\* The caller's context is cancelled or its deadline passes.
ExpireContext ==
    /\ pc # "idle"
    /\ ~ctxDone
    /\ Fault
    /\ ctxDone' = TRUE
    /\ UNCHANGED <<fs, cache, pc, pass, visit, errs, start, quiet>>

BeginRefresh ==
    /\ pc = "idle"
    /\ pc' = "list"
    /\ root' = 1
    /\ start' = [i \in Linked |-> Len(content[i])]
    /\ UNCHANGED <<fs, cache, todo, seen, visit, errs, ctxDone, faults, quiet>>

Listed == {p \in Paths : RootOf[p] = Roots[root] /\ dir[p] # None}

\* Claude's files are listed and visited before Codex's two roots are listed.
AfterListing == IF Roots[root] = SessionsRoot THEN "list" ELSE "stat"

FilesFound(files) ==
    /\ seen' = seen \cup files
    /\ todo' = todo \cup files
    /\ pc' = AfterListing
    /\ root' = IF Roots[root] = SessionsRoot THEN root + 1 ELSE root
    /\ UNCHANGED <<cache, visit>>

\* jsonlFiles(root), and appending what it found to the files of the pass.
Discover ==
    /\ RefreshStep("list")
    /\ FilesFound(Listed)
    /\ UNCHANGED <<errs, faults>>

\* The walk stops early.  What it had found of Claude's root is still used;
\* a Codex root contributes nothing.
DiscoverFails ==
    /\ RefreshStep("list")
    /\ Fault
    /\ errs' = TRUE
    /\ \E part \in SUBSET Listed :
        /\ \A p \in part, q \in Listed : q < p => q \in part
        /\ Roots[root] # ClaudeRoot => part = {}
        /\ FilesFound(part)

IsNext(p) == p \in todo /\ \A q \in todo : p <= q

ClearVisit ==
    /\ cur' = None
    /\ info' = NoInfo
    /\ handle' = None
    /\ got' = <<>>
    /\ anchor' = <<>>

\* Faulty: the file is skipped without an error.
SkipFileSilently ==
    /\ pc' = "stat"
    /\ ClearVisit
    /\ UNCHANGED <<cache, pass, errs, faults>>

\* The error paths of the loop body: note the error, keep the old entry, go on.
SkipFile ==
    /\ errs' = TRUE
    /\ pc' = "stat"
    /\ ClearVisit
    /\ UNCHANGED <<cache, pass, faults>>

\* Faulty: the offset reached is not compared with the size.
UpToDateByStamp(entry, stat) ==
    /\ entry # None
    /\ entry.ino = stat.ino
    /\ entry.size = stat.size
    /\ entry.mtime = stat.mtime

UpToDate(entry, stat) ==
    /\ entry # None
    /\ entry.ino = stat.ino
    /\ entry.size = stat.size
    /\ entry.mtime = stat.mtime
    /\ Len(entry.records) = stat.size

Grown(entry, stat) ==
    /\ entry # None
    /\ entry.ino = stat.ino
    /\ stat.size > Len(entry.records)

\* Take the next file: os.Stat, then skip it, check its anchor, or rebuild it.
StatFile(p) ==
    /\ RefreshStep("stat")
    /\ IsNext(p)
    /\ todo' = todo \ {p}
    /\ UNCHANGED <<cache, root, seen, handle, got, anchor, faults>>
    /\ \/ /\ dir[p] = None
          /\ errs' = TRUE
          /\ UNCHANGED <<pc, cur, info>>
       \/ /\ dir[p] # None
          /\ UpToDate(cache[p], StatOf(p))
          /\ UNCHANGED <<errs, pc, cur, info>>
       \/ /\ dir[p] # None
          /\ ~UpToDate(cache[p], StatOf(p))
          /\ cur' = p
          /\ info' = StatOf(p)
          /\ pc' = IF Grown(cache[p], StatOf(p)) THEN "match" ELSE "open"
          /\ UNCHANGED errs

\* readStreamAnchor of position n; a file that has become shorter is an error.
AnchorReadable(i, n) == i # None /\ Len(content[i]) >= n

\* cursorMatchesFile: does the file still end, at the old offset, in what was
\* read there?  Then the cached records are taken over, else all is reread.
MatchAnchor ==
    LET old == cache[cur]
        Here(i) == Window(content[i], Len(old.records))
    IN  /\ RefreshStep("match")
        /\ \/ /\ old.records = <<>>
              /\ pc' = "open"
              /\ UNCHANGED <<cache, pass, visit, errs, faults>>
           \/ /\ old.records # <<>>
              /\ AnchorReadable(dir[cur], Len(old.records))
              /\ got' = IF Here(dir[cur]) = old.anchor THEN old.records ELSE <<>>
              /\ pc' = "open"
              /\ UNCHANGED <<cache, pass, cur, info, handle, anchor, errs, faults>>
           \/ /\ old.records # <<>>
              /\ ~AnchorReadable(dir[cur], Len(old.records))
              /\ SkipFile

\* scanJSONLTail: os.Open, by name, and Seek to the cursor.
OpenFile ==
    /\ RefreshStep("open")
    /\ \/ /\ dir[cur] # None
          /\ handle' = dir[cur]
          /\ pc' = "scan"
          /\ UNCHANGED <<cache, pass, cur, info, got, anchor, errs, faults>>
       \/ /\ dir[cur] = None
          /\ SkipFile

ReadRecord ==
    /\ RefreshStep("scan")
    /\ ~ctxDone
    /\ Len(got) < Len(content[handle])
    /\ got' = Append(got, content[handle][Len(got) + 1])
    /\ UNCHANGED <<cache, pc, pass, cur, info, handle, anchor, errs, faults>>

ReachEOF ==
    /\ RefreshStep("scan")
    /\ ~ctxDone
    /\ Len(got) >= Len(content[handle])
    /\ pc' = "anchor"
    /\ UNCHANGED <<cache, pass, visit, errs, faults>>

\* The read fails, or the loop's ctx check does: the whole result is dropped.
ScanFails ==
    /\ RefreshStep("scan")
    /\ errs' = TRUE
    /\ pc' = "stat"
    /\ ClearVisit
    /\ ctxDone \/ faults < MaxFaults
    /\ faults' = IF ctxDone THEN faults ELSE faults + 1
    /\ UNCHANGED <<cache, pass>>

ReadAnchor ==
    /\ RefreshStep("anchor")
    /\ \/ /\ AnchorReadable(handle, Len(got))
          /\ anchor' = Window(content[handle], Len(got))
          /\ pc' = "post"
          /\ UNCHANGED <<cache, pass, cur, info, handle, got, errs, faults>>
       \/ /\ ~AnchorReadable(handle, Len(got))
          /\ SkipFile

\* Faulty: os.SameFile is not asked.
StillThereAnyFile ==
    /\ dir[cur] # None
    /\ Len(content[dir[cur]]) >= Len(got)

\* The same file, not shorter than what was read of it.
StillThere ==
    /\ dir[cur] # None
    /\ dir[cur] = info.ino
    /\ Len(content[dir[cur]]) >= Len(got)

\* os.Stat again; the entry is stored with the second stamp.
PostStat ==
    /\ RefreshStep("post")
    /\ \/ /\ StillThere
          /\ cache' = [cache EXCEPT ![cur] =
                 [ino |-> dir[cur], size |-> StatOf(cur).size, mtime |-> StatOf(cur).mtime,
                  records |-> got, anchor |-> anchor]]
          /\ pc' = "stat"
          /\ ClearVisit
          /\ UNCHANGED <<pass, errs, faults>>
       \/ /\ ~StillThere
          /\ SkipFile

\* Faulty: only the Claude pass removes entries.
InClaudePass(p) == RootOf[p] = ClaudeRoot /\ Roots[root] = ClaudeRoot

InPass(p) == (RootOf[p] = ClaudeRoot) <=> (Roots[root] = ClaudeRoot)

\* End of a pass: entries of files discovery did not find leave the index.
Prune ==
    /\ RefreshStep("stat")
    /\ todo = {}
    /\ cache' = [p \in Paths |-> IF InPass(p) /\ p \notin seen THEN None ELSE cache[p]]
    /\ seen' = {}
    /\ IF Roots[root] = ClaudeRoot
         THEN pc' = "list" /\ root' = root + 1
         ELSE pc' = "done" /\ UNCHANGED root
    /\ UNCHANGED <<todo, visit, errs, faults>>

\* Refresh returns: with ctx.Err() the caller gets Stats{}, else the aggregate
\* of the entries and the joined errors.
Return ==
    /\ pc = "done"
    /\ pc' = "idle"
    /\ root' = 1
    /\ errs' = FALSE
    /\ ctxDone' = FALSE
    /\ start' = NoStart
    /\ quiet' = TRUE
    /\ UNCHANGED <<fs, cache, todo, seen, visit, faults>>

Advance ==
    \/ Discover
    \/ \E p \in Paths : StatFile(p)
    \/ MatchAnchor
    \/ OpenFile
    \/ ReadRecord
    \/ ReachEOF
    \/ ReadAnchor
    \/ PostStat
    \/ Prune
    \/ Return

Refresh == BeginRefresh \/ Advance \/ (ctxDone /\ ScanFails)

Next == Write \/ BeginRefresh \/ Advance \/ DiscoverFails \/ ScanFails \/ ExpireContext

Spec == Init /\ [][Next]_vars

\* The program is scheduled and refreshes again and again (Monitor's ticker);
\* nothing is assumed of the writers, of faults or of expiring contexts.
FairSpec == Spec /\ WF_vars(Refresh)

-----------------------------------------------------------------------------
(* Properties *)

TypeOK ==
    /\ dir \in [Paths -> Inodes \cup {None}]
    /\ archived \subseteq DOMAIN ArchivedAs
    /\ content \in [Inodes -> Seq(Records)]
    /\ mtime \in [Inodes -> Nat]
    /\ writes \in Nat
    /\ cache \in [Paths -> Entry \cup {None}]
    /\ pc \in PCs
    /\ root \in 1..Len(Roots)
    /\ todo \subseteq seen
    /\ seen \subseteq Paths
    /\ cur \in Paths \cup {None}
    /\ info \in Info
    /\ handle \in Inodes \cup {None}
    /\ pc \in {"match", "open", "scan", "anchor", "post"} =>
           cur \in Paths /\ info.ino \in Inodes
    /\ pc \in {"scan", "anchor", "post"} => handle \in Inodes
    /\ pc = "match" => cache[cur] # None
    /\ got \in Seq(Records)
    /\ anchor \in Seq(Records)
    /\ errs \in BOOLEAN
    /\ ctxDone \in BOOLEAN
    /\ faults \in Nat
    /\ DOMAIN start \subseteq Inodes
    /\ \A i \in DOMAIN start : start[i] \in Nat
    /\ quiet \in BOOLEAN

PrefixOf(s, t) == Len(s) <= Len(t) /\ \A n \in 1..Len(s) : s[n] = t[n]

\* Logs that are only ever appended to, replaced, archived or deleted: what the
\* index holds for a path is always, at every step and after every error, a
\* prefix of the file it was read from; no record is skipped, doubled or taken
\* from another file, whatever replaces the path between Stat, Open and Stat.
Faithful ==
    \A p \in Paths : cache[p] # None => PrefixOf(cache[p].records, content[cache[p].ino])

\* The refresh returned totals and a nil error.
CleanReturn == pc = "done" /\ ~errs /\ ~ctxDone

Counting(i) == {p \in Paths : cache[p] # None /\ cache[p].ino = i}

\* A refresh that reports no error counts every log that stayed on disk while
\* it ran exactly once, an archived one too, with at least everything the log
\* held when the refresh began; and it counts no file twice.
CleanReturnCountsOnce ==
    CleanReturn =>
        /\ \A i \in Inodes : Cardinality(Counting(i)) <= 1
        /\ \A i \in DOMAIN start \cap Linked :
            \E p \in Counting(i) : Len(cache[p].records) >= start[i]

IndexIsDisk ==
    \A p \in Paths :
        IF dir[p] = None
          THEN cache[p] = None
          ELSE cache[p] # None /\ cache[p].records = content[dir[p]]

\* "Truncated, replaced, and deleted files rebuild or leave the index cleanly."
\* (README.md:16): a refresh without error, during which nothing was written,
\* leaves an index equal to the disk, whatever earlier refreshes ran into.
SettledIsExact == CleanReturn /\ quiet => IndexIsDisk

LastFew(s) == SubSeq(s, IF Len(s) > AnchorLen THEN Len(s) - AnchorLen ELSE 1, Len(s))

\* The same where logs are rewritten and the anchor window, shorter than a log,
\* may be kept by chance: the number of records is right, and so are the window
\* and what follows it, one record at least.
IndexEndsLikeDisk ==
    \A p \in Paths :
        IF dir[p] = None
          THEN cache[p] = None
          ELSE LET log == content[dir[p]]
               IN  /\ cache[p] # None
                   /\ Len(cache[p].records) = Len(log)
                   /\ LastFew(cache[p].records) = LastFew(log)

SettledTailIsExact == CleanReturn /\ quiet => IndexEndsLikeDisk

\* Once the writers stop and errors cease, the index becomes equal to the disk,
\* as far as the window shows, and stays so: no log is passed over for ever on a
\* stale stamp, and no rewrite, archiving or deletion is missed.
Converges == <>[]IndexEndsLikeDisk

=============================================================================
