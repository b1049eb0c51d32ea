----------------------------- MODULE UtilsFiles -----------------------------
(***************************************************************************)
(* The file utilities of src/src/libs/utils/utils_files.cpp on a small     *)
(* file tree: utils_files_mkpath(), utils_rmpath() with its two nftw()     *)
(* walks, utils_files_dump2file() and utils_files_file2buf().              *)
(*                                                                         *)
(* A path is a sequence of names from the root; the tree maps every path   *)
(* of at most MaxDepth names to its entry: nothing, a directory, a regular *)
(* file (its contents, a sequence of the strings written to it) or a       *)
(* symbolic link (the absolute path it points to).  Path lookup is the     *)
(* kernel's: links in the middle of a path are always followed, a final   *)
(* link only by stat() and open(), and more than MAXSYMLINKS of them give *)
(* ELOOP.  nftw() is glibc's (io/ftw.c): without FTW_PHYS it stat()s each *)
(* entry, descends into every directory it reaches, links included, visits *)
(* a directory once, reads a directory's entries in an order the file     *)
(* system chooses, and returns -1 at once when a stat() fails with another *)
(* error than ENOENT.  One caller makes the calls, one after another.     *)
(***************************************************************************)
EXTENDS Integers, Sequences, SequencesExt, FiniteSets, TLC

CONSTANTS
    Names,          \* the names a path component may have
    MaxDepth,       \* the depth of the modelled tree
    MAXSYMLINKS,    \* the links a lookup follows before ELOOP
    Targets,        \* where the links found at start point to
    Ops,            \* the functions the caller calls
    CallPaths,      \* the paths it passes them
    Strs,           \* the strings it passes utils_files_dump2file(), as
                    \* sequences of characters
    MaxCalls,       \* bound on the calls it makes
    Faults,         \* the failures that may happen
    NULL

FaultKinds == {"write", "calloc", "read"}

\* The characters a file may hold.
Chars == UNION {Range(s) : s \in Strs}

Paths == BoundedSeq(Names, MaxDepth)

ASSUME
    /\ MaxDepth \in Nat \ {0} /\ MAXSYMLINKS \in Nat /\ MaxCalls \in Nat
    /\ Targets \subseteq Paths
    /\ Ops \subseteq {"mkpath", "dump2file", "rmpath", "file2buf"}
    /\ CallPaths \subseteq Paths \ {<<>>}
    /\ Faults \subseteq FaultKinds

\* A tree entry; data and to matter only for a file and a link.
Entry(k, d, t) == [kind |-> k, data |-> d, to |-> t]
NoEntry == Entry("none", <<>>, <<>>)
DirEntry == Entry("dir", <<>>, <<>>)
FileEntry(d) == Entry("file", d, <<>>)
LinkEntry(t) == Entry("link", <<>>, t)

\* What a read() that fails leaves in utils_files_file2buf()'s buffer.
Garbage == <<"garbage">>

\* The trees the process may find at start: any mix of empty files,
\* directories and links, built one level at a time so that every entry's
\* parent is a directory.
Level(d) == {p \in Paths : Len(p) = d}
StartEntries == {NoEntry, DirEntry, FileEntry(<<>>)} \cup {LinkEntry(t) : t \in Targets}

RECURSIVE TreesTo(_)
TreesTo(d) ==
    IF d = 0 THEN {[p \in {<<>>} |-> DirEntry]}
    ELSE UNION {{t @@ c : c \in [{q \in Level(d) : t[Front(q)].kind = "dir"} -> StartEntries]} :
                    t \in TreesTo(d - 1)}

Trees == {t @@ [p \in Paths |-> NoEntry] : t \in TreesTo(MaxDepth)}

-----------------------------------------------------------------------------
(* Path lookup over a tree f                                               *)

\* Resolve the names rest from the directory cur: err is "ok" with at the
\* path of the final entry (which may not exist), or the errno of the
\* lookup.  A final name below the modelled depth cannot be created
\* ("nospc"); a missing directory is "noent", a file used as one "notdir".
RECURSIVE Walk(_, _, _, _, _)
Walk(f, cur, rest, follow, hops) ==
    IF rest = <<>> THEN [err |-> "ok", at |-> cur]
    ELSE LET q == Append(cur, Head(rest))
             last == Len(rest) = 1
         IN CASE Len(q) > MaxDepth ->
                    [err |-> IF last THEN "nospc" ELSE "noent", at |-> cur]
              [] f[q].kind = "link" /\ (follow \/ ~last) ->
                    IF hops = 0 THEN [err |-> "loop", at |-> q]
                    ELSE Walk(f, <<>>, f[q].to \o Tail(rest), follow, hops - 1)
              [] last -> [err |-> "ok", at |-> q]
              [] f[q].kind = "dir" -> Walk(f, q, Tail(rest), follow, hops)
              [] f[q].kind = "none" -> [err |-> "noent", at |-> q]
              [] OTHER -> [err |-> "notdir", at |-> q]

\* lstat() and stat() of a path.
LStat(f, p) == Walk(f, <<>>, p, FALSE, MAXSYMLINKS)
Stat(f, p) == Walk(f, <<>>, p, TRUE, MAXSYMLINKS)

\* The entry a path names without following a final link exists.
Exists(f, p) == LStat(f, p).err = "ok" /\ f[LStat(f, p).at].kind # "none"

\* What stat() reports: the type of the entry reached, "noent", or "error".
StatRes(f, p) ==
    LET w == Stat(f, p)
    IN CASE w.err = "ok" /\ f[w.at].kind # "none" -> f[w.at].kind
         [] w.err \in {"ok", "noent", "nospc"} -> "noent"
         [] OTHER -> "error"

\* The names in directory d.
Entries(f, d) ==
    {n \in Names : Len(d) < MaxDepth /\ f[Append(d, n)].kind # "none"}

\* unlink(p): removes the entry p names unless it is a directory.
Unlink(f, p) ==
    LET w == LStat(f, p)
    IN IF w.err = "ok" /\ f[w.at].kind \notin {"none", "dir"}
       THEN [f EXCEPT ![w.at] = NoEntry] ELSE f

-----------------------------------------------------------------------------
VARIABLES
    fs,             \* path -> entry: the file tree
    pc,             \* the caller: "idle", or inside a call
    op,             \* the call being made, or the last one made
    calls,          \* calls made so far
    snap,           \* the tree when the call began
    mi,             \* utils_files_mkpath(): the prefix it is creating
    mret,           \* utils_files_mkpath()'s return value
    pass,           \* utils_rmpath(): its first or second nftw() walk
    stack,          \* nftw(): the directories open, innermost last
    visited,        \* nftw(): the directories it has entered
    buf             \* utils_files_file2buf()'s return value

vars == <<fs, pc, op, calls, snap, mi, mret, pass, stack, visited, buf>>
walkVars == <<pass, stack, visited>>

Calls ==
    [name : Ops, path : CallPaths, str : Strs, trunc : BOOLEAN,
     create : BOOLEAN]

\* An open directory of an nftw() walk: its path after every link, whether
\* the walk reached it through a link (its own name then names the link),
\* and its entries not yet visited.
Frame(f, d, vialink) == [dir |-> d, vialink |-> vialink, todo |-> Entries(f, d)]

TypeOK ==
    /\ fs \in [Paths -> [kind : {"none", "dir", "file", "link"},
                         data : Seq(Chars), to : Paths]]
    /\ fs[<<>>] = DirEntry
    /\ pc \in {"idle", "mkpath", "open", "nftw"}
    /\ op \in Calls \cup {NULL}
    /\ calls \in 0..MaxCalls
    /\ mi \in 0..MaxDepth /\ mret \in {-1, 0, NULL}
    /\ pass \in {1, 2}
    /\ stack \in Seq([dir : Paths, vialink : BOOLEAN, todo : SUBSET Names])
    /\ visited \subseteq Paths
    /\ buf \in {NULL, Garbage} \cup Seq(Chars)

Init ==
    /\ fs \in Trees
    /\ pc = "idle"
    /\ op = NULL
    /\ calls = 0
    /\ snap = fs
    /\ mi = 0 /\ mret = NULL
    /\ pass = 1 /\ stack = <<>> /\ visited = {}
    /\ buf = NULL

\* The caller makes its next call.
Call(c) ==
    /\ pc = "idle" /\ calls < MaxCalls
    /\ op' = c
    /\ calls' = calls + 1
    /\ snap' = fs

-----------------------------------------------------------------------------
(* utils_files_mkpath()                                                    *)

\* The path mkpath works on: its argument, or for dump2file the file's
\* dirname().
MkpathArg == IF op.name = "mkpath" THEN op.path ELSE Front(op.path)

\* Where a call of mkpath goes on when it returns.
MkpathCont == IF op.name = "mkpath" THEN "idle" ELSE "open"

CallMkpath(c) ==
    /\ c.name = "mkpath"
    /\ Call(c)
    /\ pc' = "mkpath" /\ mi' = 1 /\ mret' = NULL
    /\ UNCHANGED <<fs, walkVars, buf>>

\* Mutant: the loop also runs past the last component.
MkpathStepPastEnd ==
    /\ pc = "mkpath"
    /\ LET w == LStat(fs, SubSeq(MkpathArg, 1, Min({mi, Len(MkpathArg)})))
           made == w.err = "ok" /\ fs[w.at].kind = "none"
           eexist == w.err = "ok" /\ fs[w.at].kind # "none"
       IN /\ fs' = IF made THEN [fs EXCEPT ![w.at] = DirEntry] ELSE fs
          /\ IF (made \/ eexist) /\ mi <= Len(MkpathArg)
             THEN mi' = mi + 1 /\ UNCHANGED <<pc, mret>>
             ELSE /\ mret' = IF made \/ eexist THEN 0 ELSE -1
                  /\ pc' = MkpathCont /\ UNCHANGED mi
    /\ UNCHANGED <<op, calls, snap, walkVars, buf>>

\* One pass of the do-while loop: mkdir() the prefix up to the next '/';
\* a failure other than EEXIST returns -1, the last prefix returns 0.
MkpathStep ==
    /\ pc = "mkpath"
    /\ LET w == LStat(fs, SubSeq(MkpathArg, 1, mi))
           made == w.err = "ok" /\ fs[w.at].kind = "none"
           eexist == w.err = "ok" /\ fs[w.at].kind # "none"
       IN /\ fs' = IF made THEN [fs EXCEPT ![w.at] = DirEntry] ELSE fs
          /\ IF (made \/ eexist) /\ mi < Len(MkpathArg)
             THEN mi' = mi + 1 /\ UNCHANGED <<pc, mret>>
             ELSE /\ mret' = IF made \/ eexist THEN 0 ELSE -1
                  /\ pc' = MkpathCont /\ UNCHANGED mi
    /\ UNCHANGED <<op, calls, snap, walkVars, buf>>

-----------------------------------------------------------------------------
(* utils_files_dump2file()                                                 *)

\* With doCreatePath, mkpath(dirname(filePath)) first, its result ignored;
\* the dirname of a name in the root is "/", which mkpath leaves alone.
CallDump2file(c) ==
    /\ c.name = "dump2file"
    /\ Call(c)
    /\ IF c.create /\ Len(c.path) > 1
       THEN pc' = "mkpath" /\ mi' = 1 /\ mret' = NULL
       ELSE pc' = "open" /\ UNCHANGED <<mi, mret>>
    /\ UNCHANGED <<fs, walkVars, buf>>

\* The byte counts write(fd, s, strlen(s)) may write.
Written(s) == IF "write" \in Faults THEN 0..Len(s) ELSE {Len(s)}

\* open(O_RDWR|O_CREAT|(O_TRUNC or O_APPEND)), which follows a final link
\* and creates a missing file (a link's target included); write(), which
\* on an error (ENOSPC, EFBIG, EIO) writes a prefix of the string, possibly
\* empty; close().  A failed open() or short write() is only logged.
Dump2fileWrite ==
    /\ pc = "open"
    /\ LET w == Stat(fs, op.path)
           k == IF w.err = "ok" THEN fs[w.at].kind ELSE "error"
           old == IF op.trunc \/ k = "none" THEN <<>> ELSE fs[w.at].data
       IN IF k \in {"none", "file"}
          THEN \E n \in Written(op.str) :
                 fs' = [fs EXCEPT ![w.at] = FileEntry(old \o SubSeq(op.str, 1, n))]
          ELSE UNCHANGED fs
    /\ pc' = "idle"
    /\ UNCHANGED <<op, calls, snap, mi, mret, walkVars, buf>>

-----------------------------------------------------------------------------
(* utils_files_file2buf()                                                  *)

\* An ifstream opened at its end: tellg() gives the size, calloc(size + 1),
\* seekg(0) and read(), whose failure is not checked.  On a directory the
\* open at the end fails or succeeds with the file system's idea of its
\* size, and the read fails.
File2buf(c) ==
    /\ c.name = "file2buf"
    /\ Call(c)
    /\ LET r == StatRes(fs, c.path)
           data == fs[Stat(fs, c.path).at].data
           allocated == IF "calloc" \in Faults THEN {NULL, "ok"} ELSE {"ok"}
       IN CASE r = "file" ->
                 \E a \in allocated :
                   buf' \in IF a = NULL THEN {NULL}
                            ELSE {data} \cup (IF "read" \in Faults THEN {Garbage} ELSE {})
            [] r = "dir" -> buf' \in {NULL, Garbage}
            [] OTHER -> buf' = NULL
    /\ UNCHANGED <<fs, pc, mi, mret, walkVars>>

-----------------------------------------------------------------------------
(* utils_rmpath(): nftw(path, unlink_files, 4, 0), then                    *)
(* nftw(path, rm_dirs, 4, FTW_DEPTH)                                       *)

\* unlink_files() and rm_dirs() test one bit of st_mode: a regular file
\* (S_IFREG, 0100000) and a link (S_IFLNK, 0120000) have S_IFREG's bit, a
\* directory (S_IFDIR, 0040000) has only its own.
Mode == [file |-> 8^5, link |-> 10 * 8^4, dir |-> 4 * 8^4]
S_IFREG == 8^5
S_IFDIR == 4 * 8^4
HasBit(m, b) == (m \div b) % 2 = 1

\* rmdir(d): removes an empty directory, named by its own path.
Rmdir(f, d) ==
    IF d # <<>> /\ f[d].kind = "dir" /\ Entries(f, d) = {}
    THEN [f EXCEPT ![d] = NoEntry] ELSE f

\* The callback of walk k on the entry p whose st_mode is m: unlink_files()
\* or rm_dirs().
Callback(k, f, p, m) ==
    CASE k = 1 /\ HasBit(m, S_IFREG) -> Unlink(f, p)
      [] k = 2 /\ HasBit(m, S_IFDIR) -> Rmdir(f, p)
      [] OTHER -> f

\* nftw() begins walk k at p: stat() it (an lstat() of a dangling
\* link gives FTW_SLN), open it if it is a directory, else run the callback
\* on it; another failure makes nftw() return -1.
StartWalk(k, p) ==
    LET r == StatRes(fs, p)
        w == Stat(fs, p)
        isLink == Exists(fs, p) /\ fs[LStat(fs, p).at].kind = "link"
    IN /\ pass' = k
       /\ CASE r = "dir" ->
                 /\ stack' = <<Frame(fs, w.at, isLink)>> /\ visited' = {w.at}
                 /\ fs' = fs
            [] r = "file" \/ (r = "noent" /\ isLink) ->
                 /\ stack' = <<>> /\ visited' = {}
                 /\ fs' = Callback(k, fs, p, IF r = "file" THEN Mode.file ELSE Mode.link)
            [] OTHER -> stack' = <<>> /\ visited' = {} /\ fs' = fs

CallRmpath(c) ==
    /\ c.name = "rmpath"
    /\ Call(c)
    /\ pc' = "nftw"
    /\ StartWalk(1, c.path)
    /\ UNCHANGED <<mi, mret, buf>>

\* The innermost open directory and one of its entries not yet visited.
Top == stack[Len(stack)]
Visit(n) == [Top EXCEPT !.todo = @ \ {n}]
EntryPath(n) == Append(Top.dir, n)

\* Mutant: unlink_files() tests S_ISREG(), which a dangling link fails.
VisitFileIsReg(n) ==
    /\ pc = "nftw" /\ stack # <<>> /\ n \in Top.todo
    /\ StatRes(fs, EntryPath(n)) \in {"file", "noent"}
    /\ stack' = [stack EXCEPT ![Len(stack)] = Visit(n)]
    /\ fs' = IF StatRes(fs, EntryPath(n)) = "file"
             THEN Callback(pass, fs, EntryPath(n), Mode.file) ELSE fs
    /\ UNCHANGED <<pc, op, calls, snap, mi, mret, pass, visited, buf>>

\* A file, a link to one, or a dangling link (FTW_F or FTW_SLN): the
\* callback with its st_mode.
VisitFile(n) ==
    /\ pc = "nftw" /\ stack # <<>> /\ n \in Top.todo
    /\ StatRes(fs, EntryPath(n)) \in {"file", "noent"}
    /\ stack' = [stack EXCEPT ![Len(stack)] = Visit(n)]
    /\ fs' = Callback(pass, fs, EntryPath(n),
                      IF StatRes(fs, EntryPath(n)) = "file" THEN Mode.file ELSE Mode.link)
    /\ UNCHANGED <<pc, op, calls, snap, mi, mret, pass, visited, buf>>

\* A directory, itself or through a link: entered unless already entered
\* (the callback of a first walk runs on it before its entries: no bit).
VisitDir(n) ==
    /\ pc = "nftw" /\ stack # <<>> /\ n \in Top.todo
    /\ StatRes(fs, EntryPath(n)) = "dir"
    /\ LET d == Stat(fs, EntryPath(n)).at
           rest == [stack EXCEPT ![Len(stack)] = Visit(n)]
       IN IF d \in visited
          THEN stack' = rest /\ UNCHANGED visited
          ELSE /\ stack' = Append(rest, Frame(fs, d, fs[EntryPath(n)].kind = "link"))
               /\ visited' = visited \cup {d}
    /\ UNCHANGED <<fs, pc, op, calls, snap, mi, mret, pass, buf>>

\* stat() fails with ELOOP or ENOTDIR: nftw() closes everything and
\* returns -1.
VisitError(n) ==
    /\ pc = "nftw" /\ stack # <<>> /\ n \in Top.todo
    /\ StatRes(fs, EntryPath(n)) = "error"
    /\ stack' = <<>>
    /\ UNCHANGED <<fs, pc, op, calls, snap, mi, mret, pass, visited, buf>>

\* A directory whose entries are all visited is closed; with FTW_DEPTH
\* rm_dirs() runs on it now.  Its rmdir() names the directory by the path
\* the walk took, which fails with ENOTDIR when that names a link.
LeaveDir ==
    /\ pc = "nftw" /\ stack # <<>> /\ Top.todo = {}
    /\ stack' = Front(stack)
    /\ fs' = IF Top.vialink THEN fs ELSE Callback(pass, fs, Top.dir, Mode.dir)
    /\ UNCHANGED <<pc, op, calls, snap, mi, mret, pass, visited, buf>>

\* A walk is over: the first is followed by the second, which returns.
EndWalk ==
    /\ pc = "nftw" /\ stack = <<>>
    /\ IF pass = 1
       THEN StartWalk(2, op.path) /\ UNCHANGED pc
       ELSE pc' = "idle" /\ UNCHANGED <<fs, walkVars>>
    /\ UNCHANGED <<op, calls, snap, mi, mret, buf>>

-----------------------------------------------------------------------------

\* The caller has made all its calls.
Done ==
    /\ pc = "idle" /\ calls = MaxCalls
    /\ UNCHANGED vars

Next ==
    \/ \E c \in Calls :
          CallMkpath(c) \/ CallDump2file(c) \/ CallRmpath(c) \/ File2buf(c)
    \/ MkpathStep
    \/ Dump2fileWrite
    \/ \E n \in Names : VisitFile(n) \/ VisitDir(n) \/ VisitError(n)
    \/ LeaveDir
    \/ EndWalk
    \/ Done

Spec == Init /\ [][Next]_vars

-----------------------------------------------------------------------------
(* Properties                                                              *)

\* The directories a walk from the directories S reaches, links followed.
RECURSIVE ReachDirs(_, _)
ReachDirs(f, S) ==
    LET N == S \cup UNION {{Stat(f, Append(d, n)).at :
                                n \in {m \in Entries(f, d) : StatRes(f, Append(d, m)) = "dir"}} :
                               d \in S}
    IN IF N = S THEN S ELSE ReachDirs(f, N)

\* A link that rmpath() can remove neither by unlink() nor by rmdir(): one
\* to a directory, or one whose stat() fails (a loop).
Stuck(f, e) == f[e].kind = "link" /\ StatRes(f, e) \in {"dir", "error"}

\* The trees in which rmpath(p) leaves p in place: p itself is such a link,
\* or one lies in a directory its walks reach.
RmpathKeeps(f, p) ==
    /\ Exists(f, p)
    /\ \/ Stuck(f, LStat(f, p).at)
       \/ /\ StatRes(f, p) = "dir"
          /\ \E d \in ReachDirs(f, {Stat(f, p).at}), n \in Names :
                n \in Entries(f, d) /\ Stuck(f, Append(d, n))

\* When utils_rmpath(p) returns, p is gone, unless the tree held a link
\* its two walks cannot remove: the first walk unlinks every file and link
\* (the S_IFREG bit test catches dangling links too), and the second,
\* depth-first, removes each directory after its entries.
RmpathRemoves ==
    pc = "idle" /\ op # NULL /\ op.name = "rmpath" /\ ~RmpathKeeps(snap, op.path)
        => ~Exists(fs, op.path)

\* An entry rmpath(p) may remove: p itself, or one under the directory p
\* names.
Within(f, p, q) == q = LStat(f, p).at \/ IsPrefix(Stat(f, p).at, q)

\* utils_rmpath(p) removes nothing but p and what lies under it ("Remove
\* and restore Nginx's cache and log files", test_rate_limiting.cpp:465).
RmpathConfined ==
    [][\A q \in Paths :
          fs[q].kind # "none" /\ fs'[q].kind = "none" => Within(snap', op'.path, q)]_vars

=============================================================================
