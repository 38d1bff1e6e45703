-------------------------------- MODULE Vfs ---------------------------------
(***************************************************************************)
(* The tree of files: fs/vfs/vfs.c, with tmpfs.c and devtmpfs.c below it,  *)
(* the entries of a directory in a hashmap (lib/hashmap.k.h) and the mounts*)
(* and files of the boot (kernel.c, initramfs.c).                          *)
(*                                                                         *)
(* The system calls resolve their path first, without vfs_lock, and name   *)
(* what they found to the functions that take it: a parent directory and   *)
(* the last element of the path.  linkat inserts without the lock, so      *)
(* vfs_create is two steps, its test and its insertion, with the lock held *)
(* between them; what the other functions do with the lock is one step, an *)
(* insertion at the end of the bucket changing nothing of what they found. *)
(* A walk without the lock is one step; that it, or linkat's insertion, may*)
(* meet a hashmap in the middle of another insertion is left out.          *)
(***************************************************************************)
EXTENDS Integers, Sequences, FiniteSets, SequencesExt

CONSTANTS
  Threads,     \* each in a process of its own, with a working directory
  Calls,       \* bound: the calls made: [op, at, path, to, flag]
  MaxNodes,    \* bound: nodes ever created
  MaxCalls,    \* bound: calls in a behaviour
  None

VARIABLES
  nodes,       \* struct vfs_node, in the order of creation
  cwd,         \* proc->cwd
  fd,          \* the node of the descriptor each process opened last
  pc, job,
  locked,      \* who holds vfs_lock between two steps
  calls,
  dotted,      \* history: an entry "." or ".." was unlinked
  linked,      \* history: <<directory, name>> of linkat where the name existed, or a
               \* vfs_create that found it absent was about to insert it
  stale        \* history: threads that used a directory after its entries were freed

vars == <<nodes, cwd, fd, pc, job, locked, calls, dotted, linked, stale>>

----------------------------------------------------------------------------
(* Hashmaps.  The names of the model share a bucket. *)

\* HASHMAP_SGET: the first entry of the name.
Find(entries, name) == SelectInSeq(entries, LAMBDA e : e.name = name)

\* Mutant of Removed: the last entry of the name goes.
RemovedLast(entries, name) ==
  LET i == SelectLastInSeq(entries, LAMBDA e : e.name = name)
  IN SubSeq([entries EXCEPT ![i] = Last(entries)], 1, Len(entries) - 1)

\* HASHMAP_SREMOVE: the last entry of the bucket takes the place of the first entry of
\* the name.
Removed(entries, name) ==
  SubSeq([entries EXCEPT ![Find(entries, name)] = Last(entries)], 1, Len(entries) - 1)

Entry(name, n) == [name |-> name, to |-> n]

----------------------------------------------------------------------------
(* Nodes.  An entry "." or ".." stands for its node, which only redirects. *)

Root == 1     \* vfs_root

NewNode(tree, parent, name, kind, fs, link) ==
  Append(tree, [parent |-> parent, name |-> name, kind |-> kind, fs |-> fs, link |-> link,
                mount |-> None, entries |-> <<>>, freed |-> FALSE])

\* vfs_create_dotentries
DotEntries(tree, n, parent) ==
  [tree EXCEPT ![n].entries = @ \o <<Entry(".", n), Entry("..", parent)>>]

\* tmpfs_create and tmpfs_symlink (and those of devtmpfs): the node, not yet in its
\* directory.
FsCreate(tree, parent, name, kind, link) ==
  NewNode(tree, parent, name, kind, tree[parent].fs, link)

\* What vfs_create and vfs_symlink do with the node.
Created(tree, parent, name, kind, link) ==
  LET n == Len(tree) + 1
      grown == FsCreate(tree, parent, name, kind, link)
      placed == [grown EXCEPT ![parent].entries = Append(@, Entry(name, n))]
  IN IF kind = "dir" THEN DotEntries(placed, n, parent) ELSE placed

\* tmpfs makes a directory named as the one it covers; the root of devtmpfs was made
\* with neither a parent nor a name.
FsMount(tree, parent, name, fs) ==
  IF fs = "devtmpfs" THEN NewNode(tree, None, "", "dir", fs, None)
  ELSE NewNode(tree, parent, name, "dir", fs, None)

\* vfs_mount
Mounted(tree, target, parent, name, fs) ==
  LET n == Len(tree) + 1
  IN DotEntries([FsMount(tree, parent, name, fs) EXCEPT ![target].mount = n], n, parent)

\* kernel.c, and two files of an initramfs: vfs_init, the root, /dev, a directory b
\* and a link a to it.  (There is no disk to mount on /mnt.)
Boot ==
  LET root == NewNode(<<>>, None, "", "none", "none", None)
      top == Mounted(root, Root, Root, "/", "tmpfs")
      dev == Mounted(Created(top, 2, "dev", "dir", None), 3, 2, "dev", "devtmpfs")
  IN Created(Created(dev, 2, "b", "dir", None), 2, "a", "link", [abs |-> FALSE, elems |-> <<"b">>])

Init ==
  /\ nodes = Boot
  /\ cwd = [t \in Threads |-> 2]
  /\ fd = [t \in Threads |-> None]
  /\ pc = [t \in Threads |-> "idle"]
  /\ job = [t \in Threads |-> None]
  /\ locked = None
  /\ calls = 0
  /\ dotted = FALSE
  /\ linked = {}
  /\ stale = {}

----------------------------------------------------------------------------
(* Paths. *)

\* reduce_node without links: the mounts on a node.
RECURSIVE Reduce(_)
Reduce(n) == IF nodes[n].mount = None THEN n ELSE Reduce(nodes[n].mount)

Nothing(err) == [parent |-> None, target |-> None, base |-> None, err |-> err]

\* path2node from a directory: the target, or its place when only the last element is
\* missing.  Links are followed in the middle of a path.
RECURSIVE Walk(_, _)
Walk(from, elems) ==
  LET dir == Reduce(from)
      name == Head(elems)
      i == Find(nodes[dir].entries, name)
      n == Reduce(nodes[dir].entries[i].to)
      last == Len(elems) = 1
      link == nodes[n].link
      followed == IF nodes[n].kind = "link"
                  THEN Walk(IF link.abs THEN Root ELSE nodes[n].parent, link.elems)
                  ELSE [target |-> n, err |-> "none"]
  IN CASE nodes[dir].freed -> Nothing("stale")
       [] ~nodes[dir].freed /\ i = 0 ->
            IF last THEN [parent |-> dir, target |-> None, base |-> name, err |-> "enoent"]
            ELSE Nothing("enoent")
       [] ~nodes[dir].freed /\ i # 0 /\ last ->
            [parent |-> dir, target |-> n, base |-> name, err |-> "none"]
       [] OTHER ->
            IF followed.target = None THEN Nothing(followed.err)
            ELSE IF nodes[followed.target].kind # "dir" THEN Nothing("enotdir")
            ELSE Walk(followed.target, Tail(elems))

\* The empty string.
Empty(path) == ~path.abs /\ path.elems = <<>>

\* An empty path names nothing; a walk from nowhere goes through a null pointer.
Path2Node(from, path) ==
  CASE Empty(path) -> Nothing("enoent")
    [] ~Empty(path) /\ from = None -> Nothing("null")
    [] path.abs /\ path.elems = <<>> /\ from # None ->
         [parent |-> Reduce(Root), target |-> Reduce(Root), base |-> "/", err |-> "none"]
    [] OTHER -> Walk(IF path.abs THEN Root ELSE from, path.elems)

\* The path that names a last element to the functions with the lock.
Element(base) == IF base = "/" THEN [abs |-> TRUE, elems |-> <<>>]
                 ELSE [abs |-> FALSE, elems |-> <<base>>]

\* vfs_get_node; with links, reduce_node resolves them until there is none.
RECURSIVE Followed(_)
Followed(n) ==
  IF nodes[n].kind # "link" THEN [node |-> n, err |-> "none"]
  ELSE LET r == Path2Node(nodes[n].parent, nodes[n].link)
       IN IF r.target = None THEN [node |-> None, err |-> r.err] ELSE Followed(r.target)
GetNode(from, path, follow) ==
  LET r == Path2Node(from, path)
  IN IF r.target = None \/ ~follow THEN [node |-> r.target, err |-> r.err]
     ELSE Followed(r.target)

\* The string that vfs_pathname writes for the names on the way: a slash before each of
\* them, and nothing at all where there is none.
Spelled(names) == [abs |-> names # <<>>, elems |-> names]

\* Mutant of Pathname: the name overwrites what the parent wrote.
PathnameLast(n) == Spelled(IF nodes[n].name \in {"/", ""} THEN <<>> ELSE <<nodes[n].name>>)

\* vfs_pathname: the names, the root's left out.
RECURSIVE PathnameUp(_)
PathnameUp(n) ==
  LET up == IF nodes[n].parent \in {Root, None} \/ Reduce(nodes[n].parent) = Root THEN <<>>
            ELSE PathnameUp(Reduce(nodes[n].parent))
  IN IF nodes[n].name \in {"/", ""} THEN up ELSE Append(up, nodes[n].name)

\* getcwd
Pathname(n) == Spelled(PathnameUp(n))

----------------------------------------------------------------------------
(* System calls. *)

\* get_parent_dir: none for a descriptor that is not of a directory.
Start(t, c) ==
  CASE c.path.abs -> Root
    [] ~c.path.abs /\ c.at = "cwd" -> cwd[t]
    [] OTHER -> IF fd[t] # None /\ nodes[fd[t]].kind = "dir" THEN fd[t] ELSE None

Begin(t, c) ==
  /\ pc[t] = "idle"
  /\ calls < MaxCalls
  /\ calls' = calls + 1

\* What a function does with the lock, in one step.
WithLock == locked = None /\ UNCHANGED locked

\* A walk that met freed entries reads garbage: the thread is not followed further, and
\* the lock is not seen to stay with it.  So is one that the code sends through a null
\* pointer.
Astray == {"stale", "null"}
Lost(t, err) ==
  /\ pc' = [pc EXCEPT ![t] = "lost"]
  /\ stale' = IF err = "stale" THEN stale \cup {t} ELSE stale
Goto(t, next) ==
  /\ pc' = [pc EXCEPT ![t] = next]
  /\ UNCHANGED stale

Keep(t, j) == job' = [job EXCEPT ![t] = IF pc'[t] \in {"idle", "lost"} THEN None ELSE j]
Work(c, r, from) ==
  [op |-> c.op, flag |-> c.flag, parent |-> r.parent, base |-> r.base, from |-> from]

\* vfs_fdnum_path_to_node: up to the lock, a call finds the directory of its path.  That
\* there is none to start from goes unnoticed: the test is of the caller's pointer.
Resolve(t, c, next) ==
  /\ Begin(t, c)
  /\ LET r == Path2Node(Start(t, c), c.path)
     IN /\ CASE r.err \in Astray -> Lost(t, r.err)
             [] r.err \notin Astray /\ r.parent = None -> Goto(t, "idle")
             [] OTHER -> Goto(t, next)
        /\ Keep(t, Work(c, r, None))
  /\ UNCHANGED <<nodes, cwd, fd, locked, dotted, linked>>

Openat(t, c) == c.op = "open" /\ Resolve(t, c, "get")
Readlinkat(t, c) == c.op = "readlink" /\ Resolve(t, c, "get")
Mkdirat(t, c) == c.op = "mkdir" /\ Resolve(t, c, "create")

\* unlinkat looks at what it found before it takes the lock, and at nothing where the
\* path leads through a file.
Unlinkat(t, c) ==
  /\ c.op = "unlink"
  /\ Begin(t, c)
  /\ LET r == Path2Node(Start(t, c), c.path)
     IN /\ CASE r.err \in Astray \cup {"enotdir"} -> Lost(t, r.err)
             [] r.err = "enoent" -> Goto(t, "idle")
             [] r.err = "none" ->
                  Goto(t, IF nodes[r.target].kind = "dir" /\ c.flag # "rmdir" THEN "idle"
                          ELSE "remove")
        /\ Keep(t, Work(c, r, None))
  /\ UNCHANGED <<nodes, cwd, fd, locked, dotted, linked>>

\* vfs_get_node of openat and readlinkat.
Get(t) ==
  /\ pc[t] = "get"
  /\ WithLock
  /\ LET j == job[t]
         r == GetNode(j.parent, Element(j.base), j.op = "open" /\ j.flag # "nofollow")
     IN /\ CASE r.err = "stale" -> Lost(t, r.err)
             [] r.node = None /\ r.err # "stale" ->
                  Goto(t, IF j.flag = "creat" THEN "create" ELSE "idle")
             [] OTHER -> Goto(t, "idle")
        /\ fd' = IF j.op = "open" /\ r.node # None /\ nodes[r.node].kind # "link"
                 THEN [fd EXCEPT ![t] = r.node] ELSE fd
  /\ Keep(t, job[t])
  /\ UNCHANGED <<nodes, cwd, calls, dotted, linked>>

\* Mutant of Absent: what the walk without the lock saw is trusted.
AbsentTrusted(r) == TRUE
\* vfs_create refuses a name that exists.
Absent(r) == r.target = None

\* vfs_create of openat and mkdirat: the walk and the test, with the lock.
CreateTest(t) ==
  /\ pc[t] = "create"
  /\ locked = None
  /\ LET j == job[t]
         r == Path2Node(j.parent, Element(j.base))
     IN /\ CASE r.err = "stale" -> Lost(t, r.err)
             [] r.err # "stale" /\ (r.parent = None \/ ~Absent(r)) -> Goto(t, "idle")
             [] OTHER -> Goto(t, "place")
        /\ locked' = IF pc'[t] = "place" THEN t ELSE None
        /\ Keep(t, [j EXCEPT !.parent = r.parent, !.base = r.base])
  /\ UNCHANGED <<nodes, cwd, fd, calls, dotted, linked>>

\* The file and its entry; the lock goes back.
Create(t) ==
  /\ pc[t] = "place"
  /\ Len(nodes) < MaxNodes
  /\ LET j == job[t]
     IN /\ nodes' = Created(nodes, j.parent, j.base, IF j.op = "mkdir" THEN "dir" ELSE "file", None)
        /\ fd' = IF j.op = "open" THEN [fd EXCEPT ![t] = Len(nodes) + 1] ELSE fd
  /\ locked' = None
  /\ Goto(t, "idle")
  /\ Keep(t, None)
  /\ UNCHANGED <<cwd, calls, dotted, linked>>

\* vfs_unlink.  It frees the entries of a directory, and nobody looks whether there are
\* any, or who else has the directory; a mounted one does not look busy, its target
\* being the root of the mount.
Unlink(t) ==
  /\ pc[t] = "remove"
  /\ WithLock
  /\ LET j == job[t]
         r == Path2Node(j.parent, Element(j.base))
     IN IF r.err = "stale" THEN Lost(t, r.err) /\ UNCHANGED <<nodes, dotted>>
        ELSE /\ Goto(t, "idle")
             /\ IF r.target = None \/ Find(nodes[r.parent].entries, r.base) = 0
                THEN UNCHANGED <<nodes, dotted>>
                ELSE /\ nodes' = [nodes EXCEPT ![r.parent].entries = Removed(@, r.base),
                                               ![r.target].freed = (nodes[r.target].kind = "dir")]
                     /\ dotted' = (dotted \/ r.base \in {".", ".."})
  /\ Keep(t, job[t])
  /\ UNCHANGED <<cwd, fd, calls, linked>>

\* linkat: both walks without the lock, and the comparison of the filesystems.
Link(t, c) ==
  /\ c.op = "link"
  /\ Begin(t, c)
  /\ LET old == Path2Node(Start(t, c), c.path)
         new == Path2Node(Start(t, c), c.to)
     IN /\ CASE Empty(c.path) \/ Start(t, c) = None -> Goto(t, "idle")
             [] ~Empty(c.path) /\ Start(t, c) # None /\ None \in {old.parent, new.parent} ->
                  Lost(t, IF "stale" \in {old.err, new.err} THEN "stale" ELSE "null")
             [] OTHER -> Goto(t, IF nodes[old.parent].fs = nodes[new.parent].fs THEN "link"
                                 ELSE "idle")
        /\ Keep(t, Work(c, new, [dir |-> Start(t, c), path |-> c.path]))
  /\ UNCHANGED <<nodes, cwd, fd, locked, dotted, linked>>

\* vfs_get_node of the old path; directories are refused by the filesystem.
LinkGet(t) ==
  /\ pc[t] = "link"
  /\ WithLock
  /\ LET r == GetNode(job[t].from.dir, job[t].from.path, TRUE)
     IN CASE r.err = "stale" -> Lost(t, r.err)
          [] r.err # "stale" /\ (r.node = None \/ nodes[r.node].kind = "dir") -> Goto(t, "idle")
          [] OTHER -> Goto(t, "insert")
  /\ Keep(t, job[t])
  /\ UNCHANGED <<nodes, cwd, fd, calls, dotted, linked>>

\* A vfs_create holds the lock to insert the name.
Awaited(dir, name) ==
  \E u \in Threads : pc[u] = "place" /\ job[u].parent = dir /\ job[u].base = name

\* The insertion, without the lock and without a look at the name.
LinkInsert(t) ==
  /\ pc[t] = "insert"
  /\ LET j == job[t]
     IN IF nodes[j.parent].freed THEN Lost(t, "stale") /\ UNCHANGED <<nodes, linked>>
        ELSE /\ Len(nodes) < MaxNodes
             /\ nodes' = Created(nodes, j.parent, j.base, "file", None)
             /\ linked' = IF Find(nodes[j.parent].entries, j.base) # 0 \/ Awaited(j.parent, j.base)
                          THEN linked \cup {<<j.parent, j.base>>} ELSE linked
             /\ Goto(t, "idle")
  /\ Keep(t, job[t])
  /\ UNCHANGED <<cwd, fd, locked, calls, dotted>>

Chdir(t, c) ==
  /\ c.op = "chdir"
  /\ Begin(t, c)
  /\ WithLock
  /\ LET r == GetNode(Start(t, c), c.path, TRUE)
     IN /\ IF r.err = "stale" THEN Lost(t, r.err) ELSE UNCHANGED <<pc, stale>>
        /\ cwd' = IF r.node # None /\ nodes[r.node].kind = "dir"
                  THEN [cwd EXCEPT ![t] = r.node] ELSE cwd
  /\ UNCHANGED <<nodes, fd, job, dotted, linked>>

\* stat changes nothing, if it comes back.
Stat(t, c) ==
  /\ c.op = "stat"
  /\ Begin(t, c)
  /\ WithLock
  /\ IF Start(t, c) # None /\ GetNode(Start(t, c), c.path, TRUE).err = "stale"
     THEN Lost(t, "stale") ELSE UNCHANGED <<pc, stale>>
  /\ UNCHANGED <<nodes, cwd, fd, job, dotted, linked>>

\* readdir of the open directory, with the lock.
Readdir(t, c) ==
  /\ c.op = "readdir"
  /\ Begin(t, c)
  /\ WithLock
  /\ IF Start(t, c) # None /\ nodes[Start(t, c)].freed THEN Lost(t, "stale") ELSE UNCHANGED <<pc, stale>>
  /\ UNCHANGED <<nodes, cwd, fd, job, dotted, linked>>

Step(t) == Get(t) \/ CreateTest(t) \/ Create(t) \/ Unlink(t) \/ LinkGet(t) \/ LinkInsert(t)
Call(t, c) ==
  \/ Openat(t, c) \/ Readlinkat(t, c) \/ Mkdirat(t, c) \/ Unlinkat(t, c)
  \/ Link(t, c) \/ Chdir(t, c) \/ Stat(t, c) \/ Readdir(t, c)

Next ==
  \/ \E t \in Threads : Step(t)
  \/ \E t \in Threads, c \in Calls : Call(t, c)

Spec == Init /\ [][Next]_vars

----------------------------------------------------------------------------
(* Properties. *)

Dots == {".", ".."}
Directory(n) == nodes[n].kind = "dir"

\* The nodes that paths from the root reach.
RECURSIVE ReachFrom(_)
ReachFrom(S) ==
  LET next == S \cup UNION {{Reduce(nodes[n].entries[i].to) : i \in DOMAIN nodes[n].entries} :
                            n \in {m \in S : ~nodes[m].freed}}
  IN IF next = S THEN S ELSE ReachFrom(next)
Reached == ReachFrom({Reduce(Root)})

\* A directory has two entries of one name only where linkat put one of them, over a name
\* that was there or under the hands of a vfs_create: openat and mkdirat find out without
\* the lock that a name is free, but vfs_create looks again.
NamesUnique ==
  \A d \in DOMAIN nodes : \A i, k \in DOMAIN nodes[d].entries :
    i # k /\ nodes[d].entries[i].name = nodes[d].entries[k].name
    => <<d, nodes[d].entries[i].name>> \in linked

\* However calls overlap, no path from the root meets a directory whose entries
\* vfs_unlink has freed, unless a directory was unlinked as "." or "..": the entry that
\* goes is the one that the name, resolved again with the lock, led through.
RootLive == ~dotted => \A n \in Reached : ~nodes[n].freed

\* The path that getcwd gives for a directory that can still be reached leads to it,
\* unless linkat hid a name on the way or the directory is in devtmpfs, whose root has
\* no name.  The root is excepted: for it getcwd gives the empty string, which no call
\* accepts.
PathBack ==
  \A t \in Threads :
    /\ ~dotted /\ linked = {}
    /\ cwd[t] \in Reached \ {Reduce(Root)} /\ nodes[cwd[t]].fs # "devtmpfs"
    => Path2Node(cwd[t], Pathname(cwd[t])).target = cwd[t]
=============================================================================
