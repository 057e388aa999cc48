-------------------------------- MODULE VFS --------------------------------
(***************************************************************************)
(* The virtual file system (kernel/filesystems/vfs.c) and its cache of     *)
(* directory entries (dentry_cache.c): path_walk, vfs_open, vfs_close, the *)
(* reference counts, and the cache's buckets.  The code takes no lock and  *)
(* nothing runs it concurrently yet: a call is one step.                   *)
(*                                                                         *)
(* The file system below is outside: a fixed tree of Nodes.  The dentry of *)
(* a node is the node's name in the model; alive says which dentries       *)
(* exist.  A path is [abs, toks]: whether it starts with a slash, and the  *)
(* strings between its slashes, "" included.                               *)
(***************************************************************************)
EXTENDS Integers, FiniteSets, Sequences, FiniteSetsExt

CONSTANTS Nodes, Root, NodeParent, NodeName,
          Directories,    \* the nodes that are directories
          Bucket(_, _),   \* the hash of a parent and a name
          Paths,          \* paths the callers use
          WorkDirs,       \* working directories they pass; NULL is none
          Garbage,        \* what kstrtok_r may hand out without a copy of the path
          OpenPaths,      \* those of them they open
          LOOKUP_ALLOCS,  \* i_ops->lookup makes its dentry with alloc_dentry
          WithOps,        \* nodes whose f_ops have read, write and lseek
          MAX_OPENS,      \* bound on the calls of vfs_open in a behaviour
          NULL

VARIABLES alive,          \* dentries that exist
          refcount,       \* dentry->refcount
          irefs,          \* inode->refcount
          cache,          \* dentry_hash_table and the d_hash_next links
          held,           \* a dentry a caller of path_walk has not released
          file,           \* the dentry of the open file, or NULL
          opens,          \* calls of vfs_open so far
          hung,           \* a search of a bucket goes round for ever
          last            \* the last call and its outcome

vars == <<alive, refcount, irefs, cache, held, file, opens, hung, last>>

ASSUME TreeAssumption ==
  /\ IsFiniteSet(Nodes) /\ NULL \notin Nodes /\ Root \in Nodes
  /\ NodeParent \in [Nodes -> Nodes \cup {NULL}] /\ NodeParent[Root] = NULL
  /\ NodeName \in [Nodes -> STRING]
  /\ \A m, n \in Nodes : NodeParent[m] = NodeParent[n] /\ NodeName[m] = NodeName[n] => m = n
  /\ Directories \subseteq Nodes /\ WorkDirs \subseteq Nodes \cup {NULL}
  /\ Paths \cup OpenPaths \subseteq [abs : BOOLEAN, toks : Seq(STRING)]
  /\ Garbage \subseteq Seq(STRING) /\ MAX_OPENS \in Nat

\* The names that are looked up, and the buckets they fall in.
TokenLists == {p.toks : p \in Paths \cup OpenPaths} \cup Garbage
Names == {NodeName[n] : n \in Nodes} \cup (UNION {{toks[i] : i \in DOMAIN toks} : toks \in TokenLists})

Buckets == {Bucket(p, m) : p \in Nodes \cup {NULL}, m \in Names}

BucketOf(d) == Bucket(NodeParent[d], NodeName[d])

(***************************************************************************)
(* The cache: the head of each bucket, and the next entry of each entry.   *)
(***************************************************************************)
MaxEntries == Cardinality(Nodes)

\* The k-th entry met from the head of bucket b, NULL past the end.
Entry(c, b) ==
  LET nth[k \in 0..MaxEntries] ==
        IF k = 0 THEN c.head[b]
        ELSE LET before == nth[k - 1] IN IF before = NULL THEN NULL ELSE c.next[before]
  IN  nth

Ends(c, b) == Entry(c, b)[MaxEntries] = NULL

\* The positions in bucket b of the entries named m.
Named(c, b, m) ==
  LET entry == Entry(c, b)
  IN  {k \in 0..MaxEntries : entry[k] # NULL /\ NodeName[entry[k]] = m}

\* The search for m in bucket b meets no such entry and no end.
Spins(c, b, m) == Named(c, b, m) = {} /\ ~Ends(c, b)

dcache_add(c, d) ==
  [c EXCEPT !.next[d] = c.head[BucketOf(d)], !.head[BucketOf(d)] = d]

\* The first entry of the bucket with the same name goes.
dcache_remove(c, d) ==
  LET b == BucketOf(d)
      ks == Named(c, b, NodeName[d])
      k == Min(ks)
      after == c.next[Entry(c, b)[k]]
  IN  IF ks = {} THEN c
      ELSE IF k = 0 THEN [c EXCEPT !.head[b] = after]
      ELSE [c EXCEPT !.next[Entry(c, b)[k - 1]] = after]

\* The first entry of the bucket with this name; whose child it is, is not
\* looked at.
dcache_lookup(c, parent, m) ==
  LET b == Bucket(parent, m)
      ks == Named(c, b, m)
  IN  IF ks = {} THEN NULL ELSE Entry(c, b)[Min(ks)]

(***************************************************************************)
(* The file system's own lookup: the entry of a directory, if it has one   *)
(* with that name.                                                         *)
(***************************************************************************)
FsLookup(dir, m) ==
  LET found == {n \in Nodes : NodeParent[n] = dir /\ NodeName[n] = m}
  IN  IF found = {} THEN NULL ELSE CHOOSE n \in found : TRUE

Above(d) == IF NodeParent[d] = NULL THEN d ELSE NodeParent[d]

(***************************************************************************)
(* path_walk.  The walk in progress is a record: where it is, the counts   *)
(* and the cache as it left them, and whether it has returned.             *)
(***************************************************************************)
Ref(w, d) == [w EXCEPT !.ref[d] = @ + 1]
Unref(w, d) == [w EXCEPT !.ref[d] = @ - 1]
Return(w, d) == [w EXCEPT !.done = TRUE, !.at = d]

\* kstrtok_r has nothing left after token i: the end, or a final slash.
AtEnd(toks, i) == i >= Len(toks) \/ (i = Len(toks) - 1 /\ toks[Len(toks)] = "")

\* A dentry the file system makes for a node, with its inode.
Made(w, d) ==
  IF d \in w.alive THEN w
  ELSE [w EXCEPT !.alive = @ \cup {d}, !.ref[d] = 1, !.iref[d] = @ + 1,
                 !.cache = IF LOOKUP_ALLOCS THEN dcache_add(@, d) ELSE @]

\* The dentry of a name below w.at: from the cache, else from the file
\* system, after which it is cached.
Found(w, m) ==
  LET cached == dcache_lookup(w.cache, w.at, m)
      read == FsLookup(w.at, m)
  IN  IF Spins(w.cache, Bucket(w.at, m), m) THEN [w EXCEPT !.found = NULL, !.spins = TRUE]
      ELSE IF cached # NULL THEN [w EXCEPT !.found = cached]
      ELSE IF read = NULL THEN [w EXCEPT !.found = NULL]
      ELSE [Made(w, read) EXCEPT !.found = read, !.cache = dcache_add(@, read)]

WalkName_KeepsParent(w, m, isLast) ==
  LET f == Found(w, m) IN
    IF f.spins THEN Return(f, NULL)
    ELSE IF f.found = NULL THEN Return(f, NULL)
    ELSE IF isLast THEN Return(Ref(Unref(f, f.at), f.found), f.found)
    ELSE IF f.found \notin Directories THEN Return(Unref(f, f.at), NULL)
    ELSE [Ref(Unref(f, f.at), f.found) EXCEPT !.at = f.found]

WalkName_AnyFile(w, m, isLast) ==
  LET f == Found(w, m) IN
    IF f.spins THEN Return(f, NULL)
    ELSE IF f.found = NULL THEN Return(Unref(f, f.at), NULL)
    ELSE IF isLast THEN Return(Ref(Unref(f, f.at), f.found), f.found)
    ELSE [Ref(Unref(f, f.at), f.found) EXCEPT !.at = f.found]

WalkName(w, m, isLast) ==
  LET f == Found(w, m) IN
    IF f.spins THEN Return(f, NULL)
    ELSE IF f.found = NULL THEN Return(Unref(f, f.at), NULL)
    ELSE IF isLast THEN Return(Ref(Unref(f, f.at), f.found), f.found)
    ELSE IF f.found \notin Directories THEN Return(Unref(f, f.at), NULL)
    ELSE [Ref(Unref(f, f.at), f.found) EXCEPT !.at = f.found]

WalkToken(w, toks, i) ==
  IF w.done \/ (i > 1 /\ AtEnd(toks, i - 1)) THEN w
  ELSE IF toks[i] \in {"", "."} THEN w
  ELSE IF toks[i] = ".." THEN [Unref(Ref(w, Above(w.at)), w.at) EXCEPT !.at = Above(w.at)]
  ELSE WalkName(w, toks[i], AtEnd(toks, i))

\* The walk after each of the tokens.
Walks(w, toks) ==
  LET after[i \in 0 .. Len(toks)] ==
        IF i = 0 THEN w ELSE WalkToken(after[i - 1], toks, i)
  IN  after

path_walk(path, wd, toks) ==
  LET start == IF wd # NULL THEN wd ELSE Root
      w == [at |-> start, ref |-> refcount, iref |-> irefs, cache |-> cache,
            alive |-> alive, found |-> NULL, spins |-> FALSE, done |-> FALSE]
  IN  IF path.abs /\ path.toks = <<"">> THEN Return(Ref(w, Root), Root)
      ELSE IF ~path.abs /\ path.toks = <<"..">> THEN Return(Ref(w, Above(start)), Above(start))
      ELSE IF ~path.abs /\ path.toks = <<".">> THEN Return(Ref(w, start), start)
      ELSE Walks(Ref(w, start), toks)[Len(toks)]

\* What kstrtok_r hands out: the components of the copy.  Without a copy it
\* reads a saveptr nobody set: no token, or whatever it points at.
Tokens(path) ==
  {path.toks, <<>>} \cup Garbage

(***************************************************************************)
(* A root made by alloc_dentry and instantiate_dentry; the inodes of the   *)
(* tree made by alloc_inode.                                               *)
(***************************************************************************)
Init ==
  /\ alive = {Root}
  /\ refcount = [d \in Nodes |-> 1]
  /\ irefs = [d \in Nodes |-> IF d = Root THEN 2 ELSE 1]
  /\ cache = dcache_add([head |-> [b \in Buckets |-> NULL], next |-> [d \in Nodes |-> NULL]], Root)
  /\ held = NULL
  /\ file = NULL
  /\ opens = 0
  /\ hung = FALSE
  /\ last = NULL

\* What a walk did, up to the counts its caller still changes.
Walked(w) == alive' = w.alive /\ cache' = w.cache /\ hung' = w.spins

\* A caller walks a path and keeps what it gets.
Walk(path, wd) ==
  /\ ~hung /\ held = NULL /\ wd \in alive \cup {NULL}
  /\ \E toks \in Tokens(path) :
       LET w == path_walk(path, wd, toks) IN
         /\ Walked(w) /\ refcount' = w.ref /\ irefs' = w.iref /\ held' = w.at
         /\ last' = [call |-> "walk", path |-> path, wd |-> wd, result |-> w.at,
                     copied |-> toks = path.toks]
  /\ UNCHANGED <<file, opens>>

Release ==
  /\ ~hung /\ held # NULL
  /\ refcount' = [refcount EXCEPT ![held] = @ - 1]
  /\ held' = NULL /\ last' = NULL
  /\ UNCHANGED <<alive, irefs, cache, file, opens, hung>>

\* vfs_open, the path resolved to d: the test of the file type, an
\* allocation that fails, the file system's open that fails, the open file.
Opened(w, d, code) ==
  /\ last' = [call |-> "open", code |-> code, result |-> d]
  /\ refcount' = IF code = "VFS_OK" THEN Ref(w, d).ref ELSE w.ref
  /\ irefs' = IF code = "VFS_OK" THEN [w.iref EXCEPT ![d] = @ + 1] ELSE w.iref
  /\ file' = IF code = "VFS_OK" THEN d ELSE file

OpenOutcomes(d) ==
  IF d = NULL THEN {"VFS_ENOENT"}
  ELSE IF d \notin Directories THEN {"VFS_EISDIR"}
  ELSE {"VFS_ENOMEM", "open failed", "VFS_OK"}

vfs_open(path, wd) ==
  /\ ~hung /\ file = NULL /\ wd \in alive \cup {NULL}
  /\ opens < MAX_OPENS /\ opens' = opens + 1
  /\ \E toks \in Tokens(path) :
       LET w == path_walk(path, wd, toks) IN
         Walked(w) /\ \E code \in OpenOutcomes(w.at) : Opened(w, w.at, code)
  /\ UNCHANGED held

vfs_close_KeepsInode ==
  /\ ~hung /\ file # NULL
  /\ refcount' = [refcount EXCEPT ![file] = @ - 1]
  /\ file' = NULL /\ last' = NULL
  /\ UNCHANGED <<alive, irefs, cache, held, opens, hung>>

vfs_close ==
  /\ ~hung /\ file # NULL
  /\ refcount' = [refcount EXCEPT ![file] = @ - 1]
  /\ irefs' = [irefs EXCEPT ![file] = @ - 1]
  /\ file' = NULL /\ last' = NULL
  /\ UNCHANGED <<alive, cache, held, opens, hung>>

VFS_EINVAL == -3

\* vfs_read, vfs_write and vfs_lseek: refused without the operation, else
\* what the file system returns (one byte, say).
Transfer ==
  /\ ~hung /\ file # NULL
  /\ last' = [call |-> "io", done |-> file \in WithOps,
              ret |-> IF file \in WithOps THEN 1 ELSE -VFS_EINVAL]
  /\ UNCHANGED <<alive, refcount, irefs, cache, held, file, opens, hung>>

\* The file system makes a dentry before anybody looks for it.
alloc_dentry(d) ==
  /\ ~hung /\ d \notin alive /\ NodeParent[d] \in alive
  /\ alive' = alive \cup {d}
  /\ refcount' = [refcount EXCEPT ![d] = 1]
  /\ irefs' = [irefs EXCEPT ![d] = @ + 1]
  /\ cache' = dcache_add(cache, d)
  /\ last' = NULL
  /\ UNCHANGED <<held, file, opens, hung>>

\* The file system gives a dentry back that nobody uses.
Unused(d) == d \in alive \ {Root, held, file} /\ \A c \in alive : NodeParent[c] # d

free_dentry_StaysCached(d) ==
  /\ ~hung /\ Unused(d)
  /\ alive' = alive \ {d}
  /\ irefs' = [irefs EXCEPT ![d] = @ - 1]
  /\ last' = NULL
  /\ UNCHANGED <<refcount, cache, held, file, opens, hung>>

free_dentry(d) ==
  /\ ~hung /\ Unused(d)
  /\ alive' = alive \ {d}
  /\ irefs' = [irefs EXCEPT ![d] = @ - 1]
  /\ cache' = dcache_remove(cache, d)
  /\ hung' = Spins(cache, BucketOf(d), NodeName[d])
  /\ last' = NULL
  /\ UNCHANGED <<refcount, held, file, opens>>

Next ==
  \/ \E path \in Paths, wd \in WorkDirs : Walk(path, wd)
  \/ \E path \in OpenPaths, wd \in WorkDirs : vfs_open(path, wd)
  \/ Release
  \/ vfs_close
  \/ Transfer
  \/ \E d \in Nodes : alloc_dentry(d) \/ free_dentry(d)

Spec == Init /\ [][Next]_vars

(***************************************************************************)
(* What a path means, whatever is cached.                                  *)
(***************************************************************************)
Step(at, toks, i) ==
  IF at = NULL \/ toks[i] \in {"", "."} THEN at
  ELSE IF toks[i] = ".." THEN Above(at)
  ELSE IF FsLookup(at, toks[i]) \notin Directories /\ ~AtEnd(toks, i) THEN NULL
  ELSE FsLookup(at, toks[i])

Steps(start, toks) ==
  LET after[i \in 0 .. Len(toks)] ==
        IF i = 0 THEN start ELSE Step(after[i - 1], toks, i)
  IN  after

Resolve(path, start) == Steps(start, path.toks)[Len(path.toks)]

(***************************************************************************)
(* Properties.                                                             *)
(***************************************************************************)
TypeOK ==
  /\ alive \subseteq Nodes /\ Root \in alive
  /\ refcount \in [Nodes -> Nat]
  /\ irefs \in [Nodes -> Nat]
  /\ cache.head \in [Buckets -> Nodes \cup {NULL}]
  /\ cache.next \in [Nodes -> Nodes \cup {NULL}]
  /\ held \in Nodes \cup {NULL} /\ file \in Nodes \cup {NULL}
  /\ hung \in BOOLEAN

LastWalk == last # NULL /\ last.call = "walk" /\ last.copied

\* path_walk returns the node the path names, starting at the working
\* directory when there is one: whatever was looked up, cached and freed
\* before, with empty components, "." and "..", and NULL exactly when a
\* component is missing or a component before the last is no directory;
\* as long as the copy of the path could be allocated.
WalkFindsTheNode ==
  LastWalk =>
    last.result = Resolve(last.path, IF last.path = [abs |-> TRUE, toks |-> <<"">>] \/ last.wd = NULL
                                     THEN Root ELSE last.wd)

\* The cache holds exactly the dentries that exist, each in the bucket of
\* its parent and name: none that free_dentry gave back, none cut off.
CacheHoldsLive ==
  \A b \in Buckets :
    {Entry(cache, b)[k] : k \in 0..MaxEntries} \ {NULL} = {d \in alive : BucketOf(d) = b}

\* Every search of a bucket comes to an end: no entry of the lists that
\* dcache_add and dcache_remove relink leads back to an earlier one on the
\* way of a name that is not there.
SearchesEnd == ~hung

\* A walk leaves exactly one reference, on the dentry it returned: dentries
\* passed on the way, and those of walks that failed, keep their count.
\* (vfs_open and vfs_close do not balance; see UnusedMeansUncounted.)
WalkReferences ==
  opens = 0 => \A d \in alive : refcount[d] = 1 + (IF held = d THEN 1 ELSE 0)

\* An inode is counted once for itself, once while it has a dentry and once
\* while it is open, through failed opens and freed dentries too.
InodeReferences ==
  \A d \in Nodes :
    irefs[d] = 1 + (IF d \in alive THEN 1 ELSE 0) + (IF file = d THEN 1 ELSE 0)

\* free_dentry warns of "a dentry with a refcount greater than 0": counts
\* say who still uses a dentry.  Once every file is closed and every walk's
\* result released, only the count of its existence is left.
UnusedMeansUncounted ==
  held = NULL /\ file = NULL => \A d \in alive : refcount[d] = 1

\* "We can either take in the absolute path or the relative path from the
\* current working directory": an absolute path starts at the root.
AbsolutePathFromRoot ==
  LastWalk /\ last.path.abs => last.result = Resolve(last.path, Root)

\* VFS_EISDIR says of a path that it is a directory.
EisdirMeansDirectory ==
  last # NULL /\ last.call = "open" /\ last.code = "VFS_EISDIR" => last.result \in Directories

\* "signed size_t so we can return -1 on err (0 is valid because we can
\* read 0 bytes)": a refused transfer returns a negative number.
ErrorsAreNegative ==
  last # NULL /\ last.call = "io" /\ ~last.done => last.ret < 0
=============================================================================
