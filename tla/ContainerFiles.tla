--------------------------- MODULE ContainerFiles ---------------------------
(***************************************************************************)
(* The files of one container as pkg/connector/manager/docker.go reaches   *)
(* them: directory listings through a cache that all readers share, search,*)
(* upload and removal.                                                     *)
(*                                                                         *)
(* The container's own processes change the files at any time.  Requests   *)
(* of the web server list directories in goroutines of their own: such a   *)
(* reader misses the cache, asks the daemon and stores the answer later.   *)
(* Cached listings run out after 5 or 10 seconds, at any time here.        *)
(***************************************************************************)
EXTENDS Integers, FiniteSets, SequencesExt

CONSTANT Readers    \* requests of the web server that list directories

VARIABLES
    tree,       \* what is at each path
    dirCache,   \* the cached listing of each directory
    reading     \* what each reader has listed and not stored yet

fileVars == <<tree, dirCache, reading>>

\* Two names, one of which may be a directory with the other in it.
Root == <<>>
Paths == {<<"d">>, <<"d", "f">>, <<"f">>}
Dirs == {Root, <<"d">>}

IsDirectory(t, p) == p = Root \/ (p \in Paths /\ t[p] = "dir")
Exists(t, p) == p = Root \/ (p \in Paths /\ t[p] # "none")

\* FileInfo: the mode and the dates are left out.
Info(t, p) == [path |-> p, isDir |-> IsDirectory(t, p)]
NotCached == {[path |-> <<"not cached">>, isDir |-> FALSE]}
Idle == [dir |-> Root, listing |-> NotCached]

\* Directories that hold what is in them, and nothing else.
WellFormed(t) ==
    /\ \A p \in Paths : t[p] \in {"none", "file", "dir"}
    /\ t[<<"d", "f">>] # "dir" /\ t[<<"f">>] # "dir"
    /\ \A p \in Paths : t[p] # "none" => IsDirectory(t, Front(p))

FilesInit ==
    /\ tree = [p \in Paths |-> IF p = <<"d">> THEN "dir" ELSE "file"]
    /\ dirCache = [dir \in Dirs |-> NotCached]
    /\ reading = [r \in Readers |-> Idle]

\* What becomes of the tree when a path gets other contents.
With(t, p, kind) ==
    [q \in Paths |-> IF q = p THEN kind
                     ELSE IF IsStrictPrefix(p, q) THEN "none" ELSE t[q]]

-----------------------------------------------------------------------------
Children(t, dir) ==
    {Info(t, p) : p \in {q \in Paths : Front(q) = dir /\ Exists(t, q)}}

\* A listing that was asked for now: ls in the container, or the tar stream that
\* replaces it where there is no shell or nothing to list.  The error of that
\* stream is dropped, so that a failure looks like an empty directory.  (ls of a
\* path that is a file by now gives that file a path it does not have; that is
\* left out.)
Fresh(t, dir) == IF IsDirectory(t, dir) THEN {Children(t, dir), {}} ELSE {{}}

\* ReadDir for a caller that nobody can see half way: cached, or fresh.
ReadDir(t, cache, dir) ==
    IF cache[dir] # NotCached THEN {cache[dir]} ELSE Fresh(t, dir)

Caching(cache, dir, listing) == [cache EXCEPT ![dir] = listing]

\* ReadDir in a request of the web server: it misses the cache ...
ReaderLists(r, dir) ==
    /\ reading[r] = Idle /\ dirCache[dir] = NotCached
    /\ \E listing \in Fresh(tree, dir) :
           reading' = [reading EXCEPT ![r] = [dir |-> dir, listing |-> listing]]
    /\ UNCHANGED <<tree, dirCache>>

\* ... and stores what it got.
ReaderStores(r) ==
    /\ reading[r] # Idle
    /\ dirCache' = Caching(dirCache, reading[r].dir, reading[r].listing)
    /\ reading' = [reading EXCEPT ![r] = Idle]
    /\ UNCHANGED tree

Expire(dir) ==
    /\ dirCache[dir] # NotCached
    /\ dirCache' = Caching(dirCache, dir, NotCached)
    /\ UNCHANGED <<tree, reading>>

\* SearchFiles: find in the directories it knows of, each of which may fail, so
\* that any of the files below come back.  If there are none the layer diff is
\* matched: it names paths that changed, whether they still exist or not, and
\* everything in it passes for a file.
SearchFiles(base) ==
    LET found == {Info(tree, p) : p \in {q \in Paths : IsPrefix(base, q) /\ Exists(tree, q)}}
        diff == {[path |-> p, isDir |-> FALSE] : p \in Paths}
    IN  (SUBSET found) \cup (SUBSET diff)

\* Download, and ReadFile after it: whether there is anything to edit.  Of a
\* directory the last file in the archive comes.
Retrieved(p) == Exists(tree, p)

\* Where Upload puts a plain file: the last part of the destination becomes its
\* name, unless the destination is the root.  (No caller ends it with a slash.)
UploadTarget(dst, name) == IF dst = Root THEN Append(dst, name) ELSE dst

\* Upload of a plain file: the daemon unpacks it over whatever is there, in a
\* directory that exists.
CanUpload(dst, name) == IsDirectory(tree, Front(UploadTarget(dst, name)))
Uploaded(dst, name) == With(tree, UploadTarget(dst, name), "file")

\* Upload of a directory "d" that holds a file "f": into the destination.
UploadedDir(dst) ==
    IF dst = Root
    THEN [p \in Paths |-> IF p = <<"d">> THEN "dir"
                          ELSE IF p = <<"d", "f">> THEN "file" ELSE tree[p]]
    ELSE tree

\* Mutant of Invalidated: the listings stay.
InvalidatedNot == dirCache

\* DeleteFile forgets all listings of the container once rm has run.
Invalidated == [dir \in Dirs |-> NotCached]

-----------------------------------------------------------------------------
\* The processes of the container.
Touch ==
    /\ tree' \in {With(tree, p, kind) : p \in Paths, kind \in {"none", "file", "dir"}}
    /\ tree' # tree /\ WellFormed(tree')
    /\ UNCHANGED <<dirCache, reading>>

FilesNext ==
    \/ Touch
    \/ \E dir \in Dirs : Expire(dir) \/ \E r \in Readers : ReaderLists(r, dir)
    \/ \E r \in Readers : ReaderStores(r)
=============================================================================
