------------------------------ MODULE Explorer ------------------------------
(***************************************************************************)
(* The file explorer of internal/cwidgets/single/explorer.go, driven by    *)
(* FileExplorerMenu of menus.go or by the files tab of the single view in  *)
(* grid.go, and the editor of editor.go.  The event loop handles a key at  *)
(* a time; while it asks for a confirmation, shows a file or runs the      *)
(* editor, the container and the web server go on.  A line that is typed   *)
(* into a prompt is one step, at the moment of Enter.                      *)
(***************************************************************************)
EXTENDS ContainerFiles, Filtering

VARIABLES
    mode,        \* what the keys mean; "away" is another tab, "closed" the table
    currentDir,
    entries,     \* as listed or found
    filtering,   \* a filter is set: it lets the name "f" through
    deep,        \* IsDeepSearch: the badge that says entries are search results
    cursor,      \* of the items, from 1 (1 if there are none)
    pending,     \* PendingActionItem, or what is in the editor
    listed,      \* history: the entries came from a directory
    gone         \* history: the path that was last deleted, while it stays away

listVars == <<currentDir, entries, filtering, deep, cursor>>
explorerVars == <<fileVars, mode, listVars, pending, listed, gone>>

NoItem == [path |-> <<"no item">>, isDir |-> FALSE]

NoExplorer ==
    /\ mode = "closed" /\ currentDir = Root /\ entries = <<>>
    /\ filtering = FALSE /\ deep = FALSE /\ cursor = 1
    /\ pending = NoItem /\ listed = TRUE /\ gone = NoItem.path

ExplorerInit == FilesInit /\ NoExplorer

-----------------------------------------------------------------------------
\* Directories come first and then it goes by name.
Before(a, b) ==
    \/ a.isDir /\ ~b.isDir
    \/ a.isDir = b.isDir /\ Last(a.path) = "d" /\ Last(b.path) = "f"
    \/ a.isDir = b.isDir /\ Last(a.path) = Last(b.path) /\ Len(a.path) > Len(b.path)

Sorted(infos) ==
    {list \in SetToSeqs(infos) :
        \A i, j \in 1..Len(list) : i < j => Before(list[i], list[j])}

\* TotalItems: the parent, except at the root, and what the filter lets through.
TotalItems(dir, es, f) ==
    LET shown == {info \in ToSet(es) : ~f \/ Last(info.path) = "f"}
        up == [path |-> Front(dir), isDir |-> TRUE]
    IN  (IF dir = Root THEN <<>> ELSE <<up>>) \o OnlyIn(es, shown)

Items == TotalItems(currentDir, entries, filtering)

HasSelected == cursor <= Len(Items)
SelectedEntry == Items[cursor]

\* Mutant of Clamp: the cursor stays.
ClampNot(c, dir, es, f) == c

\* Where the cursor is left by what changes the items: at the top, if they are
\* fewer now.
Clamp(c, dir, es, f) == IF c > Len(TotalItems(dir, es, f)) THEN 1 ELSE c

\* Set: other entries under the cursor.
Set(dir, infos) ==
    /\ currentDir' = dir /\ entries' \in Sorted(infos)

\* ReadDir through the cache, and Set; whatever the key did to the files has been
\* done by then.
ReadInto(dir, cache) ==
    \E listing \in ReadDir(tree', cache, dir) :
        /\ Set(dir, listing) /\ listed' = TRUE
        /\ dirCache' = Caching(cache, dir, listing)

\* refreshDir: the cursor goes to the top.  Search and filter are left alone.
RefreshDir(dir, cache) == ReadInto(dir, cache) /\ cursor' = 1 /\ mode' = "list"

quiet == <<tree, reading, gone>>

-----------------------------------------------------------------------------
(* Opening, leaving, moving. *)

Open ==
    /\ mode = "closed" /\ UNCHANGED <<pending, quiet>>
    /\ RefreshDir(Root, dirCache) /\ filtering' = FALSE /\ deep' = FALSE

CloseExplorer ==
    /\ mode \in {"list", "away"} /\ mode' = "closed"
    /\ currentDir' = Root /\ entries' = <<>> /\ filtering' = FALSE
    /\ deep' = FALSE /\ cursor' = 1 /\ listed' = TRUE
    /\ UNCHANGED <<dirCache, pending, quiet>>

LeaveTab ==
    /\ mode = "list" /\ mode' = "away"
    /\ UNCHANGED <<dirCache, listVars, pending, listed, quiet>>

\* switchTab: the directory is read again under the search badge and the filter.
ReturnToTab ==
    /\ mode = "away" /\ mode' = "list"
    /\ UNCHANGED <<filtering, deep, pending, quiet>>
    /\ ReadInto(currentDir, dirCache)
    /\ cursor' = Clamp(cursor, currentDir, entries', filtering)

Move ==
    /\ mode = "list" /\ cursor' \in 1..Len(Items)
    /\ UNCHANGED <<dirCache, mode, currentDir, entries, filtering, deep, pending,
                   listed, quiet>>

\* ClearFilterAndSearch and refreshDir: Enter on a directory, Backspace, r and c,
\* and an empty search.
Enter(dir) ==
    /\ mode = "list" /\ UNCHANGED <<pending, quiet>>
    /\ RefreshDir(dir, dirCache) /\ filtering' = FALSE /\ deep' = FALSE

\* Mutant of Clear: the entries of the search stay.
ClearOnly ==
    /\ mode = "list" /\ (filtering \/ deep)
    /\ filtering' = FALSE /\ deep' = FALSE
    /\ cursor' = Clamp(cursor, currentDir, entries, FALSE)
    /\ UNCHANGED <<dirCache, mode, currentDir, entries, pending, listed, quiet>>

Clear == (filtering \/ deep) /\ Enter(currentDir)

GoTo ==
    \/ HasSelected /\ SelectedEntry.isDir /\ Enter(SelectedEntry.path)
    \/ currentDir # Root /\ Enter(Front(currentDir))
    \/ Enter(currentDir)

\* The prompt of the filter.
SetEntryFilter ==
    /\ mode = "list" /\ filtering' \in BOOLEAN
    /\ cursor' = Clamp(cursor, currentDir, entries, filtering')
    /\ UNCHANGED <<dirCache, mode, currentDir, entries, deep, pending, listed, quiet>>

\* The prompt of the search, with something in it.
DeepSearch ==
    /\ mode = "list"
    /\ \E found \in SearchFiles(currentDir) : Set(currentDir, found)
    /\ deep' = TRUE /\ listed' = FALSE
    /\ cursor' = Clamp(cursor, currentDir, entries', filtering)
    /\ UNCHANGED <<dirCache, mode, filtering, pending, quiet>>

\* A file is shown, and closed again.
Preview ==
    /\ \/ mode = "list" /\ HasSelected /\ ~SelectedEntry.isDir /\ mode' = "preview"
       \/ mode = "preview" /\ mode' = "list"
    /\ UNCHANGED <<dirCache, listVars, pending, listed, quiet>>

-----------------------------------------------------------------------------
(* Confirmed operations. *)

\* Mutant of StartConfirm: directories are not refused.
StartConfirmAny ==
    /\ mode = "list" /\ HasSelected /\ SelectedEntry.path # Root
    /\ mode' \in {"delete", "edit"} /\ pending' = SelectedEntry
    /\ UNCHANGED <<dirCache, listVars, listed, quiet>>

StartConfirm ==
    /\ mode = "list" /\ HasSelected /\ ~SelectedEntry.isDir
    /\ mode' \in {"delete", "edit"} /\ pending' = SelectedEntry
    /\ UNCHANGED <<dirCache, listVars, listed, quiet>>

\* Cancelled, or the operation failed before it had any effect: nothing is read
\* again.
BackToList ==
    /\ mode \in {"delete", "edit", "editor"} /\ mode' = "list"
    /\ pending' = NoItem
    /\ UNCHANGED <<dirCache, listVars, listed, quiet>>

\* A reader will store a listing with the path that is deleted.
Overtaken(p) == \E r \in Readers : \E info \in reading[r].listing : info.path = p

\* DeleteFile succeeds: there is no such file any more, and a directory of that
\* name would be an error.  The listing is read again.
Delete ==
    /\ mode = "delete" /\ ~IsDirectory(tree, pending.path)
    /\ tree' = With(tree, pending.path, "none")
    /\ RefreshDir(currentDir, Invalidated) /\ pending' = NoItem
    /\ gone' = IF Overtaken(pending.path) THEN gone ELSE pending.path
    /\ UNCHANGED <<reading, filtering, deep>>

\* DeleteFile fails: rm ran and complained, and the listings are forgotten; or
\* the exec broke off, and the file may be gone nevertheless.
DeleteFails ==
    /\ mode = "delete" /\ mode' = "list" /\ pending' = NoItem
    /\ \/ dirCache' = Invalidated /\ UNCHANGED tree
       \/ /\ ~IsDirectory(tree, pending.path) /\ UNCHANGED dirCache
          /\ tree' = With(tree, pending.path, "none")
    /\ UNCHANGED <<listVars, reading, listed, gone>>

\* EditContainerFile: the file is fetched and the editor has the terminal.
StartEditor ==
    /\ mode = "edit" /\ Retrieved(pending.path) /\ mode' = "editor"
    /\ UNCHANGED <<dirCache, listVars, pending, listed, quiet>>

\* The deleted path, unless it came back.
StillGone(t) == IF gone \in Paths /\ Exists(t, gone) THEN NoItem.path ELSE gone

\* The temporary file was changed and is put back.
FinishEdit ==
    /\ mode = "editor" /\ CanUpload(pending.path, "tmp")
    /\ tree' = Uploaded(pending.path, "tmp") /\ gone' = StillGone(tree')
    /\ RefreshDir(currentDir, dirCache) /\ pending' = NoItem
    /\ UNCHANGED <<reading, filtering, deep>>

\* The prompt of the upload, with the path of a file "f" or of a directory "d".
UploadFile ==
    /\ mode = "list" /\ CanUpload(currentDir, "f")
    /\ tree' = Uploaded(currentDir, "f") /\ gone' = StillGone(tree')
    /\ RefreshDir(currentDir, dirCache)
    /\ UNCHANGED <<pending, reading, filtering, deep>>

UploadDir ==
    /\ mode = "list" /\ IsDirectory(tree, currentDir)
    /\ tree' = UploadedDir(currentDir) /\ gone' = StillGone(tree')
    /\ RefreshDir(currentDir, dirCache)
    /\ UNCHANGED <<pending, reading, filtering, deep>>

-----------------------------------------------------------------------------
ExplorerKeys ==
    \/ Open \/ CloseExplorer \/ LeaveTab \/ ReturnToTab \/ Move \/ Clear \/ GoTo
    \/ SetEntryFilter \/ DeepSearch \/ Preview \/ StartConfirm \/ BackToList
    \/ Delete \/ DeleteFails \/ StartEditor \/ FinishEdit \/ UploadFile \/ UploadDir

Environment ==
    /\ FilesNext
    /\ gone' = StillGone(tree')
    /\ UNCHANGED <<mode, listVars, pending, listed>>

ExplorerNext == ExplorerKeys \/ Environment

ExplorerSpec == ExplorerInit /\ [][ExplorerNext]_explorerVars

-----------------------------------------------------------------------------
(* Properties. *)

\* Every variable has its type, and the cursor is on an item if there is one,
\* whatever was refreshed, filtered or found under it.
ExplorerOK ==
    /\ WellFormed(tree)
    /\ mode \in {"closed", "away", "list", "preview", "delete", "edit", "editor"}
    /\ currentDir \in Dirs
    /\ \A i \in 1..Len(entries) : entries[i].path \in Paths
    /\ filtering \in BOOLEAN /\ deep \in BOOLEAN
    /\ cursor \in 1..(IF Items = <<>> THEN 1 ELSE Len(Items))

\* Entries from elsewhere than the directory in the title are only listed under
\* the badge of the search.
BadgeCoversResults ==
    \A i \in 1..Len(entries) : deep \/ Front(entries[i].path) = currentDir

\* What the explorer shows is well formed and says what it is.
ListingOK == ExplorerOK /\ BadgeCoversResults

\* A file that was reported deleted does not come back into a directory listing
\* unless it really came back: neither from the cache nor from a reader of the
\* web server, except one that had listed it before and stores that later.
DeletedStayAway ==
    listed => \A i \in 1..Len(entries) : entries[i].path # gone

\* Deleting and editing touch the confirmed path alone, also when the listing it
\* was chosen from is out of date; what was below goes with it only if the path
\* became a directory after it was listed as a file.
Allowed(p) ==
    \/ p = pending.path
    \/ ~pending.isDir /\ IsStrictPrefix(pending.path, p)

ConfirmedOnly ==
    [][mode' = "list" /\ mode \in {"delete", "editor"} =>
          \A p \in Paths : tree'[p] # tree[p] => Allowed(p)]_explorerVars

\* A file that was uploaded to the directory in the title is in that directory.
UploadLandsInDir ==
    [][UploadFile /\ IsDirectory(tree, currentDir) =>
          IsDirectory(tree', currentDir) /\ tree'[Append(currentDir, "f")] = "file"]_explorerVars

=============================================================================
