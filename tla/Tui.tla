--------------------------------- MODULE Tui ---------------------------------
(***************************************************************************)
(* The event loop and the menus of grid.go and menus.go over the container *)
(* table of GridCursor: which view has the keyboard, which container a     *)
(* menu acts on, what it asks of the daemon, and the column configuration  *)
(* of pkg/config with the file it is saved to.                             *)
(*                                                                         *)
(* One goroutine handles every event.  A menu blocks it, so that the table *)
(* is not refreshed while a menu is open, and the daemon goes on changing. *)
(* When the last menu of a chain is closed, Display returns to the loop of *)
(* main, which calls it again: view "main".                                *)
(***************************************************************************)
EXTENDS GridCursor, Filtering

VARIABLES
    state,      \* of each object: what its metadata say
    readOnly,   \* the switch --read-only
    view,       \* what has the keyboard
    items, at,  \* the values of the open menu and its cursor
    target,     \* the object that the open menu was made for
    pending,    \* what the Confirm dialog will do
    request,    \* what the closing menu asked of the daemon, and of which object
    columns,    \* GlobalColumns
    file,       \* the configuration file
    saved       \* history: the enabled columns when the file was last written

M == INSTANCE MenuList

NoObject == <<None, 0>>
NoRequest == [op |-> None, of |-> NoObject]

daemonVars == <<connected, present, version, state>>
tableVars == <<highlighted, filtered, selectedID, Rows, Offset, maxRows>>
menuVars == <<items, at, target, pending>>
configVars == <<columns, file, saved>>
tuiVars == <<daemonVars, tableVars, readOnly, view, menuVars, request, configVars>>

Objects == Containers \X (1..MaxVersion)
States == {"running", "exited", "paused"}

\* Three of the columns; one of them is hidden at first.
DefaultColumns == <<[name |-> "name", on |-> TRUE],
                    [name |-> "host", on |-> FALSE],
                    [name |-> "cpu", on |-> TRUE]>>

\* EnabledColumns, and with it the string that ColumnsString makes of it.
Enabled(cols) ==
    LET shown == OnlyIn(cols, {col \in ToSet(cols) : col.on})
    IN  [i \in 1..Len(shown) |-> shown[i].name]

NoFile == <<"no file">>       \* no configuration file
Broken == <<"broken">>        \* one that was not written to its end

TuiInit ==
    /\ Init
    /\ state = [o \in Objects |-> "exited"]
    /\ readOnly \in BOOLEAN
    /\ view = "main"
    /\ items = <<>> /\ at = 1 /\ target = NoObject /\ pending = None
    /\ request = NoRequest
    /\ columns = DefaultColumns
    /\ file = NoFile /\ saved = <<>>

-----------------------------------------------------------------------------
(* The daemon, seen through the connector. *)

\* Bound: containers come only before the columns or the file are touched.
ContainerAppears(c) ==
    /\ columns = DefaultColumns /\ file = NoFile
    /\ Appear(c)
    /\ \E s \in States : state' = [state EXCEPT ![<<c, version'[c]>>] = s]
    /\ UNCHANGED <<readOnly, view, menuVars, request, configVars>>

\* The daemon changes the state of a container that the connector has.
Transition(c, s) ==
    /\ connected /\ c \in present /\ state[Obj(c)] # s
    /\ state' = [state EXCEPT ![Obj(c)] = s]
    /\ UNCHANGED <<connected, present, version, tableVars, readOnly, view,
                   menuVars, request, configVars>>

Daemon ==
    \/ \E c \in Containers : ContainerAppears(c) \/ \E s \in States : Transition(c, s)
    \/ /\ Reconnect \/ Lose \/ \E c \in Containers : Vanish(c)
       /\ UNCHANGED <<state, readOnly, view, menuVars, request, configVars>>

-----------------------------------------------------------------------------
(* Opening and closing. *)

NoMenu == items' = <<>> /\ at' = 1 /\ target' = NoObject /\ pending' = None

\* The chain of menus is over.
Close == view' = "main" /\ NoMenu /\ request' = NoRequest

\* A menu with the given values for an object, the cursor at the i-th.
ShowAt(v, vals, i, o) ==
    /\ view' = v /\ items' = vals /\ at' = i /\ target' = o
    /\ pending' = None /\ request' = NoRequest

Show(v, vals, o) == ShowAt(v, vals, 1, o)

\* Selected: the object that the cursor is on, if anything is listed.
Selected == filtered[Idx + 1]

\* Selected calls Idx, which touches the highlights if the list is empty.
SelectedIsCalled ==
    /\ highlighted' = HighlightedAfterIdx
    /\ UNCHANGED <<filtered, selectedID, Rows, Offset, maxRows>>

\* A menu that is made for the selected container closes if there is none.
ShowForSelected(v, vals) ==
    /\ SelectedIsCalled
    /\ IF filtered = <<>> THEN Close ELSE Show(v, vals, Selected)

Options(ro, s) ==
    CASE ro -> <<>>
      [] ~ro /\ s = "running" ->
            <<"stop", "pause", "restart", "signal", M!Separator,
              "exec", "tune_resources", M!Separator>>
      [] ~ro /\ s = "exited" -> <<"start", "remove", M!Separator>>
      [] ~ro /\ s = "paused" -> <<"unpause", M!Separator>>

\* The viewers of one container stand for each other.
ContainerItems(o) ==
    <<"single", "files", "export_report", M!Separator>>
        \o Options(readOnly, state[o]) \o <<"cancel", "quit">>
ResourceItems == <<"mem", "cpu", "restart", M!Separator, "cancel">>
PolicyItems == <<"always", "no", M!Separator, "cancel">>
SignalItems == <<"SIGHUP", "SIGKILL", M!Separator, "cancel">>
ExportItems == <<"json", "both", "dir", M!Separator, "cancel">>
ConfirmItems == <<"cancel", "yes">>
SortItems == <<"cpu", "name">>
ColumnItems(cols) ==
    [i \in 1..Len(cols) |-> cols[i].name] \o <<M!Separator, "downloadDir">>

-----------------------------------------------------------------------------
(* The loop of main, the table and the error view. *)

quietVars == <<state, readOnly, menuVars, configVars>>

\* Display begins: the list is refreshed, an error of that is only logged, and
\* the rows are drawn.
Redisplay ==
    /\ view = "main" /\ view' = "grid"
    /\ RefreshContainers \/ RefreshFails
    /\ Align(Len(filtered'), Offset)
    /\ request' = NoRequest
    /\ UNCHANGED <<maxRows, quietVars>>

\* Mutant of Tick: the table is refreshed under an open menu too.
TickAnywhere ==
    /\ view \in {"grid", "container", "confirm"} /\ RefreshDisplay
    /\ view' = IF connected THEN view ELSE "error"
    /\ UNCHANGED <<request, quietVars>>

\* The ticker of Display, and the key that shows all containers or only active
\* ones: an error of the refresh opens the error view.
Tick ==
    /\ view = "grid" /\ RefreshDisplay
    /\ view' = IF connected THEN "grid" ELSE "error"
    /\ UNCHANGED <<request, quietVars>>

\* Keys of the table: moving, resizing, and changing the order or the grouping,
\* where an error of the refresh is ignored.
GridKey ==
    /\ view = "grid"
    /\ \/ Keys \/ KeyInEmpty \/ RefreshDisplay
       \/ \E m \in Heights : Resize(m) \/ ToggleHeader(m)
    /\ UNCHANGED <<view, request, quietVars>>

\* Mutant of ErrorTick: the error view waits for a key.
ErrorTickStays ==
    /\ view = "error"
    /\ RefreshContainers \/ RefreshFails
    /\ UNCHANGED <<view, Rows, Offset, maxRows, request, quietVars>>

\* The ticker of ShowConnError: back to main once the refresh succeeds.
ErrorTick ==
    /\ view = "error"
    /\ RefreshContainers \/ RefreshFails
    /\ view' = IF connected THEN "main" ELSE "error"
    /\ UNCHANGED <<Rows, Offset, maxRows, request, quietVars>>

Quit == view' = "quit" /\ NoMenu /\ request' = NoRequest

ExitKey ==
    /\ view \in {"grid", "error"} /\ Quit
    /\ UNCHANGED <<daemonVars, tableVars, readOnly, configVars>>

-----------------------------------------------------------------------------
(* Menus in general. *)

Listing == {"sort", "columns", "container", "confirm", "signal", "resource",
            "policy", "export"}

\* Up and down in any menu that is a list.
MenuMove ==
    /\ view \in Listing
    /\ at' \in {M!Above(items, at), M!Below(items, at)}
    /\ UNCHANGED <<daemonVars, tableVars, readOnly, view, items, target,
                   pending, request, configVars>>

\* The keys that leave a view and do nothing else.
Leave ==
    /\ view \in (Listing \ {"columns"}) \cup {"help", "amount", "single", "files"}
    /\ Close
    /\ UNCHANGED <<daemonVars, tableVars, readOnly, configVars>>

HelpMenu ==
    /\ view = "grid" /\ Show("help", <<>>, NoObject)
    /\ UNCHANGED <<daemonVars, tableVars, readOnly, configVars>>

\* The filter applies while it is typed; Enter and Escape close the dialog.
FilterMenu ==
    \/ /\ view = "grid" /\ Show("filter", <<>>, NoObject)
       /\ UNCHANGED <<connected, present, version, tableVars>>
       /\ UNCHANGED <<state, readOnly, configVars>>
    \/ /\ view = "filter" /\ RefreshDisplay
       /\ Close \/ UNCHANGED <<view, menuVars, request>>
       /\ UNCHANGED <<state, readOnly, configVars>>

\* The cursor starts at the present field; Enter takes the one it is on.
SortMenu ==
    /\ view = "grid"
    /\ \E i \in 1..Len(SortItems) : ShowAt("sort", SortItems, i, NoObject)
    /\ UNCHANGED <<daemonVars, tableVars, readOnly, configVars>>

\* Enter in a menu whose choice asks nothing of the daemon and is not saved.
Pick ==
    /\ view = "sort" \/ (view = "export" /\ items[at] # "dir")
    /\ Close
    /\ UNCHANGED <<daemonVars, tableVars, readOnly, configVars>>

\* The export menu asks for a directory, by the item or by a key, and comes back
\* with the cursor on that item.
ExportDir ==
    /\ \/ view = "export" /\ ShowAt("exportDir", items, at, target)
       \/ /\ view = "exportDir"
          /\ ShowAt("export", items, M!CursorTo(items, at, "dir"), target)
    /\ UNCHANGED <<daemonVars, tableVars, readOnly, configVars>>

-----------------------------------------------------------------------------
(* Asking something of the daemon. *)

\* What a container's methods check before they call the manager.
AllowedIn(op, s) ==
    CASE op = "start" -> s # "running"
      [] op \in {"stop", "pause", "restart"} -> s = "running"
      [] op = "unpause" -> s = "paused"
      [] OTHER -> TRUE

\* What they set the state to if it succeeds.
StateAfter(op, s) ==
    CASE op \in {"start", "unpause"} -> "running"
      [] op = "stop" -> "exited"
      [] op = "pause" -> "paused"
      [] OTHER -> s

\* Mutant of Allows: the state was checked when the menu was made.
AllowsAny(op, o) == TRUE

Allows(op, o) == AllowedIn(op, state[o])

\* The menu closes; the daemon is asked, and does it or fails.
Ask(op, o) ==
    /\ view' = "main" /\ NoMenu
    /\ request' = [op |-> op, of |-> o]
    /\ \/ UNCHANGED state
       \/ state' = [state EXCEPT ![o] = StateAfter(op, @)]
    /\ UNCHANGED <<connected, present, version, readOnly, configVars>>

\* Confirmed, by the key or on the item: the pending operation is performed
\* unless the state no longer allows it.
Confirmed ==
    /\ view = "confirm"
    /\ IF Allows(pending, target) THEN Ask(pending, target)
       ELSE Close /\ UNCHANGED <<daemonVars, readOnly, configVars>>
    /\ UNCHANGED tableVars

\* ExecShell: several shells are tried; whether one was found changes nothing.
ExecShell ==
    /\ SelectedIsCalled
    /\ IF filtered = <<>> THEN Close /\ UNCHANGED <<daemonVars, readOnly, configVars>>
       ELSE Ask("exec", Selected)

\* Enter on an item of the signal, resource and policy menus, or its number.
SignalMenu ==
    /\ view = "signal" /\ items[at] # "cancel"
    /\ Ask("signal", target)
    /\ UNCHANGED tableVars

ResourceMenu ==
    /\ view = "resource"
    /\ \/ Show("amount", <<>>, target) \/ Show("policy", PolicyItems, target)
    /\ UNCHANGED <<daemonVars, tableVars, readOnly, configVars>>

\* An amount that is no number closes the dialog like Escape does: Leave.
UpdateResources ==
    /\ view \in {"amount", "policy"}
    /\ Ask("update", target)
    /\ UNCHANGED tableVars

-----------------------------------------------------------------------------
(* The menus that are made for the selected container. *)

\* Each asks for the selected container again, and closes if there is none.
OpenForSelected(v, vals) ==
    /\ SelectedIsCalled
    /\ IF filtered = <<>> THEN Close ELSE Show(v, vals, Selected)
    /\ UNCHANGED <<daemonVars, readOnly, configVars>>

OpenMenu(v) ==
    \/ v = "container" /\ OpenForSelected(v, ContainerItems(Selected))
    \/ v = "signal" /\ OpenForSelected(v, SignalItems)
    \/ v = "resource" /\ OpenForSelected(v, ResourceItems)
    \/ v = "export" /\ OpenForSelected(v, ExportItems)
    \/ v \in {"single", "files"} /\ OpenForSelected(v, <<>>)

\* The keys of the table that open them; read-only mode hides none of these.
GridMenuKey ==
    /\ view = "grid"
    /\ \/ \E v \in {"container", "resource", "single", "files"} : OpenMenu(v)
       \/ filtered # <<>> /\ OpenMenu("export")
       \/ ExecShell

\* What the keys of the container menu choose, by the state at that time.  The
\* key of "signal" is also a key for Up and never gets here.
HotKeys(s) ==
    {"single", "files", "export_report", "quit"}
        \cup (IF readOnly THEN {}
              ELSE {IF s = "running" THEN "stop" ELSE "start",
                    IF s = "paused" THEN "unpause" ELSE "pause", "remove"})
        \cup (IF readOnly \/ s # "running" THEN {}
              ELSE {"restart", "exec", "tune_resources"})

Operations == {"start", "stop", "remove", "pause", "unpause", "restart"}

\* Enter on an item, or a key: the next menu.
ContainerMenu ==
    /\ view = "container"
    /\ \E val \in HotKeys(state[target]) \cup {items[at]} :
         \/ val \in {"single", "files", "signal"} /\ OpenMenu(val)
         \/ val = "tune_resources" /\ OpenMenu("resource")
         \/ val = "exec" /\ ExecShell
         \/ /\ \/ /\ val \in Operations
                  /\ view' = "confirm" /\ items' = ConfirmItems /\ at' = 1
                  /\ pending' = val /\ UNCHANGED target
                  /\ request' = NoRequest
               \/ val = "export_report" /\ Show("export", ExportItems, target)
               \/ val = "cancel" /\ Close
               \/ val = "quit" /\ Quit
            /\ UNCHANGED <<daemonVars, tableVars, readOnly, configVars>>

-----------------------------------------------------------------------------
(* Columns and the configuration file.                                       *)
(* Bound: columns change and are saved only before a container has come.     *)

NoneYet == \A c \in Containers : version[c] = 0

Place(cols, name) == SelectInSeq(cols, LAMBDA col : col.name = name)

Swap(cols, i, j) == [cols EXCEPT ![i] = cols[j], ![j] = cols[i]]

ColumnLeft(cols, name) ==
    LET i == Place(cols, name) IN IF i > 1 THEN Swap(cols, i, i - 1) ELSE cols

ColumnRight(cols, name) ==
    LET i == Place(cols, name)
    IN  IF i \in 1..(Len(cols) - 1) THEN Swap(cols, i, i + 1) ELSE cols

\* Mutant of SetColumns: the columns that are not named stay as they were.
SetColumnsKeep(cols, names) ==
    LET others == {col \in ToSet(cols) : col.name \notin Range(names)}
    IN  [i \in 1..Len(names) |-> [name |-> names[i], on |-> TRUE]]
            \o OnlyIn(cols, others)

\* The named columns first, shown, and then the others, hidden.
SetColumns(cols, names) ==
    LET others == {col \in ToSet(cols) : col.name \notin Range(names)}
        rest == OnlyIn(cols, others)
    IN  [i \in 1..Len(names) |-> [name |-> names[i], on |-> TRUE]]
            \o [i \in 1..Len(rest) |-> [name |-> rest[i].name, on |-> FALSE]]

ColumnToggle(cols, name) ==
    [i \in 1..Len(cols) |->
        IF cols[i].name = name THEN [cols[i] EXCEPT !.on = ~@] ELSE cols[i]]

ColumnsMenu ==
    /\ view = "grid" /\ Show("columns", ColumnItems(columns), NoObject)
    /\ UNCHANGED <<daemonVars, tableVars, readOnly, configVars>>

\* Mutant of ColumnMove: the cursor stays where it was.
ColumnMoveOnly ==
    /\ view = "columns" /\ NoneYet
    /\ columns' \in {ColumnLeft(columns, items[at]), ColumnRight(columns, items[at])}
    /\ items' = ColumnItems(columns')
    /\ UNCHANGED <<daemonVars, tableVars, readOnly, view, at, target, pending,
                   request, file, saved>>

\* Page up and page down take the column along, if the cursor is on one.
ColumnMove ==
    /\ view = "columns" /\ NoneYet
    /\ \/ /\ columns' = ColumnLeft(columns, items[at])
          /\ at' = M!Above(items, at)
       \/ /\ columns' = ColumnRight(columns, items[at])
          /\ at' = M!Below(items, at)
    /\ items' = ColumnItems(columns')
    /\ UNCHANGED <<daemonVars, tableVars, readOnly, view, target, pending,
                   request, file, saved>>

ColumnSwitch ==
    /\ view = "columns" /\ NoneYet /\ items[at] # "downloadDir"
    /\ columns' = ColumnToggle(columns, items[at])
    /\ UNCHANGED <<daemonVars, tableVars, readOnly, view, menuVars, request,
                   file, saved>>

\* The prompt for the download directory opens over the menu, and closes.
ColumnsDir ==
    /\ view \in {"columns", "columnsDir"}
    /\ view' = IF view = "columns" THEN "columnsDir" ELSE "columns"
    /\ UNCHANGED <<daemonVars, tableVars, readOnly, menuVars, request, configVars>>

\* On the way out every container gets new widgets, if there is a connector.
ColumnsClose ==
    /\ view = "columns" /\ Close
    /\ IF connected THEN RecreateWidgets
       ELSE UNCHANGED <<connected, present, version, tableVars>>
    /\ UNCHANGED <<state, readOnly, configVars>>

\* Write: the old file is removed before the new one is created and filled, and
\* each of that may fail.  The table is refreshed in any case.
Save ==
    /\ view = "grid" /\ NoneYet /\ RefreshDisplay
    /\ \/ UNCHANGED <<file, saved>>
       \/ file' \in {NoFile, Broken} /\ saved' = <<>>
       \/ file' = Enabled(columns) /\ saved' = Enabled(columns)
    /\ UNCHANGED <<state, readOnly, view, menuVars, request, columns>>

\* What Read makes of the file.  With no column named the default order stays,
\* and a file that was cut short may name none or be no TOML at all.
Loaded ==
    IF file \in {NoFile, <<>>} THEN {DefaultColumns}
    ELSE IF file = Broken
         THEN {DefaultColumns, SetColumns(DefaultColumns, Enabled(DefaultColumns))}
         ELSE {SetColumns(DefaultColumns, file)}

\* The program is started again, with one --host or with several: with several
\* the host column is toggled after the file was read.
Start(hosts) ==
    /\ view = "quit"
    /\ connected' = FALSE /\ present' = {}
    /\ version' = [c \in Containers |-> 0]
    /\ highlighted' = {} /\ filtered' = <<>> /\ selectedID' = None
    /\ Rows' = 0 /\ Offset' = 0 /\ UNCHANGED maxRows
    /\ state' = [o \in Objects |-> "exited"]
    /\ readOnly' \in BOOLEAN
    /\ view' = "main" /\ NoMenu /\ request' = NoRequest
    /\ \E cols \in Loaded :
           columns' = IF hosts = 1 THEN cols ELSE ColumnToggle(cols, "host")
    /\ UNCHANGED <<file, saved>>

-----------------------------------------------------------------------------
Menus ==
    \/ MenuMove \/ Leave \/ HelpMenu \/ FilterMenu \/ SortMenu \/ Pick
    \/ ExportDir \/ Confirmed \/ SignalMenu \/ ResourceMenu
    \/ UpdateResources \/ GridMenuKey \/ ContainerMenu
    \/ ColumnsMenu \/ ColumnMove \/ ColumnSwitch \/ ColumnsDir \/ ColumnsClose

TuiNext ==
    \/ Daemon \/ Redisplay \/ Tick \/ GridKey \/ ErrorTick \/ ExitKey \/ Menus
    \/ Save \/ \E hosts \in {1, 2} : Start(hosts)

\* The loop of main goes on, and a ticker is one of the cases of each select.
Fairness ==
    WF_tuiVars(Redisplay) /\ WF_tuiVars(Tick) /\ WF_tuiVars(ErrorTick)

TuiSpec == TuiInit /\ [][TuiNext]_tuiVars /\ Fairness

-----------------------------------------------------------------------------
(* Properties. *)

Views == Listing \cup {"main", "grid", "error", "help", "filter", "columnsDir",
                       "exportDir", "amount", "single", "files", "quit"}

\* Every variable has its type, and the cursor of an open list is on an item
\* that can be chosen.
TuiOK ==
    /\ TypeOK
    /\ view \in Views
    /\ view \in Listing => at \in 1..Len(items) /\ M!Selectable(items, at)
    /\ target \in Objects \cup {NoObject}
    /\ pending \in Operations \cup {None}
    /\ {columns[i].name : i \in 1..Len(columns)} = {"name", "host", "cpu"}

Asked == request' # request /\ request' # NoRequest

\* Whatever chain of menus led to it, what is asked of the daemon is asked about
\* the row that the cursor of the table is on: some menus keep the container
\* they were made for and others look the selection up again.
ActsOnSelected ==
    [][Asked => filtered # <<>> /\ request'.of = Selected]_tuiVars

\* The daemon is asked to start, stop, pause and so on only where the state at
\* that moment allows it, though menus go stale while they are open, and in
\* read-only mode never: what is left then is a shell and the resources.
OpsAllowed ==
    [][Asked =>
          /\ AllowedIn(request'.op, state[request'.of])
          /\ readOnly => request'.op \in {"exec", "update"}]_tuiVars

\* A request of a menu is one that the selected container allows.
AsksRightly == ActsOnSelected /\ OpsAllowed

\* The error view closes by itself once the connection is back for good.
Recovers == <>[]connected => <>[](view # "error")

\* The columns shown when the file was last written are shown again after a
\* restart, in their order, unless several hosts toggle one of them.
SavedColumnsReturn ==
    [][Start(1) /\ saved # <<>> => Enabled(columns') = saved]_tuiVars

\* A column that is moved stays under the cursor, and stays as it was shown.
ColumnStaysSelected ==
    [][ColumnMove /\ columns' # columns =>
          /\ items'[at'] = items[at]
          /\ columns'[Place(columns', items[at])] = columns[Place(columns, items[at])]]_tuiVars

\* What the user does to the columns is what is seen, now and after a restart.
ColumnsKept == ColumnStaysSelected /\ SavedColumnsReturn

=============================================================================
