----------------------------- MODULE GridCursor -----------------------------
(***************************************************************************)
(* The container table: the GridCursor of cursor.go, the scrolling of      *)
(* internal/cwidgets/compact/grid.go and the event loop of grid.go that    *)
(* calls both.                                                             *)
(*                                                                         *)
(* The loop handles one event at a time and each event is one step.  The   *)
(* connector works in goroutines of its own: containers come and go, and   *)
(* the connection is lost and made again, between any two events.  A       *)
(* container that comes back, under the same ID, is a new object with a    *)
(* row that is not highlighted; the version tells objects apart.           *)
(***************************************************************************)
EXTENDS Integers, FiniteSets, SequencesExt

CONSTANTS
    Containers,   \* container IDs
    Heights,      \* numbers of rows that a terminal may have room for
    MaxVersion    \* bound on the objects made for one container

ASSUME HeightAssumption == Heights \subseteq Nat /\ Heights # {}
ASSUME VersionAssumption == MaxVersion \in Nat

None == "none"
ASSUME ContainersAssumption == IsFiniteSet(Containers) /\ None \notin Containers

VARIABLES
    connected,    \* ConnectorSuper.Get returns a connector
    present,      \* the containers it has
    version,      \* the version of each container's present object
    highlighted,  \* the objects whose rows are highlighted
    filtered,     \* the cursor's list of objects
    selectedID,
    Rows,         \* number of rows the grid was last laid out with
    Offset,       \* of the first row shown
    maxRows       \* rows there is room for

sourceVars == <<connected, present, version>>
gridVars == <<Rows, Offset, maxRows>>
vars == <<sourceVars, highlighted, filtered, selectedID, gridVars>>

Obj(c) == <<c, version[c]>>
Id(o) == o[1]
Current == {Obj(c) : c \in present}

Init ==
    /\ connected = FALSE
    /\ present = {}
    /\ version = [c \in Containers |-> 0]
    /\ highlighted = {}
    /\ filtered = <<>>
    /\ selectedID = None
    /\ Rows = 0 /\ Offset = 0
    /\ maxRows \in Heights

-----------------------------------------------------------------------------
(* The connector, from outside. *)

Appear(c) ==
    /\ connected /\ c \notin present /\ version[c] < MaxVersion
    /\ present' = present \cup {c}
    /\ version' = [version EXCEPT ![c] = @ + 1]
    /\ UNCHANGED <<connected, highlighted, filtered, selectedID, gridVars>>

Vanish(c) ==
    /\ connected /\ c \in present
    /\ present' = present \ {c}
    /\ UNCHANGED <<connected, version, highlighted, filtered, selectedID,
                   gridVars>>

\* A new connector has discovered nothing yet.
Reconnect ==
    /\ ~connected
    /\ connected' = TRUE /\ present' = {}
    /\ UNCHANGED <<version, highlighted, filtered, selectedID, gridVars>>

Lose ==
    /\ connected
    /\ connected' = FALSE
    /\ UNCHANGED <<present, version, highlighted, filtered, selectedID, gridVars>>

-----------------------------------------------------------------------------
(* The cursor.  The operators below say what becomes of the highlights and  *)
(* of the selection, so that one event can apply them in turn.              *)

\* Mutant of Reset: the rows are not unhighlighted first.
ResetOnly(list, hl, reachable) ==
    IF list = <<>> THEN [sel |-> selectedID, hl |-> hl]
    ELSE [sel |-> Id(list[1]), hl |-> hl \cup {list[1]}]

\* resetLocked: the connector's containers lose their highlight, if it can be
\* reached, and the first of the list is selected.  With an empty list the
\* selection stays.
Reset(list, hl, reachable) ==
    LET plain == IF reachable THEN hl \ Current ELSE hl
    IN  IF list = <<>> THEN [sel |-> selectedID, hl |-> plain]
        ELSE [sel |-> Id(list[1]), hl |-> plain \cup {list[1]}]

IndexOf(list, id) == SelectInSeq(list, LAMBDA o : Id(o) = id)

\* idxLocked, counting from 0.
Idx == IF IndexOf(filtered, selectedID) = 0 THEN 0
       ELSE IndexOf(filtered, selectedID) - 1

\* Mutant of Align: an offset past the end is kept.
AlignNot(n, o) == Rows' = n /\ Offset' = o

\* Align, at the end of RedrawRows.
Align(n, o) ==
    /\ Rows' = n
    /\ Offset' = IF o >= n \/ o < 0 THEN 0 ELSE o

\* Mutant of RefreshContainers: the selection is by position, not by ID.
RefreshToTop ==
    /\ connected
    /\ \E shown \in SUBSET present :
           \E list \in SetToSeqs({Obj(c) : c \in shown}) :
               LET r == Reset(list, highlighted, TRUE)
               IN  /\ filtered' = list
                   /\ selectedID' = r.sel /\ highlighted' = r.hl
    /\ UNCHANGED sourceVars

\* Mutant of RefreshContainers: the cursor is reset only when there is none.
RefreshKeeps ==
    /\ connected
    /\ \E shown \in SUBSET present :
           \E list \in SetToSeqs({Obj(c) : c \in shown}) :
               LET r == Reset(list, highlighted, TRUE)
               IN  /\ filtered' = list
                   /\ IF selectedID # None
                      THEN UNCHANGED <<selectedID, highlighted>>
                      ELSE selectedID' = r.sel /\ highlighted' = r.hl
    /\ UNCHANGED sourceVars

\* With a connector, whatever the filter and the sort order make of its
\* containers is listed, and unless the selected one is among them the cursor is
\* reset.  The reset asks for the connector again, and the connection may be
\* lost by then.
RefreshContainers ==
    /\ connected
    /\ \E shown \in SUBSET present, lost \in BOOLEAN :
           \E list \in SetToSeqs({Obj(c) : c \in shown}) :
               LET r == Reset(list, highlighted, ~lost)
               IN  /\ filtered' = list
                   /\ IF selectedID \in shown
                      THEN ~lost /\ UNCHANGED <<selectedID, highlighted>>
                      ELSE selectedID' = r.sel /\ highlighted' = r.hl
                   /\ connected' = ~lost
    /\ UNCHANGED <<present, version>>

\* Without one the list is emptied.
RefreshFails ==
    /\ ~connected
    /\ filtered' = <<>>
    /\ UNCHANGED <<sourceVars, highlighted, selectedID>>

\* RefreshDisplay: the rows are drawn again, unless the refresh failed.
RefreshDisplay ==
    \/ RefreshContainers /\ Align(Len(filtered'), Offset) /\ UNCHANGED maxRows
    \/ RefreshFails /\ UNCHANGED gridVars

\* The offset after ScrollPage with the cursor at i, from offset o, when there
\* is room for m rows.  Both tests are made in turn.
ScrollPage(i, o, m) ==
    IF Len(filtered) < m THEN 0
    ELSE LET down == IF i >= o + m THEN o + 1 ELSE o
         IN  IF i < down THEN down - 1 ELSE down

\* The cursor moves from its place to index n, and the offset to o.
MoveTo(n, o) ==
    /\ selectedID' = Id(filtered[n + 1])
    /\ highlighted' = (highlighted \ {filtered[Idx + 1]}) \cup {filtered[n + 1]}
    /\ Align(Len(filtered), o)
    /\ UNCHANGED <<sourceVars, filtered, maxRows>>

Up ==
    /\ Idx > 0
    /\ MoveTo(Idx - 1, ScrollPage(Idx - 1, Offset, maxRows))

Down ==
    /\ Idx < Len(filtered) - 1
    /\ MoveTo(Idx + 1, ScrollPage(Idx + 1, Offset, maxRows))

\* Mutant of PgUp: the offset stays.
PgUpStays ==
    /\ Idx > 0
    /\ MoveTo(IF Idx > maxRows THEN Idx - maxRows ELSE 0, Offset)

PgUp ==
    /\ Idx > 0
    /\ MoveTo(IF Idx > maxRows THEN Idx - maxRows ELSE 0,
              IF Offset > maxRows THEN Offset - maxRows ELSE 0)

PgDown ==
    /\ Idx < Len(filtered) - 1
    /\ LET last == Len(filtered) - 1
           end == Len(filtered) - maxRows
       IN  MoveTo(IF Idx + maxRows < last THEN Idx + maxRows ELSE last,
                  IF Offset + maxRows < end THEN Offset + maxRows ELSE end)

\* What is highlighted after Idx was called: in an empty list it resets the
\* cursor.
HighlightedAfterIdx ==
    IF filtered = <<>> THEN Reset(filtered, highlighted, connected).hl
    ELSE highlighted

\* A key that has nowhere to go still calls Idx.
KeyInEmpty ==
    /\ filtered = <<>>
    /\ highlighted' = HighlightedAfterIdx
    /\ UNCHANGED <<sourceVars, filtered, selectedID, gridVars>>

\* The terminal is resized; Idx is called unless all rows fit.
Resize(m) ==
    /\ maxRows' = m
    /\ highlighted' = IF Len(filtered) < m THEN highlighted
                                           ELSE HighlightedAfterIdx
    /\ Align(Len(filtered), ScrollPage(Idx, Offset, m))
    /\ UNCHANGED <<sourceVars, filtered, selectedID>>

\* The header is shown or hidden: the room for rows changes.
ToggleHeader(m) ==
    /\ maxRows' = m
    /\ Align(Len(filtered), Offset)
    /\ UNCHANGED <<sourceVars, highlighted, filtered, selectedID>>

\* The column menu is closed: all containers get new rows.
RecreateWidgets ==
    /\ connected
    /\ highlighted' = highlighted \ Current
    /\ UNCHANGED <<sourceVars, filtered, selectedID, gridVars>>

-----------------------------------------------------------------------------
Source == Reconnect \/ Lose \/ \E c \in Containers : Appear(c) \/ Vanish(c)

Keys == Up \/ Down \/ PgUp \/ PgDown

Next ==
    \/ Source \/ Keys
    \/ RefreshDisplay \/ KeyInEmpty \/ RecreateWidgets
    \/ \E m \in Heights : Resize(m) \/ ToggleHeader(m)

Spec == Init /\ [][Next]_vars

-----------------------------------------------------------------------------
(* Properties. *)

Listed == {Id(filtered[i]) : i \in 1..Len(filtered)}

\* The row of the selected container is on the screen.
InView == Offset <= Idx /\ Idx < Offset + maxRows

\* Every variable has its type.
TypeOK ==
    /\ connected \in BOOLEAN
    /\ present \subseteq Containers
    /\ version \in [Containers -> 0..MaxVersion]
    /\ highlighted \subseteq Containers \X (1..MaxVersion)
    /\ filtered \in Seq(Containers \X (1..MaxVersion))
    /\ selectedID \in Containers \cup {None}
    /\ Rows \in 0..Cardinality(Containers)
    /\ Offset \in Nat
    /\ maxRows \in Heights

\* While anything is listed the selected container is, once: the keys move from
\* a row that exists and a menu never acts on a container that is not shown.
SelectionListed ==
    /\ IsInjective([i \in 1..Len(filtered) |-> Id(filtered[i])])
    /\ filtered # <<>> => selectedID \in Listed

\* At most one row of the table is highlighted, and it is the selected one.
OneHighlight ==
    \A i \in 1..Len(filtered) :
        filtered[i] \in highlighted => Id(filtered[i]) = selectedID

\* Only keys, or the container no longer being listed, change the selection:
\* sorting, filtering, losing the connection and getting it back do not.
SelectionKept ==
    [][selectedID' # selectedID => Keys \/ selectedID \notin Listed']_vars

\* The grid always starts at a row it has.
OffsetInRange == Offset = 0 \/ Offset < Rows

\* The table is well formed, whatever the terminal's height: its window, its
\* selection and its highlight fit its rows.
TableOK == TypeOK /\ OffsetInRange /\ SelectionListed /\ OneHighlight

\* A key never moves the cursor off the screen.
KeysKeepInView ==
    [][Keys /\ InView /\ maxRows > 0 => InView']_vars

=============================================================================
