------------------------------ MODULE LogWidget ------------------------------
(***************************************************************************)
(* The log tab's widget, internal/cwidgets/single/logs.go: a buffer of the *)
(* newest lines, a filter, and a window on what the filter leaves, which   *)
(* follows the end or is paused.  The goroutine of the tab adds lines at   *)
(* any moment; the event loop handles a key and draws the window in one    *)
(* step, because a line that comes in between could as well have come      *)
(* before the key.  Wrapping, timestamps and saving are left out.          *)
(***************************************************************************)
EXTENDS Naturals, SequencesExt, Filtering

CONSTANTS
    MaxEntries,   \* maxLogEntries (8192)
    Height,       \* lines in the window
    Matching      \* the lines that contain the text filtered for

ASSUME EntriesAssumption == MaxEntries \in Nat \ {0}
ASSUME HeightAssumption == Height \in Nat \ {0}

VARIABLES
    Entries,
    Offset,          \* lines above the window
    AutoTail,
    Filter,          \* a text is filtered for
    FilterExclude

widgetVars == <<Entries, Offset, AutoTail, Filter, FilterExclude>>

WidgetInit ==
    /\ Entries = <<>> /\ Offset = 0
    /\ AutoTail = TRUE
    /\ Filter = FALSE /\ FilterExclude = FALSE

\* Mutant of Add: a new line is followed.
AddFollows(line) ==
    /\ Entries' = IF Len(Entries) < MaxEntries THEN Append(Entries, line)
                  ELSE Append(Tail(Entries), line)
    /\ AutoTail' = TRUE
    /\ UNCHANGED <<Offset, Filter, FilterExclude>>

\* Add: a full buffer loses its oldest line, and the window stays where it is.
Add(line) ==
    /\ Entries' = IF Len(Entries) < MaxEntries THEN Append(Entries, line)
                  ELSE Append(Tail(Entries), line)
    /\ UNCHANGED <<Offset, AutoTail, Filter, FilterExclude>>

Visible == {l \in Nat : Filter => (l \in Matching) # FilterExclude}
Rendered == OnlyIn(Entries, Visible)

MaxOffset == IF Len(Rendered) > Height THEN Len(Rendered) - Height ELSE 0

\* Draw, with offset o: the end when it is followed; scrolling past the end
\* follows it again.
Draw(o, tail) ==
    /\ UNCHANGED Entries
    /\ AutoTail' = (tail \/ o > MaxOffset')
    /\ Offset' = IF tail \/ o > MaxOffset' THEN MaxOffset' ELSE o

HalfPage == IF Height < 2 THEN 1 ELSE Height \div 2

Filtered == UNCHANGED <<Filter, FilterExclude>>

Up == Filtered /\ Draw(IF Offset > 0 THEN Offset - 1 ELSE 0, FALSE)
Down == Filtered /\ Draw(Offset + 1, AutoTail)
PgUp == Filtered /\ Draw(IF Offset > HalfPage THEN Offset - HalfPage ELSE 0, FALSE)
PgDown == Filtered /\ Draw(Offset + HalfPage, AutoTail)
ScrollTop == Filtered /\ Draw(0, FALSE)
ScrollBottom == Filtered /\ Draw(Offset, TRUE)

\* Both filters go back to the first line; whether the end is followed stays.
SetFilter ==
    /\ Filter' = ~Filter /\ UNCHANGED FilterExclude
    /\ Draw(0, AutoTail)

ToggleFilterMode ==
    /\ FilterExclude' = ~FilterExclude /\ UNCHANGED Filter
    /\ Draw(0, AutoTail)

Keys ==
    \/ Up \/ Down \/ PgUp \/ PgDown \/ ScrollTop \/ ScrollBottom
    \/ SetFilter \/ ToggleFilterMode

\* The view is drawn without a key of this tab.
Redraw == Filtered /\ Draw(Offset, AutoTail)

-----------------------------------------------------------------------------
(* Properties. *)

\* Every variable has its type, and the buffer respects its limit.
WidgetTypeOK ==
    /\ Len(Entries) <= MaxEntries
    /\ Offset \in 0..MaxEntries
    /\ AutoTail \in BOOLEAN /\ Filter \in BOOLEAN /\ FilterExclude \in BOOLEAN

Window ==
    SubSeq(Rendered, Offset + 1,
           IF Offset + Height < Len(Rendered) THEN Offset + Height
                                              ELSE Len(Rendered))

\* A paused window stays paused and goes on showing what it shows, whatever is
\* added below it, until a key is pressed; only a full buffer moves the lines
\* under it.
PausedStays ==
    [][~AutoTail /\ Len(Entries) < MaxEntries /\ ~Keys
          => ~AutoTail' /\ IsPrefix(Window, Window')]_widgetVars
=============================================================================
