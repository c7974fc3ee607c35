---------------------------- MODULE ResultsScreen ----------------------------
(* The results screen of git-impact (ResultsModel in tui_results.go) and    *)
(* the reports saved from it (newResultsSaveHandler in main.go). Bubble Tea *)
(* calls Update for one message at a time and runs every command Update     *)
(* returns, here a save, as a goroutine of its own, whose answer comes back *)
(* as a message when it is done.                                            *)
EXTENDS Integers

CONSTANTS
    Rows(_),        \* of a view: length of prImpacts, featureRows, rankedContributors
    Lines(_, _, _), \* of the text on row r of a view, wrapped for a width
    Widths, Heights,  \* of the viewport, for the sizes a window may have
    MaxSaves,       \* bound: saves asked for
    Seconds,        \* when saves are made: file names have the time in seconds
    WritesFail      \* whether the disk may refuse

Views == {"prs", "features", "contributors"}
Formats == {"md", "html"}

ASSUME ScreenAssumption ==
    /\ \A v \in Views : Rows(v) \in Nat
    /\ \A v \in Views, w \in Widths : \A r \in 1..Rows(v) : Lines(v, r, w) \in Nat
    /\ Heights \subseteq Nat \ {0} /\ Heights # {} /\ Widths # {}
    /\ MaxSaves \in Nat /\ Seconds # {} /\ WritesFail \in BOOLEAN

VARIABLES
    running,    \* the program takes messages
    activeView, cursor,  \* cursor counts from 0
    selected,   \* row of activeView shown in detail, 0 if none
    table,      \* the table component: whose rows it has, and its cursor
    viewport,   \* the viewport: size, offset, and the text it was given
    savePrompt,
    saveMessage,
    saves,      \* goroutines: format, the second in the file's name, progress,
                \* and whether Update has had the answer
    files       \* reports on the disk: "none", "partial" or "whole"

screen == <<activeView, cursor, selected, table, viewport>>
saving == <<saves, files>>
vars == <<running, screen, savePrompt, saveMessage, saving>>

AnySecond == CHOOSE t \in Seconds : TRUE
Files == Formats \X Seconds
NoText == [view |-> "prs", row |-> 0, width |-> 0]

InDetailView == selected # 0

Lesser(a, b) == IF a < b THEN a ELSE b
Greater(a, b) == IF a > b THEN a ELSE b

(* Mutant: the cursor may stand behind the last row. *)
ClampPastEnd(v, hi) == IF hi < 0 \/ v < 0 THEN 0 ELSE Lesser(v, hi + 1)

ClampResultCursor(v, hi) == IF hi < 0 \/ v < 0 THEN 0 ELSE Lesser(v, hi)

\* table.Model.SetCursor: min(max(n, 0), rows - 1), so -1 without rows.
TableCursor(n, of) == Lesser(Greater(n, 0), Rows(of) - 1)

TableViews == {"prs", "contributors"}

SyncTable(view, c) ==
    LET of == IF view = "contributors" THEN view ELSE "prs" IN
    [of |-> of, cursor |-> TableCursor(c, of)]

Init ==
    /\ running = TRUE
    /\ activeView = "prs" /\ cursor = 0 /\ selected = 0
    /\ table = SyncTable("prs", 0)
    /\ \E w \in Widths, h \in Heights :
         viewport = [width |-> w, height |-> h, offset |-> 0, text |-> NoText]
    /\ savePrompt = FALSE /\ saveMessage = <<"none">>
    /\ saves = [s \in 1..MaxSaves |-> [format |-> "md", second |-> AnySecond, state |-> "idle", told |-> FALSE]]
    /\ files = [f \in Files |-> "none"]

-----------------------------------------------------------------------------
(* The viewport. *)
LinesOf(text) == IF text.row = 0 THEN 0 ELSE Lines(text.view, text.row, text.width)

MaxOffset(vp) == Greater(0, LinesOf(vp.text) - vp.height)

(* Mutant: a window of another size keeps the text as it was wrapped. *)
RefreshOnlyNew(vp, view, row) ==
    IF row = 0 \/ (vp.text.view = view /\ vp.text.row = row) THEN vp
    ELSE LET new == [vp EXCEPT !.text = [view |-> view, row |-> row, width |-> vp.width]] IN
         [new EXCEPT !.offset = Lesser(@, MaxOffset(new))]

RefreshDetailViewport(vp, view, row) ==
    IF row = 0 THEN vp
    ELSE LET new == [vp EXCEPT !.text = [view |-> view, row |-> row, width |-> vp.width]] IN
         [new EXCEPT !.offset = Lesser(@, MaxOffset(new))]

WindowSize ==
    /\ running
    /\ \E w \in Widths, h \in Heights :
         viewport' = RefreshDetailViewport([viewport EXCEPT !.width = w, !.height = h],
                                           activeView, selected)
    /\ UNCHANGED <<running, activeView, cursor, selected, table, savePrompt, saveMessage, saving>>

\* Keys and mouse: by lines, by pages.
Scrolled(vp) == \E o \in 0..MaxOffset(vp) : viewport' = [vp EXCEPT !.offset = o]

Scroll ==
    /\ running /\ ~savePrompt /\ InDetailView
    /\ Scrolled(viewport)
    /\ UNCHANGED <<running, activeView, cursor, selected, table, savePrompt, saveMessage, saving>>

(* Any other message. The prompt is not asked for. *)
OtherMessage ==
    /\ running
    /\ IF InDetailView THEN Scrolled(viewport) /\ UNCHANGED cursor
       ELSE /\ cursor' = IF activeView \in TableViews THEN table.cursor ELSE cursor
            /\ UNCHANGED viewport
    /\ UNCHANGED <<running, activeView, selected, table, savePrompt, saveMessage, saving>>

-----------------------------------------------------------------------------
(* The keys, while no save prompt is open. *)
Key == running /\ ~savePrompt

NextView == [prs |-> "features", features |-> "contributors", contributors |-> "prs"]

(* Mutant: the detail stays open in the next view. *)
CycleViewKeepingDetail ==
    /\ Key
    /\ activeView' = NextView[activeView]
    /\ cursor' = 0 /\ table' = SyncTable(activeView', 0)
    /\ UNCHANGED <<running, selected, viewport, savePrompt, saveMessage, saving>>

CycleView ==
    /\ Key
    /\ activeView' = NextView[activeView]
    /\ selected' = 0
    /\ cursor' = 0 /\ table' = SyncTable(activeView', 0)
    /\ UNCHANGED <<running, viewport, savePrompt, saveMessage, saving>>

(* Mutant: the table is not told of the cursor. *)
MoveCursorOnly ==
    /\ Key /\ ~InDetailView
    /\ \E d \in {-1, 1} : cursor' = ClampResultCursor(cursor + d, Rows(activeView) - 1)
    /\ UNCHANGED <<running, activeView, selected, table, viewport, savePrompt, saveMessage, saving>>

MoveCursor ==
    /\ Key /\ ~InDetailView
    /\ \E d \in {-1, 1} : cursor' = ClampResultCursor(cursor + d, Rows(activeView) - 1)
    /\ table' = IF activeView \in TableViews
                THEN [table EXCEPT !.cursor = TableCursor(cursor', table.of)] ELSE table
    /\ UNCHANGED <<running, activeView, selected, viewport, savePrompt, saveMessage, saving>>

Opens == ~InDetailView /\ activeView # "contributors" /\ cursor \in 0..(Rows(activeView) - 1)

DrillIntoSelection ==
    /\ Key /\ Opens
    /\ selected' = cursor + 1
    /\ viewport' = RefreshDetailViewport(viewport, activeView, cursor + 1)
    /\ UNCHANGED <<running, activeView, cursor, table, savePrompt, saveMessage, saving>>

Back ==
    /\ Key
    /\ selected' = 0
    /\ viewport' = [viewport EXCEPT !.offset = 0]
    /\ UNCHANGED <<running, activeView, cursor, table, savePrompt, saveMessage, saving>>

AskFormat ==
    /\ Key
    /\ savePrompt' = TRUE /\ saveMessage' = <<"which format">>
    /\ UNCHANGED <<running, screen, saving>>

(* The command prints its result and exits: a save that is not done is lost *)
(* and its file may stay partial.                                           *)
Quit ==
    /\ running
    /\ running' = FALSE
    /\ UNCHANGED <<screen, savePrompt, saveMessage, saving>>

-----------------------------------------------------------------------------
(* The save prompt takes every other key for itself. It stays open until    *)
(* the answer comes, so the format may be given again.                      *)
CancelSave ==
    /\ running /\ savePrompt
    /\ savePrompt' = FALSE /\ saveMessage' = <<"cancelled">>
    /\ UNCHANGED <<running, screen, saving>>

State(s) == saves[s].state

SaveCmd ==
    /\ running /\ savePrompt
    /\ \E s \in DOMAIN saves, f \in Formats :
         /\ State(s) = "idle" /\ \A r \in 1..(s - 1) : State(r) # "idle"
         /\ saves' = [saves EXCEPT ![s] = [format |-> f, second |-> AnySecond, state |-> "asked", told |-> FALSE]]
    /\ UNCHANGED <<running, screen, savePrompt, saveMessage, files>>

FileOf(s) == <<saves[s].format, saves[s].second>>

(* saveReport, then os.WriteFile: an existing file is emptied first.        *)
CreateFile(s) ==
    /\ running /\ State(s) = "asked"
    /\ \E t \in Seconds :
         /\ saves' = [saves EXCEPT ![s].second = t, ![s].state = "writing"]
         /\ files' = [files EXCEPT ![<<saves[s].format, t>>] = "partial"]
    /\ UNCHANGED <<running, screen, savePrompt, saveMessage>>

(* All writers of one file write the same bytes from its start. *)
WriteFile(s) ==
    /\ running /\ State(s) = "writing"
    /\ saves' = [saves EXCEPT ![s].state = "saved"]
    /\ files' = [files EXCEPT ![FileOf(s)] = "whole"]
    /\ UNCHANGED <<running, screen, savePrompt, saveMessage>>

(* The file cannot be opened, or not be written to the end. *)
SaveFails(s) ==
    /\ running /\ WritesFail /\ State(s) \in {"asked", "writing"}
    /\ saves' = [saves EXCEPT ![s].state = "failed"]
    /\ UNCHANGED <<running, screen, savePrompt, saveMessage, files>>

(* Mutant: the answer to a save tells of success whatever came of it.       *)
OptimisticResult(s) ==
    /\ running /\ State(s) \in {"saved", "failed"} /\ ~saves[s].told
    /\ savePrompt' = FALSE
    /\ saveMessage' = <<"saved", FileOf(s)>>
    /\ saves' = [saves EXCEPT ![s].told = TRUE]
    /\ UNCHANGED <<running, screen, files>>

(* saveResultMsg: closes whatever prompt is open by now. *)
SaveResult(s) ==
    /\ running /\ State(s) \in {"saved", "failed"} /\ ~saves[s].told
    /\ savePrompt' = FALSE
    /\ saveMessage' = IF State(s) = "saved" THEN <<"saved", FileOf(s)>> ELSE <<"failed">>
    /\ saves' = [saves EXCEPT ![s].told = TRUE]
    /\ UNCHANGED <<running, screen, files>>

Save(s) == CreateFile(s) \/ WriteFile(s) \/ SaveFails(s) \/ SaveResult(s)

Update == WindowSize \/ Scroll \/ OtherMessage \/ CycleView \/ MoveCursor \/ DrillIntoSelection
          \/ Back \/ AskFormat \/ CancelSave \/ SaveCmd \/ Quit

Next == Update \/ (\E s \in DOMAIN saves : Save(s))

Spec == Init /\ [][Next]_vars

-----------------------------------------------------------------------------
TypeOK ==
    /\ running \in BOOLEAN /\ savePrompt \in BOOLEAN
    /\ activeView \in Views
    /\ cursor \in -1..(Rows(activeView) - 1) \cup {0}
    /\ selected \in 0..Rows(activeView)
    /\ table.of \in TableViews /\ table.cursor \in -1..(Rows(table.of) - 1)
    /\ viewport.width \in Widths /\ viewport.height \in Heights
    /\ viewport.offset \in Nat
    /\ saveMessage \in {<<"none">>, <<"which format">>, <<"cancelled">>, <<"failed">>}
                       \cup {<<"saved", f>> : f \in Files}
    /\ saves \in [1..MaxSaves -> [format : Formats, second : Seconds,
                                  state : {"idle", "asked", "writing", "saved", "failed"},
                                  told : BOOLEAN]]
    /\ files \in [Files -> {"none", "partial", "whole"}]

(* What is on the screen is what the keys act on: the list shows the rows   *)
(* of its view and marks the row Enter would open, and the detail is that   *)
(* of the selected row, wrapped for the window as it is now, and not        *)
(* scrolled past its end, whatever resizing, switching and scrolling came   *)
(* before.                                                                  *)
ScreenShowsSelection ==
    /\ activeView \in TableViews =>
         /\ table.of = activeView
         /\ Rows(activeView) > 0 => table.cursor = cursor
    /\ InDetailView =>
         /\ viewport.text = [view |-> activeView, row |-> selected, width |-> viewport.width]
         /\ viewport.offset <= MaxOffset(viewport)
         /\ activeView # "contributors" /\ selected = cursor + 1

(* A report said to be saved was saved, and is whole on the disk, although  *)
(* the format may be given twice and the saves of one second write one      *)
(* file: only while another save of that file is at work, or after another  *)
(* failed in it, may it be otherwise.                                       *)
SavedIsWhole ==
    \A f \in Files :
      saveMessage = <<"saved", f>> =>
        LET of == {s \in 1..MaxSaves : FileOf(s) = f} IN
        /\ \E s \in of : State(s) = "saved" /\ saves[s].told
        /\ files[f] = "whole" \/ \E s \in of : State(s) \in {"writing", "failed"}
=============================================================================
