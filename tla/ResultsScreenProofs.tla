------------------------- MODULE ResultsScreenProofs -------------------------
(* The results screen for any number of rows and lines, any windows, and    *)
(* any number of saves.                                                     *)
EXTENDS ResultsScreen, TLAPS

(* What the viewport was given is a row of a view, or nothing. *)
TextOK ==
    /\ viewport \in [width : Widths, height : Heights, offset : Nat,
                     text : [view : Views, row : Nat, width : Widths \cup {0}]]
    /\ viewport.text.row # 0 =>
         /\ viewport.text.row \in 1..Rows(viewport.text.view)
         /\ viewport.text.width \in Widths

TableOK == table \in [of : TableViews, cursor : Int]

(* The two halves of the screen's state, which no action changes both of    *)
(* but Init.                                                                *)
ScreenTypes ==
    /\ activeView \in Views
    /\ cursor \in -1..(Rows(activeView) - 1) \cup {0}
    /\ selected \in 0..Rows(activeView)
    /\ table.of \in TableViews /\ table.cursor \in -1..(Rows(table.of) - 1)

SavingTypes ==
    /\ running \in BOOLEAN /\ savePrompt \in BOOLEAN
    /\ saveMessage \in {<<"none">>, <<"which format">>, <<"cancelled">>, <<"failed">>}
                       \cup {<<"saved", f>> : f \in Files}
    /\ saves \in [1..MaxSaves -> [format : Formats, second : Seconds,
                                  state : {"idle", "asked", "writing", "saved", "failed"},
                                  told : BOOLEAN]]
    /\ files \in [Files -> {"none", "partial", "whole"}]

ScreenInv == ScreenTypes /\ TextOK /\ TableOK /\ ScreenShowsSelection

(* What was written is on the disk, unless its file was taken up again. *)
FilesTellSaves ==
    \A s \in 1..MaxSaves :
      State(s) = "saved" =>
        \/ files[FileOf(s)] = "whole"
        \/ \E r \in 1..MaxSaves : FileOf(r) = FileOf(s) /\ State(r) \in {"writing", "failed"}

SavingInv == SavingTypes /\ FilesTellSaves /\ SavedIsWhole

-----------------------------------------------------------------------------
LEMMA TypesTogether == ScreenTypes /\ SavingTypes /\ TextOK => TypeOK
<1> SUFFICES ASSUME ScreenTypes, SavingTypes, TextOK PROVE TypeOK
  OBVIOUS
<1>1. viewport.width \in Widths /\ viewport.height \in Heights /\ viewport.offset \in Nat
  BY DEF TextOK
<1> QED BY <1>1 DEF TypeOK, ScreenTypes, SavingTypes

LEMMA RowsNat == ASSUME NEW v \in Views PROVE Rows(v) \in Nat
  BY ScreenAssumption

(* No scrolling position of a text of the screen is negative. *)
LEMMA MaxOffsetNat ==
  ASSUME NEW vp,
         vp \in [width : Widths, height : Heights, offset : Nat,
                 text : [view : Views, row : Nat, width : Widths \cup {0}]],
         vp.text.row # 0 => vp.text.row \in 1..Rows(vp.text.view) /\ vp.text.width \in Widths
  PROVE  MaxOffset(vp) \in Nat
<1>1. LinesOf(vp.text) \in Nat
  <2>1. CASE vp.text.row = 0
    BY <2>1 DEF LinesOf
  <2>2. CASE vp.text.row # 0
    <3>1. vp.text.view \in Views /\ vp.text.width \in Widths
          /\ vp.text.row \in 1..Rows(vp.text.view)
      BY <2>2
    <3>2. Lines(vp.text.view, vp.text.row, vp.text.width) \in Nat
      BY <3>1, ScreenAssumption
    <3> QED BY <2>2, <3>2 DEF LinesOf
  <2> QED BY <2>1, <2>2
<1>2. vp.height \in Nat
  BY ScreenAssumption
<1> QED BY <1>1, <1>2 DEF MaxOffset, Greater

(* A refreshed viewport has the row, wrapped for its own width, and is not  *)
(* scrolled past its end.                                                   *)
LEMMA Refreshed ==
  ASSUME NEW vp, NEW view \in Views, NEW row,
         vp \in [width : Widths, height : Heights, offset : Nat,
                 text : [view : Views, row : Nat, width : Widths \cup {0}]],
         row \in 1..Rows(view),
         NEW new, new = RefreshDetailViewport(vp, view, row)
  PROVE  /\ new \in [width : Widths, height : Heights, offset : Nat,
                     text : [view : Views, row : Nat, width : Widths \cup {0}]]
         /\ new.width = vp.width
         /\ new.text = [view |-> view, row |-> row, width |-> new.width]
         /\ new.offset <= MaxOffset(new)
<1> DEFINE text == [view |-> view, row |-> row, width |-> vp.width]
           given == [vp EXCEPT !.text = text]
<1>1. row \in Nat /\ row # 0
  BY RowsNat
<1>2. /\ given \in [width : Widths, height : Heights, offset : Nat,
                    text : [view : Views, row : Nat, width : Widths \cup {0}]]
      /\ given.text = text /\ given.width = vp.width
      /\ given.height = vp.height /\ given.offset = vp.offset
  BY <1>1
<1>3. MaxOffset(given) \in Nat
  <2> HIDE DEF given
  <2> QED BY <1>1, <1>2, MaxOffsetNat
<1>4. new = [given EXCEPT !.offset = Lesser(given.offset, MaxOffset(given))]
  BY <1>1 DEF RefreshDetailViewport
<1> HIDE DEF given
<1>5. Lesser(given.offset, MaxOffset(given)) \in Nat
      /\ Lesser(given.offset, MaxOffset(given)) <= MaxOffset(given)
  BY <1>2, <1>3 DEF Lesser
<1>6. /\ new \in [width : Widths, height : Heights, offset : Nat,
                  text : [view : Views, row : Nat, width : Widths \cup {0}]]
      /\ new.text = given.text /\ new.width = given.width /\ new.height = given.height
      /\ new.offset = Lesser(given.offset, MaxOffset(given))
  BY <1>2, <1>4, <1>5
<1>7. MaxOffset(new) = MaxOffset(given)
  BY <1>6 DEF MaxOffset
<1> QED BY <1>2, <1>5, <1>6, <1>7

LEMMA CursorClamped ==
  ASSUME NEW v \in Int, NEW n \in Nat
  PROVE  /\ ClampResultCursor(v, n - 1) \in 0..(n - 1) \cup {0}
         /\ n > 0 => ClampResultCursor(v, n - 1) \in 0..(n - 1)
  BY DEF ClampResultCursor, Lesser

(* The table takes a cursor that is in range as it is. *)
LEMMA TableTakes ==
  ASSUME NEW c \in Int, NEW of \in Views
  PROVE  /\ TableCursor(c, of) \in -1..(Rows(of) - 1)
         /\ c \in 0..(Rows(of) - 1) => TableCursor(c, of) = c
  BY RowsNat DEF TableCursor, Lesser, Greater

-----------------------------------------------------------------------------
LEMMA ScreenInvInit == Init => ScreenInv
<1> SUFFICES ASSUME Init PROVE ScreenInv
  OBVIOUS
<1>1. Rows("prs") \in Nat
  BY RowsNat DEF Views
<1>2. /\ TableCursor(0, "prs") \in -1..(Rows("prs") - 1)
      /\ Rows("prs") > 0 => TableCursor(0, "prs") = 0
  BY <1>1, TableTakes DEF Views
<1>3. table = [of |-> "prs", cursor |-> TableCursor(0, "prs")]
  BY DEF Init, SyncTable
<1>4. PICK w \in Widths, h \in Heights :
        viewport = [width |-> w, height |-> h, offset |-> 0, text |-> NoText]
  BY DEF Init
<1>5. TextOK
  BY <1>4 DEF TextOK, NoText, Views
<1>6. TableOK
  BY <1>1, <1>2, <1>3 DEF TableOK, TableViews
<1>7. ScreenTypes
  BY <1>1, <1>2, <1>3 DEF Init, ScreenTypes, TableViews, Views
<1>8. ScreenShowsSelection
  BY <1>2, <1>3 DEF Init, ScreenShowsSelection, InDetailView
<1> QED BY <1>5, <1>6, <1>7, <1>8 DEF ScreenInv

(* Every message and key keeps the screen in step with its selection. *)
LEMMA ScreenInvStep == ScreenInv /\ [Next]_vars => ScreenInv'
<1> SUFFICES ASSUME ScreenInv, [Next]_vars PROVE ScreenInv'
  OBVIOUS
<1> USE DEF ScreenInv
<1>0. /\ Rows(activeView) \in Nat /\ cursor \in Int /\ selected \in Nat
      /\ selected # 0 => selected \in 1..Rows(activeView)
  BY RowsNat DEF ScreenTypes
<1>1. CASE UNCHANGED screen
  <2>1. ScreenTypes' BY <1>1 DEF ScreenTypes, screen
  <2>2. TextOK' BY <1>1 DEF TextOK, screen
  <2>3. TableOK' BY <1>1 DEF TableOK, screen
  <2>4. ScreenShowsSelection'
    BY <1>1 DEF ScreenShowsSelection, InDetailView, MaxOffset, LinesOf, screen
  <2> QED BY <2>1, <2>2, <2>3, <2>4
<1>2. CASE WindowSize
  <2>1. PICK w \in Widths, h \in Heights :
          viewport' = RefreshDetailViewport([viewport EXCEPT !.width = w, !.height = h],
                                            activeView, selected)
    BY <1>2 DEF WindowSize
  <2> DEFINE vp == [viewport EXCEPT !.width = w, !.height = h]
  <2>2. /\ vp \in [width : Widths, height : Heights, offset : Nat,
                    text : [view : Views, row : Nat, width : Widths \cup {0}]]
        /\ vp.width = w /\ vp.text = viewport.text
    BY DEF TextOK
  <2>3. ScreenTypes' /\ TableOK'
    BY <1>2 DEF WindowSize, ScreenTypes, TableOK
  <2>4. CASE selected = 0
    <3>1. viewport' = vp
      BY <2>1, <2>4 DEF RefreshDetailViewport
    <3>2. TextOK'
      BY <2>2, <3>1 DEF TextOK
    <3>3. ScreenShowsSelection'
      BY <1>2, <2>4 DEF WindowSize, ScreenShowsSelection, InDetailView
    <3> QED BY <2>3, <3>2, <3>3
  <2>5. CASE selected # 0
    <3>0. viewport' = RefreshDetailViewport(vp, activeView, selected)
      BY <2>1
    <3> HIDE DEF vp
    <3>1. selected \in 1..Rows(activeView) /\ activeView \in Views
      BY <1>0, <2>5 DEF ScreenTypes
    <3>2. /\ viewport' \in [width : Widths, height : Heights, offset : Nat,
                    text : [view : Views, row : Nat, width : Widths \cup {0}]]
          /\ viewport'.width = w
          /\ viewport'.text = [view |-> activeView, row |-> selected, width |-> viewport'.width]
          /\ viewport'.offset <= MaxOffset(viewport')
      BY <2>2, <3>0, <3>1, Refreshed
    <3>3. TextOK'
      BY <3>1, <3>2 DEF TextOK
    <3>4. ScreenShowsSelection'
      BY <1>2, <3>2 DEF WindowSize, ScreenShowsSelection, InDetailView, MaxOffset, LinesOf
    <3> QED BY <2>3, <3>3, <3>4
  <2> QED BY <2>4, <2>5
<1>3. CASE \E o \in 0..MaxOffset(viewport) :
              /\ viewport' = [viewport EXCEPT !.offset = o]
              /\ UNCHANGED <<activeView, cursor, selected, table>>
  <2>1. PICK o \in 0..MaxOffset(viewport) : viewport' = [viewport EXCEPT !.offset = o]
    BY <1>3
  <2>2. /\ o \in Nat /\ o <= MaxOffset(viewport)
        /\ MaxOffset(viewport) \in Nat
    BY MaxOffsetNat DEF TextOK
  <2>3. /\ viewport' \in [width : Widths, height : Heights, offset : Nat,
                    text : [view : Views, row : Nat, width : Widths \cup {0}]]
        /\ viewport'.text = viewport.text /\ viewport'.height = viewport.height
        /\ viewport'.width = viewport.width /\ viewport'.offset = o
    BY <2>1, <2>2 DEF TextOK
  <2>4. ScreenTypes' /\ TableOK' /\ TextOK'
    BY <1>3, <2>3 DEF ScreenTypes, TableOK, TextOK
  <2>5. ScreenShowsSelection'
    BY <1>3, <2>2, <2>3 DEF ScreenShowsSelection, InDetailView, MaxOffset, LinesOf
  <2> QED BY <2>4, <2>5
<1>4. CASE OtherMessage
  <2>1. CASE InDetailView
    BY <1>3, <1>4, <2>1 DEF OtherMessage, Scrolled
  <2>2. CASE ~InDetailView
    <3>1. /\ cursor' = IF activeView \in TableViews THEN table.cursor ELSE cursor
          /\ UNCHANGED <<viewport, activeView, selected, table>>
      BY <1>4, <2>2 DEF OtherMessage
    <3>2. cursor' \in -1..(Rows(activeView) - 1) \cup {0}
      BY <3>1, <1>0 DEF ScreenTypes, ScreenShowsSelection
    <3>3. ScreenTypes' /\ TableOK' /\ TextOK'
      BY <3>1, <3>2 DEF ScreenTypes, TableOK, TextOK
    <3>4. ScreenShowsSelection'
      BY <2>2, <3>1 DEF ScreenShowsSelection, InDetailView
    <3> QED BY <3>3, <3>4
  <2> QED BY <2>1, <2>2
<1>5. CASE Scroll
  BY <1>3, <1>5 DEF Scroll, Scrolled
<1>6. CASE CycleView
  <2>1. /\ activeView' = NextView[activeView] /\ activeView' \in Views
        /\ selected' = 0 /\ cursor' = 0 /\ UNCHANGED viewport
        /\ table' = SyncTable(activeView', 0)
    BY <1>6 DEF CycleView, NextView, ScreenTypes, Views
  <2>2. PICK of \in TableViews :
          /\ table' = [of |-> of, cursor |-> TableCursor(0, of)]
          /\ activeView' \in TableViews => of = activeView'
    BY <2>1 DEF SyncTable, TableViews, Views
  <2>3. /\ of \in Views /\ Rows(of) \in Nat /\ Rows(activeView') \in Nat
        /\ TableCursor(0, of) \in -1..(Rows(of) - 1)
        /\ Rows(of) > 0 => TableCursor(0, of) = 0
    BY <2>1, RowsNat, TableTakes DEF TableViews, Views
  <2>4. ScreenTypes' /\ TableOK' /\ TextOK'
    BY <2>1, <2>2, <2>3 DEF ScreenTypes, TableOK, TextOK
  <2>5. ScreenShowsSelection'
    BY <2>1, <2>2, <2>3 DEF ScreenShowsSelection, InDetailView
  <2> QED BY <2>4, <2>5
<1>7. CASE MoveCursor
  <2>1. PICK d \in {-1, 1} : cursor' = ClampResultCursor(cursor + d, Rows(activeView) - 1)
    BY <1>7 DEF MoveCursor
  <2>2. /\ ~InDetailView /\ UNCHANGED <<activeView, selected, viewport>>
        /\ table' = IF activeView \in TableViews
                    THEN [table EXCEPT !.cursor = TableCursor(cursor', table.of)] ELSE table
    BY <1>7 DEF MoveCursor
  <2>3. /\ cursor' \in 0..(Rows(activeView) - 1) \cup {0}
        /\ Rows(activeView) > 0 => cursor' \in 0..(Rows(activeView) - 1)
    BY <1>0, <2>1, CursorClamped
  <2>4. /\ table.of \in Views
        /\ TableCursor(cursor', table.of) \in -1..(Rows(table.of) - 1)
        /\ cursor' \in 0..(Rows(table.of) - 1) => TableCursor(cursor', table.of) = cursor'
    BY <1>0, <2>3, TableTakes DEF ScreenTypes, TableViews, Views
  <2>5. ScreenTypes' /\ TableOK' /\ TextOK'
    BY <1>0, <2>2, <2>3, <2>4, RowsNat DEF ScreenTypes, TableOK, TextOK
  <2>6. ScreenShowsSelection'
    BY <2>2, <2>3, <2>4 DEF ScreenShowsSelection, InDetailView, TableOK
  <2> QED BY <2>5, <2>6
<1>8. CASE DrillIntoSelection
  <2>1. /\ ~InDetailView /\ activeView # "contributors" /\ cursor \in 0..(Rows(activeView) - 1)
        /\ selected' = cursor + 1
        /\ viewport' = RefreshDetailViewport(viewport, activeView, cursor + 1)
        /\ UNCHANGED <<activeView, cursor, table>>
    BY <1>8 DEF DrillIntoSelection, Opens
  <2>2. cursor + 1 \in 1..Rows(activeView) /\ activeView \in Views
    BY <1>0, <2>1 DEF ScreenTypes
  <2>3. /\ viewport' \in [width : Widths, height : Heights, offset : Nat,
                    text : [view : Views, row : Nat, width : Widths \cup {0}]]
        /\ viewport'.width = viewport.width
        /\ viewport'.text = [view |-> activeView, row |-> cursor + 1, width |-> viewport'.width]
        /\ viewport'.offset <= MaxOffset(viewport')
    BY <2>1, <2>2, Refreshed DEF TextOK
  <2>4. TextOK'
    BY <2>2, <2>3 DEF TextOK
  <2>5. ScreenTypes' /\ TableOK'
    BY <2>1, <2>2 DEF ScreenTypes, TableOK
  <2>6. ScreenShowsSelection'
    BY <2>1, <2>3 DEF ScreenShowsSelection, InDetailView, MaxOffset, LinesOf
  <2> QED BY <2>4, <2>5, <2>6
<1>9. CASE Back
  <2>1. /\ selected' = 0 /\ UNCHANGED <<activeView, cursor, table>>
        /\ viewport' = [viewport EXCEPT !.offset = 0]
    BY <1>9 DEF Back
  <2>2. ScreenTypes' /\ TableOK' /\ TextOK'
    BY <1>0, <2>1 DEF ScreenTypes, TableOK, TextOK
  <2>3. ScreenShowsSelection'
    BY <2>1 DEF ScreenShowsSelection, InDetailView
  <2> QED BY <2>2, <2>3
<1>10. CASE AskFormat \/ CancelSave \/ SaveCmd \/ Quit \/ \E s \in DOMAIN saves : Save(s)
  BY <1>1, <1>10 DEF AskFormat, CancelSave, SaveCmd, Quit, Save, CreateFile, WriteFile,
                    SaveFails, SaveResult
<1>11. CASE UNCHANGED vars
  BY <1>1, <1>11 DEF vars
<1> QED BY <1>2, <1>4, <1>5, <1>6, <1>7, <1>8, <1>9, <1>10, <1>11 DEF Next, Update

(* A report is told to be saved once it is on the disk, and the files of    *)
(* saves follow what their goroutines did last.                             *)
LEMMA SavingInvStep == SavingInv /\ [Next]_vars => SavingInv'
<1> SUFFICES ASSUME SavingInv, [Next]_vars PROVE SavingInv'
  OBVIOUS
<1> USE DEF SavingInv
<1>0. DOMAIN saves = 1..MaxSaves /\ AnySecond \in Seconds
  BY ScreenAssumption DEF SavingTypes, AnySecond
<1>1. CASE UNCHANGED <<saves, files>> /\ (saveMessage' = saveMessage
                 \/ saveMessage' = <<"which format">> \/ saveMessage' = <<"cancelled">>)
           /\ running' \in BOOLEAN /\ savePrompt' \in BOOLEAN
  <2>1. SavingTypes'
    BY <1>1 DEF SavingTypes
  <2>2. FilesTellSaves'
    BY <1>1 DEF FilesTellSaves, FileOf, State
  <2>3. SavedIsWhole'
    BY <1>1 DEF SavedIsWhole, FileOf, State
  <2> QED BY <2>1, <2>2, <2>3
<1>2. CASE SaveCmd
  <2>1. PICK s \in DOMAIN saves, f \in Formats :
          /\ State(s) = "idle"
          /\ saves' = [saves EXCEPT ![s] = [format |-> f, second |-> AnySecond,
                                           state |-> "asked", told |-> FALSE]]
    BY <1>2 DEF SaveCmd
  <2>2. UNCHANGED <<running, savePrompt, saveMessage, files>>
    BY <1>2 DEF SaveCmd
  <2>3. SavingTypes'
    BY <1>0, <2>1, <2>2 DEF SavingTypes
  <2>4. \A r \in 1..MaxSaves : r # s => saves'[r] = saves[r]
    BY <1>0, <2>1
  <2>5. saves'[s].state = "asked" /\ s \in 1..MaxSaves
    BY <1>0, <2>1
  <2>6. FilesTellSaves'
    BY <2>1, <2>2, <2>4, <2>5 DEF FilesTellSaves, FileOf, State
  <2>7. SavedIsWhole'
    BY <2>1, <2>2, <2>4, <2>5 DEF SavedIsWhole, FileOf, State
  <2> QED BY <2>3, <2>6, <2>7
<1>3. ASSUME NEW s \in DOMAIN saves, CreateFile(s) PROVE SavingInv'
  <2>1. PICK t \in Seconds :
          /\ saves' = [saves EXCEPT ![s].second = t, ![s].state = "writing"]
          /\ files' = [files EXCEPT ![<<saves[s].format, t>>] = "partial"]
    BY <1>3 DEF CreateFile
  <2>2. UNCHANGED <<running, savePrompt, saveMessage>> /\ saves[s].state = "asked"
    BY <1>3 DEF CreateFile, State
  <2>3. SavingTypes'
    BY <1>0, <2>1, <2>2 DEF SavingTypes
  <2>4. \A r \in 1..MaxSaves : r # s => saves'[r] = saves[r]
    BY <1>0, <2>1
  <2>5. /\ s \in 1..MaxSaves /\ saves'[s].state = "writing"
        /\ saves'[s].format = saves[s].format /\ saves'[s].second = t
    BY <1>0, <2>1 DEF SavingTypes
  <2> DEFINE f == <<saves'[s].format, saves'[s].second>>
  <2>6. \A g \in Files : g # f => files'[g] = files[g]
    BY <2>1, <2>5 DEF SavingTypes
  <2>7. \A r \in 1..MaxSaves : <<saves[r].format, saves[r].second>> \in Files
    BY DEF SavingTypes, Files
  <2> HIDE DEF f
  <2>8. FilesTellSaves'
    <3> SUFFICES ASSUME NEW r \in 1..MaxSaves, State(r)' = "saved"
                 PROVE  \/ files'[FileOf(r)'] = "whole"
                        \/ \E q \in 1..MaxSaves :
                             FileOf(q)' = FileOf(r)' /\ State(q)' \in {"writing", "failed"}
      BY DEF FilesTellSaves
    <3>1. r # s /\ saves'[r] = saves[r]
      BY <2>4, <2>5 DEF State
    <3>2. CASE FileOf(r)' = f
      BY <2>5, <3>2 DEF f, FileOf, State
    <3>3. CASE FileOf(r)' # f
      <4>1. files'[FileOf(r)'] = files[FileOf(r)] /\ FileOf(r)' = FileOf(r)
        BY <2>6, <2>7, <3>1, <3>3 DEF FileOf
      <4>2. CASE files[FileOf(r)] = "whole"
        BY <4>1, <4>2
      <4>3. CASE \E q \in 1..MaxSaves :
                   FileOf(q) = FileOf(r) /\ State(q) \in {"writing", "failed"}
        BY <2>2, <2>4, <4>1, <4>3 DEF FileOf, State
      <4> QED BY <3>1, <4>2, <4>3 DEF FilesTellSaves, State
    <3> QED BY <3>2, <3>3
  <2>9. SavedIsWhole'
    <3> SUFFICES ASSUME NEW g \in Files, saveMessage' = <<"saved", g>>
                 PROVE  /\ \E r \in 1..MaxSaves :
                             FileOf(r)' = g /\ State(r)' = "saved" /\ saves'[r].told
                        /\ \/ files'[g] = "whole"
                           \/ \E r \in 1..MaxSaves :
                                FileOf(r)' = g /\ State(r)' \in {"writing", "failed"}
      BY DEF SavedIsWhole
    <3>1. \E r \in 1..MaxSaves : FileOf(r)' = g /\ State(r)' = "saved" /\ saves'[r].told
      BY <2>2, <2>4 DEF SavedIsWhole, FileOf, State
    <3>2. CASE g = f
      BY <2>5, <3>1, <3>2 DEF f, FileOf, State
    <3>3. CASE g # f
      BY <2>2, <2>4, <2>6, <3>1, <3>3 DEF SavedIsWhole, FileOf, State
    <3> QED BY <3>1, <3>2, <3>3
  <2> QED BY <2>3, <2>8, <2>9
<1>4. ASSUME NEW s \in DOMAIN saves, WriteFile(s) PROVE SavingInv'
  <2>1. /\ saves' = [saves EXCEPT ![s].state = "saved"]
        /\ files' = [files EXCEPT ![FileOf(s)] = "whole"]
        /\ UNCHANGED <<running, savePrompt, saveMessage>> /\ saves[s].state = "writing"
    BY <1>4 DEF WriteFile, State
  <2>2. SavingTypes'
    BY <1>0, <2>1 DEF SavingTypes
  <2>3. \A r \in 1..MaxSaves : r # s => saves'[r] = saves[r]
    BY <1>0, <2>1
  <2>4. /\ s \in 1..MaxSaves /\ saves'[s].state = "saved" /\ saves'[s].told = saves[s].told
        /\ saves'[s].format = saves[s].format /\ saves'[s].second = saves[s].second
    BY <1>0, <2>1 DEF SavingTypes
  <2>5. \A r \in 1..MaxSaves : FileOf(r) \in Files /\ FileOf(r)' = FileOf(r)
    BY <2>3, <2>4 DEF SavingTypes, Files, FileOf
  <2>6. files'[FileOf(s)] = "whole" /\ \A g \in Files : g # FileOf(s) => files'[g] = files[g]
    BY <2>1, <2>4, <2>5 DEF SavingTypes
  <2>7. FilesTellSaves'
    BY <2>3, <2>4, <2>5, <2>6 DEF FilesTellSaves, State
  <2>8. SavedIsWhole'
    BY <2>1, <2>3, <2>4, <2>5, <2>6 DEF SavedIsWhole, State
  <2> QED BY <2>2, <2>7, <2>8
<1>5. ASSUME NEW s \in DOMAIN saves, SaveFails(s) PROVE SavingInv'
  <2>1. /\ saves' = [saves EXCEPT ![s].state = "failed"]
        /\ UNCHANGED <<running, savePrompt, saveMessage, files>>
        /\ saves[s].state \in {"asked", "writing"}
    BY <1>5 DEF SaveFails, State
  <2>2. SavingTypes'
    BY <1>0, <2>1 DEF SavingTypes
  <2>3. \A r \in 1..MaxSaves : r # s => saves'[r] = saves[r]
    BY <1>0, <2>1
  <2>4. /\ s \in 1..MaxSaves /\ saves'[s].state = "failed"
        /\ saves'[s].format = saves[s].format /\ saves'[s].second = saves[s].second
    BY <1>0, <2>1 DEF SavingTypes
  <2>5. \A r \in 1..MaxSaves : FileOf(r)' = FileOf(r)
    BY <2>3, <2>4 DEF FileOf
  <2>6. FilesTellSaves'
    BY <2>1, <2>3, <2>4, <2>5 DEF FilesTellSaves, State
  <2>7. SavedIsWhole'
    BY <2>1, <2>3, <2>4, <2>5 DEF SavedIsWhole, State
  <2> QED BY <2>2, <2>6, <2>7
<1>6. ASSUME NEW s \in DOMAIN saves, SaveResult(s) PROVE SavingInv'
  <2>1. /\ saves' = [saves EXCEPT ![s].told = TRUE]
        /\ saveMessage' = IF State(s) = "saved" THEN <<"saved", FileOf(s)>> ELSE <<"failed">>
        /\ savePrompt' = FALSE /\ UNCHANGED <<running, files>>
    BY <1>6 DEF SaveResult
  <2>2. /\ s \in 1..MaxSaves /\ saves'[s].told
        /\ \A r \in 1..MaxSaves : /\ FileOf(r) \in Files /\ FileOf(r)' = FileOf(r)
                                  /\ State(r)' = State(r)
                                  /\ saves[r].told => saves'[r].told
    BY <1>0, <2>1 DEF SavingTypes, Files, FileOf, State
  <2>3. SavingTypes'
    BY <1>0, <2>1, <2>2 DEF SavingTypes
  <2>4. FilesTellSaves'
    BY <2>1, <2>2 DEF FilesTellSaves
  <2>5. SavedIsWhole'
    <3>1. CASE State(s) = "saved"
      BY <2>1, <2>2, <3>1 DEF SavedIsWhole, FilesTellSaves
    <3>2. CASE State(s) # "saved"
      BY <2>1, <2>2, <3>2 DEF SavedIsWhole
    <3> QED BY <3>1, <3>2
  <2> QED BY <2>3, <2>4, <2>5
<1>7. CASE WindowSize \/ Scroll \/ OtherMessage \/ CycleView \/ MoveCursor \/ DrillIntoSelection
           \/ Back
  BY <1>1, <1>7 DEF WindowSize, Scroll, OtherMessage, CycleView, MoveCursor, DrillIntoSelection, Back,
                   saving, SavingTypes
<1>8. CASE AskFormat \/ CancelSave \/ Quit
  BY <1>1, <1>8 DEF AskFormat, CancelSave, Quit, saving, SavingTypes
<1>9. CASE UNCHANGED vars
  BY <1>1, <1>9 DEF vars, saving, SavingTypes
<1> QED BY <1>2, <1>3, <1>4, <1>5, <1>6, <1>7, <1>8, <1>9 DEF Next, Update, Save

LEMMA SavingInvInit == Init => SavingInv
<1> SUFFICES ASSUME Init PROVE SavingInv
  OBVIOUS
<1>1. AnySecond \in Seconds
  BY ScreenAssumption DEF AnySecond
<1>2. SavingTypes
  BY <1>1 DEF Init, SavingTypes, Formats
<1>3. FilesTellSaves /\ SavedIsWhole
  BY DEF Init, FilesTellSaves, SavedIsWhole, State
<1> QED BY <1>2, <1>3 DEF SavingInv

-----------------------------------------------------------------------------
(* Every variable of the screen keeps its type, however many rows there     *)
(* are and whatever the window: no cursor leaves its list.                  *)
THEOREM TypeCorrect == Spec => []TypeOK
<1>1. ScreenInv /\ SavingInv => TypeOK
  BY TypesTogether DEF ScreenInv, SavingInv
<1> QED BY <1>1, ScreenInvInit, ScreenInvStep, SavingInvInit, SavingInvStep, PTL DEF Spec

(* The keys act on what the screen shows: the marked row is the cursor's,   *)
(* the detail is the selected row's, wrapped for the present window.        *)
THEOREM SelectionCorrect == Spec => []ScreenShowsSelection
<1>1. ScreenInv => ScreenShowsSelection
  BY DEF ScreenInv
<1> QED BY <1>1, ScreenInvInit, ScreenInvStep, PTL DEF Spec

(* A report said to be saved is whole unless its file was taken up again,   *)
(* for any number of saves at work and any collision of file names.         *)
THEOREM SavedCorrect == Spec => []SavedIsWhole
<1>1. SavingInv => SavedIsWhole
  BY DEF SavingInv
<1> QED BY <1>1, SavingInvInit, SavingInvStep, PTL DEF Spec
=============================================================================
