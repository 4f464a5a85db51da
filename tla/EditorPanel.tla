----------------------------- MODULE EditorPanel -----------------------------
(***************************************************************************)
(* The document panel (Editor.tsx).  Typing reports to onChange later;     *)
(* resizing an image arms a timer; a save first takes a snapshot, which    *)
(* is a promise, and joins the image sizes when it settles; pushed rows,   *)
(* undo, redo and an edited image replace what is on the screen.  Taking a *)
(* snapshot and drawing a document can fail.                               *)
(***************************************************************************)
EXTENDS Panels

CONSTANT MaxHistory     \* entries of the undo stack

ASSUME HistoryBound == MaxHistory \in Nat \ {0}

VARIABLES
  guard,    \* guard[t]: isProgrammaticUpdateRef
  clears,   \* clears[t]: timers that will clear it
  dirty,    \* dirty[t]: typing onChange has not reported
  timer,    \* timer[t]: is saveTimeoutRef set?
  taking,   \* taking[t]: snapshots being taken: [seen, image, live, late]
  taken,    \* snapshots taken so far
  drawing,  \* drawing[t]: edited images' documents being drawn: [doc, live, late]
  hist,     \* hist[t]: historyRef
  at,       \* at[t]: historyIndexRef
  lost,     \* history, lost[e]: how an edit left the screen unsaved
  mixed,    \* history, mixed[t]: the undo stack holds what was not on the screen
  parted    \* history, parted[t]: how screen and file came apart

editor == <<guard, clears, dirty, timer, taking, taken, drawing, hist, at, lost, mixed, parted>>

Losses == {"none", "undone", "replaced", "swept", "ignored", "left", "failed", "gone", "undrawn"}
Partings == {"ignored", "late", "failed", "undrawn"}
Snapshots == [seen : SUBSET (1..MaxEdits), image : 0..MaxEdits,
              live : BOOLEAN, late : BOOLEAN]

EditorTypeOK ==
  /\ guard \in [Tabs -> BOOLEAN]
  /\ clears \in [Tabs -> Nat]
  /\ dirty \in [Tabs -> BOOLEAN]
  /\ timer \in [Tabs -> BOOLEAN]
  /\ taking \in [Tabs -> Seq(Snapshots)]
  /\ taken \in Nat
  /\ drawing \in [Tabs -> Seq([doc : Docs, live : BOOLEAN, late : BOOLEAN])]
  /\ hist \in [Tabs -> Seq(Docs)]
  /\ at \in [Tabs -> 0..MaxHistory]
  /\ \A t \in Tabs : Len(hist[t]) <= MaxHistory /\ at[t] <= Len(hist[t])
  /\ lost \in [1..MaxEdits -> Losses]
  /\ mixed \in [Tabs -> BOOLEAN]
  /\ parted \in [Tabs -> SUBSET Partings]

EditorInit ==
  /\ guard = [t \in Tabs |-> FALSE]
  /\ clears = [t \in Tabs |-> 0]
  /\ dirty = [t \in Tabs |-> FALSE]
  /\ timer = [t \in Tabs |-> FALSE]
  /\ taking = [t \in Tabs |-> <<>>]
  /\ taken = 0
  /\ drawing = [t \in Tabs |-> <<>>]
  /\ hist = [t \in Tabs |-> <<>>]
  /\ at = [t \in Tabs |-> 0]
  /\ lost = [e \in 1..MaxEdits |-> "none"]
  /\ mixed = [t \in Tabs |-> FALSE]
  /\ parted = [t \in Tabs |-> {}]

\* Sizes live in imageWidthsRef and imageAlignRef, outside the blocks.
Sizes(s) == {e \in s : How(e) = "resize"}
Blocks(s) == s \ Sizes(s)

Begin(t, image) ==
  Append(taking[t], [seen |-> screen[t], image |-> image, live |-> TRUE, late |-> FALSE])

\* What tab t has made and shows, that no save holds.
Unsaved(t) == {e \in screen[t] \ sent : By(e) = t}

\* History: what the new screen of t leaves out is lost for a reason, unless
\* its snapshot had failed before.
Dropped(t, shown, why) ==
  [e \in 1..MaxEdits |->
    IF e \notin Unsaved(t) \ shown \/ lost[e] = "failed" THEN lost[e]
    ELSE IF why = "replaced" /\ \E i \in DOMAIN taking[t] :
                                  taking[t][i].image = 0 /\ e \in taking[t][i].seen
         THEN "swept" ELSE why]
Drop(t, shown, why) == lost' = Dropped(t, shown, why)

\* Another document comes to the screen: what is on its way is of the old one.
AllLate(seq) == [i \in DOMAIN seq |-> [seq[i] EXCEPT !.late = TRUE]]

\* ref.render(doc): the screen is replaced under the guard, which a timer
\* clears 100 ms later.  When it fails the guard is cleared as well, and the
\* blocks stay, with the sizes of the document that was to be drawn.
Render(t, doc, drawn, why) ==
  /\ screen' = [screen EXCEPT ![t] =
       IF drawn THEN doc.edits ELSE Blocks(@) \cup Sizes(doc.edits)]
  /\ last' = [last EXCEPT ![t] = doc]
  /\ guard' = [guard EXCEPT ![t] = TRUE]
  /\ clears' = [clears EXCEPT ![t] = @ + 1]
  /\ taking' = [taking EXCEPT ![t] = IF drawn THEN AllLate(@) ELSE @]
  /\ drawing' = [drawing EXCEPT ![t] = IF drawn THEN AllLate(@) ELSE @]
  /\ parted' = [parted EXCEPT ![t] = IF drawn THEN {} ELSE @ \cup {"undrawn"}]
  /\ Drop(t, screen'[t], why)
  /\ IF drawn THEN UNCHANGED faults ELSE Fail

-----------------------------------------------------------------------------
\* initEditor: the document starts the undo stack.
Mount(t) == \E doc \in Rows :
  /\ Open(t, doc, doc.edits)
  /\ hist' = [hist EXCEPT ![t] = <<doc>>]
  /\ at' = [at EXCEPT ![t] = 1]
  /\ UNCHANGED <<view, plan, made, rows, net, sent, pushes, faults, clicks, guard, clears, dirty,
                 timer, taking, taken, drawing, lost, mixed, parted>>

Type(t) ==
  /\ Make(t, "type")
  /\ screen' = [screen EXCEPT ![t] = @ \cup {Len(made')}]
  /\ dirty' = [dirty EXCEPT ![t] = TRUE]
  /\ UNCHANGED <<view, plan, rows, net, file, open, last, sent, pushes, mounts, faults, clicks, guard, clears,
                 timer, taking, taken, drawing, hist, at, lost, mixed, parted>>

\* handleUpdateImageWidth, handleUpdateImageAlign.
Resize(t) ==
  /\ Make(t, "resize")
  /\ screen' = [screen EXCEPT ![t] = @ \cup {Len(made')}]
  /\ timer' = [timer EXCEPT ![t] = TRUE]
  /\ UNCHANGED <<view, plan, rows, net, file, open, last, sent, pushes, mounts, faults, clicks, guard, clears,
                 dirty, taking, taken, drawing, hist, at, lost, mixed, parted>>

\* onChange: ignored while the guard is up, else a save begins.
OnChange(t) ==
  /\ open[t] /\ dirty[t]
  /\ dirty' = [dirty EXCEPT ![t] = FALSE]
  /\ IF guard[t]
     THEN /\ parted' = [parted EXCEPT ![t] = @ \cup {"ignored"}]
          /\ Drop(t, Sizes(screen[t]), "ignored")
          /\ UNCHANGED taking
     ELSE /\ taking' = [taking EXCEPT ![t] = Begin(t, 0)]
          /\ UNCHANGED <<parted, lost>>
  /\ UNCHANGED <<shared, guard, clears, timer, taken, drawing, hist, at, mixed>>

SaveTimeout(t) ==
  /\ open[t] /\ timer[t]
  /\ timer' = [timer EXCEPT ![t] = FALSE]
  /\ taking' = [taking EXCEPT ![t] = Begin(t, 0)]
  /\ UNCHANGED <<shared, guard, clears, dirty, taken, drawing, hist, at, lost, mixed, parted>>

\* The header's Save (every other click: the page toggles a boolean).
SaveClick(t) ==
  /\ Click(t)
  /\ taking' = [taking EXCEPT ![t] = Begin(t, 0)]
  /\ UNCHANGED <<view, plan, made, rows, net, file, open, screen, last, sent, pushes, mounts, faults,
                 guard, clears, dirty, timer, taken, drawing, hist, at, lost, mixed, parted>>

\* handleSaveEditedDocumentImage begins: the edit joins when save() settles.
EditImage(t) ==
  /\ Make(t, "picture")
  /\ taking' = [taking EXCEPT ![t] = Begin(t, Len(made'))]
  /\ UNCHANGED <<view, plan, rows, net, file, open, screen, last, sent, pushes, mounts, faults, clicks,
                 guard, clears, dirty, timer, taken, drawing, hist, at, lost, mixed, parted>>

\* The snapshot's blocks with the sizes of now; those of a panel that has
\* left are the ones it left with.
Snapshot(t, s) ==
  [no |-> taken + 1, raw |-> {}, links |-> {},
   edits |-> Blocks(s.seen) \cup Sizes(IF s.live THEN screen[t] ELSE s.seen)
             \cup (IF s.image = 0 THEN {} ELSE {s.image})]

\* onSaveDocument, once save() has settled: the redo entries are cut off,
\* the snapshot is pushed, and sent.
Save(t) ==
  /\ taking[t] # <<>>
  /\ LET s == Head(taking[t])  doc == Snapshot(t, s) IN
     /\ s.image = 0
     /\ taking' = [taking EXCEPT ![t] = Tail(@)]
     /\ taken' = taken + 1
     /\ IF s.live
        THEN /\ Send(t, doc, FALSE)
             /\ last' = [last EXCEPT ![t] = doc]
             /\ hist' = [hist EXCEPT ![t] = Latest(Append(SubSeq(@, 1, at[t]), doc), MaxHistory)]
             /\ at' = [at EXCEPT ![t] = Len(hist'[t])]
             /\ mixed' = [mixed EXCEPT ![t] = @ \/ s.late]
             /\ drawing' = [drawing EXCEPT ![t] = AllLate(@)]
             /\ parted' = [parted EXCEPT ![t] = IF s.late THEN @ \cup {"late"}
                                            ELSE IF doc.edits = screen[t] THEN {} ELSE @]
        ELSE /\ net' = net \cup {[tab |-> t, doc |-> doc, waits |-> FALSE]}
             /\ sent' = sent \cup doc.edits
             /\ UNCHANGED <<file, last, hist, at, mixed, drawing, parted>>
  /\ UNCHANGED <<view, plan, made, rows, open, screen, pushes, mounts, faults, clicks, guard, clears, dirty,
                 timer, lost>>

\* save() rejects: nothing is sent, and nothing will try again.
SnapshotFails(t) ==
  /\ taking[t] # <<>>
  /\ Fail
  /\ LET s == Head(taking[t])  own == {e \in s.seen : By(e) = t} IN
     /\ taking' = [taking EXCEPT ![t] = Tail(@)]
     /\ lost' = [e \in 1..MaxEdits |->
          IF e \in (IF s.image = 0 THEN own \ sent ELSE {s.image}) THEN "failed" ELSE lost[e]]
     /\ parted' = [parted EXCEPT ![t] = IF s.live /\ s.image = 0 THEN @ \cup {"failed"} ELSE @]
  /\ UNCHANGED <<view, plan, made, rows, net, file, open, screen, last, sent, pushes, mounts, clicks,
                 guard, clears, dirty, timer, taken, drawing, hist, at, mixed>>

\* handleSaveEditedDocumentImage, once save() has settled: the edit is put in
\* its block, if that is still there, and the document drawn under the guard.
DrawImage(t) == \E there \in BOOLEAN :
  /\ taking[t] # <<>>
  /\ LET s == Head(taking[t])
         doc == Snapshot(t, IF there THEN s ELSE [s EXCEPT !.image = 0])
         shown == IF s.live THEN doc.edits ELSE screen[t]
     IN
     /\ s.image # 0
     /\ taken' = taken + 1
     /\ screen' = [screen EXCEPT ![t] = shown]
     /\ guard' = [guard EXCEPT ![t] = @ \/ s.live]
     /\ taking' = [taking EXCEPT ![t] = IF s.live THEN AllLate(Tail(@)) ELSE Tail(@)]
     /\ drawing' = [drawing EXCEPT ![t] = Append(IF s.live THEN AllLate(@) ELSE @,
                                                 [doc |-> doc, live |-> s.live, late |-> FALSE])]
     /\ mixed' = [mixed EXCEPT ![t] = @ \/ (s.live /\ s.late)]
     /\ lost' = LET kept == Dropped(t, shown, "replaced") IN
                  IF there THEN kept ELSE [kept EXCEPT ![s.image] = "gone"]
  /\ UNCHANGED <<view, plan, made, rows, net, file, open, last, sent, pushes, mounts, faults, clicks,
                 clears, dirty, timer, hist, at, parted>>

\* ... or drawing it fails, which nothing catches: the guard stays up, and
\* the edit is not saved.
ImageUndrawn(t) ==
  /\ taking[t] # <<>>
  /\ Fail
  /\ LET s == Head(taking[t]) IN
     /\ s.image # 0
     /\ taking' = [taking EXCEPT ![t] = Tail(@)]
     /\ taken' = taken + 1
     /\ guard' = [guard EXCEPT ![t] = @ \/ s.live]
     /\ lost' = [lost EXCEPT ![s.image] = "undrawn"]
  /\ UNCHANGED <<view, plan, made, rows, net, file, open, screen, last, sent, pushes, mounts, clicks,
                 clears, dirty, timer, drawing, hist, at, mixed, parted>>

\* The document is drawn, and saved: the guard stays up until the answer, and
\* the undo stack is left alone.
SaveImage(t) ==
  /\ drawing[t] # <<>>
  /\ LET d == Head(drawing[t]) IN
     /\ drawing' = [drawing EXCEPT ![t] = Tail(@)]
     /\ IF d.live
        THEN /\ Send(t, d.doc, TRUE)
             /\ last' = [last EXCEPT ![t] = d.doc]
             /\ parted' = [parted EXCEPT ![t] = IF d.late THEN @ \cup {"late"}
                                            ELSE IF d.doc.edits = screen[t] THEN {} ELSE @]
        ELSE /\ net' = net \cup {[tab |-> t, doc |-> d.doc, waits |-> FALSE]}
             /\ sent' = sent \cup d.doc.edits
             /\ UNCHANGED <<file, last, parted>>
  /\ UNCHANGED <<view, plan, made, rows, open, screen, pushes, mounts, faults, clicks, guard, clears,
                 dirty, timer, taking, taken, hist, at, lost, mixed>>

\* The answer to a save; an image edit's guard comes down 100 ms after it,
\* or with the refusal.
SaveAnswered(n, stored) ==
  /\ Answer(n, stored)
  /\ clears' = [clears EXCEPT ![n.tab] = IF n.waits /\ stored THEN @ + 1 ELSE @]
  /\ guard' = [guard EXCEPT ![n.tab] = @ /\ ~(n.waits /\ ~stored)]
  /\ UNCHANGED <<dirty, timer, taking, taken, drawing, hist, at, lost, mixed, parted>>

ClearGuard(t) ==
  /\ clears[t] > 0
  /\ clears' = [clears EXCEPT ![t] = @ - 1]
  /\ guard' = [guard EXCEPT ![t] = FALSE]
  /\ UNCHANGED <<shared, dirty, timer, taking, taken, drawing, hist, at, lost, mixed, parted>>

-----------------------------------------------------------------------------
\* Mutant: a row that comes while another is being drawn is passed over.
DrawsWhenQuiet(t, doc) == doc \notin {Empty, file[t], last[t]} /\ ~timer[t] /\ ~guard[t]

\* The effect runs when the page's document changes; it draws what is not the
\* panel's own save, unless the timer is pending.
Draws(t, doc) == doc \notin {Empty, file[t], last[t]} /\ ~timer[t]

\* Mutant: undo steps survive a document of someone else.
HistoryKept(t, doc) == hist[t]

\* The undo stack once a pushed document is drawn.
HistoryAfter(t, doc) == <<doc>>

\* A row is pushed to the page.  One that could not be drawn starts the undo
\* stack all the same.
Push(t) == \E doc \in Rows, drawn \in BOOLEAN :
  /\ Arrive(t, doc)
  /\ IF Draws(t, doc)
     THEN /\ Render(t, doc, drawn, "replaced")
          /\ hist' = [hist EXCEPT ![t] = HistoryAfter(t, doc)]
          /\ at' = [at EXCEPT ![t] = Len(hist'[t])]
          /\ mixed' = [mixed EXCEPT ![t] = ~drawn]
     ELSE UNCHANGED <<screen, last, guard, clears, taking, drawing, parted, lost, faults, hist, at, mixed>>
  /\ UNCHANGED <<view, plan, made, rows, net, open, sent, mounts, clicks, dirty, timer, taken>>

\* performUndo and performRedo: the entry is drawn and saved at once.
Travel(t, to) == \E drawn \in BOOLEAN :
  /\ Click(t)
  /\ to \in DOMAIN hist[t]
  /\ at' = [at EXCEPT ![t] = to]
  /\ Render(t, hist[t][to], drawn, "undone")
  /\ Send(t, hist[t][to], FALSE)
  /\ UNCHANGED <<view, plan, made, rows, open, pushes, mounts, dirty, timer, taken, hist, mixed>>

Undo(t) == Travel(t, at[t] - 1)
Redo(t) == Travel(t, at[t] + 1)

\* Mutant: the timer is cleared and nothing is saved.
FlushNone(t, reported) == taking[t]

\* The snapshots under way when the page is left: a pending timer becomes one,
\* and so may typing that onChange has not reported.
Flush(t, reported) ==
  IF timer[t] \/ (dirty[t] /\ reported /\ ~guard[t]) THEN Begin(t, 0) ELSE taking[t]

\* The panel is unmounted; its snapshots settle and are sent all the same.
Leave(t) == \E reported \in BOOLEAN :
  /\ Close(t)
  /\ net' = {[n EXCEPT !.waits = n.waits /\ n.tab # t] : n \in net}
  /\ LET all == Flush(t, reported) IN
     /\ taking' = [taking EXCEPT ![t] = [i \in DOMAIN all |-> IF all[i].live
          THEN [all[i] EXCEPT !.seen = Blocks(@) \cup Sizes(screen[t]), !.live = FALSE]
          ELSE all[i]]]
     /\ drawing' = [drawing EXCEPT ![t] = [i \in DOMAIN @ |-> [@[i] EXCEPT !.live = FALSE]]]
     /\ Drop(t, Sizes(screen[t]), "left")
  /\ dirty' = [dirty EXCEPT ![t] = FALSE]
  /\ timer' = [timer EXCEPT ![t] = FALSE]
  /\ guard' = [guard EXCEPT ![t] = FALSE]
  /\ clears' = [clears EXCEPT ![t] = 0]
  /\ parted' = [parted EXCEPT ![t] = {}]
  /\ hist' = [hist EXCEPT ![t] = <<>>]
  /\ at' = [at EXCEPT ![t] = 0]
  /\ mixed' = [mixed EXCEPT ![t] = FALSE]
  /\ UNCHANGED <<view, plan, made, rows, sent, pushes, mounts, faults, clicks, taken>>

EditorStep ==
  \/ \E t \in Tabs :
       \/ Mount(t) \/ Type(t) \/ Resize(t) \/ OnChange(t) \/ SaveTimeout(t)
       \/ SaveClick(t) \/ EditImage(t) \/ Save(t) \/ SnapshotFails(t) \/ DrawImage(t)
       \/ ImageUndrawn(t) \/ SaveImage(t) \/ ClearGuard(t)
       \/ Push(t) \/ Undo(t) \/ Redo(t) \/ Leave(t)
  \/ \E n \in net, stored \in BOOLEAN : SaveAnswered(n, stored)

-----------------------------------------------------------------------------
(* Properties. *)

Waiting(t) == dirty[t] \/ timer[t] \/ taking[t] # <<>> \/ drawing[t] # <<>>

\* An idle editor shows the document its page holds, whatever was pushed,
\* saved, undone or redone in which order; apart from it only what was typed
\* under the guard, a save made of an older screen, and a snapshot or a drawing
\* that failed.
IdleEditorShowsItsFile ==
  \A t \in Tabs :
    view = "document" /\ open[t] /\ ~Waiting(t) /\ parted[t] = {} /\ file[t] # Empty
      => screen[t] = file[t].edits

\* Every edit is saved, or will be by its onChange, its timer or a snapshot of
\* its own under way, even when the page is left.  Typing is lost to an undo, to
\* a push drawn before onChange, to the guard, or with the panel; a resize to an
\* undo, or to a push drawn while the snapshot that should hold it is taken; an
\* edited image when its block is gone or cannot be drawn; and any of them
\* waits for the next save when its snapshot fails.
MayBeLost == [type |-> {"undone", "replaced", "ignored", "left", "failed"},
              resize |-> {"undone", "swept", "failed"},
              picture |-> {"gone", "undrawn", "failed"}]
EditsAreSaved ==
  view = "document" => \A e \in Edits : LET t == By(e) IN
    \/ e \in sent
    \/ e \in screen[t] /\ How(e) = "type" /\ dirty[t]
    \/ e \in screen[t] /\ How(e) = "resize" /\ timer[t]
    \/ \E i \in DOMAIN taking[t] :
         e \in (IF taking[t][i].image = 0 THEN taking[t][i].seen ELSE {taking[t][i].image})
    \/ \E i \in DOMAIN drawing[t] : e \in drawing[t][i].doc.edits
    \/ lost[e] \in MayBeLost[How(e)]

\* Undo and redo take back one's own edits: somebody else's leave the screen
\* only when a snapshot taken before they came was stacked or drawn, or a row
\* that could not be drawn was stacked.
UndoKeepsOthers ==
  [][\A t \in Tabs :
       at[t] # at'[t] /\ hist'[t] = hist[t] /\ ~mixed[t]
         => \A e \in screen[t] \ screen'[t] : By(e) = t]_<<shared, editor>>
=============================================================================
