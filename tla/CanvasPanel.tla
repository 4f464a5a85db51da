----------------------------- MODULE CanvasPanel -----------------------------
(***************************************************************************)
(* The canvas panel (Canvas.tsx).  Every change Excalidraw reports saves   *)
(* the whole screen, unless it equals the last save or begins to upload a  *)
(* picture; an upload that succeeds reports a change itself.  A picture    *)
(* that is not stored as base64 cannot be uploaded, and stays in line.     *)
(***************************************************************************)
EXTENDS Panels

CONSTANT MaxTries     \* failed uploads of a picture before it is saved in full

ASSUME TriesBound == MaxTries \in 1..98

VARIABLES
  files,      \* files[t]: the pictures whose data Excalidraw holds
  uploading,  \* uploading[t]: uploadingFilesRef
  tries,      \* tries[t][p]: uploadRetriesRef
  uploaded,   \* uploaded[t]: uploadedFilesMapRef, the pictures with a link
  since,      \* since[t]: what happened since Excalidraw last reported a change
  blank       \* history: pictures some panel was mounted with, but not their data

Happenings == {"mount", "failure", "push"}

canvas == <<files, uploading, tries, uploaded, since, blank>>

CanvasTypeOK ==
  /\ files \in [Tabs -> SUBSET (1..MaxEdits)]
  /\ uploading \in [Tabs -> SUBSET (1..MaxEdits)]
  /\ tries \in [Tabs -> [1..MaxEdits -> Nat]]
  /\ uploaded \in [Tabs -> SUBSET (1..MaxEdits)]
  /\ since \in [Tabs -> SUBSET Happenings]
  /\ blank \subseteq 1..MaxEdits

CanvasInit ==
  /\ files = [t \in Tabs |-> {}]
  /\ uploading = [t \in Tabs |-> {}]
  /\ tries = [t \in Tabs |-> [p \in 1..MaxEdits |-> 0]]
  /\ uploaded = [t \in Tabs |-> {}]
  /\ since = [t \in Tabs |-> {}]
  /\ blank = {}

Inline(s) == {e \in s : How(e) = "inline"}
Pictures(s) == {e \in s : How(e) = "picture"} \cup Inline(s)

EmptyBoard == [Empty EXCEPT !.no = 1]

-----------------------------------------------------------------------------
\* The panel opens with some board on it: a picture stored by its link is left
\* out.  Until Excalidraw reports its first change the panel has no API and no
\* whiteBoardData.
Appear(t, row, doc) ==
  /\ Open(t, row, doc.edits)
  /\ files' = [files EXCEPT ![t] = doc.raw]
  /\ blank' = blank \cup (Pictures(doc.edits) \ doc.raw)
  /\ since' = [since EXCEPT ![t] = {"mount"}]
  /\ UNCHANGED <<view, plan, made, rows, pushes, faults, uploading, tries, uploaded>>

\* getInitialCanvasData: the row's board.
MountCanvas(t) == \E doc \in Rows :
  /\ Appear(t, doc, doc)
  /\ UNCHANGED <<net, sent, clicks>>

\* The page's Save has been clicked before: saveWhiteboard runs at the mount,
\* and saves an empty board, which Excalidraw may load in place of the row's.
MountAndSave(t) == \E doc \in Rows \cup {EmptyBoard} :
  /\ clicks > 0 /\ clicks' = clicks - 1
  /\ Appear(t, EmptyBoard, doc)
  /\ net' = net \cup {[tab |-> t, doc |-> EmptyBoard, waits |-> FALSE]}
  /\ UNCHANGED sent

\* Mutant: a picture that has a link is saved without it.
BoardInFull(shown, held, links) ==
  [no |-> 1, edits |-> shown, raw |-> held \ links, links |-> {}]

\* What is saved: the elements, and the files, by their link once they have one.
Board(shown, held, links) ==
  [no |-> 1, edits |-> shown, raw |-> held \ links, links |-> held \cap links]

\* handleCanvasChange, with the elements, files, links and uploads of then: a
\* change that begins an upload is not saved, nor one equal to the last save.
\* The upload of a picture in line ends as it begins, and is not counted.
Change(t, shown, held, links, busy) ==
  LET fresh == {p \in held \ busy : tries'[t][p] < MaxTries}
      doc == Board(shown, held, links)
  IN
  /\ uploading' = [uploading EXCEPT ![t] = busy \cup
       {p \in fresh : made'[p].how # "inline"}]
  /\ since' = [since EXCEPT ![t] = {}]
  /\ IF fresh # {} \/ doc = last[t] \/ shown = {}
     THEN UNCHANGED <<net, sent, file, last>>
     ELSE Send(t, doc, FALSE) /\ last' = [last EXCEPT ![t] = doc]

\* Elements are drawn, or a picture is put in.
Draw(t) == \E how \in {"draw", "picture", "inline"} : LET e == Len(made') IN
  /\ Make(t, how)
  /\ screen' = [screen EXCEPT ![t] = @ \cup {e}]
  /\ files' = [files EXCEPT ![t] = IF how = "draw" THEN @ ELSE @ \cup {e}]
  /\ UNCHANGED <<view, plan, rows, open, pushes, mounts, faults, clicks, tries, uploaded, blank>>
  /\ Change(t, screen'[t], files'[t], uploaded[t], uploading[t])

\* Excalidraw reports a pan, a selection or its first drawing the same way.
Look(t) ==
  /\ open[t]
  /\ UNCHANGED <<view, plan, made, rows, open, screen, pushes, mounts, faults, clicks, files, tries, uploaded, blank>>
  /\ Change(t, screen[t], files[t], uploaded[t], uploading[t])

\* Mutant: the scene is not refreshed, so nothing is saved.
Note(t) ==
  /\ uploading' = [uploading EXCEPT ![t] = @ \ uploaded'[t]]
  /\ UNCHANGED <<net, sent, file, last, since>>

\* updateScene after an upload "to force a refresh and trigger a save".
Refresh(t) ==
  Change(t, screen[t], files[t], uploaded'[t], uploading[t] \ uploaded'[t])

Uploaded(t) == \E p \in uploading[t] :
  /\ tries' = [tries EXCEPT ![t][p] = 99]
  /\ uploaded' = [uploaded EXCEPT ![t] = @ \cup {p}]
  /\ UNCHANGED <<view, plan, made, rows, open, screen, pushes, mounts, faults, clicks, files, blank>>
  /\ Refresh(t)

\* A failed upload is counted; the next change tries again.
UploadFails(t) == \E p \in uploading[t] :
  /\ tries' = [tries EXCEPT ![t][p] = @ + 1]
  /\ uploading' = [uploading EXCEPT ![t] = @ \ {p}]
  /\ since' = [since EXCEPT ![t] = @ \cup {"failure"}]
  /\ Fail
  /\ UNCHANGED <<view, plan, made, rows, net, file, open, screen, last, sent, pushes, mounts,
                 clicks, files, uploaded, blank>>

\* saveWhiteboard, the header's Save: the elements of the last change, which
\* are none before the first, and every file in full.
SaveWhiteboard(t) ==
  /\ Click(t)
  /\ LET doc == IF "mount" \in since[t] THEN EmptyBoard
                ELSE Board(screen[t], files[t], {})
     IN Send(t, doc, FALSE) /\ last' = [last EXCEPT ![t] = doc]
  /\ UNCHANGED <<view, plan, made, rows, open, screen, pushes, mounts, faults, canvas>>

-----------------------------------------------------------------------------
\* The first effect of a new fileData: its board is what was last saved.
Remembered(t, doc) == IF doc = Empty THEN last[t] ELSE doc

\* The second effect draws a board that is not what was last saved, and
\* fetches its linked pictures.  The first has always run before it.
PushBoard(t) == \E doc \in Rows :
  /\ Arrive(t, doc)
  /\ last' = [last EXCEPT ![t] = Remembered(t, doc)]
  /\ since' = [since EXCEPT ![t] = @ \cup {"push"}]
  /\ IF doc # Empty /\ doc # Remembered(t, doc) /\ "mount" \notin since[t]
     THEN /\ screen' = [screen EXCEPT ![t] = doc.edits]
          /\ files' = [files EXCEPT ![t] = @ \cup doc.raw \cup doc.links]
          /\ uploaded' = [uploaded EXCEPT ![t] = @ \cup doc.links]
     ELSE UNCHANGED <<screen, files, uploaded>>
  /\ UNCHANGED <<view, plan, made, rows, net, open, sent, mounts, faults, clicks, uploading, tries, blank>>

BoardAnswered(n, stored) == Answer(n, stored) /\ UNCHANGED canvas

\* The panel goes, and its uploads with it.
LeaveCanvas(t) ==
  /\ Close(t)
  /\ files' = [files EXCEPT ![t] = {}]
  /\ uploading' = [uploading EXCEPT ![t] = {}]
  /\ tries' = [tries EXCEPT ![t] = [p \in DOMAIN @ |-> 0]]
  /\ uploaded' = [uploaded EXCEPT ![t] = {}]
  /\ since' = [since EXCEPT ![t] = {}]
  /\ UNCHANGED <<view, plan, made, rows, net, sent, pushes, mounts, faults, clicks, blank>>

CanvasStep ==
  \/ \E t \in Tabs :
       \/ MountCanvas(t) \/ MountAndSave(t) \/ Draw(t) \/ Look(t) \/ Uploaded(t) \/ UploadFails(t)
       \/ SaveWhiteboard(t) \/ PushBoard(t) \/ LeaveCanvas(t)
  \/ \E n \in net, stored \in BOOLEAN : BoardAnswered(n, stored)

-----------------------------------------------------------------------------
(* Properties. *)

\* The save is held back: by an upload under way, by one that failed with no
\* change reported since, or by a picture that cannot be uploaded.
HeldBack(t) == uploading[t] # {} \/ "failure" \in since[t] \/ Inline(files[t]) # {}

\* What an open canvas shows is in the board last saved, unless the save is held
\* back.  When that board is another one (an empty one saved at the mount, one
\* that was pushed and not drawn), it was saved before, and is again at the next
\* change reported.
DrawingsAreSaved ==
  view = "canvas" => \A t \in Tabs : open[t] => \A e \in screen[t] :
    \/ e \in last[t].edits
    \/ e \in sent /\ since[t] \cap {"mount", "push"} # {}
    \/ HeldBack(t)

\* A save never leaves out the data of a picture it draws, unless the canvas
\* was opened from a board that stores just the picture's link.
PicturesKeepTheirData ==
  view = "canvas" => \A n \in net :
    Pictures(n.doc.edits) \subseteq n.doc.raw \cup n.doc.links \cup blank

\* "Only overwrite if we are not currently drawing/saving (idle)": a canvas
\* with nothing unsaved that is given a new board shows it.
IdleCanvasShowsPush ==
  [][\A t \in Tabs :
       (/\ view = "canvas" /\ open[t] /\ pushes' # pushes
        /\ file'[t] \notin {file[t], Empty}
        /\ screen[t] = file[t].edits /\ net = {} /\ uploading[t] = {} /\ since[t] = {})
       => screen'[t] = file'[t].edits]_<<shared, canvas>>
=============================================================================
