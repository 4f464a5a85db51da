---------------------------- MODULE WorkspaceProofs ----------------------------
(***************************************************************************)
(* Theorems about the workspace page, for any tabs, plans and bounds:      *)
(* types, what a save holds, the two promises of the canvas, and those of  *)
(* the document panel.                                                     *)
(***************************************************************************)
EXTENDS Workspace, SequenceTheorems, TLAPS

\* One more edit takes the next number and changes no earlier one.
LEMMA Grows ==
  ASSUME SharedTypeOK, NEW t \in Tabs, NEW how, Make(t, how)
  PROVE  /\ Len(made') = Len(made) + 1
         /\ Len(made') \in 1..MaxEdits
         /\ Edits' = Edits \cup {Len(made')} /\ Len(made') \notin Edits
         /\ \A e \in Edits : made'[e] = made[e]
         /\ made'[Len(made')] = [by |-> t, how |-> how]
         /\ made' \in Seq(Edit) /\ Len(made') <= Len(plan)
<1> DEFINE x == [by |-> t, how |-> how]
<1>1. x \in Edit
  BY DEF SharedTypeOK, Make
<1>2. made' = Append(made, x) /\ Len(made) < Len(plan)
  BY DEF Make
<1>3. made \in Seq(Edit) /\ Len(plan) <= MaxEdits /\ Len(plan) \in Nat /\ Len(made) \in Nat
  BY DEF SharedTypeOK
<1>4. MaxEdits \in Nat
  BY PanelBounds
<1> HIDE DEF x
<1>5. /\ made' \in Seq(Edit) /\ Len(made') = Len(made) + 1
      /\ made'[Len(made')] = x
      /\ \A e \in 1..Len(made) : made'[e] = made[e]
  BY <1>1, <1>2, <1>3
<1>6. x = [by |-> t, how |-> how]
  BY DEF x
<1> QED
  BY <1>2, <1>3, <1>4, <1>5, <1>6 DEF Edits

\* Every edit was made in a tab.
LEMMA EditorsAreTabs == TypeOK => \A e \in Edits : By(e) \in Tabs /\ e \in 1..MaxEdits
<1> SUFFICES ASSUME TypeOK, NEW e \in Edits PROVE By(e) \in Tabs /\ e \in 1..MaxEdits
  OBVIOUS
<1>1. /\ made \in Seq(Edit) /\ e \in 1..Len(made)
      /\ Len(made) <= Len(plan) /\ plan \in Seq(Edit) /\ Len(plan) <= MaxEdits
  BY DEF TypeOK, SharedTypeOK, Edits
<1>2. e \in 1..MaxEdits
  BY <1>1, PanelBounds
<1>3. made[e] \in Edit
  BY <1>1
<1> QED
  BY <1>2, <1>3 DEF By, Edit

\* The latest entries of a sequence are entries of it, and no more than asked.
LEMMA LatestIn ==
  ASSUME NEW S, NEW s \in Seq(S), NEW n \in Nat
  PROVE  /\ Latest(s, n) \in Seq(S) /\ Len(Latest(s, n)) <= n
         /\ \A i \in DOMAIN Latest(s, n) : \E j \in DOMAIN s : Latest(s, n)[i] = s[j]
<1>1. CASE Len(s) <= n
  BY <1>1 DEF Latest
<1>2. CASE ~(Len(s) <= n)
  <2> DEFINE m == Len(s) - n + 1
  <2>1. Latest(s, n) = SubSeq(s, m, Len(s)) /\ m \in 1..Len(s) + 1 /\ Len(s) \in Nat
    BY <1>2 DEF Latest
  <2>2. /\ SubSeq(s, m, Len(s)) \in Seq(S)
        /\ Len(SubSeq(s, m, Len(s))) = n
        /\ \A i \in 1..n : SubSeq(s, m, Len(s))[i] = s[m + i - 1]
    BY <2>1, <1>2, SubSeqProperties
  <2> QED
    BY <2>1, <2>2
<1> QED
  BY <1>1, <1>2

\* Marking the snapshots under way leaves them snapshots.
LEMMA SnapshotTypes ==
  /\ \A s \in Snapshots : [s EXCEPT !.late = TRUE] \in Snapshots
  /\ \A s \in Snapshots, seen \in SUBSET (1..MaxEdits) :
       [s EXCEPT !.seen = seen, !.live = FALSE] \in Snapshots
BY DEF Snapshots

\* A function on 1..n into S is a sequence over S.
LEMMA FunctionSeq ==
  ASSUME NEW S, NEW n \in Nat, NEW f \in [1..n -> S]
  PROVE  f \in Seq(S) /\ Len(f) = n
  OBVIOUS

\* So does marking the documents being drawn.
Drawings == [doc : Docs, live : BOOLEAN, late : BOOLEAN]

LEMMA LateTypes ==
  /\ \A s \in Seq(Snapshots) : AllLate(s) \in Seq(Snapshots)
  /\ \A s \in Seq(Drawings) : AllLate(s) \in Seq(Drawings)
<1>1. ASSUME NEW s \in Seq(Snapshots) PROVE AllLate(s) \in Seq(Snapshots)
  <2>1. DOMAIN s = 1..Len(s) /\ Len(s) \in Nat /\ \A i \in 1..Len(s) : s[i] \in Snapshots
    OBVIOUS
  <2>2. \A i \in 1..Len(s) : [s[i] EXCEPT !.late = TRUE] \in Snapshots
    BY <2>1, SnapshotTypes
  <2> DEFINE f == [i \in DOMAIN s |-> [s[i] EXCEPT !.late = TRUE]]
  <2>3. f \in [1..Len(s) -> Snapshots]
    BY <2>1, <2>2
  <2>4. AllLate(s) = f
    BY DEF AllLate
  <2> HIDE DEF f
  <2> QED
    BY <2>1, <2>3, <2>4, FunctionSeq
<1>2. ASSUME NEW s \in Seq(Drawings) PROVE AllLate(s) \in Seq(Drawings)
  <2>1. DOMAIN s = 1..Len(s) /\ Len(s) \in Nat /\ \A i \in 1..Len(s) : s[i] \in Drawings
    OBVIOUS
  <2>2. \A i \in 1..Len(s) : [s[i] EXCEPT !.late = TRUE] \in Drawings
    BY <2>1 DEF Drawings
  <2> DEFINE f == [i \in DOMAIN s |-> [s[i] EXCEPT !.late = TRUE]]
  <2>3. f \in [1..Len(s) -> Drawings]
    BY <2>1, <2>2
  <2>4. AllLate(s) = f
    BY DEF AllLate
  <2> HIDE DEF f
  <2> QED
    BY <2>1, <2>3, <2>4, FunctionSeq
<1> QED
  BY <1>1, <1>2

-----------------------------------------------------------------------------
\* Types.

LEMMA RowsTypes ==
  ASSUME SharedTypeOK
  PROVE  /\ Rows \subseteq Docs
         /\ Empty \in Docs
         /\ \A n \in net : n.doc \in Docs /\ n.tab \in Tabs /\ n.waits \in BOOLEAN
<1>1. Rows \subseteq Docs
  BY DEF SharedTypeOK, Rows
<1>2. Empty \in Docs
  BY DEF Docs, Empty
<1>3. ASSUME NEW n \in net PROVE n.doc \in Docs /\ n.tab \in Tabs /\ n.waits \in BOOLEAN
  BY DEF SharedTypeOK
<1> QED
  BY <1>1, <1>2, <1>3

LEMMA SendTypes ==
  ASSUME SharedTypeOK, NEW t \in Tabs, NEW doc \in Docs, NEW waits \in BOOLEAN,
         Send(t, doc, waits)
  PROVE  /\ net' \subseteq [tab : Tabs, doc : Docs, waits : BOOLEAN]
         /\ file' \in [Tabs -> Docs]
         /\ sent' \subseteq 1..MaxEdits
<1>1. [tab |-> t, doc |-> doc, waits |-> waits] \in [tab : Tabs, doc : Docs, waits : BOOLEAN]
  OBVIOUS
<1>2. doc.edits \subseteq 1..MaxEdits
  BY DEF Docs
<1> QED
  BY <1>1, <1>2 DEF SharedTypeOK, Send

LEMMA AnswerTypes ==
  ASSUME SharedTypeOK, NEW n \in net, NEW stored \in BOOLEAN, Answer(n, stored)
  PROVE  SharedTypeOK'
<1>1. n.doc \in Docs /\ Overtaken + 1 \in Nat
  BY RowsTypes, PanelBounds
<1>2. Append(rows, n.doc) \in Seq(Docs)
  BY <1>1 DEF SharedTypeOK
<1>3. Latest(Append(rows, n.doc), Overtaken + 1) \in Seq(Docs)
  BY <1>1, <1>2, LatestIn
<1>4. rows' \in Seq(Docs) /\ faults' \in 0..MaxFaults
  BY <1>3, PanelBounds DEF Answer, Fail, SharedTypeOK
<1>5. net' \subseteq [tab : Tabs, doc : Docs, waits : BOOLEAN]
  BY DEF Answer, SharedTypeOK
<1> QED
  BY <1>4, <1>5 DEF Answer, SharedTypeOK, Docs

\* What a board's save holds are numbers of edits.
LEMMA BoardTypes ==
  ASSUME NEW shown \in SUBSET (1..MaxEdits), NEW held \in SUBSET (1..MaxEdits), NEW links
  PROVE  Board(shown, held, links) \in Docs
  BY DEF Board, Docs

LEMMA ChangeTypes ==
  ASSUME SharedTypeOK, NEW t \in Tabs,
         uploading \in [Tabs -> SUBSET (1..MaxEdits)], since \in [Tabs -> SUBSET Happenings],
         NEW shown \in SUBSET (1..MaxEdits), NEW held \in SUBSET (1..MaxEdits),
         NEW links, NEW busy \in SUBSET (1..MaxEdits),
         Change(t, shown, held, links, busy)
  PROVE  /\ net' \subseteq [tab : Tabs, doc : Docs, waits : BOOLEAN]
         /\ file' \in [Tabs -> Docs] /\ last' \in [Tabs -> Docs]
         /\ sent' \subseteq 1..MaxEdits
         /\ uploading' \in [Tabs -> SUBSET (1..MaxEdits)]
         /\ since' \in [Tabs -> SUBSET Happenings]
<1> DEFINE doc == Board(shown, held, links)
<1>1. doc \in Docs
  BY BoardTypes
<1>2. /\ uploading' \in [Tabs -> SUBSET (1..MaxEdits)]
      /\ since' \in [Tabs -> SUBSET Happenings]
  BY DEF Change
<1>3. CASE UNCHANGED <<net, sent, file, last>>
  BY <1>2, <1>3 DEF SharedTypeOK
<1>4. CASE Send(t, doc, FALSE) /\ last' = [last EXCEPT ![t] = doc]
  <2> HIDE DEF doc
  <2>1. last' \in [Tabs -> Docs]
    BY <1>4, <1>1 DEF SharedTypeOK
  <2> QED
    BY <1>1, <1>2, <1>4, <2>1, SendTypes
<1> QED
  BY <1>3, <1>4 DEF Change

\* Every step of the canvas keeps the types.
LEMMA CanvasType == SharedTypeOK /\ CanvasTypeOK /\ CanvasStep => SharedTypeOK' /\ CanvasTypeOK'
<1> SUFFICES ASSUME SharedTypeOK, CanvasTypeOK, CanvasStep
             PROVE  SharedTypeOK' /\ CanvasTypeOK'
  OBVIOUS
<1>a. TriesBound /\ MaxEdits \in Nat
  BY TriesBound, PanelBounds
<1>b. EmptyBoard \in Docs /\ EmptyBoard.edits = {}
  BY DEF EmptyBoard, Empty, Docs
<1>c. ASSUME NEW t \in Tabs, NEW row \in Docs, NEW doc \in Docs, Appear(t, row, doc),
             net' \subseteq [tab : Tabs, doc : Docs, waits : BOOLEAN], clicks' \in Nat, UNCHANGED sent
      PROVE  SharedTypeOK' /\ CanvasTypeOK'
  <2>1. /\ Open(t, row, doc.edits)
        /\ files' = [files EXCEPT ![t] = doc.raw]
        /\ blank' = blank \cup (Pictures(doc.edits) \ doc.raw)
        /\ since' = [since EXCEPT ![t] = {"mount"}]
        /\ UNCHANGED <<view, plan, made, rows, pushes, faults, uploading, tries, uploaded>>
    BY <1>c DEF Appear
  <2>2. /\ doc.edits \subseteq 1..MaxEdits /\ doc.raw \subseteq 1..MaxEdits
        /\ Pictures(doc.edits) \subseteq doc.edits
    BY DEF Docs, Pictures, Inline
  <2>3. SharedTypeOK'
    <3>1. /\ open' \in [Tabs -> BOOLEAN]
          /\ file' \in [Tabs -> Docs] /\ last' \in [Tabs -> Docs]
          /\ screen' \in [Tabs -> SUBSET (1..MaxEdits)]
      BY <2>1, <2>2 DEF Open, SharedTypeOK
    <3>2. mounts' \in 0..MaxMounts
      BY <2>1, PanelBounds DEF Open, SharedTypeOK
    <3> QED
      BY <1>c, <2>1, <3>1, <3>2 DEF SharedTypeOK
  <2>4. since' \in [Tabs -> SUBSET Happenings]
    BY <2>1 DEF CanvasTypeOK, Happenings
  <2>5. CanvasTypeOK'
    BY <2>1, <2>2, <2>4 DEF CanvasTypeOK
  <2> QED
    BY <2>3, <2>5
<1>1. ASSUME NEW t \in Tabs, MountCanvas(t) PROVE SharedTypeOK' /\ CanvasTypeOK'
  <2>1. PICK doc \in Docs : Appear(t, doc, doc) /\ UNCHANGED <<net, sent, clicks>>
    BY <1>1, RowsTypes DEF MountCanvas
  <2>2. net' \subseteq [tab : Tabs, doc : Docs, waits : BOOLEAN] /\ clicks' \in Nat
    BY <2>1 DEF SharedTypeOK
  <2> QED
    BY <1>c, <2>1, <2>2
<1>0. ASSUME NEW t \in Tabs, MountAndSave(t) PROVE SharedTypeOK' /\ CanvasTypeOK'
  <2>1. PICK doc \in Docs : /\ clicks > 0 /\ clicks' = clicks - 1
                            /\ Appear(t, EmptyBoard, doc)
                            /\ net' = net \cup {[tab |-> t, doc |-> EmptyBoard, waits |-> FALSE]}
                            /\ UNCHANGED sent
    BY <1>0, <1>b, RowsTypes DEF MountAndSave
  <2>a. PICK b \in Docs : b = EmptyBoard
    BY <1>b
  <2>b. [tab |-> t, doc |-> b, waits |-> FALSE] \in [tab : Tabs, doc : Docs, waits : BOOLEAN]
    OBVIOUS
  <2>2. net' \subseteq [tab : Tabs, doc : Docs, waits : BOOLEAN]
    BY <2>a, <2>b, <2>1 DEF SharedTypeOK
  <2>3. clicks' \in Nat
    BY <2>1 DEF SharedTypeOK
  <2> QED
    BY <1>b, <1>c, <2>1, <2>2, <2>3
<1>2. ASSUME NEW t \in Tabs, Draw(t) PROVE SharedTypeOK' /\ CanvasTypeOK'
  <2>1. PICK how \in {"draw", "picture", "inline"} :
          /\ Make(t, how)
          /\ screen' = [screen EXCEPT ![t] = @ \cup {Len(made')}]
          /\ files' = [files EXCEPT ![t] = IF how = "draw" THEN @ ELSE @ \cup {Len(made')}]
          /\ Change(t, screen'[t], files'[t], uploaded[t], uploading[t])
          /\ UNCHANGED <<view, plan, rows, open, pushes, mounts, faults, clicks, tries, uploaded, blank>>
    BY <1>2 DEF Draw
  <2>2. Len(made') \in 1..MaxEdits /\ made' \in Seq(Edit) /\ Len(made') <= Len(plan)
    BY <2>1, Grows
  <2>3. screen' \in [Tabs -> SUBSET (1..MaxEdits)] /\ files' \in [Tabs -> SUBSET (1..MaxEdits)]
    BY <2>1, <2>2 DEF SharedTypeOK, CanvasTypeOK
  <2>4. /\ net' \subseteq [tab : Tabs, doc : Docs, waits : BOOLEAN]
        /\ file' \in [Tabs -> Docs] /\ last' \in [Tabs -> Docs]
        /\ sent' \subseteq 1..MaxEdits
        /\ uploading' \in [Tabs -> SUBSET (1..MaxEdits)]
        /\ since' \in [Tabs -> SUBSET Happenings]
    <3>1. PICK shown \in SUBSET (1..MaxEdits), held \in SUBSET (1..MaxEdits) :
            shown = screen'[t] /\ held = files'[t]
      BY <2>3
    <3>2. Change(t, shown, held, uploaded[t], uploading[t])
      BY <2>1, <3>1 DEF Change
    <3>3. uploading[t] \in SUBSET (1..MaxEdits)
      BY DEF CanvasTypeOK
    <3> QED
      BY <3>2, <3>3, ChangeTypes DEF CanvasTypeOK
  <2> QED
    BY <2>1, <2>2, <2>3, <2>4 DEF SharedTypeOK, CanvasTypeOK, Docs
<1>3. ASSUME NEW t \in Tabs, Look(t) PROVE SharedTypeOK' /\ CanvasTypeOK'
  <2>1. /\ net' \subseteq [tab : Tabs, doc : Docs, waits : BOOLEAN]
        /\ file' \in [Tabs -> Docs] /\ last' \in [Tabs -> Docs]
        /\ sent' \subseteq 1..MaxEdits
        /\ uploading' \in [Tabs -> SUBSET (1..MaxEdits)]
        /\ since' \in [Tabs -> SUBSET Happenings]
    BY <1>3, ChangeTypes DEF CanvasTypeOK, SharedTypeOK, Look
  <2> QED
    BY <1>3, <2>1 DEF Look, SharedTypeOK, CanvasTypeOK, Docs
<1>4. ASSUME NEW t \in Tabs, Uploaded(t) PROVE SharedTypeOK' /\ CanvasTypeOK'
  <2>1. PICK p \in 1..MaxEdits :
          /\ tries' = [tries EXCEPT ![t][p] = 99]
          /\ uploaded' = [uploaded EXCEPT ![t] = @ \cup {p}]
    BY <1>4 DEF Uploaded, CanvasTypeOK
  <2>2. tries' \in [Tabs -> [1..MaxEdits -> Nat]]
    <3>1. tries[t] \in [1..MaxEdits -> Nat]
      BY DEF CanvasTypeOK
    <3> DEFINE new == [tries[t] EXCEPT ![p] = 99]
    <3>2. new \in [1..MaxEdits -> Nat]
      BY <3>1
    <3>3. tries' = [tries EXCEPT ![t] = new]
      BY <2>1
    <3> HIDE DEF new
    <3> QED
      BY <3>2, <3>3 DEF CanvasTypeOK
  <2>3. uploaded' \in [Tabs -> SUBSET (1..MaxEdits)]
    BY <2>1 DEF CanvasTypeOK
  <2>4. /\ net' \subseteq [tab : Tabs, doc : Docs, waits : BOOLEAN]
        /\ file' \in [Tabs -> Docs] /\ last' \in [Tabs -> Docs]
        /\ sent' \subseteq 1..MaxEdits
        /\ uploading' \in [Tabs -> SUBSET (1..MaxEdits)]
        /\ since' \in [Tabs -> SUBSET Happenings]
    <3>1. PICK links \in SUBSET (1..MaxEdits), busy \in SUBSET (1..MaxEdits) :
            links = uploaded'[t] /\ busy = uploading[t] \ uploaded'[t]
      <4>1. uploading[t] \in SUBSET (1..MaxEdits) /\ uploaded'[t] \in SUBSET (1..MaxEdits)
        BY <2>3 DEF CanvasTypeOK
      <4> QED
        BY <4>1
    <3>2. Change(t, screen[t], files[t], links, busy)
      BY <1>4, <3>1 DEF Uploaded, Refresh, Change
    <3> QED
      BY <3>2, ChangeTypes DEF CanvasTypeOK, SharedTypeOK
  <2> QED
    BY <1>4, <2>2, <2>3, <2>4 DEF Uploaded, SharedTypeOK, CanvasTypeOK, Docs
<1>5. ASSUME NEW t \in Tabs, UploadFails(t) PROVE SharedTypeOK' /\ CanvasTypeOK'
  <2>1. PICK p \in 1..MaxEdits :
          /\ tries' = [tries EXCEPT ![t][p] = @ + 1]
          /\ uploading' = [uploading EXCEPT ![t] = @ \ {p}]
    BY <1>5 DEF UploadFails, CanvasTypeOK
  <2>2. tries' \in [Tabs -> [1..MaxEdits -> Nat]]
    <3>1. tries[t] \in [1..MaxEdits -> Nat]
      BY DEF CanvasTypeOK
    <3> DEFINE new == [tries[t] EXCEPT ![p] = tries[t][p] + 1]
    <3>a. tries[t][p] \in Nat
      BY <2>1, <3>1
    <3>2. tries[t][p] + 1 \in Nat
      BY <3>a
    <3>3. new \in [1..MaxEdits -> Nat]
      BY <3>1, <3>2
    <3>4. tries' = [tries EXCEPT ![t] = new]
      BY <2>1
    <3> HIDE DEF new
    <3> QED
      BY <3>3, <3>4 DEF CanvasTypeOK
  <2>3. uploading' \in [Tabs -> SUBSET (1..MaxEdits)]
    BY <2>1 DEF CanvasTypeOK
  <2>4. since' \in [Tabs -> SUBSET Happenings]
    BY <1>5 DEF UploadFails, CanvasTypeOK, Happenings
  <2>5. faults' \in 0..MaxFaults
    BY <1>5, PanelBounds DEF UploadFails, Fail, SharedTypeOK
  <2>6. /\ UNCHANGED <<view, plan, made, rows, net, file, open, screen, last, sent, pushes, mounts, clicks>>
        /\ UNCHANGED <<files, uploaded, blank>>
    BY <1>5 DEF UploadFails
  <2>7. SharedTypeOK'
    BY <2>5, <2>6 DEF SharedTypeOK, Docs
  <2> QED
    BY <2>2, <2>3, <2>4, <2>6, <2>7 DEF CanvasTypeOK
<1>6. ASSUME NEW t \in Tabs, SaveWhiteboard(t) PROVE SharedTypeOK' /\ CanvasTypeOK'
  <2> DEFINE doc == IF "mount" \in since[t] THEN EmptyBoard ELSE Board(screen[t], files[t], {})
  <2>1. doc \in Docs
    BY <1>b, BoardTypes DEF SharedTypeOK, CanvasTypeOK
  <2>2. Send(t, doc, FALSE) /\ last' = [last EXCEPT ![t] = doc]
    BY <1>6 DEF SaveWhiteboard
  <2> HIDE DEF doc
  <2>3. /\ net' \subseteq [tab : Tabs, doc : Docs, waits : BOOLEAN]
        /\ file' \in [Tabs -> Docs]
        /\ sent' \subseteq 1..MaxEdits
    BY <2>1, <2>2, SendTypes
  <2>4. last' \in [Tabs -> Docs]
    BY <2>1, <2>2 DEF SharedTypeOK
  <2>5. clicks' \in Nat
    BY <1>6 DEF SaveWhiteboard, Click, SharedTypeOK
  <2>6. /\ UNCHANGED <<view, plan, made, rows, open, screen, pushes, mounts, faults>>
        /\ UNCHANGED canvas
    BY <1>6 DEF SaveWhiteboard
  <2>7. SharedTypeOK'
    BY <2>3, <2>4, <2>5, <2>6 DEF SharedTypeOK, Docs
  <2> QED
    BY <2>6, <2>7 DEF canvas, CanvasTypeOK
<1>7. ASSUME NEW t \in Tabs, PushBoard(t) PROVE SharedTypeOK' /\ CanvasTypeOK'
  <2>1. PICK doc \in Docs :
          /\ Arrive(t, doc)
          /\ last' = [last EXCEPT ![t] = Remembered(t, doc)]
          /\ IF doc # Empty /\ doc # Remembered(t, doc) /\ "mount" \notin since[t]
             THEN /\ screen' = [screen EXCEPT ![t] = doc.edits]
                  /\ files' = [files EXCEPT ![t] = @ \cup doc.raw \cup doc.links]
                  /\ uploaded' = [uploaded EXCEPT ![t] = @ \cup doc.links]
             ELSE UNCHANGED <<screen, files, uploaded>>
    BY <1>7, RowsTypes DEF PushBoard
  <2>2. /\ doc.edits \subseteq 1..MaxEdits /\ doc.raw \subseteq 1..MaxEdits /\ doc.links \subseteq 1..MaxEdits
        /\ Remembered(t, doc) \in Docs
    BY DEF Docs, Remembered, SharedTypeOK
  <2>3. last' \in [Tabs -> Docs] /\ file' \in [Tabs -> Docs] /\ pushes' \in Nat
    BY <2>1, <2>2 DEF SharedTypeOK, Arrive
  <2>a. since' \in [Tabs -> SUBSET Happenings]
    BY <1>7 DEF PushBoard, CanvasTypeOK, Happenings
  <2>4. /\ screen' \in [Tabs -> SUBSET (1..MaxEdits)]
        /\ files' \in [Tabs -> SUBSET (1..MaxEdits)] /\ uploaded' \in [Tabs -> SUBSET (1..MaxEdits)]
    <3>1. CASE UNCHANGED <<screen, files, uploaded>>
      BY <3>1 DEF SharedTypeOK, CanvasTypeOK
    <3>2. CASE /\ screen' = [screen EXCEPT ![t] = doc.edits]
               /\ files' = [files EXCEPT ![t] = @ \cup doc.raw \cup doc.links]
               /\ uploaded' = [uploaded EXCEPT ![t] = @ \cup doc.links]
      BY <2>2, <3>2 DEF SharedTypeOK, CanvasTypeOK
    <3> QED
      BY <2>1, <3>1, <3>2
  <2>5. UNCHANGED <<view, plan, made, rows, net, open, sent, mounts, faults, clicks, uploading, tries, blank>>
    BY <1>7 DEF PushBoard
  <2>6. SharedTypeOK'
    BY <2>3, <2>4, <2>5 DEF SharedTypeOK, Docs
  <2> QED
    BY <2>4, <2>a, <2>5, <2>6 DEF CanvasTypeOK
<1>8. ASSUME NEW n \in net, NEW stored \in BOOLEAN, BoardAnswered(n, stored)
      PROVE SharedTypeOK' /\ CanvasTypeOK'
  BY <1>8, AnswerTypes DEF BoardAnswered, canvas, CanvasTypeOK
<1>9. ASSUME NEW t \in Tabs, LeaveCanvas(t) PROVE SharedTypeOK' /\ CanvasTypeOK'
  <2>1. tries' \in [Tabs -> [1..MaxEdits -> Nat]]
    BY <1>9 DEF LeaveCanvas, CanvasTypeOK
  <2>2. SharedTypeOK'
    BY <1>9, RowsTypes DEF LeaveCanvas, Close, SharedTypeOK, Docs
  <2>3. files' \in [Tabs -> SUBSET (1..MaxEdits)] /\ uploading' \in [Tabs -> SUBSET (1..MaxEdits)]
        /\ uploaded' \in [Tabs -> SUBSET (1..MaxEdits)] /\ blank' \subseteq 1..MaxEdits
    BY <1>9 DEF LeaveCanvas, CanvasTypeOK
  <2>4. since' \in [Tabs -> SUBSET Happenings]
    BY <1>9 DEF LeaveCanvas, CanvasTypeOK
  <2> QED
    BY <2>1, <2>2, <2>3, <2>4 DEF CanvasTypeOK
<1> QED
  BY <1>0, <1>1, <1>2, <1>3, <1>4, <1>5, <1>6, <1>7, <1>8, <1>9 DEF CanvasStep

\* A snapshot begins with what the screen shows.
LEMMA BeginTypes ==
  ASSUME SharedTypeOK, EditorTypeOK, NEW t \in Tabs, NEW image \in 0..MaxEdits
  PROVE  Begin(t, image) \in Seq(Snapshots)
<1>1. [seen |-> screen[t], image |-> image, live |-> TRUE, late |-> FALSE] \in Snapshots
  BY DEF SharedTypeOK, Snapshots
<1>2. taking[t] \in Seq(Snapshots)
  BY DEF EditorTypeOK
<1> QED
  BY <1>1, <1>2 DEF Begin

LEMMA DropTypes ==
  ASSUME EditorTypeOK, NEW t \in Tabs, NEW shown, NEW why \in Losses
  PROVE  Dropped(t, shown, why) \in [1..MaxEdits -> Losses]
<1>1. "swept" \in Losses
  BY DEF Losses
<1> QED
  BY <1>1 DEF Dropped, EditorTypeOK

LEMMA RenderTypes ==
  ASSUME SharedTypeOK, EditorTypeOK, NEW t \in Tabs, NEW doc \in Docs, NEW why \in Losses,
         NEW drawn \in BOOLEAN, Render(t, doc, drawn, why)
  PROVE  /\ screen' \in [Tabs -> SUBSET (1..MaxEdits)] /\ last' \in [Tabs -> Docs]
         /\ guard' \in [Tabs -> BOOLEAN] /\ clears' \in [Tabs -> Nat]
         /\ taking' \in [Tabs -> Seq(Snapshots)]
         /\ drawing' \in [Tabs -> Seq(Drawings)]
         /\ parted' \in [Tabs -> SUBSET Partings]
         /\ lost' \in [1..MaxEdits -> Losses]
         /\ faults' \in 0..MaxFaults
<1>1. doc.edits \subseteq 1..MaxEdits
  BY DEF Docs
<1>2. screen' \in [Tabs -> SUBSET (1..MaxEdits)] /\ last' \in [Tabs -> Docs]
  <2> DEFINE new == IF drawn THEN doc.edits ELSE Blocks(screen[t]) \cup Sizes(doc.edits)
  <2>1. new \subseteq 1..MaxEdits
    BY <1>1 DEF Blocks, Sizes, SharedTypeOK
  <2>2. screen' = [screen EXCEPT ![t] = new] /\ last' = [last EXCEPT ![t] = doc]
    BY DEF Render
  <2> HIDE DEF new
  <2> QED
    BY <2>1, <2>2 DEF SharedTypeOK
<1>3. guard' \in [Tabs -> BOOLEAN]
  BY DEF Render, EditorTypeOK
<1>4. clears' \in [Tabs -> Nat]
  BY DEF Render, EditorTypeOK
<1>5. parted' \in [Tabs -> SUBSET Partings]
  BY DEF Render, EditorTypeOK, Partings
<1>6. lost' \in [1..MaxEdits -> Losses]
  <2>1. PICK shown : shown = screen'[t]
    OBVIOUS
  <2>2. lost' = Dropped(t, shown, why)
    BY <2>1 DEF Render, Drop
  <2> QED
    BY <2>2, DropTypes
<1>7. taking' \in [Tabs -> Seq(Snapshots)]
  <2>1. taking[t] \in Seq(Snapshots) /\ AllLate(taking[t]) \in Seq(Snapshots)
    BY LateTypes DEF EditorTypeOK
  <2>2. taking' = [taking EXCEPT ![t] = IF drawn THEN AllLate(taking[t]) ELSE taking[t]]
    BY DEF Render
  <2> QED
    BY <2>1, <2>2 DEF EditorTypeOK
<1>8. drawing' \in [Tabs -> Seq(Drawings)]
  <2>0. drawing \in [Tabs -> Seq(Drawings)]
    BY DEF EditorTypeOK, Drawings
  <2>1. drawing[t] \in Seq(Drawings) /\ AllLate(drawing[t]) \in Seq(Drawings)
    BY <2>0, LateTypes
  <2>2. drawing' = [drawing EXCEPT ![t] = IF drawn THEN AllLate(drawing[t]) ELSE drawing[t]]
    BY DEF Render
  <2> QED
    BY <2>0, <2>1, <2>2
<1>9. faults' \in 0..MaxFaults
  BY PanelBounds DEF Render, Fail, SharedTypeOK
<1> QED
  BY <1>2, <1>3, <1>4, <1>5, <1>6, <1>7, <1>8, <1>9

LEMMA SnapshotDoc ==
  ASSUME SharedTypeOK, EditorTypeOK, NEW t \in Tabs, NEW s \in Snapshots
  PROVE  Snapshot(t, s) \in Docs
<1>1. /\ s.seen \subseteq 1..MaxEdits /\ s.image \in 0..MaxEdits
      /\ screen[t] \subseteq 1..MaxEdits
  BY DEF SharedTypeOK, Snapshots
<1> DEFINE kept == Blocks(s.seen) \cup Sizes(IF s.live THEN screen[t] ELSE s.seen)
                   \cup (IF s.image = 0 THEN {} ELSE {s.image})
<1>2. kept \subseteq 1..MaxEdits
  BY <1>1, PanelBounds DEF Blocks, Sizes
<1>3. taken + 1 \in Nat
  BY DEF EditorTypeOK
<1>4. Snapshot(t, s) = [no |-> taken + 1, raw |-> {}, links |-> {}, edits |-> kept]
  BY DEF Snapshot
<1> HIDE DEF kept
<1> QED
  BY <1>2, <1>3, <1>4 DEF Docs

\* A saved snapshot ends the undo stack.
LEMMA HistoryTypes ==
  ASSUME EditorTypeOK, NEW t \in Tabs, NEW doc \in Docs
  PROVE  LET h == Latest(Append(SubSeq(hist[t], 1, at[t]), doc), MaxHistory) IN
         /\ h \in Seq(Docs) /\ Len(h) <= MaxHistory
         /\ \A i \in DOMAIN h : h[i] = doc \/ \E j \in DOMAIN hist[t] : h[i] = hist[t][j]
<1>1. hist[t] \in Seq(Docs) /\ at[t] \in 0..Len(hist[t])
  BY HistoryBound DEF EditorTypeOK
<1> DEFINE kept == SubSeq(hist[t], 1, at[t])
<1>2. /\ kept \in Seq(Docs) /\ Len(kept) = at[t]
      /\ \A i \in 1..at[t] : kept[i] = hist[t][i]
  BY <1>1, SubSeqProperties
<1> HIDE DEF kept
<1>3. /\ Append(kept, doc) \in Seq(Docs)
      /\ \A i \in DOMAIN Append(kept, doc) :
           Append(kept, doc)[i] = doc \/ \E j \in DOMAIN hist[t] : Append(kept, doc)[i] = hist[t][j]
  BY <1>1, <1>2
<1>4. MaxHistory \in Nat
  BY HistoryBound
<1> DEFINE s == Append(kept, doc)
<1> HIDE DEF s
<1>5. /\ Latest(s, MaxHistory) \in Seq(Docs) /\ Len(Latest(s, MaxHistory)) <= MaxHistory
      /\ \A i \in DOMAIN Latest(s, MaxHistory) : \E j \in DOMAIN s : Latest(s, MaxHistory)[i] = s[j]
  <2>1. s \in Seq(Docs)
    BY <1>3 DEF s
  <2> QED
    BY <2>1, <1>4, LatestIn
<1>6. /\ Latest(s, MaxHistory) \in Seq(Docs) /\ Len(Latest(s, MaxHistory)) <= MaxHistory
      /\ \A i \in DOMAIN Latest(s, MaxHistory) :
           Latest(s, MaxHistory)[i] = doc \/ \E j \in DOMAIN hist[t] : Latest(s, MaxHistory)[i] = hist[t][j]
  BY <1>3, <1>5 DEF s
<1> QED
  BY <1>6 DEF s, kept

\* The variables a step of the editor leaves alone keep their types.
LEMMA EditorType == SharedTypeOK /\ EditorTypeOK /\ EditorStep => SharedTypeOK' /\ EditorTypeOK'
<1> SUFFICES ASSUME SharedTypeOK, EditorTypeOK, EditorStep
             PROVE  SharedTypeOK' /\ EditorTypeOK'
  OBVIOUS
<1>1. ASSUME NEW t \in Tabs, Mount(t) PROVE SharedTypeOK' /\ EditorTypeOK'
  <2>1. PICK doc \in Docs : /\ Open(t, doc, doc.edits)
                            /\ hist' = [hist EXCEPT ![t] = <<doc>>]
                            /\ at' = [at EXCEPT ![t] = 1]
    BY <1>1, RowsTypes DEF Mount
  <2>2. /\ UNCHANGED <<view, plan, made, rows, net, sent, pushes, faults, clicks>>
        /\ UNCHANGED <<guard, clears, dirty, timer, taking, taken, drawing, lost, mixed, parted>>
    BY <1>1 DEF Mount
  <2>3. doc.edits \subseteq 1..MaxEdits
    BY DEF Docs
  <2>4. /\ open' \in [Tabs -> BOOLEAN]
        /\ file' \in [Tabs -> Docs] /\ last' \in [Tabs -> Docs]
        /\ screen' \in [Tabs -> SUBSET (1..MaxEdits)]
    BY <2>1, <2>3 DEF Open, SharedTypeOK
  <2>5. mounts' \in 0..MaxMounts
    BY <2>1, PanelBounds DEF Open, SharedTypeOK
  <2>6. <<doc>> \in Seq(Docs) /\ Len(<<doc>>) = 1
    OBVIOUS
  <2>7. hist' \in [Tabs -> Seq(Docs)] /\ at' \in [Tabs -> 0..MaxHistory]
    BY <2>1, <2>6, HistoryBound DEF EditorTypeOK
  <2>8. \A u \in Tabs : Len(hist'[u]) <= MaxHistory /\ at'[u] <= Len(hist'[u])
    BY <2>1, <2>6, HistoryBound DEF EditorTypeOK
  <2>9. SharedTypeOK'
    BY <2>2, <2>4, <2>5 DEF SharedTypeOK
  <2> QED
    BY <2>2, <2>7, <2>8, <2>9 DEF EditorTypeOK
<1>2. ASSUME NEW t \in Tabs, Type(t) PROVE SharedTypeOK' /\ EditorTypeOK'
  <2>1. /\ Make(t, "type") /\ screen' = [screen EXCEPT ![t] = @ \cup {Len(made')}]
        /\ dirty' = [dirty EXCEPT ![t] = TRUE]
        /\ UNCHANGED <<view, plan, rows, net, file, open, last, sent, pushes, mounts, faults, clicks>>
        /\ UNCHANGED <<guard, clears, timer, taking, taken, drawing, hist, at, lost, mixed, parted>>
    BY <1>2 DEF Type
  <2>2. Len(made') \in 1..MaxEdits /\ made' \in Seq(Edit) /\ Len(made') <= Len(plan)
    BY <2>1, Grows
  <2>3. SharedTypeOK'
    BY <2>1, <2>2 DEF SharedTypeOK
  <2> QED
    BY <2>1, <2>3 DEF EditorTypeOK
<1>3. ASSUME NEW t \in Tabs, Resize(t) PROVE SharedTypeOK' /\ EditorTypeOK'
  <2>1. /\ Make(t, "resize") /\ screen' = [screen EXCEPT ![t] = @ \cup {Len(made')}]
        /\ timer' = [timer EXCEPT ![t] = TRUE]
        /\ UNCHANGED <<view, plan, rows, net, file, open, last, sent, pushes, mounts, faults, clicks>>
        /\ UNCHANGED <<guard, clears, dirty, taking, taken, drawing, hist, at, lost, mixed, parted>>
    BY <1>3 DEF Resize
  <2>2. Len(made') \in 1..MaxEdits /\ made' \in Seq(Edit) /\ Len(made') <= Len(plan)
    BY <2>1, Grows
  <2>3. SharedTypeOK'
    BY <2>1, <2>2 DEF SharedTypeOK
  <2> QED
    BY <2>1, <2>3 DEF EditorTypeOK
<1>4. ASSUME NEW t \in Tabs, OnChange(t) PROVE SharedTypeOK' /\ EditorTypeOK'
  <2>1. /\ UNCHANGED shared /\ UNCHANGED <<guard, clears, timer, taken, drawing, hist, at, mixed>>
        /\ dirty' = [dirty EXCEPT ![t] = FALSE]
    BY <1>4 DEF OnChange
  <2>2. SharedTypeOK'
    BY <2>1 DEF shared, SharedTypeOK
  <2>3. /\ parted' \in [Tabs -> SUBSET Partings]
        /\ lost' \in [1..MaxEdits -> Losses]
        /\ taking' \in [Tabs -> Seq(Snapshots)]
    <3>1. CASE guard[t]
      <4>1. /\ parted' = [parted EXCEPT ![t] = @ \cup {"ignored"}]
            /\ Drop(t, Sizes(screen[t]), "ignored") /\ UNCHANGED taking
        BY <1>4, <3>1 DEF OnChange
      <4>2. lost' \in [1..MaxEdits -> Losses]
        BY <4>1, DropTypes DEF Losses, Drop
      <4> QED
        BY <4>1, <4>2 DEF EditorTypeOK, Partings
    <3>2. CASE ~guard[t]
      <4>1. taking' = [taking EXCEPT ![t] = Begin(t, 0)] /\ UNCHANGED <<parted, lost>>
        BY <1>4, <3>2 DEF OnChange
      <4>2. Begin(t, 0) \in Seq(Snapshots)
        BY BeginTypes, PanelBounds
      <4> QED
        BY <4>1, <4>2 DEF EditorTypeOK
    <3> QED
      BY <3>1, <3>2
  <2> QED
    BY <2>1, <2>2, <2>3 DEF EditorTypeOK
<1>5. ASSUME NEW t \in Tabs, SaveTimeout(t) PROVE SharedTypeOK' /\ EditorTypeOK'
  <2>1. /\ UNCHANGED shared /\ UNCHANGED <<guard, clears, dirty, taken, drawing, hist, at, lost, mixed, parted>>
        /\ timer' = [timer EXCEPT ![t] = FALSE] /\ taking' = [taking EXCEPT ![t] = Begin(t, 0)]
    BY <1>5 DEF SaveTimeout
  <2>2. SharedTypeOK'
    BY <2>1 DEF shared, SharedTypeOK
  <2>3. Begin(t, 0) \in Seq(Snapshots)
    BY BeginTypes, PanelBounds
  <2> QED
    BY <2>1, <2>2, <2>3 DEF EditorTypeOK
<1>6. ASSUME NEW t \in Tabs, SaveClick(t) PROVE SharedTypeOK' /\ EditorTypeOK'
  <2>1. /\ UNCHANGED <<view, plan, made, rows, net, file, open, screen, last, sent, pushes, mounts, faults>>
        /\ UNCHANGED <<guard, clears, dirty, timer, taken, drawing, hist, at, lost, mixed, parted>>
        /\ taking' = [taking EXCEPT ![t] = Begin(t, 0)] /\ Click(t)
    BY <1>6 DEF SaveClick
  <2>2. clicks' \in Nat
    BY <2>1 DEF Click, SharedTypeOK
  <2>3. SharedTypeOK'
    BY <2>1, <2>2 DEF SharedTypeOK
  <2>4. Begin(t, 0) \in Seq(Snapshots)
    BY BeginTypes, PanelBounds
  <2> QED
    BY <2>1, <2>3, <2>4 DEF EditorTypeOK
<1>7. ASSUME NEW t \in Tabs, EditImage(t) PROVE SharedTypeOK' /\ EditorTypeOK'
  <2>1. /\ Make(t, "picture") /\ taking' = [taking EXCEPT ![t] = Begin(t, Len(made'))]
        /\ UNCHANGED <<view, plan, rows, net, file, open, screen, last, sent, pushes, mounts, faults, clicks>>
        /\ UNCHANGED <<guard, clears, dirty, timer, taken, drawing, hist, at, lost, mixed, parted>>
    BY <1>7 DEF EditImage
  <2>2. Len(made') \in 1..MaxEdits /\ made' \in Seq(Edit) /\ Len(made') <= Len(plan)
    BY <2>1, Grows
  <2>3. SharedTypeOK'
    BY <2>1, <2>2 DEF SharedTypeOK
  <2>4. PICK image \in 0..MaxEdits : image = Len(made')
    BY <2>2
  <2>5. taking' = [taking EXCEPT ![t] = Begin(t, image)]
    BY <2>1, <2>4 DEF Begin
  <2>6. Begin(t, image) \in Seq(Snapshots)
    BY BeginTypes
  <2> QED
    BY <2>1, <2>3, <2>5, <2>6 DEF EditorTypeOK
<1>8. ASSUME NEW t \in Tabs, Save(t) PROVE SharedTypeOK' /\ EditorTypeOK'
  <2> DEFINE s == Head(taking[t])
             doc == Snapshot(t, s)
  <2>1. taking[t] # <<>> /\ taking[t] \in Seq(Snapshots)
    BY <1>8 DEF Save, EditorTypeOK
  <2>2. s \in Snapshots /\ Tail(taking[t]) \in Seq(Snapshots)
    BY <2>1
  <2>3. doc \in Docs
    BY <2>2, SnapshotDoc
  <2>4. /\ taking' = [taking EXCEPT ![t] = Tail(@)] /\ taken' = taken + 1
        /\ UNCHANGED <<view, plan, made, rows, open, screen, pushes, mounts, faults, clicks>>
        /\ UNCHANGED <<guard, clears, dirty, timer, lost>>
    BY <1>8 DEF Save
  <2>5. taking' \in [Tabs -> Seq(Snapshots)] /\ taken' \in Nat
    BY <2>2, <2>4 DEF EditorTypeOK
  <2>6. CASE s.live
    <3>1. /\ Send(t, doc, FALSE)
          /\ last' = [last EXCEPT ![t] = doc]
          /\ hist' = [hist EXCEPT ![t] = Latest(Append(SubSeq(@, 1, at[t]), doc), MaxHistory)]
          /\ at' = [at EXCEPT ![t] = Len(hist'[t])]
          /\ mixed' = [mixed EXCEPT ![t] = @ \/ s.late]
          /\ drawing' = [drawing EXCEPT ![t] = AllLate(@)]
          /\ parted' = [parted EXCEPT ![t] = IF s.late THEN @ \cup {"late"}
                                         ELSE IF doc.edits = screen[t] THEN {} ELSE @]
      BY <1>8, <2>6 DEF Save
    <3> HIDE DEF doc
    <3> DEFINE h == Latest(Append(SubSeq(hist[t], 1, at[t]), doc), MaxHistory)
    <3>2. h \in Seq(Docs) /\ Len(h) <= MaxHistory
      BY <2>3, HistoryTypes
    <3>3. hist' = [hist EXCEPT ![t] = h]
      BY <3>1
    <3> HIDE DEF h
    <3>4. hist' \in [Tabs -> Seq(Docs)] /\ hist'[t] = h
      BY <3>2, <3>3 DEF EditorTypeOK
    <3>5. Len(h) \in 0..MaxHistory
      BY <3>2, HistoryBound
    <3>6. at' \in [Tabs -> 0..MaxHistory] /\ at'[t] = Len(h)
      BY <3>1, <3>4, <3>5 DEF EditorTypeOK
    <3>7. \A u \in Tabs : Len(hist'[u]) <= MaxHistory /\ at'[u] <= Len(hist'[u])
      BY <3>1, <3>3, <3>4, <3>5, <3>6 DEF EditorTypeOK
    <3>8. mixed' \in [Tabs -> BOOLEAN]
      BY <3>1, <2>2 DEF EditorTypeOK, Snapshots
    <3>9. parted' \in [Tabs -> SUBSET Partings]
      BY <3>1 DEF EditorTypeOK, Partings
    <3>a. drawing' \in [Tabs -> Seq(Drawings)]
      <4>1. drawing \in [Tabs -> Seq(Drawings)]
        BY DEF EditorTypeOK, Drawings
      <4>2. AllLate(drawing[t]) \in Seq(Drawings)
        BY <4>1, LateTypes
      <4>3. drawing' = [drawing EXCEPT ![t] = AllLate(drawing[t])]
        BY <3>1
      <4> QED
        BY <4>1, <4>2, <4>3
    <3>10. SharedTypeOK'
      <4>1. last' \in [Tabs -> Docs]
        BY <3>1, <2>3 DEF SharedTypeOK
      <4>2. /\ net' \subseteq [tab : Tabs, doc : Docs, waits : BOOLEAN]
            /\ file' \in [Tabs -> Docs] /\ sent' \subseteq 1..MaxEdits
        BY <3>1, <2>3, SendTypes
      <4> QED
        BY <2>4, <4>1, <4>2 DEF SharedTypeOK
    <3> QED
      BY <2>4, <2>5, <3>4, <3>6, <3>7, <3>8, <3>9, <3>a, <3>10 DEF EditorTypeOK, Drawings
  <2>7. CASE ~s.live
    <3>1. /\ net' = net \cup {[tab |-> t, doc |-> doc, waits |-> FALSE]}
          /\ sent' = sent \cup doc.edits
          /\ UNCHANGED <<file, last, hist, at, mixed, drawing, parted>>
      BY <1>8, <2>7 DEF Save
    <3> HIDE DEF doc
    <3>2. [tab |-> t, doc |-> doc, waits |-> FALSE] \in [tab : Tabs, doc : Docs, waits : BOOLEAN]
      BY <2>3
    <3>3. doc.edits \subseteq 1..MaxEdits
      BY <2>3 DEF Docs
    <3>4. SharedTypeOK'
      BY <2>4, <3>1, <3>2, <3>3 DEF SharedTypeOK
    <3> QED
      BY <2>4, <2>5, <3>1, <3>4 DEF EditorTypeOK
  <2> QED
    BY <2>6, <2>7
<1>9. ASSUME NEW t \in Tabs, SaveImage(t) PROVE SharedTypeOK' /\ EditorTypeOK'
  <2> DEFINE d == Head(drawing[t])
  <2>0. drawing \in [Tabs -> Seq(Drawings)] /\ drawing[t] # <<>>
    BY <1>9 DEF SaveImage, EditorTypeOK, Drawings
  <2>1. d \in Drawings /\ Tail(drawing[t]) \in Seq(Drawings)
    BY <2>0
  <2>2. drawing' = [drawing EXCEPT ![t] = Tail(drawing[t])]
    BY <1>9 DEF SaveImage
  <2>3. drawing' \in [Tabs -> Seq(Drawings)]
    BY <2>0, <2>1, <2>2
  <2>4. PICK doc \in Docs : doc = d.doc
    BY <2>1 DEF Drawings
  <2>5. /\ UNCHANGED <<view, plan, made, rows, open, screen, pushes, mounts, faults, clicks>>
        /\ UNCHANGED <<guard, clears, dirty, timer, taking, taken, hist, at, lost, mixed>>
    BY <1>9 DEF SaveImage
  <2>6. /\ net' \subseteq [tab : Tabs, doc : Docs, waits : BOOLEAN]
        /\ file' \in [Tabs -> Docs] /\ sent' \subseteq 1..MaxEdits /\ last' \in [Tabs -> Docs]
        /\ parted' \in [Tabs -> SUBSET Partings]
    <3>1. CASE d.live
      <4>1. Send(t, doc, TRUE) /\ last' = [last EXCEPT ![t] = doc]
        BY <1>9, <2>4, <3>1 DEF SaveImage
      <4>2. parted' \in [Tabs -> SUBSET Partings]
        <5>1. parted' = [parted EXCEPT ![t] = IF d.late THEN @ \cup {"late"}
                                            ELSE IF d.doc.edits = screen[t] THEN {} ELSE @]
          BY <1>9, <3>1 DEF SaveImage
        <5> HIDE DEF d
        <5> QED
          BY <5>1 DEF EditorTypeOK, Partings
      <4>3. last' \in [Tabs -> Docs]
        BY <4>1 DEF SharedTypeOK
      <4> QED
        BY <4>1, <4>2, <4>3, SendTypes
    <3>2. CASE ~d.live
      <4>1. /\ net' = net \cup {[tab |-> t, doc |-> doc, waits |-> FALSE]}
            /\ sent' = sent \cup doc.edits /\ UNCHANGED <<file, last, parted>>
        BY <1>9, <2>4, <3>2 DEF SaveImage
      <4>2. [tab |-> t, doc |-> doc, waits |-> FALSE] \in [tab : Tabs, doc : Docs, waits : BOOLEAN]
        OBVIOUS
      <4>3. doc.edits \subseteq 1..MaxEdits
        BY DEF Docs
      <4> QED
        BY <4>1, <4>2, <4>3 DEF SharedTypeOK, EditorTypeOK
    <3> QED
      BY <3>1, <3>2
  <2>7. SharedTypeOK'
    BY <2>5, <2>6 DEF SharedTypeOK
  <2> QED
    BY <2>3, <2>5, <2>6, <2>7 DEF EditorTypeOK, Drawings
<1>a. ASSUME NEW t \in Tabs, SnapshotFails(t) PROVE SharedTypeOK' /\ EditorTypeOK'
  <2>1. taking[t] # <<>> /\ taking[t] \in Seq(Snapshots)
    BY <1>a DEF SnapshotFails, EditorTypeOK
  <2>2. Tail(taking[t]) \in Seq(Snapshots)
    BY <2>1
  <2>3. taking' = [taking EXCEPT ![t] = Tail(@)]
    BY <1>a DEF SnapshotFails
  <2>4. taking' \in [Tabs -> Seq(Snapshots)]
    BY <2>2, <2>3 DEF EditorTypeOK
  <2>5. lost' \in [1..MaxEdits -> Losses]
    BY <1>a DEF SnapshotFails, EditorTypeOK, Losses
  <2>6. parted' \in [Tabs -> SUBSET Partings]
    BY <1>a DEF SnapshotFails, EditorTypeOK, Partings
  <2>7. faults' \in 0..MaxFaults
    BY <1>a, PanelBounds DEF SnapshotFails, Fail, SharedTypeOK
  <2>8. /\ UNCHANGED <<view, plan, made, rows, net, file, open, screen, last, sent, pushes, mounts, clicks>>
        /\ UNCHANGED <<guard, clears, dirty, timer, taken, drawing, hist, at, mixed>>
    BY <1>a DEF SnapshotFails
  <2>9. SharedTypeOK'
    BY <2>7, <2>8 DEF SharedTypeOK
  <2> QED
    BY <2>4, <2>5, <2>6, <2>8, <2>9 DEF EditorTypeOK
<1>b. ASSUME NEW t \in Tabs, ImageUndrawn(t) PROVE SharedTypeOK' /\ EditorTypeOK'
  <2> DEFINE s == Head(taking[t])
  <2>1. taking[t] # <<>> /\ taking[t] \in Seq(Snapshots)
    BY <1>b DEF ImageUndrawn, EditorTypeOK
  <2>2. Tail(taking[t]) \in Seq(Snapshots) /\ s \in Snapshots
    BY <2>1
  <2>3. /\ taking' = [taking EXCEPT ![t] = Tail(@)] /\ taken' = taken + 1
        /\ guard' = [guard EXCEPT ![t] = @ \/ s.live]
        /\ lost' = [lost EXCEPT ![s.image] = "undrawn"]
    BY <1>b DEF ImageUndrawn
  <2>4. taking' \in [Tabs -> Seq(Snapshots)] /\ taken' \in Nat
    BY <2>2, <2>3 DEF EditorTypeOK
  <2>5. lost' \in [1..MaxEdits -> Losses]
    BY <2>3 DEF EditorTypeOK, Losses
  <2>6. guard' \in [Tabs -> BOOLEAN]
    BY <2>2, <2>3 DEF EditorTypeOK, Snapshots
  <2>7. faults' \in 0..MaxFaults
    BY <1>b, PanelBounds DEF ImageUndrawn, Fail, SharedTypeOK
  <2>8. /\ UNCHANGED <<view, plan, made, rows, net, file, open, screen, last, sent, pushes, mounts, clicks>>
        /\ UNCHANGED <<clears, dirty, timer, drawing, hist, at, mixed, parted>>
    BY <1>b DEF ImageUndrawn
  <2>9. SharedTypeOK'
    BY <2>7, <2>8 DEF SharedTypeOK
  <2> QED
    BY <2>4, <2>5, <2>6, <2>8, <2>9 DEF EditorTypeOK
<1>c. ASSUME NEW t \in Tabs, DrawImage(t) PROVE SharedTypeOK' /\ EditorTypeOK'
  <2> DEFINE s == Head(taking[t])
  <2>1. PICK there \in BOOLEAN :
          LET doc == Snapshot(t, IF there THEN s ELSE [s EXCEPT !.image = 0])
              shown == IF s.live THEN doc.edits ELSE screen[t]
          IN /\ screen' = [screen EXCEPT ![t] = shown]
             /\ drawing' = [drawing EXCEPT ![t] = Append(IF s.live THEN AllLate(@) ELSE @,
                                                 [doc |-> doc, live |-> s.live, late |-> FALSE])]
             /\ lost' = LET kept == Dropped(t, shown, "replaced") IN
                           IF there THEN kept ELSE [kept EXCEPT ![s.image] = "gone"]
    BY <1>c DEF DrawImage
  <2>2. /\ taking[t] # <<>> /\ taken' = taken + 1
        /\ guard' = [guard EXCEPT ![t] = @ \/ s.live]
        /\ taking' = [taking EXCEPT ![t] = IF s.live THEN AllLate(Tail(@)) ELSE Tail(@)]
        /\ mixed' = [mixed EXCEPT ![t] = @ \/ (s.live /\ s.late)]
        /\ UNCHANGED <<view, plan, made, rows, net, file, open, last, sent, pushes, mounts, faults, clicks>>
        /\ UNCHANGED <<clears, dirty, timer, hist, at, parted>>
    BY <1>c DEF DrawImage
  <2>3. s \in Snapshots /\ Tail(taking[t]) \in Seq(Snapshots)
    BY <2>2 DEF EditorTypeOK
  <2>4. PICK z \in Snapshots : z = (IF there THEN s ELSE [s EXCEPT !.image = 0])
    <3>1. [s EXCEPT !.image = 0] \in Snapshots
      <4> HIDE DEF s
      <4> QED BY <2>3, PanelBounds DEF Snapshots
    <3> QED
      BY <2>3, <3>1
  <2>5. PICK doc \in Docs : doc = Snapshot(t, z)
    BY SnapshotDoc
  <2>6. PICK shown \in SUBSET (1..MaxEdits) : shown = (IF s.live THEN doc.edits ELSE screen[t])
    BY DEF Docs, SharedTypeOK
  <2>7. /\ screen' = [screen EXCEPT ![t] = shown]
        /\ drawing' = [drawing EXCEPT ![t] = Append(IF s.live THEN AllLate(@) ELSE @,
                                             [doc |-> doc, live |-> s.live, late |-> FALSE])]
        /\ lost' = IF there THEN Dropped(t, shown, "replaced")
                   ELSE [Dropped(t, shown, "replaced") EXCEPT ![s.image] = "gone"]
    BY <2>1, <2>4, <2>5, <2>6
  <2> HIDE DEF s
  <2>8. screen' \in [Tabs -> SUBSET (1..MaxEdits)]
    BY <2>7 DEF SharedTypeOK
  <2>9. drawing' \in [Tabs -> Seq(Drawings)]
    <3>1. drawing \in [Tabs -> Seq(Drawings)]
      BY DEF EditorTypeOK, Drawings
    <3>2. [doc |-> doc, live |-> s.live, late |-> FALSE] \in Drawings
      BY <2>3 DEF Snapshots, Drawings
    <3>3. PICK old \in Seq(Drawings) : old = (IF s.live THEN AllLate(drawing[t]) ELSE drawing[t])
      BY <3>1, LateTypes
    <3>4. drawing' = [drawing EXCEPT ![t] = Append(old, [doc |-> doc, live |-> s.live, late |-> FALSE])]
      BY <2>7, <3>3
    <3>5. Append(old, [doc |-> doc, live |-> s.live, late |-> FALSE]) \in Seq(Drawings)
      BY <3>2
    <3> QED
      BY <3>1, <3>4, <3>5
  <2>10. lost' \in [1..MaxEdits -> Losses]
    BY <2>7, DropTypes DEF Losses
  <2>11. taking' \in [Tabs -> Seq(Snapshots)] /\ taken' \in Nat
    <3>1. PICK rest \in Seq(Snapshots) : rest = (IF s.live THEN AllLate(Tail(taking[t])) ELSE Tail(taking[t]))
      BY <2>3, LateTypes
    <3>2. taking' = [taking EXCEPT ![t] = rest]
      BY <2>2, <3>1
    <3> QED
      BY <2>2, <3>2 DEF EditorTypeOK
  <2>12. guard' \in [Tabs -> BOOLEAN]
    BY <2>2, <2>3 DEF EditorTypeOK, Snapshots
  <2>13. mixed' \in [Tabs -> BOOLEAN]
    BY <2>2, <2>3 DEF EditorTypeOK, Snapshots
  <2>14. SharedTypeOK'
    BY <2>2, <2>8 DEF SharedTypeOK
  <2> QED
    BY <2>2, <2>9, <2>10, <2>11, <2>12, <2>13, <2>14 DEF EditorTypeOK, Drawings
<1>10. ASSUME NEW t \in Tabs, ClearGuard(t) PROVE SharedTypeOK' /\ EditorTypeOK'
  <2>1. /\ UNCHANGED shared /\ UNCHANGED <<dirty, timer, taking, taken, drawing, hist, at, lost, mixed, parted>>
        /\ guard' = [guard EXCEPT ![t] = FALSE] /\ clears[t] > 0
        /\ clears' = [clears EXCEPT ![t] = @ - 1]
    BY <1>10 DEF ClearGuard
  <2>2. SharedTypeOK'
    BY <2>1 DEF shared, SharedTypeOK
  <2>3. clears[t] \in Nat
    BY DEF EditorTypeOK
  <2>4. clears[t] - 1 \in Nat
    BY <2>1, <2>3
  <2>5. clears' \in [Tabs -> Nat]
    BY <2>1, <2>4 DEF EditorTypeOK
  <2> QED
    BY <2>1, <2>2, <2>5 DEF EditorTypeOK
<1>11. ASSUME NEW t \in Tabs, Push(t) PROVE SharedTypeOK' /\ EditorTypeOK'
  <2>1. PICK doc \in Docs, drawn \in BOOLEAN :
          /\ Arrive(t, doc)
          /\ IF Draws(t, doc)
             THEN /\ Render(t, doc, drawn, "replaced")
                  /\ hist' = [hist EXCEPT ![t] = HistoryAfter(t, doc)]
                  /\ at' = [at EXCEPT ![t] = Len(hist'[t])]
                  /\ mixed' = [mixed EXCEPT ![t] = ~drawn]
             ELSE UNCHANGED <<screen, last, guard, clears, taking, drawing, parted, lost, faults, hist, at, mixed>>
          /\ UNCHANGED <<view, plan, made, rows, net, open, sent, mounts, clicks, dirty, timer, taken>>
    BY <1>11, RowsTypes DEF Push
  <2>2. file' \in [Tabs -> Docs] /\ pushes' \in Nat
    BY <2>1 DEF Arrive, SharedTypeOK
  <2>3. CASE ~Draws(t, doc)
    <3>1. SharedTypeOK'
      BY <2>1, <2>2, <2>3 DEF SharedTypeOK
    <3> QED
      BY <2>1, <2>3, <3>1 DEF EditorTypeOK
  <2>4. CASE Draws(t, doc)
    <3>1. /\ Render(t, doc, drawn, "replaced")
          /\ hist' = [hist EXCEPT ![t] = <<doc>>]
          /\ at' = [at EXCEPT ![t] = Len(hist'[t])]
          /\ mixed' = [mixed EXCEPT ![t] = ~drawn]
      BY <2>1, <2>4 DEF HistoryAfter
    <3>2. /\ screen' \in [Tabs -> SUBSET (1..MaxEdits)] /\ last' \in [Tabs -> Docs]
          /\ guard' \in [Tabs -> BOOLEAN] /\ clears' \in [Tabs -> Nat]
          /\ taking' \in [Tabs -> Seq(Snapshots)]
          /\ parted' \in [Tabs -> SUBSET Partings]
          /\ lost' \in [1..MaxEdits -> Losses]
          /\ drawing' \in [Tabs -> Seq(Drawings)]
          /\ faults' \in 0..MaxFaults
      BY <3>1, RenderTypes DEF Losses
    <3>3. hist'[t] = <<doc>> /\ <<doc>> \in Seq(Docs) /\ Len(<<doc>>) = 1
      BY <3>1 DEF EditorTypeOK
    <3>4. hist' \in [Tabs -> Seq(Docs)] /\ at' \in [Tabs -> 0..MaxHistory]
      BY <3>1, <3>3, HistoryBound DEF EditorTypeOK
    <3>5. \A u \in Tabs : Len(hist'[u]) <= MaxHistory /\ at'[u] <= Len(hist'[u])
      BY <3>1, <3>3, HistoryBound DEF EditorTypeOK
    <3>6. mixed' \in [Tabs -> BOOLEAN]
      BY <3>1 DEF EditorTypeOK
    <3>7. SharedTypeOK'
      BY <2>1, <2>2, <3>2 DEF SharedTypeOK
    <3> QED
      BY <2>1, <3>2, <3>4, <3>5, <3>6, <3>7 DEF EditorTypeOK, Drawings
  <2> QED
    BY <2>3, <2>4
<1>12. ASSUME NEW t \in Tabs, NEW to, Travel(t, to) PROVE SharedTypeOK' /\ EditorTypeOK'
  <2>1. PICK drawn \in BOOLEAN :
        /\ Click(t) /\ to \in DOMAIN hist[t] /\ at' = [at EXCEPT ![t] = to]
        /\ Render(t, hist[t][to], drawn, "undone") /\ Send(t, hist[t][to], FALSE)
        /\ UNCHANGED <<view, plan, made, rows, open, pushes, mounts>>
        /\ UNCHANGED <<dirty, timer, taken, hist, mixed>>
    BY <1>12 DEF Travel
  <2>2. /\ hist[t] \in Seq(Docs) /\ Len(hist[t]) <= MaxHistory
        /\ DOMAIN hist[t] = 1..Len(hist[t]) /\ Len(hist[t]) \in Nat
    BY DEF EditorTypeOK
  <2>3. hist[t][to] \in Docs /\ to \in 1..Len(hist[t]) /\ to \in 0..MaxHistory
    BY <2>1, <2>2, HistoryBound
  <2>4. /\ screen' \in [Tabs -> SUBSET (1..MaxEdits)] /\ last' \in [Tabs -> Docs]
        /\ guard' \in [Tabs -> BOOLEAN] /\ clears' \in [Tabs -> Nat]
        /\ taking' \in [Tabs -> Seq(Snapshots)]
        /\ parted' \in [Tabs -> SUBSET Partings]
        /\ lost' \in [1..MaxEdits -> Losses]
        /\ drawing' \in [Tabs -> Seq(Drawings)]
        /\ faults' \in 0..MaxFaults
    BY <2>1, <2>3, RenderTypes DEF Losses
  <2>5. /\ net' \subseteq [tab : Tabs, doc : Docs, waits : BOOLEAN]
        /\ file' \in [Tabs -> Docs] /\ sent' \subseteq 1..MaxEdits
    BY <2>1, <2>3, SendTypes
  <2>6. clicks' \in Nat
    BY <2>1 DEF Click, SharedTypeOK
  <2>7. at' \in [Tabs -> 0..MaxHistory] /\ \A u \in Tabs : at'[u] <= Len(hist'[u])
    BY <2>1, <2>3 DEF EditorTypeOK
  <2>8. SharedTypeOK'
    BY <2>1, <2>4, <2>5, <2>6 DEF SharedTypeOK
  <2> QED
    BY <2>1, <2>4, <2>7, <2>8 DEF EditorTypeOK, Drawings
<1>13. ASSUME NEW t \in Tabs, Leave(t) PROVE SharedTypeOK' /\ EditorTypeOK'
  <2>1. PICK reported \in BOOLEAN : LET all == Flush(t, reported) IN
          /\ taking' = [taking EXCEPT ![t] = [i \in DOMAIN all |-> IF all[i].live
                THEN [all[i] EXCEPT !.seen = Blocks(@) \cup Sizes(screen[t]), !.live = FALSE]
                ELSE all[i]]]
          /\ Drop(t, Sizes(screen[t]), "left")
    BY <1>13 DEF Leave
  <2>2. /\ Close(t) /\ net' = {[n EXCEPT !.waits = n.waits /\ n.tab # t] : n \in net}
        /\ UNCHANGED <<view, plan, made, rows, sent, pushes, mounts, faults, clicks, taken>>
    BY <1>13 DEF Leave
  <2>3. dirty' \in [Tabs -> BOOLEAN]
    BY <1>13 DEF Leave, EditorTypeOK
  <2>4. timer' \in [Tabs -> BOOLEAN]
    BY <1>13 DEF Leave, EditorTypeOK
  <2>5. guard' \in [Tabs -> BOOLEAN]
    BY <1>13 DEF Leave, EditorTypeOK
  <2>6. mixed' \in [Tabs -> BOOLEAN]
    BY <1>13 DEF Leave, EditorTypeOK
  <2>a. clears' \in [Tabs -> Nat]
    <3>1. clears' = [clears EXCEPT ![t] = 0] /\ clears \in [Tabs -> Nat]
      BY <1>13 DEF Leave, EditorTypeOK
    <3> QED
      BY <3>1
  <2>7. parted' \in [Tabs -> SUBSET Partings]
    BY <1>13 DEF Leave, EditorTypeOK
  <2>8. hist' = [hist EXCEPT ![t] = <<>>] /\ at' = [at EXCEPT ![t] = 0]
    BY <1>13 DEF Leave
  <2>9. /\ hist' \in [Tabs -> Seq(Docs)] /\ at' \in [Tabs -> 0..MaxHistory]
        /\ \A u \in Tabs : Len(hist'[u]) <= MaxHistory /\ at'[u] <= Len(hist'[u])
    BY <2>8, HistoryBound DEF EditorTypeOK
  <2>10. lost' \in [1..MaxEdits -> Losses]
    BY <2>1, DropTypes DEF Losses, Drop
  <2>11. taking' \in [Tabs -> Seq(Snapshots)]
    <3> DEFINE all == Flush(t, reported)
               gone == [i \in DOMAIN all |-> IF all[i].live
                THEN [all[i] EXCEPT !.seen = Blocks(@) \cup Sizes(screen[t]), !.live = FALSE]
                ELSE all[i]]
    <3>1. all \in Seq(Snapshots)
      <4>1. taking[t] \in Seq(Snapshots)
        BY DEF EditorTypeOK
      <4>2. Begin(t, 0) \in Seq(Snapshots)
        BY BeginTypes, PanelBounds
      <4> QED
        BY <4>1, <4>2 DEF Flush
    <3> HIDE DEF all
    <3>2. DOMAIN all = 1..Len(all) /\ Len(all) \in Nat /\ \A i \in 1..Len(all) : all[i] \in Snapshots
      BY <3>1
    <3>3. ASSUME NEW i \in 1..Len(all)
          PROVE [all[i] EXCEPT !.seen = Blocks(@) \cup Sizes(screen[t]), !.live = FALSE] \in Snapshots
      <4>1. Blocks(all[i].seen) \cup Sizes(screen[t]) \in SUBSET (1..MaxEdits)
        BY <3>2 DEF Blocks, Sizes, Snapshots, SharedTypeOK
      <4> QED
        BY <3>2, <4>1, SnapshotTypes
    <3>4. gone \in [1..Len(all) -> Snapshots]
      BY <3>2, <3>3
    <3>5. taking' = [taking EXCEPT ![t] = gone]
      BY <2>1 DEF all
    <3> HIDE DEF gone
    <3>6. gone \in Seq(Snapshots)
      BY <3>2, <3>4, FunctionSeq
    <3> QED
      BY <3>5, <3>6 DEF EditorTypeOK
  <2>b. drawing' \in [Tabs -> Seq(Drawings)]
    <3> DEFINE gone == [i \in DOMAIN drawing[t] |-> [drawing[t][i] EXCEPT !.live = FALSE]]
    <3>1. drawing \in [Tabs -> Seq(Drawings)] /\ drawing[t] \in Seq(Drawings)
      BY DEF EditorTypeOK, Drawings
    <3>2. DOMAIN drawing[t] = 1..Len(drawing[t]) /\ Len(drawing[t]) \in Nat
          /\ \A i \in 1..Len(drawing[t]) : drawing[t][i] \in Drawings
      BY <3>1
    <3>3. \A x \in Drawings : [x EXCEPT !.live = FALSE] \in Drawings
      BY DEF Drawings
    <3>4. gone \in [1..Len(drawing[t]) -> Drawings]
      BY <3>2, <3>3
    <3>5. drawing' = [drawing EXCEPT ![t] = gone]
      BY <1>13 DEF Leave
    <3> HIDE DEF gone
    <3>6. gone \in Seq(Drawings)
      BY <3>2, <3>4, FunctionSeq
    <3> QED
      BY <3>1, <3>5, <3>6
  <2>12. net' \subseteq [tab : Tabs, doc : Docs, waits : BOOLEAN]
    <3>1. ASSUME NEW n \in net
          PROVE [n EXCEPT !.waits = n.waits /\ n.tab # t] \in [tab : Tabs, doc : Docs, waits : BOOLEAN]
      BY DEF SharedTypeOK
    <3> QED
      BY <2>2, <3>1
  <2>13. SharedTypeOK'
    BY <2>2, <2>12, RowsTypes DEF Close, SharedTypeOK
  <2> QED
    BY <2>2, <2>3, <2>4, <2>5, <2>6, <2>7, <2>a, <2>b, <2>9, <2>10, <2>11, <2>13
    DEF EditorTypeOK, Drawings
<1>14. ASSUME NEW n \in net, NEW stored \in BOOLEAN, SaveAnswered(n, stored)
       PROVE SharedTypeOK' /\ EditorTypeOK'
  <2>1. /\ Answer(n, stored) /\ UNCHANGED <<dirty, timer, taking, taken, drawing, hist, at, lost, mixed, parted>>
        /\ clears' = [clears EXCEPT ![n.tab] = IF n.waits /\ stored THEN @ + 1 ELSE @]
        /\ guard' = [guard EXCEPT ![n.tab] = @ /\ ~(n.waits /\ ~stored)]
    BY <1>14 DEF SaveAnswered
  <2>2. n.tab \in Tabs /\ n.waits \in BOOLEAN
    BY RowsTypes
  <2>3. guard' \in [Tabs -> BOOLEAN]
    BY <2>1, <2>2 DEF EditorTypeOK
  <2>4. clears' \in [Tabs -> Nat]
    BY <2>1, <2>2 DEF EditorTypeOK
  <2>5. SharedTypeOK'
    BY <2>1, AnswerTypes
  <2>6. EditorTypeOK'
    BY <2>1, <2>3, <2>4 DEF EditorTypeOK
  <2> QED
    BY <2>5, <2>6
<1> QED
  BY <1>1, <1>2, <1>3, <1>4, <1>5, <1>6, <1>7, <1>8, <1>9, <1>a, <1>b, <1>c, <1>10, <1>11, <1>12, <1>13, <1>14
  DEF EditorStep, Undo, Redo

LEMMA InitType == Init => TypeOK
<1> SUFFICES ASSUME Init PROVE TypeOK
  OBVIOUS
<1>1. PICK p \in Plans : view = p.view /\ plan = p.edits /\ pushes = p.pushes /\ clicks = p.clicks
  BY DEF Init, SharedInit
<1>2. /\ view \in {"document", "canvas"} /\ plan \in Seq(Edit) /\ Len(plan) <= MaxEdits
      /\ pushes \in Nat /\ clicks \in Nat
  BY <1>1, PlansAssumption
<1>3. made \in Seq(Edit) /\ Len(made) <= Len(plan)
  BY <1>2 DEF Init, SharedInit
<1>4. Empty \in Docs
  BY DEF Empty, Docs
<1>5. rows \in Seq(Docs)
  BY <1>4 DEF Init, SharedInit
<1>6. SharedTypeOK
  BY <1>2, <1>3, <1>4, <1>5, PanelBounds DEF Init, SharedInit, SharedTypeOK
<1>7. EditorTypeOK
  BY HistoryBound DEF Init, EditorInit, EditorTypeOK, Losses
<1>8. CanvasTypeOK
  BY DEF Init, CanvasInit, CanvasTypeOK
<1> QED
  BY <1>6, <1>7, <1>8 DEF TypeOK

LEMMA StepType == TypeOK /\ [Next]_vars => TypeOK'
<1> SUFFICES ASSUME TypeOK, [Next]_vars PROVE TypeOK'
  OBVIOUS
<1>1. CASE EditorStep /\ UNCHANGED canvas
  <2>1. SharedTypeOK' /\ EditorTypeOK'
    BY <1>1, EditorType DEF TypeOK
  <2> QED
    BY <1>1, <2>1 DEF TypeOK, canvas, CanvasTypeOK
<1>2. CASE CanvasStep /\ UNCHANGED editor
  <2>1. SharedTypeOK' /\ CanvasTypeOK'
    BY <1>2, CanvasType DEF TypeOK
  <2>2. EditorTypeOK'
    BY <1>2 DEF TypeOK, editor, EditorTypeOK
  <2> QED
    BY <2>1, <2>2 DEF TypeOK
<1>3. CASE UNCHANGED vars
  <2>1. UNCHANGED shared /\ UNCHANGED editor /\ UNCHANGED canvas
    BY <1>3 DEF vars
  <2>2. SharedTypeOK'
    BY <2>1 DEF TypeOK, shared, SharedTypeOK
  <2>3. EditorTypeOK'
    BY <2>1 DEF TypeOK, editor, EditorTypeOK
  <2>4. CanvasTypeOK'
    BY <2>1 DEF TypeOK, canvas, CanvasTypeOK
  <2> QED
    BY <2>2, <2>3, <2>4 DEF TypeOK
<1> QED
  BY <1>1, <1>2, <1>3 DEF Next

\* Types: what the page shares, the editor and the canvas hold values of
\* their kind, whatever is edited, pushed and answered in which order.
THEOREM TypeCorrect == Spec => []TypeOK
  BY InitType, StepType, PTL DEF Spec

-----------------------------------------------------------------------------
\* What is shown has been made; what is stored, on its way or held by a page
\* has been in a save.
SharedKnown ==
  /\ sent \subseteq Edits
  /\ \A t \in Tabs : screen[t] \subseteq Edits
  /\ \A i \in DOMAIN rows : rows[i].edits \subseteq sent
  /\ \A n \in net : n.doc.edits \subseteq sent
  /\ \A t \in Tabs : file[t].edits \subseteq sent /\ last[t].edits \subseteq sent

\* The data of a picture that is shown, stored or on its way is there too,
\* unless some canvas was opened without it; and it is the data of a picture.
Held ==
  /\ \A t \in Tabs : \A e \in screen[t] :
       How(e) \in {"picture", "inline"} => e \in files[t] \cup blank
  /\ \A i \in DOMAIN rows : \A e \in rows[i].edits :
       How(e) \in {"picture", "inline"} => e \in rows[i].raw \cup rows[i].links \cup blank
  /\ \A n \in net : \A e \in n.doc.edits :
       How(e) \in {"picture", "inline"} => e \in n.doc.raw \cup n.doc.links \cup blank
  /\ \A t \in Tabs : files[t] \subseteq Edits
  /\ \A i \in DOMAIN rows : rows[i].raw \cup rows[i].links \subseteq Edits
  /\ \A n \in net : n.doc.raw \cup n.doc.links \subseteq Edits

\* What an open canvas shows is in its last save, or was in one before a board
\* came to it, or is held back.
Covered(t) ==
  /\ "mount" \in since[t] => screen[t] \subseteq sent
  /\ \A e \in screen[t] :
       \/ e \in last[t].edits
       \/ e \in sent /\ since[t] \cap {"mount", "push"} # {}
       \/ uploading[t] # {} \/ "failure" \in since[t] \/ \E p \in files[t] : How(p) = "inline"
Drawn == \A t \in Tabs : open[t] => Covered(t)

LEMMA CoveredStays ==
  ASSUME NEW u, Covered(u), sent \subseteq sent',
         screen'[u] = screen[u], last'[u] = last[u], uploading'[u] = uploading[u],
         since'[u] = since[u], files'[u] = files[u],
         \A p \in files[u] : made'[p] = made[p]
  PROVE  Covered(u)'
BY DEF Covered, How

\* The answers: the row is the document of a save that was on its way.
LEMMA AnswerKnown ==
  ASSUME SharedTypeOK, NEW n \in net, NEW stored \in BOOLEAN, Answer(n, stored)
  PROVE  /\ net' \subseteq net
         /\ \A i \in DOMAIN rows' : rows'[i] = n.doc \/ \E j \in DOMAIN rows : rows'[i] = rows[j]
         /\ UNCHANGED <<view, plan, made, file, open, screen, last, sent, pushes, mounts, clicks>>
<1>1. net' \subseteq net /\ UNCHANGED <<view, plan, made, file, open, screen, last, sent, pushes, mounts, clicks>>
  BY DEF Answer
<1>2. CASE ~stored
  BY <1>1, <1>2 DEF Answer
<1>3. CASE stored
  <2> DEFINE more == Append(rows, n.doc)
  <2>1. rows' = Latest(more, Overtaken + 1)
    BY <1>3 DEF Answer
  <2>2. n.doc \in Docs /\ rows \in Seq(Docs)
    BY RowsTypes DEF SharedTypeOK
  <2>3. /\ more \in Seq(Docs)
        /\ \A i \in DOMAIN more : more[i] = n.doc \/ \E j \in DOMAIN rows : more[i] = rows[j]
    BY <2>2
  <2> HIDE DEF more
  <2>4. \A i \in DOMAIN Latest(more, Overtaken + 1) :
          \E j \in DOMAIN more : Latest(more, Overtaken + 1)[i] = more[j]
    BY <2>3, LatestIn, PanelBounds
  <2>5. \A i \in DOMAIN rows' : \E j \in DOMAIN more : rows'[i] = more[j]
    BY <2>1, <2>4
  <2> QED
    BY <1>1, <2>3, <2>5
<1> QED
  BY <1>2, <1>3

\* A change of the canvas is in the last save, or an upload holds it back, or
\* a picture in line.
LEMMA ChangeSaves ==
  ASSUME SharedTypeOK, SharedKnown, CanvasTypeOK, NEW t \in Tabs,
         NEW shown, NEW held, NEW links, NEW busy,
         Change(t, shown, held, links, busy)
  PROVE  /\ sent \subseteq sent' /\ sent' \subseteq sent \cup shown
         /\ \A n \in net' : n \in net \/ n.doc = Board(shown, held, links)
         /\ \A n \in net' : n.doc.edits \subseteq sent'
         /\ \A u \in Tabs : file'[u].edits \subseteq sent' /\ last'[u].edits \subseteq sent'
         /\ since'[t] = {}
         /\ \A e \in shown : \/ e \in last'[t].edits \/ uploading'[t] # {}
                             \/ \E p \in held : made'[p].how = "inline"
         /\ \A u \in Tabs \ {t} :
              uploading'[u] = uploading[u] /\ since'[u] = since[u] /\ last'[u] = last[u]
<1> DEFINE fresh == {p \in held \ busy : tries'[t][p] < MaxTries}
           counted == {p \in fresh : made'[p].how # "inline"}
           doc == Board(shown, held, links)
<1>1. doc.edits = shown
  BY DEF Board
<1>2. uploading' = [uploading EXCEPT ![t] = busy \cup counted] /\ since' = [since EXCEPT ![t] = {}]
  BY DEF Change
<1>3. /\ uploading'[t] = busy \cup counted /\ since'[t] = {}
      /\ \A u \in Tabs \ {t} : uploading'[u] = uploading[u] /\ since'[u] = since[u]
  BY <1>2 DEF CanvasTypeOK
<1>4. CASE (fresh # {} \/ doc = last[t] \/ shown = {}) /\ UNCHANGED <<net, sent, file, last>>
  <2>1. fresh # {} => uploading'[t] # {} \/ \E p \in held : made'[p].how = "inline"
    <3>1. ASSUME NEW p \in fresh PROVE p \in held /\ (made'[p].how = "inline" \/ p \in counted)
      OBVIOUS
    <3> HIDE DEF fresh, counted
    <3> QED
      BY <1>3, <3>1
  <2>2. \A e \in shown : \/ e \in last'[t].edits \/ uploading'[t] # {}
                         \/ \E p \in held : made'[p].how = "inline"
    <3> HIDE DEF doc, fresh, counted
    <3> QED
      BY <1>1, <1>4, <2>1
  <2> HIDE DEF doc, fresh, counted
  <2> QED
    BY <1>3, <1>4, <2>2 DEF SharedKnown
<1>5. CASE Send(t, doc, FALSE) /\ last' = [last EXCEPT ![t] = doc]
  <2>1. \A n \in net' : n \in net \/ n.doc = doc
    <3> HIDE DEF doc
    <3> QED BY <1>5 DEF Send
  <2>2. sent' = sent \cup shown
    <3> HIDE DEF doc
    <3> QED BY <1>1, <1>5 DEF Send
  <2>3. \A u \in Tabs : file'[u].edits \subseteq sent' /\ last'[u].edits \subseteq sent'
    <3> HIDE DEF doc
    <3> QED BY <1>1, <1>5, <2>2 DEF Send, SharedTypeOK, SharedKnown
  <2>4. \A n \in net' : n.doc.edits \subseteq sent'
    <3> HIDE DEF doc
    <3> QED BY <1>1, <2>1, <2>2 DEF SharedKnown
  <2>5. last'[t].edits = shown /\ \A u \in Tabs \ {t} : last'[u] = last[u]
    <3> HIDE DEF doc
    <3> QED BY <1>1, <1>5 DEF SharedTypeOK
  <2> HIDE DEF doc, fresh, counted
  <2> QED
    BY <1>3, <2>1, <2>2, <2>3, <2>4, <2>5 DEF doc
<1> QED
  <2>1. IF fresh # {} \/ doc = last[t] \/ shown = {}
        THEN UNCHANGED <<net, sent, file, last>>
        ELSE Send(t, doc, FALSE) /\ last' = [last EXCEPT ![t] = doc]
    BY DEF Change
  <2> HIDE DEF doc, fresh
  <2>2. \/ (fresh # {} \/ doc = last[t] \/ shown = {}) /\ UNCHANGED <<net, sent, file, last>>
        \/ Send(t, doc, FALSE) /\ last' = [last EXCEPT ![t] = doc]
    BY <2>1
  <2> QED
    BY <1>4, <1>5, <2>2 DEF doc, fresh

\* A board whose pictures are held, or blank, holds their data.
LEMMA BoardHolds ==
  ASSUME NEW shown, NEW held, NEW links
  PROVE  LET d == Board(shown, held, links) IN d.edits = shown /\ d.raw \cup d.links = held
<1>1. held = (held \ links) \cup (held \cap links)
  OBVIOUS
<1> QED
  BY <1>1 DEF Board

\* A row's document has been in a save, and its pictures have their data.
LEMMA RowKnown ==
  ASSUME SharedKnown, NEW doc \in Rows
  PROVE  /\ doc.edits \subseteq sent /\ doc.edits \subseteq Edits
         /\ Held => doc.raw \cup doc.links \subseteq Edits
         /\ Held => \A e \in doc.edits : How(e) \in {"picture", "inline"} => e \in doc.raw \cup doc.links \cup blank
  BY DEF SharedKnown, Rows, Held

\* What every step of the canvas keeps.
CanvasKept ==
  /\ SharedKnown' /\ Held' /\ Drawn'
  /\ sent \subseteq sent' /\ Edits \subseteq Edits'

LEMMA CanvasKeeps ==
  SharedTypeOK /\ CanvasTypeOK /\ SharedKnown /\ Held /\ Drawn /\ CanvasStep => CanvasKept
<1> SUFFICES ASSUME SharedTypeOK, CanvasTypeOK, SharedKnown, Held, Drawn, CanvasStep
             PROVE  CanvasKept
  OBVIOUS
<1>a. EmptyBoard.edits = {} /\ EmptyBoard.raw = {} /\ EmptyBoard.links = {}
  BY DEF EmptyBoard, Empty
<1>b. ASSUME NEW t \in Tabs, NEW row, NEW doc, Appear(t, row, doc), UNCHANGED sent,
             row.edits \subseteq sent, doc.edits \subseteq sent, doc.raw \subseteq Edits,
             \A n \in net' : n \in net \/ n.doc = EmptyBoard
      PROVE  CanvasKept
  <2>1. /\ Open(t, row, doc.edits)
        /\ files' = [files EXCEPT ![t] = doc.raw]
        /\ blank' = blank \cup (Pictures(doc.edits) \ doc.raw)
        /\ since' = [since EXCEPT ![t] = {"mount"}]
        /\ UNCHANGED <<view, plan, made, rows, pushes, faults, uploading, tries, uploaded>>
    BY <1>b DEF Appear
  <2>2. /\ screen'[t] = doc.edits /\ last'[t] = row /\ since'[t] = {"mount"} /\ files'[t] = doc.raw
        /\ \A u \in Tabs \ {t} : screen'[u] = screen[u] /\ last'[u] = last[u] /\ since'[u] = since[u]
             /\ files'[u] = files[u] /\ open'[u] = open[u]
    BY <2>1 DEF Open, SharedTypeOK, CanvasTypeOK
  <2>3. Edits' = Edits
    BY <2>1 DEF Edits
  <2>4. SharedKnown'
    <3>1. \A u \in Tabs : screen'[u] \subseteq Edits' /\ last'[u].edits \subseteq sent'
      BY <1>b, <2>2, <2>3 DEF SharedKnown
    <3>2. \A u \in Tabs : file'[u].edits \subseteq sent'
      BY <1>b, <2>1 DEF Open, SharedKnown, SharedTypeOK
    <3>3. \A n \in net' : n.doc.edits \subseteq sent'
      BY <1>a, <1>b DEF SharedKnown
    <3> QED
      BY <1>b, <2>1, <2>3, <3>1, <3>2, <3>3 DEF SharedKnown
  <2>5. /\ blank \subseteq blank'
        /\ \A e \in doc.edits : How(e) \in {"picture", "inline"} => e \in doc.raw \cup blank'
    BY <2>1 DEF Pictures, Inline
  <2>6. Held'
    BY <1>a, <1>b, <2>1, <2>2, <2>3, <2>5 DEF Held, How
  <2>7. Drawn'
    <3>1. ASSUME NEW u \in Tabs, open'[u] PROVE Covered(u)'
      <4>1. CASE u = t
        BY <1>b, <2>2, <4>1 DEF Covered
      <4>2. CASE u # t
        <5>1. Covered(u)
          BY <2>2, <3>1, <4>2 DEF Drawn
        <5> QED
          BY <1>b, <2>1, <2>2, <4>2, <5>1, CoveredStays
      <4> QED
        BY <4>1, <4>2
    <3> QED
      BY <3>1 DEF Drawn
  <2> QED
    BY <1>b, <2>3, <2>4, <2>6, <2>7 DEF CanvasKept
<1>1. ASSUME NEW t \in Tabs, MountCanvas(t) PROVE CanvasKept
  <2>1. PICK doc \in Rows : Appear(t, doc, doc) /\ UNCHANGED <<net, sent, clicks>>
    BY <1>1 DEF MountCanvas
  <2>2. doc.edits \subseteq sent /\ doc.raw \subseteq Edits
    BY RowKnown
  <2> QED
    BY <1>b, <2>1, <2>2
<1>0. ASSUME NEW t \in Tabs, MountAndSave(t) PROVE CanvasKept
  <2>1. PICK doc \in Rows \cup {EmptyBoard} :
          /\ Appear(t, EmptyBoard, doc)
          /\ net' = net \cup {[tab |-> t, doc |-> EmptyBoard, waits |-> FALSE]}
          /\ UNCHANGED sent
    BY <1>0 DEF MountAndSave
  <2>2. doc.edits \subseteq sent /\ doc.raw \subseteq Edits
    <3>1. CASE doc \in Rows
      BY <3>1, RowKnown
    <3>2. CASE doc = EmptyBoard
      BY <1>a, <3>2
    <3> QED
      BY <2>1, <3>1, <3>2
  <2>3. \A n \in net' : n \in net \/ n.doc = EmptyBoard
    BY <2>1
  <2> QED
    BY <1>a, <1>b, <2>1, <2>2, <2>3
<1>2. ASSUME NEW t \in Tabs, Draw(t) PROVE CanvasKept
  <2>1. PICK how \in {"draw", "picture", "inline"} :
          /\ Make(t, how)
          /\ screen' = [screen EXCEPT ![t] = @ \cup {Len(made')}]
          /\ files' = [files EXCEPT ![t] = IF how = "draw" THEN @ ELSE @ \cup {Len(made')}]
          /\ Change(t, screen'[t], files'[t], uploaded[t], uploading[t])
          /\ UNCHANGED <<view, plan, rows, open, pushes, mounts, faults, clicks, tries, uploaded, blank>>
    BY <1>2 DEF Draw
  <2> DEFINE new == Len(made')
  <2>2. /\ Edits' = Edits \cup {new} /\ new \notin Edits
        /\ \A e \in Edits : made'[e] = made[e]
        /\ made'[new].by = t /\ made'[new].how = how
    <3>1. Edits' = Edits \cup {new} /\ new \notin Edits /\ \A e \in Edits : made'[e] = made[e]
      BY <2>1, Grows
    <3>2. made'[new] = [by |-> t, how |-> how]
      BY <2>1, Grows
    <3> QED
      BY <3>1, <3>2
  <2> HIDE DEF new
  <2>3. /\ screen'[t] = screen[t] \cup {new}
        /\ files'[t] = IF how = "draw" THEN files[t] ELSE files[t] \cup {new}
        /\ \A u \in Tabs \ {t} : screen'[u] = screen[u] /\ files'[u] = files[u]
    BY <2>1 DEF new, SharedTypeOK, CanvasTypeOK
  <2>4. PICK shown, held : shown = screen'[t] /\ held = files'[t]
    OBVIOUS
  <2>5. Change(t, shown, held, uploaded[t], uploading[t])
    BY <2>1, <2>4 DEF Change
  <2> DEFINE doc == Board(shown, held, uploaded[t])
  <2>6. /\ sent \subseteq sent' /\ sent' \subseteq sent \cup shown
        /\ \A n \in net' : n \in net \/ n.doc = doc
        /\ \A n \in net' : n.doc.edits \subseteq sent'
        /\ \A u \in Tabs : file'[u].edits \subseteq sent' /\ last'[u].edits \subseteq sent'
        /\ since'[t] = {}
        /\ \A e \in shown : \/ e \in last'[t].edits \/ uploading'[t] # {}
                            \/ \E p \in held : made'[p].how = "inline"
        /\ \A u \in Tabs \ {t} :
             uploading'[u] = uploading[u] /\ since'[u] = since[u] /\ last'[u] = last[u]
    BY <2>5, ChangeSaves
  <2>7. doc.edits = shown /\ doc.raw \cup doc.links = held
    BY BoardHolds
  <2> HIDE DEF doc
  <2>8. SharedKnown'
    BY <2>1, <2>2, <2>3, <2>4, <2>6 DEF SharedKnown
  <2>9. \A e \in Edits : How(e)' = How(e) /\ By(e)' = By(e)
    BY <2>2 DEF How, By
  <2>10. \A e \in shown : made'[e].how \in {"picture", "inline"} => e \in held \cup blank'
    BY <2>1, <2>2, <2>3, <2>4 DEF Held, How, SharedKnown
  <2>11. Held'
    <3>1. \A u \in Tabs : \A e \in screen'[u] : made'[e].how \in {"picture", "inline"} => e \in files'[u] \cup blank'
      BY <2>1, <2>2, <2>3, <2>4, <2>10 DEF Held, How, SharedKnown
    <3>2. \A i \in DOMAIN rows' : \A e \in rows'[i].edits :
            made'[e].how \in {"picture", "inline"} => e \in rows'[i].raw \cup rows'[i].links \cup blank'
      BY <2>1, <2>2 DEF Held, How, SharedKnown
    <3>3. \A n \in net' : \A e \in n.doc.edits :
            made'[e].how \in {"picture", "inline"} => e \in n.doc.raw \cup n.doc.links \cup blank'
      BY <2>1, <2>2, <2>6, <2>7, <2>10 DEF Held, How, SharedKnown
    <3>4. /\ \A u \in Tabs : files'[u] \subseteq Edits'
          /\ \A i \in DOMAIN rows' : rows'[i].raw \cup rows'[i].links \subseteq Edits'
          /\ \A n \in net' : n.doc.raw \cup n.doc.links \subseteq Edits'
      BY <2>1, <2>2, <2>3, <2>4, <2>6, <2>7 DEF Held
    <3> QED
      BY <3>1, <3>2, <3>3, <3>4 DEF Held, How
  <2>12. Drawn'
    <3>1. ASSUME NEW u \in Tabs, open'[u] PROVE Covered(u)'
      <4>1. CASE u = t
        BY <2>4, <2>6, <4>1 DEF Covered, How
      <4>2. CASE u # t
        <5>1. Covered(u)
          BY <2>1, <3>1 DEF Drawn
        <5>2. \A p \in files[u] : made'[p] = made[p]
          BY <2>2 DEF Held
        <5> QED
          BY <2>3, <2>6, <4>2, <5>1, <5>2, CoveredStays
      <4> QED
        BY <4>1, <4>2
    <3> QED
      BY <3>1 DEF Drawn
  <2> QED
    BY <2>2, <2>6, <2>8, <2>11, <2>12 DEF CanvasKept
<1>3. ASSUME NEW t \in Tabs, NEW links, NEW busy, Change(t, screen[t], files[t], links, busy),
             UNCHANGED <<made, rows, open, screen, files, blank>>
      PROVE CanvasKept
  <2> DEFINE doc == Board(screen[t], files[t], links)
  <2>1. /\ sent \subseteq sent' /\ sent' \subseteq sent \cup screen[t]
        /\ \A n \in net' : n \in net \/ n.doc = doc
        /\ \A n \in net' : n.doc.edits \subseteq sent'
        /\ \A u \in Tabs : file'[u].edits \subseteq sent' /\ last'[u].edits \subseteq sent'
        /\ since'[t] = {}
        /\ \A e \in screen[t] : \/ e \in last'[t].edits \/ uploading'[t] # {}
                                \/ \E p \in files[t] : made'[p].how = "inline"
        /\ \A u \in Tabs \ {t} :
             uploading'[u] = uploading[u] /\ since'[u] = since[u] /\ last'[u] = last[u]
    BY <1>3, ChangeSaves
  <2>2. doc.edits = screen[t] /\ doc.raw \cup doc.links = files[t]
    BY BoardHolds
  <2> HIDE DEF doc
  <2>3. SharedKnown'
    BY <1>3, <2>1 DEF SharedKnown, Edits
  <2>4. Held'
    BY <1>3, <2>1, <2>2 DEF Held, How, Edits
  <2>5. Drawn'
    <3>1. ASSUME NEW u \in Tabs, open'[u] PROVE Covered(u)'
      <4>1. CASE u = t
        BY <1>3, <2>1, <4>1 DEF Covered, How
      <4>2. CASE u # t
        <5>1. Covered(u)
          BY <1>3, <3>1 DEF Drawn
        <5> QED
          BY <1>3, <2>1, <4>2, <5>1, CoveredStays
      <4> QED
        BY <4>1, <4>2
    <3> QED
      BY <3>1 DEF Drawn
  <2> QED
    BY <1>3, <2>1, <2>3, <2>4, <2>5 DEF CanvasKept, Edits
<1>4. ASSUME NEW t \in Tabs, Look(t) PROVE CanvasKept
  BY <1>3, <1>4 DEF Look
<1>5. ASSUME NEW t \in Tabs, Uploaded(t) PROVE CanvasKept
  <2>1. PICK links, busy : links = uploaded'[t] /\ busy = uploading[t] \ uploaded'[t]
    OBVIOUS
  <2>2. Change(t, screen[t], files[t], links, busy)
    BY <1>5, <2>1 DEF Uploaded, Refresh, Change
  <2>3. UNCHANGED <<made, rows, open, screen, files, blank>>
    BY <1>5 DEF Uploaded
  <2> QED
    BY <1>3, <2>2, <2>3
<1>6. ASSUME NEW t \in Tabs, UploadFails(t) PROVE CanvasKept
  <2>1. /\ uploading' = [uploading EXCEPT ![t] = uploading'[t]]
        /\ since' = [since EXCEPT ![t] = @ \cup {"failure"}]
        /\ UNCHANGED <<made, rows, net, file, open, screen, last, sent, files, blank>>
    BY <1>6 DEF UploadFails, CanvasTypeOK
  <2>2. /\ since'[t] = since[t] \cup {"failure"}
        /\ \A u \in Tabs \ {t} : uploading'[u] = uploading[u] /\ since'[u] = since[u]
    BY <2>1 DEF CanvasTypeOK
  <2>3. SharedKnown'
    BY <2>1 DEF SharedKnown, Edits
  <2>4. Held'
    BY <2>1 DEF Held, How, Edits
  <2>5. Drawn'
    BY <2>1, <2>2 DEF Drawn, Covered, How
  <2> QED
    BY <2>1, <2>3, <2>4, <2>5 DEF CanvasKept, Edits
<1>7. ASSUME NEW t \in Tabs, SaveWhiteboard(t) PROVE CanvasKept
  <2> DEFINE doc == IF "mount" \in since[t] THEN EmptyBoard ELSE Board(screen[t], files[t], {})
  <2>1. /\ doc.edits = (IF "mount" \in since[t] THEN {} ELSE screen[t])
        /\ doc.raw \cup doc.links = (IF "mount" \in since[t] THEN {} ELSE files[t])
    <3>1. CASE "mount" \in since[t]
      <4>1. doc = EmptyBoard
        BY <3>1
      <4> HIDE DEF doc
      <4> QED
        BY <1>a, <3>1, <4>1
    <3>2. CASE "mount" \notin since[t]
      BY <3>2, BoardHolds
    <3> QED
      BY <3>1, <3>2
  <2>2. /\ Send(t, doc, FALSE) /\ last' = [last EXCEPT ![t] = doc]
        /\ UNCHANGED <<made, rows, open, screen, files, uploading, since, blank>>
    BY <1>7 DEF SaveWhiteboard, canvas
  <2> HIDE DEF doc
  <2>3. sent' = sent \cup doc.edits /\ \A n \in net' : n \in net \/ n.doc = doc
    BY <2>2 DEF Send
  <2>4. \A u \in Tabs : file'[u].edits \subseteq sent' /\ last'[u].edits \subseteq sent'
    BY <2>2, <2>3 DEF Send, SharedTypeOK, SharedKnown
  <2>5. SharedKnown'
    BY <2>1, <2>2, <2>3, <2>4 DEF SharedKnown, Edits
  <2>6. Held'
    BY <2>1, <2>2, <2>3 DEF Held, How, Edits
  <2>7. Drawn'
    <3>1. last'[t] = doc /\ \A u \in Tabs \ {t} : last'[u] = last[u]
      BY <2>2 DEF SharedTypeOK
    <3>2. ASSUME NEW u \in Tabs, open'[u] PROVE Covered(u)'
      <4>1. Covered(u)
        BY <2>2, <3>2 DEF Drawn
      <4>2. CASE u = t
        BY <2>1, <2>2, <2>3, <3>1, <4>1, <4>2 DEF Covered, How
      <4>3. CASE u # t
        BY <2>2, <2>3, <3>1, <4>1, <4>3, CoveredStays
      <4> QED
        BY <4>2, <4>3
    <3> QED
      BY <3>2 DEF Drawn
  <2> QED
    BY <2>2, <2>3, <2>5, <2>6, <2>7 DEF CanvasKept, Edits
<1>8. ASSUME NEW t \in Tabs, PushBoard(t) PROVE CanvasKept
  <2>1. PICK doc \in Rows :
          /\ Arrive(t, doc)
          /\ last' = [last EXCEPT ![t] = Remembered(t, doc)]
          /\ IF doc # Empty /\ doc # Remembered(t, doc) /\ "mount" \notin since[t]
             THEN /\ screen' = [screen EXCEPT ![t] = doc.edits]
                  /\ files' = [files EXCEPT ![t] = @ \cup doc.raw \cup doc.links]
                  /\ uploaded' = [uploaded EXCEPT ![t] = @ \cup doc.links]
             ELSE UNCHANGED <<screen, files, uploaded>>
    BY <1>8 DEF PushBoard
  <2>2. /\ UNCHANGED <<made, rows, net, open, sent, uploading, blank>>
        /\ since' = [since EXCEPT ![t] = @ \cup {"push"}]
    BY <1>8 DEF PushBoard
  <2>3. /\ doc.edits \subseteq sent /\ doc.edits \subseteq Edits
        /\ doc.raw \cup doc.links \subseteq Edits
        /\ \A e \in doc.edits : How(e) \in {"picture", "inline"} => e \in doc.raw \cup doc.links \cup blank
    BY RowKnown
  <2>4. \A u \in Tabs : file'[u].edits \subseteq sent' /\ last'[u].edits \subseteq sent'
    BY <2>1, <2>2, <2>3 DEF Arrive, Remembered, SharedTypeOK, SharedKnown
  <2>5. \A u \in Tabs : \/ screen'[u] = screen[u] /\ files[u] \subseteq files'[u]
                        \/ screen'[u] = doc.edits /\ doc.raw \cup doc.links \subseteq files'[u]
    BY <2>1 DEF SharedTypeOK, CanvasTypeOK
  <2>6. SharedKnown'
    BY <2>2, <2>3, <2>4, <2>5 DEF SharedKnown, Edits
  <2>a. \A u \in Tabs : files'[u] \subseteq files[u] \cup doc.raw \cup doc.links
    BY <2>1 DEF CanvasTypeOK
  <2>7. Held'
    BY <2>2, <2>3, <2>5, <2>a DEF Held, How, Edits
  <2>8. Drawn'
    <3>1. /\ since'[t] = since[t] \cup {"push"} /\ screen'[t] \subseteq screen[t] \cup doc.edits
          /\ files[t] \subseteq files'[t]
          /\ \A u \in Tabs \ {t} : screen'[u] = screen[u] /\ last'[u] = last[u] /\ since'[u] = since[u]
               /\ files'[u] = files[u]
      BY <2>1, <2>2 DEF SharedTypeOK, CanvasTypeOK
    <3>2. ASSUME NEW u \in Tabs, open'[u] PROVE Covered(u)'
      <4>1. Covered(u)
        BY <2>2, <3>2 DEF Drawn
      <4>2. CASE u = t
        <5>1. /\ last[t].edits \subseteq sent /\ doc.edits \subseteq sent /\ UNCHANGED sent
              /\ UNCHANGED uploading /\ UNCHANGED made
          BY <2>2, <2>3 DEF SharedKnown
        <5>2. "mount" \in since'[t] => screen'[t] \subseteq sent'
          BY <3>1, <4>1, <4>2, <5>1 DEF Covered
        <5>3. "push" \in since'[t]
          BY <3>1
        <5>4. \A e \in screen'[t] : \/ e \in sent' \/ uploading'[t] # {} \/ "failure" \in since'[t]
                                    \/ \E p \in files'[t] : How(p)' = "inline"
          BY <3>1, <4>1, <4>2, <5>1 DEF Covered, How
        <5> QED
          BY <4>2, <5>2, <5>3, <5>4 DEF Covered
      <4>3. CASE u # t
        BY <2>2, <3>1, <4>1, <4>3, CoveredStays
      <4> QED
        BY <4>2, <4>3
    <3> QED
      BY <3>2 DEF Drawn
  <2> QED
    BY <2>2, <2>6, <2>7, <2>8 DEF CanvasKept, Edits
<1>9. ASSUME NEW n \in net, NEW stored \in BOOLEAN, BoardAnswered(n, stored) PROVE CanvasKept
  <2>1. /\ net' \subseteq net
        /\ \A i \in DOMAIN rows' : rows'[i] = n.doc \/ \E j \in DOMAIN rows : rows'[i] = rows[j]
        /\ UNCHANGED <<view, plan, made, file, open, screen, last, sent, pushes, mounts, clicks>>
    BY <1>9, AnswerKnown DEF BoardAnswered
  <2>2. UNCHANGED <<files, uploading, since, blank>>
    BY <1>9 DEF BoardAnswered, canvas
  <2>3. SharedKnown'
    BY <2>1 DEF SharedKnown, Edits
  <2>4. Held'
    BY <2>1, <2>2 DEF Held, How, Edits
  <2>5. Drawn'
    BY <2>1, <2>2 DEF Drawn, Covered, How
  <2> QED
    BY <2>1, <2>3, <2>4, <2>5 DEF CanvasKept, Edits
<1>10. ASSUME NEW t \in Tabs, LeaveCanvas(t) PROVE CanvasKept
  <2>1. /\ Close(t) /\ files' = [files EXCEPT ![t] = {}]
        /\ uploading' = [uploading EXCEPT ![t] = {}] /\ since' = [since EXCEPT ![t] = {}]
        /\ UNCHANGED <<made, rows, net, sent, blank>>
    BY <1>10 DEF LeaveCanvas
  <2>2. Empty.edits = {}
    BY DEF Empty
  <2>3. SharedKnown'
    BY <2>1, <2>2 DEF Close, SharedKnown, SharedTypeOK, Edits
  <2>4. Held'
    BY <2>1 DEF Close, Held, How, Edits, SharedTypeOK, CanvasTypeOK
  <2>5. Drawn'
    <3>1. /\ ~open'[t]
          /\ \A u \in Tabs \ {t} : open'[u] = open[u] /\ screen'[u] = screen[u] /\ last'[u] = last[u]
               /\ since'[u] = since[u] /\ files'[u] = files[u] /\ uploading'[u] = uploading[u]
      BY <2>1 DEF Close, SharedTypeOK, CanvasTypeOK
    <3> QED
      BY <2>1, <3>1, CoveredStays DEF Drawn
  <2> QED
    BY <2>1, <2>3, <2>4, <2>5 DEF CanvasKept, Edits
<1> QED
  BY <1>0, <1>1, <1>2, <1>4, <1>5, <1>6, <1>7, <1>8, <1>9, <1>10 DEF CanvasStep

\* The invariant of a page that shows the canvas; it has no snapshots.
CanvasInv == TypeOK /\ (view = "canvas" => SharedKnown /\ Held /\ Drawn)

LEMMA CanvasInitially == Init => CanvasInv
<1> SUFFICES ASSUME Init PROVE CanvasInv
  OBVIOUS
<1>1. Empty.edits = {}
  BY DEF Empty
<1>2. SharedKnown
  BY <1>1 DEF Init, SharedInit, SharedKnown, Edits
<1>3. Held
  <2>1. Empty.raw = {} /\ Empty.links = {}
    BY DEF Empty
  <2> QED
    BY <1>1, <2>1 DEF Init, SharedInit, CanvasInit, Held
<1>4. Drawn
  BY DEF Init, SharedInit, Drawn
<1> QED
  BY <1>2, <1>3, <1>4, InitType DEF CanvasInv

\* The panel of a page does not change.
LEMMA ViewStays == [Next]_vars => UNCHANGED view
<1> SUFFICES ASSUME [Next]_vars PROVE UNCHANGED view
  OBVIOUS
<1>1. CASE EditorStep
  <2>1. ASSUME NEW t \in Tabs, Mount(t) \/ Type(t) \/ Resize(t) \/ SaveClick(t) \/ EditImage(t)
        PROVE  UNCHANGED view
    BY <2>1 DEF Mount, Type, Resize, SaveClick, EditImage
  <2>2. ASSUME NEW t \in Tabs, OnChange(t) \/ SaveTimeout(t) \/ ClearGuard(t) PROVE UNCHANGED view
    BY <2>2 DEF OnChange, SaveTimeout, ClearGuard, shared
  <2>3. ASSUME NEW t \in Tabs, Save(t) PROVE UNCHANGED view
    BY <2>3 DEF Save
  <2>4. ASSUME NEW t \in Tabs, SnapshotFails(t) \/ DrawImage(t) \/ ImageUndrawn(t) \/ SaveImage(t)
        PROVE  UNCHANGED view
    BY <2>4 DEF SnapshotFails, DrawImage, ImageUndrawn, SaveImage
  <2>5. ASSUME NEW t \in Tabs, Push(t) PROVE UNCHANGED view
    BY <2>5 DEF Push
  <2>6. ASSUME NEW t \in Tabs, Undo(t) \/ Redo(t) PROVE UNCHANGED view
    BY <2>6 DEF Undo, Redo, Travel
  <2>7. ASSUME NEW t \in Tabs, Leave(t) PROVE UNCHANGED view
    BY <2>7 DEF Leave
  <2>8. ASSUME NEW n, NEW stored, SaveAnswered(n, stored) PROVE UNCHANGED view
    BY <2>8 DEF SaveAnswered, Answer
  <2> QED
    BY <1>1, <2>1, <2>2, <2>3, <2>4, <2>5, <2>6, <2>7, <2>8 DEF EditorStep
<1>2. CASE CanvasStep
  BY <1>2 DEF CanvasStep, MountCanvas, MountAndSave, Appear, Draw, Look, Uploaded, UploadFails, SaveWhiteboard,
              PushBoard, BoardAnswered, LeaveCanvas, Answer
<1>3. CASE UNCHANGED vars
  BY <1>3 DEF vars, shared
<1> QED
  BY <1>1, <1>2, <1>3 DEF Next

LEMMA CanvasInductive == CanvasInv /\ [Next]_vars => CanvasInv'
<1> SUFFICES ASSUME CanvasInv, [Next]_vars, view = "canvas"
             PROVE  (SharedKnown /\ Held /\ Drawn)'
  BY StepType, ViewStays DEF CanvasInv
<1>1. CASE CanvasStep
  BY <1>1, CanvasKeeps DEF CanvasInv, CanvasKept, TypeOK
<1>2. CASE UNCHANGED vars
  <2>1. UNCHANGED shared /\ UNCHANGED canvas
    BY <1>2 DEF vars
  <2>2. SharedKnown'
    BY <2>1 DEF CanvasInv, shared, SharedKnown, Edits
  <2>3. Held'
    BY <2>1 DEF CanvasInv, shared, canvas, Held, How, Edits
  <2>4. Drawn'
    BY <2>1 DEF CanvasInv, shared, canvas, Drawn, Covered, How
  <2> QED
    BY <2>2, <2>3, <2>4
<1> QED
  BY <1>1, <1>2 DEF Next

\* The pictures of every save on its way have their data, as far as the
\* canvases that were opened had it.
THEOREM PicturesWhole == Spec => []PicturesKeepTheirData
<1>1. CanvasInv => PicturesKeepTheirData
  BY DEF CanvasInv, Held, PicturesKeepTheirData, Pictures, Inline
<1> QED
  BY <1>1, CanvasInitially, CanvasInductive, PTL DEF Spec

\* What an open canvas shows is in its last save, or was in one before a board
\* came to it, or an upload, or a picture in line, holds it back.
THEOREM DrawingsReachSaves == Spec => []DrawingsAreSaved
<1>1. CanvasInv => DrawingsAreSaved
  BY DEF CanvasInv, Drawn, Covered, DrawingsAreSaved, HeldBack, Inline
<1> QED
  BY <1>1, CanvasInitially, CanvasInductive, PTL DEF Spec

-----------------------------------------------------------------------------
(* The document panel: what becomes of every edit, what undo may take away,  *)
(* and what an idle editor shows.                                            *)

\* Snapshots under way of a panel that is open: those of the present screen,
\* and those that will be saved as they are; edited documents being drawn.
Live(t) == {i \in DOMAIN taking[t] : taking[t][i].live}
Fresh(t) == {i \in Live(t) : ~taking[t][i].late}
Ords(t) == {i \in Live(t) : taking[t][i].image = 0}
LiveDocs(t) == {k \in DOMAIN drawing[t] : drawing[t][k].live}
FreshDocs(t) == {k \in LiveDocs(t) : ~drawing[t][k].late}

\* What a snapshot under way, or a document being drawn, will save.
Snapped(t, e) == \E i \in DOMAIN taking[t] :
  IF taking[t][i].image = 0 THEN e \in taking[t][i].seen ELSE e = taking[t][i].image
Painted(t, e) == \E k \in DOMAIN drawing[t] : e \in drawing[t][k].doc.edits

\* What tab t shows, remembers and takes a snapshot of is known.
TabKnown(t) ==
  /\ screen[t] \subseteq Edits
  /\ file[t].edits \subseteq sent /\ last[t].edits \subseteq sent
  /\ \A i \in DOMAIN hist[t] : hist[t][i].edits \subseteq sent
  /\ \A i \in DOMAIN taking[t] :
       taking[t][i].seen \subseteq Edits /\ taking[t][i].image \in Edits \cup {0}
  /\ \A k \in DOMAIN drawing[t] : drawing[t][k].doc.edits \subseteq Edits
StoreKnown ==
  /\ sent \subseteq Edits
  /\ \A i \in DOMAIN rows : rows[i].edits \subseteq sent
  /\ \A n \in net : n.doc.edits \subseteq sent
  /\ \A e \in Edits : How(e) \in {"type", "resize", "picture"}
  /\ \A e \in 1..MaxEdits : lost[e] # "none" => e \in Edits

\* A closed panel shows nothing and owes nothing; its snapshots are not live.
Closes(t) ==
  /\ ~open[t] => screen[t] = {} /\ ~dirty[t] /\ ~timer[t]
  /\ Live(t) # {} \/ LiveDocs(t) # {} => open[t]

\* An edited image on the screen is saved, or in a document being drawn.
Images(t) ==
  /\ \A i \in DOMAIN taking[t] : LET e == taking[t][i].image IN
       e # 0 => By(e) = t /\ How(e) = "picture"
  /\ \A e \in screen[t] : By(e) = t /\ How(e) = "picture" => e \in sent \/ Painted(t, e)

\* A size a snapshot was begun with is still on the screen when it is needed;
\* once lost it does not come back unsaved.
SizesStay(t) ==
  /\ \A i \in Ords(t) : \A e \in taking[t][i].seen : By(e) = t /\ How(e) = "resize" =>
       e \in sent \/ e \in screen[t] \/ lost[e] \in {"undone", "swept", "failed"}
  /\ \A e \in screen[t] : By(e) = t /\ How(e) = "resize" =>
       e \in sent \/ lost[e] \in {"none", "failed"}

\* EditsAreSaved, of the edits of one tab.
GivenUp(e) ==
  \/ How(e) = "type" /\ lost[e] \in {"undone", "replaced", "ignored", "left", "failed"}
  \/ How(e) = "resize" /\ lost[e] \in {"undone", "swept", "failed"}
  \/ How(e) = "picture" /\ lost[e] \in {"gone", "undrawn", "failed"}
Owed(t, e) ==
  \/ e \in sent
  \/ e \in screen[t] /\ How(e) = "type" /\ dirty[t]
  \/ e \in screen[t] /\ How(e) = "resize" /\ timer[t]
  \/ Snapped(t, e)
  \/ Painted(t, e)
  \/ GivenUp(e)
Accounted(t) == \A e \in Edits : By(e) = t => Owed(t, e)

\* The undo stack, unless mixed, holds the same edits of others as the screen.
Agree(t, s) == \A e \in Edits : By(e) # t => (e \in s <=> e \in screen[t])
Stacked(t) == open[t] /\ ~mixed[t] => \A i \in DOMAIN hist[t] : Agree(t, hist[t][i].edits)

\* All blocks of s, which the sizes are no part of, are in r.
Within(s, r) == \A e \in s : How(e) # "resize" => e \in r

\* So do the blocks of the snapshots of the present screen; and what was on it
\* when a snapshot began, or is in the document being drawn, is there still.
Same(t) ==
  /\ \A i \in Fresh(t) :
       /\ \A e \in Edits : By(e) # t /\ How(e) # "resize" =>
            (e \in taking[t][i].seen <=> e \in screen[t])
       /\ Within(taking[t][i].seen, screen[t])
       /\ \A j \in Fresh(t) : i < j => Within(taking[t][i].seen, taking[t][j].seen)
  /\ \A k \in FreshDocs(t) :
       /\ Within(drawing[t][k].doc.edits, screen[t])
       /\ \A i \in Fresh(t) : Within(drawing[t][k].doc.edits, taking[t][i].seen)
  /\ \A k, l \in FreshDocs(t) : k = l

\* With nothing pending the screen is the last save and the file; a document
\* being drawn is the screen, unless more is saved or resized; and the last
\* snapshot under way holds all blocks of the screen, unless more is typed.
Idles(t) == open[t] /\ parted[t] = {} /\ ~dirty[t] =>
  /\ ~timer[t] /\ Ords(t) = {} /\ LiveDocs(t) = {} =>
       screen[t] = last[t].edits /\ (file[t] = Empty \/ screen[t] = file[t].edits)
  /\ ~timer[t] /\ Ords(t) = {} => \A k \in FreshDocs(t) : screen[t] = drawing[t][k].doc.edits
  /\ \A i \in Fresh(t) \cap Ords(t) :
       (\A j \in Ords(t) : j <= i) => Within(screen[t], taking[t][i].seen)

TabInv(t) ==
  /\ TabKnown(t) /\ Closes(t) /\ Images(t) /\ SizesStay(t) /\ Accounted(t)
  /\ Stacked(t) /\ Same(t) /\ Idles(t)

\* Every action of tab t leaves the others as they are.
OthersSame(t) ==
  \A u \in Tabs \ {t} :
    /\ screen'[u] = screen[u] /\ file'[u] = file[u] /\ last'[u] = last[u]
    /\ hist'[u] = hist[u] /\ taking'[u] = taking[u] /\ drawing'[u] = drawing[u]
    /\ parted'[u] = parted[u]
    /\ open'[u] = open[u]
    /\ dirty'[u] = dirty[u]
    /\ timer'[u] = timer[u]
    /\ mixed'[u] = mixed[u]
Frame(t) ==
  /\ Edits \subseteq Edits' /\ sent \subseteq sent'
  /\ \A e \in Edits : made'[e] = made[e]
  /\ \A e \in Edits' \ Edits : made'[e].by = t
  /\ \A e \in 1..MaxEdits : e \notin Edits \/ By(e) # t => lost'[e] = lost[e]
  /\ OthersSame(t)

\* The sets of snapshots follow the snapshots.
LEMMA LiveSets ==
  ASSUME NEW t \in Tabs
  PROVE  /\ Live(t) \subseteq DOMAIN taking[t] /\ Fresh(t) \subseteq Live(t) /\ Ords(t) \subseteq Live(t)
         /\ LiveDocs(t) \subseteq DOMAIN drawing[t] /\ FreshDocs(t) \subseteq LiveDocs(t)
         /\ taking'[t] = taking[t] =>
              Live(t)' = Live(t) /\ Fresh(t)' = Fresh(t) /\ Ords(t)' = Ords(t)
         /\ drawing'[t] = drawing[t] => LiveDocs(t)' = LiveDocs(t) /\ FreshDocs(t)' = FreshDocs(t)
  BY DEF Live, Fresh, Ords, LiveDocs, FreshDocs

LEMMA OthersKeep ==
  ASSUME TypeOK, StoreKnown, NEW t \in Tabs, Frame(t), NEW u \in Tabs \ {t}, TabInv(u)
  PROVE  TabInv(u)'
<1>1. /\ screen'[u] = screen[u] /\ file'[u] = file[u] /\ last'[u] = last[u]
      /\ hist'[u] = hist[u] /\ taking'[u] = taking[u] /\ drawing'[u] = drawing[u]
      /\ parted'[u] = parted[u]
      /\ open'[u] = open[u]
      /\ dirty'[u] = dirty[u]
      /\ timer'[u] = timer[u]
      /\ mixed'[u] = mixed[u]
  BY DEF Frame, OthersSame
<1>2. /\ Edits \subseteq Edits' /\ sent \subseteq sent' /\ sent \subseteq Edits
      /\ \A e \in Edits : made'[e] = made[e]
      /\ \A e \in Edits' : made'[e].by = u => e \in Edits
      /\ \A e \in Edits : made[e].by = u => lost'[e] = lost[e]
  <2>1. Edits \subseteq 1..MaxEdits
    BY EditorsAreTabs
  <2> QED
    BY <2>1 DEF Frame, By, StoreKnown
<1>3. /\ screen[u] \subseteq Edits /\ file[u].edits \subseteq sent /\ last[u].edits \subseteq sent
      /\ \A i \in DOMAIN hist[u] : hist[u][i].edits \subseteq sent
      /\ \A i \in DOMAIN taking[u] : taking[u][i].seen \subseteq Edits /\ taking[u][i].image \in Edits \cup {0}
      /\ \A k \in DOMAIN drawing[u] : drawing[u][k].doc.edits \subseteq Edits
  BY DEF TabInv, TabKnown
<1>4. /\ Live(u)' = Live(u) /\ Fresh(u)' = Fresh(u) /\ Ords(u)' = Ords(u)
      /\ LiveDocs(u)' = LiveDocs(u) /\ FreshDocs(u)' = FreshDocs(u)
      /\ Live(u) \subseteq DOMAIN taking[u] /\ Fresh(u) \subseteq DOMAIN taking[u]
      /\ Ords(u) \subseteq DOMAIN taking[u] /\ FreshDocs(u) \subseteq DOMAIN drawing[u]
  BY <1>1, LiveSets
<1>5. \A e \in Edits : By(e)' = By(e) /\ How(e)' = How(e)
  BY <1>2 DEF By, How
<1>6. TabKnown(u)'
  BY <1>1, <1>2, <1>3 DEF TabKnown
<1>7. Closes(u)'
  BY <1>1, <1>4 DEF TabInv, Closes
<1>8. \A e : Snapped(u, e)' = Snapped(u, e) /\ Painted(u, e)' = Painted(u, e)
  BY <1>1 DEF Snapped, Painted
<1>9. Images(u)'
  <2>1. \A i \in DOMAIN taking[u] : taking[u][i].image # 0 =>
          made'[taking[u][i].image].by = u /\ made'[taking[u][i].image].how = "picture"
    BY <1>2, <1>3 DEF TabInv, Images, By, How
  <2>2. \A e \in screen[u] : made'[e].by = u /\ made'[e].how = "picture" => e \in sent' \/ Painted(u, e)
    BY <1>2, <1>3 DEF TabInv, Images, By, How
  <2> QED
    BY <1>1, <1>8, <2>1, <2>2 DEF Images, By, How
<1>10. SizesStay(u)'
  BY <1>1, <1>2, <1>3, <1>4 DEF TabInv, SizesStay, By, How
<1>11. Accounted(u)'
  <2>1. ASSUME NEW e \in Edits, By(e) = u PROVE Owed(u, e)'
    <3>1. Owed(u, e) /\ lost'[e] = lost[e]
      BY <1>2, <2>1 DEF TabInv, Accounted, By
    <3>2. GivenUp(e)' = GivenUp(e)
      BY <1>5, <3>1 DEF GivenUp
    <3> QED
      BY <1>1, <1>2, <1>5, <1>8, <3>1, <3>2 DEF Owed
  <2>2. \A e \in Edits' : By(e)' = u => e \in Edits /\ By(e) = u
    BY <1>2 DEF By
  <2> QED
    BY <2>1, <2>2 DEF Accounted
<1>13. Stacked(u)'
  <2>1. \A i \in DOMAIN hist[u] : hist[u][i].edits \subseteq Edits
    BY <1>2, <1>3
  <2> QED
    BY <1>1, <1>2, <1>3, <2>1 DEF TabInv, Stacked, Agree, By
<1>14. \A e \in Edits : made'[e].how = How(e)
  BY <1>5 DEF How
<1>15. Same(u)'
  <2>1. \A i \in Fresh(u) :
          /\ taking[u][i].seen \subseteq Edits
          /\ \A e \in Edits' : made'[e].by # u /\ made'[e].how # "resize" =>
               (e \in taking[u][i].seen <=> e \in screen[u])
          /\ Within(taking[u][i].seen, screen[u])
          /\ \A j \in Fresh(u) : i < j => Within(taking[u][i].seen, taking[u][j].seen)
    BY <1>2, <1>3, <1>4 DEF TabInv, Same, By, How
  <2>2. \A k \in FreshDocs(u) :
          /\ drawing[u][k].doc.edits \subseteq Edits
          /\ Within(drawing[u][k].doc.edits, screen[u])
          /\ \A i \in Fresh(u) : Within(drawing[u][k].doc.edits, taking[u][i].seen)
    BY <1>3, <1>4 DEF TabInv, Same
  <2>3. \A k, l \in FreshDocs(u) : k = l
    BY DEF TabInv, Same
  <2>4. \A i \in Fresh(u) :
          /\ \A e \in taking[u][i].seen : made'[e].how # "resize" => e \in screen[u]
          /\ \A j \in Fresh(u) : i < j =>
               \A e \in taking[u][i].seen : made'[e].how # "resize" => e \in taking[u][j].seen
    BY <1>14, <2>1 DEF Within
  <2>5. \A k \in FreshDocs(u) :
          /\ \A e \in drawing[u][k].doc.edits : made'[e].how # "resize" => e \in screen[u]
          /\ \A i \in Fresh(u) :
               \A e \in drawing[u][k].doc.edits : made'[e].how # "resize" => e \in taking[u][i].seen
    BY <1>14, <2>2 DEF Within
  <2> QED
    BY <1>1, <1>4, <2>1, <2>3, <2>4, <2>5 DEF Same, Within, By, How
<1>16. Idles(u)'
  <2>1. \A s : Within(screen[u], s) <=> \A e \in screen[u] : made'[e].how # "resize" => e \in s
    BY <1>3, <1>14 DEF Within
  <2> QED
    BY <1>1, <1>4, <2>1 DEF TabInv, Idles, Within, How
<1> QED
  BY <1>6, <1>7, <1>9, <1>10, <1>11, <1>13, <1>15, <1>16 DEF TabInv

\* What an action of tab t keeps.
Keeps(t) == StoreKnown' /\ Frame(t) /\ TabInv(t)'

-----------------------------------------------------------------------------
\* What the pieces of the actions do, entry by entry.

LEMMA TakingSeq ==
  ASSUME TypeOK, NEW t \in Tabs
  PROVE  /\ \E n \in Nat : DOMAIN taking[t] = 1..n
         /\ \A i \in DOMAIN taking[t] : taking[t][i] \in Snapshots
         /\ \A k \in DOMAIN drawing[t] : drawing[t][k] \in Drawings
         /\ taking[t] \in Seq(Snapshots) /\ drawing[t] \in Seq(Drawings)
<1>1. taking[t] \in Seq(Snapshots) /\ drawing[t] \in Seq(Drawings)
  BY DEF TypeOK, EditorTypeOK, Drawings
<1> QED
  BY <1>1

LEMMA BeginFacts ==
  ASSUME TypeOK, NEW t \in Tabs, NEW image,
         taking' = [taking EXCEPT ![t] = Begin(t, image)]
  PROVE  \E n \in Nat :
         /\ DOMAIN taking[t] = 1..n /\ DOMAIN taking'[t] = 1..(n + 1)
         /\ \A i \in 1..n : taking'[t][i] = taking[t][i]
         /\ taking'[t][n + 1] = [seen |-> screen[t], image |-> image, live |-> TRUE, late |-> FALSE]
         /\ \A u \in Tabs \ {t} : taking'[u] = taking[u]
<1> DEFINE x == [seen |-> screen[t], image |-> image, live |-> TRUE, late |-> FALSE]
           n == Len(taking[t])
<1>1. taking[t] \in Seq(Snapshots) /\ n \in Nat /\ DOMAIN taking[t] = 1..n
  BY DEF TypeOK, EditorTypeOK
<1>2. taking'[t] = Append(taking[t], x) /\ \A u \in Tabs \ {t} : taking'[u] = taking[u]
  BY DEF Begin, TypeOK, EditorTypeOK
<1> HIDE DEF x, n
<1>3. /\ DOMAIN Append(taking[t], x) = 1..(n + 1)
      /\ Append(taking[t], x)[n + 1] = x
      /\ \A i \in 1..n : Append(taking[t], x)[i] = taking[t][i]
  BY <1>1 DEF n
<1> QED
  BY <1>1, <1>2, <1>3 DEF x

\* Marking what is under way as late changes nothing else of it.
LEMMA LateFacts ==
  /\ \A x \in Snapshots : LET y == [x EXCEPT !.late = TRUE] IN
       y.seen = x.seen /\ y.image = x.image /\ y.live = x.live /\ y.late
  /\ \A x \in Drawings : LET y == [x EXCEPT !.late = TRUE] IN
       y.doc = x.doc /\ y.live = x.live /\ y.late
  BY DEF Snapshots, Drawings

LEMMA AllLateFacts ==
  /\ \A s \in Seq(Snapshots) :
       /\ DOMAIN AllLate(s) = DOMAIN s
       /\ \A i \in DOMAIN s : /\ AllLate(s)[i].seen = s[i].seen /\ AllLate(s)[i].image = s[i].image
                              /\ AllLate(s)[i].live = s[i].live
                              /\ AllLate(s)[i].late
  /\ \A s \in Seq(Drawings) :
       /\ DOMAIN AllLate(s) = DOMAIN s
       /\ \A i \in DOMAIN s : /\ AllLate(s)[i].doc = s[i].doc
                              /\ AllLate(s)[i].live = s[i].live
                              /\ AllLate(s)[i].late
<1>1. ASSUME NEW s \in Seq(Snapshots), NEW i \in DOMAIN s
      PROVE  /\ AllLate(s)[i].seen = s[i].seen /\ AllLate(s)[i].image = s[i].image
             /\ AllLate(s)[i].live = s[i].live
             /\ AllLate(s)[i].late
  <2>1. s[i] \in Snapshots /\ AllLate(s)[i] = [s[i] EXCEPT !.late = TRUE]
    BY DEF AllLate
  <2> QED
    BY <2>1, LateFacts
<1>2. ASSUME NEW s \in Seq(Drawings), NEW i \in DOMAIN s
      PROVE  /\ AllLate(s)[i].doc = s[i].doc
             /\ AllLate(s)[i].live = s[i].live
             /\ AllLate(s)[i].late
  <2>1. s[i] \in Drawings /\ AllLate(s)[i] = [s[i] EXCEPT !.late = TRUE]
    BY DEF AllLate
  <2> QED
    BY <2>1, LateFacts
<1>3. \A s : DOMAIN AllLate(s) = DOMAIN s
  BY DEF AllLate
<1> QED
  BY <1>1, <1>2, <1>3

\* The oldest snapshot leaves the queue.
LEMMA HeadGone ==
  ASSUME TypeOK, NEW t \in Tabs, taking[t] # <<>>, NEW all \in BOOLEAN,
         taking' = [taking EXCEPT ![t] = IF all THEN AllLate(Tail(@)) ELSE Tail(@)]
  PROVE  \E n \in Nat :
         /\ 1 <= n /\ DOMAIN taking[t] = 1..n /\ DOMAIN taking'[t] = 1..(n - 1)
         /\ Head(taking[t]) = taking[t][1] /\ Head(taking[t]) \in Snapshots
         /\ \A i \in 1..(n - 1) :
              /\ i + 1 \in 1..n
              /\ taking'[t][i].seen = taking[t][i + 1].seen
              /\ taking'[t][i].image = taking[t][i + 1].image
              /\ taking'[t][i].live = taking[t][i + 1].live
              /\ all => taking'[t][i].late
              /\ ~all => taking'[t][i] = taking[t][i + 1]
         /\ \A j \in 1..n : j = 1 \/ (j - 1 \in 1..(n - 1) /\ (j - 1) + 1 = j)
         /\ \A u \in Tabs \ {t} : taking'[u] = taking[u]
<1> DEFINE n == Len(taking[t])
           tail == Tail(taking[t])
<1>1. taking[t] \in Seq(Snapshots) /\ n \in Nat /\ DOMAIN taking[t] = 1..n
  BY TakingSeq
<1>2. 1 <= n
  BY <1>1
<1>3. Head(taking[t]) = taking[t][1] /\ Head(taking[t]) \in Snapshots
  BY <1>1
<1>4. tail \in Seq(Snapshots) /\ DOMAIN tail = 1..(n - 1)
      /\ \A i \in 1..(n - 1) : tail[i] = taking[t][i + 1]
  BY <1>1
<1>5. /\ taking'[t] = IF all THEN AllLate(tail) ELSE tail
      /\ \A u \in Tabs \ {t} : taking'[u] = taking[u]
  BY DEF TypeOK, EditorTypeOK
<1> HIDE DEF n, tail
<1>6. DOMAIN taking'[t] = 1..(n - 1)
  <2>1. DOMAIN AllLate(tail) = 1..(n - 1)
    BY <1>4, AllLateFacts
  <2>2. CASE all
    BY <1>5, <2>1, <2>2
  <2>3. CASE ~all
    BY <1>4, <1>5, <2>3
  <2> QED
    BY <2>2, <2>3
<1>7. ASSUME NEW i \in 1..(n - 1)
      PROVE  /\ taking'[t][i].seen = taking[t][i + 1].seen
             /\ taking'[t][i].image = taking[t][i + 1].image
             /\ taking'[t][i].live = taking[t][i + 1].live
             /\ all => taking'[t][i].late
             /\ ~all => taking'[t][i] = taking[t][i + 1]
  <2>1. CASE all
    <3>1. /\ AllLate(tail)[i].seen = tail[i].seen /\ AllLate(tail)[i].image = tail[i].image
          /\ AllLate(tail)[i].live = tail[i].live
          /\ AllLate(tail)[i].late
      BY <1>4, AllLateFacts
    <3> QED
      BY <1>4, <1>5, <2>1, <3>1
  <2>2. CASE ~all
    BY <1>4, <1>5, <2>2
  <2> QED
    BY <2>1, <2>2
<1>8. /\ \A i \in 1..(n - 1) : i + 1 \in 1..n
      /\ \A j \in 1..n : j = 1 \/ (j - 1 \in 1..(n - 1) /\ (j - 1) + 1 = j)
  BY <1>1, <1>2
<1> QED
  BY <1>1, <1>2, <1>3, <1>5, <1>6, <1>7, <1>8

\* So the sets of snapshots move down by one.
LEMMA HeadSets ==
  ASSUME NEW t \in Tabs, NEW n \in Nat,
         DOMAIN taking[t] = 1..n, DOMAIN taking'[t] = 1..(n - 1), 1 <= n,
         \A i \in 1..(n - 1) :
              /\ i + 1 \in 1..n
              /\ taking'[t][i].image = taking[t][i + 1].image
              /\ taking'[t][i].live = taking[t][i + 1].live,
         \A j \in 1..n : j = 1 \/ (j - 1 \in 1..(n - 1) /\ (j - 1) + 1 = j)
  PROVE  /\ \A i \in Live(t)' : i \in 1..(n - 1) /\ i + 1 \in Live(t)
         /\ \A i \in Ords(t)' : i \in 1..(n - 1) /\ i + 1 \in Ords(t)
         /\ \A j \in Ords(t) : j \in 1..n /\ (j = 1 \/ j - 1 \in Ords(t)')
<1>1. Live(t)' = {i \in 1..(n - 1) : taking[t][i + 1].live}
  BY DEF Live
<1>2. Live(t) = {i \in 1..n : taking[t][i].live}
  BY DEF Live
<1>3. \A i \in Live(t)' : i \in 1..(n - 1) /\ i + 1 \in Live(t)
  BY <1>1, <1>2
<1>4. \A i \in Ords(t)' : i \in 1..(n - 1) /\ i + 1 \in Ords(t)
  BY <1>3 DEF Ords
<1>5. ASSUME NEW j \in Ords(t), j # 1 PROVE j - 1 \in Ords(t)'
  <2>1. j \in 1..n /\ taking[t][j].live /\ taking[t][j].image = 0
    BY <1>2 DEF Ords
  <2>2. PICK i \in 1..(n - 1) : i = j - 1 /\ i + 1 = j
    BY <1>5, <2>1
  <2>3. i \in Live(t)' /\ taking'[t][i].image = 0
    BY <1>1, <2>1, <2>2
  <2> QED
    BY <2>2, <2>3 DEF Ords
<1>6. Ords(t) \subseteq 1..n
  BY <1>2 DEF Ords
<1> QED
  BY <1>3, <1>4, <1>5, <1>6

\* The oldest document has been drawn.
LEMMA DrawnGone ==
  ASSUME TypeOK, NEW t \in Tabs, drawing[t] # <<>>,
         drawing' = [drawing EXCEPT ![t] = Tail(@)]
  PROVE  \E n \in Nat :
         /\ 1 <= n /\ DOMAIN drawing[t] = 1..n /\ DOMAIN drawing'[t] = 1..(n - 1)
         /\ Head(drawing[t]) = drawing[t][1] /\ Head(drawing[t]) \in Drawings
         /\ \A i \in 1..(n - 1) : i + 1 \in 1..n /\ drawing'[t][i] = drawing[t][i + 1]
         /\ \A j \in 1..n : j = 1 \/ (j - 1 \in 1..(n - 1) /\ (j - 1) + 1 = j)
         /\ \A u \in Tabs \ {t} : drawing'[u] = drawing[u]
<1> DEFINE n == Len(drawing[t])
           tail == Tail(drawing[t])
<1>1. drawing[t] \in Seq(Drawings) /\ n \in Nat /\ DOMAIN drawing[t] = 1..n
  BY TakingSeq
<1>2. 1 <= n
  BY <1>1
<1>3. Head(drawing[t]) = drawing[t][1] /\ Head(drawing[t]) \in Drawings
  BY <1>1
<1>4. DOMAIN tail = 1..(n - 1) /\ \A i \in 1..(n - 1) : tail[i] = drawing[t][i + 1]
  BY <1>1
<1>5. drawing'[t] = tail /\ \A u \in Tabs \ {t} : drawing'[u] = drawing[u]
  BY DEF TypeOK, EditorTypeOK
<1> HIDE DEF n, tail
<1>6. /\ \A i \in 1..(n - 1) : i + 1 \in 1..n
      /\ \A j \in 1..n : j = 1 \/ (j - 1 \in 1..(n - 1) /\ (j - 1) + 1 = j)
  BY <1>1, <1>2
<1> QED
  BY <1>1, <1>2, <1>3, <1>4, <1>5, <1>6

LEMMA DropFacts ==
  ASSUME TypeOK, NEW t \in Tabs, NEW shown, NEW why, NEW e \in 1..MaxEdits
  PROVE  /\ ~(e \in screen[t] /\ e \notin sent /\ By(e) = t /\ e \notin shown) \/ lost[e] = "failed" =>
              Dropped(t, shown, why)[e] = lost[e]
         /\ e \in screen[t] /\ e \notin sent /\ By(e) = t /\ e \notin shown /\ lost[e] # "failed" =>
              Dropped(t, shown, why)[e] =
                IF why = "replaced" /\ \E i \in DOMAIN taking[t] :
                                         taking[t][i].image = 0 /\ e \in taking[t][i].seen
                THEN "swept" ELSE why
  BY DEF Dropped, Unsaved

LEMMA SendFacts ==
  ASSUME TypeOK, NEW t \in Tabs, NEW doc, NEW waits, Send(t, doc, waits)
  PROVE  /\ sent' = sent \cup doc.edits
         /\ \A n \in net' : n \in net \/ n.doc = doc
         /\ file'[t] = doc /\ \A u \in Tabs \ {t} : file'[u] = file[u]
  BY DEF Send, TypeOK, SharedTypeOK

\* No edit is made, and saves only grow: what is stored stays known, and no
\* other tab is touched.
LEMMA Settles ==
  ASSUME TypeOK, StoreKnown, NEW t \in Tabs,
         UNCHANGED <<made, rows>>, sent \subseteq sent', sent' \subseteq Edits,
         \A m \in net' : m.doc.edits \subseteq sent',
         \A e \in 1..MaxEdits : e \notin Edits \/ By(e) # t => lost'[e] = lost[e],
         OthersSame(t)
  PROVE  StoreKnown' /\ Frame(t)
<1>1. Edits' = Edits /\ Edits \subseteq 1..MaxEdits
  BY EditorsAreTabs DEF Edits
<1>2. Frame(t)
  BY <1>1 DEF Frame
<1>3. StoreKnown'
  BY <1>1 DEF StoreKnown, How
<1> QED
  BY <1>2, <1>3

\* What an action may do to `lost`: what the new screen leaves out is dropped,
\* and what fails is given up.
Loses(t, shown, why) == \A e \in 1..MaxEdits :
  \/ lost'[e] = Dropped(t, shown, why)[e]
  \/ /\ e \in Edits /\ By(e) = t
     /\ GivenUp(e)'
     /\ How(e) = "resize" => lost'[e] = "failed"

LEMMA LosesOwn ==
  ASSUME TypeOK, NEW t \in Tabs, TabInv(t), NEW shown, NEW why, Loses(t, shown, why)
  PROVE  \A e \in 1..MaxEdits : e \notin Edits \/ By(e) # t => lost'[e] = lost[e]
<1>1. screen[t] \subseteq Edits
  BY DEF TabInv, TabKnown
<1> QED
  BY <1>1, DropFacts DEF Loses

\* Every edit stays owed or given up, when what was in a snapshot or in a
\* document being drawn is still, or is saved or given up.
LEMMA StaysOwed ==
  ASSUME TypeOK, StoreKnown, NEW t \in Tabs, TabInv(t), NEW why \in {"undone", "replaced"},
         UNCHANGED made, sent \subseteq sent', Loses(t, screen'[t], why),
         dirty[t] => dirty'[t], timer[t] => timer'[t],
         why = "replaced" => ~timer[t] \/ \A e \in screen[t] : How(e) = "resize" => e \in screen'[t],
         \A e \in Edits : By(e) = t /\ Snapped(t, e) =>
           e \in sent' \/ Snapped(t, e)' \/ Painted(t, e)' \/ GivenUp(e)',
         \A e \in Edits : By(e) = t /\ Painted(t, e) => e \in sent' \/ Painted(t, e)'
  PROVE  Accounted(t)'
<1>1. PICK shown : shown = screen'[t]
  OBVIOUS
<1>2. Edits' = Edits /\ Edits \subseteq 1..MaxEdits
  BY EditorsAreTabs DEF Edits
<1>3. \A e : By(e)' = By(e) /\ How(e)' = How(e)
  BY DEF By, How
<1>4. ASSUME NEW e \in Edits, By(e) = t PROVE Owed(t, e)'
  <2>1. SUFFICES ASSUME e \notin sent', ~Snapped(t, e)', ~Painted(t, e)', ~GivenUp(e)'
                 PROVE  \/ e \in shown /\ How(e) = "type" /\ dirty'[t]
                        \/ e \in shown /\ How(e) = "resize" /\ timer'[t]
    BY <1>1, <1>3 DEF Owed
  <2>2. e \notin sent /\ ~Snapped(t, e) /\ ~Painted(t, e) /\ e \in 1..MaxEdits
    BY <1>2, <1>4, <2>1
  <2>3. \/ e \in screen[t] /\ How(e) = "type" /\ dirty[t]
        \/ e \in screen[t] /\ How(e) = "resize" /\ timer[t]
        \/ GivenUp(e)
    BY <1>4, <2>2 DEF TabInv, Accounted, Owed
  <2>4. lost'[e] = Dropped(t, shown, why)[e]
    BY <1>1, <2>1, <2>2 DEF Loses
  <2>5. ~\E i \in DOMAIN taking[t] : taking[t][i].image = 0 /\ e \in taking[t][i].seen
    BY <2>2 DEF Snapped
  <2>6. How(e) \in {"type", "resize", "picture"}
    BY DEF StoreKnown
  <2>7. lost'[e] # "failed"
    BY <1>3, <2>1, <2>6 DEF GivenUp
  <2>8. lost[e] = "failed" => lost'[e] = "failed"
    BY <2>2, <2>4, DropFacts
  <2>9. CASE e \in screen[t] /\ e \notin shown
    <3>1. lost'[e] = why
      BY <1>4, <2>2, <2>4, <2>5, <2>7, <2>8, <2>9, DropFacts
    <3>2. How(e) # "type"
      BY <1>3, <2>1, <3>1 DEF GivenUp
    <3>3. How(e) # "picture"
      BY <1>4, <2>2, <2>9 DEF TabInv, Images
    <3>4. How(e) = "resize" /\ why = "replaced"
      BY <1>3, <2>1, <2>6, <3>1, <3>2, <3>3 DEF GivenUp
    <3>5. ~timer[t]
      BY <1>1, <2>9, <3>4
    <3>6. GivenUp(e)
      BY <2>3, <3>2, <3>5
    <3>7. lost[e] \in {"none", "failed"}
      BY <1>4, <2>2, <2>9, <3>4 DEF TabInv, SizesStay
    <3> QED
      BY <2>7, <2>8, <3>4, <3>6, <3>7 DEF GivenUp
  <2>10. CASE ~(e \in screen[t] /\ e \notin shown)
    <3>1. lost'[e] = lost[e]
      BY <2>2, <2>4, <2>10, DropFacts
    <3>2. ~GivenUp(e)
      BY <1>3, <2>1, <3>1 DEF GivenUp
    <3> QED
      BY <2>3, <2>10, <3>2
  <2> QED
    BY <2>9, <2>10
<1> QED
  BY <1>2, <1>3, <1>4 DEF Accounted

\* The sizes stay where they are needed, when no snapshot is new and no size
\* comes to the screen unsaved.
LEMMA SizesStayOwed ==
  ASSUME TypeOK, StoreKnown, NEW t \in Tabs, TabInv(t), NEW why \in {"undone", "replaced"},
         UNCHANGED made, sent \subseteq sent', Loses(t, screen'[t], why),
         \A i \in Ords(t)' : \E j \in Ords(t) : taking'[t][i].seen = taking[t][j].seen,
         \A e \in screen'[t] : By(e) = t /\ How(e) = "resize" => e \in screen[t] \/ e \in sent'
  PROVE  SizesStay(t)'
<1>1. PICK shown : shown = screen'[t]
  OBVIOUS
<1>2. /\ screen[t] \subseteq 1..MaxEdits
      /\ \A j \in Ords(t) : taking[t][j].seen \subseteq 1..MaxEdits
  BY EditorsAreTabs DEF TabInv, TabKnown, Ords, Live
<1>3. \A e : By(e)' = By(e) /\ How(e)' = How(e)
  BY DEF By, How
<1>4. \A e \in 1..MaxEdits : How(e) = "resize" =>
        lost'[e] = Dropped(t, shown, why)[e] \/ lost'[e] = "failed"
  BY <1>1 DEF Loses
<1>5. ASSUME NEW i \in Ords(t)', NEW e \in taking'[t][i].seen, By(e) = t, How(e) = "resize"
      PROVE  e \in sent' \/ e \in shown \/ lost'[e] \in {"undone", "swept", "failed"}
  <2>1. PICK j \in Ords(t) : taking'[t][i].seen = taking[t][j].seen
    BY <1>5
  <2>2. /\ e \in taking[t][j].seen /\ e \in 1..MaxEdits
        /\ j \in DOMAIN taking[t] /\ taking[t][j].image = 0
    BY <1>2, <1>5, <2>1 DEF Ords, Live
  <2>3. e \in sent \/ e \in screen[t] \/ lost[e] \in {"undone", "swept", "failed"}
    BY <1>5, <2>2 DEF TabInv, SizesStay
  <2>4. CASE e \in screen[t] /\ e \notin sent /\ e \notin shown /\ lost[e] # "failed"
    <3>1. Dropped(t, shown, why)[e] \in {"undone", "swept"}
      BY <1>5, <2>2, <2>4, DropFacts
    <3> QED
      BY <1>4, <1>5, <2>2, <3>1
  <2>5. CASE ~(e \in screen[t] /\ e \notin sent /\ e \notin shown /\ lost[e] # "failed")
    <3>1. Dropped(t, shown, why)[e] = lost[e]
      BY <2>2, <2>5, DropFacts
    <3> QED
      BY <1>4, <1>5, <2>2, <2>3, <2>5, <3>1
  <2> QED
    BY <2>4, <2>5
<1>6. ASSUME NEW e \in shown, By(e) = t, How(e) = "resize", e \notin sent'
      PROVE  lost'[e] \in {"none", "failed"}
  <2>1. e \in screen[t] /\ e \in 1..MaxEdits /\ e \notin sent
    BY <1>1, <1>2, <1>6
  <2>2. lost[e] \in {"none", "failed"}
    BY <1>6, <2>1 DEF TabInv, SizesStay
  <2>3. Dropped(t, shown, why)[e] = lost[e]
    BY <2>1, <1>6, DropFacts
  <2> QED
    BY <1>4, <1>6, <2>1, <2>2, <2>3
<1> QED
  BY <1>1, <1>3, <1>5, <1>6 DEF SizesStay

-----------------------------------------------------------------------------
\* A snapshot begins: by onChange, the timer, a click, or for an edited image.
LEMMA BeginKeeps ==
  ASSUME TypeOK, StoreKnown, NEW t \in Tabs, TabInv(t), open[t], NEW image \in 0..MaxEdits,
         taking' = [taking EXCEPT ![t] = Begin(t, image)],
         Edits' = Edits \cup ({image} \ {0}), \A e \in Edits : made'[e] = made[e],
         image # 0 => image \notin Edits /\ made'[image].by = t /\ made'[image].how = "picture",
         image # 0 => dirty'[t] = dirty[t], image # 0 => timer'[t] = timer[t],
         UNCHANGED <<sent, rows, net, screen, file, last, hist, drawing, lost, parted>>,
         UNCHANGED open, UNCHANGED mixed,
         \A u \in Tabs \ {t} : dirty'[u] = dirty[u], \A u \in Tabs \ {t} : timer'[u] = timer[u]
  PROVE  Keeps(t)
<1>1. PICK n \in Nat :
         /\ DOMAIN taking[t] = 1..n /\ DOMAIN taking'[t] = 1..(n + 1)
         /\ \A i \in 1..n : taking'[t][i] = taking[t][i]
         /\ taking'[t][n + 1] = [seen |-> screen[t], image |-> image, live |-> TRUE, late |-> FALSE]
         /\ \A u \in Tabs \ {t} : taking'[u] = taking[u]
  BY BeginFacts
<1>2. /\ taking'[t][n + 1].seen = screen[t] /\ taking'[t][n + 1].image = image
      /\ taking'[t][n + 1].live /\ ~taking'[t][n + 1].late
  BY <1>1
<1>3. Frame(t)
  BY <1>1 DEF Frame, OthersSame
<1>4. StoreKnown'
  BY DEF StoreKnown, How
<1>5. /\ screen[t] \subseteq Edits /\ sent \subseteq Edits
      /\ \A i \in 1..n : taking[t][i].seen \subseteq Edits /\ taking[t][i].image \in Edits \cup {0}
      /\ \A i \in DOMAIN hist[t] : hist[t][i].edits \subseteq sent
      /\ \A k \in DOMAIN drawing[t] : drawing[t][k].doc.edits \subseteq Edits
  BY <1>1 DEF TabInv, TabKnown, StoreKnown
<1>6. TabKnown(t)'
  BY <1>1, <1>2, <1>5 DEF TabInv, TabKnown
<1>7. /\ Live(t) \subseteq 1..n /\ Live(t)' = Live(t) \cup {n + 1}
      /\ Fresh(t) \subseteq Live(t) /\ Fresh(t)' = Fresh(t) \cup {n + 1}
      /\ Ords(t) \subseteq Live(t)
      /\ image = 0 => Ords(t)' = Ords(t) \cup {n + 1}
      /\ image # 0 => Ords(t)' = Ords(t)
      /\ LiveDocs(t)' = LiveDocs(t) /\ FreshDocs(t)' = FreshDocs(t)
      /\ FreshDocs(t) \subseteq DOMAIN drawing[t]
  <2>1. Live(t) \subseteq 1..n /\ Live(t)' = Live(t) \cup {n + 1}
    BY <1>1, <1>2 DEF Live
  <2>2. \A i \in Live(t) : taking'[t][i] = taking[t][i]
    BY <1>1, <2>1
  <2> QED
    BY <1>2, <2>1, <2>2 DEF Fresh, Ords, LiveDocs, FreshDocs
<1>8. Closes(t)'
  BY DEF Closes
<1>9. \A e \in Edits : By(e)' = By(e) /\ How(e)' = How(e)
  BY DEF By, How
<1>10. \A e : /\ Painted(t, e)' = Painted(t, e)
              /\ Snapped(t, e)' <=> \/ Snapped(t, e)
                                    \/ IF image = 0 THEN e \in screen[t] ELSE e = image
  <2>1. DOMAIN taking'[t] = (DOMAIN taking[t]) \cup {n + 1}
    BY <1>1
  <2>2. \A i \in DOMAIN taking[t] : taking'[t][i] = taking[t][i]
    BY <1>1
  <2>3. ASSUME NEW e
        PROVE  Snapped(t, e)' <=> Snapped(t, e) \/ IF image = 0 THEN e \in screen[t] ELSE e = image
    <3> DEFINE holds(x) == IF x.image = 0 THEN e \in x.seen ELSE e = x.image
    <3>1. Snapped(t, e)' <=> \E i \in DOMAIN taking'[t] : holds(taking'[t][i])
      BY DEF Snapped
    <3>2. Snapped(t, e) <=> \E i \in DOMAIN taking[t] : holds(taking[t][i])
      BY DEF Snapped
    <3>3. holds(taking'[t][n + 1]) <=> IF image = 0 THEN e \in screen[t] ELSE e = image
      BY <1>2
    <3> HIDE DEF holds
    <3> QED
      BY <2>1, <2>2, <3>1, <3>2, <3>3
  <2> QED
    BY <2>3 DEF Painted
<1>11. Images(t)'
  <2>1. \A i \in 1..n : taking[t][i].image # 0 =>
          made'[taking[t][i].image].by = t /\ made'[taking[t][i].image].how = "picture"
    BY <1>1, <1>5 DEF TabInv, Images, By, How
  <2>2. \A i \in DOMAIN taking'[t] : taking'[t][i].image # 0 =>
          made'[taking'[t][i].image].by = t /\ made'[taking'[t][i].image].how = "picture"
    BY <1>1, <1>2, <2>1
  <2> QED
    BY <1>5, <1>9, <1>10, <2>2 DEF TabInv, Images, By, How
<1>12. SizesStay(t)'
  <2>1. \A i \in Ords(t)' : \/ i \in Ords(t) /\ taking'[t][i] = taking[t][i]
                            \/ taking'[t][i].seen = screen[t]
    BY <1>1, <1>2, <1>7
  <2>2. \A i \in Ords(t) : taking[t][i].seen \subseteq Edits
    BY <1>5, <1>7
  <2> QED
    BY <1>5, <1>9, <2>1, <2>2 DEF TabInv, SizesStay
<1>13. Accounted(t)'
  <2>1. ASSUME NEW e \in Edits', made'[e].by = t PROVE Owed(t, e)'
    <3>1. CASE e \notin Edits
      BY <1>10, <3>1 DEF Owed
    <3>2. CASE e \in Edits
      <4>1. Owed(t, e)
        BY <1>9, <2>1, <3>2 DEF TabInv, Accounted, By
      <4>2. GivenUp(e)' = GivenUp(e)
        BY <1>9, <3>2 DEF GivenUp
      <4>3. CASE image = 0 /\ e \in screen[t]
        BY <1>10, <4>3 DEF Owed
      <4>4. CASE e \notin screen[t]
        BY <1>10, <4>1, <4>2, <4>4 DEF Owed
      <4>5. CASE image # 0
        BY <1>9, <1>10, <3>2, <4>1, <4>2, <4>5 DEF Owed
      <4> QED
        BY <4>3, <4>4, <4>5
    <3> QED
      BY <3>1, <3>2
  <2> QED
    BY <2>1 DEF Accounted, By
<1>14. Stacked(t)'
  <2>1. \A i \in DOMAIN hist[t] : hist[t][i].edits \subseteq Edits
    BY <1>5
  <2>2. open[t] /\ ~mixed[t] => \A i \in DOMAIN hist[t] : \A e \in Edits' : made'[e].by # t =>
          (e \in hist[t][i].edits <=> e \in screen[t])
    BY <1>5, <2>1 DEF TabInv, Stacked, Agree, By
  <2> QED
    BY <2>2 DEF Stacked, Agree, By
<1>15. Same(t)'
  <2>1. \A i \in Fresh(t) : /\ taking'[t][i] = taking[t][i] /\ i < n + 1 /\ i \in 1..n
                            /\ taking[t][i].seen \subseteq Edits
    BY <1>1, <1>5, <1>7
  <2>2. /\ \A i \in Fresh(t) : /\ \A e \in Edits : By(e) # t /\ How(e) # "resize" =>
                                    (e \in taking[t][i].seen <=> e \in screen[t])
                               /\ Within(taking[t][i].seen, screen[t])
                               /\ \A j \in Fresh(t) : i < j => Within(taking[t][i].seen, taking[t][j].seen)
        /\ \A k \in FreshDocs(t) : /\ Within(drawing[t][k].doc.edits, screen[t])
                                   /\ \A i \in Fresh(t) : Within(drawing[t][k].doc.edits, taking[t][i].seen)
        /\ \A k, l \in FreshDocs(t) : k = l
    BY DEF TabInv, Same
  <2>4. \A s \in SUBSET Edits : \A e \in s : made'[e].how = How(e)
    BY <1>9 DEF How
  <2>5. \A i \in Fresh(t)' : \A e \in Edits' : made'[e].by # t /\ made'[e].how # "resize" =>
          (e \in taking'[t][i].seen <=> e \in screen[t])
    BY <1>2, <1>5, <1>7, <1>9, <2>1, <2>2 DEF By, How
  <2>6. \A i \in Fresh(t)' : \A e \in taking'[t][i].seen : made'[e].how # "resize" => e \in screen[t]
    BY <1>2, <1>5, <1>7, <2>1, <2>2, <2>4 DEF Within
  <2>7. ASSUME NEW i \in Fresh(t)', NEW j \in Fresh(t)', i < j,
               NEW e \in taking'[t][i].seen, made'[e].how # "resize"
        PROVE  e \in taking'[t][j].seen
    <3>1. i \in Fresh(t) /\ e \in taking[t][i].seen
      BY <1>1, <1>7, <2>1, <2>7
    <3>2. How(e) # "resize"
      BY <2>1, <2>4, <2>7, <3>1
    <3> QED
      BY <1>2, <1>7, <2>1, <2>2, <2>7, <3>1, <3>2 DEF Within
  <2>8. \A k \in FreshDocs(t) : \A e \in drawing[t][k].doc.edits : made'[e].how # "resize" =>
          e \in screen[t] /\ \A i \in Fresh(t)' : e \in taking'[t][i].seen
    BY <1>2, <1>5, <1>7, <2>1, <2>2, <2>4 DEF Within
  <2> QED
    BY <1>7, <2>2, <2>5, <2>6, <2>7, <2>8 DEF Same, Within, By, How
<1>16. Idles(t)'
  <2>1. CASE image = 0
    <3>1. \A i \in Fresh(t)' : (\A j \in Ords(t)' : j <= i) => i = n + 1
      BY <1>7, <2>1
    <3> QED
      BY <1>2, <1>7, <2>1, <3>1 DEF Idles, Within
  <2>2. CASE image # 0
    <3>1. \A i \in Fresh(t)' \cap Ords(t)' : i \in Fresh(t) \cap Ords(t) /\ taking'[t][i] = taking[t][i]
      BY <1>1, <1>7, <2>2
    <3>2. \A e \in screen[t] : made'[e].how = How(e)
      BY <1>5, <1>9 DEF How
    <3>3. \A r : Within(screen[t], r) => \A e \in screen[t] : made'[e].how # "resize" => e \in r
      BY <3>2 DEF Within
    <3>4. \A i \in Fresh(t)' \cap Ords(t)' : open[t] /\ parted[t] = {} /\ ~dirty[t] =>
            ((\A j \in Ords(t)' : j <= i) =>
              \A e \in screen[t] : made'[e].how # "resize" => e \in taking'[t][i].seen)
      BY <1>7, <2>2, <3>1, <3>3 DEF TabInv, Idles
    <3>5. open[t] /\ parted[t] = {} /\ ~dirty[t] =>
            /\ ~timer[t] /\ Ords(t) = {} /\ LiveDocs(t) = {} =>
                 screen[t] = last[t].edits /\ (file[t] = Empty \/ screen[t] = file[t].edits)
            /\ ~timer[t] /\ Ords(t) = {} => \A k \in FreshDocs(t) : screen[t] = drawing[t][k].doc.edits
      BY DEF TabInv, Idles
    <3> QED
      BY <1>7, <2>2, <3>4, <3>5 DEF Idles, Within, How
  <2> QED
    BY <2>1, <2>2
<1> QED
  BY <1>3, <1>4, <1>6, <1>8, <1>11, <1>12, <1>13, <1>14, <1>15, <1>16 DEF Keeps, TabInv

\* An edit is typed, or a size set: it is on the screen, and reported later.
LEMMA MakeKeeps ==
  ASSUME TypeOK, StoreKnown, NEW t \in Tabs, TabInv(t), open[t], NEW how \in {"type", "resize"},
         Make(t, how), screen' = [screen EXCEPT ![t] = @ \cup {Len(made')}],
         UNCHANGED <<sent, rows, net, file, last, hist, taking, drawing, lost, parted>>,
         UNCHANGED open, UNCHANGED mixed,
         how = "type" => dirty'[t] /\ timer'[t] = timer[t],
         how = "resize" => timer'[t] /\ dirty'[t] = dirty[t],
         \A u \in Tabs \ {t} : dirty'[u] = dirty[u], \A u \in Tabs \ {t} : timer'[u] = timer[u]
  PROVE  Keeps(t)
<1> DEFINE new == Len(made')
<1>1. Edits' = Edits \cup {new} /\ new \notin Edits /\ new \in 1..MaxEdits
      /\ \A e \in Edits : made'[e] = made[e]
  BY Grows DEF TypeOK
<1>2. made'[new].by = t /\ made'[new].how = how
  <2>1. made'[new] = [by |-> t, how |-> how]
    BY Grows DEF TypeOK
  <2> QED
    BY <2>1
<1> HIDE DEF new
<1>3. screen'[t] = screen[t] \cup {new} /\ \A u \in Tabs \ {t} : screen'[u] = screen[u]
  BY DEF TypeOK, SharedTypeOK, new
<1>4. Frame(t)
  BY <1>1, <1>2, <1>3 DEF Frame, OthersSame
<1>5. StoreKnown'
  BY <1>1, <1>2 DEF StoreKnown, How
<1>6. /\ screen[t] \subseteq Edits /\ sent \subseteq Edits
      /\ \A i \in DOMAIN taking[t] : taking[t][i].seen \subseteq Edits /\ taking[t][i].image \in Edits \cup {0}
      /\ \A i \in DOMAIN hist[t] : hist[t][i].edits \subseteq sent
      /\ \A k \in DOMAIN drawing[t] : drawing[t][k].doc.edits \subseteq Edits
  BY DEF TabInv, TabKnown, StoreKnown
<1>7. TabKnown(t)'
  BY <1>1, <1>3, <1>6 DEF TabInv, TabKnown
<1>8. /\ Live(t)' = Live(t) /\ Fresh(t)' = Fresh(t) /\ Ords(t)' = Ords(t)
      /\ LiveDocs(t)' = LiveDocs(t) /\ FreshDocs(t)' = FreshDocs(t)
      /\ Fresh(t) \subseteq DOMAIN taking[t] /\ Ords(t) \subseteq DOMAIN taking[t]
      /\ FreshDocs(t) \subseteq DOMAIN drawing[t]
  BY LiveSets
<1>9. Closes(t)'
  BY DEF Closes
<1>10. /\ \A e \in Edits : By(e)' = By(e) /\ How(e)' = How(e)
       /\ \A e \in Edits : made'[e].by = By(e) /\ made'[e].how = How(e)
  BY <1>1 DEF By, How
<1>11. \A e : Painted(t, e)' = Painted(t, e) /\ Snapped(t, e)' = Snapped(t, e)
  BY DEF Painted, Snapped
<1>12. Images(t)'
  <2>1. \A i \in DOMAIN taking[t] : taking[t][i].image # 0 =>
          made'[taking[t][i].image].by = t /\ made'[taking[t][i].image].how = "picture"
    BY <1>6, <1>10 DEF TabInv, Images
  <2>2. \A e \in screen'[t] : made'[e].by = t /\ made'[e].how = "picture" => e \in sent \/ Painted(t, e)
    BY <1>2, <1>3, <1>6, <1>10 DEF TabInv, Images
  <2> QED
    BY <1>11, <2>1, <2>2 DEF Images, By, How
<1>13. SizesStay(t)'
  <2>1. lost[new] = "none"
    BY <1>1 DEF StoreKnown
  <2>2. \A i \in Ords(t) : \A e \in taking[t][i].seen : made'[e].by = t /\ made'[e].how = "resize" =>
          e \in sent \/ e \in screen'[t] \/ lost[e] \in {"undone", "swept", "failed"}
    BY <1>3, <1>6, <1>8, <1>10 DEF TabInv, SizesStay
  <2>3. \A e \in screen'[t] : made'[e].by = t /\ made'[e].how = "resize" =>
          e \in sent \/ lost[e] \in {"none", "failed"}
    BY <1>3, <1>6, <1>10, <2>1 DEF TabInv, SizesStay
  <2> QED
    BY <1>8, <2>2, <2>3 DEF SizesStay, By, How
<1>14. Accounted(t)'
  <2>1. ASSUME NEW e \in Edits', made'[e].by = t PROVE Owed(t, e)'
    <3>1. CASE e = new
      <4>1. e \in screen'[t] /\ made'[e].how = how
        BY <1>2, <1>3, <3>1
      <4> QED
        BY <4>1 DEF Owed, How
    <3>2. CASE e \in Edits
      <4>1. Owed(t, e)
        BY <1>10, <2>1, <3>2 DEF TabInv, Accounted
      <4>2. /\ GivenUp(e)' = GivenUp(e)
            /\ e \in screen[t] => e \in screen'[t]
            /\ dirty[t] => dirty'[t]
            /\ timer[t] => timer'[t]
        BY <1>3, <1>10, <3>2 DEF GivenUp
      <4> QED
        BY <1>10, <1>11, <3>2, <4>1, <4>2 DEF Owed
    <3> QED
      BY <1>1, <3>1, <3>2
  <2> QED
    BY <2>1 DEF Accounted, By
<1>15. Stacked(t)'
  <2>1. \A i \in DOMAIN hist[t] : hist[t][i].edits \subseteq Edits
    BY <1>6
  <2>2. open[t] /\ ~mixed[t] => \A i \in DOMAIN hist[t] : \A e \in Edits' : made'[e].by # t =>
          (e \in hist[t][i].edits <=> e \in screen'[t])
    BY <1>1, <1>2, <1>3, <1>10, <2>1 DEF TabInv, Stacked, Agree
  <2> QED
    BY <2>2 DEF Stacked, Agree, By
<1>16. Same(t)'
  <2>1. \A i \in Fresh(t) : /\ taking[t][i].seen \subseteq Edits
                            /\ \A e \in Edits' : made'[e].by # t /\ made'[e].how # "resize" =>
                                 (e \in taking[t][i].seen <=> e \in screen'[t])
    BY <1>1, <1>2, <1>3, <1>6, <1>8, <1>10 DEF TabInv, Same
  <2>2. \A i \in Fresh(t) :
          /\ \A e \in taking[t][i].seen : made'[e].how # "resize" => e \in screen'[t]
          /\ \A j \in Fresh(t) : i < j =>
               \A e \in taking[t][i].seen : made'[e].how # "resize" => e \in taking[t][j].seen
    BY <1>3, <1>10, <2>1 DEF TabInv, Same, Within
  <2>3. /\ \A k \in FreshDocs(t) : \A e \in drawing[t][k].doc.edits : made'[e].how # "resize" =>
             e \in screen'[t] /\ \A i \in Fresh(t) : e \in taking[t][i].seen
        /\ \A k, l \in FreshDocs(t) : k = l
    BY <1>3, <1>6, <1>8, <1>10 DEF TabInv, Same, Within
  <2> QED
    BY <1>8, <2>1, <2>2, <2>3 DEF Same, Within, By, How
<1>17. Idles(t)'
  <2>1. CASE how = "type"
    BY <2>1 DEF Idles
  <2>2. CASE how = "resize"
    <3>1. timer'[t] /\ dirty'[t] = dirty[t]
      BY <2>2
    <3>2. \A r : Within(screen[t], r) => \A e \in screen'[t] : made'[e].how # "resize" => e \in r
      BY <1>2, <1>3, <1>6, <1>10, <2>2 DEF Within
    <3>3. open[t] /\ parted[t] = {} /\ ~dirty[t] => \A i \in Fresh(t) \cap Ords(t) :
            (\A j \in Ords(t) : j <= i) =>
              \A e \in screen'[t] : made'[e].how # "resize" => e \in taking[t][i].seen
      BY <3>2 DEF TabInv, Idles
    <3> QED
      BY <1>8, <3>1, <3>3 DEF Idles, Within, How
  <2> QED
    BY <2>1, <2>2
<1> QED
  BY <1>4, <1>5, <1>7, <1>9, <1>12, <1>13, <1>14, <1>15, <1>16, <1>17 DEF Keeps, TabInv

\* The panel opens.
LEMMA MountKeeps ==
  ASSUME TypeOK, StoreKnown, NEW t \in Tabs, TabInv(t), Mount(t)
  PROVE  Keeps(t)
<1>1. PICK doc \in Rows : /\ Open(t, doc, doc.edits)
                          /\ hist' = [hist EXCEPT ![t] = <<doc>>]
                          /\ at' = [at EXCEPT ![t] = 1]
  BY DEF Mount
<1>2. /\ UNCHANGED <<made, rows, net, sent, taking, drawing, lost, parted>>
      /\ UNCHANGED dirty
      /\ UNCHANGED timer
      /\ UNCHANGED mixed
  BY DEF Mount
<1>3. doc.edits \subseteq sent /\ sent \subseteq Edits
  BY DEF StoreKnown, Rows
<1>4. /\ ~open[t] /\ open'[t]
      /\ file'[t] = doc /\ last'[t] = doc /\ screen'[t] = doc.edits /\ hist'[t] = <<doc>>
      /\ \A u \in Tabs \ {t} : /\ screen'[u] = screen[u] /\ file'[u] = file[u] /\ last'[u] = last[u]
                               /\ hist'[u] = hist[u]
                               /\ open'[u] = open[u]
  BY <1>1 DEF Open, TypeOK, SharedTypeOK, EditorTypeOK
<1>5. screen[t] = {} /\ ~dirty[t] /\ ~timer[t] /\ Live(t) = {} /\ LiveDocs(t) = {}
  BY <1>4 DEF TabInv, Closes
<1>6. Live(t)' = {} /\ Fresh(t)' = {} /\ Ords(t)' = {} /\ LiveDocs(t)' = {} /\ FreshDocs(t)' = {}
  BY <1>2, <1>5 DEF Live, Fresh, Ords, LiveDocs, FreshDocs
<1>7. Frame(t)
  BY <1>2, <1>4 DEF Frame, OthersSame, Edits
<1>8. StoreKnown'
  BY <1>2 DEF StoreKnown, Edits, How
<1>9. DOMAIN hist'[t] = {1} /\ hist'[t][1] = doc
  BY <1>4
<1>10. TabKnown(t)'
  BY <1>2, <1>3, <1>4, <1>9 DEF TabInv, TabKnown, Edits
<1>11. Closes(t)'
  BY <1>4 DEF Closes
<1>12. Images(t)'
  BY <1>2, <1>3, <1>4 DEF TabInv, Images, By, How
<1>13. SizesStay(t)'
  BY <1>2, <1>3, <1>4, <1>6 DEF SizesStay, By, How
<1>14. Accounted(t)'
  BY <1>2, <1>5 DEF TabInv, Accounted, Owed, Snapped, Painted, GivenUp, By, How, Edits
<1>15. Stacked(t)'
  BY <1>4, <1>9 DEF Stacked, Agree
<1>16. Same(t)'
  BY <1>6 DEF Same
<1>17. Idles(t)'
  BY <1>4, <1>6 DEF Idles
<1> QED
  BY <1>7, <1>8, <1>10, <1>11, <1>12, <1>13, <1>14, <1>15, <1>16, <1>17 DEF Keeps, TabInv

\* onChange under the guard: what was typed stays on the screen, unsaved.
LEMMA IgnoreKeeps ==
  ASSUME TypeOK, StoreKnown, NEW t \in Tabs, TabInv(t), OnChange(t), guard[t]
  PROVE  Keeps(t)
<1> DEFINE kept == Sizes(screen[t])
<1>1. /\ open[t] /\ dirty' = [dirty EXCEPT ![t] = FALSE]
      /\ parted' = [parted EXCEPT ![t] = @ \cup {"ignored"}]
      /\ lost' = Dropped(t, kept, "ignored") /\ UNCHANGED <<taking, drawing>>
      /\ UNCHANGED <<made, rows, net, sent, screen, file, last, hist>>
      /\ UNCHANGED open
      /\ UNCHANGED timer
      /\ UNCHANGED mixed
  BY DEF OnChange, shared, Drop
<1>2. parted'[t] # {} /\ \A u \in Tabs \ {t} : parted'[u] = parted[u] /\ dirty'[u] = dirty[u]
  BY <1>1 DEF TypeOK, EditorTypeOK
<1>3. screen[t] \subseteq Edits /\ Edits \subseteq 1..MaxEdits /\ Edits' = Edits
  BY <1>1, EditorsAreTabs DEF TabInv, TabKnown, Edits
<1>4. \A e \in screen[t] : e \in kept <=> How(e) = "resize"
  BY DEF Sizes
<1> HIDE DEF kept
<1>5. \A e \in 1..MaxEdits :
        lost'[e] = lost[e] \/ (lost'[e] = "ignored" /\ e \in screen[t] /\ e \notin sent /\ By(e) = t
                               /\ How(e) # "resize")
  BY <1>1, <1>4, DropFacts
<1>6. \A e : By(e)' = By(e) /\ How(e)' = How(e)
  BY <1>1 DEF By, How
<1>7. StoreKnown' /\ Frame(t)
  <2>1. OthersSame(t)
    BY <1>1, <1>2 DEF OthersSame
  <2>2. \A e \in 1..MaxEdits : e \notin Edits \/ By(e) # t => lost'[e] = lost[e]
    BY <1>3, <1>5
  <2>3. \A m \in net' : m.doc.edits \subseteq sent'
    BY <1>1 DEF StoreKnown
  <2>4. sent' \subseteq Edits
    BY <1>1 DEF StoreKnown
  <2> QED
    BY <1>1, <2>1, <2>2, <2>3, <2>4, Settles
<1>8. TabKnown(t)'
  BY <1>1 DEF TabInv, TabKnown, Edits
<1>9. /\ Live(t)' = Live(t) /\ Fresh(t)' = Fresh(t) /\ Ords(t)' = Ords(t)
      /\ LiveDocs(t)' = LiveDocs(t) /\ FreshDocs(t)' = FreshDocs(t) /\ Ords(t) \subseteq DOMAIN taking[t]
  BY <1>1, LiveSets
<1>10. Closes(t)'
  BY <1>1 DEF Closes
<1>11. \A e : Painted(t, e)' = Painted(t, e) /\ Snapped(t, e)' = Snapped(t, e)
  BY <1>1 DEF Painted, Snapped
<1>12. Images(t)'
  BY <1>1, <1>6, <1>11 DEF TabInv, Images, By, How
<1>13. SizesStay(t)'
  <2>1. \A e \in 1..MaxEdits : How(e) = "resize" => lost'[e] = lost[e]
    BY <1>5
  <2>2. \A i \in Ords(t) : taking[t][i].seen \subseteq 1..MaxEdits
    BY <1>3, <1>9 DEF TabInv, TabKnown
  <2> QED
    BY <1>1, <1>3, <1>6, <1>9, <2>1, <2>2 DEF TabInv, SizesStay
<1>14. Accounted(t)'
  <2>1. ASSUME NEW e \in Edits, By(e) = t PROVE Owed(t, e)'
    <3>1. Owed(t, e) /\ How(e) \in {"type", "resize", "picture"} /\ e \in 1..MaxEdits
      BY <1>3, <2>1 DEF TabInv, Accounted, StoreKnown
    <3>2. CASE e \in screen[t] /\ e \notin sent /\ How(e) = "type"
      <4>1. lost'[e] \in {"ignored", "failed"}
        BY <1>1, <1>4, <2>1, <3>1, <3>2, DropFacts
      <4> QED
        BY <1>6, <3>2, <4>1 DEF Owed, GivenUp
    <3>3. CASE e \in screen[t] /\ e \notin sent /\ How(e) = "picture"
      BY <1>11, <2>1, <3>3 DEF TabInv, Images, Owed
    <3>4. CASE ~(e \in screen[t] /\ e \notin sent /\ How(e) # "resize")
      <4>1. lost'[e] = lost[e]
        BY <1>5, <3>1, <3>4
      <4>2. GivenUp(e)' = GivenUp(e)
        BY <1>6, <4>1 DEF GivenUp
      <4> QED
        BY <1>1, <1>6, <1>11, <3>1, <3>4, <4>2 DEF Owed
    <3> QED
      BY <3>1, <3>2, <3>3, <3>4
  <2> QED
    BY <1>3, <1>6, <2>1 DEF Accounted
<1>15. Stacked(t)'
  BY <1>1, <1>3, <1>6 DEF TabInv, Stacked, Agree
<1>16. Same(t)'
  BY <1>1, <1>3, <1>9 DEF TabInv, Same, Within, By, How
<1>17. Idles(t)'
  BY <1>2 DEF Idles
<1> QED
  BY <1>7, <1>8, <1>10, <1>12, <1>13, <1>14, <1>15, <1>16, <1>17 DEF Keeps, TabInv

-----------------------------------------------------------------------------
\* A document replaces the screen, or fails to.
LEMMA RenderFacts ==
  ASSUME TypeOK, NEW t \in Tabs, NEW doc, NEW drawn \in BOOLEAN, NEW why, Render(t, doc, drawn, why)
  PROVE  /\ drawn => screen'[t] = doc.edits /\ parted'[t] = {}
         /\ ~drawn => /\ screen'[t] = Blocks(screen[t]) \cup Sizes(doc.edits) /\ parted'[t] # {}
                      /\ taking'[t] = taking[t] /\ drawing'[t] = drawing[t]
         /\ last'[t] = doc
         /\ DOMAIN taking'[t] = DOMAIN taking[t] /\ DOMAIN drawing'[t] = DOMAIN drawing[t]
         /\ \A i \in DOMAIN taking[t] :
              /\ taking'[t][i].seen = taking[t][i].seen /\ taking'[t][i].image = taking[t][i].image
              /\ taking'[t][i].live = taking[t][i].live
              /\ drawn => taking'[t][i].late
         /\ \A k \in DOMAIN drawing[t] :
              /\ drawing'[t][k].doc = drawing[t][k].doc
              /\ drawing'[t][k].live = drawing[t][k].live
              /\ drawn => drawing'[t][k].late
         /\ lost' = Dropped(t, screen'[t], why)
         /\ \A u \in Tabs \ {t} : /\ screen'[u] = screen[u] /\ last'[u] = last[u]
                                  /\ parted'[u] = parted[u] /\ taking'[u] = taking[u]
                                  /\ drawing'[u] = drawing[u]
<1>1. taking[t] \in Seq(Snapshots) /\ drawing[t] \in Seq(Drawings)
  BY TakingSeq
<1>2. /\ last'[t] = doc /\ lost' = Dropped(t, screen'[t], why)
      /\ \A u \in Tabs \ {t} : /\ screen'[u] = screen[u] /\ last'[u] = last[u]
                               /\ parted'[u] = parted[u] /\ taking'[u] = taking[u]
                               /\ drawing'[u] = drawing[u]
  BY DEF Render, Drop, TypeOK, SharedTypeOK, EditorTypeOK
<1>3. CASE drawn
  <2>1. /\ screen'[t] = doc.edits /\ parted'[t] = {}
        /\ taking'[t] = AllLate(taking[t]) /\ drawing'[t] = AllLate(drawing[t])
    BY <1>3 DEF Render, TypeOK, SharedTypeOK, EditorTypeOK
  <2>2. DOMAIN taking'[t] = DOMAIN taking[t] /\ DOMAIN drawing'[t] = DOMAIN drawing[t]
    BY <1>1, <2>1, AllLateFacts
  <2>3. \A i \in DOMAIN taking[t] :
          /\ taking'[t][i].seen = taking[t][i].seen /\ taking'[t][i].image = taking[t][i].image
          /\ taking'[t][i].live = taking[t][i].live
          /\ taking'[t][i].late
    BY <1>1, <2>1, AllLateFacts
  <2>4. \A k \in DOMAIN drawing[t] :
          /\ drawing'[t][k].doc = drawing[t][k].doc
          /\ drawing'[t][k].live = drawing[t][k].live
          /\ drawing'[t][k].late
    BY <1>1, <2>1, AllLateFacts
  <2> QED
    BY <1>2, <1>3, <2>1, <2>2, <2>3, <2>4
<1>4. CASE ~drawn
  <2>1. /\ screen'[t] = Blocks(screen[t]) \cup Sizes(doc.edits)
        /\ parted'[t] = parted[t] \cup {"undrawn"}
        /\ taking'[t] = taking[t] /\ drawing'[t] = drawing[t]
    BY <1>4 DEF Render, TypeOK, SharedTypeOK, EditorTypeOK
  <2>2. parted'[t] # {}
    BY <2>1
  <2> QED
    BY <1>2, <1>4, <2>1, <2>2
<1> QED
  BY <1>3, <1>4

LEMMA RenderKeeps ==
  ASSUME TypeOK, StoreKnown, NEW t \in Tabs, TabInv(t), open[t], UNCHANGED open,
         NEW doc, NEW drawn \in BOOLEAN, NEW why \in {"undone", "replaced"},
         Render(t, doc, drawn, why), why = "replaced" => ~timer[t],
         UNCHANGED <<made, rows, sent>>, UNCHANGED dirty, UNCHANGED timer,
         doc.edits \subseteq sent, \A m \in net' : m.doc.edits \subseteq sent,
         file'[t] = doc, \A u \in Tabs \ {t} : file'[u] = file[u] /\ hist'[u] = hist[u],
         \A u \in Tabs \ {t} : mixed'[u] = mixed[u],
         \A i \in DOMAIN hist'[t] : hist'[t][i].edits \subseteq sent,
         ~mixed'[t] => \A i \in DOMAIN hist'[t] : \A e \in Edits :
           By(e) # t => (e \in hist'[t][i].edits <=> e \in screen'[t])
  PROVE  Keeps(t)
<1>1. /\ drawn => screen'[t] = doc.edits /\ parted'[t] = {}
      /\ ~drawn => /\ screen'[t] = Blocks(screen[t]) \cup Sizes(doc.edits) /\ parted'[t] # {}
                   /\ taking'[t] = taking[t] /\ drawing'[t] = drawing[t]
      /\ last'[t] = doc
      /\ DOMAIN taking'[t] = DOMAIN taking[t] /\ DOMAIN drawing'[t] = DOMAIN drawing[t]
      /\ \A i \in DOMAIN taking[t] :
           /\ taking'[t][i].seen = taking[t][i].seen /\ taking'[t][i].image = taking[t][i].image
           /\ taking'[t][i].live = taking[t][i].live
           /\ drawn => taking'[t][i].late
      /\ \A k \in DOMAIN drawing[t] :
           /\ drawing'[t][k].doc = drawing[t][k].doc
           /\ drawing'[t][k].live = drawing[t][k].live
           /\ drawn => drawing'[t][k].late
      /\ lost' = Dropped(t, screen'[t], why)
      /\ \A u \in Tabs \ {t} : /\ screen'[u] = screen[u] /\ last'[u] = last[u]
                               /\ parted'[u] = parted[u] /\ taking'[u] = taking[u]
                               /\ drawing'[u] = drawing[u]
  BY RenderFacts
<1>2. /\ screen[t] \subseteq Edits /\ Edits \subseteq 1..MaxEdits /\ Edits' = Edits /\ sent \subseteq Edits
      /\ \A e : By(e)' = By(e) /\ How(e)' = How(e)
  BY EditorsAreTabs DEF TabInv, TabKnown, StoreKnown, Edits, By, How
<1>3. Loses(t, screen'[t], why)
  BY <1>1 DEF Loses
<1>4. OthersSame(t)
  <2>1. \A u \in Tabs \ {t} : open'[u] = open[u]
    OBVIOUS
  <2>2. \A u \in Tabs \ {t} : dirty'[u] = dirty[u]
    OBVIOUS
  <2>3. \A u \in Tabs \ {t} : timer'[u] = timer[u]
    OBVIOUS
  <2> QED
    BY <1>1, <2>1, <2>2, <2>3 DEF OthersSame
<1>5. StoreKnown' /\ Frame(t)
  <2>1. \A e \in 1..MaxEdits : e \notin Edits \/ By(e) # t => lost'[e] = lost[e]
    BY <1>3, LosesOwn
  <2> QED
    BY <1>2, <1>4, <2>1, Settles
<1>6. \A e \in screen'[t] : \/ e \in sent
                            \/ e \in screen[t] /\ How(e) # "resize"
  <2>1. CASE drawn
    BY <1>1, <2>1
  <2>2. CASE ~drawn
    <3>1. screen'[t] = Blocks(screen[t]) \cup Sizes(doc.edits)
      BY <1>1, <2>2
    <3> QED
      BY <3>1 DEF Blocks, Sizes
  <2> QED
    BY <2>1, <2>2
<1>7. TabKnown(t)'
  BY <1>1, <1>2, <1>6 DEF TabInv, TabKnown
<1>8. /\ Live(t)' = Live(t) /\ Ords(t)' = Ords(t) /\ LiveDocs(t)' = LiveDocs(t)
      /\ Ords(t) \subseteq DOMAIN taking[t]
      /\ drawn => Fresh(t)' = {} /\ FreshDocs(t)' = {}
      /\ ~drawn => Fresh(t)' = Fresh(t) /\ FreshDocs(t)' = FreshDocs(t)
  BY <1>1 DEF Live, Ords, LiveDocs, Fresh, FreshDocs
<1>9. Closes(t)'
  BY DEF Closes
<1>10. \A e : Painted(t, e)' = Painted(t, e) /\ Snapped(t, e)' = Snapped(t, e)
  <2>1. \A e : Painted(t, e)' <=> Painted(t, e)
    BY <1>1 DEF Painted
  <2>2. \A e : Snapped(t, e)' <=> Snapped(t, e)
    BY <1>1 DEF Snapped
  <2> QED
    BY <2>1, <2>2 DEF Painted, Snapped
<1>11. Images(t)'
  <2>1. \A i \in DOMAIN taking[t] : taking[t][i].image # 0 =>
          By(taking[t][i].image) = t /\ How(taking[t][i].image) = "picture"
    BY DEF TabInv, Images
  <2>2. \A e \in screen'[t] : By(e) = t /\ How(e) = "picture" => e \in sent \/ Painted(t, e)
    BY <1>6 DEF TabInv, Images
  <2> QED
    BY <1>1, <1>2, <1>10, <2>1, <2>2 DEF Images
<1>12. SizesStay(t)'
  <2>1. \A i \in Ords(t)' : \E j \in Ords(t) : taking'[t][i].seen = taking[t][j].seen
    BY <1>1, <1>8
  <2> QED
    BY <1>3, <1>6, <2>1, SizesStayOwed
<1>13. Accounted(t)'
  <2>1. /\ dirty[t] => dirty'[t]
        /\ timer[t] => timer'[t]
    OBVIOUS
  <2> QED
    BY <1>3, <1>10, <2>1, StaysOwed
<1>14. Stacked(t)'
  BY <1>2 DEF Stacked, Agree
<1>15. Same(t)'
  <2>1. CASE drawn
    BY <1>8, <2>1 DEF Same
  <2>2. CASE ~drawn
    <3>1. /\ screen'[t] = Blocks(screen[t]) \cup Sizes(doc.edits)
          /\ taking'[t] = taking[t] /\ drawing'[t] = drawing[t]
      BY <1>1, <2>2
    <3>2. \A e : How(e) # "resize" => (e \in screen'[t] <=> e \in screen[t])
      BY <3>1 DEF Blocks, Sizes
    <3>3. \A s : (\A e \in s : How(e) # "resize" => e \in screen[t]) =>
                 (\A e \in s : How(e) # "resize" => e \in screen'[t])
      BY <3>2
    <3> QED
      BY <1>2, <1>8, <2>2, <3>1, <3>2, <3>3 DEF TabInv, Same, Within
  <2> QED
    BY <2>1, <2>2
<1>16. Idles(t)'
  <2>1. CASE drawn
    BY <1>1, <1>8, <2>1 DEF Idles
  <2>2. CASE ~drawn
    BY <1>1, <2>2 DEF Idles
  <2> QED
    BY <2>1, <2>2
<1> QED
  BY <1>5, <1>7, <1>9, <1>11, <1>12, <1>13, <1>14, <1>15, <1>16 DEF Keeps, TabInv

\* A row is pushed: it is drawn, or only becomes the page's copy.
LEMMA PushKeeps ==
  ASSUME TypeOK, StoreKnown, NEW t \in Tabs, TabInv(t), Push(t)
  PROVE  Keeps(t)
<1>1. PICK doc \in Rows, drawn \in BOOLEAN :
        /\ Arrive(t, doc)
        /\ IF Draws(t, doc)
           THEN /\ Render(t, doc, drawn, "replaced")
                /\ hist' = [hist EXCEPT ![t] = HistoryAfter(t, doc)]
                /\ at' = [at EXCEPT ![t] = Len(hist'[t])]
                /\ mixed' = [mixed EXCEPT ![t] = ~drawn]
           ELSE UNCHANGED <<screen, last, guard, clears, taking, drawing, parted, lost, faults, hist, at, mixed>>
        /\ UNCHANGED <<view, plan, made, rows, net, open, sent, mounts, clicks, dirty, timer, taken>>
  BY DEF Push
<1>2. /\ UNCHANGED <<made, rows, net, sent>>
      /\ UNCHANGED open
      /\ UNCHANGED dirty
      /\ UNCHANGED timer
  BY <1>1
<1>3. doc.edits \subseteq sent /\ sent \subseteq Edits /\ \A m \in net' : m.doc.edits \subseteq sent
  BY <1>2 DEF StoreKnown, Rows
<1>4. open[t] /\ file'[t] = doc /\ \A u \in Tabs \ {t} : file'[u] = file[u]
  BY <1>1 DEF Arrive, TypeOK, SharedTypeOK
<1>5. CASE Draws(t, doc)
  <2>1. /\ Render(t, doc, drawn, "replaced") /\ ~timer[t]
        /\ hist' = [hist EXCEPT ![t] = <<doc>>]
        /\ mixed' = [mixed EXCEPT ![t] = ~drawn]
    BY <1>1, <1>5 DEF HistoryAfter, Draws
  <2>2. hist'[t] = <<doc>> /\ \A u \in Tabs \ {t} : hist'[u] = hist[u]
    BY <2>1 DEF TypeOK, EditorTypeOK
  <2>3. (mixed'[t] <=> ~drawn) /\ \A u \in Tabs \ {t} : mixed'[u] = mixed[u]
    BY <2>1 DEF TypeOK, EditorTypeOK
  <2>4. DOMAIN hist'[t] = {1} /\ hist'[t][1] = doc
    BY <2>2
  <2>5. ASSUME drawn PROVE screen'[t] = doc.edits
    BY <2>1, <2>5 DEF Render, TypeOK, SharedTypeOK
  <2>6. ~mixed'[t] => \A i \in DOMAIN hist'[t] : \A e \in Edits :
           By(e) # t => (e \in hist'[t][i].edits <=> e \in screen'[t])
    BY <2>3, <2>4, <2>5
  <2> QED
    BY <1>2, <1>3, <1>4, <2>1, <2>2, <2>3, <2>4, <2>6, RenderKeeps
<1>6. CASE ~Draws(t, doc)
  <2>1. /\ UNCHANGED <<screen, last, taking, drawing, parted, lost, hist>>
        /\ UNCHANGED mixed
    BY <1>1, <1>6
  <2>2. Frame(t)
    BY <1>2, <1>4, <2>1 DEF Frame, OthersSame, Edits
  <2>3. StoreKnown'
    BY <1>2, <2>1 DEF StoreKnown, Edits, How
  <2>4. TabKnown(t)'
    BY <1>2, <1>3, <1>4, <2>1 DEF TabInv, TabKnown, Edits
  <2>5. /\ Live(t)' = Live(t) /\ Fresh(t)' = Fresh(t) /\ Ords(t)' = Ords(t)
        /\ LiveDocs(t)' = LiveDocs(t) /\ FreshDocs(t)' = FreshDocs(t)
        /\ \A e : By(e)' = By(e) /\ How(e)' = How(e)
        /\ Edits' = Edits
    BY <1>2, <2>1, LiveSets DEF By, How, Edits
  <2>6. Closes(t)'
    BY <1>2, <1>4 DEF Closes
  <2>7. Images(t)'
    BY <1>2, <2>1, <2>5 DEF TabInv, Images, Painted
  <2>8. SizesStay(t)'
    BY <1>2, <2>1, <2>5 DEF TabInv, SizesStay
  <2>9. Accounted(t)'
    BY <1>2, <2>1, <2>5 DEF TabInv, Accounted, Owed, Snapped, Painted, GivenUp
  <2>10. Stacked(t)'
    BY <1>2, <2>1, <2>5 DEF TabInv, Stacked, Agree
  <2>11. Same(t)'
    BY <1>2, <2>1, <2>5 DEF TabInv, Same, Within
  <2>12. Idles(t)'
    <3>1. doc = Empty \/ doc = file[t] \/ doc = last[t] \/ timer[t]
      BY <1>6 DEF Draws
    <3>2. screen'[t] = screen[t] /\ last'[t] = last[t] /\ parted'[t] = parted[t]
          /\ taking'[t] = taking[t] /\ drawing'[t] = drawing[t]
      BY <2>1
    <3>3. \A r : Within(screen[t], r)' <=> Within(screen[t], r)
      BY <1>2, <2>1, <2>5 DEF Within
    <3> QED
      BY <1>2, <1>4, <2>1, <2>5, <3>1, <3>2 DEF TabInv, Idles, Within
  <2> QED
    BY <2>2, <2>3, <2>4, <2>6, <2>7, <2>8, <2>9, <2>10, <2>11, <2>12 DEF Keeps, TabInv
<1> QED
  BY <1>5, <1>6

\* Undo and redo draw an entry of the stack and send it.
LEMMA TravelKeeps ==
  ASSUME TypeOK, StoreKnown, NEW t \in Tabs, TabInv(t), NEW to, Travel(t, to)
  PROVE  Keeps(t)
<1> DEFINE doc == hist[t][to]
<1>1. PICK drawn \in BOOLEAN :
      /\ open[t] /\ to \in DOMAIN hist[t]
      /\ Render(t, doc, drawn, "undone") /\ Send(t, doc, FALSE)
      /\ UNCHANGED <<made, rows, hist>>
      /\ UNCHANGED open
      /\ UNCHANGED dirty
      /\ UNCHANGED timer
      /\ UNCHANGED mixed
  BY DEF Travel, Click
<1>2. doc.edits \subseteq sent /\ sent \subseteq Edits /\ \A i \in DOMAIN hist[t] : hist[t][i].edits \subseteq sent
  BY <1>1 DEF TabInv, TabKnown, StoreKnown
<1>3. ~mixed[t] => /\ \A e \in Edits : By(e) # t => (e \in doc.edits <=> e \in screen[t])
                   /\ \A i \in DOMAIN hist[t] : \A e \in Edits :
                        By(e) # t => (e \in hist[t][i].edits <=> e \in screen[t])
  BY <1>1 DEF TabInv, Stacked, Agree
<1> HIDE DEF doc
<1>4. /\ sent' = sent \cup doc.edits
      /\ \A m \in net' : m \in net \/ m.doc = doc
      /\ file'[t] = doc /\ \A u \in Tabs \ {t} : file'[u] = file[u]
  BY <1>1, SendFacts
<1>5. sent' = sent /\ \A m \in net' : m.doc.edits \subseteq sent
  BY <1>2, <1>4 DEF StoreKnown
<1>6. \/ screen'[t] = doc.edits
      \/ screen'[t] = Blocks(screen[t]) \cup Sizes(doc.edits)
  BY <1>1, RenderFacts
<1>7. ASSUME ~mixed[t], NEW e \in Edits, By(e) # t PROVE e \in screen'[t] <=> e \in screen[t]
  <2>1. e \in doc.edits <=> e \in screen[t]
    BY <1>3, <1>7
  <2>2. CASE screen'[t] = doc.edits
    BY <2>1, <2>2
  <2>3. CASE screen'[t] = Blocks(screen[t]) \cup Sizes(doc.edits)
    BY <2>1, <2>3 DEF Blocks, Sizes
  <2> QED
    BY <1>6, <2>2, <2>3
<1>8. ~mixed'[t] => \A i \in DOMAIN hist'[t] : \A e \in Edits :
        By(e) # t => (e \in hist'[t][i].edits <=> e \in screen'[t])
  BY <1>1, <1>3, <1>7
<1>9. \A u \in Tabs \ {t} : mixed'[u] = mixed[u]
  BY <1>1
<1> QED
  BY <1>1, <1>2, <1>4, <1>5, <1>8, <1>9, RenderKeeps

-----------------------------------------------------------------------------
\* The oldest snapshot settles, or fails.

\* What a snapshot holds when it settles.
LEMMA SnapshotHolds ==
  ASSUME NEW t \in Tabs, NEW s
  PROVE  /\ \A e \in s.seen : How(e) # "resize" => e \in Snapshot(t, s).edits
         /\ s.live => \A e \in screen[t] : How(e) = "resize" => e \in Snapshot(t, s).edits
         /\ ~s.live => s.seen \subseteq Snapshot(t, s).edits
         /\ s.image # 0 => s.image \in Snapshot(t, s).edits
         /\ \A e \in Snapshot(t, s).edits :
              \/ e \in s.seen /\ (How(e) # "resize" \/ ~s.live)
              \/ e \in screen[t] /\ How(e) = "resize" /\ s.live
              \/ e = s.image /\ e # 0
<1>1. Snapshot(t, s).edits = Blocks(s.seen) \cup Sizes(IF s.live THEN screen[t] ELSE s.seen)
                             \cup (IF s.image = 0 THEN {} ELSE {s.image})
  BY DEF Snapshot
<1> QED
  BY <1>1 DEF Blocks, Sizes

\* The screen stays, and the edits the snapshot owed are saved, drawn or given
\* up: only the undo stack and the idle screen remain to be looked at.
LEMMA HeadLeaves ==
  ASSUME TypeOK, StoreKnown, NEW t \in Tabs, TabInv(t), taking[t] # <<>>,
         taking' = [taking EXCEPT ![t] = Tail(@)],
         UNCHANGED <<made, rows, screen>>, UNCHANGED open, UNCHANGED dirty, UNCHANGED timer,
         sent \subseteq sent', sent' \subseteq Edits, \A m \in net' : m.doc.edits \subseteq sent',
         Loses(t, screen'[t], "undone"), OthersSame(t),
         file'[t].edits \subseteq sent', last'[t].edits \subseteq sent',
         \A i \in DOMAIN hist'[t] : hist'[t][i].edits \subseteq sent',
         \A e \in Edits : By(e) = t /\ (IF Head(taking[t]).image = 0 THEN e \in Head(taking[t]).seen
                                        ELSE e = Head(taking[t]).image) =>
           e \in sent' \/ Painted(t, e)' \/ GivenUp(e)',
         \A k \in DOMAIN drawing'[t] : drawing'[t][k].doc.edits \subseteq Edits,
         \A e \in Edits : Painted(t, e) => Painted(t, e)',
         LiveDocs(t)' # {} => LiveDocs(t) # {},
         \A k \in FreshDocs(t)' : k \in FreshDocs(t) /\ drawing'[t][k].doc = drawing[t][k].doc
  PROVE  /\ StoreKnown' /\ Frame(t) /\ TabKnown(t)' /\ Closes(t)' /\ Images(t)' /\ SizesStay(t)'
         /\ Accounted(t)' /\ Same(t)'
<1>1. PICK n \in Nat :
        /\ 1 <= n /\ DOMAIN taking[t] = 1..n /\ DOMAIN taking'[t] = 1..(n - 1)
        /\ Head(taking[t]) = taking[t][1]
        /\ \A i \in 1..(n - 1) : i + 1 \in 1..n /\ taking'[t][i] = taking[t][i + 1]
        /\ \A j \in 1..n : j = 1 \/ (j - 1 \in 1..(n - 1) /\ (j - 1) + 1 = j)
        /\ \A u \in Tabs \ {t} : taking'[u] = taking[u]
  <2>1. taking' = [taking EXCEPT ![t] = IF FALSE THEN AllLate(Tail(@)) ELSE Tail(@)]
    OBVIOUS
  <2> QED
    BY <2>1, HeadGone
<1>2. /\ Edits' = Edits /\ Edits \subseteq 1..MaxEdits
      /\ \A e : By(e)' = By(e) /\ How(e)' = How(e)
  BY EditorsAreTabs DEF Edits, By, How
<1>3. StoreKnown' /\ Frame(t)
  <2>1. \A e \in 1..MaxEdits : e \notin Edits \/ By(e) # t => lost'[e] = lost[e]
    BY LosesOwn
  <2> QED
    BY <2>1, Settles
<1>4. /\ \A i \in Live(t)' : i \in 1..(n - 1) /\ i + 1 \in Live(t)
      /\ \A i \in Ords(t)' : i \in 1..(n - 1) /\ i + 1 \in Ords(t)
  BY <1>1, HeadSets
<1>5. TabKnown(t)'
  <2>1. \A j \in 1..n : taking[t][j].seen \subseteq Edits /\ taking[t][j].image \in Edits \cup {0}
    BY <1>1 DEF TabInv, TabKnown
  <2>2. \A i \in 1..(n - 1) : taking'[t][i].seen \subseteq Edits /\ taking'[t][i].image \in Edits \cup {0}
    BY <1>1, <2>1
  <2>3. screen'[t] \subseteq Edits
    BY DEF TabInv, TabKnown
  <2> QED
    BY <1>1, <1>2, <2>2, <2>3 DEF TabKnown
<1>6. Closes(t)'
  BY <1>4 DEF TabInv, Closes
<1>7. Images(t)'
  <2>1. \A i \in 1..(n - 1) : taking'[t][i].image # 0 =>
          By(taking'[t][i].image) = t /\ How(taking'[t][i].image) = "picture"
    BY <1>1 DEF TabInv, Images
  <2>2. \A e \in screen[t] : By(e) = t /\ How(e) = "picture" => e \in sent' \/ Painted(t, e)'
    BY DEF TabInv, Images, TabKnown
  <2> QED
    BY <1>1, <1>2, <2>1, <2>2 DEF Images
<1>8. SizesStay(t)'
  <2>1. \A i \in Ords(t)' : \E j \in Ords(t) : taking'[t][i].seen = taking[t][j].seen
    BY <1>1, <1>4
  <2>2. \A e \in screen'[t] : By(e) = t /\ How(e) = "resize" => e \in screen[t] \/ e \in sent'
    OBVIOUS
  <2> QED
    BY <2>1, <2>2, SizesStayOwed
<1>9. Accounted(t)'
  <2>1. ASSUME NEW e \in Edits, By(e) = t, Snapped(t, e)
        PROVE  e \in sent' \/ Snapped(t, e)' \/ Painted(t, e)' \/ GivenUp(e)'
    <3>1. PICK j \in 1..n : IF taking[t][j].image = 0 THEN e \in taking[t][j].seen ELSE e = taking[t][j].image
      BY <1>1, <2>1 DEF Snapped
    <3>2. CASE j = 1
      BY <1>1, <2>1, <3>1, <3>2
    <3>3. CASE j # 1
      <4>1. PICK i \in 1..(n - 1) : taking'[t][i] = taking[t][j]
        BY <1>1, <3>3
      <4> QED
        BY <1>1, <3>1, <4>1 DEF Snapped
    <3> QED
      BY <3>2, <3>3
  <2>2. /\ dirty[t] => dirty'[t]
        /\ timer[t] => timer'[t]
    OBVIOUS
  <2>3. \A e \in Edits : By(e) = t /\ Painted(t, e) => e \in sent' \/ Painted(t, e)'
    OBVIOUS
  <2>4. "undone" \in {"undone", "replaced"} /\ "undone" # "replaced"
    OBVIOUS
  <2> QED
    BY <2>1, <2>2, <2>3, <2>4, StaysOwed
<1>10. Same(t)'
  <2>1. \A i \in Fresh(t)' : i \in Int /\ i + 1 \in Fresh(t) /\ taking'[t][i] = taking[t][i + 1]
    BY <1>1, <1>4 DEF Fresh
  <2>2. \A i, j \in Fresh(t)' : i < j => i + 1 < j + 1
    BY <2>1
  <2>3. \A i \in Fresh(t)' :
          /\ \A e \in Edits : By(e) # t /\ How(e) # "resize" =>
               (e \in taking'[t][i].seen <=> e \in screen[t])
          /\ Within(taking'[t][i].seen, screen[t])
          /\ \A j \in Fresh(t)' : i < j => Within(taking'[t][i].seen, taking'[t][j].seen)
    BY <2>1, <2>2 DEF TabInv, Same
  <2>4. \A k \in FreshDocs(t)' :
          /\ Within(drawing'[t][k].doc.edits, screen[t])
          /\ \A i \in Fresh(t)' : Within(drawing'[t][k].doc.edits, taking'[t][i].seen)
    BY <2>1 DEF TabInv, Same
  <2>5. \A k, l \in FreshDocs(t)' : k = l
    BY DEF TabInv, Same
  <2> QED
    BY <1>2, <2>3, <2>4, <2>5 DEF Same, Within
<1> QED
  BY <1>3, <1>5, <1>6, <1>7, <1>8, <1>9, <1>10

\* The screen stays idle, or not, when the snapshot was not to save it.
LEMMA HeadIdles ==
  ASSUME TypeOK, NEW t \in Tabs, TabInv(t), taking[t] # <<>>,
         taking' = [taking EXCEPT ![t] = Tail(@)],
         UNCHANGED <<made, screen, file, last, parted>>,
         UNCHANGED open, UNCHANGED dirty, UNCHANGED timer,
         ~Head(taking[t]).live \/ Head(taking[t]).image # 0,
         LiveDocs(t)' = {} => LiveDocs(t) = {},
         \A k \in FreshDocs(t)' : k \in FreshDocs(t) /\ drawing'[t][k].doc = drawing[t][k].doc
  PROVE  Idles(t)'
<1>1. PICK n \in Nat :
        /\ 1 <= n /\ DOMAIN taking[t] = 1..n /\ DOMAIN taking'[t] = 1..(n - 1)
        /\ Head(taking[t]) = taking[t][1]
        /\ \A i \in 1..(n - 1) : i + 1 \in 1..n /\ taking'[t][i] = taking[t][i + 1]
        /\ \A j \in 1..n : j = 1 \/ (j - 1 \in 1..(n - 1) /\ (j - 1) + 1 = j)
  <2>1. taking' = [taking EXCEPT ![t] = IF FALSE THEN AllLate(Tail(@)) ELSE Tail(@)]
    OBVIOUS
  <2>2. \E n \in Nat :
          /\ 1 <= n /\ DOMAIN taking[t] = 1..n /\ DOMAIN taking'[t] = 1..(n - 1)
          /\ Head(taking[t]) = taking[t][1] /\ Head(taking[t]) \in Snapshots
          /\ \A i \in 1..(n - 1) : i + 1 \in 1..n /\ taking'[t][i] = taking[t][i + 1]
          /\ \A j \in 1..n : j = 1 \/ (j - 1 \in 1..(n - 1) /\ (j - 1) + 1 = j)
          /\ \A u \in Tabs \ {t} : taking'[u] = taking[u]
    BY <2>1, HeadGone
  <2> QED
    BY <2>2
<1>2. 1 \notin Ords(t)
  BY <1>1 DEF Ords, Live
<1>3. /\ \A i \in Live(t)' : i \in 1..(n - 1) /\ i + 1 \in Live(t)
      /\ \A i \in Ords(t)' : i \in 1..(n - 1) /\ i + 1 \in Ords(t)
      /\ \A j \in Ords(t) : j \in 1..n /\ j - 1 \in Ords(t)'
  BY <1>1, <1>2, HeadSets
<1>4. Ords(t)' = {} => Ords(t) = {}
  BY <1>3
<1>5. ASSUME NEW i \in Fresh(t)' \cap Ords(t)', \A j \in Ords(t)' : j <= i
      PROVE  /\ i + 1 \in Fresh(t) \cap Ords(t) /\ taking'[t][i] = taking[t][i + 1]
             /\ \A j \in Ords(t) : j <= i + 1
  <2>1. i \in 1..(n - 1) /\ i + 1 \in Ords(t) /\ taking'[t][i] = taking[t][i + 1]
    BY <1>1, <1>3, <1>5
  <2>2. i + 1 \in Fresh(t)
    BY <1>1, <1>3, <1>5, <2>1 DEF Fresh
  <2>3. \A j \in Ords(t) : j \in 1..n /\ j - 1 <= i
    BY <1>3, <1>5
  <2> QED
    BY <1>1, <2>1, <2>2, <2>3
<1>6. \A r : Within(screen[t], r)' <=> Within(screen[t], r)
  BY DEF Within, How
<1>7. SUFFICES ASSUME open[t], parted[t] = {}, ~dirty[t]
               PROVE  /\ ~timer[t] /\ Ords(t)' = {} /\ LiveDocs(t)' = {} =>
                           screen[t] = last[t].edits /\ (file[t] = Empty \/ screen[t] = file[t].edits)
                      /\ ~timer[t] /\ Ords(t)' = {} =>
                           \A k \in FreshDocs(t)' : screen[t] = drawing'[t][k].doc.edits
                      /\ \A i \in Fresh(t)' \cap Ords(t)' :
                           (\A j \in Ords(t)' : j <= i) => Within(screen[t], taking'[t][i].seen)
  BY DEF Idles, Within, How
<1> QED
  BY <1>4, <1>5, <1>7 DEF TabInv, Idles

\* A snapshot settles, and is sent.
LEMMA SaveKeeps ==
  ASSUME TypeOK, StoreKnown, NEW t \in Tabs, TabInv(t), Save(t)
  PROVE  Keeps(t)
<1> DEFINE s == Head(taking[t])
           doc == Snapshot(t, s)
<1>1. /\ taking[t] # <<>> /\ s.image = 0
      /\ taking' = [taking EXCEPT ![t] = Tail(@)]
      /\ UNCHANGED <<made, rows, screen, lost>>
      /\ UNCHANGED open
      /\ UNCHANGED dirty
      /\ UNCHANGED timer
  BY DEF Save
<1>2. PICK n \in Nat :
        /\ 1 <= n /\ DOMAIN taking[t] = 1..n /\ DOMAIN taking'[t] = 1..(n - 1)
        /\ s = taking[t][1] /\ s \in Snapshots
        /\ \A i \in 1..(n - 1) : i + 1 \in 1..n /\ taking'[t][i] = taking[t][i + 1]
        /\ \A j \in 1..n : j = 1 \/ (j - 1 \in 1..(n - 1) /\ (j - 1) + 1 = j)
        /\ \A u \in Tabs \ {t} : taking'[u] = taking[u]
  <2>1. taking' = [taking EXCEPT ![t] = IF FALSE THEN AllLate(Tail(@)) ELSE Tail(@)]
    BY <1>1
  <2>2. \E n \in Nat :
        /\ 1 <= n /\ DOMAIN taking[t] = 1..n /\ DOMAIN taking'[t] = 1..(n - 1)
        /\ s = taking[t][1] /\ s \in Snapshots
        /\ \A i \in 1..(n - 1) : i + 1 \in 1..n /\ taking'[t][i] = taking[t][i + 1]
        /\ \A j \in 1..n : j = 1 \/ (j - 1 \in 1..(n - 1) /\ (j - 1) + 1 = j)
        /\ \A u \in Tabs \ {t} : taking'[u] = taking[u]
    BY <1>1, <2>1, HeadGone
  <2> QED
    BY <2>2
<1>3. /\ \A e \in s.seen : How(e) # "resize" => e \in doc.edits
      /\ s.live => \A e \in screen[t] : How(e) = "resize" => e \in doc.edits
      /\ ~s.live => s.seen \subseteq doc.edits
      /\ \A e \in doc.edits :
           \/ e \in s.seen /\ (How(e) # "resize" \/ ~s.live)
           \/ e \in screen[t] /\ How(e) = "resize" /\ s.live
  BY <1>1, SnapshotHolds
<1>4. /\ s.seen \subseteq Edits /\ screen[t] \subseteq Edits
      /\ sent \subseteq Edits /\ \A i \in DOMAIN hist[t] : hist[t][i].edits \subseteq sent
      /\ Edits \subseteq 1..MaxEdits /\ Edits' = Edits
      /\ file[t].edits \subseteq sent /\ last[t].edits \subseteq sent
      /\ \A k \in DOMAIN drawing[t] : drawing[t][k].doc.edits \subseteq Edits
      /\ \A e : By(e)' = By(e) /\ How(e)' = How(e)
  BY <1>1, <1>2, EditorsAreTabs DEF TabInv, TabKnown, StoreKnown, Edits, By, How
<1>5. doc \in Docs
  BY <1>2, SnapshotDoc DEF TypeOK
<1>6. s.live => 1 \in Ords(t) /\ open[t]
  BY <1>1, <1>2 DEF Live, Ords, TabInv, Closes
<1> HIDE DEF doc
<1>7. doc.edits \subseteq Edits
  BY <1>3, <1>4
    \* A live snapshot becomes the page's copy, and the last entry of the stack.
<1>8. ASSUME s.live
      PROVE  /\ sent' = sent \cup doc.edits /\ \A m \in net' : m \in net \/ m.doc = doc
             /\ file'[t] = doc /\ last'[t] = doc
             /\ \A i \in DOMAIN hist'[t] : hist'[t][i] = doc \/ \E j \in DOMAIN hist[t] : hist'[t][i] = hist[t][j]
             /\ mixed'[t] = (mixed[t] \/ s.late)
             /\ drawing'[t] = AllLate(drawing[t])
             /\ parted'[t] = IF s.late THEN parted[t] \cup {"late"}
                             ELSE IF doc.edits = screen[t] THEN {} ELSE parted[t]
             /\ OthersSame(t)
  <2>1. /\ Send(t, doc, FALSE)
        /\ last' = [last EXCEPT ![t] = doc]
        /\ hist' = [hist EXCEPT ![t] = Latest(Append(SubSeq(@, 1, at[t]), doc), MaxHistory)]
        /\ mixed' = [mixed EXCEPT ![t] = @ \/ s.late]
        /\ drawing' = [drawing EXCEPT ![t] = AllLate(@)]
        /\ parted' = [parted EXCEPT ![t] = IF s.late THEN @ \cup {"late"}
                                       ELSE IF doc.edits = screen[t] THEN {} ELSE @]
    BY <1>8 DEF Save, doc
  <2>2. /\ last'[t] = doc /\ drawing'[t] = AllLate(drawing[t])
        /\ parted'[t] = IF s.late THEN parted[t] \cup {"late"}
                        ELSE IF doc.edits = screen[t] THEN {} ELSE parted[t]
        /\ \A u \in Tabs \ {t} : /\ last'[u] = last[u] /\ hist'[u] = hist[u]
                                 /\ parted'[u] = parted[u] /\ drawing'[u] = drawing[u]
    BY <2>1 DEF TypeOK, SharedTypeOK, EditorTypeOK
  <2>3. mixed'[t] = (mixed[t] \/ s.late)
    BY <2>1 DEF TypeOK, EditorTypeOK
  <2>4. \A u \in Tabs \ {t} : mixed'[u] = mixed[u]
    BY <2>1 DEF TypeOK, EditorTypeOK
  <2>5. \A i \in DOMAIN hist'[t] : hist'[t][i] = doc \/ \E j \in DOMAIN hist[t] : hist'[t][i] = hist[t][j]
    <3> DEFINE h == Latest(Append(SubSeq(hist[t], 1, at[t]), doc), MaxHistory)
    <3>1. \A i \in DOMAIN h : h[i] = doc \/ \E j \in DOMAIN hist[t] : h[i] = hist[t][j]
      BY <1>5, HistoryTypes DEF TypeOK
    <3> HIDE DEF h
    <3>2. hist'[t] = h
      BY <2>1 DEF h, TypeOK, EditorTypeOK
    <3> QED
      BY <3>1, <3>2
  <2>6. /\ sent' = sent \cup doc.edits
        /\ \A m \in net' : m \in net \/ m.doc = doc
        /\ file'[t] = doc /\ \A u \in Tabs \ {t} : file'[u] = file[u]
    BY <2>1, SendFacts
  <2>7. OthersSame(t)
    BY <1>1, <1>2, <2>2, <2>4, <2>6 DEF OthersSame
  <2> QED
    BY <2>2, <2>3, <2>5, <2>6, <2>7
    \* One of a panel that has left is sent as it is.
<1>9. ASSUME ~s.live
      PROVE  /\ sent' = sent \cup doc.edits /\ \A m \in net' : m \in net \/ m.doc = doc
             /\ UNCHANGED <<file, last, hist, drawing, parted>>
             /\ UNCHANGED mixed
             /\ OthersSame(t)
  <2>1. /\ net' = net \cup {[tab |-> t, doc |-> doc, waits |-> FALSE]}
        /\ sent' = sent \cup doc.edits
        /\ UNCHANGED <<file, last, hist, drawing, parted>>
        /\ UNCHANGED mixed
    BY <1>9 DEF Save, doc
  <2>2. OthersSame(t)
    BY <1>1, <1>2, <2>1 DEF OthersSame
  <2> QED
    BY <2>1, <2>2
<1>10. sent' = sent \cup doc.edits /\ \A m \in net' : m \in net \/ m.doc = doc
  BY <1>8, <1>9
<1>11. sent \subseteq sent' /\ sent' \subseteq Edits /\ \A m \in net' : m.doc.edits \subseteq sent'
  BY <1>4, <1>7, <1>10 DEF StoreKnown
<1>12. Loses(t, screen'[t], "undone")
  <2>1. PICK shown : shown = screen'[t]
    OBVIOUS
  <2>2. \A e \in 1..MaxEdits : lost'[e] = Dropped(t, shown, "undone")[e]
    BY <1>1, <2>1, DropFacts
  <2> QED
    BY <2>1, <2>2 DEF Loses
<1>13. file'[t].edits \subseteq sent' /\ last'[t].edits \subseteq sent'
  BY <1>4, <1>8, <1>9, <1>10
<1>14. \A i \in DOMAIN hist'[t] : hist'[t][i].edits \subseteq sent'
  <2>1. CASE s.live
    BY <1>4, <1>8, <1>10, <2>1
  <2>2. CASE ~s.live
    BY <1>4, <1>9, <1>10, <2>2
  <2> QED
    BY <2>1, <2>2
<1>15. \A e \in s.seen : By(e) = t => e \in sent' \/ GivenUp(e)'
  <2>1. \A e \in s.seen : By(e) = t /\ How(e) = "resize" /\ s.live =>
          e \in sent \/ e \in screen[t] \/ lost[e] \in {"undone", "swept", "failed"}
    BY <1>2, <1>6 DEF TabInv, SizesStay
  <2> QED
    BY <1>1, <1>3, <1>4, <1>10, <2>1 DEF GivenUp
<1>16. /\ DOMAIN drawing'[t] = DOMAIN drawing[t]
       /\ \A k \in DOMAIN drawing[t] : /\ drawing'[t][k].doc = drawing[t][k].doc
                                       /\ drawing'[t][k].live = drawing[t][k].live
                                       /\ s.live => drawing'[t][k].late
                                       /\ ~s.live => drawing'[t][k] = drawing[t][k]
  <2>1. CASE s.live
    <3>1. drawing[t] \in Seq(Drawings)
      BY TakingSeq
    <3>2. /\ DOMAIN AllLate(drawing[t]) = DOMAIN drawing[t]
          /\ \A k \in DOMAIN drawing[t] : /\ AllLate(drawing[t])[k].doc = drawing[t][k].doc
                                          /\ AllLate(drawing[t])[k].live = drawing[t][k].live
                                          /\ AllLate(drawing[t])[k].late
      BY <3>1, AllLateFacts
    <3> QED
      BY <1>8, <2>1, <3>2
  <2>2. CASE ~s.live
    BY <1>9, <2>2
  <2> QED
    BY <2>1, <2>2
<1>17. /\ LiveDocs(t)' = LiveDocs(t)
       /\ s.live => FreshDocs(t)' = {}
       /\ ~s.live => FreshDocs(t)' = FreshDocs(t)
  BY <1>16 DEF LiveDocs, FreshDocs
<1>18. /\ \A k \in DOMAIN drawing'[t] : drawing'[t][k].doc.edits \subseteq Edits
       /\ \A e \in Edits : Painted(t, e) => Painted(t, e)'
       /\ LiveDocs(t)' # {} => LiveDocs(t) # {}
       /\ \A k \in FreshDocs(t)' : k \in FreshDocs(t) /\ drawing'[t][k].doc = drawing[t][k].doc
  <2>1. \A e \in Edits : Painted(t, e) => Painted(t, e)'
    BY <1>16 DEF Painted
  <2>2. FreshDocs(t) \subseteq DOMAIN drawing[t]
    BY LiveSets
  <2> QED
    BY <1>4, <1>16, <1>17, <2>1, <2>2
<1>19. /\ StoreKnown' /\ Frame(t) /\ TabKnown(t)' /\ Closes(t)' /\ Images(t)' /\ SizesStay(t)'
       /\ Accounted(t)' /\ Same(t)'
  <2>1. \A e \in Edits : By(e) = t /\ (IF s.image = 0 THEN e \in s.seen ELSE e = s.image) =>
           e \in sent' \/ Painted(t, e)' \/ GivenUp(e)'
    BY <1>1, <1>15
  <2>2. OthersSame(t)
    BY <1>8, <1>9
  <2> QED
    BY <1>1, <1>11, <1>12, <1>13, <1>14, <1>18, <2>1, <2>2, HeadLeaves
<1>20. CASE ~s.live
  <2>1. Stacked(t)'
    BY <1>1, <1>4, <1>9, <1>20 DEF TabInv, Stacked, Agree
  <2>2. Idles(t)'
    BY <1>1, <1>9, <1>17, <1>18, <1>20, HeadIdles
  <2> QED
    BY <1>19, <2>1, <2>2 DEF Keeps, TabInv
<1>21. CASE s.live
  <2>1. ASSUME ~s.late
        PROVE  /\ 1 \in Fresh(t)
               /\ doc.edits \subseteq screen[t]
               /\ \A e \in Edits : By(e) # t => (e \in doc.edits <=> e \in screen[t])
    <3>1. 1 \in Fresh(t)
      BY <1>2, <1>6, <1>21, <2>1 DEF Fresh, Ords
    <3>2. /\ \A e \in Edits : By(e) # t /\ How(e) # "resize" => (e \in s.seen <=> e \in screen[t])
          /\ \A e \in s.seen : How(e) # "resize" => e \in screen[t]
      BY <1>2, <3>1 DEF TabInv, Same, Within
    <3>3. doc.edits \subseteq screen[t]
      BY <1>3, <1>21, <3>2
    <3> QED
      BY <1>3, <1>21, <3>1, <3>2, <3>3
  <2>2. Stacked(t)'
    <3>1. ASSUME ~mixed'[t] PROVE ~mixed[t] /\ ~s.late
      BY <1>8, <1>21, <3>1, Zenon
    <3>2. ASSUME ~mixed'[t], NEW i \in DOMAIN hist'[t], NEW e \in Edits, By(e) # t
          PROVE  e \in hist'[t][i].edits <=> e \in screen[t]
      <4>1. CASE hist'[t][i] = doc
        BY <2>1, <3>1, <3>2, <4>1
      <4>2. CASE \E j \in DOMAIN hist[t] : hist'[t][i] = hist[t][j]
        BY <1>6, <1>21, <3>1, <3>2, <4>2 DEF TabInv, Stacked, Agree
      <4> QED
        BY <1>8, <1>21, <3>2, <4>1, <4>2
    <3> QED
      BY <1>1, <1>4, <3>2 DEF Stacked, Agree
  <2>3. /\ \A i \in Ords(t)' : i \in 1..(n - 1) /\ i + 1 \in Ords(t)
        /\ \A j \in Ords(t) : j \in 1..n /\ (j = 1 \/ j - 1 \in Ords(t)')
    BY <1>2, HeadSets
  <2>4. \A r : Within(screen[t], r)' <=> Within(screen[t], r)
    BY <1>1, <1>4 DEF Within
  <2>5. SUFFICES ASSUME parted'[t] = {}, ~dirty[t]
                 PROVE  /\ Ords(t)' = {} /\ ~timer[t] /\ LiveDocs(t)' = {} => doc.edits = screen[t]
                        /\ \A i \in Fresh(t)' \cap Ords(t)' :
                             (\A j \in Ords(t)' : j <= i) => Within(screen[t], taking'[t][i].seen)
    <3>1. Idles(t)'
      BY <1>1, <1>4, <1>8, <1>17, <1>21, <2>5 DEF Idles, Within
    <3> QED
      BY <1>19, <2>2, <3>1 DEF Keeps, TabInv
  <2>6. ~s.late /\ (doc.edits = screen[t] \/ parted[t] = {})
    BY <1>8, <1>21, <2>5
  <2>7. ASSUME Ords(t)' = {}, parted[t] = {} PROVE doc.edits = screen[t]
    <3>1. \A j \in Ords(t) : j <= 1
      BY <2>3, <2>7
    <3>2. Within(screen[t], s.seen)
      BY <1>2, <1>6, <1>21, <2>1, <2>5, <2>6, <2>7, <3>1 DEF TabInv, Idles
    <3> QED
      BY <1>3, <1>21, <2>1, <2>6, <3>2 DEF Within
  <2>8. ASSUME NEW i \in Fresh(t)' \cap Ords(t)', \A j \in Ords(t)' : j <= i
        PROVE  Within(screen[t], taking'[t][i].seen)
    <3>1. i \in 1..(n - 1) /\ i + 1 \in Ords(t) /\ taking'[t][i] = taking[t][i + 1] /\ 1 < i + 1
      BY <1>2, <2>3, <2>8
    <3>2. i + 1 \in Fresh(t)
      BY <1>2, <2>8, <3>1 DEF Fresh, Ords
    <3>3. CASE parted[t] = {}
      <4>1. \A j \in Ords(t) : j \in 1..n /\ (j = 1 \/ j - 1 <= i)
        BY <2>3, <2>8
      <4>2. \A j \in Ords(t) : j <= i + 1
        BY <1>2, <3>1, <4>1
      <4>3. Within(screen[t], taking[t][i + 1].seen)
        BY <1>6, <1>21, <2>5, <3>1, <3>2, <3>3, <4>2 DEF TabInv, Idles
      <4> QED
        BY <3>1, <4>3
    <3>4. CASE doc.edits = screen[t]
      <4>1. \A e \in screen[t] : How(e) # "resize" => e \in s.seen
        BY <1>3, <1>21, <3>4
      <4>2. Within(s.seen, taking[t][i + 1].seen)
        BY <1>2, <2>1, <2>6, <3>1, <3>2 DEF TabInv, Same
      <4> QED
        BY <3>1, <4>1, <4>2 DEF Within
    <3> QED
      BY <2>6, <3>3, <3>4
  <2> QED
    BY <2>6, <2>7, <2>8
<1> QED
  BY <1>20, <1>21

\* A snapshot fails: it is nothing to anybody but the edits it would have saved.
LEMMA SnapshotFailsKeeps ==
  ASSUME TypeOK, StoreKnown, NEW t \in Tabs, TabInv(t), SnapshotFails(t)
  PROVE  Keeps(t)
<1> DEFINE s == Head(taking[t])
           own == {e \in s.seen : By(e) = t}
<1>1. /\ taking[t] # <<>>
      /\ taking' = [taking EXCEPT ![t] = Tail(@)]
      /\ lost' = [e \in 1..MaxEdits |->
           IF e \in (IF s.image = 0 THEN own \ sent ELSE {s.image}) THEN "failed" ELSE lost[e]]
      /\ parted' = [parted EXCEPT ![t] = IF s.live /\ s.image = 0 THEN @ \cup {"failed"} ELSE @]
      /\ UNCHANGED <<made, rows, net, file, screen, last, sent, drawing, hist>>
      /\ UNCHANGED open
      /\ UNCHANGED dirty
      /\ UNCHANGED timer
      /\ UNCHANGED mixed
  BY DEF SnapshotFails
<1>2. s = taking[t][1] /\ 1 \in DOMAIN taking[t] /\ s \in Snapshots
  BY <1>1, TakingSeq
<1>3. /\ s.seen \subseteq Edits /\ screen[t] \subseteq Edits /\ s.image \in Edits \cup {0}
      /\ s.image # 0 => By(s.image) = t /\ How(s.image) = "picture"
      /\ sent \subseteq Edits /\ \A i \in DOMAIN hist[t] : hist[t][i].edits \subseteq sent
      /\ Edits \subseteq 1..MaxEdits /\ Edits' = Edits
      /\ file[t].edits \subseteq sent /\ last[t].edits \subseteq sent
      /\ \A k \in DOMAIN drawing[t] : drawing[t][k].doc.edits \subseteq Edits
      /\ \A e : By(e)' = By(e) /\ How(e)' = How(e)
      /\ \A e \in Edits : How(e) \in {"type", "resize", "picture"}
  BY <1>1, <1>2, EditorsAreTabs DEF TabInv, TabKnown, Images, StoreKnown, Edits, By, How
<1>4. /\ parted'[t] = IF s.live /\ s.image = 0 THEN parted[t] \cup {"failed"} ELSE parted[t]
      /\ \A u \in Tabs \ {t} : parted'[u] = parted[u] /\ taking'[u] = taking[u]
  BY <1>1 DEF TypeOK, EditorTypeOK
<1>5. OthersSame(t)
  BY <1>1, <1>4 DEF OthersSame
<1>6. \A e \in Edits : e \in (IF s.image = 0 THEN own \ sent ELSE {s.image}) =>
        lost'[e] = "failed" /\ GivenUp(e)'
  BY <1>1, <1>3 DEF GivenUp
<1>7. Loses(t, screen'[t], "undone")
  <2>1. PICK shown : shown = screen'[t]
    OBVIOUS
  <2>2. ASSUME NEW e \in 1..MaxEdits
        PROVE  \/ lost'[e] = Dropped(t, shown, "undone")[e]
               \/ e \in Edits /\ By(e) = t /\ GivenUp(e)' /\ (How(e) = "resize" => lost'[e] = "failed")
    <3>1. CASE e \in (IF s.image = 0 THEN own \ sent ELSE {s.image})
      <4>1. e \in Edits /\ By(e) = t
        BY <1>3, <2>2, <3>1
      <4> QED
        BY <1>6, <3>1, <4>1
    <3>2. CASE e \notin (IF s.image = 0 THEN own \ sent ELSE {s.image})
      <4>1. lost'[e] = lost[e]
        BY <1>1, <3>2
      <4> QED
        BY <1>1, <2>1, <4>1, DropFacts
    <3> QED
      BY <3>1, <3>2
  <2> QED
    BY <2>1, <2>2 DEF Loses
<1>8. \A e \in Edits : By(e) = t /\ (IF s.image = 0 THEN e \in s.seen ELSE e = s.image) =>
        e \in sent' \/ Painted(t, e)' \/ GivenUp(e)'
  BY <1>1, <1>6
<1>9. /\ LiveDocs(t)' = LiveDocs(t) /\ FreshDocs(t)' = FreshDocs(t)
      /\ \A e : Painted(t, e)' = Painted(t, e)
  BY <1>1, LiveSets DEF Painted
<1>10. /\ StoreKnown' /\ Frame(t) /\ TabKnown(t)' /\ Closes(t)' /\ Images(t)' /\ SizesStay(t)'
       /\ Accounted(t)' /\ Same(t)'
  <2>1. sent \subseteq sent' /\ sent' \subseteq Edits /\ \A m \in net' : m.doc.edits \subseteq sent'
    BY <1>1, <1>3 DEF StoreKnown
  <2>2. /\ file'[t].edits \subseteq sent' /\ last'[t].edits \subseteq sent'
        /\ \A i \in DOMAIN hist'[t] : hist'[t][i].edits \subseteq sent'
        /\ \A k \in DOMAIN drawing'[t] : drawing'[t][k].doc.edits \subseteq Edits
        /\ \A e \in Edits : Painted(t, e) => Painted(t, e)'
        /\ LiveDocs(t)' # {} => LiveDocs(t) # {}
        /\ \A k \in FreshDocs(t)' : k \in FreshDocs(t) /\ drawing'[t][k].doc = drawing[t][k].doc
    BY <1>1, <1>3, <1>9
  <2> QED
    BY <1>1, <1>5, <1>7, <1>8, <2>1, <2>2, HeadLeaves
<1>11. Stacked(t)'
  BY <1>1, <1>3 DEF TabInv, Stacked, Agree
<1>12. Idles(t)'
  <2>1. CASE s.live /\ s.image = 0
    <3>1. parted'[t] # {}
      BY <1>4, <2>1
    <3> QED
      BY <3>1 DEF Idles
  <2>2. CASE ~(s.live /\ s.image = 0)
    <3>1. parted' = parted
      BY <1>1, <2>2 DEF TypeOK, EditorTypeOK
    <3> QED
      BY <1>1, <1>9, <2>2, <3>1, HeadIdles
  <2> QED
    BY <2>1, <2>2
<1> QED
  BY <1>10, <1>11, <1>12 DEF Keeps, TabInv

\* An edited image cannot be drawn.
LEMMA ImageUndrawnKeeps ==
  ASSUME TypeOK, StoreKnown, NEW t \in Tabs, TabInv(t), ImageUndrawn(t)
  PROVE  Keeps(t)
<1> DEFINE s == Head(taking[t])
<1>1. /\ taking[t] # <<>> /\ s.image # 0
      /\ taking' = [taking EXCEPT ![t] = Tail(@)]
      /\ lost' = [lost EXCEPT ![s.image] = "undrawn"]
      /\ UNCHANGED <<made, rows, net, file, screen, last, sent, drawing, hist, parted>>
      /\ UNCHANGED open
      /\ UNCHANGED dirty
      /\ UNCHANGED timer
      /\ UNCHANGED mixed
  BY DEF ImageUndrawn
<1>2. s = taking[t][1] /\ 1 \in DOMAIN taking[t] /\ s \in Snapshots
  BY <1>1, TakingSeq
<1>3. /\ s.image \in Edits /\ By(s.image) = t /\ How(s.image) = "picture"
      /\ sent \subseteq Edits /\ \A i \in DOMAIN hist[t] : hist[t][i].edits \subseteq sent
      /\ Edits \subseteq 1..MaxEdits /\ Edits' = Edits
      /\ file[t].edits \subseteq sent /\ last[t].edits \subseteq sent
      /\ \A k \in DOMAIN drawing[t] : drawing[t][k].doc.edits \subseteq Edits
      /\ \A e : By(e)' = By(e) /\ How(e)' = How(e)
  BY <1>1, <1>2, EditorsAreTabs DEF TabInv, TabKnown, Images, StoreKnown, Edits, By, How
<1>4. /\ lost'[s.image] = "undrawn" /\ \A e \in 1..MaxEdits : e # s.image => lost'[e] = lost[e]
      /\ \A u \in Tabs \ {t} : taking'[u] = taking[u]
  BY <1>1, <1>3 DEF TypeOK, EditorTypeOK
<1>5. OthersSame(t)
  BY <1>1, <1>4 DEF OthersSame
<1>6. \A e \in Edits : e = s.image => GivenUp(e)' /\ By(e) = t
  BY <1>3, <1>4 DEF GivenUp
<1>7. Loses(t, screen'[t], "undone")
  <2>1. PICK shown : shown = screen'[t]
    OBVIOUS
  <2>2. \A e \in 1..MaxEdits : e # s.image => lost'[e] = Dropped(t, shown, "undone")[e]
    BY <1>1, <1>4, <2>1, DropFacts
  <2>3. How(s.image) # "resize"
    BY <1>3
  <2>4. ASSUME NEW e \in 1..MaxEdits, e = s.image
        PROVE  e \in Edits /\ By(e) = t /\ GivenUp(e)' /\ How(e) # "resize"
    BY <1>3, <1>6, <2>3, <2>4
  <2> QED
    BY <2>1, <2>2, <2>4 DEF Loses
<1>8. \A e \in Edits : By(e) = t /\ (IF s.image = 0 THEN e \in s.seen ELSE e = s.image) =>
        e \in sent' \/ Painted(t, e)' \/ GivenUp(e)'
  BY <1>1, <1>6
<1>9. /\ LiveDocs(t)' = LiveDocs(t) /\ FreshDocs(t)' = FreshDocs(t)
      /\ \A e : Painted(t, e)' = Painted(t, e)
  BY <1>1, LiveSets DEF Painted
<1>10. /\ StoreKnown' /\ Frame(t) /\ TabKnown(t)' /\ Closes(t)' /\ Images(t)' /\ SizesStay(t)'
       /\ Accounted(t)' /\ Same(t)'
  <2>1. sent \subseteq sent' /\ sent' \subseteq Edits /\ \A m \in net' : m.doc.edits \subseteq sent'
    BY <1>1, <1>3 DEF StoreKnown
  <2>2. /\ file'[t].edits \subseteq sent' /\ last'[t].edits \subseteq sent'
        /\ \A i \in DOMAIN hist'[t] : hist'[t][i].edits \subseteq sent'
        /\ \A k \in DOMAIN drawing'[t] : drawing'[t][k].doc.edits \subseteq Edits
        /\ \A e \in Edits : Painted(t, e) => Painted(t, e)'
        /\ LiveDocs(t)' # {} => LiveDocs(t) # {}
        /\ \A k \in FreshDocs(t)' : k \in FreshDocs(t) /\ drawing'[t][k].doc = drawing[t][k].doc
    BY <1>1, <1>3, <1>9
  <2> QED
    BY <1>1, <1>5, <1>7, <1>8, <2>1, <2>2, HeadLeaves
<1>11. Stacked(t)'
  BY <1>1, <1>3 DEF TabInv, Stacked, Agree
<1>12. Idles(t)'
  BY <1>1, <1>9, HeadIdles
<1> QED
  BY <1>10, <1>11, <1>12 DEF Keeps, TabInv

\* The edited image's document is on the screen, and being drawn; without its
\* block the edit is gone.
LEMMA DrawImageKeeps ==
  ASSUME TypeOK, StoreKnown, NEW t \in Tabs, TabInv(t), DrawImage(t)
  PROVE  Keeps(t)
<1> DEFINE s == Head(taking[t])
<1>1. PICK there \in BOOLEAN :
        LET doc == Snapshot(t, IF there THEN s ELSE [s EXCEPT !.image = 0])
            shown == IF s.live THEN doc.edits ELSE screen[t]
        IN /\ taking[t] # <<>> /\ s.image # 0
           /\ screen' = [screen EXCEPT ![t] = shown]
           /\ taking' = [taking EXCEPT ![t] = IF s.live THEN AllLate(Tail(@)) ELSE Tail(@)]
           /\ drawing' = [drawing EXCEPT ![t] = Append(IF s.live THEN AllLate(@) ELSE @,
                                                       [doc |-> doc, live |-> s.live, late |-> FALSE])]
           /\ lost' = LET kept == Dropped(t, shown, "replaced") IN
                        IF there THEN kept ELSE [kept EXCEPT ![s.image] = "gone"]
  BY DEF DrawImage
<1>2. /\ mixed' = [mixed EXCEPT ![t] = @ \/ (s.live /\ s.late)]
      /\ UNCHANGED <<made, rows, net, file, last, sent, hist, parted>>
      /\ UNCHANGED open
      /\ UNCHANGED dirty
      /\ UNCHANGED timer
  BY DEF DrawImage
<1> DEFINE s0 == IF there THEN s ELSE [s EXCEPT !.image = 0]
           doc == Snapshot(t, s0)
           shown == IF s.live THEN doc.edits ELSE screen[t]
           x == [doc |-> doc, live |-> s.live, late |-> FALSE]
<1>3. taking[t] # <<>> /\ s.image # 0
  BY <1>1
<1>4. s = taking[t][1] /\ 1 \in DOMAIN taking[t] /\ s \in Snapshots /\ s.live \in BOOLEAN
  BY <1>3, TakingSeq DEF Snapshots
<1>5. PICK n \in Nat :
         /\ 1 <= n /\ DOMAIN taking[t] = 1..n /\ DOMAIN taking'[t] = 1..(n - 1)
         /\ \A i \in 1..(n - 1) :
              /\ i + 1 \in 1..n
              /\ taking'[t][i].seen = taking[t][i + 1].seen
              /\ taking'[t][i].image = taking[t][i + 1].image
              /\ taking'[t][i].live = taking[t][i + 1].live
              /\ s.live => taking'[t][i].late
         /\ \A j \in 1..n : j = 1 \/ (j - 1 \in 1..(n - 1) /\ (j - 1) + 1 = j)
         /\ \A u \in Tabs \ {t} : taking'[u] = taking[u]
  <2>1. PICK all \in BOOLEAN : all = s.live
    BY <1>4
  <2>2. taking' = [taking EXCEPT ![t] = IF all THEN AllLate(Tail(@)) ELSE Tail(@)]
    BY <1>1, <2>1
  <2>3. PICK n \in Nat :
         /\ 1 <= n /\ DOMAIN taking[t] = 1..n /\ DOMAIN taking'[t] = 1..(n - 1)
         /\ Head(taking[t]) = taking[t][1] /\ Head(taking[t]) \in Snapshots
         /\ \A i \in 1..(n - 1) :
              /\ i + 1 \in 1..n
              /\ taking'[t][i].seen = taking[t][i + 1].seen
              /\ taking'[t][i].image = taking[t][i + 1].image
              /\ taking'[t][i].live = taking[t][i + 1].live
              /\ all => taking'[t][i].late
              /\ ~all => taking'[t][i] = taking[t][i + 1]
         /\ \A j \in 1..n : j = 1 \/ (j - 1 \in 1..(n - 1) /\ (j - 1) + 1 = j)
         /\ \A u \in Tabs \ {t} : taking'[u] = taking[u]
    BY <1>3, <2>2, HeadGone, Zenon
  <2>4. \A i \in 1..(n - 1) : s.live => taking'[t][i].late
    BY <2>1, <2>3
  <2> QED
    BY <2>3, <2>4
<1>6. s0.seen = s.seen /\ s0.live = s.live /\ s0.image = IF there THEN s.image ELSE 0
  BY <1>4 DEF Snapshots
<1>7. /\ \A e \in s.seen : How(e) # "resize" => e \in doc.edits
      /\ s.live => \A e \in screen[t] : How(e) = "resize" => e \in doc.edits
      /\ there => s.image \in doc.edits
      /\ \A e \in doc.edits :
           \/ e \in s.seen /\ (How(e) # "resize" \/ ~s.live)
           \/ e \in screen[t] /\ How(e) = "resize" /\ s.live
           \/ e = s.image
  <2> HIDE DEF s0
  <2>1. /\ \A e \in s0.seen : How(e) # "resize" => e \in doc.edits
        /\ s0.live => \A e \in screen[t] : How(e) = "resize" => e \in doc.edits
        /\ s0.image # 0 => s0.image \in doc.edits
        /\ \A e \in doc.edits :
             \/ e \in s0.seen /\ (How(e) # "resize" \/ ~s0.live)
             \/ e \in screen[t] /\ How(e) = "resize" /\ s0.live
             \/ e = s0.image /\ e # 0
    BY SnapshotHolds
  <2> HIDE DEF doc
  <2> QED
    BY <1>3, <1>6, <2>1
<1>8. /\ s.seen \subseteq Edits /\ screen[t] \subseteq Edits /\ s.image \in Edits
      /\ By(s.image) = t /\ How(s.image) = "picture"
      /\ sent \subseteq Edits /\ \A i \in DOMAIN hist[t] : hist[t][i].edits \subseteq sent
      /\ Edits \subseteq 1..MaxEdits /\ Edits' = Edits
      /\ file[t].edits \subseteq sent /\ last[t].edits \subseteq sent
      /\ \A k \in DOMAIN drawing[t] : drawing[t][k].doc.edits \subseteq Edits
      /\ \A e : By(e)' = By(e) /\ How(e)' = How(e)
  BY <1>2, <1>3, <1>4, EditorsAreTabs DEF TabInv, TabKnown, Images, StoreKnown, Edits, By, How
<1>9. s.live => 1 \in Live(t) /\ open[t]
  BY <1>4 DEF Live, TabInv, Closes
<1>10. doc.edits \subseteq Edits
  BY <1>7, <1>8
<1>11. PICK m \in Nat :
         /\ DOMAIN drawing[t] = 1..m /\ DOMAIN drawing'[t] = 1..(m + 1)
         /\ drawing'[t][m + 1].doc = doc /\ drawing'[t][m + 1].live = s.live
         /\ ~drawing'[t][m + 1].late
         /\ \A k \in 1..m : /\ drawing'[t][k].doc = drawing[t][k].doc
                            /\ drawing'[t][k].live = drawing[t][k].live
                            /\ s.live => drawing'[t][k].late
                            /\ ~s.live => drawing'[t][k] = drawing[t][k]
         /\ \A u \in Tabs \ {t} : drawing'[u] = drawing[u]
  <2> DEFINE old == IF s.live THEN AllLate(drawing[t]) ELSE drawing[t]
             m == Len(drawing[t])
  <2>1. drawing[t] \in Seq(Drawings) /\ m \in Nat /\ DOMAIN drawing[t] = 1..m
    BY TakingSeq
  <2>2. drawing'[t] = Append(old, x) /\ \A u \in Tabs \ {t} : drawing'[u] = drawing[u]
    BY <1>1 DEF TypeOK, EditorTypeOK
  <2>3. /\ old \in Seq(Drawings) /\ DOMAIN old = DOMAIN drawing[t]
        /\ \A k \in DOMAIN drawing[t] : /\ old[k].doc = drawing[t][k].doc
                                        /\ old[k].live = drawing[t][k].live
                                        /\ s.live => old[k].late
                                        /\ ~s.live => old[k] = drawing[t][k]
    <3>1. CASE s.live
      BY <2>1, <3>1, AllLateFacts, LateTypes
    <3>2. CASE ~s.live
      BY <2>1, <3>2
    <3> QED
      BY <3>1, <3>2
  <2>4. x.doc = doc /\ x.live = s.live /\ ~x.late
    OBVIOUS
  <2> HIDE DEF old, x, doc, m
  <2>5. Len(old) = m
    BY <2>1, <2>3
  <2>6. DOMAIN Append(old, x) = 1..(m + 1) /\ Append(old, x)[m + 1] = x
        /\ \A k \in 1..m : Append(old, x)[k] = old[k]
    BY <2>1, <2>3, <2>5
  <2> QED
    BY <2>1, <2>2, <2>3, <2>4, <2>6
<1>12. /\ screen'[t] = shown /\ \A u \in Tabs \ {t} : screen'[u] = screen[u]
  BY <1>1 DEF TypeOK, SharedTypeOK
<1>13. mixed'[t] = (mixed[t] \/ (s.live /\ s.late))
  BY <1>2 DEF TypeOK, EditorTypeOK
<1>14. \A u \in Tabs \ {t} : mixed'[u] = mixed[u]
  BY <1>2 DEF TypeOK, EditorTypeOK
<1>15. OthersSame(t)
  BY <1>2, <1>5, <1>11, <1>12, <1>14 DEF OthersSame
<1>16. /\ \A e \in 1..MaxEdits : e # s.image \/ there => lost'[e] = Dropped(t, shown, "replaced")[e]
       /\ ~there => lost'[s.image] = "gone"
  <2>1. lost' = IF there THEN Dropped(t, shown, "replaced")
                ELSE [Dropped(t, shown, "replaced") EXCEPT ![s.image] = "gone"]
    BY <1>1
  <2>2. DOMAIN Dropped(t, shown, "replaced") = 1..MaxEdits
    BY DEF Dropped
  <2> HIDE DEF shown
  <2> QED
    BY <1>8, <2>1, <2>2
<1> HIDE DEF doc, s0, x, shown
<1>17. \A e \in Edits : e = s.image => Painted(t, e)' \/ GivenUp(e)'
  <2>1. CASE there
    <3>1. m + 1 \in DOMAIN drawing'[t] /\ s.image \in drawing'[t][m + 1].doc.edits
      BY <1>7, <1>11, <2>1
    <3> QED
      BY <3>1 DEF Painted
  <2>2. CASE ~there
    BY <1>8, <1>16, <2>2 DEF GivenUp
  <2> QED
    BY <2>1, <2>2
<1>18. ASSUME NEW e \in 1..MaxEdits
       PROVE  \/ lost'[e] = Dropped(t, shown, "replaced")[e]
              \/ e \in Edits /\ By(e) = t /\ GivenUp(e)' /\ How(e) # "resize"
  <2>1. CASE e # s.image \/ there
    BY <1>16, <2>1
  <2>2. CASE e = s.image /\ ~there
    <3>1. lost'[e] = "gone"
      BY <1>16, <2>2
    <3> QED
      BY <1>8, <2>2, <3>1 DEF GivenUp
  <2> QED
    BY <2>1, <2>2
<1>19. Loses(t, screen'[t], "replaced")
  BY <1>12, <1>18 DEF Loses
<1>20. \A e : Painted(t, e) => Painted(t, e)'
  <2>1. \A k \in DOMAIN drawing[t] : k \in DOMAIN drawing'[t] /\ drawing'[t][k].doc = drawing[t][k].doc
    BY <1>11
  <2> QED
    BY <2>1 DEF Painted
<1>21. \A k \in DOMAIN drawing'[t] : drawing'[t][k].doc.edits \subseteq Edits
  <2>1. \A k \in 1..(m + 1) : k \in 1..m \/ k = m + 1
    BY <1>11
  <2> QED
    BY <1>8, <1>10, <1>11, <2>1
<1>22. sent \subseteq sent' /\ sent' \subseteq Edits /\ \A q \in net' : q.doc.edits \subseteq sent'
  BY <1>2, <1>8 DEF StoreKnown
    \* A panel that has left only keeps the document to be sent.
<1>23. CASE ~s.live
  <2>1. UNCHANGED screen
    BY <1>1, <1>12, <1>23 DEF shown, TypeOK, SharedTypeOK
  <2>2. taking' = [taking EXCEPT ![t] = Tail(@)]
    BY <1>1, <1>23
  <2>3. LiveDocs(t)' = LiveDocs(t) /\ FreshDocs(t)' = FreshDocs(t) /\ FreshDocs(t) \subseteq 1..m
    BY <1>11, <1>23 DEF LiveDocs, FreshDocs
  <2>4. \A k \in FreshDocs(t)' : k \in FreshDocs(t) /\ drawing'[t][k].doc = drawing[t][k].doc
    BY <1>11, <2>3
  <2>5. Loses(t, screen'[t], "undone")
    <3>1. \A e \in 1..MaxEdits : Dropped(t, screen[t], "replaced")[e] = Dropped(t, screen[t], "undone")[e]
      BY DropFacts
    <3>2. shown = screen[t]
      BY <1>23 DEF shown
    <3>3. \A e \in 1..MaxEdits :
            \/ lost'[e] = Dropped(t, screen[t], "undone")[e]
            \/ e \in Edits /\ By(e) = t /\ GivenUp(e)' /\ How(e) # "resize"
      BY <1>18, <3>1, <3>2
    <3> QED
      BY <2>1, <3>3 DEF Loses
  <2>6. /\ StoreKnown' /\ Frame(t) /\ TabKnown(t)' /\ Closes(t)' /\ Images(t)' /\ SizesStay(t)'
        /\ Accounted(t)' /\ Same(t)'
    <3>1. /\ file'[t].edits \subseteq sent' /\ last'[t].edits \subseteq sent'
          /\ \A i \in DOMAIN hist'[t] : hist'[t][i].edits \subseteq sent'
      BY <1>2, <1>8
    <3>2. \A e \in Edits : By(e) = t /\ (IF s.image = 0 THEN e \in s.seen ELSE e = s.image) =>
            e \in sent' \/ Painted(t, e)' \/ GivenUp(e)'
      BY <1>3, <1>17
    <3>3. LiveDocs(t)' # {} => LiveDocs(t) # {}
      BY <2>3
    <3>4. UNCHANGED <<made, rows, screen>>
      BY <1>2, <2>1
    <3> QED
      BY <1>2, <1>3, <1>15, <1>20, <1>21, <1>22, <2>2, <2>4, <2>5, <3>1, <3>2, <3>3, <3>4, HeadLeaves
  <2>7. Stacked(t)'
    <3>1. ~mixed'[t] => ~mixed[t]
      BY <1>13, Zenon
    <3> QED
      BY <1>2, <1>8, <2>1, <3>1 DEF TabInv, Stacked, Agree
  <2>8. Idles(t)'
    <3>1. LiveDocs(t)' = {} => LiveDocs(t) = {}
      BY <2>3
    <3>2. UNCHANGED <<made, screen, file, last, parted>>
      BY <1>2, <2>1
    <3> QED
      BY <1>2, <1>3, <1>23, <2>2, <2>4, <3>1, <3>2, HeadIdles
  <2> QED
    BY <2>6, <2>7, <2>8 DEF Keeps, TabInv
    \* On an open one it is the new screen, and all else is of the old one.
<1>24. CASE s.live
  <2>1. screen'[t] = doc.edits
    BY <1>12, <1>24 DEF shown
  <2>2. /\ \A i \in Live(t)' : i \in 1..(n - 1) /\ i + 1 \in Live(t)
        /\ \A i \in Ords(t)' : i \in 1..(n - 1) /\ i + 1 \in Ords(t)
    BY <1>5, HeadSets
  <2>3. Fresh(t)' = {}
    BY <1>5, <1>24, <2>2 DEF Fresh
  <2>4. m + 1 \in LiveDocs(t)' /\ FreshDocs(t)' = {m + 1}
    <3>1. \A k \in 1..(m + 1) : k \in 1..m \/ k = m + 1
      BY <1>11
    <3>2. m + 1 \in 1..(m + 1)
      BY <1>11
    <3> QED
      BY <1>11, <1>24, <3>1, <3>2 DEF LiveDocs, FreshDocs
  <2>5. StoreKnown' /\ Frame(t)
    <3>1. \A e \in 1..MaxEdits : e \notin Edits \/ By(e) # t => lost'[e] = lost[e]
      BY <1>19, LosesOwn
    <3> QED
      BY <1>2, <1>15, <1>22, <3>1, Settles
  <2>6. TabKnown(t)'
    <3>1. \A j \in 1..n : taking[t][j].seen \subseteq Edits /\ taking[t][j].image \in Edits \cup {0}
      BY <1>5 DEF TabInv, TabKnown
    <3>2. \A i \in 1..(n - 1) : taking'[t][i].seen \subseteq Edits /\ taking'[t][i].image \in Edits \cup {0}
      BY <1>5, <3>1
    <3> QED
      BY <1>2, <1>5, <1>8, <1>10, <1>21, <2>1, <3>2 DEF TabKnown
  <2>7. Closes(t)'
    BY <1>2, <1>9, <1>24 DEF Closes
  <2>8. Images(t)'
    <3>1. \A j \in 1..n : taking[t][j].image # 0 =>
            made[taking[t][j].image].by = t /\ made[taking[t][j].image].how = "picture"
      BY <1>5 DEF TabInv, Images, By, How
    <3>2. ASSUME NEW i \in DOMAIN taking'[t], taking'[t][i].image # 0
          PROVE  /\ made'[taking'[t][i].image].by = t
                 /\ made'[taking'[t][i].image].how = "picture"
      <4>1. i \in 1..(n - 1)
        BY <1>5
      <4>2. i + 1 \in 1..n /\ taking'[t][i].image = taking[t][i + 1].image
        BY <1>5, <4>1
      <4>3. made[taking[t][i + 1].image].by = t /\ made[taking[t][i + 1].image].how = "picture"
        BY <3>1, <3>2, <4>2
      <4>4. made' = made
        BY <1>2
      <4> QED
        BY <4>2, <4>3, <4>4
    <3>3. ASSUME NEW e \in doc.edits PROVE Painted(t, e)'
      <4>1. m + 1 \in DOMAIN drawing'[t]
        BY <1>11
      <4> QED
        BY <1>11, <3>3, <4>1 DEF Painted
    <3>4. \A e \in screen'[t] : Painted(t, e)'
      BY <2>1, <3>3
    <3> QED
      BY <3>2, <3>4 DEF Images, By, How
  <2>9. SizesStay(t)'
    <3>1. \A i \in Ords(t)' : \E j \in Ords(t) : taking'[t][i].seen = taking[t][j].seen
      BY <1>5, <2>2
    <3>2. \A e \in screen'[t] : By(e) = t /\ How(e) = "resize" => e \in screen[t] \/ e \in sent'
      BY <1>7, <1>8, <1>24, <2>1
    <3>3. "replaced" \in {"undone", "replaced"}
      OBVIOUS
    <3> QED
      BY <1>2, <1>19, <1>22, <3>1, <3>2, <3>3, SizesStayOwed
  <2>10. Accounted(t)'
    <3>1. ASSUME NEW e \in Edits, By(e) = t, Snapped(t, e)
          PROVE  e \in sent' \/ Snapped(t, e)' \/ Painted(t, e)' \/ GivenUp(e)'
      <4>1. PICK j \in 1..n : IF taking[t][j].image = 0 THEN e \in taking[t][j].seen
                              ELSE e = taking[t][j].image
        BY <1>5, <3>1 DEF Snapped
      <4>2. CASE j = 1
        BY <1>3, <1>4, <1>17, <4>1, <4>2
      <4>3. CASE j # 1
        <5>1. PICK i \in 1..(n - 1) : i + 1 = j
          BY <1>5, <4>3
        <5>2. taking'[t][i].seen = taking[t][j].seen /\ taking'[t][i].image = taking[t][j].image
          BY <1>5, <5>1
        <5>3. i \in DOMAIN taking'[t]
          BY <1>5
        <5> QED
          BY <4>1, <5>2, <5>3 DEF Snapped
      <4> QED
        BY <4>2, <4>3
    <3>2. \A e \in screen[t] : How(e) = "resize" => e \in screen'[t]
      BY <1>7, <1>24, <2>1
    <3>3. /\ dirty[t] => dirty'[t]
          /\ timer[t] => timer'[t]
      BY <1>2
    <3>4. "replaced" \in {"undone", "replaced"}
      OBVIOUS
    <3>5. sent \subseteq sent' /\ made' = made
      BY <1>2
    <3> QED
      BY <1>19, <1>20, <3>1, <3>2, <3>3, <3>4, <3>5, StaysOwed
  <2>11. Stacked(t)'
    <3>1. ASSUME ~mixed'[t] PROVE ~mixed[t] /\ ~s.late
      BY <1>13, <1>24, <3>1, Zenon
    <3>2. ASSUME ~mixed'[t], NEW e \in Edits, By(e) # t PROVE e \in doc.edits <=> e \in screen[t]
      <4>1. 1 \in Fresh(t)
        BY <1>4, <1>9, <1>24, <3>1, <3>2 DEF Fresh
      <4>2. How(e) # "resize" => (e \in s.seen <=> e \in screen[t])
        BY <1>4, <3>2, <4>1 DEF TabInv, Same
      <4> QED
        BY <1>7, <1>8, <1>24, <3>2, <4>2
    <3>3. ASSUME ~mixed'[t], NEW i \in DOMAIN hist[t], NEW e \in Edits, By(e) # t
          PROVE  e \in hist[t][i].edits <=> e \in screen[t]
      BY <1>9, <1>24, <3>1, <3>3 DEF TabInv, Stacked, Agree
    <3> QED
      BY <1>2, <1>8, <2>1, <3>2, <3>3 DEF Stacked, Agree
  <2>12. Same(t)'
    <3>1. \A k \in FreshDocs(t)' : k = m + 1 /\ drawing'[t][k].doc = doc
      BY <1>11, <2>4
    <3> QED
      BY <2>1, <2>3, <2>4, <3>1 DEF Same, Within
  <2>13. Idles(t)'
    <3>1. \A k \in FreshDocs(t)' : drawing'[t][k].doc = doc
      BY <1>11, <2>4
    <3>2. LiveDocs(t)' # {}
      BY <2>4
    <3> QED
      BY <2>1, <2>3, <3>1, <3>2 DEF Idles
  <2> QED
    BY <2>5, <2>6, <2>7, <2>8, <2>9, <2>10, <2>11, <2>12, <2>13 DEF Keeps, TabInv
<1> QED
  BY <1>23, <1>24

\* The edited image's document has been drawn, and is sent.
LEMMA SaveImageKeeps ==
  ASSUME TypeOK, StoreKnown, NEW t \in Tabs, TabInv(t), SaveImage(t)
  PROVE  Keeps(t)
<1> DEFINE d == Head(drawing[t])
<1>1. /\ drawing[t] # <<>> /\ drawing' = [drawing EXCEPT ![t] = Tail(@)]
      /\ UNCHANGED <<made, rows, screen, taking, hist, lost>>
      /\ UNCHANGED open
      /\ UNCHANGED dirty
      /\ UNCHANGED timer
      /\ UNCHANGED mixed
  BY DEF SaveImage
<1>2. PICK n \in Nat :
        /\ 1 <= n /\ DOMAIN drawing[t] = 1..n /\ DOMAIN drawing'[t] = 1..(n - 1)
        /\ d = drawing[t][1] /\ d \in Drawings
        /\ \A i \in 1..(n - 1) : i + 1 \in 1..n /\ drawing'[t][i] = drawing[t][i + 1]
        /\ \A j \in 1..n : j = 1 \/ (j - 1 \in 1..(n - 1) /\ (j - 1) + 1 = j)
        /\ \A u \in Tabs \ {t} : drawing'[u] = drawing[u]
  BY <1>1, DrawnGone
<1>3. /\ d.doc.edits \subseteq Edits /\ screen[t] \subseteq Edits
      /\ sent \subseteq Edits /\ \A i \in DOMAIN hist[t] : hist[t][i].edits \subseteq sent
      /\ Edits \subseteq 1..MaxEdits /\ Edits' = Edits
      /\ file[t].edits \subseteq sent /\ last[t].edits \subseteq sent
      /\ \A k \in 1..n : drawing[t][k].doc.edits \subseteq Edits
      /\ \A i \in DOMAIN taking[t] : taking[t][i].seen \subseteq Edits /\ taking[t][i].image \in Edits \cup {0}
      /\ \A e : By(e)' = By(e) /\ How(e)' = How(e)
  <2> HIDE DEF d
  <2>1. d.doc.edits \subseteq Edits /\ \A k \in 1..n : drawing[t][k].doc.edits \subseteq Edits
    <3>1. \A k \in 1..n : drawing[t][k].doc.edits \subseteq Edits
      BY <1>2 DEF TabInv, TabKnown
    <3> QED
      BY <1>2, <3>1
  <2>2. Edits \subseteq 1..MaxEdits
    BY EditorsAreTabs
  <2>3. Edits' = Edits /\ \A e : By(e)' = By(e) /\ How(e)' = How(e)
    BY <1>1 DEF Edits, By, How
  <2> QED
    BY <2>1, <2>2, <2>3 DEF TabInv, TabKnown, StoreKnown
<1>4. ASSUME d.live
      PROVE  /\ sent' = sent \cup d.doc.edits /\ \A m \in net' : m \in net \/ m.doc = d.doc
             /\ file'[t] = d.doc /\ last'[t] = d.doc
             /\ parted'[t] = IF d.late THEN parted[t] \cup {"late"}
                             ELSE IF d.doc.edits = screen[t] THEN {} ELSE parted[t]
             /\ OthersSame(t)
  <2>1. /\ Send(t, d.doc, TRUE)
        /\ last' = [last EXCEPT ![t] = d.doc]
        /\ parted' = [parted EXCEPT ![t] = IF d.late THEN @ \cup {"late"}
                                       ELSE IF d.doc.edits = screen[t] THEN {} ELSE @]
    BY <1>4 DEF SaveImage
  <2>2. /\ last'[t] = d.doc
        /\ parted'[t] = IF d.late THEN parted[t] \cup {"late"}
                        ELSE IF d.doc.edits = screen[t] THEN {} ELSE parted[t]
        /\ \A u \in Tabs \ {t} : last'[u] = last[u] /\ parted'[u] = parted[u]
    BY <2>1 DEF TypeOK, SharedTypeOK, EditorTypeOK
  <2>3. /\ sent' = sent \cup d.doc.edits
        /\ \A m \in net' : m \in net \/ m.doc = d.doc
        /\ file'[t] = d.doc /\ \A u \in Tabs \ {t} : file'[u] = file[u]
    BY <2>1, SendFacts
  <2>4. OthersSame(t)
    BY <1>1, <1>2, <2>2, <2>3 DEF OthersSame
  <2> QED
    BY <2>2, <2>3, <2>4
<1>5. ASSUME ~d.live
      PROVE  /\ sent' = sent \cup d.doc.edits /\ \A m \in net' : m \in net \/ m.doc = d.doc
             /\ UNCHANGED <<file, last, parted>>
             /\ OthersSame(t)
  <2>1. /\ net' = net \cup {[tab |-> t, doc |-> d.doc, waits |-> FALSE]}
        /\ sent' = sent \cup d.doc.edits
        /\ UNCHANGED <<file, last, parted>>
    BY <1>5 DEF SaveImage
  <2>2. OthersSame(t)
    BY <1>1, <1>2, <2>1 DEF OthersSame
  <2> QED
    BY <2>1, <2>2
<1> HIDE DEF d
<1>6. sent' = sent \cup d.doc.edits /\ \A m \in net' : m \in net \/ m.doc = d.doc
  BY <1>4, <1>5
<1>7. sent \subseteq sent' /\ sent' \subseteq Edits /\ \A m \in net' : m.doc.edits \subseteq sent'
  BY <1>3, <1>6 DEF StoreKnown
<1>8. Loses(t, screen'[t], "undone")
  <2>1. PICK shown : shown = screen'[t]
    OBVIOUS
  <2>2. \A e \in 1..MaxEdits : lost'[e] = Dropped(t, shown, "undone")[e]
    BY <1>1, <2>1, DropFacts
  <2> QED
    BY <2>1, <2>2 DEF Loses
<1>9. StoreKnown' /\ Frame(t)
  <2>1. \A e \in 1..MaxEdits : e \notin Edits \/ By(e) # t => lost'[e] = lost[e]
    BY <1>1
  <2>2. OthersSame(t)
    BY <1>4, <1>5
  <2> QED
    BY <1>1, <1>7, <2>1, <2>2, Settles
<1>10. \A e : Painted(t, e) => e \in sent' \/ Painted(t, e)'
  <2>1. ASSUME NEW e, NEW k \in 1..n, e \in drawing[t][k].doc.edits, e \notin sent'
        PROVE  \E i \in 1..(n - 1) : e \in drawing'[t][i].doc.edits
    <3>1. k # 1
      BY <1>2, <1>6, <2>1
    <3>2. k - 1 \in 1..(n - 1) /\ drawing'[t][k - 1] = drawing[t][k]
      BY <1>2, <3>1
    <3> QED
      BY <2>1, <3>2
  <2> QED
    BY <1>2, <2>1 DEF Painted
<1>11. /\ Live(t)' = Live(t) /\ Fresh(t)' = Fresh(t) /\ Ords(t)' = Ords(t)
       /\ Ords(t) \subseteq DOMAIN taking[t] /\ Fresh(t) \subseteq DOMAIN taking[t]
  BY <1>1, LiveSets
<1>12. /\ LiveDocs(t) = {k \in 1..n : drawing[t][k].live}
       /\ LiveDocs(t)' = {k \in 1..(n - 1) : drawing[t][k + 1].live}
  BY <1>2 DEF LiveDocs
<1>13. /\ \A k \in LiveDocs(t)' : k \in 1..(n - 1) /\ k + 1 \in LiveDocs(t)
       /\ \A k \in FreshDocs(t)' : k \in 1..(n - 1) /\ k + 1 \in FreshDocs(t)
  <2>1. \A k \in LiveDocs(t)' : k \in 1..(n - 1) /\ k + 1 \in LiveDocs(t)
    BY <1>2, <1>12
  <2> QED
    BY <1>2, <2>1 DEF FreshDocs
<1>14. TabKnown(t)'
  <2>1. \A k \in 1..(n - 1) : drawing'[t][k].doc.edits \subseteq Edits
    BY <1>2, <1>3
  <2>2. file'[t].edits \subseteq sent' /\ last'[t].edits \subseteq sent'
    BY <1>3, <1>4, <1>5, <1>6
  <2> QED
    BY <1>1, <1>2, <1>3, <1>7, <2>1, <2>2 DEF TabKnown
<1>15. Closes(t)'
  BY <1>1, <1>11, <1>13 DEF TabInv, Closes
<1>16. Images(t)'
  <2>1. \A e \in screen[t] : By(e) = t /\ How(e) = "picture" => e \in sent' \/ Painted(t, e)'
    BY <1>7, <1>10 DEF TabInv, Images
  <2>2. \A i \in DOMAIN taking[t] : taking[t][i].image # 0 =>
          By(taking[t][i].image) = t /\ How(taking[t][i].image) = "picture"
    BY DEF TabInv, Images
  <2> QED
    BY <1>1, <1>3, <2>1, <2>2 DEF Images
<1>17. SizesStay(t)'
  BY <1>1, <1>3, <1>7, <1>11 DEF TabInv, SizesStay
<1>18. Accounted(t)'
  <2>1. \A e : Snapped(t, e)' = Snapped(t, e)
    BY <1>1 DEF Snapped
  <2>2. \A e : GivenUp(e)' = GivenUp(e)
    BY <1>1, <1>3 DEF GivenUp
  <2>3. ASSUME NEW e \in Edits, By(e) = t PROVE Owed(t, e)'
    <3>1. Owed(t, e)
      BY <2>3 DEF TabInv, Accounted
    <3> QED
      BY <1>1, <1>3, <1>7, <1>10, <2>1, <2>2, <3>1 DEF Owed
  <2> QED
    BY <1>3, <2>3 DEF Accounted
<1>19. Stacked(t)'
  BY <1>1, <1>3 DEF TabInv, Stacked, Agree
<1>20. \A k \in FreshDocs(t)' : k \in Int /\ k + 1 \in FreshDocs(t) /\ drawing'[t][k] = drawing[t][k + 1]
  BY <1>2, <1>13
<1>21. Same(t)'
  <2>1. \A i \in Fresh(t)' :
          /\ \A e \in Edits : By(e) # t /\ How(e) # "resize" =>
               (e \in taking'[t][i].seen <=> e \in screen[t])
          /\ Within(taking'[t][i].seen, screen[t])
          /\ \A j \in Fresh(t)' : i < j => Within(taking'[t][i].seen, taking'[t][j].seen)
    BY <1>1, <1>11 DEF TabInv, Same
  <2>2. \A k \in FreshDocs(t)' :
          /\ Within(drawing'[t][k].doc.edits, screen[t])
          /\ \A i \in Fresh(t)' : Within(drawing'[t][k].doc.edits, taking'[t][i].seen)
    BY <1>1, <1>11, <1>20 DEF TabInv, Same
  <2>3. \A k, l \in FreshDocs(t)' : k = l
    <3>1. \A k, l \in FreshDocs(t)' : k + 1 = l + 1
      BY <1>20 DEF TabInv, Same
    <3> QED
      BY <1>20, <3>1
  <2> QED
    BY <1>1, <1>3, <2>1, <2>2, <2>3 DEF Same, Within
<1>22. \A r : Within(screen[t], r)' <=> Within(screen[t], r)
  BY <1>1, <1>3 DEF Within
<1>23. Idles(t)'
  <2>1. CASE ~d.live
    <3>1. 1 \notin LiveDocs(t)
      BY <1>2, <1>12, <2>1
    <3>2. LiveDocs(t)' = {} => LiveDocs(t) = {}
      <4>1. ASSUME NEW k \in LiveDocs(t) PROVE k - 1 \in LiveDocs(t)'
        <5>1. k \in 1..n /\ k # 1 /\ drawing[t][k].live
          BY <1>12, <3>1
        <5>2. k - 1 \in 1..(n - 1) /\ (k - 1) + 1 = k
          BY <1>2, <5>1
        <5> QED
          BY <1>12, <5>1, <5>2
      <4> QED
        BY <4>1
    <3> QED
      <4>1. SUFFICES ASSUME parted[t] = {}, ~dirty[t], open[t]
                     PROVE  /\ ~timer[t] /\ Ords(t) = {} /\ LiveDocs(t)' = {} =>
                                 screen[t] = last[t].edits /\ (file[t] = Empty \/ screen[t] = file[t].edits)
                            /\ ~timer[t] /\ Ords(t) = {} =>
                                 \A k \in FreshDocs(t)' : screen[t] = drawing'[t][k].doc.edits
                            /\ \A i \in Fresh(t) \cap Ords(t) :
                                 (\A j \in Ords(t) : j <= i) => Within(screen[t], taking[t][i].seen)
        BY <1>1, <1>3, <1>5, <1>11, <2>1 DEF Idles, Within
      <4> QED
        BY <1>20, <3>2, <4>1 DEF TabInv, Idles
  <2>2. CASE d.live
    <3>1. SUFFICES ASSUME parted'[t] = {}, ~dirty[t], open[t]
                   PROVE  /\ ~timer[t] /\ Ords(t) = {} => screen[t] = d.doc.edits
                          /\ FreshDocs(t)' = {}
                          /\ \A i \in Fresh(t) \cap Ords(t) :
                               (\A j \in Ords(t) : j <= i) => Within(screen[t], taking[t][i].seen)
      BY <1>1, <1>3, <1>4, <1>11, <2>2 DEF Idles, Within
    <3>2. ~d.late /\ (d.doc.edits = screen[t] \/ parted[t] = {})
      BY <1>4, <2>2, <3>1
    <3>3. 1 \in FreshDocs(t)
      BY <1>2, <1>12, <2>2, <3>2 DEF FreshDocs
    <3>4. FreshDocs(t)' = {}
      <4>1. \A k \in FreshDocs(t)' : k \in 1..(n - 1) /\ k + 1 = 1
        BY <1>13, <3>3 DEF TabInv, Same
      <4> QED
        BY <1>2, <4>1
    <3>5. ~timer[t] /\ Ords(t) = {} => screen[t] = d.doc.edits
      BY <1>2, <3>1, <3>2, <3>3 DEF TabInv, Idles
    <3>6. ASSUME NEW i \in Fresh(t) \cap Ords(t), \A j \in Ords(t) : j <= i
          PROVE  Within(screen[t], taking[t][i].seen)
      <4>1. CASE parted[t] = {}
        BY <3>1, <3>6, <4>1 DEF TabInv, Idles
      <4>2. CASE d.doc.edits = screen[t]
        BY <1>2, <3>3, <3>6, <4>2 DEF TabInv, Same
      <4> QED
        BY <3>2, <4>1, <4>2
    <3> QED
      BY <3>4, <3>5, <3>6
  <2> QED
    BY <2>1, <2>2
<1> QED
  BY <1>9, <1>14, <1>15, <1>16, <1>17, <1>18, <1>19, <1>21, <1>23 DEF Keeps, TabInv

\* A save that no longer holds a guard up holds the same document.
LEMMA WaitsOnly ==
  \A m \in [tab : Tabs, doc : Docs, waits : BOOLEAN] : \A w : [m EXCEPT !.waits = w].doc = m.doc
  OBVIOUS

\* The panel goes: its timer and its snapshots are served all the same.
LEMMA LeaveKeeps ==
  ASSUME TypeOK, StoreKnown, NEW t \in Tabs, TabInv(t), Leave(t)
  PROVE  Keeps(t)
<1>1. PICK reported \in BOOLEAN : LET all == Flush(t, reported) IN
        /\ taking' = [taking EXCEPT ![t] = [i \in DOMAIN all |-> IF all[i].live
              THEN [all[i] EXCEPT !.seen = Blocks(@) \cup Sizes(screen[t]), !.live = FALSE]
              ELSE all[i]]]
        /\ drawing' = [drawing EXCEPT ![t] = [i \in DOMAIN @ |-> [@[i] EXCEPT !.live = FALSE]]]
        /\ Drop(t, Sizes(screen[t]), "left")
  BY DEF Leave
<1>2. /\ Close(t) /\ net' = {[m EXCEPT !.waits = m.waits /\ m.tab # t] : m \in net}
      /\ dirty' = [dirty EXCEPT ![t] = FALSE]
      /\ timer' = [timer EXCEPT ![t] = FALSE]
      /\ parted' = [parted EXCEPT ![t] = {}]
      /\ hist' = [hist EXCEPT ![t] = <<>>]
      /\ mixed' = [mixed EXCEPT ![t] = FALSE]
      /\ UNCHANGED <<made, rows, sent>>
  BY DEF Leave
<1> DEFINE all == Flush(t, reported)
           parting(x) == [x EXCEPT !.seen = Blocks(@) \cup Sizes(screen[t]), !.live = FALSE]
<1>3. /\ DOMAIN taking'[t] = DOMAIN all
      /\ \A i \in DOMAIN all : taking'[t][i] = IF all[i].live THEN parting(all[i]) ELSE all[i]
      /\ \A u \in Tabs \ {t} : taking'[u] = taking[u]
  BY <1>1 DEF TypeOK, EditorTypeOK
<1>4. /\ screen[t] \subseteq Edits /\ sent \subseteq Edits /\ Edits \subseteq 1..MaxEdits /\ Edits' = Edits
      /\ \A i \in DOMAIN taking[t] : taking[t][i].seen \subseteq Edits /\ taking[t][i].image \in Edits \cup {0}
      /\ \A k \in DOMAIN drawing[t] : drawing[t][k].doc.edits \subseteq Edits
  BY <1>2, EditorsAreTabs DEF TabInv, TabKnown, StoreKnown, Edits
<1>5. PICK n \in Nat :
        /\ DOMAIN taking[t] = 1..n
        /\ 1..n \subseteq DOMAIN all
        /\ \A i \in 1..n : all[i] = taking[t][i]
        /\ \A i \in DOMAIN all : i \in 1..n \/
             (all[i].seen = screen[t] /\ all[i].image = 0 /\ all[i].live)
        /\ \A i \in DOMAIN all : all[i] \in Snapshots
        /\ timer[t] => \E i \in DOMAIN all : all[i].live /\ all[i].image = 0
  <2> DEFINE x == [seen |-> screen[t], image |-> 0, live |-> TRUE, late |-> FALSE]
             n == Len(taking[t])
  <2>1. taking[t] \in Seq(Snapshots) /\ n \in Nat /\ DOMAIN taking[t] = 1..n
    BY DEF TypeOK, EditorTypeOK
  <2>2. \A i \in 1..n : taking[t][i] \in Snapshots
    BY <2>1
  <2>3. x \in Snapshots /\ x.seen = screen[t] /\ x.image = 0 /\ x.live
    BY PanelBounds DEF TypeOK, SharedTypeOK, Snapshots
  <2>4. all = (IF timer[t] \/ (dirty[t] /\ reported /\ ~guard[t]) THEN Append(taking[t], x) ELSE taking[t])
    BY DEF Flush, Begin
  <2> HIDE DEF x, n, all
  <2>5. CASE all = taking[t] /\ ~timer[t]
    BY <2>1, <2>2, <2>5
  <2>6. CASE all = Append(taking[t], x)
    <3>1. /\ DOMAIN Append(taking[t], x) = 1..(n + 1) /\ Append(taking[t], x)[n + 1] = x
          /\ \A i \in 1..n : Append(taking[t], x)[i] = taking[t][i]
      BY <2>1 DEF n
    <3>2. DOMAIN all = 1..(n + 1) /\ all[n + 1] = x /\ \A i \in 1..n : all[i] = taking[t][i]
      BY <2>6, <3>1
    <3>3. \A i \in 1..(n + 1) : i \in 1..n \/ i = n + 1
      BY <2>1
    <3>4. 1..n \subseteq 1..(n + 1) /\ n + 1 \in 1..(n + 1)
      BY <2>1
    <3> QED
      BY <2>1, <2>2, <2>3, <3>2, <3>3, <3>4
  <2> QED
    BY <2>4, <2>5, <2>6
<1>6. \A y \in Snapshots : /\ parting(y).seen = Blocks(y.seen) \cup Sizes(screen[t])
                           /\ parting(y).image = y.image
                           /\ parting(y).live = FALSE
  BY DEF Snapshots
<1> HIDE DEF all, parting
<1>7. \A i \in DOMAIN all :
        /\ taking'[t][i].image = all[i].image
        /\ ~taking'[t][i].live
        /\ all[i].live => taking'[t][i].seen = Blocks(all[i].seen) \cup Sizes(screen[t])
        /\ ~all[i].live => taking'[t][i].seen = all[i].seen
  BY <1>3, <1>5, <1>6
<1>8. /\ ~open'[t] /\ screen'[t] = {} /\ file'[t] = Empty /\ last'[t] = Empty /\ hist'[t] = <<>>
      /\ ~dirty'[t]
      /\ ~timer'[t]
  BY <1>2 DEF Close, TypeOK, SharedTypeOK, EditorTypeOK
<1>22. /\ DOMAIN drawing'[t] = DOMAIN drawing[t]
       /\ \A k \in DOMAIN drawing[t] : drawing'[t][k].doc = drawing[t][k].doc /\ ~drawing'[t][k].live
       /\ \A u \in Tabs \ {t} : drawing'[u] = drawing[u]
  <2>1. \A y \in Drawings : [y EXCEPT !.live = FALSE].doc = y.doc /\ ~[y EXCEPT !.live = FALSE].live
    BY DEF Drawings
  <2>2. \A k \in DOMAIN drawing[t] : drawing[t][k] \in Drawings
    BY TakingSeq
  <2>3. /\ drawing'[t] = [k \in DOMAIN drawing[t] |-> [drawing[t][k] EXCEPT !.live = FALSE]]
        /\ \A u \in Tabs \ {t} : drawing'[u] = drawing[u]
    BY <1>1 DEF TypeOK, EditorTypeOK
  <2> QED
    BY <2>1, <2>2, <2>3
<1>23. LiveDocs(t)' = {} /\ FreshDocs(t)' = {} /\ \A e : Painted(t, e)' <=> Painted(t, e)
  BY <1>22 DEF LiveDocs, FreshDocs, Painted
<1>9. OthersSame(t)
  <2>1. \A u \in Tabs \ {t} :
          /\ screen'[u] = screen[u] /\ file'[u] = file[u] /\ last'[u] = last[u]
          /\ hist'[u] = hist[u] /\ parted'[u] = parted[u]
    BY <1>2 DEF Close, TypeOK, SharedTypeOK, EditorTypeOK
  <2>2. \A u \in Tabs \ {t} : open'[u] = open[u]
    BY <1>2 DEF Close, TypeOK, SharedTypeOK
  <2>3. \A u \in Tabs \ {t} : dirty'[u] = dirty[u]
    BY <1>2 DEF TypeOK, EditorTypeOK
  <2>4. \A u \in Tabs \ {t} : timer'[u] = timer[u]
    BY <1>2 DEF TypeOK, EditorTypeOK
  <2>5. \A u \in Tabs \ {t} : mixed'[u] = mixed[u]
    BY <1>2 DEF TypeOK, EditorTypeOK
  <2> QED
    BY <1>3, <1>22, <2>1, <2>2, <2>3, <2>4, <2>5 DEF OthersSame
<1> DEFINE left(e) == e \in screen[t] /\ e \notin sent /\ By(e) = t /\ How(e) # "resize"
<1>10. /\ \A e \in 1..MaxEdits : ~left(e) => lost'[e] = lost[e]
       /\ \A e \in screen[t] : left(e) => lost'[e] \in {"left", "failed"}
  <2> DEFINE kept == Sizes(screen[t])
  <2>1. Drop(t, kept, "left")
    BY <1>1
  <2>2. \A e \in screen[t] : e \in kept <=> How(e) = "resize"
    BY DEF Sizes
  <2> HIDE DEF kept
  <2>3. lost' = Dropped(t, kept, "left")
    BY <2>1 DEF Drop
  <2>4. ASSUME NEW e \in 1..MaxEdits
        PROVE  /\ ~left(e) => lost'[e] = lost[e]
               /\ left(e) => lost'[e] \in {"left", "failed"}
    <3>1. left(e) <=> e \in screen[t] /\ e \notin sent /\ By(e) = t /\ e \notin kept
      BY <2>2
    <3> HIDE DEF left
    <3> QED
      BY <2>3, <3>1, DropFacts
  <2> HIDE DEF left
  <2> QED
    BY <1>4, <2>4
<1>11. Frame(t)
  BY <1>2, <1>4, <1>9, <1>10 DEF Frame
<1>12. StoreKnown'
  <2>1. \A m \in net' : m.doc.edits \subseteq sent
    <3>1. \A m \in net : [m EXCEPT !.waits = m.waits /\ m.tab # t].doc = m.doc
      BY WaitsOnly DEF TypeOK, SharedTypeOK
    <3>2. \A m \in net' : \E k \in net : m = [k EXCEPT !.waits = k.waits /\ k.tab # t]
      BY <1>2
    <3>3. ASSUME NEW m \in net' PROVE \E k \in net : m.doc = k.doc
      <4>1. PICK k \in net : m = [k EXCEPT !.waits = k.waits /\ k.tab # t]
        BY <3>2
      <4> DEFINE y == [k EXCEPT !.waits = k.waits /\ k.tab # t]
      <4>2. y.doc = k.doc
        BY <3>1
      <4>3. m = y
        BY <4>1
      <4> HIDE DEF y
      <4> QED
        BY <4>2, <4>3
    <3> QED
      BY <3>3 DEF StoreKnown
  <2> QED
    BY <1>2, <1>4, <1>10, <2>1 DEF StoreKnown, How
<1>13. \A i \in DOMAIN all : /\ taking'[t][i].seen \subseteq Edits
                             /\ taking'[t][i].image \in Edits \cup {0}
  <2>1. \A i \in DOMAIN all : all[i].seen \subseteq Edits /\ all[i].image \in Edits \cup {0}
    BY <1>4, <1>5
  <2>2. \A i \in DOMAIN all : taking'[t][i].seen \subseteq all[i].seen \cup screen[t]
    BY <1>7 DEF Blocks, Sizes
  <2> QED
    BY <1>4, <1>7, <2>1, <2>2
<1>14. TabKnown(t)'
  <2>1. Empty.edits = {} /\ DOMAIN <<>> = {}
    BY DEF Empty
  <2> QED
    BY <1>2, <1>3, <1>4, <1>8, <1>13, <1>22, <2>1 DEF TabKnown
<1>15. Live(t)' = {} /\ Fresh(t)' = {} /\ Ords(t)' = {}
  BY <1>3, <1>7 DEF Live, Fresh, Ords
<1>16. Closes(t)'
  BY <1>8, <1>15, <1>23 DEF Closes
<1>17. Images(t)'
  <2>1. \A i \in DOMAIN all : all[i].image # 0 => By(all[i].image) = t /\ How(all[i].image) = "picture"
    BY <1>5 DEF TabInv, Images
  <2> QED
    BY <1>2, <1>3, <1>7, <1>8, <2>1 DEF Images, By, How
<1>18. SizesStay(t)'
  BY <1>8, <1>15 DEF SizesStay
<1>19. Accounted(t)'
  <2>1. ASSUME NEW e \in Edits, By(e) = t, e \notin sent
        PROVE  Snapped(t, e)' \/ Painted(t, e) \/ GivenUp(e)'
    <3>1. e \in 1..MaxEdits /\ How(e) \in {"type", "resize", "picture"} /\ How(e)' = How(e)
      BY <1>2, <1>4, <2>1 DEF StoreKnown, How
    <3>2. ASSUME lost'[e] = lost[e], GivenUp(e) PROVE GivenUp(e)'
      BY <3>1, <3>2 DEF GivenUp
    <3>3. Owed(t, e)
      BY <2>1 DEF TabInv, Accounted
    <3>4. CASE How(e) = "resize" /\ e \in screen[t]
      <4>1. e \in Sizes(screen[t]) /\ lost'[e] = lost[e]
        BY <1>10, <3>1, <3>4 DEF Sizes
      <4>2. CASE timer[t]
        <5>1. PICK i \in DOMAIN all : all[i].live /\ all[i].image = 0
          BY <1>5, <4>2
        <5>2. i \in DOMAIN taking'[t] /\ taking'[t][i].image = 0 /\ e \in taking'[t][i].seen
          BY <1>3, <1>7, <4>1, <5>1
        <5> QED
          BY <5>2 DEF Snapped
      <4>3. CASE Snapped(t, e)
        <5>1. PICK i \in 1..n : IF taking[t][i].image = 0 THEN e \in taking[t][i].seen
                                ELSE e = taking[t][i].image
          BY <1>5, <4>3 DEF Snapped
        <5>2. taking[t][i].image = 0
          BY <1>5, <3>4, <5>1 DEF TabInv, Images
        <5>3. i \in DOMAIN taking'[t] /\ taking'[t][i].image = 0 /\ e \in taking'[t][i].seen
          BY <1>3, <1>5, <1>7, <4>1, <5>1, <5>2
        <5> QED
          BY <5>3 DEF Snapped
      <4> QED
        BY <2>1, <3>2, <3>3, <3>4, <4>1, <4>2, <4>3 DEF Owed
    <3>5. CASE How(e) = "resize" /\ e \notin screen[t]
      <4>1. lost'[e] = lost[e]
        BY <1>10, <3>1, <3>5
      <4>2. CASE Snapped(t, e) /\ ~GivenUp(e)
        <5>1. PICK i \in 1..n : IF taking[t][i].image = 0 THEN e \in taking[t][i].seen
                                ELSE e = taking[t][i].image
          BY <1>5, <4>2 DEF Snapped
        <5>2. taking[t][i].image = 0
          BY <1>5, <3>5, <5>1 DEF TabInv, Images
        <5>3. ~taking[t][i].live
          <6>1. ASSUME taking[t][i].live PROVE FALSE
            <7>1. i \in Ords(t)
              BY <1>5, <5>2, <6>1 DEF Live, Ords
            <7>2. lost[e] \in {"undone", "swept", "failed"}
              BY <2>1, <3>5, <5>1, <5>2, <7>1 DEF TabInv, SizesStay
            <7> QED
              BY <3>5, <4>2, <7>2 DEF GivenUp
          <6> QED
            BY <6>1
        <5>4. i \in DOMAIN taking'[t] /\ taking'[t][i].image = 0 /\ e \in taking'[t][i].seen
          BY <1>3, <1>5, <1>7, <5>1, <5>2, <5>3
        <5> QED
          BY <5>4 DEF Snapped
      <4> QED
        BY <2>1, <3>2, <3>3, <3>5, <4>1, <4>2 DEF Owed
    <3>6. CASE How(e) # "resize" /\ left(e)
      <4>1. lost'[e] \in {"left", "failed"}
        BY <1>10, <3>6
      <4>2. How(e) = "picture" => Painted(t, e)
        BY <2>1, <3>6 DEF TabInv, Images
      <4> QED
        BY <3>1, <3>6, <4>1, <4>2 DEF GivenUp
    <3>7. CASE How(e) # "resize" /\ ~left(e)
      <4>1. e \notin screen[t] /\ lost'[e] = lost[e]
        BY <1>10, <2>1, <3>1, <3>7
      <4>2. CASE Snapped(t, e)
        <5>1. PICK i \in 1..n : IF taking[t][i].image = 0 THEN e \in taking[t][i].seen
                                ELSE e = taking[t][i].image
          BY <1>5, <4>2 DEF Snapped
        <5>2. /\ i \in DOMAIN taking'[t] /\ taking'[t][i].image = taking[t][i].image
              /\ e \in taking[t][i].seen => e \in taking'[t][i].seen
          <6>1. i \in DOMAIN all /\ all[i] = taking[t][i]
            BY <1>5
          <6>2. \/ taking'[t][i].seen = Blocks(taking[t][i].seen) \cup Sizes(screen[t])
                \/ taking'[t][i].seen = taking[t][i].seen
            BY <1>7, <6>1
          <6>3. taking'[t][i].image = taking[t][i].image
            BY <1>7, <6>1
          <6> QED
            BY <1>3, <3>7, <6>1, <6>2, <6>3 DEF Blocks, Sizes
        <5> QED
          BY <5>1, <5>2 DEF Snapped
      <4> QED
        BY <2>1, <3>2, <3>3, <3>7, <4>1, <4>2 DEF Owed
    <3> QED
      BY <3>4, <3>5, <3>6, <3>7
  <2> QED
    BY <1>2, <1>4, <1>23, <2>1 DEF Accounted, Owed, By
<1>20. Same(t)'
  BY <1>15, <1>23 DEF Same
<1>21. Idles(t)' /\ Stacked(t)'
  BY <1>8 DEF Idles, Stacked
<1> QED
  BY <1>11, <1>12, <1>14, <1>16, <1>17, <1>18, <1>19, <1>20, <1>21 DEF Keeps, TabInv

-----------------------------------------------------------------------------
\* What every tab keeps whichever acts.
EditorKept == StoreKnown' /\ \A u \in Tabs : TabInv(u)'

LEMMA KeepsAll ==
  ASSUME TypeOK, StoreKnown, \A u \in Tabs : TabInv(u), NEW t \in Tabs, Keeps(t)
  PROVE  EditorKept
<1>1. \A u \in Tabs \ {t} : TabInv(u)'
  BY OthersKeep DEF Keeps
<1> QED
  BY <1>1 DEF Keeps, EditorKept

\* An answer, or the guard coming down, disturbs no panel.
LEMMA QuietKeeps ==
  ASSUME StoreKnown, \A u \in Tabs : TabInv(u),
         net' \subseteq net,
         \A i \in DOMAIN rows' : (\E n \in net : rows'[i] = n.doc) \/ \E j \in DOMAIN rows : rows'[i] = rows[j],
         UNCHANGED <<made, sent, screen, file, last, hist, taking, drawing, lost, parted>>,
         UNCHANGED open, UNCHANGED dirty, UNCHANGED timer, UNCHANGED mixed
  PROVE  EditorKept
<1>1. StoreKnown'
  BY DEF StoreKnown, Edits, How
<1>2. ASSUME NEW u \in Tabs PROVE TabInv(u)'
  <2>1. TabInv(u)
    OBVIOUS
  <2>2. /\ Live(u)' = Live(u) /\ Fresh(u)' = Fresh(u) /\ Ords(u)' = Ords(u)
        /\ LiveDocs(u)' = LiveDocs(u) /\ FreshDocs(u)' = FreshDocs(u)
        /\ Edits' = Edits /\ \A e : By(e)' = By(e) /\ How(e)' = How(e)
    BY LiveSets DEF Edits, By, How
  <2>3. TabKnown(u)'
    BY <2>1, <2>2 DEF TabInv, TabKnown
  <2>4. Closes(u)'
    BY <2>1, <2>2 DEF TabInv, Closes
  <2>5. \A e : Painted(u, e)' = Painted(u, e) /\ Snapped(u, e)' = Snapped(u, e) /\ GivenUp(e)' = GivenUp(e)
    BY <2>2 DEF Painted, Snapped, GivenUp
  <2>6. Images(u)'
    BY <2>1, <2>2, <2>5 DEF TabInv, Images
  <2>7. SizesStay(u)'
    BY <2>1, <2>2 DEF TabInv, SizesStay
  <2>8. Accounted(u)'
    BY <2>1, <2>2, <2>5 DEF TabInv, Accounted, Owed
  <2>9. Stacked(u)'
    BY <2>1, <2>2 DEF TabInv, Stacked, Agree
  <2>10. Same(u)'
    BY <2>1, <2>2 DEF TabInv, Same, Within
  <2>11. Idles(u)'
    BY <2>1, <2>2 DEF TabInv, Idles, Within
  <2> QED
    BY <2>3, <2>4, <2>6, <2>7, <2>8, <2>9, <2>10, <2>11 DEF TabInv
<1> QED
  BY <1>1, <1>2 DEF EditorKept

LEMMA EditorKeeps ==
  ASSUME TypeOK, StoreKnown, \A u \in Tabs : TabInv(u), EditorStep
  PROVE  EditorKept
<1>1. ASSUME NEW t \in Tabs, Mount(t) PROVE EditorKept
  BY <1>1, MountKeeps, KeepsAll
<1>2. ASSUME NEW t \in Tabs, Type(t) PROVE EditorKept
  <2>1. /\ Make(t, "type") /\ screen' = [screen EXCEPT ![t] = @ \cup {Len(made')}]
        /\ UNCHANGED <<sent, rows, net, file, last, hist, taking, drawing, lost, parted>>
        /\ UNCHANGED open
        /\ UNCHANGED mixed
        /\ UNCHANGED timer
        /\ dirty' = [dirty EXCEPT ![t] = TRUE]
    BY <1>2 DEF Type
  <2>2. dirty'[t]
    BY <2>1 DEF TypeOK, EditorTypeOK
  <2>3. \A u \in Tabs \ {t} : dirty'[u] = dirty[u]
    BY <2>1 DEF TypeOK, EditorTypeOK
  <2>4. \A u \in Tabs : timer'[u] = timer[u]
    BY <2>1
  <2>5. open[t]
    BY <2>1 DEF Make
  <2>6. Keeps(t)
    BY <2>1, <2>2, <2>3, <2>4, <2>5, MakeKeeps
  <2> QED
    BY <2>6, KeepsAll
<1>3. ASSUME NEW t \in Tabs, Resize(t) PROVE EditorKept
  <2>1. /\ Make(t, "resize") /\ screen' = [screen EXCEPT ![t] = @ \cup {Len(made')}]
        /\ UNCHANGED <<sent, rows, net, file, last, hist, taking, drawing, lost, parted>>
        /\ UNCHANGED open
        /\ UNCHANGED mixed
        /\ UNCHANGED dirty
        /\ timer' = [timer EXCEPT ![t] = TRUE]
    BY <1>3 DEF Resize
  <2>2. timer'[t]
    BY <2>1 DEF TypeOK, EditorTypeOK
  <2>3. \A u \in Tabs \ {t} : timer'[u] = timer[u]
    BY <2>1 DEF TypeOK, EditorTypeOK
  <2>4. \A u \in Tabs : dirty'[u] = dirty[u]
    BY <2>1
  <2>5. open[t]
    BY <2>1 DEF Make
  <2>6. Keeps(t)
    BY <2>1, <2>2, <2>3, <2>4, <2>5, MakeKeeps
  <2> QED
    BY <2>6, KeepsAll
<1>4. ASSUME NEW t \in Tabs, OnChange(t) PROVE EditorKept
  <2>1. CASE guard[t]
    BY <1>4, <2>1, IgnoreKeeps, KeepsAll
  <2>2. CASE ~guard[t]
    <3>1. /\ open[t] /\ dirty' = [dirty EXCEPT ![t] = FALSE]
          /\ taking' = [taking EXCEPT ![t] = Begin(t, 0)]
          /\ UNCHANGED <<made, sent, rows, net, screen, file, last, hist, drawing, lost, parted>>
          /\ UNCHANGED open
          /\ UNCHANGED mixed
          /\ UNCHANGED timer
      BY <1>4, <2>2 DEF OnChange, shared
    <3>2. \A u \in Tabs \ {t} : dirty'[u] = dirty[u]
      BY <3>1 DEF TypeOK, EditorTypeOK
    <3>3. \A u \in Tabs \ {t} : timer'[u] = timer[u]
      BY <3>1
    <3>4. 0 \in 0..MaxEdits /\ Edits' = Edits /\ \A e \in Edits : made'[e] = made[e]
      BY <3>1, PanelBounds DEF Edits
    <3>5. Keeps(t)
      BY <3>1, <3>2, <3>3, <3>4, BeginKeeps
    <3> QED
      BY <3>5, KeepsAll
  <2> QED
    BY <2>1, <2>2
<1>5. ASSUME NEW t \in Tabs, SaveTimeout(t) PROVE EditorKept
  <2>1. /\ open[t] /\ timer' = [timer EXCEPT ![t] = FALSE]
        /\ taking' = [taking EXCEPT ![t] = Begin(t, 0)]
        /\ UNCHANGED <<made, sent, rows, net, screen, file, last, hist, drawing, lost, parted>>
        /\ UNCHANGED open
        /\ UNCHANGED mixed
        /\ UNCHANGED dirty
    BY <1>5 DEF SaveTimeout, shared
  <2>2. \A u \in Tabs \ {t} : timer'[u] = timer[u]
    BY <2>1 DEF TypeOK, EditorTypeOK
  <2>3. \A u \in Tabs \ {t} : dirty'[u] = dirty[u]
    BY <2>1
  <2>4. 0 \in 0..MaxEdits /\ Edits' = Edits /\ \A e \in Edits : made'[e] = made[e]
    BY <2>1, PanelBounds DEF Edits
  <2>5. Keeps(t)
    BY <2>1, <2>2, <2>3, <2>4, BeginKeeps
  <2> QED
    BY <2>5, KeepsAll
<1>6. ASSUME NEW t \in Tabs, SaveClick(t) PROVE EditorKept
  <2>1. /\ open[t]
        /\ taking' = [taking EXCEPT ![t] = Begin(t, 0)]
        /\ UNCHANGED <<made, sent, rows, net, screen, file, last, hist, drawing, lost, parted>>
        /\ UNCHANGED open
        /\ UNCHANGED mixed
        /\ UNCHANGED dirty
        /\ UNCHANGED timer
    BY <1>6 DEF SaveClick, Click
  <2>2. 0 \in 0..MaxEdits /\ Edits' = Edits /\ \A e \in Edits : made'[e] = made[e]
    BY <2>1, PanelBounds DEF Edits
  <2>3. Keeps(t)
    BY <2>1, <2>2, BeginKeeps
  <2> QED
    BY <2>3, KeepsAll
<1>7. ASSUME NEW t \in Tabs, EditImage(t) PROVE EditorKept
  <2>1. /\ Make(t, "picture")
        /\ taking' = [taking EXCEPT ![t] = Begin(t, Len(made'))]
        /\ UNCHANGED <<sent, rows, net, screen, file, last, hist, drawing, lost, parted>>
        /\ UNCHANGED open
        /\ UNCHANGED mixed
        /\ UNCHANGED dirty
        /\ UNCHANGED timer
    BY <1>7 DEF EditImage
  <2>2. PICK new : new = Len(made')
    OBVIOUS
  <2>3. /\ new \in 1..MaxEdits /\ Edits' = Edits \cup {new} /\ new \notin Edits
        /\ \A e \in Edits : made'[e] = made[e]
        /\ made'[new] = [by |-> t, how |-> "picture"]
    BY <2>1, <2>2, Grows DEF TypeOK
  <2>4. new # 0 /\ new \in 0..MaxEdits /\ made'[new].by = t /\ made'[new].how = "picture"
    BY <2>3, PanelBounds
  <2>5. Edits' = Edits \cup ({new} \ {0})
    BY <2>3, <2>4
  <2>6. taking' = [taking EXCEPT ![t] = Begin(t, new)] /\ open[t]
    BY <2>1, <2>2 DEF Make
  <2>7. Keeps(t)
    BY <2>1, <2>3, <2>4, <2>5, <2>6, BeginKeeps
  <2> QED
    BY <2>7, KeepsAll
<1>8. ASSUME NEW t \in Tabs, Save(t) PROVE EditorKept
  BY <1>8, SaveKeeps, KeepsAll
<1>9. ASSUME NEW t \in Tabs, SaveImage(t) PROVE EditorKept
  BY <1>9, SaveImageKeeps, KeepsAll
<1>15. ASSUME NEW t \in Tabs, SnapshotFails(t) PROVE EditorKept
  BY <1>15, SnapshotFailsKeeps, KeepsAll
<1>16. ASSUME NEW t \in Tabs, DrawImage(t) PROVE EditorKept
  BY <1>16, DrawImageKeeps, KeepsAll
<1>17. ASSUME NEW t \in Tabs, ImageUndrawn(t) PROVE EditorKept
  BY <1>17, ImageUndrawnKeeps, KeepsAll
<1>10. ASSUME NEW t \in Tabs, ClearGuard(t) PROVE EditorKept
  <2>1. /\ UNCHANGED <<net, rows, made, sent, screen, file, last, hist, taking, drawing, lost, parted>>
        /\ UNCHANGED open
        /\ UNCHANGED dirty
        /\ UNCHANGED timer
        /\ UNCHANGED mixed
    BY <1>10 DEF ClearGuard, shared
  <2> QED
    BY <2>1, QuietKeeps
<1>11. ASSUME NEW t \in Tabs, Push(t) PROVE EditorKept
  BY <1>11, PushKeeps, KeepsAll
<1>12. ASSUME NEW t \in Tabs, Undo(t) \/ Redo(t) PROVE EditorKept
  <2>1. Keeps(t)
    BY <1>12, TravelKeeps DEF Undo, Redo
  <2> QED
    BY <2>1, KeepsAll
<1>13. ASSUME NEW t \in Tabs, Leave(t) PROVE EditorKept
  BY <1>13, LeaveKeeps, KeepsAll
<1>14. ASSUME NEW n \in net, NEW stored \in BOOLEAN, SaveAnswered(n, stored) PROVE EditorKept
  <2>1. /\ Answer(n, stored)
        /\ UNCHANGED dirty
        /\ UNCHANGED timer
        /\ UNCHANGED mixed
        /\ UNCHANGED <<taking, drawing, hist, lost, parted>>
    BY <1>14 DEF SaveAnswered
  <2>2. /\ net' \subseteq net
        /\ \A i \in DOMAIN rows' : rows'[i] = n.doc \/ \E j \in DOMAIN rows : rows'[i] = rows[j]
        /\ UNCHANGED <<view, plan, made, file, open, screen, last, sent, pushes, mounts, clicks>>
    BY <2>1, AnswerKnown DEF TypeOK
  <2> QED
    BY <2>1, <2>2, QuietKeeps
<1> QED
  BY <1>1, <1>2, <1>3, <1>4, <1>5, <1>6, <1>7, <1>8, <1>9, <1>10, <1>11, <1>12, <1>13, <1>14,
     <1>15, <1>16, <1>17 DEF EditorStep

\* The invariant of a page that shows the document.
EditorInv == TypeOK /\ (view = "document" => StoreKnown /\ \A t \in Tabs : TabInv(t))

LEMMA EditorInitially == Init => EditorInv
<1> SUFFICES ASSUME Init PROVE EditorInv
  OBVIOUS
<1>1. Edits = {} /\ Empty.edits = {} /\ DOMAIN <<>> = {} /\ DOMAIN <<Empty>> = {1} /\ <<Empty>>[1] = Empty
  BY DEF Init, SharedInit, Edits, Empty
<1>2. StoreKnown
  BY <1>1 DEF Init, SharedInit, EditorInit, StoreKnown
<1>3. ASSUME NEW t \in Tabs PROVE TabInv(t)
  <2>1. /\ screen[t] = {} /\ file[t] = Empty /\ last[t] = Empty
        /\ hist[t] = <<>> /\ taking[t] = <<>> /\ drawing[t] = <<>>
        /\ ~open[t]
        /\ ~dirty[t]
        /\ ~timer[t]
    BY DEF Init, SharedInit, EditorInit
  <2>2. Live(t) = {} /\ Fresh(t) = {} /\ Ords(t) = {} /\ LiveDocs(t) = {} /\ FreshDocs(t) = {}
    BY <1>1, <2>1 DEF Live, Fresh, Ords, LiveDocs, FreshDocs
  <2> QED
    BY <1>1, <2>1, <2>2 DEF TabInv, TabKnown, Closes, Images, SizesStay, Accounted, Stacked, Same, Idles
<1> QED
  BY <1>2, <1>3, InitType DEF EditorInv

LEMMA EditorInductive == EditorInv /\ [Next]_vars => EditorInv'
<1> SUFFICES ASSUME EditorInv, [Next]_vars, view = "document"
             PROVE  (StoreKnown /\ \A t \in Tabs : TabInv(t))'
  BY StepType, ViewStays DEF EditorInv
<1>1. CASE EditorStep
  BY <1>1, EditorKeeps DEF EditorInv, EditorKept
<1>2. CASE UNCHANGED vars
  <2>1. /\ UNCHANGED <<net, rows, made, sent, screen, file, last, hist, taking, drawing, lost, parted>>
        /\ UNCHANGED open
        /\ UNCHANGED dirty
        /\ UNCHANGED timer
        /\ UNCHANGED mixed
    BY <1>2 DEF vars, shared, editor
  <2> QED
    BY <2>1, QuietKeeps DEF EditorInv, EditorKept
<1> QED
  BY <1>1, <1>2 DEF Next

\* Every edit reaches a save, is waiting to, or was given up for a known reason.
THEOREM EditsReachSaves == Spec => []EditsAreSaved
<1>1. EditorInv => EditsAreSaved
  <2> SUFFICES ASSUME EditorInv, view = "document", NEW e \in Edits
               PROVE  LET t == By(e) IN
                        \/ e \in sent
                        \/ e \in screen[t] /\ How(e) = "type" /\ dirty[t]
                        \/ e \in screen[t] /\ How(e) = "resize" /\ timer[t]
                        \/ \E i \in DOMAIN taking[t] :
                             e \in (IF taking[t][i].image = 0 THEN taking[t][i].seen
                                    ELSE {taking[t][i].image})
                        \/ \E i \in DOMAIN drawing[t] : e \in drawing[t][i].doc.edits
                        \/ lost[e] \in MayBeLost[How(e)]
    BY DEF EditsAreSaved
  <2>1. By(e) \in Tabs
    BY EditorsAreTabs DEF EditorInv
  <2>2. /\ How(e) = "type" => MayBeLost[How(e)] = {"undone", "replaced", "ignored", "left", "failed"}
        /\ How(e) = "resize" => MayBeLost[How(e)] = {"undone", "swept", "failed"}
        /\ How(e) = "picture" => MayBeLost[How(e)] = {"gone", "undrawn", "failed"}
    BY DEF MayBeLost
  <2>3. Owed(By(e), e)
    BY <2>1 DEF EditorInv, TabInv, Accounted
  <2>4. GivenUp(e) => lost[e] \in MayBeLost[How(e)]
    BY <2>2 DEF GivenUp
  <2>5. Snapped(By(e), e) => \E i \in DOMAIN taking[By(e)] :
          e \in (IF taking[By(e)][i].image = 0 THEN taking[By(e)][i].seen
                 ELSE {taking[By(e)][i].image})
    BY DEF Snapped
  <2> QED
    BY <2>3, <2>4, <2>5 DEF Owed, Painted
<1> QED
  BY <1>1, EditorInitially, EditorInductive, PTL DEF Spec

\* An editor with nothing pending shows what its page holds.
THEOREM IdleEditorTrue == Spec => []IdleEditorShowsItsFile
<1>1. EditorInv => IdleEditorShowsItsFile
  <2> SUFFICES ASSUME EditorInv, NEW t \in Tabs, view = "document", open[t], ~Waiting(t),
                      parted[t] = {}, file[t] # Empty
               PROVE  screen[t] = file[t].edits
    BY DEF IdleEditorShowsItsFile
  <2>1. /\ taking[t] = <<>> /\ drawing[t] = <<>>
        /\ ~dirty[t]
        /\ ~timer[t]
    BY DEF Waiting
  <2>2. Ords(t) = {} /\ LiveDocs(t) = {}
    BY <2>1 DEF Live, Ords, LiveDocs
  <2> QED
    BY <2>1, <2>2 DEF EditorInv, TabInv, Idles
<1> QED
  BY <1>1, EditorInitially, EditorInductive, PTL DEF Spec

\* What undo or redo takes from the screen was made in the same tab.
UndoStep == \A t \in Tabs :
  at[t] # at'[t] /\ hist'[t] = hist[t] /\ ~mixed[t]
    => \A e \in screen[t] \ screen'[t] : By(e) = t

LEMMA OtherTab ==
  ASSUME TypeOK, NEW t \in Tabs, NEW u \in Tabs \ {t}, NEW i,
         at' = [at EXCEPT ![t] = i]
  PROVE  at'[u] = at[u]
  BY DEF TypeOK, EditorTypeOK

LEMMA OwnUndone == EditorInv /\ [Next]_vars => [UndoStep]_<<shared, editor>>
<1> SUFFICES ASSUME EditorInv, [Next]_vars, NEW t \in Tabs,
                    at[t] # at'[t], hist'[t] = hist[t], ~mixed[t],
                    NEW e \in screen[t], e \notin screen'[t]
             PROVE  By(e) = t
  BY DEF UndoStep
<1>1. TypeOK /\ at' # at
  BY DEF EditorInv
<1>2. view = "document" /\ EditorStep
  BY <1>1 DEF Next, vars, editor
<1>3. TabInv(t) /\ StoreKnown /\ e \in Edits
  BY <1>2 DEF EditorInv, TabInv, TabKnown
<1>4. CASE \E u \in Tabs : Mount(u) \/ Leave(u)
  <2>1. PICK u \in Tabs : Mount(u) \/ Leave(u)
    BY <1>4
  <2>2. u = t
    <3>1. \E i : at' = [at EXCEPT ![u] = i]
      BY <2>1 DEF Mount, Leave
    <3> QED
      BY <1>1, <3>1, OtherTab
  <2>3. CASE Mount(t)
    BY <1>3, <2>3 DEF Mount, Open, TabInv, Closes
  <2>4. CASE Leave(t)
    <3>1. hist[t] = <<>> /\ at'[t] = 0
      BY <1>1, <2>4 DEF Leave, TypeOK, EditorTypeOK
    <3>2. at[t] = 0
      BY <1>1, <3>1 DEF TypeOK, EditorTypeOK
    <3> QED
      BY <3>1, <3>2
  <2> QED
    BY <2>1, <2>2, <2>3, <2>4
<1>5. CASE \E u \in Tabs : Save(u)
  BY <1>5 DEF Save
<1>6. CASE \E u \in Tabs : Push(u)
  <2>1. PICK u \in Tabs, doc \in Rows, drawn \in BOOLEAN :
          /\ Render(u, doc, drawn, "replaced")
          /\ hist' = [hist EXCEPT ![u] = <<doc>>]
          /\ at' = [at EXCEPT ![u] = Len(hist'[u])]
    BY <1>1, <1>6 DEF Push, HistoryAfter
  <2>2. u = t
    BY <1>1, <2>1, OtherTab
  <2>3. hist[t] = <<doc>> /\ open[t]
    BY <1>1, <1>3, <2>1, <2>2 DEF TypeOK, EditorTypeOK, TabInv, Closes
  <2>4. 1 \in DOMAIN hist[t] /\ hist[t][1] = doc
    BY <2>3
  <2>5. screen'[t] = doc.edits \/ screen'[t] = Blocks(screen[t]) \cup Sizes(doc.edits)
    BY <1>1, <2>1, <2>2 DEF Render, TypeOK, SharedTypeOK
  <2>6. e \notin doc.edits
    BY <2>5 DEF Blocks, Sizes
  <2> QED
    BY <1>3, <2>3, <2>4, <2>6 DEF TabInv, Stacked, Agree
<1>7. CASE \E u \in Tabs : Undo(u) \/ Redo(u)
  <2>1. PICK u \in Tabs : \E to : Travel(u, to)
    BY <1>7 DEF Undo, Redo
  <2>2. PICK to : Travel(u, to)
    BY <2>1
  <2>3. u = t
    BY <1>1, <2>2, OtherTab DEF Travel
  <2>4. PICK drawn \in BOOLEAN :
          open[t] /\ to \in DOMAIN hist[t] /\ Render(t, hist[t][to], drawn, "undone")
    BY <2>2, <2>3 DEF Travel, Click
  <2>5. screen'[t] = hist[t][to].edits \/ screen'[t] = Blocks(screen[t]) \cup Sizes(hist[t][to].edits)
    BY <1>1, <2>4 DEF Render, TypeOK, SharedTypeOK
  <2>6. e \notin hist[t][to].edits
    BY <2>5 DEF Blocks, Sizes
  <2> QED
    BY <1>3, <2>4, <2>6 DEF TabInv, Stacked, Agree
<1>8. ASSUME NEW u \in Tabs,
             \/ Type(u) \/ Resize(u) \/ OnChange(u) \/ SaveTimeout(u) \/ SaveClick(u)
             \/ EditImage(u) \/ ClearGuard(u)
      PROVE  FALSE
  BY <1>1, <1>8 DEF Type, Resize, OnChange, SaveTimeout, SaveClick, EditImage, ClearGuard
<1>9. ASSUME NEW u \in Tabs, SnapshotFails(u) \/ DrawImage(u) \/ ImageUndrawn(u) \/ SaveImage(u)
      PROVE  FALSE
  <2>1. at' = at
    BY <1>9 DEF SnapshotFails, DrawImage, ImageUndrawn, SaveImage
  <2> QED
    BY <1>1, <2>1
<1>10. ASSUME NEW n \in net, NEW stored \in BOOLEAN, SaveAnswered(n, stored) PROVE FALSE
  BY <1>1, <1>10 DEF SaveAnswered
<1> QED
  BY <1>2, <1>4, <1>5, <1>6, <1>7, <1>8, <1>9, <1>10 DEF EditorStep

\* Undo and redo never take an edit of someone else from the screen, unless a
\* snapshot of an older screen was stacked or drawn, or a row that could not be
\* drawn was stacked.
THEOREM UndoTakesOwn == Spec => UndoKeepsOthers
<1>1. [][UndoStep]_<<shared, editor>> => UndoKeepsOthers
  BY DEF UndoStep, UndoKeepsOthers
<1> QED
  BY <1>1, EditorInitially, EditorInductive, OwnUndone, PTL DEF Spec
=============================================================================
