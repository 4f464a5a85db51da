------------------------------- MODULE Panels -------------------------------
(***************************************************************************)
(* What the two panels of a workspace page share: the copy of the file the *)
(* page holds (fileData), the saves on their way and the rows pushed back  *)
(* (useQuery and useMutation in state-sync/react.tsx).  A content is a set *)
(* of numbered edits.  The gateway's handlers interleave, so saves arrive, *)
(* and rows once saved are pushed, in any order (WsGateway has the detail).*)
(***************************************************************************)
EXTENDS Integers, Sequences, FiniteSets

CONSTANTS
  Tabs,         \* browser tabs on the file
  MaxEdits,     \* bound: edits made
  Plans,        \* what is done: [view, edits (in their order), pushes, clicks]
  Overtaken,    \* bound: saves stored while a push of an older row is on its way
  MaxFaults,    \* bound: saves refused, uploads failed
  MaxMounts     \* bound: panels opened

ASSUME PanelBounds == {MaxEdits, Overtaken, MaxFaults, MaxMounts} \subseteq Nat

Edit == [by : Tabs, how : {"type", "resize", "draw", "picture", "inline"}]

ASSUME PlansAssumption == \A p \in Plans :
  /\ p.view \in {"document", "canvas"}
  /\ p.edits \in Seq(Edit)
  /\ Len(p.edits) <= MaxEdits
  /\ {p.pushes, p.clicks} \subseteq Nat

VARIABLES
  view,     \* the panel the pages show: "document" or "canvas"
  plan,     \* the edits that will be made
  made,     \* the edits made so far
  rows,     \* the row, and before it what pushes on their way have read
  net,      \* saves not answered yet: [tab, doc, waits]
  file,     \* file[t]: fileData, the column the panel edits
  open,     \* open[t]: is the panel mounted?
  screen,   \* screen[t]: the edits it shows
  last,     \* last[t]: lastSavedDataRef
  sent,     \* history: the edits that were in a save
  pushes,   \* rows that will still be pushed
  mounts,   \* panels opened so far
  faults,   \* failures so far
  clicks    \* undo, redo and save clicks to come

shared == <<view, plan, made, rows, net, file, open, screen, last, sent, pushes, mounts, faults, clicks>>

Edits == 1..Len(made)
By(e) == made[e].by
How(e) == made[e].how

\* A document's string carries the time of its snapshot, so two snapshots
\* never compare equal; here the snapshot's number.  A board's does not; its
\* number tells an empty board from the empty column.
\* raw and links are the pictures stored in full and by the link.
Docs == [no : Nat, edits : SUBSET (1..MaxEdits),
         raw : SUBSET (1..MaxEdits), links : SUBSET (1..MaxEdits)]
Empty == [no |-> 0, edits |-> {}, raw |-> {}, links |-> {}]

SharedInit ==
  /\ \E p \in Plans : view = p.view /\ plan = p.edits /\ pushes = p.pushes /\ clicks = p.clicks
  /\ made = <<>>
  /\ rows = <<Empty>>
  /\ net = {}
  /\ file = [t \in Tabs |-> Empty]
  /\ open = [t \in Tabs |-> FALSE]
  /\ screen = [t \in Tabs |-> {}]
  /\ last = [t \in Tabs |-> Empty]
  /\ sent = {}
  /\ mounts = 0
  /\ faults = 0

SharedTypeOK ==
  /\ view \in {"document", "canvas"}
  /\ plan \in Seq(Edit) /\ Len(plan) <= MaxEdits
  /\ made \in Seq(Edit) /\ Len(made) <= Len(plan)
  /\ rows \in Seq(Docs)
  /\ net \subseteq [tab : Tabs, doc : Docs, waits : BOOLEAN]
  /\ file \in [Tabs -> Docs]
  /\ open \in [Tabs -> BOOLEAN]
  /\ screen \in [Tabs -> SUBSET (1..MaxEdits)]
  /\ last \in [Tabs -> Docs]
  /\ sent \subseteq 1..MaxEdits
  /\ pushes \in Nat
  /\ mounts \in 0..MaxMounts
  /\ faults \in 0..MaxFaults
  /\ clicks \in Nat

\* One more edit, made in tab t.
Make(t, how) ==
  /\ open[t] /\ Len(made) < Len(plan)
  /\ plan[Len(made) + 1] = [by |-> t, how |-> how]
  /\ made' = Append(made, [by |-> t, how |-> how])

\* useMutation shows the save at once, in the page's own copy, and sends it.
Send(t, doc, waits) ==
  /\ net' = net \cup {[tab |-> t, doc |-> doc, waits |-> waits]}
  /\ sent' = sent \cup doc.edits
  /\ file' = [file EXCEPT ![t] = doc]

\* The last n entries of a sequence.
Latest(seq, n) == IF Len(seq) <= n THEN seq ELSE SubSeq(seq, Len(seq) - n + 1, Len(seq))

Fail == faults < MaxFaults /\ faults' = faults + 1

\* The save is stored; refused, the page's copy stays as it is.
Answer(n, stored) ==
  /\ n \in net
  /\ net' = net \ {n}
  /\ IF stored THEN rows' = Latest(Append(rows, n.doc), Overtaken + 1) /\ UNCHANGED faults
                ELSE Fail /\ UNCHANGED rows
  /\ UNCHANGED <<view, plan, made, file, open, screen, last, sent, pushes, mounts, clicks>>

\* query-update: the row is read and sent to every subscriber, the sender too.
Arrive(t, doc) ==
  /\ open[t] /\ pushes > 0
  /\ pushes' = pushes - 1
  /\ file' = [file EXCEPT ![t] = doc]

Rows == {rows[i] : i \in DOMAIN rows}

\* The panel opens on a row, and shows some of it.
Open(t, doc, shown) ==
  /\ ~open[t] /\ mounts < MaxMounts
  /\ mounts' = mounts + 1
  /\ open' = [open EXCEPT ![t] = TRUE]
  /\ file' = [file EXCEPT ![t] = doc]
  /\ last' = [last EXCEPT ![t] = doc]
  /\ screen' = [screen EXCEPT ![t] = shown]

\* It goes, and its state with it.
Close(t) ==
  /\ open[t]
  /\ open' = [open EXCEPT ![t] = FALSE]
  /\ file' = [file EXCEPT ![t] = Empty]
  /\ last' = [last EXCEPT ![t] = Empty]
  /\ screen' = [screen EXCEPT ![t] = {}]

Click(t) == open[t] /\ clicks > 0 /\ clicks' = clicks - 1
=============================================================================
