----------------------------- MODULE RowsProofs -----------------------------
(***************************************************************************)
(* Theorems about DatasetRows for every choice of its constants, checked   *)
(* with TLAPS.                                                             *)
(***************************************************************************)
EXTENDS DatasetRows, TLAPS

-----------------------------------------------------------------------------
(* The inductive invariant *)

Working == {"check", "bisync", "device", "scan", "count", "record"}
Removing == {"delete", "purge"}

\* A restore knows its rows only while it goes through them, and what is gone is not paused.
RowsPlain ==
  /\ restore.pc # "rows" => restore.left = {}
  /\ \A d \in Ids : row[d].there \/ ~row[d].paused

\* A row that says "syncing" has a run, or was listed as interrupted; and what a run that
\* meets a lock will write is not "syncing".
NotStuck(d) ==
  d \notin excused \cup unwritten /\ row[d].there /\ row[d].status = "syncing" =>
    \/ run[d].pc \in Working
    \/ restore.pc = "list" \/ d \in restore.left \cap restore.reset

SyncingInv ==
  \A d \in Ids : NotStuck(d) /\ run[d].before \in {"synced", "conflict", "waiting"}

\* A run past its first look at the row, and a thread about to register the computer, have a
\* row, or have outlived it.
OutlivedInv ==
  /\ \A d \in Ids : run[d].pc \in Working => row[d].there \/ d \in outlived
  /\ \A c \in Clients : At(c, Adding, 2) => row[cmd[c].id].there \/ cmd[c].id \in outlived

\* One dataset for the folder, one thread that moves it: all others are superseded.
OneMover ==
  \A c, e \in Clients :
    cmd[c].op \in Moves /\ cmd[e].op \in Moves /\ cmd[c].id = cmd[e].id =>
      c = e \/ cmd[c].id \in superseded
OneRow ==
  /\ \A d, e \in Ids : row[d].there /\ row[e].there => d = e \/ d \in superseded
  /\ \A d, e \in Ids : row[d].there /\ note = e => d = e \/ e \in superseded

\* What a thread that moves the dataset knows of it, as long as it is the only one.
KnowsRow(c) ==
  cmd[c].op \in Removing \/ (cmd[c].op \in Adding /\ cmd[c].pc \in 2 .. 4) =>
    row[cmd[c].id].there
ThreadInv ==
  \A c \in Clients : cmd[c].id \notin superseded =>
    /\ KnowsRow(c)
    /\ cmd[c].op = "purge" => cmd[c].pc < 3
    /\ At(c, {"delete"}, 4) => note = cmd[c].id

\* A dataset that has data in R2, or may still write some, has its row or the note.
RememberedInv ==
  \A d \in Ids \ superseded :
    d \in remote \/ run[d].pc \in Working => row[d].there \/ note = d

NoteInv == OneMover /\ OneRow /\ ThreadInv /\ RememberedInv

\* A thread that will ask for a run, or remove the row, whatever it meets.
Committed(c) ==
  \/ cmd[c].op \in Resolutions /\ cmd[c].pc \in 4 .. 6
  \/ cmd[c].op \in Moves /\ cmd[c].pc \in 2 .. 4

\* A run that has not read the row yet is certain to come.
Coming(d) == d \in pending \/ \E c \in Clients : Committed(c) /\ cmd[c].id = d

Owed(d) ==
  \/ run[d].pc = "load" \/ run[d].pc \in Working
  \/ Coming(d) \/ d \in deferred
  \/ restore.pc = "list" \/ d \in restore.left \cap restore.defer

Settled(d) ==
  /\ row[d].status = "conflict" => Open(d) # {}
  /\ row[d].status = "synced" => Open(d) = {}

\* A status that does not tell the conflicts is owed a run; and what a run has counted is
\* what is open, or another run is certain to come behind it, or was and is cancelled.
StatusTells(d) ==
  d \notin excused \cup unwritten /\ row[d].there => Settled(d) \/ Owed(d)
CountTells(d) ==
  row[d].there /\ run[d].pc = "record" /\ run[d].outcome \in {"success", "failed"} =>
    (run[d].open <=> Open(d) # {}) \/ Coming(d) \/ d \in excused \cap cancelled
SettlesInv == \A d \in Ids : StatusTells(d) /\ CountTells(d)

\* The conflict a thread resolves is one of its dataset's.
ResolvingInv ==
  \A c \in Clients : cmd[c].op \in Resolutions =>
    /\ cmd[c].k \in ConflictIds
    /\ conflict[cmd[c].k].state # "none" /\ conflict[cmd[c].k].ds = cmd[c].id

Inv ==
  /\ TypeOK /\ RowsPlain /\ SyncingInv /\ OutlivedInv /\ OrphansOutlived /\ NoteInv
  /\ SettlesInv /\ ResolvingInv

-----------------------------------------------------------------------------
(* The types *)

RunStates == [pc: RunPCs, before: Statuses, outcome: Outcomes, open: BOOLEAN]
CmdStates == [op: Commands \cup {"none"}, pc: 0 .. 6, id: Ids, status: Statuses,
              known: BOOLEAN, k: 0 .. MaxConflicts]

LEMMA RowFacts ==
  /\ NoRow \in Rows /\ ~NoRow.there /\ ~NoRow.paused
  /\ NewRow \in Rows /\ NewRow.there /\ ~NewRow.paused /\ NewRow.status = "waiting"
BY DEF Rows, NoRow, NewRow, Statuses

\* A row with another status; a row as the dialogs write it.
LEMMA RowEdits ==
  /\ \A r \in Rows, s \in Statuses :
       /\ [r EXCEPT !.status = s] \in Rows
       /\ [r EXCEPT !.status = s].there = r.there
       /\ [r EXCEPT !.status = s].paused = r.paused
       /\ [r EXCEPT !.status = s].status = s
  /\ \A p \in BOOLEAN, s \in Statuses :
       /\ [NewRow EXCEPT !.paused = p, !.status = s] \in Rows
       /\ [NewRow EXCEPT !.paused = p, !.status = s].there
       /\ [NewRow EXCEPT !.paused = p, !.status = s].paused = p
       /\ [NewRow EXCEPT !.paused = p, !.status = s].status = s
<1>1. ASSUME NEW r \in Rows, NEW s \in Statuses
      PROVE  /\ [r EXCEPT !.status = s] \in Rows
             /\ [r EXCEPT !.status = s].there = r.there
             /\ [r EXCEPT !.status = s].paused = r.paused
             /\ [r EXCEPT !.status = s].status = s
  BY DEF Rows, Statuses
<1>2. ASSUME NEW p \in BOOLEAN, NEW s \in Statuses
      PROVE  /\ [NewRow EXCEPT !.paused = p, !.status = s] \in Rows
             /\ [NewRow EXCEPT !.paused = p, !.status = s].there
             /\ [NewRow EXCEPT !.paused = p, !.status = s].paused = p
             /\ [NewRow EXCEPT !.paused = p, !.status = s].status = s
  BY DEF Rows, NoRow, NewRow, Statuses
<1>. QED  BY <1>1, <1>2

RowPart == row \in [Ids -> Rows] /\ \A d \in Ids : row[d].there \/ ~row[d].paused
StorePart ==
  /\ device \subseteq Ids /\ remote \subseteq Ids /\ note \in Ids \cup {NoId}
  /\ disk \subseteq Copies \cup {Original}
ConflictPart == conflict \in [ConflictIds -> ConflictRows]
RunPart ==
  /\ run \in [Ids -> RunStates]
  /\ pending \subseteq {d \in Ids : run[d].pc # "idle"}
  /\ deferred \subseteq Ids /\ cancelled \subseteq Ids
CmdPart == cmd \in [Clients -> CmdStates]
RestorePart ==
  /\ restore \in [pc: {"list", "rows", "done"}, reset: SUBSET Ids, defer: SUBSET Ids,
                  left: SUBSET Ids]
  /\ restore.pc # "rows" => restore.left = {}
CountPart ==
  /\ commands \in 0 .. MaxEvents /\ crashes \in 0 .. MaxCrashes
  /\ excused \subseteq Ids /\ unwritten \subseteq Ids
  /\ outlived \subseteq Ids /\ superseded \subseteq Ids

Base == TypeOK /\ RowsPlain

LEMMA BaseParts ==
  Base <=> /\ RowPart /\ StorePart /\ ConflictPart /\ RunPart /\ CmdPart /\ RestorePart
           /\ CountPart
<1>1. Base => /\ RowPart /\ StorePart /\ ConflictPart /\ RunPart /\ CmdPart /\ RestorePart
              /\ CountPart
  BY Zenon DEF Base, TypeOK, RowsPlain, RowPart, StorePart, ConflictPart, RunPart, CmdPart, RestorePart,
         CountPart, RunStates, CmdStates
<1>2. RowPart /\ StorePart /\ ConflictPart /\ RunPart /\ CmdPart /\ RestorePart /\ CountPart
      => Base
  BY Zenon DEF Base, TypeOK, RowsPlain, RowPart, StorePart, ConflictPart, RunPart, CmdPart, RestorePart,
         CountPart, RunStates, CmdStates
<1>. QED  BY <1>1, <1>2

LEMMA PartsAfter ==
  RowPart' /\ StorePart' /\ ConflictPart' /\ RunPart' /\ CmdPart' /\ RestorePart' /\ CountPart'
    => Base'
BY BaseParts, PTL

LEMMA Untouched ==
  ASSUME Base
  PROVE  /\ UNCHANGED row => RowPart'
         /\ UNCHANGED <<device, note, remote, disk>> => StorePart'
         /\ UNCHANGED conflict => ConflictPart'
         /\ UNCHANGED <<run, queue>> => RunPart'
         /\ UNCHANGED cmd => CmdPart'
         /\ UNCHANGED restore => RestorePart'
         /\ UNCHANGED <<counts, history>> => CountPart'
<1>1. RowPart /\ StorePart /\ ConflictPart /\ RunPart /\ CmdPart /\ RestorePart /\ CountPart
  BY BaseParts
<1>2. UNCHANGED row => RowPart'
  BY <1>1 DEF RowPart
<1>3. UNCHANGED <<device, note, remote, disk>> => StorePart'
  BY <1>1 DEF StorePart
<1>4. UNCHANGED conflict => ConflictPart'
  BY <1>1 DEF ConflictPart
<1>5. UNCHANGED <<run, queue>> => RunPart'
  BY <1>1 DEF RunPart, queue
<1>6. UNCHANGED cmd => CmdPart'
  BY <1>1, Zenon DEF CmdPart
<1>7. UNCHANGED restore => RestorePart'
  BY <1>1 DEF RestorePart
<1>8. UNCHANGED <<counts, history>> => CountPart'
  BY <1>1 DEF CountPart, counts, history
<1>. QED  BY <1>2, <1>3, <1>4, <1>5, <1>6, <1>7, <1>8

\* The fields of the state.
LEMMA Fields ==
  ASSUME Base
  PROVE  /\ \A d \in Ids : /\ row[d] \in Rows /\ row[d].status \in Statuses
                           /\ row[d].there \/ ~row[d].paused
                           /\ run[d] \in RunStates /\ run[d].pc \in RunPCs
                           /\ run[d].before \in Statuses /\ run[d].outcome \in Outcomes
         /\ \A c \in Clients : /\ cmd[c] \in CmdStates /\ cmd[c].id \in Ids
                               /\ cmd[c].status \in Statuses /\ cmd[c].pc \in 0 .. 6
                               /\ cmd[c].op \in Commands \cup {"none"}
<1>1. RowPart /\ RunPart /\ CmdPart
  BY BaseParts
<1>2. \A d \in Ids : row[d] \in Rows /\ row[d].status \in Statuses
                     /\ (row[d].there \/ ~row[d].paused)
  BY <1>1 DEF RowPart, Rows
<1>3. \A d \in Ids : /\ run[d] \in RunStates /\ run[d].pc \in RunPCs
                     /\ run[d].before \in Statuses /\ run[d].outcome \in Outcomes
  BY <1>1 DEF RunPart, RunStates
<1>4. \A c \in Clients : /\ cmd[c] \in CmdStates /\ cmd[c].id \in Ids
                         /\ cmd[c].status \in Statuses /\ cmd[c].pc \in 0 .. 6
                         /\ cmd[c].op \in Commands \cup {"none"}
  BY <1>1 DEF CmdPart, CmdStates
<1>. QED  BY <1>2, <1>3, <1>4

\* A status is written: nothing else of the row changes, and nothing if there is no row.
LEMMA StatusWritten ==
  ASSUME Base, NEW d \in Ids, NEW s \in Statuses, row' = WithStatus(d, s)
  PROVE  /\ RowPart'
         /\ \A e \in Ids : row'[e].there = row[e].there /\ row'[e].paused = row[e].paused
         /\ \A e \in Ids \ {d} : row'[e] = row[e]
         /\ row[d].there => row'[d].status = s
         /\ ~row[d].there => row'[d] = row[d]
<1>1. row \in [Ids -> Rows] /\ row[d] \in Rows
  BY BaseParts DEF RowPart
<1>2. /\ [row[d] EXCEPT !.status = s] \in Rows
      /\ [row[d] EXCEPT !.status = s].there = row[d].there
      /\ [row[d] EXCEPT !.status = s].paused = row[d].paused
      /\ [row[d] EXCEPT !.status = s].status = s
  BY <1>1, RowEdits
<1>3. row' = IF row[d].there THEN [row EXCEPT ![d] = [row[d] EXCEPT !.status = s]] ELSE row
  BY DEF WithStatus, Updated
<1> DEFINE r == [row[d] EXCEPT !.status = s]
<1> HIDE DEF r
<1>4. /\ row' \in [Ids -> Rows]
      /\ \A e \in Ids : row'[e] = IF e = d /\ row[d].there THEN r ELSE row[e]
  BY <1>1, <1>2, <1>3 DEF r
<1>. QED  BY <1>2, <1>4, BaseParts DEF RowPart, r

\* A whole row is written in the place of one that is there.
LEMMA RowReplaced ==
  ASSUME Base, NEW d \in Ids, NEW r \in Rows, r.there, row' = Updated(d, r)
  PROVE  /\ RowPart'
         /\ \A e \in Ids : row'[e].there = row[e].there
         /\ \A e \in Ids \ {d} : row'[e] = row[e]
         /\ row[d].there => row'[d] = r
         /\ ~row[d].there => row'[d] = row[d]
<1>1. row \in [Ids -> Rows]
  BY BaseParts DEF RowPart
<1>2. /\ row' \in [Ids -> Rows]
      /\ \A e \in Ids : row'[e] = IF e = d /\ row[d].there THEN r ELSE row[e]
  BY <1>1 DEF Updated
<1>3. \A e \in Ids : row'[e].there = row[e].there
  <2> SUFFICES ASSUME NEW e \in Ids PROVE row'[e].there = row[e].there
    OBVIOUS
  <2>1. row[e].there \in BOOLEAN /\ r.there \in BOOLEAN
    BY <1>1 DEF Rows
  <2>. QED  BY <1>2, <2>1
<1>4. RowPart'
  BY <1>2, BaseParts DEF RowPart
<1>. QED  BY <1>2, <1>3, <1>4

-----------------------------------------------------------------------------
(* What the steps do to a run and to a thread *)

LEMMA RunEdits ==
  /\ IdleRun \in RunStates /\ IdleRun.pc = "idle" /\ IdleRun.before = "waiting"
  /\ \A p \in RunPCs : /\ [IdleRun EXCEPT !.pc = p] \in RunStates
                       /\ [IdleRun EXCEPT !.pc = p].pc = p
                       /\ [IdleRun EXCEPT !.pc = p].before = "waiting"
  /\ \A r \in RunStates, p \in RunPCs :
       /\ [r EXCEPT !.pc = p] \in RunStates
       /\ [r EXCEPT !.pc = p].pc = p
       /\ [r EXCEPT !.pc = p].before = r.before
       /\ [r EXCEPT !.pc = p].outcome = r.outcome
       /\ [r EXCEPT !.pc = p].open = r.open
<1>1. IdleRun \in RunStates /\ IdleRun.pc = "idle" /\ IdleRun.before = "waiting"
  BY DEF IdleRun, RunStates, RunPCs, Statuses, Outcomes
<1>2. ASSUME NEW r \in RunStates, NEW p \in RunPCs
      PROVE  /\ [r EXCEPT !.pc = p] \in RunStates
             /\ [r EXCEPT !.pc = p].pc = p
             /\ [r EXCEPT !.pc = p].before = r.before
             /\ [r EXCEPT !.pc = p].outcome = r.outcome
             /\ [r EXCEPT !.pc = p].open = r.open
  BY DEF RunStates
<1>. QED  BY <1>1, <1>2

LEMMA CmdEdits ==
  /\ IdleCmd \in CmdStates /\ IdleCmd.op = "none" /\ IdleCmd.pc = 0
  /\ \A r \in CmdStates, n \in 0 .. 6 :
       /\ [r EXCEPT !.pc = n] \in CmdStates
       /\ [r EXCEPT !.pc = n].pc = n
       /\ [r EXCEPT !.pc = n].op = r.op
       /\ [r EXCEPT !.pc = n].id = r.id
       /\ [r EXCEPT !.pc = n].status = r.status
       /\ [r EXCEPT !.pc = n].known = r.known
       /\ [r EXCEPT !.pc = n].k = r.k
<1>1. (CHOOSE d \in Ids : TRUE) \in Ids
  BY RowsAssumption DEF RowsAssumption
<1>2. 0 \in 0 .. MaxConflicts
  <2>1. MaxConflicts \in Nat
    BY RowsAssumption DEF RowsAssumption
  <2>. QED  BY <2>1
<1> DEFINE some == CHOOSE d \in Ids : TRUE
<1> HIDE DEF some
<1>3. IdleCmd = [op |-> "none", pc |-> 0, id |-> some, status |-> "waiting", known |-> FALSE,
                 k |-> 0]
  BY Zenon DEF IdleCmd, some
<1>5. some \in Ids
  BY <1>1 DEF some
<1>6. IdleCmd \in CmdStates /\ IdleCmd.op = "none" /\ IdleCmd.pc = 0
  BY <1>2, <1>3, <1>5 DEF CmdStates, Statuses
<1>4. ASSUME NEW r \in CmdStates, NEW n \in 0 .. 6
      PROVE  /\ [r EXCEPT !.pc = n] \in CmdStates
             /\ [r EXCEPT !.pc = n].pc = n
             /\ [r EXCEPT !.pc = n].op = r.op
             /\ [r EXCEPT !.pc = n].id = r.id
             /\ [r EXCEPT !.pc = n].status = r.status
             /\ [r EXCEPT !.pc = n].known = r.known
             /\ [r EXCEPT !.pc = n].k = r.k
  BY DEF CmdStates
<1>. QED  BY <1>4, <1>6

\* A run changes while its follow-up stays.
LEMMA RunReplaced ==
  ASSUME Base, NEW d \in Ids, NEW r \in RunStates, run' = [run EXCEPT ![d] = r]
  PROVE  /\ run' \in [Ids -> RunStates]
         /\ run'[d] = r
         /\ \A e \in Ids \ {d} : run'[e] = run[e]
<1>1. run \in [Ids -> RunStates]
  BY BaseParts DEF RunPart
<1>. QED  BY <1>1

LEMMA RunsOn ==
  ASSUME Base, NEW d \in Ids, NEW p \in RunPCs, p # "idle", Runs(d, p)
  PROVE  /\ run' \in [Ids -> RunStates]
         /\ \A e \in Ids \ {d} : run'[e] = run[e]
         /\ run'[d].pc = p /\ run'[d].before = run[d].before
         /\ run'[d].outcome = run[d].outcome /\ run'[d].open = run[d].open
         /\ UNCHANGED pending /\ deferred' \subseteq Ids /\ cancelled' \subseteq Ids => RunPart'
<1>1. run \in [Ids -> RunStates] /\ run[d] \in RunStates
  BY BaseParts DEF RunPart
<1>2. run' = [run EXCEPT ![d] = [run[d] EXCEPT !.pc = p]]
  BY <1>1 DEF Runs
<1> DEFINE r == [run[d] EXCEPT !.pc = p]
<1>3. r \in RunStates /\ r.pc = p /\ r.before = run[d].before
      /\ r.outcome = run[d].outcome /\ r.open = run[d].open
  BY <1>1, RunEdits
<1>4. run' = [run EXCEPT ![d] = r]
  BY <1>2
<1> HIDE DEF r
<1>5. /\ run' \in [Ids -> RunStates] /\ run'[d] = r
      /\ \A e \in Ids \ {d} : run'[e] = run[e]
  BY <1>3, <1>4, RunReplaced
<1>6. UNCHANGED pending /\ deferred' \subseteq Ids /\ cancelled' \subseteq Ids => RunPart'
  BY <1>3, <1>5, BaseParts DEF RunPart
<1>. QED  BY <1>3, <1>5, <1>6

LEMMA RunStops ==
  ASSUME Base, NEW d \in Ids, Stops(d)
  PROVE  /\ run' \in [Ids -> RunStates]
         /\ \A e \in Ids \ {d} : run'[e] = run[e]
         /\ run'[d].pc = "finish" /\ run'[d].before = "waiting"
         /\ UNCHANGED pending /\ deferred' \subseteq Ids /\ cancelled' \subseteq Ids => RunPart'
<1> DEFINE r == [IdleRun EXCEPT !.pc = "finish"]
<1>1. r \in RunStates /\ r.pc = "finish" /\ r.before = "waiting"
  BY RunEdits DEF RunPCs
<1>2. run' = [run EXCEPT ![d] = r]
  BY DEF Stops
<1> HIDE DEF r
<1>3. /\ run' \in [Ids -> RunStates] /\ run'[d] = r
      /\ \A e \in Ids \ {d} : run'[e] = run[e]
  BY <1>1, <1>2, RunReplaced
<1>4. UNCHANGED pending /\ deferred' \subseteq Ids /\ cancelled' \subseteq Ids => RunPart'
  BY <1>1, <1>3, BaseParts DEF RunPart
<1>. QED  BY <1>1, <1>3, <1>4

\* A trigger starts an idle run, or asks for a follow-up of the one under way.
LEMMA Triggered ==
  ASSUME Base, NEW d \in Ids, Trigger(d)
  PROVE  /\ run' \in [Ids -> RunStates]
         /\ \A e \in Ids \ {d} : run'[e] = run[e] /\ (e \in pending <=> e \in pending')
         /\ \/ run[d].pc = "idle" /\ run'[d].pc = "load" /\ run'[d].before = "waiting"
            \/ run[d].pc # "idle" /\ run'[d] = run[d] /\ d \in pending'
         /\ pending \subseteq pending'
         /\ deferred' \subseteq Ids /\ cancelled' \subseteq Ids => RunPart'
<1> DEFINE r == [IdleRun EXCEPT !.pc = "load"]
<1>1. r \in RunStates /\ r.pc = "load" /\ r.before = "waiting"
  BY RunEdits DEF RunPCs
<1>2. RunPart
  BY BaseParts
<1>3. CASE run[d].pc = "idle"
  <2>1. run' = [run EXCEPT ![d] = r] /\ pending' = pending
    BY <1>3 DEF Trigger
  <2> HIDE DEF r
  <2>2. /\ run' \in [Ids -> RunStates] /\ run'[d] = r
        /\ \A e \in Ids \ {d} : run'[e] = run[e]
    BY <1>1, <2>1, RunReplaced
  <2>3. deferred' \subseteq Ids /\ cancelled' \subseteq Ids => RunPart'
    BY <1>1, <1>2, <2>1, <2>2 DEF RunPart
  <2>. QED  BY <1>1, <1>3, <2>1, <2>2, <2>3
<1>4. CASE run[d].pc # "idle"
  <2>1. run' = run /\ pending' = pending \cup {d}
    BY <1>4 DEF Trigger
  <2>. QED  BY <1>2, <1>4, <2>1 DEF RunPart
<1>. QED  BY <1>3, <1>4

LEMMA ThreadReplaced ==
  ASSUME Base, NEW c \in Clients, NEW r \in CmdStates, cmd' = [cmd EXCEPT ![c] = r]
  PROVE  /\ CmdPart' /\ cmd'[c] = r
         /\ \A e \in Clients \ {c} : cmd'[e] = cmd[e]
<1>1. cmd \in [Clients -> CmdStates]
  BY BaseParts DEF CmdPart
<1>. QED  BY <1>1 DEF CmdPart

LEMMA ThreadGoes ==
  ASSUME Base, NEW c \in Clients, NEW n \in 0 .. 6, Goes(c, n)
  PROVE  /\ CmdPart'
         /\ \A e \in Clients \ {c} : cmd'[e] = cmd[e]
         /\ cmd'[c].pc = n /\ cmd'[c].op = cmd[c].op /\ cmd'[c].id = cmd[c].id
         /\ cmd'[c].status = cmd[c].status /\ cmd'[c].known = cmd[c].known
         /\ cmd'[c].k = cmd[c].k
<1>1. cmd \in [Clients -> CmdStates] /\ cmd[c] \in CmdStates
  BY BaseParts DEF CmdPart
<1> DEFINE r == [cmd[c] EXCEPT !.pc = n]
<1>2. /\ r \in CmdStates /\ r.pc = n /\ r.op = cmd[c].op /\ r.id = cmd[c].id
      /\ r.status = cmd[c].status /\ r.known = cmd[c].known /\ r.k = cmd[c].k
  BY <1>1, CmdEdits
<1>3. cmd' = [cmd EXCEPT ![c] = r]
  BY <1>1 DEF Goes
<1> HIDE DEF r
<1>4. CmdPart' /\ cmd'[c] = r /\ \A e \in Clients \ {c} : cmd'[e] = cmd[e]
  BY <1>2, <1>3, ThreadReplaced
<1>. QED  BY <1>2, <1>4

LEMMA ThreadEnds ==
  ASSUME Base, NEW c \in Clients, Ends(c)
  PROVE  /\ CmdPart'
         /\ \A e \in Clients \ {c} : cmd'[e] = cmd[e]
         /\ cmd'[c].op = "none" /\ cmd'[c].pc = 0
<1>1. CmdPart' /\ cmd'[c] = IdleCmd /\ \A e \in Clients \ {c} : cmd'[e] = cmd[e]
  BY CmdEdits, ThreadReplaced DEF Ends
<1>. QED  BY <1>1, CmdEdits

\* What a run writes at its end is a status.
LEMMA ResultIsStatus ==
  ASSUME Base, NEW d \in Ids
  PROVE  ResultStatus(d) \in Statuses
<1>1. run[d].before \in Statuses /\ run[d].outcome \in Outcomes
  BY Fields
<1>. QED  BY <1>1 DEF ResultStatus, Statuses, Outcomes

-----------------------------------------------------------------------------
(* Type correctness *)

LEMMA RunBase ==
  ASSUME Base, NEW d \in Ids, RunStep(d)
  PROVE  Base'
<1>0. /\ RowPart /\ StorePart /\ ConflictPart /\ RunPart /\ CmdPart /\ RestorePart /\ CountPart
  BY BaseParts
<1>1. CASE LoadRow(d)
  <2> DEFINE r == [run[d] EXCEPT !.before = LockStatus(row[d].status),
                                 !.pc = IF row[d].there THEN "check" ELSE "finish"]
  <2>1. LockStatus(row[d].status) \in Statuses
    BY DEF LockStatus, Statuses
  <2>2. r \in RunStates /\ r.pc # "idle"
    <3>1. run[d] \in RunStates
      BY Fields
    <3>. QED  BY <2>1, <3>1 DEF RunStates, RunPCs
  <2>3. run' = [run EXCEPT ![d] = r]
    BY <1>0, <1>1 DEF LoadRow, RunPart
  <2> HIDE DEF r
  <2>4. run' \in [Ids -> RunStates] /\ run'[d] = r /\ \A e \in Ids \ {d} : run'[e] = run[e]
    BY <2>2, <2>3, RunReplaced
  <2>5. RunPart'
    BY <1>0, <1>1, <2>2, <2>4 DEF LoadRow, RunPart
  <2>. QED  BY <1>1, <2>5, Untouched, PartsAfter DEF LoadRow, tables, counts
<1>2. CASE PassChecks(d)
  <2>1. RowPart'
    BY <1>2, StatusWritten DEF PassChecks, FailsChecks, IsOffline, GoesOn, Statuses
  <2>2. RunPart'
    BY <1>0, <1>2, RunStops, RunsOn
       DEF PassChecks, FailsChecks, IsOffline, GoesOn, RunPart, RunPCs
  <2>3. CountPart'
    BY <1>0, <1>2 DEF PassChecks, CountPart, counts
  <2>. QED  BY <1>2, <2>1, <2>2, <2>3, Untouched, PartsAfter DEF PassChecks
<1>3. CASE Bisync(d)
  <2>1. PICK outcome \in Outcomes, copies \in SUBSET Copies :
          /\ disk' = copies \cup (disk \cap {Original})
          /\ run' = [run EXCEPT ![d] = [@ EXCEPT !.pc = "device", !.outcome = outcome]]
    BY <1>3 DEF Bisync
  <2> DEFINE r == [run[d] EXCEPT !.pc = "device", !.outcome = outcome]
  <2>2. r \in RunStates /\ r.pc # "idle"
    <3>1. run[d] \in RunStates
      BY Fields
    <3>. QED  BY <3>1 DEF RunStates, RunPCs
  <2>3. run' = [run EXCEPT ![d] = r]
    BY <1>0, <2>1 DEF RunPart
  <2> HIDE DEF r
  <2>4. run' \in [Ids -> RunStates] /\ run'[d] = r /\ \A e \in Ids \ {d} : run'[e] = run[e]
    BY <2>2, <2>3, RunReplaced
  <2>5. RunPart'
    BY <1>0, <1>3, <2>2, <2>4 DEF Bisync, RunPart
  <2>6. StorePart'
    BY <1>0, <1>3, <2>1 DEF Bisync, StorePart, tables
  <2>. QED  BY <1>3, <2>5, <2>6, Untouched, PartsAfter DEF Bisync, tables
<1>4. CASE UpsertDevice(d)
  <2>1. StorePart'
    BY <1>0, <1>4 DEF UpsertDevice, StorePart
  <2>2. RunPart'
    BY <1>0, <1>4, RunsOn DEF UpsertDevice, RunPart, RunPCs
  <2>. QED  BY <1>4, <2>1, <2>2, Untouched, PartsAfter DEF UpsertDevice
<1>5. CASE RecordConflict(d)
  <2>1. PICK c \in Copies, k \in ConflictIds :
          conflict' = [conflict EXCEPT ![k] = [ds |-> d, copy |-> c, state |-> "open"]]
    BY <1>5 DEF RecordConflict, Unrecorded
  <2>2. [ds |-> d, copy |-> c, state |-> "open"] \in ConflictRows
    BY DEF ConflictRows
  <2>3. ConflictPart'
    BY <1>0, <2>1, <2>2 DEF ConflictPart
  <2>. QED  BY <1>5, <2>3, Untouched, PartsAfter DEF RecordConflict, queue
<1>6. CASE EndScan(d)
  <2>1. RunPart'
    BY <1>0, <1>6, RunsOn DEF EndScan, RunPart, RunPCs
  <2>. QED  BY <1>6, <2>1, Untouched, PartsAfter DEF EndScan, tables
<1>7. CASE CountOpen(d)
  <2> DEFINE open == run[d].outcome \in {"success", "failed"} /\ Open(d) # {}
             r == [run[d] EXCEPT !.pc = "record", !.open = open]
  <2>1. open \in BOOLEAN
    OBVIOUS
  <2>2. run' = [run EXCEPT ![d] = r]
    BY <1>0, <1>7 DEF CountOpen, RunPart
  <2> HIDE DEF open
  <2>3. r \in RunStates /\ r.pc # "idle"
    <3>1. run[d] \in RunStates
      BY Fields
    <3>. QED  BY <2>1, <3>1 DEF RunStates, RunPCs
  <2> HIDE DEF r
  <2>4. run' \in [Ids -> RunStates] /\ run'[d] = r /\ \A e \in Ids \ {d} : run'[e] = run[e]
    BY <2>2, <2>3, RunReplaced
  <2>5. RunPart'
    BY <1>0, <1>7, <2>3, <2>4 DEF CountOpen, RunPart
  <2>. QED  BY <1>7, <2>5, Untouched, PartsAfter DEF CountOpen, tables
<1>8. CASE RecordResult(d)
  <2>1. RowPart'
    BY <1>8, ResultIsStatus, StatusWritten DEF RecordResult
  <2>2. RunPart'
    BY <1>0, <1>8, RunStops DEF RecordResult, RunPart
  <2>3. CountPart'
    BY <1>0, <1>8 DEF RecordResult, CountPart, counts, history
  <2>. QED  BY <1>8, <2>1, <2>2, <2>3, Untouched, PartsAfter DEF RecordResult
<1>9. CASE RunRaises(d)
  <2>1. RowPart'
    BY <1>9, StatusWritten, Untouched DEF RunRaises, Statuses
  <2>2. RunPart'
    BY <1>0, <1>9, RunStops DEF RunRaises, RunPart
  <2>3. CountPart'
    BY <1>0, <1>9 DEF RunRaises, CountPart, counts
  <2>. QED  BY <1>9, <2>1, <2>2, <2>3, Untouched, PartsAfter DEF RunRaises
<1>10. CASE FinishRun(d)
  <2>1. PICK r \in {[IdleRun EXCEPT !.pc = "load"], IdleRun} : run' = [run EXCEPT ![d] = r]
    BY <1>10 DEF FinishRun
  <2>2. r \in RunStates
    <3>1. "load" \in RunPCs
      BY DEF RunPCs
    <3>. QED  BY <3>1, RunEdits, Zenon
  <2>3. run' \in [Ids -> RunStates] /\ \A e \in Ids \ {d} : run'[e] = run[e]
    BY <2>1, <2>2, RunReplaced
  <2>4. RunPart'
    BY <1>0, <1>10, <2>3 DEF FinishRun, RunPart
  <2>5. CountPart'
    BY <1>0, <1>10 DEF FinishRun, CountPart, counts
  <2>. QED  BY <1>10, <2>4, <2>5, Untouched, PartsAfter DEF FinishRun, tables
<1>. QED  BY <1>1, <1>2, <1>3, <1>4, <1>5, <1>6, <1>7, <1>8, <1>9, <1>10 DEF RunStep

LEMMA QueueBase ==
  ASSUME Base, NEW d \in Ids, Due(d) \/ TakeDeferred(d) \/ RestoreRow(d)
  PROVE  Base'
<1>0. /\ RowPart /\ StorePart /\ ConflictPart /\ RunPart /\ CmdPart /\ RestorePart /\ CountPart
  BY BaseParts
<1>1. CASE Due(d)
  <2>1. RunPart'
    BY <1>0, <1>1, Triggered DEF Due, RunPart
  <2>. QED  BY <1>1, <2>1, Untouched, PartsAfter DEF Due, tables
<1>2. CASE TakeDeferred(d)
  <2>1. RunPart'
    BY <1>0, <1>2, Triggered DEF TakeDeferred, RunPart
  <2>2. CountPart'
    BY <1>0, <1>2 DEF TakeDeferred, CountPart, counts
  <2>. QED  BY <1>2, <2>1, <2>2, Untouched, PartsAfter DEF TakeDeferred, tables
<1>3. CASE RestoreRow(d)
  <2>1. RowPart'
    BY <1>0, <1>3, StatusWritten, Untouched DEF RestoreRow, Statuses
  <2>2. RunPart'
    BY <1>0, <1>3 DEF RestoreRow, RunPart
  <2>3. RestorePart'
    BY <1>0, <1>3 DEF RestoreRow, RestorePart, NoRestore
  <2>4. CountPart'
    BY <1>0, <1>3 DEF RestoreRow, CountPart, counts
  <2>. QED  BY <1>3, <2>1, <2>2, <2>3, <2>4, Untouched, PartsAfter DEF RestoreRow
<1>. QED  BY <1>1, <1>2, <1>3

\* A command begins with what the thread is told, and one command more is counted.
LEMMA Begun ==
  ASSUME Base, NEW c \in Clients, NEW op, NEW d \in Ids, NEW known \in BOOLEAN,
         NEW k \in 0 .. MaxConflicts, Begins(c, op, d, known, k)
  PROVE  /\ Base'
         /\ \A e \in Clients \ {c} : cmd'[e] = cmd[e]
         /\ cmd[c].op = "none"
         /\ cmd'[c].op = op /\ op \in Commands /\ cmd'[c].pc = 1 /\ cmd'[c].id = d
         /\ cmd'[c].known = known /\ cmd'[c].k = k
         /\ op = "update" => cmd'[c].status = row[d].status
<1>0. /\ RowPart /\ StorePart /\ ConflictPart /\ RunPart /\ CmdPart /\ RestorePart /\ CountPart
  BY BaseParts
<1> DEFINE status == IF op = "update" THEN row[d].status ELSE "waiting"
           r == [op |-> op, pc |-> 1, id |-> d, status |-> status, known |-> known, k |-> k]
<1>1. status \in Statuses
  BY Fields DEF Statuses
<1>2. op \in Commands /\ cmd[c].op = "none" /\ cmd' = [cmd EXCEPT ![c] = r]
  BY DEF Begins
<1>3. op = "update" => status = row[d].status
  OBVIOUS
<1> HIDE DEF status
<1>4. r \in CmdStates
  BY <1>1, <1>2 DEF CmdStates
<1>5. CmdPart' /\ cmd'[c] = r /\ \A e \in Clients \ {c} : cmd'[e] = cmd[e]
  BY <1>2, <1>4, ThreadReplaced
<1>6. CountPart'
  <2>1. commands \in Nat /\ crashes \in Nat /\ commands + crashes < MaxEvents
        /\ commands' = commands + 1 /\ MaxEvents \in Nat /\ UNCHANGED crashes
    <3>1. commands \in Nat /\ crashes \in Nat
      BY <1>0 DEF CountPart
    <3>2. MaxEvents \in Nat
      BY RowsAssumption DEF RowsAssumption
    <3>. QED  BY <3>1, <3>2, Zenon DEF Begins
  <2>2. commands' \in 0 .. MaxEvents
    BY <2>1
  <2>3. superseded' \subseteq Ids /\ UNCHANGED <<excused, unwritten, outlived>>
    BY <1>0 DEF CountPart, Begins
  <2>. QED  BY <1>0, <2>1, <2>2, <2>3 DEF CountPart
<1>7. Base'
  BY <1>5, <1>6, Untouched, PartsAfter DEF Begins, tables
<1>. QED  BY <1>2, <1>3, <1>5, <1>7

\* The commands there are, by what they begin with.
LEMMA Beginnings ==
  ASSUME Base, NEW c \in Clients, BeginCommand(c)
  PROVE  \E op \in Commands, d \in Ids, known \in BOOLEAN, k \in 0 .. MaxConflicts :
           /\ Begins(c, op, d, known, k)
           /\ \/ op \in {"add", "add new"} /\ known = (op = "add" /\ note # NoId)
                 /\ IF known THEN d = note ELSE Fresh(d)
              \/ op \in {"join", "cancel"}
              \/ op \in {"delete", "purge", "pause", "resume", "update", "sync now"}
                 /\ row[d].there
              \/ /\ op \in Resolutions /\ k \in ConflictIds /\ conflict[k].ds = d
                 /\ conflict[k].state \in {"open", "resolved"}
<1>0. 0 \in 0 .. MaxConflicts /\ ConflictIds \subseteq 0 .. MaxConflicts
  <2>1. MaxConflicts \in Nat
    BY RowsAssumption DEF RowsAssumption
  <2>. QED  BY <2>1 DEF ConflictIds
<1>1. ASSUME NEW op \in Commands, NEW d \in Ids, BeginAdd(c, op, d)
      PROVE  \E known \in BOOLEAN :
               /\ op \in {"add", "add new"} /\ known = (op = "add" /\ note # NoId)
               /\ IF known THEN d = note ELSE Fresh(d)
               /\ Begins(c, op, d, known, 0)
  <2> WITNESS (op = "add" /\ note # NoId) \in BOOLEAN
  <2>. QED  BY <1>1 DEF BeginAdd
<1>2. ASSUME NEW op \in Commands, NEW d \in Ids, BeginOnRow(c, op, d)
      PROVE  /\ op \in {"delete", "purge", "pause", "resume", "update", "sync now"}
             /\ row[d].there
             /\ Begins(c, op, d, FALSE, 0)
  BY <1>2 DEF BeginOnRow
<1>3. ASSUME NEW d \in Ids, BeginJoin(c, d) \/ BeginCancel(c, d)
      PROVE  \E op \in {"join", "cancel"} : Begins(c, op, d, FALSE, 0) /\ op \in Commands
  BY <1>3 DEF BeginJoin, BeginCancel, Begins
<1>4. ASSUME NEW k \in ConflictIds, NEW op \in Commands, BeginResolve(c, op, k)
      PROVE  /\ op \in Resolutions /\ conflict[k].state \in {"open", "resolved"}
             /\ Begins(c, op, conflict[k].ds, FALSE, k) /\ conflict[k].ds \in Ids
  <2>1. conflict \in [ConflictIds -> ConflictRows]
    BY BaseParts DEF ConflictPart
  <2>2. conflict[k].ds \in Ids
    BY <2>1 DEF ConflictRows
  <2>. QED  BY <1>4, <2>2 DEF BeginResolve
<1>5. CASE \E d \in Ids, op \in Commands : BeginAdd(c, op, d) \/ BeginOnRow(c, op, d)
  <2>1. PICK d \in Ids, op \in Commands : BeginAdd(c, op, d) \/ BeginOnRow(c, op, d)
    BY <1>5
  <2>2. CASE BeginAdd(c, op, d)
    <3>1. PICK known \in BOOLEAN :
            /\ op \in {"add", "add new"} /\ known = (op = "add" /\ note # NoId)
            /\ IF known THEN d = note ELSE Fresh(d)
            /\ Begins(c, op, d, known, 0)
      BY <1>1, <2>2
    <3>. QED  BY <1>0, <3>1, Zenon
  <2>3. CASE BeginOnRow(c, op, d)
    BY <1>0, <1>2, <2>3
  <2>. QED  BY <2>1, <2>2, <2>3
<1>6. CASE \E d \in Ids : BeginJoin(c, d) \/ BeginCancel(c, d)
  BY <1>0, <1>3, <1>6
<1>7. CASE \E k \in ConflictIds, op \in Commands : BeginResolve(c, op, k)
  <2>1. PICK k \in ConflictIds, op \in Commands : BeginResolve(c, op, k)
    BY <1>7
  <2>. QED  BY <1>0, <1>4, <2>1
<1>. QED  BY <1>5, <1>6, <1>7 DEF BeginCommand

LEMMA CommandBase ==
  ASSUME Base, NEW c \in Clients, CommandStep(c)
  PROVE  Base'
<1>0. /\ RowPart /\ StorePart /\ ConflictPart /\ RunPart /\ CmdPart /\ RestorePart /\ CountPart
  BY BaseParts
<1>a. cmd[c].id \in Ids /\ cmd[c].status \in Statuses
  BY Fields
<1>b. /\ 0 \in 0 .. 6 /\ 1 \in 0 .. 6 /\ 2 \in 0 .. 6 /\ 3 \in 0 .. 6 /\ 4 \in 0 .. 6
      /\ 5 \in 0 .. 6 /\ 6 \in 0 .. 6
  OBVIOUS
<1>1. CASE InsertRow(c)
  <2>1. RowPart'
    BY <1>0, <1>1, <1>a, RowFacts, Zenon DEF InsertRow, RowPart
  <2>2. CmdPart'
    BY <1>1, <1>b, ThreadGoes, ThreadEnds, Zenon DEF InsertRow
  <2>3. CountPart'
    BY <1>0, <1>1, <1>a DEF InsertRow, CountPart, counts
  <2>. QED  BY <1>1, <2>1, <2>2, <2>3, Untouched, PartsAfter DEF InsertRow
<1>2. CASE RegisterDevice(c)
  <2>1. StorePart'
    BY <1>0, <1>2, <1>a DEF RegisterDevice, StorePart
  <2>2. CmdPart'
    BY <1>2, <1>b, ThreadGoes DEF RegisterDevice
  <2>. QED  BY <1>2, <2>1, <2>2, Untouched, PartsAfter DEF RegisterDevice
<1>3. CASE ForgetNote(c)
  <2>1. StorePart'
    BY <1>0, <1>3 DEF ForgetNote, StorePart
  <2>2. CmdPart'
    BY <1>3, <1>b, ThreadGoes DEF ForgetNote
  <2>3. CountPart'
    BY <1>0, <1>3 DEF ForgetNote, CountPart, counts, Overwrites
  <2>. QED  BY <1>3, <2>1, <2>2, <2>3, Untouched, PartsAfter DEF ForgetNote
<1>4. CASE TriggerSync(c)
  <2>1. RunPart'
    BY <1>0, <1>4, <1>a, Triggered DEF TriggerSync, RunPart
  <2>2. CmdPart'
    BY <1>4, ThreadEnds DEF TriggerSync
  <2>. QED  BY <1>4, <2>1, <2>2, Untouched, PartsAfter DEF TriggerSync, tables
<1>5. CASE CancelSync(c)
  <2>1. RunPart'
    BY <1>0, <1>5, <1>a DEF CancelSync, RunPart
  <2>2. CmdPart'
    BY <1>5, <1>b, ThreadGoes, ThreadEnds, Zenon DEF CancelSync
  <2>3. CountPart'
    BY <1>0, <1>5, <1>a DEF CancelSync, CountPart, counts
  <2>. QED  BY <1>5, <2>1, <2>2, <2>3, Untouched, PartsAfter DEF CancelSync, tables
<1>6. CASE Purge(c)
  <2>1. StorePart'
    BY <1>0, <1>6 DEF Purge, StorePart, tables
  <2>2. CmdPart'
    BY <1>6, <1>b, ThreadGoes DEF Purge
  <2>3. CountPart'
    BY <1>0, <1>6, <1>a DEF Purge, CountPart, counts
  <2>. QED  BY <1>6, <2>1, <2>2, <2>3, Untouched, PartsAfter DEF Purge, tables
<1>7. CASE RememberDetached(c)
  <2>1. StorePart'
    BY <1>0, <1>7, <1>a DEF RememberDetached, StorePart
  <2>2. CmdPart'
    BY <1>7, <1>b, ThreadGoes DEF RememberDetached
  <2>3. CountPart'
    BY <1>0, <1>7 DEF RememberDetached, CountPart, counts, Overwrites
  <2>. QED  BY <1>7, <2>1, <2>2, <2>3, Untouched, PartsAfter DEF RememberDetached
<1>8. CASE DeleteRow(c)
  <2>1. RowPart'
    BY <1>0, <1>8, <1>a, RowFacts, Zenon DEF DeleteRow, RowPart
  <2>2. StorePart'
    BY <1>0, <1>8 DEF DeleteRow, StorePart
  <2>3. ConflictPart'
    <3>1. conflict' = [k \in ConflictIds |->
                         IF conflict[k].ds = cmd[c].id /\ conflict[k].state # "none"
                         THEN [conflict[k] EXCEPT !.state = "gone"] ELSE conflict[k]]
      BY <1>8 DEF DeleteRow
    <3>2. ASSUME NEW r \in ConflictRows
          PROVE  [r EXCEPT !.state = "gone"] \in ConflictRows
      BY DEF ConflictRows
    <3>. QED  BY <1>0, <3>1, <3>2, Zenon DEF ConflictPart
  <2>4. CmdPart'
    BY <1>8, ThreadEnds DEF DeleteRow
  <2>5. CountPart'
    BY <1>0, <1>8, <1>a DEF DeleteRow, CountPart, counts
  <2>. QED  BY <1>8, <2>1, <2>2, <2>3, <2>4, <2>5, Untouched, PartsAfter DEF DeleteRow
<1>9. CASE PauseRow(c)
  <2>1. RowPart'
    <3>1. TRUE \in BOOLEAN /\ "paused" \in Statuses
      BY DEF Statuses
    <3>. QED  BY <1>9, <1>a, <3>1, RowEdits, RowReplaced DEF PauseRow
  <2>2. CmdPart'
    BY <1>9, ThreadEnds DEF PauseRow
  <2>. QED  BY <1>9, <2>1, <2>2, Untouched, PartsAfter DEF PauseRow
<1>10. CASE ResumeRow(c)
  <2>1. RowPart'
    BY <1>10, <1>a, RowFacts, RowReplaced DEF ResumeRow
  <2>2. CmdPart'
    BY <1>10, <1>b, ThreadGoes DEF ResumeRow
  <2>. QED  BY <1>10, <2>1, <2>2, Untouched, PartsAfter DEF ResumeRow
<1>11. CASE UpdateRow(c)
  <2>1. PICK paused \in BOOLEAN :
          row' = Updated(cmd[c].id, [NewRow EXCEPT !.paused = paused, !.status = cmd[c].status])
    BY <1>11 DEF UpdateRow
  <2>2. RowPart'
    BY <1>a, <2>1, RowEdits, RowReplaced
  <2>3. CmdPart'
    BY <1>11, ThreadEnds DEF UpdateRow
  <2>4. CountPart'
    BY <1>0, <1>11, <1>a DEF UpdateRow, CountPart, counts
  <2>. QED  BY <1>11, <2>2, <2>3, <2>4, Untouched, PartsAfter DEF UpdateRow
<1>12. CASE ReadDataset(c)
  <2> DEFINE known == row[cmd[c].id].there /\ row[cmd[c].id].status = "conflict"
             r == [cmd[c] EXCEPT !.pc = 2, !.known = known]
  <2>1. known \in BOOLEAN
    BY <1>0, <1>a DEF RowPart, Rows
  <2>2. cmd' = [cmd EXCEPT ![c] = r]
    BY <1>0, <1>12 DEF ReadDataset, CmdPart
  <2> HIDE DEF known
  <2>3. r \in CmdStates
    <3>1. cmd[c] \in CmdStates
      BY Fields
    <3>. QED  BY <1>b, <2>1, <3>1 DEF CmdStates
  <2> HIDE DEF r
  <2>4. CmdPart'
    BY <2>2, <2>3, ThreadReplaced
  <2>. QED  BY <1>12, <2>4, Untouched, PartsAfter DEF ReadDataset, tables
<1>13. CASE ResolveFile(c)
  <2>1. StorePart'
    <3>1. /\ conflict[cmd[c].k].copy \in disk => conflict[cmd[c].k].copy \in Copies \cup {Original}
      BY <1>0 DEF StorePart
    <3>2. ASSUME NEW copy \in Copies \cup {Original}
          PROVE  OriginalOf(copy) \in Copies \cup {Original}
      BY <3>2 DEF OriginalOf
    <3> DEFINE copy == conflict[cmd[c].k].copy
    <3>3. \/ disk' = disk
          \/ copy \in disk /\ disk' \in {disk \ {copy}, (disk \ {copy}) \cup {OriginalOf(copy)}}
      <4>1. cmd[c].op \in Resolutions
        BY <1>13 DEF ResolveFile, At
      <4> HIDE DEF copy
      <4>2. \/ disk' = IF copy \notin disk THEN disk
                       ELSE CASE cmd[c].op = "keep_both" -> disk
                         [] cmd[c].op = "keep_local" -> disk \ {copy}
                         [] cmd[c].op = "keep_remote" -> (disk \ {copy}) \cup {OriginalOf(copy)}
            \/ disk' = disk
        BY <1>13, Zenon DEF ResolveFile, copy
      <4>3. CASE cmd[c].op = "keep_both" \/ copy \notin disk
        BY <4>2, <4>3
      <4>4. CASE cmd[c].op = "keep_local" /\ copy \in disk
        BY <4>2, <4>4
      <4>5. CASE cmd[c].op = "keep_remote" /\ copy \in disk
        BY <4>2, <4>5
      <4>. QED  BY <4>1, <4>3, <4>4, <4>5 DEF Resolutions
    <3> HIDE DEF copy
    <3>4. copy \in disk => copy \in Copies \cup {Original}
      BY <3>1 DEF copy
    <3>5. UNCHANGED <<device, note, remote>>
      BY <1>13 DEF ResolveFile, tables
    <3>. QED  BY <1>0, <3>2, <3>3, <3>4, <3>5 DEF StorePart
  <2>2. CmdPart'
    BY <1>13, <1>b, ThreadGoes, ThreadEnds DEF ResolveFile
  <2>. QED  BY <1>13, <2>1, <2>2, Untouched, PartsAfter DEF ResolveFile, tables
<1>14. CASE MarkResolved(c)
  <2>1. ConflictPart'
    <3> DEFINE k == cmd[c].k
               s == IF conflict[k].state = "gone" THEN conflict[k].state ELSE "resolved"
    <3>1. conflict' = [conflict EXCEPT ![k] = [conflict[k] EXCEPT !.state = s]]
      BY <1>0, <1>14 DEF MarkResolved, ConflictPart
    <3>2. s \in {"none", "open", "resolved", "gone"}
      OBVIOUS
    <3> HIDE DEF s, k
    <3>3. ASSUME NEW r \in ConflictRows
          PROVE  [r EXCEPT !.state = s] \in ConflictRows
      BY <3>2 DEF ConflictRows
    <3>4. \A j \in ConflictIds : conflict'[j] = IF j = k THEN [conflict[k] EXCEPT !.state = s]
                                               ELSE conflict[j]
      BY <1>0, <3>1 DEF ConflictPart
    <3>5. conflict' \in [ConflictIds -> ConflictRows]
      BY <1>0, <3>1, <3>3, Zenon DEF ConflictPart
    <3>. QED  BY <3>5 DEF ConflictPart
  <2>2. CmdPart'
    BY <1>14, <1>b, ThreadGoes DEF MarkResolved
  <2>. QED  BY <1>14, <2>1, <2>2, Untouched, PartsAfter DEF MarkResolved
<1>15. CASE CountRemaining(c)
  <2>1. CmdPart'
    BY <1>15, <1>b, ThreadGoes, Zenon DEF CountRemaining
  <2>. QED  BY <1>15, <2>1, Untouched, PartsAfter DEF CountRemaining, tables
<1>16. CASE RenewStatus(c)
  <2>1. RowPart'
    BY <1>16, <1>a, StatusWritten DEF RenewStatus, Statuses
  <2>2. CmdPart'
    BY <1>16, <1>b, ThreadGoes DEF RenewStatus
  <2>. QED  BY <1>16, <2>1, <2>2, Untouched, PartsAfter DEF RenewStatus
<1>. QED  BY <1>1, <1>2, <1>3, <1>4, <1>5, <1>6, <1>7, <1>8, <1>9, <1>10, <1>11, <1>12, <1>13,
             <1>14, <1>15, <1>16 DEF CommandStep

LEMMA ServiceBase ==
  ASSUME Base, Crash \/ RestoreLists
  PROVE  Base'
<1>0. /\ RowPart /\ StorePart /\ ConflictPart /\ RunPart /\ CmdPart /\ RestorePart /\ CountPart
  BY BaseParts
<1>1. CASE Crash
  <2>1. RunPart'
    BY <1>1, RunEdits DEF Crash, RunPart
  <2>2. CmdPart'
    BY <1>1, CmdEdits DEF Crash, CmdPart
  <2>3. RestorePart'
    BY <1>1 DEF Crash, RestorePart, NoRestore
  <2>4. CountPart'
    <3>1. commands \in Nat /\ crashes \in Nat /\ crashes < MaxCrashes /\ crashes' = crashes + 1
      BY <1>0, <1>1 DEF CountPart, Crash
    <3>2. MaxCrashes \in Nat
      BY RowsAssumption DEF RowsAssumption
    <3>3. crashes' \in 0 .. MaxCrashes
      BY <3>1, <3>2
    <3>. QED  BY <1>0, <1>1, <3>3 DEF CountPart, Crash, history
  <2>. QED  BY <1>1, <2>1, <2>2, <2>3, <2>4, Untouched, PartsAfter DEF Crash, tables
<1>2. CASE RestoreLists
  <2>1. RestorePart'
    BY <1>0, <1>2 DEF RestoreLists, RestorePart, NoRestore
  <2>2. CountPart'
    BY <1>0, <1>2 DEF RestoreLists, CountPart, counts
  <2>. QED  BY <1>2, <2>1, <2>2, Untouched, PartsAfter DEF RestoreLists, tables
<1>. QED  BY <1>1, <1>2

LEMMA StutterBase ==
  ASSUME Base, UNCHANGED vars
  PROVE  Base'
BY Untouched, PartsAfter DEF vars, queue, counts, history

LEMMA InitBase == Init => Base
<1> SUFFICES ASSUME Init PROVE Base
  OBVIOUS
<1> PICK added \in SUBSET Added :
      /\ row = [d \in Ids |-> IF d \in added THEN [NewRow EXCEPT !.status = "synced"] ELSE NoRow]
      /\ device = added /\ remote = added
      /\ superseded = {d \in added : added # {d}}
  BY DEF Init
<1>1. added \subseteq Ids
  BY RowsAssumption DEF RowsAssumption
<1>2. RowPart
  <2>1. "synced" \in Statuses
    BY DEF Statuses
  <2>2. /\ [NewRow EXCEPT !.status = "synced"] \in Rows
        /\ [NewRow EXCEPT !.status = "synced"].there
    BY <2>1 DEF Rows, NoRow, NewRow
  <2>. QED  BY <2>2, RowFacts, Zenon DEF RowPart
<1>3. StorePart
  BY <1>1 DEF Init, StorePart
<1>4. ConflictPart
  <2> DEFINE some == CHOOSE d \in Ids : TRUE
             copy == CHOOSE c \in Copies : TRUE
  <2>1. some \in Ids /\ copy \in Copies
    BY RowsAssumption DEF RowsAssumption
  <2>2. conflict = [k \in ConflictIds |-> [ds |-> some, copy |-> copy, state |-> "none"]]
    BY Zenon DEF Init
  <2> HIDE DEF some, copy
  <2>3. [ds |-> some, copy |-> copy, state |-> "none"] \in ConflictRows
    BY <2>1 DEF ConflictRows
  <2>. QED  BY <2>2, <2>3, Zenon DEF ConflictPart
<1>5. RunPart
  BY RunEdits DEF Init, RunPart
<1>6. CmdPart
  BY CmdEdits DEF Init, CmdPart
<1>7. RestorePart
  BY DEF Init, RestorePart, NoRestore
<1>8. CountPart
  <2>1. 0 \in 0 .. MaxEvents /\ 0 \in 0 .. MaxCrashes
    <3>1. MaxEvents \in Nat /\ MaxCrashes \in Nat
      BY RowsAssumption DEF RowsAssumption
    <3>. QED  BY <3>1
  <2>. QED  BY <1>1, <2>1 DEF Init, CountPart
<1>. QED  BY <1>2, <1>3, <1>4, <1>5, <1>6, <1>7, <1>8, BaseParts

LEMMA NextBase ==
  ASSUME Base, [Next]_vars
  PROVE  Base'
<1>1. CASE \E d \in Ids : RunStep(d) \/ Due(d) \/ TakeDeferred(d) \/ RestoreRow(d)
  BY <1>1, RunBase, QueueBase
<1>2. CASE \E c \in Clients : BeginCommand(c) \/ CommandStep(c)
  BY <1>2, Beginnings, Begun, CommandBase
<1>3. CASE Crash \/ RestoreLists
  BY <1>3, ServiceBase
<1>4. CASE UNCHANGED vars
  BY <1>4, StutterBase
<1>. QED  BY <1>1, <1>2, <1>3, <1>4 DEF Next

\* Every column, every thread and every run of the model has its type.
THEOREM TypeCorrect == Spec => []TypeOK
<1>1. Base => TypeOK
  BY DEF Base
<1>. QED  BY <1>1, InitBase, NextBase, PTL DEF Spec

-----------------------------------------------------------------------------
(* "syncing" is a run's to end *)

\* A row that does not come to say "syncing", while its run goes on.
LEMMA StaysUnstuck ==
  ASSUME SyncingInv, NEW d \in Ids,
         row'[d].there /\ row'[d].status = "syncing" =>
           row[d].there /\ row[d].status = "syncing",
         d \in excused \cup unwritten => d \in excused' \cup unwritten',
         run[d].pc \in Working => run'[d].pc \in Working,
         UNCHANGED restore
  PROVE  NotStuck(d)'
BY DEF SyncingInv, NotStuck

LEMMA LockNotSyncing ==
  ASSUME NEW status PROVE LockStatus(status) \in {"synced", "conflict", "waiting"}
BY DEF LockStatus

LEMMA ResultNotSyncing ==
  ASSUME Base, SyncingInv, NEW d \in Ids
  PROVE  ResultStatus(d) # "syncing"
<1>1. run[d].before \in {"synced", "conflict", "waiting"}
  BY DEF SyncingInv
<1>2. run[d].outcome \in Outcomes
  BY Fields
<1>. QED  BY <1>1, <1>2 DEF ResultStatus, Outcomes

LEMMA RunSyncing ==
  ASSUME Base, SyncingInv, NEW d \in Ids, RunStep(d)
  PROVE  SyncingInv'
<1>0. ASSUME UNCHANGED <<restore>>, excused \ {d} \subseteq excused',
             unwritten \ {d} \subseteq unwritten',
             \A e \in Ids \ {d} : row'[e] = row[e] /\ run'[e] = run[e],
             NotStuck(d)', run'[d].before \in {"synced", "conflict", "waiting"}
      PROVE  SyncingInv'
  <2>1. ASSUME NEW e \in Ids, e # d
        PROVE  NotStuck(e)' /\ run'[e].before \in {"synced", "conflict", "waiting"}
    BY <1>0, <2>1, StaysUnstuck DEF SyncingInv
  <2>. QED  BY <1>0, <2>1 DEF SyncingInv
<1>a. run[d].before \in {"synced", "conflict", "waiting"}
  BY DEF SyncingInv
<1>b. "waiting" \in {"synced", "conflict", "waiting"}
  OBVIOUS
<1>1. CASE LoadRow(d)
  <2>1. /\ \A e \in Ids \ {d} : run'[e] = run[e]
        /\ run'[d].before = LockStatus(row[d].status)
    <3>1. run[d] \in RunStates /\ run \in [Ids -> RunStates]
      BY BaseParts, Fields DEF RunPart
    <3>. QED  BY <1>1, <3>1 DEF LoadRow, RunStates
  <2>2. run[d].pc = "load" /\ UNCHANGED <<row, restore, excused, unwritten>>
    BY <1>1 DEF LoadRow, tables, history
  <2>3. NotStuck(d)'
    BY <2>2, StaysUnstuck DEF Working
  <2>. QED  BY <1>0, <2>1, <2>2, <2>3, LockNotSyncing
<1>2. CASE PassChecks(d)
  <2>1. UNCHANGED <<restore, excused>> /\ unwritten \ {d} \subseteq unwritten'
    BY <1>2 DEF PassChecks
  <2>2. CASE FailsChecks(d) \/ IsOffline(d)
    <3>1. PICK s \in {"error", "offline"} : row' = WithStatus(d, s) /\ Stops(d)
      BY <2>2 DEF FailsChecks, IsOffline
    <3>2. /\ \A e \in Ids : row'[e].there = row[e].there
          /\ \A e \in Ids \ {d} : row'[e] = row[e]
          /\ row[d].there => row'[d].status = s
      BY <3>1, StatusWritten DEF Statuses
    <3>3. NotStuck(d)'
      BY <3>2 DEF NotStuck
    <3>. QED  BY <1>0, <1>b, <2>1, <3>1, <3>2, <3>3, RunStops
  <2>3. CASE GoesOn(d)
    <3>1. /\ \A e \in Ids \ {d} : row'[e] = row[e]
      BY <2>3, StatusWritten DEF GoesOn, Statuses
    <3>2. /\ \A e \in Ids \ {d} : run'[e] = run[e]
          /\ run'[d].pc = "bisync" /\ run'[d].before = run[d].before
      BY <2>3, RunsOn DEF GoesOn, RunPCs
    <3>3. NotStuck(d)'
      BY <3>2 DEF NotStuck, Working
    <3>. QED  BY <1>0, <1>a, <2>1, <3>1, <3>2, <3>3
  <2>. QED  BY <1>2, <2>2, <2>3 DEF PassChecks
<1>3. CASE Bisync(d)
  <2>1. UNCHANGED <<row, restore, excused, unwritten>>
    BY <1>3 DEF Bisync, tables, history
  <2>2. /\ \A e \in Ids \ {d} : run'[e] = run[e]
        /\ run'[d].pc = "device" /\ run'[d].before = run[d].before
    <3>1. run[d] \in RunStates /\ run \in [Ids -> RunStates]
      BY BaseParts, Fields DEF RunPart
    <3>. QED  BY <1>3, <3>1 DEF Bisync, RunStates
  <2>3. NotStuck(d)'
    BY <2>1, <2>2, StaysUnstuck DEF Working
  <2>. QED  BY <1>0, <1>a, <2>1, <2>2, <2>3
<1>4. CASE UpsertDevice(d) \/ EndScan(d)
  <2>1. UNCHANGED <<row, restore, excused, unwritten>>
    BY <1>4 DEF UpsertDevice, EndScan, tables, history
  <2>2. /\ \A e \in Ids \ {d} : run'[e] = run[e]
        /\ run'[d].pc \in {"scan", "count"} /\ run'[d].before = run[d].before
    BY <1>4, RunsOn DEF UpsertDevice, EndScan, RunPCs
  <2>3. NotStuck(d)'
    BY <2>1, <2>2, StaysUnstuck DEF Working
  <2>. QED  BY <1>0, <1>a, <2>1, <2>2, <2>3
<1>5. CASE RecordConflict(d)
  <2>1. UNCHANGED <<row, run, restore, excused, unwritten>>
    BY <1>5 DEF RecordConflict, history
  <2>2. NotStuck(d)'
    BY <2>1, StaysUnstuck
  <2>. QED  BY <1>0, <1>a, <2>1, <2>2
<1>6. CASE CountOpen(d)
  <2>1. UNCHANGED <<row, restore, excused, unwritten>>
    BY <1>6 DEF CountOpen, tables, history
  <2>2. /\ \A e \in Ids \ {d} : run'[e] = run[e]
        /\ run'[d].pc = "record" /\ run'[d].before = run[d].before
    <3>1. run[d] \in RunStates /\ run \in [Ids -> RunStates]
      BY BaseParts, Fields DEF RunPart
    <3>. QED  BY <1>6, <3>1 DEF CountOpen, RunStates
  <2>3. NotStuck(d)'
    BY <2>1, <2>2, StaysUnstuck DEF Working
  <2>. QED  BY <1>0, <1>a, <2>1, <2>2, <2>3
<1>7. CASE RecordResult(d) \/ RunRaises(d)
  <2>0. /\ UNCHANGED restore /\ excused \ {d} \subseteq excused'
        /\ unwritten \ {d} \subseteq unwritten' /\ Stops(d)
    BY <1>7 DEF RecordResult, RunRaises, history
  <2>5. CASE UNCHANGED row /\ d \in unwritten'
    <3>1. NotStuck(d)'
      BY <2>5 DEF NotStuck
    <3>. QED  BY <1>0, <1>b, <2>0, <2>5, <3>1, RunStops
  <2>6. CASE \E s \in Statuses \ {"syncing"} : row' = WithStatus(d, s)
    <3>1. PICK s \in Statuses \ {"syncing"} : row' = WithStatus(d, s)
      BY <2>6
    <3>2. /\ \A e \in Ids : row'[e].there = row[e].there
          /\ \A e \in Ids \ {d} : row'[e] = row[e]
          /\ row[d].there => row'[d].status = s
      BY <3>1, StatusWritten
    <3>3. NotStuck(d)'
      BY <3>2 DEF NotStuck
    <3>. QED  BY <1>0, <1>b, <2>0, <3>2, <3>3, RunStops
  <2>. QED  BY <1>7, <2>5, <2>6, ResultIsStatus, ResultNotSyncing
            DEF RecordResult, RunRaises, Statuses
<1>8. CASE FinishRun(d)
  <2>1. /\ \A e \in Ids \ {d} : run'[e] = run[e]
        /\ run'[d].before = "waiting"
    <3>1. PICK r \in {[IdleRun EXCEPT !.pc = "load"], IdleRun} : run' = [run EXCEPT ![d] = r]
      BY <1>8 DEF FinishRun
    <3>2. r \in RunStates /\ r.before = "waiting"
      <4>1. "load" \in RunPCs
        BY DEF RunPCs
      <4>. QED  BY <4>1, RunEdits, Zenon
    <3>. QED  BY <3>1, <3>2, RunReplaced
  <2>2. run[d].pc = "finish" /\ UNCHANGED <<row, restore, unwritten>>
        /\ excused \subseteq excused'
    BY <1>8 DEF FinishRun, tables
  <2>3. NotStuck(d)'
    BY <2>2, StaysUnstuck DEF Working
  <2>. QED  BY <1>0, <1>b, <2>1, <2>2, <2>3
<1>. QED  BY <1>1, <1>2, <1>3, <1>4, <1>5, <1>6, <1>7, <1>8 DEF RunStep

LEMMA QueueSyncing ==
  ASSUME Base, SyncingInv, NEW d \in Ids, Due(d) \/ TakeDeferred(d) \/ RestoreRow(d)
  PROVE  SyncingInv'
<1>1. CASE Due(d) \/ TakeDeferred(d)
  <2>1. UNCHANGED <<row, restore, unwritten>> /\ excused \subseteq excused'
    BY <1>1 DEF Due, TakeDeferred, tables, history
  <2>2. \A e \in Ids : \/ run'[e] = run[e]
                       \/ run[e].pc = "idle" /\ run'[e].before = "waiting"
    BY <1>1, Triggered DEF Due, TakeDeferred
  <2>. QED  BY <2>1, <2>2, StaysUnstuck DEF SyncingInv, Working
<1>2. CASE RestoreRow(d)
  <2>1. UNCHANGED <<run, excused>> /\ unwritten \ (restore.reset \cap {d}) \subseteq unwritten'
    BY <1>2 DEF RestoreRow
  <2>2. /\ \A e \in Ids : row'[e].there = row[e].there
        /\ \A e \in Ids \ {d} : row'[e] = row[e]
        /\ d \in restore.reset /\ row[d].there => row'[d].status = "waiting"
        /\ d \notin restore.reset => row'[d] = row[d]
    BY <1>2, StatusWritten DEF RestoreRow, Statuses
  <2>3. /\ restore.pc # "list"
        /\ (restore.left \cap restore.reset) \ {d} \subseteq restore'.left \cap restore'.reset
    <3>1. RestorePart /\ d \in restore.left
      BY <1>2, BaseParts DEF RestoreRow
    <3>2. CASE restore.left = {d}
      BY <3>1, <3>2 DEF RestorePart
    <3>3. CASE restore.left # {d}
      <4>1. restore' = [restore EXCEPT !.left = @ \ {d}]
        BY <1>2, <3>3 DEF RestoreRow
      <4>. QED  BY <3>1, <4>1 DEF RestorePart
    <3>. QED  BY <3>2, <3>3
  <2>4. ASSUME NEW e \in Ids PROVE NotStuck(e)'
    BY <2>1, <2>2, <2>3 DEF SyncingInv, NotStuck
  <2>. QED  BY <2>1, <2>4 DEF SyncingInv
<1>. QED  BY <1>1, <1>2

\* A thread leaves the runs alone, but for a trigger, and no row comes to say "syncing".
LEMMA CommandSyncing ==
  ASSUME Base, SyncingInv, NEW c \in Clients, CommandStep(c)
  PROVE  SyncingInv'
<1>a. cmd[c].id \in Ids /\ cmd[c].status \in Statuses
  BY Fields
<1>b. RowPart
  BY BaseParts
<1>1. UNCHANGED restore
  BY DEF CommandStep, InsertRow, RegisterDevice, ForgetNote, TriggerSync, CancelSync, Purge,
         RememberDetached, DeleteRow, PauseRow, ResumeRow, UpdateRow, ReadDataset, ResolveFile,
         MarkResolved, CountRemaining, RenewStatus
<1>2. excused \subseteq excused' /\ UNCHANGED unwritten
  BY DEF CommandStep, InsertRow, RegisterDevice, ForgetNote, TriggerSync, CancelSync, Purge,
         RememberDetached, DeleteRow, PauseRow, ResumeRow, UpdateRow, ReadDataset, ResolveFile,
         MarkResolved, CountRemaining, RenewStatus, history
<1>3. \A d \in Ids : run'[d] = run[d] \/ (run[d].pc = "idle" /\ run'[d].before = "waiting")
  <2>1. CASE TriggerSync(c)
    BY <1>a, <2>1, Triggered DEF TriggerSync
  <2>2. CASE ~TriggerSync(c)
    BY <2>2 DEF CommandStep, InsertRow, RegisterDevice, ForgetNote, CancelSync, Purge,
         RememberDetached, DeleteRow, PauseRow, ResumeRow, UpdateRow, ReadDataset, ResolveFile,
         MarkResolved, CountRemaining, RenewStatus
  <2>. QED  BY <2>1, <2>2
<1>4. ASSUME NEW d \in Ids, d \notin excused' \cup unwritten',
             row'[d].there, row'[d].status = "syncing"
      PROVE  row[d].there /\ row[d].status = "syncing"
  <2>1. CASE InsertRow(c)
    <3>1. row' = row \/ row' = [row EXCEPT ![cmd[c].id] = NewRow]
      BY <2>1 DEF InsertRow
    <3>. QED  BY <1>4, <1>b, <3>1, RowFacts DEF RowPart
  <2>2. CASE DeleteRow(c)
    <3>1. row' = [row EXCEPT ![cmd[c].id] = NoRow]
      BY <2>2 DEF DeleteRow
    <3>. QED  BY <1>4, <1>b, <3>1, RowFacts DEF RowPart
  <2>3. CASE PauseRow(c)
    <3> DEFINE r == [NewRow EXCEPT !.paused = TRUE, !.status = "paused"]
    <3>1. r \in Rows /\ r.there /\ r.status = "paused"
      BY RowEdits DEF Statuses
    <3>2. row' = Updated(cmd[c].id, r)
      BY <2>3 DEF PauseRow
    <3> HIDE DEF r
    <3>. QED  BY <1>4, <1>a, <3>1, <3>2, RowReplaced
  <2>4. CASE ResumeRow(c)
    <3>1. row' = Updated(cmd[c].id, NewRow)
      BY <2>4 DEF ResumeRow
    <3>. QED  BY <1>4, <1>a, <3>1, RowFacts, RowReplaced
  <2>5. CASE UpdateRow(c)
    <3>1. PICK paused \in BOOLEAN :
            row' = Updated(cmd[c].id, [NewRow EXCEPT !.paused = paused,
                                                     !.status = cmd[c].status])
      BY <2>5 DEF UpdateRow
    <3> DEFINE r == [NewRow EXCEPT !.paused = paused, !.status = cmd[c].status]
    <3>2. r \in Rows /\ r.there /\ r.status = cmd[c].status
      BY <1>a, RowEdits
    <3>3. row' = Updated(cmd[c].id, r)
      BY <3>1
    <3> HIDE DEF r
    <3>4. d = cmd[c].id => cmd[c].status = row[d].status
      BY <1>4, <2>5 DEF UpdateRow
    <3>. QED  BY <1>4, <1>a, <3>2, <3>3, <3>4, RowReplaced
  <2>6. CASE RenewStatus(c)
    BY <1>4, <1>a, <2>6, StatusWritten DEF RenewStatus, Statuses
  <2>7. CASE UNCHANGED row
    BY <1>4, <2>7
  <2>. QED  BY <2>1, <2>2, <2>3, <2>4, <2>5, <2>6, <2>7
            DEF CommandStep, RegisterDevice, ForgetNote, TriggerSync, CancelSync, Purge,
                RememberDetached, ReadDataset, ResolveFile, MarkResolved, CountRemaining, tables
<1>5. ASSUME NEW d \in Ids
      PROVE  NotStuck(d)' /\ run'[d].before \in {"synced", "conflict", "waiting"}
  <2>1. run'[d].before \in {"synced", "conflict", "waiting"}
    BY <1>3 DEF SyncingInv
  <2>2. CASE d \in excused' \cup unwritten'
    BY <2>1, <2>2 DEF NotStuck
  <2>3. CASE d \notin excused' \cup unwritten'
    <3>1. row'[d].there /\ row'[d].status = "syncing" =>
            row[d].there /\ row[d].status = "syncing"
      BY <1>4, <2>3
    <3>2. run[d].pc \in Working => run'[d].pc \in Working
      BY <1>3 DEF Working
    <3>3. NotStuck(d)'
      BY <1>1, <1>2, <3>1, <3>2, StaysUnstuck
    <3>. QED  BY <2>1, <3>3
  <2>. QED  BY <2>1, <2>2, <2>3
<1>. QED  BY <1>5 DEF SyncingInv

LEMMA NextSyncing ==
  ASSUME Base, SyncingInv, [Next]_vars
  PROVE  SyncingInv'
<1>1. CASE \E d \in Ids : RunStep(d) \/ Due(d) \/ TakeDeferred(d) \/ RestoreRow(d)
  BY <1>1, RunSyncing, QueueSyncing
<1>2. ASSUME NEW c \in Clients, BeginCommand(c)
      PROVE  SyncingInv'
  <2>1. PICK op \in Commands, d \in Ids, known \in BOOLEAN, k \in 0 .. MaxConflicts :
          Begins(c, op, d, known, k)
    BY <1>2, Beginnings
  <2>2. UNCHANGED <<row, run, restore, excused, unwritten>>
    BY <2>1 DEF Begins, tables
  <2>. QED  BY <2>2 DEF SyncingInv, NotStuck
<1>3. ASSUME NEW c \in Clients, CommandStep(c)
      PROVE  SyncingInv'
  BY <1>3, CommandSyncing
<1>4. CASE Crash
  <2>1. /\ \A d \in Ids : run'[d].before = "waiting"
        /\ restore'.pc = "list"
    BY <1>4, RunEdits DEF Crash, NoRestore
  <2>. QED  BY <2>1 DEF SyncingInv, NotStuck
<1>5. CASE RestoreLists
  <2>1. UNCHANGED <<row, run, unwritten>> /\ excused \subseteq excused'
    BY <1>5 DEF RestoreLists, tables
  <2>2. ASSUME NEW d \in Ids, row[d].there, row[d].status = "syncing"
        PROVE  d \in restore'.left \cap restore'.reset
    BY <1>5, <2>2 DEF RestoreLists
  <2>. QED  BY <2>1, <2>2 DEF SyncingInv, NotStuck
<1>6. CASE UNCHANGED vars
  BY <1>6 DEF SyncingInv, NotStuck, vars, history
<1>. QED  BY <1>1, <1>2, <1>3, <1>4, <1>5, <1>6 DEF Next

LEMMA SyncingStart == Init => SyncingInv
<1> SUFFICES ASSUME Init, NEW d \in Ids
             PROVE  NotStuck(d) /\ run[d].before = "waiting"
  BY DEF SyncingInv
<1>1. row[d].status # "syncing"
  BY RowFacts DEF Init, NewRow, NoRow
<1>2. run[d].before = "waiting"
  BY RunEdits DEF Init
<1>. QED  BY <1>1, <1>2 DEF NotStuck

\* A row that says "syncing" has a run on its way to a result, or a restore that will reset it:
\* no kill and no interleaving of commands leaves it so (daemon.py:133-139), only an editor that
\* writes the word back and a failure that could not be stored (sync_engine.py:495-499).
THEOREM SyncingEnds == Spec => []SyncingHasRun
<1>1. SyncingInv => SyncingHasRun
  BY DEF SyncingInv, NotStuck, SyncingHasRun, Working
<1>. QED  BY <1>1, SyncingStart, InitBase, NextBase, NextSyncing, PTL DEF Spec

-----------------------------------------------------------------------------
(* Where a row comes from and where it goes *)

\* A run, the tick and the restore neither add nor remove a row.
LEMMA WorkerRows ==
  ASSUME Base, NEW d \in Ids,
         RunStep(d) \/ Due(d) \/ TakeDeferred(d) \/ RestoreRow(d)
  PROVE  /\ \A e \in Ids : row'[e].there = row[e].there /\ row'[e].paused = row[e].paused
         /\ \A e \in Ids \ {d} : row'[e] = row[e] /\ run'[e] = run[e]
         /\ run'[d].pc \in Working => run[d].pc \in Working \/ row[d].there
         /\ UNCHANGED cmd
<1>1. \/ UNCHANGED row
      \/ \E s \in Statuses : row' = WithStatus(d, s)
  BY ResultIsStatus
     DEF RunStep, LoadRow, PassChecks, FailsChecks, IsOffline, GoesOn, Bisync, UpsertDevice,
         RecordConflict, EndScan, CountOpen, RecordResult, RunRaises, FinishRun, Due,
         TakeDeferred, RestoreRow, tables, Statuses
<1>2. /\ \A e \in Ids : row'[e].there = row[e].there /\ row'[e].paused = row[e].paused
      /\ \A e \in Ids \ {d} : row'[e] = row[e]
  BY <1>1, StatusWritten
<1>3. run \in [Ids -> RunStates]
  BY BaseParts DEF RunPart
<1>4. \A e \in Ids \ {d} : run'[e] = run[e]
  BY <1>3 DEF RunStep, LoadRow, PassChecks, FailsChecks, IsOffline, GoesOn, Bisync, UpsertDevice,
              RecordConflict, EndScan, CountOpen, RecordResult, RunRaises, FinishRun, Due,
              TakeDeferred, RestoreRow, Runs, Stops, Trigger
<1>5. run'[d].pc \in Working => run[d].pc \in Working \/ row[d].there
  <2>1. CASE LoadRow(d)
    <3>1. ~row[d].there => run'[d].pc = "finish"
      BY <1>3, <2>1 DEF LoadRow, RunStates
    <3>. QED  BY <3>1 DEF Working
  <2>2. CASE FinishRun(d)
    <3>1. run'[d] \in {[IdleRun EXCEPT !.pc = "load"], IdleRun}
      BY <1>3, <2>2 DEF FinishRun
    <3>2. "load" \in RunPCs
      BY DEF RunPCs
    <3>3. run'[d].pc \in {"load", "idle"}
      BY <3>1, <3>2, RunEdits
    <3>. QED  BY <3>3 DEF Working
  <2>3. CASE Due(d) \/ TakeDeferred(d)
    BY <2>3, Triggered DEF Due, TakeDeferred, Working
  <2>4. CASE RestoreRow(d)
    BY <2>4 DEF RestoreRow
  <2>5. CASE RunStep(d) /\ ~LoadRow(d) /\ ~RunRaises(d) /\ ~FinishRun(d)
    BY <2>5 DEF RunStep, PassChecks, Bisync, UpsertDevice, RecordConflict, EndScan, CountOpen,
                RecordResult, Working
  <2>6. CASE RunRaises(d)
    BY <2>6, RunStops DEF RunRaises, Working
  <2>. QED  BY <2>1, <2>2, <2>3, <2>4, <2>5, <2>6
<1>6. UNCHANGED cmd
  BY DEF RunStep, LoadRow, PassChecks, Bisync, UpsertDevice, RecordConflict, EndScan, CountOpen,
         RecordResult, RunRaises, FinishRun, Due, TakeDeferred, RestoreRow
<1>. QED  BY <1>2, <1>4, <1>5, <1>6

\* Only adding puts a row there, and only removing takes one away.
LEMMA ThreadRows ==
  ASSUME Base, NEW c \in Clients, CommandStep(c), ~InsertRow(c), ~DeleteRow(c)
  PROVE  /\ \A d \in Ids : row'[d].there = row[d].there
         /\ \A d \in Ids \ {cmd[c].id} : row'[d] = row[d]
<1>a. cmd[c].id \in Ids /\ cmd[c].status \in Statuses
  BY Fields
<1>1. CASE PauseRow(c)
  <2> DEFINE r == [NewRow EXCEPT !.paused = TRUE, !.status = "paused"]
  <2>1. r \in Rows /\ r.there
    BY RowEdits DEF Statuses
  <2>2. row' = Updated(cmd[c].id, r)
    BY <1>1 DEF PauseRow
  <2> HIDE DEF r
  <2>. QED  BY <1>a, <2>1, <2>2, RowReplaced
<1>2. CASE ResumeRow(c)
  BY <1>2, <1>a, RowFacts, RowReplaced DEF ResumeRow
<1>3. CASE UpdateRow(c)
  <2>1. PICK paused \in BOOLEAN :
          row' = Updated(cmd[c].id, [NewRow EXCEPT !.paused = paused, !.status = cmd[c].status])
    BY <1>3 DEF UpdateRow
  <2> DEFINE r == [NewRow EXCEPT !.paused = paused, !.status = cmd[c].status]
  <2>2. r \in Rows /\ r.there
    BY <1>a, RowEdits
  <2>3. row' = Updated(cmd[c].id, r)
    BY <2>1
  <2> HIDE DEF r
  <2>. QED  BY <1>a, <2>2, <2>3, RowReplaced
<1>4. CASE RenewStatus(c)
  BY <1>4, <1>a, StatusWritten DEF RenewStatus, Statuses
<1>5. CASE UNCHANGED row
  BY <1>5
<1>. QED  BY <1>1, <1>2, <1>3, <1>4, <1>5
          DEF CommandStep, RegisterDevice, ForgetNote, TriggerSync, CancelSync, Purge,
              RememberDetached, ReadDataset, ResolveFile, MarkResolved, CountRemaining, tables

\* An outlived dataset stays one until a result is recorded in a row that is there.
LEMMA WorkerOutlived ==
  ASSUME NEW d \in Ids,
         RunStep(d) \/ Due(d) \/ TakeDeferred(d) \/ RestoreRow(d)
  PROVE  \A e \in outlived : e \in outlived' \/ row[e].there
BY DEF RunStep, LoadRow, PassChecks, Bisync, UpsertDevice, RecordConflict, EndScan, CountOpen,
       RecordResult, RunRaises, FinishRun, Due, TakeDeferred, RestoreRow, history

LEMMA ThreadOutlived ==
  ASSUME NEW c \in Clients, CommandStep(c)
  PROVE  outlived \subseteq outlived' /\ (~DeleteRow(c) => outlived' = outlived)
BY DEF CommandStep, InsertRow, RegisterDevice, ForgetNote, TriggerSync, CancelSync, Purge,
       RememberDetached, DeleteRow, PauseRow, ResumeRow, UpdateRow, ReadDataset, ResolveFile,
       MarkResolved, CountRemaining, RenewStatus, history

\* A thread does not make a run a working one, and stays what it is.
LEMMA ThreadMoves ==
  ASSUME Base, NEW c \in Clients, CommandStep(c)
  PROVE  /\ \A d \in Ids : run'[d] = run[d] \/ run'[d].pc = "load"
         /\ \A e \in Clients \ {c} : cmd'[e] = cmd[e]
         /\ cmd'[c].op = "none" \/ (cmd'[c].op = cmd[c].op /\ cmd'[c].id = cmd[c].id)
<1>1. \A d \in Ids : run'[d] = run[d] \/ run'[d].pc = "load"
  <2>1. CASE TriggerSync(c)
    <3>1. cmd[c].id \in Ids /\ Trigger(cmd[c].id)
      BY <2>1, Fields DEF TriggerSync
    <3>. QED  BY <3>1, Triggered
  <2>2. CASE ~TriggerSync(c)
    BY <2>2 DEF CommandStep, InsertRow, RegisterDevice, ForgetNote, CancelSync, Purge,
         RememberDetached, DeleteRow, PauseRow, ResumeRow, UpdateRow, ReadDataset, ResolveFile,
         MarkResolved, CountRemaining, RenewStatus
  <2>. QED  BY <2>1, <2>2
<1>2. \/ \E n \in 0 .. 6 : Goes(c, n)
      \/ Ends(c)
      \/ ReadDataset(c)
  <2>1. ASSUME NEW n \in {1, 2, 3, 4, 5, 6}, Goes(c, n) PROVE \E m \in 0 .. 6 : Goes(c, m)
    <3>1. n \in 0 .. 6
      OBVIOUS
    <3>. QED  BY <2>1, <3>1
  <2>. QED
    BY <2>1 DEF CommandStep, InsertRow, RegisterDevice, ForgetNote, TriggerSync, CancelSync, Purge,
         RememberDetached, DeleteRow, PauseRow, ResumeRow, UpdateRow, ResolveFile,
         MarkResolved, CountRemaining, RenewStatus
<1>3. CASE \E n \in 0 .. 6 : Goes(c, n)
  BY <1>1, <1>3, ThreadGoes
<1>4. CASE Ends(c)
  BY <1>1, <1>4, ThreadEnds
<1>5. CASE ReadDataset(c)
  <2>1. cmd \in [Clients -> CmdStates] /\ cmd[c] \in CmdStates
    BY BaseParts DEF CmdPart
  <2>. QED  BY <1>1, <1>5, <2>1 DEF ReadDataset, CmdStates
<1>. QED  BY <1>2, <1>3, <1>4, <1>5

-----------------------------------------------------------------------------
(* What is left of a removed dataset *)

\* No step but a removal takes a row away, and none forgets that one was outlived before a
\* result is recorded for a row that is there.
LEMMA KeptOn ==
  ASSUME Base, [Next]_vars, NEW d \in Ids, row[d].there \/ d \in outlived,
         \A c \in Clients : ~(DeleteRow(c) /\ cmd[c].id = d)
  PROVE  row'[d].there \/ d \in outlived'
<1>1. CASE \E e \in Ids : RunStep(e) \/ Due(e) \/ TakeDeferred(e) \/ RestoreRow(e)
  BY <1>1, WorkerRows, WorkerOutlived
<1>2. ASSUME NEW c \in Clients, BeginCommand(c)
      PROVE  UNCHANGED <<row, outlived>>
  <2>1. PICK op \in Commands, e \in Ids, known \in BOOLEAN, k \in 0 .. MaxConflicts :
          Begins(c, op, e, known, k)
    BY <1>2, Beginnings
  <2>. QED  BY <2>1 DEF Begins, tables
<1>3. ASSUME NEW c \in Clients, CommandStep(c)
      PROVE  row'[d].there \/ d \in outlived'
  <2>0. RowPart
    BY BaseParts
  <2>1. CASE InsertRow(c)
    <3>1. row' = row \/ row' = [row EXCEPT ![cmd[c].id] = NewRow]
      BY <2>1 DEF InsertRow
    <3>2. outlived' = outlived
      BY <2>1 DEF InsertRow
    <3>. QED  BY <2>0, <3>1, <3>2, RowFacts DEF RowPart
  <2>2. CASE DeleteRow(c)
    <3>1. row' = [row EXCEPT ![cmd[c].id] = NoRow] /\ cmd[c].id # d
      BY <2>2 DEF DeleteRow
    <3>. QED  BY <1>3, <2>0, <3>1, ThreadOutlived DEF RowPart
  <2>3. CASE ~InsertRow(c) /\ ~DeleteRow(c)
    BY <1>3, <2>3, ThreadRows, ThreadOutlived
  <2>. QED  BY <2>1, <2>2, <2>3
<1>4. CASE Crash \/ RestoreLists \/ UNCHANGED vars
  BY <1>4 DEF Crash, RestoreLists, tables, vars, history
<1>. QED  BY <1>1, <1>2, <1>3, <1>4 DEF Next

\* A removal that something outlives is noted; the device rows go with the row.
LEMMA Removed ==
  ASSUME Base, NEW c \in Clients, DeleteRow(c)
  PROVE  /\ ~row'[cmd[c].id].there /\ cmd[c].id \notin device'
         /\ \A d \in Ids \ {cmd[c].id} : row'[d] = row[d]
         /\ device' \subseteq device
         /\ Outlives(cmd[c].id) => cmd[c].id \in outlived'
         /\ UNCHANGED <<run, note, remote, superseded, excused, pending, deferred, restore>>
         /\ outlived \subseteq outlived'
         /\ \A e \in Clients \ {c} : cmd'[e] = cmd[e]
         /\ cmd'[c].op = "none" /\ cmd'[c].pc = 0
<1>1. row \in [Ids -> Rows] /\ cmd[c].id \in Ids
  BY BaseParts, Fields DEF RowPart
<1>2. /\ row' = [row EXCEPT ![cmd[c].id] = NoRow]
      /\ device' = device \ {cmd[c].id}
      /\ outlived' = IF Outlives(cmd[c].id) THEN outlived \cup {cmd[c].id} ELSE outlived
      /\ UNCHANGED <<run, note, remote, superseded, excused, pending, deferred, restore>>
      /\ Ends(c)
  BY DEF DeleteRow, queue
<1>. QED  BY <1>1, <1>2, RowFacts, ThreadEnds

LEMMA NextOutlived ==
  ASSUME Base, OutlivedInv, OrphansOutlived, [Next]_vars
  PROVE  OutlivedInv' /\ OrphansOutlived'
<1>a. RowPart /\ StorePart
  BY BaseParts
<1>1. ASSUME NEW d \in Ids, RunStep(d) \/ Due(d) \/ TakeDeferred(d) \/ RestoreRow(d)
      PROVE  OutlivedInv' /\ OrphansOutlived'
  <2>1. ASSUME NEW e \in Ids, row[e].there \/ e \in outlived
        PROVE  row'[e].there \/ e \in outlived'
    BY <1>1, <2>1, WorkerRows, WorkerOutlived
  <2>2. \A e \in Ids : run'[e].pc \in Working => run[e].pc \in Working \/ row[e].there
    BY <1>1, WorkerRows
  <2>3. UNCHANGED cmd
    BY <1>1, WorkerRows
  <2>4. device' \subseteq device \cup {d} /\ (device' = device \/ run[d].pc \in Working)
    BY <1>1 DEF RunStep, LoadRow, PassChecks, Bisync, UpsertDevice, RecordConflict, EndScan,
                CountOpen, RecordResult, RunRaises, FinishRun, Due, TakeDeferred, RestoreRow,
                tables, Working
  <2>5. OutlivedInv'
    BY <2>1, <2>2, <2>3, Fields DEF OutlivedInv, At
  <2>6. OrphansOutlived'
    BY <1>a, <2>1, <2>4 DEF OutlivedInv, OrphansOutlived, StorePart
  <2>. QED  BY <2>5, <2>6
<1>2. ASSUME NEW c \in Clients, BeginCommand(c)
      PROVE  OutlivedInv' /\ OrphansOutlived'
  <2>1. PICK op \in Commands, e \in Ids, known \in BOOLEAN, k \in 0 .. MaxConflicts :
          Begins(c, op, e, known, k)
    BY <1>2, Beginnings
  <2>2. UNCHANGED <<row, outlived, run, device>>
    BY <2>1 DEF Begins, tables
  <2>3. \A f \in Clients : cmd'[f] = cmd[f] \/ cmd'[f].pc = 1
    BY <2>1, Begun
  <2>. QED  BY <2>2, <2>3 DEF OutlivedInv, OrphansOutlived, At
<1>3. ASSUME NEW c \in Clients, CommandStep(c), ~DeleteRow(c)
      PROVE  OutlivedInv' /\ OrphansOutlived'
  <2>0. cmd[c].id \in Ids
    BY Fields
  <2>1. /\ \A d \in Ids : row[d].there => row'[d].there
        /\ UNCHANGED outlived
    <3>1. CASE InsertRow(c)
      <4>1. row' = row \/ row' = [row EXCEPT ![cmd[c].id] = NewRow]
        BY <3>1 DEF InsertRow
      <4>. QED  BY <1>3, <1>a, <4>1, RowFacts, ThreadOutlived DEF RowPart
    <3>. QED  BY <1>3, <3>1, ThreadRows, ThreadOutlived
  <2>2. At(c, Adding, 2)' => row'[cmd[c].id].there
    <3>1. CASE InsertRow(c)
      <4>1. CASE row[cmd[c].id].there
        BY <2>0, <2>1, <4>1
      <4>2. CASE ~row[cmd[c].id].there
        BY <1>a, <2>0, <3>1, <4>2, RowFacts DEF InsertRow, RowPart
      <4>. QED  BY <4>1, <4>2
    <3>2. CASE ~InsertRow(c)
      <4> DEFINE Late == {n \in 0 .. 6 : n # 2}
      <4>1. \/ \E n \in Late : Goes(c, n)
            \/ Ends(c)
            \/ cmd[c].op \in {"purge"} \cup Removing \cup Resolutions \cup {"resume"}
               /\ (cmd'[c].op = cmd[c].op \/ cmd'[c].op = "none")
        <5>1. 0 \in Late /\ 1 \in Late /\ 3 \in Late /\ 4 \in Late /\ 5 \in Late /\ 6 \in Late
          OBVIOUS
        <5> HIDE DEF Late
        <5>2. cmd'[c].op = cmd[c].op \/ cmd'[c].op = "none"
          BY <1>3, ThreadMoves
        <5>. QED
          BY <1>3, <3>2, <5>1, <5>2
             DEF CommandStep, RegisterDevice, ForgetNote, TriggerSync, CancelSync, Purge,
                 RememberDetached, DeleteRow, PauseRow, ResumeRow, UpdateRow, ReadDataset,
                 ResolveFile, MarkResolved, CountRemaining, RenewStatus, At, Removing
      <4>2. CASE \E n \in Late : Goes(c, n)
        BY <4>2, ThreadGoes DEF At
      <4>3. CASE Ends(c)
        BY <4>3, ThreadEnds DEF At
      <4>. QED  BY <4>1, <4>2, <4>3 DEF At, Adding, Removing, Resolutions
    <3>. QED  BY <3>1, <3>2
  <2>3. \A d \in Ids : run'[d].pc \in Working => run[d].pc \in Working
    BY <1>3, ThreadMoves DEF Working
  <2>4. /\ \A e \in Clients \ {c} : cmd'[e] = cmd[e]
        /\ cmd'[c].op = "none" \/ cmd'[c].id = cmd[c].id
    BY <1>3, ThreadMoves
  <2>5. /\ device' \subseteq device \cup {cmd[c].id}
        /\ device' = device \/ At(c, Adding, 2)
    BY <1>3 DEF CommandStep, InsertRow, RegisterDevice, ForgetNote, TriggerSync, CancelSync, Purge,
         RememberDetached, PauseRow, ResumeRow, UpdateRow, ReadDataset, ResolveFile,
         MarkResolved, CountRemaining, RenewStatus, tables
  <2>6. OutlivedInv'
    <3>1. ASSUME NEW e \in Clients, At(e, Adding, 2)'
          PROVE  row'[cmd'[e].id].there \/ cmd'[e].id \in outlived'
      <4>1. CASE e = c
        BY <2>2, <2>4, <3>1, <4>1 DEF At, Adding
      <4>2. CASE e # c
        <5>1. cmd'[e] = cmd[e] /\ At(e, Adding, 2) /\ cmd[e].id \in Ids
          BY <2>4, <3>1, <4>2, Fields DEF At
        <5>. QED  BY <2>1, <5>1 DEF OutlivedInv
      <4>. QED  BY <4>1, <4>2
    <3>. QED  BY <2>1, <2>3, <3>1 DEF OutlivedInv
  <2>7. OrphansOutlived'
    BY <1>a, <2>0, <2>1, <2>5 DEF OutlivedInv, OrphansOutlived, StorePart
  <2>. QED  BY <2>6, <2>7
<1>4. ASSUME NEW c \in Clients, DeleteRow(c)
      PROVE  OutlivedInv' /\ OrphansOutlived'
  <2>1. /\ cmd[c].id \notin device'
        /\ \A d \in Ids \ {cmd[c].id} : row'[d] = row[d]
        /\ device' \subseteq device
        /\ Outlives(cmd[c].id) => cmd[c].id \in outlived'
        /\ UNCHANGED run /\ outlived \subseteq outlived'
        /\ \A e \in Clients \ {c} : cmd'[e] = cmd[e]
        /\ cmd'[c].op = "none"
    BY <1>4, Removed
  <2>2. \A d \in Ids : run[d].pc \in Working => row'[d].there \/ d \in outlived'
    BY <2>1 DEF OutlivedInv, Outlives, Working
  <2>3. ASSUME NEW e \in Clients, At(e, Adding, 2)'
        PROVE  row'[cmd'[e].id].there \/ cmd'[e].id \in outlived'
    <3>1. e # c /\ cmd'[e] = cmd[e] /\ At(e, Adding, 2) /\ cmd[e].id \in Ids
      BY <2>1, <2>3, Fields DEF At, Adding
    <3>. QED  BY <2>1, <3>1 DEF OutlivedInv, Outlives
  <2>4. OutlivedInv'
    BY <2>1, <2>2, <2>3 DEF OutlivedInv
  <2>5. OrphansOutlived'
    BY <1>a, <2>1 DEF OrphansOutlived, StorePart
  <2>. QED  BY <2>4, <2>5
<1>5. CASE Crash
  <2>1. /\ \A d \in Ids : run'[d].pc = "idle"
        /\ \A c \in Clients : cmd'[c].op = "none"
        /\ UNCHANGED <<row, device, outlived>>
    BY <1>5, RunEdits, CmdEdits DEF Crash, tables, history
  <2>. QED  BY <2>1 DEF OutlivedInv, OrphansOutlived, At, Adding, Working
<1>6. CASE RestoreLists \/ UNCHANGED vars
  BY <1>6 DEF OutlivedInv, OrphansOutlived, RestoreLists, tables, vars, history, At
<1>. QED  BY <1>1, <1>2, <1>3, <1>4, <1>5, <1>6 DEF Next

\* What the device table says of a dataset without a row was written by a run, or by an adding
\* thread, that was under way when the row was removed: a removal itself leaves nothing
\* (db.py:809-816, sync_engine.py:660).
THEOREM OrphansExplained == Spec => []OrphansOutlived
<1>1. Init => OutlivedInv /\ OrphansOutlived
  <2> SUFFICES ASSUME Init PROVE OutlivedInv /\ OrphansOutlived
    OBVIOUS
  <2>1. \A d \in Ids : run[d].pc = "idle"
    BY RunEdits DEF Init
  <2>2. \A c \in Clients : cmd[c].op = "none"
    BY CmdEdits DEF Init
  <2>3. \A d \in device : row[d].there
    <3>1. Added \subseteq Ids
      BY RowsAssumption DEF RowsAssumption
    <3>2. "synced" \in Statuses
      BY DEF Statuses
    <3>3. [NewRow EXCEPT !.status = "synced"].there
      BY <3>2 DEF NewRow, NoRow
    <3>. QED  BY <3>1, <3>3 DEF Init
  <2>. QED  BY <2>1, <2>2, <2>3 DEF OutlivedInv, OrphansOutlived, At, Adding, Working
<1>. QED  BY <1>1, InitBase, NextBase, NextOutlived, PTL DEF Spec

-----------------------------------------------------------------------------
(* The note of the folder *)

\* What a thread that adds or removes does in a step that is not about the note: it goes on
\* with what it does, or ends.
MoveGoesOn(c) ==
  \/ cmd'[c].op \notin Moves
  \/ /\ cmd'[c].op = cmd[c].op /\ cmd'[c].id = cmd[c].id
     /\ cmd[c].op \in Adding /\ cmd'[c].pc \in 2 .. 4 => cmd[c].pc \in 2 .. 4
     /\ cmd[c].op = "purge" =>
          cmd'[c].pc < 3 \/ cmd'[c].pc = cmd[c].pc \/ cmd[c].id \in superseded'
     /\ cmd[c].op = "delete" /\ cmd'[c].pc = 4 => cmd[c].pc = 4

LEMMA MoveKinds ==
  /\ "delete" \in Moves /\ "purge" \in Moves /\ Removing \subseteq Moves /\ Adding \subseteq Moves
  /\ "none" \notin Moves /\ Removing \cap Adding = {}
BY DEF Moves, Removing, Adding

\* The steps that leave the note alone, and the rows where they are.
LEMMA NoteKept ==
  ASSUME Base, NoteInv, UNCHANGED note, superseded \subseteq superseded', remote' \subseteq Ids,
         \A d \in Ids : row'[d].there = row[d].there,
         \A d \in Ids : d \in remote' \/ run'[d].pc \in Working =>
                          \/ d \in remote \/ run[d].pc \in Working
                          \/ row[d].there \/ d \in superseded',
         \A c \in Clients : MoveGoesOn(c)
  PROVE  NoteInv'
<1>1. OneMover'
  BY DEF NoteInv, OneMover, MoveGoesOn
<1>2. OneRow'
  BY DEF NoteInv, OneRow
<1>3. ThreadInv'
  <2> SUFFICES ASSUME NEW c \in Clients, cmd'[c].id \notin superseded', cmd'[c].op \in Moves
               PROVE  /\ KnowsRow(c)'
                      /\ cmd'[c].op = "purge" => cmd'[c].pc < 3
                      /\ At(c, {"delete"}, 4)' => note' = cmd'[c].id
    BY MoveKinds, Zenon DEF ThreadInv, KnowsRow, At
  <2>1. /\ cmd'[c].op = cmd[c].op /\ cmd'[c].id = cmd[c].id /\ cmd[c].id \notin superseded
        /\ MoveGoesOn(c) /\ cmd[c].id \in Ids
    BY Fields DEF MoveGoesOn
  <2>2. /\ KnowsRow(c)
        /\ cmd[c].op = "purge" => cmd[c].pc < 3
        /\ At(c, {"delete"}, 4) => note = cmd[c].id
    BY <2>1 DEF NoteInv, ThreadInv
  <2>3. KnowsRow(c)'
    BY <2>1, <2>2, MoveKinds DEF KnowsRow, MoveGoesOn
  <2>4. cmd'[c].op = "purge" => cmd'[c].pc < 3
    BY <2>1, <2>2 DEF MoveGoesOn
  <2>5. At(c, {"delete"}, 4)' => note' = cmd'[c].id
    BY <2>1, <2>2 DEF At, MoveGoesOn
  <2>. QED  BY <2>3, <2>4, <2>5
<1>4. RememberedInv'
  BY DEF NoteInv, RememberedInv
<1>. QED  BY <1>1, <1>2, <1>3, <1>4 DEF NoteInv

LEMMA WorkerNote ==
  ASSUME Base, OutlivedInv, NoteInv, NEW d \in Ids,
         RunStep(d) \/ Due(d) \/ TakeDeferred(d) \/ RestoreRow(d)
  PROVE  NoteInv'
<1>1. /\ \A e \in Ids : row'[e].there = row[e].there
      /\ \A e \in Ids \ {d} : run'[e] = run[e]
      /\ run'[d].pc \in Working => run[d].pc \in Working \/ row[d].there
      /\ UNCHANGED cmd
  BY WorkerRows
<1>2. /\ UNCHANGED <<note, superseded>>
      /\ remote' \subseteq remote \cup {d} /\ (remote' = remote \/ run[d].pc \in Working)
  BY DEF RunStep, LoadRow, PassChecks, Bisync, UpsertDevice, RecordConflict, EndScan,
         CountOpen, RecordResult, RunRaises, FinishRun, Due, TakeDeferred, RestoreRow,
         tables, history, Working
<1>3. remote' \subseteq Ids
  BY <1>2, BaseParts DEF StorePart
<1>4. \A c \in Clients : MoveGoesOn(c)
  BY <1>1 DEF MoveGoesOn
<1>. QED  BY <1>1, <1>2, <1>3, <1>4, NoteKept

LEMMA BeginNote ==
  ASSUME Base, NoteInv, NEW c \in Clients, BeginCommand(c)
  PROVE  NoteInv'
<1>1. PICK op \in Commands, d \in Ids, known \in BOOLEAN, k \in 0 .. MaxConflicts :
        /\ Begins(c, op, d, known, k)
        /\ op \in Removing => row[d].there
  <2>1. Removing \cap ({"add", "add new", "join", "cancel"} \cup Resolutions) = {}
    BY DEF Removing, Resolutions
  <2>. QED  BY <2>1, Beginnings
<1>2. /\ \A e \in Clients \ {c} : cmd'[e] = cmd[e]
      /\ cmd'[c].op = op /\ cmd'[c].pc = 1 /\ cmd'[c].id = d
  BY <1>1, Begun
<1>3. /\ UNCHANGED <<note, row, run, remote>> /\ superseded \subseteq superseded'
      /\ op \in Moves =>
           \A e \in Clients : cmd[e].op \in Moves /\ cmd[e].id = d => d \in superseded'
  BY <1>1 DEF Begins, tables
<1>4. OneMover'
  BY <1>2, <1>3 DEF NoteInv, OneMover
<1>5. OneRow'
  BY <1>3 DEF NoteInv, OneRow
<1>6. ThreadInv'
  <2> SUFFICES ASSUME NEW e \in Clients, cmd'[e].id \notin superseded'
               PROVE  /\ KnowsRow(e)'
                      /\ cmd'[e].op = "purge" => cmd'[e].pc < 3
                      /\ At(e, {"delete"}, 4)' => note' = cmd'[e].id
    BY DEF ThreadInv
  <2>1. CASE e = c
    BY <1>1, <1>2, <1>3, <2>1 DEF KnowsRow, At
  <2>2. CASE e # c
    <3>1. cmd'[e] = cmd[e] /\ cmd[e].id \notin superseded
      BY <1>2, <1>3, <2>2
    <3>. QED  BY <1>3, <3>1 DEF NoteInv, ThreadInv, KnowsRow, At
  <2>. QED  BY <2>1, <2>2
<1>7. RememberedInv'
  BY <1>3 DEF NoteInv, RememberedInv
<1>. QED  BY <1>4, <1>5, <1>6, <1>7 DEF NoteInv

\* A thread goes on to a step that is not one of those the note is about.
LEMMA PlainThreadNote ==
  ASSUME Base, NoteInv, NEW c \in Clients, CommandStep(c),
         ~InsertRow(c), ~ForgetNote(c), ~RememberDetached(c), ~DeleteRow(c)
  PROVE  NoteInv'
<1>1. \A d \in Ids : row'[d].there = row[d].there
  BY ThreadRows
<1>2. /\ \A d \in Ids : run'[d] = run[d] \/ run'[d].pc = "load"
      /\ \A e \in Clients \ {c} : cmd'[e] = cmd[e]
      /\ cmd'[c].op = "none" \/ (cmd'[c].op = cmd[c].op /\ cmd'[c].id = cmd[c].id)
  BY ThreadMoves
<1>3. /\ UNCHANGED note /\ superseded \subseteq superseded' /\ remote' \subseteq remote
      /\ cmd[c].op \in Adding => RegisterDevice(c) \/ TriggerSync(c)
      /\ cmd[c].op \in Removing => CancelSync(c) \/ Purge(c)
  BY DEF CommandStep, RegisterDevice, TriggerSync, CancelSync, Purge,
         PauseRow, ResumeRow, UpdateRow, ReadDataset, ResolveFile, MarkResolved, CountRemaining,
         RenewStatus, tables, history, At, Adding, Removing, Resolutions
<1>4. MoveGoesOn(c)
  <2>1. CASE RegisterDevice(c)
    <3>1. Goes(c, 3) /\ cmd[c].op \in Adding /\ cmd[c].pc = 2 /\ 3 \in 0 .. 6 /\ 2 \in 2 .. 4
      BY <2>1 DEF RegisterDevice, At
    <3>2. cmd[c].op \notin {"delete", "purge"}
      BY <3>1 DEF Adding
    <3>. QED  BY <3>1, <3>2, ThreadGoes DEF MoveGoesOn
  <2>2. CASE TriggerSync(c)
    BY <2>2, ThreadEnds, MoveKinds DEF TriggerSync, MoveGoesOn
  <2>3. CASE CancelSync(c)
    <3>1. 2 \in 0 .. 6 /\ 3 \in 0 .. 6
      OBVIOUS
    <3>2. CASE cmd[c].op = "purge"
      <4>1. Goes(c, 2)
        BY <2>3, <3>2 DEF CancelSync
      <4>. QED  BY <3>1, <3>2, <4>1, ThreadGoes DEF MoveGoesOn, Adding
    <3>3. CASE cmd[c].op = "delete"
      <4>1. Goes(c, 3)
        BY <2>3, <3>3 DEF CancelSync
      <4>. QED  BY <3>1, <3>3, <4>1, ThreadGoes DEF MoveGoesOn, Adding
    <3>4. CASE cmd[c].op = "cancel"
      BY <2>3, <3>4, ThreadEnds, MoveKinds DEF CancelSync, MoveGoesOn
    <3>. QED  BY <2>3, <3>2, <3>3, <3>4 DEF CancelSync
  <2>4. CASE Purge(c)
    <3>1. Goes(c, 3) /\ cmd[c].op = "purge" /\ cmd[c].id \in superseded'
      BY <2>4 DEF Purge, At
    <3>. QED  BY <3>1, ThreadGoes DEF MoveGoesOn, Adding
  <2>5. CASE cmd[c].op \notin Adding \cup Removing
    BY <1>2, <2>5 DEF MoveGoesOn, Moves, Adding, Removing
  <2>. QED  BY <1>3, <2>1, <2>2, <2>3, <2>4, <2>5
<1>5. \A e \in Clients : MoveGoesOn(e)
  BY <1>2, <1>4 DEF MoveGoesOn
<1>6. remote' \subseteq Ids
  BY <1>3, BaseParts DEF StorePart
<1>7. \A d \in Ids : run'[d].pc \in Working => run[d].pc \in Working
  BY <1>2 DEF Working
<1>. QED  BY <1>1, <1>3, <1>5, <1>6, <1>7, NoteKept

\* A row is added: with another dataset in the folder, both are superseded.
LEMMA InsertNote ==
  ASSUME Base, NoteInv, NEW c \in Clients, InsertRow(c)
  PROVE  NoteInv'
<1> DEFINE d == cmd[c].id
           others == {e \in Ids \ {d} : row[e].there \/ note = e}
<1>0. row \in [Ids -> Rows] /\ d \in Ids /\ cmd[c].op \in Adding /\ cmd[c].pc = 1
  BY BaseParts, Fields DEF RowPart, InsertRow, At
<1>a. UNCHANGED <<note, remote, run>>
  BY DEF InsertRow
<1>1. CASE row[d].there
  <2>1. Ends(c) /\ UNCHANGED <<row, superseded>>
    BY <1>1 DEF InsertRow
  <2>2. \A e \in Clients : MoveGoesOn(e)
    BY <2>1, ThreadEnds, MoveKinds DEF MoveGoesOn
  <2>3. remote' \subseteq Ids
    BY <1>a, BaseParts DEF StorePart
  <2>. QED  BY <1>a, <2>1, <2>2, <2>3, NoteKept
<1>2. CASE ~row[d].there
  <2>1. /\ row' = [row EXCEPT ![d] = NewRow]
        /\ superseded' = IF others = {} THEN superseded ELSE superseded \cup others \cup {d}
        /\ Goes(c, 2)
    BY <1>2 DEF InsertRow
  <2>2. /\ \A e \in Ids \ {d} : row'[e] = row[e]
        /\ row'[d].there
    BY <1>0, <2>1, RowFacts
  <2>3. /\ superseded \subseteq superseded'
        /\ \A e \in Ids \ {d} : row[e].there \/ note = e => e \in superseded' /\ d \in superseded'
    BY <2>1
  <2>4. /\ \A e \in Clients \ {c} : cmd'[e] = cmd[e]
        /\ cmd'[c].op = cmd[c].op /\ cmd'[c].id = d /\ cmd'[c].pc = 2
    BY <2>1, ThreadGoes
  <2> HIDE DEF others
  <2>5. OneMover'
    BY <2>3, <2>4 DEF NoteInv, OneMover
  <2>6. OneRow'
    BY <1>0, <1>a, <2>2, <2>3 DEF NoteInv, OneRow
  <2>7. ThreadInv'
    <3> SUFFICES ASSUME NEW e \in Clients, cmd'[e].id \notin superseded'
                 PROVE  /\ KnowsRow(e)'
                        /\ cmd'[e].op = "purge" => cmd'[e].pc < 3
                        /\ At(e, {"delete"}, 4)' => note' = cmd'[e].id
      BY DEF ThreadInv
    <3>1. CASE e = c
      BY <1>0, <2>2, <2>4, <3>1 DEF KnowsRow, At, Adding
    <3>2. CASE e # c
      <4>1. cmd'[e] = cmd[e] /\ cmd[e].id \notin superseded /\ cmd[e].id \in Ids
        BY <2>3, <2>4, <3>2, Fields
      <4>2. row[cmd[e].id].there => row'[cmd[e].id].there
        BY <2>2, <4>1
      <4>. QED  BY <1>a, <4>1, <4>2 DEF NoteInv, ThreadInv, KnowsRow, At
    <3>. QED  BY <3>1, <3>2
  <2>8. RememberedInv'
    BY <1>a, <2>2, <2>3 DEF NoteInv, RememberedInv
  <2>. QED  BY <2>5, <2>6, <2>7, <2>8 DEF NoteInv
<1>. QED  BY <1>1, <1>2

\* The note is written: what it named before has its row, or is superseded.
LEMMA NoteWritten ==
  ASSUME Base, NoteInv, NEW c \in Clients, ForgetNote(c) \/ RememberDetached(c)
  PROVE  NoteInv'
<1> DEFINE d == cmd[c].id
<1>0. d \in Ids /\ 4 \in 0 .. 6
  BY Fields
<1>1. /\ UNCHANGED <<row, remote, run>> /\ Goes(c, 4) /\ Overwrites(c) /\ cmd[c].pc = 3
      /\ cmd[c].op \in Moves
  BY MoveKinds DEF ForgetNote, RememberDetached, At, Removing
<1>2. superseded \subseteq superseded'
  BY <1>1 DEF Overwrites
<1>3. /\ \A e \in Clients \ {c} : cmd'[e] = cmd[e]
      /\ cmd'[c].op = cmd[c].op /\ cmd'[c].id = d /\ cmd'[c].pc = 4
  BY <1>0, <1>1, ThreadGoes
<1>4. d \notin superseded => row[d].there /\ cmd[c].op # "purge"
  <2>1. cmd[c].op \in Removing \/ (cmd[c].op \in Adding /\ cmd[c].pc \in 2 .. 4)
    <3>1. cmd[c].pc \in 2 .. 4
      BY <1>1
    <3>2. cmd[c].op \in Removing \cup Adding
      BY <1>1 DEF Moves, Removing
    <3>. QED  BY <3>1, <3>2
  <2>. QED  BY <1>1, <2>1 DEF NoteInv, ThreadInv, KnowsRow
\* what the note no longer names
<1>5. ASSUME NEW e \in Ids, e # d, note = e, note' # note, e \notin superseded'
      PROVE  FALSE
  <2>1. CASE row[d].there
    BY <1>0, <1>2, <1>5, <2>1 DEF NoteInv, OneRow
  <2>2. CASE ~row[d].there
    BY <1>1, <1>5, <2>2 DEF Overwrites
  <2>. QED  BY <2>1, <2>2
<1>6. \A e \in Ids : note' = e /\ note' # note => e = d /\ RememberDetached(c)
  BY RowsAssumption DEF ForgetNote, RememberDetached, RowsAssumption
<1>7. OneMover'
  BY <1>2, <1>3 DEF NoteInv, OneMover
<1>8. OneRow'
  <2>1. ASSUME NEW x \in Ids, NEW e \in Ids, row[x].there, note' = e, x # e, e \notin superseded'
        PROVE  FALSE
    <3>1. CASE note' = note
      BY <1>2, <2>1, <3>1 DEF NoteInv, OneRow
    <3>2. CASE note' # note
      <4>1. e = d
        BY <1>6, <2>1, <3>2
      <4>. QED  BY <1>2, <1>4, <2>1, <4>1 DEF NoteInv, OneRow
    <3>. QED  BY <3>1, <3>2
  <2>. QED  BY <1>1, <1>2, <2>1 DEF NoteInv, OneRow
<1>9. ThreadInv'
  <2> SUFFICES ASSUME NEW e \in Clients, cmd'[e].id \notin superseded'
               PROVE  /\ KnowsRow(e)'
                      /\ cmd'[e].op = "purge" => cmd'[e].pc < 3
                      /\ At(e, {"delete"}, 4)' => note' = cmd'[e].id
    BY DEF ThreadInv
  <2>1. CASE e = c
    <3>1. d \notin superseded /\ row[d].there /\ cmd[c].op # "purge"
      BY <1>2, <1>3, <1>4, <2>1
    <3>2. cmd[c].op = "delete" => note' = d
      <4>1. cmd[c].op = "delete" => ~At(c, Adding, 3)
        BY DEF At, Adding
      <4>. QED  BY <4>1 DEF ForgetNote, RememberDetached
    <3>. QED  BY <1>1, <1>3, <2>1, <3>1, <3>2 DEF KnowsRow, At
  <2>2. CASE e # c
    <3>1. cmd'[e] = cmd[e] /\ cmd[e].id \notin superseded /\ cmd[e].id \in Ids
      BY <1>2, <1>3, <2>2, Fields
    <3>2. KnowsRow(e)' /\ (cmd'[e].op = "purge" => cmd'[e].pc < 3)
      BY <1>1, <3>1 DEF NoteInv, ThreadInv, KnowsRow
    <3>3. ASSUME At(e, {"delete"}, 4) PROVE note' = cmd[e].id
      <4>1. note = cmd[e].id
        BY <3>1, <3>3 DEF NoteInv, ThreadInv
      <4>2. cmd[e].id # d
        BY <1>1, <2>2, <3>1, <3>3, MoveKinds DEF NoteInv, OneMover, At
      <4>. QED  BY <1>5, <3>1, <4>1, <4>2
    <3>. QED  BY <3>1, <3>2, <3>3 DEF At
  <2>. QED  BY <2>1, <2>2
<1>10. RememberedInv'
  <2> SUFFICES ASSUME NEW x \in Ids, x \notin superseded', note = x, ~row[x].there
               PROVE  note' = x
    BY <1>1, <1>2 DEF NoteInv, RememberedInv
  <2>1. x # d
    BY <1>2, <1>4
  <2>. QED  BY <1>5, <2>1
<1>. QED  BY <1>7, <1>8, <1>9, <1>10 DEF NoteInv

\* The row goes when the note is there.
LEMMA DeleteNote ==
  ASSUME Base, NoteInv, NEW c \in Clients, DeleteRow(c)
  PROVE  NoteInv'
<1> DEFINE d == cmd[c].id
<1>0. d \in Ids /\ cmd[c].op \in Removing /\ cmd[c].pc = 4
  BY Fields DEF DeleteRow, At, Removing
<1>1. /\ ~row'[d].there
      /\ \A e \in Ids \ {d} : row'[e] = row[e]
      /\ UNCHANGED <<run, note, remote, superseded>>
      /\ \A e \in Clients \ {c} : cmd'[e] = cmd[e]
      /\ cmd'[c].op = "none"
  BY Removed
<1>2. d \notin superseded => note = d
  <2>1. cmd[c].op = "purge" => d \in superseded
    BY <1>0 DEF NoteInv, ThreadInv
  <2>2. cmd[c].op = "delete" => d \in superseded \/ note = d
    BY <1>0 DEF NoteInv, ThreadInv, At
  <2>. QED  BY <1>0, <2>1, <2>2 DEF Removing
<1>3. OneMover'
  BY <1>1, MoveKinds DEF NoteInv, OneMover
<1>4. OneRow'
  BY <1>1 DEF NoteInv, OneRow
<1>5. ThreadInv'
  <2> SUFFICES ASSUME NEW e \in Clients, cmd'[e].id \notin superseded'
               PROVE  /\ KnowsRow(e)'
                      /\ cmd'[e].op = "purge" => cmd'[e].pc < 3
                      /\ At(e, {"delete"}, 4)' => note' = cmd'[e].id
    BY DEF ThreadInv
  <2>1. CASE e = c
    BY <1>1, <2>1, MoveKinds DEF KnowsRow, At
  <2>2. CASE e # c
    <3>1. cmd'[e] = cmd[e] /\ cmd[e].id \notin superseded /\ cmd[e].id \in Ids
      BY <1>1, <2>2, Fields
    <3>2. KnowsRow(e)'
      <4>1. ASSUME cmd[e].op \in Moves, cmd[e].id = d PROVE FALSE
        BY <1>0, <2>2, <3>1, <4>1, MoveKinds DEF NoteInv, OneMover
      <4>. QED  BY <1>1, <3>1, <4>1, MoveKinds DEF NoteInv, ThreadInv, KnowsRow
    <3>. QED  BY <1>1, <3>1, <3>2 DEF NoteInv, ThreadInv, At
  <2>. QED  BY <2>1, <2>2
<1>6. RememberedInv'
  BY <1>1, <1>2 DEF NoteInv, RememberedInv
<1>. QED  BY <1>3, <1>4, <1>5, <1>6 DEF NoteInv

LEMMA NextNote ==
  ASSUME Base, OutlivedInv, NoteInv, [Next]_vars
  PROVE  NoteInv'
<1>1. CASE \E d \in Ids : RunStep(d) \/ Due(d) \/ TakeDeferred(d) \/ RestoreRow(d)
  BY <1>1, WorkerNote
<1>2. CASE \E c \in Clients : BeginCommand(c)
  BY <1>2, BeginNote
<1>3. CASE \E c \in Clients : CommandStep(c)
  BY <1>3, PlainThreadNote, InsertNote, NoteWritten, DeleteNote
<1>4. CASE Crash
  <2>1. /\ \A d \in Ids : run'[d].pc = "idle"
        /\ \A c \in Clients : cmd'[c].op = "none"
        /\ UNCHANGED <<row, note, remote, superseded>>
    BY <1>4, RunEdits, CmdEdits DEF Crash, tables, history
  <2>2. OneMover' /\ OneRow' /\ ThreadInv'
    BY <2>1, MoveKinds DEF NoteInv, OneMover, OneRow, ThreadInv, KnowsRow, At
  <2>3. RememberedInv'
    BY <2>1 DEF NoteInv, RememberedInv, Working
  <2>. QED  BY <2>2, <2>3 DEF NoteInv
<1>5. CASE RestoreLists \/ UNCHANGED vars
  <2>1. UNCHANGED <<row, note, remote, run, cmd, superseded>>
    BY <1>5 DEF RestoreLists, tables, vars, history
  <2>. QED  BY <2>1 DEF NoteInv, OneMover, OneRow, ThreadInv, KnowsRow, RememberedInv, At
<1>. QED  BY <1>1, <1>2, <1>3, <1>4, <1>5 DEF Next

\* The data left of a removed dataset can be found again from its folder: as long as one dataset
\* and one thread at a time have it, no kill and no order of the two writes of a removal loses
\* the note (sync_engine.py:1042-1050).
THEOREM NoteSurvives == Spec => []DetachedIsRemembered
<1>1. Init => OutlivedInv /\ OrphansOutlived /\ NoteInv
  <2> SUFFICES ASSUME Init PROVE OutlivedInv /\ OrphansOutlived /\ NoteInv
    OBVIOUS
  <2> PICK added \in SUBSET Added :
        /\ row = [d \in Ids |-> IF d \in added THEN [NewRow EXCEPT !.status = "synced"]
                                ELSE NoRow]
        /\ device = added /\ remote = added
        /\ superseded = {d \in added : added # {d}}
    BY DEF Init
  <2>1. /\ \A d \in Ids : run[d].pc = "idle"
        /\ \A c \in Clients : cmd[c].op = "none"
        /\ note = NoId /\ NoId \notin Ids
    BY RunEdits, CmdEdits, RowsAssumption DEF Init, RowsAssumption
  <2>2. \A d \in Ids : row[d].there <=> d \in added
    BY DEF NewRow, NoRow
  <2>3. OutlivedInv /\ OrphansOutlived
    <3>1. added \subseteq Ids
      BY RowsAssumption DEF RowsAssumption
    <3>. QED  BY <2>1, <2>2, <3>1 DEF OutlivedInv, OrphansOutlived, At, Adding, Working
  <2>4. OneMover /\ OneRow /\ ThreadInv
    BY <2>1, <2>2, MoveKinds DEF OneMover, OneRow, ThreadInv, KnowsRow, At
  <2>5. RememberedInv
    BY <2>1, <2>2 DEF RememberedInv, Working
  <2>. QED  BY <2>3, <2>4, <2>5 DEF NoteInv
<1>2. Base /\ NoteInv => DetachedIsRemembered
  BY BaseParts DEF NoteInv, RememberedInv, DetachedIsRemembered, StorePart
<1>. QED  BY <1>1, <1>2, InitBase, NextBase, NextOutlived, NextNote, PTL DEF Spec

-----------------------------------------------------------------------------
(* A pause stays *)

LEMMA StepPauseStays ==
  ASSUME Base, [Next]_vars, NEW d \in Ids, row[d].paused, row'[d].there, ~row'[d].paused
  PROVE  \E c \in Clients : /\ At(c, {"resume", "update"}, 1)
                            /\ cmd[c].id = d /\ cmd'[c] # cmd[c]
<1>1. CASE \E e \in Ids : RunStep(e) \/ Due(e) \/ TakeDeferred(e) \/ RestoreRow(e)
  BY <1>1, WorkerRows
<1>2. ASSUME NEW c \in Clients, BeginCommand(c)
      PROVE  FALSE
  <2>1. PICK op \in Commands, e \in Ids, known \in BOOLEAN, k \in 0 .. MaxConflicts :
          Begins(c, op, e, known, k)
    BY <1>2, Beginnings
  <2>. QED  BY <2>1 DEF Begins, tables
<1>3. ASSUME NEW c \in Clients, CommandStep(c)
      PROVE  At(c, {"resume", "update"}, 1) /\ cmd[c].id = d /\ cmd'[c] # cmd[c]
  <2>0. row \in [Ids -> Rows] /\ row[d].there /\ cmd[c].id \in Ids /\ 2 \in 0 .. 6
    BY BaseParts, Fields DEF RowPart
  <2>1. CASE InsertRow(c)
    <3>1. row' = row \/ (~row[cmd[c].id].there /\ row' = [row EXCEPT ![cmd[c].id] = NewRow])
      BY <2>1 DEF InsertRow
    <3>. QED  BY <2>0, <3>1
  <2>2. CASE DeleteRow(c)
    BY <2>0, <2>2, Removed
  <2>3. CASE PauseRow(c)
    <3> DEFINE r == [NewRow EXCEPT !.paused = TRUE, !.status = "paused"]
    <3>1. r \in Rows /\ r.there /\ r.paused
      BY RowEdits DEF Statuses
    <3>2. row' = Updated(cmd[c].id, r)
      BY <2>3 DEF PauseRow
    <3> HIDE DEF r
    <3>. QED  BY <2>0, <3>1, <3>2, RowReplaced
  <2>4. CASE ResumeRow(c)
    <3>1. At(c, {"resume"}, 1) /\ Goes(c, 2)
      BY <2>4 DEF ResumeRow
    <3>2. cmd'[c] # cmd[c] /\ At(c, {"resume", "update"}, 1)
      BY <2>0, <3>1, ThreadGoes DEF At
    <3>3. ~InsertRow(c) /\ ~DeleteRow(c)
      BY <3>1 DEF InsertRow, DeleteRow, At, Adding
    <3>. QED  BY <1>3, <2>0, <3>2, <3>3, ThreadRows
  <2>5. CASE UpdateRow(c)
    <3>1. At(c, {"update"}, 1) /\ Ends(c)
      BY <2>5 DEF UpdateRow
    <3>2. cmd'[c] # cmd[c] /\ At(c, {"resume", "update"}, 1)
      BY <2>0, <3>1, ThreadEnds DEF At
    <3>3. ~InsertRow(c) /\ ~DeleteRow(c)
      BY <3>1 DEF InsertRow, DeleteRow, At, Adding
    <3>. QED  BY <1>3, <2>0, <3>2, <3>3, ThreadRows
  <2>6. CASE RenewStatus(c)
    BY <2>0, <2>6, StatusWritten DEF RenewStatus, Statuses
  <2>7. CASE UNCHANGED row
    BY <2>7
  <2>. QED  BY <1>3, <2>1, <2>2, <2>3, <2>4, <2>5, <2>6, <2>7
            DEF CommandStep, RegisterDevice, ForgetNote, TriggerSync, CancelSync, Purge,
                RememberDetached, ReadDataset, ResolveFile, MarkResolved, CountRemaining, tables
<1>4. CASE Crash \/ RestoreLists \/ UNCHANGED vars
  BY <1>4 DEF Crash, RestoreLists, tables, vars
<1>. QED  BY <1>1, <1>2, <1>3, <1>4 DEF Next

\* No result of a run, no restore and no command but resuming and editing ends a pause, however
\* old the row is that they read (db.py:819-858).
THEOREM PauseKept == Spec => PauseStays
<1>1. Base /\ [Next]_vars =>
        [\A d \in Ids : row[d].paused /\ row'[d].there /\ ~row'[d].paused =>
           \E c \in Clients : /\ At(c, {"resume", "update"}, 1)
                              /\ cmd[c].id = d /\ cmd'[c] # cmd[c]]_vars
  BY StepPauseStays
<1>. QED  BY <1>1, InitBase, NextBase, PTL DEF Spec, PauseStays

-----------------------------------------------------------------------------
(* The status tells the conflicts *)

\* A step that leaves the row and the conflicts of a dataset, and what it is owed.
Aside(d) ==
  /\ row'[d] = row[d] /\ Open(d)' = Open(d) /\ run'[d] = run[d]
  /\ d \in excused => d \in excused'
  /\ d \in unwritten => d \in unwritten'
  /\ d \in cancelled => d \in cancelled'
  /\ d \in pending => d \in pending'
  /\ d \in deferred => d \in deferred'
  /\ restore.pc = "list" => restore'.pc = "list"
  /\ d \in restore.left \cap restore.defer => d \in restore'.left \cap restore'.defer
  /\ \A c \in Clients : Committed(c) /\ cmd[c].id = d => Committed(c)' /\ cmd'[c].id = d

LEMMA AsideComing ==
  ASSUME NEW d, Coming(d), d \in pending => d \in pending',
         \A c \in Clients : Committed(c) /\ cmd[c].id = d => Committed(c)' /\ cmd'[c].id = d
  PROVE  Coming(d)'
BY DEF Coming

LEMMA AsideTells ==
  ASSUME NEW d \in Ids, StatusTells(d), CountTells(d), Aside(d)
  PROVE  StatusTells(d)' /\ CountTells(d)'
<1>1. Coming(d) => Coming(d)'
  BY AsideComing DEF Aside
<1>2. Owed(d) => Owed(d)'
  BY <1>1 DEF Aside, Owed
<1>3. Settled(d) => Settled(d)'
  BY DEF Aside, Settled
<1>4. StatusTells(d)'
  BY <1>2, <1>3 DEF Aside, StatusTells
<1>5. CountTells(d)'
  BY <1>1 DEF Aside, CountTells
<1>. QED  BY <1>4, <1>5

\* A run on its way to a result owes the status, and has counted nothing before "record".
LEMMA OnItsWay ==
  ASSUME NEW d \in Ids, run'[d].pc \in {"load", "check", "bisync", "device", "scan", "count"}
  PROVE  StatusTells(d)' /\ CountTells(d)'
BY DEF StatusTells, CountTells, Owed, Working

\* The conflicts of the other datasets are not a step's of this one.
LEMMA OpenOfOthers ==
  ASSUME Base, NEW d \in Ids, RecordConflict(d), NEW e \in Ids \ {d}
  PROVE  Open(e)' = Open(e)
<1>1. PICK c \in Copies, k \in ConflictIds :
        /\ conflict[k].state = "none"
        /\ conflict' = [conflict EXCEPT ![k] = [ds |-> d, copy |-> c, state |-> "open"]]
  <2>1. PICK c \in Copies, k \in ConflictIds :
          /\ \A i \in ConflictIds : conflict[i].state = "none" <=> i >= k
          /\ conflict' = [conflict EXCEPT ![k] = [ds |-> d, copy |-> c, state |-> "open"]]
    BY DEF RecordConflict, Unrecorded
  <2>2. k >= k
    BY DEF ConflictIds
  <2>. QED  BY <2>1, <2>2
<1>2. conflict \in [ConflictIds -> ConflictRows]
  BY BaseParts DEF ConflictPart
<1>. QED  BY <1>1, <1>2 DEF Open

LEMMA RunSettles ==
  ASSUME Base, SyncingInv, SettlesInv, NEW d \in Ids, RunStep(d)
  PROVE  SettlesInv'
<1>a. StatusTells(d) /\ CountTells(d)
  BY DEF SettlesInv
<1>b. UNCHANGED <<cmd, restore>>
  BY DEF RunStep, LoadRow, PassChecks, Bisync, UpsertDevice, RecordConflict, EndScan, CountOpen,
         RecordResult, RunRaises, FinishRun
<1>1. ASSUME NEW e \in Ids, e # d
      PROVE  StatusTells(e)' /\ CountTells(e)'
  <2>1. row'[e] = row[e] /\ run'[e] = run[e]
    BY <1>1, WorkerRows
  <2>2. Open(e)' = Open(e)
    <3>1. CASE RecordConflict(d)
      BY <1>1, <3>1, OpenOfOthers
    <3>2. CASE ~RecordConflict(d)
      <4>1. UNCHANGED conflict
        BY <3>2 DEF RunStep, LoadRow, PassChecks, Bisync, UpsertDevice, EndScan,
               CountOpen, RecordResult, RunRaises, FinishRun, tables
      <4>. QED  BY <4>1 DEF Open
    <3>. QED  BY <3>1, <3>2
  <2>3. /\ e \in excused => e \in excused'
        /\ e \in unwritten => e \in unwritten'
        /\ e \in cancelled => e \in cancelled'
        /\ e \in pending => e \in pending'
        /\ e \in deferred => e \in deferred'
    BY <1>1 DEF RunStep, LoadRow, PassChecks, FailsChecks, IsOffline, GoesOn, Bisync,
           UpsertDevice, RecordConflict, EndScan, CountOpen, RecordResult, RunRaises, FinishRun,
           queue, history
  <2>4. Aside(e)
    BY <1>b, <2>1, <2>2, <2>3 DEF Aside, Committed
  <2>. QED  BY <2>4, AsideTells DEF SettlesInv
<1>2. run \in [Ids -> RunStates] /\ run[d] \in RunStates
  BY BaseParts, Fields DEF RunPart
<1>3. StatusTells(d)' /\ CountTells(d)'
  <2>1. CASE LoadRow(d)
    <3>1. run'[d].pc = IF row[d].there THEN "check" ELSE "finish"
      BY <1>2, <2>1 DEF LoadRow, RunStates
    <3>2. CASE row[d].there
      BY <3>1, <3>2, OnItsWay
    <3>3. CASE ~row[d].there
      BY <2>1, <3>1, <3>3 DEF LoadRow, tables, StatusTells, CountTells
    <3>. QED  BY <3>2, <3>3
  <2>2. CASE PassChecks(d) /\ GoesOn(d)
    <3>1. run'[d].pc = "bisync"
      BY <2>2, RunsOn DEF GoesOn, RunPCs
    <3>. QED  BY <3>1, OnItsWay
  <2>3. CASE (PassChecks(d) /\ ~GoesOn(d)) \/ RunRaises(d)
    <3>0. run'[d].pc = "finish" /\ CountTells(d)'
      BY <2>3, RunStops DEF PassChecks, FailsChecks, IsOffline, RunRaises, CountTells
    <3>1. CASE d \in unwritten'
      BY <3>0, <3>1 DEF StatusTells
    <3>2. CASE \E s \in {"error", "offline"} : row' = WithStatus(d, s)
      <4>1. PICK s \in {"error", "offline"} : row' = WithStatus(d, s)
        BY <3>2
      <4>2. row'[d].there => row'[d].status = s
        BY <4>1, StatusWritten DEF Statuses
      <4>. QED  BY <3>0, <4>2 DEF StatusTells, Settled
    <3>. QED  BY <2>3, <3>1, <3>2 DEF PassChecks, FailsChecks, IsOffline, RunRaises
  <2>4. CASE Bisync(d)
    <3>1. run'[d].pc = "device"
      BY <1>2, <2>4 DEF Bisync, RunStates
    <3>. QED  BY <3>1, OnItsWay
  <2>5. CASE UpsertDevice(d) \/ EndScan(d)
    <3>1. run'[d].pc \in {"scan", "count"}
      BY <2>5, RunsOn DEF UpsertDevice, EndScan, RunPCs
    <3>. QED  BY <3>1, OnItsWay
  <2>6. CASE RecordConflict(d)
    <3>1. run'[d].pc = "scan"
      BY <2>6 DEF RecordConflict
    <3>. QED  BY <3>1, OnItsWay
  <2>7. CASE CountOpen(d)
    <3>1. /\ run'[d].pc = "record" /\ run'[d].outcome = run[d].outcome
          /\ run'[d].open = (run[d].outcome \in {"success", "failed"} /\ Open(d) # {})
      BY <1>2, <2>7 DEF CountOpen, RunStates
    <3>2. Open(d)' = Open(d)
      BY <2>7 DEF CountOpen, tables, Open
    <3>. QED  BY <3>1, <3>2 DEF StatusTells, CountTells, Owed, Working
  <2>8. CASE RecordResult(d)
    <3>1. run'[d].pc = "finish"
      BY <2>8, RunStops DEF RecordResult
    <3>2. CountTells(d)'
      BY <3>1 DEF CountTells
    <3>3. CASE run[d].outcome = "lock"
      <4>1. d \in deferred'
        BY <2>8, <3>3 DEF RecordResult
      <4>. QED  BY <3>2, <4>1 DEF StatusTells, Owed
    <3>4. CASE run[d].outcome # "lock"
      <4>1. row[d].there => row'[d].status = ResultStatus(d)
        BY <2>8, ResultIsStatus, StatusWritten DEF RecordResult
      <4>2. row'[d].there <=> row[d].there
        BY WorkerRows
      <4>3. Open(d)' = Open(d)
        BY <2>8 DEF RecordResult, Open
      <4>4. Coming(d) => Coming(d)'
        BY <1>b, <2>8, AsideComing DEF RecordResult, Committed
      <4>5. run[d].outcome \in {"success", "failed", "attention"} /\ run[d].open \in BOOLEAN
        BY <1>2, <3>4 DEF RunStates, Outcomes
      <4>6. run[d].pc = "record"
        BY <2>8 DEF RecordResult
      <4>7. row[d].there => Settled(d)' \/ Coming(d) \/ d \in excused \cap cancelled
        <5>1. CASE run[d].outcome = "attention"
          BY <4>1, <5>1 DEF ResultStatus, Settled
        <5>2. CASE run[d].outcome = "success"
          <6>1. ResultStatus(d) = IF run[d].open THEN "conflict" ELSE "synced"
            BY <5>2 DEF ResultStatus
          <6>. QED  BY <1>a, <4>1, <4>3, <4>6, <5>2, <6>1 DEF CountTells, Settled
        <5>3. CASE run[d].outcome = "failed"
          <6>1. ResultStatus(d) = IF run[d].open THEN "conflict" ELSE "error"
            BY <5>3 DEF ResultStatus
          <6>. QED  BY <1>a, <4>1, <4>3, <4>6, <5>3, <6>1 DEF CountTells, Settled
        <5>. QED  BY <4>5, <5>1, <5>2, <5>3
      <4>8. d \in excused \cap cancelled => d \in excused'
        BY <2>8, <3>4 DEF RecordResult
      <4>. QED  BY <3>2, <4>2, <4>4, <4>7, <4>8 DEF StatusTells, Owed
    <3>. QED  BY <3>3, <3>4
  <2>9. CASE FinishRun(d)
    <3>1. UNCHANGED <<row, conflict, deferred, unwritten>> /\ run[d].pc = "finish"
      BY <2>9 DEF FinishRun, tables
    <3>2. Open(d)' = Open(d)
      BY <3>1 DEF Open
    <3>3. CASE d \in pending \ cancelled
      <4>1. "load" \in RunPCs
        BY DEF RunPCs
      <4>2. run'[d] = [IdleRun EXCEPT !.pc = "load"]
        BY <1>2, <2>9, <3>3 DEF FinishRun
      <4>3. run'[d].pc = "load"
        BY <4>1, <4>2, RunEdits
      <4>. QED  BY <4>3, OnItsWay
    <3>4. CASE d \notin pending \ cancelled
      <4>1. run'[d].pc = "idle"
        BY <1>2, <2>9, <3>4, RunEdits DEF FinishRun
      <4>2. CountTells(d)'
        BY <4>1 DEF CountTells
      <4>3. CASE d \in pending
        <5>1. d \in excused'
          BY <2>9, <3>4, <4>3 DEF FinishRun
        <5>. QED  BY <4>2, <5>1 DEF StatusTells
      <4>4. CASE d \notin pending
        <5>1. excused \subseteq excused'
          BY <2>9 DEF FinishRun
        <5>2. Owed(d) => Owed(d)'
          BY <1>b, <3>1, <4>4 DEF Owed, Coming, Committed, Working
        <5>3. Settled(d) => Settled(d)'
          BY <3>1, <3>2 DEF Settled
        <5>. QED  BY <1>a, <3>1, <4>2, <5>1, <5>2, <5>3 DEF StatusTells
      <4>. QED  BY <4>3, <4>4
    <3>. QED  BY <3>3, <3>4
  <2>. QED  BY <2>1, <2>2, <2>3, <2>4, <2>5, <2>6, <2>7, <2>8, <2>9 DEF RunStep
<1>. QED  BY <1>1, <1>3 DEF SettlesInv

LEMMA ComesNext ==
  ASSUME NEW d \in Ids, Coming(d)'
  PROVE  StatusTells(d)' /\ CountTells(d)'
BY DEF StatusTells, CountTells, Owed

LEMMA QueueSettles ==
  ASSUME Base, SettlesInv, NEW d \in Ids, Due(d) \/ TakeDeferred(d) \/ RestoreRow(d)
  PROVE  SettlesInv'
<1>a. StatusTells(d) /\ CountTells(d)
  BY DEF SettlesInv
<1>b. UNCHANGED <<cmd, conflict>>
  BY DEF Due, TakeDeferred, RestoreRow, tables
<1>c. \A e \in Ids : Open(e)' = Open(e)
  BY <1>b DEF Open
<1>1. CASE Due(d) \/ TakeDeferred(d)
  <2>0. UNCHANGED <<row, restore>>
    BY <1>1 DEF Due, TakeDeferred, tables
  <2>1. ASSUME NEW e \in Ids, e # d PROVE StatusTells(e)' /\ CountTells(e)'
    <3>1. row'[e] = row[e] /\ run'[e] = run[e]
      BY <1>1, <2>1, WorkerRows
    <3>2. /\ e \in excused => e \in excused'
          /\ UNCHANGED <<unwritten, cancelled>>
          /\ e \in pending => e \in pending'
          /\ e \in deferred => e \in deferred'
      BY <1>1, <2>1, Triggered DEF Due, TakeDeferred, history
    <3>3. Aside(e)
      BY <1>b, <1>c, <2>0, <3>1, <3>2 DEF Aside, Committed
    <3>. QED  BY <3>3, AsideTells DEF SettlesInv
  <2>2. CASE Trigger(d)
    <3>1. run'[d].pc = "load" \/ d \in pending'
      BY <2>2, Triggered
    <3>2. d \in pending' => Coming(d)'
      BY DEF Coming
    <3>. QED  BY <2>1, <3>1, <3>2, OnItsWay, ComesNext DEF SettlesInv
  <2>3. CASE ~Trigger(d)
    <3>1. d \in excused' /\ UNCHANGED <<run, pending, cancelled>>
      BY <1>1, <2>3 DEF Due, TakeDeferred
    <3>2. Coming(d) => Coming(d)'
      BY <1>b, <3>1 DEF Coming, Committed
    <3>. QED  BY <1>a, <1>c, <2>0, <2>1, <3>1, <3>2 DEF SettlesInv, StatusTells, CountTells
  <2>. QED  BY <2>2, <2>3
<1>2. CASE RestoreRow(d)
  <2>1. /\ UNCHANGED <<run, pending, cancelled, excused>> /\ deferred \subseteq deferred'
        /\ d \in restore.defer => d \in deferred'
        /\ unwritten \ {d} \subseteq unwritten'
        /\ d \notin restore.reset => (d \in unwritten => d \in unwritten')
    BY <1>2 DEF RestoreRow
  <2>2. /\ restore.pc # "list"
        /\ \A e \in Ids \ {d} : e \in restore.left \cap restore.defer =>
                                  e \in restore'.left \cap restore'.defer
    <3>1. RestorePart /\ d \in restore.left
      BY <1>2, BaseParts DEF RestoreRow
    <3>2. CASE restore.left = {d}
      BY <3>1, <3>2 DEF RestorePart
    <3>3. CASE restore.left # {d}
      <4>1. restore' = [restore EXCEPT !.left = @ \ {d}]
        BY <1>2, <3>3 DEF RestoreRow
      <4>. QED  BY <3>1, <4>1 DEF RestorePart
    <3>. QED  BY <3>2, <3>3
  <2>3. \A e \in Ids : Coming(e) => Coming(e)'
    BY <1>b, <2>1 DEF Coming, Committed
  <2>4. ASSUME NEW e \in Ids, e # d PROVE StatusTells(e)' /\ CountTells(e)'
    <3>1. row'[e] = row[e]
      BY <1>2, <2>4, WorkerRows
    <3>2. Aside(e)
      BY <1>b, <1>c, <2>1, <2>2, <2>4, <3>1 DEF Aside, Committed
    <3>. QED  BY <3>2, AsideTells DEF SettlesInv
  <2>5. row'[d].there = row[d].there
    BY <1>2, WorkerRows
  <2>6. CountTells(d)'
    BY <1>a, <1>c, <2>1, <2>3, <2>5 DEF CountTells
  <2>7. StatusTells(d)'
    <3>1. CASE d \in restore.defer
      BY <2>1, <3>1 DEF StatusTells, Owed
    <3>2. CASE d \in restore.reset /\ row[d].there
      <4>1. row'[d].status = "waiting"
        BY <1>2, <3>2, StatusWritten DEF RestoreRow, Statuses
      <4>. QED  BY <4>1 DEF StatusTells, Settled
    <3>4. CASE ~row[d].there
      BY <2>5, <3>4 DEF StatusTells
    <3>3. CASE d \notin restore.defer /\ d \notin restore.reset
      <4>1. row' = row
        BY <1>2, <3>3 DEF RestoreRow
      <4>2. Owed(d) => Owed(d)'
        BY <2>1, <2>2, <2>3, <3>3 DEF Owed
      <4>3. Settled(d) => Settled(d)'
        BY <1>c, <4>1 DEF Settled
      <4>. QED  BY <1>a, <2>1, <3>3, <4>1, <4>2, <4>3 DEF StatusTells
    <3>. QED  BY <3>1, <3>2, <3>3, <3>4
  <2>. QED  BY <2>4, <2>6, <2>7 DEF SettlesInv
<1>. QED  BY <1>1, <1>2

\* A conflict stays with its dataset.
LEMMA ConflictsStay ==
  ASSUME Base, [Next]_vars, NEW k \in ConflictIds, conflict[k].state # "none"
  PROVE  conflict'[k].state # "none" /\ conflict'[k].ds = conflict[k].ds
<1>0. conflict \in [ConflictIds -> ConflictRows]
  BY BaseParts DEF ConflictPart
<1>1. ASSUME NEW d \in Ids, RecordConflict(d)
      PROVE  conflict'[k] = conflict[k]
  <2>1. PICK c \in Copies, j \in ConflictIds :
          /\ \A i \in ConflictIds : conflict[i].state = "none" <=> i >= j
          /\ conflict' = [conflict EXCEPT ![j] = [ds |-> d, copy |-> c, state |-> "open"]]
    BY <1>1 DEF RecordConflict, Unrecorded
  <2>2. j >= j
    BY DEF ConflictIds
  <2>3. j # k
    BY <2>1, <2>2
  <2>. QED  BY <1>0, <2>1, <2>3
<1>2. ASSUME NEW d \in Ids, (RunStep(d) /\ ~RecordConflict(d)) \/ Due(d) \/ TakeDeferred(d)
                            \/ RestoreRow(d)
      PROVE  UNCHANGED conflict
  BY <1>2 DEF RunStep, LoadRow, PassChecks, Bisync, UpsertDevice, EndScan, CountOpen,
         RecordResult, RunRaises, FinishRun, Due, TakeDeferred, RestoreRow, tables
<1>3. ASSUME NEW c \in Clients, BeginCommand(c)
      PROVE  UNCHANGED conflict
  <2>1. PICK op \in Commands, e \in Ids, known \in BOOLEAN, i \in 0 .. MaxConflicts :
          Begins(c, op, e, known, i)
    BY <1>3, Beginnings
  <2>. QED  BY <2>1 DEF Begins, tables
<1>4. ASSUME NEW c \in Clients, CommandStep(c)
      PROVE  conflict'[k].state # "none" /\ conflict'[k].ds = conflict[k].ds
  <2>1. CASE DeleteRow(c)
    <3>1. conflict'[k] = IF conflict[k].ds = cmd[c].id /\ conflict[k].state # "none"
                         THEN [conflict[k] EXCEPT !.state = "gone"] ELSE conflict[k]
      BY <2>1 DEF DeleteRow
    <3>. QED  BY <1>0, <3>1 DEF ConflictRows
  <2>2. CASE MarkResolved(c)
    <3>1. conflict'[k] = conflict[k] \/ conflict'[k] = [conflict[k] EXCEPT !.state = "resolved"]
      <4>1. conflict' = [conflict EXCEPT ![cmd[c].k].state = IF @ = "gone" THEN @ ELSE "resolved"]
        BY <2>2 DEF MarkResolved
      <4>2. CASE k = cmd[c].k
        <5>1. conflict'[k] = [conflict[k] EXCEPT !.state = IF conflict[k].state = "gone"
                                                    THEN conflict[k].state ELSE "resolved"]
          BY <1>0, <4>1, <4>2
        <5>. QED  BY <1>0, <5>1 DEF ConflictRows
      <4>3. CASE k # cmd[c].k
        BY <1>0, <4>1, <4>3
      <4>. QED  BY <4>2, <4>3
    <3>. QED  BY <1>0, <3>1 DEF ConflictRows
  <2>3. CASE UNCHANGED conflict
    BY <2>3
  <2>. QED  BY <1>4, <2>1, <2>2, <2>3
            DEF CommandStep, InsertRow, RegisterDevice, ForgetNote, TriggerSync, CancelSync,
                Purge, RememberDetached, PauseRow, ResumeRow, UpdateRow, ReadDataset,
                ResolveFile, CountRemaining, RenewStatus, tables
<1>5. CASE Crash \/ RestoreLists \/ UNCHANGED vars
  BY <1>5 DEF Crash, RestoreLists, tables, vars
<1>. QED  BY <1>1, <1>2, <1>3, <1>4, <1>5 DEF Next

\* A thread keeps its conflict as long as it goes on.
LEMMA ThreadConflict ==
  ASSUME Base, NEW c \in Clients, CommandStep(c)
  PROVE  cmd'[c].op \in Resolutions => cmd'[c].k = cmd[c].k
<1>1. \/ \E n \in 0 .. 6 : Goes(c, n)
      \/ Ends(c)
      \/ ReadDataset(c)
  <2>1. ASSUME NEW n \in {1, 2, 3, 4, 5, 6}, Goes(c, n) PROVE \E m \in 0 .. 6 : Goes(c, m)
    <3>1. n \in 0 .. 6
      OBVIOUS
    <3>. QED  BY <2>1, <3>1
  <2>. QED
    BY <2>1 DEF CommandStep, InsertRow, RegisterDevice, ForgetNote, TriggerSync, CancelSync, Purge,
         RememberDetached, DeleteRow, PauseRow, ResumeRow, UpdateRow, ResolveFile,
         MarkResolved, CountRemaining, RenewStatus
<1>2. CASE \E n \in 0 .. 6 : Goes(c, n)
  BY <1>2, ThreadGoes
<1>3. CASE Ends(c)
  BY <1>3, ThreadEnds DEF Resolutions
<1>4. CASE ReadDataset(c)
  <2>1. cmd \in [Clients -> CmdStates] /\ cmd[c] \in CmdStates
    BY BaseParts DEF CmdPart
  <2>. QED  BY <1>4, <2>1 DEF ReadDataset, CmdStates
<1>. QED  BY <1>1, <1>2, <1>3, <1>4

LEMMA NextResolving ==
  ASSUME Base, ResolvingInv, [Next]_vars
  PROVE  ResolvingInv'
<1>1. ASSUME NEW c \in Clients, cmd'[c].op \in Resolutions
      PROVE  \E k \in ConflictIds : /\ cmd'[c].k = k /\ conflict[k].state # "none"
                                    /\ conflict[k].ds = cmd'[c].id
  <2>1. CASE cmd'[c] = cmd[c]
    BY <1>1, <2>1 DEF ResolvingInv
  <2>2. ASSUME NEW e \in Clients, BeginCommand(e), cmd'[c] # cmd[c]
        PROVE  \E k \in ConflictIds : /\ cmd'[c].k = k /\ conflict[k].state # "none"
                                      /\ conflict[k].ds = cmd'[c].id
    <3>1. PICK op \in Commands, d \in Ids, known \in BOOLEAN, k \in 0 .. MaxConflicts :
            /\ Begins(e, op, d, known, k)
            /\ op \in Resolutions => /\ k \in ConflictIds /\ conflict[k].ds = d
                                     /\ conflict[k].state \in {"open", "resolved"}
      <4>1. PICK op \in Commands, d \in Ids, known \in BOOLEAN, k \in 0 .. MaxConflicts :
              /\ Begins(e, op, d, known, k)
              /\ \/ op \in {"add", "add new"} /\ known = (op = "add" /\ note # NoId)
                    /\ IF known THEN d = note ELSE Fresh(d)
                 \/ op \in {"join", "cancel"}
                 \/ op \in {"delete", "purge", "pause", "resume", "update", "sync now"}
                    /\ row[d].there
                 \/ /\ op \in Resolutions /\ k \in ConflictIds /\ conflict[k].ds = d
                    /\ conflict[k].state \in {"open", "resolved"}
        BY <2>2, Beginnings, Zenon
      <4>2. op \in Resolutions => /\ k \in ConflictIds /\ conflict[k].ds = d
                                 /\ conflict[k].state \in {"open", "resolved"}
        BY <4>1 DEF Resolutions
      <4>. QED  BY <4>1, <4>2, Zenon
    <3>2. e = c /\ cmd'[c].op = op /\ cmd'[c].id = d /\ cmd'[c].k = k
      BY <2>2, <3>1, Begun
    <3>. QED  BY <1>1, <3>1, <3>2
  <2>3. ASSUME NEW e \in Clients, CommandStep(e), cmd'[c] # cmd[c]
        PROVE  \E k \in ConflictIds : /\ cmd'[c].k = k /\ conflict[k].state # "none"
                                      /\ conflict[k].ds = cmd'[c].id
    <3>1. e = c
      BY <2>3, ThreadMoves
    <3>2. cmd'[c].op = cmd[c].op /\ cmd'[c].id = cmd[c].id /\ cmd'[c].k = cmd[c].k
      BY <1>1, <2>3, <3>1, ThreadMoves, ThreadConflict DEF Resolutions
    <3>. QED  BY <1>1, <3>2 DEF ResolvingInv
  <2>4. CASE Crash
    <3>1. cmd'[c].op = "none"
      BY <2>4, CmdEdits DEF Crash
    <3>. QED  BY <1>1, <3>1 DEF Resolutions
  <2>5. CASE RestoreLists \/ UNCHANGED vars
    BY <2>1, <2>5 DEF RestoreLists, vars
  <2>6. ASSUME NEW d \in Ids, RunStep(d) \/ Due(d) \/ TakeDeferred(d) \/ RestoreRow(d)
        PROVE  cmd' = cmd
    BY <2>6, WorkerRows
  <2>. QED  BY <2>1, <2>2, <2>3, <2>4, <2>5, <2>6 DEF Next
<1>2. ASSUME NEW c \in Clients, cmd'[c].op \in Resolutions
      PROVE  /\ cmd'[c].k \in ConflictIds
             /\ conflict'[cmd'[c].k].state # "none" /\ conflict'[cmd'[c].k].ds = cmd'[c].id
  <2>1. PICK k \in ConflictIds : /\ cmd'[c].k = k /\ conflict[k].state # "none"
                                 /\ conflict[k].ds = cmd'[c].id
    BY <1>1, <1>2
  <2>2. conflict'[k].state # "none" /\ conflict'[k].ds = conflict[k].ds
    BY <2>1, ConflictsStay
  <2>. QED  BY <2>1, <2>2
<1>. QED  BY <1>2 DEF ResolvingInv

\* What a thread does not do to the datasets it is not about.
LEMMA ThreadAside ==
  ASSUME Base, ResolvingInv, NEW c \in Clients, CommandStep(c), NEW d \in Ids, d # cmd[c].id
  PROVE  Aside(d)
<1>0. row \in [Ids -> Rows] /\ conflict \in [ConflictIds -> ConflictRows] /\ cmd[c].id \in Ids
  BY BaseParts, Fields DEF RowPart, ConflictPart
<1>1. row'[d] = row[d]
  <2>1. CASE InsertRow(c)
    BY <1>0, <2>1 DEF InsertRow
  <2>2. CASE DeleteRow(c)
    BY <2>2, Removed
  <2>. QED  BY <2>1, <2>2, ThreadRows
<1>2. Open(d)' = Open(d)
  <2>1. CASE DeleteRow(c)
    <3>1. \A k \in ConflictIds : conflict'[k] = IF conflict[k].ds = cmd[c].id /\ conflict[k].state # "none"
                                               THEN [conflict[k] EXCEPT !.state = "gone"]
                                               ELSE conflict[k]
      BY <2>1 DEF DeleteRow
    <3>2. \A k \in ConflictIds : conflict[k].ds = d => conflict'[k] = conflict[k]
      BY <3>1
    <3>3. \A k \in ConflictIds : conflict'[k].ds = conflict[k].ds
      BY <1>0, <3>1 DEF ConflictRows
    <3>. QED  BY <3>2, <3>3 DEF Open
  <2>2. CASE MarkResolved(c)
    <3>1. cmd[c].k \in ConflictIds /\ conflict[cmd[c].k].ds = cmd[c].id
      BY <2>2 DEF MarkResolved, At, ResolvingInv
    <3>2. \A k \in ConflictIds \ {cmd[c].k} : conflict'[k] = conflict[k]
      BY <1>0, <2>2 DEF MarkResolved
    <3>3. conflict'[cmd[c].k].ds = cmd[c].id
      BY <1>0, <2>2, <3>1 DEF MarkResolved, ConflictRows
    <3>. QED  BY <3>1, <3>2, <3>3 DEF Open
  <2>3. CASE UNCHANGED conflict
    BY <2>3 DEF Open
  <2>. QED  BY <2>1, <2>2, <2>3
            DEF CommandStep, InsertRow, RegisterDevice, ForgetNote, TriggerSync, CancelSync,
                Purge, RememberDetached, PauseRow, ResumeRow, UpdateRow, ReadDataset,
                ResolveFile, CountRemaining, RenewStatus, tables
<1>3. run'[d] = run[d] /\ (d \in pending => d \in pending')
  <2>1. CASE TriggerSync(c)
    BY <1>0, <2>1, Triggered DEF TriggerSync
  <2>2. CASE ~TriggerSync(c)
    BY <2>2 DEF CommandStep, InsertRow, RegisterDevice, ForgetNote, CancelSync, Purge,
         RememberDetached, DeleteRow, PauseRow, ResumeRow, UpdateRow, ReadDataset, ResolveFile,
         MarkResolved, CountRemaining, RenewStatus, queue
  <2>. QED  BY <2>1, <2>2
<1>4. /\ UNCHANGED <<restore, unwritten>>
      /\ d \in excused => d \in excused'
      /\ d \in cancelled => d \in cancelled'
      /\ d \in deferred => d \in deferred'
  BY DEF CommandStep, InsertRow, RegisterDevice, ForgetNote, TriggerSync, CancelSync, Purge,
         RememberDetached, DeleteRow, PauseRow, ResumeRow, UpdateRow, ReadDataset, ResolveFile,
         MarkResolved, CountRemaining, RenewStatus, history, queue
<1>5. \A e \in Clients : Committed(e) /\ cmd[e].id = d => Committed(e)' /\ cmd'[e].id = d
  BY ThreadMoves DEF Committed
<1>. QED  BY <1>1, <1>2, <1>3, <1>4, <1>5 DEF Aside

\* A thread that stays, or becomes, committed to a run or a removal of its dataset.
LEMMA CommittedComes ==
  ASSUME NEW c \in Clients, NEW d \in Ids, Committed(c)', cmd'[c].id = d
  PROVE  StatusTells(d)' /\ CountTells(d)'
BY ComesNext DEF Coming

LEMMA ThreadSettles ==
  ASSUME Base, SettlesInv, ResolvingInv, NEW c \in Clients, CommandStep(c)
  PROVE  SettlesInv'
<1> PICK d \in Ids : d = cmd[c].id
  BY Fields
<1>a. d \in Ids /\ row \in [Ids -> Rows] /\ cmd[c].status \in Statuses
  BY BaseParts, Fields DEF RowPart
<1>b. StatusTells(d) /\ CountTells(d)
  BY <1>a DEF SettlesInv
<1>c. /\ 2 \in 0 .. 6 /\ 3 \in 0 .. 6 /\ 4 \in 0 .. 6 /\ 5 \in 0 .. 6 /\ 6 \in 0 .. 6
      /\ 2 \in 2 .. 4 /\ 3 \in 2 .. 4 /\ 4 \in 2 .. 4 /\ 4 \in 4 .. 6 /\ 5 \in 4 .. 6
      /\ 6 \in 4 .. 6 /\ 1 \notin 2 .. 4 /\ 1 \notin 4 .. 6 /\ 2 \notin 4 .. 6
  OBVIOUS
<1>d. /\ Adding \cap Resolutions = {} /\ Removing \cap Resolutions = {}
      /\ {"pause", "resume", "update", "cancel"} \cap (Moves \cup Resolutions) = {}
      /\ Moves \cap Resolutions = {}
  BY DEF Adding, Removing, Moves, Resolutions
<1>1. ASSUME NEW e \in Ids, e # d
      PROVE  StatusTells(e)' /\ CountTells(e)'
  BY <1>1, ThreadAside, AsideTells DEF SettlesInv
<1>2. \A e \in Clients \ {c} : cmd'[e] = cmd[e]
  BY ThreadMoves
\* a step of a thread that is not committed leaves what is owed to its dataset
<1>3. ASSUME ~Committed(c), UNCHANGED <<run, queue, restore, conflict>>,
             excused \subseteq excused', row'[d].there = row[d].there
      PROVE  /\ CountTells(d)' /\ (Owed(d) => Owed(d)') /\ Open(d)' = Open(d)
  <2>1. Coming(d) => Coming(d)'
    BY <1>2, <1>3 DEF Coming, Committed, queue
  <2>2. Open(d)' = Open(d)
    BY <1>3 DEF Open
  <2>3. CountTells(d)'
    BY <1>b, <1>3, <2>1, <2>2 DEF CountTells, queue
  <2>4. Owed(d) => Owed(d)'
    BY <1>3, <2>1 DEF Owed, queue
  <2>. QED  BY <2>2, <2>3, <2>4
<1>4. ASSUME ~Committed(c), UNCHANGED <<row, run, queue, restore, conflict, excused, unwritten>>
      PROVE  StatusTells(d)' /\ CountTells(d)'
  <2>1. /\ CountTells(d)' /\ (Owed(d) => Owed(d)') /\ Open(d)' = Open(d)
    BY <1>3, <1>4
  <2>. QED  BY <1>b, <1>4, <2>1 DEF StatusTells, Settled
<1>5. StatusTells(d)' /\ CountTells(d)'
  <2>1. CASE InsertRow(c)
    <3>0. cmd[c].op \in Adding /\ cmd[c].pc = 1 /\ ~Committed(c)
      BY <1>c, <2>1 DEF InsertRow, At, Committed
    <3>1. CASE row[d].there
      <4>1. UNCHANGED <<row, run, queue, restore, conflict, excused, unwritten>>
        BY <2>1, <3>1 DEF InsertRow
      <4>. QED  BY <1>4, <3>0, <4>1
    <3>2. CASE ~row[d].there
      <4>1. Goes(c, 2)
        BY <2>1, <3>2 DEF InsertRow
      <4>2. Committed(c)' /\ cmd'[c].id = d
        BY <1>c, <3>0, <4>1, ThreadGoes, MoveKinds DEF Committed
      <4>. QED  BY <1>a, <4>2, CommittedComes
    <3>. QED  BY <3>1, <3>2
  <2>2. CASE \/ RegisterDevice(c) \/ ForgetNote(c) \/ RememberDetached(c) \/ Purge(c)
             \/ CancelSync(c) /\ cmd[c].op # "cancel"
    <3>1. PICK n \in {2, 3, 4} : Goes(c, n)
      BY <2>2 DEF RegisterDevice, ForgetNote, RememberDetached, Purge, CancelSync
    <3>2. cmd[c].op \in Moves
      BY <2>2, MoveKinds
         DEF RegisterDevice, ForgetNote, RememberDetached, Purge, CancelSync, At, Removing
    <3>3. Committed(c)' /\ cmd'[c].id = d
      BY <1>c, <3>1, <3>2, ThreadGoes DEF Committed
    <3>. QED  BY <1>a, <3>3, CommittedComes
  <2>3. CASE TriggerSync(c)
    <3>1. run'[d].pc = "load" \/ d \in pending'
      BY <1>a, <2>3, Triggered DEF TriggerSync
    <3>2. d \in pending' => Coming(d)'
      BY DEF Coming
    <3>. QED  BY <1>a, <3>1, <3>2, OnItsWay, ComesNext
  <2>4. CASE DeleteRow(c)
    <3>1. ~row'[d].there
      BY <2>4, Removed
    <3>. QED  BY <3>1 DEF StatusTells, CountTells
  <2>5. CASE PauseRow(c) \/ ResumeRow(c) \/ UpdateRow(c)
    <3>1. /\ ~Committed(c) /\ UNCHANGED <<run, queue, restore, conflict>>
          /\ excused \subseteq excused' /\ UNCHANGED unwritten
          /\ ~InsertRow(c) /\ ~DeleteRow(c)
      BY <1>d, <2>5, MoveKinds
         DEF PauseRow, ResumeRow, UpdateRow, At, Committed, history, InsertRow, DeleteRow, Removing
    <3>2. row'[d].there = row[d].there
      BY <1>a, <3>1, ThreadRows
    <3>3. CountTells(d)' /\ (Owed(d) => Owed(d)') /\ Open(d)' = Open(d)
      BY <1>3, <3>1, <3>2
    <3>4. row'[d].there => \/ row'[d].status \in {"paused", "waiting"}
                           \/ row'[d].status = row[d].status
                           \/ d \in excused'
      <4>1. CASE PauseRow(c)
        <5> DEFINE r == [NewRow EXCEPT !.paused = TRUE, !.status = "paused"]
        <5>1. r \in Rows /\ r.there /\ r.status = "paused"
          BY RowEdits DEF Statuses
        <5>2. row' = Updated(d, r)
          BY <4>1 DEF PauseRow
        <5> HIDE DEF r
        <5>. QED  BY <1>a, <5>1, <5>2, RowReplaced
      <4>2. CASE ResumeRow(c)
        <5>1. row' = Updated(d, NewRow)
          BY <4>2 DEF ResumeRow
        <5>. QED  BY <1>a, <5>1, RowFacts, RowReplaced
      <4>3. CASE UpdateRow(c)
        <5>1. PICK paused \in BOOLEAN :
                row' = Updated(d, [NewRow EXCEPT !.paused = paused, !.status = cmd[c].status])
          BY <4>3 DEF UpdateRow
        <5> DEFINE r == [NewRow EXCEPT !.paused = paused, !.status = cmd[c].status]
        <5>2. r \in Rows /\ r.there /\ r.status = cmd[c].status
          BY <1>a, RowEdits
        <5>3. row' = Updated(d, r)
          BY <5>1
        <5> HIDE DEF r
        <5>4. cmd[c].status = row[d].status \/ d \in excused'
          BY <4>3 DEF UpdateRow
        <5>. QED  BY <1>a, <5>2, <5>3, <5>4, RowReplaced
      <4>. QED  BY <2>5, <4>1, <4>2, <4>3
    <3>. QED  BY <1>b, <3>1, <3>2, <3>3, <3>4 DEF StatusTells, Settled
  <2>6. CASE ReadDataset(c) \/ ResolveFile(c)
    <3>1. ~Committed(c)
      BY <1>c, <1>d, <2>6 DEF ReadDataset, ResolveFile, At, Committed
    <3>2. UNCHANGED <<row, run, queue, restore, conflict, excused, unwritten>>
      BY <2>6 DEF ReadDataset, ResolveFile, tables, history
    <3>. QED  BY <1>4, <3>1, <3>2
  <2>7. CASE MarkResolved(c) \/ CountRemaining(c) \/ RenewStatus(c)
    <3>1. PICK n \in {4, 5, 6} : Goes(c, n)
      BY <2>7 DEF MarkResolved, CountRemaining, RenewStatus
    <3>2. cmd[c].op \in Resolutions
      BY <2>7 DEF MarkResolved, CountRemaining, RenewStatus, At
    <3>3. Committed(c)' /\ cmd'[c].id = d
      BY <1>c, <3>1, <3>2, ThreadGoes DEF Committed
    <3>. QED  BY <1>a, <3>3, CommittedComes
  <2>8. CASE CancelSync(c) /\ cmd[c].op = "cancel"
    <3>1. /\ UNCHANGED <<row, run, restore, conflict, unwritten>>
          /\ excused \subseteq excused' /\ cancelled' = cancelled \cup {d}
          /\ pending' = pending \ {d} /\ deferred' = deferred \ {d}
          /\ d \in pending \cup deferred => d \in excused'
      BY <2>8 DEF CancelSync, tables
    <3>2. CASE d \in pending \cup deferred
      BY <3>1, <3>2 DEF StatusTells, CountTells
    <3>3. CASE d \notin pending \cup deferred
      <4>1. ~Committed(c)
        BY <1>d, <2>8 DEF Committed
      <4>2. Coming(d) => Coming(d)'
        BY <1>2, <3>3, <4>1 DEF Coming, Committed
      <4>3. Owed(d) => Owed(d)'
        BY <3>1, <3>3, <4>2 DEF Owed
      <4>4. Open(d)' = Open(d)
        BY <3>1 DEF Open
      <4>. QED  BY <1>b, <3>1, <4>2, <4>3, <4>4 DEF StatusTells, CountTells, Settled
    <3>. QED  BY <3>2, <3>3
  <2>. QED  BY <2>1, <2>2, <2>3, <2>4, <2>5, <2>6, <2>7, <2>8 DEF CommandStep
<1>. QED  BY <1>1, <1>5 DEF SettlesInv

LEMMA BeginSettles ==
  ASSUME Base, SettlesInv, NEW c \in Clients, BeginCommand(c)
  PROVE  SettlesInv'
<1>1. PICK op \in Commands, e \in Ids, known \in BOOLEAN, k \in 0 .. MaxConflicts :
        Begins(c, op, e, known, k)
  BY Beginnings
<1>2. UNCHANGED <<row, run, queue, restore, conflict, excused, unwritten>>
  BY <1>1 DEF Begins, tables, queue
<1>3. /\ \A f \in Clients \ {c} : cmd'[f] = cmd[f]
      /\ cmd[c].op = "none"
  BY <1>1, Begun
<1>4. ~Committed(c)
  BY <1>3, MoveKinds DEF Committed, Resolutions
<1>5. \A d \in Ids : Aside(d)
  BY <1>2, <1>3, <1>4 DEF Aside, Committed, Open, queue
<1>. QED  BY <1>5, AsideTells DEF SettlesInv

LEMMA ServiceSettles ==
  ASSUME Base, SettlesInv, Crash \/ RestoreLists
  PROVE  SettlesInv'
<1>1. CASE Crash
  <2>1. restore'.pc = "list" /\ \A d \in Ids : run'[d].pc = "idle"
    BY <1>1, RunEdits DEF Crash, NoRestore
  <2>. QED  BY <2>1 DEF SettlesInv, StatusTells, CountTells, Owed
<1>2. CASE RestoreLists
  <2>1. /\ UNCHANGED <<row, run, pending, deferred, cancelled, cmd, conflict, unwritten>>
        /\ excused \subseteq excused'
    BY <1>2 DEF RestoreLists, tables, queue
  <2> SUFFICES ASSUME NEW d \in Ids PROVE StatusTells(d)' /\ CountTells(d)'
    BY DEF SettlesInv
  <2>2. Open(d)' = Open(d) /\ (Coming(d) => Coming(d)')
    BY <2>1 DEF Open, Coming, Committed
  <2>3. CountTells(d)'
    BY <2>1, <2>2 DEF SettlesInv, CountTells
  <2>4. ASSUME row[d].there, ~row[d].paused
        PROVE  d \in restore'.left \cap restore'.defer
    BY <1>2, <2>4 DEF RestoreLists
  <2>5. ASSUME row[d].there, row[d].paused
        PROVE  d \in excused' \/ row[d].status \notin {"synced", "conflict"}
    BY <1>2, <2>5 DEF RestoreLists
  <2>6. StatusTells(d)'
    BY <2>1, <2>4, <2>5 DEF StatusTells, Owed, Settled
  <2>. QED  BY <2>3, <2>6
<1>. QED  BY <1>1, <1>2

LEMMA NextSettles ==
  ASSUME Base, SyncingInv, SettlesInv, ResolvingInv, [Next]_vars
  PROVE  SettlesInv'
<1>1. CASE \E d \in Ids : RunStep(d) \/ Due(d) \/ TakeDeferred(d) \/ RestoreRow(d)
  BY <1>1, RunSettles, QueueSettles
<1>2. CASE \E c \in Clients : BeginCommand(c) \/ CommandStep(c)
  BY <1>2, BeginSettles, ThreadSettles
<1>3. CASE Crash \/ RestoreLists
  BY <1>3, ServiceSettles
<1>4. CASE UNCHANGED vars
  <2>1. \A d \in Ids : Aside(d)
    BY <1>4 DEF Aside, Open, Committed, vars, history, queue
  <2>. QED  BY <2>1, AsideTells DEF SettlesInv
<1>. QED  BY <1>1, <1>2, <1>3, <1>4 DEF Next

\* When nothing is under way for a dataset any more its status tells the conflicts, whatever
\* the order of the runs that count, the resolutions that renew the status from a row they
\* read before, the edits and the kills (sync_engine.py:672-674, 938-944).
THEOREM StatusTrue == Spec => []StatusSettles
<1>1. Init => SettlesInv /\ ResolvingInv
  <2> SUFFICES ASSUME Init PROVE SettlesInv /\ ResolvingInv
    OBVIOUS
  <2>1. /\ \A d \in Ids : run[d].pc = "idle"
        /\ \A c \in Clients : cmd[c].op = "none"
    BY RunEdits, CmdEdits DEF Init
  <2>2. \A d \in Ids : row[d].status # "conflict"
    BY DEF Init, NewRow, NoRow
  <2>3. \A d \in Ids : Open(d) = {}
    BY DEF Init, Open
  <2>4. SettlesInv
    BY <2>1, <2>2, <2>3 DEF SettlesInv, StatusTells, CountTells, Settled
  <2>5. ResolvingInv
    BY <2>1 DEF ResolvingInv, Resolutions
  <2>. QED  BY <2>4, <2>5
<1>2. Base /\ SettlesInv => StatusSettles
  <2> SUFFICES ASSUME Base, SettlesInv, NEW d \in Ids \ (excused \cup unwritten), Quiet(d), row[d].there
               PROVE  Settled(d)
    BY DEF StatusSettles, Settled
  <2>1. restore.left = {} /\ restore.pc # "list"
    BY BaseParts DEF RestorePart, Quiet
  <2>2. ~Coming(d)
    BY MoveKinds DEF Coming, Committed, Quiet, Resolutions
  <2>. QED  BY <2>1, <2>2 DEF SettlesInv, StatusTells, Owed, Quiet, Working
<1>. QED  BY <1>1, <1>2, SyncingStart, InitBase, NextBase, NextSyncing, NextSettles,
             NextResolving, PTL DEF Spec

=============================================================================
