--------------------------- MODULE DevicesProofs ---------------------------
(***************************************************************************)
(* Theorems about Devices for every choice of its constants, checked with  *)
(* TLAPS.                                                                  *)
(***************************************************************************)
EXTENDS Devices, TLAPS

-----------------------------------------------------------------------------
(* The inductive invariant *)

\* A run that still has to register its computer is a thread of a computer that is up.
RunsAreUp == \A c \in Computers : run[c] # "idle" => c \in up

\* The history of a computer that runs is the time; no history is ahead of it.
AliveIsPast == \A c \in Computers : alive[c] <= now /\ (c \in up => alive[c] = now)

\* No time that is stored, kept in R2 or on its way from there to a table is later than
\* the clock of the computer it is about was when that computer was last running.
SeenIsPast ==
  \A d \in Computers :
    /\ file[d] <= alive[d] + Ahead[d]
    /\ \A c \in Computers : /\ table[c][d] <= alive[d] + Ahead[d]
                            /\ refresh[c].got[d] <= alive[d] + Ahead[d]

SeenInv == RunsAreUp /\ AliveIsPast /\ SeenIsPast

\* A computer removes others only, and of a removed one nothing is left anywhere.
RemovesOthers ==
  \A c \in Computers : /\ removal[c].pc # "idle" => removal[c].of # c
                       /\ c \notin gone[c]
NothingLeft ==
  \A c \in Computers : \A d \in gone[c] :
    table[c][d] = NoEntry /\ file[d] = NoEntry /\ refresh[c].got[d] = NoEntry

GoneInv == RemovesOthers /\ NothingLeft

Inv == TypeOK /\ SeenInv /\ GoneInv

-----------------------------------------------------------------------------
(* Rows, files and refreshes *)

RefreshStates ==
  [pc: {"idle", "fetch", "store", "adopt"}, todo: SUBSET Computers, got: Tables]

\* A refresh as the type invariant wants it.
RefreshOK(c, r) ==
  /\ r \in RefreshStates
  /\ r.pc # "fetch" => r.todo = {}
  /\ r.pc = "adopt" => r.got[c] # NoEntry

\* The times that the invariant allows about a computer.
Past(d, seen) == seen \in Nat \cup {NoEntry} /\ seen <= alive[d] + Ahead[d]

\* What the steps write is well typed, and no entry is allowed everywhere.
LEMMA StateFacts ==
  ASSUME TypeOK
  PROVE  /\ Empty \in Tables
         /\ \A c \in Computers : Empty[c] = NoEntry
         /\ \A c \in Computers : RefreshOK(c, Idle)
         /\ Idle.got = Empty /\ Idle.pc = "idle"
         /\ NoRemoval.pc = "idle"
         /\ NoRemoval \in [pc: {"idle", "first", "second"}, of: Computers]
         /\ \A d \in Computers : Clock(d) \in Nat /\ Past(d, NoEntry)
<1>1. Empty \in Tables /\ \A c \in Computers : Empty[c] = NoEntry
  BY DEF Empty, Tables
<1>2. now \in Nat /\ \A d \in Computers : Ahead[d] \in Nat /\ alive[d] \in Nat
  BY DevicesAssumption DEF TypeOK
<1>3. \A d \in Computers : Clock(d) \in Nat /\ Past(d, NoEntry)
  BY <1>2 DEF Clock, Past, NoEntry
<1>4. \A c \in Computers : RefreshOK(c, Idle)
  BY <1>1 DEF RefreshOK, Idle, RefreshStates
<1>5. NoRemoval.pc = "idle" /\ NoRemoval \in [pc: {"idle", "first", "second"}, of: Computers]
  BY DevicesAssumption DEF NoRemoval
<1>. QED  BY <1>1, <1>3, <1>4, <1>5 DEF Idle

\* The time of a computer that runs is allowed for its own row and file.
LEMMA OwnClockIsPast ==
  ASSUME Inv, NEW c \in up
  PROVE  c \in Computers /\ Past(c, Clock(c))
<1>1. c \in Computers
  BY DEF Inv, TypeOK
<1>2. alive[c] = now
  BY <1>1 DEF Inv, SeenInv, AliveIsPast
<1>3. Clock(c) \in Nat /\ Clock(c) = now + Ahead[c]
  BY <1>1, StateFacts DEF Inv, Clock
<1>. QED  BY <1>1, <1>2, <1>3 DEF Past

\* What is read from a row, from R2 or by a refresh is allowed.
LEMMA StoredIsPast ==
  ASSUME Inv, NEW c \in Computers, NEW d \in Computers
  PROVE  Past(d, table[c][d]) /\ Past(d, file[d]) /\ Past(d, refresh[c].got[d])
BY DEF Inv, TypeOK, Tables, SeenInv, SeenIsPast, Past

\* One row of one table is written, for a computer that is not gone from there.
LEMMA RowWritten ==
  ASSUME Inv, NEW c \in Computers, NEW d \in Computers, NEW seen,
         Past(d, seen), Upsert(c, d, seen),
         seen = NoEntry \/ d \notin gone[c]
  PROVE  /\ table' \in [Computers -> Tables]
         /\ \A e, f \in Computers : Past(f, table'[e][f])
         /\ \A e \in Computers : \A f \in gone[e] : table'[e][f] = NoEntry
<1>1. table \in [Computers -> Tables] /\ \A e \in Computers : gone[e] \subseteq Computers
  BY DEF Inv, TypeOK
<1>2. seen \in Nat \cup {NoEntry}
  BY DEF Past
<1>3. table' \in [Computers -> Tables]
  BY <1>1, <1>2 DEF Upsert, Tables
<1>4. ASSUME NEW e \in Computers, NEW f \in Computers
      PROVE  table'[e][f] = IF e = c /\ f = d THEN seen ELSE table[e][f]
  BY <1>1 DEF Upsert, Tables
<1>5. \A e, f \in Computers : Past(f, table'[e][f])
  BY <1>4, StoredIsPast
<1>6. \A e \in Computers : \A f \in gone[e] : table'[e][f] = NoEntry
  BY <1>1, <1>4 DEF Inv, GoneInv, NothingLeft
<1>. QED  BY <1>3, <1>5, <1>6

\* A computer that is up publishes its file: whoever removed it has it back, or nothing
\* was written.
LEMMA FilePublished ==
  ASSUME Inv, NEW c \in up, PublishFile(c)
  PROVE  /\ file' \in Tables
         /\ \A d \in Computers : Past(d, file'[d])
         /\ gone' \in [Computers -> SUBSET Computers]
         /\ \A r \in Computers : gone'[r] \subseteq gone[r]
         /\ \A r \in Computers : \A d \in gone'[r] : file'[d] = NoEntry
<1>1. c \in Computers /\ Past(c, Clock(c))
  BY OwnClockIsPast
<1>2. file \in Tables /\ gone \in [Computers -> SUBSET Computers]
  BY DEF Inv, TypeOK
<1>3. file' \in {[file EXCEPT ![c] = Clock(c)], file}
  BY DEF PublishFile, WriteFile
<1>4. file' \in Tables /\ \A d \in Computers : d # c => file'[d] = file[d]
  BY <1>1, <1>2, <1>3 DEF Tables, Past
<1>5. file'[c] \in {file[c], Clock(c)}
  BY <1>1, <1>2, <1>3 DEF Tables
<1>6. \A d \in Computers : Past(d, file'[d])
  BY <1>1, <1>4, <1>5, StoredIsPast
<1>7. gone' = IF file' = file THEN gone ELSE [r \in Computers |-> gone[r] \ {c}]
  BY DEF PublishFile
<1>8. /\ gone' \in [Computers -> SUBSET Computers]
      /\ \A r \in Computers : gone'[r] \subseteq gone[r]
      /\ file' # file => \A r \in Computers : c \notin gone'[r]
  BY <1>2, <1>7
<1>9. \A r \in Computers : \A d \in gone'[r] : file'[d] = NoEntry
  BY <1>2, <1>4, <1>8 DEF Inv, GoneInv, NothingLeft
<1>. QED  BY <1>4, <1>6, <1>8, <1>9

\* A refresh goes on with what is allowed.
LEMMA RefreshMoved ==
  ASSUME Inv, NEW c \in Computers,
         NEW pc \in {"fetch", "store", "adopt"}, NEW todo \in SUBSET Computers,
         NEW got \in Tables,
         pc # "fetch" => todo = {},
         pc = "adopt" => got[c] # NoEntry,
         \A d \in Computers : Past(d, got[d]),
         \A d \in gone[c] : got[d] = NoEntry,
         Refreshes(c, pc, todo, got)
  PROVE  /\ refresh' \in [Computers -> RefreshStates]
         /\ \A e \in Computers : RefreshOK(e, refresh'[e])
         /\ \A e, d \in Computers : Past(d, refresh'[e].got[d])
         /\ \A e \in Computers : \A d \in gone[e] : refresh'[e].got[d] = NoEntry
<1> DEFINE r == IF pc = "store" /\ got = Empty THEN Idle
                ELSE [pc |-> pc, todo |-> todo, got |-> got]
<1>1. refresh' = [refresh EXCEPT ![c] = r]
  BY DEF Refreshes
<1>2. RefreshOK(c, r)
  BY StateFacts DEF Inv, RefreshOK, RefreshStates
<1>3. r.got = got
  BY StateFacts DEF Inv
<1> HIDE DEF r
<1>4. /\ refresh \in [Computers -> RefreshStates]
      /\ \A e \in Computers : RefreshOK(e, refresh[e]) /\ gone[e] \subseteq Computers
  BY DEF Inv, TypeOK, RefreshOK, RefreshStates
<1>5. refresh' \in [Computers -> RefreshStates]
  BY <1>1, <1>2, <1>4 DEF RefreshOK
<1>6. \A e \in Computers : refresh'[e] = IF e = c THEN r ELSE refresh[e]
  BY <1>1, <1>4
<1>7. \A e \in Computers : RefreshOK(e, refresh'[e])
  BY <1>2, <1>4, <1>6
<1>8. \A e, d \in Computers : Past(d, refresh'[e].got[d])
  BY <1>3, <1>6, StoredIsPast
<1>9. \A e \in Computers : \A d \in gone[e] : refresh'[e].got[d] = NoEntry
  BY <1>3, <1>4, <1>6 DEF Inv, GoneInv, NothingLeft
<1>. QED  BY <1>5, <1>7, <1>8, <1>9

-----------------------------------------------------------------------------
(* The steps *)

\* What the tables, the files and the refreshes have to be after a step.
TablesOK ==
  /\ table \in [Computers -> Tables]
  /\ \A c, d \in Computers : Past(d, table[c][d])
FilesOK == file \in Tables /\ \A d \in Computers : Past(d, file[d])
RefreshesOK ==
  /\ refresh \in [Computers -> RefreshStates]
  /\ \A c \in Computers : RefreshOK(c, refresh[c])
  /\ \A c, d \in Computers : Past(d, refresh[c].got[d])
RemovalsOK ==
  /\ removal \in [Computers -> [pc: {"idle", "first", "second"}, of: Computers]]
  /\ gone \in [Computers -> SUBSET Computers]
  /\ RemovesOthers
RunsOK == run \in [Computers -> {"idle", "syncing", "register"}] /\ RunsAreUp
RestOK ==
  /\ now \in 0 .. MaxTime /\ alive \in [Computers -> 0 .. MaxTime] /\ AliveIsPast
  /\ up \subseteq Computers /\ member \subseteq Computers
  /\ described \in BOOLEAN /\ events \in 0 .. MaxEvents

LEMMA InvParts ==
  Inv <=> /\ TablesOK /\ FilesOK /\ RefreshesOK /\ RemovalsOK /\ RunsOK /\ RestOK
          /\ NothingLeft
<1>1. Inv => TablesOK /\ FilesOK /\ RefreshesOK
  <2>. SUFFICES ASSUME Inv PROVE TablesOK /\ FilesOK /\ RefreshesOK
    OBVIOUS
  <2>1. \A c, d \in Computers :
          Past(d, table[c][d]) /\ Past(d, file[d]) /\ Past(d, refresh[c].got[d])
    BY StoredIsPast
  <2>. QED  BY <2>1 DEF Inv, TypeOK, TablesOK, FilesOK, RefreshesOK, RefreshOK,
                        RefreshStates
<1>2. Inv => RemovalsOK /\ RunsOK /\ RestOK /\ NothingLeft
  BY DEF Inv, TypeOK, SeenInv, GoneInv, RemovalsOK, RunsOK, RestOK
<1>3. ASSUME TablesOK, FilesOK, RefreshesOK, RemovalsOK, RunsOK, RestOK, NothingLeft
      PROVE  Inv
  <2>1. TypeOK
    BY <1>3 DEF TablesOK, FilesOK, RefreshesOK, RemovalsOK, RunsOK, RestOK, RefreshStates,
                RefreshOK, TypeOK
  <2>2. SeenIsPast
    BY <1>3 DEF TablesOK, FilesOK, RefreshesOK, Past, SeenIsPast
  <2>. QED  BY <1>3, <2>1, <2>2 DEF Inv, SeenInv, GoneInv, RemovalsOK, RunsOK, RestOK
<1>. QED  BY <1>1, <1>2, <1>3

LEMMA PartsAfter ==
  TablesOK' /\ FilesOK' /\ RefreshesOK' /\ RemovalsOK' /\ RunsOK' /\ RestOK' /\ NothingLeft'
    => Inv'
BY InvParts, PTL

\* What a step does not touch stays as it was.
LEMMA Untouched ==
  ASSUME Inv
  PROVE  /\ UNCHANGED <<table, alive>> => TablesOK'
         /\ UNCHANGED <<file, alive>> => FilesOK'
         /\ UNCHANGED <<refresh, alive>> => RefreshesOK'
         /\ UNCHANGED <<removal, gone>> => RemovalsOK'
         /\ UNCHANGED <<run, up>> => RunsOK'
         /\ UNCHANGED <<now, alive, up, member, described, events>> => RestOK'
         /\ UNCHANGED <<table, file, refresh, gone>> => NothingLeft'
<1>1. /\ TablesOK /\ FilesOK /\ RefreshesOK /\ RemovalsOK /\ RunsOK /\ RestOK
      /\ NothingLeft
  BY InvParts
<1>3. UNCHANGED <<table, alive>> => TablesOK'
  BY <1>1 DEF TablesOK, Past
<1>4. UNCHANGED <<file, alive>> => FilesOK'
  BY <1>1 DEF FilesOK, Past
<1>5. UNCHANGED <<refresh, alive>> => RefreshesOK'
  BY <1>1 DEF RefreshesOK, Past, RefreshOK, RefreshStates
<1>6. UNCHANGED <<removal, gone>> => RemovalsOK'
  BY <1>1 DEF RemovalsOK, RemovesOthers
<1>7. UNCHANGED <<run, up>> => RunsOK'
  BY <1>1 DEF RunsOK, RunsAreUp
<1>8. UNCHANGED <<now, alive, up, member, described, events>> => RestOK'
  BY <1>1 DEF RestOK, AliveIsPast
<1>9. UNCHANGED <<table, file, refresh, gone>> => NothingLeft'
  BY <1>1 DEF NothingLeft
<1>. QED  BY <1>3, <1>4, <1>5, <1>6, <1>7, <1>8, <1>9

\* A row is written and nothing else of what a time is kept in.
LEMMA RowStep ==
  ASSUME Inv, NEW c \in Computers, NEW d \in Computers, NEW seen,
         Past(d, seen), Upsert(c, d, seen), seen = NoEntry \/ d \notin gone[c],
         UNCHANGED <<file, gone, alive>>,
         \A e \in Computers : \A f \in gone[e] : refresh'[e].got[f] = NoEntry
  PROVE  TablesOK' /\ NothingLeft'
<1>1. TablesOK'
  BY RowWritten DEF TablesOK, Past
<1>2. \A e \in Computers : \A f \in gone[e] : file[f] = NoEntry
  BY DEF Inv, GoneInv, NothingLeft
<1>3. NothingLeft'
  BY <1>2, RowWritten DEF NothingLeft
<1>. QED  BY <1>1, <1>3

\* A refresh moves and nothing else of what a time is kept in.
LEMMA RefreshStep ==
  ASSUME Inv, NEW c \in Computers,
         NEW pc \in {"fetch", "store", "adopt"}, NEW todo \in SUBSET Computers,
         NEW got \in Tables,
         pc # "fetch" => todo = {},
         pc = "adopt" => got[c] # NoEntry,
         \A d \in Computers : Past(d, got[d]),
         \A d \in gone[c] : got[d] = NoEntry,
         Refreshes(c, pc, todo, got),
         UNCHANGED <<now, up, member, file, described, run, removal, events, history>>
  PROVE  /\ RefreshesOK' /\ FilesOK' /\ RemovalsOK' /\ RunsOK' /\ RestOK'
         /\ UNCHANGED table => Inv'
         /\ \A e \in Computers : \A d \in gone[e] : refresh'[e].got[d] = NoEntry
<1>1. RefreshesOK'
  BY RefreshMoved DEF RefreshesOK, RefreshOK, Past, history
<1>2. FilesOK' /\ RemovalsOK' /\ RunsOK' /\ RestOK'
  BY Untouched DEF history
<1>3. \A e \in Computers : \A d \in gone[e] : refresh'[e].got[d] = NoEntry
  BY RefreshMoved
<1>4. ASSUME UNCHANGED table PROVE Inv'
  <2>1. NothingLeft'
    BY <1>3, <1>4 DEF Inv, GoneInv, NothingLeft, history
  <2>2. TablesOK'
    BY <1>4, Untouched DEF history
  <2>. QED  BY <1>1, <1>2, <2>1, <2>2, PartsAfter
<1>. QED  BY <1>1, <1>2, <1>3, <1>4

LEMMA EventCounts == ASSUME Inv, Event PROVE events' \in 0 .. MaxEvents
BY DevicesAssumption DEF Inv, TypeOK, Event

\* A computer's own row is its own to write.
LEMMA OwnRowStep ==
  ASSUME Inv, NEW c \in up, Upsert(c, c, Clock(c)),
         UNCHANGED <<now, up, member, file, described, refresh, removal, events, history>>,
         RunsOK'
  PROVE  Inv'
<1>1. c \in Computers /\ Past(c, Clock(c))
  BY OwnClockIsPast
<1>2. c \notin gone[c]
  BY <1>1 DEF Inv, GoneInv, RemovesOthers
<1>3. \A e \in Computers : \A f \in gone[e] : refresh'[e].got[f] = NoEntry
  BY DEF Inv, GoneInv, NothingLeft
<1>4. TablesOK' /\ NothingLeft'
  BY <1>1, <1>2, <1>3, RowStep DEF history
<1>. QED  BY <1>4, Untouched, PartsAfter DEF history

\* A run moves on, or ends.
LEMMA RunMoves ==
  ASSUME Inv, NEW c \in Computers, NEW pc \in {"idle", "syncing", "register"},
         pc # "idle" => c \in up,
         run' = [run EXCEPT ![c] = pc], UNCHANGED up
  PROVE  RunsOK'
BY InvParts DEF RunsOK, RunsAreUp

\* A computer publishes its file beside the step of its run.
LEMMA FileStep ==
  ASSUME Inv, NEW c \in up, PublishFile(c),
         UNCHANGED <<now, up, member, table, refresh, removal, events, alive>>,
         RunsOK', described' \in BOOLEAN
  PROVE  Inv'
<1>1. TablesOK' /\ RefreshesOK'
  BY Untouched
<1>2. FilesOK'
  BY FilePublished DEF FilesOK, Past
<1>3. RestOK'
  BY InvParts DEF RestOK, AliveIsPast
<1>4. RemovalsOK'
  BY FilePublished, InvParts DEF RemovalsOK, RemovesOthers
<1>5. NothingLeft'
  BY FilePublished DEF Inv, GoneInv, NothingLeft
<1>. QED  BY <1>1, <1>2, <1>3, <1>4, <1>5, PartsAfter

\* The steps of a computer about itself.
LEMMA OwnSteps ==
  ASSUME Inv, NEW c \in Computers,
         \/ Join(c) \/ RegisterLocally(c) \/ BeginRun(c) \/ UpsertOwn(c) \/ RunRaises(c)
         \/ RegisterRemotely(c) \/ Heartbeat(c)
  PROVE  Inv'
<1>1. run[c] # "idle" => c \in up
  BY DEF Inv, SeenInv, RunsAreUp
<1>2. CASE Join(c)
  <2>1. RestOK'
    BY <1>2, InvParts, EventCounts DEF Join, RestOK, AliveIsPast, history
  <2>. QED  BY <1>2, <2>1, Untouched, PartsAfter DEF Join, history
<1>3. CASE RegisterLocally(c) \/ Heartbeat(c)
  <2>1. RunsOK'
    BY <1>3, Untouched DEF RegisterLocally, Heartbeat
  <2>. QED  BY <1>3, <2>1, OwnRowStep DEF RegisterLocally, Heartbeat
<1>4. CASE BeginRun(c)
  <2>1. RunsOK'
    BY <1>4, RunMoves DEF BeginRun
  <2>2. described' \in BOOLEAN
    BY <1>4, Zenon DEF BeginRun, UploadMetadata, Inv, TypeOK
  <2>. QED  BY <1>4, <2>1, <2>2, FileStep DEF BeginRun
<1>5. CASE UpsertOwn(c)
  <2>1. RunsOK'
    BY <1>1, <1>5, RunMoves DEF UpsertOwn
  <2>. QED  BY <1>1, <1>5, <2>1, OwnRowStep DEF UpsertOwn
<1>6. CASE RunRaises(c)
  <2>1. RunsOK'
    BY <1>6, RunMoves DEF RunRaises
  <2>. QED  BY <1>6, <2>1, Untouched, PartsAfter DEF RunRaises, history
<1>7. CASE RegisterRemotely(c)
  <2>1. RunsOK'
    BY <1>7, RunMoves DEF RegisterRemotely
  <2>2. described' \in BOOLEAN
    BY <1>7 DEF RegisterRemotely, Inv, TypeOK
  <2>. QED  BY <1>1, <1>7, <2>1, <2>2, FileStep DEF RegisterRemotely
<1>. QED  BY <1>2, <1>3, <1>4, <1>5, <1>6, <1>7

\* What a refresh has read or handed on so far.
LEMMA ReadSoFar ==
  ASSUME Inv, NEW c \in Computers
  PROVE  /\ refresh[c] \in RefreshStates
         /\ \A d \in Computers : Past(d, refresh[c].got[d])
         /\ \A d \in gone[c] : refresh[c].got[d] = NoEntry /\ d \in Computers
BY InvParts DEF RefreshesOK, NothingLeft, Inv, TypeOK

LEMMA ListFilesKeepsInv ==
  ASSUME Inv, NEW c \in Computers, ListFiles(c) PROVE Inv'
<1>1. PICK listed \in ListDir : Refreshes(c, "fetch", listed, Empty)
  BY DEF ListFiles
<1>2. listed \in SUBSET Computers
  BY DEF ListDir
<1>3. /\ Empty \in Tables
      /\ \A d \in Computers : Past(d, Empty[d])
      /\ \A d \in gone[c] : Empty[d] = NoEntry
  BY StateFacts, ReadSoFar DEF Inv
<1>. QED  BY <1>1, <1>2, <1>3, RefreshStep DEF ListFiles

LEMMA FetchFileKeepsInv ==
  ASSUME Inv, NEW c \in Computers, NEW d \in Computers, FetchFile(c, d) PROVE Inv'
<1> DEFINE todo == refresh[c].todo \ {d}
<1>1. PICK read \in ReadFile(d) :
        Refreshes(c, IF todo = {} THEN "store" ELSE "fetch", todo,
                  [refresh[c].got EXCEPT ![d] = read])
  BY DEF FetchFile
<1> DEFINE pc == IF todo = {} THEN "store" ELSE "fetch"
           got == [refresh[c].got EXCEPT ![d] = read]
<1>2. Past(d, read) /\ (d \in gone[c] => read = NoEntry)
  BY StoredIsPast, StateFacts DEF ReadFile, Inv, GoneInv, NothingLeft
<1>3. refresh[c].got \in Tables /\ todo \in SUBSET Computers
  BY ReadSoFar DEF RefreshStates
<1>4. got \in Tables /\ \A e \in Computers : got[e] = IF e = d THEN read ELSE refresh[c].got[e]
  BY <1>2, <1>3 DEF Tables, Past
<1>5. \A e \in Computers : Past(e, got[e])
  BY <1>2, <1>4, ReadSoFar
<1>6. \A e \in gone[c] : got[e] = NoEntry
  BY <1>2, <1>4, ReadSoFar
<1>7. pc \in {"fetch", "store", "adopt"} /\ (pc # "fetch" => todo = {}) /\ pc # "adopt"
  OBVIOUS
<1>8. Refreshes(c, pc, todo, got)
  BY <1>1
<1>9. UNCHANGED <<now, up, member, table, file, described, run, removal, events, history>>
  BY DEF FetchFile
<1> HIDE DEF pc, got, todo
<1>. QED  BY <1>3, <1>4, <1>5, <1>6, <1>7, <1>8, <1>9, RefreshStep

\* What is left to store after an entry.
LEMMA Stored ==
  ASSUME Inv, NEW c \in Computers, NEW d \in Computers
  PROVE  LET got == [refresh[c].got EXCEPT ![d] = NoEntry]
         IN /\ got \in Tables
            /\ \A e \in Computers : Past(e, got[e])
            /\ \A e \in gone[c] : got[e] = NoEntry
<1> DEFINE got == [refresh[c].got EXCEPT ![d] = NoEntry]
<1>1. refresh[c].got \in Tables
  BY ReadSoFar DEF RefreshStates
<1>2. got \in Tables /\ \A e \in Computers : got[e] = IF e = d THEN NoEntry ELSE refresh[c].got[e]
  BY <1>1 DEF Tables
<1>3. \A e \in Computers : Past(e, got[e])
  BY <1>2, ReadSoFar, StateFacts DEF Inv
<1>4. \A e \in gone[c] : got[e] = NoEntry
  BY <1>2, ReadSoFar
<1>. QED  BY <1>2, <1>3, <1>4

\* A stored entry is a row of somebody who is not gone.
LEMMA EntryIsWritten ==
  ASSUME Inv, NEW c \in Computers, NEW d \in Computers,
         refresh[c].got[d] # NoEntry,
         Upsert(c, d, refresh[c].got[d]),
         Refreshes(c, "store", {}, [refresh[c].got EXCEPT ![d] = NoEntry]),
         UNCHANGED <<now, up, member, file, described, run, removal, events, history>>
  PROVE  Inv'
<1> DEFINE got == [refresh[c].got EXCEPT ![d] = NoEntry]
<1>1. /\ got \in Tables
      /\ \A e \in Computers : Past(e, got[e])
      /\ \A e \in gone[c] : got[e] = NoEntry
  BY Stored
<1>2. Refreshes(c, "store", {}, got)
  OBVIOUS
<1> HIDE DEF got
<1>3. /\ RefreshesOK' /\ FilesOK' /\ RemovalsOK' /\ RunsOK' /\ RestOK'
      /\ \A e \in Computers : \A f \in gone[e] : refresh'[e].got[f] = NoEntry
  BY <1>1, <1>2, RefreshStep
<1>4. d \notin gone[c]
  BY ReadSoFar
<1>5. TablesOK' /\ NothingLeft'
  BY <1>3, <1>4, RowStep, ReadSoFar DEF history
<1>. QED  BY <1>3, <1>5, PartsAfter

LEMMA StoreKeepsInv ==
  ASSUME Inv, NEW c \in Computers, NEW d \in Computers, Store(c, d) PROVE Inv'
<1>1. CASE d # c
  BY <1>1, EntryIsWritten DEF Store
<1>2. CASE d = c /\ table[c][c] # NoEntry
  <2> DEFINE got == [refresh[c].got EXCEPT ![d] = NoEntry]
  <2>1. /\ got \in Tables
        /\ \A e \in Computers : Past(e, got[e])
        /\ \A e \in gone[c] : got[e] = NoEntry
    BY Stored
  <2>2. Refreshes(c, "store", {}, got)
    BY <1>2 DEF Store
  <2>3. UNCHANGED <<now, up, member, table, file, described, run, removal, events, history>>
    BY <1>2 DEF Store
  <2> HIDE DEF got
  <2>. QED  BY <2>1, <2>2, <2>3, RefreshStep
<1>3. CASE d = c /\ table[c][c] = NoEntry
  <2>1. Refreshes(c, "adopt", {}, refresh[c].got) /\ refresh[c].got[c] # NoEntry
    BY <1>3 DEF Store
  <2>2. UNCHANGED <<now, up, member, table, file, described, run, removal, events, history>>
    BY <1>3 DEF Store
  <2>. QED  BY <2>1, <2>2, ReadSoFar, RefreshStep DEF RefreshStates
<1>. QED  BY <1>1, <1>2, <1>3

LEMMA AdoptKeepsInv ==
  ASSUME Inv, NEW c \in Computers, Adopt(c) PROVE Inv'
<1>1. refresh[c].got[c] # NoEntry
  BY DEF Adopt, Inv, TypeOK
<1>. QED  BY <1>1, EntryIsWritten DEF Adopt

LEMMA BeginRemovalKeepsInv ==
  ASSUME Inv, NEW c \in Computers, NEW d \in Computers, BeginRemoval(c, d) PROVE Inv'
<1>1. RemovalsOK'
  BY InvParts DEF BeginRemoval, RemovalsOK, RemovesOthers, history
<1>2. RestOK'
  BY InvParts, EventCounts DEF BeginRemoval, RestOK, AliveIsPast, history
<1>. QED  BY <1>1, <1>2, Untouched, PartsAfter DEF BeginRemoval, history

\* A removal ends with neither row nor file, or the computer does not count as gone.
LEMMA RemoveDeviceKeepsInv ==
  ASSUME Inv, NEW c \in Computers, RemoveDevice(c) PROVE Inv'
<1> DEFINE d == removal[c].of
<1>0. removal \in [Computers -> [pc: {"idle", "first", "second"}, of: Computers]]
      /\ d \in Computers /\ d # c
  BY DEF RemoveDevice, Inv, TypeOK, GoneInv, RemovesOthers
<1>1. RefreshesOK' /\ RunsOK' /\ RestOK'
  BY Untouched DEF RemoveDevice
<1>2. CASE removal[c].pc = "first"
  <2>1. file' \in {[file EXCEPT ![d] = NoEntry], file} /\ UNCHANGED <<table, gone>>
    BY <1>2 DEF RemoveDevice, DeleteFile
  <2>2. file' \in Tables /\ \A e \in Computers : file'[e] \in {file[e], NoEntry}
    BY <2>1 DEF Inv, TypeOK, Tables
  <2>3. FilesOK'
    BY <2>2, StoredIsPast, StateFacts DEF FilesOK, Past, Inv, RemoveDevice
  <2>4. NothingLeft'
    BY <2>1, <2>2, ReadSoFar DEF Inv, GoneInv, NothingLeft, RemoveDevice
  <2>5. RemovalsOK'
    BY <1>0, <1>2, <2>1, InvParts DEF RemoveDevice, RemovalsOK, RemovesOthers
  <2>6. TablesOK'
    BY <2>1, Untouched DEF RemoveDevice
  <2>. QED  BY <1>1, <2>3, <2>4, <2>5, <2>6, PartsAfter
<1>3. CASE removal[c].pc = "second"
  <2>1. /\ Upsert(c, d, NoEntry) /\ Gone(c, d) /\ UNCHANGED file
        /\ removal' = [removal EXCEPT ![c] = NoRemoval]
    BY <1>3 DEF RemoveDevice, Upsert
  <2>2. /\ table' \in [Computers -> Tables]
        /\ \A e, f \in Computers : Past(f, table'[e][f])
        /\ \A e \in Computers : \A f \in gone[e] : table'[e][f] = NoEntry
    BY <1>0, <2>1, RowWritten, StateFacts DEF Inv
  <2>3. table'[c][d] = NoEntry
    BY <1>0, <2>1 DEF Upsert, Inv, TypeOK, Tables
  <2>4. FilesOK' /\ TablesOK'
    BY <2>1, <2>2, Untouched DEF TablesOK, Past, RemoveDevice
  <2>5. /\ gone' \in [Computers -> SUBSET Computers]
        /\ \A e \in Computers : \A f \in gone'[e] :
             f \in gone[e] \/ (e = c /\ f = d /\ file[d] = NoEntry /\ refresh[c].got[d] = NoEntry)
    BY <1>0, <2>1 DEF Gone, Inv, TypeOK
  <2>6. RemovalsOK'
    BY <1>0, <2>1, <2>5, InvParts, StateFacts DEF Inv, RemovalsOK, RemovesOthers
  <2>7. NothingLeft'
    BY <2>1, <2>2, <2>3, <2>5 DEF Inv, GoneInv, NothingLeft, RemoveDevice
  <2>. QED  BY <1>1, <2>4, <2>6, <2>7, PartsAfter
<1>. QED  BY <1>2, <1>3 DEF RemoveDevice

LEMMA DeleteDatasetKeepsInv ==
  ASSUME Inv, NEW c \in Computers, DeleteDataset(c) PROVE Inv'
<1>1. table' = [table EXCEPT ![c] = Empty] /\ UNCHANGED alive
  BY DEF DeleteDataset, history
<1>2. table' \in [Computers -> Tables]
      /\ \A e, f \in Computers : table'[e][f] \in {table[e][f], NoEntry}
  BY <1>1, StateFacts DEF Inv, TypeOK
<1>3. TablesOK'
  BY <1>1, <1>2, StoredIsPast, StateFacts DEF TablesOK, Past, Inv
<1>4. NothingLeft'
  BY <1>2, ReadSoFar DEF DeleteDataset, history, Inv, GoneInv, NothingLeft
<1>5. RestOK'
  BY InvParts, EventCounts DEF DeleteDataset, RestOK, AliveIsPast, history
<1>. QED  BY <1>3, <1>4, <1>5, Untouched, PartsAfter DEF DeleteDataset, history

LEMMA StopKeepsInv ==
  ASSUME Inv, NEW c \in Computers, Stop(c) PROVE Inv'
<1>1. /\ up' = up \ {c} /\ run' = [run EXCEPT ![c] = "idle"]
      /\ refresh' = [refresh EXCEPT ![c] = Idle]
      /\ removal' = [removal EXCEPT ![c] = NoRemoval]
      /\ UNCHANGED <<now, member, table, file, described, alive, gone>>
  BY DEF Stop, history
<1>2. RunsOK'
  BY <1>1, InvParts DEF RunsOK, RunsAreUp
<1>3. RestOK'
  BY <1>1, InvParts, EventCounts DEF Stop, RestOK, AliveIsPast
<1>4. RemovalsOK'
  BY <1>1, InvParts, StateFacts DEF RemovalsOK, RemovesOthers, Inv
<1>5. /\ refresh' \in [Computers -> RefreshStates]
      /\ \A e \in Computers : refresh'[e] = IF e = c THEN Idle ELSE refresh[e]
  BY <1>1, InvParts, StateFacts DEF RefreshesOK, RefreshOK, Inv
<1>6. \A f \in Computers : Idle.got[f] = NoEntry
  BY StateFacts DEF Inv
<1>7. RefreshesOK'
  <2>1. \A e \in Computers : RefreshOK(e, refresh'[e])
    BY <1>5, InvParts, StateFacts DEF RefreshesOK, Inv
  <2>2. \A e, f \in Computers : Past(f, refresh'[e].got[f])
    BY <1>5, <1>6, StoredIsPast, StateFacts DEF Inv
  <2>. QED  BY <1>1, <1>5, <2>1, <2>2 DEF RefreshesOK, RefreshOK, RefreshStates, Past
<1>8. NothingLeft'
  BY <1>1, <1>5, <1>6, ReadSoFar DEF Inv, GoneInv, NothingLeft
<1>9. TablesOK' /\ FilesOK'
  BY <1>1, Untouched
<1>. QED  BY <1>2, <1>3, <1>4, <1>7, <1>8, <1>9, PartsAfter

\* The history only grows, and with it what is allowed.
LEMMA LaterKeepsInv ==
  ASSUME Inv, RestOK', \A d \in Computers : alive'[d] >= alive[d],
         UNCHANGED <<table, file, refresh, removal, gone>>, RunsOK'
  PROVE  Inv'
<1>1. \A d \in Computers : alive[d] \in Nat /\ alive'[d] \in Nat /\ Ahead[d] \in Nat
  BY DevicesAssumption, InvParts DEF RestOK
<1>2. ASSUME NEW d \in Computers, NEW seen, Past(d, seen)
      PROVE  seen <= alive'[d] + Ahead[d]
  BY <1>1, <1>2 DEF Past, NoEntry
<1>3. TablesOK' /\ FilesOK'
  BY <1>2, InvParts DEF TablesOK, FilesOK, Past
<1>4. RefreshesOK'
  BY <1>2, InvParts DEF RefreshesOK, RefreshOK, RefreshStates, Past
<1>. QED  BY <1>3, <1>4, Untouched, PartsAfter

LEMMA StartKeepsInv ==
  ASSUME Inv, NEW c \in Computers, Start(c) PROVE Inv'
<1>1. /\ up' = up \cup {c} /\ alive' = [alive EXCEPT ![c] = now]
      /\ UNCHANGED <<now, member, table, file, described, run, refresh, removal, gone>>
  BY DEF Start
<1>2. RestOK'
  BY <1>1, InvParts, EventCounts DEF Start, RestOK, AliveIsPast
<1>3. RunsOK'
  BY <1>1, InvParts DEF RunsOK, RunsAreUp
<1>4. \A d \in Computers : alive'[d] >= alive[d]
  BY <1>1, InvParts DEF RestOK, AliveIsPast
<1>. QED  BY <1>1, <1>2, <1>3, <1>4, LaterKeepsInv

LEMMA TimePassesKeepsInv ==
  ASSUME Inv, TimePasses PROVE Inv'
<1>1. /\ now' = now + 1 /\ now < MaxTime
      /\ alive' = [c \in Computers |-> IF c \in up THEN now + 1 ELSE alive[c]]
      /\ UNCHANGED <<up, member, table, file, described, run, refresh, removal, events, gone>>
  BY DEF TimePasses
<1>2. RestOK'
  BY <1>1, InvParts, DevicesAssumption DEF RestOK, AliveIsPast
<1>3. \A d \in Computers : alive'[d] >= alive[d]
  BY <1>1, InvParts, DevicesAssumption DEF RestOK, AliveIsPast
<1>4. RunsOK'
  BY <1>1, Untouched
<1>. QED  BY <1>1, <1>2, <1>3, <1>4, LaterKeepsInv

-----------------------------------------------------------------------------
(* The theorems *)

LEMMA InitInv == Init => Inv
<1>. SUFFICES ASSUME Init PROVE Inv
  OBVIOUS
<1>1. TypeOK
  <2>1. Empty \in Tables /\ now \in 0 .. MaxTime /\ events \in 0 .. MaxEvents
    BY DevicesAssumption DEF Init, Empty, Tables
  <2>2. alive \in [Computers -> 0 .. MaxTime] /\ gone \in [Computers -> SUBSET Computers]
    BY DevicesAssumption DEF Init
  <2>3. refresh \in [Computers -> RefreshStates]
        /\ \A c \in Computers : refresh[c].pc = "idle" /\ refresh[c].todo = {}
    BY <2>1 DEF Init, Idle, RefreshStates
  <2>4. removal \in [Computers -> [pc: {"idle", "first", "second"}, of: Computers]]
    BY DevicesAssumption DEF Init, NoRemoval
  <2>5. table \in [Computers -> Tables] /\ file \in Tables
    BY <2>1 DEF Init
  <2>6. run \in [Computers -> {"idle", "syncing", "register"}] /\ described \in BOOLEAN
        /\ up \subseteq Computers /\ member \subseteq Computers
    BY DevicesAssumption DEF Init
  <2>. QED  BY <2>1, <2>2, <2>3, <2>4, <2>5, <2>6 DEF TypeOK, RefreshStates
<1>2. \A c, d \in Computers :
        Past(d, table[c][d]) /\ Past(d, file[d]) /\ Past(d, refresh[c].got[d])
  BY <1>1, StateFacts DEF Init
<1>3. SeenInv
  BY <1>1, <1>2, DevicesAssumption
     DEF Init, SeenInv, RunsAreUp, AliveIsPast, SeenIsPast, Past
<1>4. GoneInv
  BY <1>1, StateFacts DEF Init, GoneInv, RemovesOthers, NothingLeft
<1>. QED  BY <1>1, <1>3, <1>4 DEF Inv

LEMMA NextKeepsInv == Inv /\ [Next]_vars => Inv'
<1>. SUFFICES ASSUME Inv, [Next]_vars PROVE Inv'
  OBVIOUS
<1>1. CASE TimePasses
  BY <1>1, TimePassesKeepsInv
<1>2. ASSUME NEW c \in Computers, ComputerStep(c) PROVE Inv'
  BY <1>2, OwnSteps, ListFilesKeepsInv, FetchFileKeepsInv, StoreKeepsInv, AdoptKeepsInv,
     BeginRemovalKeepsInv, RemoveDeviceKeepsInv, DeleteDatasetKeepsInv, StopKeepsInv,
     StartKeepsInv DEF ComputerStep
<1>3. CASE UNCHANGED vars
  BY <1>3, Untouched, PartsAfter DEF vars
<1>. QED  BY <1>1, <1>2, <1>3 DEF Next

\* The types of the tables, files, runs, refreshes and removals stay what they are, and a
\* refresh that adopts its own file has read one.
THEOREM TypeCorrect == Spec => []TypeOK
<1>1. Inv => TypeOK
  BY DEF Inv
<1>. QED  BY <1>1, InitInv, NextKeepsInv, PTL DEF Spec

\* Whatever the number of computers, the differences of their clocks and the timeout: nobody
\* is shown as online who did not run within the timeout, whichever way the time that is
\* shown came into the table (models.py:263).
THEOREM NobodyOnlineForEver == Spec => []ShownOnlineWasAlive
<1>1. ASSUME Inv PROVE ShownOnlineWasAlive
  <2>. SUFFICES ASSUME NEW c \in Computers, NEW d \in Computers, ShownOnline(c, d)
                PROVE  Clock(c) <= alive[d] + Ahead[d] + Timeout
    BY DEF ShownOnlineWasAlive
  <2>1. Past(d, table[c][d]) /\ Clock(c) \in Nat /\ alive[d] \in Nat /\ Ahead[d] \in Nat
    BY <1>1, StoredIsPast, StateFacts, DevicesAssumption DEF Inv, TypeOK
  <2>. QED  BY <2>1, DevicesAssumption DEF ShownOnline, Past
<1>. QED  BY <1>1, InitInv, NextKeepsInv, PTL DEF Spec

\* A refresh never brings back a computer that was removed: only its own registering does,
\* also when refreshes and removals of several computers run beside one another.
THEOREM RemovalLasts == Spec => []RemovedStaysAway
<1>1. Inv => RemovedStaysAway
  BY DEF Inv, GoneInv, NothingLeft, RemovedStaysAway
<1>. QED  BY <1>1, InitInv, NextKeepsInv, PTL DEF Spec

\* What a step does to the row a computer has of itself.
LEMMA OwnRowMoves ==
  ASSUME Inv, NEW c \in Computers, NEW e \in Computers, ComputerStep(e),
         table[c][c] # NoEntry, table'[c][c] # NoEntry, refresh[c].pc # "adopt"
  PROVE  table'[c][c] >= table[c][c]
<1>1. /\ table \in [Computers -> Tables] /\ table[c] \in Tables /\ table[c][c] \in Nat
      /\ table[c][c] <= Clock(c) /\ Clock(c) \in Nat
  <2>1. table \in [Computers -> Tables] /\ table[c] \in Tables /\ table[c][c] \in Nat
    BY DEF Inv, TypeOK, Tables
  <2>2. /\ table[c][c] <= alive[c] + Ahead[c] /\ alive[c] <= now
        /\ alive[c] \in Nat /\ now \in Nat /\ Ahead[c] \in Nat
    BY DevicesAssumption DEF Inv, TypeOK, SeenInv, SeenIsPast, AliveIsPast
  <2>. QED  BY <2>1, <2>2 DEF Clock
<1>2. CASE UNCHANGED table
  BY <1>1, <1>2
<1>3. ASSUME NEW d \in Computers, NEW seen, Upsert(e, d, seen),
             d = e /\ e = c => seen = Clock(c)
      PROVE  table'[c][c] >= table[c][c]
  <2>1. table'[c][c] = IF d = e /\ e = c THEN seen ELSE table[c][c]
    BY <1>1, <1>3 DEF Upsert, Tables
  <2>. QED  BY <1>1, <1>3, <2>1
<1>4. CASE RegisterLocally(e) \/ Heartbeat(e) \/ UpsertOwn(e)
  BY <1>3, <1>4 DEF RegisterLocally, Heartbeat, UpsertOwn
<1>5. ASSUME NEW d \in Computers, Store(e, d) PROVE table'[c][c] >= table[c][c]
  BY <1>2, <1>3, <1>5 DEF Store
<1>6. CASE Adopt(e)
  <2>1. e # c
    BY <1>6 DEF Adopt
  <2>. QED  BY <1>3, <1>6, <2>1 DEF Adopt
<1>7. CASE RemoveDevice(e)
  <2>1. removal[e].of \in Computers /\ removal[e].of # e
    BY <1>7 DEF RemoveDevice, Inv, TypeOK, GoneInv, RemovesOthers
  <2>2. UNCHANGED table \/ Upsert(e, removal[e].of, NoEntry)
    BY <1>7 DEF RemoveDevice, Upsert
  <2>. QED  BY <1>2, <1>3, <2>1, <2>2
<1>8. CASE DeleteDataset(e)
  <2>1. e # c
    BY <1>1, <1>8, StateFacts DEF DeleteDataset, Inv
  <2>2. table'[c] = table[c]
    BY <1>1, <1>8, <2>1 DEF DeleteDataset
  <2>. QED  BY <1>1, <2>2
<1>9. CASE \/ Join(e) \/ BeginRun(e) \/ RunRaises(e) \/ RegisterRemotely(e) \/ ListFiles(e)
           \/ Stop(e) \/ Start(e)
           \/ \E d \in Computers : FetchFile(e, d) \/ BeginRemoval(e, d)
  BY <1>2, <1>9 DEF Join, BeginRun, RunRaises, RegisterRemotely, ListFiles, Stop, Start,
                    FetchFile, BeginRemoval
<1>. QED  BY <1>4, <1>5, <1>6, <1>7, <1>8, <1>9 DEF ComputerStep

\* What a computer says of itself in its own table does not go back in time, except that a
\* refresh which found no own row may adopt an old one (sync_engine.py:984-992).
THEOREM OwnRowGoesOn == Spec => OwnSeenGoesOn
<1> DEFINE GoesOn ==
      \A c \in Computers : table[c][c] # NoEntry /\ table'[c][c] # NoEntry =>
        \/ table'[c][c] >= table[c][c]
        \/ refresh[c].pc = "adopt"
<1>1. ASSUME Inv, [Next]_vars PROVE [GoesOn]_vars
  <2>1. CASE UNCHANGED vars
    BY <2>1
  <2>2. CASE TimePasses
    <3>1. UNCHANGED table /\ \A c \in Computers : table[c][c] \in Nat \cup {NoEntry}
      BY <1>1, <2>2 DEF TimePasses, Inv, TypeOK, Tables
    <3>. QED  BY <3>1
  <2>3. ASSUME NEW e \in Computers, ComputerStep(e) PROVE GoesOn
    BY <1>1, <2>3, OwnRowMoves
  <2>. QED  BY <1>1, <2>1, <2>2, <2>3 DEF Next
<1>. QED  BY <1>1, InitInv, NextKeepsInv, PTL DEF Spec, OwnSeenGoesOn

=============================================================================
