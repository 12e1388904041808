------------------------------ MODULE Devices ------------------------------
(* Which computers share a dataset, as each of them sees it.  Every computer has a table  *)
(* of its own (sync_devices), kept current for its own row by a heartbeat; a run writes a  *)
(* small file about its computer into R2 (devices/<device_id>.json) and the dataset's      *)
(* metadata next to it; refreshing reads the files of the others into the own table, one   *)
(* rclone call per file; removing a computer deletes its file and its row.  There is one   *)
(* dataset, and a clock per computer: times are naive local times.  A stored status other  *)
(* than "offline" is what a computer says of itself while it runs, so of a row and a file   *)
(* only last_seen_at is kept.                                                              *)
EXTENDS Integers, FiniteSets

CONSTANTS
  Computers,
  Creator,     \* the computer that added the dataset
  Observers,   \* computers whose user lists, refreshes and removes computers
  Ahead,       \* how far the clock of a computer is ahead
  Timeout,     \* DEVICE_PRESENCE_TIMEOUT_MINUTES, in units of time
  MaxTime,     \* bound: units of time
  MaxEvents    \* bound: joins, removals, deletions, stops and starts of computers

ASSUME DevicesAssumption ==
  /\ Creator \in Computers /\ Observers \subseteq Computers
  /\ Ahead \in [Computers -> Nat]
  /\ Timeout \in Nat /\ MaxTime \in Nat /\ MaxEvents \in Nat

NoEntry == -1
Tables == [Computers -> Nat \cup {NoEntry}]
Empty == [d \in Computers |-> NoEntry]
Idle == [pc |-> "idle", todo |-> {}, got |-> Empty]
NoRemoval == [pc |-> "idle", of |-> Creator]

VARIABLES
  now,      \* time
  up,       \* computers that run
  member,   \* computers with a row of the dataset
  table,    \* sync_devices of each computer
  file,     \* the files devices/<device_id>.json
  described,\* whether metadata/dataset.json is there
  run,      \* where the run of each computer is, as far as it registers itself
  refresh,  \* refresh_connected_devices of each computer
  removal,  \* remove_device of each computer
  events,   \* how many there were
  alive,    \* history: when each computer was last running
  gone      \* history: for each computer, those it removed, leaving no file or copy of a file,
            \* that did not register since

vars == <<now, up, member, table, file, described, run, refresh, removal, events, alive, gone>>
history == <<alive, gone>>

TypeOK ==
  /\ now \in 0 .. MaxTime
  /\ up \subseteq Computers /\ member \subseteq Computers
  /\ table \in [Computers -> Tables] /\ file \in Tables
  /\ described \in BOOLEAN
  /\ run \in [Computers -> {"idle", "syncing", "register"}]
  /\ refresh \in [Computers -> [pc: {"idle", "fetch", "store", "adopt"},
                                todo: SUBSET Computers, got: Tables]]
  /\ \A c \in Computers : refresh[c].pc # "fetch" => refresh[c].todo = {}
  /\ \A c \in Computers : refresh[c].pc = "adopt" => refresh[c].got[c] # NoEntry
  /\ removal \in [Computers -> [pc: {"idle", "first", "second"}, of: Computers]]
  /\ events \in 0 .. MaxEvents
  /\ alive \in [Computers -> 0 .. MaxTime] /\ gone \in [Computers -> SUBSET Computers]

Clock(c) == now + Ahead[c]

\* presence_status: computer c shows d as online (or syncing).
ShownOnline(c, d) == table[c][d] # NoEntry /\ Clock(c) - table[c][d] <= Timeout

Event == events < MaxEvents /\ events' = events + 1

-----------------------------------------------------------------------------
(* Files in R2, one rclone call each: what a caller gets, or what is there afterwards.  An  *)
(* error is an empty answer, or leaves what was there.                                      *)

ReadFile(d) == {file[d], NoEntry}
ListDir == {{d \in Computers : file[d] # NoEntry}, {}}
WriteFile(d, seen) == {[file EXCEPT ![d] = seen], file}
DeleteFile(d) == {[file EXCEPT ![d] = NoEntry], file}

-----------------------------------------------------------------------------
(* The own row and the own file. *)

\* (mutant) a row is stamped with the time it is written at
UpsertStamped(c, d, seen) == table' = [table EXCEPT ![c][d] = Clock(c)]

\* upsert_sync_device keeps the time it is given.
Upsert(c, d, seen) == table' = [table EXCEPT ![c][d] = seen]

\* discover_remote_datasets: the dataset is offered if its prefix could be listed and its
\* metadata read.
Offered == {described, FALSE}

Join(c) ==
  /\ c \in up \ member /\ TRUE \in Offered
  /\ Event
  /\ member' = member \cup {c}
  /\ UNCHANGED <<now, up, table, file, described, run, refresh, removal, history>>

RegisterLocally(c) ==
  /\ c \in up \cap member /\ table[c][c] = NoEntry
  /\ Upsert(c, c, Clock(c))
  /\ UNCHANGED <<now, up, member, file, described, run, refresh, removal, events, history>>

\* Whether the upload worked is not looked at.
PublishFile(c) ==
  /\ file' \in WriteFile(c, Clock(c))
  /\ gone' = IF file' = file THEN gone ELSE [r \in Computers |-> gone[r] \ {c}]

\* upload_dataset_metadata: every run writes it, and names its own computer in it as the one
\* that created the dataset.
UploadMetadata == described' \in {described, TRUE}

BeginRun(c) ==
  /\ c \in up \cap member /\ run[c] = "idle"
  /\ UploadMetadata
  /\ PublishFile(c)
  /\ run' = [run EXCEPT ![c] = "syncing"]
  /\ UNCHANGED <<now, up, member, table, refresh, removal, events, alive>>

\* The transfer is over; the run goes on although the dataset may be deleted by now.
UpsertOwn(c) ==
  /\ run[c] = "syncing"
  /\ Upsert(c, c, Clock(c))
  /\ run' = [run EXCEPT ![c] = "register"]
  /\ UNCHANGED <<now, up, member, file, described, refresh, removal, events, history>>

RunRaises(c) ==
  /\ run[c] = "syncing"
  /\ run' = [run EXCEPT ![c] = "idle"]
  /\ UNCHANGED <<now, up, member, table, file, described, refresh, removal, events, history>>

RegisterRemotely(c) ==
  /\ run[c] = "register"
  /\ PublishFile(c)
  /\ run' = [run EXCEPT ![c] = "idle"]
  /\ UNCHANGED <<now, up, member, table, described, refresh, removal, events, alive>>

\* update_device_heartbeat makes no row; a run publishes the file, the heartbeat does not.
Heartbeat(c) ==
  /\ c \in up \cap member /\ table[c][c] # NoEntry
  /\ Upsert(c, c, Clock(c))
  /\ UNCHANGED <<now, up, member, file, described, run, refresh, removal, events, history>>

-----------------------------------------------------------------------------
(* refresh_connected_devices: list, read every file, store what was read. *)

Refreshes(c, pc, todo, got) ==
  refresh' = [refresh EXCEPT ![c] = IF pc = "store" /\ got = Empty THEN Idle
                                    ELSE [pc |-> pc, todo |-> todo, got |-> got]]

ListFiles(c) ==
  /\ c \in Observers \cap up \cap member /\ refresh[c].pc = "idle"
  /\ \E listed \in ListDir : listed # {} /\ Refreshes(c, "fetch", listed, Empty)
  /\ UNCHANGED <<now, up, member, table, file, described, run, removal, events, history>>

\* (mutant) the loop returns with the first file it could read
FetchFirst(c, d) ==
  /\ refresh[c].pc = "fetch" /\ d \in refresh[c].todo
  /\ \E read \in ReadFile(d) :
       LET todo == refresh[c].todo \ {d}
       IN Refreshes(c, IF todo = {} \/ read # NoEntry THEN "store" ELSE "fetch", todo,
                    [refresh[c].got EXCEPT ![d] = read])
  /\ UNCHANGED <<now, up, member, table, file, described, run, removal, events, history>>

\* A file that cannot be read is left out, and so is one that is gone.
FetchFile(c, d) ==
  /\ refresh[c].pc = "fetch" /\ d \in refresh[c].todo
  /\ \E read \in ReadFile(d) :
       LET todo == refresh[c].todo \ {d}
       IN Refreshes(c, IF todo = {} THEN "store" ELSE "fetch", todo,
                    [refresh[c].got EXCEPT ![d] = read])
  /\ UNCHANGED <<now, up, member, table, file, described, run, removal, events, history>>

\* (mutant) the own file is stored like the others
StoreAny(c, d) ==
  /\ refresh[c].pc = "store" /\ refresh[c].got[d] # NoEntry
  /\ Upsert(c, d, refresh[c].got[d])
  /\ Refreshes(c, "store", {}, [refresh[c].got EXCEPT ![d] = NoEntry])
  /\ UNCHANGED <<now, up, member, file, described, run, removal, events, history>>

\* "Only adopt it if there is nothing local yet."
Store(c, d) ==
  /\ refresh[c].pc = "store" /\ refresh[c].got[d] # NoEntry
  /\ IF d # c
     THEN /\ Upsert(c, d, refresh[c].got[d])
          /\ Refreshes(c, "store", {}, [refresh[c].got EXCEPT ![d] = NoEntry])
     ELSE /\ IF table[c][c] # NoEntry
             THEN Refreshes(c, "store", {}, [refresh[c].got EXCEPT ![d] = NoEntry])
             ELSE Refreshes(c, "adopt", {}, refresh[c].got)
          /\ UNCHANGED table
  /\ UNCHANGED <<now, up, member, file, described, run, removal, events, history>>

\* The own row may be there by now.
Adopt(c) ==
  /\ refresh[c].pc = "adopt"
  /\ Upsert(c, c, refresh[c].got[c])
  /\ Refreshes(c, "store", {}, [refresh[c].got EXCEPT ![c] = NoEntry])
  /\ UNCHANGED <<now, up, member, file, described, run, removal, events, history>>

-----------------------------------------------------------------------------
(* remove_device: another computer's file, then its row. *)

BeginRemoval(c, d) ==
  /\ c \in Observers \cap up \cap member /\ removal[c].pc = "idle"
  /\ d # c /\ table[c][d] # NoEntry
  /\ Event
  /\ removal' = [removal EXCEPT ![c] = [pc |-> "first", of |-> d]]
  /\ UNCHANGED <<now, up, member, table, file, described, run, refresh, history>>

\* A removal counts as done when the file is gone and no refresh of c holds a copy of it: a
\* copy that was read before is stored after the removal, and brings the computer back.
Gone(c, d) ==
  gone' = IF file'[d] = NoEntry /\ refresh[c].got[d] = NoEntry
          THEN [gone EXCEPT ![c] = @ \cup {d}] ELSE gone

\* (mutant) the row goes before the file
RemoveRowFirst(c) ==
  LET d == removal[c].of IN
  /\ \/ /\ removal[c].pc = "first"
        /\ table' = [table EXCEPT ![c][d] = NoEntry]
        /\ removal' = [removal EXCEPT ![c].pc = "second"]
        /\ UNCHANGED <<file, gone>>
     \/ /\ removal[c].pc = "second"
        /\ file' \in DeleteFile(d)
        /\ Gone(c, d)
        /\ removal' = [removal EXCEPT ![c] = NoRemoval]
        /\ UNCHANGED table
  /\ UNCHANGED <<now, up, member, described, run, refresh, events, alive>>

\* Whether the file could be deleted is not looked at.
RemoveDevice(c) ==
  LET d == removal[c].of IN
  /\ \/ /\ removal[c].pc = "first"
        /\ file' \in DeleteFile(d)
        /\ removal' = [removal EXCEPT ![c].pc = "second"]
        /\ UNCHANGED <<table, gone>>
     \/ /\ removal[c].pc = "second"
        /\ table' = [table EXCEPT ![c][d] = NoEntry]
        /\ UNCHANGED file
        /\ Gone(c, d)
        /\ removal' = [removal EXCEPT ![c] = NoRemoval]
  /\ UNCHANGED <<now, up, member, described, run, refresh, events, alive>>

-----------------------------------------------------------------------------
(* Deleting the dataset from a computer, computers that stop, time. *)

\* The rows of the devices go with the dataset's; the own file stays in R2.
DeleteDataset(c) ==
  /\ c \in up \cap member
  /\ Event
  /\ member' = member \ {c}
  /\ table' = [table EXCEPT ![c] = Empty]
  /\ UNCHANGED <<now, up, file, described, run, refresh, removal, history>>

Stop(c) ==
  /\ c \in up
  /\ Event
  /\ up' = up \ {c}
  /\ run' = [run EXCEPT ![c] = "idle"]
  /\ refresh' = [refresh EXCEPT ![c] = Idle]
  /\ removal' = [removal EXCEPT ![c] = NoRemoval]
  /\ UNCHANGED <<now, member, table, file, described, history>>

Start(c) ==
  /\ c \in Computers \ up
  /\ Event
  /\ up' = up \cup {c}
  /\ alive' = [alive EXCEPT ![c] = now]
  /\ UNCHANGED <<now, member, table, file, described, run, refresh, removal, gone>>

TimePasses ==
  /\ now < MaxTime
  /\ now' = now + 1
  /\ alive' = [c \in Computers |-> IF c \in up THEN now + 1 ELSE alive[c]]
  /\ UNCHANGED <<up, member, table, file, described, run, refresh, removal, events, gone>>

Init ==
  /\ now = 0 /\ up = Computers /\ member = {Creator}
  /\ table = [c \in Computers |-> Empty]
  /\ file = Empty /\ described = FALSE
  /\ run = [c \in Computers |-> "idle"]
  /\ refresh = [c \in Computers |-> Idle]
  /\ removal = [c \in Computers |-> NoRemoval]
  /\ events = 0
  /\ alive = [c \in Computers |-> 0] /\ gone = [c \in Computers |-> {}]

ComputerStep(c) ==
  \/ Join(c) \/ RegisterLocally(c) \/ BeginRun(c) \/ UpsertOwn(c) \/ RunRaises(c)
  \/ RegisterRemotely(c) \/ Heartbeat(c)
  \/ ListFiles(c) \/ Adopt(c) \/ RemoveDevice(c)
  \/ \E d \in Computers : FetchFile(c, d) \/ Store(c, d) \/ BeginRemoval(c, d)
  \/ DeleteDataset(c) \/ Stop(c) \/ Start(c)

Next == TimePasses \/ \E c \in Computers : ComputerStep(c)

Spec == Init /\ [][Next]_vars

-----------------------------------------------------------------------------
(* Properties. *)

\* No computer shows another one as online that was not running within the timeout, however
\* old the file was when it was read, stored and shown: "a machine that is switched off [...]
\* stays online in every other computer's list forever" (models.py:263) does not come back.
\* The times are local times of both: the difference of the clocks goes into the timeout.
ShownOnlineWasAlive ==
  \A c, d \in Computers : ShownOnline(c, d) =>
    Clock(c) <= alive[d] + Ahead[d] + Timeout

\* What a computer knows of itself does not go back in time, whatever it reads from R2
\* (sync_engine.py:984-992), unless the own row was missing when the refresh looked for it.
OwnSeenGoesOn ==
  [][\A c \in Computers : table[c][c] # NoEntry /\ table'[c][c] # NoEntry =>
       \/ table'[c][c] >= table[c][c]
       \/ refresh[c].pc = "adopt"]_vars

\* Once a removal has deleted the file and then the row, and the refresh of that computer
\* holds no copy of the file from before, only registering again brings the removed computer
\* back into the list: no refresh that listed the files before, went through them during the
\* removal or comes later does, and no upload that fails (sync_engine.py:1000-1012, file
\* first).  It says nothing of a removal whose remote half failed, or that a refresh with a
\* copy in hand overtakes: both are undone by a refresh.
RemovedStaysAway == \A c \in Computers : \A d \in gone[c] : table[c][d] = NoEntry

=============================================================================
