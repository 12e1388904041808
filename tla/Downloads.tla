----------------------------- MODULE Downloads -----------------------------
(* The two things the program downloads and then runs.  An update of r2sync is fetched by  *)
(* a thread of the settings view into a .part file, verified, renamed and launched.  rclone *)
(* is fetched by whichever thread misses it first (a sync, a backup, the service's start,  *)
(* a user's request) and unpacked over the file that is run.                               *)
EXTENDS Naturals, Sequences, FiniteSets, SequencesExt

CONSTANTS
  Workers,     \* threads of the settings view that download an update
  Installers,  \* threads that can install rclone
  Platforms,   \* whether the platform may be Windows
  Digest,      \* whether the release publishes a digest of its asset
  Blocks,      \* bound: the blocks of the asset
  MaxEvents    \* bound: kills of the window, clicks on Check and requests to fetch rclone

ASSUME DownloadsAssumption ==
  /\ Platforms \subseteq BOOLEAN /\ Digest \in BOOLEAN
  /\ Blocks \in Nat \ {0} /\ MaxEvents \in Nat

\* A file: absent, or its blocks; a block is as published, damaged, or a hole never written.
Absent == <<"absent">>
File == {Absent} \cup BoundedSeq({"good", "bad", "hole"}, Blocks)
Asset == [i \in 1 .. Blocks |-> "good"]

VARIABLES
  windows,   \* the platform
  window,    \* whether the settings view is open
  checking,  \* a check for updates is in progress
  pending,   \* whether the last check found an asset to download
  button,    \* [shown, enabled] of the install button
  worker,    \* [pc, at: the file its handle points to, got: the blocks it received]
  part, out, \* the .part file and the published installer
  doubled,   \* history: a download was started while another one was going on
  zip, exe,  \* rclone's archive and executable: absent, partly written, whole
  mode,      \* the executable bit of exe
  installer, \* where each installing thread is
  trampled,  \* history: exe was opened for writing while another one wrote or could run it
  events     \* how many there were

update == <<window, checking, pending, button, worker, part, out, doubled>>
rclone == <<zip, exe, mode, installer, trampled>>
vars == <<windows, update, rclone, events>>

WorkerPCs == {"idle", "asking", "receiving", "verified", "failed", "finished"}
InstallerPCs == {"idle", "asking", "fetching", "opening", "copying", "copied"}

TypeOK ==
  /\ windows \in Platforms /\ window \in BOOLEAN /\ checking \in BOOLEAN
  /\ pending \in BOOLEAN
  /\ button \in [shown : BOOLEAN, enabled : BOOLEAN]
  /\ worker \in [Workers -> [pc : WorkerPCs, at : {"none", "part", "out", "lost"},
                             got : BoundedSeq({"good", "bad"}, Blocks)]]
  /\ \A w \in Workers : (worker[w].at # "none") <=> (worker[w].pc = "receiving")
  /\ part \in File /\ out \in File
  /\ zip \in {"absent", "part", "whole"} /\ exe \in {"absent", "part", "whole"}
  /\ mode \in BOOLEAN /\ (windows => ~mode)
  /\ installer \in [Installers -> InstallerPCs]
  /\ doubled \in BOOLEAN /\ trampled \in BOOLEAN
  /\ window \/ (~checking /\ \A w \in Workers : worker[w].pc = "idle")
  /\ events \in 0 .. MaxEvents

Event == events < MaxEvents /\ events' = events + 1

-----------------------------------------------------------------------------
(* The update: the user's clicks and the window's answers to its threads. *)

Idle == [pc |-> "idle", at |-> "none", got |-> <<>>]
Busy(w) == worker[w].pc # "idle"

CheckForUpdates ==
  /\ window /\ ~checking /\ Event
  /\ checking' = TRUE
  /\ UNCHANGED <<windows, window, pending, button, worker, part, out, doubled, rclone>>

\* AutoUpdater.check_for_updates: whether the release is newer, and has an asset; a request
\* that fails answers with neither.
Answers == [newer : BOOLEAN, asset : BOOLEAN]

\* A newer release brings the install button back, whatever a download is doing.
CheckAnswers ==
  /\ checking
  /\ checking' = FALSE
  /\ \E info \in Answers :
       /\ pending' = info.asset
       /\ button' = [shown |-> info.newer, enabled |-> info.newer \/ button.enabled]
  /\ UNCHANGED <<windows, window, worker, part, out, doubled, rclone, events>>

StartDownload(w) ==
  /\ window /\ button.shown /\ button.enabled /\ pending /\ ~Busy(w)
  /\ button' = [button EXCEPT !.enabled = FALSE]
  /\ worker' = [worker EXCEPT ![w].pc = "asking"]
  /\ doubled' = (doubled \/ \E v \in Workers : worker[v].pc \in {"asking", "receiving", "verified"})
  /\ UNCHANGED <<windows, window, checking, pending, part, out, rclone, events>>

\* (mutant) the button stays as the download left it
DownloadFailedSilently(w) ==
  /\ worker[w].pc = "failed"
  /\ worker' = [worker EXCEPT ![w] = Idle]
  /\ UNCHANGED <<windows, window, checking, pending, button, part, out, doubled, rclone,
                 events>>

DownloadFailed(w) ==
  /\ worker[w].pc = "failed"
  /\ worker' = [worker EXCEPT ![w] = Idle]
  /\ button' = [button EXCEPT !.enabled = TRUE]
  /\ UNCHANGED <<windows, window, checking, pending, part, out, doubled, rclone, events>>

\* What is at the published path is launched on Windows, and everything in the window ends
\* with it; elsewhere the user is told where it is.
Downloaded(w) ==
  /\ worker[w].pc = "finished"
  /\ window' = ~windows
  /\ IF windows
       THEN /\ worker' = [v \in Workers |-> Idle] /\ checking' = FALSE
            /\ button' = [shown |-> FALSE, enabled |-> FALSE] /\ pending' = FALSE
       ELSE /\ worker' = [worker EXCEPT ![w] = Idle]
            /\ button' = [button EXCEPT !.enabled = TRUE]
            /\ UNCHANGED <<checking, pending>>
  /\ UNCHANGED <<windows, part, out, doubled, rclone, events>>

OpenWindow ==
  /\ ~window
  /\ window' = TRUE
  /\ UNCHANGED <<windows, checking, pending, button, worker, part, out, doubled,
                 rclone, events>>

\* The window's process dies, with its threads; the files stay as they are.
KillWindow ==
  /\ window /\ Event
  /\ window' = FALSE /\ checking' = FALSE /\ pending' = FALSE
  /\ button' = [shown |-> FALSE, enabled |-> FALSE]
  /\ worker' = [w \in Workers |-> Idle]
  /\ UNCHANGED <<windows, part, out, doubled, rclone>>

-----------------------------------------------------------------------------
(* The update: a download. *)

Download(w, rec) ==
  /\ worker' = [worker EXCEPT ![w] = rec]
  /\ UNCHANGED <<windows, window, checking, pending, button, doubled, rclone, events>>

\* The content of a file after block b was written at position i, possibly past its end.
Written(f, i, b) ==
  [j \in 1 .. (IF i > Len(f) THEN i ELSE Len(f)) |->
     IF j = i THEN b ELSE IF j <= Len(f) THEN f[j] ELSE "hole"]

\* A file another handle is open on cannot be renamed or removed on Windows.
Held(w) == windows /\ \E v \in Workers \ {w} : worker[v].at = "part"

\* Handles to a file that is renamed or removed under them follow the file, not its name.
Moved(recs, to) ==
  [v \in Workers |-> IF recs[v].at = "part" THEN [recs[v] EXCEPT !.at = to]
                     ELSE IF recs[v].at = "out" /\ to = "out" THEN [recs[v] EXCEPT !.at = "lost"]
                     ELSE recs[v]]

OpenPart(w) ==
  /\ worker[w].pc = "asking"
  /\ part' = <<>>
  /\ Download(w, [worker[w] EXCEPT !.pc = "receiving", !.at = "part"])
  /\ UNCHANGED out

Receive(w, b) ==
  LET i == Len(worker[w].got) + 1 IN
    /\ worker[w].pc = "receiving" /\ i <= Blocks
    /\ part' = IF worker[w].at = "part" THEN Written(part, i, b) ELSE part
    /\ out' = IF worker[w].at = "out" THEN Written(out, i, b) ELSE out
    /\ Download(w, [worker[w] EXCEPT !.got = Append(@, b)])

\* (mutant) only the size is compared
MatchesSize(got) == Len(got) = Blocks

\* A digest GitHub did not publish, or of an unknown kind, is not compared.
DigestMatches(got) == Digest => got = Asset

\* The size is that of the asset, and so is the digest.
Matches(got) == Len(got) = Blocks /\ DigestMatches(got)

\* The stream ended: what arrived is compared with what was published.
Verify(w) ==
  /\ worker[w].pc = "receiving" /\ Matches(worker[w].got)
  /\ Download(w, [worker[w] EXCEPT !.pc = "verified", !.at = "none"])
  /\ UNCHANGED <<part, out>>

Replace(w) ==
  /\ worker[w].pc = "verified" /\ part # Absent /\ ~Held(w)
  /\ out' = part /\ part' = Absent
  /\ worker' = Moved([worker EXCEPT ![w] = [Idle EXCEPT !.pc = "finished"]], "out")
  /\ UNCHANGED <<windows, window, checking, pending, button, doubled, rclone, events>>

\* (mutant) the file is left open
FailLeavesOpen(w) ==
  /\ worker[w].pc \in {"asking", "receiving"}
  /\ worker' = [worker EXCEPT ![w].pc = "failed"]
  /\ part' = Absent
  /\ UNCHANGED <<windows, window, checking, pending, button, out, doubled, rclone, events>>

\* A refused or dropped connection, a mismatch or a rename that cannot be done.
Fail(w) ==
  /\ \/ worker[w].pc \in {"asking", "receiving"}
     \/ worker[w].pc = "verified" /\ (part = Absent \/ Held(w))
  /\ LET recs == [worker EXCEPT ![w] = [Idle EXCEPT !.pc = "failed"]] IN
       IF Held(w) \/ part = Absent
         THEN worker' = recs /\ UNCHANGED part
         ELSE worker' = Moved(recs, "lost") /\ part' = Absent
  /\ UNCHANGED <<windows, window, checking, pending, button, out, doubled, rclone, events>>

-----------------------------------------------------------------------------
(* rclone. *)

\* RcloneBinaryManager.is_installed, with no rclone of the system's own.
Installed == exe # "absent" /\ (windows \/ mode)

Install(i, pc) ==
  /\ installer' = [installer EXCEPT ![i] = pc]
  /\ UNCHANGED <<windows, update>>

\* A run, or the service's start, finds no rclone.
MissRclone(i) ==
  /\ installer[i] = "idle" /\ ~Installed
  /\ Install(i, "asking")
  /\ UNCHANGED <<zip, exe, mode, trampled, events>>

\* The user asks for it, whether it is there or not.
RequestRclone(i) ==
  /\ installer[i] = "idle" /\ Event
  /\ Install(i, "asking")
  /\ UNCHANGED <<zip, exe, mode, trampled>>

OpenZip(i) ==
  /\ installer[i] = "asking"
  /\ zip' = "part"
  /\ Install(i, "fetching")
  /\ UNCHANGED <<exe, mode, trampled, events>>

\* The connection ends, after the whole archive or before.
FetchEnds(i) ==
  /\ installer[i] = "fetching"
  /\ zip' \in IF zip = "absent" THEN {zip} ELSE {"part", "whole"}
  /\ Install(i, "opening")
  /\ UNCHANGED <<exe, mode, trampled, events>>

\* (mutant) the executable bit is set when the file is created
OpenExeRunnable(i) ==
  /\ installer[i] = "opening" /\ zip = "whole"
  /\ exe' = "part" /\ mode' = ~windows
  /\ trampled' = (trampled \/ Installed
                    \/ \E j \in Installers \ {i} : installer[j] \in {"copying", "copied"})
  /\ Install(i, "copying")
  /\ UNCHANGED <<zip, events>>

\* Only a whole archive has a directory to find the member in.
OpenExe(i) ==
  /\ installer[i] = "opening" /\ zip = "whole"
  /\ exe' = "part"
  /\ trampled' = (trampled \/ Installed
                    \/ \E j \in Installers \ {i} : installer[j] \in {"copying", "copied"})
  /\ Install(i, "copying")
  /\ UNCHANGED <<zip, mode, events>>

CopyEnds(i) ==
  /\ installer[i] = "copying"
  /\ exe' \in IF trampled THEN {"part", "whole"} ELSE {"whole"}
  /\ Install(i, "copied")
  /\ UNCHANGED <<zip, mode, trampled, events>>

\* chmod, and the archive goes unless another thread has it open on Windows; what "rclone
\* version" says decides nothing.
FinishInstall(i) ==
  /\ installer[i] = "copied"
  /\ mode' = ~windows
  /\ zip' = IF windows /\ \E j \in Installers \ {i} : installer[j] \in {"fetching", "copying"}
              THEN zip ELSE "absent"
  /\ Install(i, "idle")
  /\ UNCHANGED <<exe, trampled, events>>

\* An exception, or the end of the thread's process: nothing is cleaned up.
InstallBreaks(i) ==
  /\ installer[i] # "idle"
  /\ Install(i, "idle")
  /\ UNCHANGED <<zip, exe, mode, trampled, events>>

-----------------------------------------------------------------------------
Init ==
  /\ windows \in Platforms /\ window = TRUE /\ checking = FALSE /\ pending = FALSE
  /\ button = [shown |-> FALSE, enabled |-> FALSE]
  /\ worker = [w \in Workers |-> Idle]
  /\ part = Absent /\ out = Absent /\ doubled = FALSE
  /\ zip = "absent" /\ exe = "absent" /\ mode = FALSE
  /\ installer = [i \in Installers |-> "idle"]
  /\ trampled = FALSE /\ events = 0

Downloading(w) ==
  \/ OpenPart(w) \/ (\E b \in {"good", "bad"} : Receive(w, b)) \/ Verify(w) \/ Replace(w) \/ Fail(w)

Next ==
  \/ CheckForUpdates \/ CheckAnswers \/ OpenWindow \/ KillWindow
  \/ \E w \in Workers : StartDownload(w) \/ DownloadFailed(w) \/ Downloaded(w) \/ Downloading(w)
  \/ \E i \in Installers : \/ MissRclone(i) \/ RequestRclone(i) \/ OpenZip(i) \/ FetchEnds(i)
                           \/ OpenExe(i) \/ CopyEnds(i) \/ FinishInstall(i) \/ InstallBreaks(i)

Spec == Init /\ [][Next]_vars

\* A download ends (its requests time out) and the window's event loop hears of it.
FairSpec ==
  /\ Spec
  /\ WF_vars(CheckAnswers)
  /\ \A w \in Workers : /\ WF_vars(Downloading(w))
                        /\ WF_vars(DownloadFailed(w) \/ Downloaded(w))

-----------------------------------------------------------------------------
(* Properties. *)

\* Unless a second download ran into the first one's .part file, an installer at the published
\* path is all of the release's asset, whatever was dropped, damaged or
\* killed on the way; without a published digest, as much as its size tells
\* (updater.py:144-201).
PublishedIsVerified ==
  ~doubled /\ out # Absent => IF Digest THEN out = Asset ELSE Len(out) = Blocks

\* Where the executable bit says so, an installation that was cut short at any
\* point is not taken for an installed rclone, as long as nobody unpacks over an rclone that
\* works or is being unpacked (rclone_engine.py:162-171).
HalfInstallNotUsed == ~windows /\ ~trampled /\ Installed => exe = "whole"

\* The button a download disabled is given back: the user can try again, or
\* the window is gone to be updated (settings_view.py:469-506).
DownloadEnds == (\E w \in Workers : Busy(w)) ~> (button.enabled \/ ~window)

=============================================================================
