-------------------------- MODULE DownloadsProofs --------------------------
(***************************************************************************)
(* Theorems about Downloads for every choice of its constants: any number  *)
(* of threads, blocks and events, with and without a digest, on Windows    *)
(* and elsewhere.  Checked with TLAPS.                                     *)
(***************************************************************************)
EXTENDS Downloads, SequenceTheorems, TLAPS

-----------------------------------------------------------------------------
(* The inductive invariant *)

\* Handles are open on files that are there.
HandlesOnFiles ==
  \A w \in Workers : /\ worker[w].at = "part" => part # Absent
                     /\ worker[w].at = "out" => out # Absent

\* Who has not asked yet has received nothing.
StartsEmpty ==
  \A w \in Workers : worker[w].pc \in {"idle", "asking"} => worker[w].got = <<>>

\* A thread between the click and the published file.
Active(w) == worker[w].pc \in {"asking", "receiving", "verified"}

\* Without a second download in between there is one such thread, and the .part file is what
\* it has received; once verified, it is what was published.
OneDownload == \A v, w \in Workers : Active(v) /\ Active(w) => v = w
PartIsReceived ==
  \A w \in Workers :
    /\ worker[w].pc = "receiving" => worker[w].at = "part" /\ part = worker[w].got
    /\ worker[w].pc = "verified" => part = worker[w].got /\ Matches(worker[w].got)

UpdateInv == ~doubled => OneDownload /\ PartIsReceived

\* Where nobody unpacks over an rclone that works or is being unpacked there is one thread that
\* unpacks; what it has copied and what may be run are whole.
Unpacking(i) == installer[i] \in {"copying", "copied"}
OneUnpacks == \A i, j \in Installers : Unpacking(i) /\ Unpacking(j) => i = j
CopiedIsWhole == \A i \in Installers : installer[i] = "copied" => exe = "whole"
RunnableIsWhole ==
  ~windows /\ mode => exe = "whole" /\ \A i \in Installers : installer[i] # "copying"

RcloneInv == ~trampled => OneUnpacks /\ CopiedIsWhole /\ RunnableIsWhole

Inv == TypeOK /\ HandlesOnFiles /\ StartsEmpty /\ UpdateInv /\ PublishedIsVerified /\ RcloneInv

-----------------------------------------------------------------------------
(* Files and handles *)

Content == BoundedSeq({"good", "bad", "hole"}, Blocks)
Received == BoundedSeq({"good", "bad"}, Blocks)

LEMMA BoundedSeqs ==
  ASSUME NEW S, NEW n \in Nat, NEW s
  PROVE  s \in BoundedSeq(S, n) <=> s \in Seq(S) /\ Len(s) <= n
<1>1. BoundedSeq(S, n) = UNION {[1 .. m -> S] : m \in 0 .. n}
  BY DEF BoundedSeq, SeqOf
<1>2. ASSUME NEW m \in 0 .. n, s \in [1 .. m -> S]
      PROVE  s \in Seq(S) /\ Len(s) <= n
  <2>1. m \in Nat
    OBVIOUS
  <2>2. s \in Seq(S)
    BY <1>2, <2>1, SeqDef
  <2>3. Len(s) = m
    BY <1>2, <2>1, <2>2, LenProperties
  <2>. QED  BY <2>2, <2>3
<1>3. ASSUME s \in Seq(S), Len(s) <= n
      PROVE  s \in [1 .. Len(s) -> S] /\ Len(s) \in 0 .. n
  BY <1>3, LenProperties
<1>. QED  BY <1>1, <1>2, <1>3

LEMMA Files ==
  /\ <<>> \in Content /\ <<>> \in Received /\ Len(<<>>) = 0
  /\ Received \subseteq Content
  /\ Absent \notin Content /\ File = {Absent} \cup Content
  /\ Blocks \in Nat
<1>1. Blocks \in Nat
  BY DownloadsAssumption DEF DownloadsAssumption
<1>2. <<>> \in Content /\ <<>> \in Received /\ Len(<<>>) = 0
  <2>1. <<>> \in Seq({"good", "bad", "hole"}) /\ <<>> \in Seq({"good", "bad"}) /\ Len(<<>>) = 0
    OBVIOUS
  <2>2. Len(<<>>) <= Blocks
    BY <1>1, <2>1
  <2>3. <<>> \in BoundedSeq({"good", "bad", "hole"}, Blocks)
    BY <1>1, <2>1, <2>2, BoundedSeqs
  <2>4. <<>> \in BoundedSeq({"good", "bad"}, Blocks)
    BY <1>1, <2>1, <2>2, BoundedSeqs
  <2>. QED  BY <2>1, <2>3, <2>4 DEF Content, Received
<1>3. Received \subseteq Content
  <2>1. ASSUME NEW s \in Received
        PROVE  s \in Content
    <3>1. s \in Seq({"good", "bad"}) /\ Len(s) <= Blocks
      BY <1>1, BoundedSeqs DEF Received
    <3>2. s \in Seq({"good", "bad", "hole"})
      BY <3>1, SeqMonotonic
    <3>. QED  BY <1>1, <3>1, <3>2, BoundedSeqs DEF Content
  <2>. QED  BY <2>1
<1>4. Absent \notin Content
  <2>1. SUFFICES ASSUME Absent \in Seq({"good", "bad", "hole"})
                 PROVE  FALSE
    BY <1>1, BoundedSeqs DEF Content
  <2>2. Len(Absent) = 1 /\ Absent[1] = "absent"
    BY DEF Absent
  <2>3. Absent[1] \in {"good", "bad", "hole"}
    BY <2>1, <2>2, ElementOfSeq
  <2>. QED  BY <2>2, <2>3
<1>. QED  BY <1>1, <1>2, <1>3, <1>4 DEF File, Content

\* Writing a block leaves contents.
LEMMA WrittenIsContent ==
  ASSUME NEW f \in Content, NEW i \in 1 .. Blocks, NEW b \in {"good", "bad"}
  PROVE  Written(f, i, b) \in Content
<1>. DEFINE n == IF i > Len(f) THEN i ELSE Len(f)
<1>1. f \in Seq({"good", "bad", "hole"}) /\ Len(f) <= Blocks /\ Len(f) \in Nat
  BY Files, BoundedSeqs, LenProperties DEF Content
<1>2. n \in Nat /\ n <= Blocks
  BY <1>1, Files
<1>3. \A j \in 1 .. n : (IF j = i THEN b ELSE IF j <= Len(f) THEN f[j] ELSE "hole")
                          \in {"good", "bad", "hole"}
  <2>1. \A j \in 1 .. n : j <= Len(f) => f[j] \in {"good", "bad", "hole"}
    <3>1. \A j \in 1 .. n : j <= Len(f) => j \in 1 .. Len(f)
      BY <1>1, <1>2
    <3>. QED  BY <1>1, <3>1, ElementOfSeq
  <2>. QED  BY <2>1
<1>4. Written(f, i, b) \in [1 .. n -> {"good", "bad", "hole"}]
  BY <1>3 DEF Written
<1>5. n \in 0 .. Blocks
  BY <1>2, Files
<1>. HIDE DEF n
<1>. QED  BY <1>4, <1>5 DEF Content, BoundedSeq, SeqOf

\* One that is written behind what was received is what was received.
LEMMA WrittenIsAppended ==
  ASSUME NEW got \in Received, NEW b \in {"good", "bad"}, Len(got) < Blocks
  PROVE  /\ Append(got, b) \in Received
         /\ Written(got, Len(got) + 1, b) = Append(got, b)
<1>1. got \in Seq({"good", "bad"}) /\ Len(got) \in Nat /\ Blocks \in Nat
  BY Files, BoundedSeqs, LenProperties DEF Received
<1>2. /\ Append(got, b) \in Seq({"good", "bad"})
      /\ Len(Append(got, b)) = Len(got) + 1
      /\ Append(got, b)[Len(got) + 1] = b
      /\ \A j \in 1 .. Len(got) : Append(got, b)[j] = got[j]
  BY <1>1
<1>3. Append(got, b) \in Received
  <2>1. Len(Append(got, b)) <= Blocks
    BY <1>1, <1>2
  <2>2. Append(got, b) \in BoundedSeq({"good", "bad"}, Blocks)
    BY <1>1, <1>2, <2>1, BoundedSeqs
  <2>. QED  BY <2>2 DEF Received
<1>4. Append(got, b) = [j \in 1 .. Len(got) + 1 |-> Append(got, b)[j]]
  <2>1. DOMAIN Append(got, b) = 1 .. Len(got) + 1
    BY <1>1, <1>2, LenProperties
  <2>2. Append(got, b) \in [1 .. Len(got) + 1 -> {"good", "bad"}]
    BY <1>2, LenProperties
  <2>. QED  BY <2>2
<1>5. \A j \in 1 .. Len(got) + 1 :
        Append(got, b)[j] = IF j = Len(got) + 1 THEN b
                            ELSE IF j <= Len(got) THEN got[j] ELSE "hole"
  <2>1. \A j \in 1 .. Len(got) + 1 : j = Len(got) + 1 \/ j \in 1 .. Len(got)
    BY <1>1
  <2>2. \A j \in 1 .. Len(got) : j # Len(got) + 1 /\ j <= Len(got)
    BY <1>1
  <2>. QED  BY <1>2, <2>1, <2>2
<1>6. Len(got) + 1 > Len(got)
  BY <1>1
<1>. QED  BY <1>3, <1>4, <1>5, <1>6 DEF Written

-----------------------------------------------------------------------------
(* The records of the threads *)

WorkerRecs == [pc : WorkerPCs, at : {"none", "part", "out", "lost"}, got : Received]

\* A thread has a file open while it receives.
WorkersOK(recs) ==
  /\ recs \in [Workers -> WorkerRecs]
  /\ \A w \in Workers : (recs[w].at # "none") <=> (recs[w].pc = "receiving")

LEMMA WorkersTyped == TypeOK => WorkersOK(worker)
BY DEF TypeOK, WorkersOK, WorkerRecs, Received

LEMMA RecordSet ==
  ASSUME NEW recs, WorkersOK(recs), NEW w \in Workers, NEW rec \in WorkerRecs,
         (rec.at # "none") <=> (rec.pc = "receiving")
  PROVE  /\ WorkersOK([recs EXCEPT ![w] = rec])
         /\ [recs EXCEPT ![w] = rec][w] = rec
         /\ \A v \in Workers : v # w => [recs EXCEPT ![w] = rec][v] = recs[v]
BY DEF WorkersOK

LEMMA IdleRecords ==
  /\ Idle \in WorkerRecs /\ Idle.pc = "idle" /\ Idle.at = "none"
  /\ [Idle EXCEPT !.pc = "failed"] \in WorkerRecs
  /\ [Idle EXCEPT !.pc = "failed"].pc = "failed" /\ [Idle EXCEPT !.pc = "failed"].at = "none"
  /\ [Idle EXCEPT !.pc = "finished"] \in WorkerRecs
  /\ [Idle EXCEPT !.pc = "finished"].pc = "finished" /\ [Idle EXCEPT !.pc = "finished"].at = "none"
BY Files DEF Idle, WorkerRecs, WorkerPCs

\* What happens to the open handles when the file under them goes.
LEMMA HandlesMoved ==
  ASSUME NEW recs, WorkersOK(recs), NEW to \in {"out", "lost"}
  PROVE  /\ WorkersOK(Moved(recs, to))
         /\ \A w \in Workers : /\ Moved(recs, to)[w].pc = recs[w].pc
                               /\ Moved(recs, to)[w].got = recs[w].got
                               /\ Moved(recs, to)[w].at # "part"
                               /\ Moved(recs, to)[w].at = "out" => to = "out" \/ recs[w].at = "out"
<1>. DEFINE m(w) == IF recs[w].at = "part" THEN [recs[w] EXCEPT !.at = to]
                    ELSE IF recs[w].at = "out" /\ to = "out" THEN [recs[w] EXCEPT !.at = "lost"]
                    ELSE recs[w]
<1>1. \A w \in Workers : recs[w] \in WorkerRecs /\ ((recs[w].at # "none") <=> (recs[w].pc = "receiving"))
  BY DEF WorkersOK
<1>2. \A w \in Workers : /\ m(w) \in WorkerRecs
                         /\ (m(w).at # "none") <=> (m(w).pc = "receiving")
                         /\ m(w).pc = recs[w].pc /\ m(w).got = recs[w].got /\ m(w).at # "part"
                         /\ m(w).at = "out" => to = "out" \/ recs[w].at = "out"
  BY <1>1 DEF WorkerRecs
<1>3. Moved(recs, to) = [w \in Workers |-> m(w)]
  BY DEF Moved
<1>. HIDE DEF m
<1>4. WorkersOK(Moved(recs, to))
  BY <1>2, <1>3 DEF WorkersOK
<1>. QED  BY <1>2, <1>3, <1>4

-----------------------------------------------------------------------------
(* Every step keeps the types *)

\* Steps of a download leave the rest of the window's state alone.
LEMMA DownloadKeepsTypes ==
  ASSUME TypeOK, NEW w \in Workers, worker[w].pc # "idle", WorkersOK(worker'),
         \A v \in Workers : worker[v].pc = "idle" => worker'[v].pc = "idle",
         part' \in File, out' \in File,
         UNCHANGED <<windows, window, checking, pending, button, doubled, rclone, events>>
  PROVE  TypeOK'
<1>1. window
  BY DEF TypeOK
<1>2. /\ worker' \in [Workers -> [pc : WorkerPCs, at : {"none", "part", "out", "lost"},
                                  got : BoundedSeq({"good", "bad"}, Blocks)]]
      /\ \A v \in Workers : (worker'[v].at # "none") <=> (worker'[v].pc = "receiving")
  BY DEF WorkersOK, WorkerRecs, Received
<1>. QED  BY <1>1, <1>2 DEF TypeOK, rclone

LEMMA ClicksKeepTypes ==
  ASSUME TypeOK,
         \/ CheckForUpdates \/ CheckAnswers \/ OpenWindow \/ KillWindow
         \/ \E w \in Workers : StartDownload(w) \/ DownloadFailed(w) \/ Downloaded(w)
  PROVE  TypeOK'
<1>1. WorkersOK(worker)
  BY WorkersTyped
<1>2. ASSUME WorkersOK(worker')
      PROVE  /\ worker' \in [Workers -> [pc : WorkerPCs, at : {"none", "part", "out", "lost"},
                                         got : BoundedSeq({"good", "bad"}, Blocks)]]
             /\ \A v \in Workers : (worker'[v].at # "none") <=> (worker'[v].pc = "receiving")
  BY <1>2 DEF WorkersOK, WorkerRecs, Received
<1>3. \A w \in Workers : worker[w] \in WorkerRecs
  BY <1>1 DEF WorkersOK
<1>4. WorkersOK([w \in Workers |-> Idle]) /\ \A w \in Workers : [v \in Workers |-> Idle][w].pc = "idle"
  BY IdleRecords DEF WorkersOK
<1>5. MaxEvents \in Nat
  BY DownloadsAssumption DEF DownloadsAssumption
<1>6. CASE CheckForUpdates
  BY <1>5, <1>6 DEF CheckForUpdates, TypeOK, Event, rclone
<1>7. CASE CheckAnswers
  <2>1. pending' \in BOOLEAN /\ button' \in [shown : BOOLEAN, enabled : BOOLEAN]
    BY <1>7 DEF CheckAnswers, Answers, TypeOK
  <2>. QED  BY <1>7, <2>1 DEF CheckAnswers, TypeOK, rclone
<1>8. CASE OpenWindow
  BY <1>8 DEF OpenWindow, TypeOK, rclone
<1>9. CASE KillWindow
  <2>1. events' \in 0 .. MaxEvents
    BY <1>5, <1>9 DEF KillWindow, TypeOK, Event
  <2>2. WorkersOK(worker') /\ \A v \in Workers : worker'[v].pc = "idle"
    BY <1>4, <1>9 DEF KillWindow
  <2>. QED  BY <1>2, <1>9, <2>1, <2>2 DEF KillWindow, TypeOK, rclone
<1>10. ASSUME NEW w \in Workers, StartDownload(w)
       PROVE  TypeOK'
  <2>. DEFINE rec == [worker[w] EXCEPT !.pc = "asking"]
  <2>1. worker[w].pc = "idle" /\ worker[w].at = "none"
    BY <1>1, <1>10 DEF StartDownload, Busy, WorkersOK
  <2>2. rec \in WorkerRecs /\ rec.at = "none" /\ rec.pc = "asking"
    BY <1>3, <2>1 DEF WorkerRecs, WorkerPCs
  <2>3. worker' = [worker EXCEPT ![w] = rec]
    BY <1>10 DEF StartDownload
  <2>. HIDE DEF rec
  <2>4. WorkersOK(worker')
    BY <1>1, <2>2, <2>3, RecordSet
  <2>5. button' \in [shown : BOOLEAN, enabled : BOOLEAN] /\ doubled' \in BOOLEAN
    BY <1>10 DEF StartDownload, TypeOK
  <2>. QED  BY <1>2, <1>10, <2>4, <2>5 DEF StartDownload, TypeOK, rclone
<1>11. ASSUME NEW w \in Workers, DownloadFailed(w)
       PROVE  TypeOK'
  <2>1. worker' = [worker EXCEPT ![w] = Idle]
    BY <1>11 DEF DownloadFailed
  <2>2. WorkersOK(worker')
    BY <1>1, <2>1, IdleRecords, RecordSet
  <2>3. window
    BY <1>11 DEF DownloadFailed, TypeOK
  <2>4. button' \in [shown : BOOLEAN, enabled : BOOLEAN]
    BY <1>11 DEF DownloadFailed, TypeOK
  <2>. QED  BY <1>2, <1>11, <2>2, <2>3, <2>4 DEF DownloadFailed, TypeOK, rclone
<1>12. ASSUME NEW w \in Workers, Downloaded(w)
       PROVE  TypeOK'
  <2>1. WorkersOK(worker') /\ (window' \/ \A v \in Workers : worker'[v].pc = "idle")
    <3>1. CASE windows
      BY <1>4, <1>12, <3>1 DEF Downloaded
    <3>2. CASE ~windows
      <4>1. worker' = [worker EXCEPT ![w] = Idle] /\ window'
        BY <1>12, <3>2 DEF Downloaded
      <4>. QED  BY <1>1, <4>1, IdleRecords, RecordSet
    <3>. QED  BY <3>1, <3>2
  <2>2. window' \in BOOLEAN
    BY <1>12, DownloadsAssumption DEF Downloaded, TypeOK, DownloadsAssumption
  <2>3. /\ checking' \in BOOLEAN /\ pending' \in BOOLEAN
        /\ button' \in [shown : BOOLEAN, enabled : BOOLEAN]
        /\ window' \/ ~checking'
    <3>1. button \in [shown : BOOLEAN, enabled : BOOLEAN]
          /\ checking \in BOOLEAN /\ pending \in BOOLEAN
      BY DEF TypeOK
    <3>2. CASE windows
      <4>1. button' = [shown |-> FALSE, enabled |-> FALSE] /\ ~checking' /\ ~pending'
            /\ checking' \in BOOLEAN /\ pending' \in BOOLEAN
        BY <1>12, <3>2 DEF Downloaded
      <4>. QED  BY <4>1
    <3>3. CASE ~windows
      <4>1. button' = [button EXCEPT !.enabled = TRUE] /\ UNCHANGED <<checking, pending>> /\ window'
        BY <1>12, <3>3 DEF Downloaded
      <4>. QED  BY <3>1, <4>1
    <3>. QED  BY <3>2, <3>3
  <2>. QED  BY <1>2, <1>12, <2>1, <2>2, <2>3 DEF Downloaded, TypeOK, rclone
<1>. QED  BY <1>6, <1>7, <1>8, <1>9, <1>10, <1>11, <1>12

LEMMA InstallKeepsTypes ==
  ASSUME TypeOK, NEW i \in Installers,
         \/ MissRclone(i) \/ RequestRclone(i) \/ OpenZip(i) \/ FetchEnds(i)
         \/ OpenExe(i) \/ CopyEnds(i) \/ FinishInstall(i) \/ InstallBreaks(i)
  PROVE  TypeOK'
<1>. USE DEF MissRclone, RequestRclone, OpenZip, FetchEnds, OpenExe, CopyEnds, FinishInstall,
             InstallBreaks, Install
<1>1. UNCHANGED <<windows, update>>
  OBVIOUS
<1>2. installer' \in [Installers -> InstallerPCs]
  BY DEF TypeOK, InstallerPCs
<1>3. zip' \in {"absent", "part", "whole"} /\ exe' \in {"absent", "part", "whole"}
  BY DEF TypeOK
<1>4. mode' \in BOOLEAN /\ (windows' => ~mode') /\ trampled' \in BOOLEAN
  <2>1. windows \in BOOLEAN
    BY DownloadsAssumption DEF TypeOK, DownloadsAssumption
  <2>2. mode \in BOOLEAN /\ (windows => ~mode) /\ trampled \in BOOLEAN
    BY DEF TypeOK
  <2>3. windows' = windows /\ mode' \in {mode, ~windows}
    BY DEF update
  <2>4. trampled' = trampled \/ trampled' \in BOOLEAN
    OBVIOUS
  <2>. QED  BY <2>1, <2>2, <2>3, <2>4
<1>5. events' \in 0 .. MaxEvents
  BY DownloadsAssumption DEF TypeOK, Event, DownloadsAssumption
<1>. QED  BY <1>1, <1>2, <1>3, <1>4, <1>5 DEF TypeOK, update

-----------------------------------------------------------------------------
(* The update: what is verified is what is published *)

\* What every step of the update keeps.
UpdateOK == TypeOK /\ HandlesOnFiles /\ StartsEmpty /\ UpdateInv /\ PublishedIsVerified

\* Threads that stop leave files and the other threads alone.
LEMMA StoppingKeepsFiles ==
  ASSUME HandlesOnFiles, StartsEmpty, UpdateInv, PublishedIsVerified, UNCHANGED <<part, out, doubled>>,
         \A v \in Workers : worker'[v] = worker[v] \/ worker'[v] = Idle
  PROVE  HandlesOnFiles' /\ StartsEmpty' /\ UpdateInv' /\ PublishedIsVerified'
<1>1. \A v \in Workers : worker'[v].pc # "idle" \/ worker'[v].at # "none" => worker'[v] = worker[v]
  BY IdleRecords
<1>2. HandlesOnFiles'
  BY <1>1 DEF HandlesOnFiles
<1>3. PublishedIsVerified'
  BY DEF PublishedIsVerified
<1>4. ASSUME ~doubled'
      PROVE  OneDownload' /\ PartIsReceived'
  <2>1. OneDownload /\ PartIsReceived
    BY <1>4 DEF UpdateInv
  <2>2. \A v \in Workers : Active(v)' => Active(v)
    BY <1>1 DEF Active
  <2>. QED  BY <1>1, <2>1, <2>2 DEF OneDownload, PartIsReceived, Matches, DigestMatches
<1>5. StartsEmpty'
  BY DEF StartsEmpty, Idle
<1>. QED  BY <1>2, <1>3, <1>4, <1>5 DEF UpdateInv

\* A download that is started is the only one, or the history says so.
LEMMA StartKeepsFiles ==
  ASSUME UpdateOK, NEW w \in Workers, StartDownload(w)
  PROVE  HandlesOnFiles' /\ StartsEmpty' /\ UpdateInv' /\ PublishedIsVerified'
<1>1. worker[w].pc = "idle" /\ worker[w].at = "none" /\ worker \in [Workers -> WorkerRecs]
  BY WorkersTyped DEF UpdateOK, StartDownload, Busy, WorkersOK
<1>2. worker'[w].pc = "asking" /\ worker'[w].at = "none"
      /\ \A v \in Workers : v # w => worker'[v] = worker[v]
  BY <1>1 DEF StartDownload, WorkerRecs
<1>3. UNCHANGED <<part, out>>
  BY DEF StartDownload
<1>4. HandlesOnFiles'
  BY <1>2, <1>3 DEF UpdateOK, HandlesOnFiles
<1>5. ~doubled' => ~doubled /\ \A v \in Workers : ~Active(v)
  BY DEF StartDownload, Active
<1>6. PublishedIsVerified'
  BY <1>3, <1>5 DEF UpdateOK, PublishedIsVerified
<1>7. ASSUME ~doubled'
      PROVE  OneDownload' /\ PartIsReceived'
  <2>1. \A v \in Workers : Active(v)' => v = w
    BY <1>2, <1>5, <1>7 DEF Active
  <2>2. \A v \in Workers : worker'[v].pc \notin {"receiving", "verified"}
    BY <1>2, <1>5, <1>7 DEF Active
  <2>. QED  BY <2>1, <2>2 DEF OneDownload, PartIsReceived
<1>8. StartsEmpty'
  <2>1. worker[w].got = <<>> /\ worker'[w].got = worker[w].got
    BY <1>1 DEF UpdateOK, StartsEmpty, StartDownload, WorkerRecs
  <2>. QED  BY <1>2, <2>1 DEF UpdateOK, StartsEmpty
<1>. QED  BY <1>4, <1>6, <1>7, <1>8 DEF UpdateInv

\* The only thread of a download has the only handle.
LEMMA OnlyHandle ==
  ASSUME UpdateOK, ~doubled, NEW w \in Workers, Active(w)
  PROVE  \A v \in Workers : v # w => ~Active(v) /\ worker[v].at = "none"
<1>1. WorkersOK(worker)
  BY WorkersTyped DEF UpdateOK
<1>2. \A v \in Workers : v # w => ~Active(v)
  BY DEF UpdateOK, UpdateInv, OneDownload
<1>. QED  BY <1>1, <1>2 DEF Active, WorkersOK

\* One step of a download with the record it leaves to its thread.
LEMMA OneStep ==
  ASSUME UpdateOK, NEW w \in Workers, worker[w].pc # "idle",
         NEW rec \in WorkerRecs, (rec.at # "none") <=> (rec.pc = "receiving"),
         worker' = [worker EXCEPT ![w] = rec], Active(w),
         part' \in File, out' \in File,
         UNCHANGED <<windows, window, checking, pending, button, doubled, rclone, events>>,
         part # Absent => part' # Absent, out # Absent => out' # Absent,
         rec.pc \in {"idle", "asking"} => rec.got = <<>>,
         rec.at = "part" => part' # Absent, rec.at = "out" => out' # Absent,
         ~doubled => /\ rec.pc = "receiving" => rec.at = "part" /\ part' = rec.got
                     /\ rec.pc = "verified" => part' = rec.got /\ Matches(rec.got)
                     /\ out' = out
  PROVE  UpdateOK'
<1>1. WorkersOK(worker)
  BY WorkersTyped DEF UpdateOK
<1>2. WorkersOK(worker') /\ worker'[w] = rec
      /\ \A v \in Workers : v # w => worker'[v] = worker[v]
  <2>. DEFINE recs == [worker EXCEPT ![w] = rec]
  <2>1. WorkersOK(recs) /\ recs[w] = rec /\ \A v \in Workers : v # w => recs[v] = worker[v]
    BY <1>1 DEF WorkersOK
  <2>2. worker' = recs
    OBVIOUS
  <2>. HIDE DEF recs
  <2>. QED  BY <2>1, <2>2
<1>3. TypeOK'
  BY <1>2, DownloadKeepsTypes DEF UpdateOK
<1>4. HandlesOnFiles'
  BY <1>2 DEF UpdateOK, HandlesOnFiles
<1>5. PublishedIsVerified'
  BY DEF UpdateOK, PublishedIsVerified
<1>6. ASSUME ~doubled'
      PROVE  OneDownload' /\ PartIsReceived'
  <2>1. ~doubled
    BY <1>6
  <2>2. \A v \in Workers : v # w => ~Active(v)
    BY <2>1, OnlyHandle
  <2>3. \A v \in Workers : v # w => ~Active(v)'
    BY <1>2, <2>2 DEF Active
  <2>4. OneDownload'
    BY <2>3 DEF OneDownload
  <2>5. PartIsReceived'
    BY <1>2, <2>1, <2>3 DEF PartIsReceived, Active, Matches, DigestMatches
  <2>. QED  BY <2>4, <2>5
<1>7. StartsEmpty'
  BY <1>2 DEF UpdateOK, StartsEmpty
<1>. QED  BY <1>3, <1>4, <1>5, <1>6, <1>7 DEF UpdateOK, UpdateInv

LEMMA OpenPartKeeps ==
  ASSUME UpdateOK, NEW w \in Workers, OpenPart(w)
  PROVE  UpdateOK'
<1>. DEFINE rec == [worker[w] EXCEPT !.pc = "receiving", !.at = "part"]
<1>1. worker[w].pc = "asking" /\ part' = <<>> /\ out' = out /\ worker' = [worker EXCEPT ![w] = rec]
      /\ UNCHANGED <<windows, window, checking, pending, button, doubled, rclone, events>>
  BY DEF OpenPart, Download
<1>2. worker[w] \in WorkerRecs /\ worker[w].at = "none" /\ out \in File
  BY <1>1, WorkersTyped DEF UpdateOK, WorkersOK, TypeOK
<1>3. rec \in WorkerRecs /\ rec.pc = "receiving" /\ rec.at = "part" /\ rec.got = worker[w].got
  BY <1>2 DEF WorkerRecs, WorkerPCs
<1>4. <<>> \in File /\ <<>> # Absent
  BY Files
<1>5. worker[w].got = <<>>
  BY <1>1 DEF UpdateOK, StartsEmpty
<1>. HIDE DEF rec
<1>. QED  BY <1>1, <1>2, <1>3, <1>4, <1>5, OneStep DEF Active

LEMMA ReceiveKeeps ==
  ASSUME UpdateOK, NEW w \in Workers, NEW b \in {"good", "bad"}, Receive(w, b)
  PROVE  UpdateOK'
<1>. DEFINE got == worker[w].got
            rec == [worker[w] EXCEPT !.got = Append(got, b)]
<1>1. /\ worker[w].pc = "receiving" /\ Len(got) + 1 <= Blocks
      /\ part' = IF worker[w].at = "part" THEN Written(part, Len(got) + 1, b) ELSE part
      /\ out' = IF worker[w].at = "out" THEN Written(out, Len(got) + 1, b) ELSE out
      /\ worker' = [worker EXCEPT ![w] = rec]
      /\ UNCHANGED <<windows, window, checking, pending, button, doubled, rclone, events>>
  BY DEF Receive, Download
<1>2. worker[w] \in WorkerRecs /\ worker[w].at # "none" /\ part \in File /\ out \in File
  BY <1>1, WorkersTyped DEF UpdateOK, WorkersOK, TypeOK
<1>3. got \in Received
  BY <1>2 DEF WorkerRecs
<1>4. Len(got) \in Nat /\ Blocks \in Nat
  BY <1>3, Files, BoundedSeqs, LenProperties DEF Received
<1>5. Len(got) < Blocks /\ Len(got) + 1 \in 1 .. Blocks
  BY <1>1, <1>4
<1>6. Append(got, b) \in Received
  BY <1>3, <1>5, WrittenIsAppended
<1>7. rec \in WorkerRecs /\ rec.pc = "receiving" /\ rec.at = worker[w].at /\ rec.got = Append(got, b)
  BY <1>1, <1>2, <1>6 DEF WorkerRecs
<1>8. worker[w].at = "part" => part # Absent
  BY DEF UpdateOK, HandlesOnFiles
<1>9. worker[w].at = "out" => out # Absent
  BY DEF UpdateOK, HandlesOnFiles
<1>10. part' \in File /\ (part # Absent => part' # Absent)
  <2>1. CASE worker[w].at = "part"
    <3>1. part \in Content
      BY <1>2, <1>8, <2>1, Files
    <3>2. Written(part, Len(got) + 1, b) \in Content
      BY <1>5, <3>1, WrittenIsContent
    <3>. QED  BY <1>1, <2>1, <3>2, Files
  <2>2. CASE worker[w].at # "part"
    BY <1>1, <1>2, <2>2
  <2>. QED  BY <2>1, <2>2
<1>11. out' \in File /\ (out # Absent => out' # Absent)
  <2>1. CASE worker[w].at = "out"
    <3>1. out \in Content
      BY <1>2, <1>9, <2>1, Files
    <3>2. Written(out, Len(got) + 1, b) \in Content
      BY <1>5, <3>1, WrittenIsContent
    <3>. QED  BY <1>1, <2>1, <3>2, Files
  <2>2. CASE worker[w].at # "out"
    BY <1>1, <1>2, <2>2
  <2>. QED  BY <2>1, <2>2
<1>12. ~doubled => part' = Append(got, b) /\ out' = out /\ worker[w].at = "part"
  <2>1. ~doubled => worker[w].at = "part" /\ part = got
    BY <1>1 DEF UpdateOK, UpdateInv, PartIsReceived
  <2>2. Written(got, Len(got) + 1, b) = Append(got, b)
    BY <1>3, <1>5, WrittenIsAppended
  <2>. QED  BY <1>1, <2>1, <2>2
<1>. HIDE DEF rec, got
<1>13. (rec.at # "none") <=> (rec.pc = "receiving")
  BY <1>2, <1>7
<1>14. rec.at = "part" => part' # Absent
  BY <1>7, <1>8, <1>10
<1>15. rec.at = "out" => out' # Absent
  BY <1>7, <1>9, <1>11
<1>. QED  BY <1>1, <1>7, <1>10, <1>11, <1>12, <1>13, <1>14, <1>15, OneStep DEF Active

LEMMA VerifyKeeps ==
  ASSUME UpdateOK, NEW w \in Workers, Verify(w)
  PROVE  UpdateOK'
<1>. DEFINE rec == [worker[w] EXCEPT !.pc = "verified", !.at = "none"]
<1>1. worker[w].pc = "receiving" /\ Matches(worker[w].got) /\ UNCHANGED <<part, out>>
      /\ worker' = [worker EXCEPT ![w] = rec]
      /\ UNCHANGED <<windows, window, checking, pending, button, doubled, rclone, events>>
  BY DEF Verify, Download
<1>2. worker[w] \in WorkerRecs /\ part \in File /\ out \in File
  BY <1>1, WorkersTyped DEF UpdateOK, WorkersOK, TypeOK
<1>3. rec \in WorkerRecs /\ rec.pc = "verified" /\ rec.at = "none" /\ rec.got = worker[w].got
  BY <1>2 DEF WorkerRecs, WorkerPCs
<1>4. ~doubled => part = worker[w].got
  BY <1>1 DEF UpdateOK, UpdateInv, PartIsReceived
<1>. HIDE DEF rec
<1>. QED  BY <1>1, <1>2, <1>3, <1>4, OneStep DEF Active

\* A download that ends takes the file, published or removed, from under all handles.
LEMMA OneEnds ==
  ASSUME UpdateOK, NEW w \in Workers, Active(w), NEW to \in {"out", "lost"},
         NEW rec \in WorkerRecs, rec.pc \in {"failed", "finished"}, rec.at = "none",
         worker' = Moved([worker EXCEPT ![w] = rec], to),
         part' = Absent, out' \in File, out # Absent => out' # Absent,
         to = "out" => out' # Absent, PublishedIsVerified',
         UNCHANGED <<windows, window, checking, pending, button, doubled, rclone, events>>
  PROVE  UpdateOK'
<1>. DEFINE recs == [worker EXCEPT ![w] = rec]
<1>1. WorkersOK(recs) /\ recs[w] = rec /\ \A v \in Workers : v # w => recs[v] = worker[v]
  BY WorkersTyped, RecordSet DEF UpdateOK
<1>2. worker' = Moved(recs, to)
  OBVIOUS
<1>. HIDE DEF recs
<1>3. WorkersOK(worker')
  BY <1>1, <1>2, HandlesMoved
<1>4. \A v \in Workers : /\ worker'[v].pc = recs[v].pc /\ worker'[v].got = recs[v].got
                         /\ worker'[v].at # "part"
                         /\ worker'[v].at = "out" => to = "out" \/ recs[v].at = "out"
  BY <1>1, <1>2, HandlesMoved
<1>5. TypeOK'
  <2>1. worker[w].pc # "idle" /\ Absent \in File
    BY Files DEF Active
  <2>2. \A v \in Workers : worker[v].pc = "idle" => worker'[v].pc = "idle"
    BY <1>1, <1>4, <2>1
  <2>. QED  BY <1>3, <2>1, <2>2, DownloadKeepsTypes DEF UpdateOK
<1>6. HandlesOnFiles'
  <2>1. \A v \in Workers : recs[v].at = "out" => out # Absent
    BY <1>1 DEF UpdateOK, HandlesOnFiles
  <2>. QED  BY <1>4, <2>1 DEF HandlesOnFiles
<1>7. StartsEmpty'
  BY <1>1, <1>4 DEF UpdateOK, StartsEmpty
<1>8. ASSUME ~doubled'
      PROVE  OneDownload' /\ PartIsReceived'
  <2>1. ~doubled
    BY <1>8
  <2>2. \A v \in Workers : v # w => ~Active(v)
    BY <2>1, OnlyHandle
  <2>3. \A v \in Workers : worker'[v].pc \notin {"asking", "receiving", "verified"}
    BY <1>1, <1>4, <2>2 DEF Active
  <2>. QED  BY <2>3 DEF OneDownload, PartIsReceived, Active
<1>. QED  BY <1>5, <1>6, <1>7, <1>8 DEF UpdateOK, UpdateInv

LEMMA ReplaceKeeps ==
  ASSUME UpdateOK, NEW w \in Workers, Replace(w)
  PROVE  UpdateOK'
<1>1. worker[w].pc = "verified" /\ part # Absent /\ out' = part /\ part' = Absent
      /\ worker' = Moved([worker EXCEPT ![w] = [Idle EXCEPT !.pc = "finished"]], "out")
      /\ UNCHANGED <<windows, window, checking, pending, button, doubled, rclone, events>>
  BY DEF Replace
<1>2. part \in File
  BY DEF UpdateOK, TypeOK
<1>3. PublishedIsVerified'
  <2>1. ~doubled => Matches(part)
    BY <1>1 DEF UpdateOK, UpdateInv, PartIsReceived
  <2>. QED  BY <1>1, <2>1 DEF PublishedIsVerified, Matches, DigestMatches
<1>. QED  BY <1>1, <1>2, <1>3, IdleRecords, OneEnds DEF Active

LEMMA FailKeeps ==
  ASSUME UpdateOK, NEW w \in Workers, Fail(w)
  PROVE  UpdateOK'
<1>. DEFINE rec == [Idle EXCEPT !.pc = "failed"]
<1>1. Active(w) /\ out' = out
      /\ UNCHANGED <<windows, window, checking, pending, button, doubled, rclone, events>>
  BY DEF Fail, Active
<1>2. \/ worker' = [worker EXCEPT ![w] = rec] /\ part' = part
      \/ worker' = Moved([worker EXCEPT ![w] = rec], "lost") /\ part' = Absent
  BY DEF Fail
<1>3. rec \in WorkerRecs /\ rec.pc = "failed" /\ rec.at = "none"
  BY IdleRecords
<1>4. part \in File /\ out \in File /\ worker[w].pc # "idle"
  BY <1>1 DEF UpdateOK, TypeOK, Active
<1>5. PublishedIsVerified'
  BY <1>1 DEF UpdateOK, PublishedIsVerified
<1>. HIDE DEF rec
<1>6. CASE worker' = [worker EXCEPT ![w] = rec] /\ part' = part
  BY <1>1, <1>3, <1>4, <1>6, OneStep
<1>7. CASE worker' = Moved([worker EXCEPT ![w] = rec], "lost") /\ part' = Absent
  BY <1>1, <1>3, <1>4, <1>5, <1>7, OneEnds
<1>. QED  BY <1>2, <1>6, <1>7

-----------------------------------------------------------------------------
(* rclone: what may be run is whole *)

LEMMA InstallKeepsRclone ==
  ASSUME TypeOK, RcloneInv, NEW i \in Installers,
         \/ MissRclone(i) \/ RequestRclone(i) \/ OpenZip(i) \/ FetchEnds(i)
         \/ OpenExe(i) \/ CopyEnds(i) \/ FinishInstall(i) \/ InstallBreaks(i)
  PROVE  RcloneInv'
<1>1. installer \in [Installers -> InstallerPCs]
  BY DEF TypeOK
<1>2. \E pc : Install(i, pc)
  BY DEF MissRclone, RequestRclone, OpenZip, FetchEnds, OpenExe, CopyEnds, FinishInstall,
         InstallBreaks
<1>3. windows' = windows /\ \A j \in Installers : j # i => installer'[j] = installer[j]
  BY <1>1, <1>2 DEF Install
<1>4. SUFFICES ASSUME ~trampled'
               PROVE  OneUnpacks' /\ CopiedIsWhole' /\ RunnableIsWhole'
  BY DEF RcloneInv
<1>5. ~trampled
  BY <1>4 DEF MissRclone, RequestRclone, OpenZip, FetchEnds, OpenExe, CopyEnds, FinishInstall,
              InstallBreaks
<1>6. OneUnpacks /\ CopiedIsWhole /\ RunnableIsWhole
  BY <1>5 DEF RcloneInv
<1>7. CASE OpenExe(i)
  <2>1. exe' = "part" /\ mode' = mode /\ installer'[i] = "copying"
    BY <1>1, <1>7 DEF OpenExe, Install
  <2>2. ~Installed /\ \A j \in Installers : j # i => ~Unpacking(j)
    BY <1>4, <1>7 DEF OpenExe, Unpacking
  <2>3. \A j \in Installers : j # i => ~Unpacking(j)'
    BY <1>3, <2>2 DEF Unpacking
  <2>4. OneUnpacks' /\ CopiedIsWhole'
    BY <2>1, <2>3 DEF OneUnpacks, CopiedIsWhole, Unpacking
  <2>5. ~windows /\ mode => FALSE
    BY <1>6, <2>2 DEF RunnableIsWhole, Installed
  <2>. QED  BY <1>3, <2>1, <2>4, <2>5 DEF RunnableIsWhole
<1>8. CASE CopyEnds(i)
  <2>1. exe' = "whole" /\ mode' = mode /\ installer'[i] = "copied" /\ installer[i] = "copying"
    BY <1>1, <1>5, <1>8 DEF CopyEnds, Install
  <2>2. \A j \in Installers : Unpacking(j)' <=> Unpacking(j)
    BY <1>3, <2>1 DEF Unpacking
  <2>3. OneUnpacks' /\ CopiedIsWhole'
    BY <1>6, <2>1, <2>2 DEF OneUnpacks, CopiedIsWhole
  <2>4. ~(~windows /\ mode)
    BY <1>6, <2>1 DEF RunnableIsWhole
  <2>. QED  BY <1>3, <2>1, <2>3, <2>4 DEF RunnableIsWhole
<1>9. CASE FinishInstall(i)
  <2>1. exe' = exe /\ installer'[i] = "idle" /\ installer[i] = "copied"
    BY <1>1, <1>9 DEF FinishInstall, Install
  <2>2. \A j \in Installers : /\ Unpacking(j)' => Unpacking(j)
                              /\ installer'[j] = "copied" => installer[j] = "copied"
                              /\ installer'[j] = "copying" => installer[j] = "copying" /\ j # i
    BY <1>3, <2>1 DEF Unpacking
  <2>3. OneUnpacks' /\ CopiedIsWhole'
    BY <1>6, <2>1, <2>2 DEF OneUnpacks, CopiedIsWhole
  <2>4. exe = "whole" /\ \A j \in Installers : installer'[j] # "copying"
    BY <1>6, <2>1, <2>2 DEF OneUnpacks, CopiedIsWhole, Unpacking
  <2>. QED  BY <2>1, <2>3, <2>4 DEF RunnableIsWhole
<1>10. ASSUME \/ MissRclone(i) \/ RequestRclone(i) \/ OpenZip(i) \/ FetchEnds(i)
              \/ InstallBreaks(i)
       PROVE  OneUnpacks' /\ CopiedIsWhole' /\ RunnableIsWhole'
  <2>1. UNCHANGED <<exe, mode>> /\ installer'[i] \notin {"copying", "copied"}
    BY <1>1, <1>10 DEF MissRclone, RequestRclone, OpenZip, FetchEnds, InstallBreaks, Install
  <2>2. \A j \in Installers : /\ Unpacking(j)' => Unpacking(j) /\ j # i
                              /\ installer'[j] = "copied" => installer[j] = "copied"
                              /\ installer'[j] = "copying" => installer[j] = "copying"
    BY <1>3, <2>1 DEF Unpacking
  <2>. QED  BY <1>3, <1>6, <2>1, <2>2 DEF OneUnpacks, CopiedIsWhole, RunnableIsWhole
<1>. QED  BY <1>7, <1>8, <1>9, <1>10

-----------------------------------------------------------------------------
(* Theorems *)

LEMMA InitInv == Init => Inv
<1>. SUFFICES ASSUME Init
              PROVE  Inv
  OBVIOUS
<1>1. WorkersOK(worker) /\ \A w \in Workers : worker[w] = Idle
  BY IdleRecords DEF Init, WorkersOK
<1>2. TypeOK
  <2>1. worker \in [Workers -> [pc : WorkerPCs, at : {"none", "part", "out", "lost"},
                                got : BoundedSeq({"good", "bad"}, Blocks)]]
        /\ \A w \in Workers : (worker[w].at # "none") <=> (worker[w].pc = "receiving")
    BY <1>1 DEF WorkersOK, WorkerRecs, Received
  <2>2. 0 \in 0 .. MaxEvents
    BY DownloadsAssumption DEF DownloadsAssumption
  <2>3. part \in File /\ out \in File
    BY Files DEF Init
  <2>4. installer \in [Installers -> InstallerPCs]
    BY DEF Init, InstallerPCs
  <2>. QED  BY <2>1, <2>2, <2>3, <2>4 DEF Init, TypeOK
<1>3. HandlesOnFiles /\ StartsEmpty /\ UpdateInv
  BY <1>1, IdleRecords DEF HandlesOnFiles, StartsEmpty, UpdateInv, OneDownload, PartIsReceived,
                           Active, Idle
<1>4. PublishedIsVerified
  BY DEF Init, PublishedIsVerified
<1>5. RcloneInv
  BY DEF Init, RcloneInv, OneUnpacks, CopiedIsWhole, RunnableIsWhole, Unpacking
<1>. QED  BY <1>2, <1>3, <1>4, <1>5 DEF Inv

LEMMA NextKeepsInv == Inv /\ [Next]_vars => Inv'
<1>. SUFFICES ASSUME Inv, [Next]_vars
              PROVE  Inv'
  OBVIOUS
<1>1. UpdateOK /\ RcloneInv
  BY DEF Inv, UpdateOK
<1>2. ASSUME UNCHANGED rclone, windows' = windows
      PROVE  RcloneInv'
  BY <1>1, <1>2 DEF rclone, RcloneInv, OneUnpacks, CopiedIsWhole, RunnableIsWhole, Unpacking
<1>3. ASSUME \/ CheckForUpdates \/ CheckAnswers \/ OpenWindow \/ KillWindow
             \/ \E w \in Workers : DownloadFailed(w) \/ Downloaded(w)
      PROVE  UpdateOK' /\ RcloneInv'
  <2>1. UNCHANGED <<rclone, windows, part, out, doubled>>
    BY <1>3 DEF CheckForUpdates, CheckAnswers, OpenWindow, KillWindow, DownloadFailed, Downloaded
  <2>2. \A v \in Workers : worker'[v] = worker[v] \/ worker'[v] = Idle
    <3>1. worker \in [Workers -> WorkerRecs]
      BY <1>1, WorkersTyped DEF UpdateOK, WorkersOK
    <3>2. \/ worker' = worker \/ worker' = [v \in Workers |-> Idle]
          \/ \E w \in Workers : worker' = [worker EXCEPT ![w] = Idle]
      BY <1>3 DEF CheckForUpdates, CheckAnswers, OpenWindow, KillWindow, DownloadFailed, Downloaded
    <3>. QED  BY <3>1, <3>2
  <2>3. TypeOK'
    BY <1>1, <1>3, ClicksKeepTypes DEF UpdateOK
  <2>4. HandlesOnFiles' /\ StartsEmpty' /\ UpdateInv' /\ PublishedIsVerified'
    BY <1>1, <2>1, <2>2, StoppingKeepsFiles DEF UpdateOK
  <2>5. RcloneInv'
    BY <1>2, <2>1
  <2>. QED  BY <2>3, <2>4, <2>5 DEF UpdateOK
<1>4. ASSUME NEW w \in Workers, StartDownload(w)
      PROVE  UpdateOK' /\ RcloneInv'
  <2>1. TypeOK'
    BY <1>1, <1>4, ClicksKeepTypes DEF UpdateOK
  <2>2. HandlesOnFiles' /\ StartsEmpty' /\ UpdateInv' /\ PublishedIsVerified'
    BY <1>1, <1>4, StartKeepsFiles
  <2>3. RcloneInv'
    BY <1>2, <1>4 DEF StartDownload
  <2>. QED  BY <2>1, <2>2, <2>3 DEF UpdateOK
<1>5. ASSUME NEW w \in Workers, Downloading(w)
      PROVE  UpdateOK' /\ RcloneInv'
  <2>1. UpdateOK'
    BY <1>1, <1>5, OpenPartKeeps, ReceiveKeeps, VerifyKeeps, ReplaceKeeps, FailKeeps
       DEF Downloading
  <2>2. UNCHANGED <<rclone, windows>>
    BY <1>5 DEF Downloading, OpenPart, Receive, Verify, Replace, Fail, Download
  <2>. QED  BY <1>2, <2>1, <2>2
<1>6. ASSUME NEW i \in Installers,
             \/ MissRclone(i) \/ RequestRclone(i) \/ OpenZip(i) \/ FetchEnds(i)
             \/ OpenExe(i) \/ CopyEnds(i) \/ FinishInstall(i) \/ InstallBreaks(i)
      PROVE  UpdateOK' /\ RcloneInv'
  <2>1. TypeOK' /\ RcloneInv'
    BY <1>1, <1>6, InstallKeepsTypes, InstallKeepsRclone DEF UpdateOK
  <2>2. UNCHANGED update
    BY <1>6 DEF MissRclone, RequestRclone, OpenZip, FetchEnds, OpenExe, CopyEnds,
                FinishInstall, InstallBreaks, Install
  <2>3. UNCHANGED <<part, out, doubled, worker>>
    BY <2>2 DEF update
  <2>4. HandlesOnFiles' /\ StartsEmpty' /\ UpdateInv' /\ PublishedIsVerified'
    BY <1>1, <2>3, StoppingKeepsFiles DEF UpdateOK
  <2>. QED  BY <2>1, <2>4 DEF UpdateOK
<1>7. CASE UNCHANGED vars
  <2>1. UNCHANGED <<windows, update, rclone, events>>
    BY <1>7 DEF vars
  <2>2. TypeOK'
    BY <1>1, <2>1 DEF UpdateOK, TypeOK, update, rclone
  <2>3. UNCHANGED <<part, out, doubled, worker>>
    BY <2>1 DEF update
  <2>4. HandlesOnFiles' /\ StartsEmpty' /\ UpdateInv' /\ PublishedIsVerified'
    BY <1>1, <2>3, StoppingKeepsFiles DEF UpdateOK
  <2>. QED  BY <1>2, <2>1, <2>2, <2>4 DEF UpdateOK, Inv
<1>8. UpdateOK' /\ RcloneInv' => Inv'
  BY DEF UpdateOK, Inv
<1>. QED  BY <1>3, <1>4, <1>5, <1>6, <1>7, <1>8 DEF Next

\* Every reachable state of the downloads is well typed: a thread has a file open while it
\* receives, and nothing of a closed window goes on.
THEOREM TypeCorrect == Spec => []TypeOK
<1>1. Inv => TypeOK
  BY DEF Inv
<1>. QED  BY <1>1, InitInv, NextKeepsInv, PTL DEF Spec

\* Whatever number of blocks was dropped or damaged and whenever the window was killed, what a
\* single download publishes is what was published by the release (updater.py:144-201).
THEOREM OnlyVerifiedIsPublished == Spec => []PublishedIsVerified
<1>1. Inv => PublishedIsVerified
  BY DEF Inv
<1>. QED  BY <1>1, InitInv, NextKeepsInv, PTL DEF Spec

\* Any number of threads may install rclone and be cut short: where the executable bit tells,
\* what is run is whole unless two of them met (rclone_engine.py:162-171).
THEOREM HalvesAreNotRun == Spec => []HalfInstallNotUsed
<1>1. Inv => HalfInstallNotUsed
  BY DEF Inv, RcloneInv, RunnableIsWhole, HalfInstallNotUsed, Installed
<1>. QED  BY <1>1, InitInv, NextKeepsInv, PTL DEF Spec

=============================================================================
