--------------------------- MODULE DesktopProofs ---------------------------
(***************************************************************************)
(* Theorems about Desktop for every choice of its constants: any number of *)
(* service processes and windows, with and without a port they can share.  *)
(* Checked with TLAPS.                                                     *)
(***************************************************************************)
EXTENDS Desktop, TLAPS

-----------------------------------------------------------------------------
(* The inductive invariant *)

\* What the tray icon of w will say once everything on its way to w was handled.
LooksBusy(w) ==
  IF mail[w] = <<>> THEN w \in tray ELSE mail[w][Len(mail[w])] = "progress"

\* A window whose last news is progress has a run of its own, some service has one, or
\* the window missed the end.  That some engine is busy would not be enough: the engines of
\* another window end with that window and nobody hears of it.
BusyIsHeard ==
  \A w \in Windows : LooksBusy(w) => w \in busy \/ busy \cap Services # {} \/ w \in missed

Inv == TypeOK /\ NoIdleWindow /\ BusyIsHeard

-----------------------------------------------------------------------------
(* Steps of processes that start and windows that open *)

\* No service ends or falls back behind its scheduler, no window closes.
ServicesGoOn ==
  /\ svc' \in [Services -> ServicePCs]
  /\ \A q \in Services : /\ svc[q] = "serving" => svc'[q] = "serving"
                         /\ Schedules(q) => Schedules(q)'

WindowsGoOn ==
  /\ win' \in [Windows -> WindowPCs]
  /\ \A v \in Windows : Open(v) => Open(v)'
  /\ internal \subseteq internal'
  /\ internal' \subseteq {v \in Windows : win'[v] \in {"show", "ready"}}

\* A service moves on towards its port.
LEMMA ServiceMoves ==
  ASSUME TypeOK, NEW p \in Services, NEW pc \in ServicePCs, Becomes(p, pc),
         svc[p] # "serving", svc[p] = "scheduling" => pc = "serving"
  PROVE  ServicesGoOn
<1>1. svc \in [Services -> ServicePCs]
  BY DEF TypeOK
<1>2. svc' \in [Services -> ServicePCs] /\ \A q \in Services : q # p => svc'[q] = svc[q]
  BY <1>1 DEF Becomes
<1>3. svc'[p] = pc
  BY <1>1 DEF Becomes
<1>. QED  BY <1>2, <1>3 DEF ServicesGoOn, Schedules

\* What is launched, if anything, was not there before.
LEMMA LaunchMoves ==
  ASSUME TypeOK, UNCHANGED svc \/ \E p \in Services : Launch(p)
  PROVE  ServicesGoOn
<1>1. CASE UNCHANGED svc
  BY <1>1 DEF ServicesGoOn, TypeOK, Schedules
<1>2. CASE \E p \in Services : Launch(p)
  <2> PICK p \in Services : Launch(p)
    BY <1>2
  <2>1. svc[p] = "none" /\ Becomes(p, "launched") /\ "launched" \in ServicePCs
    BY DEF Launch, ServicePCs
  <2>. QED  BY <2>1, ServiceMoves
<1>. QED  BY <1>1, <1>2

\* A window on its way turns to another place on its way.
LEMMA WindowMoves ==
  ASSUME TypeOK, NEW w \in Windows, NEW pc \in WindowPCs, Turns(w, pc),
         pc \notin {"none", "gone"}, win[w] \in {"show", "ready"} => pc \in {"show", "ready"},
         \/ UNCHANGED internal
         \/ internal' = internal \cup {w} /\ pc \in {"show", "ready"}
  PROVE  WindowsGoOn
<1>1. win \in [Windows -> WindowPCs]
      /\ internal \subseteq {v \in Windows : win[v] \in {"show", "ready"}}
  BY DEF TypeOK
<1>2. win' \in [Windows -> WindowPCs] /\ \A v \in Windows : v # w => win'[v] = win[v]
  BY <1>1 DEF Turns
<1>3. win'[w] = pc
  BY <1>1 DEF Turns
<1>4. \A v \in Windows : Open(v) => Open(v)'
  BY <1>2, <1>3 DEF Open
<1>5. internal' \subseteq {v \in Windows : win'[v] \in {"show", "ready"}}
  BY <1>1, <1>2, <1>3
<1>. QED  BY <1>2, <1>4, <1>5 DEF WindowsGoOn

\* Such steps keep the types.
LEMMA MovesKeepTypes ==
  ASSUME TypeOK, ServicesGoOn, WindowsGoOn, UNCHANGED news,
         token' \in Services \cup {NoService}, pid' \in Services \cup {NoService},
         events' \in 0 .. MaxEvents, served' \subseteq Windows
  PROVE  TypeOK'
<1>. USE DEF TypeOK, ServicesGoOn, WindowsGoOn, news
<1>1. \A w \in Windows : stream'[w] # NoService => svc'[stream'[w]] = "serving" /\ Open(w)'
  <2> SUFFICES ASSUME NEW w \in Windows, stream[w] # NoService
               PROVE  svc'[stream[w]] = "serving" /\ Open(w)'
    OBVIOUS
  <2>1. stream[w] \in Services /\ svc[stream[w]] = "serving" /\ Open(w)
    OBVIOUS
  <2>. QED  BY <2>1
<1>2. busy' \subseteq internal' \cup {p \in Services : Schedules(p)'}
  OBVIOUS
<1>3. tray' \subseteq {w \in Windows : Open(w)'}
  OBVIOUS
<1>. QED  BY <1>1, <1>2, <1>3

\* A service starts: its token, its PID, rclone, its scheduler.
LEMMA StartKeepsTypes ==
  ASSUME TypeOK, NEW p \in Services, Construct(p) \/ WritePid(p) \/ InstallRclone(p)
  PROVE  TypeOK'
<1>1. /\ token \in Services \cup {NoService} /\ pid \in Services \cup {NoService}
      /\ events \in 0 .. MaxEvents /\ served \subseteq Windows
  BY DEF TypeOK
<1>2. UNCHANGED <<desk, news, events>>
  BY DEF Construct, WritePid, InstallRclone
<1>3. ServicesGoOn
  <2>1. CASE Construct(p)
    BY <2>1, ServiceMoves DEF Construct, ServicePCs
  <2>2. CASE WritePid(p)
    BY <2>2, ServiceMoves DEF WritePid, ServicePCs
  <2>3. CASE InstallRclone(p)
    BY <2>3, ServiceMoves DEF InstallRclone, ServicePCs
  <2>. QED  BY <2>1, <2>2, <2>3
<1>4. token' \in Services \cup {NoService} /\ pid' \in Services \cup {NoService}
  BY <1>1 DEF Construct, WritePid, InstallRclone, files
<1>5. WindowsGoOn
  BY <1>2 DEF TypeOK, WindowsGoOn, desk, Open
<1>. QED  BY <1>1, <1>2, <1>3, <1>4, <1>5, MovesKeepTypes DEF desk

\* A launch at logon, and the button of the settings view.
LEMMA LaunchKeepsTypes ==
  ASSUME TypeOK,
         \/ \E p \in Services : LaunchAtLogon(p)
         \/ \E w \in Windows : StartServiceButton(w)
  PROVE  TypeOK'
<1>1. /\ token \in Services \cup {NoService} /\ pid \in Services \cup {NoService}
      /\ events \in 0 .. MaxEvents /\ served \subseteq Windows
  BY DEF TypeOK
<1>2. UNCHANGED <<files, desk, news>> /\ Event
  BY DEF LaunchAtLogon, StartServiceButton
<1>3. UNCHANGED svc \/ \E p \in Services : Launch(p)
  BY DEF LaunchAtLogon, StartServiceButton, LaunchUnlessRunning
<1>4. ServicesGoOn
  BY <1>3, LaunchMoves
<1>5. events' \in 0 .. MaxEvents
  BY <1>1, <1>2, DesktopAssumption DEF Event, DesktopAssumption
<1>6. WindowsGoOn
  BY <1>2 DEF TypeOK, WindowsGoOn, desk, Open
<1>. QED  BY <1>1, <1>2, <1>4, <1>5, <1>6, MovesKeepTypes DEF desk, files

\* A window opens, asks, launches, waits, decides, listens.
LEMMA OpeningKeepsTypes ==
  ASSUME TypeOK, NEW w \in Windows, OpenWindow(w) \/ WindowOpens(w)
  PROVE  TypeOK'
<1>1. /\ token \in Services \cup {NoService} /\ pid \in Services \cup {NoService}
      /\ events \in 0 .. MaxEvents /\ served \subseteq Windows
  BY DEF TypeOK
<1>2. UNCHANGED <<files, news, events>> /\ served' \subseteq Windows
  BY <1>1 DEF OpenWindow, WindowOpens, Probe, LaunchService, WaitForService, Decide, Listen
<1>3. UNCHANGED svc \/ \E p \in Services : Launch(p)
  BY DEF OpenWindow, WindowOpens, Probe, LaunchService, WaitForService, Decide, Listen,
         LaunchUnlessRunning
<1>4. ServicesGoOn
  BY <1>3, LaunchMoves
<1>5. WindowsGoOn
  <2>. USE DEF WindowPCs
  <2>1. CASE OpenWindow(w)
    BY <2>1, WindowMoves DEF OpenWindow
  <2>2. CASE Probe(w)
    <3>1. \E answered \in Answers : Turns(w, IF answered THEN "decide" ELSE "launch")
      BY <2>2 DEF Probe
    <3>2. Turns(w, "decide") \/ Turns(w, "launch")
      BY <3>1
    <3>. QED  BY <2>2, <3>2, WindowMoves DEF Probe
  <2>3. CASE LaunchService(w)
    <3>1. Turns(w, "wait") \/ Turns(w, "decide")
      BY <2>3 DEF LaunchService
    <3>. QED  BY <2>3, <3>1, WindowMoves DEF LaunchService
  <2>4. CASE WaitForService(w)
    BY <2>4, WindowMoves DEF WaitForService
  <2>5. CASE Decide(w)
    <3>1. UNCHANGED internal \/ internal' = internal \cup {w}
      BY <2>5 DEF Decide
    <3>. QED  BY <2>5, <3>1, WindowMoves DEF Decide
  <2>6. CASE Listen(w)
    BY <2>6, WindowMoves DEF Listen
  <2>. QED  BY <2>1, <2>2, <2>3, <2>4, <2>5, <2>6 DEF WindowOpens
<1>. QED  BY <1>1, <1>2, <1>4, <1>5, MovesKeepTypes DEF files

-----------------------------------------------------------------------------
(* Ends *)

\* A service dies: its streams break and its run ends.
LEMMA DyingKeepsTypes ==
  ASSUME TypeOK, NEW p \in Services, NEW hit \in BOOLEAN, Dies(p, hit),
         Event \/ UNCHANGED events
  PROVE  TypeOK'
<1>. USE DEF TypeOK, Dies, desk, Open
<1>1. svc' \in [Services -> ServicePCs] /\ \A q \in Services : q # p => svc'[q] = svc[q]
  BY DEF Becomes, ServicePCs
<1>2. stream' \in [Windows -> Services \cup {NoService}]
      /\ \A w \in Windows : stream'[w] # NoService => stream'[w] = stream[w] /\ stream[w] # p
  OBVIOUS
<1>3. \A w \in Windows : stream'[w] # NoService => svc'[stream'[w]] = "serving" /\ Open(w)'
  <2> SUFFICES ASSUME NEW w \in Windows, stream'[w] # NoService
               PROVE  svc'[stream'[w]] = "serving" /\ Open(w)
    OBVIOUS
  <2>1. stream'[w] = stream[w] /\ stream[w] # p /\ stream[w] \in Services
    BY <1>2
  <2>2. svc[stream[w]] = "serving" /\ Open(w)
    BY <2>1, <1>2
  <2>. QED  BY <2>1, <2>2, <1>1
<1>4. busy' \subseteq internal' \cup {q \in Services : Schedules(q)'}
  BY <1>1 DEF Schedules
<1>5. missed' \subseteq Windows
  BY DEF Misses
<1>6. events' \in 0 .. MaxEvents
  BY DesktopAssumption DEF Event, DesktopAssumption
<1>7. pid' \in Services \cup {NoService}
  OBVIOUS
<1>. QED  BY <1>1, <1>2, <1>3, <1>4, <1>5, <1>6, <1>7

\* A window goes, with its engines and its tray icon.
LEMMA QuitKeepsTypes ==
  ASSUME TypeOK, NEW w \in Windows, Quit(w)
  PROVE  TypeOK'
<1>. USE DEF TypeOK, Quit, files, Open
<1>1. win' \in [Windows -> WindowPCs] /\ \A v \in Windows : v # w => win'[v] = win[v]
  BY DEF Turns, WindowPCs
<1>2. internal' \subseteq {v \in Windows : win'[v] \in {"show", "ready"}}
  BY <1>1
<1>3. stream' \in [Windows -> Services \cup {NoService}]
      /\ \A v \in Windows : stream'[v] # NoService => v # w /\ stream'[v] = stream[v]
  OBVIOUS
<1>4. \A v \in Windows : stream'[v] # NoService => svc'[stream'[v]] = "serving" /\ Open(v)'
  BY <1>1, <1>3
<1>5. busy' \subseteq internal' \cup {p \in Services : Schedules(p)'}
  <2>1. w \notin Services
    BY DesktopAssumption DEF DesktopAssumption
  <2>. QED  BY <2>1 DEF Schedules
<1>6. mail' \in [Windows -> Seq({"progress", "completed"})]
  <2>1. <<>> \in Seq({"progress", "completed"})
    OBVIOUS
  <2>. QED  BY <2>1
<1>7. tray' \subseteq {v \in Windows : Open(v)'}
  BY <1>1
<1>. QED  BY <1>1, <1>2, <1>3, <1>4, <1>5, <1>6, <1>7

-----------------------------------------------------------------------------
(* The event stream *)

News == {"progress", "completed"}

\* A posted event is the last in the box.
LEMMA PostedIsLast ==
  ASSUME NEW box \in Seq(News), NEW event \in News
  PROVE  /\ Posted(box, event) \in Seq(News)
         /\ Posted(box, event) # <<>>
         /\ Posted(box, event)[Len(Posted(box, event))] = event
<1>1. Append(box, event) \in Seq(News) /\ Append(box, event) # <<>>
      /\ Len(Append(box, event)) = Len(box) + 1 /\ Append(box, event)[Len(box) + 1] = event
  OBVIOUS
<1>. QED  BY <1>1 DEF Posted

\* The last event stays the last until it is taken itself.
LEMMA TailKeepsLast ==
  ASSUME NEW box \in Seq(News), box # <<>>
  PROVE  /\ Tail(box) \in Seq(News)
         /\ Tail(box) = <<>> => box[Len(box)] = Head(box)
         /\ Tail(box) # <<>> => /\ Tail(box)[Len(Tail(box))] = box[Len(box)]
                                /\ Len(box) \in 2 .. Len(box)
<1>1. Len(box) \in Nat /\ Len(box) >= 1 /\ Head(box) = box[1]
  OBVIOUS
<1>2. Tail(box) \in Seq(News) /\ Len(Tail(box)) = Len(box) - 1
  OBVIOUS
<1>3. Tail(box) = <<>> <=> Len(box) = 1
  <2>1. \A s \in Seq(News) : s = <<>> <=> Len(s) = 0
    OBVIOUS
  <2>2. Tail(box) = <<>> <=> Len(Tail(box)) = 0
    BY <1>2, <2>1
  <2>. QED  BY <1>1, <1>2, <2>2
<1>4. CASE Len(box) = 1
  BY <1>1, <1>2, <1>3, <1>4
<1>5. CASE Len(box) # 1
  <2>1. Len(box) >= 2 /\ Len(box) \in 2 .. Len(box)
    <3>1. \A n \in Nat : n >= 1 /\ n # 1 => n >= 2 /\ n \in 2 .. n
      OBVIOUS
    <3>. QED  BY <1>1, <1>5, <3>1
  <2>2. Tail(box)[Len(box) - 1] = box[Len(box)]
    BY <2>1
  <2>3. Tail(box) # <<>>
    BY <1>3, <1>5
  <2>4. Tail(box)[Len(Tail(box))] = box[Len(box)]
    BY <1>2, <2>2
  <2>. QED  BY <1>2, <2>1, <2>3, <2>4
<1>. QED  BY <1>4, <1>5

\* Who hears an event has it last in its box, the others' boxes stay.
LEMMA Broadcasts ==
  ASSUME TypeOK, NEW e, NEW event \in News, Broadcast(e, event)
  PROVE  /\ mail' \in [Windows -> Seq(News)]
         /\ \A w \in Hearers(e) : mail'[w] # <<>> /\ mail'[w][Len(mail'[w])] = event
         /\ \A w \in Windows \ Hearers(e) : mail'[w] = mail[w]
<1>1. mail \in [Windows -> Seq(News)]
  BY DEF TypeOK, News
<1>2. \A w \in Hearers(e) : w \in Windows
  BY DEF Hearers
<1>3. \A w \in Windows : mail'[w] = IF w \in Hearers(e) THEN Posted(mail[w], event) ELSE mail[w]
  BY DEF Broadcast
<1>4. \A w \in Windows : mail'[w] \in Seq(News)
  BY <1>1, <1>3, PostedIsLast
<1>5. mail' \in [Windows -> Seq(News)]
  BY <1>4 DEF Broadcast
<1>6. \A w \in Windows : /\ Posted(mail[w], event) # <<>>
                        /\ Posted(mail[w], event)[Len(Posted(mail[w], event))] = event
  BY <1>1, PostedIsLast
<1>7. \A w \in Hearers(e) : mail'[w] = Posted(mail[w], event)
  BY <1>2, <1>3
<1>8. \A w \in Hearers(e) : mail'[w] # <<>> /\ mail'[w][Len(mail'[w])] = event
  BY <1>2, <1>6, <1>7
<1>. QED  BY <1>3, <1>5, <1>8

\* Connecting, falling silent and handling an event.
LEMMA StreamKeepsTypes ==
  ASSUME TypeOK, NEW w \in Windows, Connect(w) \/ FallSilent(w) \/ HandleEvent(w)
  PROVE  TypeOK'
<1>1. CASE Connect(w)
  <2>. USE DEF TypeOK, Connect, files, desk
  <2>1. PICK p \in Services : svc[p] = "serving" /\ stream' = [stream EXCEPT ![w] = p]
    BY <1>1
  <2>2. stream' \in [Windows -> Services \cup {NoService}]
    BY <2>1
  <2>3. \A v \in Windows : stream'[v] # NoService => svc'[stream'[v]] = "serving" /\ Open(v)'
    BY <1>1, <2>1 DEF Open
  <2>. QED  BY <1>1, <2>2, <2>3 DEF Open, Schedules
<1>2. CASE FallSilent(w)
  <2>. USE DEF TypeOK, FallSilent, files, desk
  <2>1. stream' \in [Windows -> Services \cup {NoService}]
    BY <1>2
  <2>2. \A v \in Windows : stream'[v] # NoService => svc'[stream'[v]] = "serving" /\ Open(v)'
    BY <1>2 DEF Open
  <2>. QED  BY <1>2, <2>1, <2>2 DEF Open, Schedules
<1>3. CASE HandleEvent(w)
  <2>. USE DEF TypeOK, HandleEvent, files, desk
  <2>1. Tail(mail[w]) \in Seq(News)
    BY <1>3, TailKeepsLast DEF News
  <2>2. mail' \in [Windows -> Seq({"progress", "completed"})]
    BY <1>3, <2>1 DEF News
  <2>3. tray' \subseteq {v \in Windows : Open(v)'} /\ missed' \subseteq Windows
    BY <1>3 DEF Open
  <2>. QED  BY <1>3, <2>2, <2>3 DEF Open, Schedules
<1>. QED  BY <1>1, <1>2, <1>3

\* A run begins, goes on and ends.
LEMMA RunsKeepTypes ==
  ASSUME TypeOK, NEW e \in Engines, BeginRun(e) \/ ReportProgress(e) \/ EndRun(e)
  PROVE  TypeOK'
<1>1. mail' \in [Windows -> Seq({"progress", "completed"})]
  BY Broadcasts DEF BeginRun, ReportProgress, EndRun, News
<1>2. UNCHANGED <<svc, files, desk, stream, tray, events>>
  BY DEF BeginRun, ReportProgress, EndRun
<1>3. missed' \subseteq Windows
  BY DEF TypeOK, BeginRun, ReportProgress, EndRun, Misses
<1>4. runs' \in 0 .. MaxRuns
  BY DesktopAssumption DEF TypeOK, BeginRun, ReportProgress, EndRun, DesktopAssumption
<1>5. busy' \subseteq internal \cup {p \in Services : Schedules(p)}
  BY DEF TypeOK, BeginRun, ReportProgress, EndRun, Works, Engines
<1>. QED  BY <1>1, <1>2, <1>3, <1>4, <1>5 DEF TypeOK, files, desk, Open, Schedules

-----------------------------------------------------------------------------
(* Every step keeps the types *)

LEMMA BindKeepsTypes ==
  ASSUME TypeOK, NEW p \in Services, Bind(p)
  PROVE  TypeOK'
<1>1. CASE Dies(p, FALSE)
  BY <1>1, DyingKeepsTypes DEF Bind
<1>2. CASE ~Dies(p, FALSE)
  <2>1. Becomes(p, "serving") /\ UNCHANGED <<files, desk, news>> /\ svc[p] = "scheduling"
    BY <1>2 DEF Bind
  <2>2. ServicesGoOn
    BY <2>1, ServiceMoves DEF ServicePCs
  <2>3. WindowsGoOn
    BY <2>1 DEF TypeOK, WindowsGoOn, desk, Open
  <2>4. events' = events
    BY DEF Bind
  <2>. QED  BY <2>1, <2>2, <2>3, <2>4, MovesKeepTypes DEF TypeOK, files, desk
<1>. QED  BY <1>1, <1>2

LEMMA NextKeepsTypes ==
  ASSUME TypeOK, [Next]_vars
  PROVE  TypeOK'
<1>1. ASSUME NEW p \in Services, ServiceStarts(p)
      PROVE  TypeOK'
  BY <1>1, StartKeepsTypes, BindKeepsTypes DEF ServiceStarts
<1>2. ASSUME NEW p \in Services, StopService(p) \/ KillService(p)
      PROVE  TypeOK'
  BY <1>2, DyingKeepsTypes DEF StopService, KillService
<1>3. ASSUME NEW p \in Services, LaunchAtLogon(p)
      PROVE  TypeOK'
  BY <1>3, LaunchKeepsTypes
<1>4. ASSUME NEW w \in Windows, StartServiceButton(w)
      PROVE  TypeOK'
  BY <1>4, LaunchKeepsTypes
<1>5. ASSUME NEW w \in Windows, OpenWindow(w) \/ WindowOpens(w)
      PROVE  TypeOK'
  BY <1>5, OpeningKeepsTypes
<1>6. ASSUME NEW w \in Windows, Quit(w)
      PROVE  TypeOK'
  BY <1>6, QuitKeepsTypes
<1>7. ASSUME NEW w \in Windows, Connect(w) \/ FallSilent(w) \/ HandleEvent(w)
      PROVE  TypeOK'
  BY <1>7, StreamKeepsTypes
<1>8. ASSUME NEW e \in Engines, BeginRun(e) \/ ReportProgress(e) \/ EndRun(e)
      PROVE  TypeOK'
  BY <1>8, RunsKeepTypes
<1>9. CASE UNCHANGED vars
  BY <1>9 DEF TypeOK, vars, Open, Schedules
<1>. QED  BY <1>1, <1>2, <1>3, <1>4, <1>5, <1>6, <1>7, <1>8, <1>9 DEF Next

-----------------------------------------------------------------------------
(* Somebody runs the engines *)

\* A window that decided for the service was answered by one.
LEMMA DecideLeavesNobodyIdle ==
  ASSUME TypeOK, NoIdleWindow, NEW w \in Windows, Decide(w)
  PROVE  NoIdleWindow'
<1>1. win' = [win EXCEPT ![w] = "show"] /\ win \in [Windows -> WindowPCs]
  BY DEF Decide, Turns, TypeOK
<1>2. internal \subseteq internal' /\ served \subseteq served'
  BY DEF Decide
<1>3. w \in internal' \cup served'
  <2>1. PICK answered \in Answers :
          internal' = IF answered THEN internal ELSE internal \cup {w}
    BY DEF Decide
  <2>2. CASE Reachable = {}
    <3>1. ~answered
      BY <2>1, <2>2 DEF Answers
    <3>. QED  BY <2>1, <3>1
  <2>3. CASE Reachable # {}
    BY <2>3 DEF Decide
  <2>. QED  BY <2>2, <2>3
<1>. QED  BY <1>1, <1>2, <1>3 DEF NoIdleWindow

LEMMA NobodyIdleStays ==
  ASSUME TypeOK, NoIdleWindow, [Next]_vars
  PROVE  NoIdleWindow'
<1>. USE DEF NoIdleWindow
<1>1. ASSUME NEW w \in Windows, Decide(w)
      PROVE  NoIdleWindow'
  BY <1>1, DecideLeavesNobodyIdle
<1>2. ASSUME NEW w \in Windows, Quit(w)
      PROVE  NoIdleWindow'
  <2>1. \A v \in Windows : v # w => win'[v] = win[v]
    BY <1>2 DEF Quit, Turns, TypeOK
  <2>2. win'[w] = "gone"
    BY <1>2 DEF Quit, Turns, TypeOK
  <2>. QED  BY <1>2, <2>1, <2>2 DEF Quit
<1>3. ASSUME NEW w \in Windows, UNCHANGED <<internal, served>>,
             \E pc \in {"probe", "decide", "launch", "wait"} : Turns(w, pc)
      PROVE  NoIdleWindow'
  BY <1>3 DEF Turns, TypeOK
<1>4. ASSUME NEW w \in Windows, OpenWindow(w) \/ Probe(w) \/ LaunchService(w) \/ WaitForService(w)
      PROVE  NoIdleWindow'
  BY <1>3, <1>4 DEF OpenWindow, Probe, LaunchService, WaitForService
<1>5. ASSUME NEW w \in Windows, Listen(w)
      PROVE  NoIdleWindow'
  BY <1>5 DEF Listen, Turns, TypeOK
<1>6. CASE UNCHANGED desk
  BY <1>6 DEF desk
<1>7. ASSUME NEW p \in Services, \/ ServiceStarts(p)
                                 \/ StopService(p) \/ KillService(p) \/ LaunchAtLogon(p)
      PROVE  UNCHANGED desk
  BY <1>7 DEF ServiceStarts, Construct, WritePid, InstallRclone, Bind, StopService,
              KillService, LaunchAtLogon, Dies
<1>8. ASSUME NEW w \in Windows, \/ StartServiceButton(w) \/ Connect(w)
                                \/ FallSilent(w) \/ HandleEvent(w)
      PROVE  UNCHANGED desk
  BY <1>8 DEF StartServiceButton, Connect, FallSilent, HandleEvent
<1>9. ASSUME NEW e \in Engines, BeginRun(e) \/ ReportProgress(e) \/ EndRun(e)
      PROVE  UNCHANGED desk
  BY <1>9 DEF BeginRun, ReportProgress, EndRun
<1>10. CASE UNCHANGED vars
  BY <1>6, <1>10 DEF vars, desk
<1>. QED  BY <1>1, <1>2, <1>4, <1>5, <1>6, <1>7, <1>8, <1>9, <1>10 DEF Next, WindowOpens

-----------------------------------------------------------------------------
(* What a window shows *)

\* Whoever looks busy shows it or has progress in its box.
LEMMA BusyLooks ==
  ASSUME TypeOK, NEW w \in Windows, LooksBusy(w)
  PROVE  w \in tray \/ InMail(w, "progress")
<1>1. mail[w] \in Seq(News)
  BY DEF TypeOK, News
<1>2. CASE mail[w] = <<>>
  BY <1>2 DEF LooksBusy
<1>3. CASE mail[w] # <<>>
  <2>1. Len(mail[w]) \in DOMAIN mail[w]
    BY <1>1, <1>3
  <2>2. mail[w][Len(mail[w])] = "progress"
    BY <1>3 DEF LooksBusy
  <2>. QED  BY <2>1, <2>2 DEF InMail
<1>. QED  BY <1>2, <1>3

\* Steps that leave boxes and icons alone, and runs and gaps at least where they are.
LEMMA NothingNew ==
  ASSUME BusyIsHeard, UNCHANGED <<mail, tray>>, busy \subseteq busy', missed \subseteq missed'
  PROVE  BusyIsHeard'
BY DEF BusyIsHeard, LooksBusy

\* The run of a service ends with it: those who look busy and will not be told miss it.
LEMMA DyingIsMissed ==
  ASSUME TypeOK, BusyIsHeard, NEW p \in Services, NEW hit, Dies(p, hit)
  PROVE  BusyIsHeard'
<1>1. UNCHANGED <<mail, tray>> /\ busy' = busy \ {p}
  BY DEF Dies
<1>2. CASE p \notin busy
  <2>1. busy' = busy /\ missed' = missed
    BY <1>1, <1>2 DEF Dies
  <2>. QED  BY <1>1, <2>1, NothingNew
<1>3. CASE p \in busy
  <2>1. missed' = missed \cup {w \in Windows : w \in tray \/ InMail(w, "progress")}
    BY <1>3 DEF Dies, Misses
  <2>2. \A w \in Windows : LooksBusy(w)' => LooksBusy(w)
    BY <1>1 DEF LooksBusy
  <2>3. \A w \in Windows : LooksBusy(w) => w \in missed'
    BY <2>1, BusyLooks
  <2>. QED  BY <2>2, <2>3 DEF BusyIsHeard
<1>. QED  BY <1>2, <1>3

\* The windows that stay had no news of the engines of the one that goes.
LEMMA QuitIsNoNews ==
  ASSUME TypeOK, BusyIsHeard, NEW w \in Windows, Quit(w)
  PROVE  BusyIsHeard'
<1>1. mail \in [Windows -> Seq(News)]
  BY DEF TypeOK, News
<1>2. \A v \in Windows : v # w => mail'[v] = mail[v]
  BY <1>1 DEF Quit
<1>3. mail'[w] = <<>> /\ w \notin tray'
  BY <1>1 DEF Quit
<1>4. ~LooksBusy(w)'
  BY <1>3 DEF LooksBusy
<1>5. ASSUME NEW v \in Windows, LooksBusy(v)'
      PROVE  v \in busy' \/ busy' \cap Services # {} \/ v \in missed'
  <2>1. v # w
    BY <1>4, <1>5
  <2>2. LooksBusy(v)
    BY <1>2, <1>5, <2>1 DEF LooksBusy, Quit
  <2>3. v \in busy \/ busy \cap Services # {} \/ v \in missed
    BY <2>2 DEF BusyIsHeard
  <2>4. w \notin Services
    BY DesktopAssumption DEF DesktopAssumption
  <2>. QED  BY <2>1, <2>3, <2>4 DEF Quit
<1>. QED  BY <1>5 DEF BusyIsHeard

\* Handling an event shows what it said: what comes last is the same before and after.
LEMMA HandlingIsNoNews ==
  ASSUME TypeOK, BusyIsHeard, NEW w \in Windows, HandleEvent(w)
  PROVE  BusyIsHeard'
<1>1. mail \in [Windows -> Seq(News)] /\ mail[w] # <<>>
  BY DEF TypeOK, News, HandleEvent
<1>2. \A v \in Windows : v # w => mail'[v] = mail[v]
  BY <1>1 DEF HandleEvent
<1>3. mail'[w] = Tail(mail[w])
  BY <1>1 DEF HandleEvent
<1>4. UNCHANGED busy
  BY DEF HandleEvent
<1>5. \A v \in Windows : v # w => /\ v \in tray' <=> v \in tray
                                  /\ v \in missed' <=> v \in missed
  BY DEF HandleEvent
<1>6. ASSUME NEW v \in Windows, v # w, LooksBusy(v)'
      PROVE  v \in busy' \/ busy' \cap Services # {} \/ v \in missed'
  <2>1. LooksBusy(v)
    BY <1>2, <1>5, <1>6 DEF LooksBusy
  <2>. QED  BY <1>4, <1>5, <1>6, <2>1 DEF BusyIsHeard
<1>7. ASSUME LooksBusy(w)'
      PROVE  LooksBusy(w) /\ UNCHANGED missed
  <2>1. Head(mail[w]) = "progress" => w \in tray' /\ UNCHANGED missed
    BY DEF HandleEvent
  <2>2. Head(mail[w]) # "progress" =>
          /\ w \notin tray'
          /\ (\E i \in 2 .. Len(mail[w]) : mail[w][i] = "progress") => UNCHANGED missed
    BY DEF HandleEvent
  <2>3. CASE Tail(mail[w]) = <<>>
    <3>1. w \in tray'
      BY <1>3, <1>7, <2>3 DEF LooksBusy
    <3>2. Head(mail[w]) = "progress" /\ UNCHANGED missed
      BY <2>1, <2>2, <3>1
    <3>3. mail[w][Len(mail[w])] = Head(mail[w])
      BY <1>1, <2>3, TailKeepsLast
    <3>. QED  BY <1>1, <3>2, <3>3 DEF LooksBusy
  <2>4. CASE Tail(mail[w]) # <<>>
    <3>1. Tail(mail[w])[Len(Tail(mail[w]))] = "progress"
      BY <1>3, <1>7, <2>4 DEF LooksBusy
    <3>2. mail[w][Len(mail[w])] = "progress" /\ Len(mail[w]) \in 2 .. Len(mail[w])
      BY <1>1, <2>4, <3>1, TailKeepsLast
    <3>3. UNCHANGED missed
      BY <2>1, <2>2, <3>2
    <3>. QED  BY <1>1, <3>2, <3>3 DEF LooksBusy
  <2>. QED  BY <2>3, <2>4
<1>8. LooksBusy(w)' => w \in busy' \/ busy' \cap Services # {} \/ w \in missed'
  BY <1>4, <1>7 DEF BusyIsHeard
<1>. QED  BY <1>6, <1>8 DEF BusyIsHeard

\* Progress is heard of a run that goes on, by its own window or from a service.
LEMMA ProgressIsJustified ==
  ASSUME TypeOK, BusyIsHeard, NEW e \in Engines, BeginRun(e) \/ ReportProgress(e)
  PROVE  BusyIsHeard'
<1>1. /\ \A w \in Windows \ Hearers(e) : mail'[w] = mail[w]
      /\ UNCHANGED <<tray, missed>> /\ busy \subseteq busy' /\ e \in busy'
  BY Broadcasts DEF BeginRun, ReportProgress, News
<1>2. ASSUME NEW w \in Hearers(e)
      PROVE  w \in busy' \/ busy' \cap Services # {}
  <2>1. e = w \/ (e = stream[w] /\ stream[w] \in Services \cup {NoService})
    BY DEF Hearers, TypeOK
  <2>2. e = w \/ e \in Services
    BY <2>1, DesktopAssumption DEF Engines, DesktopAssumption
  <2>. QED  BY <1>1, <2>2
<1>3. ASSUME NEW w \in Windows \ Hearers(e), LooksBusy(w)'
      PROVE  w \in busy' \/ busy' \cap Services # {} \/ w \in missed'
  <2>1. LooksBusy(w)
    BY <1>1, <1>3 DEF LooksBusy
  <2>. QED  BY <1>1, <2>1 DEF BusyIsHeard
<1>. QED  BY <1>2, <1>3 DEF BusyIsHeard

\* A completion is heard, or missed by whoever looks busy.
LEMMA CompletionIsHeardOrMissed ==
  ASSUME TypeOK, BusyIsHeard, NEW e \in Engines, EndRun(e)
  PROVE  BusyIsHeard'
<1>1. /\ \A w \in Hearers(e) : mail'[w] # <<>> /\ mail'[w][Len(mail'[w])] = "completed"
      /\ \A w \in Windows \ Hearers(e) : mail'[w] = mail[w]
      /\ UNCHANGED tray
  BY Broadcasts DEF EndRun, News
<1>2. \A w \in Hearers(e) : ~LooksBusy(w)'
  BY <1>1 DEF LooksBusy
<1>3. ASSUME NEW w \in Windows \ Hearers(e), LooksBusy(w)'
      PROVE  w \in missed'
  <2>1. LooksBusy(w)
    BY <1>1, <1>3 DEF LooksBusy
  <2>2. w \in tray \/ InMail(w, "progress")
    BY <2>1, BusyLooks
  <2>. QED  BY <2>2 DEF EndRun, Misses
<1>. QED  BY <1>2, <1>3 DEF BusyIsHeard

LEMMA BusyStaysHeard ==
  ASSUME TypeOK, BusyIsHeard, [Next]_vars
  PROVE  BusyIsHeard'
<1>1. CASE UNCHANGED news
  BY <1>1, NothingNew DEF news
<1>2. ASSUME NEW p \in Services, ServiceStarts(p)
      PROVE  BusyIsHeard'
  <2>1. UNCHANGED news \/ Dies(p, FALSE)
    BY <1>2 DEF ServiceStarts, Construct, WritePid, InstallRclone, Bind
  <2>. QED  BY <1>1, <2>1, DyingIsMissed
<1>3. ASSUME NEW p \in Services, StopService(p) \/ KillService(p)
      PROVE  BusyIsHeard'
  BY <1>3, DyingIsMissed DEF StopService, KillService
<1>4. ASSUME NEW p \in Services, LaunchAtLogon(p)
      PROVE  UNCHANGED news
  BY <1>4 DEF LaunchAtLogon
<1>5. ASSUME NEW w \in Windows, OpenWindow(w) \/ WindowOpens(w) \/ StartServiceButton(w)
      PROVE  UNCHANGED news
  BY <1>5 DEF OpenWindow, WindowOpens, StartServiceButton, Probe, LaunchService,
              WaitForService, Decide, Listen
<1>6. ASSUME NEW w \in Windows, Quit(w)
      PROVE  BusyIsHeard'
  BY <1>6, QuitIsNoNews
<1>7. ASSUME NEW w \in Windows, Connect(w) \/ FallSilent(w)
      PROVE  BusyIsHeard'
  BY <1>7, NothingNew DEF Connect, FallSilent
<1>8. ASSUME NEW w \in Windows, HandleEvent(w)
      PROVE  BusyIsHeard'
  BY <1>8, HandlingIsNoNews
<1>9. ASSUME NEW e \in Engines, BeginRun(e) \/ ReportProgress(e) \/ EndRun(e)
      PROVE  BusyIsHeard'
  BY <1>9, ProgressIsJustified, CompletionIsHeardOrMissed
<1>10. CASE UNCHANGED vars
  BY <1>1, <1>10 DEF vars, news
<1>. QED  BY <1>1, <1>2, <1>3, <1>4, <1>5, <1>6, <1>7, <1>8, <1>9, <1>10 DEF Next

-----------------------------------------------------------------------------
(* Theorems *)

LEMMA InitInv == Init => Inv
<1>. SUFFICES ASSUME Init
              PROVE  Inv
  OBVIOUS
<1>1. TypeOK
  <2>1. <<>> \in Seq({"progress", "completed"})
    OBVIOUS
  <2>2. mail \in [Windows -> Seq({"progress", "completed"})]
    BY <2>1 DEF Init
  <2>. QED  BY <2>2, DesktopAssumption DEF Init, TypeOK, ServicePCs, WindowPCs, DesktopAssumption
<1>2. NoIdleWindow
  BY DEF Init, NoIdleWindow
<1>3. BusyIsHeard
  BY DEF Init, BusyIsHeard, LooksBusy
<1>. QED  BY <1>1, <1>2, <1>3 DEF Inv

LEMMA NextKeepsInv == Inv /\ [Next]_vars => Inv'
BY NextKeepsTypes, NobodyIdleStays, BusyStaysHeard DEF Inv

\* Every reachable state of the processes is well typed: a stream leads to a service that
\* serves, runs belong to engines that work, an icon to a window that is open.
THEOREM TypeCorrect == Spec => []TypeOK
<1>1. Inv => TypeOK
  BY DEF Inv
<1>. QED  BY <1>1, InitInv, NextKeepsInv, PTL DEF Spec

\* However many services are launched, killed and late, a window that shows itself has engines
\* of its own or could really have asked a service when it decided (app.py:114-117).
THEOREM SomebodyWorks == Spec => []NoIdleWindow
<1>1. Inv => NoIdleWindow
  BY DEF Inv
<1>. QED  BY <1>1, InitInv, NextKeepsInv, PTL DEF Spec

\* A tray icon says "syncing" of a run that goes on, with the completion on its way, or after
\* one that fell into a gap of the stream, for any number of windows and services
\* (ipc_client.py:180-189).
THEOREM TrayTrue == Spec => []TrayJustified
<1>1. ASSUME Inv
      PROVE  TrayJustified
  <2>. SUFFICES ASSUME NEW w \in tray, ~InMail(w, "completed")
                PROVE  busy # {} \/ w \in missed
    BY DEF TrayJustified
  <2>1. w \in Windows /\ mail[w] \in Seq(News)
    BY <1>1 DEF Inv, TypeOK, News
  <2>2. LooksBusy(w)
    <3>1. CASE mail[w] = <<>>
      BY <3>1 DEF LooksBusy
    <3>2. CASE mail[w] # <<>>
      <4>1. Len(mail[w]) \in DOMAIN mail[w]
        BY <2>1, <3>2
      <4>2. mail[w][Len(mail[w])] \in News
        BY <2>1, <4>1
      <4>3. mail[w][Len(mail[w])] = "progress"
        BY <4>1, <4>2 DEF InMail, News
      <4>. QED  BY <3>2, <4>3 DEF LooksBusy
    <3>. QED  BY <3>1, <3>2
  <2>. QED  BY <1>1, <2>1, <2>2 DEF Inv, BusyIsHeard
<1>. QED  BY <1>1, InitInv, NextKeepsInv, PTL DEF Spec

=============================================================================
