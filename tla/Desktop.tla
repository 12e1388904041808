------------------------------ MODULE Desktop ------------------------------
(* The processes on one computer and how they find each other.  A background service is   *)
(* launched by a window or at logon; while it starts it writes its IPC token and its PID   *)
(* into files anybody can overwrite, and binds the one IPC port last.  A window that opens *)
(* asks whether a service answers, launches one, waits a little, asks again and then lets  *)
(* the service do the work or runs engines of its own for as long as it lives.  A thread   *)
(* of the window keeps an event stream to whatever service it can connect to; progress and *)
(* completion of runs reach the tray icon through it.                                      *)
EXTENDS Naturals, Sequences, FiniteSets

CONSTANTS
  Services,    \* processes of the service, each used once
  Windows,     \* processes of the desktop application, each used once
  NoService,   \* no process
  SharedPort,  \* whether a second bind of the port works (SO_REUSEADDR on Windows)
  MaxRuns,     \* bound: runs of the engines
  MaxEvents    \* bound: kills, stops, logons and requests to start the service

ASSUME DesktopAssumption ==
  /\ NoService \notin Services \cup Windows
  /\ Services \cap Windows = {}
  /\ SharedPort \in BOOLEAN
  /\ MaxRuns \in Nat /\ MaxEvents \in Nat

Engines == Services \cup Windows
ServicePCs == {"none", "launched", "constructed", "installing", "scheduling", "serving", "gone"}
WindowPCs == {"none", "probe", "launch", "wait", "decide", "show", "ready", "gone"}

VARIABLES
  svc,       \* where each service process is
  token,     \* the process whose token is in the token file
  pid,       \* the process whose PID is in the PID file
  win,       \* where each window is
  internal,  \* windows with engines of their own
  stream,    \* the service each window's event stream is connected to
  busy,      \* engines with a run in progress
  mail,      \* events on their way to each window
  tray,      \* windows whose tray icon says that a sync is in progress
  runs, events,  \* how many there were
  served,    \* history: windows a service could have answered when they decided
  missed     \* history: windows that did not get the completion of a run they heard of

vars == <<svc, token, pid, win, internal, stream, busy, mail, tray, runs, events, served,
          missed>>
desk == <<win, internal, served>>
news == <<stream, busy, mail, tray, runs, missed>>
files == <<token, pid>>

\* A process that works or is on its way to it.
Living(p) == svc[p] \notin {"none", "gone"}
Schedules(p) == svc[p] \in {"scheduling", "serving"}
Open(w) == win[w] \notin {"none", "gone"}

TypeOK ==
  /\ svc \in [Services -> ServicePCs] /\ win \in [Windows -> WindowPCs]
  /\ token \in Services \cup {NoService} /\ pid \in Services \cup {NoService}
  /\ internal \subseteq {w \in Windows : win[w] \in {"show", "ready"}}
  /\ stream \in [Windows -> Services \cup {NoService}]
  /\ \A w \in Windows : stream[w] # NoService => svc[stream[w]] = "serving" /\ Open(w)
  /\ busy \subseteq internal \cup {p \in Services : Schedules(p)}
  /\ mail \in [Windows -> Seq({"progress", "completed"})]
  /\ tray \subseteq {w \in Windows : Open(w)}
  /\ runs \in 0 .. MaxRuns /\ events \in 0 .. MaxEvents
  /\ served \subseteq Windows /\ missed \subseteq Windows

Event == events < MaxEvents /\ events' = events + 1

-----------------------------------------------------------------------------
(* Events: who is connected gets them; those of a window's own engines need no stream. *)

Hearers(e) == {w \in Windows : e = w \/ stream[w] = e}

\* Progress that follows progress says nothing new.
Posted(box, event) == IF box # <<>> /\ box[Len(box)] = event THEN box ELSE Append(box, event)

Broadcast(e, event) ==
  mail' = [w \in Windows |-> IF w \in Hearers(e) THEN Posted(mail[w], event) ELSE mail[w]]

InMail(w, event) == \E i \in DOMAIN mail[w] : mail[w][i] = event

\* What runs without an end for those who will not be told about it.
Misses(heard) ==
  missed' = missed \cup {w \in Windows \ heard : w \in tray \/ InMail(w, "progress")}

-----------------------------------------------------------------------------
(* The service process. *)

Becomes(p, pc) == svc' = [svc EXCEPT ![p] = pc]

\* Popen of a process of the service.
Launch(p) == svc[p] = "none" /\ Becomes(p, "launched")

\* ServiceDaemon.__init__: a new token, whatever the file holds.
Construct(p) ==
  /\ svc[p] = "launched"
  /\ token' = p
  /\ Becomes(p, "constructed")
  /\ UNCHANGED <<pid, desk, news, events>>

WritePid(p) ==
  /\ svc[p] = "constructed"
  /\ pid' = p
  /\ Becomes(p, "installing")
  /\ UNCHANGED <<token, desk, news, events>>

\* rclone is there, or is downloaded now, or that failed; then the scheduler starts.
InstallRclone(p) ==
  /\ svc[p] = "installing"
  /\ Becomes(p, "scheduling")
  /\ UNCHANGED <<files, desk, news, events>>

\* What is left when a process is gone: its files stay, its streams break, its run ends untold.
Dies(p, hit) ==
  /\ Becomes(p, "gone")
  /\ stream' = [w \in Windows |-> IF stream[w] = p THEN NoService ELSE stream[w]]
  /\ busy' = busy \ {p}
  /\ IF p \in busy THEN Misses({}) ELSE UNCHANGED missed
  /\ pid' = IF hit THEN NoService ELSE pid
  /\ UNCHANGED <<token, desk, mail, tray, runs>>

PortTaken(p) == \E q \in Services \ {p} : svc[q] = "serving"

\* (mutant) the service goes on without its port
BindOrShrug(p) ==
  /\ svc[p] = "scheduling"
  /\ IF PortTaken(p) /\ ~SharedPort THEN UNCHANGED svc ELSE Becomes(p, "serving")
  /\ UNCHANGED <<files, desk, news, events>>

\* IPCServer.start; a failed bind ends the process, and nothing cleans up.
Bind(p) ==
  /\ svc[p] = "scheduling"
  /\ IF PortTaken(p) /\ ~SharedPort THEN Dies(p, FALSE)
     ELSE Becomes(p, "serving") /\ UNCHANGED <<files, desk, news>>
  /\ UNCHANGED events

\* ServiceDaemon.stop removes the PID file, whoever's PID is in it.
StopService(p) ==
  /\ svc[p] = "serving" /\ Event
  /\ Dies(p, TRUE)

KillService(p) ==
  /\ Living(p) /\ Event
  /\ Dies(p, FALSE)

\* The Run key of the registry.
LaunchAtLogon(p) ==
  /\ Event
  /\ Launch(p)
  /\ UNCHANGED <<files, desk, news>>

-----------------------------------------------------------------------------
(* The window. *)

Turns(w, pc) == win' = [win EXCEPT ![w] = pc]

\* A ping gets through to the process that serves with the token of the file; with a shared
\* port it may reach another one, and any answer may come too late.
Reachable == {p \in Services : svc[p] = "serving" /\ token = p}
Answers == IF Reachable = {} THEN {FALSE} ELSE BOOLEAN

\* The single-instance check finds windows that listen.
OpenWindow(w) ==
  /\ win[w] = "none" /\ \A v \in Windows : win[v] # "ready"
  /\ Turns(w, "probe")
  /\ UNCHANGED <<svc, files, internal, served, news, events>>

Probe(w) ==
  /\ win[w] = "probe"
  /\ \E answered \in Answers : Turns(w, IF answered THEN "decide" ELSE "launch")
  /\ UNCHANGED <<svc, files, internal, served, news, events>>

\* Whether the process of the PID file runs; the PID of one that is gone may be that of
\* another process of r2sync now.
ProcessRuns ==
  CASE pid = NoService -> {FALSE} [] pid # NoService -> IF Living(pid) THEN {TRUE} ELSE BOOLEAN

\* launch_background_service, where it succeeds.
LaunchUnlessRunning ==
  \/ TRUE \in ProcessRuns /\ UNCHANGED svc
  \/ FALSE \in ProcessRuns /\ \E p \in Services : Launch(p)

LaunchService(w) ==
  /\ win[w] = "launch"
  /\ \/ LaunchUnlessRunning /\ Turns(w, "wait")
     \/ FALSE \in ProcessRuns /\ Turns(w, "decide") /\ UNCHANGED svc
  /\ UNCHANGED <<files, internal, served, news, events>>

\* An answer, or the deadline.
WaitForService(w) ==
  /\ win[w] = "wait"
  /\ Turns(w, "decide")
  /\ UNCHANGED <<svc, files, internal, served, news, events>>

\* (mutant) whoever waited takes it that the service is up
DecideAfterLaunch(w) ==
  /\ win[w] = "decide"
  /\ Turns(w, "show")
  /\ \E answered \in BOOLEAN : internal' = IF answered THEN internal ELSE internal \cup {w}
  /\ served' = IF Reachable # {} THEN served \cup {w} ELSE served
  /\ UNCHANGED <<svc, files, news, events>>

Decide(w) ==
  /\ win[w] = "decide"
  /\ Turns(w, "show")
  /\ \E answered \in Answers : internal' = IF answered THEN internal ELSE internal \cup {w}
  /\ served' = IF Reachable # {} THEN served \cup {w} ELSE served
  /\ UNCHANGED <<svc, files, news, events>>

\* From now on later instances find this one.
Listen(w) ==
  /\ win[w] = "show"
  /\ Turns(w, "ready")
  /\ UNCHANGED <<svc, files, internal, served, news, events>>

\* The button of the settings view.
StartServiceButton(w) ==
  /\ win[w] = "ready" /\ Event
  /\ LaunchUnlessRunning
  /\ UNCHANGED <<files, desk, news>>

\* (mutant) the window goes and its engines are not stopped
QuitLeavesEngines(w) ==
  /\ win[w] = "ready"
  /\ Turns(w, "gone")
  /\ stream' = [stream EXCEPT ![w] = NoService]
  /\ tray' = tray \ {w} /\ missed' = missed \ {w}
  /\ mail' = [mail EXCEPT ![w] = <<>>]
  /\ UNCHANGED <<svc, files, internal, served, busy, runs, events>>

\* Closing hides the window; quitting, like a kill, takes its engines with it.
Quit(w) ==
  /\ Open(w)
  /\ Turns(w, "gone")
  /\ internal' = internal \ {w} /\ busy' = busy \ {w}
  /\ stream' = [stream EXCEPT ![w] = NoService]
  /\ tray' = tray \ {w} /\ missed' = missed \ {w}
  /\ mail' = [mail EXCEPT ![w] = <<>>]
  /\ UNCHANGED <<svc, files, served, runs, events>>

-----------------------------------------------------------------------------
(* The event stream: one thread per window that connects, reads, pauses and retries. *)

\* (mutant) only a client with the right token is kept
ConnectAuthorized(w) ==
  /\ win[w] \in {"show", "ready"} /\ stream[w] = NoService
  /\ \E p \in Reachable : stream' = [stream EXCEPT ![w] = p]
  /\ UNCHANGED <<svc, files, desk, busy, mail, tray, runs, missed, events>>

\* The token only has to be there: a client that is refused stays registered.
Connect(w) ==
  /\ win[w] \in {"show", "ready"} /\ stream[w] = NoService /\ token # NoService
  /\ \E p \in Services : svc[p] = "serving" /\ stream' = [stream EXCEPT ![w] = p]
  /\ UNCHANGED <<svc, files, desk, busy, mail, tray, runs, missed, events>>

\* Five seconds without an event: the reader cannot be used any more.
FallSilent(w) ==
  /\ stream[w] # NoService
  /\ stream' = [stream EXCEPT ![w] = NoService]
  /\ UNCHANGED <<svc, files, desk, busy, mail, tray, runs, missed, events>>

HandleEvent(w) ==
  /\ Open(w) /\ mail[w] # <<>>
  /\ mail' = [mail EXCEPT ![w] = Tail(@)]
  /\ IF Head(mail[w]) = "progress" THEN tray' = tray \cup {w} /\ UNCHANGED missed
     ELSE /\ tray' = tray \ {w}
          /\ missed' = IF \E i \in 2 .. Len(mail[w]) : mail[w][i] = "progress"
                       THEN missed ELSE missed \ {w}
  /\ UNCHANGED <<svc, files, desk, stream, busy, runs, events>>

-----------------------------------------------------------------------------
(* Runs of the engines: due by a schedule, or asked for by a window. *)

Works(e) == e \in internal \/ (e \in Services /\ Schedules(e))

BeginRun(e) ==
  /\ Works(e) /\ e \notin busy /\ runs < MaxRuns
  /\ runs' = runs + 1
  /\ busy' = busy \cup {e}
  /\ Broadcast(e, "progress")
  /\ UNCHANGED <<svc, files, desk, stream, tray, missed, events>>

\* A window that hears late still sees progress.
ReportProgress(e) ==
  /\ e \in busy
  /\ Broadcast(e, "progress")
  /\ mail' # mail
  /\ UNCHANGED <<svc, files, desk, stream, busy, tray, runs, missed, events>>

\* (mutant) a run that fails is not reported as completed
EndRunIfGood(e) ==
  /\ e \in busy
  /\ busy' = busy \ {e}
  /\ \/ Broadcast(e, "completed") /\ Misses(Hearers(e))
     \/ UNCHANGED <<mail, missed>>
  /\ UNCHANGED <<svc, files, desk, stream, tray, runs, events>>

EndRun(e) ==
  /\ e \in busy
  /\ busy' = busy \ {e}
  /\ Broadcast(e, "completed") /\ Misses(Hearers(e))
  /\ UNCHANGED <<svc, files, desk, stream, tray, runs, events>>

Init ==
  /\ svc = [p \in Services |-> "none"] /\ win = [w \in Windows |-> "none"]
  /\ token = NoService /\ pid = NoService
  /\ internal = {} /\ busy = {} /\ tray = {}
  /\ stream = [w \in Windows |-> NoService]
  /\ mail = [w \in Windows |-> <<>>]
  /\ runs = 0 /\ events = 0
  /\ served = {} /\ missed = {}

ServiceStarts(p) == Construct(p) \/ WritePid(p) \/ InstallRclone(p) \/ Bind(p)
WindowOpens(w) == Probe(w) \/ LaunchService(w) \/ WaitForService(w) \/ Decide(w) \/ Listen(w)

Next ==
  \/ \E p \in Services : \/ ServiceStarts(p)
                         \/ StopService(p) \/ KillService(p) \/ LaunchAtLogon(p)
  \/ \E w \in Windows : \/ OpenWindow(w) \/ WindowOpens(w) \/ StartServiceButton(w) \/ Quit(w)
                        \/ Connect(w) \/ FallSilent(w) \/ HandleEvent(w)
  \/ \E e \in Engines : BeginRun(e) \/ ReportProgress(e) \/ EndRun(e)

Spec == Init /\ [][Next]_vars

\* The threads that start a service, open a window and keep its stream go on.
FairSpec ==
  /\ Spec
  /\ \A p \in Services : WF_vars(ServiceStarts(p))
  /\ \A w \in Windows : WF_vars(WindowOpens(w)) /\ WF_vars(Connect(w)) /\ WF_vars(HandleEvent(w))

-----------------------------------------------------------------------------
(* Properties. *)

\* A window has engines of its own unless a service could really be asked when it decided: a
\* launched process, a PID of a process that is dying or hangs before its port, or an
\* earlier answer are not enough (app.py:114-117).
NoIdleWindow == \A w \in Windows : win[w] \in {"show", "ready"} => w \in internal \cup served

\* A tray icon that says "syncing" is about a run that goes on, or will be taken back by an
\* event on its way; otherwise the completion fell into a gap of the event stream or
\* the engine died (ipc_server.py:179, ipc_client.py:180-189, app.py:708).
TrayJustified ==
  \A w \in tray : busy # {} \/ InMail(w, "completed") \/ w \in missed

\* Where the port cannot be shared, two services that both run their schedulers, because each
\* was launched before the other had written its PID, are one before long.
TwoServicesDoNotLast ==
  \A p, q \in Services : p # q =>
    ((Schedules(p) /\ Schedules(q)) ~> ~(Schedules(p) /\ Schedules(q)))

\* Whatever services came and went, and with whatever token, an open window gets
\* the events of one that keeps serving again and again (ipc_client.py:138-189).
StreamResumes ==
  \A w \in Windows :
    (<>[](win[w] = "ready" /\ \E p \in Services : svc[p] = "serving"))
      => []<>(stream[w] # NoService)

=============================================================================
