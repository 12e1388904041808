--------------------------- MODULE WatcherProofs ---------------------------
(***************************************************************************)
(* Theorems about Watcher for every choice of its constants, checked with  *)
(* TLAPS.                                                                  *)
(***************************************************************************)
EXTENDS Watcher, TLAPS

-----------------------------------------------------------------------------
(* The inductive invariant *)

\* A call that goes on to start a watcher has a target to register.
StartHasTarget ==
  \A c \in Callers :
    caller[c].pc \in {"running", "checked", "start"} => caller[c].target \in Targets

\* A timer that a stopping call took out of the map is nobody's entry.
TakenIsNoEntry ==
  \A c \in Callers : caller[c].timer # NoTimer => caller[c].timer # debounceTimer

\* A reported change has a timer that no call is about to cancel.
ChangeIsSafe ==
  owed => \E t \in Timers : Live(t) /\ \A c \in Callers : caller[c].timer # t

TimerInv == TakenIsNoEntry /\ EntryIsPending /\ ChangeIsSafe

Inv == TypeOK /\ StartHasTarget /\ TimerInv

-----------------------------------------------------------------------------
(* The debounce timers *)

\* A report arms a timer that no stopping call holds.
LEMMA ReportKeepsTimers ==
  ASSUME TypeOK, TimerInv, Report,
         \A c \in Callers : caller'[c].timer \in {caller[c].timer, NoTimer}
  PROVE  DebounceTypeOK' /\ TimerInv'
<1>1. PICK t \in First(FreshTimers) : RawChange(t)
  BY DEF Report
<1>2. t \in Timers /\ t # NoTimer /\ \A c \in Callers : caller[c].timer # t
  BY <1>1 DEF First, FreshTimers, Held, Timers, NoTimer
<1>3. timer' \in [Timers -> Phases] /\ timer'[t] = "waiting"
  BY <1>1, <1>2 DEF RawChange, Cancelled, TypeOK, DebounceTypeOK, Phases
<1>4. DebounceTypeOK'
  BY <1>1, <1>2, <1>3 DEF RawChange, DebounceTypeOK
<1>5. TakenIsNoEntry'
  BY <1>1, <1>2 DEF RawChange, TakenIsNoEntry
<1>6. EntryIsPending'
  BY <1>1, <1>3 DEF RawChange, EntryIsPending
<1>7. \A c \in Callers : caller'[c].timer # t
  BY <1>2
<1>8. ChangeIsSafe'
  BY <1>2, <1>3, <1>7 DEF ChangeIsSafe, Live
<1>. QED  BY <1>4, <1>5, <1>6, <1>8 DEF TimerInv

\* What only touches the calls and takes no timer keeps the timers' invariant.
LEMMA CallKeepsTimers ==
  ASSUME TypeOK, TimerInv, UNCHANGED debounceVars,
         \A c \in Callers : caller'[c].timer \in {caller[c].timer, NoTimer}
  PROVE  DebounceTypeOK' /\ TimerInv'
<1>1. DebounceTypeOK'
  BY DEF debounceVars, TypeOK, DebounceTypeOK
<1>2. TakenIsNoEntry'
  BY DEF debounceVars, TimerInv, TakenIsNoEntry
<1>3. EntryIsPending'
  BY DEF debounceVars, TimerInv, EntryIsPending
<1>4. ASSUME owed'
      PROVE  \E t \in Timers : Live(t)' /\ \A c \in Callers : caller'[c].timer # t
  <2>1. PICK t \in Timers : Live(t) /\ \A c \in Callers : caller[c].timer # t
    BY <1>4 DEF debounceVars, TimerInv, ChangeIsSafe
  <2>2. t # NoTimer
    BY DEF Timers, NoTimer
  <2>3. Live(t)'
    BY <2>1 DEF debounceVars, Live
  <2>. QED  BY <2>1, <2>2, <2>3
<1>. QED  BY <1>1, <1>2, <1>3, <1>4 DEF TimerInv, ChangeIsSafe

\* A timer that runs out keeps the timers' invariant, whichever entry it pops.
LEMMA TimerKeepsTimers ==
  ASSUME TypeOK, TimerInv, NEW t \in Timers, TimerStep(t), UNCHANGED caller
  PROVE  DebounceTypeOK' /\ TimerInv'
<1>. USE DEF TypeOK, DebounceTypeOK, TimerInv, TakenIsNoEntry, EntryIsPending, ChangeIsSafe,
             Live, Phases
<1>1. CASE Expire(t)
  BY <1>1 DEF Expire
<1>2. CASE PopEntry(t)
  BY <1>2 DEF PopEntry
<1>3. CASE Fire(t)
  BY <1>3 DEF Fire
<1>. QED  BY <1>1, <1>2, <1>3 DEF TimerStep

\* Cancelling the timer a stop took out of the map leaves every entry and every change
\* reported since its timer.
LEMMA CancelKeepsTimers ==
  ASSUME TypeOK, TimerInv, NEW c \in Callers, CancelTimer(caller[c].timer), Return(c)
  PROVE  DebounceTypeOK' /\ TimerInv'
<1>1. DebounceTypeOK'
  BY DEF TypeOK, DebounceTypeOK, CancelTimer, Cancelled, Phases
<1>2. \A d \in Callers : caller'[d].timer \in {caller[d].timer, NoTimer}
  BY DEF Return, IdleCall, TypeOK
<1>3. \A t \in Timers : t # caller[c].timer => timer'[t] = timer[t]
  BY DEF CancelTimer, Cancelled
<1>4. TakenIsNoEntry'
  BY <1>2 DEF TimerInv, TakenIsNoEntry, CancelTimer
<1>5. EntryIsPending'
  <2>. SUFFICES ASSUME debounceTimer' # NoTimer
                PROVE  timer'[debounceTimer'] \in {"waiting", "expired"}
    BY DEF EntryIsPending
  <2>1. debounceTimer' = debounceTimer /\ debounceTimer \in Timers
    BY DEF CancelTimer, TypeOK, DebounceTypeOK
  <2>2. debounceTimer # caller[c].timer
    BY <2>1 DEF TimerInv, TakenIsNoEntry
  <2>. QED  BY <1>3, <2>1, <2>2 DEF TimerInv, EntryIsPending
<1>6. ChangeIsSafe'
  <2>. SUFFICES ASSUME owed'
                PROVE  \E t \in Timers : Live(t)' /\ \A d \in Callers : caller'[d].timer # t
    BY DEF ChangeIsSafe
  <2>1. PICK t \in Timers : Live(t) /\ \A d \in Callers : caller[d].timer # t
    BY DEF TimerInv, ChangeIsSafe, CancelTimer
  <2>2. Live(t)' /\ t # NoTimer
    BY <1>3, <2>1 DEF Live, Timers, NoTimer
  <2>. QED  BY <1>2, <2>1, <2>2
<1>. QED  BY <1>1, <1>4, <1>5, <1>6 DEF TimerInv

-----------------------------------------------------------------------------
(* The steps *)

\* What the steps write into the calls and the watcher objects is well typed.
LEMMA StateFacts ==
  /\ DeadWatcher \in WatcherStates
  /\ IdleCall \in CallStates
  /\ IdleCall.timer = NoTimer
  /\ IdleCall.pc = "idle"
  /\ Snapshot \in {0, version}
BY BoundsAssumption DEF DeadWatcher, WatcherStates, IdleCall, CallStates, Snapshot

\* The initial states satisfy the invariant.
LEMMA InitInv == Init => Inv
<1>. SUFFICES ASSUME Init PROVE Inv
  OBVIOUS
<1>1. DebounceTypeOK
  BY DEF Init, DebounceInit, DebounceTypeOK, Phases
<1>2. TypeOK
  <2>1. version \in 1..MaxChanges + 1 /\ failures \in 0..MaxFailures /\ calls \in 0..MaxCalls
    BY BoundsAssumption DEF Init
  <2>. QED  BY <1>1, <2>1, StateFacts, TargetAssumption DEF Init, TypeOK, Registrations
<1>3. StartHasTarget
  BY StateFacts DEF Init, StartHasTarget
<1>4. TimerInv
  BY StateFacts DEF Init, DebounceInit, TimerInv, TakenIsNoEntry, EntryIsPending, ChangeIsSafe
<1>. QED  BY <1>2, <1>3, <1>4 DEF Inv

\* A call that moves on, and takes no timer with it.
LEMMA CallMoves ==
  ASSUME TypeOK, StartHasTarget, NEW c \in Callers, NEW s \in CallStates,
         caller' = [caller EXCEPT ![c] = s],
         s.timer \in {caller[c].timer, NoTimer},
         s.pc \in {"running", "checked", "start"} => s.target \in Targets
  PROVE  /\ caller' \in [Callers -> CallStates]
         /\ StartHasTarget'
         /\ \A d \in Callers : caller'[d].timer \in {caller[d].timer, NoTimer}
<1>1. caller \in [Callers -> CallStates]
  BY DEF TypeOK
<1>2. caller'[c] = s /\ \A d \in Callers \ {c} : caller'[d] = caller[d]
  BY <1>1
<1>. QED  BY <1>1, <1>2 DEF StartHasTarget

\* The same for a call of which only the place changes, or which returns.
LEMMA CallGoes ==
  ASSUME TypeOK, StartHasTarget, NEW c \in Callers,
         \/ Return(c)
         \/ /\ caller[c].pc \in {"running", "checked"}
            /\ Goto(c, "start")
         \/ \E pc \in {"stop", "install"} : Goto(c, pc)
  PROVE  /\ caller' \in [Callers -> CallStates]
         /\ StartHasTarget'
         /\ \A d \in Callers : caller'[d].timer \in {caller[d].timer, NoTimer}
<1>1. caller \in [Callers -> CallStates] /\ caller[c] \in CallStates
  BY DEF TypeOK
<1>2. CASE Return(c)
  BY <1>2, CallMoves, StateFacts DEF Return
<1>3. ASSUME NEW pc \in {"start", "stop", "install"}, Goto(c, pc),
             pc = "start" => caller[c].target \in Targets
      PROVE  /\ caller' \in [Callers -> CallStates]
             /\ StartHasTarget'
             /\ \A d \in Callers : caller'[d].timer \in {caller[d].timer, NoTimer}
  <2> DEFINE s == [caller[c] EXCEPT !.pc = pc]
  <2>1. caller' = [caller EXCEPT ![c] = s]
    BY <1>1, <1>3 DEF Goto
  <2>2. s \in CallStates /\ s.timer = caller[c].timer /\ s.pc = pc
        /\ s.target = caller[c].target
    BY <1>1, <1>3 DEF CallStates
  <2> HIDE DEF s
  <2>. QED  BY <1>3, <2>1, <2>2, CallMoves
<1>4. caller[c].pc \in {"running", "checked"} => caller[c].target \in Targets
  BY DEF StartHasTarget
<1>. QED  BY <1>2, <1>3, <1>4

\* What a step that leaves the timers and moves only well-typed state preserves.
LEMMA QuietStep ==
  ASSUME Inv, UNCHANGED debounceVars,
         registration' \in Registrations,
         installed' \in Watchers \cup {NoWatcher},
         watcher' \in [Watchers -> WatcherStates],
         caller' \in [Callers -> CallStates],
         StartHasTarget',
         \A d \in Callers : caller'[d].timer \in {caller[d].timer, NoTimer},
         supervised' \in BOOLEAN,
         row' \in [target : Targets, wanted : BOOLEAN],
         mounted' \in BOOLEAN,
         version' \in 1..MaxChanges + 1,
         failures' \in 0..MaxFailures,
         calls' \in 0..MaxCalls
  PROVE  Inv'
<1>1. DebounceTypeOK' /\ TimerInv'
  BY CallKeepsTimers DEF Inv
<1>. QED  BY <1>1 DEF Inv, TypeOK

\* The variables as the invariant types them, and what an unchanged call keeps.
LEMMA Unmoved ==
  ASSUME Inv
  PROVE  /\ TypeOK /\ StartHasTarget /\ TimerInv
         /\ registration \in Registrations
         /\ installed \in Watchers \cup {NoWatcher}
         /\ watcher \in [Watchers -> WatcherStates]
         /\ caller \in [Callers -> CallStates]
         /\ supervised \in BOOLEAN
         /\ row \in [target : Targets, wanted : BOOLEAN]
         /\ mounted \in BOOLEAN
         /\ version \in 1..MaxChanges + 1
         /\ failures \in 0..MaxFailures
         /\ calls \in 0..MaxCalls
         /\ UNCHANGED caller =>
              /\ StartHasTarget'
              /\ \A d \in Callers : caller'[d].timer \in {caller[d].timer, NoTimer}
BY DEF Inv, TypeOK, StartHasTarget

\* A watcher thread that moves keeps the objects well typed.
LEMMA WatcherMoves ==
  ASSUME TypeOK, NEW w \in Watchers,
         \/ Die(w)
         \/ \E phase \in {"running", "failing"} : SetPhase(w, phase)
         \/ \E phase \in {"running", "noticed"}, n \in {0, version} :
              watcher' = [watcher EXCEPT ![w] = [@ EXCEPT !.phase = phase, !.seen = n]]
  PROVE  watcher' \in [Watchers -> WatcherStates]
<1>1. watcher \in [Watchers -> WatcherStates] /\ watcher[w] \in WatcherStates
  BY DEF TypeOK
<1>2. CASE Die(w)
  BY <1>1, <1>2, StateFacts DEF Die
<1>3. ASSUME NEW phase \in {"running", "failing"}, SetPhase(w, phase)
      PROVE  watcher' \in [Watchers -> WatcherStates]
  BY <1>1, <1>3 DEF SetPhase, WatcherStates
<1>4. ASSUME NEW phase \in {"running", "noticed"}, NEW n \in {0, version},
             watcher' = [watcher EXCEPT ![w] = [@ EXCEPT !.phase = phase, !.seen = n]]
      PROVE  watcher' \in [Watchers -> WatcherStates]
  <2> DEFINE s == [watcher[w] EXCEPT !.phase = phase, !.seen = n]
  <2>1. watcher' = [watcher EXCEPT ![w] = s]
    BY <1>4
  <2>2. n \in 0..MaxChanges + 1
    BY BoundsAssumption DEF TypeOK
  <2>3. s \in WatcherStates
    BY <1>1, <2>2 DEF WatcherStates
  <2> HIDE DEF s
  <2>. QED  BY <1>1, <2>1, <2>3
<1>. QED  BY <1>2, <1>3, <1>4

\* The steps of a watcher's thread keep the invariant.
LEMMA WatcherStepInv ==
  ASSUME Inv, NEW w \in Watchers, WatcherStep(w) \/ NativeFails(w)
  PROVE  Inv'
<1>. USE DEF managerVars, folderVars, boundVars
<1>1. CASE NativeOpens(w)
  BY <1>1, Unmoved, WatcherMoves, QuietStep DEF NativeOpens
<1>2. CASE NativeFails(w)
  <2>1. failures' \in 0..MaxFailures
    BY <1>2, Unmoved, BoundsAssumption DEF NativeFails
  <2>2. watcher' \in [Watchers -> WatcherStates]
    BY <1>2, Unmoved, WatcherMoves DEF NativeFails
  <2>. QED  BY <1>2, <2>1, <2>2, Unmoved, QuietStep DEF NativeFails
<1>3. CASE Notice(w)
  <2>1. watcher' \in [Watchers -> WatcherStates]
    BY <1>3, StateFacts, Unmoved, WatcherMoves DEF Notice
  <2>. QED  BY <1>3, <2>1, Unmoved, QuietStep DEF Notice
<1>4. CASE Emit(w)
  <2>1. watcher' \in [Watchers -> WatcherStates]
    BY <1>4, Unmoved, WatcherMoves DEF Emit
  <2>2. DebounceTypeOK' /\ TimerInv'
    BY <1>4, Unmoved, ReportKeepsTimers DEF Emit
  <2>. QED  BY <1>4, <2>1, <2>2, Unmoved DEF Emit, Inv, TypeOK
<1>5. CASE Exit(w)
  BY <1>5, Unmoved, WatcherMoves, QuietStep DEF Exit
<1>6. CASE GiveUp(w)
  BY <1>6, Unmoved, WatcherMoves, QuietStep DEF GiveUp
<1>7. ASSUME NEW c \in Threads, FallBack(w, c)
      PROVE  Inv'
  <2> DEFINE s == [caller[c] EXCEPT !.pc = "start", !.target = registration.target]
  <2>1. c \in Callers /\ caller' = [caller EXCEPT ![c] = s]
    BY <1>7 DEF FallBack, Callers
  <2>2. /\ registration \in [target : Targets, forced : BOOLEAN]
        /\ registration.target \in Targets
        /\ registration' \in Registrations
    BY <1>7, Unmoved DEF FallBack, Registrations
  <2>3. caller[c] \in CallStates
    BY <2>1, Unmoved
  <2>4. s \in CallStates /\ s.timer = caller[c].timer /\ s.target \in Targets
    BY <2>2, <2>3 DEF CallStates
  <2> HIDE DEF s
  <2>5. /\ caller' \in [Callers -> CallStates]
        /\ StartHasTarget'
        /\ \A d \in Callers : caller'[d].timer \in {caller[d].timer, NoTimer}
    BY <2>1, <2>4, Unmoved, CallMoves
  <2>6. watcher' \in [Watchers -> WatcherStates]
    BY <1>7, Unmoved, WatcherMoves DEF FallBack
  <2>. QED  BY <1>7, <2>2, <2>5, <2>6, Unmoved, QuietStep DEF FallBack
<1>. QED  BY <1>1, <1>2, <1>3, <1>4, <1>5, <1>6, <1>7 DEF WatcherStep

\* Stopping a watcher keeps the objects well typed.
LEMMA StoppedType ==
  ASSUME TypeOK, NEW w \in Watchers \cup {NoWatcher}
  PROVE  Stopped(w) \in [Watchers -> WatcherStates]
<1>1. 0 \in 0..MaxChanges + 1
  BY BoundsAssumption
<1>2. \A v \in Watchers :
        /\ watcher[v] \in WatcherStates
        /\ [watcher[v] EXCEPT !.stopped = TRUE, !.seen = 0] \in WatcherStates
  BY <1>1 DEF TypeOK, WatcherStates
<1>. QED  BY <1>2 DEF Stopped

\* Registering a target keeps whether polling is forced.
LEMMA RegistrationFacts ==
  ASSUME registration \in Registrations
  PROVE  /\ registration.forced \in BOOLEAN
         /\ \A t \in Targets :
              /\ [registration EXCEPT !.target = t] \in Registrations
              /\ [target |-> t, forced |-> FALSE] \in Registrations
<1>1. CASE registration \in [target : Targets, forced : BOOLEAN]
  BY <1>1 DEF Registrations
<1>2. CASE registration = Unregistered
  <2>1. registration = [target |-> NoTarget, forced |-> FALSE]
    BY <1>2 DEF Unregistered
  <2>2. registration.forced = FALSE
    BY <2>1
  <2>3. ASSUME NEW t \in Targets
        PROVE  [registration EXCEPT !.target = t] \in [target : Targets, forced : BOOLEAN]
    <3>1. registration \in [target : {NoTarget}, forced : BOOLEAN]
      BY <2>1
    <3>. QED  BY <3>1
  <2>. QED  BY <2>1, <2>2, <2>3 DEF Registrations
<1>. QED  BY <1>1, <1>2 DEF Registrations

\* The steps of start_watching keep the invariant.
LEMMA StartStepInv ==
  ASSUME Inv, NEW c \in Callers, StartStep(c) \/ NativeTooSlow(c)
  PROVE  Inv'
<1>. USE DEF managerVars, folderVars, boundVars
<1>1. caller[c] \in CallStates /\ caller[c].w \in Watchers \cup {NoWatcher}
  BY Unmoved DEF CallStates
<1>2. caller[c].pc = "start" =>
        /\ [registration EXCEPT !.target = caller[c].target] \in Registrations
        /\ [target |-> caller[c].target, forced |-> FALSE] \in Registrations
  BY Unmoved, RegistrationFacts DEF StartHasTarget
<1>3. CASE RegisterMissing(c)
  BY <1>2, <1>3, Unmoved, CallGoes, QuietStep DEF RegisterMissing
<1>4. CASE RegisterAndPop(c)
  <2> DEFINE s == [caller[c] EXCEPT !.pc = "replace", !.forced = registration.forced,
                                    !.w = installed]
  <2>1. caller' = [caller EXCEPT ![c] = s]
    BY <1>4 DEF RegisterAndPop
  <2>2. registration.forced \in BOOLEAN
    BY Unmoved, RegistrationFacts
  <2>3. s \in CallStates /\ s.timer = caller[c].timer /\ s.pc = "replace"
    BY <1>1, <2>2, Unmoved DEF CallStates
  <2> HIDE DEF s
  <2>4. /\ caller' \in [Callers -> CallStates]
        /\ StartHasTarget'
        /\ \A d \in Callers : caller'[d].timer \in {caller[d].timer, NoTimer}
    BY <2>1, <2>3, Unmoved, CallMoves
  <2>. QED  BY <1>2, <1>4, <2>4, Unmoved, QuietStep DEF RegisterAndPop
<1>5. CASE StopOld(c)
  <2> DEFINE s == [caller[c] EXCEPT !.pc = "build", !.w = NoWatcher]
  <2>1. caller' = [caller EXCEPT ![c] = s]
    BY <1>5 DEF StopOld
  <2>2. s \in CallStates /\ s.timer = caller[c].timer /\ s.pc = "build"
    BY <1>1 DEF CallStates
  <2> HIDE DEF s
  <2>3. /\ caller' \in [Callers -> CallStates]
        /\ StartHasTarget'
        /\ \A d \in Callers : caller'[d].timer \in {caller[d].timer, NoTimer}
    BY <2>1, <2>2, Unmoved, CallMoves
  <2>4. watcher' \in [Watchers -> WatcherStates]
    BY <1>1, <1>5, Unmoved, StoppedType DEF StopOld
  <2>. QED  BY <1>5, <2>3, <2>4, Unmoved, QuietStep DEF StopOld
<1>6. CASE Build(c)
  <2> DEFINE native == Native /\ ~caller[c].forced
             new == [phase |-> IF native THEN "opening" ELSE "running",
                     kind |-> IF native THEN "native" ELSE "polling",
                     stopped |-> FALSE, seen |-> Snapshot]
  <2>1. PICK w \in First(FreshWatchers) :
          /\ watcher' = [watcher EXCEPT ![w] = new]
          /\ caller' = [caller EXCEPT ![c] =
               [@ EXCEPT !.pc = IF native THEN "opening" ELSE "install", !.w = w]]
    BY <1>6 DEF Build
  <2>2. w \in Watchers
    BY DEF First, FreshWatchers
  <2> DEFINE s == [caller[c] EXCEPT !.pc = IF native THEN "opening" ELSE "install", !.w = w]
  <2>3. caller' = [caller EXCEPT ![c] = s]
    BY <2>1
  <2>4. Snapshot \in 0..MaxChanges + 1
    BY StateFacts, Unmoved, BoundsAssumption
  <2>5. new \in WatcherStates
    BY <2>4 DEF WatcherStates
  <2>6. s \in CallStates /\ s.timer = caller[c].timer /\ s.pc \in {"opening", "install"}
    BY <1>1, <2>2 DEF CallStates
  <2> HIDE DEF s, new, native
  <2>7. /\ caller' \in [Callers -> CallStates]
        /\ StartHasTarget'
        /\ \A d \in Callers : caller'[d].timer \in {caller[d].timer, NoTimer}
    BY <2>3, <2>6, Unmoved, CallMoves
  <2>8. watcher' \in [Watchers -> WatcherStates]
    BY <2>1, <2>5, Unmoved
  <2>. QED  BY <1>6, <2>7, <2>8, Unmoved, QuietStep DEF Build
<1>7. CASE NativeStarted(c)
  BY <1>7, Unmoved, CallGoes, QuietStep DEF NativeStarted
<1>8. CASE Install(c)
  <2> DEFINE s == IF c = Supervisor THEN [IdleCall EXCEPT !.pc = "report"] ELSE IdleCall
  <2>1. caller' = [caller EXCEPT ![c] = s]
    BY <1>8 DEF Install
  <2>2. s \in CallStates /\ s.timer = NoTimer /\ s.pc \in {"report", "idle"}
    BY StateFacts DEF CallStates
  <2> HIDE DEF s
  <2>3. /\ caller' \in [Callers -> CallStates]
        /\ StartHasTarget'
        /\ \A d \in Callers : caller'[d].timer \in {caller[d].timer, NoTimer}
    BY <2>1, <2>2, Unmoved, CallMoves
  <2>. QED  BY <1>1, <1>8, <2>3, Unmoved, QuietStep DEF Install
<1>9. CASE NativeTooSlow(c)
  <2>1. failures' \in 0..MaxFailures
    BY <1>9, Unmoved, BoundsAssumption DEF NativeTooSlow
  <2>2. CASE registration = Unregistered
    <3>1. Return(c) /\ UNCHANGED registration
      BY <1>9, <2>2 DEF NativeTooSlow
    <3>. QED  BY <1>9, <2>1, <3>1, Unmoved, CallGoes, QuietStep DEF NativeTooSlow
  <2>3. CASE registration # Unregistered
    <3> DEFINE s == [caller[c] EXCEPT !.pc = "build", !.forced = TRUE, !.w = NoWatcher]
    <3>1. /\ caller' = [caller EXCEPT ![c] = s]
          /\ registration' = [registration EXCEPT !.forced = TRUE]
      BY <1>9, <2>3 DEF NativeTooSlow
    <3>2. registration' \in Registrations
      BY <2>3, <3>1, Unmoved DEF Registrations
    <3>3. s \in CallStates /\ s.timer = caller[c].timer /\ s.pc = "build"
      BY <1>1 DEF CallStates
    <3> HIDE DEF s
    <3>4. /\ caller' \in [Callers -> CallStates]
          /\ StartHasTarget'
          /\ \A d \in Callers : caller'[d].timer \in {caller[d].timer, NoTimer}
      BY <3>1, <3>3, Unmoved, CallMoves
    <3>. QED  BY <1>9, <2>1, <3>2, <3>4, Unmoved, QuietStep DEF NativeTooSlow
  <2>. QED  BY <2>2, <2>3
<1>. QED  BY <1>3, <1>4, <1>5, <1>6, <1>7, <1>8, <1>9 DEF StartStep

\* The steps of stop_watching keep the invariant.
LEMMA StopStepInv ==
  ASSUME Inv, NEW c \in Callers, StopStep(c)
  PROVE  Inv'
<1>. USE DEF managerVars, folderVars, boundVars
<1>1. /\ caller[c] \in CallStates
      /\ caller[c].w \in Watchers \cup {NoWatcher}
  BY Unmoved DEF CallStates
<1>2. CASE Unregister(c)
  <2> DEFINE s == [caller[c] EXCEPT !.pc = "cancel", !.w = installed, !.timer = debounceTimer]
  <2>1. caller' = [caller EXCEPT ![c] = s]
    BY <1>2 DEF Unregister
  <2>2. debounceTimer \in Timers \cup {NoTimer}
    BY Unmoved DEF TypeOK, DebounceTypeOK
  <2>3. s \in CallStates /\ s.pc = "cancel"
    BY <1>1, <2>2, Unmoved DEF CallStates
  <2> HIDE DEF s
  <2>4. caller'[c] = s /\ \A d \in Callers \ {c} : caller'[d] = caller[d]
    BY <2>1, Unmoved
  <2>5. caller' \in [Callers -> CallStates]
    BY <2>1, <2>3, Unmoved
  <2>6. StartHasTarget'
    BY <2>3, <2>4, Unmoved DEF StartHasTarget
  <2>7. DebounceTypeOK' /\ TimerInv'
    <3>1. debounceTimer' = NoTimer /\ owed' = FALSE /\ timer' = timer
      BY <1>2 DEF Unregister, ForgetChange
    <3>. QED  BY <3>1, Unmoved DEF TypeOK, DebounceTypeOK, TimerInv, TakenIsNoEntry,
                                   EntryIsPending, ChangeIsSafe
  <2>. QED  BY <1>2, <2>5, <2>6, <2>7, Unmoved DEF Unregister, Inv, TypeOK, Registrations
<1>3. CASE CancelAndStop(c)
  <2>1. watcher' \in [Watchers -> WatcherStates]
    BY <1>1, <1>3, Unmoved, StoppedType DEF CancelAndStop
  <2>2. caller' \in [Callers -> CallStates] /\ StartHasTarget'
    BY <1>3, Unmoved, CallGoes DEF CancelAndStop
  <2>3. DebounceTypeOK' /\ TimerInv'
    BY <1>3, Unmoved, CancelKeepsTimers DEF CancelAndStop
  <2>. QED  BY <1>3, <2>1, <2>2, <2>3, Unmoved DEF CancelAndStop, Inv, TypeOK
<1>. QED  BY <1>2, <1>3 DEF StopStep

\* The supervisor's steps keep the invariant.
LEMMA SupervisorStepInv ==
  ASSUME Inv, SupervisorStep
  PROVE  Inv'
<1>. USE DEF managerVars, folderVars, boundVars
<1>1. Supervisor \in Callers /\ caller[Supervisor] \in CallStates
  BY Unmoved DEF Callers
<1>2. CASE CheckHealth
  <2> DEFINE s == [caller[Supervisor] EXCEPT !.pc = "checked", !.target = registration.target]
  <2>1. caller' = [caller EXCEPT ![Supervisor] = s]
    BY <1>2 DEF CheckHealth
  <2>2. registration.target \in Targets
    BY <1>2, Unmoved DEF CheckHealth, Registrations
  <2>3. s \in CallStates /\ s.timer = caller[Supervisor].timer /\ s.target \in Targets
    BY <1>1, <2>2 DEF CallStates
  <2> HIDE DEF s
  <2>4. /\ caller' \in [Callers -> CallStates]
        /\ StartHasTarget'
        /\ \A d \in Callers : caller'[d].timer \in {caller[d].timer, NoTimer}
    BY <1>1, <2>1, <2>3, Unmoved, CallMoves
  <2>. QED  BY <1>2, <2>4, Unmoved, QuietStep DEF CheckHealth
<1>3. CASE Revive
  <2>1. /\ caller' \in [Callers -> CallStates]
        /\ StartHasTarget'
        /\ \A d \in Callers : caller'[d].timer \in {caller[d].timer, NoTimer}
    BY <1>1, <1>3, Unmoved, CallGoes DEF Revive
  <2>. QED  BY <1>3, <2>1, Unmoved, QuietStep DEF Revive
<1>4. CASE ReportMissed
  <2>1. /\ caller' \in [Callers -> CallStates]
        /\ StartHasTarget'
        /\ \A d \in Callers : caller'[d].timer \in {caller[d].timer, NoTimer}
    BY <1>1, <1>4, Unmoved, CallGoes DEF ReportMissed
  <2>2. DebounceTypeOK' /\ TimerInv'
    BY <1>4, <2>1, Unmoved, ReportKeepsTimers DEF ReportMissed
  <2>. QED  BY <1>4, <2>1, <2>2, Unmoved DEF ReportMissed, Inv, TypeOK
<1>. QED  BY <1>2, <1>3, <1>4 DEF SupervisorStep

\* The calls from outside keep the invariant.
LEMMA OutsideInv ==
  ASSUME Inv, NEW c \in Threads,
         Watch(c) \/ Pause(c) \/ Shutdown(c) \/ BeginRun(c) \/ EndRun(c)
  PROVE  Inv'
<1>. USE DEF managerVars, folderVars, boundVars
<1>1. c \in Callers /\ caller[c] \in CallStates
  BY Unmoved DEF Callers
<1>2. Call(c) => calls' \in 0..MaxCalls
  BY Unmoved, BoundsAssumption DEF Call
<1>3. ASSUME NEW pc \in {"start", "running"}, NEW t \in Targets,
             caller' = [caller EXCEPT ![c] = [@ EXCEPT !.pc = pc, !.target = t]]
      PROVE  /\ caller' \in [Callers -> CallStates]
             /\ StartHasTarget'
             /\ \A d \in Callers : caller'[d].timer \in {caller[d].timer, NoTimer}
  <2> DEFINE s == [caller[c] EXCEPT !.pc = pc, !.target = t]
  <2>1. caller' = [caller EXCEPT ![c] = s]
    BY <1>3
  <2>2. s \in CallStates /\ s.timer = caller[c].timer /\ s.target \in Targets
    BY <1>1 DEF CallStates
  <2> HIDE DEF s
  <2>. QED  BY <1>1, <2>1, <2>2, Unmoved, CallMoves
<1>4. CASE Watch(c)
  <2>1. PICK t \in Targets :
          /\ row' = [target |-> t, wanted |-> TRUE]
          /\ caller' = [caller EXCEPT ![c] = [@ EXCEPT !.pc = "start", !.target = t]]
    BY <1>4 DEF Watch
  <2>2. row' \in [target : Targets, wanted : BOOLEAN]
    BY <2>1
  <2>. QED  BY <1>2, <1>3, <1>4, <2>1, <2>2, Unmoved, QuietStep DEF Watch
<1>5. CASE Pause(c)
  <2>1. row' \in [target : Targets, wanted : BOOLEAN]
    BY <1>5, Unmoved DEF Pause
  <2>. QED  BY <1>1, <1>2, <1>5, <2>1, Unmoved, CallGoes, QuietStep DEF Pause
<1>6. CASE Shutdown(c)
  BY <1>1, <1>2, <1>6, Unmoved, CallGoes, QuietStep DEF Shutdown
<1>7. CASE BeginRun(c)
  <2>1. row.target \in Targets
    BY Unmoved
  <2>2. caller' = [caller EXCEPT ![c] = [@ EXCEPT !.pc = "running", !.target = row.target]]
    BY <1>7 DEF BeginRun
  <2>. QED  BY <1>2, <1>3, <1>7, <2>1, <2>2, Unmoved, QuietStep DEF BeginRun
<1>8. CASE EndRun(c)
  <2>1. /\ caller' \in [Callers -> CallStates]
        /\ StartHasTarget'
        /\ \A d \in Callers : caller'[d].timer \in {caller[d].timer, NoTimer}
    BY <1>1, <1>8, Unmoved, CallGoes DEF EndRun
  <2>. QED  BY <1>8, <2>1, Unmoved, QuietStep DEF EndRun
<1>. QED  BY <1>4, <1>5, <1>6, <1>7, <1>8

\* The folder and the timers keep the invariant.
LEMMA FolderAndTimersInv ==
  ASSUME Inv, FolderEvent \/ \E t \in Timers : TimerNext(t)
  PROVE  Inv'
<1>. USE DEF managerVars, folderVars, boundVars
<1>1. CASE FolderEvent
  <2>1. mounted' \in BOOLEAN
    BY <1>1, Unmoved, Zenon DEF FolderEvent
  <2>2. version \in Nat /\ version <= MaxChanges /\ version' = version + 1
    BY <1>1, Unmoved, BoundsAssumption DEF FolderEvent
  <2>3. version' \in 1..MaxChanges + 1
    BY <2>2, BoundsAssumption
  <2>. QED  BY <1>1, <2>1, <2>3, Unmoved, QuietStep DEF FolderEvent
<1>2. ASSUME NEW t \in Timers, TimerNext(t)
      PROVE  Inv'
  <2>1. DebounceTypeOK' /\ TimerInv'
    BY <1>2, Unmoved, TimerKeepsTimers DEF TimerNext
  <2>. QED  BY <1>2, <2>1, Unmoved DEF TimerNext, Inv, TypeOK
<1>. QED  BY <1>1, <1>2

\* Every step keeps the invariant.
LEMMA StepInv == Inv /\ [Next]_vars => Inv'
<1>. SUFFICES ASSUME Inv, [Next]_vars PROVE Inv'
  OBVIOUS
<1>1. CASE UNCHANGED vars
  BY <1>1, Unmoved, QuietStep DEF vars, managerVars, folderVars, boundVars
<1>2. ASSUME NEW c \in Threads,
             Watch(c) \/ Pause(c) \/ Shutdown(c) \/ BeginRun(c) \/ EndRun(c)
      PROVE  Inv'
  BY <1>2, OutsideInv
<1>3. ASSUME NEW c \in Callers, CallerStep(c) \/ NativeTooSlow(c)
      PROVE  Inv'
  BY <1>3, StartStepInv, StopStepInv DEF CallerStep
<1>. QED
  BY <1>1, <1>2, <1>3, WatcherStepInv, SupervisorStepInv, FolderAndTimersInv DEF Next

-----------------------------------------------------------------------------
(* The theorems *)

\* The inductive invariant holds in every reachable state.
THEOREM WatcherInvariance == Spec => []Inv
BY InitInv, StepInv, PTL DEF Spec

\* The manager's maps, the watcher objects and the calls in progress stay well typed.
THEOREM WatcherTypeCorrect == Spec => []TypeOK
<1>1. Inv => TypeOK
  BY DEF Inv
<1>. QED  BY <1>1, WatcherInvariance, PTL

\* _on_raw_change, _fire_change, start_watching and stop_watching together lose no
\* reported change: until a sync has been asked for, some timer thread is on its way to
\* ask for it, however many threads start and stop watchers meanwhile.
THEOREM ChangeKept == Spec => []ChangeHasTimer
<1>1. Inv => ChangeHasTimer
  BY DEF Inv, TimerInv, ChangeIsSafe, ChangeHasTimer
<1>. QED  BY <1>1, WatcherInvariance, PTL

\* An entry in _debounce_timers always stands for a timer that runs, so a pending
\* change that has_pending_change reports is never a dead one.
THEOREM PendingChangeReal == Spec => []EntryIsPending
<1>1. Inv => EntryIsPending
  BY DEF Inv, TimerInv
<1>. QED  BY <1>1, WatcherInvariance, PTL

=============================================================================
