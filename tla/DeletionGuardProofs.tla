------------------------ MODULE DeletionGuardProofs ------------------------
(***************************************************************************)
(* The deletion guard keeps to the user's number, for every threshold and  *)
(* every number of files.                                                  *)
(***************************************************************************)
EXTENDS DeletionGuard, FiniteSetTheorems, TLAPS

-----------------------------------------------------------------------------
(* The percentage *)

LEMMA DivisionFacts ==
  ASSUME NEW n \in Nat, NEW t \in Nat, t > 0
  PROVE  /\ n \div t \in Nat
         /\ (n \div t) * t <= n
         /\ n < (n \div t) * t + t
OBVIOUS

LEMMA MaxFilesFacts == MaxFiles \in Nat /\ MaxFiles >= 1
BY DeletionGuardAssumption DEF MaxFiles

\* A multiple of t that is less than t above another one is not above it.
LEMMA MultipleFacts ==
  ASSUME NEW c \in Nat, NEW q \in Int, NEW t \in Nat, c * t < q * t + t
  PROVE  c * t <= q * t
<1> SUFFICES ASSUME c >= q + 1 PROVE FALSE
  OBVIOUS
<1>1. c * t >= (q + 1) * t
  OBVIOUS
<1>2. (q + 1) * t = q * t + t
  OBVIOUS
<1>. QED  BY <1>1, <1>2

LEMMA WholeFacts ==
  ASSUME NEW m \in Nat, NEW t \in Nat \ {0}, m % t = 0
  PROVE  m = (m \div t) * t /\ m \div t \in Nat
OBVIOUS

\* Before it is kept between 1 and 100, the percentage of t files is at least the user's
\* number of files and at most one percent more, whichever way the quotient was rounded.
LEMMA QuotientFacts ==
  ASSUME NEW t \in Nat, t > 0
  PROVE  LET c == (MaxFiles * 100 + t - 1) \div t + (IF t \in LandsAbove THEN 1 ELSE 0) IN
           /\ c \in Nat /\ c >= 1
           /\ c * t >= MaxFiles * 100
           /\ c * t <= MaxFiles * 100 + t
<1> DEFINE m == MaxFiles * 100
           n == m + t - 1
           e == n \div t
<1>1. m \in Nat /\ m >= 100 /\ n \in Nat /\ n >= t /\ n < m + t /\ n + 1 >= m + t
  BY MaxFilesFacts
<1>2. e \in Nat /\ e * t <= n /\ n < e * t + t
  <2> HIDE DEF n
  <2>. QED  BY <1>1, DivisionFacts
<1> HIDE DEF e
<1>3. e * t \in Nat /\ e * t >= m /\ e * t < m + t
  <2>1. e * t \in Nat
    BY <1>2
  <2>. QED  BY <1>1, <1>2, <2>1
<1>4. e >= 1
  <2> SUFFICES ASSUME e = 0 PROVE FALSE
    BY <1>2
  <2>1. e * t = 0
    OBVIOUS
  <2>. QED  BY <1>1, <1>3, <2>1
<1>5. CASE t \notin LandsAbove
  BY <1>1, <1>2, <1>3, <1>4, <1>5 DEF e
<1>6. CASE t \in LandsAbove
  <2>1. m % t = 0
    BY <1>6, LandsAboveAssumption
  <2>2. PICK q \in Nat : m = q * t
    <3> HIDE DEF m
    <3>. QED  BY <1>1, <2>1, WholeFacts
  <2>3. e * t <= m
    <3> HIDE DEF m
    <3>1. e * t < q * t + t
      BY <1>3, <2>2
    <3>. QED  BY <1>2, <2>2, <3>1, MultipleFacts
  <2>4. (e + 1) * t = e * t + t /\ e + 1 \in Nat /\ e + 1 >= 1
    BY <1>2
  <2>5. (e + 1) * t >= m /\ (e + 1) * t <= m + t
    BY <1>1, <1>3, <2>3, <2>4
  <2>. QED  BY <1>6, <2>4, <2>5 DEF e
<1>. QED  BY <1>5, <1>6

\* Of a folder of t files the percentage lets through at most one percent of them above the
\* user's number, and never less than the number unless it is all.
LEMMA PercentFacts ==
  ASSUME NEW t \in Nat, t > 0
  PROVE  LET p == MaxDeletePercent(t) IN
           /\ p \in Nat
           /\ p * t <= MaxFiles * 100 + t
           /\ p = 100 \/ p * t >= MaxFiles * 100
<1> DEFINE c == (MaxFiles * 100 + t - 1) \div t + (IF t \in LandsAbove THEN 1 ELSE 0)
<1>1. c \in Nat /\ c >= 1 /\ c * t >= MaxFiles * 100 /\ c * t <= MaxFiles * 100 + t
  BY QuotientFacts
<1>2. MaxDeletePercent(t) = Clamped(c)
  BY DEF MaxDeletePercent
<1> HIDE DEF c
<1>3. CASE c <= 100
  <2>1. MaxDeletePercent(t) = c
    BY <1>1, <1>2, <1>3 DEF Clamped
  <2>. QED  BY <1>1, <2>1
<1>4. CASE c > 100
  <2>1. MaxDeletePercent(t) = 100
    BY <1>1, <1>2, <1>4 DEF Clamped
  <2>2. 100 * t <= c * t
    BY <1>1, <1>4
  <2>. QED  BY <1>1, <2>1, <2>2, MaxFilesFacts
<1>. QED  BY <1>1, <1>3, <1>4

-----------------------------------------------------------------------------
(* The inductive invariant *)

\* Until a run counts, the row's total is the number of files bisync remembers;
\* while it counts, the folder is what bisync remembers; a run works with the row
\* it read -- unless the count missed something or the folder was edited before it.
CountIsCurrent ==
  /\ pc # "count" /\ row.synced /\ ~drift => row.total = Cardinality(tracked)
  /\ pc = "count" /\ ~drift => local = tracked
  /\ pc = "bisync" => seen = row

\* What is repeated with --force stayed within the number when it was looked at.
ForcedIsLimited ==
  pc = "forced" /\ ~drift => \A gone \in Deletions : Within(gone \ late, tracked)

Inv == TypeOK /\ CountIsCurrent /\ ForcedIsLimited /\ DeletionsWithinNumber /\ AllowedIsNotRefused

LEMMA InitInv == Init => Inv
<1> SUFFICES ASSUME Init PROVE Inv
  OBVIOUS
<1>1. Cardinality(Files) \in Nat
  BY DeletionGuardAssumption, FS_CardinalityType
<1>2. row \in Rows /\ seen \in Rows /\ row.total = 0
  BY <1>1 DEF Init, Rows
<1>3. last \in [before : SUBSET Files, gone : SUBSET SUBSET Files, late : SUBSET Files,
                result : {"none", "synced", "refused"}, drift : BOOLEAN]
  <2>1. {} \in SUBSET Files /\ {} \in SUBSET SUBSET Files
    BY Zenon
  <2> QED
    BY <2>1, Zenon DEF Init, NoBisync
<1>4. local \subseteq Files /\ remote \subseteq Files /\ tracked \subseteq Files
  BY Zenon DEF Init
<1>5. pc = "none" /\ drift = FALSE /\ edits \in 0 .. MaxEdits
  BY DeletionGuardAssumption DEF Init
<1>6. TypeOK
  BY <1>2, <1>3, <1>4, <1>5 DEF TypeOK, Init
<1> QED
  BY <1>6 DEF Init, Inv, CountIsCurrent, ForcedIsLimited, DeletionsWithinNumber,
    AllowedIsNotRefused, NoBisync

LEMMA Sizes ==
  ASSUME NEW S \in SUBSET Files, NEW T \in SUBSET S
  PROVE  /\ IsFiniteSet(S) /\ IsFiniteSet(T)
         /\ Cardinality(S) \in Nat /\ Cardinality(T) \in Nat
         /\ Cardinality(T) <= Cardinality(S)
         /\ Cardinality(T) > 0 => Cardinality(S) > 0
         /\ T # {} => Cardinality(T) > 0
<1>1. IsFiniteSet(S) /\ IsFiniteSet(T)
  BY DeletionGuardAssumption, FS_Subset
<1>2. Cardinality(S) \in Nat /\ Cardinality(T) \in Nat /\ Cardinality(T) <= Cardinality(S)
  BY <1>1, FS_CardinalityType, FS_Subset
<1>3. T # {} => Cardinality(T) > 0
  BY <1>1, <1>2, FS_EmptySet
<1> QED
  BY <1>1, <1>2, <1>3

\* Fewer files are within the number, too.
LEMMA FewerWithin ==
  ASSUME NEW before \in SUBSET Files, NEW gone \in SUBSET before, NEW fewer \in SUBSET gone,
         Within(gone, before)
  PROVE  Within(fewer, before)
<1>1. Cardinality(fewer) <= Cardinality(gone)
  BY Sizes
<1>2. /\ Cardinality(fewer) \in Nat /\ Cardinality(gone) \in Nat
      /\ Cardinality(before) \in Nat /\ MaxFiles \in Nat
  BY Sizes, MaxFilesFacts
<1>. QED  BY <1>1, <1>2 DEF Within

\* What passes the limit, with the count of the files bisync remembers.
LEMMA WithinNumber ==
  ASSUME TypeOK, seen.total = Cardinality(tracked), NEW gone \in Deletions, ~Excessive(gone)
  PROVE  Within(gone, tracked)
<1> DEFINE t == Cardinality(tracked)
<1>1. gone \in SUBSET tracked /\ tracked \in SUBSET Files
  BY DEF Deletions, TypeOK
<1>2. t \in Nat /\ Cardinality(gone) \in Nat /\ Cardinality(gone) <= t /\ MaxFiles \in Nat
  BY <1>1, Sizes, MaxFilesFacts
<1>3. CASE t = 0
  BY <1>2, <1>3 DEF Within
<1>4. CASE t > 0
  <2>1. MaxDeletePercent(t) \in Nat /\ MaxDeletePercent(t) * t <= MaxFiles * 100 + t
    BY <1>2, <1>4, PercentFacts
  <2>2. MaxDeletePercent(t) * t \in Nat
    BY <1>2, <2>1
  <2>3. Cardinality(gone) * 100 <= MaxDeletePercent(t) * t
    BY <1>2, <2>1, <2>2 DEF Excessive
  <2>. QED  BY <1>2, <2>1, <2>2, <2>3 DEF Within
<1>. QED  BY <1>2, <1>3, <1>4

\* A bisync that is refused, with the count of the files it remembers.
LEMMA BeyondNumber ==
  ASSUME NEW t, TypeOK, t = Cardinality(tracked), seen.total = t,
         NEW gone \in Deletions, Excessive(gone)
  PROVE  Cardinality(gone) > MaxFiles
<1>1. gone \in SUBSET tracked /\ tracked \in SUBSET Files
  BY DEF Deletions, TypeOK
<1>2. t \in Nat /\ Cardinality(gone) \in Nat /\ Cardinality(gone) <= t
  BY <1>1, Sizes
<1>3. MaxFiles \in Nat
  BY MaxFilesFacts
<1>4. Cardinality(gone) * 100 > MaxDeletePercent(t) * t
  BY DEF Excessive
<1>5. CASE t = 0
  <2>1. MaxDeletePercent(t) \in Nat
    BY <1>5 DEF MaxDeletePercent, Clamped, DefaultPercent
  <2>2. MaxDeletePercent(t) * t = 0
    BY <1>5, <2>1
  <2> QED
    BY <1>2, <1>4, <1>5, <2>2
<1>6. CASE t > 0
  <2>1. /\ MaxDeletePercent(t) \in Nat
        /\ MaxDeletePercent(t) = 100 \/ MaxDeletePercent(t) * t >= MaxFiles * 100
    BY <1>2, <1>6, PercentFacts
  <2>2. CASE MaxDeletePercent(t) = 100
    BY <1>2, <1>4, <2>2
  <2>3. CASE MaxDeletePercent(t) * t >= MaxFiles * 100
    <3>1. MaxDeletePercent(t) * t \in Nat
      BY <1>2, <2>1
    <3> QED
      BY <1>2, <1>3, <1>4, <2>3, <3>1
  <2> QED
    BY <2>1, <2>2, <2>3
<1> QED
  BY <1>2, <1>5, <1>6

-----------------------------------------------------------------------------
(* Each step keeps it *)

\* Steps that are not the end of an incremental bisync keep what is said of it.
LEMMA LastStays ==
  ASSUME Inv, last' = last
  PROVE  DeletionsWithinNumber' /\ AllowedIsNotRefused'
BY DEF Inv, DeletionsWithinNumber, AllowedIsNotRefused

LEMMA EditsKeepInv ==
  ASSUME Inv, NEW f \in Files, EditFolder(f) \/ EditRemote(f)
  PROVE  Inv'
<1>1. TypeOK'
  <2>1. local' \subseteq Files /\ remote' \subseteq Files /\ tracked' \subseteq Files
    BY DEF Inv, TypeOK, EditFolder, EditRemote
  <2>2. /\ row' = row /\ seen' = seen /\ pc' = pc /\ last' = last
        /\ late' = IF pc = "forced" THEN late \cup {f} ELSE late
    BY DEF EditFolder, EditRemote, Edits
  <2>3. drift' \in BOOLEAN /\ (drift' => row'.synced \/ pc' = "count")
    <3>1. drift \in BOOLEAN /\ (drift => row.synced \/ pc = "count")
      BY Zenon DEF Inv, TypeOK
    <3>2. drift' = drift \/ drift' = (drift \/ pc = "count")
      BY Zenon DEF EditFolder, EditRemote
    <3>3. drift \/ pc = "count" => row.synced \/ pc = "count"
      BY <3>1, Zenon
    <3>4. (drift \/ pc = "count") \in BOOLEAN
      OBVIOUS
    <3>5. CASE drift' = drift
      BY <2>2, <3>1, <3>5
    <3>6. CASE drift' = (drift \/ pc = "count")
      <4>1. drift' \in BOOLEAN
        BY <3>4, <3>6
      <4> QED
        BY <2>2, <3>3, <3>6, <4>1
    <3> QED
      BY <3>2, <3>5, <3>6
  <2>4. edits' \in 0 .. MaxEdits
    BY DeletionGuardAssumption DEF Inv, TypeOK, EditFolder, EditRemote, Edits
  <2>5. /\ row' \in Rows /\ seen' \in Rows /\ (row'.synced \/ row'.total = 0)
        /\ pc' \in {"none", "bisync", "forced", "count"}
        /\ last' \in [before : SUBSET Files, gone : SUBSET SUBSET Files, late : SUBSET Files,
                      result : {"none", "synced", "refused"}, drift : BOOLEAN]
    BY <2>2, Zenon DEF Inv, TypeOK
  <2>6. late' \subseteq Files /\ (pc' # "forced" => late' = {})
    BY <2>2 DEF Inv, TypeOK
  <2> QED
    BY <2>1, <2>3, <2>4, <2>5, <2>6, Zenon DEF TypeOK, Rows
<1>2. CountIsCurrent'
  <2>1. CASE EditFolder(f)
    BY <2>1 DEF Inv, TypeOK, CountIsCurrent, EditFolder
  <2>2. CASE EditRemote(f)
    BY <2>2 DEF Inv, CountIsCurrent, EditRemote
  <2> QED
    BY <2>1, <2>2
<1>3. ForcedIsLimited'
  <2>1. UNCHANGED <<pc, tracked>> /\ (~drift' => ~drift)
    BY DEF EditFolder, EditRemote, Inv, TypeOK
  <2> SUFFICES ASSUME pc = "forced", ~drift, NEW gone \in Deletions'
               PROVE  Within(gone \ late', tracked)
    BY <2>1 DEF ForcedIsLimited, Within
  <2>2. late' = late \cup {f}
    BY DEF EditFolder, EditRemote, Edits
  <2>3. PICK old \in Deletions : gone \ {f} \subseteq old
    <3>1. gone \in {tracked \ local', tracked \ remote'}
      BY <2>1 DEF Deletions
    <3>2. local \ {f} \subseteq local' /\ remote \ {f} \subseteq remote'
      BY DEF EditFolder, EditRemote
    <3>. QED  BY <3>1, <3>2 DEF Deletions
  <2>4. Within(old \ late, tracked)
    BY DEF Inv, ForcedIsLimited
  <2>5. tracked \in SUBSET Files /\ old \ late \in SUBSET tracked
    BY DEF Inv, TypeOK, Deletions
  <2>6. gone \ late' \in SUBSET (old \ late)
    BY <2>2, <2>3
  <2>. QED  BY <2>4, <2>5, <2>6, FewerWithin
<1> QED
  BY <1>1, <1>2, <1>3, LastStays DEF Inv, EditFolder, EditRemote

LEMMA QuietKeepsInv ==
  ASSUME Inv, StartSync \/ Abort \/ UNCHANGED vars
  PROVE  Inv'
<1>1. CASE StartSync
  <2>1. TypeOK' /\ CountIsCurrent' /\ ForcedIsLimited'
    BY <1>1 DEF Inv, TypeOK, CountIsCurrent, ForcedIsLimited, StartSync, folder
  <2> QED
    BY <1>1, <2>1, LastStays DEF Inv, StartSync
<1>2. CASE Abort
  <2>1. TypeOK' /\ CountIsCurrent' /\ ForcedIsLimited'
    BY <1>2 DEF Inv, TypeOK, CountIsCurrent, ForcedIsLimited, Abort, folder
  <2> QED
    BY <1>2, <2>1, LastStays DEF Inv, Abort
<1>3. CASE UNCHANGED vars
  BY <1>3 DEF Inv, TypeOK, CountIsCurrent, ForcedIsLimited, Within, Deletions,
              DeletionsWithinNumber, AllowedIsNotRefused, vars, folder
<1> QED
  BY <1>1, <1>2, <1>3

LEMMA ResyncKeepsInv ==
  ASSUME Inv, Resync
  PROVE  Inv'
<1>1. TypeOK' /\ CountIsCurrent' /\ ForcedIsLimited'
  BY DEF Inv, TypeOK, CountIsCurrent, ForcedIsLimited, Resync, Agree
<1> QED
  BY <1>1, LastStays DEF Inv, Resync

\* With the count that belongs to it, what is repeated with --force passed the limit.
LEMMA RepeatKeepsInv ==
  ASSUME Inv, RepeatAllChanged
  PROVE  Inv'
<1>1. pc = "bisync" /\ pc' = "forced" /\ UNCHANGED <<local, remote, tracked, row, seen, drift, late, last, edits>>
  BY DEF RepeatAllChanged, Looks, folder
<1>2. TypeOK' /\ CountIsCurrent'
  BY <1>1 DEF Inv, TypeOK, CountIsCurrent
<1>3. ForcedIsLimited'
  <2> SUFFICES ASSUME ~drift, NEW gone \in Deletions PROVE Within(gone \ late, tracked)
    BY <1>1 DEF ForcedIsLimited, Deletions, Within
  <2>1. late = {} /\ gone \ late = gone
    BY <1>1 DEF Inv, TypeOK
  <2>2. seen.total = Cardinality(tracked)
    BY <1>1 DEF Inv, CountIsCurrent, RepeatAllChanged, Looks
  <2>3. ~Excessive(gone)
    BY DEF RepeatAllChanged, WithinLimit
  <2>. QED  BY <2>1, <2>2, <2>3, WithinNumber DEF Inv
<1> QED
  BY <1>1, <1>2, <1>3, LastStays DEF Inv

\* What an incremental bisync leaves in "last" is well typed.
LEMMA IncrementalType ==
  ASSUME TypeOK, NEW result \in {"synced", "refused"}, Incremental(result)
  PROVE  last' \in [before : SUBSET Files, gone : SUBSET SUBSET Files, late : SUBSET Files,
                    result : {"none", "synced", "refused"}, drift : BOOLEAN]
<1>1. /\ tracked \in SUBSET Files /\ Deletions \in SUBSET SUBSET Files /\ drift \in BOOLEAN
      /\ late \in SUBSET Files
  BY DEF TypeOK, Deletions
<1> QED
  BY <1>1 DEF Incremental

LEMMA PropagateKeepsInv ==
  ASSUME Inv, Propagate
  PROVE  Inv'
<1>1. TypeOK'
  <2>1. (local \cup remote) \ UNION Deletions \subseteq Files
    BY DEF Inv, TypeOK
  <2>2. /\ local' \subseteq Files /\ remote' \subseteq Files /\ tracked' \subseteq Files
    BY <2>1 DEF Propagate, Agree
  <2> QED
    BY <2>2, IncrementalType DEF Inv, TypeOK, Propagate
<1>2. CountIsCurrent' /\ ForcedIsLimited'
  BY DEF CountIsCurrent, ForcedIsLimited, Propagate, Agree
<1>3. DeletionsWithinNumber'
  <2> SUFFICES ASSUME ~drift, NEW gone \in Deletions PROVE Within(gone \ late, tracked)
    BY DEF DeletionsWithinNumber, Within, Propagate, Incremental
  <2>1. CASE Forced
    BY <2>1 DEF Inv, ForcedIsLimited, Forced
  <2>2. CASE Looks /\ WithinLimit
    <3>1. seen.total = Cardinality(tracked)
      BY <2>2 DEF Inv, CountIsCurrent, Looks
    <3>2. late = {} /\ gone \ late = gone /\ ~Excessive(gone)
      BY <2>2 DEF Inv, TypeOK, Looks, WithinLimit
    <3>. QED  BY <3>1, <3>2, WithinNumber DEF Inv
  <2> QED
    BY <2>1, <2>2 DEF Propagate
<1>4. AllowedIsNotRefused'
  BY DEF AllowedIsNotRefused, Propagate, Incremental
<1> QED
  BY <1>1, <1>2, <1>3, <1>4 DEF Inv

LEMMA RefuseKeepsInv ==
  ASSUME Inv, RefuseMassDeletion
  PROVE  Inv'
<1>1. TypeOK'
  BY IncrementalType DEF Inv, TypeOK, RefuseMassDeletion, Looks, folder
<1>2. CountIsCurrent' /\ ForcedIsLimited'
  BY DEF Inv, CountIsCurrent, ForcedIsLimited, RefuseMassDeletion, Looks, folder
<1>3. DeletionsWithinNumber'
  BY DEF DeletionsWithinNumber, RefuseMassDeletion, Incremental
<1>4. AllowedIsNotRefused'
  <2> SUFFICES ASSUME ~drift PROVE \E gone \in Deletions : Cardinality(gone) > MaxFiles
    BY DEF AllowedIsNotRefused, RefuseMassDeletion, Incremental
  <2>1. seen.total = Cardinality(tracked)
    BY DEF Inv, CountIsCurrent, RefuseMassDeletion, Looks
  <2>2. PICK gone \in Deletions : Excessive(gone)
    BY DEF RefuseMassDeletion, WithinLimit
  <2> QED
    BY <2>1, <2>2, BeyondNumber DEF Inv
<1> QED
  BY <1>1, <1>2, <1>3, <1>4 DEF Inv

LEMMA StoreCountKeepsInv ==
  ASSUME Inv, StoreCount
  PROVE  Inv'
<1>1. PICK scan \in Scans :
        LET n == IF scan.complete THEN scan.n ELSE seen.total IN
          row' = [total |-> n, synced |-> TRUE] /\ drift' = (drift \/ n # Cardinality(local))
  BY DEF StoreCount
<1> DEFINE n == IF scan.complete THEN scan.n ELSE seen.total
<1>2. /\ pc = "count" /\ pc' = "none"
      /\ UNCHANGED <<local, remote, tracked, seen, late, last, edits>>
  BY DEF StoreCount, folder
<1>3. n \in 0 .. Cardinality(Files)
  <2>1. local \in SUBSET Files /\ Files \in SUBSET Files
    BY DEF Inv, TypeOK
  <2>2. Cardinality(local) <= Cardinality(Files)
    BY <2>1, Sizes
  <2>3. Cardinality(local) \in Nat /\ Cardinality(Files) \in Nat
    BY <2>1, Sizes
  <2>4. scan.n \in 0 .. Cardinality(local)
    BY DEF Scans
  <2>5. seen.total \in 0 .. Cardinality(Files)
    BY DEF Inv, TypeOK, Rows
  <2> QED
    BY <2>2, <2>3, <2>4, <2>5
<1>4. row' = [total |-> n, synced |-> TRUE] /\ drift' = (drift \/ n # Cardinality(local))
  BY <1>1
<1> HIDE DEF n
<1>5. drift' \in BOOLEAN
  BY <1>4
<1>6. TypeOK'
  BY <1>2, <1>3, <1>4, <1>5 DEF Inv, TypeOK, Rows
<1>7. CountIsCurrent'
  <2> SUFFICES ASSUME ~drift' PROVE row'.total = Cardinality(tracked)
    BY <1>2 DEF CountIsCurrent
  <2>1. ~drift /\ n = Cardinality(local)
    BY <1>4
  <2>2. local = tracked
    BY <1>2, <2>1 DEF Inv, CountIsCurrent
  <2> QED
    BY <1>4, <2>1, <2>2
<1>8. ForcedIsLimited'
  BY <1>2 DEF ForcedIsLimited
<1> QED
  BY <1>2, <1>6, <1>7, <1>8, LastStays DEF Inv

-----------------------------------------------------------------------------
(* The theorems *)

LEMMA GuardInvariance == Spec => []Inv
<1>1. Inv /\ [Next]_vars => Inv'
  BY EditsKeepInv, QuietKeepsInv, ResyncKeepsInv, RepeatKeepsInv, PropagateKeepsInv,
     RefuseKeepsInv, StoreCountKeepsInv DEF Next
<1> QED
  BY <1>1, InitInv, PTL DEF Spec

\* Every reachable state is well typed.
THEOREM GuardTypeCorrect == Spec => []TypeOK
<1>1. Inv => TypeOK
  BY DEF Inv
<1> QED
  BY <1>1, GuardInvariance, PTL

\* No sync, repeated with --force or not, lets more deletions that bisync looked at through
\* than the user's number and one percent of the files.
THEOREM NumberKept == Spec => []DeletionsWithinNumber
<1>1. Inv => DeletionsWithinNumber
  BY DEF Inv
<1> QED
  BY <1>1, GuardInvariance, PTL

\* No sync is refused for fewer deletions than the user allowed.
THEOREM AllowedPasses == Spec => []AllowedIsNotRefused
<1>1. Inv => AllowedIsNotRefused
  BY DEF Inv
<1> QED
  BY <1>1, GuardInvariance, PTL

=============================================================================
