------------------------- MODULE WorkspaceLockProofs -------------------------
(***************************************************************************)
(* Proofs about WorkspaceLock: for any number of workers and hosts, and    *)
(* however many of them die or fail, a directory has one editor, and the   *)
(* lock is the one of EditorLock.                                          *)
(***************************************************************************)
EXTENDS WorkspaceLock, TLAPS

Labels == {"idle", "trying", "taking", "editing", "leaving", "freeing", "gone"}

\* From the claim to the release the record names the worker.
OwnersHold == \A w \in Workers : pc[w] \in {"editing", "leaving", "freeing"} => owner = w

\* A worker whose read is still current when it is about to claim claims from
\* nobody or from the dead: the dead stay dead while the record names them.
ClaimsAreFree ==
  \A w \in Workers : pc[w] = "taking" /\ w \in fresh => owner = Nobody \/ pc[owner] = "gone"

Inv == TypeOK /\ OwnersHold /\ ClaimsAreFree

-----------------------------------------------------------------------------
(* What the shared parts of the actions do *)

LEMMA GotoFacts ==
  ASSUME TypeOK, NEW w \in Workers, NEW label \in Labels, Goto(w, label)
  PROVE  /\ pc' \in [Workers -> Labels]
         /\ pc'[w] = label
         /\ \A v \in Workers : v # w => pc'[v] = pc[v]
  BY DEF TypeOK, Goto, Labels

LEMMA BeatFacts ==
  ASSUME TypeOK, NEW w \in Workers, NEW label \in {"idle", "loaded", "failed"}, Beat(w, label)
  PROVE  /\ beat' \in [Workers -> {"idle", "loaded", "failed"}]
         /\ beat'[w] = label
         /\ \A v \in Workers : v # w => beat'[v] = beat[v]
  BY DEF TypeOK, Beat

LEMMA FaultFacts ==
  ASSUME TypeOK, NEW w \in Workers, Fault(w) \/ UNCHANGED faults
  PROVE  faults' \in 0..MaxFaults
  BY WorkersAssumption DEF TypeOK, Fault

LEMMA InitialInv == Init => Inv
<1> SUFFICES ASSUME Init
             PROVE  Inv
  OBVIOUS
<1>1. faults \in 0..MaxFaults
  BY WorkersAssumption DEF Init
<1>2. pc \in [Workers -> Labels] /\ \A w \in Workers : pc[w] = "idle"
  BY DEF Init, Labels
<1>3. beat \in [Workers -> {"idle", "loaded", "failed"}] /\ \A w \in Workers : beat[w] = "idle"
  BY DEF Init
<1>4. TypeOK
  BY <1>1, <1>2, <1>3 DEF Init, TypeOK, Labels
<1>5. OwnersHold /\ ClaimsAreFree
  BY <1>2 DEF OwnersHold, ClaimsAreFree
<1>6. QED
  BY <1>4, <1>5 DEF Inv

-----------------------------------------------------------------------------
(* Each action keeps the invariant *)

LEMMA BeginKeepsInv ==
  ASSUME Inv, NEW w \in Workers, Begin(w)
  PROVE  Inv'
<1>1. TypeOK /\ Goto(w, "trying") /\ pc[w] = "idle" /\ UNCHANGED <<owner, expired, fresh, beat, faults>>
  BY DEF Inv, Begin
<1>2. /\ pc' \in [Workers -> Labels] /\ pc'[w] = "trying"
      /\ \A v \in Workers : v # w => pc'[v] = pc[v]
  BY <1>1, GotoFacts DEF Labels
<1>3. QED
  BY <1>1, <1>2 DEF Inv, TypeOK, OwnersHold, ClaimsAreFree, Labels

LEMMA ExamineKeepsInv ==
  ASSUME Inv, NEW w \in Workers, Examine(w)
  PROVE  Inv'
<1> DEFINE next == IF Takeable(w) THEN "taking" ELSE "gone"
<1>1. TypeOK /\ Goto(w, next) /\ pc[w] = "trying" /\ UNCHANGED <<owner, expired, beat, faults>>
  BY DEF Inv, Examine, Read
<1>2. next \in {"taking", "gone"} /\ (next = "taking" => owner = Nobody \/ pc[owner] = "gone")
  BY DEF Takeable, ProvedDead
<1>3. /\ pc' \in [Workers -> Labels] /\ pc'[w] = next
      /\ \A v \in Workers : v # w => pc'[v] = pc[v]
  <2>1. next \in Labels
    BY <1>2 DEF Labels
  <2> HIDE DEF next
  <2>2. QED
    BY <1>1, <2>1, GotoFacts
<1>4. fresh' = fresh \cup {w} /\ owner' = owner
  BY DEF Examine, Read
<1> HIDE DEF next
<1>5. TypeOK'
  BY <1>1, <1>2, <1>3, <1>4 DEF TypeOK, Labels
<1>6. OwnersHold'
  BY <1>2, <1>3, <1>4 DEF Inv, OwnersHold
<1>7. ClaimsAreFree'
  <2> SUFFICES ASSUME NEW v \in Workers, pc'[v] = "taking", v \in fresh'
               PROVE  owner' = Nobody \/ pc'[owner'] = "gone"
    BY DEF ClaimsAreFree
  <2>1. owner = Nobody \/ pc[owner] = "gone"
    BY <1>2, <1>3, <1>4 DEF Inv, ClaimsAreFree
  <2>2. QED
    BY <2>1, <1>1, <1>3, <1>4 DEF TypeOK
<1>8. QED
  BY <1>5, <1>6, <1>7 DEF Inv

\* The claim: whoever held the lock before is dead.
LEMMA ClaimKeepsInv ==
  ASSUME Inv, NEW w \in Workers, NEW label \in {"editing", "gone"},
         pc[w] = "taking", w \in fresh, Write(w), Goto(w, label),
         Fault(w) \/ UNCHANGED faults, UNCHANGED beat
  PROVE  Inv'
<1>1. /\ pc' \in [Workers -> Labels] /\ pc'[w] = label
      /\ \A v \in Workers : v # w => pc'[v] = pc[v]
  BY GotoFacts DEF Inv, Labels
<1>2. owner' = w /\ expired' = FALSE /\ fresh' = {}
  BY DEF Write
<1>3. owner = Nobody \/ pc[owner] = "gone"
  BY DEF Inv, ClaimsAreFree
<1>4. TypeOK'
  BY <1>1, <1>2, FaultFacts DEF Inv, TypeOK, Labels
<1>5. OwnersHold'
  <2> SUFFICES ASSUME NEW v \in Workers, pc'[v] \in {"editing", "leaving", "freeing"}, v # w
               PROVE  FALSE
    BY <1>2 DEF OwnersHold
  <2>1. owner = v /\ pc[v] # "gone"
    BY <1>1 DEF Inv, OwnersHold
  <2>2. QED
    BY <2>1, <1>3, WorkersAssumption
<1>6. ClaimsAreFree'
  BY <1>2 DEF ClaimsAreFree
<1>7. QED
  BY <1>4, <1>5, <1>6 DEF Inv

LEMMA TakeKeepsInv ==
  ASSUME Inv, NEW w \in Workers, Take(w)
  PROVE  Inv'
<1>1. pc[w] = "taking" /\ UNCHANGED beat
  BY DEF Take
<1>2. CASE w \in fresh /\ Write(w) /\ Goto(w, "editing") /\ UNCHANGED faults
  BY <1>1, <1>2, ClaimKeepsInv
<1>3. CASE w \in fresh /\ Write(w) /\ Goto(w, "gone") /\ Fault(w)
  BY <1>1, <1>3, ClaimKeepsInv
<1>4. CASE RetryOrGiveUp(w) /\ (Fault(w) \/ UNCHANGED faults)
  <2>1. PICK label \in {"trying", "gone"} : Goto(w, label)
    BY <1>4 DEF RetryOrGiveUp
  <2>2. /\ pc' \in [Workers -> Labels] /\ pc'[w] = label
        /\ \A v \in Workers : v # w => pc'[v] = pc[v]
    BY <2>1, GotoFacts DEF Inv, Labels
  <2>3. UNCHANGED <<owner, expired, fresh>>
    BY <1>4 DEF RetryOrGiveUp
  <2>4. faults' \in 0..MaxFaults
    BY <1>4, FaultFacts DEF Inv
  <2>5. QED
    BY <1>1, <2>2, <2>3, <2>4 DEF Inv, TypeOK, OwnersHold, ClaimsAreFree, Labels
<1>5. QED
  BY <1>2, <1>3, <1>4 DEF Take

LEMMA LoadBeatKeepsInv ==
  ASSUME Inv, NEW w \in Workers, LoadBeat(w)
  PROVE  Inv'
<1> DEFINE next == IF owner = w THEN "loaded" ELSE "failed"
<1>1. TypeOK /\ pc[w] = "editing" /\ Beat(w, next) /\ UNCHANGED <<owner, expired, pc, faults>>
  BY DEF Inv, LoadBeat, Read
<1>2. /\ beat' \in [Workers -> {"idle", "loaded", "failed"}]
      /\ \A v \in Workers : v # w => beat'[v] = beat[v]
  <2>1. next \in {"idle", "loaded", "failed"}
    OBVIOUS
  <2> HIDE DEF next
  <2>2. QED
    BY <1>1, <2>1, BeatFacts
<1>3. fresh' = fresh \cup {w}
  BY DEF LoadBeat, Read
<1> HIDE DEF next
<1>4. QED
  BY <1>1, <1>2, <1>3 DEF Inv, TypeOK, OwnersHold, ClaimsAreFree

LEMMA WriteBeatKeepsInv ==
  ASSUME Inv, NEW w \in Workers, WriteBeat(w)
  PROVE  Inv'
<1>1. TypeOK /\ beat[w] = "loaded" /\ pc[w] = "editing" /\ UNCHANGED pc
  BY DEF Inv, WriteBeat, TypeOK
<1>2. PICK label \in {"idle", "loaded", "failed"} : Beat(w, label)
  BY DEF WriteBeat
<1>3. /\ beat' \in [Workers -> {"idle", "loaded", "failed"}]
      /\ \A v \in Workers : v # w => beat'[v] = beat[v]
  BY <1>1, <1>2, BeatFacts
<1>4. faults' \in 0..MaxFaults
  BY <1>1, FaultFacts DEF WriteBeat
<1>5. owner' = owner /\ expired' \in BOOLEAN /\ fresh' \in {fresh, {}}
  BY <1>1 DEF WriteBeat, Write, TypeOK
<1>6. QED
  BY <1>1, <1>3, <1>4, <1>5 DEF Inv, TypeOK, OwnersHold, ClaimsAreFree

LEMMA FinishKeepsInv ==
  ASSUME Inv, NEW w \in Workers, Finish(w)
  PROVE  Inv'
<1>1. TypeOK /\ Goto(w, "leaving") /\ Beat(w, "idle") /\ pc[w] = "editing"
      /\ UNCHANGED <<owner, expired, fresh, faults>>
  BY DEF Inv, Finish
<1>2. /\ pc' \in [Workers -> Labels] /\ pc'[w] = "leaving"
      /\ \A v \in Workers : v # w => pc'[v] = pc[v]
  BY <1>1, GotoFacts DEF Labels
<1>3. /\ beat' \in [Workers -> {"idle", "loaded", "failed"}] /\ beat'[w] = "idle"
      /\ \A v \in Workers : v # w => beat'[v] = beat[v]
  BY <1>1, BeatFacts
<1>4. TypeOK'
  BY <1>1, <1>2, <1>3 DEF TypeOK, Labels
<1>5. OwnersHold' /\ ClaimsAreFree'
  BY <1>1, <1>2 DEF Inv, TypeOK, OwnersHold, ClaimsAreFree
<1>6. QED
  BY <1>4, <1>5 DEF Inv

LEMMA LoadReleaseKeepsInv ==
  ASSUME Inv, NEW w \in Workers, LoadRelease(w)
  PROVE  Inv'
<1> DEFINE next == IF owner = w THEN "freeing" ELSE "gone"
<1>1. TypeOK /\ pc[w] = "leaving" /\ Goto(w, next) /\ UNCHANGED <<owner, expired, beat, faults>>
  BY DEF Inv, LoadRelease, Read
<1>2. /\ pc' \in [Workers -> Labels] /\ pc'[w] \in {"freeing", "gone"}
      /\ \A v \in Workers : v # w => pc'[v] = pc[v]
  <2>1. next \in Labels /\ next \in {"freeing", "gone"}
    BY DEF Labels
  <2> HIDE DEF next
  <2>2. QED
    BY <1>1, <2>1, GotoFacts
<1>3. fresh' = fresh \cup {w} /\ owner = w
  BY <1>1 DEF LoadRelease, Read, Inv, OwnersHold
<1> HIDE DEF next
<1>4. TypeOK'
  BY <1>1, <1>2, <1>3 DEF TypeOK, Labels
<1>5. OwnersHold' /\ ClaimsAreFree'
  BY <1>1, <1>2, <1>3, WorkersAssumption DEF Inv, OwnersHold, ClaimsAreFree
<1>6. QED
  BY <1>4, <1>5 DEF Inv

LEMMA ReleaseKeepsInv ==
  ASSUME Inv, NEW w \in Workers, Release(w)
  PROVE  Inv'
<1>1. TypeOK /\ pc[w] = "freeing" /\ owner = w /\ UNCHANGED beat
  BY DEF Inv, Release, OwnersHold
<1>2. PICK label \in {"leaving", "gone"} : Goto(w, label)
  BY DEF Release
<1>3. /\ pc' \in [Workers -> Labels] /\ pc'[w] = label
      /\ \A v \in Workers : v # w => pc'[v] = pc[v]
  BY <1>1, <1>2, GotoFacts DEF Labels
<1>4. faults' \in 0..MaxFaults
  BY <1>1, FaultFacts DEF Release
<1>5. CASE Write(Nobody) /\ Goto(w, "gone")
  <2>1. owner' = Nobody /\ expired' = FALSE /\ fresh' = {} /\ pc'[w] = "gone"
    BY <1>1, <1>5, GotoFacts DEF Write, Labels
  <2>2. TypeOK'
    BY <1>1, <1>3, <1>4, <2>1 DEF TypeOK, Labels
  <2>3. OwnersHold' /\ ClaimsAreFree'
    BY <1>1, <1>3, <2>1 DEF Inv, OwnersHold, ClaimsAreFree
  <2>4. QED
    BY <2>2, <2>3 DEF Inv
<1>6. CASE UNCHANGED <<owner, expired, fresh>>
  <2>1. TypeOK'
    BY <1>1, <1>3, <1>4, <1>6 DEF TypeOK, Labels
  <2>2. OwnersHold' /\ ClaimsAreFree'
    BY <1>1, <1>3, <1>6, WorkersAssumption DEF Inv, OwnersHold, ClaimsAreFree
  <2>3. QED
    BY <2>1, <2>2 DEF Inv
<1>7. QED
  BY <1>5, <1>6 DEF Release

LEMMA ExpireKeepsInv ==
  ASSUME Inv, Expire
  PROVE  Inv'
  BY DEF Inv, Expire, TypeOK, OwnersHold, ClaimsAreFree

LEMMA CrashKeepsInv ==
  ASSUME Inv, NEW w \in Workers, Crash(w)
  PROVE  Inv'
<1>1. TypeOK /\ Goto(w, "gone") /\ Beat(w, "idle") /\ UNCHANGED <<owner, expired, fresh>>
  BY DEF Inv, Crash
<1>2. /\ pc' \in [Workers -> Labels] /\ pc'[w] = "gone"
      /\ \A v \in Workers : v # w => pc'[v] = pc[v]
  BY <1>1, GotoFacts DEF Labels
<1>3. /\ beat' \in [Workers -> {"idle", "loaded", "failed"}] /\ beat'[w] = "idle"
      /\ \A v \in Workers : v # w => beat'[v] = beat[v]
  BY <1>1, BeatFacts
<1>4. faults' \in 0..MaxFaults
  BY <1>1, FaultFacts DEF Crash
<1>5. TypeOK'
  BY <1>1, <1>2, <1>3, <1>4 DEF TypeOK, Labels
<1>6. OwnersHold' /\ ClaimsAreFree'
  BY <1>1, <1>2 DEF Inv, TypeOK, OwnersHold, ClaimsAreFree
<1>7. QED
  BY <1>5, <1>6 DEF Inv

\* A process comes back only as another one: the record does not name it.
LEMMA RestartKeepsInv ==
  ASSUME Inv, NEW w \in Workers, Restart(w)
  PROVE  Inv'
<1>1. TypeOK /\ Goto(w, "idle") /\ pc[w] = "gone" /\ owner # w
      /\ fresh' = fresh \ {w} /\ UNCHANGED <<owner, expired, beat, faults>>
  BY DEF Inv, Restart
<1>2. /\ pc' \in [Workers -> Labels] /\ pc'[w] = "idle"
      /\ \A v \in Workers : v # w => pc'[v] = pc[v]
  BY <1>1, GotoFacts DEF Labels
<1>3. TypeOK'
  BY <1>1, <1>2 DEF TypeOK, Labels
<1>4. OwnersHold' /\ ClaimsAreFree'
  BY <1>1, <1>2 DEF Inv, TypeOK, OwnersHold, ClaimsAreFree
<1>5. QED
  BY <1>3, <1>4 DEF Inv

LEMMA NextKeepsInv == Inv /\ [Next]_vars => Inv'
<1> SUFFICES ASSUME Inv, [Next]_vars
             PROVE  Inv'
  OBVIOUS
<1>1. CASE Expire
  BY <1>1, ExpireKeepsInv
<1>2. ASSUME NEW w \in Workers, Step(w)
      PROVE  Inv'
  BY <1>2, BeginKeepsInv, ExamineKeepsInv, TakeKeepsInv, LoadBeatKeepsInv, WriteBeatKeepsInv,
     FinishKeepsInv, LoadReleaseKeepsInv, ReleaseKeepsInv, RestartKeepsInv DEF Step
<1>3. ASSUME NEW w \in Workers, Crash(w)
      PROVE  Inv'
  BY <1>3, CrashKeepsInv
<1>4. CASE UNCHANGED vars
  BY <1>4 DEF vars, Inv, TypeOK, OwnersHold, ClaimsAreFree
<1>5. QED
  BY <1>1, <1>2, <1>3, <1>4 DEF Next

LEMMA InvHolds == Spec => []Inv
  BY InitialInv, NextKeepsInv, PTL DEF Spec

-----------------------------------------------------------------------------
(* The refinement.  A step of EditorLock is one that changes the owner, or who   *)
(* is gone; the others stutter.                                              *)

Gone == { w \in Workers : pc[w] = "gone" }

\* Who has ended after w has gone to a label.
LEMMA GoneAfterGoto ==
  ASSUME TypeOK, NEW w \in Workers, NEW label \in Labels, Goto(w, label)
  PROVE  Gone' = IF label = "gone" THEN Gone \cup {w} ELSE Gone \ {w}
  BY GotoFacts DEF Gone

LEMMA InitImplementsLock == Init => Lock!Init
  BY DEF Init, Lock!Init

\* A step that changes neither the owner nor who is gone.
LEMMA Stutters ==
  ASSUME TypeOK, NEW w \in Workers, NEW label \in Labels \ {"gone"}, pc[w] # "gone",
         Goto(w, label), UNCHANGED owner
  PROVE  UNCHANGED Lock!vars
<1>1. Gone' = Gone
  BY GoneAfterGoto DEF Gone
<1>2. QED
  BY <1>1 DEF Lock!vars, Gone

LEMMA Dies ==
  ASSUME TypeOK, NEW w \in Workers, Goto(w, "gone"), UNCHANGED owner
  PROVE  Lock!Next
<1>1. Gone' = Gone \cup {w}
  BY GoneAfterGoto DEF Labels
<1>2. Lock!Die(w)
  BY <1>1 DEF Lock!Die, Gone
<1>3. QED
  BY <1>2 DEF Lock!Next

LEMMA Claims ==
  ASSUME Inv, NEW w \in Workers, NEW label \in {"editing", "gone"},
         pc[w] = "taking", w \in fresh, Write(w), Goto(w, label)
  PROVE  Lock!Next
<1>1. owner \in {Nobody} \cup Gone /\ w \notin Gone
  BY DEF Inv, TypeOK, ClaimsAreFree, Gone
<1>2. owner' = w
  BY DEF Write
<1>3. CASE label = "editing"
  <2>1. Gone' = Gone
    BY <1>1, <1>3, GoneAfterGoto DEF Inv, Labels
  <2>2. Lock!Take(w)
    BY <1>1, <1>2, <2>1 DEF Lock!Take, Gone
  <2>3. QED
    BY <2>2 DEF Lock!Next
<1>4. CASE label = "gone"
  <2>1. Gone' = Gone \cup {w}
    BY <1>4, GoneAfterGoto DEF Inv, Labels
  <2>2. Lock!TakeAndGo(w)
    BY <1>1, <1>2, <2>1 DEF Lock!TakeAndGo, Gone
  <2>3. QED
    BY <2>2 DEF Lock!Next
<1>5. QED
  BY <1>3, <1>4

LEMMA StepImplementsLock ==
  ASSUME Inv, NEW w \in Workers, Step(w) \/ Crash(w)
  PROVE  [Lock!Next]_(Lock!vars)
<1>1. TypeOK
  BY DEF Inv
<1>2. CASE Begin(w)
  BY <1>1, <1>2, Stutters DEF Begin, Labels
<1>3. CASE Examine(w)
  <2>1. PICK label \in {"taking", "gone"} : Goto(w, label)
    BY <1>3 DEF Examine
  <2>2. QED
    BY <1>1, <1>3, <2>1, Stutters, Dies DEF Examine, Read, Labels
<1>4. CASE Take(w)
  <2>1. CASE RetryOrGiveUp(w)
    BY <1>1, <1>4, <2>1, Stutters, Dies DEF Take, RetryOrGiveUp, Labels
  <2>2. CASE ~RetryOrGiveUp(w)
    <3>1. PICK label \in {"editing", "gone"} : w \in fresh /\ Write(w) /\ Goto(w, label)
      BY <1>4, <2>2 DEF Take
    <3>2. QED
      BY <1>4, <3>1, Claims DEF Take
  <2>3. QED
    BY <2>1, <2>2
<1>5. CASE LoadBeat(w) \/ WriteBeat(w)
  BY <1>5 DEF LoadBeat, WriteBeat, Read, Write, Lock!vars
<1>6. CASE Finish(w)
  BY <1>1, <1>6, Stutters DEF Finish, Labels
<1>7. CASE LoadRelease(w)
  <2>1. PICK label \in {"freeing", "gone"} : Goto(w, label)
    BY <1>7 DEF LoadRelease
  <2>2. QED
    BY <1>1, <1>7, <2>1, Stutters, Dies DEF LoadRelease, Read, Labels
<1>8. CASE Release(w)
  <2>1. pc[w] = "freeing" /\ owner = w
    BY <1>8 DEF Release, Inv, OwnersHold
  <2>2. CASE Write(Nobody) /\ Goto(w, "gone")
    <3>1. Gone' = Gone \cup {w} /\ owner' = Nobody
      BY <1>1, <2>2, GoneAfterGoto DEF Write, Labels
    <3>2. Lock!LetGo(w)
      BY <2>1, <3>1 DEF Lock!LetGo, Gone
    <3>3. QED
      BY <3>2 DEF Lock!Next
  <2>3. CASE Goto(w, "leaving") /\ UNCHANGED owner
    BY <1>1, <2>1, <2>3, Stutters DEF Labels
  <2>4. CASE Goto(w, "gone") /\ UNCHANGED owner
    BY <1>1, <2>4, Dies
  <2>5. QED
    BY <1>8, <2>2, <2>3, <2>4 DEF Release
<1>9. CASE Restart(w)
  <2>1. Gone' = Gone \ {w}
    BY <1>1, <1>9, GoneAfterGoto DEF Restart, Labels
  <2>2. Lock!Come(w)
    BY <1>9, <2>1 DEF Restart, Lock!Come, Gone
  <2>3. QED
    BY <2>2 DEF Lock!Next
<1>10. CASE Crash(w)
  BY <1>1, <1>10, Dies DEF Crash
<1>11. QED
  BY <1>2, <1>3, <1>4, <1>5, <1>6, <1>7, <1>8, <1>9, <1>10 DEF Step

LEMMA NextImplementsLock == Inv /\ [Next]_vars => [Lock!Next]_(Lock!vars)
<1> SUFFICES ASSUME Inv, [Next]_vars
             PROVE  [Lock!Next]_(Lock!vars)
  OBVIOUS
<1>1. CASE Expire \/ UNCHANGED vars
  BY <1>1 DEF Expire, vars, Lock!vars
<1>2. CASE \E w \in Workers : Step(w) \/ Crash(w)
  BY <1>2, StepImplementsLock
<1>3. QED
  BY <1>1, <1>2 DEF Next

-----------------------------------------------------------------------------
(* The theorems *)

\* The variables of WorkspaceLock keep their types, and a heartbeat is on its way
\* only while the task of its worker is executed.
THEOREM TypesHold == Spec => []TypeOK
<1>1. Inv => TypeOK
  BY DEF Inv
<1>2. QED
  BY <1>1, InvHolds, PTL

\* However many tasks want the directory, and whatever expires, dies or fails, at
\* most one of them edits it: acquire of workspace-lock-store.ts.
THEOREM OneEditorHolds == Spec => []OneEditor
<1>1. Inv => OneEditor
  BY DEF Inv, OwnersHold, OneEditor
<1>2. QED
  BY <1>1, InvHolds, PTL

\* The records and revisions of workspace-lock-store.ts do what EditorLock
\* promises: the lock is taken only when it is free or from a worker that died,
\* and only its holder lets go of it.
THEOREM LockIsEditorLock == Spec => LockSpec
<1>1. Spec => Lock!Init /\ [][Lock!Next]_(Lock!vars)
  BY InitImplementsLock, NextImplementsLock, InvHolds, PTL DEF Spec
<1>2. QED
  BY <1>1 DEF LockSpec, Lock!Spec
=============================================================================
