-------------------------- MODULE RecordLockProofs --------------------------
(***************************************************************************)
(* Proofs about RecordLock.  With at most two processes on a host, the lock*)
(* file excludes and a replace is one step, whatever dies or fails and     *)
(* however long a process is suspended; a migration keeps the old text.    *)
(***************************************************************************)
EXTENDS RecordLock, TLAPS

\* A holder's lock file is its own, and a process that is about to move a lock
\* file away does so to one that a dead process of its host left.
Guarded ==
  /\ Types
  /\ \A p \in Processes : pc[p] \in Holding => lock.owner = p
  /\ \A p \in Processes : pc[p] = "reclaiming" =>
       /\ lock.owner \in Processes \ {p}
       /\ pc[lock.owner] = "gone"
       /\ HostOf[p] = HostOf[lock.owner]

\* Where no replace is under way.
Answered == {"idle", "gone", "rereading", "copying", "describing", "converting", "unlocking"}

\* A replace that holds the lock has no answer before it is done, one that is about
\* to write has the current revision, and a migration that is under way finds the
\* record as it was when it read it again.
Serial ==
  /\ Guarded
  /\ \A p \in Processes : pc[p] \in {"reading", "saving"} => reply[p] = "pending"
  /\ \A p \in Processes : pc[p] \in Answered => reply[p] # "pending"
  /\ \A p \in Processes : pc[p] = "saving" => p \in fresh
  /\ \A p \in Processes :
       pc[p] \in {"copying", "describing", "converting"} => files.form = "legacy"

\* A migration writes the backup, then its description, then the record.
InOrder ==
  /\ Types
  /\ \A p \in Processes : pc[p] \in {"describing", "converting"} => files.backup
  /\ \A p \in Processes : pc[p] = "converting" => files.manifest
  /\ BackedUp

-----------------------------------------------------------------------------
(* Type correctness *)

\* Every step of withLock keeps the variables in their types.
LEMMA StepTypes == ASSUME Types, NEW p \in Processes, Step(p) PROVE Types'
<1>1. CASE OpenLock(p)
  BY <1>1 DEF Types, OpenLock, NoLock, Goto
<1>2. CASE FillLock(p)
  BY <1>2 DEF Types, FillLock, Goto
<1>3. CASE ReadCurrent(p)
  BY <1>3, ProcessesAssumption DEF Types, ReadCurrent, Goto, Answer, Fault
<1>4. CASE Reread(p)
  BY <1>4, ProcessesAssumption DEF Types, Reread, ProceedTo, Goto, Fault
<1>5. CASE BackUp(p)
  <2>1. faults' \in 0..MaxFaults
    BY <1>5, ProcessesAssumption DEF Types, BackUp, Fault
  <2>2. files' \in [form : {"legacy", "created", "migrated"}, backup : BOOLEAN, manifest : BOOLEAN]
    BY <1>5 DEF Types, BackUp
  <2>3. QED
    BY <1>5, <2>1, <2>2 DEF Types, BackUp, Goto
<1>6. CASE Describe(p)
  <2>1. faults' \in 0..MaxFaults
    BY <1>6, ProcessesAssumption DEF Types, Describe, Fault
  <2>2. files' \in [form : {"legacy", "created", "migrated"}, backup : BOOLEAN, manifest : BOOLEAN]
    BY <1>6 DEF Types, Describe
  <2>3. QED
    BY <1>6, <2>1, <2>2 DEF Types, Describe, Goto
<1>7. CASE Convert(p)
  BY <1>7, ProcessesAssumption DEF Types, Convert, Goto, Fault
<1>8. CASE SaveRecord(p)
  BY <1>8, ProcessesAssumption DEF Types, SaveRecord, Goto, Answer, Fault
<1>9. CASE Unlock(p)
  BY <1>9 DEF Types, Unlock, NoLock, Goto
<1>10. CASE Inspect(p)
  BY <1>10 DEF Types, Inspect, Goto
<1>11. CASE Reclaim(p)
  BY <1>11 DEF Types, Reclaim, NoLock, Goto
<1>12. CASE Retry(p)
  BY <1>12 DEF Types, Retry, Goto, Answer, Throw
<1>13. QED
  BY <1>1, <1>2, <1>3, <1>4, <1>5, <1>6, <1>7, <1>8, <1>9, <1>10, <1>11, <1>12 DEF Step

\* Every step of the system does.
LEMMA NextTypes == ASSUME Types, Next PROVE Types'
<1>1. ASSUME NEW p \in Processes, Load(p) PROVE Types'
  BY <1>1 DEF Types, Load
<1>2. ASSUME NEW p \in Processes, Replace(p) PROVE Types'
  BY <1>2 DEF Types, Replace, Goto, Answer
<1>3. ASSUME NEW p \in Processes, Migrate(p) PROVE Types'
  BY <1>3 DEF Types, Migrate, Goto, Answer
<1>4. ASSUME NEW p \in Processes, Step(p) PROVE Types'
  BY <1>4, StepTypes
<1>5. ASSUME NEW p \in Processes, FillFails(p) PROVE Types'
  BY <1>5, ProcessesAssumption DEF Types, FillFails, Fault, Goto, Answer, Throw
<1>6. ASSUME NEW p \in Processes, UnlockFails(p) PROVE Types'
  BY <1>6, ProcessesAssumption DEF Types, UnlockFails, Fault, Goto, Answer
<1>11. ASSUME NEW p \in Processes, ReclaimFails(p) PROVE Types'
  <2>1. lock' \in [owner : Processes \cup {Nobody}, written : BOOLEAN, expired : BOOLEAN]
    <3>1. CASE lock' = lock
      BY <3>1 DEF Types
    <3>2. CASE lock' = NoLock
      BY <3>2 DEF NoLock
    <3>3. QED
      BY <1>11, <3>1, <3>2 DEF ReclaimFails
  <2>2. reply' \in [Processes -> {"none", "pending", "saved", "stale", "failed"}]
    BY <1>11 DEF Types, ReclaimFails, Throw, Answer
  <2>3. QED
    BY <1>11, <2>1, <2>2 DEF Types, ReclaimFails, Goto
<1>7. ASSUME NEW p \in Processes, Crash(p) PROVE Types'
  BY <1>7, ProcessesAssumption DEF Types, Crash, Fault, Goto, Answer
<1>8. ASSUME NEW p \in Processes, Restart(p) PROVE Types'
  BY <1>8 DEF Types, Restart, Goto
<1>9. CASE LockExpires
  BY <1>9 DEF Types, LockExpires
<1>10. QED
  BY <1>1, <1>2, <1>3, <1>4, <1>5, <1>6, <1>7, <1>8, <1>9, <1>11 DEF Next

-----------------------------------------------------------------------------
(* Exclusion *)

\* Every step of withLock keeps the lock with its holder.  Only Reclaim removes
\* a lock file of another process: at that point the file's owner is dead, and the
\* third process that could have replaced the file is not on this host.
LEMMA StepGuarded ==
  ASSUME Paired, Guarded, NEW p \in Processes, Step(p)
  PROVE  Guarded'
<1>1. Types'
  BY StepTypes DEF Guarded
<1>2. CASE OpenLock(p)
  BY <1>1, <1>2, ProcessesAssumption DEF Guarded, Types, OpenLock, NoLock, Goto, Holding
<1>3. CASE FillLock(p)
  BY <1>1, <1>3 DEF Guarded, Types, FillLock, Goto, Holding
<1>4. CASE ReadCurrent(p)
  BY <1>1, <1>4 DEF Guarded, Types, ReadCurrent, Goto, Holding
<1>5. CASE Reread(p)
  BY <1>1, <1>5 DEF Guarded, Types, Reread, ProceedTo, Goto, Holding
<1>6. CASE BackUp(p) \/ Describe(p) \/ Convert(p)
  BY <1>1, <1>6 DEF Guarded, Types, BackUp, Describe, Convert, Goto, Holding
<1>7. CASE SaveRecord(p)
  BY <1>1, <1>7 DEF Guarded, Types, SaveRecord, Goto, Holding
<1>8. CASE Unlock(p)
  BY <1>1, <1>8, ProcessesAssumption DEF Guarded, Types, Unlock, NoLock, Goto, Holding
<1>9. CASE Inspect(p)
  BY <1>1, <1>9, ProcessesAssumption
  DEF Guarded, Types, Inspect, Reclaimable, ProvedDead, Goto, Holding
<1>10. CASE Reclaim(p)
  <2>1. \A q \in Processes : pc[q] \notin Holding
    BY <1>10 DEF Guarded, Reclaim, Holding
  <2>2. \A q \in Processes : pc[q] = "reclaiming" => q = p
    BY <1>10 DEF Guarded, Reclaim, Paired
  <2>3. QED
    BY <1>1, <1>10, <2>1, <2>2 DEF Guarded, Types, Reclaim, Goto, Holding
<1>11. CASE Retry(p)
  BY <1>1, <1>11 DEF Guarded, Types, Retry, Goto, Holding
<1>12. QED
  BY <1>2, <1>3, <1>4, <1>5, <1>6, <1>7, <1>8, <1>9, <1>10, <1>11 DEF Step

\* Every step of the system does: a process that dies has nothing of its own moved
\* before it is dead, and one that left a lock does not come back.
LEMMA NextGuarded == ASSUME Paired, Guarded, Next PROVE Guarded'
<1>1. Types'
  BY NextTypes DEF Guarded
<1>2. ASSUME NEW p \in Processes, Load(p) PROVE Guarded'
  BY <1>1, <1>2 DEF Guarded, Load
<1>3. ASSUME NEW p \in Processes, Replace(p) PROVE Guarded'
  BY <1>1, <1>3 DEF Guarded, Types, Replace, Goto, Holding
<1>4. ASSUME NEW p \in Processes, Migrate(p) PROVE Guarded'
  BY <1>1, <1>4 DEF Guarded, Types, Migrate, Goto, Holding
<1>5. ASSUME NEW p \in Processes, Step(p) PROVE Guarded'
  BY <1>5, StepGuarded
<1>6. ASSUME NEW p \in Processes, FillFails(p) PROVE Guarded'
  BY <1>1, <1>6 DEF Guarded, Types, FillFails, Goto, Holding
<1>7. ASSUME NEW p \in Processes, UnlockFails(p) PROVE Guarded'
  BY <1>1, <1>7 DEF Guarded, Types, UnlockFails, Goto, Holding
<1>12. ASSUME NEW p \in Processes, ReclaimFails(p) PROVE Guarded'
  <2>1. \A q \in Processes : pc[q] \notin Holding
    BY <1>12 DEF Guarded, ReclaimFails, Holding
  <2>2. \A q \in Processes : pc[q] = "reclaiming" => q = p
    BY <1>12 DEF Guarded, ReclaimFails, Paired
  <2>3. QED
    BY <1>1, <1>12, <2>1, <2>2 DEF Guarded, Types, ReclaimFails, Goto, Holding
<1>8. ASSUME NEW p \in Processes, Crash(p) PROVE Guarded'
  BY <1>1, <1>8 DEF Guarded, Types, Crash, Goto, Holding
<1>9. ASSUME NEW p \in Processes, Restart(p) PROVE Guarded'
  BY <1>1, <1>9 DEF Guarded, Types, Restart, Goto, Holding
<1>10. CASE LockExpires
  BY <1>1, <1>10 DEF Guarded, Types, LockExpires, Holding
<1>11. QED
  BY <1>2, <1>3, <1>4, <1>5, <1>6, <1>7, <1>8, <1>9, <1>10, <1>12 DEF Next

\* A holder keeps its lock file in every behaviour.
LEMMA GuardedAlways == ASSUME Paired PROVE Spec => []Guarded
<1>1. Init => Guarded
  BY ProcessesAssumption DEF Init, Guarded, Types, NoLock, Holding
<1>2. Guarded /\ [Next]_vars => Guarded'
  <2>1. SUFFICES ASSUME Guarded, UNCHANGED vars PROVE Guarded'
    BY NextGuarded
  <2>2. QED
    BY <2>1 DEF Guarded, Types, Holding, vars
<1>3. QED
  BY <1>1, <1>2, PTL DEF Spec

\* The lock of a record excludes when no third process of a host can have
\* reclaimed the lock file that a second one is about to reclaim.
THEOREM OneHolderHolds == ASSUME Paired PROVE Spec => []OneHolder
<1>1. Guarded => OneHolder
  BY DEF Guarded, OneHolder
<1>2. Spec => []Guarded
  BY GuardedAlways
<1>3. QED
  BY <1>1, <1>2, PTL

-----------------------------------------------------------------------------
(* Refinement *)

\* A replace has no answer until it gives up or is done, the revision it found
\* current stays current while it holds the lock, and so does the old schema that
\* a migration found.
LEMMA NextSerial == ASSUME Paired, Serial, Next PROVE Serial'
<1>1. Guarded'
  BY NextGuarded DEF Serial
<1>2. Types
  BY DEF Serial, Guarded, Answered
<1>3. ASSUME NEW p \in Processes, Step(p) PROVE Serial'
  <2>1. CASE SaveRecord(p)
    <3>1. \A q \in Processes : pc[q] = "saving" => q = p
      BY <2>1 DEF Serial, Guarded, SaveRecord, Holding
    <3>2. QED
      BY <1>1, <1>2, <2>1, <3>1 DEF Serial, Types, SaveRecord, Goto, Answer, Answered
  <2>2. CASE ReadCurrent(p)
    BY <1>1, <1>2, <2>2 DEF Serial, Types, ReadCurrent, Goto, Answer, Answered
  <2>3. CASE Retry(p)
    BY <1>1, <1>2, <2>3 DEF Serial, Types, Retry, Throw, Replacing, Goto, Answer, Answered
  <2>4. CASE FillLock(p)
    BY <1>1, <1>2, <2>4 DEF Serial, Types, FillLock, Replacing, Goto, Answered
  <2>5. CASE Reread(p)
    BY <1>1, <1>2, <2>5 DEF Serial, Types, Reread, ProceedTo, Goto, Answered
  <2>6. CASE BackUp(p) \/ Describe(p)
    BY <1>1, <1>2, <2>6 DEF Serial, Types, BackUp, Describe, Goto, Answered
  <2>7. CASE Convert(p)
    <3>1. \A q \in Processes : pc[q] \in Holding => q = p
      BY <2>7 DEF Serial, Guarded, Convert, Holding
    <3>2. QED
      BY <1>1, <1>2, <2>7, <3>1 DEF Serial, Types, Convert, Goto, Holding, Answered
  <2>8. CASE OpenLock(p) \/ Unlock(p) \/ Inspect(p) \/ Reclaim(p)
    BY <1>1, <1>2, <2>8 DEF Serial, Types, OpenLock, Unlock, Inspect, Reclaim, Goto, Answered
  <2>9. QED
    BY <1>3, <2>1, <2>2, <2>3, <2>4, <2>5, <2>6, <2>7, <2>8 DEF Step
<1>4. ASSUME NEW p \in Processes, Load(p) PROVE Serial'
  BY <1>1, <1>2, <1>4 DEF Serial, Types, Load, Answered
<1>5. ASSUME NEW p \in Processes, Replace(p) PROVE Serial'
  BY <1>1, <1>2, <1>5 DEF Serial, Types, Replace, Goto, Answer, Answered
<1>6. ASSUME NEW p \in Processes, Migrate(p) PROVE Serial'
  BY <1>1, <1>2, <1>6 DEF Serial, Types, Migrate, Goto, Answer, Answered
<1>7. ASSUME NEW p \in Processes, FillFails(p) PROVE Serial'
  BY <1>1, <1>2, <1>7 DEF Serial, Types, FillFails, Throw, Replacing, Goto, Answer, Answered
<1>8. ASSUME NEW p \in Processes, UnlockFails(p) PROVE Serial'
  BY <1>1, <1>2, <1>8 DEF Serial, Types, UnlockFails, Goto, Answer, Answered
<1>13. ASSUME NEW p \in Processes, ReclaimFails(p) PROVE Serial'
  BY <1>1, <1>2, <1>13 DEF Serial, Types, ReclaimFails, Throw, Replacing, Goto, Answer, Answered
<1>9. ASSUME NEW p \in Processes, Crash(p) PROVE Serial'
  BY <1>1, <1>2, <1>9 DEF Serial, Types, Crash, Goto, Answer, Answered
<1>10. ASSUME NEW p \in Processes, Restart(p) PROVE Serial'
  BY <1>1, <1>2, <1>10 DEF Serial, Types, Restart, Goto, Answered
<1>11. CASE LockExpires
  BY <1>1, <1>11 DEF Serial, LockExpires, Answered
<1>12. QED
  BY <1>3, <1>4, <1>5, <1>6, <1>7, <1>8, <1>9, <1>10, <1>11, <1>13 DEF Next

\* Each step under the lock is a step of the record, or none: to its readers, a
\* migration is a load.
LEMMA StepVersioned ==
  ASSUME Serial, NEW p \in Processes, Step(p)
  PROVE  Store!Next \/ UNCHANGED Store!vars
<1>1. CASE OpenLock(p) \/ FillLock(p) \/ Unlock(p) \/ Inspect(p) \/ Reclaim(p)
            \/ BackUp(p) \/ Describe(p)
  BY <1>1 DEF OpenLock, FillLock, Unlock, Inspect, Reclaim, BackUp, Describe, Store!vars
<1>2. CASE ReadCurrent(p)
  <2>1. reply[p] = "pending"
    BY <1>2 DEF Serial, ReadCurrent
  <2>2. Store!Lose(p) \/ Store!Fail(p) \/ UNCHANGED Store!vars
    BY <1>2, <2>1
    DEF ReadCurrent, Answer, Store!Lose, Store!Fail, Store!Answer, Store!vars
  <2>3. QED
    BY <2>2 DEF Store!Next
<1>3. CASE SaveRecord(p)
  <2>1. reply[p] = "pending" /\ p \in fresh
    BY <1>3 DEF Serial, SaveRecord
  <2>2. Store!Win(p) \/ Store!Fail(p) \/ Store!Doubt(p)
    BY <1>3, <2>1
    DEF SaveRecord, Answer, Store!Win, Store!Fail, Store!Doubt, Store!Answer
  <2>3. QED
    BY <2>2 DEF Store!Next
<1>4. CASE Retry(p)
  <2>1. Store!Fail(p) \/ UNCHANGED Store!vars
    BY <1>4 DEF Retry, Throw, Replacing, Answer, Store!Fail, Store!Answer, Store!vars
  <2>2. QED
    BY <2>1 DEF Store!Next
<1>5. CASE Reread(p) \/ Convert(p)
  <2>1. Store!Load(p) \/ UNCHANGED Store!vars
    BY <1>5 DEF Serial, Reread, Convert, Store!Load, Store!vars
  <2>2. QED
    BY <2>1 DEF Store!Next
<1>6. QED
  BY <1>1, <1>2, <1>3, <1>4, <1>5 DEF Step

\* So is each step of the system.
LEMMA NextVersioned ==
  ASSUME Serial, [Next]_vars
  PROVE  [Store!Next]_(Store!vars)
<1>1. ASSUME NEW p \in Processes, Step(p) PROVE Store!Next \/ UNCHANGED Store!vars
  BY <1>1, StepVersioned
<1>2. ASSUME NEW p \in Processes, Load(p) PROVE Store!Next
  BY <1>2 DEF Load, Store!Load, Store!Next
<1>3. ASSUME NEW p \in Processes, Replace(p) PROVE Store!Next
  BY <1>3 DEF Replace, Answer, Store!Call, Store!Answer, Store!Next
<1>4. ASSUME NEW p \in Processes, Migrate(p) PROVE Store!Next
  <2>1. reply[p] # "pending"
    BY <1>4 DEF Serial, Migrate, Answered
  <2>2. Store!Rest(p)
    BY <1>4, <2>1 DEF Migrate, Answer, Store!Rest, Store!Answer
  <2>3. QED
    BY <2>2 DEF Store!Next
<1>5. ASSUME NEW p \in Processes, Restart(p) PROVE UNCHANGED Store!vars
  BY <1>5 DEF Restart, Store!vars
<1>6. ASSUME NEW p \in Processes, FillFails(p) PROVE Store!Next \/ UNCHANGED Store!vars
  <2>1. Store!Fail(p) \/ UNCHANGED Store!vars
    BY <1>6
    DEF FillFails, Throw, Replacing, Answer, Store!Fail, Store!Answer, Store!vars
  <2>2. QED
    BY <2>1 DEF Store!Next
<1>12. ASSUME NEW p \in Processes, ReclaimFails(p) PROVE Store!Next \/ UNCHANGED Store!vars
  <2>1. Store!Fail(p) \/ UNCHANGED Store!vars
    BY <1>12
    DEF ReclaimFails, Throw, Replacing, Answer, Store!Fail, Store!Answer, Store!vars
  <2>2. QED
    BY <2>1 DEF Store!Next
<1>7. ASSUME NEW p \in Processes, UnlockFails(p) PROVE Store!Next \/ UNCHANGED Store!vars
  <2>1. Store!Mislay(p) \/ UNCHANGED Store!vars
    BY <1>7 DEF UnlockFails, Answer, Store!Mislay, Store!Answer, Store!vars
  <2>2. QED
    BY <2>1 DEF Store!Next
<1>8. ASSUME NEW p \in Processes, Crash(p) PROVE Store!Next
  BY <1>8 DEF Crash, Answer, Store!Die, Store!Answer, Store!Next
<1>9. CASE LockExpires
  BY <1>9 DEF LockExpires, Store!vars
<1>10. CASE UNCHANGED vars
  BY <1>10 DEF vars, Store!vars
<1>11. QED
  BY <1>1, <1>2, <1>3, <1>4, <1>5, <1>6, <1>7, <1>8, <1>9, <1>10, <1>12 DEF Next

\* StateRepository.replace implements the record that is replaced in one step by
\* a caller whose copy is current: the assumption TaskEngine makes of its store.  A
\* migration changes nothing that its callers can tell.
THEOREM VersionedHolds == ASSUME Paired PROVE Spec => Versioned
<1>1. Init => Serial
  BY ProcessesAssumption DEF Init, Serial, Guarded, Types, NoLock, Holding, Answered
<1>2. Serial /\ [Next]_vars => Serial'
  <2>1. SUFFICES ASSUME Serial, UNCHANGED vars PROVE Serial'
    BY NextSerial
  <2>2. QED
    BY <2>1 DEF Serial, Guarded, Types, Holding, Answered, vars
<1>3. Init => Store!Init
  BY DEF Init, Store!Init
<1>4. Serial /\ [Next]_vars => [Store!Next]_(Store!vars)
  BY NextVersioned
<1>5. QED
  BY <1>1, <1>2, <1>3, <1>4, PTL DEF Spec, Versioned, Store!Spec

-----------------------------------------------------------------------------
(* Migration *)

\* The order of the three writes survives every step, whoever holds the lock.
LEMMA NextInOrder == ASSUME InOrder, Next PROVE InOrder'
<1>1. Types'
  BY NextTypes DEF InOrder
<1>2. ASSUME NEW p \in Processes, Step(p) PROVE InOrder'
  <2>1. CASE Reread(p) \/ BackUp(p)
    BY <1>1, <2>1 DEF InOrder, BackedUp, Types, Reread, BackUp, ProceedTo, Goto
  <2>2. CASE Describe(p) \/ Convert(p)
    BY <1>1, <2>2 DEF InOrder, BackedUp, Types, Describe, Convert, Goto
  <2>3. CASE FillLock(p) \/ ReadCurrent(p) \/ SaveRecord(p)
    BY <1>1, <2>3 DEF InOrder, BackedUp, Types, FillLock, ReadCurrent, SaveRecord, Goto
  <2>4. CASE OpenLock(p) \/ Unlock(p) \/ Inspect(p) \/ Reclaim(p) \/ Retry(p)
    BY <1>1, <2>4
    DEF InOrder, BackedUp, Types, OpenLock, Unlock, Inspect, Reclaim, Retry, Goto
  <2>5. QED
    BY <1>2, <2>1, <2>2, <2>3, <2>4 DEF Step
<1>3. ASSUME NEW p \in Processes, Load(p) \/ Replace(p) \/ Migrate(p) PROVE InOrder'
  BY <1>1, <1>3 DEF InOrder, BackedUp, Types, Load, Replace, Migrate, Goto
<1>4. ASSUME NEW p \in Processes, FillFails(p) \/ UnlockFails(p) \/ ReclaimFails(p) PROVE InOrder'
  BY <1>1, <1>4 DEF InOrder, BackedUp, Types, FillFails, UnlockFails, ReclaimFails, Goto
<1>5. ASSUME NEW p \in Processes, Crash(p) \/ Restart(p) PROVE InOrder'
  BY <1>1, <1>5 DEF InOrder, BackedUp, Types, Crash, Restart, Goto
<1>6. CASE LockExpires
  BY <1>1, <1>6 DEF InOrder, BackedUp, Types, LockExpires
<1>7. QED
  BY <1>2, <1>3, <1>4, <1>5, <1>6 DEF Next

\* A record of the old schema is replaced only when its text and its description
\* are kept: whoever dies in between, and even where the lock does not exclude.
THEOREM BackedUpHolds == Spec => []BackedUp
<1>1. Init => InOrder
  BY ProcessesAssumption DEF Init, InOrder, BackedUp, Types, NoLock
<1>2. InOrder /\ [Next]_vars => InOrder'
  <2>1. SUFFICES ASSUME InOrder, UNCHANGED vars PROVE InOrder'
    BY NextInOrder
  <2>2. QED
    BY <2>1 DEF InOrder, BackedUp, Types, vars
<1>3. InOrder => BackedUp
  BY DEF InOrder
<1>4. QED
  BY <1>1, <1>2, <1>3, PTL DEF Spec
=============================================================================
