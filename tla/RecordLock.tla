----------------------------- MODULE RecordLock -----------------------------
(***************************************************************************)
(* The lock file under every write of a record: StateRepository.withLock,  *)
(* replace and recoverExpiredLock of state-repository.ts.                  *)
(*                                                                         *)
(* The lock of a record is a file created exclusively, then filled with    *)
(* its owner and an expiry, and removed by name at the end.  A process     *)
(* that finds the file there reads it and, if its lease is over and its    *)
(* owner is dead, moves it away; the move names the path, not the file     *)
(* that was read.  Every await is a point where other processes run.       *)
(*                                                                         *)
(* Two operations run under the lock: replace, and migrateLegacy, which    *)
(* writes a backup of a record of the old schema, a manifest, and then the *)
(* record in its current form.  withExclusiveRecord is the same loop       *)
(* around an action of its caller.                                         *)
(***************************************************************************)
EXTENDS Naturals

CONSTANTS
  Processes,    \* the processes that replace the record
  HostOf,       \* HostOf[p]: the host p runs on
  Nobody,       \* no owner: there is no lock file
  Faulty,       \* the processes that may die, or whose I/O may fail
  MaxFaults     \* bound: how often that happens

ASSUME ProcessesAssumption ==
  /\ Nobody \notin Processes
  /\ MaxFaults \in Nat

VARIABLES
  lock,     \* the lock file: its owner, whether it is filled, whether it expired
  fresh,    \* the processes whose copy of the record is the current one
  reply,    \* reply[p]: what became of p's last replace
  files,    \* the schema of the record, and whether its backup and manifest exist
  pc,       \* pc[p]: where p is in withLock
  faults    \* how many faults happened

vars == <<lock, fresh, reply, files, pc, faults>>

NoLock == [owner |-> Nobody, written |-> FALSE, expired |-> FALSE]

Init ==
  /\ lock = NoLock
  /\ fresh = {}
  /\ reply = [p \in Processes |-> "none"]
  /\ \E form \in {"legacy", "created"} :
       files = [form |-> form, backup |-> FALSE, manifest |-> FALSE]
  /\ pc = [p \in Processes |-> "idle"]
  /\ faults = 0

Goto(p, label) == pc' = [pc EXCEPT ![p] = label]

Answer(p, answer) == reply' = [reply EXCEPT ![p] = answer]

Fault(p) ==
  /\ p \in Faulty
  /\ faults < MaxFaults
  /\ faults' = faults + 1

-----------------------------------------------------------------------------
(* What the lock is taken for *)

\* A list, or a load: the processes that read a record of the old schema have its
\* import, which is what a migration makes of it.
Load(p) ==
  /\ pc[p] = "idle"
  /\ fresh' = fresh \cup {p}
  /\ UNCHANGED <<lock, reply, files, pc, faults>>

Replace(p) ==
  /\ pc[p] = "idle"
  /\ Answer(p, "pending")
  /\ Goto(p, "opening")
  /\ UNCHANGED <<lock, fresh, files, faults>>

\* listDetailed has read a record of the old schema.
Migrate(p) ==
  /\ pc[p] = "idle"
  /\ files.form = "legacy"
  /\ Answer(p, "none")
  /\ Goto(p, "opening")
  /\ UNCHANGED <<lock, fresh, files, faults>>

\* What p wants the lock for.
Replacing(p) == reply[p] = "pending"

\* The operation throws.
Throw(p) == IF Replacing(p) THEN Answer(p, "failed") ELSE UNCHANGED reply

-----------------------------------------------------------------------------
(* withLock *)

\* The exclusive creation of an empty lock file.
OpenLock(p) ==
  /\ pc[p] = "opening"
  /\ IF lock.owner = Nobody
     THEN lock' = [NoLock EXCEPT !.owner = p] /\ Goto(p, "filling")
     ELSE Goto(p, "inspecting") /\ UNCHANGED lock
  /\ UNCHANGED <<fresh, reply, files, faults>>

\* Its content goes to the file that was created, wherever that is by now.
FillLock(p) ==
  /\ pc[p] = "filling"
  /\ lock' = IF lock.owner = p THEN [lock EXCEPT !.written = TRUE] ELSE lock
  /\ Goto(p, IF Replacing(p) THEN "reading" ELSE "rereading")
  /\ UNCHANGED <<fresh, reply, files, faults>>

\* If that fails the file stays behind, empty or filled.
FillFails(p) ==
  /\ pc[p] = "filling"
  /\ Fault(p)
  /\ \E written \in BOOLEAN :
       lock' = IF lock.owner = p THEN [lock EXCEPT !.written = written] ELSE lock
  /\ Throw(p)
  /\ Goto(p, "idle")
  /\ UNCHANGED <<fresh, files>>

\* Whatever file has the lock's name is removed.
Unlock(p) ==
  /\ pc[p] = "unlocking"
  /\ lock' = NoLock
  /\ Goto(p, "idle")
  /\ UNCHANGED <<fresh, reply, files, faults>>

\* The removal fails, and its error takes the place of the answer: the caller of a
\* replace that is done does not learn that it is.
UnlockFails(p) ==
  /\ pc[p] = "unlocking"
  /\ Fault(p)
  /\ IF reply[p] \in {"saved", "stale"}
     THEN Answer(p, "failed") /\ fresh' = fresh \ {p}
     ELSE UNCHANGED <<reply, fresh>>
  /\ Goto(p, "idle")
  /\ UNCHANGED <<lock, files>>

-----------------------------------------------------------------------------
(* replace, with the lock *)

\* Variant: the expected revision is not compared.
ReadAnyRevision(p) ==
  /\ pc[p] = "reading"
  /\ Goto(p, "saving")
  /\ UNCHANGED <<lock, fresh, reply, files, faults>>

\* readCurrent, which refuses a record of the old schema and may fail, and the
\* comparison with the expected revision.
ReadCurrent(p) ==
  /\ pc[p] = "reading"
  /\ \/ /\ files.form # "legacy" /\ p \in fresh
        /\ Goto(p, "saving") /\ UNCHANGED <<reply, faults>>
     \/ /\ files.form # "legacy" /\ p \notin fresh
        /\ Goto(p, "unlocking") /\ Answer(p, "stale") /\ UNCHANGED faults
     \/ /\ (files.form = "legacy" /\ UNCHANGED faults) \/ Fault(p)
        /\ Goto(p, "unlocking") /\ Answer(p, "failed")
  /\ UNCHANGED <<lock, fresh, files>>

\* The record is renamed into place, with the next revision; or validation, the
\* quota or the write fails; or it is there, and its directory cannot be flushed.
SaveRecord(p) ==
  /\ pc[p] = "saving"
  /\ \/ fresh' = {p} /\ Answer(p, "saved") /\ UNCHANGED faults
     \/ fresh' \in {fresh, {}} /\ Answer(p, "failed") /\ Fault(p)
  /\ Goto(p, "unlocking")
  /\ UNCHANGED <<lock, files>>

-----------------------------------------------------------------------------
(* migrateLegacy, with the lock *)

\* The next step of a migration, or the end of one that throws.
ProceedTo(p, label) ==
  \/ Goto(p, label) /\ UNCHANGED faults
  \/ Fault(p) /\ Goto(p, "unlocking")

\* Variant: the record is not read again.
ReuseListing(p) ==
  /\ pc[p] = "rereading"
  /\ ProceedTo(p, "copying")
  /\ UNCHANGED <<lock, fresh, reply, files>>

\* The text is no longer the one that was listed: somebody else migrated it, and
\* the record is returned as it is now.
Reread(p) ==
  /\ pc[p] = "rereading"
  /\ IF files.form = "legacy"
     THEN ProceedTo(p, "copying") /\ UNCHANGED fresh
     ELSE \/ Goto(p, "unlocking") /\ fresh' = fresh \cup {p} /\ UNCHANGED faults
          \/ Goto(p, "unlocking") /\ Fault(p) /\ UNCHANGED fresh
  /\ UNCHANGED <<lock, reply, files>>

\* A backup that an interrupted migration left has the same text, and is kept.  A
\* write that fails may have happened.
BackUp(p) ==
  /\ pc[p] = "copying"
  /\ \/ files' = [files EXCEPT !.backup = TRUE] /\ Goto(p, "describing") /\ UNCHANGED faults
     \/ /\ files' \in {files, [files EXCEPT !.backup = TRUE]}
        /\ Goto(p, "unlocking") /\ Fault(p)
  /\ UNCHANGED <<lock, fresh, reply>>

\* Variant: an error of the manifest is passed over.
DescribeAnyway(p) ==
  /\ pc[p] = "describing"
  /\ \/ files' = [files EXCEPT !.manifest = TRUE] /\ UNCHANGED faults
     \/ Fault(p) /\ UNCHANGED files
  /\ Goto(p, "converting")
  /\ UNCHANGED <<lock, fresh, reply>>

\* So is its manifest.
Describe(p) ==
  /\ pc[p] = "describing"
  /\ \/ files' = [files EXCEPT !.manifest = TRUE] /\ Goto(p, "converting") /\ UNCHANGED faults
     \/ /\ files' \in {files, [files EXCEPT !.manifest = TRUE]}
        /\ Goto(p, "unlocking") /\ Fault(p)
  /\ UNCHANGED <<lock, fresh, reply>>

\* The import replaces the record, whatever that is by now.
Convert(p) ==
  /\ pc[p] = "converting"
  /\ \/ /\ files' = [files EXCEPT !.form = "migrated"]
        /\ fresh' = IF files.form = "legacy" THEN fresh \cup {p} ELSE {p}
        /\ UNCHANGED faults
     \/ /\ files' = [files EXCEPT !.form = "migrated"]
        /\ fresh' = IF files.form = "legacy" THEN fresh ELSE {}
        /\ Fault(p)
     \/ Fault(p) /\ UNCHANGED <<files, fresh>>
  /\ Goto(p, "unlocking")
  /\ UNCHANGED <<lock, reply>>

-----------------------------------------------------------------------------
(* recoverExpiredLock *)

\* defaultOwnerProbe: only a process of this host can be found dead.
ProvedDead(p, q) == HostOf[p] = HostOf[q] /\ pc[q] = "gone"

\* Variant: the owner is not asked for.
ReclaimableOnExpiry(p) == lock.owner # Nobody /\ lock.written /\ lock.expired

\* An empty lock file does not parse, and is left alone.
Reclaimable(p) ==
  /\ lock.owner # Nobody
  /\ lock.written
  /\ lock.expired
  /\ ProvedDead(p, lock.owner)

Inspect(p) ==
  /\ pc[p] = "inspecting"
  /\ Goto(p, IF Reclaimable(p) THEN "reclaiming" ELSE "waiting")
  /\ UNCHANGED <<lock, fresh, reply, files, faults>>

\* Variant: the lock is left where it is.
ReclaimNothing(p) ==
  /\ pc[p] = "reclaiming"
  /\ Goto(p, "waiting")
  /\ UNCHANGED <<lock, fresh, reply, files, faults>>

\* The rename takes the file that has the name now.
Reclaim(p) ==
  /\ pc[p] = "reclaiming"
  /\ lock' = NoLock
  /\ Goto(p, "waiting")
  /\ UNCHANGED <<fresh, reply, files, faults>>

\* The rename fails, or the removal of the file after it: the operation throws
\* that.  It may happen any number of times, and is not counted as a fault.
ReclaimFails(p) ==
  /\ pc[p] = "reclaiming"
  /\ lock' \in {lock, NoLock}
  /\ Throw(p)
  /\ Goto(p, "idle")
  /\ UNCHANGED <<fresh, files, faults>>

\* STATE_RECORD_LOCKED: another attempt, or none is left.
Retry(p) ==
  /\ pc[p] = "waiting"
  /\ \/ Goto(p, "opening") /\ UNCHANGED reply
     \/ Goto(p, "idle") /\ Throw(p)
  /\ UNCHANGED <<lock, fresh, files, faults>>

-----------------------------------------------------------------------------
(* The clock and the crashes *)

LockExpires ==
  /\ lock.owner # Nobody
  /\ ~lock.expired
  /\ lock' = [lock EXCEPT !.expired = TRUE]
  /\ UNCHANGED <<fresh, reply, files, pc, faults>>

Crash(p) ==
  /\ pc[p] # "gone"
  /\ Fault(p)
  /\ Goto(p, "gone")
  /\ fresh' = fresh \ {p}
  /\ Answer(p, IF reply[p] = "pending" THEN "failed" ELSE reply[p])
  /\ UNCHANGED <<lock, files>>

\* A process that left no lock stands for a later one.
Restart(p) ==
  /\ pc[p] = "gone"
  /\ lock.owner # p
  /\ Goto(p, "idle")
  /\ UNCHANGED <<lock, fresh, reply, files, faults>>

Step(p) ==
  \/ OpenLock(p) \/ FillLock(p) \/ Unlock(p)
  \/ ReadCurrent(p) \/ SaveRecord(p)
  \/ Reread(p) \/ BackUp(p) \/ Describe(p) \/ Convert(p)
  \/ Inspect(p) \/ Reclaim(p) \/ Retry(p)

Next ==
  \/ \E p \in Processes :
         \/ Load(p) \/ Replace(p) \/ Migrate(p)
         \/ Step(p) \/ Crash(p) \/ Restart(p)
         \/ FillFails(p) \/ UnlockFails(p) \/ ReclaimFails(p)
  \/ LockExpires

Spec == Init /\ [][Next]_vars

\* Processes go on, the clock ticks, and callers come back: the heartbeats of
\* the workers keep locking the root maintenance record.  A rename that is tried
\* again and again succeeds in the end.
FairSpec ==
  /\ Spec
  /\ \A p \in Processes : WF_vars(Step(p)) /\ WF_vars(Replace(p)) /\ SF_vars(Reclaim(p))
  /\ WF_vars(LockExpires)

-----------------------------------------------------------------------------
(* Properties *)

Types ==
  /\ lock \in [owner : Processes \cup {Nobody}, written : BOOLEAN, expired : BOOLEAN]
  /\ fresh \subseteq Processes
  /\ reply \in [Processes -> {"none", "pending", "saved", "stale", "failed"}]
  /\ files \in [form : {"legacy", "created", "migrated"}, backup : BOOLEAN, manifest : BOOLEAN]
  /\ pc \in [Processes -> {"idle", "opening", "filling", "reading", "saving",
                           "rereading", "copying", "describing", "converting",
                           "unlocking", "inspecting", "reclaiming", "waiting", "gone"}]
  /\ faults \in 0..MaxFaults

\* Between the creation of the lock file and its removal.
Holding == {"filling", "reading", "saving", "rereading", "copying", "describing",
            "converting", "unlocking"}

\* At most one process holds the lock of the record.
OneHolder ==
  \A p, q \in Processes : pc[p] \in Holding /\ pc[q] \in Holding => p = q

\* At most two processes on a host: one that dies leaves one that reclaims.
Paired ==
  \A p, q, r \in Processes :
    HostOf[p] = HostOf[q] /\ HostOf[q] = HostOf[r] => p = q \/ q = r \/ p = r

Store == INSTANCE RecordStore

\* A replace is one step as far as its callers can tell, and a migration takes
\* nothing back that one of them saved.
Versioned == Store!Spec

\* However a migration was interrupted and whoever went on with it, a record of the
\* old schema is replaced only when its text and its description are kept
\* (migrateLegacy; docs/waves/wave-04-prd.md:51).
BackedUp == files.form = "migrated" => files.backup /\ files.manifest

\* A filled lock file of a process that died is moved away in the end.
LockRecovered ==
  \A p \in Processes :
    (lock.owner = p /\ lock.written /\ pc[p] = "gone") ~> (lock.owner # p)

\* Of the writers that share a revision exactly one wins: a writer that found its
\* revision current still has it when it writes (docs/waves/wave-04-prd.md:
\* "exactly one writer with a shared revision wins").
OneWriterWins == \A p \in Processes : pc[p] = "saving" => p \in fresh
=============================================================================
