---------------------------- MODULE WorkspaceLock ----------------------------
(***************************************************************************)
(* The lock of a directory that tasks edit in place, because it is no Git  *)
(* repository: acquire, heartbeat and release of workspace-lock-store.ts,  *)
(* as runOne of task-engine.ts uses them.                                  *)
(*                                                                         *)
(* The lock is a record, read and then replaced under the revision that    *)
(* was read (RecordStore); the revisions are abstracted to the set of the  *)
(* workers whose copy is the current one.  A worker is a process that runs *)
(* one task and ends.  Expiry does not stop it: it may be suspended beyond *)
(* its lease and go on, and edits while its heartbeat is on its way.       *)
(*                                                                         *)
(* A record that was released, or never created, has no owner.  The owner  *)
(* id is new for each run, so no acquire finds a lock of its own.          *)
(***************************************************************************)
EXTENDS Naturals

CONSTANTS
  Workers,     \* the processes that run tasks in the directory
  HostOf,      \* HostOf[w]: the host w runs on
  Nobody,      \* no owner
  Faulty,      \* the workers that may die, or whose store calls may fail
  MaxFaults    \* bound: how often that happens

ASSUME WorkersAssumption ==
  /\ Nobody \notin Workers
  /\ MaxFaults \in Nat

VARIABLES
  owner,     \* the owner of the active record
  expired,   \* its lease is over
  fresh,     \* the workers whose copy of the record is the current one
  pc,        \* pc[w]: where w is in runOne
  beat,      \* beat[w]: where the heartbeat of w is
  faults     \* how many faults happened

vars == <<owner, expired, fresh, pc, beat, faults>>

Init ==
  /\ owner = Nobody /\ expired = FALSE
  /\ fresh = {}
  /\ pc = [w \in Workers |-> "idle"]
  /\ beat = [w \in Workers |-> "idle"]
  /\ faults = 0

Goto(w, label) == pc' = [pc EXCEPT ![w] = label]

Beat(w, label) == beat' = [beat EXCEPT ![w] = label]

Fault(w) ==
  /\ w \in Faulty
  /\ faults < MaxFaults
  /\ faults' = faults + 1

\* A replace: the record has a new revision.
Write(by) == owner' = by /\ expired' = FALSE /\ fresh' = {}

Read(w) == fresh' = fresh \cup {w} /\ UNCHANGED <<owner, expired>>

-----------------------------------------------------------------------------
(* acquire *)

Begin(w) ==
  /\ pc[w] = "idle"
  /\ Goto(w, "trying")
  /\ UNCHANGED <<owner, expired, fresh, beat, faults>>

\* The probe of the owner: only a process of this host can be found dead.
ProvedDead(w, other) == HostOf[w] = HostOf[other] /\ pc[other] = "gone"

\* Variant: an expired lease is enough.
TakeableOnExpiry(w) == owner = Nobody \/ expired

\* Variant: a lock that has an owner is left alone.
TakeableIfFree(w) == owner = Nobody

Takeable(w) == owner = Nobody \/ (expired /\ ProvedDead(w, owner))

\* create finds the record, and load reads it.  If it is locked or its owner
\* cannot be probed the run ends: the task stays queued, or is blocked.
Examine(w) ==
  /\ pc[w] = "trying"
  /\ Goto(w, IF Takeable(w) THEN "taking" ELSE "gone")
  /\ Read(w)
  /\ UNCHANGED <<beat, faults>>

RetryOrGiveUp(w) ==
  /\ Goto(w, "trying") \/ Goto(w, "gone")
  /\ UNCHANGED <<owner, expired, fresh>>

\* Variant: the revision is not compared.
TakeAnyRevision(w) ==
  /\ pc[w] = "taking"
  /\ Write(w) /\ Goto(w, "editing")
  /\ UNCHANGED <<beat, faults>>

\* create or replace: it may be refused, or report an error after the write; a
\* stale or locked record is read again, up to a limit.
Take(w) ==
  /\ pc[w] = "taking"
  /\ \/ w \in fresh /\ Write(w) /\ Goto(w, "editing") /\ UNCHANGED faults
     \/ w \in fresh /\ Write(w) /\ Goto(w, "gone") /\ Fault(w)
     \/ w \notin fresh /\ RetryOrGiveUp(w) /\ UNCHANGED faults
     \/ RetryOrGiveUp(w) /\ Fault(w)
  /\ UNCHANGED beat

-----------------------------------------------------------------------------
(* heartbeat, which the pulse calls while the task is executed *)

LoadBeat(w) ==
  /\ pc[w] = "editing" /\ beat[w] = "idle"
  /\ Beat(w, IF owner = w THEN "loaded" ELSE "failed")
  /\ Read(w)
  /\ UNCHANGED <<pc, faults>>

\* A failed heartbeat aborts the task; nothing of the lock follows it.
WriteBeat(w) ==
  /\ beat[w] = "loaded"
  /\ \/ w \in fresh /\ Write(owner) /\ Beat(w, "idle") /\ UNCHANGED faults
     \/ w \in fresh /\ Write(owner) /\ Beat(w, "failed") /\ Fault(w)
     \/ w \notin fresh /\ Beat(w, "idle") /\ UNCHANGED <<owner, expired, fresh, faults>>
     \/ Beat(w, "failed") /\ Fault(w) /\ UNCHANGED <<owner, expired, fresh>>
  /\ UNCHANGED pc

-----------------------------------------------------------------------------
(* release, in the finally of runOne *)

\* Variant: the heartbeat is not waited for.
FinishAtOnce(w) ==
  /\ pc[w] = "editing"
  /\ Goto(w, "leaving")
  /\ UNCHANGED <<owner, expired, fresh, beat, faults>>

\* The execution is over, however it ended, and no heartbeat is on its way.
Finish(w) ==
  /\ pc[w] = "editing" /\ beat[w] # "loaded"
  /\ Goto(w, "leaving") /\ Beat(w, "idle")
  /\ UNCHANGED <<owner, expired, fresh, faults>>

\* A lock of somebody else is left alone.
LoadRelease(w) ==
  /\ pc[w] = "leaving"
  /\ Goto(w, IF owner = w THEN "freeing" ELSE "gone")
  /\ Read(w)
  /\ UNCHANGED <<beat, faults>>

\* The errors of a release are ignored: the lock may stay behind.
Release(w) ==
  /\ pc[w] = "freeing"
  /\ \/ w \in fresh /\ Write(Nobody) /\ Goto(w, "gone") /\ UNCHANGED faults
     \/ w \notin fresh /\ Goto(w, "leaving") /\ UNCHANGED <<owner, expired, fresh, faults>>
     \/ Fault(w) /\ Goto(w, "gone") /\ UNCHANGED <<owner, expired, fresh>>
  /\ UNCHANGED beat

-----------------------------------------------------------------------------
(* The clock and the crashes *)

Expire ==
  /\ owner # Nobody /\ ~expired
  /\ expired' = TRUE
  /\ UNCHANGED <<owner, fresh, pc, beat, faults>>

Crash(w) ==
  /\ pc[w] # "gone"
  /\ Fault(w)
  /\ Goto(w, "gone") /\ Beat(w, "idle")
  /\ UNCHANGED <<owner, expired, fresh>>

\* A worker that left no lock stands for a later one.
Restart(w) ==
  /\ pc[w] = "gone" /\ owner # w
  /\ Goto(w, "idle")
  /\ fresh' = fresh \ {w}
  /\ UNCHANGED <<owner, expired, beat, faults>>

Step(w) ==
  \/ Begin(w) \/ Examine(w) \/ Take(w) \/ LoadBeat(w) \/ WriteBeat(w)
  \/ Finish(w) \/ LoadRelease(w) \/ Release(w) \/ Restart(w)

Next == \/ \E w \in Workers : Step(w) \/ Crash(w)
        \/ Expire

Spec == Init /\ [][Next]_vars

\* Workers go on and tasks keep coming; an execution need not end.
FairSpec ==
  /\ Spec
  /\ \A w \in Workers :
       /\ WF_vars(Begin(w)) /\ WF_vars(Examine(w)) /\ WF_vars(Take(w))
       /\ WF_vars(LoadRelease(w)) /\ WF_vars(Release(w)) /\ WF_vars(Restart(w))
  /\ WF_vars(Expire)

-----------------------------------------------------------------------------
(* Properties *)

\* Each variable is of its type; a heartbeat is on its way only while a task is
\* executed (the worker waits for it).
TypeOK ==
  /\ owner \in Workers \cup {Nobody} /\ expired \in BOOLEAN
  /\ fresh \subseteq Workers
  /\ pc \in [Workers -> {"idle", "trying", "taking", "editing", "leaving", "freeing", "gone"}]
  /\ beat \in [Workers -> {"idle", "loaded", "failed"}]
  /\ faults \in 0..MaxFaults
  /\ \A w \in Workers : beat[w] # "idle" => pc[w] = "editing"

\* Two tasks never edit the directory at the same time, though leases expire
\* under living workers and several workers find the lock of a dead one.
OneEditor == \A v, w \in Workers : pc[v] = "editing" /\ pc[w] = "editing" => v = w

Lock == INSTANCE EditorLock WITH holder <- owner, gone <- { w \in Workers : pc[w] = "gone" }

\* The lock is the one of EditorLock: it is taken only when free or from the dead,
\* and let go of only by its holder.
LockSpec == Lock!Spec

\* The lock of a worker that died, or whose release failed, is not lost: in the
\* end another worker of its host has it.
LockPassedOn == \A w \in Workers : (owner = w /\ pc[w] = "gone") ~> owner # w
=============================================================================
