----------------------------- MODULE LeaseLock -----------------------------
(***************************************************************************)
(* The lock of the installed skills: acquireLeaseLock of                   *)
(* skill-registry/lease-lock.ts around mutateInstallState and              *)
(* resetInstallState of skill-registry/install-state.ts.                   *)
(*                                                                         *)
(* It is Lamport's bakery over a directory.  A contender announces itself  *)
(* in a `choosing` file, draws a ticket above all it sees, writes it to a  *)
(* `claim` file, and waits until nobody is choosing and its claim is the   *)
(* first.  What it sees is a listing of the directory, whose files are     *)
(* read one by one afterwards; a file is created before it has content.    *)
(***************************************************************************)
EXTENDS Naturals, FiniteSets

CONSTANTS
  Processes,    \* callers; numbers, in the order of their random tokens
  HostOf,       \* HostOf[p]: the host p runs on
  Faulty,       \* the processes that may die, or whose writes may fail
  MaxFaults,    \* bound: how often that happens
  MaxTicket     \* the largest ticket, a safe integer in the code

ASSUME ClaimsAssumption ==
  /\ Processes \subseteq Nat /\ IsFiniteSet(Processes)
  /\ MaxFaults \in Nat
  /\ MaxTicket \in Nat

VARIABLES
  dir,        \* the directory of the claims exists
  file,       \* file[<<p, kind>>]: whether p's file is there, and has its content
  ticket,     \* ticket[p]: the ticket in p's claim
  expired,    \* the processes whose lease is over
  scan,       \* scan[p]: p's inspection of the directory
  ahead,      \* ahead[p]: claims that were there before p announced itself
  fresh,      \* the processes that have read the current install state
  pc,         \* pc[p]: where p is
  faults      \* how many faults happened

vars == <<dir, file, ticket, expired, scan, ahead, fresh, pc, faults>>

Names == Processes \X {"choosing", "claim"}

NoScan == [todo |-> {}, choosing |-> FALSE, claims |-> {}]
  \* todo: listed files still to be read; choosing: a contender was choosing
  \* claims: the processes whose claims were read

Init ==
  /\ dir = FALSE
  /\ file = [name \in Names |-> "none"]
  /\ ticket = [p \in Processes |-> 0]
  /\ expired = {}
  /\ scan = [p \in Processes |-> NoScan]
  /\ ahead = [p \in Processes |-> {}]
  /\ fresh = {}
  /\ pc = [p \in Processes |-> "idle"]
  /\ faults = 0

Goto(p, label) == pc' = [pc EXCEPT ![p] = label]

Fault(p) ==
  /\ p \in Faulty
  /\ faults < MaxFaults
  /\ faults' = faults + 1

\* p's file changes; a claim that goes away is ahead of nobody.
Put(p, kind, content) ==
  /\ file' = [file EXCEPT ![<<p, kind>>] = content]
  /\ ahead' = IF kind = "claim" /\ content = "none"
              THEN [q \in Processes |-> ahead[q] \ {p}] ELSE ahead

Listed == {name \in Names : file[name] # "none"}

\* A call whose token nobody can still know stands for a later one.
Untraced(p) ==
  /\ \A name \in Listed : name[1] # p
  /\ \A q \in Processes :
       p \notin scan[q].claims /\ \A name \in scan[q].todo : name[1] # p

-----------------------------------------------------------------------------
(* The doorway *)

\* mkdir of the directory
Begin(p) ==
  /\ pc[p] = "idle"
  /\ Untraced(p)
  /\ dir' = TRUE
  /\ ticket' = [ticket EXCEPT ![p] = 0]
  /\ expired' = expired \ {p}
  /\ Goto(p, "announcing")
  /\ UNCHANGED <<file, scan, ahead, fresh, faults>>

\* The choosing file is created; the directory may have been removed again.
Announce(p) ==
  /\ pc[p] = "announcing"
  /\ IF dir
     THEN /\ file' = [file EXCEPT ![<<p, "choosing">>] = "empty"]
          /\ ahead' = [ahead EXCEPT ![p] =
               {q \in Processes : file[<<q, "claim">>] = "written"}]
          /\ Goto(p, "announced")
     ELSE Goto(p, "idle") /\ UNCHANGED <<file, ahead>>
  /\ UNCHANGED <<dir, ticket, expired, scan, fresh, faults>>

\* Its content is written; if that fails the file stays behind.
FillChoosing(p) ==
  /\ pc[p] = "announced"
  /\ \/ /\ Put(p, "choosing", "written")
        /\ Goto(p, "doorway")
        /\ UNCHANGED faults
     \/ /\ Fault(p)
        /\ Goto(p, "idle")
        /\ UNCHANGED <<file, ahead>>
  /\ UNCHANGED <<dir, ticket, expired, scan, fresh>>

\* The directory is listed.
List(p, from, to) ==
  /\ pc[p] = from
  /\ scan' = [scan EXCEPT ![p] = [NoScan EXCEPT !.todo = Listed]]
  /\ Goto(p, to)
  /\ UNCHANGED <<dir, file, ticket, expired, ahead, fresh, faults>>

ListInDoorway(p) == List(p, "doorway", "choosing")

\* Variants: the owner is not asked for, and nothing is reclaimed.
ReclaimableOnExpiry(p, q) == q \in expired
ReclaimableNever(p, q) == FALSE

\* leaseLockIsReclaimable: the lease is over and the owner is dead, which only
\* its host can tell.
Reclaimable(p, q) == HostOf[p] = HostOf[q] /\ q \in expired /\ pc[q] = "gone"

\* A listed file is read.  One that is gone is skipped; a dead owner's is removed;
\* an empty one makes the call fail.
LookAt(p, name) ==
  LET q == name[1]
      rest == [scan[p] EXCEPT !.todo = scan[p].todo \ {name}]
  IN \/ /\ file[name] = "none"
        /\ scan' = [scan EXCEPT ![p] = rest]
        /\ UNCHANGED <<pc, file, ahead>>
     \/ /\ file[name] = "empty"
        /\ scan' = [scan EXCEPT ![p] = NoScan]
        /\ Goto(p, "withdrawing")
        /\ UNCHANGED <<file, ahead>>
     \/ /\ file[name] = "written" /\ Reclaimable(p, q)
        /\ Put(q, name[2], "none")
        /\ scan' = [scan EXCEPT ![p] = rest]
        /\ UNCHANGED pc
     \/ /\ file[name] = "written" /\ ~Reclaimable(p, q)
        /\ scan' = [scan EXCEPT ![p] =
             IF name[2] = "choosing" THEN [rest EXCEPT !.choosing = TRUE]
             ELSE [rest EXCEPT !.claims = scan[p].claims \cup {q}]]
        /\ UNCHANGED <<pc, file, ahead>>

Look(p) ==
  /\ pc[p] \in {"choosing", "checking"}
  /\ \E name \in scan[p].todo : LookAt(p, name)
  /\ UNCHANGED <<dir, ticket, expired, fresh, faults>>

\* The greatest ticket p has read is `last`, or it has read none.
LastTicket(p, last) ==
  /\ last \in {ticket[q] : q \in scan[p].claims} \cup {0}
  /\ \A q \in scan[p].claims : ticket[q] <= last

\* Variant: the ticket of the last claim is drawn again.
DrawLast(p) ==
  /\ pc[p] = "choosing"
  /\ scan[p].todo = {}
  /\ \E last \in 0..MaxTicket :
       /\ LastTicket(p, last)
       /\ ticket' = [ticket EXCEPT ![p] = IF last = 0 THEN 1 ELSE last]
  /\ Put(p, "claim", "empty")
  /\ Goto(p, "drawn")
  /\ scan' = [scan EXCEPT ![p] = NoScan]
  /\ UNCHANGED <<dir, expired, fresh, faults>>

\* A ticket above all that were read, if there is one, and a file for it.
Draw(p) ==
  /\ pc[p] = "choosing"
  /\ scan[p].todo = {}
  /\ \E last \in 0..MaxTicket :
       /\ LastTicket(p, last)
       /\ IF last < MaxTicket
          THEN /\ ticket' = [ticket EXCEPT ![p] = last + 1]
               /\ Put(p, "claim", "empty")
               /\ Goto(p, "drawn")
          ELSE Goto(p, "withdrawing") /\ UNCHANGED <<ticket, file, ahead>>
  /\ scan' = [scan EXCEPT ![p] = NoScan]
  /\ UNCHANGED <<dir, expired, fresh, faults>>

\* Its content; if that fails the choosing file is removed, the claim is not.
FillClaim(p) ==
  /\ pc[p] = "drawn"
  /\ \/ /\ Put(p, "claim", "written")
        /\ Goto(p, "leaving")
        /\ UNCHANGED faults
     \/ /\ Fault(p)
        /\ Put(p, "choosing", "none")
        /\ Goto(p, "idle")
  /\ UNCHANGED <<dir, ticket, expired, scan, fresh>>

\* If this fails both files stay behind.
LeaveDoorway(p) ==
  /\ pc[p] = "leaving"
  /\ \/ /\ Put(p, "choosing", "none")
        /\ Goto(p, "waiting")
        /\ UNCHANGED faults
     \/ /\ Fault(p)
        /\ Goto(p, "idle")
        /\ UNCHANGED <<file, ahead>>
  /\ UNCHANGED <<dir, ticket, expired, scan, fresh>>

-----------------------------------------------------------------------------
(* The wait, and the install state *)

ListInWait(p) == List(p, "waiting", "checking")

\* The order of the claims: by ticket, then by token.
Precedes(p, q) ==
  ticket[p] < ticket[q] \/ (ticket[p] = ticket[q] /\ p < q)

\* Nobody was choosing, and p's claim is the first; or another round.
Check(p) ==
  /\ pc[p] = "checking"
  /\ scan[p].todo = {}
  /\ Goto(p, IF /\ ~scan[p].choosing
                /\ p \in scan[p].claims
                /\ \A q \in scan[p].claims \ {p} : Precedes(p, q)
             THEN "holding" ELSE "waiting")
  /\ scan' = [scan EXCEPT ![p] = NoScan]
  /\ UNCHANGED <<dir, file, ticket, expired, ahead, fresh, faults>>

TimeOut(p) ==
  /\ pc[p] = "waiting"
  /\ Goto(p, "withdrawing")
  /\ UNCHANGED <<dir, file, ticket, expired, scan, ahead, fresh, faults>>

\* The call failed: both files are removed, of which it has one.  A removal that
\* fails is ignored.
Withdraw(p) ==
  /\ pc[p] = "withdrawing"
  /\ \/ /\ file' = [name \in Names |-> IF name[1] = p THEN "none" ELSE file[name]]
        /\ ahead' = [q \in Processes |-> ahead[q] \ {p}]
        /\ UNCHANGED faults
     \/ Fault(p) /\ UNCHANGED <<file, ahead>>
  /\ Goto(p, "idle")
  /\ UNCHANGED <<dir, ticket, expired, scan, fresh>>

\* mutateInstallState reads the state, which may be unreadable, or
\* resetInstallState removes it.
ReadState(p) ==
  /\ pc[p] = "holding"
  /\ \/ fresh' = fresh \cup {p} /\ Goto(p, "updating")
     \/ UNCHANGED fresh /\ Goto(p, "releasing")
     \/ fresh' = {} /\ Goto(p, "resetting")
  /\ UNCHANGED <<dir, file, ticket, expired, scan, ahead, faults>>

\* The next state replaces the one that was read, unless the mutator refuses.
WriteState(p) ==
  /\ pc[p] = "updating"
  /\ fresh' \in {{p}, fresh}
  /\ Goto(p, "releasing")
  /\ UNCHANGED <<dir, file, ticket, expired, scan, ahead, faults>>

\* A failed removal of the claim is ignored.
Release(p) ==
  /\ pc[p] \in {"releasing", "resetting"}
  /\ \/ Put(p, "claim", "none") /\ UNCHANGED faults
     \/ Fault(p) /\ UNCHANGED <<file, ahead>>
  /\ Goto(p, IF pc[p] = "resetting" THEN "removing" ELSE "idle")
  /\ UNCHANGED <<dir, ticket, expired, scan, fresh>>

\* resetInstallState removes the directory if it is empty.
RemoveDirectory(p) ==
  /\ pc[p] = "removing"
  /\ dir' = (dir /\ Listed # {})
  /\ Goto(p, "idle")
  /\ UNCHANGED <<file, ticket, expired, scan, ahead, fresh, faults>>

-----------------------------------------------------------------------------

Expire(p) ==
  /\ p \notin expired
  /\ \E name \in Listed : name[1] = p
  /\ expired' = expired \cup {p}
  /\ UNCHANGED <<dir, file, ticket, scan, ahead, fresh, pc, faults>>

Crash(p) ==
  /\ pc[p] # "gone"
  /\ Fault(p)
  /\ Goto(p, "gone")
  /\ scan' = [scan EXCEPT ![p] = NoScan]
  /\ fresh' = fresh \ {p}
  /\ UNCHANGED <<dir, file, ticket, expired, ahead>>

Restart(p) ==
  /\ pc[p] = "gone"
  /\ Untraced(p)
  /\ Goto(p, "idle")
  /\ UNCHANGED <<dir, file, ticket, expired, scan, ahead, fresh, faults>>

Step(p) ==
  \/ Announce(p) \/ FillChoosing(p) \/ ListInDoorway(p) \/ Look(p) \/ Draw(p)
  \/ FillClaim(p) \/ LeaveDoorway(p) \/ ListInWait(p) \/ Check(p) \/ Withdraw(p)
  \/ ReadState(p) \/ WriteState(p) \/ Release(p) \/ RemoveDirectory(p)

Next ==
  \E p \in Processes :
    Begin(p) \/ Step(p) \/ TimeOut(p) \/ Expire(p) \/ Crash(p) \/ Restart(p)

Spec == Init /\ [][Next]_vars

\* Processes go on, the clock ticks, and somebody installs a skill again.
FairSpec ==
  /\ Spec
  /\ \A p \in Processes : WF_vars(Step(p)) /\ WF_vars(Begin(p)) /\ WF_vars(Expire(p))

-----------------------------------------------------------------------------
(* Properties *)

\* Between the acquisition of the lock and its release.
Owning == {"holding", "updating", "releasing", "resetting"}

\* Who announced itself after another's claim was written never overtakes it.
FirstComeFirstServed ==
  \A p \in Processes : pc[p] \in Owning => ahead[p] = {}

\* The claim of an owner stays until it releases it, however long that takes.
OwnerKeepsClaim ==
  \A p \in Processes : pc[p] \in Owning => file[<<p, "claim">>] = "written"

\* The claim of a process that died is removed in the end.
DeadClaimRemoved ==
  \A p \in Processes :
    (pc[p] = "gone" /\ file[<<p, "claim">>] = "written") ~> (file[<<p, "claim">>] = "none")

\* The lock excludes: nobody writes or removes the install state between an
\* owner's reading and its writing of it (test/skill-registry-defense.test.ts: a
\* second caller meets `Timed out waiting for lease lock`).
UpdateIsCurrent == \A p \in Processes : pc[p] = "updating" => p \in fresh
=============================================================================
