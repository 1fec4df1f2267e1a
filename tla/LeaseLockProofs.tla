-------------------------- MODULE LeaseLockProofs --------------------------
(***************************************************************************)
(* Proofs about LeaseLock: for any number of callers and hosts, and        *)
(* whatever dies or fails, the lock is first come first served, and an     *)
(* owner keeps its claim.  That there is one owner is not provable: it is  *)
(* not so.                                                                 *)
(***************************************************************************)
EXTENDS LeaseLock, TLAPS

Labels ==
  {"idle", "announcing", "announced", "doorway", "choosing", "drawn", "leaving",
   "waiting", "checking", "withdrawing", "removing", "gone"} \cup Owning

Types ==
  /\ file \in [Names -> {"none", "empty", "written"}]
  /\ ticket \in [Processes -> 0..MaxTicket]
  /\ scan \in [Processes -> [todo : SUBSET Names, choosing : BOOLEAN,
                             claims : SUBSET Processes]]
  /\ ahead \in [Processes -> SUBSET Processes]
  /\ pc \in [Processes -> Labels]

\* Before it draws a ticket a caller has no claim.
Unclaimed ==
  \A p \in Processes : pc[p] \in {"announcing", "announced", "doorway", "choosing"} =>
    file[<<p, "claim">>] = "none"

\* After that it keeps it.
Claimed ==
  \A p \in Processes : pc[p] \in {"leaving", "waiting", "checking"} \cup Owning =>
    file[<<p, "claim">>] = "written"

\* The claims ahead of a caller are there, and while it inspects the directory it
\* has read them or will.
AheadListed ==
  \A p \in Processes : \A q \in ahead[p] :
    /\ file[<<q, "claim">>] = "written"
    /\ pc[p] \in {"choosing", "checking"} =>
         <<q, "claim">> \in scan[p].todo \/ q \in scan[p].claims

\* A ticket is above those of the claims ahead of it.
TicketsAscend ==
  \A p \in Processes : pc[p] \in {"drawn", "leaving", "waiting", "checking"} =>
    \A q \in ahead[p] : ticket[q] < ticket[p]

Queued == Types /\ Unclaimed /\ Claimed /\ AheadListed /\ TicketsAscend /\ FirstComeFirstServed

-----------------------------------------------------------------------------
(* The types *)

LEMMA InitialTypes == Init => Types
  BY ClaimsAssumption DEF Init, Types, Labels, NoScan, Names

\* What Put does to the claims.
LEMMA PutFacts ==
  ASSUME Types, NEW p \in Processes, NEW kind \in {"choosing", "claim"},
         NEW content \in {"none", "empty", "written"}, Put(p, kind, content)
  PROVE  /\ file' \in [Names -> {"none", "empty", "written"}]
         /\ ahead' \in [Processes -> SUBSET Processes]
         /\ \A q \in Processes : file'[<<q, "claim">>] =
              IF q = p /\ kind = "claim" THEN content ELSE file[<<q, "claim">>]
         /\ \A r \in Processes : ahead'[r] =
              IF kind = "claim" /\ content = "none" THEN ahead[r] \ {p} ELSE ahead[r]
<1>1. file' = [file EXCEPT ![<<p, kind>>] = content] /\ file \in [Names -> {"none", "empty", "written"}]
  BY DEF Put, Types
<1>2. <<p, kind>> \in Names /\ \A q \in Processes : <<q, "claim">> \in Names
  BY DEF Names
<1>3. \A q \in Processes : file'[<<q, "claim">>] =
        IF q = p /\ kind = "claim" THEN content ELSE file[<<q, "claim">>]
  <2> TAKE q \in Processes
  <2>1. CASE <<p, kind>> = <<q, "claim">>
    BY <1>1, <1>2, <2>1
  <2>2. CASE <<p, kind>> # <<q, "claim">>
    BY <1>1, <1>2, <2>2
  <2>3. QED
    BY <2>1, <2>2
<1>4. /\ ahead' \in [Processes -> SUBSET Processes]
      /\ \A r \in Processes : ahead'[r] =
           IF kind = "claim" /\ content = "none" THEN ahead[r] \ {p} ELSE ahead[r]
  BY DEF Put, Types
<1>5. QED
  BY <1>1, <1>2, <1>3, <1>4

\* Every step keeps the types.
LEMMA TypesKept == Types /\ [Next]_vars => Types'
<1> SUFFICES ASSUME Types, [Next]_vars PROVE Types'
  OBVIOUS
<1> USE DEF Types, Labels, Owning, Goto
<1>0. CASE UNCHANGED vars
  BY <1>0 DEF vars
<1>1. ASSUME NEW p \in Processes,
            Begin(p) \/ Step(p) \/ TimeOut(p) \/ Expire(p) \/ Crash(p) \/ Restart(p)
     PROVE  Types'
  <2>1. CASE Begin(p)
    BY <2>1, ClaimsAssumption DEF Begin
  <2>2. CASE Announce(p)
    <3>1. CASE dir
      <4> DEFINE there == {q \in Processes : file[<<q, "claim">>] = "written"}
      <4>1. file' = [file EXCEPT ![<<p, "choosing">>] = "empty"] /\ ahead' = [ahead EXCEPT ![p] = there]
        BY <2>2, <3>1 DEF Announce
      <4>2. there \in SUBSET Processes
        OBVIOUS
      <4> HIDE DEF there
      <4>3. QED
        BY <2>2, <3>1, <4>1, <4>2 DEF Announce, Names
    <3>2. CASE ~dir
      BY <2>2, <3>2 DEF Announce
    <3>3. QED
      BY <3>1, <3>2
  <2>3. CASE FillChoosing(p)
    BY <2>3 DEF FillChoosing, Put, Names
  <2>4. CASE ListInDoorway(p)
    BY <2>4 DEF ListInDoorway, List, Listed, NoScan, Names
  <2>5. CASE Look(p)
    <3> PICK name \in scan[p].todo : LookAt(p, name)
      BY <2>5 DEF Look
    <3> DEFINE Inspections == [todo : SUBSET Names, choosing : BOOLEAN, claims : SUBSET Processes]
    <3>1. name \in Names /\ name[1] \in Processes /\ scan[p] \in Inspections
      BY DEF Names
    <3>2. /\ [scan[p] EXCEPT !.todo = scan[p].todo \ {name}] \in Inspections
          /\ [[scan[p] EXCEPT !.todo = scan[p].todo \ {name}] EXCEPT !.choosing = TRUE] \in Inspections
          /\ [[scan[p] EXCEPT !.todo = scan[p].todo \ {name}]
                EXCEPT !.claims = scan[p].claims \cup {name[1]}] \in Inspections
          /\ NoScan \in Inspections
      BY <3>1 DEF NoScan
    <3> HIDE DEF Inspections
    <3>3. scan' \in [Processes -> Inspections]
      <4>1. scan \in [Processes -> Inspections]
        BY DEF Inspections
      <4>2. \E inspection \in Inspections : scan' = [scan EXCEPT ![p] = inspection]
        BY <3>2 DEF LookAt
      <4>3. QED
        BY <4>1, <4>2
    <3>4. pc' \in [Processes -> Labels] /\ ticket' = ticket
      BY <2>5 DEF Look, LookAt
    <3>5. /\ file' \in [Names -> {"none", "empty", "written"}]
          /\ ahead' \in [Processes -> SUBSET Processes]
      <4>1. CASE file[name] = "written" /\ Reclaimable(p, name[1])
        <5>1. name = <<name[1], name[2]>>
          BY <3>1 DEF Names
        <5>2. file' = [file EXCEPT ![name] = "none"]
          BY <4>1, <5>1 DEF LookAt, Put
        <5>3. QED
          BY <4>1, <5>2 DEF LookAt, Put
      <4>2. CASE ~(file[name] = "written" /\ Reclaimable(p, name[1]))
        BY <4>2 DEF LookAt
      <4>3. QED
        BY <4>1, <4>2
    <3>6. QED
      BY <3>3, <3>4, <3>5 DEF Inspections
  <2>6. CASE Draw(p)
    BY <2>6, ClaimsAssumption DEF Draw, Put, NoScan, Names, LastTicket
  <2>7. CASE FillClaim(p)
    BY <2>7 DEF FillClaim, Put, Names
  <2>8. CASE LeaveDoorway(p)
    BY <2>8 DEF LeaveDoorway, Put, Names
  <2>9. CASE ListInWait(p)
    BY <2>9 DEF ListInWait, List, Listed, NoScan, Names
  <2>10. CASE Check(p)
    BY <2>10 DEF Check, NoScan
  <2>11. CASE TimeOut(p)
    BY <2>11 DEF TimeOut
  <2>12. CASE Withdraw(p)
    BY <2>12 DEF Withdraw, Names
  <2>13. CASE ReadState(p)
    BY <2>13 DEF ReadState
  <2>14. CASE WriteState(p)
    BY <2>14 DEF WriteState
  <2>15. CASE Release(p)
    <3>1. pc' \in [Processes -> Labels] /\ UNCHANGED <<ticket, scan>>
      BY <2>15 DEF Release
    <3>2. UNCHANGED <<file, ahead>> \/ Put(p, "claim", "none")
      BY <2>15 DEF Release
    <3>3. QED
      BY <3>1, <3>2, PutFacts
  <2>16. CASE RemoveDirectory(p)
    BY <2>16 DEF RemoveDirectory
  <2>17. CASE Expire(p)
    BY <2>17 DEF Expire
  <2>18. CASE Crash(p)
    BY <2>18 DEF Crash, NoScan
  <2>19. CASE Restart(p)
    BY <2>19 DEF Restart
  <2>20. QED
    BY <1>1, <2>1, <2>2, <2>3, <2>4, <2>5, <2>6, <2>7, <2>8, <2>9, <2>10, <2>11,
       <2>12, <2>13, <2>14, <2>15, <2>16, <2>17, <2>18, <2>19 DEF Step
<1>2. QED
  BY <1>0, <1>1 DEF Next

-----------------------------------------------------------------------------
(* What a step does to the claims *)

\* Reading a file changes only the claim of a dead owner, and forgets none that
\* is still there.
LEMMA LookFacts ==
  ASSUME Types, NEW p \in Processes, Look(p)
  PROVE  /\ ticket' = ticket
         /\ pc' = pc \/ pc' = [pc EXCEPT ![p] = "withdrawing"]
         /\ \A q \in Processes :
              \/ file'[<<q, "claim">>] = file[<<q, "claim">>]
              \/ /\ pc[q] = "gone" /\ file'[<<q, "claim">>] = "none"
                 /\ \A r \in Processes : q \notin ahead'[r]
         /\ \A r \in Processes : ahead'[r] \subseteq ahead[r]
         /\ \A r \in Processes \ {p} : scan'[r] = scan[r]
         /\ pc' = pc => \A q \in Processes :
              /\ file'[<<q, "claim">>] = "written"
              /\ <<q, "claim">> \in scan[p].todo \/ q \in scan[p].claims
              => <<q, "claim">> \in scan'[p].todo \/ q \in scan'[p].claims
<1> PICK name \in scan[p].todo : LookAt(p, name)
  BY DEF Look
<1> DEFINE rest == [scan[p] EXCEPT !.todo = scan[p].todo \ {name}]
<1>1. /\ name \in Names /\ name[1] \in Processes /\ name = <<name[1], name[2]>>
      /\ name[2] \in {"choosing", "claim"}
  BY DEF Types, Names
<1>2. rest.todo = scan[p].todo \ {name} /\ rest.claims = scan[p].claims
  BY DEF Types
<1>3. ticket' = ticket /\ pc[p] # "withdrawing"
  BY DEF Look
<1> HIDE DEF rest
<1>4. CASE file[name] = "none" \/ file[name] = "empty"
  <2>1. UNCHANGED <<file, ahead>>
    BY <1>4 DEF LookAt
  <2>2. \/ scan' = [scan EXCEPT ![p] = rest] /\ pc' = pc /\ file[name] = "none"
        \/ scan' = [scan EXCEPT ![p] = NoScan] /\ pc' = [pc EXCEPT ![p] = "withdrawing"]
    BY <1>4 DEF LookAt, Goto, rest
  <2>3. pc' = pc => scan'[p] = rest /\ file[name] = "none"
    BY <1>3, <2>2 DEF Types
  <2>4. QED
    BY <1>1, <1>2, <1>3, <2>1, <2>2, <2>3 DEF Types
<1>5. CASE file[name] = "written" /\ Reclaimable(p, name[1])
  <2>1. file' = [file EXCEPT ![name] = "none"] /\ pc' = pc /\ scan' = [scan EXCEPT ![p] = rest]
    BY <1>1, <1>5 DEF LookAt, Put, rest
  <2>2. ahead' = IF name[2] = "claim" THEN [q \in Processes |-> ahead[q] \ {name[1]}] ELSE ahead
    BY <1>5 DEF LookAt, Put
  <2>3. pc[name[1]] = "gone"
    BY <1>5 DEF Reclaimable
  <2>4. ASSUME NEW q \in Processes
        PROVE  \/ file'[<<q, "claim">>] = file[<<q, "claim">>]
               \/ /\ pc[q] = "gone" /\ file'[<<q, "claim">>] = "none"
                  /\ \A r \in Processes : q \notin ahead'[r]
    <3>1. <<q, "claim">> \in Names
      BY DEF Names
    <3>2. CASE name = <<q, "claim">>
      <4>1. name[1] = q /\ name[2] = "claim"
        BY <3>2
      <4>2. QED
        BY <2>1, <2>2, <2>3, <3>1, <3>2, <4>1 DEF Types
    <3>3. CASE name # <<q, "claim">>
      BY <2>1, <3>1, <3>3 DEF Types
    <3>4. QED
      BY <3>2, <3>3
  <2>5. \A r \in Processes : ahead'[r] \subseteq ahead[r]
    BY <2>2 DEF Types
  <2>6. scan'[p] = rest /\ \A r \in Processes \ {p} : scan'[r] = scan[r]
    BY <2>1 DEF Types
  <2>7. ASSUME NEW q \in Processes, file'[<<q, "claim">>] = "written"
        PROVE  name # <<q, "claim">>
    BY <1>1, <2>1, <2>7 DEF Types
  <2>8. QED
    BY <1>2, <1>3, <2>1, <2>4, <2>5, <2>6, <2>7
<1>6. CASE file[name] = "written" /\ ~Reclaimable(p, name[1])
  <2>1. UNCHANGED <<pc, file, ahead>>
    BY <1>6 DEF LookAt
  <2>2. scan' = [scan EXCEPT ![p] = IF name[2] = "choosing" THEN [rest EXCEPT !.choosing = TRUE]
                                    ELSE [rest EXCEPT !.claims = scan[p].claims \cup {name[1]}]]
    BY <1>6 DEF LookAt, rest
  <2>3. \A r \in Processes \ {p} : scan'[r] = scan[r]
    BY <2>2 DEF Types
  <2>4. /\ scan'[p].todo = scan[p].todo \ {name}
        /\ scan[p].claims \subseteq scan'[p].claims
        /\ name[2] = "claim" => name[1] \in scan'[p].claims
    BY <1>2, <2>2 DEF Types, rest
  <2>5. QED
    BY <1>1, <1>3, <2>1, <2>3, <2>4
<1>7. QED
  BY <1>1, <1>4, <1>5, <1>6 DEF Types

-----------------------------------------------------------------------------
(* The invariants, a step at a time *)

\* A claim is written for the caller that draws it.
LEMMA UnclaimedKept ==
  ASSUME Types, Unclaimed, NEW p \in Processes,
         Begin(p) \/ Step(p) \/ TimeOut(p) \/ Expire(p) \/ Crash(p) \/ Restart(p)
  PROVE  Unclaimed'
<1> USE DEF Unclaimed, Types, Goto, Names
<1>1. CASE Begin(p)
  BY <1>1 DEF Begin, Untraced, Listed
<1>2. CASE Announce(p)
  BY <1>2 DEF Announce
<1>3. CASE FillChoosing(p)
  BY <1>3 DEF FillChoosing, Put
<1>4. CASE ListInDoorway(p)
  BY <1>4 DEF ListInDoorway, List
<1>5. CASE Look(p)
  BY <1>5, LookFacts
<1>6. CASE Draw(p)
  BY <1>6 DEF Draw, Put
<1>7. CASE FillClaim(p)
  BY <1>7 DEF FillClaim, Put
<1>8. CASE LeaveDoorway(p)
  BY <1>8 DEF LeaveDoorway, Put
<1>9. CASE ListInWait(p)
  BY <1>9 DEF ListInWait, List
<1>10. CASE Check(p)
  BY <1>10 DEF Check
<1>11. CASE TimeOut(p)
  BY <1>11 DEF TimeOut
<1>12. CASE Withdraw(p)
  BY <1>12 DEF Withdraw
<1>13. CASE ReadState(p)
  BY <1>13 DEF ReadState
<1>14. CASE WriteState(p)
  BY <1>14 DEF WriteState
<1>15. CASE Release(p)
  BY <1>15 DEF Release, Put
<1>16. CASE RemoveDirectory(p)
  BY <1>16 DEF RemoveDirectory
<1>17. CASE Expire(p)
  BY <1>17 DEF Expire
<1>18. CASE Crash(p)
  BY <1>18 DEF Crash
<1>19. CASE Restart(p)
  BY <1>19 DEF Restart
<1>20. QED
  BY <1>1, <1>2, <1>3, <1>4, <1>5, <1>6, <1>7, <1>8, <1>9, <1>10,
     <1>11, <1>12, <1>13, <1>14, <1>15, <1>16, <1>17, <1>18, <1>19 DEF Step

\* Only its owner removes a claim, or somebody who finds the owner dead.
LEMMA ClaimedKept ==
  ASSUME Types, Claimed, NEW p \in Processes,
         Begin(p) \/ Step(p) \/ TimeOut(p) \/ Expire(p) \/ Crash(p) \/ Restart(p)
  PROVE  Claimed'
<1> USE DEF Claimed, Owning, Types, Goto, Names
<1>1. CASE Begin(p)
  BY <1>1 DEF Begin
<1>2. CASE Announce(p)
  BY <1>2 DEF Announce
<1>3. CASE FillChoosing(p)
  BY <1>3 DEF FillChoosing, Put
<1>4. CASE ListInDoorway(p)
  BY <1>4 DEF ListInDoorway, List
<1>5. CASE Look(p)
  BY <1>5, LookFacts
<1>6. CASE Draw(p)
  BY <1>6 DEF Draw, Put
<1>7. CASE FillClaim(p)
  <2>1. CASE Put(p, "claim", "written")
    <3>1. \A r \in Processes \ {p} : pc'[r] = pc[r]
      BY <1>7 DEF FillClaim
    <3>2. QED
      BY <2>1, <3>1, PutFacts
  <2>2. CASE Put(p, "choosing", "none") /\ pc' = [pc EXCEPT ![p] = "idle"]
    BY <2>2, PutFacts
  <2>3. QED
    BY <1>7, <2>1, <2>2 DEF FillClaim
<1>8. CASE LeaveDoorway(p)
  BY <1>8 DEF LeaveDoorway, Put
<1>9. CASE ListInWait(p)
  BY <1>9 DEF ListInWait, List
<1>10. CASE Check(p)
  BY <1>10 DEF Check
<1>11. CASE TimeOut(p)
  BY <1>11 DEF TimeOut
<1>12. CASE Withdraw(p)
  BY <1>12 DEF Withdraw
<1>13. CASE ReadState(p)
  BY <1>13 DEF ReadState
<1>14. CASE WriteState(p)
  BY <1>14 DEF WriteState
<1>15. CASE Release(p)
  BY <1>15 DEF Release, Put
<1>16. CASE RemoveDirectory(p)
  BY <1>16 DEF RemoveDirectory
<1>17. CASE Expire(p)
  BY <1>17 DEF Expire
<1>18. CASE Crash(p)
  BY <1>18 DEF Crash
<1>19. CASE Restart(p)
  BY <1>19 DEF Restart
<1>20. QED
  BY <1>1, <1>2, <1>3, <1>4, <1>5, <1>6, <1>7, <1>8, <1>9, <1>10,
     <1>11, <1>12, <1>13, <1>14, <1>15, <1>16, <1>17, <1>18, <1>19 DEF Step

\* A step that removes claims together with what they are ahead of, adds some, and
\* takes nobody to a new inspection.
LEMMA AheadListedFrame ==
  ASSUME AheadListed,
         \A r \in Processes : ahead'[r] \subseteq ahead[r],
         \A q \in Processes : \/ file'[<<q, "claim">>] \in {"written", file[<<q, "claim">>]}
                              \/ \A r \in Processes : q \notin ahead'[r],
         \A r \in Processes : pc'[r] \in {"choosing", "checking"} =>
           pc'[r] = pc[r] /\ scan'[r] = scan[r],
         Types
  PROVE  AheadListed'
<1> SUFFICES ASSUME NEW r \in Processes, NEW q \in ahead'[r]
             PROVE  /\ file'[<<q, "claim">>] = "written"
                    /\ pc'[r] \in {"choosing", "checking"} =>
                         <<q, "claim">> \in scan'[r].todo \/ q \in scan'[r].claims
  BY DEF AheadListed
<1>1. q \in ahead[r] /\ q \in Processes
  BY DEF Types
<1>2. QED
  BY <1>1 DEF AheadListed

\* A claim is read by whoever announced itself after it was written.
LEMMA AheadListedKept ==
  ASSUME Types, Unclaimed, AheadListed, NEW p \in Processes,
         Begin(p) \/ Step(p) \/ TimeOut(p) \/ Expire(p) \/ Crash(p) \/ Restart(p)
  PROVE  AheadListed'
<1> USE DEF AheadListed, Types, Goto, Names
<1>1. CASE Begin(p)
  BY <1>1 DEF Begin
<1>2. CASE Announce(p)
  <2>1. CASE dir
    <3>1. /\ ahead' = [ahead EXCEPT ![p] = {q \in Processes : file[<<q, "claim">>] = "written"}]
          /\ file' = [file EXCEPT ![<<p, "choosing">>] = "empty"]
          /\ pc' = [pc EXCEPT ![p] = "announced"] /\ scan' = scan
      BY <1>2, <2>1 DEF Announce
    <3>2. \A q \in Processes : file'[<<q, "claim">>] = file[<<q, "claim">>]
      BY <3>1
    <3>3. ASSUME NEW r \in Processes, NEW q \in ahead'[r]
          PROVE  /\ file'[<<q, "claim">>] = "written"
                 /\ pc'[r] \in {"choosing", "checking"} =>
                      <<q, "claim">> \in scan'[r].todo \/ q \in scan'[r].claims
      <4>1. CASE r = p
        BY <3>1, <3>2, <3>3, <4>1
      <4>2. CASE r # p
        BY <3>1, <3>2, <3>3, <4>2
      <4>3. QED
        BY <4>1, <4>2
    <3>4. QED
      BY <3>3
  <2>2. CASE ~dir
    BY <1>2, <2>2 DEF Announce
  <2>3. QED
    BY <2>1, <2>2
<1>3. CASE FillChoosing(p)
  BY <1>3 DEF FillChoosing, Put
<1>4. CASE ListInDoorway(p)
  BY <1>4 DEF ListInDoorway, List, Listed, NoScan
<1>5. CASE Look(p)
  <2>1. ASSUME NEW r \in Processes, NEW q \in ahead'[r]
        PROVE  /\ file'[<<q, "claim">>] = "written"
               /\ pc'[r] \in {"choosing", "checking"} =>
                    <<q, "claim">> \in scan'[r].todo \/ q \in scan'[r].claims
    <3>1. q \in ahead[r] /\ q \in Processes
      BY <1>5, <2>1, LookFacts
    <3>2. file'[<<q, "claim">>] = "written"
      BY <1>5, <2>1, <3>1, LookFacts
    <3>3. CASE r = p
      <4>1. CASE pc' = pc
        BY <1>5, <3>1, <3>2, <3>3, <4>1, LookFacts
      <4>2. CASE pc' = [pc EXCEPT ![p] = "withdrawing"]
        BY <3>2, <3>3, <4>2
      <4>3. QED
        BY <1>5, <4>1, <4>2, LookFacts
    <3>4. CASE r # p
      <4>1. pc'[r] = pc[r] /\ scan'[r] = scan[r]
        BY <1>5, <3>4, LookFacts
      <4>2. QED
        BY <3>1, <3>2, <4>1
    <3>5. QED
      BY <3>3, <3>4
  <2>2. QED
    BY <2>1
<1>6. CASE Draw(p)
  <2>1. CASE UNCHANGED <<file, ahead>>
    BY <1>6, <2>1 DEF Draw
  <2>2. CASE Put(p, "claim", "empty")
    <3>1. \A r \in Processes : p \notin ahead[r]
      BY <1>6 DEF Draw, Unclaimed
    <3>2. pc' = [pc EXCEPT ![p] = "drawn"] \/ pc' = [pc EXCEPT ![p] = "withdrawing"]
      BY <1>6 DEF Draw
    <3>3. \A r \in Processes \ {p} : scan'[r] = scan[r]
      BY <1>6 DEF Draw
    <3>4. QED
      <4>1. \A r \in Processes : ahead'[r] = ahead[r]
        BY <2>2, PutFacts
      <4>2. \A q \in Processes \ {p} : file'[<<q, "claim">>] = file[<<q, "claim">>]
        BY <2>2, PutFacts
      <4>3. \A r \in Processes : pc'[r] \in {"choosing", "checking"} =>
              pc'[r] = pc[r] /\ scan'[r] = scan[r]
        BY <3>2, <3>3
      <4>4. QED
        BY <3>1, <4>1, <4>2, <4>3
  <2>3. QED
    BY <1>6, <2>1, <2>2 DEF Draw
<1>7. CASE FillClaim(p)
  <2>1. Put(p, "claim", "written") \/ Put(p, "choosing", "none")
    BY <1>7 DEF FillClaim
  <2>2. scan' = scan /\ \E label \in {"leaving", "idle"} : pc' = [pc EXCEPT ![p] = label]
    BY <1>7 DEF FillClaim
  <2>3. \A r \in Processes : ahead'[r] \subseteq ahead[r]
    BY <2>1, PutFacts
  <2>4. \A q \in Processes : \/ file'[<<q, "claim">>] \in {"written", file[<<q, "claim">>]}
                             \/ \A r \in Processes : q \notin ahead'[r]
    BY <2>1, PutFacts
  <2>5. \A r \in Processes : pc'[r] \in {"choosing", "checking"} =>
          pc'[r] = pc[r] /\ scan'[r] = scan[r]
    BY <2>2
  <2>6. QED
    BY <2>3, <2>4, <2>5, AheadListedFrame
<1>8. CASE LeaveDoorway(p)
  <2>1. Put(p, "choosing", "none") \/ UNCHANGED <<file, ahead>>
    BY <1>8 DEF LeaveDoorway
  <2>2. scan' = scan /\ \E label \in {"waiting", "idle"} : pc' = [pc EXCEPT ![p] = label]
    BY <1>8 DEF LeaveDoorway
  <2>3. \A r \in Processes : ahead'[r] \subseteq ahead[r]
    BY <2>1, PutFacts
  <2>4. \A q \in Processes : \/ file'[<<q, "claim">>] \in {"written", file[<<q, "claim">>]}
                             \/ \A r \in Processes : q \notin ahead'[r]
    BY <2>1, PutFacts
  <2>5. \A r \in Processes : pc'[r] \in {"choosing", "checking"} =>
          pc'[r] = pc[r] /\ scan'[r] = scan[r]
    BY <2>2
  <2>6. QED
    BY <2>3, <2>4, <2>5, AheadListedFrame
<1>9. CASE ListInWait(p)
  BY <1>9 DEF ListInWait, List, Listed, NoScan
<1>10. CASE Check(p)
  BY <1>10 DEF Check
<1>11. CASE TimeOut(p)
  BY <1>11 DEF TimeOut
<1>12. CASE Withdraw(p)
  <2>1. pc' = [pc EXCEPT ![p] = "idle"] /\ scan' = scan
    BY <1>12 DEF Withdraw
  <2>2. CASE UNCHANGED <<file, ahead>>
    BY <2>1, <2>2
  <2>3. CASE /\ file' = [name \in Names |-> IF name[1] = p THEN "none" ELSE file[name]]
             /\ ahead' = [q \in Processes |-> ahead[q] \ {p}]
    <3>1. \A q \in Processes \ {p} : file'[<<q, "claim">>] = file[<<q, "claim">>]
      BY <2>3 DEF Names
    <3>2. \A r, q \in Processes : q \in ahead'[r] => q # p /\ q \in ahead[r]
      BY <2>3
    <3>3. ahead' \in [Processes -> SUBSET Processes]
      BY <2>3
    <3>4. QED
      BY <2>1, <3>1, <3>2, <3>3
  <2>4. QED
    BY <1>12, <2>2, <2>3 DEF Withdraw
<1>13. CASE ReadState(p)
  BY <1>13 DEF ReadState
<1>14. CASE WriteState(p)
  BY <1>14 DEF WriteState
<1>15. CASE Release(p)
  <2>1. Put(p, "claim", "none") \/ UNCHANGED <<file, ahead>>
    BY <1>15 DEF Release
  <2>2. scan' = scan /\ \E label \in {"removing", "idle"} : pc' = [pc EXCEPT ![p] = label]
    BY <1>15 DEF Release
  <2>3. \A r \in Processes : ahead'[r] \subseteq ahead[r]
    BY <2>1, PutFacts
  <2>4. \A q \in Processes : \/ file'[<<q, "claim">>] \in {"written", file[<<q, "claim">>]}
                             \/ \A r \in Processes : q \notin ahead'[r]
    <3>1. CASE Put(p, "claim", "none")
      <4>1. \A r \in Processes : ahead'[r] = ahead[r] \ {p}
        BY <3>1, PutFacts
      <4>2. \A q \in Processes \ {p} : file'[<<q, "claim">>] = file[<<q, "claim">>]
        BY <3>1, PutFacts
      <4>3. QED
        BY <4>1, <4>2
    <3>2. QED
      BY <2>1, <3>1
  <2>5. \A r \in Processes : pc'[r] \in {"choosing", "checking"} =>
          pc'[r] = pc[r] /\ scan'[r] = scan[r]
    BY <2>2
  <2>6. QED
    BY <2>3, <2>4, <2>5, AheadListedFrame
<1>16. CASE RemoveDirectory(p)
  BY <1>16 DEF RemoveDirectory
<1>17. CASE Expire(p)
  BY <1>17 DEF Expire
<1>18. CASE Crash(p)
  BY <1>18 DEF Crash
<1>19. CASE Restart(p)
  BY <1>19 DEF Restart
<1>20. QED
  BY <1>1, <1>2, <1>3, <1>4, <1>5, <1>6, <1>7, <1>8, <1>9, <1>10,
     <1>11, <1>12, <1>13, <1>14, <1>15, <1>16, <1>17, <1>18, <1>19 DEF Step

\* A ticket is drawn above all the claims that were read.
LEMMA TicketsAscendKept ==
  ASSUME Types, Unclaimed, AheadListed, TicketsAscend, NEW p \in Processes,
         Begin(p) \/ Step(p) \/ TimeOut(p) \/ Expire(p) \/ Crash(p) \/ Restart(p)
  PROVE  TicketsAscend'
<1> USE DEF TicketsAscend, Types, Goto, Names
<1>1. CASE Begin(p)
  BY <1>1 DEF Begin
<1>2. CASE Announce(p)
  BY <1>2 DEF Announce
<1>3. CASE FillChoosing(p)
  BY <1>3 DEF FillChoosing, Put
<1>4. CASE ListInDoorway(p)
  BY <1>4 DEF ListInDoorway, List
<1>5. CASE Look(p)
  BY <1>5, LookFacts
<1>6. CASE Draw(p)
  <2>1. PICK last \in 0..MaxTicket :
          /\ LastTicket(p, last)
          /\ \/ /\ ticket' = [ticket EXCEPT ![p] = last + 1]
                /\ pc' = [pc EXCEPT ![p] = "drawn"]
             \/ /\ ticket' = ticket
                /\ pc' = [pc EXCEPT ![p] = "withdrawing"]
    BY <1>6 DEF Draw
  <2>2. ahead' = ahead
    BY <1>6 DEF Draw, Put
  <2>3. \A r \in Processes : p \notin ahead[r]
    BY <1>6 DEF Draw, Unclaimed, AheadListed
  <2>4. \A q \in ahead[p] : ticket[q] <= last
    BY <1>6, <2>1 DEF Draw, AheadListed, LastTicket
  <2>5. ASSUME NEW r \in Processes, pc'[r] \in {"drawn", "leaving", "waiting", "checking"},
               NEW q \in ahead'[r]
        PROVE  ticket'[q] < ticket'[r]
    <3>1. q \in Processes /\ q \in ahead[r] /\ q # p /\ ticket'[q] = ticket[q]
      BY <2>1, <2>2, <2>3, <2>5
    <3>2. CASE r = p
      <4>1. ticket'[p] = last + 1
        BY <2>1, <2>5, <3>2
      <4>2. QED
        BY <2>4, <3>1, <3>2, <4>1
    <3>3. CASE r # p
      BY <2>1, <2>5, <3>1, <3>3
    <3>4. QED
      BY <3>2, <3>3
  <2>6. QED
    BY <2>5
<1>7. CASE FillClaim(p)
  BY <1>7 DEF FillClaim, Put
<1>8. CASE LeaveDoorway(p)
  BY <1>8 DEF LeaveDoorway, Put
<1>9. CASE ListInWait(p)
  BY <1>9 DEF ListInWait, List
<1>10. CASE Check(p)
  BY <1>10 DEF Check
<1>11. CASE TimeOut(p)
  BY <1>11 DEF TimeOut
<1>12. CASE Withdraw(p)
  BY <1>12 DEF Withdraw
<1>13. CASE ReadState(p)
  BY <1>13 DEF ReadState
<1>14. CASE WriteState(p)
  BY <1>14 DEF WriteState
<1>15. CASE Release(p)
  BY <1>15 DEF Release, Put
<1>16. CASE RemoveDirectory(p)
  BY <1>16 DEF RemoveDirectory
<1>17. CASE Expire(p)
  BY <1>17 DEF Expire
<1>18. CASE Crash(p)
  BY <1>18 DEF Crash
<1>19. CASE Restart(p)
  BY <1>19 DEF Restart
<1>20. QED
  BY <1>1, <1>2, <1>3, <1>4, <1>5, <1>6, <1>7, <1>8, <1>9, <1>10,
     <1>11, <1>12, <1>13, <1>14, <1>15, <1>16, <1>17, <1>18, <1>19 DEF Step

\* The lock is taken over nobody who is ahead.
LEMMA FirstComeFirstServedKept ==
  ASSUME Types, AheadListed, TicketsAscend, FirstComeFirstServed, NEW p \in Processes,
         Begin(p) \/ Step(p) \/ TimeOut(p) \/ Expire(p) \/ Crash(p) \/ Restart(p)
  PROVE  FirstComeFirstServed'
<1> USE DEF FirstComeFirstServed, Owning, Types, Goto, Names
<1>1. CASE Begin(p)
  BY <1>1 DEF Begin
<1>2. CASE Announce(p)
  BY <1>2 DEF Announce
<1>3. CASE FillChoosing(p)
  BY <1>3 DEF FillChoosing, Put
<1>4. CASE ListInDoorway(p)
  BY <1>4 DEF ListInDoorway, List
<1>5. CASE Look(p)
  BY <1>5, LookFacts
<1>6. CASE Draw(p)
  BY <1>6 DEF Draw, Put
<1>7. CASE FillClaim(p)
  BY <1>7 DEF FillClaim, Put
<1>8. CASE LeaveDoorway(p)
  BY <1>8 DEF LeaveDoorway, Put
<1>9. CASE ListInWait(p)
  BY <1>9 DEF ListInWait, List
<1>10. CASE Check(p)
  <2>1. CASE pc' = [pc EXCEPT ![p] = "waiting"]
    BY <1>10, <2>1 DEF Check
  <2>2. CASE \A q \in scan[p].claims \ {p} : Precedes(p, q)
    <3>1. \A q \in ahead[p] : q \in scan[p].claims /\ ticket[q] < ticket[p]
      BY <1>10 DEF Check, AheadListed, TicketsAscend
    <3>2. \A q \in Processes : ticket[q] \in Nat
      OBVIOUS
    <3>3. ahead[p] = {}
      BY <2>2, <3>1, <3>2 DEF Precedes
    <3>4. ahead' = ahead /\ \A r \in Processes \ {p} : pc'[r] = pc[r]
      BY <1>10 DEF Check
    <3>5. QED
      BY <3>3, <3>4
  <2>3. QED
    BY <1>10, <2>1, <2>2 DEF Check
<1>11. CASE TimeOut(p)
  BY <1>11 DEF TimeOut
<1>12. CASE Withdraw(p)
  BY <1>12 DEF Withdraw
<1>13. CASE ReadState(p)
  BY <1>13 DEF ReadState
<1>14. CASE WriteState(p)
  BY <1>14 DEF WriteState
<1>15. CASE Release(p)
  BY <1>15 DEF Release, Put
<1>16. CASE RemoveDirectory(p)
  BY <1>16 DEF RemoveDirectory
<1>17. CASE Expire(p)
  BY <1>17 DEF Expire
<1>18. CASE Crash(p)
  BY <1>18 DEF Crash
<1>19. CASE Restart(p)
  BY <1>19 DEF Restart
<1>20. QED
  BY <1>1, <1>2, <1>3, <1>4, <1>5, <1>6, <1>7, <1>8, <1>9, <1>10,
     <1>11, <1>12, <1>13, <1>14, <1>15, <1>16, <1>17, <1>18, <1>19 DEF Step

-----------------------------------------------------------------------------
(* The theorems *)

LEMMA InitiallyQueued == Init => Queued
<1>1. ASSUME Init PROVE Unclaimed /\ Claimed /\ AheadListed /\ TicketsAscend /\ FirstComeFirstServed
  BY <1>1 DEF Init, Unclaimed, Claimed, AheadListed, TicketsAscend, FirstComeFirstServed, Owning
<1>2. QED
  BY <1>1, InitialTypes DEF Queued

\* A step that changes nothing but what the invariants do not mention.
LEMMA StutterKept == Queued /\ UNCHANGED vars => Queued'
  BY DEF vars, Queued, Types, Unclaimed, Claimed, AheadListed, TicketsAscend,
         FirstComeFirstServed

LEMMA QueuedKept == Queued /\ [Next]_vars => Queued'
<1> SUFFICES ASSUME Queued, [Next]_vars PROVE Queued'
  OBVIOUS
<1>1. CASE UNCHANGED vars
  BY <1>1, StutterKept
<1>2. ASSUME NEW p \in Processes,
             Begin(p) \/ Step(p) \/ TimeOut(p) \/ Expire(p) \/ Crash(p) \/ Restart(p)
      PROVE  Queued'
  <2>1. Types'
    BY TypesKept DEF Queued
  <2>2. Unclaimed' /\ Claimed'
    BY <1>2, UnclaimedKept, ClaimedKept DEF Queued
  <2>3. AheadListed' /\ TicketsAscend' /\ FirstComeFirstServed'
    BY <1>2, AheadListedKept, TicketsAscendKept, FirstComeFirstServedKept DEF Queued
  <2>4. QED
    BY <2>1, <2>2, <2>3 DEF Queued
<1>3. QED
  BY <1>1, <1>2 DEF Next

\* Whoever has the lock of the installed skills had nobody ahead: every caller
\* whose claim was written before it announced itself has had its turn, has given
\* up or has died (acquireLeaseLock).
THEOREM FirstComeFirstServedHolds == Spec => []FirstComeFirstServed
<1>1. Queued => FirstComeFirstServed
  BY DEF Queued
<1>2. QED
  BY InitiallyQueued, QueuedKept, <1>1, PTL DEF Spec

\* The claim of a process that has the lock is there until it releases it, also
\* when its lease is over: inspectActiveClaims removes only those of the dead.
THEOREM OwnerKeepsClaimHolds == Spec => []OwnerKeepsClaim
<1>1. Queued => OwnerKeepsClaim
  BY DEF Queued, Claimed, OwnerKeepsClaim
<1>2. QED
  BY InitiallyQueued, QueuedKept, <1>1, PTL DEF Spec

=============================================================================
