----------------------------- MODULE TurnProofs -----------------------------
(***************************************************************************)
(* Proofs about Turn, for any number of terminals, contents and turns.     *)
(***************************************************************************)
EXTENDS Turn, TLAPS

-----------------------------------------------------------------------------
(* Prefixes *)

LEMMA PrefixPointwise ==
  ASSUME NEW S, NEW s \in Seq(S), NEW u \in Seq(S)
  PROVE  IsPrefix(s, u) <=> Len(s) <= Len(u) /\ \A i \in 1..Len(s) : s[i] = u[i]
<1>1. ASSUME IsPrefix(s, u)
      PROVE  Len(s) <= Len(u) /\ \A i \in 1..Len(s) : s[i] = u[i]
  BY <1>1 DEF IsPrefix
<1>2. ASSUME Len(s) <= Len(u), \A i \in 1..Len(s) : s[i] = u[i]
      PROVE  SubSeq(s, 1, Len(s)) = SubSeq(u, 1, Len(s))
  BY <1>2
<1>3. QED
  BY <1>1, <1>2 DEF IsPrefix

LEMMA PrefixRefl == ASSUME NEW S, NEW s \in Seq(S) PROVE IsPrefix(s, s)
BY PrefixPointwise

LEMMA PrefixTrans ==
  ASSUME NEW S, NEW s \in Seq(S), NEW u \in Seq(S), NEW v \in Seq(S),
         IsPrefix(s, u), IsPrefix(u, v)
  PROVE  IsPrefix(s, v)
<1>1. Len(s) <= Len(u) /\ \A i \in 1..Len(s) : s[i] = u[i]
  BY PrefixPointwise
<1>2. Len(u) <= Len(v) /\ \A i \in 1..Len(u) : u[i] = v[i]
  BY PrefixPointwise
<1>3. Len(s) <= Len(v) /\ \A i \in 1..Len(s) : s[i] = v[i]
  BY <1>1, <1>2
<1>4. QED
  BY <1>3, PrefixPointwise

LEMMA PrefixAppend ==
  ASSUME NEW S, NEW s \in Seq(S), NEW u \in Seq(S), NEW e \in S, IsPrefix(s, u)
  PROVE  IsPrefix(s, Append(u, e))
<1>1. Append(u, e) \in Seq(S) /\ Len(Append(u, e)) = Len(u) + 1
      /\ \A i \in 1..Len(u) : Append(u, e)[i] = u[i]
  OBVIOUS
<1>2. Len(s) <= Len(u) /\ \A i \in 1..Len(s) : s[i] = u[i]
  BY PrefixPointwise
<1>3. Len(s) <= Len(Append(u, e)) /\ \A i \in 1..Len(s) : s[i] = Append(u, e)[i]
  BY <1>1, <1>2
<1>4. QED
  BY <1>1, <1>3, PrefixPointwise

-----------------------------------------------------------------------------
(* Sessions *)

Sessions == [stored : Copies, mem : [Terminals -> Copies]]

\* No copy is ahead of the stored session, and one of the same revision has all
\* of its messages.
Behind(s) ==
  \A t \in Terminals :
    /\ s.mem[t].rev <= s.stored.rev
    /\ s.mem[t].rev = s.stored.rev => IsPrefix(s.stored.log, s.mem[t].log)

\* What any number of saves of t makes of the sessions.
Saving(s, s2, t) ==
  /\ s2 \in Sessions /\ Behind(s2)
  /\ IsPrefix(s.stored.log, s2.stored.log)
  /\ \A u \in Terminals \ {t} : s2.mem[u] = s.mem[u]

Stored(s, t) == s.mem[t].log = s.stored.log

LEMMA SavingNothing ==
  ASSUME NEW s \in Sessions, Behind(s), NEW t \in Terminals
  PROVE  Saving(s, s, t)
<1>1. s.stored.log \in Seq(Terminals)
  BY DEF Sessions, Copies
<1>2. QED
  BY <1>1, PrefixRefl DEF Saving

LEMMA SavingMore ==
  ASSUME NEW s \in Sessions, NEW s1, NEW s2, NEW t \in Terminals,
         Saving(s, s1, t), Saving(s1, s2, t)
  PROVE  Saving(s, s2, t)
<1>1. s.stored.log \in Seq(Terminals) /\ s1.stored.log \in Seq(Terminals)
      /\ s2.stored.log \in Seq(Terminals)
  BY DEF Saving, Sessions, Copies
<1>2. IsPrefix(s.stored.log, s2.stored.log)
  BY <1>1, PrefixTrans DEF Saving
<1>3. QED
  BY <1>2 DEF Saving

LEMMA CopyFields ==
  ASSUME NEW c \in Copies, NEW l \in Seq(Terminals), NEW n \in Nat
  PROVE  /\ [c EXCEPT !.log = l] \in Copies
         /\ [c EXCEPT !.log = l].rev = c.rev /\ [c EXCEPT !.log = l].log = l
         /\ [c EXCEPT !.rev = n] \in Copies
         /\ [c EXCEPT !.rev = n].rev = n /\ [c EXCEPT !.rev = n].log = c.log
BY DEF Copies

LEMMA SessionFields ==
  ASSUME NEW s \in Sessions, NEW t \in Terminals, NEW c \in Copies
  PROVE  /\ [s EXCEPT !.mem = [s.mem EXCEPT ![t] = c]] \in Sessions
         /\ [s EXCEPT !.mem = [s.mem EXCEPT ![t] = c]].stored = s.stored
         /\ [s EXCEPT !.mem = [s.mem EXCEPT ![t] = c]].mem[t] = c
         /\ \A u \in Terminals \ {t} : [s EXCEPT !.mem = [s.mem EXCEPT ![t] = c]].mem[u] = s.mem[u]
         /\ [s EXCEPT !.stored = c] \in Sessions
         /\ [s EXCEPT !.stored = c].stored = c
         /\ [s EXCEPT !.stored = c].mem = s.mem
BY DEF Sessions

\* A message is pushed: nothing is stored.
LEMMA SavingPush ==
  ASSUME NEW s \in Sessions, Behind(s), NEW t \in Terminals
  PROVE  /\ Saving(s, Push(s, t), t)
         /\ Push(s, t).stored = s.stored
<1> DEFINE p == Push(s, t)
<1> DEFINE copy == [s.mem[t] EXCEPT !.log = Append(s.mem[t].log, t)]
<1>a. s.mem[t] \in Copies /\ s.mem[t].log \in Seq(Terminals)
  BY DEF Sessions, Copies
<1>b. copy \in Copies /\ copy.rev = s.mem[t].rev /\ copy.log = Append(s.mem[t].log, t)
  <2>1. Append(s.mem[t].log, t) \in Seq(Terminals)
    BY <1>a
  <2>2. QED
    BY <1>a, <2>1, CopyFields
<1>c. p = [s EXCEPT !.mem = [s.mem EXCEPT ![t] = copy]]
  BY <1>a DEF Push, Sessions, Copies
<1> HIDE DEF copy, p
<1>1. /\ p \in Sessions /\ p.stored = s.stored
      /\ p.mem[t].rev = s.mem[t].rev
      /\ p.mem[t].log = Append(s.mem[t].log, t)
      /\ \A u \in Terminals \ {t} : p.mem[u] = s.mem[u]
  BY <1>b, <1>c, SessionFields
<1>2. s.stored.log \in Seq(Terminals) /\ s.mem[t].log \in Seq(Terminals)
  BY DEF Sessions, Copies
<1>3. Behind(p)
  BY <1>1, <1>2, PrefixAppend DEF Behind
<1>4. QED
  BY <1>1, <1>2, <1>3, PrefixRefl DEF Saving, p

\* A write under the current revision, whether or not the copy takes the new one.
LEMMA SavingWritten ==
  ASSUME NEW s \in Sessions, Behind(s), NEW t \in Terminals, s.mem[t].rev = s.stored.rev
  PROVE  /\ Saving(s, Written(s, t), t)
         /\ Saving(s, [Written(s, t) EXCEPT !.mem[t].rev = @ + 1], t)
         /\ Stored([Written(s, t) EXCEPT !.mem[t].rev = @ + 1], t)
<1> DEFINE w == Written(s, t)
           v == [w EXCEPT !.mem[t].rev = @ + 1]
           first == [rev |-> s.stored.rev + 1, log |-> s.mem[t].log]
           copy == [s.mem[t] EXCEPT !.rev = s.mem[t].rev + 1]
<1>1. /\ s.stored.log \in Seq(Terminals) /\ s.stored.rev \in Nat /\ s.stored \in Copies
      /\ \A u \in Terminals : /\ s.mem[u] \in Copies
                              /\ s.mem[u].log \in Seq(Terminals) /\ s.mem[u].rev \in Nat
  BY DEF Sessions, Copies
<1>a. first \in Copies /\ w = [s EXCEPT !.stored = first]
  BY <1>1 DEF Written, Copies
<1>b. copy \in Copies /\ copy.rev = s.stored.rev + 1 /\ copy.log = s.mem[t].log
  <2>1. s.mem[t] \in Copies /\ s.mem[t].rev + 1 \in Nat /\ s.mem[t].log \in Seq(Terminals)
    BY <1>1
  <2>2. /\ copy \in Copies /\ copy.rev = s.mem[t].rev + 1
        /\ copy.log = s.mem[t].log
    BY <2>1, CopyFields
  <2>3. QED
    BY <2>2
<1> HIDE DEF copy, first, w
<1>2. /\ w \in Sessions /\ w.stored = first /\ w.mem = s.mem
  BY <1>a, SessionFields
<1>c. v = [w EXCEPT !.mem = [w.mem EXCEPT ![t] = copy]]
  BY <1>1, <1>2 DEF copy, Sessions
<1>d. first.rev = s.stored.rev + 1 /\ first.log = s.mem[t].log
  BY DEF first
<1> HIDE DEF v
<1>3. /\ v \in Sessions /\ v.stored = w.stored
      /\ v.mem[t].rev = s.stored.rev + 1 /\ v.mem[t].log = s.mem[t].log
      /\ \A u \in Terminals \ {t} : v.mem[u] = s.mem[u]
  <2>1. /\ v \in Sessions /\ v.stored = w.stored /\ v.mem[t] = copy
        /\ \A u \in Terminals \ {t} : v.mem[u] = w.mem[u]
    BY <1>b, <1>c, <1>2, SessionFields
  <2>2. QED
    BY <1>b, <1>2, <2>1
<1>4. IsPrefix(s.stored.log, s.mem[t].log)
  BY DEF Behind
<1>5. Behind(w)
  BY <1>1, <1>2, <1>d DEF Behind
<1>6. Behind(v)
  BY <1>1, <1>2, <1>3, <1>d, PrefixRefl DEF Behind
<1>7. Saving(s, w, t) /\ Saving(s, v, t) /\ Stored(v, t)
  BY <1>2, <1>3, <1>4, <1>5, <1>6, <1>d DEF Saving, Stored
<1>8. QED
  BY <1>7 DEF w, v

LEMMA SavingSaves ==
  ASSUME NEW s \in Sessions, Behind(s), NEW t \in Terminals, NEW r \in PushAndSave(s, t)
  PROVE  Saving(s, r.sess, t) /\ (r.ok => Stored(r.sess, t))
<1> DEFINE p == Push(s, t)
<1>1. p \in Sessions /\ Behind(p) /\ Saving(s, p, t)
  BY SavingPush DEF Saving
<1>2. CASE r = [sess |-> p, ok |-> FALSE]
  BY <1>1, <1>2
<1>3. CASE /\ p.mem[t].rev = p.stored.rev
           /\ r = [sess |-> [Written(p, t) EXCEPT !.mem[t].rev = @ + 1], ok |-> TRUE]
  <2>1. Saving(p, r.sess, t) /\ Stored(r.sess, t)
    BY <1>1, <1>3, SavingWritten
  <2>2. QED
    BY <1>1, <2>1, SavingMore
<1>4. CASE /\ p.mem[t].rev = p.stored.rev
           /\ r = [sess |-> Written(p, t), ok |-> FALSE]
  <2>1. Saving(p, r.sess, t) /\ ~r.ok
    BY <1>1, <1>4, SavingWritten
  <2>2. QED
    BY <1>1, <2>1, SavingMore
<1>5. QED
  BY <1>2, <1>3, <1>4 DEF PushAndSave, Saves

\* A message is pushed and saved once, or after another attempt to.
LEMMA SavingReview ==
  ASSUME sess \in Sessions, Behind(sess), NEW t \in Terminals, NEW verdicts,
         NEW r \in ReviewEnds(t, verdicts)
  PROVE  /\ Saving(sess, r.sess, t)
         /\ r.ok => Stored(r.sess, t)
         /\ r.verdict \in verdicts \cup {"REVIEW_BLOCKED"}
<1> DEFINE interrupted == {sess} \cup { x.sess : x \in PushAndSave(sess, t) }
<1>1. CASE \E x \in PushAndSave(sess, t), v \in verdicts :
             x.ok /\ r = [sess |-> x.sess, ok |-> TRUE, verdict |-> v]
  BY <1>1, SavingSaves
<1>2. ASSUME NEW s \in interrupted, NEW x \in PushAndSave(s, t),
             r = [sess |-> x.sess, ok |-> x.ok, verdict |-> "REVIEW_BLOCKED"]
      PROVE  /\ Saving(sess, r.sess, t)
             /\ r.ok => Stored(r.sess, t)
             /\ r.verdict \in verdicts \cup {"REVIEW_BLOCKED"}
  <2>1. Saving(sess, s, t)
    BY SavingNothing, SavingSaves
  <2>2. s \in Sessions /\ Behind(s)
    BY <2>1 DEF Saving
  <2>3. Saving(s, x.sess, t) /\ (x.ok => Stored(x.sess, t))
    BY <2>2, SavingSaves
  <2>4. Saving(sess, x.sess, t)
    BY <2>1, <2>3, SavingMore
  <2>5. QED
    BY <1>2, <2>3, <2>4
<1>3. QED
  BY <1>1, <1>2 DEF ReviewEnds

-----------------------------------------------------------------------------
(* Turns *)

\* The sets of the fields of a turn, by name.
Prints == Contents \cup {Unmeasurable}
Pcs == {"idle", "opening", "producing", "falling_back", "review_due", "reviewing",
        "remediating", "gate"}
Ops == {"send", "ask"}
Modes == {"plan", "agent"}
Lasts == {"none", "result", "unavailable", "error", "deadline", "cancelled", "unsaved"}
Verdicts == {"none", "PASS", "CHANGES_REQUIRED", "REVIEW_BLOCKED"}
Outcomes == {"none", "delivered", "failed"}

LEMMA TurnsByName ==
  Turns = [ pc : Pcs, op : Ops, mode : Modes, model : Families, attempt : 1..3,
            live : BOOLEAN, aborted : BOOLEAN, touched : BOOLEAN,
            before : Prints, found : Prints, packet : Prints,
            last : Lasts, verdict : Verdicts, reviews : 0..2, outcome : Outcomes ]
BY DEF Turns, Pcs, Ops, Modes, Prints, Lasts, Verdicts, Outcomes

LEMMA Names ==
  /\ \A p \in {"idle", "opening", "producing", "falling_back", "review_due", "reviewing",
               "remediating", "gate"} : p \in Pcs
  /\ Unmeasurable \in Prints /\ "none" \in Lasts /\ "result" \in Lasts
  /\ "none" \in Verdicts /\ \A o \in {"none", "delivered", "failed"} : o \in Outcomes
  /\ "send" \in Ops /\ "ask" \in Ops /\ "plan" \in Modes /\ "agent" \in Modes
  /\ \A m \in {"Sol", "Claude", "CursorFable"} : m \in Families
BY DEF Pcs, Ops, Modes, Prints, Lasts, Verdicts, Outcomes, Families, Codex

\* What may be delivered.
Deliverable(k) ==
  k.mode = "agent" =>
    /\ k.found # Unmeasurable
    /\ \/ k.found = k.before
       \/ k.verdict = "PASS" /\ k.packet = k.found /\ ReviewerFor(k.model) # k.model

\* What is true of each turn by itself.
Sound(k) ==
  /\ k \in Turns
  /\ k.live => k.pc \in {"producing", "remediating"}
  /\ k.pc = "reviewing" => k.packet # Unmeasurable
  /\ k.aborted => k.op = "ask"
  /\ k.pc \in {"opening", "producing", "falling_back"} => k.reviews = 0
  /\ k.pc \in {"review_due", "reviewing", "remediating"} => k.reviews <= 1
  /\ k.pc = "falling_back" => k.last \notin Stops /\ k.found = k.before
  /\ k.outcome = "delivered" => k.pc = "idle" /\ Deliverable(k)

\* No family reviews itself.
LEMMA AnotherReviews == \A m \in Families : ReviewerFor(m) \in Families /\ ReviewerFor(m) # m
BY DEF Families, Codex, ReviewerFor

LEMMA NoTurnTyped == ASSUME NEW found \in Prints PROVE NoTurn(found) \in Turns
<1>1. /\ "idle" \in Pcs /\ "send" \in Ops /\ "plan" \in Modes /\ "Sol" \in Families
      /\ 1 \in 1..3 /\ FALSE \in BOOLEAN /\ Unmeasurable \in Prints /\ "none" \in Lasts
      /\ "none" \in Verdicts /\ 0 \in 0..2 /\ "none" \in Outcomes
  BY DEF Pcs, Ops, Modes, Families, Codex, Prints, Lasts, Verdicts, Outcomes
<1>2. QED
  BY <1>1, TurnsByName DEF NoTurn

LEMMA NoTurnSound ==
  ASSUME NEW found \in Prints, NEW o \in {"none", "failed"}
  PROVE  /\ Sound([NoTurn(found) EXCEPT !.outcome = o])
         /\ ~[NoTurn(found) EXCEPT !.outcome = o].live
         /\ [NoTurn(found) EXCEPT !.outcome = o].pc = "idle"
         /\ [NoTurn(found) EXCEPT !.outcome = o].outcome = o
<1> DEFINE k == [NoTurn(found) EXCEPT !.outcome = o]
<1>1. /\ k.pc = "idle" /\ k.live = FALSE /\ k.aborted = FALSE /\ k.outcome = o
  BY DEF NoTurn
<1>a. NoTurn(found) \in Turns
  BY NoTurnTyped
<1>b. o \in Outcomes
  BY DEF Outcomes
<1>2. k \in Turns
  BY <1>a, <1>b, TurnsByName
<1> HIDE DEF k
<1>3. Sound(k)
  BY <1>1, <1>2 DEF Sound
<1>4. QED
  BY <1>1, <1>3 DEF k

Opens(k) == Sound(k) /\ ~k.live /\ k.pc = "opening" /\ k.outcome = "none"

LEMMA BegunSound ==
  ASSUME NEW found \in Prints, NEW op \in {"send", "ask"}, NEW mode \in {"plan", "agent"},
         NEW m \in Primaries
  PROVE  Opens([NoTurn(found) EXCEPT !.pc = "opening", !.op = op, !.mode = mode, !.model = m])
<1> DEFINE k == [NoTurn(found) EXCEPT !.pc = "opening", !.op = op, !.mode = mode, !.model = m]
<1>1. /\ k.pc = "opening" /\ k.live = FALSE /\ k.aborted = FALSE /\ k.outcome = "none"
      /\ k.reviews = 0
  BY DEF NoTurn
<1>2. m \in Families
  BY TurnAssumption
<1>a. NoTurn(found) \in Turns
  BY NoTurnTyped
<1>b. op \in Ops /\ mode \in Modes /\ "opening" \in Pcs
  BY DEF Ops, Modes, Pcs
<1>3. k \in Turns
  BY <1>2, <1>a, <1>b, TurnsByName
<1> HIDE DEF k
<1>4. Sound(k)
  BY <1>1, <1>3 DEF Sound
<1>5. QED
  BY <1>1, <1>4 DEF k, Opens

\* A writing phase is entered.
LEMMA EnterSound ==
  ASSUME NEW k \in Turns, k.aborted => k.op = "ask", k.outcome # "delivered",
         NEW pc, \/ pc = "producing" /\ k.reviews = 0
                 \/ pc = "remediating" /\ k.reviews <= 1
  PROVE  /\ Sound(Enter(k, pc))
         /\ Enter(k, pc).live => ~k.aborted
         /\ Enter(k, pc).pc = pc /\ Enter(k, pc).outcome = k.outcome
<1> DEFINE e == [k EXCEPT !.pc = pc]
<1>1. e \in Turns /\ e.pc = pc /\ e.op = k.op /\ e.aborted = k.aborted
      /\ e.outcome = k.outcome /\ e.reviews = k.reviews
  BY DEF Turns
<1> HIDE DEF e
<1> DEFINE f == [e EXCEPT !.live = ~(HasSignal(e) /\ e.aborted)]
<1>2. Enter(k, pc) = f
  BY DEF Enter, e
<1>3. /\ f \in Turns /\ f.pc = pc /\ f.op = k.op /\ f.aborted = k.aborted
      /\ f.outcome = k.outcome /\ f.reviews = k.reviews
      /\ f.live = ~(HasSignal(e) /\ e.aborted)
  BY <1>1 DEF Turns, HasSignal
<1> HIDE DEF f
<1>4. Sound(f)
  BY <1>3 DEF Sound
<1>5. f.live => ~k.aborted
  BY <1>1, <1>3 DEF HasSignal
<1>6. QED
  BY <1>2, <1>3, <1>4, <1>5

LEMMA OverSound ==
  ASSUME NEW k \in Turns, k.aborted => k.op = "ask", NEW o \in {"delivered", "failed"},
         o = "delivered" => Deliverable(k)
  PROVE  /\ Sound(Over(k, o))
         /\ ~Over(k, o).live /\ Over(k, o).pc = "idle" /\ Over(k, o).outcome = o
<1>1. CASE o = "failed"
  BY <1>1, NoTurnSound DEF Over, NoTurn, Prints
<1>2. CASE o = "delivered"
  <2> DEFINE f == [k EXCEPT !.pc = "idle", !.live = FALSE, !.outcome = "delivered"]
  <2>1. /\ f \in Turns /\ f.pc = "idle" /\ f.live = FALSE /\ f.outcome = "delivered"
        /\ f.aborted = k.aborted /\ f.op = k.op /\ f.mode = k.mode /\ f.found = k.found
        /\ f.before = k.before /\ f.verdict = k.verdict /\ f.packet = k.packet
        /\ f.model = k.model
    BY TurnsByName, Names
  <2> HIDE DEF f
  <2>2. Sound(f)
    BY <1>2, <2>1 DEF Sound, Deliverable
  <2>3. Over(k, o) = f
    BY <1>2 DEF Over, f
  <2>4. QED
    BY <1>2, <2>1, <2>2, <2>3
<1>3. QED
  BY <1>1, <1>2

-----------------------------------------------------------------------------
(* Steps *)

\* What is at the gate, or was delivered, is stored: no save of it failed.
Linked(k, s, t) ==
  k.pc = "gate" \/ k.outcome = "delivered" => IsPrefix(s.mem[t].log, s.stored.log)

Inv ==
  /\ workspace \in Contents /\ uses \in 0..MaxUses
  /\ sess \in Sessions /\ Behind(sess)
  /\ turn \in [Terminals -> Turns]
  /\ \A t \in Terminals : Sound(turn[t]) /\ Linked(turn[t], sess, t)

\* A step of t that leaves its turn k2 and the sessions s2.
Took(t, k2, s2) ==
  /\ Sound(k2)
  /\ ~turn[t].live /\ k2.live => ~turn[t].aborted
  /\ Saving(sess, s2, t)
  /\ Linked(k2, s2, t)

StepOf(t) ==
  /\ workspace' \in Contents /\ uses' \in 0..MaxUses
  /\ \E k2, s2 : Took(t, k2, s2) /\ turn' = [turn EXCEPT ![t] = k2] /\ sess' = s2

LEMMA StoredIsLinked ==
  ASSUME NEW s \in Sessions, NEW t \in Terminals, Stored(s, t), NEW k
  PROVE  Linked(k, s, t)
<1>1. s.stored.log \in Seq(Terminals)
  BY DEF Sessions, Copies
<1>2. QED
  BY <1>1, PrefixRefl DEF Stored, Linked

\* A turn that neither is at the gate nor was delivered is linked to any session.
LEMMA Elsewhere ==
  ASSUME NEW k, NEW s, NEW t, k.pc # "gate", k.outcome # "delivered"
  PROVE  Linked(k, s, t)
BY DEF Linked

LEMMA OfInv ==
  ASSUME Inv, NEW t \in Terminals
  PROVE  /\ turn[t] \in Turns /\ Sound(turn[t]) /\ Linked(turn[t], sess, t)
         /\ turn[t].pc # "idle" => turn[t].outcome # "delivered"
         /\ turn[t].aborted => turn[t].op = "ask"
         /\ sess \in Sessions /\ Behind(sess) /\ Saving(sess, sess, t)
         /\ workspace \in Contents /\ uses \in 0..MaxUses
BY SavingNothing DEF Inv, Sound

LEMMA SnapshotsArePrints ==
  ASSUME Inv PROVE Snapshots \subseteq Prints
BY DEF Inv, Snapshots, Prints

LEMMA OutcomeReset ==
  ASSUME NEW k, Sound(k)
  PROVE  LET f == [k EXCEPT !.outcome = "none"]
         IN Sound(f) /\ f.live = k.live /\ f.pc = k.pc /\ f.outcome = "none"
<1> DEFINE f == [k EXCEPT !.outcome = "none"]
<1>1. k \in Turns
  BY DEF Sound
<1>2. /\ f.live = k.live /\ f.pc = k.pc /\ f.outcome = "none" /\ f.packet = k.packet
      /\ f.aborted = k.aborted /\ f.op = k.op /\ f.reviews = k.reviews
      /\ f.last = k.last /\ f.found = k.found /\ f.before = k.before
  BY <1>1, TurnsByName
<1>3. f \in Turns
  BY <1>1, TurnsByName, Names
<1> HIDE DEF f
<1>4. Sound(f)
  BY <1>2, <1>3 DEF Sound
<1>5. QED
  BY <1>2, <1>4 DEF f

LEMMA StepBegin == ASSUME Inv, NEW t \in Terminals, Begin(t) PROVE StepOf(t)
<1>1. PICK op \in {"send", "ask"}, mode \in {"plan", "agent"}, m \in Primaries,
           found \in Snapshots :
        turn' = [turn EXCEPT ![t] =
          [NoTurn(found) EXCEPT !.pc = "opening", !.op = op, !.mode = mode, !.model = m]]
  BY DEF Begin
<1> DEFINE k == [NoTurn(found) EXCEPT !.pc = "opening", !.op = op, !.mode = mode, !.model = m]
<1>2. found \in Prints
  BY SnapshotsArePrints
<1>3. Opens(k)
  BY <1>2, BegunSound
<1> HIDE DEF k
<1>4. Took(t, k, sess)
  BY <1>3, OfInv, Elsewhere DEF Took, Opens
<1>5. workspace' \in Contents /\ uses' \in 0..MaxUses /\ sess' = sess
  BY OfInv, TurnAssumption DEF Begin
<1>6. turn' = [turn EXCEPT ![t] = k]
  BY <1>1 DEF k
<1>7. QED
  BY <1>4, <1>5, <1>6 DEF StepOf

LEMMA StepCommand == ASSUME Inv, NEW t \in Terminals, Command(t) PROVE StepOf(t)
<1>1. PICK r \in PushAndSave(sess, t) : sess' = r.sess
  BY DEF Command
<1> DEFINE k == [turn[t] EXCEPT !.outcome = "none"]
<1>2. turn[t].pc = "idle" /\ turn' = [turn EXCEPT ![t] = k]
  BY DEF Command, Inv
<1>3. Sound(k) /\ k.live = turn[t].live /\ k.pc = "idle" /\ k.outcome = "none"
  BY <1>2, OfInv, OutcomeReset
<1>4. Saving(sess, r.sess, t)
  BY OfInv, SavingSaves
<1> HIDE DEF k
<1>5. Took(t, k, r.sess)
  BY <1>3, <1>4, Elsewhere DEF Took
<1>6. workspace' \in Contents /\ uses' \in 0..MaxUses
  BY OfInv, TurnAssumption DEF Command
<1>7. QED
  BY <1>1, <1>2, <1>5, <1>6 DEF StepOf

LEMMA StepResume == ASSUME Inv, NEW t \in Terminals, Resume(t) PROVE StepOf(t)
<1> DEFINE k == [turn[t] EXCEPT !.outcome = "none"]
           s == [sess EXCEPT !.mem = [sess.mem EXCEPT ![t] = sess.stored]]
<1>1. sess \in Sessions /\ Behind(sess) /\ sess.stored \in Copies
      /\ sess.stored.log \in Seq(Terminals) /\ sess.stored.rev \in Nat
  BY OfInv DEF Sessions, Copies
<1>2. turn[t].pc = "idle" /\ turn' = [turn EXCEPT ![t] = k]
  BY DEF Resume, Inv
<1>3. Sound(k) /\ k.live = turn[t].live /\ k.pc = "idle" /\ k.outcome = "none"
  BY <1>2, OfInv, OutcomeReset
<1>4. sess' = s
  BY <1>1 DEF Resume, Sessions
<1>5. /\ s \in Sessions /\ s.stored = sess.stored /\ s.mem[t] = sess.stored
      /\ \A u \in Terminals \ {t} : s.mem[u] = sess.mem[u]
  BY <1>1, SessionFields
<1> HIDE DEF k, s
<1>6. Behind(s)
  BY <1>1, <1>5, PrefixRefl DEF Behind
<1>7. Saving(sess, s, t)
  BY <1>1, <1>5, <1>6, PrefixRefl DEF Saving
<1>8. Took(t, k, s)
  BY <1>3, <1>7, Elsewhere DEF Took
<1>9. workspace' \in Contents /\ uses' \in 0..MaxUses
  BY OfInv DEF Resume
<1>10. QED
  BY <1>2, <1>4, <1>8, <1>9 DEF StepOf

LEMMA StepAbort == ASSUME Inv, NEW t \in Terminals, Abort(t) PROVE StepOf(t)
<1> DEFINE k == turn[t]
           f == [k EXCEPT !.aborted = TRUE]
<1>1. k \in Turns /\ Sound(k) /\ k.pc # "idle" /\ k.op = "ask" /\ k.outcome # "delivered"
      /\ Linked(k, sess, t) /\ turn' = [turn EXCEPT ![t] = f]
  BY OfInv DEF Abort, Inv
<1> HIDE DEF k
<1>2. /\ f.live = k.live /\ f.pc = k.pc /\ f.outcome = k.outcome /\ f.packet = k.packet
      /\ f.op = k.op /\ f.reviews = k.reviews
      /\ f.last = k.last /\ f.found = k.found /\ f.before = k.before
  BY <1>1, TurnsByName
<1>3. f \in Turns
  BY <1>1, TurnsByName
<1> HIDE DEF f
<1>4. Sound(f)
  BY <1>1, <1>2, <1>3 DEF Sound
<1>5. Linked(f, sess, t)
  BY <1>1, <1>2 DEF Linked
<1>6. Took(t, f, sess)
  BY <1>2, <1>4, <1>5, OfInv DEF Took, k
<1>7. workspace' \in Contents /\ uses' \in 0..MaxUses /\ sess' = sess
  BY OfInv DEF Abort
<1>8. QED
  BY <1>1, <1>6, <1>7 DEF StepOf

LEMMA StepWrite == ASSUME Inv, NEW t \in Terminals, Write(t) PROVE StepOf(t)
<1> DEFINE k == turn[t]
           f == [k EXCEPT !.touched = TRUE]
<1>1. k \in Turns /\ Sound(k) /\ turn' = [turn EXCEPT ![t] = f] /\ Linked(k, sess, t)
  BY OfInv DEF Write, Inv
<1>a. k.pc \in {"producing", "remediating"} /\ k.outcome # "delivered" /\ k.live
  BY OfInv DEF Write, Sound
<1> HIDE DEF k
<1>2. /\ f.live = k.live /\ f.pc = k.pc /\ f.outcome = k.outcome /\ f.packet = k.packet
      /\ f.op = k.op /\ f.reviews = k.reviews /\ f.aborted = k.aborted
      /\ f.last = k.last /\ f.found = k.found /\ f.before = k.before
  BY <1>1, TurnsByName
<1>3. f \in Turns
  BY <1>1, TurnsByName
<1> HIDE DEF f
<1>4. Sound(f)
  BY <1>1, <1>a, <1>2, <1>3 DEF Sound
<1>5. Took(t, f, sess)
  BY <1>a, <1>2, <1>4, Elsewhere, OfInv DEF Took, k
<1>7. workspace' \in Contents /\ uses' \in 0..MaxUses /\ sess' = sess
  BY OfInv DEF Write
<1>8. QED
  BY <1>1, <1>5, <1>7 DEF StepOf

\* The call of t ends: with a failure, or with what may be delivered and is stored.
LEMMA Ended ==
  ASSUME NEW t \in Terminals, NEW k \in Turns, k.aborted => k.op = "ask",
         NEW o \in {"delivered", "failed"}, NEW s2, Saving(sess, s2, t),
         o = "delivered" => Deliverable(k) /\ IsPrefix(s2.mem[t].log, s2.stored.log)
  PROVE  Took(t, Over(k, o), s2)
BY OverSound DEF Took, Linked

LEMMA Entered ==
  ASSUME NEW t \in Terminals, NEW k \in Turns, k.aborted => k.op = "ask",
         k.aborted = turn[t].aborted, k.outcome # "delivered",
         NEW pc, \/ pc = "producing" /\ k.reviews = 0
                 \/ pc = "remediating" /\ k.reviews <= 1,
         NEW s2, Saving(sess, s2, t)
  PROVE  Took(t, Enter(k, pc), s2)
<1>1. /\ Sound(Enter(k, pc)) /\ (Enter(k, pc).live => ~k.aborted)
      /\ Enter(k, pc).pc = pc /\ Enter(k, pc).outcome = k.outcome
  BY EnterSound
<1>2. Linked(Enter(k, pc), s2, t)
  BY <1>1, Elsewhere
<1>3. QED
  BY <1>1, <1>2 DEF Took

LEMMA StepOpen == ASSUME Inv, NEW t \in Terminals, Open(t) PROVE StepOf(t)
<1> DEFINE k == turn[t]
<1>1. /\ k \in Turns /\ (k.aborted => k.op = "ask") /\ k.outcome # "delivered"
      /\ k.reviews = 0
  BY OfInv DEF Open, Sound
<1>2. workspace' \in Contents /\ uses' \in 0..MaxUses
  BY OfInv DEF Open
<1>3. CASE /\ turn' = [turn EXCEPT ![t] = Enter(k, "producing")]
           /\ sess' = sess
  <2>1. Took(t, Enter(k, "producing"), sess)
    BY <1>1, OfInv, Entered
  <2>2. QED
    BY <1>2, <1>3, <2>1 DEF StepOf
<1>4. ASSUME NEW r \in PushAndSave(sess, t), sess' = r.sess,
             turn' = [turn EXCEPT ![t] = IF r.ok THEN Enter(k, "producing") ELSE Over(k, "failed")]
      PROVE  StepOf(t)
  <2>1. Saving(sess, r.sess, t)
    BY OfInv, SavingSaves
  <2>2. Took(t, Enter(k, "producing"), r.sess) /\ Took(t, Over(k, "failed"), r.sess)
    BY <1>1, <2>1, Entered, Ended
  <2>3. QED
    BY <1>2, <1>4, <2>2 DEF StepOf
<1>5. QED
  BY <1>3, <1>4 DEF Open, Inv

LEMMA StepFallBack == ASSUME Inv, NEW t \in Terminals, FallBack(t) PROVE StepOf(t)
<1> DEFINE k == turn[t]
<1>1. /\ k \in Turns /\ (k.aborted => k.op = "ask") /\ k.outcome # "delivered"
      /\ k.reviews = 0
  BY OfInv DEF FallBack, Sound
<1>2. Took(t, Enter(k, "producing"), sess)
  BY <1>1, OfInv, Entered
<1>3. QED
  BY <1>2, OfInv DEF FallBack, StepOf, Inv

LEMMA FailuresSave ==
  ASSUME Inv, NEW t \in Terminals, NEW k, NEW f \in Failures(k, t)
  PROVE  Saving(sess, f.sess, t) /\ f.last \in Lasts
<1>1. \A r \in PushAndSave(sess, t) : Saving(sess, r.sess, t)
  BY OfInv, SavingSaves
<1>2. Saving(sess, sess, t)
  BY OfInv
<1>3. f.sess = sess \/ \E r \in PushAndSave(sess, t) : f.sess = r.sess
  BY DEF Failures
<1>4. f.last \in {"unavailable", "error", "deadline", "cancelled", "unsaved"}
  BY DEF Failures
<1>5. QED
  BY <1>1, <1>2, <1>3, <1>4 DEF Lasts

\* The last phase and the fingerprint after it are noted.
Noted(k, l, found) == [k EXCEPT !.last = l, !.found = found, !.live = FALSE]

IsNoted(f, k, l, found) ==
  /\ f \in Turns /\ f.last = l /\ f.found = found /\ f.live = FALSE
  /\ f.pc = k.pc /\ f.outcome = k.outcome /\ f.op = k.op /\ f.mode = k.mode
  /\ f.reviews = k.reviews /\ f.aborted = k.aborted /\ f.before = k.before
  /\ f.attempt = k.attempt /\ f.model = k.model /\ f.packet = k.packet

LEMMA NotedFields ==
  ASSUME NEW k \in Turns, NEW l \in Lasts, NEW found \in Prints
  PROVE  IsNoted(Noted(k, l, found), k, l, found)
BY TurnsByName DEF Noted, IsNoted

LEMMA StepProducerFails == ASSUME Inv, NEW t \in Terminals, ProducerFails(t) PROVE StepOf(t)
<1>1. PICK f \in Failures(turn[t], t), found \in Snapshots :
        LET k == [turn[t] EXCEPT !.last = f.last, !.found = found, !.live = FALSE]
            again == k.op = "send" /\ MayFallBack(k, Classify(k.before, found))
        IN /\ sess' = f.sess
           /\ \/ /\ ~again \/ k.attempt = 1
                 /\ turn' = [turn EXCEPT ![t] = Over(k, "failed")]
              \/ /\ again
                 /\ \E m \in {"Claude", "CursorFable"} :
                      /\ k.attempt = 2 => m = "CursorFable"
                      /\ turn' = [turn EXCEPT ![t] =
                           [k EXCEPT !.pc = "falling_back", !.model = m, !.attempt = @ + 1]]
  BY DEF ProducerFails
<1> DEFINE k == Noted(turn[t], f.last, found)
<1>2. /\ turn[t] \in Turns /\ (turn[t].aborted => turn[t].op = "ask")
      /\ turn[t].outcome # "delivered" /\ turn[t].reviews = 0
  BY OfInv DEF ProducerFails, Sound
<1>3. Saving(sess, f.sess, t) /\ f.last \in Lasts
  BY FailuresSave
<1>4. found \in Prints
  BY SnapshotsArePrints
<1>5. /\ k \in Turns /\ k.last = f.last /\ k.found = found /\ k.live = FALSE
      /\ k.outcome # "delivered" /\ k.reviews = 0 /\ (k.aborted => k.op = "ask")
  <2>1. IsNoted(k, turn[t], f.last, found)
    BY <1>2, <1>3, <1>4, NotedFields
  <2> HIDE DEF k
  <2>2. QED
    BY <1>2, <2>1 DEF IsNoted
<1>a. /\ sess' = f.sess
      /\ \/ turn' = [turn EXCEPT ![t] = Over(k, "failed")]
         \/ /\ MayFallBack(k, Classify(k.before, found))
            /\ \E m \in {"Claude", "CursorFable"} :
                 turn' = [turn EXCEPT ![t] =
                           [k EXCEPT !.pc = "falling_back", !.model = m, !.attempt = @ + 1]]
  BY <1>1 DEF Noted
<1> HIDE DEF k
<1>6. workspace' \in Contents /\ uses' \in 0..MaxUses
  BY OfInv DEF ProducerFails
<1>7. CASE turn' = [turn EXCEPT ![t] = Over(k, "failed")]
  <2>1. Took(t, Over(k, "failed"), f.sess)
    BY <1>3, <1>5, Ended
  <2>2. QED
    BY <1>6, <1>7, <1>a, <2>1 DEF StepOf
<1>8. ASSUME MayFallBack(k, Classify(k.before, found)), NEW m \in {"Claude", "CursorFable"},
             turn' = [turn EXCEPT ![t] =
                       [k EXCEPT !.pc = "falling_back", !.model = m, !.attempt = k.attempt + 1]]
      PROVE  StepOf(t)
  <2> DEFINE g == [k EXCEPT !.pc = "falling_back", !.model = m, !.attempt = k.attempt + 1]
  <2>1. k.found = k.before /\ k.last \notin Stops
    BY <1>5, <1>8 DEF MayFallBack, Classify
  <2>2. k.attempt + 1 \in 1..3 /\ m \in Families /\ "falling_back" \in Pcs
    BY <1>8 DEF MayFallBack, Families, Pcs
  <2>3. /\ g \in Turns /\ g.pc = "falling_back" /\ g.last = k.last /\ g.found = k.found
        /\ g.before = k.before /\ g.live = FALSE /\ g.aborted = k.aborted /\ g.op = k.op
        /\ g.outcome = k.outcome /\ g.reviews = k.reviews
    BY <1>5, <2>2, TurnsByName
  <2> HIDE DEF g
  <2>4. Sound(g)
    BY <1>5, <2>1, <2>3 DEF Sound
  <2>5. Took(t, g, f.sess)
    BY <1>3, <1>5, <2>3, <2>4, Elsewhere DEF Took
  <2>6. turn' = [turn EXCEPT ![t] = g]
    BY <1>8 DEF g
  <2>7. QED
    BY <1>6, <1>a, <2>5, <2>6 DEF StepOf
<1>9. QED
  BY <1>a, <1>7, <1>8

LEMMA StepProducerReturns == ASSUME Inv, NEW t \in Terminals, ProducerReturns(t) PROVE StepOf(t)
<1>1. PICK r \in PushAndSave(sess, t), found \in Snapshots :
        LET k == [turn[t] EXCEPT !.last = "result", !.found = found, !.live = FALSE]
            change == IF k.mode = "plan" THEN "unchanged" ELSE Classify(k.before, found)
        IN /\ sess' = r.sess
           /\ turn' = [turn EXCEPT ![t] =
                IF ~r.ok \/ change = "unmeasurable" THEN Over(k, "failed")
                ELSE IF change = "changed" THEN [k EXCEPT !.pc = "review_due"]
                ELSE Over(k, "delivered")]
  BY DEF ProducerReturns
<1> DEFINE k == Noted(turn[t], "result", found)
           change == IF k.mode = "plan" THEN "unchanged" ELSE Classify(k.before, found)
           g == [k EXCEPT !.pc = "review_due"]
<1>2. /\ turn[t] \in Turns /\ (turn[t].aborted => turn[t].op = "ask")
      /\ turn[t].outcome # "delivered" /\ turn[t].reviews = 0
  BY OfInv DEF ProducerReturns, Sound
<1>3. Saving(sess, r.sess, t) /\ (r.ok => Stored(r.sess, t)) /\ r.sess \in Sessions
  BY OfInv, SavingSaves DEF Saving
<1>4. found \in Prints /\ "result" \in Lasts
  BY SnapshotsArePrints, Names
<1>5. /\ k \in Turns /\ k.found = found /\ k.live = FALSE
      /\ k.outcome # "delivered" /\ k.reviews = 0 /\ (k.aborted => k.op = "ask")
  <2>1. IsNoted(k, turn[t], "result", found)
    BY <1>2, <1>4, NotedFields
  <2> HIDE DEF k
  <2>2. QED
    BY <1>2, <2>1 DEF IsNoted
<1>6. /\ sess' = r.sess
      /\ turn' = [turn EXCEPT ![t] =
           IF ~r.ok \/ change = "unmeasurable" THEN Over(k, "failed")
           ELSE IF change = "changed" THEN g ELSE Over(k, "delivered")]
  BY <1>1 DEF Noted
<1> HIDE DEF k
<1>7. Took(t, Over(k, "failed"), r.sess)
  BY <1>3, <1>5, Ended
<1>8. Took(t, g, r.sess)
  <2>1. /\ g \in Turns /\ g.pc = "review_due" /\ g.live = FALSE /\ g.aborted = k.aborted
        /\ g.op = k.op /\ g.outcome = k.outcome /\ g.reviews = k.reviews
    BY <1>5, TurnsByName, Names
  <2> HIDE DEF g
  <2>2. Sound(g)
    BY <1>5, <2>1 DEF Sound
  <2>3. QED
    BY <1>3, <1>5, <2>1, <2>2, Elsewhere DEF Took
<1>9. ASSUME r.ok, change = "unchanged" PROVE Took(t, Over(k, "delivered"), r.sess)
  <2>1. Deliverable(k)
    BY <1>5, <1>9 DEF Deliverable, Classify
  <2>2. IsPrefix(r.sess.mem[t].log, r.sess.stored.log)
    <3>1. r.sess.stored.log \in Seq(Terminals)
      BY <1>3 DEF Sessions, Copies
    <3>2. QED
      BY <1>3, <1>9, <3>1, PrefixRefl DEF Stored
  <2>3. QED
    BY <1>3, <1>5, <2>1, <2>2, Ended
<1>10. change \in {"unchanged", "changed", "unmeasurable"}
  BY DEF Classify
<1>11. workspace' \in Contents /\ uses' \in 0..MaxUses
  BY OfInv DEF ProducerReturns
<1> HIDE DEF g, change
<1>12. QED
  BY <1>6, <1>7, <1>8, <1>9, <1>10, <1>11 DEF StepOf

\* A review, or what blocked it, ends with a verdict.
LEMMA ReviewTook ==
  ASSUME Inv, NEW t \in Terminals, turn[t].pc \in {"review_due", "reviewing"},
         NEW verdicts \in SUBSET {"PASS", "CHANGES_REQUIRED", "REVIEW_BLOCKED"},
         ReviewOver(t, verdicts),
         workspace' = workspace, uses' = uses
  PROVE  StepOf(t)
<1> DEFINE k == turn[t]
<1>1. PICK r \in ReviewEnds(t, verdicts) :
        /\ sess' = r.sess
        /\ turn' = [turn EXCEPT ![t] =
                     IF r.ok THEN Reviewed(k, r.verdict) ELSE Over(k, "failed")]
  BY DEF ReviewOver, Inv
<1>2. /\ k \in Turns /\ (k.aborted => k.op = "ask")
      /\ k.outcome # "delivered" /\ k.reviews <= 1 /\ ~k.live /\ k.reviews \in Nat
  BY OfInv, TurnsByName DEF Sound
<1>3. /\ Saving(sess, r.sess, t) /\ (r.ok => Stored(r.sess, t)) /\ r.sess \in Sessions
      /\ r.verdict \in {"PASS", "CHANGES_REQUIRED", "REVIEW_BLOCKED"}
  <2>1. /\ Saving(sess, r.sess, t) /\ (r.ok => Stored(r.sess, t))
        /\ r.verdict \in verdicts \cup {"REVIEW_BLOCKED"}
    BY OfInv, SavingReview
  <2>2. QED
    BY <2>1 DEF Saving
<1> DEFINE seen == [k EXCEPT !.verdict = r.verdict, !.reviews = k.reviews + 1]
           gated == [seen EXCEPT !.pc = "gate"]
<1>4. Took(t, Over(k, "failed"), r.sess)
  BY <1>2, <1>3, Ended
<1>5. /\ Reviewed(k, r.verdict) \in {Enter(seen, "remediating"), gated}
      /\ Reviewed(k, r.verdict) # gated => k.reviews = 0
  BY DEF Reviewed
<1> HIDE DEF k
<1>6. /\ seen \in Turns /\ seen.aborted = k.aborted /\ seen.op = k.op /\ seen.live = k.live
      /\ seen.outcome = k.outcome /\ seen.reviews = k.reviews + 1
  <2>1. k.reviews + 1 \in 0..2 /\ r.verdict \in Verdicts
    BY <1>2, <1>3 DEF Verdicts
  <2>2. QED
    BY <1>2, <2>1, TurnsByName
<1> HIDE DEF seen
<1>7. ASSUME k.reviews = 0 PROVE Took(t, Enter(seen, "remediating"), r.sess)
  <2>1. seen.aborted = turn[t].aborted /\ seen.reviews <= 1
    BY <1>6, <1>7 DEF k
  <2>2. QED
    BY <1>2, <1>3, <1>6, <2>1, Entered
<1>8. ASSUME r.ok PROVE Took(t, gated, r.sess)
  <2>1. /\ gated \in Turns /\ gated.pc = "gate" /\ gated.live = seen.live
        /\ gated.aborted = seen.aborted /\ gated.op = seen.op /\ gated.outcome = seen.outcome
    BY <1>6, TurnsByName, Names
  <2> HIDE DEF gated
  <2>2. Sound(gated)
    BY <1>2, <1>6, <2>1 DEF Sound
  <2>3. Linked(gated, r.sess, t)
    BY <1>3, <1>8, StoredIsLinked
  <2>4. QED
    BY <1>2, <1>3, <1>6, <2>1, <2>2, <2>3 DEF Took
<1> HIDE DEF gated
<1>9. PICK k2 : Took(t, k2, r.sess) /\ turn' = [turn EXCEPT ![t] = k2]
  BY <1>1, <1>4, <1>5, <1>7, <1>8 DEF k
<1>10. workspace' \in Contents /\ uses' \in 0..MaxUses
  BY OfInv
<1>11. QED
  BY <1>1, <1>9, <1>10 DEF StepOf

LEMMA StepStartReview == ASSUME Inv, NEW t \in Terminals, StartReview(t) PROVE StepOf(t)
<1> DEFINE k == turn[t]
           g == [k EXCEPT !.pc = "reviewing", !.packet = workspace]
<1>1. /\ k \in Turns /\ (k.aborted => k.op = "ask") /\ k.pc = "review_due"
      /\ k.outcome # "delivered" /\ k.reviews <= 1 /\ ~k.live
  BY OfInv DEF StartReview, Sound
<1>2. CASE ReviewOver(t, {"REVIEW_BLOCKED"})
  BY <1>1, <1>2, ReviewTook DEF StartReview
<1>3. CASE turn' = [turn EXCEPT ![t] = g] /\ sess' = sess
  <2>1. workspace \in Prints /\ workspace # Unmeasurable
    BY OfInv, TurnAssumption DEF Prints
  <2> HIDE DEF k
  <2>2. /\ g \in Turns /\ g.pc = "reviewing" /\ g.live = k.live /\ g.packet = workspace
        /\ g.aborted = k.aborted /\ g.op = k.op /\ g.outcome = k.outcome
        /\ g.reviews = k.reviews
    BY <1>1, <2>1, TurnsByName, Names
  <2> HIDE DEF g
  <2>3. Sound(g)
    BY <1>1, <2>1, <2>2 DEF Sound
  <2>4. Took(t, g, sess)
    BY <1>1, <2>2, <2>3, OfInv, Elsewhere DEF Took
  <2>5. QED
    BY <1>3, <2>4, OfInv DEF StepOf, StartReview
<1>4. \/ ReviewOver(t, {"REVIEW_BLOCKED"})
      \/ turn' = [turn EXCEPT ![t] = g] /\ sess' = sess
  <2>1. turn \in [Terminals -> Turns]
    BY DEF Inv
  <2>2. [turn EXCEPT ![t].pc = "reviewing", ![t].packet = workspace] = [turn EXCEPT ![t] = g]
    BY <2>1, TurnsByName
  <2>3. QED
    <3> HIDE DEF g
    <3>1. CASE ReviewOver(t, {"REVIEW_BLOCKED"})
      BY <3>1
    <3>2. CASE /\ turn' = [turn EXCEPT ![t].pc = "reviewing", ![t].packet = workspace]
               /\ UNCHANGED sess
      BY <2>2, <3>2
    <3>3. QED
      BY <3>1, <3>2 DEF StartReview
<1>5. QED
  BY <1>2, <1>3, <1>4

LEMMA StepReview == ASSUME Inv, NEW t \in Terminals, Review(t) PROVE StepOf(t)
<1>1. PICK found \in Snapshots :
        ReviewOver(t, IF found = turn[t].packet /\ ReviewerFor(turn[t].model) # turn[t].model
                      THEN {"PASS", "CHANGES_REQUIRED", "REVIEW_BLOCKED"} ELSE {"REVIEW_BLOCKED"})
  BY DEF Review
<1>2. turn[t].pc = "reviewing" /\ workspace' = workspace /\ uses' = uses
  BY DEF Review
<1>3. CASE ReviewOver(t, {"PASS", "CHANGES_REQUIRED", "REVIEW_BLOCKED"})
  BY <1>2, <1>3, ReviewTook
<1>4. CASE ReviewOver(t, {"REVIEW_BLOCKED"})
  BY <1>2, <1>4, ReviewTook
<1>5. QED
  BY <1>1, <1>3, <1>4

LEMMA StepRemediationReturns ==
  ASSUME Inv, NEW t \in Terminals, RemediationReturns(t) PROVE StepOf(t)
<1> DEFINE k == [turn[t] EXCEPT !.live = FALSE]
           g == [k EXCEPT !.pc = "review_due"]
<1>1. /\ turn[t] \in Turns /\ (turn[t].aborted => turn[t].op = "ask")
      /\ turn[t].outcome # "delivered" /\ turn[t].reviews <= 1
  BY OfInv DEF RemediationReturns, Sound
<1>2. /\ k \in Turns /\ k.live = FALSE /\ k.aborted = turn[t].aborted /\ k.op = turn[t].op
      /\ k.outcome = turn[t].outcome /\ k.reviews = turn[t].reviews
  BY <1>1, TurnsByName
<1> HIDE DEF k
<1>3. /\ g \in Turns /\ g.live = FALSE /\ g.aborted = k.aborted /\ g.op = k.op
      /\ g.pc = "review_due" /\ g.outcome = k.outcome /\ g.reviews = k.reviews
  BY <1>2, TurnsByName, Names
<1> HIDE DEF g
<1>4. Sound(g)
  BY <1>1, <1>2, <1>3 DEF Sound
<1>5. ASSUME NEW s2, Saving(sess, s2, t) PROVE Took(t, g, s2) /\ Took(t, Over(k, "failed"), s2)
  <2>1. Took(t, g, s2)
    BY <1>1, <1>2, <1>3, <1>4, <1>5, Elsewhere DEF Took
  <2>2. Took(t, Over(k, "failed"), s2)
    BY <1>1, <1>2, <1>5, Ended
  <2>3. QED
    BY <2>1, <2>2
<1>6. workspace' \in Contents /\ uses' \in 0..MaxUses
  BY OfInv DEF RemediationReturns
<1>7. CASE turn' = [turn EXCEPT ![t] = g] /\ sess' = sess
  BY <1>5, <1>6, <1>7, OfInv DEF StepOf
<1>8. ASSUME NEW r \in PushAndSave(sess, t), sess' = r.sess,
             turn' = [turn EXCEPT ![t] = IF r.ok THEN g ELSE Over(k, "failed")]
      PROVE  StepOf(t)
  <2>1. Saving(sess, r.sess, t)
    BY OfInv, SavingSaves
  <2>2. Took(t, g, r.sess) /\ Took(t, Over(k, "failed"), r.sess)
    BY <1>5, <2>1
  <2>3. QED
    BY <1>6, <1>8, <2>2 DEF StepOf
<1>9. QED
  BY <1>7, <1>8 DEF RemediationReturns, k, g

LEMMA StepRemediationFails ==
  ASSUME Inv, NEW t \in Terminals, RemediationFails(t) PROVE StepOf(t)
<1>1. PICK f \in Failures(turn[t], t) :
        sess' = f.sess /\ turn' = [turn EXCEPT ![t] = Over(turn[t], "failed")]
  BY DEF RemediationFails, Inv
<1>2. Saving(sess, f.sess, t)
  BY FailuresSave
<1>3. Took(t, Over(turn[t], "failed"), f.sess)
  BY <1>2, OfInv, Ended
<1>4. QED
  BY <1>1, <1>3, OfInv DEF StepOf, RemediationFails

LEMMA StepGate == ASSUME Inv, NEW t \in Terminals, Gate(t) PROVE StepOf(t)
<1>1. PICK found \in Snapshots :
        turn' = [turn EXCEPT ![t] =
          Over([turn[t] EXCEPT !.found = found],
               IF ReviewPasses([turn[t] EXCEPT !.found = found], found)
               THEN "delivered" ELSE "failed")]
  BY DEF Gate
<1> DEFINE k == [turn[t] EXCEPT !.found = found]
           o == IF ReviewPasses(k, found) THEN "delivered" ELSE "failed"
<1>2. found \in Prints
  BY SnapshotsArePrints
<1>3. /\ k \in Turns /\ k.found = found /\ k.aborted = turn[t].aborted /\ k.op = turn[t].op
  BY <1>2, OfInv, TurnsByName
<1>4. k.aborted => k.op = "ask"
  BY <1>3, OfInv
<1>5. turn' = [turn EXCEPT ![t] = Over(k, o)]
  BY <1>1
<1> HIDE DEF k
<1>6. ReviewPasses(k, found) => Deliverable(k)
  <2>1. k.model \in Families
    BY <1>3, TurnsByName
  <2>2. QED
    BY <1>3, <2>1, AnotherReviews DEF ReviewPasses, Deliverable
<1>7. IsPrefix(sess.mem[t].log, sess.stored.log)
  BY OfInv DEF Gate, Linked
<1>8. Took(t, Over(k, o), sess)
  BY <1>3, <1>4, <1>6, <1>7, OfInv, Ended
<1> HIDE DEF o
<1>9. QED
  BY <1>5, <1>8, OfInv DEF StepOf, Gate

-----------------------------------------------------------------------------
(* The invariant *)

LEMMA InitInv == ASSUME Init PROVE Inv
<1> DEFINE k == NoTurn(Unmeasurable)
<1>1. Unmeasurable \in Prints
  BY DEF Prints
<1>2. k \in Turns
  BY <1>1, NoTurnTyped
<1>3. k.pc = "idle" /\ k.live = FALSE /\ k.aborted = FALSE /\ k.outcome = "none"
  BY DEF NoTurn
<1>4. turn = [t \in Terminals |-> k]
  BY DEF Init
<1> HIDE DEF k
<1>5. Sound(k)
  BY <1>2, <1>3 DEF Sound
<1>6. /\ turn \in [Terminals -> Turns]
      /\ \A t \in Terminals : Sound(turn[t]) /\ Linked(turn[t], sess, t)
  BY <1>2, <1>3, <1>4, <1>5, Elsewhere
<1>7. [rev |-> 0, log |-> <<>>] \in Copies
  BY DEF Copies
<1>8. sess \in Sessions
  BY <1>7 DEF Init, Sessions
<1>9. Behind(sess)
  <2>a. <<>> \in Seq(Terminals)
    OBVIOUS
  <2>1. IsPrefix(<<>>, <<>>)
    BY <2>a, PrefixRefl
  <2>2. /\ sess.stored.rev = 0 /\ sess.stored.log = <<>>
        /\ \A t \in Terminals : sess.mem[t].rev = 0 /\ sess.mem[t].log = <<>>
    BY DEF Init
  <2>3. QED
    BY <2>1, <2>2 DEF Behind
<1>10. QED
  BY <1>6, <1>8, <1>9, TurnAssumption DEF Init, Inv

\* What a step keeps, and what it may not do.
Kept ==
  /\ Inv'
  /\ IsPrefix(sess.stored.log, sess'.stored.log)
  /\ \A t \in Terminals : ~turn[t].live /\ turn'[t].live => ~turn[t].aborted

LEMMA StepKept == ASSUME Inv, NEW t \in Terminals, StepOf(t) PROVE Kept
<1>1. PICK k2, s2 : Took(t, k2, s2) /\ turn' = [turn EXCEPT ![t] = k2] /\ sess' = s2
  BY DEF StepOf
<1>2. /\ Sound(k2) /\ k2 \in Turns /\ (~turn[t].live /\ k2.live => ~turn[t].aborted)
      /\ Linked(k2, s2, t) /\ s2 \in Sessions /\ Behind(s2)
      /\ IsPrefix(sess.stored.log, s2.stored.log)
      /\ \A u \in Terminals \ {t} : s2.mem[u] = sess.mem[u]
  BY <1>1 DEF Took, Saving, Sound
<1>3. /\ turn' \in [Terminals -> Turns] /\ turn'[t] = k2
      /\ \A u \in Terminals \ {t} : turn'[u] = turn[u]
  BY <1>1, <1>2 DEF Inv
<1>4. ASSUME NEW u \in Terminals \ {t} PROVE Linked(turn[u], s2, u)
  <2>1. Linked(turn[u], sess, u)
    BY DEF Inv
  <2>2. /\ sess.mem[u].log \in Seq(Terminals) /\ sess.stored.log \in Seq(Terminals)
        /\ s2.stored.log \in Seq(Terminals)
    BY <1>2 DEF Inv, Sessions, Copies
  <2>3. QED
    BY <1>2, <2>1, <2>2, PrefixTrans DEF Linked
<1>5. \A u \in Terminals : Sound(turn'[u]) /\ Linked(turn'[u], sess', u)
  <2>1. \A u \in Terminals : Sound(turn[u])
    BY DEF Inv
  <2>2. QED
    BY <1>1, <1>2, <1>3, <1>4, <2>1
<1>6. Inv'
  BY <1>1, <1>2, <1>3, <1>5 DEF Inv, StepOf
<1>7. QED
  BY <1>1, <1>2, <1>3, <1>6 DEF Kept

LEMMA NextKept == ASSUME Inv, [Next]_vars PROVE Kept
<1>1. sess.stored.log \in Seq(Terminals)
  BY DEF Inv, Sessions, Copies
<1>2. CASE OutsideEdit
  <2>1. Inv'
    BY <1>2 DEF OutsideEdit, Inv
  <2>2. QED
    BY <1>1, <1>2, <2>1, PrefixRefl DEF OutsideEdit, Kept
<1>3. CASE UNCHANGED vars
  <2>1. Inv'
    BY <1>3 DEF vars, Inv
  <2>2. QED
    BY <1>1, <1>3, <2>1, PrefixRefl DEF vars, Kept
<1>4. ASSUME NEW t \in Terminals,
             Begin(t) \/ Command(t) \/ Resume(t) \/ Abort(t) \/ Write(t) \/ Run(t)
      PROVE  StepOf(t)
  BY <1>4, StepBegin, StepCommand, StepResume, StepAbort, StepWrite, StepOpen,
     StepProducerFails, StepFallBack, StepProducerReturns, StepStartReview, StepReview,
     StepRemediationReturns, StepRemediationFails, StepGate DEF Run
<1>5. QED
  BY <1>2, <1>3, <1>4, StepKept DEF Next

LEMMA InvHolds == Spec => []Inv
<1>1. Inv /\ [Next]_vars => Inv'
  BY NextKept DEF Kept
<1>2. QED
  BY InitInv, <1>1, PTL DEF Spec

LEMMA StepsKept == Spec => [][Kept]_vars
<1>1. Inv /\ [Next]_vars => [Kept]_vars
  BY NextKept
<1>2. QED
  BY InvHolds, <1>1, PTL DEF Spec

-----------------------------------------------------------------------------
(* Theorems *)

\* Every turn and every copy of the session is what its type says, and a provider
\* is live only in a phase of a producer or a remediation.
THEOREM TypesHold == Spec => []TypeOK
<1>1. Inv => TypeOK
  BY DEF Inv, Sound, TypeOK, Sessions
<1>2. QED
  BY <1>1, InvHolds, PTL

\* What a turn that may write delivers is unchanged, or has the PASS of another
\* family for just the content that was measured last: send, ask and the gate,
\* however many terminals edit one directory.
THEOREM DeliveredIsReviewedHolds == Spec => []DeliveredIsReviewed
<1>1. Inv => DeliveredIsReviewed
  BY DEF Inv, Sound, Deliverable, DeliveredIsReviewed
<1>2. QED
  BY <1>1, InvHolds, PTL

\* What a terminal knows when its turn is delivered is stored and stays so: the
\* saves of send and runReview against those of any number of other terminals.
THEOREM SavedWhenDeliveredHolds == Spec => []SavedWhenDelivered
<1>1. Inv => SavedWhenDelivered
  BY DEF Inv, Linked, SavedWhenDelivered
<1>2. QED
  BY <1>1, InvHolds, PTL

\* No save loses a message that was stored: the revisions of session-store.ts.
THEOREM StoredHistoryGrowsHolds == Spec => StoredHistoryGrows
<1>1. Kept => IsPrefix(sess.stored.log, sess'.stored.log)
  BY DEF Kept
<1>2. QED
  BY <1>1, StepsKept, PTL DEF StoredHistoryGrows

\* A model takes over only in an unchanged directory, and from no phase that is
\* known to have been stopped: the two catch blocks of send.
THEOREM FallbackIsSafeHolds == Spec => []FallbackIsSafe
<1>1. Inv => FallbackIsSafe
  BY DEF Inv, Sound, FallbackIsSafe
<1>2. QED
  BY <1>1, InvHolds, PTL

\* No producer and no remediation is spawned after the signal of ask was aborted.
THEOREM CancelStopsWritersHolds == Spec => CancelStopsWriters
<1>1. Kept => \A t \in Terminals : ~turn[t].live /\ turn'[t].live => ~turn[t].aborted
  BY DEF Kept
<1>2. QED
  BY <1>1, StepsKept, PTL DEF CancelStopsWriters

\* reviewerFor has a reviewer of another family for every model that may get as
\* far as a review, also after fallbacks.
THEOREM ReviewerIsOtherHolds == Spec => []ReviewerIsOther
<1>1. Inv => ReviewerIsOther
  <2>1. \A k \in Turns : k.model \in Families
    BY TurnsByName
  <2>2. QED
    BY <2>1, AnotherReviews DEF Inv, ReviewerIsOther
<1>2. QED
  BY <1>1, InvHolds, PTL
=============================================================================
