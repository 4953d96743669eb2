----------------------------- MODULE LdrDdagProofs -----------------------------
(***************************************************************************)
(* The rings of the dependency graph stay whole, the counts right, each    *)
(* reference is given back once, and no check of a ring or count fires,    *)
(* for any number of modules and any relation between them.                *)
(*                                                                         *)
(* A ring has no closed part but itself (IsRing): that takes the place of  *)
(* an induction along its pointers.  The invariant adds to the properties  *)
(* how far a module has walked along its own ring (WalkOK), where its      *)
(* search is in the other one (SearchOK), and that only the innermost of   *)
(* the nested calls is between two accesses (StackOK).                     *)
(***************************************************************************)
EXTENDS LdrDdag, FiniteSetTheorems, TLAPS

Working == {"find", "search", "unlinked"}
Inside  == Working \cup {"unloading"}

StackOK == \A m \in Module : pc[m] \in Working => active # <<>> /\ Head(active) = m

\* The records that m was loaded with, and those that it has given up.
Mine(m)  == {r \in Edges : Owner(r) = m /\ depNext[r] # Null}
Given(m) == Mine(m) \ live

\* What m has given up is the part of its ring from the head up to its present
\* record.
Walked(m) ==
    /\ deps[m] \in Records(m)
    /\ head[m] \in Given(m) \cup {deps[m]}
    /\ \A p \in Given(m) : depNext[p] \in Given(m) \cup {deps[m]}
    /\ \A x \in Given(m) \cup {deps[m]} :
          x = head[m] \/ \E p \in Given(m) : depNext[p] = x

WalkOK(m) ==
    /\ IsRing(depNext, Mine(m))
    /\ Records(m) \subseteq Mine(m)
    /\ pc[m] = "loaded" => Given(m) = {} /\ Enters(deps[m], Mine(m))
    /\ pc[m] = "gone" => Records(m) = {}
    /\ pc[m] \in Inside =>
          /\ Walked(m)
          /\ entry[m] = IF pc[m] = "unloading" THEN depNext[deps[m]] ELSE deps[m]

\* The search is at a record of the ring, and last at the one before or with it
\* at the head.
SearchOK(m) ==
    pc[m] = "search" =>
       /\ cur[m] \in Waiting(On(deps[m])) /\ last[m] \in Waiting(On(deps[m]))
       /\ \/ cur[m] = inc[On(deps[m])] /\ last[m] = cur[m]
          \/ incNext[last[m]] = cur[m]

\* On Windows 8 a count of 0, of a module that had dependents, tells that it
\* was unloaded.
Returned ==
    /\ \A r \in live : incNext[r] # Null
    /\ epoch = "win10" =>
          \A r \in Edges : Owner(r) \in Module =>
              (r \in unloads <=> \/ r \notin live /\ depNext[r] # Null
                                 \/ pc[Owner(r)] = "unloading" /\ deps[Owner(r)] = r)
    /\ epoch = "win8" =>
          \A t \in Target :
             /\ (\E r \in unloads : On(r) = t)
                   <=> t \notin pinned /\ Had(t) # {} /\ count[t] = 0
             /\ \A r, s \in unloads : On(r) = t /\ On(s) = t => r = s

IInv ==
    /\ TypeOK /\ OwnListsPass /\ StackOK
    /\ \A m \in Module : WalkOK(m) /\ SearchOK(m)
    /\ RingsAreWhole /\ CountsAreRight /\ Returned

-------------------------------------------------------------------------------
(* Rings *)

\* A closed part of a ring is the ring.
LEMMA ClosedPart ==
    ASSUME NEW next, NEW S, IsRing(next, S), NEW part \in SUBSET S, part # {},
           \A r \in part : next[r] \in part
    PROVE  part = S
    BY DEF IsRing

\* A record that leads to itself is alone.
LEMMA SelfLoop ==
    ASSUME NEW next, NEW S, IsRing(next, S), NEW c \in S, next[c] = c
    PROVE  S = {c}
<1>1. {c} \in SUBSET S /\ {c} # {} /\ \A r \in {c} : next[r] \in {c}
      OBVIOUS
<1> QED BY <1>1, ClosedPart

\* Every record of a ring has one before it.
LEMMA BeforeIt ==
    ASSUME NEW next, NEW S, IsRing(next, S), NEW c \in S
    PROVE  \E p \in S : next[p] = c
<1> DEFINE image == {next[r] : r \in S}
<1>1. image \in SUBSET S
    BY DEF IsRing
<1>2. image # {} /\ \A r \in image : next[r] \in image
    BY <1>1
<1>3. image = S
    BY <1>1, <1>2, ClosedPart
<1> QED BY <1>3

\* What the pointers of a ring say does not depend on other pointers.
LEMMA SameRing ==
    ASSUME NEW next, NEW nx, NEW S, IsRing(next, S), \A r \in S : nx[r] = next[r]
    PROVE  IsRing(nx, S)
<1>1. ASSUME NEW part \in SUBSET S, part # {}, \A r \in part : nx[r] \in part
      PROVE  part = S
    <2>1. \A r \in part : next[r] \in part
        BY <1>1
    <2> QED BY <1>1, <2>1, ClosedPart
<1> QED BY <1>1 DEF IsRing

\* A record is taken out by leading the one before it to the one behind it.
LEMMA TakenOut ==
    ASSUME NEW next, NEW nx, NEW S, IsRing(next, S),
           NEW c \in S, NEW p \in S, next[p] = c,
           nx[p] = next[c], \A r \in S \ {c, p} : nx[r] = next[r]
    PROVE  /\ IsRing(nx, S \ {c})
           /\ next[c] # c => next[c] \in S \ {c}
<1>1. CASE next[c] = c
    <2>1. S \ {c} = {}
        BY <1>1, SelfLoop
    <2> QED BY <1>1, <2>1 DEF IsRing
<1>2. CASE next[c] # c
    <2>1. next[c] \in S \ {c} /\ p # c /\ p \in S \ {c}
        BY <1>2 DEF IsRing
    <2>2. \A r \in S \ {c} : nx[r] \in S \ {c}
        BY <2>1 DEF IsRing
    <2>3. \A q, r \in S \ {c} : nx[q] = nx[r] => q = r
        BY <2>1 DEF IsRing
    <2>4. ASSUME NEW part \in SUBSET (S \ {c}), part # {}, \A r \in part : nx[r] \in part
          PROVE  part = S \ {c}
        <3>1. CASE p \in part
            <4>1. part \cup {c} \in SUBSET S /\ part \cup {c} # {}
                OBVIOUS
            <4>2. \A r \in part \cup {c} : next[r] \in part \cup {c}
                BY <2>4, <3>1
            <4>3. part \cup {c} = S
                BY <4>1, <4>2, ClosedPart
            <4> QED BY <4>3
        <3>2. CASE p \notin part
            <4>1. \A r \in part : next[r] \in part
                BY <2>4, <3>2
            <4>2. part = S
                BY <2>4, <4>1, ClosedPart
            <4> QED BY <4>2
        <3> QED BY <3>1, <3>2
    <2>5. IsRing(nx, S \ {c})
        BY <2>2, <2>3, <2>4 DEF IsRing
    <2> QED BY <2>1, <2>5
<1> QED BY <1>1, <1>2

-------------------------------------------------------------------------------
(* The present record of a module *)

\* A dependency is a pair: its owner and what it depends on name it.
LEMMA Pairs ==
    /\ \A r \in Edges : On(r) \in Target /\ Owner(r) \in Node /\ r = <<Owner(r), On(r)>>
    /\ \A m \in Module : m \notin Target
    /\ IsFiniteSet(Edges) /\ Null \notin Edges
    BY LdrDdagAssumption DEF LdrDdagAssumption, Owner, On

\* A module that is being destroyed is at a record of its own, which no other
\* module is at.
LEMMA Present ==
    ASSUME IInv, NEW m \in Module, pc[m] \in Inside
    PROVE  /\ deps[m] \in Edges /\ deps[m] \in live /\ Owner(deps[m]) = m
           /\ On(deps[m]) \in Target
           /\ deps[m] \in Dependents(On(deps[m]))
           /\ deps[m] \in Mine(m) /\ depNext[deps[m]] \in Mine(m)
           /\ \A n \in Module \ {m} : pc[n] \in Inside => deps[n] # deps[m]
<1>1. ASSUME NEW n \in Module, pc[n] \in Inside
      PROVE  /\ deps[n] \in Edges /\ deps[n] \in live /\ Owner(deps[n]) = n
             /\ deps[n] \in Mine(n)
    BY <1>1 DEF IInv, WalkOK, Walked, Records, TypeOK
<1>2. On(deps[m]) \in Target
    BY <1>1, Pairs
<1>3. depNext[deps[m]] \in Mine(m)
    BY <1>1 DEF IInv, WalkOK, IsRing
<1> QED BY <1>1, <1>2, <1>3 DEF Dependents

\* Before it is unlinked the record waits in its ring.
LEMMA PresentWaits ==
    ASSUME IInv, NEW m \in Module, pc[m] \in {"find", "search"}
    PROVE  deps[m] \in Waiting(On(deps[m]))
<1>1. ASSUME NEW n \in Module, pc[n] \in {"unlinked", "unloading"} PROVE deps[n] # deps[m]
    BY <1>1, Present DEF Inside, Working
<1> QED BY <1>1, Present DEF Waiting, Unlinked, Inside, Working

\* While it runs, no other module is between two accesses.
LEMMA Alone ==
    ASSUME IInv, NEW m \in Module, active # <<>>, Head(active) = m,
           NEW n \in Module, n # m
    PROVE  pc[n] \notin Working
    BY DEF IInv, StackOK

-------------------------------------------------------------------------------
(* What steps leave alone *)

\* The rings are the same if the same records are unlinked.
LEMMA WaitingKept ==
    ASSUME UNCHANGED <<live, deps>>,
           \A n \in Module : pc'[n] \in {"unlinked", "unloading"}
                                <=> pc[n] \in {"unlinked", "unloading"}
    PROVE  \A t : Waiting(t)' = Waiting(t)
    BY DEF Waiting, Dependents, Unlinked

\* The same records count if the same modules are being unloaded.
LEMMA CountedKept ==
    ASSUME UNCHANGED <<live, deps>>,
           \A n \in Module : pc'[n] = "unloading" <=> pc[n] = "unloading"
    PROVE  \A t : Counted(t)' = Counted(t)
    BY DEF Counted, Dependents

\* A module whose records stay and that does not move has walked as far as before.
LEMMA WalkKept ==
    ASSUME NEW n \in Module, WalkOK(n), depNext' = depNext,
           Records(n)' = Records(n),
           pc'[n] = pc[n], deps'[n] = deps[n], head'[n] = head[n], entry'[n] = entry[n]
    PROVE  WalkOK(n)'
<1>1. Mine(n)' = Mine(n)
    BY DEF Mine
<1>2. Given(n)' = Given(n)
    BY <1>1 DEF Given, Mine, Records
<1> QED BY <1>1, <1>2 DEF WalkOK, Walked

\* Rings that wait for the same records through the same pointers stay whole.
LEMMA RingsKept ==
    ASSUME RingsAreWhole, UNCHANGED <<incNext, inc>>, \A t : Waiting(t)' = Waiting(t)
    PROVE  RingsAreWhole'
    BY DEF RingsAreWhole

\* So do the counts.
LEMMA CountsKept ==
    ASSUME CountsAreRight, UNCHANGED <<epoch, count>>, \A t : Counted(t)' = Counted(t)
    PROVE  CountsAreRight'
    BY DEF CountsAreRight

\* So does what was returned.
LEMMA ReturnedKept ==
    ASSUME TypeOK, Returned, UNCHANGED <<epoch, live, depNext, pinned, unloads, count, deps>>,
           \A r \in Edges : incNext'[r] = Null <=> incNext[r] = Null,
           \A n \in Module : pc'[n] = "unloading" <=> pc[n] = "unloading"
    PROVE  Returned'
<1>1. \A t : Had(t)' = Had(t)
    BY DEF Had
<1>2. \A r \in live' : incNext'[r] # Null
    BY DEF Returned, TypeOK
<1> QED BY <1>1, <1>2 DEF Returned

-------------------------------------------------------------------------------
(* Every step keeps the invariant *)

\* A module starts on its way: it has given up nothing yet.
LEMMA CallInductive ==
    ASSUME IInv, NEW m \in Module, Call(m) PROVE IInv'
<1>1. /\ UNCHANGED <<epoch, depNext, pinned, shared, live, deps, incNext, inc, count, unloads>>
      /\ UNCHANGED <<cur, last, failed>>
      /\ pc[m] = "loaded" /\ pc'[m] \in {"gone", "find"}
      /\ \A n \in Module \ {m} : /\ pc'[n] = pc[n] /\ entry'[n] = entry[n]
                                 /\ head'[n] = head[n]
      /\ pc' \in [Module -> {"loaded", "find", "search", "unlinked", "unloading", "gone"}]
    BY DEF Call, GoTo, given, IInv, TypeOK
<1>2. \A t : Waiting(t)' = Waiting(t)
    BY <1>1, WaitingKept
<1>3. \A t : Counted(t)' = Counted(t)
    BY <1>1, CountedKept
<1>4. TypeOK'
    <2>1. active' \in Seq(Module)
        <3>1. active \in Seq(Module) /\ <<m>> \in Seq(Module)
            BY DEF IInv, TypeOK
        <3>2. active' = active \/ active' = <<m>> \o active
            BY DEF Call
        <3>3. CASE active' = <<m>> \o active
            BY <3>1, <3>3
        <3> QED BY <3>1, <3>2, <3>3
    <2>2. /\ entry' \in [Module -> Edges \cup {Null}]
          /\ head' \in [Module -> Edges \cup {Null}]
        BY DEF Call, IInv, TypeOK
    <2> QED BY <1>1, <2>1, <2>2 DEF IInv, TypeOK
<1>5. StackOK'
    <2>1. \A n \in Module \ {m} : pc[n] \notin Working
        BY DEF Call, IInv, StackOK, Working
    <2>2. pc'[m] = "find" => active' # <<>> /\ Head(active') = m
        BY DEF Call, GoTo, IInv, TypeOK
    <2> QED BY <1>1, <2>1, <2>2 DEF StackOK, Working
<1>6. ASSUME NEW n \in Module PROVE WalkOK(n)'
    <2>1. Records(n)' = Records(n) /\ Mine(n)' = Mine(n) /\ Given(n)' = Given(n)
        BY <1>1 DEF Records, Mine, Given
    <2>2. CASE n # m
        BY <1>1, <2>1, <2>2, WalkKept DEF IInv
    <2>3. CASE n = m
        <3>1. /\ IsRing(depNext, Mine(m)) /\ Records(m) \subseteq Mine(m)
              /\ Given(m) = {} /\ Enters(deps[m], Mine(m))
            BY <1>1 DEF IInv, WalkOK
        <3>2. CASE deps[m] = Null
            <4>1. Mine(m) = {}
                BY <3>1, <3>2, Pairs DEF Enters, Mine
            <4>2. pc'[m] = "gone"
                BY <3>2 DEF Call, GoTo, IInv, TypeOK
            <4> QED BY <1>1, <2>1, <2>3, <3>1, <4>1, <4>2 DEF WalkOK, Inside, Working
        <3>3. CASE deps[m] # Null
            <4>1. pc'[m] = "find" /\ entry'[m] = deps[m] /\ head'[m] = deps[m]
                BY <3>3 DEF Call, GoTo, IInv, TypeOK
            <4>2. deps[m] \in Records(m)
                BY <3>1, <3>3 DEF Enters, Mine, Given, Records
            <4>3. Walked(m)'
                BY <1>1, <2>1, <2>3, <3>1, <4>1, <4>2 DEF Walked
            <4> QED BY <1>1, <2>1, <2>3, <3>1, <4>1, <4>3 DEF WalkOK, Inside, Working
        <3> QED BY <3>2, <3>3
    <2> QED BY <2>2, <2>3
<1>7. ASSUME NEW n \in Module PROVE SearchOK(n)'
    BY <1>1, <1>2 DEF IInv, SearchOK
<1>8. RingsAreWhole' /\ CountsAreRight'
    BY <1>1, <1>2, <1>3, RingsKept, CountsKept DEF IInv
<1>9. Returned'
    BY <1>1, ReturnedKept DEF IInv
<1> QED BY <1>1, <1>4, <1>5, <1>6, <1>7, <1>8, <1>9 DEF IInv, OwnListsPass

\* The record is in the ring, so the ring is not empty and the search starts in it.
LEMMA FindInductive ==
    ASSUME IInv, NEW m \in Module, Find(m) PROVE IInv'
<1>1. /\ UNCHANGED <<epoch, depNext, pinned, shared, live, deps, incNext, inc, count, unloads>>
      /\ UNCHANGED <<active, entry, head>>
      /\ pc[m] = "find" /\ pc'[m] = "search" /\ active # <<>> /\ Head(active) = m
      /\ \A n \in Module \ {m} : pc'[n] = pc[n] /\ cur'[n] = cur[n] /\ last'[n] = last[n]
      /\ pc' \in [Module -> {"loaded", "find", "search", "unlinked", "unloading", "gone"}]
    BY DEF Find, At, GoTo, given, IInv, TypeOK
<1>2. \A t : Waiting(t)' = Waiting(t)
    BY <1>1, WaitingKept
<1>3. \A t : Counted(t)' = Counted(t)
    BY <1>1, CountedKept
<1>4. entry[m] = deps[m] /\ On(deps[m]) \in Target /\ deps[m] \in Waiting(On(deps[m]))
    BY <1>1, Present, PresentWaits DEF IInv, WalkOK, Inside, Working
<1>5. inc[On(deps[m])] \in Waiting(On(deps[m]))
    BY <1>4 DEF IInv, RingsAreWhole, Enters
<1>6. inc[On(deps[m])] # Null
    BY <1>5, Pairs DEF Waiting, Dependents, IInv, TypeOK
<1>7. /\ failed' \in {"none", "node", "lock"}
      /\ cur'[m] = inc[On(deps[m])] /\ last'[m] = inc[On(deps[m])]
      /\ cur' \in [Module -> Edges \cup {Null}] /\ last' \in [Module -> Edges \cup {Null}]
    BY <1>4, <1>6 DEF Find, IInv, TypeOK
<1>8. TypeOK'
    BY <1>1, <1>7 DEF IInv, TypeOK
<1>9. StackOK'
    BY <1>1 DEF IInv, StackOK, Working
<1>10. ASSUME NEW n \in Module PROVE WalkOK(n)' /\ SearchOK(n)'
    <2>1. Records(n)' = Records(n)
        BY <1>1 DEF Records
    <2>2. CASE n # m
        BY <1>1, <1>2, <2>1, <2>2, WalkKept DEF IInv, SearchOK
    <2>3. CASE n = m
        <3>1. Mine(n)' = Mine(n) /\ Given(n)' = Given(n)
            BY <1>1 DEF Mine, Given
        <3>2. WalkOK(n)'
            BY <1>1, <2>1, <2>3, <3>1 DEF IInv, WalkOK, Walked, Inside, Working
        <3>3. SearchOK(n)'
            BY <1>1, <1>2, <1>5, <1>7, <2>3 DEF SearchOK
        <3> QED BY <3>2, <3>3
    <2> QED BY <2>2, <2>3
<1>11. RingsAreWhole' /\ CountsAreRight'
    BY <1>1, <1>2, <1>3, RingsKept, CountsKept DEF IInv
<1>12. Returned'
    BY <1>1, ReturnedKept DEF IInv
<1> QED BY <1>7, <1>8, <1>9, <1>10, <1>11, <1>12 DEF IInv, OwnListsPass

\* A turn of the search goes on to the next record, with last behind it; it
\* cannot come to the end, since the record that it looks for is in the ring.
LEMMA SearchInductive ==
    ASSUME IInv, NEW m \in Module, Search(m) PROVE IInv'
<1> DEFINE S == Waiting(On(deps[m]))
<1>1. /\ UNCHANGED <<epoch, depNext, pinned, shared, live, deps, incNext, inc, count, unloads>>
      /\ UNCHANGED <<active, entry, head, failed>>
      /\ pc[m] = "search" /\ active # <<>> /\ Head(active) = m
      /\ Owner(cur[m]) # m
      /\ last' = [last EXCEPT ![m] = IF @ # cur[m] THEN incNext[@] ELSE @]
      /\ cur' = [cur EXCEPT ![m] = incNext[@]]
      /\ pc' = [pc EXCEPT ![m] = IF cur'[m] = last'[m] THEN "unlinked" ELSE "search"]
    BY DEF Search, At, GoTo, given
<1>2. /\ deps[m] \in S /\ Owner(deps[m]) = m /\ On(deps[m]) \in Target
      /\ IsRing(incNext, S)
    BY <1>1, Present, PresentWaits DEF IInv, Inside, Working, RingsAreWhole
<1>3. /\ cur[m] \in S /\ last[m] \in S
      /\ last[m] = cur[m] \/ incNext[last[m]] = cur[m]
    BY <1>1 DEF IInv, SearchOK
<1>4. incNext[cur[m]] # cur[m]
    BY <1>1, <1>2, <1>3, SelfLoop
<1>5. incNext[cur[m]] \in S /\ S \subseteq Edges
    BY <1>2, <1>3 DEF IsRing, Waiting, Dependents, IInv, TypeOK
<1> HIDE DEF S
<1>6. /\ cur'[m] = incNext[cur[m]] /\ last'[m] = cur[m]
      /\ cur' \in [Module -> Edges \cup {Null}] /\ last' \in [Module -> Edges \cup {Null}]
      /\ \A n \in Module \ {m} : cur'[n] = cur[n] /\ last'[n] = last[n]
    BY <1>1, <1>3, <1>5 DEF IInv, TypeOK
<1>7. pc' = pc
    BY <1>1, <1>4, <1>6 DEF IInv, TypeOK
<1>8. TypeOK' /\ StackOK'
    BY <1>1, <1>6, <1>7 DEF IInv, TypeOK, StackOK
<1>9. \A t : Waiting(t)' = Waiting(t)
    BY <1>1, <1>7, WaitingKept
<1>10. \A t : Counted(t)' = Counted(t)
    BY <1>1, <1>7, CountedKept
<1>11. ASSUME NEW n \in Module PROVE WalkOK(n)' /\ SearchOK(n)'
    <2>1. Records(n)' = Records(n)
        BY <1>1 DEF Records
    <2>2. WalkOK(n)'
        BY <1>1, <1>7, <2>1, WalkKept DEF IInv
    <2>3. CASE n # m
        BY <1>1, <1>6, <1>7, <1>9, <2>2, <2>3 DEF IInv, SearchOK
    <2>4. CASE n = m
        BY <1>1, <1>3, <1>5, <1>6, <1>7, <1>9, <2>2, <2>4 DEF SearchOK, S
    <2> QED BY <2>3, <2>4
<1>12. RingsAreWhole' /\ CountsAreRight'
    BY <1>1, <1>9, <1>10, RingsKept, CountsKept DEF IInv
<1>13. Returned'
    BY <1>1, <1>7, ReturnedKept DEF IInv
<1> QED BY <1>1, <1>8, <1>11, <1>12, <1>13 DEF IInv, OwnListsPass

\* Unlink takes out the record that was looked for and no other, and its ring
\* closes behind it.
LEMMA UnlinkInductive ==
    ASSUME IInv, NEW m \in Module, Unlink(m) PROVE IInv'
<1>1. /\ UNCHANGED <<epoch, depNext, pinned, shared, live, deps, count, unloads>>
      /\ UNCHANGED <<active, entry, head, cur, last, failed>>
      /\ pc[m] = "search" /\ pc'[m] = "unlinked" /\ active # <<>> /\ Head(active) = m
      /\ \A n \in Module \ {m} : pc'[n] = pc[n]
      /\ pc' \in [Module -> {"loaded", "find", "search", "unlinked", "unloading", "gone"}]
      /\ Owner(cur[m]) = m
    BY DEF Unlink, At, GoTo, given, locals, IInv, TypeOK
<1>2. PICK c : c = deps[m]
    OBVIOUS
<1>3. PICK t \in Target : t = On(c)
    BY <1>1, <1>2, Present DEF Inside, Working
<1>4. /\ c \in Edges /\ c \in live /\ On(c) = t /\ Owner(c) = m /\ c \in Waiting(t)
      /\ IsRing(incNext, Waiting(t)) /\ Enters(inc[t], Waiting(t))
    BY <1>1, <1>2, <1>3, Present, PresentWaits DEF Inside, Working, IInv, RingsAreWhole
<1>5. cur[m] = c
    <2>1. cur[m] \in Waiting(t)
        BY <1>1, <1>2, <1>3 DEF IInv, SearchOK
    <2>2. cur[m] \in Edges /\ On(cur[m]) = t
        BY <2>1 DEF Waiting, Dependents, IInv, TypeOK
    <2> QED BY <1>1, <1>4, <2>2, Pairs
<1>6. /\ Waiting(t)' = Waiting(t) \ {c}
      /\ \A u \in Target \ {t} : Waiting(u)' = Waiting(u)
    <2>1. Unlinked' = Unlinked \cup {c}
        BY <1>1, <1>2 DEF Unlinked
    <2> QED BY <1>1, <1>4, <2>1 DEF Waiting, Dependents
<1>7. \A u : Counted(u)' = Counted(u)
    BY <1>1, CountedKept
<1>8. Waiting(t) \subseteq Edges /\ inc[t] \in Waiting(t)
    BY <1>4 DEF Enters, Waiting, Dependents, IInv, TypeOK
<1>9. /\ IsRing(incNext', Waiting(t) \ {c}) /\ Enters(inc'[t], Waiting(t) \ {c})
      /\ \A u \in Target \ {t} : inc'[u] = inc[u]
      /\ \A r \in Edges \ Waiting(t) : incNext'[r] = incNext[r]
      /\ incNext'[c] = incNext[c]
      /\ inc' \in [Target -> Edges \cup {Null}] /\ incNext' \in [Edges -> Edges \cup {Null}]
    <2>1. CASE c = inc[t] /\ incNext[c] = c
        <3>1. inc' = [inc EXCEPT ![t] = Null] /\ incNext' = incNext
            BY <1>3, <1>5, <2>1 DEF Unlink
        <3>2. Waiting(t) \ {c} = {}
            BY <1>4, <2>1, SelfLoop
        <3>3. inc'[t] = Null
            BY <1>3, <3>1 DEF IInv, TypeOK
        <3> QED BY <1>3, <3>1, <3>2, <3>3 DEF IInv, TypeOK, IsRing, Enters
    <2>2. ASSUME NEW p \in Waiting(t), incNext[p] = c, incNext[c] # c,
                 incNext' = [incNext EXCEPT ![p] = incNext[c]],
                 \/ c = inc[t] /\ inc' = [inc EXCEPT ![t] = incNext[c]]
                 \/ c # inc[t] /\ inc' = inc
          PROVE  /\ IsRing(incNext', Waiting(t) \ {c}) /\ Enters(inc'[t], Waiting(t) \ {c})
                 /\ \A u \in Target \ {t} : inc'[u] = inc[u]
                 /\ \A r \in Edges \ Waiting(t) : incNext'[r] = incNext[r]
                 /\ incNext'[c] = incNext[c]
                 /\ inc' \in [Target -> Edges \cup {Null}]
                 /\ incNext' \in [Edges -> Edges \cup {Null}]
        <3>1. /\ incNext'[p] = incNext[c]
              /\ \A r \in Edges \ {p} : incNext'[r] = incNext[r]
            BY <1>8, <2>2 DEF IInv, TypeOK
        <3>2. \A r \in Waiting(t) \ {c, p} : incNext'[r] = incNext[r]
            BY <1>8, <3>1
        <3>3. IsRing(incNext', Waiting(t) \ {c}) /\ incNext[c] \in Waiting(t) \ {c}
            <4>1. IsRing(incNext, Waiting(t)) /\ c \in Waiting(t) /\ incNext[p] = c
                BY <1>4, <2>2
            <4>2. incNext'[p] = incNext[c] /\ incNext[c] # c
                BY <2>2, <3>1
            <4> QED BY <3>2, <4>1, <4>2, TakenOut, Zenon
        <3>4. Enters(inc'[t], Waiting(t) \ {c})
            <4>1. inc'[t] \in Waiting(t) \ {c}
                BY <1>3, <1>8, <2>2, <3>3 DEF IInv, TypeOK
            <4> QED BY <4>1 DEF Enters
        <3>5. inc' \in [Target -> Edges \cup {Null}] /\ incNext' \in [Edges -> Edges \cup {Null}]
            BY <1>8, <2>2, <3>3 DEF IInv, TypeOK
        <3>6. \A u \in Target \ {t} : inc'[u] = inc[u]
            BY <2>2 DEF IInv, TypeOK
        <3>7. incNext'[c] = incNext[c]
            BY <1>4, <2>2, <3>1
        <3> QED BY <3>1, <3>3, <3>4, <3>5, <3>6, <3>7
    <2>3. CASE c = inc[t] /\ incNext[c] # c
        <3>1. PICK p \in Ring(t) : /\ incNext[p] = c
                                   /\ incNext' = [incNext EXCEPT ![p] = incNext[c]]
            BY <1>3, <1>5, <2>3 DEF Unlink
        <3>2. inc' = [inc EXCEPT ![t] = incNext[c]]
            BY <1>3, <1>5, <2>3 DEF Unlink
        <3>3. \A q \in Waiting(t) : incNext[q] \in Waiting(t) \cup {Null}
            BY <1>4 DEF IsRing
        <3>4. p \in Waiting(t)
            BY <1>8, <3>1, <3>3 DEF Ring
        <3> QED BY <2>2, <2>3, <3>1, <3>2, <3>4
    <2>4. CASE c # inc[t]
        <3>1. incNext' = [incNext EXCEPT ![last[m]] = incNext[c]] /\ inc' = inc
            BY <1>3, <1>5, <2>4 DEF Unlink
        <3>2. last[m] \in Waiting(t) /\ incNext[last[m]] = c
            BY <1>1, <1>2, <1>3, <1>5, <2>4 DEF IInv, SearchOK
        <3>3. incNext[c] # c
            BY <1>4, <1>8, <2>4, SelfLoop
        <3> QED BY <2>2, <2>4, <3>1, <3>2, <3>3
    <2> QED BY <2>1, <2>3, <2>4
<1>10. RingsAreWhole'
    <2> SUFFICES ASSUME NEW u \in Target
                 PROVE  IsRing(incNext', Waiting(u)') /\ Enters(inc'[u], Waiting(u)')
        BY DEF RingsAreWhole
    <2>1. CASE u = t
        BY <1>6, <1>9, <2>1
    <2>2. CASE u # t
        <3>1. \A r \in Waiting(u) : r \in Edges \ Waiting(t)
            BY <2>2 DEF Waiting, Dependents, IInv, TypeOK
        <3>2. \A r \in Waiting(u) : incNext'[r] = incNext[r]
            BY <1>9, <3>1
        <3>3. IsRing(incNext, Waiting(u)) /\ Enters(inc[u], Waiting(u))
            BY DEF IInv, RingsAreWhole
        <3>4. IsRing(incNext', Waiting(u))
            BY <3>2, <3>3, SameRing
        <3> QED BY <1>6, <1>9, <2>2, <3>3, <3>4
    <2> QED BY <2>1, <2>2
<1>11. TypeOK'
    BY <1>1, <1>9 DEF IInv, TypeOK
<1>12. StackOK'
    BY <1>1 DEF IInv, StackOK, Working
<1>13. ASSUME NEW n \in Module PROVE WalkOK(n)' /\ SearchOK(n)'
    <2>1. Records(n)' = Records(n)
        BY <1>1 DEF Records
    <2>2. CASE n # m
        <3>1. pc'[n] # "search"
            BY <1>1, <2>2, Alone DEF Working
        <3> QED BY <1>1, <2>1, <2>2, <3>1, WalkKept DEF IInv, SearchOK
    <2>3. CASE n = m
        <3>1. Mine(n)' = Mine(n) /\ Given(n)' = Given(n)
            BY <1>1 DEF Mine, Given
        <3>2. WalkOK(n)'
            BY <1>1, <2>1, <2>3, <3>1 DEF IInv, WalkOK, Walked, Inside, Working
        <3> QED BY <1>1, <2>3, <3>2 DEF SearchOK
    <2> QED BY <2>2, <2>3
<1>14. CountsAreRight'
    BY <1>1, <1>7, CountsKept DEF IInv
<1>15. Returned'
    <2>1. \A r \in Waiting(t) : incNext[r] # Null
        BY <1>4, <1>8, Pairs DEF IsRing
    <2>2. \A r \in Waiting(t) \ {c} : incNext'[r] # Null
        BY <1>8, <1>9, Pairs DEF IsRing
    <2>3. incNext'[c] = incNext[c]
        BY <1>9
    <2>4. \A r \in Edges : incNext'[r] = Null <=> incNext[r] = Null
        BY <1>9, <2>1, <2>2, <2>3
    <2> QED BY <1>1, <2>4, ReturnedKept DEF IInv
<1> QED BY <1>1, <1>10, <1>11, <1>12, <1>13, <1>14, <1>15 DEF IInv, OwnListsPass

\* What Free does: the record is gone, and the module has walked one step, or
\* has nothing left.
LEMMA Freed ==
    ASSUME IInv, NEW m \in Module, pc[m] \in {"unlinked", "unloading"},
           active # <<>>, Head(active) = m,
           Free(m, depNext[deps[m]]), UNCHANGED <<depNext, head>>,
           entry'[m] = depNext[deps[m]], \A n \in Module \ {m} : entry'[n] = entry[n]
    PROVE  /\ live' = live \ {deps[m]}
           /\ pc' \in [Module -> {"loaded", "find", "search", "unlinked", "unloading", "gone"}]
           /\ pc'[m] \in {"find", "gone"} /\ \A n \in Module \ {m} : pc'[n] = pc[n]
           /\ deps' \in [Module -> Edges \cup {Null}]
           /\ \A n \in Module \ {m} : deps'[n] = deps[n]
           /\ active' \in Seq(Module) /\ StackOK'
           /\ \A n \in Module : WalkOK(n)'
           /\ \A t : Dependents(t)' = Dependents(t) \ {deps[m]}
           /\ \A t : Waiting(t)' = Waiting(t)
<1>1. PICK d : d = deps[m]
    OBVIOUS
<1>2. PICK next : next = depNext[d]
    OBVIOUS
<1>3. /\ d \in Edges /\ d \in live /\ Owner(d) = m /\ d \in Mine(m) /\ next \in Mine(m)
      /\ next \in Edges /\ IsRing(depNext, Mine(m)) /\ Walked(m)
      /\ \A n \in Module \ {m} : pc[n] \in Inside => deps[n] # d
    BY <1>1, <1>2, Present DEF Inside, Working, IInv, WalkOK, Mine
<1>4. /\ live' = live \ {d}
      /\ deps' = [deps EXCEPT ![m] = IF next = head[m] THEN Null ELSE next]
      /\ pc' = [pc EXCEPT ![m] = IF next = head[m] THEN "gone" ELSE "find"]
      /\ active' = IF next = head[m] THEN Tail(active) ELSE active
    BY <1>1, <1>2 DEF Free, GoTo
<1>5. /\ pc' \in [Module -> {"loaded", "find", "search", "unlinked", "unloading", "gone"}]
      /\ pc'[m] = (IF next = head[m] THEN "gone" ELSE "find")
      /\ \A n \in Module \ {m} : pc'[n] = pc[n]
    BY <1>4 DEF IInv, TypeOK
<1>6. /\ deps' \in [Module -> Edges \cup {Null}]
      /\ next # head[m] => deps'[m] = next
      /\ \A n \in Module \ {m} : deps'[n] = deps[n]
    BY <1>3, <1>4 DEF IInv, TypeOK
<1>7. active' \in Seq(Module)
    BY <1>4 DEF IInv, TypeOK
<1>8. StackOK'
    <2>1. \A n \in Module \ {m} : pc'[n] \notin Working
        BY <1>5, Alone
    <2>2. pc'[m] \in Working => active' # <<>> /\ Head(active') = m
        BY <1>4, <1>5 DEF Working
    <2> QED BY <2>1, <2>2 DEF StackOK
<1>9. \A t : Dependents(t)' = Dependents(t) \ {d}
    BY <1>4 DEF Dependents
<1>10. \A t : Waiting(t)' = Waiting(t)
    <2>1. Unlinked' = Unlinked \ {d}
        <3>1. ASSUME NEW r \in Unlinked' PROVE r \in Unlinked \ {d}
            <4>1. PICK n \in Module : r = deps'[n] /\ pc'[n] \in {"unlinked", "unloading"}
                BY DEF Unlinked
            <4>2. n # m
                BY <1>5, <4>1
            <4> QED BY <1>3, <1>5, <1>6, <4>1, <4>2 DEF Unlinked, Inside, Working
        <3>2. ASSUME NEW r \in Unlinked, r # d PROVE r \in Unlinked'
            <4>1. PICK n \in Module : r = deps[n] /\ pc[n] \in {"unlinked", "unloading"}
                BY DEF Unlinked
            <4>2. n # m
                BY <1>1, <3>2, <4>1
            <4> QED BY <1>5, <1>6, <4>1, <4>2 DEF Unlinked
        <3> QED BY <3>1, <3>2
    <2>2. d \in Unlinked
        BY <1>1 DEF Unlinked
    <2> QED BY <1>9, <2>1, <2>2 DEF Waiting
<1>11. ASSUME NEW n \in Module PROVE WalkOK(n)'
    <2>1. CASE n # m
        <3>1. Records(n)' = Records(n)
            BY <1>3, <1>4, <2>1 DEF Records
        <3> QED BY <1>5, <1>6, <2>1, <3>1, WalkKept DEF IInv
    <2>2. CASE n = m
        <3>1. /\ Mine(m)' = Mine(m) /\ Given(m)' = Given(m) \cup {d}
              /\ Records(m)' = Records(m) \ {d} /\ Records(m) \subseteq Mine(m)
            BY <1>3, <1>4 DEF Mine, Given, Records, IInv, WalkOK
        <3>2. /\ head[m] \in Given(m) \cup {d} /\ d \notin Given(m) /\ Given(m) \subseteq Mine(m)
              /\ \A p \in Given(m) : depNext[p] \in Given(m) \cup {d}
              /\ \A x \in Given(m) \cup {d} :
                    x = head[m] \/ \E p \in Given(m) : depNext[p] = x
            BY <1>1, <1>3 DEF Walked, Given
        <3>3. CASE next = head[m]
            <4>1. \A r \in Given(m) \cup {d} : depNext[r] \in Given(m) \cup {d}
                BY <1>2, <3>2, <3>3
            <4>2. Given(m) \cup {d} = Mine(m)
                <5>1. Given(m) \cup {d} \in SUBSET Mine(m) /\ Given(m) \cup {d} # {}
                    BY <1>3, <3>2
                <5> QED BY <1>3, <4>1, <5>1, ClosedPart
            <4>3. Records(m)' = {}
                BY <3>1, <4>2 DEF Given, Records
            <4> QED BY <1>3, <1>5, <2>2, <3>1, <3>3, <4>3 DEF WalkOK, Inside, Working
        <3>4. CASE next # head[m]
            <4>1. next \notin Given(m) \cup {d}
                <5>1. SUFFICES ASSUME NEW p \in Given(m), depNext[p] = next PROVE FALSE
                    BY <3>2, <3>4
                <5>2. p = d
                    BY <1>2, <1>3, <3>2, <5>1 DEF IsRing
                <5> QED BY <3>2, <5>2
            <4>2. next \in Records(m)'
                BY <1>3, <3>1, <4>1 DEF Given, Mine, Records
            <4>3. Walked(m)'
                <5>1. deps'[m] = next /\ head' = head /\ depNext' = depNext
                    BY <1>6, <3>4
                <5>2. \A p \in Given(m)' : depNext[p] \in Given(m)' \cup {next}
                    BY <1>2, <3>1, <3>2
                <5>3. \A x \in Given(m)' \cup {next} :
                         x = head[m] \/ \E p \in Given(m)' : depNext[p] = x
                    BY <1>2, <3>1, <3>2
                <5>4. head[m] \in Given(m)' \cup {next}
                    BY <3>1, <3>2
                <5> QED BY <4>2, <5>1, <5>2, <5>3, <5>4 DEF Walked
            <4>4. entry'[m] = deps'[m] /\ pc'[m] = "find"
                BY <1>1, <1>2, <1>5, <1>6, <3>4
            <4> QED BY <1>3, <2>2, <3>1, <4>3, <4>4 DEF WalkOK, Inside, Working
        <3> QED BY <3>3, <3>4
    <2> QED BY <2>1, <2>2
<1> QED BY <1>1, <1>4, <1>5, <1>6, <1>7, <1>8, <1>9, <1>10, <1>11

\* A finite part of the records has a number, and one record makes one.
LEMMA OneLess ==
    ASSUME NEW S \in SUBSET Edges, NEW r \in S
    PROVE  /\ Cardinality(S) \in Nat \ {0}
           /\ Cardinality(S \ {r}) = Cardinality(S) - 1
<1>1. IsFiniteSet(S)
    BY Pairs, FS_Subset
<1>2. Cardinality(S \ {r}) = Cardinality(S) - 1 /\ IsFiniteSet(S \ {r})
    BY <1>1, FS_RemoveElement
<1>3. Cardinality(S) \in Nat /\ Cardinality(S \ {r}) \in Nat
    BY <1>1, <1>2, FS_CardinalityType
<1> QED BY <1>2, <1>3

\* A record that is released still counts: the count is not 0, and is right when
\* it was taken down; nothing was returned for the module that it stands for.
LEMMA ReleaseInductive ==
    ASSUME IInv, NEW m \in Module, Release(m) PROVE IInv'
<1>1. PICK d : d = deps[m]
    OBVIOUS
<1>2. PICK t : t = On(d)
    OBVIOUS
<1>3. /\ pc[m] = "unlinked" /\ active # <<>> /\ Head(active) = m /\ entry[m] = d
      /\ UNCHANGED <<epoch, depNext, pinned, shared, incNext, inc, head, cur, last>>
      /\ entry'[m] = depNext[d] /\ \A n \in Module \ {m} : entry'[n] = entry[n]
    BY <1>1 DEF Release, At, given, IInv, TypeOK, WalkOK, Inside, Working
<1>4. /\ d \in Edges /\ d \in live /\ Owner(d) = m /\ t \in Target /\ d \in Mine(m)
      /\ depNext[d] \in Mine(m) /\ depNext[d] \in Edges
      /\ \A n \in Module \ {m} : pc[n] \in Inside => deps[n] # d
    BY <1>1, <1>2, <1>3, Present DEF Inside, Working, Mine
<1>5. entry' \in [Module -> Edges \cup {Null}]
    BY <1>3, <1>4 DEF Release, IInv, TypeOK
<1>6. d \in Counted(t) /\ Counted(t) \in SUBSET Edges
    <2>1. \A n \in Module : pc[n] = "unloading" => deps[n] # d
        BY <1>3, <1>4 DEF Inside
    <2> QED BY <1>2, <1>4, <2>1 DEF Counted, Dependents, IInv, TypeOK
<1>7. ASSUME epoch = "win8"
      PROVE  /\ count[t] = Cardinality(Counted(t)) /\ count[t] \in Nat \ {0}
             /\ Cardinality(Counted(t) \ {d}) = count[t] - 1
    <2>1. count[t] = Cardinality(Counted(t))
        BY <1>4, <1>7 DEF IInv, CountsAreRight
    <2> QED BY <1>6, <2>1, OneLess
<1>8. ASSUME NEW n \in Module, n # m PROVE pc[n] # "search"
    BY <1>3, <1>8, Alone DEF Working
<1>9. CASE /\ epoch = "win8" /\ Free(m, entry'[m]) /\ UNCHANGED unloads
           /\ failed' = IF count[t] = 0 THEN "count" ELSE "none"
           /\ count' = [count EXCEPT ![t] = IF @ = 0 THEN 0 ELSE @ - 1]
           /\ t \in pinned \/ count'[t] > 0
    <2>1. /\ live' = live \ {d}
          /\ pc' \in [Module -> {"loaded", "find", "search", "unlinked", "unloading", "gone"}]
          /\ pc'[m] \in {"find", "gone"} /\ \A n \in Module \ {m} : pc'[n] = pc[n]
          /\ deps' \in [Module -> Edges \cup {Null}]
          /\ \A n \in Module \ {m} : deps'[n] = deps[n]
          /\ active' \in Seq(Module) /\ StackOK'
          /\ \A n \in Module : WalkOK(n)'
          /\ \A u : Dependents(u)' = Dependents(u) \ {d}
          /\ \A u : Waiting(u)' = Waiting(u)
        BY <1>1, <1>3, <1>9, Freed
    <2>2. /\ failed' = "none" /\ count'[t] = count[t] - 1
          /\ count' \in [Target -> Int] /\ \A u \in Target \ {t} : count'[u] = count[u]
        BY <1>4, <1>7, <1>9 DEF IInv, TypeOK
    <2>3. \A u : Counted(u)' = Counted(u) \ {d}
        <3>1. {deps'[n] : n \in {x \in Module : pc'[x] = "unloading"}}
                 = {deps[n] : n \in {x \in Module : pc[x] = "unloading"}}
            BY <1>3, <2>1
        <3> QED BY <2>1, <3>1 DEF Counted
    <2>4. CountsAreRight'
        <3> SUFFICES ASSUME NEW u \in Target PROVE count'[u] = Cardinality(Counted(u)')
            BY DEF CountsAreRight
        <3>1. CASE u = t
            BY <1>7, <1>9, <2>2, <2>3, <3>1
        <3>2. CASE u # t
            <4>1. Counted(u)' = Counted(u)
                BY <1>2, <2>3, <3>2 DEF Counted, Dependents
            <4> QED BY <1>9, <2>2, <3>2, <4>1 DEF IInv, CountsAreRight
        <3> QED BY <3>1, <3>2
    <2>5. Returned'
        <3>1. \A u : Had(u)' = Had(u)
            BY <1>3 DEF Had
        <3>2. count[t] # 0 /\ (t \in pinned \/ count'[t] # 0)
            BY <1>7, <1>9
        <3>3. ASSUME NEW u \in Target
              PROVE  u \notin pinned => (count'[u] = 0 <=> count[u] = 0)
            BY <2>2, <3>2
        <3>4. \A r \in live' : incNext'[r] # Null
            BY <1>3, <2>1 DEF IInv, Returned
        <3> QED BY <1>3, <1>9, <3>1, <3>3, <3>4 DEF IInv, Returned
    <2>6. TypeOK'
        BY <1>3, <1>5, <1>9, <2>1, <2>2 DEF IInv, TypeOK
    <2>7. RingsAreWhole'
        BY <1>3, <2>1, RingsKept DEF IInv
    <2>8. \A n \in Module : SearchOK(n)'
        BY <1>8, <2>1 DEF SearchOK
    <2> QED BY <2>1, <2>2, <2>4, <2>5, <2>6, <2>7, <2>8 DEF IInv, OwnListsPass
<1>10. CASE /\ unloads' = unloads \cup {d} /\ GoTo(m, "unloading")
            /\ UNCHANGED <<live, deps, active>>
            /\ \/ /\ epoch = "win8" /\ t \notin pinned
                  /\ failed' = IF count[t] = 0 THEN "count" ELSE "none"
                  /\ count' = [count EXCEPT ![t] = IF @ = 0 THEN 0 ELSE @ - 1]
                  /\ count'[t] = 0
               \/ epoch = "win10" /\ UNCHANGED <<count, failed>>
    <2>0. failed = "none"
        BY DEF Release, At
    <2>1. /\ pc' \in [Module -> {"loaded", "find", "search", "unlinked", "unloading", "gone"}]
          /\ pc'[m] = "unloading" /\ \A n \in Module \ {m} : pc'[n] = pc[n]
        BY <1>10 DEF GoTo, IInv, TypeOK
    <2>2. /\ failed' = "none" /\ count' \in [Target -> Int]
          /\ epoch = "win8" => /\ t \notin pinned /\ count'[t] = 0 /\ count'[t] = count[t] - 1
                               /\ \A u \in Target \ {t} : count'[u] = count[u]
        BY <1>4, <1>7, <1>10, <2>0 DEF IInv, TypeOK
    <2>3. \A u : Waiting(u)' = Waiting(u)
        BY <1>3, <1>10, <2>1, WaitingKept
    <2>4. \A u : Counted(u)' = Counted(u) \ {d}
        <3>1. {deps'[n] : n \in {x \in Module : pc'[x] = "unloading"}}
                 = {deps[n] : n \in {x \in Module : pc[x] = "unloading"}} \cup {d}
            BY <1>1, <1>3, <1>10, <2>1
        <3> QED BY <1>10, <3>1 DEF Counted, Dependents
    <2>5. CountsAreRight'
        <3> SUFFICES ASSUME NEW u \in Target, epoch = "win8"
                     PROVE  count'[u] = Cardinality(Counted(u)')
            BY <1>3 DEF CountsAreRight
        <3>1. CASE u = t
            BY <1>7, <2>2, <2>4, <3>1
        <3>2. CASE u # t
            <4>1. Counted(u)' = Counted(u)
                BY <1>2, <2>4, <3>2 DEF Counted, Dependents
            <4> QED BY <2>2, <3>2, <4>1 DEF IInv, CountsAreRight
        <3> QED BY <3>1, <3>2
    <2>6. Returned'
        <3>1. CASE epoch = "win10"
            <4>1. ASSUME NEW r \in Edges, Owner(r) \in Module
                  PROVE  r \in unloads' <=> \/ r \notin live' /\ depNext'[r] # Null
                                            \/ pc'[Owner(r)] = "unloading" /\ deps'[Owner(r)] = r
                <5>1. r \in unloads <=> \/ r \notin live /\ depNext[r] # Null
                                        \/ pc[Owner(r)] = "unloading" /\ deps[Owner(r)] = r
                    BY <3>1, <4>1 DEF IInv, Returned
                <5>2. CASE r = d
                    BY <1>1, <1>4, <1>10, <2>1, <5>2
                <5>3. CASE r # d
                    BY <1>1, <1>3, <1>10, <2>1, <4>1, <5>1, <5>3
                <5> QED BY <5>2, <5>3
            <4>2. \A r \in live' : incNext'[r] # Null
                BY <1>3, <1>10 DEF IInv, Returned
            <4> QED BY <1>3, <3>1, <4>1, <4>2 DEF Returned
        <3>2. CASE epoch = "win8"
            <4>1. ~\E r \in unloads : On(r) = t
                BY <1>4, <1>7, <3>2 DEF IInv, Returned
            <4>2. Had(t) # {} /\ \A u : Had(u)' = Had(u)
                BY <1>2, <1>3, <1>4 DEF IInv, Returned, Had
            <4>3. t \notin pinned /\ count'[t] = 0
                BY <1>10, <3>2
            <4>4. ASSUME NEW u \in Target
                  PROVE  /\ (\E r \in unloads' : On(r) = u)
                                <=> u \notin pinned /\ Had(u) # {} /\ count'[u] = 0
                         /\ \A r, s \in unloads' : On(r) = u /\ On(s) = u => r = s
                <5>1. CASE u = t
                    BY <1>2, <1>10, <4>1, <4>2, <4>3, <5>1
                <5>2. CASE u # t
                    <6>1. \A r \in unloads' : On(r) = u => r \in unloads
                        BY <1>2, <1>10, <5>2
                    <6>2. unloads \subseteq unloads' /\ count'[u] = count[u]
                        BY <1>10, <2>2, <3>2, <5>2
                    <6> QED BY <3>2, <6>1, <6>2 DEF IInv, Returned
                <5> QED BY <5>1, <5>2
            <4>5. \A r \in live' : incNext'[r] # Null
                BY <1>3, <1>10 DEF IInv, Returned
            <4> QED BY <1>3, <3>2, <4>2, <4>4, <4>5 DEF Returned
        <3> QED BY <3>1, <3>2, LdrDdagAssumption DEF LdrDdagAssumption, IInv, TypeOK
    <2>7. ASSUME NEW n \in Module PROVE WalkOK(n)' /\ SearchOK(n)'
        <3>1. Records(n)' = Records(n) /\ Mine(n)' = Mine(n) /\ Given(n)' = Given(n)
            BY <1>3, <1>10 DEF Records, Mine, Given
        <3>2. SearchOK(n)'
            BY <1>8, <2>1 DEF SearchOK
        <3>3. CASE n # m
            BY <1>3, <1>10, <2>1, <3>1, <3>2, <3>3, WalkKept DEF IInv
        <3>4. CASE n = m
            BY <1>1, <1>3, <1>10, <2>1, <3>1, <3>2, <3>4
               DEF IInv, WalkOK, Walked, Inside, Working
        <3> QED BY <3>3, <3>4
    <2>8. TypeOK'
        BY <1>3, <1>4, <1>5, <1>10, <2>1, <2>2 DEF IInv, TypeOK
    <2>9. StackOK'
        BY <1>10, <2>1 DEF IInv, StackOK, Working
    <2>10. RingsAreWhole'
        BY <1>3, <2>3, RingsKept DEF IInv
    <2> QED BY <2>2, <2>5, <2>6, <2>7, <2>8, <2>9, <2>10 DEF IInv, OwnListsPass
<1> QED BY <1>2, <1>3, <1>9, <1>10 DEF Release

\* The record of a module that was unloaded no longer counts when it is freed.
LEMMA UnloadReturnsInductive ==
    ASSUME IInv, NEW m \in Module, UnloadReturns(m) PROVE IInv'
<1>1. PICK d : d = deps[m]
    OBVIOUS
<1>2. /\ pc[m] = "unloading" /\ active # <<>> /\ Head(active) = m /\ entry[m] = depNext[d]
      /\ UNCHANGED <<epoch, depNext, pinned, shared, incNext, inc, count, unloads>>
      /\ UNCHANGED <<entry, head, cur, last, failed>>
      /\ Free(m, depNext[d])
    BY <1>1 DEF UnloadReturns, At, given, locals, IInv, WalkOK, Inside, Working
<1>3. /\ d \in Edges /\ d \in live /\ Owner(d) = m /\ depNext[d] # Null
      /\ \A n \in Module \ {m} : pc[n] \in Inside => deps[n] # d
    BY <1>1, <1>2, Present DEF Inside, Working, Mine
<1>4. /\ live' = live \ {d}
      /\ pc' \in [Module -> {"loaded", "find", "search", "unlinked", "unloading", "gone"}]
      /\ pc'[m] \in {"find", "gone"} /\ \A n \in Module \ {m} : pc'[n] = pc[n]
      /\ deps' \in [Module -> Edges \cup {Null}]
      /\ \A n \in Module \ {m} : deps'[n] = deps[n]
      /\ active' \in Seq(Module) /\ StackOK'
      /\ \A n \in Module : WalkOK(n)'
      /\ \A u : Dependents(u)' = Dependents(u) \ {d}
      /\ \A u : Waiting(u)' = Waiting(u)
    BY <1>1, <1>2, Freed
<1>5. \A u : Counted(u)' = Counted(u)
    <2>1. {deps'[n] : n \in {x \in Module : pc'[x] = "unloading"}} \cup {d}
             = {deps[n] : n \in {x \in Module : pc[x] = "unloading"}}
        BY <1>1, <1>2, <1>4
    <2> QED BY <1>4, <2>1 DEF Counted
<1>6. Returned'
    <2>1. ASSUME epoch = "win10", NEW r \in Edges, Owner(r) \in Module
          PROVE  r \in unloads' <=> \/ r \notin live' /\ depNext'[r] # Null
                                    \/ pc'[Owner(r)] = "unloading" /\ deps'[Owner(r)] = r
        <3>1. r \in unloads <=> \/ r \notin live /\ depNext[r] # Null
                                \/ pc[Owner(r)] = "unloading" /\ deps[Owner(r)] = r
            BY <2>1 DEF IInv, Returned
        <3>2. CASE r = d
            BY <1>1, <1>2, <1>3, <1>4, <3>1, <3>2
        <3>3. CASE r # d
            BY <1>1, <1>2, <1>4, <2>1, <3>1, <3>3
        <3> QED BY <3>2, <3>3
    <2>2. \A u : Had(u)' = Had(u)
        BY <1>2 DEF Had
    <2>3. \A r \in live' : incNext'[r] # Null
        BY <1>2, <1>4 DEF IInv, Returned
    <2> QED BY <1>2, <2>1, <2>2, <2>3 DEF IInv, Returned
<1>7. TypeOK'
    BY <1>2, <1>4 DEF IInv, TypeOK
<1>8. ASSUME NEW n \in Module PROVE SearchOK(n)'
    <2>1. pc'[n] # "search"
        BY <1>2, <1>4, Alone DEF Working
    <2> QED BY <2>1 DEF SearchOK
<1>9. RingsAreWhole' /\ CountsAreRight'
    BY <1>2, <1>4, <1>5, RingsKept, CountsKept DEF IInv
<1> QED BY <1>2, <1>4, <1>6, <1>7, <1>8, <1>9 DEF IInv, OwnListsPass

\* A module of the Windows loader leaves each ring it was in closed behind it.
LEMMA TargetGoesInductive ==
    ASSUME IInv, NEW t \in Target, TargetGoes(t) PROVE IInv'
<1> DEFINE gone == Records(t)
<1>1. /\ UNCHANGED <<epoch, depNext, pinned, shared, deps, active, pc>>
      /\ UNCHANGED <<entry, head, cur, last, failed>>
      /\ active # <<>> /\ pc[Head(active)] = "unloading"
      /\ live' = live \ gone
      /\ incNext' = [r \in Edges |-> IF incNext[r] \in gone THEN incNext[incNext[r]]
                                                            ELSE incNext[r]]
      /\ inc' = [u \in Target |-> IF inc[u] \notin gone THEN inc[u]
                                  ELSE IF incNext[inc[u]] = inc[u] THEN Null
                                  ELSE incNext[inc[u]]]
      /\ count' = [u \in Target |-> count[u] - Cardinality({r \in gone : On(r) = u})]
      /\ unloads' = unloads \cup
            {r \in gone : epoch = "win8" /\ On(r) \notin pinned /\ count'[On(r)] = 0}
    BY DEF TargetGoes, given, locals
<1>2. /\ gone \subseteq Edges /\ gone \subseteq live /\ \A r \in gone : Owner(r) = t
      /\ \A n \in Module : n # t
    BY Pairs DEF Records, IInv, TypeOK
<1> HIDE DEF gone
<1>3. \A n \in Module : pc[n] \notin Working
    BY <1>1 DEF IInv, StackOK, Working
<1>4. \A n \in Module : pc[n] \in Inside => deps[n] \notin gone
    BY <1>2, Present
<1>5. /\ \A u : Dependents(u)' = Dependents(u) \ gone
      /\ \A u : Waiting(u)' = Waiting(u) \ gone
      /\ \A u : Counted(u)' = Counted(u) \ gone
    BY <1>1 DEF Dependents, Waiting, Counted, Unlinked
<1>6. \A n \in Module : Records(n)' = Records(n)
    BY <1>1, <1>2 DEF Records
<1>7. \A r \in Edges : On(r) \in Target
    BY Pairs
    \* A ring has at most one record of t.
<1>8. ASSUME NEW u \in Target, {r \in gone : On(r) = u} # {}
      PROVE  \E c \in gone : /\ On(c) = u /\ {r \in gone : On(r) = u} = {c}
                             /\ c \in Waiting(u) /\ c \in Counted(u)
                             /\ Waiting(u) \cap gone = {c} /\ Counted(u) \cap gone = {c}
    <2>1. PICK c \in gone : On(c) = u
        BY <1>8
    <2>2. \A r \in gone : On(r) = u => r = c
        BY <1>2, <2>1, Pairs
    <2>3. c \in Dependents(u)
        BY <1>2, <2>1 DEF Dependents
    <2>4. c \in Waiting(u) /\ c \in Counted(u)
        BY <1>4, <2>3 DEF Waiting, Counted, Unlinked, Inside, Working
    <2>5. \A r \in Waiting(u) \cup Counted(u) : On(r) = u
        BY DEF Waiting, Counted, Dependents
    <2> QED BY <2>1, <2>2, <2>4, <2>5
<1>9. ASSUME NEW u \in Target, {r \in gone : On(r) = u} = {}
      PROVE  /\ Waiting(u) \cap gone = {} /\ Counted(u) \cap gone = {}
    BY <1>9 DEF Waiting, Counted, Dependents
<1>10. \A u \in Target : Waiting(u) \subseteq Edges /\ Counted(u) \in SUBSET Edges
    BY DEF Waiting, Counted, Dependents, IInv, TypeOK
<1>11. ASSUME NEW u \in Target
       PROVE  IsRing(incNext', Waiting(u) \ gone) /\ Enters(inc'[u], Waiting(u) \ gone)
    <2>1. IsRing(incNext, Waiting(u)) /\ Enters(inc[u], Waiting(u))
        BY DEF IInv, RingsAreWhole
    <2>2. \A r \in Waiting(u) : incNext[r] \in Waiting(u)
        BY <2>1 DEF IsRing
    <2>3. CASE {r \in gone : On(r) = u} = {}
        <3>1. Waiting(u) \cap gone = {}
            BY <1>9, <2>3
        <3>2. \A r \in Waiting(u) : incNext'[r] = incNext[r]
            BY <1>1, <1>10, <2>2, <3>1
        <3>3. inc'[u] = inc[u]
            <4>1. inc[u] \notin gone
                BY <1>2, <2>1, <3>1, Pairs DEF Enters
            <4> QED BY <1>1, <4>1
        <3>4. Waiting(u) \ gone = Waiting(u)
            BY <3>1
        <3> QED BY <2>1, <3>2, <3>3, <3>4, SameRing
    <2>4. CASE {r \in gone : On(r) = u} # {}
        <3>1. PICK c \in gone : c \in Waiting(u) /\ Waiting(u) \cap gone = {c}
            BY <1>8, <2>4
        <3>2. PICK p \in Waiting(u) : incNext[p] = c
            BY <2>1, <3>1, BeforeIt
        <3>3. incNext'[p] = incNext[c]
            BY <1>1, <1>10, <3>1, <3>2
        <3>4. \A r \in Waiting(u) \ {c, p} : incNext'[r] = incNext[r]
            <4>1. \A r \in Waiting(u) : incNext[r] = c => r = p
                BY <2>1, <3>2 DEF IsRing
            <4>2. \A r \in Waiting(u) : r # p => incNext[r] \notin gone
                BY <2>2, <3>1, <4>1
            <4> QED BY <1>1, <1>10, <4>2
        <3>5. /\ IsRing(incNext', Waiting(u) \ {c})
              /\ incNext[c] # c => incNext[c] \in Waiting(u) \ {c}
            <4>1. c \in Waiting(u)
                BY <3>1
            <4> QED BY <2>1, <3>2, <3>3, <3>4, <4>1, TakenOut, Zenon
        <3>6. Waiting(u) \ gone = Waiting(u) \ {c}
            BY <3>1
        <3>7. Enters(inc'[u], Waiting(u) \ {c})
            <4>1. inc[u] \in Waiting(u)
                BY <2>1, <3>1 DEF Enters
            <4>2. CASE inc[u] # c
                <5>1. inc'[u] = inc[u]
                    BY <1>1, <3>1, <4>1, <4>2
                <5> QED BY <4>1, <4>2, <5>1 DEF Enters
            <4>3. CASE inc[u] = c /\ incNext[c] # c
                <5>1. inc'[u] = incNext[c]
                    BY <1>1, <3>1, <4>3
                <5> QED BY <3>5, <4>3, <5>1 DEF Enters
            <4>4. CASE inc[u] = c /\ incNext[c] = c
                <5>1. inc'[u] = Null
                    BY <1>1, <3>1, <4>4
                <5>2. Waiting(u) = {c}
                    BY <2>1, <3>1, <4>4, SelfLoop
                <5> QED BY <5>1, <5>2 DEF Enters
            <4> QED BY <4>2, <4>3, <4>4
        <3> QED BY <3>5, <3>6, <3>7
    <2> QED BY <2>3, <2>4
<1>12. RingsAreWhole'
    BY <1>5, <1>11 DEF RingsAreWhole
<1>13. ASSUME NEW u \in Target
       PROVE  /\ Cardinality({r \in gone : On(r) = u}) \in Nat
              /\ Cardinality({r \in gone : On(r) = u}) # 0 => Counted(u) # {}
              /\ Cardinality(Counted(u) \ gone)
                    = Cardinality(Counted(u)) - Cardinality({r \in gone : On(r) = u})
    <2>1. Cardinality(Counted(u)) \in Nat
        BY <1>10, Pairs, FS_Subset, FS_CardinalityType
    <2>2. CASE {r \in gone : On(r) = u} = {}
        <3>1. Counted(u) \ gone = Counted(u)
            BY <1>9, <2>2
        <3>2. Cardinality({r \in gone : On(r) = u}) = 0
            BY <2>2, FS_EmptySet
        <3>3. Cardinality(Counted(u) \ gone) = Cardinality(Counted(u))
            BY <3>1
        <3> HIDE <2>2
        <3> QED BY <2>1, <3>2, <3>3
    <2>3. CASE {r \in gone : On(r) = u} # {}
        <3>1. PICK c \in gone : /\ {r \in gone : On(r) = u} = {c}
                               /\ c \in Counted(u) /\ Counted(u) \cap gone = {c}
            BY <1>8, <2>3
        <3>2. Cardinality({r \in gone : On(r) = u}) = 1
            BY <3>1, FS_Singleton
        <3>3. Counted(u) \ gone = Counted(u) \ {c}
            BY <3>1
        <3>4. Cardinality(Counted(u) \ {c}) = Cardinality(Counted(u)) - 1
            BY <1>10, <3>1, OneLess
        <3> QED BY <3>1, <3>2, <3>3, <3>4
    <2> QED BY <2>2, <2>3
<1>14. CountsAreRight'
    BY <1>1, <1>5, <1>13 DEF IInv, CountsAreRight
<1>15. TypeOK'
    <2>1. count' \in [Target -> Int]
        <3> DEFINE lost(u) == Cardinality({r \in gone : On(r) = u})
        <3>1. count' = [u \in Target |-> count[u] - lost(u)]
            BY <1>1
        <3>2. \A u \in Target : lost(u) \in Nat
            BY <1>13
        <3> HIDE DEF lost
        <3> QED BY <3>1, <3>2 DEF IInv, TypeOK
    <2>2. inc' \in [Target -> Edges \cup {Null}]
        BY <1>1, <1>2 DEF IInv, TypeOK
    <2>3. incNext' \in [Edges -> Edges \cup {Null}]
        BY <1>1, <1>2 DEF IInv, TypeOK
    <2> QED BY <1>1, <1>2, <2>1, <2>2, <2>3 DEF IInv, TypeOK
<1>16. ASSUME NEW n \in Module PROVE WalkOK(n)' /\ SearchOK(n)'
    <2>1. WalkOK(n)'
        BY <1>1, <1>6, WalkKept DEF IInv
    <2>2. SearchOK(n)'
        BY <1>1, <1>3 DEF SearchOK, Working
    <2> QED BY <2>1, <2>2
<1>17. Returned'
    <2>1. ASSUME epoch = "win10", NEW r \in Edges, Owner(r) \in Module
          PROVE  r \in live' <=> r \in live
        BY <1>1, <1>2, <2>1
    <2>2. \A r \in Edges : incNext'[r] = Null <=> incNext[r] = Null
        <3>1. \A r \in gone : incNext[r] # Null
            BY <1>2 DEF IInv, Returned
        <3> QED BY <1>1, <1>2, <3>1, Pairs
    <2>3. \A u : Had(u)' = Had(u)
        BY <2>2 DEF Had
    <2>4. \A r \in live' : incNext'[r] # Null
        BY <1>1, <1>2, <2>2 DEF IInv, Returned, TypeOK
    <2>5. ASSUME epoch = "win8", NEW u \in Target
          PROVE  /\ (\E r \in unloads' : On(r) = u)
                       <=> u \notin pinned /\ Had(u) # {} /\ count'[u] = 0
                 /\ \A r, s \in unloads' : On(r) = u /\ On(s) = u => r = s
        <3>1. CASE {r \in gone : On(r) = u} = {}
            <4>1. Cardinality({r \in gone : On(r) = u}) = 0
                BY <3>1, FS_EmptySet
            <4>2. count'[u] = count[u]
                <5> HIDE <3>1
                <5> QED BY <1>1, <4>1 DEF IInv, TypeOK
            <4>3. \A r : On(r) = u => (r \in unloads' <=> r \in unloads)
                BY <1>1, <3>1
            <4> QED BY <2>5, <4>2, <4>3 DEF IInv, Returned
        <3>2. CASE {r \in gone : On(r) = u} # {}
            <4>1. PICK c \in gone : /\ On(c) = u /\ {r \in gone : On(r) = u} = {c}
                                   /\ c \in Counted(u)
                BY <1>8, <3>2
            <4>2. count[u] # 0
                BY <1>10, <2>5, <4>1, OneLess DEF IInv, CountsAreRight
            <4>3. ~\E r \in unloads : On(r) = u
                BY <2>5, <4>2 DEF IInv, Returned
            <4>4. c \in Had(u)
                BY <1>2, <4>1 DEF Had, IInv, Returned
            <4>5. \A r \in unloads' : On(r) = u => r = c
                BY <1>1, <4>1, <4>3
            <4>6. c \in unloads' <=> u \notin pinned /\ count'[u] = 0
                BY <1>1, <2>5, <4>1, <4>3
            <4> QED BY <4>1, <4>4, <4>5, <4>6
        <3> QED BY <3>1, <3>2
    <2>6. ASSUME epoch = "win10" PROVE unloads' = unloads
        BY <1>1, <2>6
    <2> QED BY <1>1, <2>1, <2>3, <2>4, <2>5, <2>6 DEF IInv, Returned
<1>18. StackOK' /\ OwnListsPass'
    BY <1>1 DEF IInv, StackOK, OwnListsPass
<1> QED BY <1>12, <1>14, <1>15, <1>16, <1>17, <1>18 DEF IInv

\* Before the first call every ring is whole and nothing was given up.
LEMMA Initially == Init => IInv
<1> SUFFICES ASSUME Init PROVE IInv
    OBVIOUS
<1>1. Unlinked = {} /\ \A m \in Module : pc[m] = "loaded"
    BY DEF Init, Unlinked
<1>2. \A t : Waiting(t) = Dependents(t) /\ Counted(t) = Dependents(t)
    BY <1>1 DEF Waiting, Counted
<1>3. \A t : Cardinality(Dependents(t)) \in Nat
    <2>1. \A t : Dependents(t) \in SUBSET Edges
        BY DEF Init, Dependents
    <2> QED BY <2>1, Pairs, FS_Subset, FS_CardinalityType
<1>4. TypeOK
    <2>1. active \in Seq(Module)
        BY DEF Init
    <2>2. count \in [Target -> Int]
        BY <1>3 DEF Init
    <2> QED BY <2>1, <2>2 DEF Init, TypeOK
<1>5. ASSUME NEW m \in Module PROVE WalkOK(m) /\ SearchOK(m)
    <2>1. Mine(m) = Records(m) /\ Given(m) = {}
        <3>1. \A r \in Records(m) : depNext[r] \in Records(m)
            BY DEF Init, IsRing
        <3>2. \A r \in live : r # Null
            BY Pairs DEF Init
        <3> QED BY <3>1, <3>2 DEF Init, Mine, Given, Records
    <2> QED BY <1>1, <2>1 DEF Init, WalkOK, SearchOK, Inside, Working
<1>6. RingsAreWhole
    BY <1>2 DEF Init, RingsAreWhole
<1>7. CountsAreRight
    BY <1>2 DEF Init, CountsAreRight
<1>8. Returned
    <2>1. \A r \in live : incNext[r] # Null
        <3>1. ASSUME NEW r \in live PROVE incNext[r] \in live
            <4>1. r \in Dependents(On(r)) /\ On(r) \in Target
                BY Pairs DEF Init, Dependents
            <4> QED BY <4>1 DEF Init, IsRing, Dependents
        <3> QED BY <3>1, Pairs DEF Init
    <2>2. ASSUME NEW t \in Target, Had(t) # {} PROVE count[t] # 0
        <3>1. PICK r \in Dependents(t) : TRUE
            BY <2>2 DEF Had, Init, Dependents
        <3>2. Dependents(t) \in SUBSET Edges
            BY DEF Init, Dependents
        <3>3. Cardinality(Dependents(t)) # 0
            BY <3>1, <3>2, OneLess
        <3> QED BY <3>3 DEF Init
    <2> QED BY <1>1, <2>1, <2>2 DEF Init, Returned
<1>9. StackOK /\ OwnListsPass
    BY <1>1 DEF Init, StackOK, Working, OwnListsPass
<1> QED BY <1>4, <1>5, <1>6, <1>7, <1>8, <1>9 DEF IInv

\* Every step keeps the invariant.
LEMMA Inductive == IInv /\ [Next]_vars => IInv'
<1> SUFFICES ASSUME IInv, [Next]_vars PROVE IInv'
    OBVIOUS
<1>1. ASSUME NEW m \in Module, Call(m) PROVE IInv'
    BY <1>1, CallInductive
<1>2. ASSUME NEW m \in Module, Step(m) PROVE IInv'
    BY <1>2, FindInductive, SearchInductive, UnlinkInductive, ReleaseInductive,
       UnloadReturnsInductive DEF Step
<1>3. ASSUME NEW t \in Target, TargetGoes(t) PROVE IInv'
    BY <1>3, TargetGoesInductive
<1>4. CASE UNCHANGED vars
    <2>1. UNCHANGED <<epoch, live, depNext, deps, incNext, inc, count, pinned, shared, unloads>>
        BY <1>4 DEF vars
    <2>2. UNCHANGED <<active, pc, entry, head, cur, last, failed>>
        BY <1>4 DEF vars
    <2>3. TypeOK' /\ StackOK' /\ OwnListsPass'
        BY <2>1, <2>2 DEF IInv, TypeOK, StackOK, OwnListsPass
    <2>4. \A t : Waiting(t)' = Waiting(t) /\ Counted(t)' = Counted(t)
        BY <2>1, <2>2, WaitingKept, CountedKept
    <2>5. ASSUME NEW n \in Module PROVE WalkOK(n)' /\ SearchOK(n)'
        <3>1. Records(n)' = Records(n)
            BY <2>1 DEF Records
        <3>2. WalkOK(n)'
            BY <2>1, <2>2, <3>1, WalkKept DEF IInv
        <3>3. SearchOK(n)'
            BY <2>1, <2>2, <2>4 DEF IInv, SearchOK
        <3> QED BY <3>2, <3>3
    <2>6. RingsAreWhole' /\ CountsAreRight' /\ Returned'
        BY <2>1, <2>2, <2>4, RingsKept, CountsKept, ReturnedKept DEF IInv
    <2> QED BY <2>3, <2>5, <2>6 DEF IInv
<1> QED BY <1>1, <1>2, <1>3, <1>4 DEF Next

-------------------------------------------------------------------------------
(* The theorems *)

\* The invariant holds in every state.
THEOREM Invariant == Spec => []IInv
<1>1. Init => IInv
    BY Initially
<1>2. IInv /\ [Next]_vars => IInv'
    BY Inductive
<1> QED BY <1>1, <1>2, PTL DEF Spec

\* Every variable of RtlFreeDependencies and of the records has its type.
THEOREM TypeCorrect == Spec => []TypeOK
<1>1. IInv => TypeOK
    BY DEF IInv
<1> QED BY <1>1, Invariant, PTL

\* Whatever is unlinked, in whatever order and in whatever nested call, the rings
\* of dependents hold what they have to and close.
THEOREM RingsStayWhole == Spec => []RingsAreWhole
<1>1. IInv => RingsAreWhole
    BY DEF IInv
<1> QED BY <1>1, Invariant, PTL

\* A module that is gone has left no record, and one on its way is at a record
\* that is still there (the loop over entry, which ends at head).
THEOREM DependenciesAreGiven == Spec => []DependenciesGiven
<1>1. IInv => DependenciesGiven
    BY DEF IInv, WalkOK, Walked, Records, DependenciesGiven, Inside, Working
<1> QED BY <1>1, Invariant, PTL

\* DependencyCount is the number of dependents, on Windows 8.
THEOREM CountsStayRight == Spec => []CountsAreRight
<1>1. IInv => CountsAreRight
    BY DEF IInv
<1> QED BY <1>1, Invariant, PTL

\* LdrUnloadDll is called once for each reference and for no other: for each
\* record, or on Windows 8 for each module that lost its last dependent and that
\* nobody loaded by name.
THEOREM ReferencesAreReturned == Spec => []ReferencesReturned
<1>1. IInv => ReferencesReturned
    <2> SUFFICES ASSUME IInv, epoch = "win8", NEW t \in Target
                 PROVE  count[t] = 0 <=> Counted(t) = {}
        BY DEF IInv, Returned, ReferencesReturned
    <2>1. count[t] = Cardinality(Counted(t))
        BY DEF IInv, CountsAreRight
    <2>2. IsFiniteSet(Counted(t))
        BY Pairs, FS_Subset DEF Counted, Dependents, IInv, TypeOK
    <2> QED BY <2>1, <2>2, FS_EmptySet
<1> QED BY <1>1, Invariant, PTL

\* No __fastfail of RtlFreeDependencies on a list or count that this code keeps
\* is reached: a ring that is searched is not empty, and a count that is taken
\* down is not 0.  The two on the nodes of Windows and the one on the lock may be.
THEOREM OwnListsPassHolds == Spec => []OwnListsPass
<1>1. IInv => OwnListsPass
    BY DEF IInv
<1> QED BY <1>1, Invariant, PTL
===============================================================================
