-------------------------------- MODULE LdrDdag --------------------------------
(***************************************************************************)
(* RtlFreeDependencies of win-polyfill-core/loader.h (Windows 8 and up):   *)
(* a module that goes away gives up its dependencies.  One record stands   *)
(* for one dependency.  It is in two singly linked rings: that of its      *)
(* owner's dependencies and that of the dependents of what it depends on,  *)
(* "incoming".  A ring is entered through a pointer to any of its records. *)
(*                                                                         *)
(* The callers hold the loader lock, so the inner LdrLockLoaderLock, which *)
(* only tries, gets it at once or is refused.  But LdrUnloadDll runs init  *)
(* routines, and these may destroy other modules while this one is between *)
(* two records.                                                            *)
(***************************************************************************)
EXTENDS Integers, Sequences, FiniteSets

CONSTANTS Module,     \* modules loaded from memory, which the code destroys
          Target,     \* modules of the Windows loader
          Edges,      \* the dependencies there may be, pairs <<owner, on>>
          Epochs,     \* subset of {"win8", "win10"}
          Null

Node == Module \cup Target

ASSUME LdrDdagAssumption ==
    /\ Module \cap Target = {}
    /\ Edges \subseteq Node \X Target
    /\ \A r \in Edges : r[1] # r[2]
    /\ Epochs \subseteq {"win8", "win10"}
    /\ Null \notin Edges
    /\ IsFiniteSet(Edges)

Owner(r) == r[1]
On(r)    == r[2]

VARIABLES
    epoch,    \* the family the process runs on: 6.2 and 6.3, or 10.0 and up
    live,     \* the records that are allocated
    depNext,  \* NextDependentEntry of each record
    deps,     \* Dependencies of each module's node
    incNext,  \* NextIncommingEntry of each record
    inc,      \* IncomingDependencies of each node
    count,    \* DependencyCount of each node (Windows 8)
    pinned,   \* the targets that were loaded by name or are in use: LoadCount
              \* is not 0 or ReferenceCount is not 1
    shared,   \* the targets whose node holds other modules too (Windows puts
              \* modules that depend on each other in one node) or is not the
              \* node of the module that it holds
    unloads,  \* history: the dependencies with which LdrUnloadDll was called for
              \* what they depended on
    active,   \* the modules being destroyed, innermost first
    pc,       \* where each of them is
    entry, head, cur, last,   \* the local variables of those names
    failed    \* the check whose __fastfail ended the process, or "none"

vars == <<epoch, live, depNext, deps, incNext, inc, count, pinned, shared, unloads,
          active, pc, entry, head, cur, last, failed>>
locals == <<entry, head, cur, last>>
given  == <<epoch, depNext, pinned, shared>>

\* The pointer next leads through all records of S and back to the first: no
\* record is led to twice, and no part of S is closed.
IsRing(next, S) ==
    /\ \A r \in S : next[r] \in S
    /\ \A q, r \in S : next[q] = next[r] => q = r
    /\ \A part \in SUBSET S : part # {} /\ (\A r \in part : next[r] \in part) => part = S

\* A ring is entered at one of its records, or is empty.
Enters(pointer, S) == IF S = {} THEN pointer = Null ELSE pointer \in S

\* The records that the pointers lead to from the head of a ring.
Ring(t) == {r \in Edges : \A part \in SUBSET Edges :
                              /\ inc[t] \in part
                              /\ \A q \in part : incNext[q] \in part \cup {Null}
                              => r \in part}

Dependents(t) == {r \in live : On(r) = t}
Records(m)    == {r \in live : Owner(r) = m}

\* Every dependency relation, its rings in every order.
Init ==
    /\ live \in SUBSET Edges
    /\ depNext \in [Edges -> live \cup {Null}]
    /\ deps \in [Module -> live \cup {Null}]
    /\ \A m \in Module : IsRing(depNext, Records(m)) /\ Enters(deps[m], Records(m))
    /\ \A r \in Edges \ live : depNext[r] = Null
    /\ \A r \in live : Owner(r) \in Target => depNext[r] = Null
    /\ incNext \in [Edges -> live \cup {Null}]
    /\ inc \in [Target -> live \cup {Null}]
    /\ \A t \in Target : IsRing(incNext, Dependents(t)) /\ Enters(inc[t], Dependents(t))
    /\ \A r \in Edges \ live : incNext[r] = Null
    /\ count = [t \in Target |-> Cardinality(Dependents(t))]
    /\ epoch \in Epochs
    /\ pinned \in SUBSET Target /\ shared \in SUBSET Target
    /\ unloads = {}
    /\ active = <<>>
    /\ pc = [m \in Module |-> "loaded"]
    /\ entry = [m \in Module |-> Null] /\ head = [m \in Module |-> Null]
    /\ cur = [m \in Module |-> Null]   /\ last = [m \in Module |-> Null]
    /\ failed = "none"

-------------------------------------------------------------------------------

At(m, l) == failed = "none" /\ active # <<>> /\ Head(active) = m /\ pc[m] = l
GoTo(m, l) == pc' = [pc EXCEPT ![m] = l]

\* LdrEntryDestroy(m) comes from outside, or from an init routine that
\* LdrUnloadDll runs.  A module without dependencies is done at once.
Call(m) ==
    /\ failed = "none" /\ pc[m] = "loaded"
    /\ active # <<>> => pc[Head(active)] = "unloading"
    /\ \/ deps[m] = Null /\ GoTo(m, "gone") /\ UNCHANGED <<active, entry, head>>
       \/ /\ deps[m] # Null
          /\ GoTo(m, "find")
          /\ active' = <<m>> \o active
          /\ entry' = [entry EXCEPT ![m] = deps[m]]
          /\ head' = [head EXCEPT ![m] = deps[m]]
    /\ UNCHANGED <<given, live, deps, incNext, inc, count, unloads, cur, last, failed>>

\* The record leads to the node it depends on.  That holds one module, which
\* has this node, and its ring is not empty; then the lock may be refused.
Find(m) ==
    /\ At(m, "find")
    /\ LET t == On(entry[m]) IN
          /\ \/ t \in shared /\ failed' = "node"
             \/ t \notin shared /\ inc[t] = Null /\ failed' = "ring"
             \/ t \notin shared /\ inc[t] # Null /\ failed' \in {"none", "lock"}
          /\ cur' = [cur EXCEPT ![m] = inc[t]]
          /\ last' = [last EXCEPT ![m] = inc[t]]
    /\ GoTo(m, "search")
    /\ UNCHANGED <<given, live, deps, incNext, inc, count, unloads, active, entry, head>>

\* One turn of the search for a record of m; last follows one behind, from
\* the third record on.
Search(m) ==
    /\ At(m, "search")
    /\ Owner(cur[m]) # m
    /\ last' = [last EXCEPT ![m] = IF @ # cur[m] THEN incNext[@] ELSE @]
    /\ cur' = [cur EXCEPT ![m] = incNext[@]]
    /\ GoTo(m, IF cur'[m] = last'[m] THEN "unlinked" ELSE "search")
    /\ UNCHANGED <<given, live, deps, incNext, inc, count, unloads, active, entry, head, failed>>

\* Plausible bugs of Unlink: the record before the head still points to it;
\* the ring is emptied with its head.
Unlink_KeepsLast(m) ==
    /\ At(m, "search")
    /\ Owner(cur[m]) = m
    /\ LET c == cur[m]  t == On(c) IN
          /\ inc' = [inc EXCEPT ![t] = IF @ # c THEN @
                                       ELSE IF incNext[c] = c THEN Null ELSE incNext[c]]
          /\ incNext' = IF inc[t] = c THEN incNext
                                      ELSE [incNext EXCEPT ![last[m]] = incNext[c]]
    /\ GoTo(m, "unlinked")
    /\ UNCHANGED <<given, live, deps, count, unloads, active, locals, failed>>

Unlink_EmptiesRing(m) ==
    /\ At(m, "search")
    /\ Owner(cur[m]) = m
    /\ LET c == cur[m]  t == On(c) IN
          /\ inc' = [inc EXCEPT ![t] = IF @ = c THEN Null ELSE @]
          /\ incNext' = IF inc[t] = c THEN incNext
                                      ELSE [incNext EXCEPT ![last[m]] = incNext[c]]
    /\ GoTo(m, "unlinked")
    /\ UNCHANGED <<given, live, deps, count, unloads, active, locals, failed>>

\* The record of m is taken out of the ring: it is the only one, the head
\* (the one before it is looked for), or another.
Unlink(m) ==
    /\ At(m, "search")
    /\ Owner(cur[m]) = m
    /\ LET c == cur[m]  t == On(c) IN
          \/ /\ c = inc[t] /\ incNext[c] = c
             /\ inc' = [inc EXCEPT ![t] = Null] /\ UNCHANGED incNext
          \/ /\ c = inc[t] /\ incNext[c] # c
             /\ inc' = [inc EXCEPT ![t] = incNext[c]]
             /\ \E before \in Ring(t) :
                   /\ incNext[before] = c
                   /\ incNext' = [incNext EXCEPT ![before] = incNext[c]]
          \/ /\ c # inc[t]
             /\ incNext' = [incNext EXCEPT ![last[m]] = incNext[c]]
             /\ UNCHANGED inc
    /\ GoTo(m, "unlinked")
    /\ UNCHANGED <<given, live, deps, count, unloads, active, locals, failed>>

\* The record is freed and the next one is looked up: called when entry has
\* moved on.
Free(m, next) ==
    /\ live' = live \ {deps[m]}
    /\ deps' = [deps EXCEPT ![m] = IF next = head[m] THEN Null ELSE next]
    /\ IF next = head[m] THEN GoTo(m, "gone") /\ active' = Tail(active)
                         ELSE GoTo(m, "find") /\ UNCHANGED active

\* A plausible bug of Release: on Windows 8 nothing is ever unloaded.
Release_Keeps(m) ==
    /\ At(m, "unlinked")
    /\ entry' = [entry EXCEPT ![m] = depNext[@]]
    /\ \/ /\ epoch = "win8"
          /\ count' = [count EXCEPT ![On(entry[m])] = @ - 1]
          /\ Free(m, entry'[m])
          /\ UNCHANGED unloads
       \/ /\ epoch = "win10"
          /\ unloads' = unloads \cup {entry[m]}
          /\ GoTo(m, "unloading")
          /\ UNCHANGED <<count, live, deps, active>>
    /\ UNCHANGED <<given, incNext, inc, head, cur, last, failed>>

\* A plausible bug of Release: the count of dependents is left alone.
Release_NoCount(m) ==
    /\ At(m, "unlinked")
    /\ entry' = [entry EXCEPT ![m] = depNext[@]]
    /\ unloads' = unloads \cup {entry[m]}
    /\ GoTo(m, "unloading")
    /\ UNCHANGED <<given, live, deps, incNext, inc, active, count, head, cur, last, failed>>

\* What the record kept loaded is released.  From 10.0 on each record holds
\* a reference of its own.  On 6.2 and 6.3 the dependents are counted, and
\* the last one unloads the module if nobody loaded it by name; a count that
\* is 0 already ends the process.
Release(m) ==
    /\ At(m, "unlinked")
    /\ entry' = [entry EXCEPT ![m] = depNext[@]]
    /\ LET t == On(entry[m]) IN
          \/ /\ epoch = "win8"
             /\ failed' = IF count[t] = 0 THEN "count" ELSE "none"
             /\ count' = [count EXCEPT ![t] = IF @ = 0 THEN 0 ELSE @ - 1]
             /\ \/ /\ t \in pinned \/ count'[t] > 0
                   /\ Free(m, entry'[m])
                   /\ UNCHANGED unloads
                \/ /\ t \notin pinned /\ count'[t] = 0
                   /\ unloads' = unloads \cup {entry[m]}
                   /\ GoTo(m, "unloading")
                   /\ UNCHANGED <<live, deps, active>>
          \/ /\ epoch = "win10"
             /\ unloads' = unloads \cup {entry[m]}
             /\ GoTo(m, "unloading")
             /\ UNCHANGED <<count, live, deps, active, failed>>
    /\ UNCHANGED <<given, incNext, inc, head, cur, last>>

\* Plausible bugs of UnloadReturns: the record that comes next is freed; the
\* end of the list is not noticed.
UnloadReturns_FreesNext(m) ==
    /\ At(m, "unloading")
    /\ live' = live \ {entry[m]}
    /\ deps' = [deps EXCEPT ![m] = IF entry[m] = head[m] THEN Null ELSE entry[m]]
    /\ IF entry[m] = head[m] THEN GoTo(m, "gone") /\ active' = Tail(active)
                             ELSE GoTo(m, "find") /\ UNCHANGED active
    /\ UNCHANGED <<given, incNext, inc, count, unloads, locals, failed>>

UnloadReturns_NoEnd(m) ==
    /\ At(m, "unloading")
    /\ live' = live \ {deps[m]}
    /\ deps' = [deps EXCEPT ![m] = entry[m]]
    /\ GoTo(m, "find")
    /\ UNCHANGED <<given, incNext, inc, count, unloads, active, locals, failed>>

\* LdrUnloadDll comes back.
UnloadReturns(m) ==
    /\ At(m, "unloading")
    /\ Free(m, entry[m])
    /\ UNCHANGED <<given, incNext, inc, count, unloads, locals, failed>>

\* Meanwhile the Windows loader may give up the dependencies of a target on
\* which nothing depends any more; on Windows 8 it unloads what loses its last
\* dependent with that.
TargetGoes(t) ==
    /\ failed = "none"
    /\ active # <<>> /\ pc[Head(active)] = "unloading"
    /\ t \notin pinned /\ inc[t] = Null
    /\ Records(t) # {}
    /\ LET gone == Records(t) IN
          /\ live' = live \ gone
          /\ incNext' = [r \in Edges |-> IF incNext[r] \in gone THEN incNext[incNext[r]]
                                                                ELSE incNext[r]]
          /\ inc' = [u \in Target |-> IF inc[u] \notin gone THEN inc[u]
                                      ELSE IF incNext[inc[u]] = inc[u] THEN Null
                                      ELSE incNext[inc[u]]]
          /\ count' = [u \in Target |-> count[u] - Cardinality({r \in gone : On(r) = u})]
          /\ unloads' = unloads \cup
                {r \in gone : epoch = "win8" /\ On(r) \notin pinned /\ count'[On(r)] = 0}
    /\ UNCHANGED <<given, deps, active, pc, locals, failed>>

Step(m) == Find(m) \/ Search(m) \/ Unlink(m) \/ Release(m) \/ UnloadReturns(m)

Next == (\E m \in Module : Call(m) \/ Step(m)) \/ \E t \in Target : TargetGoes(t)

Spec == Init /\ [][Next]_vars

\* The code runs on, and LdrUnloadDll returns.
FairSpec == Spec /\ \A m \in Module : WF_vars(Step(m))

-------------------------------------------------------------------------------
(* Safety *)

\* Every variable has its type.
TypeOK ==
    LET Pointer == Edges \cup {Null} IN
    /\ epoch \in Epochs
    /\ live \subseteq Edges /\ unloads \subseteq Edges /\ pinned \subseteq Target
    /\ shared \subseteq Target
    /\ depNext \in [Edges -> Pointer] /\ incNext \in [Edges -> Pointer]
    /\ deps \in [Module -> Pointer] /\ inc \in [Target -> Pointer]
    /\ count \in [Target -> Int]
    /\ active \in Seq(Module)
    /\ pc \in [Module -> {"loaded", "find", "search", "unlinked", "unloading", "gone"}]
    /\ entry \in [Module -> Pointer] /\ head \in [Module -> Pointer]
    /\ cur \in [Module -> Pointer] /\ last \in [Module -> Pointer]
    /\ failed \in {"none", "node", "ring", "lock", "count"}

\* The records that wait between Unlink and Free.
Unlinked == {deps[m] : m \in {x \in Module : pc[x] \in {"unlinked", "unloading"}}}

\* The dependents that a ring has to hold, and those that count.
Waiting(t) == Dependents(t) \ Unlinked
Counted(t) == Dependents(t) \ {deps[m] : m \in {x \in Module : pc[x] = "unloading"}}

\* The ring of a module holds the records of its dependents, all of them and
\* no freed one, and closes: whatever was unlinked, in whatever order.
RingsAreWhole ==
    \A t \in Target : IsRing(incNext, Waiting(t)) /\ Enters(inc[t], Waiting(t))

\* A dependency is given up for good: when a module is gone no record of it
\* is left, and what is left of the others is what their list leads to.
DependenciesGiven ==
    \A m \in Module :
        /\ pc[m] = "gone" => Records(m) = {}
        /\ pc[m] = "find" => entry[m] = deps[m] /\ deps[m] \in live

\* The count of dependents that Windows 8 keeps says how many there are.
CountsAreRight ==
    epoch = "win8" => \A t \in Target : count[t] = Cardinality(Counted(t))

\* What depended on t when the program started.
Had(t) == {r \in Edges : On(r) = t /\ incNext[r] # Null}

\* References are returned, once each.  From 10.0 on: for every record that is
\* freed, and for no other.  On Windows 8: once for every module that nobody
\* loaded by name, with the last of its dependents and not before.
ReferencesReturned ==
    /\ epoch = "win10" =>
          \A r \in Edges : Owner(r) \in Module =>
              (r \in unloads <=> \/ r \notin live /\ depNext[r] # Null
                                 \/ pc[Owner(r)] = "unloading" /\ deps[Owner(r)] = r)
    /\ epoch = "win8" =>
          \A t \in Target :
              LET its == {r \in unloads : On(r) = t} IN
              /\ its # {} <=> t \notin pinned /\ Had(t) # {} /\ Counted(t) = {}
              /\ \A r, s \in its : r = s

\* The process is ended only for a node that holds several modules, or when the
\* lock is refused: never because a ring that this code keeps is empty or a
\* count is 0 too early.
OwnListsPass == failed \notin {"ring", "count"}

-------------------------------------------------------------------------------
(* Liveness *)

\* Every search ends and every module is destroyed, if the process goes on.
DestroyEnds == \A m \in Module : pc[m] = "find" ~> (pc[m] = "gone" \/ failed # "none")
===============================================================================
