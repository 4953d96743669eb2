--------------------------------- MODULE Once ---------------------------------
(***************************************************************************)
(* OnceContext<T, C>::Alloc of win-polyfill-core/once.h: the lock-free     *)
(* word that publishes one lazily allocated pointer or handle.  PEB state, *)
(* TEB state and the WriteFile pointer of log.h are such words.            *)
(*                                                                         *)
(* The word is a machine integer.  Its three greatest values and 0 are     *)
(* states of the protocol, everything between is a published value.  Every *)
(* access to the word is an action of its own; what a thread computes      *)
(* after its last access to the word belongs to that access.               *)
(***************************************************************************)
EXTENDS Naturals

CONSTANTS Thread,        \* the threads that call Alloc on the word
          UintptrMax,    \* UINTPTR_MAX
          AllocResult,   \* what alloc_func may return; 0 and UINTPTR_MAX
                         \* (INVALID_HANDLE_VALUE) among them
          FreeAnytime    \* TRUE: ForFree calls may come at any time;
                         \* FALSE: never while an allocation is in flight

AllocInit    == 0
AllocFreed   == UintptrMax - 2
AllocOngoing == UintptrMax - 1
AllocFailed  == UintptrMax

\* The words that are values: what Alloc may return.
Address == {w \in AllocResult : AllocInit < w /\ w < AllocFreed}
Word    == Address \cup {AllocInit, AllocFreed, AllocOngoing, AllocFailed}

\* An alloc_func may return anything except the two sentinels between the
\* values and UINTPTR_MAX.
ASSUME OnceAssumption ==
    /\ UintptrMax \in Nat /\ UintptrMax > 3
    /\ AllocResult \subseteq 0 .. UintptrMax
    /\ AllocFreed \notin AllocResult
    /\ AllocOngoing \notin AllocResult
    /\ FreeAnytime \in BOOLEAN

VARIABLES
    word,       \* *ptr
    pc,         \* where each thread is in Alloc; "idle" outside
    mode,       \* "alloc" or "free": the alloc_func argument of the call
    allocated,  \* the local variable of that name
    result,     \* what each thread's last call returned (nullptr is 0)
    released,   \* history: how many ForFree calls returned a value
    obtained    \* history: the values alloc_func has returned

vars == <<word, pc, mode, allocated, result, released, obtained>>

\* Mutated forms.  The operators whose names end in an underscore and a word
\* are plausible bugs of the definition they are named after.  No action uses
\* them: they show that the properties can fail.

\* The return value of Alloc: sentinels become nullptr.
ReturnOf(w) == IF w >= AllocFreed THEN 0 ELSE w

Return(t, w) ==
    /\ pc' = [pc EXCEPT ![t] = "idle"]
    /\ result' = [result EXCEPT ![t] = ReturnOf(w)]
    /\ released' = IF mode'[t] = "free" /\ ReturnOf(w) # 0
                      THEN released + 1 ELSE released

\* Once.h leaves the order of ForFree and of a first allocation to its
\* callers; the orderly ones free only when no alloc_func call is in flight.
InFlight(t) == mode[t] = "alloc" /\ pc[t] \in {"allocating", "storing"}
FreeAllowed == FreeAnytime \/ \A t \in Thread : ~InFlight(t)

Init == /\ word = AllocInit
        /\ pc = [t \in Thread |-> "idle"]
        /\ mode = [t \in Thread |-> "alloc"]
        /\ allocated = [t \in Thread |-> AllocInit]
        /\ result = [t \in Thread |-> 0]
        /\ released = 0
        /\ obtained = {}

\* ForGet: one read of the word, whatever state it is in.
Get(t) ==
    /\ pc[t] = "idle"
    /\ mode' = [mode EXCEPT ![t] = "alloc"]
    /\ Return(t, word)
    /\ UNCHANGED <<word, allocated, obtained>>

Begin_NoOwner(t, m) ==
    /\ pc[t] = "idle"
    /\ m = "alloc" /\ word \in {AllocInit, AllocOngoing}
    /\ word' = AllocOngoing
    /\ mode' = [mode EXCEPT ![t] = m]
    /\ pc' = [pc EXCEPT ![t] = "allocating"]
    /\ UNCHANGED <<allocated, result, released, obtained>>

\* The first access of the other calls: compare-exchange of AllocInit for
\* AllocOngoing, and the switch on the value found.
Begin(t, m) ==
    /\ pc[t] = "idle"
    /\ m = "free" => FreeAllowed
    /\ mode' = [mode EXCEPT ![t] = m]
    /\ \/ /\ word = AllocInit
          /\ word' = AllocOngoing
          /\ pc' = [pc EXCEPT ![t] = IF m = "free" THEN "storing" ELSE "allocating"]
          /\ allocated' = [allocated EXCEPT ![t] = IF m = "free" THEN AllocFreed ELSE AllocInit]
          /\ UNCHANGED <<result, released>>
       \/ /\ word = AllocOngoing
          /\ pc' = [pc EXCEPT ![t] = "waiting"]
          /\ UNCHANGED <<word, allocated, result, released>>
       \/ /\ word \notin {AllocInit, AllocOngoing}
          /\ m = "free" /\ word < AllocFreed
          /\ pc' = [pc EXCEPT ![t] = "freeing"]
          /\ allocated' = [allocated EXCEPT ![t] = word]
          /\ UNCHANGED <<word, result, released>>
       \/ /\ word \notin {AllocInit, AllocOngoing}
          /\ ~(m = "free" /\ word < AllocFreed)
          /\ Return(t, word)
          /\ UNCHANGED <<word, allocated>>
    /\ UNCHANGED obtained

\* alloc_func returns: 0 stands for failure.
AllocFuncReturns(t) ==
    /\ pc[t] = "allocating"
    /\ \E r \in AllocResult :
          /\ allocated' = [allocated EXCEPT ![t] = IF r = AllocInit THEN AllocFailed ELSE r]
          /\ obtained' = obtained \cup ({r} \cap Address)
    /\ pc' = [pc EXCEPT ![t] = "storing"]
    /\ UNCHANGED <<word, mode, result, released>>

StoreCas_WrongComparand(t) ==
    /\ pc[t] = "storing"
    /\ word' = IF word = AllocInit THEN allocated[t] ELSE word
    /\ UNCHANGED <<mode, allocated, obtained>>
    /\ Return(t, allocated[t])

\* Store: compare-exchange of AllocOngoing for the allocated value.
StoreCas(t) ==
    /\ pc[t] = "storing"
    /\ word' = IF word = AllocOngoing THEN allocated[t] ELSE word
    /\ UNCHANGED <<mode, allocated, obtained>>
    /\ Return(t, allocated[t])

Wait_NoLoop(t) ==
    /\ pc[t] = "waiting"
    /\ UNCHANGED <<word, mode, allocated, obtained>>
    /\ Return(t, word)

\* The busy loop: it is left with the first value that is not AllocOngoing.
Wait(t) ==
    /\ pc[t] = "waiting"
    /\ word # AllocOngoing
    /\ UNCHANGED <<word, mode, allocated, obtained>>
    /\ Return(t, word)

FreeCas_Reset(t) ==
    /\ pc[t] = "freeing"
    /\ word' = IF word = allocated[t] THEN AllocInit ELSE word
    /\ UNCHANGED <<mode, allocated, obtained>>
    /\ Return(t, word)

FreeCas_ReturnsStale(t) ==
    /\ pc[t] = "freeing"
    /\ word' = IF word = allocated[t] THEN AllocFreed ELSE word
    /\ UNCHANGED <<mode, allocated, obtained>>
    /\ Return(t, allocated[t])

\* A ForFree call that found a value: compare-exchange of it for AllocFreed;
\* the call returns what the exchange found.
FreeCas(t) ==
    /\ pc[t] = "freeing"
    /\ word' = IF word = allocated[t] THEN AllocFreed ELSE word
    /\ UNCHANGED <<mode, allocated, obtained>>
    /\ Return(t, word)

Step(t) == AllocFuncReturns(t) \/ StoreCas(t) \/ Wait(t) \/ FreeCas(t)
Call(t) == Get(t) \/ \E m \in {"alloc", "free"} : Begin(t, m)

Next == \E t \in Thread : Call(t) \/ Step(t)

Spec == Init /\ [][Next]_vars

\* Threads are scheduled and alloc_func returns; nobody is forced to call.
Fairness == \A t \in Thread : WF_vars(Step(t))
FairSpec == Spec /\ Fairness

-------------------------------------------------------------------------------
(* Type correctness *)

\* Every variable has its type; the word is a protocol state or a value.
TypeOK ==
    /\ word \in Word
    /\ pc \in [Thread -> {"idle", "allocating", "storing", "waiting", "freeing"}]
    /\ mode \in [Thread -> {"alloc", "free"}]
    /\ allocated \in [Thread -> Address \cup {AllocInit, AllocFreed, AllocFailed}]
    /\ result \in [Thread -> Address \cup {0}]
    /\ released \in Nat
    /\ obtained \subseteq Address

-------------------------------------------------------------------------------
(* Safety *)

Owner(t) == pc[t] \in {"allocating", "storing"}

\* The word says Ongoing exactly while one thread owns it (it won the first
\* compare-exchange and has not stored): no word is left Ongoing without an
\* owner to settle it, and no second thread runs alloc_func.
OneOwner ==
    /\ (word = AllocOngoing) <=> (\E t \in Thread : Owner(t))
    /\ \A t, u \in Thread : Owner(t) /\ Owner(u) => t = u

\* No protocol state ever escapes to a caller, and all the calls of all the
\* threads that return a value return the one that alloc_func produced.
Agreement ==
    /\ \A t \in Thread : result[t] \in {0} \cup obtained
    /\ \A v, w \in obtained : v = w

\* What alloc_func produced is never lost: it is on its way into the word, in
\* the word, or was handed to a ForFree call that can release it.
NoLeak ==
    obtained # {} =>
        \/ \E t \in Thread : pc[t] = "storing" /\ allocated[t] \in obtained
        \/ word \in obtained
        \/ released > 0

\* The value is handed out to be released by one call only: the comment in
\* the ForFree branch says "this is for not freed twice".
FreedAtMostOnce == released <= 1

\* The word only moves forward, Init, Ongoing, settled, Freed, and a settled
\* word changes only to Freed.
Rank(w) == CASE w = AllocInit    -> 0
             [] w = AllocOngoing -> 1
             [] w = AllocFreed   -> 3
             [] OTHER            -> 2
WordForward == [][word' # word => Rank(word') > Rank(word)]_vars

\* A call that had to allocate or to wait comes back empty-handed only when
\* the allocation failed or the value was freed: a waiter does not give up.
EmptyOnlyIfLost ==
    [][\A t \in Thread :
          pc[t] # "idle" /\ pc'[t] = "idle" /\ mode[t] = "alloc" /\ result'[t] = 0
             => word' \in {AllocFailed, AllocFreed}]_vars

-------------------------------------------------------------------------------
(* Liveness *)

\* Every call returns: the busy loop of a waiting thread ends.
EveryCallReturns == \A t \in Thread : pc[t] # "idle" ~> pc[t] = "idle"

-------------------------------------------------------------------------------
(* Refinement *)

CellOf(w) ==
    CASE w \in {AllocInit, AllocOngoing} -> [state |-> "empty",  value |-> 0]
      [] w = AllocFailed                 -> [state |-> "failed", value |-> 0]
      [] w = AllocFreed                  -> [state |-> "freed",  value |-> 0]
      [] OTHER                           -> [state |-> "full",   value |-> w]

Cell == INSTANCE OnceCell WITH Value <- Address, Null <- 0, cell <- CellOf(word)

\* With orderly ForFree calls the lock-free word is the atomic cell.
ImplementsCell == Cell!Spec
===============================================================================
