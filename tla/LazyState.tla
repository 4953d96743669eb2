------------------------------- MODULE LazyState -------------------------------
(***************************************************************************)
(* The lazily created state of win-polyfill-core: PebStateGet, TebStateGet *)
(* and wp_printf.  Each keeps its state in an OnceContext word (module     *)
(* Once); the alloc_func of the two words that all threads share calls the *)
(* Windows loader, which takes the loader lock, while the word says        *)
(* Ongoing and the other threads spin.                                     *)
(*                                                                         *)
(* The loader lock and the init routines (DllMain) that run under it are   *)
(* the operating system's.  The lock may be taken again by its owner.  An  *)
(* init routine may also run inside a call: LdrLoadDll, on behalf of the   *)
(* PEB word, initialises what it loads on the thread that called it.  So a *)
(* thread is at two levels, "outer" and "inner"; the inner one is in use   *)
(* while the outer call is in LdrLoadDll.                                  *)
(***************************************************************************)
EXTENDS Naturals

CONSTANTS Thread,       \* the threads of the process
          NoThread,     \* the owner of a free loader lock
          DllMainUses   \* TRUE: init routines use the lazily created state too

ASSUME LazyAssumption == NoThread \notin Thread /\ DllMainUses \in BOOLEAN

\* The words that the threads share: __win_polyfill_peb_state_alloc fills the
\* first, WriteFileAlloc the second.
Shared == {"peb", "write"}

Level == {"outer", "inner"}

\* Where a call can be; "load" to "looking" and "store" are inside alloc_func.
Places == {"idle", "begin", "load", "loading", "proc", "looking", "store", "wait", "write"}

VARIABLES
    word,    \* the shared words: "empty", "ongoing", "full", "failed"
    teb,     \* the word in each thread's TEB, which only that thread uses
    pc,      \* where each thread is at each level; "idle" outside the calls
    on,      \* the shared word of the call
    got,     \* what alloc_func has come to; "failed" outside of it
    result,  \* what the latest access of a thread to a shared word returned
    lock,    \* the owner of the loader lock
    depth,   \* how often the owner has taken it
    inInit   \* the threads that run an init routine, with the level

vars == <<word, teb, pc, on, got, result, lock, depth, inInit>>
lockVars == <<lock, depth, inInit>>

Init == /\ word = [s \in Shared |-> "empty"]
        /\ teb = [t \in Thread |-> "empty"]
        /\ pc = [t \in Thread |-> [l \in Level |-> "idle"]]
        /\ on = [t \in Thread |-> [l \in Level |-> "peb"]]
        /\ got = [t \in Thread |-> [l \in Level |-> "failed"]]
        /\ result = [s \in Shared |-> [t \in Thread |-> "null"]]
        /\ lock = NoThread /\ depth = 0
        /\ inInit = {}

\* The inner level is what runs while an init routine runs there.
Runs(t, l) == l = IF <<t, "inner">> \in inInit THEN "inner" ELSE "outer"

At(t, l, p)   == Runs(t, l) /\ pc[t][l] = p
GoTo(t, l, p) == pc' = [pc EXCEPT ![t][l] = p]

-------------------------------------------------------------------------------
(* The loader lock *)

\* A loader function takes the lock and, later, gives it back.
Acquire(t) == /\ lock \in {NoThread, t}
              /\ lock' = t /\ depth' = depth + 1
              /\ UNCHANGED inInit

Release == /\ depth' = depth - 1
           /\ lock' = IF depth = 1 THEN NoThread ELSE lock
           /\ UNCHANGED inInit

\* Some module is loaded or unloaded, by code outside of this model or by the
\* LdrLoadDll of the PEB word: its init routine runs under the lock.
EnterInit(t, l) ==
    /\ <<t, l>> \notin inInit
    /\ IF l = "outer" THEN At(t, "outer", "idle")
                      ELSE At(t, "outer", "loading") /\ on[t]["outer"] = "peb"
    /\ lock \in {NoThread, t}
    /\ lock' = t /\ depth' = depth + 1
    /\ inInit' = inInit \cup {<<t, l>>}
    /\ UNCHANGED <<word, teb, pc, on, got, result>>

LeaveInit(t, l) ==
    /\ <<t, l>> \in inInit /\ At(t, l, "idle")
    /\ depth' = depth - 1
    /\ lock' = IF depth = 1 THEN NoThread ELSE lock
    /\ inInit' = inInit \ {<<t, l>>}
    /\ UNCHANGED <<word, teb, pc, on, got, result>>

-------------------------------------------------------------------------------
(* The calls *)

MayCall(t, l) == At(t, l, "idle") /\ (<<t, l>> \in inInit => DllMainUses)

\* PebStateGet.
PebStateGet(t, l) ==
    /\ MayCall(t, l)
    /\ on' = [on EXCEPT ![t][l] = "peb"]
    /\ GoTo(t, l, "begin")
    /\ UNCHANGED <<word, teb, got, result, lockVars>>

\* TebStateGet(teb, WinPolyfillTebStateAlloc): no other thread uses this word,
\* so the call is one step; a failed allocation is kept for good.
TebStateGet(t) ==
    \/ teb[t] = "empty" /\ \E r \in {"full", "failed"} : teb' = [teb EXCEPT ![t] = r]
    \/ teb[t] # "empty" /\ UNCHANGED teb

\* wp_printf looks at the state of its thread first.
wp_printf(t, l) ==
    /\ MayCall(t, l)
    /\ TebStateGet(t)
    /\ on' = [on EXCEPT ![t][l] = "write"]
    /\ GoTo(t, l, "begin")
    /\ UNCHANGED <<word, got, result, lockVars>>

\* A call to Alloc comes back; wp_printf goes on if it has what it needs.
Return(t, l, w) ==
    /\ got' = [got EXCEPT ![t][l] = "failed"]
    /\ result' = [result EXCEPT ![on[t][l]][t] = IF w = "full" THEN "state" ELSE "null"]
    /\ GoTo(t, l, IF on[t][l] = "write" /\ w = "full" /\ teb[t] = "full" THEN "write" ELSE "idle")

\* A plausible bug of Begin: the word is read, not exchanged.
Begin_ReadOnly(t, l) ==
    /\ At(t, l, "begin")
    /\ \/ word[on[t][l]] \in {"empty", "ongoing"}
          /\ word' = [word EXCEPT ![on[t][l]] = "ongoing"]
          /\ GoTo(t, l, "load")
          /\ UNCHANGED <<result, got>>
       \/ word[on[t][l]] \in {"full", "failed"} /\ UNCHANGED word /\ Return(t, l, word[on[t][l]])
    /\ UNCHANGED <<teb, on, lockVars>>

\* The first access to the shared word, see Begin of module Once.
Begin(t, l) ==
    /\ At(t, l, "begin")
    /\ \/ /\ word[on[t][l]] = "empty"
          /\ word' = [word EXCEPT ![on[t][l]] = "ongoing"]
          /\ GoTo(t, l, "load")
          /\ UNCHANGED <<result, got>>
       \/ /\ word[on[t][l]] = "ongoing"
          /\ GoTo(t, l, "wait")
          /\ UNCHANGED <<word, result, got>>
       \/ /\ word[on[t][l]] \in {"full", "failed"}
          /\ Return(t, l, word[on[t][l]])
          /\ UNCHANGED word
    /\ UNCHANGED <<teb, on, lockVars>>

\* alloc_func calls LdrLoadDll (LdrGetDllHandle for the word of wp_printf),
\* then LdrGetProcedureAddress.
LoaderCall(t, l) ==
    /\ \/ At(t, l, "load") /\ GoTo(t, l, "loading")
       \/ At(t, l, "proc") /\ GoTo(t, l, "looking")
    /\ Acquire(t)
    /\ UNCHANGED <<word, teb, on, got, result>>

\* A plausible bug of Loaded: alloc_func takes the lock itself, and its early
\* return does not give it back.
Loaded_KeepsLock(t, l) ==
    /\ At(t, l, "loading")
    /\ \/ GoTo(t, l, "proc") /\ UNCHANGED got /\ Release
       \/ GoTo(t, l, "store") /\ got' = [got EXCEPT ![t][l] = "failed"] /\ UNCHANGED lockVars
    /\ UNCHANGED <<word, teb, on, result>>

\* The module was loaded, or alloc_func returns nullptr.
Loaded(t, l) ==
    /\ At(t, l, "loading")
    /\ \/ GoTo(t, l, "proc") /\ UNCHANGED got
       \/ GoTo(t, l, "store") /\ got' = [got EXCEPT ![t][l] = "failed"]
    /\ Release
    /\ UNCHANGED <<word, teb, on, result>>

\* The procedure was found and alloc_func returns it, or what it returns.
Looked(t, l) ==
    /\ At(t, l, "looking")
    /\ \E r \in {"full", "failed"} : got' = [got EXCEPT ![t][l] = r]
    /\ GoTo(t, l, "store")
    /\ Release
    /\ UNCHANGED <<word, teb, on, result>>

\* A plausible bug of StoreWord: a failure is not stored.
StoreWord_FailureForgotten(t, l) ==
    /\ At(t, l, "store")
    /\ word' = [word EXCEPT ![on[t][l]] = IF got[t][l] = "full" THEN "full" ELSE @]
    /\ Return(t, l, got[t][l])
    /\ UNCHANGED <<teb, on, lockVars>>

\* The result is published, see StoreCas of module Once.
StoreWord(t, l) ==
    /\ At(t, l, "store")
    /\ word' = [word EXCEPT ![on[t][l]] = got[t][l]]
    /\ Return(t, l, got[t][l])
    /\ UNCHANGED <<teb, on, lockVars>>

\* The busy loop is left, see Wait of module Once.
Wait(t, l) ==
    /\ At(t, l, "wait")
    /\ word[on[t][l]] # "ongoing"
    /\ Return(t, l, word[on[t][l]])
    /\ UNCHANGED <<word, teb, on, lockVars>>

\* wp_printf formats into the thread's own buffer, writes it, and clears it.
Write(t, l) ==
    /\ At(t, l, "write")
    /\ GoTo(t, l, "idle")
    /\ UNCHANGED <<word, teb, on, got, result, lockVars>>

Call(t, l) == PebStateGet(t, l) \/ wp_printf(t, l)
Work(t, l) == \/ Begin(t, l) \/ Loaded(t, l) \/ Looked(t, l) \/ StoreWord(t, l)
              \/ Wait(t, l) \/ Write(t, l)

Next == \E t \in Thread, l \in Level :
            \/ EnterInit(t, l) \/ LeaveInit(t, l)
            \/ Call(t, l) \/ Work(t, l) \/ LoaderCall(t, l)

Spec == Init /\ [][Next]_vars

\* Threads are scheduled, an init routine ends whatever it calls, a thread that
\* asks for the lock gets it if it is free again and again, and LdrLoadDll
\* initialises finitely many modules.
Fairness == \A t \in Thread :
                /\ WF_vars(\E l \in Level : Work(t, l))
                /\ SF_vars(\E l \in Level : LeaveInit(t, l))
                /\ SF_vars(\E l \in Level : LoaderCall(t, l) \/ Loaded(t, l))
FairSpec == Spec /\ Fairness

-------------------------------------------------------------------------------
(* Type correctness *)

\* Every variable has its type.
TypeOK ==
    /\ word \in [Shared -> {"empty", "ongoing", "full", "failed"}]
    /\ teb \in [Thread -> {"empty", "full", "failed"}]
    /\ pc \in [Thread -> [Level -> Places]]
    /\ on \in [Thread -> [Level -> Shared]]
    /\ got \in [Thread -> [Level -> {"full", "failed"}]]
    /\ result \in [Shared -> [Thread -> {"null", "state"}]]
    /\ lock \in Thread \cup {NoThread}
    /\ depth \in Nat
    /\ inInit \subseteq Thread \X Level

-------------------------------------------------------------------------------
(* Safety *)

Allocates(t, l, s) ==
    on[t][l] = s /\ pc[t][l] \in {"load", "loading", "proc", "looking", "store"}

\* A shared word says Ongoing exactly while one call allocates for it, whatever
\* other calls run around it or, in the same thread, inside it.
OneAllocator ==
    \A s \in Shared :
        /\ (word[s] = "ongoing") <=> (\E t \in Thread, l \in Level : Allocates(t, l, s))
        /\ \A t, u \in Thread, l, k \in Level :
              Allocates(t, l, s) /\ Allocates(u, k, s) => t = u /\ l = k

\* u spins on a word that t fills.
Spins(u, l, t) == pc[u][l] = "wait" /\ \E k \in Level : Allocates(t, k, on[u][l])

\* t, on which u spins, waits for the loader lock that u holds, or is u itself:
\* the init routine that runs inside its LdrLoadDll asks for the same state.
Deadlock(t, u) ==
    /\ \E l \in Level : Spins(u, l, t)
    /\ \/ t = u
       \/ lock = u /\ \E l \in Level : At(t, l, "load") \/ At(t, l, "proc")

Deadlocked == \E t, u \in Thread : Deadlock(t, u)

\* If init routines leave the lazily created state alone, no thread ever waits
\* for itself, and no two wait for each other.
NoDeadlock == ~DllMainUses => ~Deadlocked

\* Otherwise they may, but only then: the call that spins was made by an init
\* routine.
DeadlockNeedsInit ==
    \A t, u \in Thread : Deadlock(t, u) =>
        \E l \in Level : <<u, l>> \in inInit /\ Spins(u, l, t)

-------------------------------------------------------------------------------
(* Liveness *)

\* Every call returns, unless a thread comes to wait for itself or two come to
\* wait for each other.
CallsReturn ==
    \A t \in Thread, l \in Level : pc[t][l] # "idle" ~> pc[t][l] = "idle" \/ Deadlocked

-------------------------------------------------------------------------------
(* Refinement *)

CellOf(w) ==
    CASE w \in {"empty", "ongoing"} -> [state |-> "empty",  value |-> "null"]
      [] w = "full"                 -> [state |-> "full",   value |-> "state"]
      [] OTHER                      -> [state |-> "failed", value |-> "null"]

PebCell   == INSTANCE OnceCell WITH Value <- {"state"}, Null <- "null", released <- 0,
                 cell <- CellOf(word["peb"]), result <- result["peb"]
WriteCell == INSTANCE OnceCell WITH Value <- {"state"}, Null <- "null", released <- 0,
                 cell <- CellOf(word["write"]), result <- result["write"]

\* To its callers each shared word is an atomic cell, settled once for all.
ImplementsCells == PebCell!Spec /\ WriteCell!Spec
===============================================================================
