------------------------------- MODULE CallOnce -------------------------------
(***************************************************************************)
(* call_once_context of win-polyfill-core/once.h: run a function once for  *)
(* one flag, whatever the number of threads that ask for it.               *)
(***************************************************************************)
EXTENDS Naturals

CONSTANTS Thread,     \* the threads that share the flag
          Func,       \* the functions they pass
          NullFunc    \* a null function pointer: accepted, and not called

ASSUME CallOnceAssumption == NullFunc \notin Func

OnceInit     == 0
OnceLoading  == 1
OnceFinished == 2

VARIABLES
    flag,      \* *flag
    pc,        \* where each thread is; "returned" after its latest call
    func,      \* the argument of each thread's call
    started,   \* history: how many times a function was entered
    finished   \* history: how many times a function returned

vars == <<flag, pc, func, started, finished>>

Init == /\ flag = OnceInit
        /\ pc = [t \in Thread |-> "idle"]
        /\ func = [t \in Thread |-> NullFunc]
        /\ started = 0
        /\ finished = 0

CanCall(t) == pc[t] \in {"idle", "returned"}

\* A plausible bug of Call: the flag is read, not exchanged.
Call_ReadOnly(t, f) ==
    /\ CanCall(t)
    /\ func' = [func EXCEPT ![t] = f]
    /\ flag' = flag
    /\ pc' = [pc EXCEPT ![t] = CASE flag = OnceInit    -> "entering"
                                 [] flag = OnceLoading -> "spinning"
                                 [] OTHER              -> "returned"]
    /\ UNCHANGED <<started, finished>>

\* The compare-exchange of OnceInit for OnceLoading and the switch on what
\* it found.
Call(t, f) ==
    /\ CanCall(t)
    /\ func' = [func EXCEPT ![t] = f]
    /\ flag' = IF flag = OnceInit THEN OnceLoading ELSE flag
    /\ pc' = [pc EXCEPT ![t] = CASE flag = OnceInit    -> "entering"
                                 [] flag = OnceLoading -> "spinning"
                                 [] OTHER              -> "returned"]
    /\ UNCHANGED <<started, finished>>

\* The winner enters the function, or skips a null one.
Enter(t) ==
    /\ pc[t] = "entering"
    /\ \/ /\ func[t] # NullFunc
          /\ started' = started + 1
          /\ pc' = [pc EXCEPT ![t] = "running"]
       \/ /\ func[t] = NullFunc
          /\ started' = started
          /\ pc' = [pc EXCEPT ![t] = "finishing"]
    /\ UNCHANGED <<flag, func, finished>>

FuncReturns(t) ==
    /\ pc[t] = "running"
    /\ finished' = finished + 1
    /\ pc' = [pc EXCEPT ![t] = "finishing"]
    /\ UNCHANGED <<flag, func, started>>

\* The function calls call_once_context for the same flag, finds OnceLoading, and
\* goes into the busy loop.
Reenter(t) ==
    /\ pc[t] = "running"
    /\ pc' = [pc EXCEPT ![t] = "reentered"]
    /\ UNCHANGED <<flag, func, started, finished>>

\* A plausible bug of Finish: the flag is not published.
Finish_NoStore(t) ==
    /\ pc[t] = "finishing"
    /\ pc' = [pc EXCEPT ![t] = "returned"]
    /\ UNCHANGED <<flag, func, started, finished>>

\* The exchange of OnceFinished into the flag.
Finish(t) ==
    /\ pc[t] = "finishing"
    /\ flag' = OnceFinished
    /\ pc' = [pc EXCEPT ![t] = "returned"]
    /\ UNCHANGED <<func, started, finished>>

\* A plausible bug of Spin: the loop ends after one turn.
Spin_Once(t) ==
    /\ pc[t] = "spinning"
    /\ pc' = [pc EXCEPT ![t] = "returned"]
    /\ UNCHANGED <<flag, func, started, finished>>

\* The busy loop is left when the flag is no longer OnceLoading.
Spin(t) ==
    /\ pc[t] \in {"spinning", "reentered"}
    /\ flag # OnceLoading
    /\ pc' = [pc EXCEPT ![t] = IF @ = "spinning" THEN "returned" ELSE "running"]
    /\ UNCHANGED <<flag, func, started, finished>>

Step(t) == Enter(t) \/ FuncReturns(t) \/ Finish(t) \/ Spin(t)

Next == \E t \in Thread : \/ Step(t) \/ Reenter(t)
                          \/ \E f \in Func \cup {NullFunc} : Call(t, f)

Spec == Init /\ [][Next]_vars

\* Threads are scheduled and the function returns; nobody is forced to call.
FairSpec == Spec /\ \A t \in Thread : WF_vars(Step(t))

-------------------------------------------------------------------------------

\* Every variable has its type.
TypeOK ==
    /\ flag \in {OnceInit, OnceLoading, OnceFinished}
    /\ pc \in [Thread -> {"idle", "entering", "running", "reentered", "finishing",
                         "spinning", "returned"}]
    /\ func \in [Thread -> Func \cup {NullFunc}]
    /\ started \in Nat /\ finished \in Nat

\* The function is entered at most once, by whichever thread comes first.
RunsOnce == started <= 1

\* No call comes back while the function is running or before the flag is
\* published: whoever returns sees everything the function did.
ReturnedAfterRun ==
    \A t \in Thread :
        pc[t] = "returned" => flag = OnceFinished /\ finished = started

\* Every call returns, the winner having published the flag, unless the function
\* has called call_once_context for its own flag.
EveryCallReturns ==
    \A t \in Thread :
        pc[t] # "idle" ~> \/ pc[t] = "returned"
                         \/ \E u \in Thread : pc[u] = "reentered"
===============================================================================
