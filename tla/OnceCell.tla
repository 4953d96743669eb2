------------------------------- MODULE OnceCell -------------------------------
(***************************************************************************)
(* What OnceContext of once.h promises its callers, with the protocol left *)
(* out: one cell per object that is settled at most once (to a value, or   *)
(* to "failed" when the allocator fails) and released at most once.  Every *)
(* call is one atomic step.  Module Once is shown to implement this one.   *)
(***************************************************************************)
EXTENDS Naturals

CONSTANTS Thread,       \* the threads that call Alloc on the object
          Value,        \* the pointers or handles an allocator may hand out
          Null          \* what a call that has no value to give returns

VARIABLES cell,         \* [state, value] of the object
          result,       \* what each thread's last call returned
          released      \* how many calls handed the value out to be released

cellVars == <<cell, result, released>>

Empty  == [state |-> "empty",  value |-> Null]
Failed == [state |-> "failed", value |-> Null]
Freed  == [state |-> "freed",  value |-> Null]
Full(v) == [state |-> "full", value |-> v]

Init == /\ cell = Empty
        /\ result = [t \in Thread |-> Null]
        /\ released = 0

\* A call answers with what the cell holds: its value, or Null.
Read(t) == /\ result' = [result EXCEPT ![t] = cell.value]
           /\ UNCHANGED <<cell, released>>

\* The one call that finds the cell empty gives it its value for good ...
Settle(t) == /\ cell = Empty
             /\ \E c \in {Full(v) : v \in Value} \cup {Failed, Freed} :
                   /\ cell' = c
                   /\ result' = [result EXCEPT ![t] = c.value]
             /\ UNCHANGED released

\* ... and the one call that releases it takes the value away for good.
Release(t) == /\ cell.state = "full"
              /\ cell' = Freed
              /\ result' = [result EXCEPT ![t] = cell.value]
              /\ released' = released + 1

Next == \E t \in Thread : Read(t) \/ Settle(t) \/ Release(t)

Spec == Init /\ [][Next]_cellVars
===============================================================================
