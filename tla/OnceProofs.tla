------------------------------ MODULE OnceProofs ------------------------------
(***************************************************************************)
(* Proofs about Once, for every set of threads, word size and allocator.   *)
(***************************************************************************)
EXTENDS Once, TLAPS

\* The protocol states and the addresses are distinct numbers.
LEMMA Sentinels ==
    /\ {AllocInit, AllocFreed, AllocOngoing, AllocFailed} \subseteq 0 .. UintptrMax
    /\ AllocInit = 0 /\ AllocInit < AllocFreed /\ AllocFreed < AllocOngoing /\ AllocOngoing < AllocFailed
    /\ \A a \in Address : a \in 1 .. UintptrMax /\ a < AllocFreed
    /\ {AllocInit, AllocFreed, AllocOngoing, AllocFailed} \cap Address = {}
  BY OnceAssumption DEF AllocInit, AllocFreed, AllocOngoing, AllocFailed, Address

\* A return value is a value of the word or nullptr.
LEMMA ReturnOfWord ==
    ASSUME NEW w \in Word
    PROVE  ReturnOf(w) = IF w \in Address THEN w ELSE 0
  BY Sentinels DEF ReturnOf, AllocInit, Word

\* Returning leaves pc, result and released in their types.
LEMMA ReturnTypes ==
    ASSUME TypeOK, NEW t \in Thread, NEW w \in Word,
           mode' \in [Thread -> {"alloc", "free"}], Return(t, w)
    PROVE  /\ pc' \in [Thread -> {"idle", "allocating", "storing", "waiting", "freeing"}]
           /\ result' \in [Thread -> Address \cup {0}]
           /\ released' \in Nat
<1>1. ReturnOf(w) \in Address \cup {0}
  BY ReturnOfWord, Sentinels, OnceAssumption DEF Word
<1> QED BY <1>1 DEF TypeOK, Return

-------------------------------------------------------------------------------
(* Type correctness *)

\* Every step leaves every variable in its type.
LEMMA TypeStep == TypeOK /\ [Next]_vars => TypeOK'
<1> SUFFICES ASSUME TypeOK, [Next]_vars PROVE TypeOK'
  OBVIOUS
<1> USE ReturnTypes DEF TypeOK, Word
<1>0. CASE UNCHANGED vars
  BY <1>0 DEF vars
<1>1. ASSUME NEW t \in Thread, Get(t) PROVE TypeOK'
  BY <1>1 DEF Get
<1>2. ASSUME NEW t \in Thread, NEW m \in {"alloc", "free"}, Begin(t, m) PROVE TypeOK'
  <2>1. CASE word = AllocInit
    BY <1>2, <2>1 DEF Begin
  <2>2. CASE word = AllocOngoing
    BY <1>2, <2>2 DEF Begin
  <2>3. CASE word \notin {AllocInit, AllocOngoing} /\ m = "free" /\ word < AllocFreed
    BY <1>2, <2>3 DEF Begin
  <2>4. CASE word \notin {AllocInit, AllocOngoing} /\ ~(m = "free" /\ word < AllocFreed)
    BY <1>2, <2>4 DEF Begin
  <2> QED BY <2>1, <2>2, <2>3, <2>4
<1>3. ASSUME NEW t \in Thread, AllocFuncReturns(t) PROVE TypeOK'
  <2> PICK r \in AllocResult :
        /\ allocated' = [allocated EXCEPT ![t] = IF r = AllocInit THEN AllocFailed ELSE r]
        /\ obtained' = obtained \cup ({r} \cap Address)
    BY <1>3 DEF AllocFuncReturns
  <2>1. r \in Address \cup {AllocInit, AllocFailed}
    BY OnceAssumption DEF Address, AllocInit, AllocFreed, AllocOngoing, AllocFailed
  <2> QED BY <1>3, <2>1 DEF AllocFuncReturns
<1>4. ASSUME NEW t \in Thread, StoreCas(t) PROVE TypeOK'
  BY <1>4 DEF StoreCas
<1>5. ASSUME NEW t \in Thread, Wait(t) PROVE TypeOK'
  BY <1>5 DEF Wait
<1>6. ASSUME NEW t \in Thread, FreeCas(t) PROVE TypeOK'
  BY <1>6 DEF FreeCas
<1> QED
  BY <1>0, <1>1, <1>2, <1>3, <1>4, <1>5, <1>6 DEF Next, Call, Step

\* Every variable keeps its type in every behaviour of the word.
THEOREM TypeCorrect == Spec => []TypeOK
<1>1. Init => TypeOK
  BY Sentinels DEF Init, TypeOK, Word, AllocInit
<1> QED BY <1>1, TypeStep, PTL DEF Spec

-------------------------------------------------------------------------------
(* The inductive invariant *)

\* What a thread in the middle of a call knows about its local value.
LocalProvenance(t) ==
    /\ pc[t] = "allocating" => mode[t] = "alloc" /\ obtained = {}
    /\ pc[t] = "storing" =>
          \/ mode[t] = "free" /\ allocated[t] = AllocFreed /\ obtained = {}
          \/ mode[t] = "alloc" /\ allocated[t] = AllocFailed /\ obtained = {}
          \/ mode[t] = "alloc" /\ allocated[t] \in obtained
    /\ pc[t] = "freeing" => /\ mode[t] = "free"
                           /\ allocated[t] \in obtained
                           /\ word \in obtained \cup {AllocFreed}

\* Where the values come from: nothing is obtained before the owner's
\* alloc_func returns, and what it returned is what everybody finds.
Provenance ==
    /\ word = AllocInit => obtained = {}
    /\ word \in Address => word \in obtained
    /\ \A t \in Thread : LocalProvenance(t)

\* With orderly callers a ForFree call waits only for another ForFree call
\* that is storing Freed, never for an allocation.
OrderlyWait ==
    \A t \in Thread :
        pc[t] = "waiting" /\ mode[t] = "free" =>
            \/ word = AllocFreed
            \/ word = AllocOngoing /\ \A u \in Thread : ~InFlight(u)

\* Once a value was handed out to be released the word says Freed: later
\* calls of any thread do not see the released value.
ReleasedIsMarked == released > 0 => word = AllocFreed

IInv == TypeOK /\ OneOwner /\ Provenance /\ Agreement /\ NoLeak

OrderlyInv == IInv /\ OrderlyWait /\ ReleasedIsMarked /\ FreedAtMostOnce

\* IInv holds before the first call.
LEMMA IInvInit == Init => IInv
  BY Sentinels DEF Init, IInv, TypeOK, Word, OneOwner, Owner, Provenance, LocalProvenance,
     Agreement, NoLeak, AllocInit

\* IInv is kept by every step: it does not depend on when ForFree is called.
LEMMA IInvStep == IInv /\ [Next]_vars => IInv'
<1> SUFFICES ASSUME IInv, [Next]_vars PROVE IInv'
  OBVIOUS
<1>0. TypeOK'
  BY TypeStep DEF IInv
<1> USE <1>0, Sentinels, ReturnOfWord
        DEF IInv, TypeOK, Word, OneOwner, Owner, Provenance, LocalProvenance, Agreement, NoLeak
<1>1. CASE UNCHANGED vars
  BY <1>1 DEF vars
<1>2. ASSUME NEW t \in Thread, Get(t) PROVE IInv'
  BY <1>2 DEF Get, Return
<1>3. ASSUME NEW t \in Thread, NEW m \in {"alloc", "free"}, Begin(t, m) PROVE IInv'
  <2>1. CASE word = AllocInit
    BY <1>3, <2>1 DEF Begin
  <2>2. CASE word = AllocOngoing
    BY <1>3, <2>2 DEF Begin
  <2>3. CASE word \notin {AllocInit, AllocOngoing} /\ m = "free" /\ word < AllocFreed
    BY <1>3, <2>3 DEF Begin
  <2>4. CASE word \notin {AllocInit, AllocOngoing} /\ ~(m = "free" /\ word < AllocFreed)
    BY <1>3, <2>4 DEF Begin, Return
  <2> QED BY <2>1, <2>2, <2>3, <2>4
<1>4. ASSUME NEW t \in Thread, AllocFuncReturns(t) PROVE IInv'
  <2> PICK r \in AllocResult :
        /\ allocated' = [allocated EXCEPT ![t] = IF r = AllocInit THEN AllocFailed ELSE r]
        /\ obtained' = obtained \cup ({r} \cap Address)
    BY <1>4 DEF AllocFuncReturns
  <2>1. r \in Address \cup {AllocInit, AllocFailed}
    BY OnceAssumption DEF Address, AllocInit, AllocFreed, AllocOngoing, AllocFailed
  <2>2. obtained = {} /\ mode[t] = "alloc" /\ word = AllocOngoing
    BY <1>4 DEF AllocFuncReturns
  <2>3. /\ obtained' = IF r \in Address THEN {r} ELSE {}
        /\ allocated'[t] = IF r = AllocInit THEN AllocFailed ELSE r
        /\ \A u \in Thread \ {t} : pc'[u] = pc[u] /\ allocated'[u] = allocated[u]
        /\ pc'[t] = "storing" /\ word' = word /\ mode' = mode /\ result' = result
    BY <1>4, <2>1, <2>2 DEF AllocFuncReturns
  <2>4. pc[t] = "allocating"
    BY <1>4 DEF AllocFuncReturns
  <2>5. OneOwner'
    BY <2>2, <2>3, <2>4
  <2>6. \A u \in Thread : pc[u] # "freeing" /\ pc[u] # "storing" /\ (pc[u] = "allocating" => u = t)
    BY <2>2, <2>4
  <2>7. word' \notin Address /\ word' # AllocInit
    BY <2>2, <2>3
  <2>8. Provenance'
    <3>1. \A u \in Thread \ {t} : pc'[u] \notin {"allocating", "storing", "freeing"}
      BY <2>6, <2>3
    <3>2. \/ mode'[t] = "alloc" /\ allocated'[t] = AllocFailed /\ obtained' = {}
          \/ mode'[t] = "alloc" /\ allocated'[t] \in obtained'
      BY <2>1, <2>2, <2>3
    <3>3. \A u \in Thread \ {t} : LocalProvenance(u)'
      BY <3>1
    <3>4. LocalProvenance(t)'
      BY <2>3, <3>2
    <3> QED BY <2>7, <3>3, <3>4
  <2>9. NoLeak'
    BY <2>1, <2>2, <2>3
  <2>10. Agreement'
    BY <2>2, <2>3
  <2> QED BY <2>5, <2>8, <2>9, <2>10
<1>5. ASSUME NEW t \in Thread, StoreCas(t) PROVE IInv'
  <2>1. pc[t] = "storing" /\ word = AllocOngoing /\ word' = allocated[t]
    BY <1>5 DEF StoreCas
  <2>2. /\ \A u \in Thread \ {t} : pc'[u] = pc[u] /\ result'[u] = result[u]
        /\ pc'[t] = "idle" /\ result'[t] = ReturnOf(allocated[t])
        /\ mode' = mode /\ allocated' = allocated /\ obtained' = obtained
    BY <1>5 DEF StoreCas, Return
  <2>3. OneOwner'
    BY <2>1, <2>2
  <2>4. Agreement'
    BY <2>1, <2>2
  <2>5. Provenance'
    <3>1. \A u \in Thread \ {t} : pc'[u] \notin {"allocating", "storing", "freeing"}
      BY <2>1, <2>2
    <3>2. word' # AllocInit /\ (word' \in Address => word' \in obtained')
      BY <2>1, <2>2
    <3>3. \A u \in Thread \ {t} : LocalProvenance(u)'
      BY <3>1
    <3>4. LocalProvenance(t)'
      BY <2>2
    <3> QED BY <3>2, <3>3, <3>4
  <2>6. NoLeak'
    BY <2>1, <2>2
  <2> QED BY <2>3, <2>4, <2>5, <2>6
<1>6. ASSUME NEW t \in Thread, Wait(t) PROVE IInv'
  BY <1>6 DEF Wait, Return
<1>7. ASSUME NEW t \in Thread, FreeCas(t) PROVE IInv'
  BY <1>7 DEF FreeCas, Return
<1> QED
  BY <1>1, <1>2, <1>3, <1>4, <1>5, <1>6, <1>7 DEF Next, Call, Step

\* At most one thread owns the word, which says Ongoing exactly as long as
\* there is an owner (the first compare-exchange and Store of Alloc).
THEOREM OneOwnerHolds == Spec => []OneOwner
<1>1. IInv => OneOwner
  BY DEF IInv
<1> QED BY <1>1, IInvInit, IInvStep, PTL DEF Spec

\* Every call of every thread that returns a value returns the same value,
\* the one alloc_func produced, and never a protocol state.
THEOREM AgreementHolds == Spec => []Agreement
<1>1. IInv => Agreement
  BY DEF IInv
<1> QED BY <1>1, IInvInit, IInvStep, PTL DEF Spec

\* What alloc_func produced is always on its way into the word, in the word,
\* or handed to a ForFree call: Alloc drops no allocation.
THEOREM NoLeakHolds == Spec => []NoLeak
<1>1. IInv => NoLeak
  BY DEF IInv
<1> QED BY <1>1, IInvInit, IInvStep, PTL DEF Spec

\* The word never goes back (every compare-exchange of Alloc moves it on).
THEOREM WordForwardHolds == Spec => WordForward
<1>1. IInv /\ [Next]_vars => [word' # word => Rank(word') > Rank(word)]_vars
  <2> SUFFICES ASSUME IInv, [Next]_vars, word' # word PROVE Rank(word') > Rank(word)
    OBVIOUS
  <2> USE Sentinels DEF IInv, TypeOK, Word, Rank
  <2>1. ASSUME NEW t \in Thread, NEW m \in {"alloc", "free"}, Begin(t, m)
        PROVE  Rank(word') > Rank(word)
    BY <2>1 DEF Begin
  <2>2. ASSUME NEW t \in Thread, StoreCas(t) PROVE Rank(word') > Rank(word)
    <3>1. word = AllocOngoing /\ word' \in Address \cup {AllocFreed, AllocFailed}
      BY <2>2 DEF StoreCas, OneOwner, Owner, Provenance, LocalProvenance
    <3> QED BY <3>1
  <2>3. ASSUME NEW t \in Thread, FreeCas(t) PROVE Rank(word') > Rank(word)
    <3>1. word \in Address /\ word' = AllocFreed
      BY <2>3 DEF FreeCas, Provenance, LocalProvenance
    <3> QED BY <3>1
  <2> QED
    BY <2>1, <2>2, <2>3 DEF Next, Call, Step, vars, Get, AllocFuncReturns, Wait
<1> QED BY <1>1, IInvInit, IInvStep, PTL DEF Spec, WordForward

\* Threads wait for a word that somebody has begun to settle.
Waiters == word = AllocInit => \A t \in Thread : pc[t] # "waiting"

\* Waiters is kept by every step: no step makes the word Init again.
LEMMA WaitersStep == IInv /\ Waiters /\ [Next]_vars => Waiters'
<1> SUFFICES ASSUME IInv, Waiters, [Next]_vars PROVE Waiters'
  OBVIOUS
<1> USE Sentinels DEF IInv, TypeOK, Word, Waiters
<1>1. CASE UNCHANGED vars
  BY <1>1 DEF vars
<1>2. ASSUME NEW t \in Thread, Get(t) \/ AllocFuncReturns(t) \/ Wait(t) PROVE Waiters'
  BY <1>2 DEF Get, AllocFuncReturns, Wait, Return
<1>3. ASSUME NEW t \in Thread, NEW m \in {"alloc", "free"}, Begin(t, m) PROVE Waiters'
  <2>1. word' # AllocInit
    BY <1>3 DEF Begin
  <2> QED BY <2>1
<1>4. ASSUME NEW t \in Thread, StoreCas(t) PROVE Waiters'
  <2>1. word' \in Address \cup {AllocFreed, AllocFailed}
    BY <1>4 DEF StoreCas, OneOwner, Owner, Provenance, LocalProvenance, Agreement
  <2> QED BY <2>1
<1>5. ASSUME NEW t \in Thread, FreeCas(t) PROVE Waiters'
  <2>1. word' = AllocFreed
    BY <1>5 DEF FreeCas, Provenance, LocalProvenance, Agreement
  <2> QED BY <2>1
<1> QED BY <1>1, <1>2, <1>3, <1>4, <1>5 DEF Next, Call, Step

\* A waiting or allocating call of Alloc comes back empty-handed only if the
\* allocation failed or the value was freed, whenever ForFree calls come.
THEOREM EmptyOnlyIfLostHolds == Spec => EmptyOnlyIfLost
<1>1. Init => Waiters
  BY DEF Init, Waiters
<1>2. IInv /\ Waiters /\ [Next]_vars =>
         [\A t \in Thread :
            pc[t] # "idle" /\ pc'[t] = "idle" /\ mode[t] = "alloc" /\ result'[t] = 0
               => word' \in {AllocFailed, AllocFreed}]_vars
  <2> SUFFICES ASSUME IInv, Waiters, Next, NEW t \in Thread,
                      pc[t] # "idle", pc'[t] = "idle", mode[t] = "alloc", result'[t] = 0
               PROVE  word' \in {AllocFailed, AllocFreed}
    OBVIOUS
  <2> USE Sentinels, ReturnOfWord DEF IInv, TypeOK, Word
  <2>1. PICK u \in Thread : Call(u) \/ Step(u)
    BY DEF Next
  <2>2. u = t
    <3>1. \A v \in Thread \ {u} : pc'[v] = pc[v]
      BY <2>1 DEF Call, Step, Get, Begin, AllocFuncReturns, StoreCas, Wait, FreeCas, Return
    <3> QED BY <3>1
  <2>3. StoreCas(t) \/ Wait(t) \/ FreeCas(t)
    BY <2>1, <2>2 DEF Call, Step, Get, Begin, AllocFuncReturns
  <2>4. CASE StoreCas(t)
    <3>1. word' = allocated[t] /\ allocated[t] \in Address \cup {AllocFailed}
      BY <2>4 DEF StoreCas, OneOwner, Owner, Provenance, LocalProvenance
    <3>2. ReturnOf(allocated[t]) = 0
      BY <2>4 DEF StoreCas, Return
    <3> QED BY <3>1, <3>2
  <2>5. CASE Wait(t)
    <3>1. word' = word /\ word # AllocOngoing /\ word # AllocInit /\ ReturnOf(word) = 0
      BY <2>5 DEF Wait, Return, Waiters
    <3> QED BY <3>1
  <2>6. CASE FreeCas(t)
    BY <2>6 DEF FreeCas, Provenance, LocalProvenance
  <2> QED BY <2>3, <2>4, <2>5, <2>6
<1> QED BY <1>1, <1>2, IInvInit, IInvStep, WaitersStep, PTL DEF Spec, EmptyOnlyIfLost

-------------------------------------------------------------------------------
(* Orderly ForFree calls *)

\* OrderlyInv is kept by every step when no ForFree call overlaps an
\* allocation.
LEMMA OrderlyStep == ~FreeAnytime /\ OrderlyInv /\ [Next]_vars => OrderlyInv'
<1> SUFFICES ASSUME ~FreeAnytime, OrderlyInv, [Next]_vars PROVE OrderlyInv'
  OBVIOUS
<1>0. IInv'
  BY IInvStep DEF OrderlyInv
<1> USE <1>0, Sentinels, ReturnOfWord
        DEF OrderlyInv, OrderlyWait, ReleasedIsMarked, FreedAtMostOnce, InFlight,
            IInv, TypeOK, Word
<1>1. CASE UNCHANGED vars
  BY <1>1 DEF vars
<1>2. ASSUME NEW t \in Thread, Get(t) PROVE OrderlyInv'
  BY <1>2 DEF Get, Return
<1>3. ASSUME NEW t \in Thread, NEW m \in {"alloc", "free"}, Begin(t, m) PROVE OrderlyInv'
  <2>1. CASE word = AllocInit
    BY <1>3, <2>1 DEF Begin, FreeAllowed
  <2>2. CASE word = AllocOngoing
    BY <1>3, <2>2 DEF Begin, FreeAllowed
  <2>3. CASE word \notin {AllocInit, AllocOngoing} /\ m = "free" /\ word < AllocFreed
    BY <1>3, <2>3 DEF Begin, FreeAllowed
  <2>4. CASE word \notin {AllocInit, AllocOngoing} /\ ~(m = "free" /\ word < AllocFreed)
    BY <1>3, <2>4 DEF Begin, FreeAllowed, Return
  <2> QED BY <2>1, <2>2, <2>3, <2>4
<1>4. ASSUME NEW t \in Thread, AllocFuncReturns(t) PROVE OrderlyInv'
  BY <1>4 DEF AllocFuncReturns, Provenance, LocalProvenance
<1>5. ASSUME NEW t \in Thread, StoreCas(t) PROVE OrderlyInv'
  BY <1>5 DEF StoreCas, Return, Provenance, LocalProvenance, OneOwner, Owner
<1>6. ASSUME NEW t \in Thread, Wait(t) PROVE OrderlyInv'
  BY <1>6 DEF Wait, Return
<1>7. ASSUME NEW t \in Thread, FreeCas(t) PROVE OrderlyInv'
  <2>1. /\ mode[t] = "free" /\ word \in Address \cup {AllocFreed}
        /\ word' = AllocFreed /\ mode' = mode
        /\ \A u \in Thread : pc'[u] = "waiting" => pc[u] = "waiting"
    <3>1. pc[t] = "freeing" /\ LocalProvenance(t)
      BY <1>7 DEF FreeCas, Provenance
    <3>2. mode[t] = "free" /\ allocated[t] \in Address /\ word \in {allocated[t], AllocFreed}
      BY <3>1 DEF LocalProvenance, Agreement
    <3>3. word' = AllocFreed /\ mode' = mode
      BY <1>7, <3>2 DEF FreeCas
    <3>4. \A u \in Thread : pc'[u] = "waiting" => pc[u] = "waiting"
      BY <1>7 DEF FreeCas, Return
    <3> QED BY <3>2, <3>3, <3>4
  <2>2. released' <= 1
    BY <1>7, <2>1 DEF FreeCas, Return
  <2> QED BY <2>1, <2>2
<1> QED
  BY <1>1, <1>2, <1>3, <1>4, <1>5, <1>6, <1>7 DEF Next, Call, Step

\* With orderly callers a value is released once at most, and no call that
\* starts after its release sees it (the ForFree branches of Alloc).
THEOREM ReleasedOnce ==
    ASSUME ~FreeAnytime PROVE Spec => [](FreedAtMostOnce /\ ReleasedIsMarked)
<1>1. Init => OrderlyInv
  BY IInvInit DEF Init, OrderlyInv, OrderlyWait, ReleasedIsMarked, FreedAtMostOnce
<1>2. OrderlyInv /\ [Next]_vars => OrderlyInv'
  BY OrderlyStep
<1>3. OrderlyInv => FreedAtMostOnce /\ ReleasedIsMarked
  BY DEF OrderlyInv
<1> QED BY <1>1, <1>2, <1>3, PTL DEF Spec

\* What a call that ends with word w in its hands returns, as a cell value.
LEMMA CellValue ==
    ASSUME NEW w \in Word PROVE CellOf(w).value = ReturnOf(w)
<1>1. CASE w \in Address
  BY <1>1, Sentinels, ReturnOfWord DEF CellOf
<1>2. CASE w \in {AllocInit, AllocFreed, AllocOngoing, AllocFailed}
  BY <1>2, Sentinels, ReturnOfWord DEF CellOf, Word
<1> QED BY <1>1, <1>2 DEF Word

\* Every step of the word is a step of the atomic cell, or invisible in it.
LEMMA CellStep == ~FreeAnytime /\ OrderlyInv /\ [Next]_vars => [Cell!Next]_Cell!cellVars
<1> SUFFICES ASSUME ~FreeAnytime, OrderlyInv, [Next]_vars
             PROVE  [Cell!Next]_Cell!cellVars
  OBVIOUS
<1> USE Sentinels DEF OrderlyInv, IInv, TypeOK, Word
<1> DEFINE Unseen == CellOf(word)' = CellOf(word) /\ result' = result /\ released' = released
<1>a. Unseen => [Cell!Next]_Cell!cellVars
  BY DEF Cell!cellVars
<1>b. ASSUME NEW t \in Thread, Cell!Read(t) \/ Cell!Settle(t) \/ Cell!Release(t)
      PROVE  [Cell!Next]_Cell!cellVars
  BY <1>b DEF Cell!Next
<1>c. ASSUME NEW t \in Thread, word' = word, result' = [result EXCEPT ![t] = ReturnOf(word)],
             released' = released
      PROVE  Cell!Read(t)
  BY <1>c, CellValue DEF Cell!Read
<1>1. CASE UNCHANGED vars
  BY <1>1, <1>a DEF vars
<1>2. ASSUME NEW t \in Thread, Get(t) PROVE Cell!Read(t)
  BY <1>2, <1>c DEF Get, Return
<1>3. ASSUME NEW t \in Thread, NEW m \in {"alloc", "free"}, Begin(t, m)
      PROVE  Unseen \/ Cell!Read(t)
  <2>1. CASE word = AllocInit
    BY <1>3, <2>1 DEF Begin, CellOf
  <2>2. CASE word = AllocOngoing
    BY <1>3, <2>2 DEF Begin
  <2>3. CASE word \notin {AllocInit, AllocOngoing} /\ m = "free" /\ word < AllocFreed
    BY <1>3, <2>3 DEF Begin
  <2>4. CASE word \notin {AllocInit, AllocOngoing} /\ ~(m = "free" /\ word < AllocFreed)
    <3>1. /\ word' = word /\ result' = [result EXCEPT ![t] = ReturnOf(word)]
          /\ released' = released
      BY <1>3, <2>4, ReturnOfWord DEF Begin, Return
    <3> QED BY <3>1, <1>c
  <2> QED BY <2>1, <2>2, <2>3, <2>4
<1>4. ASSUME NEW t \in Thread, AllocFuncReturns(t) PROVE Unseen
  BY <1>4 DEF AllocFuncReturns
<1>5. ASSUME NEW t \in Thread, StoreCas(t) PROVE Cell!Settle(t)
  <2>1. /\ word = AllocOngoing /\ word' = allocated[t]
        /\ allocated[t] \in Address \cup {AllocFreed, AllocFailed}
        /\ mode[t] = "free" => allocated[t] = AllocFreed
    BY <1>5 DEF StoreCas, OneOwner, Owner, Provenance, LocalProvenance
  <2>2. result' = [result EXCEPT ![t] = ReturnOf(allocated[t])] /\ released' = released
    BY <1>5, <2>1, ReturnOfWord DEF StoreCas, Return
  <2>3. CellOf(word) = Cell!Empty
    BY <2>1 DEF CellOf, Cell!Empty
  <2>4. CellOf(word)' \in {Cell!Full(v) : v \in Address} \cup {Cell!Failed, Cell!Freed}
    BY <2>1 DEF CellOf, Cell!Full, Cell!Failed, Cell!Freed
  <2>5. CellOf(word)'.value = ReturnOf(allocated[t])
    BY <2>1, CellValue
  <2> QED BY <2>2, <2>3, <2>4, <2>5 DEF Cell!Settle
<1>6. ASSUME NEW t \in Thread, Wait(t) PROVE Cell!Read(t)
  <2>1. mode[t] = "free" => ReturnOf(word) = 0
    BY <1>6, ReturnOfWord DEF Wait, OrderlyWait
  <2> QED BY <1>6, <2>1, <1>c DEF Wait, Return
<1>7. ASSUME NEW t \in Thread, FreeCas(t) PROVE Cell!Read(t) \/ Cell!Release(t)
  <2>1. pc[t] = "freeing" /\ LocalProvenance(t)
    BY <1>7 DEF FreeCas, Provenance
  <2>2. mode[t] = "free" /\ allocated[t] \in Address /\ word \in {allocated[t], AllocFreed}
    BY <2>1 DEF LocalProvenance, Agreement
  <2>3. CASE word = AllocFreed
    BY <1>7, <2>2, <2>3, <1>c, ReturnOfWord DEF FreeCas, Return
  <2>4. CASE word = allocated[t]
    <3>1. /\ word \in Address /\ word' = AllocFreed /\ released' = released + 1
          /\ result' = [result EXCEPT ![t] = ReturnOf(word)]
      BY <1>7, <2>2, <2>4, ReturnOfWord DEF FreeCas, Return
    <3>2. CellOf(word).state = "full" /\ CellOf(word)' = Cell!Freed
      BY <3>1 DEF CellOf, Cell!Freed
    <3> QED BY <3>1, <3>2, CellValue DEF Cell!Release
  <2> QED BY <2>2, <2>3, <2>4
<1> QED
  BY <1>1, <1>a, <1>b, <1>2, <1>3, <1>4, <1>5, <1>6, <1>7 DEF Next, Call, Step

\* With orderly callers the lock-free word of once.h implements the atomic
\* cell: every call of Alloc takes effect at one instant.
THEOREM Implements == ASSUME ~FreeAnytime PROVE Spec => ImplementsCell
<1>1. Init => Cell!Init
  BY Sentinels DEF Init, Cell!Init, Cell!Empty, CellOf
<1>2. Init => OrderlyInv
  BY IInvInit DEF Init, OrderlyInv, OrderlyWait, ReleasedIsMarked, FreedAtMostOnce
<1>3. OrderlyInv /\ [Next]_vars => OrderlyInv'
  BY OrderlyStep
<1>4. OrderlyInv /\ [Next]_vars => [Cell!Next]_Cell!cellVars
  BY CellStep
<1> QED BY <1>1, <1>2, <1>3, <1>4, PTL DEF Spec, ImplementsCell, Cell!Spec
===============================================================================
