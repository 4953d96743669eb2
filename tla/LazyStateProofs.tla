--------------------------- MODULE LazyStateProofs ---------------------------
(***************************************************************************)
(* Proofs about LazyState, for any number of threads: who can deadlock     *)
(* with whom, and that each shared word is an atomic cell.                 *)
(***************************************************************************)
EXTENDS LazyState, TLAPS

InLoader(t, l) == pc[t][l] \in {"loading", "looking"}

One(b) == IF b THEN 1 ELSE 0

\* How often a thread holds the loader lock: once for every init routine that
\* it runs and once for every loader function that it is in.
Holds(t) == One(<<t, "outer">> \in inInit) + One(InLoader(t, "outer"))
              + One(<<t, "inner">> \in inInit) + One(InLoader(t, "inner"))

\* The lock belongs to the thread that holds it, as often as the depth says.
LockOK ==
    /\ \A t \in Thread : IF lock = t THEN depth = Holds(t) /\ depth > 0 ELSE Holds(t) = 0
    /\ lock = NoThread => depth = 0

\* The inner level is in use while the outer call loads for the PEB word only.
Nested ==
    \A t \in Thread :
        /\ <<t, "inner">> \in inInit => pc[t]["outer"] = "loading" /\ on[t]["outer"] = "peb"
        /\ pc[t]["inner"] # "idle" => <<t, "inner">> \in inInit

\* Init routines call only if they may.
InitCalls ==
    \A t \in Thread, l \in Level :
        <<t, l>> \in inInit /\ pc[t][l] # "idle" => DllMainUses

IInv == TypeOK /\ OneAllocator /\ LockOK /\ Nested /\ InitCalls

-------------------------------------------------------------------------------

\* IInv holds before the first call.
LEMMA IInvInit == Init => IInv
<1> SUFFICES ASSUME Init PROVE IInv
  OBVIOUS
<1>1. TypeOK
  BY DEF Init, TypeOK, Shared, Places
<1>2. OneAllocator
  BY DEF Init, OneAllocator, Allocates, Level
<1>3. LockOK /\ Nested
  BY LazyAssumption DEF Init, LockOK, InLoader, Holds, One, Nested, Level
<1>4. InitCalls
  BY DEF Init, InitCalls
<1> QED BY <1>1, <1>2, <1>3, <1>4 DEF IInv

\* Who runs an init routine or is in a loader function holds the lock.
LEMMA HoldsPositive ==
    ASSUME NEW t \in Thread, NEW l \in Level, <<t, l>> \in inInit \/ InLoader(t, l)
    PROVE  Holds(t) \in Nat /\ Holds(t) > 0
  BY DEF Holds, One, Level

\* An assignment at one place keeps the types of pc and got.
LEMMA PlaceType ==
    ASSUME TypeOK, NEW t \in Thread, NEW l \in Level, NEW v \in Places,
           pc' = [pc EXCEPT ![t][l] = v]
    PROVE  pc' \in [Thread -> [Level -> Places]]
  BY DEF TypeOK

LEMMA GotType ==
    ASSUME TypeOK, NEW t \in Thread, NEW l \in Level, NEW v \in {"full", "failed"},
           got' = [got EXCEPT ![t][l] = v]
    PROVE  got' \in [Thread -> [Level -> {"full", "failed"}]]
  BY DEF TypeOK

\* TypeOK is kept by every step; the lock is left as often as it was taken.
LEMMA TypeStep == ASSUME IInv, [Next]_vars PROVE TypeOK'
<1> USE DEF TypeOK, lockVars, GoTo, At, Places
<1>1. CASE UNCHANGED vars
  BY <1>1 DEF IInv, vars
<1>2. ASSUME NEW t \in Thread, NEW l \in Level, EnterInit(t, l) \/ LeaveInit(t, l)
      PROVE  TypeOK'
  <2>1. UNCHANGED <<word, teb, pc, on, got, result>>
    BY <1>2 DEF EnterInit, LeaveInit
  <2>2. inInit' \subseteq Thread \X Level /\ lock' \in Thread \cup {NoThread}
    BY <1>2 DEF IInv, EnterInit, LeaveInit
  <2>3. depth' \in Nat
    <3>1. CASE EnterInit(t, l)
      BY <3>1 DEF IInv, EnterInit
    <3>2. CASE LeaveInit(t, l)
      <4>1. Holds(t) \in Nat /\ Holds(t) > 0
        BY <3>2, HoldsPositive DEF LeaveInit
      <4>2. depth > 0
        BY <4>1 DEF IInv, LockOK
      <4> QED BY <3>2, <4>2 DEF IInv, LeaveInit
    <3> QED BY <1>2, <3>1, <3>2
  <2> QED BY <2>1, <2>2, <2>3 DEF IInv
<1>3. ASSUME NEW t \in Thread, NEW l \in Level, Call(t, l) PROVE TypeOK'
  <2>1. PICK s \in Shared : on' = [on EXCEPT ![t][l] = s]
    BY <1>3 DEF Call, PebStateGet, wp_printf, Shared
  <2>2. pc' = [pc EXCEPT ![t][l] = "begin"] /\ UNCHANGED <<word, got, result, lockVars>>
    BY <1>3 DEF Call, PebStateGet, wp_printf
  <2>3. teb' \in [Thread -> {"empty", "full", "failed"}]
    BY <1>3 DEF IInv, Call, PebStateGet, wp_printf, TebStateGet
  <2> QED BY <2>1, <2>2, <2>3 DEF IInv
<1>4. ASSUME NEW t \in Thread, NEW l \in Level, NEW w, Return(t, l, w),
             UNCHANGED <<teb, on, lockVars>>,
             word' \in [Shared -> {"empty", "ongoing", "full", "failed"}]
      PROVE  TypeOK'
  <2>1. got' \in [Thread -> [Level -> {"full", "failed"}]]
    BY <1>4 DEF IInv, Return
  <2>2. result' \in [Shared -> [Thread -> {"null", "state"}]]
    BY <1>4 DEF IInv, Return
  <2>3. pc' \in [Thread -> [Level -> Places]]
    BY <1>4 DEF IInv, Return
  <2> QED BY <1>4, <2>1, <2>2, <2>3 DEF IInv
<1>5. ASSUME NEW t \in Thread, NEW l \in Level, Begin(t, l) PROVE TypeOK'
  <2>1. CASE Return(t, l, word[on[t][l]]) /\ UNCHANGED word
    BY <1>4, <1>5, <2>1 DEF IInv, Begin
  <2>2. CASE UNCHANGED <<result, got>> /\ (GoTo(t, l, "load") \/ GoTo(t, l, "wait"))
               /\ (UNCHANGED word \/ word' = [word EXCEPT ![on[t][l]] = "ongoing"])
    <3>1. pc' \in [Thread -> [Level -> Places]]
      BY <2>2, PlaceType DEF IInv
    <3>2. word' \in [Shared -> {"empty", "ongoing", "full", "failed"}]
      BY <2>2 DEF IInv
    <3> QED BY <1>5, <2>2, <3>1, <3>2 DEF IInv, Begin
  <2> QED BY <1>5, <2>1, <2>2 DEF Begin
<1>6. ASSUME NEW t \in Thread, NEW l \in Level, StoreWord(t, l) \/ Wait(t, l) PROVE TypeOK'
  <2>1. CASE StoreWord(t, l)
    BY <1>4, <2>1 DEF IInv, StoreWord
  <2>2. CASE Wait(t, l)
    BY <1>4, <2>2 DEF IInv, Wait
  <2> QED BY <1>6, <2>1, <2>2
<1>7. ASSUME NEW t \in Thread, NEW l \in Level, Write(t, l) PROVE TypeOK'
  BY <1>7 DEF IInv, Write
<1>8. ASSUME NEW t \in Thread, NEW l \in Level, LoaderCall(t, l) PROVE TypeOK'
  <2>1. pc' = [pc EXCEPT ![t][l] = "loading"] \/ pc' = [pc EXCEPT ![t][l] = "looking"]
    BY <1>8 DEF LoaderCall
  <2>2. depth' \in Nat /\ lock' \in Thread \cup {NoThread} /\ inInit' \subseteq Thread \X Level
    BY <1>8 DEF IInv, LoaderCall, Acquire
  <2>3. UNCHANGED <<word, teb, on, got, result>>
    BY <1>8 DEF LoaderCall
  <2>4. pc' \in [Thread -> [Level -> Places]]
    BY <2>1, PlaceType DEF IInv
  <2> QED BY <2>2, <2>3, <2>4 DEF IInv
<1>9. ASSUME NEW t \in Thread, NEW l \in Level, Loaded(t, l) \/ Looked(t, l) PROVE TypeOK'
  <2>1. depth \in Nat /\ depth > 0
    <3>1. Holds(t) \in Nat /\ Holds(t) > 0
      BY <1>9, HoldsPositive DEF Loaded, Looked, InLoader
    <3> QED BY <3>1 DEF IInv, LockOK
  <2>2. depth' \in Nat /\ lock' \in Thread \cup {NoThread} /\ inInit' \subseteq Thread \X Level
    BY <1>9, <2>1 DEF IInv, Loaded, Looked, Release
  <2>3. UNCHANGED <<word, teb, on, result>>
    BY <1>9 DEF Loaded, Looked
  <2>4. pc' = [pc EXCEPT ![t][l] = "proc"] \/ pc' = [pc EXCEPT ![t][l] = "store"]
    BY <1>9 DEF Loaded, Looked
  <2>5. got' = got \/ \E g \in {"full", "failed"} : got' = [got EXCEPT ![t][l] = g]
    BY <1>9 DEF Loaded, Looked
  <2>6. pc' \in [Thread -> [Level -> Places]]
    BY <2>4, PlaceType DEF IInv
  <2>7. got' \in [Thread -> [Level -> {"full", "failed"}]]
    BY <2>5, GotType DEF IInv
  <2> QED BY <2>2, <2>3, <2>6, <2>7 DEF IInv
<1> QED BY <1>1, <1>2, <1>3, <1>5, <1>6, <1>7, <1>8, <1>9 DEF Next, Work

-------------------------------------------------------------------------------
(* What the steps do to the places *)

\* A step at one place leaves the other places where they are.
Moves(t, l, from, to) ==
    /\ Runs(t, l) /\ pc[t][l] = from /\ pc'[t][l] = to
    /\ \A u \in Thread, k \in Level : u # t \/ k # l =>
          pc'[u][k] = pc[u][k] /\ on'[u][k] = on[u][k]

\* An assignment to one place of pc and of on is such a step.
LEMMA GoToMoves ==
    ASSUME TypeOK, NEW t \in Thread, NEW l \in Level, Runs(t, l), NEW to, GoTo(t, l, to),
           on' = on \/ \E s \in Shared : on' = [on EXCEPT ![t][l] = s]
    PROVE  Moves(t, l, pc[t][l], to)
<1>1. pc'[t][l] = to
  BY DEF TypeOK, GoTo
<1>2. ASSUME NEW u \in Thread, NEW k \in Level, u # t \/ k # l
      PROVE  pc'[u][k] = pc[u][k] /\ on'[u][k] = on[u][k]
  BY <1>2 DEF TypeOK, GoTo
<1> QED BY <1>1, <1>2 DEF Moves

\* The moves of the steps that leave the loader lock alone.
LEMMA QuietMoves ==
    ASSUME TypeOK, NEW t \in Thread, NEW l \in Level
    PROVE  /\ Call(t, l) => /\ Moves(t, l, "idle", "begin")
                            /\ <<t, l>> \in inInit => DllMainUses
           /\ Begin(t, l) => \E to \in {"load", "wait", "write", "idle"} :
                                Moves(t, l, "begin", to)
           /\ StoreWord(t, l) => \E to \in {"write", "idle"} : Moves(t, l, "store", to)
           /\ Wait(t, l) => \E to \in {"write", "idle"} : Moves(t, l, "wait", to)
           /\ Write(t, l) => Moves(t, l, "write", "idle")
           /\ Call(t, l) \/ Begin(t, l) \/ StoreWord(t, l) \/ Wait(t, l) \/ Write(t, l)
                => UNCHANGED lockVars
<1>1. ASSUME Call(t, l)
      PROVE  Moves(t, l, "idle", "begin") /\ (<<t, l>> \in inInit => DllMainUses)
  BY <1>1, GoToMoves DEF Call, PebStateGet, wp_printf, MayCall, At, Shared
<1>2. ASSUME Begin(t, l)
      PROVE  \E to \in {"load", "wait", "write", "idle"} : Moves(t, l, "begin", to)
  <2>1. \E to \in {"load", "wait", "write", "idle"} : GoTo(t, l, to)
    BY <1>2 DEF Begin, Return
  <2> QED BY <1>2, <2>1, GoToMoves DEF Begin, At
<1>3. ASSUME StoreWord(t, l) PROVE \E to \in {"write", "idle"} : Moves(t, l, "store", to)
  <2>1. \E to \in {"write", "idle"} : GoTo(t, l, to)
    BY <1>3 DEF StoreWord, Return
  <2> QED BY <1>3, <2>1, GoToMoves DEF StoreWord, At
<1>4. ASSUME Wait(t, l) PROVE \E to \in {"write", "idle"} : Moves(t, l, "wait", to)
  <2>1. \E to \in {"write", "idle"} : GoTo(t, l, to)
    BY <1>4 DEF Wait, Return
  <2> QED BY <1>4, <2>1, GoToMoves DEF Wait, At
<1>5. ASSUME Write(t, l) PROVE Moves(t, l, "write", "idle")
  BY <1>5, GoToMoves DEF Write, At
<1>6. Call(t, l) \/ Begin(t, l) \/ StoreWord(t, l) \/ Wait(t, l) \/ Write(t, l)
        => UNCHANGED lockVars
  BY DEF Call, PebStateGet, wp_printf, Begin, StoreWord, Wait, Write
<1> QED BY <1>1, <1>2, <1>3, <1>4, <1>5, <1>6

\* The moves of the calls into the loader and out of it.
LEMMA LoaderMoves ==
    ASSUME TypeOK, NEW t \in Thread, NEW l \in Level
    PROVE  /\ LoaderCall(t, l) =>
                /\ \/ Moves(t, l, "load", "loading") \/ Moves(t, l, "proc", "looking")
                /\ Acquire(t) /\ UNCHANGED <<word, on, got, result>>
           /\ Loaded(t, l) \/ Looked(t, l) =>
                /\ \E from \in {"loading", "looking"}, to \in {"proc", "store"} :
                      Moves(t, l, from, to)
                /\ Release /\ UNCHANGED <<word, on, result>>
<1>1. ASSUME LoaderCall(t, l)
      PROVE  Moves(t, l, "load", "loading") \/ Moves(t, l, "proc", "looking")
  BY <1>1, GoToMoves DEF LoaderCall, At
<1>2. ASSUME Loaded(t, l) \/ Looked(t, l)
      PROVE  \E from \in {"loading", "looking"}, to \in {"proc", "store"} :
                Moves(t, l, from, to)
  <2>1. GoTo(t, l, "proc") \/ GoTo(t, l, "store")
    BY <1>2 DEF Loaded, Looked
  <2>2. Runs(t, l) /\ pc[t][l] \in {"loading", "looking"} /\ UNCHANGED on
    BY <1>2 DEF Loaded, Looked, At
  <2> QED BY <2>1, <2>2, GoToMoves
<1> QED BY <1>1, <1>2 DEF LoaderCall, Loaded, Looked

\* Starting and ending init routines moves no call.
LEMMA InitMoves ==
    ASSUME NEW t \in Thread, NEW l \in Level, EnterInit(t, l) \/ LeaveInit(t, l)
    PROVE  UNCHANGED <<word, pc, on, got, result>>
  BY DEF EnterInit, LeaveInit

-------------------------------------------------------------------------------

\* Every step keeps one allocating call per word that says Ongoing.
LEMMA OneAllocatorStep == ASSUME IInv, [Next]_vars PROVE OneAllocator'
<1> USE DEF IInv
<1>1. ASSUME UNCHANGED word,
             \A u \in Thread, k \in Level, s \in Shared :
                Allocates(u, k, s)' <=> Allocates(u, k, s)
      PROVE  OneAllocator'
  BY <1>1 DEF OneAllocator
<1>2. CASE UNCHANGED <<word, pc, on>>
  BY <1>1, <1>2 DEF Allocates
<1>3. ASSUME NEW t \in Thread, NEW l \in Level, Call(t, l) \/ Wait(t, l) \/ Write(t, l)
      PROVE  OneAllocator'
  <2>1. UNCHANGED word
    BY <1>3 DEF Call, PebStateGet, wp_printf, Wait, Write
  <2>2. PICK from \in {"idle", "wait", "write"}, to \in {"begin", "write", "idle"} :
           Moves(t, l, from, to)
    BY <1>3, QuietMoves
  <2>3. \A u \in Thread, k \in Level, s \in Shared : Allocates(u, k, s)' <=> Allocates(u, k, s)
    BY <2>2 DEF Moves, Allocates
  <2> QED BY <1>1, <2>1, <2>3
<1>4. ASSUME NEW t \in Thread, NEW l \in Level, Begin(t, l) PROVE OneAllocator'
  <2>1. UNCHANGED on /\ on[t][l] \in Shared
    BY <1>4 DEF Begin, TypeOK
  <2>2. CASE /\ word[on[t][l]] = "empty" /\ word' = [word EXCEPT ![on[t][l]] = "ongoing"]
             /\ GoTo(t, l, "load")
    <3>1. Moves(t, l, "begin", "load")
      BY <1>4, <2>1, <2>2, GoToMoves DEF Begin, At
    <3>2. \A u \in Thread, k \in Level, s \in Shared :
             Allocates(u, k, s)' <=> Allocates(u, k, s) \/ (u = t /\ k = l /\ s = on[t][l])
      BY <2>1, <3>1 DEF Moves, Allocates
    <3>3. \A u \in Thread, k \in Level : ~Allocates(u, k, on[t][l])
      BY <2>1, <2>2 DEF OneAllocator
    <3>4. \A s \in Shared : word'[s] = IF s = on[t][l] THEN "ongoing" ELSE word[s]
      BY <2>2 DEF TypeOK
    <3> QED BY <2>1, <3>2, <3>3, <3>4 DEF OneAllocator
  <2>3. CASE UNCHANGED word /\ (GoTo(t, l, "wait") \/ GoTo(t, l, "write") \/ GoTo(t, l, "idle"))
    <3>1. PICK to \in {"wait", "write", "idle"} : Moves(t, l, "begin", to)
      BY <1>4, <2>1, <2>3, GoToMoves DEF Begin, At
    <3>2. \A u \in Thread, k \in Level, s \in Shared :
             Allocates(u, k, s)' <=> Allocates(u, k, s)
      BY <2>1, <3>1 DEF Moves, Allocates
    <3> QED BY <1>1, <2>3, <3>2
  <2> QED BY <1>4, <2>2, <2>3 DEF Begin, Return
<1>5. ASSUME NEW t \in Thread, NEW l \in Level, LoaderCall(t, l) \/ Loaded(t, l) \/ Looked(t, l)
      PROVE  OneAllocator'
  <2>1. UNCHANGED <<word, on>>
    BY <1>5, LoaderMoves
  <2>2. PICK from \in {"load", "loading", "proc", "looking"},
             to \in {"loading", "looking", "proc", "store"} : Moves(t, l, from, to)
    BY <1>5, LoaderMoves
  <2>3. \A u \in Thread, k \in Level, s \in Shared : Allocates(u, k, s)' <=> Allocates(u, k, s)
    BY <2>1, <2>2 DEF Moves, Allocates
  <2> QED BY <1>1, <2>1, <2>3
<1>6. ASSUME NEW t \in Thread, NEW l \in Level, StoreWord(t, l) PROVE OneAllocator'
  <2>1. UNCHANGED on /\ on[t][l] \in Shared /\ got[t][l] \in {"full", "failed"}
    BY <1>6 DEF StoreWord, TypeOK
  <2>2. PICK to \in {"write", "idle"} : Moves(t, l, "store", to)
    BY <1>6, QuietMoves
  <2>3. Allocates(t, l, on[t][l])
    BY <2>2 DEF Moves, Allocates
  <2>4. \A u \in Thread, k \in Level, s \in Shared :
           Allocates(u, k, s)' <=> Allocates(u, k, s) /\ (u # t \/ k # l)
    BY <2>1, <2>2 DEF Moves, Allocates
  <2>5. \A s \in Shared : word'[s] = IF s = on[t][l] THEN got[t][l] ELSE word[s]
    BY <1>6 DEF StoreWord, TypeOK
  <2>6. ASSUME NEW s \in Shared
        PROVE  (word'[s] = "ongoing") <=> (\E u \in Thread, k \in Level : Allocates(u, k, s)')
    <3>1. CASE s = on[t][l]
      <4>1. \A u \in Thread, k \in Level : Allocates(u, k, s) => u = t /\ k = l
        BY <2>3, <3>1 DEF OneAllocator
      <4>2. word'[s] # "ongoing"
        BY <2>1, <2>5, <3>1
      <4> QED BY <2>4, <4>1, <4>2
    <3>2. CASE s # on[t][l]
      <4>1. ~Allocates(t, l, s) /\ word'[s] = word[s]
        BY <2>5, <3>2 DEF Allocates
      <4> QED BY <2>4, <4>1 DEF OneAllocator
    <3> QED BY <3>1, <3>2
  <2>7. \A s \in Shared : \A u, v \in Thread, k, m \in Level :
           Allocates(u, k, s)' /\ Allocates(v, m, s)' => u = v /\ k = m
    BY <2>4 DEF OneAllocator
  <2> QED BY <2>6, <2>7 DEF OneAllocator
<1>7. ASSUME NEW t \in Thread, NEW l \in Level, EnterInit(t, l) \/ LeaveInit(t, l)
      PROVE  OneAllocator'
  BY <1>2, <1>7, InitMoves
<1> QED BY <1>2, <1>3, <1>4, <1>5, <1>6, <1>7 DEF Next, Work, vars

\* Every step keeps the account of the loader lock.
LEMMA LockOKStep == ASSUME IInv, [Next]_vars PROVE LockOK'
<1> USE LazyAssumption
<1>0. depth \in Nat /\ lock \in Thread \cup {NoThread} /\ inInit \subseteq Thread \X Level
  BY DEF IInv, TypeOK
<1>1. CASE UNCHANGED <<pc, lockVars>>
  BY <1>1 DEF IInv, LockOK, Holds, InLoader, lockVars
<1>2. ASSUME NEW t \in Thread, \A u \in Thread \ {t} : Holds(u)' = Holds(u),
             lock \in {NoThread, t}, lock' = t, depth' = depth + 1, Holds(t)' = Holds(t) + 1
      PROVE  LockOK'
  <2>1. Holds(t) = depth
    BY <1>2 DEF IInv, LockOK
  <2> QED BY <1>0, <1>2, <2>1 DEF IInv, LockOK
<1>3. ASSUME NEW t \in Thread, \A u \in Thread \ {t} : Holds(u)' = Holds(u), Holds(t) # 0,
             depth' = depth - 1, lock' = IF depth = 1 THEN NoThread ELSE lock,
             Holds(t)' = Holds(t) - 1
      PROVE  LockOK'
  <2>1. lock = t /\ Holds(t) = depth /\ depth > 0
    BY <1>3 DEF IInv, LockOK
  <2> QED BY <1>0, <1>3, <2>1 DEF IInv, LockOK
<1>4. ASSUME NEW t \in Thread, NEW l \in Level, EnterInit(t, l) PROVE LockOK'
  <2>1. UNCHANGED pc /\ inInit' = inInit \cup {<<t, l>>} /\ <<t, l>> \notin inInit
    BY <1>4 DEF EnterInit
  <2>2. \A u \in Thread \ {t} : Holds(u)' = Holds(u)
    BY <2>1 DEF Holds, InLoader
  <2>3. Holds(t)' = Holds(t) + 1
    BY <2>1 DEF Holds, InLoader, One, Level
  <2> QED BY <1>2, <1>4, <2>2, <2>3 DEF EnterInit
<1>5. ASSUME NEW t \in Thread, NEW l \in Level, LeaveInit(t, l) PROVE LockOK'
  <2>1. UNCHANGED pc /\ inInit' = inInit \ {<<t, l>>} /\ <<t, l>> \in inInit
    BY <1>5 DEF LeaveInit
  <2>2. \A u \in Thread \ {t} : Holds(u)' = Holds(u)
    BY <2>1 DEF Holds, InLoader
  <2>3. Holds(t)' = Holds(t) - 1 /\ Holds(t) # 0
    BY <2>1 DEF Holds, InLoader, One, Level
  <2> QED BY <1>3, <1>5, <2>2, <2>3 DEF LeaveInit
<1>6. ASSUME NEW t \in Thread, NEW l \in Level, NEW from, NEW to, Moves(t, l, from, to),
             UNCHANGED inInit
      PROVE  /\ \A u \in Thread \ {t} : Holds(u)' = Holds(u)
             /\ Holds(t)' = Holds(t) - One(from \in {"loading", "looking"})
                              + One(to \in {"loading", "looking"})
  <2>1. \A u \in Thread \ {t} : Holds(u)' = Holds(u)
    BY <1>6 DEF Holds, InLoader, Moves, Level
  <2>2. Holds(t)' = Holds(t) - One(from \in {"loading", "looking"})
                      + One(to \in {"loading", "looking"})
    <3>1. CASE l = "outer"
      BY <1>6, <3>1 DEF Holds, InLoader, Moves, Level, One
    <3>2. CASE l = "inner"
      BY <1>6, <3>2 DEF Holds, InLoader, Moves, Level, One
    <3> QED BY <3>1, <3>2 DEF Level
  <2> QED BY <2>1, <2>2
<1>7. ASSUME NEW t \in Thread, NEW l \in Level,
             Call(t, l) \/ Begin(t, l) \/ StoreWord(t, l) \/ Wait(t, l) \/ Write(t, l)
      PROVE  LockOK'
  <2>1. PICK from \in {"idle", "begin", "store", "wait", "write"},
             to \in {"begin", "load", "wait", "write", "idle"} : Moves(t, l, from, to)
    BY <1>7, QuietMoves DEF IInv
  <2>2. UNCHANGED lockVars
    BY <1>7, QuietMoves DEF IInv
  <2>3. Holds(t) \in Nat
    BY DEF Holds, One
  <2>4. Holds(t)' = Holds(t)
    BY <1>6, <2>1, <2>2, <2>3 DEF lockVars, One
  <2>5. \A u \in Thread : Holds(u)' = Holds(u)
    BY <1>6, <2>1, <2>2, <2>4 DEF lockVars
  <2> QED BY <2>2, <2>5 DEF IInv, LockOK, lockVars
<1>8. ASSUME NEW t \in Thread, NEW l \in Level, LoaderCall(t, l) PROVE LockOK'
  <2>1. PICK from \in {"load", "proc"}, to \in {"loading", "looking"} : Moves(t, l, from, to)
    BY <1>8, LoaderMoves DEF IInv
  <2>2. Acquire(t)
    BY <1>8, LoaderMoves DEF IInv
  <2>3. Holds(t) \in Nat
    BY DEF Holds, One
  <2>4. Holds(t)' = Holds(t) + 1
    BY <1>6, <2>1, <2>2, <2>3 DEF Acquire, One
  <2>5. \A u \in Thread \ {t} : Holds(u)' = Holds(u)
    BY <1>6, <2>1, <2>2 DEF Acquire
  <2> QED BY <1>2, <2>2, <2>4, <2>5 DEF Acquire
<1>9. ASSUME NEW t \in Thread, NEW l \in Level, Loaded(t, l) \/ Looked(t, l) PROVE LockOK'
  <2>1. PICK from \in {"loading", "looking"}, to \in {"proc", "store"} : Moves(t, l, from, to)
    BY <1>9, LoaderMoves DEF IInv
  <2>2. Release
    BY <1>9, LoaderMoves DEF IInv
  <2>3. Holds(t) \in Nat /\ Holds(t) # 0
    <3>1. InLoader(t, l)
      BY <2>1 DEF Moves, InLoader
    <3> QED BY <3>1 DEF Holds, One, Level
  <2>4. Holds(t)' = Holds(t) - 1
    BY <1>6, <2>1, <2>2, <2>3 DEF Release, One
  <2>5. \A u \in Thread \ {t} : Holds(u)' = Holds(u)
    BY <1>6, <2>1, <2>2 DEF Release
  <2> QED BY <1>3, <2>2, <2>3, <2>4, <2>5 DEF Release
<1> QED BY <1>1, <1>4, <1>5, <1>7, <1>8, <1>9 DEF Next, Work, vars, lockVars

\* What the two next invariants need of a step of a call.
LEMMA CallMoves ==
    ASSUME IInv, NEW t \in Thread, NEW l \in Level,
           Call(t, l) \/ Work(t, l) \/ LoaderCall(t, l)
    PROVE  /\ UNCHANGED inInit
           /\ \E from, to \in Places : Moves(t, l, from, to)
           /\ pc[t][l] = "idle" /\ <<t, l>> \in inInit => DllMainUses
<1> USE DEF Places
<1>1. CASE Call(t, l)
  BY <1>1, QuietMoves DEF IInv, lockVars
<1>2. CASE Begin(t, l) \/ StoreWord(t, l) \/ Wait(t, l) \/ Write(t, l)
  <2>1. PICK from \in Places \ {"idle"}, to \in Places : Moves(t, l, from, to)
    BY <1>2, QuietMoves DEF IInv
  <2>2. UNCHANGED inInit
    BY <1>2, QuietMoves DEF IInv, lockVars
  <2>3. pc[t][l] # "idle"
    BY <2>1 DEF Moves
  <2> QED BY <2>1, <2>2, <2>3
<1>3. CASE LoaderCall(t, l) \/ Loaded(t, l) \/ Looked(t, l)
  <2>1. PICK from \in Places \ {"idle"}, to \in Places : Moves(t, l, from, to)
    BY <1>3, LoaderMoves DEF IInv
  <2>2. UNCHANGED inInit
    BY <1>3, LoaderMoves DEF IInv, Acquire, Release
  <2>3. pc[t][l] # "idle"
    BY <2>1 DEF Moves
  <2> QED BY <2>1, <2>2, <2>3
<1> QED BY <1>1, <1>2, <1>3 DEF Work

\* The inner level stays inside the LdrLoadDll of the PEB word.
LEMMA NestedStep == ASSUME IInv, [Next]_vars PROVE Nested'
<1>1. CASE UNCHANGED vars
  BY <1>1 DEF IInv, Nested, vars
<1>2. ASSUME NEW t \in Thread, NEW l \in Level, EnterInit(t, l) \/ LeaveInit(t, l)
      PROVE  Nested'
  <2>1. UNCHANGED <<pc, on>>
    BY <1>2 DEF EnterInit, LeaveInit
  <2>2. CASE EnterInit(t, l)
    BY <2>1, <2>2 DEF IInv, Nested, EnterInit, At
  <2>3. CASE LeaveInit(t, l)
    BY <2>1, <2>3 DEF IInv, Nested, LeaveInit, At
  <2> QED BY <1>2, <2>2, <2>3
<1>3. ASSUME NEW t \in Thread, NEW l \in Level, Call(t, l) \/ Work(t, l) \/ LoaderCall(t, l)
      PROVE  Nested'
  <2>1. UNCHANGED inInit
    BY <1>3, CallMoves
  <2>2. PICK from, to \in Places : Moves(t, l, from, to)
    BY <1>3, CallMoves
  <2>3. ASSUME NEW u \in Thread, u # t
        PROVE  \A k \in Level : pc'[u][k] = pc[u][k] /\ on'[u][k] = on[u][k]
    BY <2>2, <2>3 DEF Moves
  <2>4. CASE l = "outer"
    <3>1. <<t, "inner">> \notin inInit
      BY <2>2, <2>4 DEF Moves, Runs
    <3>2. pc'[t]["inner"] = pc[t]["inner"]
      BY <2>2, <2>4 DEF Moves, Level
    <3> QED BY <2>1, <2>3, <3>1, <3>2 DEF IInv, Nested, Level
  <2>5. CASE l = "inner"
    <3>1. <<t, "inner">> \in inInit
      BY <2>2, <2>5 DEF Moves, Runs
    <3>2. pc'[t]["outer"] = pc[t]["outer"] /\ on'[t]["outer"] = on[t]["outer"]
      BY <2>2, <2>5 DEF Moves, Level
    <3> QED BY <2>1, <2>3, <3>1, <3>2 DEF IInv, Nested, Level
  <2> QED BY <2>4, <2>5 DEF Level
<1> QED BY <1>1, <1>2, <1>3 DEF Next

\* No init routine comes to call where it may not.
LEMMA InitCallsStep == ASSUME IInv, [Next]_vars PROVE InitCalls'
<1>1. CASE UNCHANGED vars
  BY <1>1 DEF IInv, InitCalls, vars
<1>2. ASSUME NEW t \in Thread, NEW l \in Level, EnterInit(t, l) PROVE InitCalls'
  <2>1. UNCHANGED pc /\ inInit' = inInit \cup {<<t, l>>}
    BY <1>2 DEF EnterInit
  <2>2. pc[t][l] = "idle"
    <3>1. CASE l = "outer"
      BY <1>2, <3>1 DEF EnterInit, At
    <3>2. CASE l = "inner"
      BY <1>2, <3>2 DEF EnterInit, IInv, Nested
    <3> QED BY <3>1, <3>2 DEF Level
  <2> QED BY <2>1, <2>2 DEF IInv, InitCalls
<1>3. ASSUME NEW t \in Thread, NEW l \in Level, LeaveInit(t, l) PROVE InitCalls'
  BY <1>3 DEF IInv, InitCalls, LeaveInit
<1>4. ASSUME NEW t \in Thread, NEW l \in Level, Call(t, l) \/ Work(t, l) \/ LoaderCall(t, l),
             NEW u \in Thread, NEW k \in Level, <<u, k>> \in inInit', pc'[u][k] # "idle"
      PROVE  DllMainUses
  <2>1. UNCHANGED inInit
    BY <1>4, CallMoves
  <2>2. PICK from, to \in Places : Moves(t, l, from, to)
    BY <1>4, CallMoves
  <2>3. CASE pc[u][k] # "idle"
    BY <1>4, <2>1, <2>3 DEF IInv, InitCalls
  <2>4. CASE pc[u][k] = "idle"
    <3>1. u = t /\ k = l
      BY <1>4, <2>2, <2>4 DEF Moves
    <3> QED BY <1>4, <2>1, <2>4, <3>1, CallMoves
  <2> QED BY <2>3, <2>4
<1> QED BY <1>1, <1>2, <1>3, <1>4 DEF Next, InitCalls

-------------------------------------------------------------------------------

\* IInv is inductive.
THEOREM IInvHolds == Spec => []IInv
<1>1. IInv /\ [Next]_vars => IInv'
  BY TypeStep, OneAllocatorStep, LockOKStep, NestedStep, InitCallsStep DEF IInv
<1> QED BY <1>1, IInvInit, PTL DEF Spec

\* Every variable keeps its type.
THEOREM TypeCorrect == Spec => []TypeOK
<1>1. IInv => TypeOK
  BY DEF IInv
<1> QED BY <1>1, IInvHolds, PTL

\* A shared word says Ongoing exactly while one call allocates for it.
THEOREM OneAllocatorHolds == Spec => []OneAllocator
<1>1. IInv => OneAllocator
  BY DEF IInv
<1> QED BY <1>1, IInvHolds, PTL

\* A thread that is waited for and waits itself, in either way.
LEMMA SpinnerIsInit ==
    ASSUME IInv, NEW t \in Thread, NEW u \in Thread, NEW l \in Level, Spins(u, l, t),
           \/ t = u
           \/ lock = u /\ \E k \in Level : At(t, k, "load") \/ At(t, k, "proc")
    PROVE  <<u, l>> \in inInit
<1>1. pc[u][l] = "wait"
  BY DEF Spins
<1>2. CASE l = "inner"
  BY <1>1, <1>2 DEF IInv, Nested
<1>3. CASE l = "outer"
  <2>1. <<u, "inner">> \notin inInit /\ pc[u]["inner"] = "idle"
    BY <1>1, <1>3 DEF IInv, Nested
  <2>2. t # u
    <3>1. ASSUME t = u PROVE \A k \in Level : pc[u][k] \in {"wait", "idle"}
      BY <1>1, <1>3, <2>1 DEF Level
    <3> QED BY <3>1 DEF Spins, Allocates
  <2>3. Holds(u) # 0
    BY <2>2 DEF IInv, LockOK
  <2> QED BY <1>1, <1>3, <2>1, <2>3 DEF Holds, One, InLoader
<1> QED BY <1>2, <1>3 DEF Level

\* A deadlock, of two threads or of one with itself, needs a call that spins
\* in an init routine.
THEOREM DeadlockNeedsInitHolds == Spec => []DeadlockNeedsInit
<1>1. IInv => DeadlockNeedsInit
  <2> SUFFICES ASSUME IInv, NEW t \in Thread, NEW u \in Thread, Deadlock(t, u)
               PROVE  \E l \in Level : <<u, l>> \in inInit /\ Spins(u, l, t)
    BY DEF DeadlockNeedsInit
  <2>1. PICK l \in Level : Spins(u, l, t)
    BY DEF Deadlock
  <2>2. <<u, l>> \in inInit
    BY <2>1, SpinnerIsInit DEF Deadlock
  <2> QED BY <2>1, <2>2
<1> QED BY <1>1, IInvHolds, PTL

\* So there is none if init routines keep away from the lazy state.
THEOREM NoDeadlockHolds == Spec => []NoDeadlock
<1>1. IInv => NoDeadlock
  <2> SUFFICES ASSUME IInv, NEW t \in Thread, NEW u \in Thread, Deadlock(t, u)
               PROVE  DllMainUses
    BY DEF NoDeadlock, Deadlocked
  <2>1. PICK l \in Level : Spins(u, l, t)
    BY DEF Deadlock
  <2>2. <<u, l>> \in inInit
    BY <2>1, SpinnerIsInit DEF Deadlock
  <2> QED BY <2>1, <2>2 DEF IInv, InitCalls, Spins
<1> QED BY <1>1, IInvHolds, PTL

-------------------------------------------------------------------------------
(* The shared words as cells *)

\* What a step shows of a shared word to those who look at it as a cell.
Unseen(s)     == CellOf(word'[s]) = CellOf(word[s]) /\ result'[s] = result[s]
Reads(t, s)   == /\ word'[s] = word[s]
                 /\ result'[s] = [result[s] EXCEPT ![t] = CellOf(word[s]).value]
Settles(t, s) == /\ word[s] = "ongoing" /\ word'[s] \in {"full", "failed"}
                 /\ result'[s] = [result[s] EXCEPT ![t] = CellOf(word'[s]).value]

Shows(s) == Unseen(s) \/ \E t \in Thread : Reads(t, s) \/ Settles(t, s)

\* What Return hands out is the value of the cell.
LEMMA ReturnShows ==
    ASSUME TypeOK, NEW t \in Thread, NEW l \in Level, NEW w \in {"empty", "full", "failed"},
           Return(t, l, w)
    PROVE  \A s \in Shared :
              result'[s] = IF s = on[t][l] THEN [result[s] EXCEPT ![t] = CellOf(w).value]
                                           ELSE result[s]
<1>1. (IF w = "full" THEN "state" ELSE "null") = CellOf(w).value
  BY DEF CellOf
<1>2. on[t][l] \in Shared /\ result' = [result EXCEPT ![on[t][l]][t] = CellOf(w).value]
  BY <1>1 DEF TypeOK, Return
<1> QED BY <1>2 DEF TypeOK

\* A step that leaves words and results alone shows nothing.
LEMMA NothingShows ==
    ASSUME UNCHANGED <<word, result>>, NEW s \in Shared PROVE Shows(s)
BY DEF Shows, Unseen

\* Every step shows each shared word as a cell that is read or settled.
LEMMA StepShows == ASSUME IInv, [Next]_vars, NEW s \in Shared PROVE Shows(s)
<1> USE DEF IInv, TypeOK
<1>1. CASE UNCHANGED vars
  BY <1>1, NothingShows DEF vars
<1>2. ASSUME NEW t \in Thread, NEW l \in Level,
             \/ EnterInit(t, l) \/ LeaveInit(t, l) \/ Call(t, l) \/ LoaderCall(t, l)
             \/ Loaded(t, l) \/ Looked(t, l) \/ Write(t, l)
      PROVE  Shows(s)
  <2>1. UNCHANGED <<word, result>>
    BY <1>2 DEF EnterInit, LeaveInit, Call, PebStateGet, wp_printf, LoaderCall, Loaded,
       Looked, Write
  <2> QED BY <2>1, NothingShows
<1>3. ASSUME NEW t \in Thread, NEW l \in Level, word' = word, word[on[t][l]] # "ongoing",
             Return(t, l, word[on[t][l]])
      PROVE  Shows(s)
  <2>1. word[on[t][l]] \in {"empty", "full", "failed"}
    BY <1>3
  <2>5. result'[s] = IF s = on[t][l] THEN [result[s] EXCEPT ![t] = CellOf(word[on[t][l]]).value]
                                     ELSE result[s]
    <3>1. TypeOK
      BY DEF IInv
    <3> HIDE DEF IInv, TypeOK
    <3> QED BY SMTT(30), <1>3, <2>1, <3>1, ReturnShows
  <2>2. CASE s = on[t][l]
    BY <1>3, <2>2, <2>5 DEF Shows, Reads
  <2>3. CASE s # on[t][l]
    <3>1. result'[s] = result[s]
      BY <2>3, <2>5
    <3>2. word'[s] = word[s]
      BY <1>3
    <3> QED BY <3>1, <3>2 DEF Shows, Unseen
  <2> QED BY <2>2, <2>3
<1>4. ASSUME NEW t \in Thread, NEW l \in Level, Begin(t, l) PROVE Shows(s)
  <2>1. CASE word[on[t][l]] = "empty" /\ word' = [word EXCEPT ![on[t][l]] = "ongoing"]
             /\ UNCHANGED result
    <3>1. word'[s] = word[s] \/ (word[s] = "empty" /\ word'[s] = "ongoing")
      BY <2>1
    <3>2. CellOf(word'[s]) = CellOf(word[s])
      BY <3>1 DEF CellOf
    <3> QED BY <2>1, <3>2 DEF Shows, Unseen
  <2>2. CASE UNCHANGED <<word, result>>
    BY <2>2, NothingShows
  <2>3. CASE word' = word /\ word[on[t][l]] \in {"full", "failed"} /\ Return(t, l, word[on[t][l]])
    BY <1>3, <2>3
  <2> QED BY <1>4, <2>1, <2>2, <2>3 DEF Begin
<1>5. ASSUME NEW t \in Thread, NEW l \in Level, Wait(t, l) PROVE Shows(s)
  BY <1>3, <1>5 DEF Wait
<1>6. ASSUME NEW t \in Thread, NEW l \in Level, StoreWord(t, l) PROVE Shows(s)
  <2>1. word[on[t][l]] = "ongoing"
    BY <1>6 DEF StoreWord, At, OneAllocator, Allocates
  <2>2. word' = [word EXCEPT ![on[t][l]] = got[t][l]] /\ Return(t, l, got[t][l])
        /\ got[t][l] \in {"full", "failed"}
    BY <1>6 DEF StoreWord
  <2>5. result'[s] = IF s = on[t][l] THEN [result[s] EXCEPT ![t] = CellOf(got[t][l]).value]
                                     ELSE result[s]
    <3>1. TypeOK
      BY DEF IInv
    <3> HIDE DEF IInv, TypeOK
    <3> QED BY SMTT(30), <2>2, <3>1, ReturnShows
  <2>3. CASE s = on[t][l]
    <3>1. word'[s] = got[t][l]
      BY <2>2, <2>3
    <3>2. result'[s] = [result[s] EXCEPT ![t] = CellOf(got[t][l]).value]
      BY <2>3, <2>5
    <3>3. word[s] = "ongoing" /\ word'[s] \in {"full", "failed"}
      BY <2>1, <2>2, <2>3, <3>1
    <3>4. Settles(t, s)
      BY <3>1, <3>2, <3>3 DEF Settles
    <3> QED BY <3>4 DEF Shows
  <2>4. CASE s # on[t][l]
    <3>1. word'[s] = word[s] /\ result'[s] = result[s]
      BY <2>2, <2>4, <2>5
    <3> QED BY <3>1 DEF Shows, Unseen
  <2> QED BY <2>3, <2>4
<1> QED BY <1>1, <1>2, <1>4, <1>5, <1>6 DEF Next, Work

\* What a step shows is a step of the cell, for either word.
LEMMA PebCellStep == IInv /\ [Next]_vars => [PebCell!Next]_PebCell!cellVars
<1> SUFFICES ASSUME IInv, [Next]_vars PROVE [PebCell!Next]_PebCell!cellVars
  OBVIOUS
<1>1. Shows("peb")
  BY StepShows DEF Shared
<1>2. CASE Unseen("peb")
  BY <1>2 DEF Unseen, PebCell!cellVars
<1>3. ASSUME NEW t \in Thread, Reads(t, "peb") PROVE PebCell!Next
  <2>1. PebCell!Read(t)
    BY <1>3 DEF Reads, PebCell!Read
  <2> QED BY <2>1 DEF PebCell!Next
<1>4. ASSUME NEW t \in Thread, Settles(t, "peb") PROVE PebCell!Next
  <2>1. CellOf(word["peb"]) = PebCell!Empty
    BY <1>4 DEF Settles, CellOf, PebCell!Empty
  <2>2. CellOf(word'["peb"]) \in {PebCell!Full(v) : v \in {"state"}}
                                   \cup {PebCell!Failed, PebCell!Freed}
    BY <1>4 DEF Settles, CellOf, PebCell!Full, PebCell!Failed, PebCell!Freed
  <2>3. PebCell!Settle(t)
    BY <1>4, <2>1, <2>2 DEF Settles, PebCell!Settle
  <2> QED BY <2>3 DEF PebCell!Next
<1> QED BY <1>1, <1>2, <1>3, <1>4 DEF Shows

LEMMA WriteCellStep == IInv /\ [Next]_vars => [WriteCell!Next]_WriteCell!cellVars
<1> SUFFICES ASSUME IInv, [Next]_vars PROVE [WriteCell!Next]_WriteCell!cellVars
  OBVIOUS
<1>1. Shows("write")
  BY StepShows DEF Shared
<1>2. CASE Unseen("write")
  BY <1>2 DEF Unseen, WriteCell!cellVars
<1>3. ASSUME NEW t \in Thread, Reads(t, "write") PROVE WriteCell!Next
  <2>1. WriteCell!Read(t)
    BY <1>3 DEF Reads, WriteCell!Read
  <2> QED BY <2>1 DEF WriteCell!Next
<1>4. ASSUME NEW t \in Thread, Settles(t, "write") PROVE WriteCell!Next
  <2>1. CellOf(word["write"]) = WriteCell!Empty
    BY <1>4 DEF Settles, CellOf, WriteCell!Empty
  <2>2. CellOf(word'["write"]) \in {WriteCell!Full(v) : v \in {"state"}}
                                     \cup {WriteCell!Failed, WriteCell!Freed}
    BY <1>4 DEF Settles, CellOf, WriteCell!Full, WriteCell!Failed, WriteCell!Freed
  <2>3. WriteCell!Settle(t)
    BY <1>4, <2>1, <2>2 DEF Settles, WriteCell!Settle
  <2> QED BY <2>3 DEF WriteCell!Next
<1> QED BY <1>1, <1>2, <1>3, <1>4 DEF Shows

\* PebStateGet and wp_printf: for any number of threads each shared word
\* implements the atomic cell, whatever the loader lock does.
THEOREM ImplementsCellsHolds == Spec => ImplementsCells
<1>1. Init => PebCell!Init /\ WriteCell!Init
  BY DEF Init, Shared, CellOf, PebCell!Init, PebCell!Empty, WriteCell!Init, WriteCell!Empty
<1>2. IInv /\ [Next]_vars => [PebCell!Next]_PebCell!cellVars
  BY PebCellStep
<1>3. IInv /\ [Next]_vars => [WriteCell!Next]_WriteCell!cellVars
  BY WriteCellStep
<1> QED BY <1>1, <1>2, <1>3, IInvHolds, PTL
        DEF Spec, ImplementsCells, PebCell!Spec, WriteCell!Spec
===============================================================================
