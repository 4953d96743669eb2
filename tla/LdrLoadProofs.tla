---------------------------- MODULE LdrLoadProofs ----------------------------
(***************************************************************************)
(* Proofs about LdrLoad, for every set of images, every combination of     *)
(* failures and every nesting of calls.                                    *)
(***************************************************************************)
EXTENDS LdrLoad, TLAPS

-------------------------------------------------------------------------------
(* The inductive invariant: what a load holds is a function of its stage *)

Full == {"view", "entry", "name"} \cup (IF HasIndexes THEN {"ddag"} ELSE {})

\* Before the setup nothing points to the module and nothing has failed yet.
Early(d) == /\ linked[d] = {} /\ attached[d] = "no" /\ ~entryPoint[d]
            /\ ~crashed => fault[d] = "none"

\* After the setup either everything is there, or the setup was cut short.
Settled(d, extra) ==
    \/ /\ fault[d] = "none"
       /\ held[d] = Full \cup extra
       /\ linked[d] = AllLinks
    \/ /\ fault[d] \in {"index", "ddag"} /\ HasIndexes
       /\ held[d] = {"view", "entry", "name"} \cup extra
       /\ "lists" \notin linked[d]
       /\ ~entryPoint[d] /\ attached[d] = "no"

\* The init routine of a loaded module accepted, if there is one.
Accepted(d) == attached[d] = IF entryPoint[d] THEN "yes" ELSE "no"

StageOK(d) ==
    /\ stage[d] \in {"absent", "section"} => held[d] = {} /\ Early(d)
    /\ stage[d] = "view" => held[d] = {"section"} /\ Early(d)
    /\ stage[d] \in {"link", "relocate", "reset", "entry"} =>
          held[d] = {"section", "view"} /\ Early(d)
    /\ stage[d] \in {"imports", "setup"} => held[d] = {"section", "view", "entry"} /\ Early(d)
    /\ stage[d] \in {"entry", "imports", "setup", "init", "initialising"} => ~writable[d]
    /\ stage[d] = "init" => Settled(d, {"section"}) /\ attached[d] = "no"
    /\ stage[d] = "initialising" =>
          Settled(d, {"section"}) /\ entryPoint[d] /\ attached[d] = "no"
    /\ stage[d] \in {"loaded", "detaching"} => Settled(d, {})
    /\ stage[d] = "loaded" => Accepted(d)
    /\ stage[d] = "failed" =>
          linked[d] = {} /\ held[d] = IF fault[d] = "imports" THEN {"view"} ELSE {}
    /\ stage[d] = "gone" => linked[d] = {} /\ held[d] = {}

IInv == TypeOK /\ (\A d \in Dll : StageOK(d)) /\ CrashIsKnown

-------------------------------------------------------------------------------

\* IInv holds before the first load.
LEMMA IInvInit == Init => IInv
<1> SUFFICES ASSUME Init PROVE IInv
  OBVIOUS
<1>1. TypeOK
  <2>1. active \in Seq(Dll)
    BY DEF Init
  <2>2. stage \in [Dll -> InCall \cup AtRest] /\ fault \in [Dll -> AllFaults \cup {"none"}]
    BY DEF Init, AtRest
  <2> QED BY <2>1, <2>2 DEF Init, TypeOK
<1>2. \A d \in Dll : StageOK(d)
  BY DEF Init, StageOK, Early
<1>3. CrashIsKnown
  BY DEF Init, CrashIsKnown
<1> QED BY <1>1, <1>2, <1>3 DEF IInv

\* A step that changes only what belongs to image d leaves the others alone.
LEMMA Others ==
    ASSUME NEW d \in Dll, NEW e \in Dll, e # d, StageOK(e), crashed = FALSE,
           stage'[e] = stage[e], held'[e] = held[e], linked'[e] = linked[e],
           writable'[e] = writable[e], attached'[e] = attached[e],
           entryPoint'[e] = entryPoint[e], fault'[e] = fault[e], epoch' = epoch
    PROVE  StageOK(e)'
  BY DEF StageOK, Early, Settled, Accepted, Full, AllLinks, HasIndexes

\* The parts the actions are made of keep the types of what they change.
LEMMA GoToType ==
    ASSUME TypeOK, NEW d \in Dll, NEW s \in InCall, GoTo(d, s)
    PROVE  /\ stage' \in [Dll -> InCall \cup AtRest]
           /\ active' \in Seq(Dll) /\ crashed' \in BOOLEAN
  BY DEF TypeOK, GoTo

\* Finish keeps the types of the stages and of the stack.
LEMMA FinishType ==
    ASSUME TypeOK, NEW d \in Dll, NEW s \in AtRest, active # <<>>, Finish(d, s)
    PROVE  /\ stage' \in [Dll -> InCall \cup AtRest]
           /\ active' \in Seq(Dll) /\ crashed' \in BOOLEAN
  BY DEF TypeOK, Finish

\* Hold keeps the type of held.
LEMMA HoldType ==
    ASSUME TypeOK, NEW d \in Dll, NEW r \in {"section", "view", "entry", "name"}, Hold(d, r)
    PROVE  /\ held' \in [Dll -> SUBSET Resource]
           /\ \A e \in Dll : "ddag" \in held'[e] => "ddag" \in held[e]
  BY DEF TypeOK, Hold, Resource

\* EntryDestroy keeps the types of all that it changes.
LEMMA EntryDestroyType ==
    ASSUME TypeOK, NEW d \in Dll, NEW s \in AtRest, active # <<>>, EntryDestroy(d, s)
    PROVE  /\ stage' \in [Dll -> InCall \cup AtRest]
           /\ active' \in Seq(Dll) /\ crashed' \in BOOLEAN
           /\ held' \in [Dll -> SUBSET Resource] /\ linked' \in [Dll -> SUBSET Link]
           /\ \A e \in Dll : held'[e] \subseteq held[e] /\ linked'[e] \subseteq linked[e]
<1>1. CASE Crash
  BY <1>1 DEF TypeOK, Crash
<1>2. CASE /\ Finish(d, s) /\ linked' = [linked EXCEPT ![d] = {}]
           /\ held' = [held EXCEPT ![d] = IF "lists" \in linked[d] THEN {} ELSE @ \cap {"view"}]
  BY <1>2, FinishType DEF TypeOK
<1> QED BY <1>1, <1>2 DEF EntryDestroy

\* TypeOK is kept by every step.
LEMMA TypeStep == TypeOK /\ [Next]_vars => TypeOK'
<1> SUFFICES ASSUME TypeOK, [Next]_vars PROVE TypeOK'
  OBVIOUS
<1> USE LdrLoadAssumption, GoToType, FinishType, HoldType, EntryDestroyType
        DEF given, At
<1>1. CASE UNCHANGED vars
  BY <1>1 DEF vars, TypeOK
<1>2. ASSUME NEW d \in Dll, Begin(d) PROVE TypeOK'
  BY <1>2 DEF Begin, TypeOK, InCall
<1>3. ASSUME NEW d \in Dll, CreateSection(d) PROVE TypeOK'
  <2>1. CASE Hold(d, "section") /\ GoTo(d, "view") /\ UNCHANGED fault
    BY <1>3, <2>1 DEF CreateSection, TypeOK, InCall
  <2>2. CASE Fails(d, "section") /\ Finish(d, "failed") /\ UNCHANGED held
    BY <1>3, <2>2 DEF CreateSection, TypeOK, AtRest, Fails
  <2> QED BY <1>3, <2>1, <2>2 DEF CreateSection
<1>4. ASSUME NEW d \in Dll, MapView(d) PROVE TypeOK'
  <2>1. CASE Hold(d, "view") /\ GoTo(d, "link") /\ UNCHANGED fault
    BY <1>4, <2>1 DEF MapView, TypeOK, InCall
  <2>2. CASE Fails(d, "view") /\ Finish(d, "failed") /\ held' = [held EXCEPT ![d] = {}]
    BY <1>4, <2>2 DEF MapView, TypeOK, AtRest, Fails
  <2> QED BY <1>4, <2>1, <2>2 DEF MapView
<1>5. ASSUME NEW d \in Dll, OpenProtection(d) PROVE TypeOK'
  <2>1. CASE /\ GoTo(d, "relocate") /\ UNCHANGED <<held, fault>>
             /\ writable' = [writable EXCEPT ![d] = TRUE]
    BY <1>5, <2>1 DEF OpenProtection, TypeOK, InCall
  <2>2. CASE /\ Fails(d, "protect") /\ Finish(d, "failed") /\ UNCHANGED writable
             /\ held' = [held EXCEPT ![d] = {}]
    BY <1>5, <2>2 DEF OpenProtection, TypeOK, AtRest, Fails
  <2> QED BY <1>5, <2>1, <2>2 DEF OpenProtection
<1>6. ASSUME NEW d \in Dll, Relocate(d) PROVE TypeOK'
  BY <1>6 DEF Relocate, TypeOK, InCall
<1>7. ASSUME NEW d \in Dll, ResetProtection(d) PROVE TypeOK'
  <2>1. CASE /\ GoTo(d, "entry") /\ UNCHANGED <<held, fault>>
             /\ writable' = [writable EXCEPT ![d] = FALSE]
    BY <1>7, <2>1 DEF ResetProtection, TypeOK, InCall
  <2>2. CASE /\ Fails(d, "protect") /\ Finish(d, "failed") /\ UNCHANGED writable
             /\ held' = [held EXCEPT ![d] = {}]
    BY <1>7, <2>2 DEF ResetProtection, TypeOK, AtRest, Fails
  <2> QED BY <1>7, <2>1, <2>2 DEF ResetProtection
<1>8. ASSUME NEW d \in Dll, EntryAlloc(d) PROVE TypeOK'
  <2>1. CASE Hold(d, "entry") /\ GoTo(d, "imports") /\ UNCHANGED <<linked, fault>>
    BY <1>8, <2>1 DEF EntryAlloc, TypeOK, InCall
  <2>2. CASE Fails(d, "entry") /\ Crash
    BY <1>8, <2>2 DEF EntryAlloc, TypeOK, Fails, Crash
  <2> QED BY <1>8, <2>1, <2>2 DEF EntryAlloc
<1>9. ASSUME NEW d \in Dll, ResolveImports(d) PROVE TypeOK'
  <2>0. PICK needs \in SUBSET (Dll \ {d}) :
          \/ /\ bound' = [bound EXCEPT ![d] = needs]
             /\ GoTo(d, "setup")
             /\ UNCHANGED <<held, linked, fault>>
          \/ /\ fault' = [fault EXCEPT ![d] = "imports"]
             /\ EntryDestroy(d, "failed")
             /\ UNCHANGED bound
    BY <1>9 DEF ResolveImports
  <2>1. CASE bound' = [bound EXCEPT ![d] = needs] /\ GoTo(d, "setup")
             /\ UNCHANGED <<held, linked, fault>>
    BY <1>9, <2>1 DEF ResolveImports, TypeOK, InCall
  <2>2. CASE fault' = [fault EXCEPT ![d] = "imports"] /\ EntryDestroy(d, "failed")
             /\ UNCHANGED bound
    BY <1>9, <2>2 DEF ResolveImports, TypeOK, AtRest, AllFaults
  <2> QED BY <2>0, <2>1, <2>2
<1>10. ASSUME NEW d \in Dll, EntrySetup(d) PROVE TypeOK'
  <2>1. CASE linked' = [linked EXCEPT ![d] = AllLinks] /\ UNCHANGED fault /\ GoTo(d, "init")
             /\ SetEntryPoint(d)
             /\ held' = [held EXCEPT ![d] = @ \cup (IF HasIndexes THEN {"name", "ddag"} ELSE {"name"})]
    BY <1>10, <2>1 DEF EntrySetup, TypeOK, InCall, AllLinks, HasIndexes, Link, Resource,
       SetEntryPoint
  <2>2. CASE Fails(d, "name") /\ Crash /\ UNCHANGED entryPoint
    BY <1>10, <2>2 DEF EntrySetup, TypeOK, Fails, Crash
  <2>3. ASSUME NEW l \in {{}, {"baseIndex"}, {"baseIndex", "mappingIndex"}},
               NEW f \in {"index", "ddag"},
               HasIndexes, Fails(d, f), linked' = [linked EXCEPT ![d] = l],
               Hold(d, "name"), GoTo(d, "init"), UNCHANGED entryPoint
        PROVE  TypeOK'
    BY <1>10, <2>3 DEF EntrySetup, TypeOK, InCall, HasIndexes, Link, Fails
  <2> QED BY <1>10, <2>1, <2>2, <2>3 DEF EntrySetup, CopyNameFails
<1>11. ASSUME NEW d \in Dll, CallInit(d) PROVE TypeOK'
  <2>1. CASE GoTo(d, "initialising") /\ UNCHANGED held
    BY <1>11, <2>1 DEF CallInit, TypeOK, InCall
  <2>2. CASE held' = [held EXCEPT ![d] = @ \ {"section"}] /\ Finish(d, "loaded")
    BY <1>11, <2>2 DEF CallInit, TypeOK, AtRest
  <2> QED BY <1>11, <2>1, <2>2 DEF CallInit
<1>12. ASSUME NEW d \in Dll, InitReturns(d) PROVE TypeOK'
  <2>1. CASE /\ attached' = [attached EXCEPT ![d] = "yes"]
             /\ held' = [held EXCEPT ![d] = @ \ {"section"}]
             /\ Finish(d, "loaded") /\ UNCHANGED <<linked, fault>>
    BY <1>12, <2>1 DEF InitReturns, TypeOK, AtRest
  <2>2. CASE /\ Fails(d, "init") /\ attached' = [attached EXCEPT ![d] = "refused"]
             /\ EntryDestroy(d, "failed")
    BY <1>12, <2>2 DEF InitReturns, TypeOK, AtRest, Fails
  <2> QED BY <1>12, <2>1, <2>2 DEF InitReturns
<1>13. ASSUME NEW d \in Dll, Detach(d) PROVE TypeOK'
  BY <1>13 DEF Detach, TypeOK, InCall
<1>14. ASSUME NEW d \in Dll, Destroy(d) PROVE TypeOK'
  BY <1>14 DEF Destroy, TypeOK, AtRest
<1> QED
  BY <1>1, <1>2, <1>3, <1>4, <1>5, <1>6, <1>7, <1>8, <1>9, <1>10, <1>11, <1>12, <1>13,
     <1>14 DEF Next, Load

\* Every variable keeps its type, and nothing of Windows 8 is used below it.
THEOREM TypeCorrect == Spec => []TypeOK
<1>1. Init => TypeOK
  BY IInvInit DEF IInv
<1> QED BY <1>1, TypeStep, PTL DEF Spec

-------------------------------------------------------------------------------
(* A step works on one image *)

\* Nothing that StageOK(e) reads changes for an image e other than d.
Untouched(d) ==
    /\ epoch' = epoch
    /\ \A e \in Dll \ {d} :
          /\ stage'[e] = stage[e] /\ held'[e] = held[e] /\ linked'[e] = linked[e]
          /\ writable'[e] = writable[e] /\ attached'[e] = attached[e]
          /\ entryPoint'[e] = entryPoint[e] /\ fault'[e] = fault[e]

\* What remains to be shown of a step on image d.
StepOK(d) == ~crashed /\ Untouched(d) /\ StageOK(d)' /\ CrashIsKnown'

\* With that, the step keeps the invariant of every image.
LEMMA Frame == ASSUME IInv, NEW d \in Dll, StepOK(d)
               PROVE  (\A e \in Dll : StageOK(e)') /\ CrashIsKnown'
<1>1. ASSUME NEW e \in Dll, e # d PROVE StageOK(e)'
  <2>1. StageOK(e) /\ crashed = FALSE
    BY DEF IInv, StepOK, TypeOK
  <2>2. /\ stage'[e] = stage[e] /\ held'[e] = held[e] /\ linked'[e] = linked[e]
        /\ writable'[e] = writable[e] /\ attached'[e] = attached[e]
        /\ entryPoint'[e] = entryPoint[e] /\ fault'[e] = fault[e] /\ epoch' = epoch
    BY <1>1 DEF StepOK, Untouched
  <2> QED BY <1>1, <2>1, <2>2, Others
<1> QED BY <1>1 DEF StepOK

\* A step that reads no null pointer leaves nothing to explain.
LEMMA NoCrash == ASSUME ~crashed, crashed' = crashed PROVE CrashIsKnown'
  BY DEF CrashIsKnown

\* The start of a load.
LEMMA BeginStep == ASSUME IInv, NEW d \in Dll, Begin(d) PROVE StepOK(d)
<1>1. Untouched(d)
  BY DEF Begin, IInv, TypeOK, Untouched, given
<1>2. StageOK(d)'
  BY DEF Begin, IInv, TypeOK, StageOK, Early
<1> QED BY <1>1, <1>2, NoCrash DEF Begin, StepOK

\* The steps that only allocate or change the protection.
LEMMA CreateSectionStep == ASSUME IInv, NEW d \in Dll, CreateSection(d) PROVE StepOK(d)
<1> USE DEF CreateSection, At, Hold, GoTo, Finish, Fails
<1>1. Untouched(d)
  BY DEF IInv, TypeOK, Untouched, given
<1>2. StageOK(d)'
  <2>1. held[d] = {} /\ Early(d) /\ ~crashed
    BY DEF IInv, StageOK
  <2>2. CASE Hold(d, "section") /\ GoTo(d, "view") /\ UNCHANGED fault
    BY <2>1, <2>2 DEF IInv, TypeOK, StageOK, Early
  <2>3. CASE Fails(d, "section") /\ Finish(d, "failed") /\ UNCHANGED held
    BY <2>1, <2>3 DEF IInv, TypeOK, StageOK, Early
  <2> QED BY <2>2, <2>3
<1> QED BY <1>1, <1>2, NoCrash DEF StepOK

\* Mapping the view, or giving the section back.
LEMMA MapViewStep == ASSUME IInv, NEW d \in Dll, MapView(d) PROVE StepOK(d)
<1> USE DEF MapView, At, Hold, GoTo, Finish, Fails
<1>1. Untouched(d)
  BY DEF IInv, TypeOK, Untouched, given
<1>2. StageOK(d)'
  <2>1. held[d] = {"section"} /\ Early(d) /\ ~crashed
    BY DEF IInv, StageOK
  <2>2. CASE Hold(d, "view") /\ GoTo(d, "link") /\ UNCHANGED fault
    BY <2>1, <2>2 DEF IInv, TypeOK, StageOK, Early
  <2>3. CASE Fails(d, "view") /\ Finish(d, "failed") /\ held' = [held EXCEPT ![d] = {}]
    BY <2>1, <2>3 DEF IInv, TypeOK, StageOK, Early
  <2> QED BY <2>2, <2>3
<1> QED BY <1>1, <1>2, NoCrash DEF StepOK

\* Making the sections writable, or unwinding the view and the section.
LEMMA OpenProtectionStep == ASSUME IInv, NEW d \in Dll, OpenProtection(d) PROVE StepOK(d)
<1> USE DEF OpenProtection, At, GoTo, Finish, Fails
<1>1. Untouched(d)
  BY DEF IInv, TypeOK, Untouched, given
<1>2. StageOK(d)'
  <2>1. held[d] = {"section", "view"} /\ Early(d) /\ ~crashed
    BY DEF IInv, StageOK
  <2>2. CASE GoTo(d, "relocate") /\ UNCHANGED <<held, fault>>
    BY <2>1, <2>2 DEF IInv, TypeOK, StageOK, Early
  <2>3. CASE Fails(d, "protect") /\ Finish(d, "failed") /\ held' = [held EXCEPT ![d] = {}]
    BY <2>1, <2>3 DEF IInv, TypeOK, StageOK, Early
  <2> QED BY <2>2, <2>3
<1> QED BY <1>1, <1>2, NoCrash DEF StepOK

\* Relocating, whatever comes of it.
LEMMA RelocateStep == ASSUME IInv, NEW d \in Dll, Relocate(d) PROVE StepOK(d)
<1> USE DEF Relocate, At, GoTo
<1>1. Untouched(d)
  BY DEF IInv, TypeOK, Untouched, given
<1>2. StageOK(d)'
  BY DEF IInv, TypeOK, StageOK, Early
<1> QED BY <1>1, <1>2, NoCrash DEF StepOK

\* Write-protecting the sections, or unwinding.
LEMMA ResetProtectionStep == ASSUME IInv, NEW d \in Dll, ResetProtection(d) PROVE StepOK(d)
<1> USE DEF ResetProtection, At, GoTo, Finish, Fails
<1>1. Untouched(d)
  BY DEF IInv, TypeOK, Untouched, given
<1>2. StageOK(d)'
  <2>1. held[d] = {"section", "view"} /\ Early(d) /\ ~crashed
    BY DEF IInv, StageOK
  <2>2. CASE /\ GoTo(d, "entry") /\ UNCHANGED <<held, fault>>
             /\ writable' = [writable EXCEPT ![d] = FALSE]
    BY <2>1, <2>2 DEF IInv, TypeOK, StageOK, Early
  <2>3. CASE Fails(d, "protect") /\ Finish(d, "failed") /\ held' = [held EXCEPT ![d] = {}]
    BY <2>1, <2>3 DEF IInv, TypeOK, StageOK, Early
  <2> QED BY <2>2, <2>3
<1> QED BY <1>1, <1>2, NoCrash DEF StepOK

\* The steps that may crash: a crash is one of those CrashIsKnown names.
LEMMA EntryAllocStep == ASSUME IInv, NEW d \in Dll, EntryAlloc(d) PROVE StepOK(d)
<1> USE DEF EntryAlloc, At, GoTo, Fails, Hold
<1>1. Untouched(d)
  BY DEF IInv, TypeOK, Untouched, given, Crash
<1>2. held[d] = {"section", "view"} /\ Early(d) /\ ~crashed /\ ~writable[d]
  BY DEF IInv, StageOK
<1>3. CASE Hold(d, "entry") /\ GoTo(d, "imports") /\ UNCHANGED <<linked, fault>>
  <2>1. StageOK(d)'
    BY <1>2, <1>3 DEF IInv, TypeOK, StageOK, Early
  <2> QED BY <1>1, <1>3, <2>1, NoCrash DEF StepOK
<1>4. CASE Fails(d, "entry") /\ Crash
  <2>1. StageOK(d)'
    BY <1>2, <1>4 DEF IInv, TypeOK, StageOK, Early, Crash
  <2>2. CrashIsKnown'
    BY <1>4 DEF IInv, TypeOK, CrashIsKnown, Crash
  <2> QED BY <1>1, <2>1, <2>2 DEF StepOK
<1> QED BY <1>3, <1>4

\* Binding the imports, or destroying an entry that was not set up.
LEMMA ResolveImportsStep == ASSUME IInv, NEW d \in Dll, ResolveImports(d) PROVE StepOK(d)
<1> USE DEF At, GoTo
<1>1. Untouched(d)
  BY DEF ResolveImports, EntryDestroy, Finish, Crash, IInv, TypeOK, Untouched, given
<1>2. /\ held[d] = {"section", "view", "entry"} /\ Early(d) /\ ~crashed /\ ~writable[d]
      /\ stage[d] = "imports" /\ Head(active) = d
  BY DEF ResolveImports, IInv, StageOK
<1>3. UNCHANGED <<writable, given, entryPoint, attached>>
  BY DEF ResolveImports, given
<1>4. CASE GoTo(d, "setup") /\ UNCHANGED <<held, linked, fault>>
  <2>1. StageOK(d)'
    BY <1>2, <1>3, <1>4 DEF IInv, TypeOK, StageOK, Early
  <2> QED BY <1>1, <1>2, <1>4, <2>1, NoCrash DEF StepOK
<1>5. CASE fault' = [fault EXCEPT ![d] = "imports"] /\ EntryDestroy(d, "failed")
  <2>1. CASE Crash /\ epoch # "nt5"
    <3>1. StageOK(d)'
      BY <1>2, <1>3, <1>5, <2>1 DEF IInv, TypeOK, StageOK, Early, Crash
    <3>2. CrashIsKnown'
      BY <1>2, <1>3, <1>5, <2>1 DEF IInv, TypeOK, CrashIsKnown, Crash, given
    <3> QED BY <1>1, <1>2, <3>1, <3>2 DEF StepOK
  <2>2. CASE /\ linked' = [linked EXCEPT ![d] = {}] /\ Finish(d, "failed")
             /\ held' = [held EXCEPT ![d] = IF "lists" \in linked[d] THEN {} ELSE @ \cap {"view"}]
    <3>1. held'[d] = {"view"} /\ linked'[d] = {}
      BY <1>2, <2>2 DEF IInv, TypeOK, Early
    <3>2. StageOK(d)'
      BY <1>2, <1>3, <1>5, <2>2, <3>1 DEF IInv, TypeOK, StageOK, Early, Finish
    <3> QED BY <1>1, <1>2, <2>2, <3>2, NoCrash DEF StepOK, Finish
  <2> QED BY <1>5, <2>1, <2>2 DEF EntryDestroy, HasIndexes
<1> QED BY <1>4, <1>5 DEF ResolveImports

\* Setting the entry up, all of it or cut short.
LEMMA EntrySetupStep == ASSUME IInv, NEW d \in Dll, EntrySetup(d) PROVE StepOK(d)
<1> USE DEF At, GoTo, Fails, Hold
<1>1. Untouched(d)
  BY DEF EntrySetup, CopyNameFails, SetEntryPoint, Crash, IInv, TypeOK, Untouched, given
<1>2. /\ held[d] = {"section", "view", "entry"} /\ Early(d) /\ ~crashed /\ ~writable[d]
      /\ stage[d] = "setup" /\ Head(active) = d
  BY DEF EntrySetup, IInv, StageOK
<1>3. UNCHANGED <<writable, given, attached>>
  BY DEF EntrySetup, given
<1>4. CASE /\ linked' = [linked EXCEPT ![d] = AllLinks] /\ GoTo(d, "init") /\ UNCHANGED fault
           /\ held' = [held EXCEPT ![d] = @ \cup (IF HasIndexes THEN {"name", "ddag"} ELSE {"name"})]
  <2>1. Settled(d, {"section"})'
    BY <1>2, <1>3, <1>4 DEF IInv, TypeOK, Settled, Early, Full, AllLinks, HasIndexes, given
  <2>2. StageOK(d)'
    BY <1>2, <1>3, <1>4, <2>1 DEF IInv, TypeOK, StageOK, Early
  <2> QED BY <1>1, <1>2, <1>4, <2>2, NoCrash DEF StepOK
<1>5. CASE Fails(d, "name") /\ Crash /\ UNCHANGED entryPoint
  <2>1. StageOK(d)'
    BY <1>2, <1>3, <1>5 DEF IInv, TypeOK, StageOK, Early, Crash
  <2>2. CrashIsKnown'
    BY <1>2, <1>5 DEF IInv, TypeOK, CrashIsKnown, Crash
  <2> QED BY <1>1, <1>2, <2>1, <2>2 DEF StepOK
<1>6. ASSUME NEW l \in {{}, {"baseIndex"}, {"baseIndex", "mappingIndex"}},
             NEW f \in {"index", "ddag"},
             HasIndexes, Fails(d, f), linked' = [linked EXCEPT ![d] = l],
             Hold(d, "name"), GoTo(d, "init"), UNCHANGED entryPoint
      PROVE  StepOK(d)
  <2>1. Settled(d, {"section"})'
    <3>1. held'[d] = {"view", "entry", "name"} \cup {"section"}
      BY <1>2, <1>6 DEF IInv, TypeOK
    <3>2. fault'[d] = f /\ "lists" \notin linked'[d] /\ attached'[d] = "no" /\ HasIndexes' /\ ~entryPoint'[d]
      BY <1>2, <1>3, <1>6 DEF IInv, TypeOK, Early, HasIndexes, given
    <3> QED BY <3>1, <3>2 DEF Settled
  <2>2. StageOK(d)'
    BY <1>2, <1>3, <1>6, <2>1 DEF IInv, TypeOK, StageOK, Early
  <2> QED BY <1>1, <1>2, <1>6, <2>2, NoCrash DEF StepOK
<1> QED BY <1>4, <1>5, <1>6 DEF EntrySetup, CopyNameFails

\* The entry points: an image without one was not set up to the end.
LEMMA CallInitStep == ASSUME IInv, NEW d \in Dll, CallInit(d) PROVE StepOK(d)
<1> USE DEF CallInit, At, GoTo, Finish
<1>1. Untouched(d)
  BY DEF IInv, TypeOK, Untouched, given
<1>2. /\ Settled(d, {"section"}) /\ attached[d] = "no" /\ ~crashed /\ ~writable[d]
  BY DEF IInv, StageOK
<1>3. CASE entryPoint[d] /\ GoTo(d, "initialising") /\ UNCHANGED held
  <2>1. Settled(d, {"section"})'
    BY <1>2, <1>3 DEF Settled, Full, AllLinks, HasIndexes, given
  <2>2. StageOK(d)'
    BY <1>2, <1>3, <2>1 DEF IInv, TypeOK, StageOK
  <2> QED BY <1>1, <1>3, <2>2, NoCrash DEF StepOK
<1>4. CASE ~entryPoint[d] /\ held' = [held EXCEPT ![d] = @ \ {"section"}]
             /\ Finish(d, "loaded")
  <2>1. held'[d] = held[d] \ {"section"}
    BY <1>4 DEF IInv, TypeOK
  <2>2. Settled(d, {})'
    BY <1>2, <1>4, <2>1 DEF Settled, Full, AllLinks, HasIndexes, given
  <2>3. StageOK(d)'
    BY <1>2, <1>4, <2>2 DEF IInv, TypeOK, StageOK, Accepted
  <2> QED BY <1>1, <1>4, <2>3, NoCrash DEF StepOK
<1> QED BY <1>3, <1>4

\* A complete module is destroyed completely, one without a DDAG node never.
LEMMA DestroyComplete ==
    ASSUME TypeOK, NEW d \in Dll, NEW extra, "ddag" \notin extra,
           Settled(d, extra), NEW next, EntryDestroy(d, next)
    PROVE  \/ /\ fault[d] = "none" /\ held' = [held EXCEPT ![d] = {}]
              /\ linked' = [linked EXCEPT ![d] = {}] /\ Finish(d, next)
           \/ /\ fault[d] \in {"index", "ddag"} /\ HasIndexes /\ Crash
<1>1. CASE fault[d] = "none"
  <2>1. "lists" \in linked[d] /\ (HasIndexes => "ddag" \in held[d])
    BY <1>1 DEF Settled, Full, AllLinks, Link
  <2> QED BY <1>1, <2>1 DEF EntryDestroy
<1>2. CASE fault[d] \in {"index", "ddag"} /\ HasIndexes
  <2>1. "ddag" \notin held[d]
    BY <1>2 DEF Settled
  <2> QED BY <1>2, <2>1 DEF EntryDestroy, HasIndexes
<1> QED BY <1>1, <1>2 DEF Settled

\* The init routine accepts or refuses.
LEMMA InitReturnsStep == ASSUME IInv, NEW d \in Dll, InitReturns(d) PROVE StepOK(d)
<1> USE DEF At
<1>1. Untouched(d)
  BY DEF InitReturns, EntryDestroy, Finish, Fails, Crash, IInv, TypeOK, Untouched, given
<1>2. /\ Settled(d, {"section"}) /\ entryPoint[d] /\ fault[d] = "none" /\ ~crashed /\ TypeOK
      /\ stage[d] = "initialising" /\ UNCHANGED entryPoint
  BY DEF InitReturns, IInv, StageOK, Settled
<1>3. CASE /\ attached' = [attached EXCEPT ![d] = "yes"]
           /\ held' = [held EXCEPT ![d] = @ \ {"section"}]
           /\ Finish(d, "loaded") /\ UNCHANGED <<linked, fault>>
  <2>1. held'[d] = held[d] \ {"section"}
    BY <1>2, <1>3 DEF TypeOK
  <2>2. Settled(d, {})'
    <3>1. held'[d] = Full /\ linked'[d] = AllLinks /\ fault'[d] = "none"
      BY <1>2, <1>3, <2>1 DEF Settled, Full
    <3>2. epoch' = epoch
      BY DEF InitReturns, given
    <3> QED BY <3>1, <3>2 DEF Settled, Full, AllLinks, HasIndexes
  <2>3. StageOK(d)'
    BY <1>2, <1>3, <2>2 DEF TypeOK, StageOK, Accepted, Finish
  <2> QED BY <1>1, <1>2, <1>3, <2>3, NoCrash DEF StepOK, Finish
<1>4. CASE /\ Fails(d, "init") /\ attached' = [attached EXCEPT ![d] = "refused"]
           /\ EntryDestroy(d, "failed")
  <2>1. /\ held' = [held EXCEPT ![d] = {}]
        /\ linked' = [linked EXCEPT ![d] = {}] /\ Finish(d, "failed")
    BY <1>2, <1>4, DestroyComplete
  <2>2. StageOK(d)'
    BY <1>2, <1>4, <2>1 DEF TypeOK, StageOK, Finish, Fails
  <2> QED BY <1>1, <1>2, <2>1, <2>2, NoCrash DEF StepOK, Finish
<1> QED BY <1>3, <1>4 DEF InitReturns

\* A loaded module is being unloaded.
LEMMA DetachStep == ASSUME IInv, NEW d \in Dll, Detach(d) PROVE StepOK(d)
<1>1. Untouched(d)
  BY DEF Detach, IInv, TypeOK, Untouched, given
<1>2. Settled(d, {})
  BY DEF Detach, IInv, StageOK
<1>3. Settled(d, {})'
  BY <1>2 DEF Detach, IInv, TypeOK, Settled, Full, AllLinks, HasIndexes, given
<1>4. StageOK(d)'
  BY <1>3 DEF Detach, IInv, TypeOK, StageOK
<1> QED BY <1>1, <1>4, NoCrash DEF Detach, StepOK

\* The entry of an unloaded module is destroyed.
LEMMA DestroyStep == ASSUME IInv, NEW d \in Dll, Destroy(d) PROVE StepOK(d)
<1> USE DEF At
<1>1. Untouched(d)
  BY DEF Destroy, EntryDestroy, Finish, Crash, IInv, TypeOK, Untouched, given
<1>2. /\ Settled(d, {}) /\ ~crashed /\ TypeOK
      /\ stage[d] = "detaching" /\ Head(active) = d
  BY DEF Destroy, IInv, StageOK
<1>3. UNCHANGED <<writable, given, entryPoint, attached, fault>>
  BY DEF Destroy, given
<1>4. CASE /\ held' = [held EXCEPT ![d] = {}]
           /\ linked' = [linked EXCEPT ![d] = {}] /\ Finish(d, "gone")
  <2>1. StageOK(d)'
    BY <1>2, <1>4 DEF TypeOK, StageOK, Finish
  <2> QED BY <1>1, <1>2, <1>4, <2>1, NoCrash DEF StepOK, Finish
<1>5. CASE fault[d] \in {"index", "ddag"} /\ HasIndexes /\ Crash
  <2>1. StageOK(d)'
    BY <1>2, <1>3, <1>5 DEF StageOK, Crash, Settled, Full, AllLinks, HasIndexes, given
  <2>2. CrashIsKnown'
    BY <1>2, <1>3, <1>5 DEF CrashIsKnown, Crash, HasIndexes, given
  <2> QED BY <1>1, <1>2, <2>1, <2>2 DEF StepOK
<1> QED BY <1>2, <1>4, <1>5, DestroyComplete DEF Destroy

-------------------------------------------------------------------------------

\* IInv is inductive.
LEMMA IInvStep == IInv /\ [Next]_vars => IInv'
<1> SUFFICES ASSUME IInv, [Next]_vars PROVE IInv'
  OBVIOUS
<1>1. TypeOK'
  BY TypeStep DEF IInv
<1>2. CASE UNCHANGED vars
  <2>1. ASSUME NEW d \in Dll PROVE StageOK(d)'
    <3>1. StageOK(d)
      BY DEF IInv
    <3> QED BY <1>2, <3>1 DEF vars, StageOK, Early, Settled, Accepted, Full, AllLinks,
           HasIndexes
  <2>2. CrashIsKnown'
    BY <1>2 DEF vars, IInv, CrashIsKnown, HasIndexes
  <2> QED BY <1>1, <2>1, <2>2 DEF IInv
<1>3. ASSUME NEW d \in Dll, Begin(d) \/ Load(d) \/ Detach(d) \/ Destroy(d) PROVE IInv'
  <2>1. StepOK(d)
    BY <1>3, BeginStep, CreateSectionStep, MapViewStep, OpenProtectionStep, RelocateStep,
       ResetProtectionStep, EntryAllocStep, ResolveImportsStep, EntrySetupStep,
       CallInitStep, InitReturnsStep, DetachStep, DestroyStep DEF Load
  <2> QED BY <1>1, <2>1, Frame DEF IInv
<1> QED BY <1>2, <1>3 DEF Next

\* The invariant holds in every reachable state: what LdrLoad holds, links and has told a module follows from its stage.
THEOREM IInvHolds == Spec => []IInv
<1> QED BY IInvInit, IInvStep, PTL DEF Spec

\* Nothing stays allocated after a failed load or an unload, but for the view
\* that a failed import leaks below 6.0.
THEOREM HeldAtRestHolds == Spec => []HeldAtRest
<1>1. IInv => HeldAtRest
  <2> SUFFICES ASSUME IInv, NEW d \in Dll
               PROVE  /\ stage[d] \in {"absent", "gone"} => held[d] = {}
                      /\ stage[d] = "failed" =>
                            held[d] = IF fault[d] = "imports" THEN {"view"} ELSE {}
                      /\ stage[d] = "loaded" =>
                            held[d] = {"view", "entry", "name"}
                              \cup (IF HasIndexes /\ fault[d] = "none" THEN {"ddag"} ELSE {})
    BY DEF HeldAtRest
  <2>1. StageOK(d)
    BY DEF IInv
  <2> QED BY <2>1 DEF StageOK, Settled, Full
<1> QED BY <1>1, IInvHolds, PTL

\* No list or tree of the loader points to a freed entry or an unmapped view.
THEOREM LinkedEntriesAreLiveHolds == Spec => []LinkedEntriesAreLive
<1>1. IInv => LinkedEntriesAreLive
  <2> SUFFICES ASSUME IInv, NEW d \in Dll, linked[d] # {}
               PROVE  {"view", "entry"} \subseteq held[d]
    BY DEF LinkedEntriesAreLive
  <2>1. StageOK(d) /\ stage[d] \in InCall \cup AtRest
    BY DEF IInv, TypeOK
  <2>2. stage[d] \in {"init", "initialising", "loaded", "detaching"}
    BY <2>1 DEF StageOK, Early, InCall, AtRest
  <2>3. Settled(d, {"section"}) \/ Settled(d, {})
    BY <2>1, <2>2 DEF StageOK
  <2> QED BY <2>3 DEF Settled, Full
<1> QED BY <1>1, IInvHolds, PTL

\* A module reported as loaded is found everywhere or was cut short.
THEOREM LoadedIsFoundHolds == Spec => []LoadedIsFound
<1>1. IInv => LoadedIsFound
  BY DEF IInv, StageOK, Settled, LoadedIsFound, Findable
<1> QED BY <1>1, IInvHolds, PTL

\* The crashes are the ones CrashIsKnown lists.
THEOREM CrashIsKnownHolds == Spec => []CrashIsKnown
<1>1. IInv => CrashIsKnown
  BY DEF IInv
<1> QED BY <1>1, IInvHolds, PTL

\* An init routine attaches once, and detaches only after it accepted: in a
\* loaded module the entry point tells whether it did.
THEOREM AttachOnceHolds == Spec => AttachOnce
<1> DEFINE Decided(d) ==
        \/ attached[d] = "no" /\ attached'[d] \in {"yes", "refused"} /\ Findable(d)
        \/ attached[d] = "yes" /\ attached'[d] = "detached" /\ Findable(d)
<1>1. ASSUME IInv, NEW e \in Dll, Begin(e) \/ Load(e) \/ Detach(e) \/ Destroy(e)
      PROVE  \A d \in Dll : attached'[d] # attached[d] => Decided(d)
  <2>1. CASE InitReturns(e)
    <3>1. attached[e] = "no" /\ Findable(e)
      BY <1>1, <2>1 DEF IInv, StageOK, Settled, AllLinks, Link, Findable, InitReturns, At
    <3> QED BY <1>1, <2>1, <3>1 DEF IInv, TypeOK, InitReturns
  <2>2. CASE Detach(e)
    <3>1. entryPoint[e] => attached[e] = "yes" /\ Findable(e)
      BY <1>1, <2>2 DEF IInv, StageOK, Settled, Accepted, AllLinks, Link, Findable, Detach
    <3> QED BY <1>1, <2>2, <3>1 DEF IInv, TypeOK, Detach
  <2>3. CASE UNCHANGED attached
    BY <2>3
  <2>4. UNCHANGED attached \/ InitReturns(e) \/ Detach(e)
    BY <1>1 DEF Load, Begin, CreateSection, MapView, OpenProtection, Relocate,
       ResetProtection, EntryAlloc, ResolveImports, EntrySetup, CallInit, Destroy
  <2> QED BY <2>1, <2>2, <2>3, <2>4
<1>2. IInv /\ [Next]_vars => [\A d \in Dll : attached'[d] # attached[d] => Decided(d)]_vars
  BY <1>1 DEF Next
<1> QED BY <1>2, IInvHolds, PTL DEF Spec, AttachOnce

-------------------------------------------------------------------------------
(* Import tables and the views they point into *)

\* The stages in which the loader's own code works on an image: no init
\* routine of it runs, so no other call can start.
Working(d) == \/ stage[d] \in InCall \ {"initialising", "detaching"}
              \/ stage[d] = "detaching" /\ ~entryPoint[d]

\* The image worked on is that of the innermost call.
TopOfStack == \A e \in Dll : Working(e) => active # <<>> /\ Head(active) = e

\* A module that can be found is in one of these stages, and mapped.
Present(e) == stage[e] \in {"init", "initialising", "loaded", "detaching"}

\* What an import table may point into.
Bindable(e) ==
    \/ Present(e) \/ stage[e] = "gone"
    \/ stage[e] = "failed" /\ attached[e] = "refused"

\* An import was bound to a module that was present, and between the binding
\* and the call of the init routine that module stays.
BoundOK ==
    \A d \in Dll : \A e \in bound[d] :
        /\ e # d /\ Bindable(e)
        /\ stage[d] \in {"setup", "init"} => Present(e)

BInv == IInv /\ TopOfStack /\ BoundOK

\* A step on image d leaves the others alone.
LEMMA StepUntouched ==
    ASSUME IInv, NEW d \in Dll, Begin(d) \/ Load(d) \/ Detach(d) \/ Destroy(d)
    PROVE  Untouched(d)
  BY BeginStep, CreateSectionStep, MapViewStep, OpenProtectionStep, RelocateStep,
     ResetProtectionStep, EntryAllocStep, ResolveImportsStep, EntrySetupStep,
     CallInitStep, InitReturnsStep, DetachStep, DestroyStep DEF Load, StepOK

\* The loader works on the image of the innermost call, and if it goes on
\* working on it the stack of calls stays.
LEMMA WorkStep ==
    ASSUME IInv, NEW d \in Dll, Load(d) \/ Destroy(d)
    PROVE  /\ active # <<>> /\ Head(active) = d
           /\ UNCHANGED active \/ stage'[d] \in AtRest
<1> USE DEF At, GoTo, Finish, EntryDestroy, Crash, AtRest
<1>1. CASE CreateSection(d) \/ MapView(d) \/ OpenProtection(d)
  BY <1>1 DEF CreateSection, MapView, OpenProtection, IInv, TypeOK
<1>2. CASE Relocate(d) \/ ResetProtection(d) \/ EntryAlloc(d)
  BY <1>2 DEF Relocate, ResetProtection, EntryAlloc, IInv, TypeOK
<1>3. CASE ResolveImports(d) \/ EntrySetup(d)
  BY <1>3 DEF ResolveImports, EntrySetup, CopyNameFails, IInv, TypeOK
<1>4. CASE CallInit(d) \/ InitReturns(d) \/ Destroy(d)
  BY <1>4 DEF CallInit, InitReturns, Destroy, IInv, TypeOK
<1> QED BY <1>1, <1>2, <1>3, <1>4 DEF Load

\* Every step keeps TopOfStack.
LEMMA TopOfStackStep == ASSUME IInv, TopOfStack, [Next]_vars PROVE TopOfStack'
<1>1. CASE UNCHANGED vars
  BY <1>1 DEF vars, TopOfStack, Working
<1>2. ASSUME NEW d \in Dll, Begin(d) \/ Load(d) \/ Detach(d) \/ Destroy(d),
             NEW e \in Dll, Working(e)'
      PROVE  active' # <<>> /\ Head(active') = e
  <2>1. CASE e # d
    <3>1. active # <<>> /\ Head(active) = e /\ Working(e)
      BY <1>2, <2>1, StepUntouched DEF Untouched, TopOfStack, Working
    <3>2. ~CanCall
      BY <3>1 DEF CanCall, InitRoutineRuns, Working, InCall
    <3>3. Load(d) \/ Destroy(d)
      BY <1>2, <3>2 DEF Begin, Detach
    <3> QED BY <2>1, <3>1, <3>3, WorkStep
  <2>2. CASE e = d /\ (Begin(d) \/ Detach(d))
    <3>1. active' = <<d>> \o active /\ active \in Seq(Dll)
      BY <2>2 DEF Begin, Detach, IInv, TypeOK
    <3> QED BY <2>2, <3>1
  <2>3. CASE e = d /\ (Load(d) \/ Destroy(d))
    <3>1. stage'[d] \notin AtRest
      BY <1>2, <2>3 DEF Working, InCall, AtRest
    <3> QED BY <2>3, <3>1, WorkStep
  <2> QED BY <1>2, <2>1, <2>2, <2>3
<1> QED BY <1>1, <1>2 DEF Next, TopOfStack

\* A step on an image that import tables point into leaves it bindable.
LEMMA BindableStep ==
    ASSUME IInv, NEW d \in Dll, Begin(d) \/ Load(d) \/ Detach(d) \/ Destroy(d), Bindable(d)
    PROVE  Bindable(d)'
<1> USE DEF Bindable, Present, At, GoTo, Finish, Crash
<1>1. CASE Begin(d)
  BY <1>1 DEF Begin
<1>2. CASE Detach(d)
  BY <1>2 DEF Detach, IInv, TypeOK
<1>3. CASE Destroy(d)
  BY <1>3 DEF Destroy, EntryDestroy, IInv, TypeOK
<1>4. CASE CallInit(d)
  BY <1>4 DEF CallInit, IInv, TypeOK
<1>5. CASE InitReturns(d)
  <2>1. CASE Finish(d, "loaded")
    BY <2>1 DEF IInv, TypeOK
  <2>2. CASE attached' = [attached EXCEPT ![d] = "refused"] /\ EntryDestroy(d, "failed")
    BY <1>5, <2>2 DEF EntryDestroy, InitReturns, IInv, TypeOK
  <2> QED BY <1>5, <2>1, <2>2 DEF InitReturns
<1>6. CASE stage[d] \notin {"init", "initialising", "loaded", "detaching", "gone", "failed"}
  BY <1>6
<1> QED
  BY <1>1, <1>2, <1>3, <1>4, <1>5, <1>6 DEF Load, CreateSection, MapView, OpenProtection,
     Relocate, ResetProtection, EntryAlloc, ResolveImports, EntrySetup

\* Only the resolution of the imports binds, and only to modules that are there.
LEMMA BindStep ==
    ASSUME IInv, NEW d \in Dll, ResolveImports(d), NEW e \in bound'[d], e \notin bound[d]
    PROVE  e # d /\ Present(e)'
<1> USE DEF At, GoTo
<1>1. PICK needs \in SUBSET (Dll \ {d}) :
         (\A x \in needs : Findable(x)) /\ bound' = [bound EXCEPT ![d] = needs] /\ GoTo(d, "setup")
  BY DEF ResolveImports
<1>2. e \in Dll /\ e # d /\ Findable(e) /\ StageOK(e)
  BY <1>1 DEF IInv, TypeOK
<1>3. Present(e)
  BY <1>2 DEF IInv, TypeOK, StageOK, Early, Findable, InCall, AtRest, Present
<1>4. stage'[e] = stage[e]
  BY <1>1, <1>2 DEF IInv, TypeOK
<1> QED BY <1>2, <1>3, <1>4 DEF Present

\* Every step keeps BoundOK.
LEMMA BoundOKStep == ASSUME BInv, [Next]_vars PROVE BoundOK'
<1>1. CASE UNCHANGED vars
  BY <1>1 DEF vars, BInv, BoundOK, Bindable, Present
<1>2. ASSUME NEW d \in Dll, Begin(d) \/ Load(d) \/ Detach(d) \/ Destroy(d),
             NEW c \in Dll, NEW e \in bound'[c]
      PROVE  /\ e # c /\ Bindable(e)'
             /\ stage'[c] \in {"setup", "init"} => Present(e)'
  <2>1. Untouched(d) /\ IInv
    BY <1>2, StepUntouched DEF BInv
  <2>2. \/ UNCHANGED bound
        \/ ResolveImports(d) /\ \A x \in Dll \ {d} : bound'[x] = bound[x]
    BY <1>2, <2>1 DEF Load, Begin, CreateSection, MapView, OpenProtection, Relocate,
       ResetProtection, EntryAlloc, ResolveImports, EntrySetup, CallInit, InitReturns,
       Detach, Destroy, IInv, TypeOK
  <2>3. CASE e \notin bound[c]
    <3>1. c = d /\ ResolveImports(d)
      BY <2>2, <2>3
    <3> QED BY <2>1, <2>3, <3>1, BindStep DEF Bindable
  <2>4. CASE e \in bound[c]
    <3>1. e \in Dll /\ e # c /\ Bindable(e) /\ (stage[c] \in {"setup", "init"} => Present(e))
      BY <2>1, <2>4 DEF BInv, BoundOK, IInv, TypeOK
    <3>2. Bindable(e)'
      <4>1. CASE e = d
        BY <1>2, <2>1, <3>1, <4>1, BindableStep
      <4>2. CASE e # d
        BY <2>1, <3>1, <4>2 DEF Untouched, Bindable, Present
      <4> QED BY <4>1, <4>2
    <3>3. ASSUME stage'[c] \in {"setup", "init"} PROVE Present(e)'
      <4>1. CASE c = d
        <5>2. stage[d] \in {"imports", "setup"}
          <6> USE DEF At, GoTo, Finish, EntryDestroy, Crash
          <6>1. CASE Begin(d) \/ CreateSection(d) \/ MapView(d) \/ OpenProtection(d)
            BY <2>1, <3>3, <4>1, <6>1 DEF Begin, CreateSection, MapView, OpenProtection, IInv, TypeOK
          <6>2. CASE Relocate(d) \/ ResetProtection(d) \/ EntryAlloc(d)
            BY <2>1, <3>3, <4>1, <6>2 DEF Relocate, ResetProtection, EntryAlloc, IInv, TypeOK
          <6>3. CASE ResolveImports(d) \/ EntrySetup(d)
            BY <6>3 DEF ResolveImports, EntrySetup
          <6>4. CASE CallInit(d) \/ InitReturns(d) \/ Detach(d) \/ Destroy(d)
            BY <2>1, <3>3, <4>1, <6>4 DEF CallInit, InitReturns, Detach, Destroy, IInv, TypeOK
          <6> QED BY <1>2, <6>1, <6>2, <6>3, <6>4 DEF Load
        <5>3. CASE stage[d] = "setup"
          BY <2>1, <3>1, <4>1, <5>3 DEF Untouched, Present
        <5>4. CASE stage[d] = "imports"
          <6>1. PICK needs \in SUBSET (Dll \ {d}) :
                   (\A x \in needs : Findable(x)) /\ bound' = [bound EXCEPT ![d] = needs]
            BY <1>2, <2>1, <3>3, <4>1, <5>4 DEF Load, Begin, CreateSection, MapView,
               OpenProtection, Relocate, ResetProtection, EntryAlloc, ResolveImports,
               EntrySetup, CallInit, InitReturns, Detach, Destroy, EntryDestroy, Finish,
               Crash, At, IInv, TypeOK
          <6>2. Findable(e) /\ StageOK(e)
            BY <2>1, <3>1, <4>1, <6>1, <1>2 DEF IInv, TypeOK
          <6>3. Present(e)
            BY <2>1, <3>1, <6>2 DEF IInv, TypeOK, StageOK, Early, Findable, InCall, AtRest, Present
          <6> QED BY <2>1, <3>1, <4>1, <6>3 DEF Untouched, Present
        <5> QED BY <5>2, <5>3, <5>4
      <4>2. CASE c # d
        <5>1. stage[c] \in {"setup", "init"} /\ Present(e)
          BY <2>1, <3>1, <3>3, <4>2 DEF Untouched
        <5>2. active # <<>> /\ Head(active) = c
          BY <1>2, <5>1 DEF BInv, TopOfStack, Working, InCall
        <5>3. ~CanCall
          BY <5>1, <5>2 DEF CanCall, InitRoutineRuns
        <5>4. Load(d) \/ Destroy(d)
          BY <1>2, <5>3 DEF Begin, Detach
        <5> QED BY <2>1, <4>2, <5>2, <5>4, WorkStep
      <4> QED BY <4>1, <4>2
    <3> QED BY <3>1, <3>2, <3>3
  <2> QED BY <2>3, <2>4
<1> QED BY <1>1, <1>2 DEF Next, BoundOK

\* BInv holds in every reachable state: the code of the loader works on the
\* innermost image only, and imports point where they may.
THEOREM BInvHolds == Spec => []BInv
<1>1. Init => BInv
  BY IInvInit DEF Init, BInv, TopOfStack, Working, InCall, BoundOK
<1>2. BInv /\ [Next]_vars => BInv'
  BY IInvStep, TopOfStackStep, BoundOKStep DEF BInv
<1> QED BY <1>1, <1>2, PTL DEF Spec

\* A module in one of these stages is mapped.
LEMMA PresentIsMapped ==
    ASSUME IInv, NEW e \in Dll, Present(e) PROVE "view" \in held[e]
<1>1. StageOK(e)
  BY DEF IInv
<1> QED BY <1>1 DEF StageOK, Settled, Full, Present

\* An import dangles only if its module was unloaded by its own loader, or
\* refused in the init routine that was running when the import was bound.
THEOREM DanglingIsKnownHolds == Spec => []DanglingIsKnown
<1>1. BInv => DanglingIsKnown
  <2> SUFFICES ASSUME BInv, NEW d \in Dll, NEW e \in bound[d], "view" \notin held[e]
               PROVE  stage[e] = "gone" \/ (stage[e] = "failed" /\ attached[e] = "refused")
    BY DEF DanglingIsKnown
  <2>1. e \in Dll /\ Bindable(e)
    BY DEF BInv, BoundOK, IInv, TypeOK
  <2> QED BY <2>1, PresentIsMapped DEF Bindable, BInv
<1> QED BY <1>1, BInvHolds, PTL

\* An init routine is entered with the image protected and linked and every
\* import pointing into a mapped view, however deeply the load is nested.
THEOREM InitWhenReadyHolds == Spec => InitWhenReady
<1> DEFINE Ready(d) == /\ ~writable'[d] /\ linked'[d] = AllLinks
                       /\ \A e \in bound'[d] : "view" \in held'[e]
           Enters(d) == stage[d] # "initialising" /\ stage'[d] = "initialising"
<1>1. ASSUME BInv, NEW c \in Dll, Begin(c) \/ Load(c) \/ Detach(c) \/ Destroy(c),
             NEW d \in Dll, Enters(d)
      PROVE  Ready(d)
  <2>1. IInv /\ Untouched(c)
    BY <1>1, StepUntouched DEF BInv
  <2>2. c = d
    BY <1>1, <2>1 DEF Untouched
  <2>3. CallInit(d)
    <3> USE DEF At, GoTo, Finish, EntryDestroy, Crash
    <3>1. CASE Begin(d) \/ CreateSection(d) \/ MapView(d) \/ OpenProtection(d)
      BY <1>1, <2>1, <3>1 DEF Begin, CreateSection, MapView, OpenProtection, IInv, TypeOK
    <3>2. CASE Relocate(d) \/ ResetProtection(d) \/ EntryAlloc(d) \/ InitReturns(d)
      BY <1>1, <2>1, <3>2 DEF Relocate, ResetProtection, EntryAlloc, InitReturns, IInv, TypeOK
    <3>3. CASE ResolveImports(d) \/ EntrySetup(d)
      BY <1>1, <2>1, <3>3 DEF ResolveImports, EntrySetup, CopyNameFails, IInv, TypeOK
    <3>4. CASE Detach(d) \/ Destroy(d)
      BY <1>1, <2>1, <3>4 DEF Detach, Destroy, IInv, TypeOK
    <3> QED BY <1>1, <2>2, <3>1, <3>2, <3>3, <3>4 DEF Load
  <2>4. \A e \in Dll : StageOK(e)'
    BY <1>1, IInvStep DEF BInv, IInv, Next
  <2>5. UNCHANGED <<epoch, bound>> /\ stage[d] = "init"
    BY <2>3 DEF CallInit, given, At
  <2>6. ~writable'[d] /\ linked'[d] = AllLinks
    BY <1>1, <2>4, <2>5 DEF StageOK, Settled, AllLinks, HasIndexes
  <2>7. ASSUME NEW e \in bound'[d] PROVE "view" \in held'[e]
    <3>1. e \in Dll /\ Present(e) /\ e # d
      <4>1. e \in bound[d] /\ e \in Dll
        BY <1>1, <2>5, <2>7 DEF BInv, IInv, TypeOK
      <4> QED BY <1>1, <2>5, <4>1 DEF BInv, BoundOK
    <3>2. Present(e)'
      BY <2>1, <2>2, <3>1 DEF Untouched, Present
    <3>3. StageOK(e)'
      BY <2>4, <3>1
    <3> QED BY <3>2, <3>3 DEF Present, StageOK, Settled, Full
  <2> QED BY <2>6, <2>7
<1>2. BInv /\ [Next]_vars =>
         [\A d \in Dll : stage[d] # "initialising" /\ stage'[d] = "initialising" =>
             /\ ~writable'[d]
             /\ linked'[d] = AllLinks
             /\ \A e \in bound'[d] : "view" \in held'[e]]_vars
  BY <1>1 DEF Next
<1> QED BY <1>2, BInvHolds, PTL DEF Spec, InitWhenReady
===============================================================================
