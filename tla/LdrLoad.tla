-------------------------------- MODULE LdrLoad --------------------------------
(***************************************************************************)
(* The memory loader of win-polyfill-core/loader.h: LdrLoadDllMemoryNoLock *)
(* builds a module from an image in memory, step by step, and              *)
(* LdrEntryDetach takes one down.  Each step may fail; what is unwound     *)
(* depends on how far the load came and on the Windows version.            *)
(*                                                                         *)
(* The functions are "NoLock": their callers hold the loader lock, so one  *)
(* call makes progress at a time.  But init routines (DllMain) may load    *)
(* and unload other modules, so calls nest: active is the stack of them.   *)
(***************************************************************************)
EXTENDS Naturals, Sequences, FiniteSets

CONSTANTS Dll,           \* the images to load; each is loaded once at most
          Epochs,        \* the families of Windows versions: subset of AllEpochs
          Relocs,        \* what images may look like: subset of
                         \* {"good", "bad", "none", "stripped"}
          Faults         \* the calls that may fail

\* The version tests of loader.h tell four families apart:
\* below 6.0; 6.0 and 6.1; 6.2 and 6.3; 10.0 and up.
AllEpochs == {"nt5", "nt6", "win8", "win10"}

\* section, view, protect, imports: the NT and loader calls of the load;
\* entry, name, index, ddag: allocations and tree insertions of the setup;
\* init: the init routine refuses.
AllFaults == {"section", "view", "protect", "entry", "imports", "name",
              "index", "ddag", "init"}

ASSUME LdrLoadAssumption ==
    /\ Epochs \subseteq AllEpochs
    /\ Relocs \subseteq {"good", "bad", "none", "stripped"}
    /\ Faults \subseteq AllFaults

VARIABLES
    epoch,     \* the family the process runs on (SystemVersion), fixed
    stage,     \* where the load of each image is
    active,    \* the calls in progress, innermost first
    held,      \* what each load has allocated and not released
    linked,    \* the loader structures that point to each entry
    writable,  \* whether the read-only sections are writable
    relocated, \* whether the fixups were applied, all of them
    relocs,    \* the kind of each image, fixed by the caller
    bound,     \* the modules each image's import table points into
    entryPoint,\* whether the entry has the address of an init routine
    attached,  \* history: what the init routine was told and said: "no", "yes",
               \* "refused", "detached"
    fault,     \* history: the call that failed in each load, "none" if none
    crashed    \* the process is gone: a null pointer was dereferenced

vars == <<epoch, stage, active, held, linked, writable, relocated, relocs, bound,
          entryPoint, attached, fault, crashed>>

given == <<epoch, relocs>>

Resource == {"section", "view", "entry", "name", "ddag"}
Link     == {"lists", "baseIndex", "mappingIndex"}

\* Windows 8 and later keep modules in two red-black trees as well, and give
\* each a DDAG node.
HasIndexes == epoch \in {"win8", "win10"}
AllLinks   == IF HasIndexes THEN Link ELSE {"lists"}

InCall  == {"section", "view", "link", "relocate", "reset", "entry", "imports",
            "setup", "init", "initialising", "detaching"}
AtRest  == {"absent", "loaded", "failed", "gone"}

Init == /\ epoch \in Epochs
        /\ stage = [d \in Dll |-> "absent"]
        /\ active = <<>>
        /\ held = [d \in Dll |-> {}]
        /\ linked = [d \in Dll |-> {}]
        /\ writable = [d \in Dll |-> TRUE]
        /\ relocated = [d \in Dll |-> FALSE]
        /\ relocs \in [Dll -> Relocs]
        /\ bound = [d \in Dll |-> {}]
        /\ entryPoint = [d \in Dll |-> FALSE]
        /\ attached = [d \in Dll |-> "no"]
        /\ fault = [d \in Dll |-> "none"]
        /\ crashed = FALSE

-------------------------------------------------------------------------------
(* Parts of the steps *)

\* A new call starts from outside, or from an init routine that runs.
InitRoutineRuns(d) == \/ stage[d] = "initialising"
                      \/ stage[d] = "detaching" /\ entryPoint[d]
CanCall == active # <<>> => InitRoutineRuns(Head(active))

\* Only the innermost call runs.
At(d, s) == ~crashed /\ active # <<>> /\ Head(active) = d /\ stage[d] = s

GoTo(d, s) == stage' = [stage EXCEPT ![d] = s] /\ UNCHANGED <<active, crashed>>

Finish(d, s) == /\ stage' = [stage EXCEPT ![d] = s]
                /\ active' = Tail(active)
                /\ UNCHANGED crashed

Hold(d, r) == held' = [held EXCEPT ![d] = @ \cup {r}]

Fails(d, f) == f \in Faults /\ fault' = [fault EXCEPT ![d] = f]

\* A null pointer is dereferenced: nothing happens after this.
Crash == /\ crashed' = TRUE
         /\ UNCHANGED <<stage, active, held, linked>>

\* The module list is searched by name: LdrGetDllHandle finds what is linked.
Findable(d) == "lists" \in linked[d]

\* A plausible bug of EntryDestroy: the index nodes are left in the trees.
EntryDestroy_KeepsIndexes(d, next) ==
    /\ held' = [held EXCEPT ![d] = {}]
    /\ linked' = [linked EXCEPT ![d] = @ \ {"lists"}]
    /\ Finish(d, next)

\* A plausible bug of EntryDestroy: the module's name is not freed.
EntryDestroy_KeepsName(d, next) ==
    /\ held' = [held EXCEPT ![d] = @ \cap {"name"}]
    /\ linked' = [linked EXCEPT ![d] = {}]
    /\ Finish(d, next)

\* LdrEntryDestroy, then the end of the caller (which closes the section).
\* It follows the DDAG node (6.2 and up) or the forwarder list (6.0, 6.1)
\* without a test, and both are null in an entry that was not set up.  The
\* view is found through DllBase, which the setup stores.
EntryDestroy(d, next) ==
    \/ /\ HasIndexes /\ "ddag" \notin held[d]
       /\ Crash
    \/ /\ epoch = "nt6" /\ "lists" \notin linked[d]
       /\ Crash
    \/ /\ HasIndexes => "ddag" \in held[d]
       /\ epoch = "nt6" => "lists" \in linked[d]
       /\ held' = [held EXCEPT ![d] = IF "lists" \in linked[d] THEN {} ELSE @ \cap {"view"}]
       /\ linked' = [linked EXCEPT ![d] = {}]
       /\ Finish(d, next)

-------------------------------------------------------------------------------
(* LdrLoadDllMemoryNoLock *)

\* The call: the image has PE headers, or the call returns at once.
Begin(d) ==
    /\ ~crashed /\ CanCall /\ stage[d] = "absent"
    /\ stage' = [stage EXCEPT ![d] = "section"]
    /\ active' = <<d>> \o active
    /\ UNCHANGED <<held, linked, writable, relocated, given, bound, entryPoint, attached, fault, crashed>>

\* NtCreateSection.
CreateSection(d) ==
    /\ At(d, "section")
    /\ \/ Hold(d, "section") /\ GoTo(d, "view") /\ UNCHANGED fault
       \/ Fails(d, "section") /\ Finish(d, "failed") /\ UNCHANGED held
    /\ UNCHANGED <<linked, writable, relocated, given, bound, entryPoint, attached>>

\* NtMapViewOfSection and the copies of the headers and the sections; the
\* section is closed when the load fails.
MapView(d) ==
    /\ At(d, "view")
    /\ \/ Hold(d, "view") /\ GoTo(d, "link") /\ UNCHANGED fault
       \/ /\ Fails(d, "view") /\ Finish(d, "failed")
          /\ held' = [held EXCEPT ![d] = {}]
    /\ UNCHANGED <<linked, writable, relocated, given, bound, entryPoint, attached>>

\* LdrpLink, first part: LdrpSetProtection(..., FALSE).  The failures of
\* LdrpLink, and a copy without PE headers, find no entry yet: the view is
\* unmapped, the section closed.
OpenProtection(d) ==
    /\ At(d, "link")
    /\ \/ /\ GoTo(d, "relocate")
          /\ writable' = [writable EXCEPT ![d] = TRUE]
          /\ UNCHANGED <<held, fault>>
       \/ /\ Fails(d, "protect") /\ Finish(d, "failed")
          /\ held' = [held EXCEPT ![d] = {}]
          /\ UNCHANGED writable
    /\ UNCHANGED <<linked, relocated, given, bound, entryPoint, attached>>

\* LdrRelocateImage: images without a relocation table are accepted as they
\* are; a malformed block ends the fixups early.  The status of the
\* relocation is overwritten by the second NtMapViewOfSection, and that one's
\* by the assignment "if (st = STATUS_CONFLICTING_ADDRESSES)".
Relocate(d) ==
    /\ At(d, "relocate")
    /\ relocated' = [relocated EXCEPT ![d] = relocs[d] = "good"]
    /\ GoTo(d, "reset")
    /\ UNCHANGED <<held, linked, writable, given, bound, entryPoint, attached, fault>>

\* A plausible bug of ResetProtection: the call is made with FALSE again.
ResetProtection_NoReset(d) ==
    /\ At(d, "reset")
    /\ GoTo(d, "entry")
    /\ UNCHANGED <<held, linked, writable, relocated, given, bound, entryPoint, attached, fault>>

\* LdrpLink, last part: LdrpSetProtection(..., TRUE).
ResetProtection(d) ==
    /\ At(d, "reset")
    /\ \/ /\ GoTo(d, "entry")
          /\ writable' = [writable EXCEPT ![d] = FALSE]
          /\ UNCHANGED <<held, fault>>
       \/ /\ Fails(d, "protect") /\ Finish(d, "failed")
          /\ held' = [held EXCEPT ![d] = {}]
          /\ UNCHANGED writable
    /\ UNCHANGED <<linked, relocated, given, bound, entryPoint, attached>>

\* LdrpEntryAlloc.  A null entry leaves the loop with the status still
\* STATUS_SUCCESS, and the success path reads pNewLdrEntry->DllBase.
EntryAlloc(d) ==
    /\ At(d, "entry")
    /\ \/ Hold(d, "entry") /\ GoTo(d, "imports") /\ UNCHANGED <<linked, fault>>
       \/ Fails(d, "entry") /\ Crash
    /\ UNCHANGED <<writable, relocated, given, bound, entryPoint, attached>>

\* A plausible bug of ResolveImports: a module that is not found is skipped.
ResolveImports_NoLookup(d) ==
    /\ At(d, "imports")
    /\ \E needs \in SUBSET (Dll \ {d}) :
          bound' = [bound EXCEPT ![d] = needs]
    /\ GoTo(d, "setup")
    /\ UNCHANGED <<held, linked, writable, relocated, given, entryPoint, attached, fault>>

\* LdrpResolveImportTable: every imported module must be found by
\* LdrGetDllHandle, which takes no reference, and every procedure in it.
ResolveImports(d) ==
    /\ At(d, "imports")
    /\ \E needs \in SUBSET (Dll \ {d}) :
          \/ /\ \A e \in needs : Findable(e)
             /\ bound' = [bound EXCEPT ![d] = needs]
             /\ GoTo(d, "setup")
             /\ UNCHANGED <<held, linked, fault>>
          \/ /\ \/ \E e \in needs : ~Findable(e)
                \/ "imports" \in Faults
             /\ fault' = [fault EXCEPT ![d] = "imports"]
             /\ EntryDestroy(d, "failed")
             /\ UNCHANGED bound
    /\ UNCHANGED <<writable, relocated, given, entryPoint, attached>>

\* The image has an init routine or has none.
SetEntryPoint(d) == \E has \in BOOLEAN : entryPoint' = [entryPoint EXCEPT ![d] = has]

\* Plausible bugs of EntrySetup: the lists are left for later; a failed
\* allocation is not noticed.
EntrySetup_NoLists(d) ==
    /\ At(d, "setup")
    /\ linked' = [linked EXCEPT ![d] = AllLinks \ {"lists"}]
    /\ held' = [held EXCEPT ![d] = @ \cup (IF HasIndexes THEN {"name", "ddag"} ELSE {"name"})]
    /\ SetEntryPoint(d) /\ GoTo(d, "init")
    /\ UNCHANGED <<writable, relocated, given, bound, attached, fault>>

EntrySetup_NoDdagTest(d) ==
    /\ At(d, "setup")
    /\ linked' = [linked EXCEPT ![d] = AllLinks]
    /\ Hold(d, "name")
    /\ SetEntryPoint(d) /\ GoTo(d, "init")
    /\ UNCHANGED <<writable, relocated, given, bound, attached, fault>>

\* LdrpCopyUnicodeString has no memory for the name, or refuses it: nobody
\* looks at its status, and LdrpResolveBaseDllName reads the null buffer.
CopyNameFails(d) == Fails(d, "name") /\ Crash

\* LdrpEntrySetup: the name is copied, the entry put into the trees (6.2 and
\* up), given a DDAG node, and put into the lists.  A failed insertion or
\* allocation ends LdrpInitializeLdrDataTableEntry, but its FALSE is not
\* looked at: the load goes on with an entry that is in no list and has no
\* entry point.
EntrySetup(d) ==
    /\ At(d, "setup")
    /\ \/ /\ linked' = [linked EXCEPT ![d] = AllLinks]
          /\ held' = [held EXCEPT ![d] = @ \cup (IF HasIndexes THEN {"name", "ddag"} ELSE {"name"})]
          /\ SetEntryPoint(d) /\ GoTo(d, "init")
          /\ UNCHANGED fault
       \/ CopyNameFails(d) /\ UNCHANGED entryPoint
       \/ /\ HasIndexes /\ Fails(d, "index")
          /\ linked' \in {[linked EXCEPT ![d] = l] : l \in {{}, {"baseIndex"}}}
          /\ Hold(d, "name") /\ GoTo(d, "init") /\ UNCHANGED entryPoint
       \/ /\ HasIndexes /\ Fails(d, "ddag")
          /\ linked' = [linked EXCEPT ![d] = {"baseIndex", "mappingIndex"}]
          /\ Hold(d, "name") /\ GoTo(d, "init") /\ UNCHANGED entryPoint
    /\ UNCHANGED <<writable, relocated, given, bound, attached>>

\* CallInitRoutine(..., DLL_PROCESS_ATTACH): an entry without an entry point
\* counts as a success; the call returns and the section is closed.
CallInit(d) ==
    /\ At(d, "init")
    /\ \/ /\ entryPoint[d]
          /\ GoTo(d, "initialising")
          /\ UNCHANGED held
       \/ /\ ~entryPoint[d]
          /\ held' = [held EXCEPT ![d] = @ \ {"section"}]
          /\ Finish(d, "loaded")
    /\ UNCHANGED <<linked, writable, relocated, given, bound, entryPoint, attached, fault>>

\* Plausible bugs of InitReturns: the answer of the init routine is not looked
\* at; the nested call never gives way.
InitReturns_IgnoresRefusal(d) ==
    /\ At(d, "initialising")
    /\ \/ attached' = [attached EXCEPT ![d] = "yes"] /\ UNCHANGED fault
       \/ attached' = [attached EXCEPT ![d] = "refused"] /\ Fails(d, "init")
    /\ held' = [held EXCEPT ![d] = @ \ {"section"}]
    /\ Finish(d, "loaded")
    /\ UNCHANGED <<linked, writable, relocated, given, bound, entryPoint>>

InitReturns_KeepsCall(d) ==
    /\ At(d, "initialising")
    /\ attached' = [attached EXCEPT ![d] = "yes"]
    /\ GoTo(d, "loaded")
    /\ UNCHANGED <<held, linked, writable, relocated, given, bound, entryPoint, fault>>

\* The init routine returns: TRUE ends the load, FALSE destroys the entry.
InitReturns(d) ==
    /\ At(d, "initialising")
    /\ \/ /\ attached' = [attached EXCEPT ![d] = "yes"]
          /\ held' = [held EXCEPT ![d] = @ \ {"section"}]
          /\ Finish(d, "loaded")
          /\ UNCHANGED <<linked, fault>>
       \/ /\ Fails(d, "init")
          /\ attached' = [attached EXCEPT ![d] = "refused"]
          /\ EntryDestroy(d, "failed")
    /\ UNCHANGED <<writable, relocated, given, bound, entryPoint>>

-------------------------------------------------------------------------------
(* LdrEntryDetach *)

\* A plausible bug of Detach: the view is unmapped before the init routine runs.
Detach_UnmapsFirst(d) ==
    /\ ~crashed /\ CanCall /\ stage[d] = "loaded"
    /\ stage' = [stage EXCEPT ![d] = "detaching"]
    /\ active' = <<d>> \o active
    /\ held' = [held EXCEPT ![d] = @ \ {"view"}]
    /\ attached' = [attached EXCEPT ![d] = IF entryPoint[d] THEN "detached" ELSE @]
    /\ UNCHANGED <<linked, writable, relocated, given, bound, entryPoint, fault, crashed>>

\* The call, by whoever loaded the module and whoever still imports it:
\* CallInitRoutine(..., DLL_PROCESS_DETACH) runs the init routine if the entry
\* has one, and asks neither whether it attached nor who depends on it.
Detach(d) ==
    /\ ~crashed /\ CanCall /\ stage[d] = "loaded"
    /\ stage' = [stage EXCEPT ![d] = "detaching"]
    /\ active' = <<d>> \o active
    /\ attached' = [attached EXCEPT ![d] = IF entryPoint[d] THEN "detached" ELSE @]
    /\ UNCHANGED <<held, linked, writable, relocated, given, bound, entryPoint, fault, crashed>>

\* The init routine returns and LdrEntryDestroy runs.
Destroy(d) ==
    /\ At(d, "detaching")
    /\ EntryDestroy(d, "gone")
    /\ UNCHANGED <<writable, relocated, given, bound, entryPoint, attached, fault>>

-------------------------------------------------------------------------------

Load(d) == \/ CreateSection(d) \/ MapView(d) \/ OpenProtection(d) \/ Relocate(d)
           \/ ResetProtection(d) \/ EntryAlloc(d) \/ ResolveImports(d)
           \/ EntrySetup(d) \/ CallInit(d) \/ InitReturns(d)

Next == \E d \in Dll : Begin(d) \/ Load(d) \/ Detach(d) \/ Destroy(d)

Spec == Init /\ [][Next]_vars

\* The loader's own code runs on, and init routines return.
Fairness == \A d \in Dll : WF_vars(Load(d) \/ Destroy(d))
FairSpec == Spec /\ Fairness

-------------------------------------------------------------------------------
(* Type correctness *)

\* Every variable has its type, and what came with Windows 8 is used there only.
TypeOK ==
    /\ epoch \in Epochs
    /\ stage \in [Dll -> InCall \cup AtRest]
    /\ active \in Seq(Dll)
    /\ held \in [Dll -> SUBSET Resource]
    /\ linked \in [Dll -> SUBSET Link]
    /\ writable \in [Dll -> BOOLEAN]
    /\ relocated \in [Dll -> BOOLEAN]
    /\ relocs \in [Dll -> Relocs]
    /\ bound \in [Dll -> SUBSET Dll]
    /\ entryPoint \in [Dll -> BOOLEAN]
    /\ attached \in [Dll -> {"no", "yes", "refused", "detached"}]
    /\ fault \in [Dll -> AllFaults \cup {"none"}]
    /\ crashed \in BOOLEAN
    /\ epoch \in {"nt5", "nt6"} =>
          \A d \in Dll : linked[d] \subseteq {"lists"} /\ "ddag" \notin held[d]

-------------------------------------------------------------------------------
(* Safety *)

\* What is allocated when no call works on an image: nothing after a failed
\* load or an unload, with one exception (below 6.0 a load that fails on its
\* imports never unmaps the view); for a loaded module its entry, its view
\* and its name, and its DDAG node if the setup was not cut short.
HeldAtRest ==
    \A d \in Dll :
        /\ stage[d] \in {"absent", "gone"} => held[d] = {}
        /\ stage[d] = "failed" =>
              held[d] = IF fault[d] = "imports" THEN {"view"} ELSE {}
        /\ stage[d] = "loaded" =>
              held[d] = {"view", "entry", "name"}
                           \cup (IF HasIndexes /\ fault[d] = "none" THEN {"ddag"} ELSE {})

\* No list and no tree of the loader points to an entry that was freed or
\* whose view is unmapped.
LinkedEntriesAreLive ==
    \A d \in Dll : linked[d] # {} => {"view", "entry"} \subseteq held[d]

\* A module reported as loaded can be found, unless its setup was cut short:
\* that one is in no list.
LoadedIsFound ==
    \A d \in Dll : stage[d] = "loaded" =>
        IF fault[d] = "none" THEN linked[d] = AllLinks
                             ELSE HasIndexes /\ ~Findable(d)

\* The places where the process can die, all of them: the entry could not be
\* allocated; the imports failed (6.0 and up); the name could not be copied;
\* a module whose setup was cut short is unloaded.
CrashIsKnown ==
    crashed =>
        LET d == Head(active) IN
            \/ stage[d] = "entry" /\ fault[d] = "entry"
            \/ stage[d] = "imports" /\ fault[d] = "imports" /\ epoch # "nt5"
            \/ stage[d] = "setup" /\ fault[d] = "name"
            \/ stage[d] = "detaching" /\ HasIndexes /\ fault[d] \in {"index", "ddag"}

\* An import takes no reference on the module it points into.  It dangles in
\* two ways only: the imported module was unloaded by its own loader, or the
\* import was bound while its init routine was running, which then refused.
\* In every other state, a running DLL_PROCESS_DETACH included, an import
\* points into a mapped view.
DanglingIsKnown ==
    \A d \in Dll : \A e \in bound[d] :
        \/ "view" \in held[e]
        \/ stage[e] = "gone"
        \/ stage[e] = "failed" /\ attached[e] = "refused"

\* An init routine is entered in an image that is write-protected again, can be
\* found in every structure of the loader, and whose imports point into views
\* that are mapped at that moment: nothing nests between the binding and the call.
InitWhenReady ==
    [][\A d \in Dll : stage[d] # "initialising" /\ stage'[d] = "initialising" =>
          /\ ~writable'[d]
          /\ linked'[d] = AllLinks
          /\ \A e \in bound'[d] : "view" \in held'[e]]_vars

\* An init routine is told to attach once, and to detach only if it accepted,
\* although the unload looks at the entry point alone: a module that refused,
\* or was never asked, is not kept with one.
AttachOnce ==
    [][\A d \in Dll : attached'[d] # attached[d] =>
          \/ attached[d] = "no" /\ attached'[d] \in {"yes", "refused"} /\ Findable(d)
          \/ attached[d] = "yes" /\ attached'[d] = "detached" /\ Findable(d)]_vars

-------------------------------------------------------------------------------
(* Liveness *)

\* Every load ends, however deeply init routines nest calls.
LoadsEnd ==
    \A d \in Dll : stage[d] = "section" ~> stage[d] \in {"loaded", "failed"} \/ crashed

-------------------------------------------------------------------------------
(* What the comments of LdrRelocateImage say *)

\* "If the image has a relocation table, then apply the specified fixup
\* information to the image": a module that runs was relocated.
LoadedIsRelocated ==
    \A d \in Dll : stage[d] \in {"initialising", "loaded"} /\ relocs[d] \in {"good", "bad"}
                      => relocated[d]
===============================================================================
