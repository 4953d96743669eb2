----------------------------- MODULE ThunkExport ------------------------------
(***************************************************************************)
(* MergeFile and exportFiles of scripts/gen-thunks.ts.  There is one file  *)
(* of exports for each version of a module of Windows.  For each module,   *)
(* in the order of a list, the script counts in how many of its files a    *)
(* function occurs, and writes two lists of thunks: the basic one, of the  *)
(* functions that all its files have, and the delta.                       *)
(*                                                                         *)
(* A file belongs to a module if its name starts with the module's name,   *)
(* so that the files of mfplat are also files of mf.                       *)
(***************************************************************************)
EXTENDS Naturals, Sequences, FiniteSets, Functions

CONSTANTS File, Name, Module,
          DllNameList,   \* sequence of modules
          Prefix,        \* <<m, l>>: the name of l starts with the name of m
          ApisToIgnore   \* names that get no thunk

\* No module is listed twice: the second turn would overwrite what the first wrote.
ASSUME ListAssumption ==
    /\ DllNameList \in Seq(Module)
    /\ \A i, j \in DOMAIN DllNameList : DllNameList[i] = DllNameList[j] => i = j

VARIABLES
    versionOf,     \* of which module a file holds a version
    exports,       \* names that this version exports
    readable,      \* files that readJson can read, with a list of exports
    bare,          \* files that it can read, without such a list
    declared,      \* names for which ParseFunctionInfo returns a declaration
    untyped,       \* names that it finds declared, but with no return type
    dll,           \* index of the module in DllNameList
    filesExports,  \* files not looked at for this module
    fileCount, funcCountMap,
    keysToIgnore,
    basic, delta,  \* what was written
    failed         \* exportFiles has thrown, or ended the script

input == <<versionOf, exports, readable, bare, declared, untyped>>
thunkVars == <<input, dll, filesExports, fileCount, funcCountMap, keysToIgnore,
               basic, delta, failed>>

NoneCounted == [k \in Name |-> 0]

ThunkInit ==
    /\ versionOf \in [File -> Module]
    /\ exports = [f \in File |-> {}] /\ readable = {} /\ bare = {}
    /\ declared = {} /\ untyped = {}
    /\ dll = 0
    /\ filesExports = {} /\ fileCount = 0 /\ funcCountMap = NoneCounted
    /\ keysToIgnore = ApisToIgnore
    /\ basic = [m \in Module |-> {}] /\ delta = basic
    /\ failed = FALSE

-------------------------------------------------------------------------------
Running  == dll \in 1 .. Len(DllNameList) /\ ~failed
Finished == dll > Len(DllNameList)

\* MergeFile lists the files.  What they and the headers hold is chosen now; in
\* a file that cannot be read it would not matter.
GetFiles ==
    /\ dll = 0
    /\ exports' \in [File -> SUBSET Name]
    /\ readable' \in SUBSET File
    /\ \A f \in File \ readable' : exports'[f] = {}
    /\ bare' \in SUBSET (File \ readable')
    /\ declared' \in SUBSET Name
    /\ untyped' \in SUBSET (Name \ declared')
    /\ dll' = 1
    /\ filesExports' = File
    /\ UNCHANGED <<versionOf, fileCount, funcCountMap, keysToIgnore,
                   basic, delta, failed>>

StartsWith(f, m) == versionOf[f] = m \/ <<m, versionOf[f]>> \in Prefix

\* What readJson returns, or the empty list that is left when it throws: a file
\* that is not readable, and not bare, is a version without exports.
ExportList(f) == IF f \in readable THEN exports[f] ELSE {}

\* The loop over the exports of a file that has no list of them throws.
Throws(f) == f \in bare /\ StartsWith(f, DllNameList[dll])

\* A plausible bug of ReadFile: a file that cannot be read is not counted.
ReadFile_ReadableOnly(f) ==
    /\ Running /\ f \in filesExports /\ ~Throws(f)
    /\ filesExports' = filesExports \ {f}
    /\ IF StartsWith(f, DllNameList[dll]) /\ f \in readable
       THEN /\ fileCount' = fileCount + 1
            /\ funcCountMap' = [k \in Name |->
                   funcCountMap[k] + IF k \in ExportList(f) THEN 1 ELSE 0]
       ELSE UNCHANGED <<fileCount, funcCountMap>>
    /\ UNCHANGED <<input, dll, keysToIgnore, basic, delta, failed>>

\* One turn of the loop over the files, which getFiles lists in any order.
ReadFile(f) ==
    /\ Running /\ f \in filesExports /\ ~Throws(f)
    /\ filesExports' = filesExports \ {f}
    /\ IF StartsWith(f, DllNameList[dll])
       THEN /\ fileCount' = fileCount + 1
            /\ funcCountMap' = [k \in Name |->
                   funcCountMap[k] + IF k \in ExportList(f) THEN 1 ELSE 0]
       ELSE UNCHANGED <<fileCount, funcCountMap>>
    /\ UNCHANGED <<input, dll, keysToIgnore, basic, delta, failed>>

AllKeys == {k \in Name : funcCountMap[k] > 0}

\* The functions that get a thunk.
Parsed == (AllKeys \ keysToIgnore) \cap declared

\* The functions at which ParseFunctionInfo ends the script.
Refused == (AllKeys \ keysToIgnore) \cap untyped

NextModule == /\ dll' = dll + 1
              /\ filesExports' = File /\ fileCount' = 0 /\ funcCountMap' = NoneCounted

\* A plausible bug of WriteThunks: what this module has is not remembered.
WriteThunks_Forgets ==
    /\ Running /\ filesExports = {} /\ fileCount > 0 /\ Refused = {}
    /\ LET m == DllNameList[dll]
           KeysJoin == {k \in Parsed : funcCountMap[k] = fileCount}
       IN /\ basic' = [basic EXCEPT ![m] = KeysJoin]
          /\ delta' = [delta EXCEPT ![m] = Parsed \ KeysJoin]
    /\ NextModule
    /\ UNCHANGED <<input, keysToIgnore, failed>>

\* The rest of exportFiles: the functions found are written, and those counted
\* belong to no later module.
WriteThunks ==
    /\ Running /\ filesExports = {} /\ fileCount > 0 /\ Refused = {}
    /\ LET m == DllNameList[dll]
           KeysJoin == {k \in Parsed : funcCountMap[k] = fileCount}
       IN /\ basic' = [basic EXCEPT ![m] = KeysJoin]
          /\ delta' = [delta EXCEPT ![m] = Parsed \ KeysJoin]
    /\ keysToIgnore' = keysToIgnore \cup AllKeys
    /\ NextModule
    /\ UNCHANGED <<input, failed>>

\* Without a file for the module exportFiles throws, as it does at a file with
\* no list of exports; a function without a return type ends the script.  Then
\* nothing is written for this module and the modules after it.
Stop ==
    /\ Running
    /\ \/ \E f \in filesExports : Throws(f)
       \/ filesExports = {} /\ fileCount = 0
       \/ filesExports = {} /\ Refused # {}
    /\ failed' = TRUE
    /\ UNCHANGED <<input, dll, filesExports, fileCount, funcCountMap, keysToIgnore,
                   basic, delta>>

ThunkNext == GetFiles \/ WriteThunks \/ Stop \/ \E f \in File : ReadFile(f)

ThunkSpec == ThunkInit /\ [][ThunkNext]_thunkVars

-------------------------------------------------------------------------------
(* Safety *)

Thunks(m) == basic[m] \cup delta[m]

\* A function has at most one thunk, though several modules may export it; and
\* when all modules are through, each function of a listed module that is
\* declared and not to be ignored has one.
EachHasOneThunk ==
    /\ \A m \in Module :
          /\ basic[m] \cap delta[m] = {}
          /\ Thunks(m) \cap ApisToIgnore = {}
          /\ \A l \in Module \ {m} : Thunks(m) \cap Thunks(l) = {}
    /\ Finished =>
          \A f \in File, k \in declared \ ApisToIgnore :
             versionOf[f] \in Range(DllNameList) /\ k \in ExportList(f)
                => \E m \in Module : k \in Thunks(m)

\* A function in the basic list of a module is in every file that counts for
\* the module: so none is, when one of these could not be read.
BasicIsInEveryVersion ==
    \A m \in Module, f \in File :
       StartsWith(f, m) => basic[m] \subseteq ExportList(f)

-------------------------------------------------------------------------------
(* What DEFINE_THUNK(Module, Function) says *)

\* A thunk names a module that exports its function in some version.
ThunkNamesItsModule ==
    \A m \in Module : \A k \in Thunks(m) :
       \E f \in File : versionOf[f] = m /\ k \in exports[f]
===============================================================================
