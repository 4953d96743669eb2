# Verification of win-polyfill-export

TLA+ models of the parts of this repository that decide something over time,
model-checked with TLC, and proofs about them that TLAPS checks. The
definitions are translated from the source; `PROJECT.json` names, for each of
them, the lines it stands for. Paths below are relative to the repository's
root, and `core/` stands for `src/deps/win-polyfill-core/`.

To check a model: `tlc -config Once_orderly.cfg MCOnce.tla` (the table under
"The runs" pairs them). To check proofs: `tlapm OnceProofs.tla`.

## 1. The system

The repository produces a Windows DLL that offers newer Windows functions on
older versions. It has two halves: a run-time core in C++ headers, which loads
modules from memory behind the back of the Windows loader, and scripts and
generators that work out which functions exist in which version of Windows.

| part | files | state | operations | used by |
|---|---|---|---|---|
| once | `core/once.h`, `core/atomic.h` | one machine word per object | `Alloc`, `Store`, `ForFree`, `ForGet`, `call_once_context` | lazy state, log |
| lazy state | `core/peb-state.h`, `peb-state-alloca.inc.h`, `teb-state.h` | a word for the process, a word in each thread's TEB | `PebStateGet`, `TebStateGet` | memory loader, log |
| log | `core/log.h` | the pointer to WriteFile, a buffer per thread | `wp_printf` | everything |
| memory loader | `core/loader.h` | the image, its entry, and the lists, trees and DDAG of the Windows loader | `LdrLoadDllMemoryNoLock`, `LdrEntryDetach` and what they call; `RtlFreeDependencies` | the DLL's entry |
| indexes | `core/loader.h` | pointers to heap, trees and hash table of ntdll | `LdrpFindHeap`, `LdrpFindRbTree`, `LdrpFindHashTable`, `LdrpRbTreeInsert`, `LdrpHashEntry` | memory loader |
| relocation | `core/loader.h` | bytes left, next block | `LdrRelocateImage` | memory loader |
| bitmap | `core/bitmap.h` | a buffer of bits | set, clear, find and set | nobody yet |
| versions | `core/version.h` | none | packing, comparisons | memory loader |
| paths, strings, allocation | `core/string.h`, `loader-core.h`, `alloca.h` | none | operations on characters; calls of the process heap | all of the core |
| preprocessor | `scripts/compiler.ts` | macros, saved macros, what is skipped | one per directive | the scripts |
| suffix arrays | `scripts/suffix-array.ts`, `src/suffix-array-gen.cpp` | the array being sorted | `init_le`, `buildSuffixArray`, `binary_search` | thunk scripts |
| thunk scripts | `scripts/gen-thunks.ts` | counts of names per module, names done | `MergeFile`, `exportFiles` | the build |
| SDK exports | `scripts/gen-winsdk-lib-exports.ts`, `ExportSymbol.ts`, `file-util.ts` | symbol lists | `gen`, `merge` | by hand |
| export generator | `src/gen-exports*.cpp` | a vector of functions | `gen_functions`, `function_info_alloca`, `main` | the build |
| the rest | `gens/`, `src/deps/phnt/`, linker stand-ins, CMake | none | generated, vendored or declarations | |

How they interact. All lazily created pointers are words of `once.h`. The
function that fills such a word may call the Windows loader, which takes the
loader lock; the loader calls init routines (`DllMain`) while it holds it, on the
thread that called it, and these may come back to the same words. The memory loader runs under that lock,
calls init routines as well, and these may load and unload modules while a
load or an unload is not finished. The generators are sequential, and
talk through files: `suffix-array-gen.cpp` writes the index that
`gen-thunks.ts` reads.

What is hard, and what makes each part correct:

- **once**: threads race on one word without a lock. One runs the allocation,
  all get its value, nothing is lost, the value is released at most once,
  every call returns.
- **lazy state, log**: spinning on a word and waiting for the loader lock are
  two ways of waiting. No two threads may wait for each other, and none for itself.
- **memory loader**: eleven steps that may fail, four families of Windows with
  different structures, nested calls. After a failure nothing may be left
  behind or linked; init routines run in finished images only, and once; an import
  should point into a module that is there.
- **dependency graph**: rings of records, rearranged by nested unloads in the
  middle of a walk. Rings stay whole, counts right, references returned once.
- **indexes**: structures that ntdll does not export are found by what they
  contain, on twelve releases that keep them differently. What is found must be
  what Windows has, and stay in order when copies of one image come and go.
- **relocation**: a table whose sizes nobody compares with what is left of it, nor
  asks to be even. Success should mean that the whole table was applied.
- **bitmap**: runs that begin and end anywhere in a byte.
- **export generator**: the address of an element is kept while the vector grows.
- **preprocessor**: nested conditions with one counter instead of a stack, and two
  readers that recognise directives by different rules. It should obey what C obeys.
- **suffix arrays, thunk scripts**: sorts that leave ties in any order, files
  listed in any order, files that cannot be read, names that look declared and are
  not. The result must be right.

The hazards, with their lines and the properties for them, are the list
`hazards` of `PROJECT.json`.

## 2. The modules

### Once, OnceCell, MCOnce, OnceProofs

`Once` is `OnceContext` at the level of single accesses to the word: each read
and each compare-exchange is an action. `Begin` is the first compare-exchange
with its switch, `AllocFuncReturns` the return of the allocation, `StoreCas`
the exchange in `Store`, `Wait` the busy loop, `FreeCas` the exchange in
the ForFree branch, `Get` the plain read of ForGet. The word is an integer up
to `UintptrMax`; 0 and the three greatest values are the protocol's states, as
in the code. `FreeAnytime` says whether ForFree calls may overlap an
allocation: the header leaves that to its callers.

`OnceCell` is what callers may rely on: a cell that is settled once and
released once, every call atomic. `ImplementsCell` says that the word, seen
through `CellOf`, is this cell.

### CallOnce

`call_once_context`: a flag, a winner that runs the function, others
that spin. `Reenter` is the function that asks for its own flag: it finds it
taken and spins for a call that cannot go on. That is the one way in which a call
does not return, and `EveryCallReturns` leaves out nothing else.

### LazyState, LazyStateProofs

`PebStateGet`, `TebStateGet`, `wp_printf`. Words are those of `Once`, with
the states only; `LoaderCall`, `Loaded` and `Looked` are the loader functions
inside the allocations, which take and give back the loader lock. That lock
and `EnterInit` and `LeaveInit` are the operating system's, modelled from
how the code depends on them. An init routine runs under the lock on a thread
that is outside the calls (level `outer`), or inside the allocation of the PEB state:
`LdrLoadDll` (`core/peb-state-alloca.inc.h:12`) initialises what it loads on the
thread that called it, while the word says Ongoing (level `inner`). `wp_printf` asks
only for the handle of a module that is loaded, which runs none. One level inside is
enough: what runs there either comes back or spins. Both shared words implement
`OnceCell`.

### LdrLoad, LdrLoadProofs

The memory loader, one action for each part of the load between two points
where it may fail or run other code: `Begin`, `CreateSection`, `MapView`,
`OpenProtection`, `Relocate`, `ResetProtection`, `EntryAlloc`,
`ResolveImports`, `EntrySetup`, `CallInit`, `InitReturns`; `Detach` and
`Destroy` for the unload. `stage` says where each load is, `active` is the
stack of nested calls, `held` and `linked` are what was allocated and what
points to it, `fault` is the call that failed, `entryPoint` says whether the entry
has an init routine and `attached` what that was told and said. `EntryDestroy` is
`LdrEntryDestroy` with its null dereferences, which set `crashed`. `Detach` has the
guards of the code and no other: it looks at the entry point alone, and whoever
imports the module may still be there.

The model takes it that the indexes were found (`LdrIndexes`). The fixups of an
image are one step here, good, bad, none or stripped (`LdrReloc` has the walk). The forwarder
list that `LdrEntryDestroy` walks on 6.0 and 6.1 is empty or missing, since
nothing in the code fills it.

### LdrDdag, MCLdrDdag, LdrDdagProofs

`RtlFreeDependencies`, pointer by pointer: each record is in the ring
of its owner and in the ring of what it depends on. `Find`, `Search`, `Unlink`,
`Release` and `UnloadReturns` are the parts of the loop; `Call` may come in
the middle of an unload, and `TargetGoes` is the Windows loader that frees a
module of its own. `failed` says which `__fastfail` has ended the process: the node
holds several modules or is not the module's (`shared`, which Windows decides), the
ring is empty, the lock is refused, the count is 0 already. Every relation and every order of the rings is an
initial state. A ring is described without a walk: `IsRing` says that no record
is led to twice and that no part of the ring is closed in itself, and `Ring` is the
least set that contains the head and is closed under the pointers. Both can be
evaluated and proved about.

### LdrIndexes, Version

What the loader must find in ntdll and what it does there. `IndexesInit` is what
Windows has on a release (its heap, its trees, its buckets; external), `Discover`
fills the `WinPolyfillPebState`, `Load` and `Unload` are the parts of
`LdrpEntryInit` and `LdrEntryDestroy` that change trees and hash table. A tree is
the sequence of its nodes in order, and `LdrpRbTreeInsert` goes down it by any
choice of roots, so that every shape a balanced tree may have is covered: it is a
recursive function of the range of nodes below the present one. The hash functions of
Windows (`WindowsBucket`) and those of the code (`LdrpHashEntry`) are written down
separately, since the code multiplies by 65599 or subtracts 65 where Windows changes a
sign or subtracts 1; `Hash` is what both have in common. `IsRelease` is
what the PEB may say: fields of their width, and no build older than its family. `Version`
packs a release into a number as the code does, shifting the service pack twice.
The search of .data is what the comment at `core/loader.h:247` calls "still not that
reliable": besides the headers (`headerAt`), other words may equal theirs (`copies`),
and the section may be missing (`hasData`). A load that goes on with what was
wrongly found, or with a null pointer, sets `astray`; nothing is said of Windows
after that.

### LdrReloc, Bitmap, ExportGen, MCParts, PartsProofs

Parts that work alone. `LdrReloc` is the walk of `LdrRelocateImage`: `Apply` and
`Reject` are a turn of the loop whose block is applied or has an unknown fixup. The
counter wraps at `Word`, as a ULONG does, and a size may be odd: the division by 2
loses its last byte, and `odd` counts how often. `Bitmap` has each function of `bitmap.h`;
`Run` divides a run into bytes as the code does, and `owned` is what a caller has
taken. `ExportGen` is the vector of the generator, whose elements move when it
grows (`PushBack`), and the rows that `main` writes, whose numbers are to be the sums (`Sum`)
of what the arguments take. `MCParts` runs them and
`LdrIndexes` side by side, one at a time: they have nothing in common but the run.

### Preprocessor, PreprocessorProofs

`Compiler`: what `parseNext` and `conditionNext` do with each line. A line is
chosen when it is read, and so is its form, as far as the two functions tell
directives by it: `"plain"`; with a `"blank"` after the #; with something else than a
blank `"attached"` to the name (a tab, a comment); or `"hidden"` in an ordinary comment.
`Obeyed` and `Noticed` say which of these `parseNext` and `conditionNext` recognise:
the first cuts the line at the first blank (`scripts/compiler.ts:374`), the second
leaves out blanks after the # and then does the same (274), and neither
knows of comments other than those that start with `//#` or `/*#` (`Remark`).
Beside the code's counter (`n`, `end`) the model keeps the stack of conditions of the C
standard (`open`); `done` and `due` say whether the last line had an effect in
either. `astray` says that a line was misread where that makes a difference, and
the property speaks of all texts until then. A macro's value is a member of a
small set; expanding macros inside a line is not modelled.

### SuffixArray, ThunkExport, ThunkScripts, MCThunkScripts, ThunkScriptsProofs

`SuffixArray` is the sorting by doubled prefixes, whose every sort may leave
ties in any order, and the search: three loops (two of them halve a range, one doubles
its steps), each a recursive function of what the loop goes over. `ThunkExport` is `MergeFile` and `exportFiles`: `ReadFile` for each
turn of the loop over files, in any order, `WriteThunks` for the rest of
`exportFiles`. `ThunkScripts` composes them: the array is built (`Build`), then
the script runs and looks up in it which names are declared (`matchedIndex`,
`Found`, `Export`). Of `ParseFunctionInfo` the model has what decides whether there is
a thunk: `find_function_tail` (`HasTail`: after blanks a semicolon, or parentheses
with nothing in them that ends the search), and that a name with a tail but without
a return type ends the script (`Stop`, line 407), as a file without a list of exports
and a module without files do by throwing. The return type itself is left open:
any declared name may lack one. Names are without blanks, without an @ and
not exported by ordinal only, the ones that the script skips.

## 3. The runs

| run | module, cfg | bounds | distinct states |
|---|---|---|---|
| `once_orderly` | MCOnce, Once_orderly | 3 threads, 2 values, failure and INVALID_HANDLE_VALUE | 1 738 |
| `once_anytime` | MCOnce, Once_anytime | 4 threads, symmetric | 5 083 |
| `once_freed_twice` | MCOnce, Once_freed_twice | 3 threads; fails on purpose | |
| `call_once` | CallOnce, CallOnce | 4 threads, a function, one that asks for itself, the null pointer | 1 737 |
| `lazy` | LazyState, LazyState | 2 threads, two shared words, init routines that use them, outside and inside an allocation | 18 013 |
| `ldr_faults` | LdrLoad, LdrLoad_faults | 3 images, 9 kinds of failure, 4 families | 200 054 |
| `ldr_relocated` | LdrLoad, LdrLoad_relocated | 1 image; fails on purpose | |
| `ldr_ddag` | MCLdrDdag, LdrDdag | 2 modules, 2 targets, 5 possible dependencies, 2 families | 96 840 |
| `preprocessor` | Preprocessor, Preprocessor | 2 names, 2 values, depth 3, 1 saved macro, 4 forms of a directive | 80 874 |
| `thunks` | MCThunkScripts, ThunkScripts | texts of 5 bytes up to 4 long, patterns up to 2, 2 files (symmetric), 2 modules, 1 name | 194 739 |
| `thunks_of_module` | MCThunkScripts, ThunkExport_module | the same files; fails on purpose | |
| `parts` | MCParts, MCParts | see below | 282 460 |

What they show, and why the bounds are enough:

- **once_orderly**, **once_anytime**. One thread to allocate, one to wait and
  one to free are the three roles there are; a fourth makes two wait or two
  free at once. Two values tell a value from another one. `OneOwner`,
  `Agreement`, `NoLeak`, `WordForward` and `EmptyOnlyIfLost` hold
  whenever ForFree comes; `FreedAtMostOnce` and the cell need orderly
  callers.
- **call_once**. The function runs at most once, and nobody returns early. The
  null function, which the code skips but counts as run, is among the inputs, and
  so is a function that calls again for itself and never ends.
- **lazy**. Init routines use the lazy state. Then two threads may wait for each
  other for good: one spins in an init routine, the other one is in its allocation
  and waits for the lock. And a thread may wait for itself: it spins in an init
  routine that runs inside its own allocation. `Deadlocked` is both, and
  `DeadlockNeedsInit` says that the call that spins was always made by an init
  routine. `CallsReturn`: every call returns unless one of the two has
  happened, so these are the only ways. Each shared word is an atomic cell in any
  case. Two threads: one allocates, the other holds the lock or spins; the proofs are
  for any number.
- **ldr_faults**. Everything that may fail does, in each family; three images
  allow a chain of imports and two nested calls. `HeldAtRest` states exactly
  what is left allocated, the one leaked view below 6.0 included, and
  `CrashIsKnown` lists the four null dereferences there are: after a failed
  allocation of the entry, after failed imports from 6.0 on, after a failed copy
  of the name, and in the unload of a module whose setup was cut short. The
  last three come from results that no caller looks at. Modules that are
  reported as loaded can be found. Unloads come in any order, also of a module that
  others import: `DanglingIsKnown` says that an import dangles in two ways only,
  because the imported module was unloaded, or because it refused in its init
  routine, in the middle of which it was bound. `InitWhenReady`: none dangles when an init
  routine is entered, and the image is protected and in every list then, although
  much may have been loaded and unloaded since its load began. `AttachOnce`: the
  unload looks at the entry point alone, and still no init routine is told to
  detach that was not told to attach, or refused.
  Every load ends, in a loaded module, a failure or a crash, however init routines
  nest calls.
- **ldr_ddag**. Rings of up to three records (first, middle, last), a module
  between two others, an unload that destroys a module whose records
  are neighbours of the one just freed. `RingsAreWhole` relates pointers to the
  set of dependencies; `ReferencesReturned` says that each reference is given
  back, on Windows 8 with the last dependent, and once; `OwnListsPass` that of
  the `__fastfail` checks those on rings and counts, which this code keeps, never
  fire, while those on the node and the lock may.
- **preprocessor**. Depth 3 has an outer condition, the one that decides, and an
  inner one, in all combinations, each line in every form; the proof covers every
  depth. That a line of a form other than the plain one does no harm elsewhere than
  where `Strays` has it (a `#endif` in lines that are obeyed, a `#define` in
  lines that are skipped) is part of what is shown.
- **thunks**. Four bytes and a terminator need two doublings, have ties in
  each, and hold a name between two separators both in the middle and as the
  last suffix, with a semicolon, with parentheses, or with neither behind it
  (`;x;`, `;x()`, `)x)`). Two modules with names that start alike share files; two files
  make a function of one version only.
- **parts**. The bitmap: 28 bits are three and a half bytes; runs of 1, 8, 11 and 17
  lie inside a byte, fill one, cross one border or several, and three may be out
  at once. Relocation: a counter that wraps at 64 and 63 mapped bytes have what 2^32
  and an image have, blocks that are too long, shorter than their header (0 to
  7), of odd size, as long as all that is left, and those that make the counter wrap.
  Indexes:
  twelve releases from 4.0 to 10.0 with service packs, three modules of Windows of
  which two share a first letter, two copies of an image, one under its
  own name, headers and copies of them anywhere in six words of .data, or no .data.
  Exports: up to three functions
  with two arguments; sizes 0, 2 and 6 are void, rounded up and not a multiple of four.

Runs where a system may stop for good (all images loaded or failed, a crash, the end
of a script, a call that waits for itself, two threads that wait for
each other), say `CHECK_DEADLOCK FALSE`; in `once_*` a call is always possible and
deadlock is checked.

No counter of the code is bounded by a guard except in `Preprocessor`
(`MaxDepth`, `MaxSaved`), `Bitmap` (`MaxOwned`) and `ExportGen` (`MaxFunctions`,
`MaxArguments`); `released`, `started`, `depth` and `count` are bounded
by what the code does.

### Fairness

- `Once`, `CallOnce`: weak fairness of each thread's own steps. Threads are
  scheduled and allocation functions return. Nobody is forced to call. The
  busy loop is a single action that is enabled when the word has changed: weak
  fairness is enough, since a settled word never goes back.
- `LazyState`: weak fairness of steps; strong fairness of taking the loader
  lock, since a critical section of Windows does not pass by a waiter for
  ever, of leaving an init routine, which ends however often it calls, and of
  coming back from the loader, since `LdrLoadDll` initialises finitely many modules.
- `LdrLoad`, `LdrDdag`: weak fairness of the loader's own steps; an init routine
  and `LdrUnloadDll` return. Nobody is forced to load or unload.

## 4. The proofs

For every value of the constants, under the assumptions named in the modules
(`OnceAssumption`, `CallOnceAssumption`, `LazyAssumption`, `LdrLoadAssumption`,
`PreprocessorAssumption`, `LdrDdagAssumption`, `RelocAssumption`, `BitmapAssumption`,
`ExportGenAssumption`, `IndexesAssumption`, `SuffixArrayAssumption`, `NameAssumption`, and
`ListAssumption`: no module is twice in `DllNameList`, as the source has it):

- **OnceProofs**. `IInv` adds `Provenance` to the properties: where each
  thread's value comes from, so that a value on its way to the word is the one
  that was obtained. It gives `OneOwner`, `Agreement`, `NoLeak` and `WordForward`
  for any number of threads; with `Waiters` (nobody waits for a word that is still
  empty) also `EmptyOnlyIfLost`. With orderly callers `OrderlyInv` adds that a
  ForFree call never waits and that a released value is marked in the word:
  `FreedAtMostOnce` is not inductive without that. From it follows
  `Implements`: each step of the word is a read, a settling, a release or a
  stutter of the cell.
- **LdrLoadProofs**. `IInv` says for each stage exactly what is held, linked and
  told to the init routine (`StageOK`): the properties speak of a few
  stages only and need the others. One lemma for each action; `Frame` lifts them to
  all images. `AttachOnce` follows from it: a loaded module has an init routine exactly
  if one has accepted (`Accepted`). `DanglingIsKnown` and `InitWhenReady` need more:
  `BInv` adds that every load that is not in its init routine is on top of the stack
  (`TopOfStack`), so that nothing comes between the binding and the call, and that
  what a module was bound to could be found (`BoundOK`).
- **LazyStateProofs**. `IInv` says who holds the loader lock and how often
  (`LockOK`), that the inner level is in use only while the outer call loads for the PEB
  word (`Nested`), and that init routines call only if they may (`InitCalls`). A thread
  that holds the lock and spins is then in an init routine. `NoDeadlock` and
  `DeadlockNeedsInit` follow for any number of threads. `StepShows` says what a
  step shows of a shared word: nothing, a read, or its settling by the one
  allocator (`OneAllocator`); `ImplementsCells` follows for both words.
- **PreprocessorProofs**. `Counted` says what counter and flag mean on the stack
  of open conditions: the condition that is skipped is the n-th from the
  inside, those around it are on, those inside have no group to take. With it
  `ObeysWhatCObeys` holds at every depth, for all forms of directives: the invariant is
  kept until `astray` is true and not needed afterwards. For `#elif` and `#else` this
  needs that lines which are ignored where they have no turn change nothing in C
  either (`TurnedIgnored`).
- **LdrDdagProofs**. For every finite dependency graph. That a ring stays
  whole when a record is taken out is a fact about reachability, which usually
  takes an induction; with `IsRing` it does not: a closed part of the shortened
  ring would, with or without the record, be a closed part of the ring before. The
  walks need invariants of their own: `WalkOK` (what a module has given up is the
  part of its list from the head to its present record, so it comes to the end with
  nothing left), `SearchOK` (the search is in the ring, its second pointer one step
  behind or with it at the head), `StackOK` (only the innermost destruction is
  at work) and `Returned` (which records have given their reference back, and that
  nothing counts for a module that was unloaded). From them: `RingsAreWhole`,
  `DependenciesGiven`, `CountsAreRight`, `ReferencesReturned`, `OwnListsPass`.
- **PartsProofs**, for the parts that work alone. One by one:
  `Balanced` (bytes left, bytes walked and the bytes lost of odd sizes add up to the
  table, but for at most two wraps of the counter) gives `SuccessMeansWholeTable` for every
  width of the counter and all sizes, odd ones included. `RunIsTheNumbers` shows that masks and bytes
  make exactly the run that is asked for, which gives `BitsAreTheNumbersOut`.
  `OnceInv` ties the flag of `call_once_context` to the one winner and the two
  counts to its place; `RunsOnce` and `ReturnedAfterRun` follow. `GenInv` says that
  the address at hand is that of the last element, where it now is, and that
  this element lacks just what is still to be added (`SoFar`): all other elements are
  those declared. `RowsAreComplete` follows for lists of any length.
  `IndexInv` gives `FoundIsRight` and `IndexesAgree`, for any modules, names, and
  releases. Its lemmas say that the two ways to compute a hash agree modulo 32
  (`SameHash`, `MinusOne`: 65599 is -1, so powers of it alternate), that packed versions
  compare as releases do (`Families`), and that an insertion finds the one gap
  whatever the shape of the tree (`InsertionInOrder`, by induction on the width of
  the range: what is left of it is below the new node, what is right above).
  `TreeIsFound`: what is taken for a header is the first of the header and the words
  that equal it, whichever node is the root. `InOrder`
  is a strict order, with base addresses for copies of an image; with it no node
  ever compares equal, and so none is mistaken for another.
- **ThunkScriptsProofs**, for texts, patterns and names of every length and any number
  of modules, versions and functions. `ArrayOK`: ranks and pairs compare as the first
  characters of the suffixes do (k and 2k of them), which a turn of the loop carries
  from k to 2k; at the length of the text, `SuffixesSorted` follows. For the search,
  each loop is shown to obey its equation and then, by induction on the length of its range,
  to end at the first or behind the last place with the character; where a
  pattern's beginning is shared, the next characters do not fall, for the array is
  sorted. This gives `SearchFindsAll`. Both suppose `Terminated`: the text ends with the
  terminator that `suffix-array-gen.cpp` appends; without it they are false
  (section 5). For the lists, `Counting` relates the counts to the files read so far
  (as many as there are files: in all of them; none: in none) and `Listing` what
  is written to the names that later modules leave out: `EachHasOneThunk`,
  `BasicIsInEveryVersion`. `ImplementsBoth`: every behaviour of the composed script is one of
  the array and one of the lists. Thereby the invariants of both hold in it, and
  `DeclaredIsThunked` joins them: what is found is declared, so that only declared
  functions that are wanted have thunks; and a wanted one is found unless all its
  declarations stand where the search does not look, at the greatest suffix
  (`FoundIsDeclared`), and so has a thunk in the end (`ThunksInTheEnd`).
- **Recursion**. The lemmas the two modules above rest on. Induction in
  the library takes a predicate as a parameter, which the provers cannot
  instantiate; here a set takes its place. `Least` is derived from the
  library's `WFMin`; `Induction` and `StepInduction` from it. `RecursionDefines`:
  a function that is defined by an equation over smaller arguments obeys the
  equation, which TLA+ does not grant by itself.

The theorems of note are the list `theorems` of `PROJECT.json`.

Every safety and action property of the passing runs, and both refinements, have a
theorem. Model-checked only: liveness (`EveryCallReturns` of both modules, `CallsReturn`,
`LoadsEnd`, `DestroyEnds`), which needs fairness and ENABLED and is out of reach of the
provers. The three runs that fail show counterexamples, and need no proof. The
type invariants are proved and not run.

## 5. Where code and comments disagree

Three runs fail on purpose, each on a property that a comment or an assertion states.

- `once_freed_twice`: "this is for not freed twice" (`core/once.h`). A ForFree call
  that arrives during the allocation waits, is handed the value and does not
  mark the word; a second one is handed it again.
- `ldr_relocated`: the failure of `LdrRelocateImage` is overwritten by the next
  status, and this one by an assignment in a condition
  (`core/loader.h:1171`), so an image with a malformed block is initialised
  without all its fixups.
- `thunks_of_module`: `exportFiles` takes every file whose name starts with the name
  of a module for a file of that module (`scripts/gen-thunks.ts:455`), so that the files
  of `mfplat` and `mfreadwrite` count as versions of `mf`. Functions of the longer
  name are written as thunks of the shorter (`gens/x64/mf_delta.h:43`), and
  `gens/x64/mfplat_delta.h` is empty.

Seen while modelling, without a run of their own:

- `LdrRelocateImage` accepts every image without a relocation table, although the
  comment at `core/loader.h:1031` says that the relocations must not have been
  stripped. In `LdrLoad`: put `"stripped"` into `Relocs`; `Relocate` goes on.
- `scripts/compiler.ts:374` takes the name of a directive up to the first blank
  before it trims, so that `# ifdef x` is removed without effect, while
  `conditionNext` trims first and counts it. Neither stops at a tab or a comment (line
  274): `#endif<TAB>/* x */`, `#else//x` and `#ifdef<TAB>x` are not recognised, and
  skipping does not end where it should. Lines in ordinary comments that begin with
  a # are obeyed. In the model, `astray` is then true; without it `ObeysWhatCObeys`
  fails, also with `Forms = {"plain", "attached"}` or `{"plain", "hidden"}`.
- `core/loader.h:1047` divides the size of a block by 2 without asking whether it is
  even: blocks of 9 and 8 bytes in a table of 17 bring the counter to 0 where
  the walk is at 16, and it succeeds although the last header was read one byte
  early. `SuccessMeansWholeTable` has `odd` for this.
- `core/loader.h:216` finds no tree without a section .data, and 229 takes the first
  words that fit; a "TODO" at line 247 says that this is "still not that reliable".
  `FoundIsRight` states when it goes wrong. Nor does anybody look whether the hash table
  was found.
- `LdrEntryDetach` takes down a module whatever still imports it, and the imports took
  no reference (`core/loader.h:950`): `DanglingIsKnown`.
- `PebStateGet` in an init routine that runs inside the allocation of the PEB state
  (`core/peb-state-alloca.inc.h:12`), and a function of `call_once_context` that asks
  for its own flag, wait for themselves.
- `scripts/gen-thunks.ts:407` ends the whole script at a name without a return type, with
  the exit code of success, and line 462 throws at a file that has no list of exports.
- `core/version.h:80` shifts the service pack by 8 bits and hands it to
  `MakeSystemVersionCompact`, which shifts it again: the result never has one. The
  comparisons of the loader are with releases without service packs, and come
  out right (`FoundIsRight`).
- `core/log.h:50`: `wp_printf` takes what `vsnprintf_` returns, the length that
  the whole text would have, for the number of bytes in its buffer.
- `core/loader-core.h:73` returns without releasing the path when the first search
  finds nothing; the second one does release it. Nothing calls this function.
- `core/loader-core.h:31` puts a backslash behind a directory that
  `GetDirectoyEnd` (`core/string.h`) may have ended with one, in the root of a drive.
- `scripts/gen-winsdk-lib-exports.ts:155` does not wait for its two generations.
- Without the terminator that `suffix-array-gen.cpp` appends, the end of the
  text has the rank of the smallest suffix (`scripts/suffix-array.ts:124`), and the
  array of `aaa` is not sorted. Set `Terminated = FALSE` and `SuffixesSorted`
  fails. With the terminator the array has one entry more than the file has
  bytes, and the search never looks at the greatest suffix (line 222): that is
  why `DeclaredIsThunked` excepts a name whose declarations all stand there.

## 6. Not modelled

- Strings and paths (`core/string.h`, `loader-core.h`): operations on characters
  without a state, and two functions that nothing calls. `alloca.h` hands its
  arguments to the process heap; what its callers own is in their models.
- The script for the SDK's exports: run by hand, it starts a program for each
  library and writes down what that prints; neither is in the repository, and
  `merge` has no caller.
- Offsets and contents of the states; formatting in the log; text of macros and of
  declarations, and what the parser of C in `gen-thunks.ts` reads before a name (return
  type, calling convention): data that no property tells apart, but for the name
  without a return type, which any declared name may be.
- What follows the name of a directive when its form is not the plain one: it is read
  as it is meant.
- `LdrDdag` has one call at a time, so the count that is read before the lock is
  taken (`core/loader.h:678`) is not shared with another thread; the callers are the
  NoLock functions, which hold that lock already.
- The forwarder list of 6.0 and 6.1, which is empty or missing in what the
  code builds, and the failure to open a file in the export generator.
- Declarations, generated tables, linker stand-ins, CMake: no behaviour. They are
  almost all of the repository: of some 49 000 lines, 47 000 are tables of
  `DEFINE_THUNK` and `#undef` lines under `gens/`, one line for each function of
  Windows, written by the scripts that are modelled. There is nothing in them for a
  definition to translate, so the share of all lines that the
  models stand for is small, although nearly everything in the core headers
  that keeps a state is covered.

## 7. Plan

Order: the words that everything rests on, the loader with its failures, what
ties both together (the loader lock), the graph, the scripts, the parts that work
alone. Done: `Once` (abstract: `OnceCell`), `CallOnce`, `LdrLoad`,
`LazyState` (refining `OnceCell` twice), `LdrDdag`, `Preprocessor`, `ThunkScripts`
(composing `SuffixArray` and `ThunkExport`), `LdrIndexes`, `LdrReloc`, `Bitmap`,
`ExportGen`, and proofs of all that the provers reach.

What could be added:

1. `LdrIndexes` composed with `LdrLoad`, whose `"index"` fault it explains.
2. `LdrDdag` with two threads, for callers that do not hold the lock.
3. `merge` of the SDK's script as an operator, once something calls it.
