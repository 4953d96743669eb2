------------------------------ MODULE LdrIndexes ------------------------------
(***************************************************************************)
(* The private structures of the Windows loader that win-polyfill-core/    *)
(* loader.h looks for in ntdll (its heap, its two trees of modules, its    *)
(* hash table), and what LdrpEntryInit and LdrEntryDestroy do to the trees *)
(* and the table when memory modules come and go.                          *)
(*                                                                         *)
(* A tree is the sequence of its nodes in order: its shape is chosen anew  *)
(* each time it is walked.  An address in the hash table is a number of    *)
(* entries from its beginning.  What Windows keeps (which heap, order and  *)
(* buckets of its own modules) is external.                                *)
(***************************************************************************)
EXTENDS Version, FiniteSets, Sequences, SequencesExt

CONSTANTS Release,       \* releases of Windows
          Heap, ProcessHeap,
          ntdll, kernel32,
          Windows,       \* modules of Windows in the process, these two included
          Memory,        \* modules to be loaded from memory
          DllBase, TimeDateStamp, SizeOfImage, BaseDllName,  \* of each module
          DataWords,     \* length of ntdll's .data section
          Null

Dll == Windows \cup Memory

\* What the PEB says of a release: none is older than the first of its family.
IsRelease(r) ==
    /\ r.major \in Nat /\ r.minor \in Nat /\ r.build \in Nat /\ r.csd \in Nat
    /\ r.major < 256 /\ r.minor < 256 /\ r.build < 65536 /\ r.csd < 65536
    /\ r.major = 5 /\ r.minor = 1 => r.build >= 2600
    /\ r.major = 6 /\ r.minor = 0 => r.build >= 6000
    /\ r.major = 6 /\ r.minor = 1 => r.build >= 7600
    /\ r.major = 6 /\ r.minor = 2 => r.build >= 9200

ASSUME IndexesAssumption ==
    /\ \A r \in Release : IsRelease(r)
    /\ ProcessHeap \in Heap /\ {ntdll, kernel32} \subseteq Windows
    /\ IsFiniteSet(Windows) /\ Windows \cap Memory = {}
    /\ DllBase \in [Dll -> Nat] /\ \A a, b \in Dll : a # b => DllBase[a] # DllBase[b]
    /\ TimeDateStamp \in [Dll -> Nat] /\ SizeOfImage \in [Dll -> Nat]
    /\ BaseDllName \in [Dll -> Seq(Nat) \ {<<>>}]
    /\ DataWords \in Nat
    /\ Null \notin Dll

VARIABLES
    release,     \* the Windows this is
    heapOfLdr,   \* where Windows allocates the entries of modules
    initOrder,   \* the modules in InInitializationOrderModuleList
    hasData,     \* ntdll has a section of the name .data
    headerAt,    \* where the headers of the trees are in it
    copies,      \* where words equal to those of the headers are in it besides
    peb,         \* the WinPolyfillPebState; Null before it is filled
    tree,        \* the two trees
    bucket,      \* the bucket of each module that is in the hash table
    astray       \* a null pointer was followed, or a tree changed through a copy

place == <<hasData, headerAt, copies>>
indexVars == <<release, heapOfLdr, initOrder, place, peb, tree, bucket, astray>>

Tree == {"BaseAddressIndex", "MappingInfoIndex"}

\* LDR_HASH_TABLE_ENTRIES
Buckets == 0 .. 31

-------------------------------------------------------------------------------
(* What Windows does *)

Before(r, major, minor) ==
    r.major < major \/ (r.major = major /\ r.minor < minor)

\* A hash of a name, in which what the letters before come to is multiplied by a
\* and the next letter by b.  Of the DWORD only the rest modulo 32 is used.
Hash(s, a, b) ==
    LET sofar[n \in 0 .. Len(s)] ==
           IF n = 0 THEN 0 ELSE (a * sofar[n - 1] + b * s[n]) % 32
    IN sofar[Len(s)]

\* The first letter; on 7 the sum of the letters, with its sign changed, from 8 on
\* the alternating sum, up to a multiple of 32.
WindowsBucket(r, d) ==
    LET s == BaseDllName[d] IN
    CASE Before(r, 6, 1)  -> (s[1] - 1) % 32
      [] ~Before(r, 6, 2) -> Hash(s, -1, 1)
      [] OTHER            -> Hash(s, 1, -1)

\* The modules that have a node in the tree.  ntdll is not mapped by its name,
\* and so only in the first.
Nodes(t, D) == IF t = "BaseAddressIndex" THEN D ELSE D \ {ntdll}

Less(t, a, b) ==
    IF t = "BaseAddressIndex" THEN DllBase[a] < DllBase[b]
    ELSE \/ TimeDateStamp[a] < TimeDateStamp[b]
         \/ /\ TimeDateStamp[a] = TimeDateStamp[b]
            /\ \/ SizeOfImage[a] < SizeOfImage[b]
               \/ SizeOfImage[a] = SizeOfImage[b] /\ DllBase[a] < DllBase[b]

\* The nodes of these modules, each once, in order.
InOrder(t, nodes, D) ==
    /\ Range(nodes) = Nodes(t, D)
    /\ \A i, j \in DOMAIN nodes : i < j => Less(t, nodes[i], nodes[j])

HasTrees(r) == ~Before(r, 6, 2)

\* Windows XP and 2003 have a heap of their own for the entries; what Vista has
\* is not known.
HeapsOfLdr(r) ==
    IF Before(r, 5, 1) \/ ~Before(r, 6, 1) THEN {ProcessHeap}
    ELSE IF Before(r, 6, 0) THEN Heap \ {ProcessHeap} ELSE Heap

\* Places of two words in .data, no word in two of them.
Places == {P \in SUBSET (0 .. DataWords - 2) : \A a, b \in P : a - b \notin {-1, 1}}

IndexesInit ==
    /\ release \in Release
    /\ tree \in [Tree -> UNION {[1 .. n -> Windows] : n \in 0 .. Cardinality(Windows)}]
    /\ \A t \in Tree : IF HasTrees(release) THEN InOrder(t, tree[t], Windows) ELSE tree[t] = <<>>
    /\ heapOfLdr \in HeapsOfLdr(release)
    /\ initOrder \in {D \in SUBSET Windows : kernel32 \in D}
    /\ hasData \in BOOLEAN
    /\ \E P \in Places :
          /\ headerAt \in {h \in [Tree -> P] : \A t, u \in Tree : t # u => h[t] # h[u]}
          /\ copies \in {c \in [Tree -> SUBSET (P \ Range(headerAt))] :
                            \A t, u \in Tree : t # u => c[t] \cap c[u] = {}}
    /\ peb = Null
    /\ bucket = [d \in Windows |-> WindowsBucket(release, d)]
    /\ astray = FALSE

-------------------------------------------------------------------------------
(* The code *)

\* LdrpFindHeap and LdrpFindHeapEnum: where Windows has a private heap the heaps
\* are asked, in any order, which of them holds the entry of ntdll.
LdrpFindHeap(v) ==
    IF v >= SYSTEM_NT_5_1_RTM /\ v < SYSTEM_NT_6_1_RTM
       THEN LET first == IF v >= SYSTEM_NT_6_0_RTM THEN Null ELSE ProcessHeap
            IN IF heapOfLdr \in Heap \ {first} THEN heapOfLdr ELSE first
       ELSE ProcessHeap

\* Word w of .data, when this is the root of the tree: the root and the leftmost
\* node, where its header or a copy is, and elsewhere nothing of the tree.
Data(t, root, w) ==
    LET headers == copies[t] \cup {headerAt[t]}
    IN CASE w \in headers     -> tree[t][root]
         [] w - 1 \in headers -> tree[t][1]
         [] OTHER             -> Null

\* A plausible bug of LdrpFindRbTree: a header in the last two words is missed.
LdrpFindRbTree_ButLast(t, root) ==
    LET Matches == {w \in 0 .. DataWords - 3 : /\ Data(t, root, w) = tree[t][root]
                                               /\ Data(t, root, w + 1) = tree[t][1]}
    IN IF ~hasData \/ Matches = {} THEN Null
       ELSE IF Min(Matches) = headerAt[t] THEN t ELSE "copy"

\* The first place in .data where this root is followed by the leftmost node is
\* taken for the header.
LdrpFindRbTree(t, root) ==
    LET Matches == {w \in 0 .. DataWords - 2 : /\ Data(t, root, w) = tree[t][root]
                                               /\ Data(t, root, w + 1) = tree[t][1]}
    IN IF ~hasData \/ Matches = {} THEN Null
       ELSE IF Min(Matches) = headerAt[t] THEN t ELSE "copy"

\* LdrpHashEntryRaw, and the mask.
LdrpHashEntry(v, d) ==
    LET s == BaseDllName[d] IN
    CASE v < SYSTEM_NT_6_0_RTM -> (s[1] - 65) % 32
      [] v >= SYSTEM_NT_6_0_RTM /\ v < SYSTEM_NT_6_1_RTM -> (s[1] - 1) % 32
      [] v >= SYSTEM_NT_6_1_RTM /\ v < SYSTEM_NT_6_2_RTM ->
            Hash(s, 1, 65599)
      [] OTHER -> Hash(s, 65599, 1)

\* Memory around the table is no table of rings: reading it is an exception.
LdrpIsValidHashTable(v, table) ==
    /\ \A i \in Buckets : table + i \in Buckets
    /\ \A d \in DOMAIN bucket : bucket[d] = table + LdrpHashEntry(v, d)

\* An entry that is alone in its bucket gives the place of the table away.
LdrpFindHashTable(v) ==
    LET Alone(d)  == \A e \in DOMAIN bucket \ {d} : bucket[e] # bucket[d]
        Tables == {table \in {bucket[d] - LdrpHashEntry(v, d) : d \in {e \in initOrder : Alone(e)}} :
                      LdrpIsValidHashTable(v, table)}
    IN IF Tables = {} THEN Null ELSE CHOOSE table \in Tables : TRUE

\* The state that every load uses, filled once.
Discover ==
    LET v == GetSystemVersionCompact(release) IN
    /\ peb = Null
    /\ \E index \in [Tree -> Tree \cup {"copy", Null}] :
          /\ \A t \in Tree :
                IF v < SYSTEM_NT_6_2_RTM THEN index[t] = Null
                ELSE \E root \in DOMAIN tree[t] : index[t] = LdrpFindRbTree(t, root)
          /\ peb' = [SystemVersion |-> v,     LdrpHeap      |-> LdrpFindHeap(v),
                     Index         |-> index, LdrpHashTable |-> LdrpFindHashTable(v)]
    /\ UNCHANGED <<release, heapOfLdr, initOrder, place, tree, bucket, astray>>

Compare(a, b) == IF a = b THEN 0 ELSE IF a < b THEN -1 ELSE 1

\* A plausible bug of LdrpRbTreeCompareTimeStamp: copies of an image are equal.
LdrpRbTreeCompareTimeStamp_NoBase(a, b) ==
    IF TimeDateStamp[a] # TimeDateStamp[b] THEN Compare(TimeDateStamp[a], TimeDateStamp[b])
    ELSE Compare(SizeOfImage[a], SizeOfImage[b])

LdrpRbTreeCompareTimeStamp(a, b) ==
    IF TimeDateStamp[a] # TimeDateStamp[b] THEN Compare(TimeDateStamp[a], TimeDateStamp[b])
    ELSE IF SizeOfImage[a] # SizeOfImage[b] THEN Compare(SizeOfImage[a], SizeOfImage[b])
    ELSE Compare(DllBase[a], DllBase[b])

LdrpRbTreeCompare(t, a, b) ==
    IF t = "BaseAddressIndex" THEN Compare(DllBase[a], DllBase[b])
    ELSE LdrpRbTreeCompareTimeStamp(a, b)

\* From the root of the subtree of the nodes of the range, whichever it is, down:
\* a node that compares equal is taken for the new one, which is then not inserted.
LdrpRbTreeInsert(t, d) ==
    LET nodes == tree[t]
        below[range \in (1 .. Len(nodes) + 1) \X (0 .. Len(nodes))] ==
           IF range[1] > range[2] THEN {InsertAt(nodes, range[1], d)}
           ELSE UNION {LET cmp == LdrpRbTreeCompare(t, d, nodes[root]) IN
                       IF cmp = 0 THEN {nodes}
                       ELSE below[IF cmp < 0 THEN <<range[1], root - 1>> ELSE <<root + 1, range[2]>>]
                       : root \in range[1] .. range[2]}
    IN below[<<1, Len(nodes)>>]

\* What LdrpEntryInit does to the indexes when nothing in it fails.  Without the
\* trees it fails, and failures are in LdrLoad.  What Windows sees of a tree whose
\* root and leftmost node are changed in a copy of its header is left open.
Load(d) ==
    /\ peb # Null /\ ~astray
    /\ d \notin DOMAIN bucket
    /\ IF peb.SystemVersion >= SYSTEM_NT_6_2_RTM
          THEN /\ Null \notin Range(peb.Index)
               /\ \E b \in LdrpRbTreeInsert("BaseAddressIndex", d),
                     m \in LdrpRbTreeInsert("MappingInfoIndex", d) :
                        tree' = [t \in Tree |-> IF t = "BaseAddressIndex" THEN b ELSE m]
          ELSE tree' = tree
    /\ IF peb.LdrpHashTable = Null
          THEN astray' = TRUE /\ UNCHANGED bucket
          ELSE /\ bucket' = [e \in DOMAIN bucket \cup {d} |->
                               IF e = d THEN peb.LdrpHashTable + LdrpHashEntry(peb.SystemVersion, d)
                               ELSE bucket[e]]
               /\ astray' = ("copy" \in Range(peb.Index))
    /\ UNCHANGED <<release, heapOfLdr, initOrder, place, peb>>

\* What LdrEntryDestroy does to them.
Unload(d) ==
    /\ ~astray
    /\ d \in DOMAIN bucket
    /\ tree' = IF peb.SystemVersion >= SYSTEM_NT_6_2_RTM
                  THEN [t \in Tree |-> RemoveAt(tree[t], CHOOSE i \in DOMAIN tree[t] : tree[t][i] = d)]
                  ELSE tree
    /\ bucket' = [e \in DOMAIN bucket \ {d} |-> bucket[e]]
    /\ UNCHANGED <<release, heapOfLdr, initOrder, place, peb, astray>>

IndexesNext ==
    \/ Discover
    \/ \E d \in Memory : Load(d) \/ Unload(d)

IndexesSpec == IndexesInit /\ [][IndexesNext]_indexVars

-------------------------------------------------------------------------------
(* Safety *)

\* On every release what is found is what Windows has, whatever the shape of the
\* trees and wherever their headers are, with three exceptions: without a section
\* .data no tree is found; where words before a header equal its own, they are
\* taken for it; and the hash table is missed if no module to be initialised is
\* alone in its bucket.  Only the last two lead a load astray.
FoundIsRight ==
    /\ peb # Null =>
          /\ peb.LdrpHeap = heapOfLdr
          /\ peb.Index = [t \in Tree |->
                IF ~HasTrees(release) \/ ~hasData THEN Null
                ELSE IF \E c \in copies[t] : c < headerAt[t] THEN "copy" ELSE t]
          /\ peb.LdrpHashTable =
                IF \E d \in initOrder : \A e \in Windows \ {d} :
                      WindowsBucket(release, e) # WindowsBucket(release, d)
                   THEN 0 ELSE Null
    /\ astray => /\ peb # Null
                 /\ peb.LdrpHashTable = Null \/ \E t \in Tree : peb.Index[t] = "copy"

\* However modules come and go, copies of one image included, the trees hold
\* exactly the modules of the hash table, in the order Windows searches them by,
\* and each module is in the bucket where Windows looks for its name; until a
\* load goes astray.
IndexesAgree ==
    ~astray =>
       /\ \A d \in DOMAIN bucket : bucket[d] = WindowsBucket(release, d)
       /\ HasTrees(release) =>
             \A t \in Tree : InOrder(t, tree[t], DOMAIN bucket)
===============================================================================
