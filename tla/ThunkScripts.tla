---------------------------- MODULE ThunkScripts -----------------------------
(***************************************************************************)
(* The generator of thunks as a whole.  src/suffix-array-gen.cpp builds    *)
(* the suffix array of the merged headers; then scripts/gen-thunks.ts      *)
(* counts the exports and looks up in it whether a function is declared.   *)
(***************************************************************************)
EXTENDS SuffixArray, ThunkExport

CONSTANTS Bytes,                \* the bytes of each name
          FunctionPrefixTable,  \* the bytes that may surround a function name
          Blanks, Braces,       \* bytes of each kind
          Open, Close, Semicolon

ASSUME NameAssumption ==
    /\ \A k \in Name : Bytes[k] \in Seq(Byte)
    /\ FunctionPrefixTable \subseteq Byte

\* A plausible bug of matchedIndex: the byte before the name is forgotten when
\* the one after it is looked at.
matchedIndex_NoPrefix(k) ==
    UNION {LET range == binary_search(<<b>> \o Bytes[k])
           IN {i \in range.low .. range.high :
                  Content(su_index[i] + Len(Bytes[k])) \in FunctionPrefixTable}
           : b \in FunctionPrefixTable}

\* Where the name stands between two bytes of the table.
matchedIndex(k) ==
    UNION {LET range == binary_search(<<b>> \o Bytes[k])
           IN {i \in range.low .. range.high :
                  Content(su_index[i] + 1 + Len(Bytes[k])) \in FunctionPrefixTable}
           : b \in FunctionPrefixTable}

\* find_function_tail: after blanks stands a semicolon, of data, or a pair of
\* parentheses, with no other one, no semicolon and no brace between them.
HasTail(p) ==
    \E q \in p .. Len(content) - 1 :
       /\ \A i \in p .. q - 1 : Content(i) \in Blanks
       /\ \/ Content(q) = Semicolon
          \/ /\ Content(q) = Open
             /\ \E z \in q + 1 .. Len(content) - 1 :
                   /\ Content(z) = Close
                   /\ \A i \in q + 1 .. z - 1 :
                         Content(i) \notin Braces \cup {Open, Close, Semicolon}

\* The names that have a tail at one of the places given to ParseFunctionInfo.
Found == {k \in Name :
             \E i \in matchedIndex(k) : HasTail(su_index[i] + 1 + Len(Bytes[k]))}

allVars == <<vars, thunkVars>>

InitAll == Init /\ ThunkInit

Build == Double /\ UNCHANGED thunkVars

\* The script runs when the table is built, and declared are the names that it
\* finds.  Whether it can read the return type before them is left open.
Export == /\ Built /\ UNCHANGED vars
          /\ ThunkNext
          /\ dll = 0 => declared' \cup untyped' = Found

NextAll == Build \/ Export

SpecAll == InitAll /\ [][NextAll]_allVars

-------------------------------------------------------------------------------
(* Safety *)

\* Where the headers declare the name: it stands between two bytes of the table
\* and has a tail.
Declarations(k) ==
    {p \in 0 .. Len(content) - 1 :
        /\ \E b, c \in FunctionPrefixTable : OccursAt(<<b>> \o Bytes[k] \o <<c>>, p)
        /\ HasTail(p + 1 + Len(Bytes[k]))}

Greatest(p) == \A q \in Position : ~Less(Suffix(p), Suffix(q))

Thunked(k) == \E m \in Module : k \in Thunks(m)

\* A file that counts for a module of the list exports the function, and it is
\* not to be ignored.
Wanted(k) == /\ k \notin ApisToIgnore
             /\ \E f \in File, i \in DOMAIN DllNameList :
                   StartsWith(f, DllNameList[i]) /\ k \in ExportList(f)

\* In the end a function has a thunk only if it is wanted and the headers
\* declare it.  One that is wanted has none only if the headers declare it
\* nowhere but, perhaps, at the greatest suffix of the text, the one place where
\* the search does not look.
DeclaredIsThunked ==
    Finished =>
       \A k \in Name :
          /\ Thunked(k) => Wanted(k) /\ Declarations(k) # {}
          /\ Wanted(k) /\ ~Thunked(k) => \A p \in Declarations(k) : Greatest(p)
===============================================================================
