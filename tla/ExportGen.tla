------------------------------ MODULE ExportGen -------------------------------
(***************************************************************************)
(* The generator of the overriding library: gen_functions, expanded from   *)
(* the lists of thunks, records for each function the types of its result  *)
(* and its arguments (src/gen-exports-api.cpp) in a vector                 *)
(* (src/gen-exports-function-info.cpp), and main writes a row for each     *)
(* (src/gen-exports.cpp).  A type is its size; a function is its number in *)
(* the lists.  The text of the declarations is left out.                   *)
(***************************************************************************)
EXTENDS Integers, Sequences, SequencesExt

CONSTANTS TypeSizes,     \* sizes a type may have, 0 for void
          MaxFunctions,  \* bound: functions in the lists
          MaxArguments   \* bound: arguments of a function

ASSUME ExportGenAssumption == TypeSizes \subseteq Nat

VARIABLES lists,     \* what has been declared: for each function its types
          functions, \* module_functions: for each element its ArgTypes
          block,     \* the memory of the vector: its number and its capacity
          info,      \* the element that parameters are added to, as an address
          toAdd,     \* the types that are still to be added to it
          rows,      \* the rows of override-api-thunks.h, <<function, size>>
          exported,  \* the rows of override-api.def
          warned     \* the functions that "Something is wrong" is said of

genVars == <<lists, functions, block, info, toAdd, rows, exported, warned>>

GenInit ==
    /\ lists = <<>> /\ functions = <<>>
    /\ block = [number |-> 1, capacity |-> 0]
    /\ info = <<0, 0>> /\ toAdd = <<>>
    /\ rows = <<>> /\ exported = <<>> /\ warned = {}

\* push_back moves the elements when there is no room; by how much the vector
\* grows is the library's affair.
PushBack ==
    IF Len(functions) < block.capacity THEN {block}
    ELSE {[number |-> block.number + 1, capacity |-> Len(functions) + n] : n \in 1 .. 2}

\* A plausible bug of function_info_alloca: the address is that of the place
\* where push_back is going to put the element.
function_info_alloca_Early(types) ==
    \E b \in PushBack :
       /\ block' = b
       /\ functions' = Append(functions, <<>>)
       /\ info' = <<block.number, Len(functions) + 1>>
       /\ lists' = Append(lists, types)
       /\ toAdd' = types

\* An element for the function, and its address.
function_info_alloca(types) ==
    \E b \in PushBack :
       /\ block' = b
       /\ functions' = Append(functions, <<>>)
       /\ info' = <<b.number, Len(functions) + 1>>
       /\ lists' = Append(lists, types)
       /\ toAdd' = types

\* DEFINE_THUNK: the result first, then the arguments.
DefineThunk ==
    /\ toAdd = <<>> /\ rows = <<>> /\ Len(lists) < MaxFunctions
    /\ \E n \in 0 .. MaxArguments, result \in TypeSizes :
          \E arguments \in [1 .. n -> TypeSizes \ {0}] :
             function_info_alloca(<<result>> \o arguments)
    /\ UNCHANGED <<rows, exported, warned>>

\* A write to memory that the vector has left is lost.
function_info_add_parameter ==
    /\ toAdd # <<>>
    /\ functions' = IF info[1] = block.number
                       THEN [functions EXCEPT ![info[2]] = Append(@, Head(toAdd))]
                       ELSE functions
    /\ toAdd' = Tail(toAdd)
    /\ UNCHANGED <<lists, block, info, rows, exported, warned>>

Sum(sizes) == FoldLeft(LAMBDA sum, s : sum + s, 0, sizes)

\* A round of main's loop.
WriteFunction ==
    /\ lists # <<>> /\ toAdd = <<>> /\ Len(rows) < Len(functions)
    /\ LET i    == Len(rows) + 1
           Args == IF functions[i] = <<>> THEN <<>> ELSE Tail(functions[i])
           total_size == Sum([k \in DOMAIN Args |-> IF Args[k] <= 4 THEN 4 ELSE Args[k]])
       IN /\ rows' = Append(rows, <<i, total_size>>)
          /\ exported' = Append(exported, i)
          /\ warned' = IF \E k \in DOMAIN Args : Args[k] > 4 /\ Args[k] % 4 # 0
                          THEN warned \cup {i} ELSE warned
    /\ UNCHANGED <<lists, functions, block, info, toAdd>>

GenNext == DefineThunk \/ function_info_add_parameter \/ WriteFunction

GenSpec == GenInit /\ [][GenNext]_genVars

-------------------------------------------------------------------------------
(* Safety *)

\* What a function takes on the stack, as its declaration has it.
StackBytes(types) ==
    LET Args == Tail(types)
    IN Sum([k \in DOMAIN Args |-> 4 * ((Args[k] + 3) \div 4)])

\* The rows are those of the functions declared, in their order and once each,
\* with the bytes that the arguments take on the stack, although the elements
\* move while the vector grows; a size that may be wrong was warned of.
RowsAreComplete ==
    /\ exported = [i \in DOMAIN rows |-> i]
    /\ \A i \in DOMAIN rows :
          rows[i][1] = i /\ (rows[i][2] = StackBytes(lists[i]) \/ i \in warned)
    /\ rows # <<>> => Len(functions) = Len(lists)
===============================================================================
