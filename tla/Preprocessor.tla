----------------------------- MODULE Preprocessor -----------------------------
(***************************************************************************)
(* The Compiler of scripts/compiler.ts, a preprocessor for C headers.  It  *)
(* keeps no stack of conditions: it obeys lines until a condition is false *)
(* or an alternative ends, and then skips lines, counting the conditions   *)
(* in them, up to the line that ends the skipping.                         *)
(*                                                                         *)
(* The program text is read one line at a time and never again, so the     *)
(* model chooses each line when it is read, and how it is written, as far  *)
(* as the compiler's two readers of lines, parseNext and conditionNext,    *)
(* tell directives by it.  What follows the name of a directive is read as *)
(* it is meant.  Beside the compiler the model keeps what the C standard   *)
(* says of the same lines: the conditions that are open.                   *)
(***************************************************************************)
EXTENDS Naturals, Sequences

CONSTANTS Name,       \* names of macros
          Value,      \* what they may be defined as; Zero is false
          Zero,
          Undefined,
          Forms,      \* how lines with directives may be written
          MaxDepth,   \* how deep conditions may nest
          MaxSaved    \* how many definitions of a name may be saved

ASSUME PreprocessorAssumption ==
    /\ Undefined \notin Value
    /\ Forms \subseteq {"plain", "blank", "attached", "hidden"}
    /\ MaxDepth \in Nat /\ MaxSaved \in Nat

VARIABLES
    defines,  \* this.defines
    stack,    \* this.stack, the definitions saved by push_macro
    mode,     \* "obey": in parseNext; "skip": in conditionNext
    n, end,   \* the local variables of conditionNext
    failed,   \* an Error was thrown
    done,     \* the last line had its effect: text was added to the result,
              \* a condition evaluated, a macro changed
    open,     \* C: the open conditions, innermost last: was one of its groups
              \* taken, is the current group, was #else read
    due,      \* C: the last line has an effect
    astray    \* a line was read that the compiler took for something else than
              \* C does, where that makes a difference

vars == <<defines, stack, mode, n, end, failed, done, open, due, astray>>
macros == <<defines, stack>>
skipping == <<mode, n, end>>

Init == /\ defines \in [Name -> Value \cup {Undefined}]
        /\ stack = [x \in Name |-> <<>>]
        /\ mode = "obey" /\ n = 0 /\ end = FALSE
        /\ failed = FALSE /\ done = FALSE
        /\ open = <<>> /\ due = FALSE /\ astray = FALSE

-------------------------------------------------------------------------------
(* What the C standard says *)

AllOn(conditions) == \A i \in DOMAIN conditions : conditions[i].on

Top   == open[Len(open)]
Outer == SubSeq(open, 1, Len(open) - 1)

\* #if, #ifdef and #ifndef open a condition; in a skipped group none of its groups is
\* taken.
Opens(holds) ==
    /\ due' = AllOn(open)
    /\ open' = Append(open, [taken |-> ~AllOn(open) \/ holds,
                             on |-> AllOn(open) /\ holds,
                             closed |-> FALSE])

\* #elif and #else start a group, which is taken if none was and it holds.
Turns(holds, last) ==
    /\ open # <<>> /\ ~Top.closed
    /\ due' = (AllOn(Outer) /\ ~Top.taken)
    /\ open' = Append(Outer, [taken |-> Top.taken \/ holds,
                              on |-> ~Top.taken /\ holds,
                              closed |-> last])

Closes == open # <<>> /\ open' = Outer

\* The other lines count if every group around them is on.
Counts == due' = AllOn(open) /\ UNCHANGED open

\* A comment does nothing, whatever it looks like.
Comments == due' = FALSE /\ UNCHANGED open

-------------------------------------------------------------------------------
(* Conditions *)

\* #ifdef, #ifndef, and #if with the value of a name; #if defined(x) is as
\* #ifdef x.
Condition == {"ifdef", "ifndef", "if"} \X Name

Holds(c) == CASE c[1] = "ifdef"  -> defines[c[2]] # Undefined
              [] c[1] = "ifndef" -> defines[c[2]] = Undefined
              [] c[1] = "if"     -> defines[c[2]] \notin {Undefined, Zero}

\* A name that is left in the expression makes eval throw.
Throws(c) == c[1] = "if" /\ defines[c[2]] = Undefined

Skip(toEnd) == mode' = "skip" /\ n' = 1 /\ end' = toEnd
Resume      == mode' = "obey" /\ n' = 0 /\ end' = FALSE

\* Directives.if, .ifdef and .ifndef.
Evaluate(c) ==
    /\ failed' = Throws(c)
    /\ done' = TRUE
    /\ IF Holds(c) THEN Resume ELSE Skip(FALSE)

\* A directive that does not even change what is skipped.
Ignored == UNCHANGED skipping /\ done' = FALSE

Reads == ~failed

\* conditionNext has reached a line of the condition that it was called for.
AtTurn == mode = "skip" /\ ~end /\ n = 1

-------------------------------------------------------------------------------
(* How a line with a directive is written *)

\* "plain":    "#name", and a blank or the end of the line
\* "blank":    "# name", and a blank or the end of the line
\* "attached": something else than a blank right after the name: a tab, a comment,
\*             a parenthesis
\* "hidden":   like "plain" for the compiler, but not a directive in C: the line is
\*             in a comment or continues another

\* parseNext takes the text up to the first blank for the name.  A name that it
\* does not know makes it remove the line.
Obeyed(form) == mode = "obey" /\ form \in {"plain", "hidden"}

\* conditionNext leaves the blanks after the # out of the name.
Noticed(form) == mode = "skip" /\ form \in {"plain", "blank", "hidden"}

\* What the compiler takes the line for is not what it is in C.
Misread(form) == IF mode = "obey" THEN form # "plain" ELSE form \in {"attached", "hidden"}

Strays(form, matters) == astray' = (astray \/ (Misread(form) /\ matters))

\* What the line is in C.
InC(form, directive) == IF form = "hidden" THEN Comments ELSE directive

-------------------------------------------------------------------------------
(* Lines *)

\* Any line without a #: parseNext adds it, conditionNext does not.
Text ==
    /\ Reads
    /\ done' = (mode = "obey")
    /\ Counts
    /\ UNCHANGED <<macros, skipping, failed, astray>>

\* A comment that starts with //# or /*#: parseNext removes it, to its end.
Remark ==
    /\ Reads
    /\ done' = FALSE
    /\ Comments
    /\ UNCHANGED <<macros, skipping, failed, astray>>

\* A plausible bug of If: conditions in skipped lines are not counted.
If_NotCounted(c, form) ==
    /\ Reads /\ Len(open) < MaxDepth /\ n < MaxDepth
    /\ InC(form, Opens(Holds(c)))
    /\ \/ Obeyed(form) /\ Evaluate(c)
       \/ ~Obeyed(form) /\ Ignored /\ UNCHANGED failed
    /\ Strays(form, TRUE)
    /\ UNCHANGED macros

\* #if, #ifdef and #ifndef: in skipped lines they are counted.
If(c, form) ==
    /\ Reads /\ Len(open) < MaxDepth /\ n < MaxDepth
    /\ InC(form, Opens(Holds(c)))
    /\ \/ Obeyed(form) /\ Evaluate(c)
       \/ Noticed(form) /\ n' = n + 1 /\ done' = FALSE /\ UNCHANGED <<mode, end, failed>>
       \/ ~Obeyed(form) /\ ~Noticed(form) /\ Ignored /\ UNCHANGED failed
    /\ Strays(form, TRUE)
    /\ UNCHANGED macros

\* #elif: after a group that was obeyed the rest is skipped up to #endif;
\* after groups that were skipped it decides like #if.
Elif(c, form) ==
    /\ Reads
    /\ InC(form, Turns(Holds(c), FALSE))
    /\ \/ Obeyed(form) /\ Skip(TRUE) /\ done' = FALSE /\ UNCHANGED failed
       \/ Noticed(form) /\ AtTurn /\ Evaluate(c)
       \/ ~Obeyed(form) /\ ~(Noticed(form) /\ AtTurn) /\ Ignored /\ UNCHANGED failed
    /\ Strays(form, mode = "obey" \/ AtTurn)
    /\ UNCHANGED macros

Else(form) ==
    /\ Reads
    /\ InC(form, Turns(TRUE, TRUE))
    /\ \/ Obeyed(form) /\ Skip(TRUE) /\ done' = FALSE
       \/ Noticed(form) /\ AtTurn /\ Resume /\ done' = TRUE
       \/ ~Obeyed(form) /\ ~(Noticed(form) /\ AtTurn) /\ Ignored
    /\ Strays(form, mode = "obey" \/ AtTurn)
    /\ UNCHANGED <<macros, failed>>

\* #endif: in obeyed lines nothing needs to be done.
Endif(form) ==
    /\ Reads
    /\ InC(form, Closes /\ due' = FALSE)
    /\ \/ Noticed(form) /\ n = 1 /\ Resume
       \/ Noticed(form) /\ n # 1 /\ n' = n - 1 /\ UNCHANGED <<mode, end>>
       \/ ~Noticed(form) /\ UNCHANGED skipping
    /\ done' = FALSE
    /\ Strays(form, mode = "skip")
    /\ UNCHANGED <<macros, failed>>

\* The other directives: what they do, if they are obeyed.
Does(form, effect) ==
    /\ Reads
    /\ InC(form, Counts)
    /\ done' = Obeyed(form)
    /\ \/ Obeyed(form) /\ effect
       \/ ~Obeyed(form) /\ UNCHANGED <<macros, failed>>
    /\ Strays(form, mode = "obey")
    /\ UNCHANGED skipping

Define(x, v, form) ==
    Does(form, defines' = [defines EXCEPT ![x] = v] /\ UNCHANGED <<stack, failed>>)

Undef(x, form) ==
    Does(form, defines' = [defines EXCEPT ![x] = Undefined] /\ UNCHANGED <<stack, failed>>)

PushMacro(x, form) ==
    /\ Len(stack[x]) < MaxSaved
    /\ Does(form, /\ stack' = IF defines[x] = Undefined THEN stack
                              ELSE [stack EXCEPT ![x] = Append(@, defines[x])]
                  /\ failed' = (defines[x] = Undefined)
                  /\ UNCHANGED defines)

PopMacro(x, form) ==
    Does(form,
        \/ stack[x] = <<>> /\ failed' = TRUE /\ UNCHANGED macros
        \/ /\ stack[x] # <<>>
           /\ defines' = [defines EXCEPT ![x] = stack[x][Len(stack[x])]]
           /\ stack' = [stack EXCEPT ![x] = SubSeq(@, 1, Len(@) - 1)]
           /\ UNCHANGED failed)

\* #error.
Fail(form) == Does(form, failed' = TRUE /\ UNCHANGED macros)

Next ==
    \/ Text \/ Remark
    \/ \E f \in Forms :
          \/ Else(f) \/ Endif(f) \/ Fail(f)
          \/ \E c \in Condition : If(c, f) \/ Elif(c, f)
          \/ \E x \in Name : \/ \E v \in Value : Define(x, v, f)
                             \/ Undef(x, f) \/ PushMacro(x, f) \/ PopMacro(x, f)

Spec == Init /\ [][Next]_vars

-------------------------------------------------------------------------------
(* Type correctness *)

Group == [taken : BOOLEAN, on : BOOLEAN, closed : BOOLEAN]

\* What the compiler and the standard keep has its type.
KeptTypeOK ==
    /\ defines \in [Name -> Value \cup {Undefined}]
    /\ stack \in [Name -> Seq(Value)]
    /\ mode \in {"obey", "skip"}
    /\ n \in Nat /\ end \in BOOLEAN
    /\ open \in Seq(Group)
    /\ failed \in BOOLEAN /\ done \in BOOLEAN /\ due \in BOOLEAN

\* Every variable has its type.
TypeOK == KeptTypeOK /\ astray \in BOOLEAN

-------------------------------------------------------------------------------
(* Safety *)

\* The compiler, which only counts, keeps the conditions that C keeps on a
\* stack.  A line has an effect exactly if it has one in C, however conditions
\* nest: text is copied, macros are changed and conditions evaluated in the
\* groups that are taken, and nowhere else.  It holds until a line is misread
\* where that matters.  Such lines are, where the compiler obeys: a directive with
\* a blank after the # or without one after its name, other than #endif, and a
\* line in an ordinary comment that looks like a directive.  Where it skips: a
\* condition that opens, an #endif, or an #elif or #else whose turn it is, without
\* a blank after the name or in a comment.  Any other line leaves it right.
ObeysWhatCObeys == done = due \/ astray
===============================================================================
