-------------------------- MODULE PreprocessorProofs --------------------------
(***************************************************************************)
(* The compiler obeys the lines that C obeys, for every depth of nesting,  *)
(* until a line is misread where that matters (astray).                    *)
(*                                                                         *)
(* The invariant relates what the compiler keeps to the open conditions.   *)
(* While it obeys, the current group of each is on.  While it skips, the   *)
(* condition it was called for is the n-th from the inside; the ones       *)
(* around that are on, the ones inside it have no group to take, and end   *)
(* says whether it had one of its own.                                     *)
(***************************************************************************)
EXTENDS Preprocessor, TLAPS

\* The condition that conditionNext was called for.
Cause == Len(open) - n + 1

Obeying == /\ n = 0 /\ ~end
           /\ \A i \in DOMAIN open : open[i].on /\ open[i].taken

Skipping == /\ n \in 1 .. Len(open)
            /\ \A i \in DOMAIN open :
                  /\ i < Cause => open[i].on /\ open[i].taken
                  /\ i > Cause => ~open[i].on /\ open[i].taken
            /\ ~open[Cause].on
            /\ end <=> open[Cause].taken

Counted == (mode = "obey" => Obeying) /\ (mode = "skip" => Skipping)

IInv == KeptTypeOK /\ Counted /\ done = due

\* It holds until a line is misread.
ReadInv == astray \/ IInv

-------------------------------------------------------------------------------
(* The open conditions *)

\* Opening and closing: what the sequence of conditions is then.
LEMMA Appended ==
    ASSUME NEW s \in Seq(Group), NEW g \in Group
    PROVE  /\ Append(s, g) \in Seq(Group)
           /\ Len(Append(s, g)) = Len(s) + 1
           /\ Append(s, g)[Len(s) + 1] = g
           /\ \A i \in DOMAIN s : i \in 1 .. Len(s) /\ Append(s, g)[i] = s[i]
           /\ DOMAIN Append(s, g) = 1 .. Len(s) + 1
    OBVIOUS

\* What is left of a sequence of conditions without the last one.
LEMMA Shortened ==
    ASSUME NEW s \in Seq(Group), s # <<>>
    PROVE  /\ Len(s) \in Nat \ {0}
           /\ DOMAIN s = 1 .. Len(s)
           /\ s[Len(s)] \in Group
           /\ SubSeq(s, 1, Len(s) - 1) \in Seq(Group)
           /\ Len(SubSeq(s, 1, Len(s) - 1)) = Len(s) - 1
           /\ DOMAIN SubSeq(s, 1, Len(s) - 1) = 1 .. Len(s) - 1
           /\ \A i \in 1 .. Len(s) - 1 : SubSeq(s, 1, Len(s) - 1)[i] = s[i]
<1>1. Len(s) \in Nat \ {0} /\ DOMAIN s = 1 .. Len(s)
    OBVIOUS
<1>2. \A i \in 1 .. Len(s) : s[i] \in Group
    OBVIOUS
<1>3. /\ Len(SubSeq(s, 1, Len(s) - 1)) = Len(s) - 1
      /\ DOMAIN SubSeq(s, 1, Len(s) - 1) = 1 .. Len(s) - 1
      /\ \A i \in 1 .. Len(s) - 1 : SubSeq(s, 1, Len(s) - 1)[i] = s[i]
    BY <1>1
<1>4. SubSeq(s, 1, Len(s) - 1) \in Seq(Group)
    BY <1>1, <1>2
<1> QED BY <1>1, <1>2, <1>3, <1>4

\* What counts in C is what the compiler obeys.
LEMMA ObeyedIsOn ==
    ASSUME IInv
    PROVE  AllOn(open) <=> mode = "obey"
    <1>1. CASE mode = "obey"
        BY <1>1 DEF IInv, Counted, Obeying, AllOn
    <1>2. CASE mode = "skip"
        <2>1. Cause \in DOMAIN open /\ ~open[Cause].on
            BY <1>2 DEF IInv, KeptTypeOK, Counted, Skipping, Cause
        <2> QED BY <1>2, <2>1 DEF AllOn
    <1> QED BY <1>1, <1>2 DEF IInv, KeptTypeOK

\* What a directive that opens, turns or closes a condition does to them.
LEMMA OpensOne ==
    ASSUME IInv, NEW h \in BOOLEAN, Opens(h)
    PROVE  /\ open' \in Seq(Group)
           /\ Len(open') = Len(open) + 1
           /\ DOMAIN open' = 1 .. Len(open) + 1
           /\ \A i \in 1 .. Len(open) : open'[i] = open[i]
           /\ open'[Len(open) + 1].on <=> (mode = "obey" /\ h)
           /\ open'[Len(open) + 1].taken <=> (mode # "obey" \/ h)
           /\ due' <=> (mode = "obey")
           /\ due' \in BOOLEAN
<1>1. DEFINE g == [taken |-> ~AllOn(open) \/ h, on |-> AllOn(open) /\ h, closed |-> FALSE]
<1>2. g \in Group
    BY DEF Group, AllOn
<1>3. open \in Seq(Group) /\ DOMAIN open = 1 .. Len(open)
    BY DEF IInv, KeptTypeOK
<1>4. open' = Append(open, g) /\ due' = AllOn(open)
    BY DEF Opens
<1>5. AllOn(open) <=> mode = "obey"
    BY ObeyedIsOn
<1>6. g.on <=> (mode = "obey" /\ h)
    BY <1>5
<1>7. g.taken <=> (mode # "obey" \/ h)
    BY <1>5
<1>8. due' \in BOOLEAN
    BY <1>4 DEF AllOn
<1> HIDE DEF g
<1>9. /\ Append(open, g) \in Seq(Group)
      /\ Len(Append(open, g)) = Len(open) + 1
      /\ Append(open, g)[Len(open) + 1] = g
      /\ \A i \in DOMAIN open : i \in 1 .. Len(open) /\ Append(open, g)[i] = open[i]
      /\ DOMAIN Append(open, g) = 1 .. Len(open) + 1
    BY <1>2, <1>3, Appended
<1> QED BY <1>3, <1>4, <1>5, <1>6, <1>7, <1>8, <1>9

\* An alternative changes the innermost condition only.
LEMMA TurnsOne ==
    ASSUME IInv, NEW h \in BOOLEAN, NEW last \in BOOLEAN, Turns(h, last)
    PROVE  /\ Len(open) \in Nat \ {0}
           /\ DOMAIN open = 1 .. Len(open)
           /\ open' \in Seq(Group)
           /\ Len(open') = Len(open)
           /\ DOMAIN open' = 1 .. Len(open)
           /\ \A i \in 1 .. Len(open) - 1 : open'[i] = open[i]
           /\ open'[Len(open)].on <=> (~open[Len(open)].taken /\ h)
           /\ open'[Len(open)].taken <=> (open[Len(open)].taken \/ h)
           /\ due' <=> (~open[Len(open)].taken
                           /\ \A i \in 1 .. Len(open) - 1 : open[i].on)
           /\ due' \in BOOLEAN
<1>1. DEFINE g == [taken |-> Top.taken \/ h, on |-> ~Top.taken /\ h, closed |-> last]
<1>2. /\ open \in Seq(Group) /\ open # <<>>
      /\ open' = Append(Outer, g) /\ due' = (AllOn(Outer) /\ ~Top.taken)
    BY DEF IInv, KeptTypeOK, Turns
<1>3. /\ Len(open) \in Nat \ {0}
      /\ DOMAIN open = 1 .. Len(open)
      /\ Top \in Group
      /\ Outer \in Seq(Group)
      /\ Len(Outer) = Len(open) - 1
      /\ DOMAIN Outer = 1 .. Len(open) - 1
      /\ \A i \in 1 .. Len(open) - 1 : Outer[i] = open[i]
    BY <1>2, Shortened DEF Outer, Top
<1>4. g \in Group
    BY <1>3 DEF Group
<1>5. (g.on <=> (~Top.taken /\ h)) /\ (g.taken <=> (Top.taken \/ h))
    BY <1>3 DEF Group
<1> HIDE DEF g
<1>6. /\ Append(Outer, g) \in Seq(Group)
      /\ Len(Append(Outer, g)) = Len(Outer) + 1
      /\ Append(Outer, g)[Len(Outer) + 1] = g
      /\ \A i \in DOMAIN Outer : i \in 1 .. Len(Outer) /\ Append(Outer, g)[i] = Outer[i]
      /\ DOMAIN Append(Outer, g) = 1 .. Len(Outer) + 1
    BY <1>3, <1>4, Appended
<1>7. AllOn(Outer) <=> \A i \in 1 .. Len(open) - 1 : open[i].on
    BY <1>3 DEF AllOn
<1>8. due' \in BOOLEAN
    BY <1>2, <1>3 DEF AllOn, Group
<1>9. Top = open[Len(open)]
    BY DEF Top
<1>10. Len(Outer) + 1 = Len(open)
    BY <1>3
<1>11. open'[Len(open)] = g /\ Len(open') = Len(open)
    BY <1>2, <1>6, <1>10
<1>12. \A i \in 1 .. Len(open) - 1 : open'[i] = open[i]
    BY <1>2, <1>3, <1>6
<1>13. open' \in Seq(Group) /\ DOMAIN open' = 1 .. Len(open)
    BY <1>2, <1>6, <1>10
<1>14. due' <=> (~open[Len(open)].taken /\ \A i \in 1 .. Len(open) - 1 : open[i].on)
    BY <1>2, <1>7, <1>9
<1> QED BY <1>3, <1>5, <1>8, <1>9, <1>11, <1>12, <1>13, <1>14

\* The end of a condition takes it away and changes no other.
LEMMA ClosesOne ==
    ASSUME IInv, Closes
    PROVE  /\ Len(open) \in Nat \ {0}
           /\ DOMAIN open = 1 .. Len(open)
           /\ open' \in Seq(Group)
           /\ Len(open') = Len(open) - 1
           /\ DOMAIN open' = 1 .. Len(open) - 1
           /\ \A i \in 1 .. Len(open) - 1 : open'[i] = open[i]
    BY Shortened DEF IInv, KeptTypeOK, Closes, Outer

\* A condition holds or does not.
LEMMA HoldsIsBoolean ==
    ASSUME NEW c \in Condition PROVE Holds(c) \in BOOLEAN
    BY DEF Condition, Holds

-------------------------------------------------------------------------------
(* Every line preserves the invariant *)

\* A line that is not misread is, for the reader at work, what it is in C.
LEMMA ReadRight ==
    ASSUME IInv, NEW f \in Forms, ~Misread(f)
    PROVE  /\ f # "hidden"
           /\ Obeyed(f) <=> mode = "obey"
           /\ Noticed(f) <=> mode = "skip"
    BY PreprocessorAssumption
       DEF PreprocessorAssumption, Misread, Obeyed, Noticed, IInv, KeptTypeOK

\* A line that does nothing, neither in C nor here, keeps the invariant.
LEMMA NothingInductive ==
    ASSUME IInv, UNCHANGED <<open, skipping, macros, failed>>, due' = FALSE, done' = FALSE
    PROVE  IInv'
<1>1. KeptTypeOK'
    BY DEF IInv, KeptTypeOK, macros, skipping
<1>2. Counted'
    BY DEF IInv, KeptTypeOK, Counted, Obeying, Skipping, Cause, skipping
<1> QED BY <1>1, <1>2 DEF IInv

\* Lines of text keep the invariant.
LEMMA TextInductive == IInv /\ Text => IInv'
<1> SUFFICES ASSUME IInv, Text PROVE IInv'
    OBVIOUS
<1>1. done' = due'
    BY ObeyedIsOn DEF Text, Counts, AllOn, IInv, KeptTypeOK
<1>2. KeptTypeOK'
    BY <1>1 DEF Text, Counts, IInv, KeptTypeOK, macros, skipping
<1>3. Counted'
    BY DEF Text, Counts, IInv, KeptTypeOK, Counted, Obeying, Skipping, Cause, skipping
<1> QED BY <1>1, <1>2, <1>3 DEF IInv

\* A condition that opens keeps the invariant, obeyed or skipped.
LEMMA IfInductive ==
    ASSUME IInv, NEW c \in Condition, NEW f \in Forms, If(c, f), ~astray'
    PROVE  IInv'
<1>0. /\ f # "hidden"
      /\ Obeyed(f) <=> mode = "obey"
      /\ Noticed(f) <=> mode = "skip"
    BY ReadRight DEF If, Strays
<1>1. Opens(Holds(c)) /\ Holds(c) \in BOOLEAN /\ open \in Seq(Group)
    BY <1>0, HoldsIsBoolean DEF If, InC, IInv, KeptTypeOK
<1>2. /\ open' \in Seq(Group)
      /\ Len(open') = Len(open) + 1
      /\ DOMAIN open' = 1 .. Len(open) + 1
      /\ \A i \in 1 .. Len(open) : open'[i] = open[i]
      /\ open'[Len(open) + 1].on <=> (mode = "obey" /\ Holds(c))
      /\ open'[Len(open) + 1].taken <=> (mode # "obey" \/ Holds(c))
      /\ due' <=> (mode = "obey")
      /\ due' \in BOOLEAN
    BY <1>1, OpensOne
<1>3. CASE mode = "obey"
    <2>1. Evaluate(c)
        BY <1>0, <1>3 DEF If
    <2>2. done' = due'
        BY <1>2, <1>3, <2>1 DEF Evaluate
    <2>3. n = 0 /\ ~end /\ \A i \in 1 .. Len(open) : open[i].on /\ open[i].taken
        BY <1>1, <1>3 DEF IInv, Counted, Obeying
    <2>4. Counted'
        <3>1. CASE Holds(c)
            BY <1>1, <1>2, <1>3, <2>1, <2>3, <3>1 DEF Evaluate, Resume, Counted, Obeying
        <3>2. CASE ~Holds(c)
            <4>1. mode' = "skip" /\ n' = 1 /\ end' = FALSE
                BY <2>1, <3>2 DEF Evaluate, Skip
            <4>2. Cause' = Len(open) + 1
                BY <1>1, <1>2, <4>1 DEF Cause
            <4>3. Len(open) \in Nat /\ n' \in 1 .. Len(open')
                BY <1>1, <1>2, <4>1
            <4>4. ~open'[Cause'].on /\ ~open'[Cause'].taken
                BY <1>2, <1>3, <3>2, <4>2
            <4>5. ASSUME NEW i \in DOMAIN open'
                  PROVE  /\ i < Cause' => open'[i].on /\ open'[i].taken
                         /\ ~(i > Cause')
                BY <1>2, <2>3, <4>2, <4>3
            <4>6. /\ end' <=> open'[Cause'].taken
                  /\ mode' = "skip" /\ mode' # "obey"
                BY <4>1, <4>4
            <4>7. Skipping'
                BY <4>3, <4>4, <4>5, <4>6 DEF Skipping
            <4> QED BY <4>6, <4>7 DEF Counted
        <3> QED BY <3>1, <3>2
    <2>5. KeptTypeOK'
        <3>1. failed' \in BOOLEAN /\ done' \in BOOLEAN
            BY <2>1 DEF Evaluate, Throws
        <3>2. mode' \in {"obey", "skip"} /\ n' \in Nat /\ end' \in BOOLEAN
            <4>1. Resume \/ Skip(FALSE)
                BY <2>1, <1>1 DEF Evaluate
            <4>2. CASE Resume
                BY <4>2 DEF Resume
            <4>3. CASE Skip(FALSE)
                BY <4>3 DEF Skip
            <4> QED BY <4>1, <4>2, <4>3
        <3>3. defines' = defines /\ stack' = stack
            BY DEF If, macros
        <3> QED BY <1>2, <3>1, <3>2, <3>3 DEF IInv, KeptTypeOK
    <2> QED BY <2>2, <2>4, <2>5 DEF IInv
<1>4. CASE mode = "skip"
    <2>1. mode' = mode /\ n' = n + 1 /\ end' = end /\ done' = FALSE /\ failed' = failed
        BY <1>0, <1>4 DEF If
    <2>2. done' = due'
        BY <1>2, <1>4, <2>1
    <2>3. Cause' = Cause
        BY <1>1, <1>2, <2>1 DEF Cause, IInv, KeptTypeOK
    <2>4. Counted'
        <3>1. /\ n \in 1 .. Len(open) /\ Len(open) \in Nat
              /\ DOMAIN open = 1 .. Len(open)
              /\ Cause \in 1 .. Len(open)
            BY <1>1, <1>4 DEF IInv, Counted, Skipping, Cause
        <3>2. ~open[Cause].on /\ (end <=> open[Cause].taken)
            BY <1>4 DEF IInv, Counted, Skipping
        <3>3. n' \in 1 .. Len(open')
            BY <1>2, <2>1, <3>1
        <3>4. ~open'[Cause'].on /\ (end' <=> open'[Cause'].taken)
            BY <1>2, <2>1, <2>3, <3>1, <3>2
        <3>5. \A i \in 1 .. Len(open) :
                  /\ i < Cause => open[i].on /\ open[i].taken
                  /\ i > Cause => ~open[i].on /\ open[i].taken
            BY <1>4, <3>1 DEF IInv, Counted, Skipping
        <3>6. ASSUME NEW i \in DOMAIN open'
              PROVE  /\ i < Cause' => open'[i].on /\ open'[i].taken
                     /\ i > Cause' => ~open'[i].on /\ open'[i].taken
            <4>1. CASE i = Len(open) + 1
                BY <1>2, <1>4, <2>3, <3>1, <4>1
            <4>2. CASE i \in 1 .. Len(open)
                BY <1>2, <2>3, <3>5, <4>2
            <4> QED BY <1>2, <3>1, <4>1, <4>2
        <3> QED BY <1>4, <2>1, <3>3, <3>4, <3>6 DEF Counted, Skipping
    <2>5. KeptTypeOK'
        BY <1>2, <2>1, <2>2 DEF IInv, KeptTypeOK, If, macros
    <2> QED BY <2>2, <2>4, <2>5 DEF IInv
<1> QED BY <1>3, <1>4 DEF IInv, KeptTypeOK

\* What a turn, #elif or #else, leaves of the invariant: after an obeyed group,
\* where the compiler decides, and elsewhere.
Turned(h) ==
    /\ Len(open) \in Nat \ {0}
    /\ DOMAIN open = 1 .. Len(open)
    /\ open' \in Seq(Group)
    /\ Len(open') = Len(open)
    /\ DOMAIN open' = 1 .. Len(open)
    /\ \A i \in 1 .. Len(open) - 1 : open'[i] = open[i]
    /\ open'[Len(open)].on <=> (~open[Len(open)].taken /\ h)
    /\ open'[Len(open)].taken <=> (open[Len(open)].taken \/ h)
    /\ due' <=> (~open[Len(open)].taken /\ \A i \in 1 .. Len(open) - 1 : open[i].on)
    /\ due' \in BOOLEAN
    /\ defines' = defines /\ stack' = stack
    /\ failed' \in BOOLEAN

\* An alternative after a group that was obeyed keeps the invariant.
LEMMA TurnedObeying ==
    ASSUME IInv, NEW h \in BOOLEAN, Turned(h), mode = "obey",
           Skip(TRUE), done' = FALSE
    PROVE  IInv'
<1>1. \A i \in 1 .. Len(open) : open[i].on /\ open[i].taken
    BY DEF IInv, Counted, Obeying, Turned
<1>2. due' = FALSE
    BY <1>1 DEF Turned
<1>3. mode' = "skip" /\ n' = 1 /\ end' = TRUE /\ Cause' = Len(open)
    BY DEF Skip, Turned, Cause
<1>4. ~open'[Len(open)].on /\ open'[Len(open)].taken
    BY <1>1 DEF Turned
<1>5. \A i \in 1 .. Len(open) - 1 : open'[i].on /\ open'[i].taken
    BY <1>1 DEF Turned
<1>6. Skipping'
    BY <1>3, <1>4, <1>5 DEF Skipping, Turned
<1>7. KeptTypeOK'
    BY <1>2, <1>3 DEF IInv, KeptTypeOK, Turned
<1> QED BY <1>2, <1>3, <1>6, <1>7 DEF IInv, Counted

\* An alternative that decides keeps the invariant.
LEMMA TurnedAtTurn ==
    ASSUME IInv, NEW h \in BOOLEAN, Turned(h), AtTurn, done' = TRUE,
           IF h THEN Resume ELSE Skip(FALSE)
    PROVE  IInv'
<1>1. /\ mode = "skip" /\ n = 1 /\ ~end /\ Cause = Len(open)
    BY DEF AtTurn, Cause, Turned
<1>2. /\ ~open[Len(open)].taken
      /\ \A i \in 1 .. Len(open) - 1 : open[i].on /\ open[i].taken
    BY <1>1 DEF IInv, Counted, Skipping, Turned
<1>3. due' = TRUE /\ done' = TRUE
    BY <1>2 DEF Turned
<1>4. \A i \in 1 .. Len(open) - 1 : open'[i].on /\ open'[i].taken
    BY <1>2 DEF Turned
<1>5. /\ open'[Len(open)].on <=> h
      /\ open'[Len(open)].taken <=> h
    BY <1>2 DEF Turned
<1>6. CASE h
    <2>1. mode' = "obey" /\ n' = 0 /\ end' = FALSE
        BY <1>6 DEF Resume
    <2>2. Obeying'
        BY <1>4, <1>5, <1>6, <2>1 DEF Obeying, Turned
    <2>3. KeptTypeOK'
        BY <1>3, <2>1 DEF IInv, KeptTypeOK, Turned
    <2> QED BY <1>3, <2>1, <2>2, <2>3 DEF IInv, Counted
<1>7. CASE ~h
    <2>1. mode' = "skip" /\ n' = 1 /\ end' = FALSE /\ Cause' = Len(open)
        BY <1>7 DEF Skip, Turned, Cause
    <2>2. Skipping'
        BY <1>4, <1>5, <1>7, <2>1 DEF Skipping, Turned
    <2>3. KeptTypeOK'
        BY <1>3, <2>1 DEF IInv, KeptTypeOK, Turned
    <2> QED BY <1>3, <2>1, <2>2, <2>3 DEF IInv, Counted
<1> QED BY <1>6, <1>7

\* An alternative that is skipped keeps the invariant.
LEMMA TurnedIgnored ==
    ASSUME IInv, NEW h \in BOOLEAN, Turned(h), mode = "skip", ~AtTurn, Ignored
    PROVE  IInv'
<1>1. /\ mode' = mode /\ n' = n /\ end' = end /\ done' = FALSE
      /\ Cause' = Cause /\ Cause \in 1 .. Len(open) /\ Len(open) \in Nat
    BY DEF Ignored, skipping, Cause, Turned, IInv, Counted, Skipping
<1>2. /\ ~open[Cause].on
      /\ end <=> open[Cause].taken
      /\ \A i \in 1 .. Len(open) :
            /\ i < Cause => open[i].on /\ open[i].taken
            /\ i > Cause => ~open[i].on /\ open[i].taken
    BY DEF IInv, Counted, Skipping, Turned
<1>3. open[Len(open)].taken
    <2>1. CASE end /\ n = 1
        <3>1. Cause = Len(open)
            BY <2>1 DEF Cause, Turned
        <3> QED BY <1>2, <2>1, <3>1
    <2>2. CASE n # 1
        <3>1. Cause < Len(open)
            BY <2>2 DEF Cause, Turned, IInv, Counted, Skipping
        <3> QED BY <1>2, <3>1 DEF Turned
    <2> QED BY <2>1, <2>2 DEF AtTurn
<1>4. due' = FALSE /\ ~open'[Len(open)].on /\ open'[Len(open)].taken
    BY <1>3 DEF Turned
<1>5. ~open'[Cause].on /\ (end <=> open'[Cause].taken)
    <2>1. CASE Cause = Len(open)
        BY <1>2, <1>3, <1>4, <2>1
    <2>2. CASE Cause # Len(open)
        <3>1. Cause \in 1 .. Len(open) - 1
            BY <1>1, <2>2
        <3>2. open'[Cause] = open[Cause]
            BY <3>1 DEF Turned
        <3> QED BY <1>2, <3>2
    <2> QED BY <2>1, <2>2
<1>6. ASSUME NEW i \in 1 .. Len(open)
      PROVE  /\ i < Cause => open'[i].on /\ open'[i].taken
             /\ i > Cause => ~open'[i].on /\ open'[i].taken
    <2>1. CASE i = Len(open)
        BY <1>1, <1>4, <2>1 DEF Turned
    <2>2. CASE i # Len(open)
        <3>1. i \in 1 .. Len(open) - 1
            BY <1>1, <2>2
        <3>2. open'[i] = open[i]
            BY <3>1 DEF Turned
        <3> QED BY <1>2, <3>2
    <2> QED BY <2>1, <2>2
<1>7. Skipping'
    BY <1>1, <1>5, <1>6 DEF Skipping, Turned, IInv, Counted
<1>8. KeptTypeOK'
    BY <1>1, <1>4 DEF IInv, KeptTypeOK, Turned
<1> QED BY <1>1, <1>4, <1>7, <1>8 DEF IInv, Counted

\* #elif keeps the invariant.
LEMMA ElifInductive ==
    ASSUME IInv, NEW c \in Condition, NEW f \in Forms, Elif(c, f), ~astray'
    PROVE  IInv'
<1>1. /\ failed' \in BOOLEAN
      /\ defines' = defines /\ stack' = stack
      /\ Misread(f) => mode = "skip" /\ ~AtTurn
    BY DEF Elif, Strays, Evaluate, Throws, macros, IInv, KeptTypeOK
<1>2. ASSUME f # "hidden" PROVE Turned(Holds(c)) /\ Holds(c) \in BOOLEAN
    <2>1. Turns(Holds(c), FALSE) /\ Holds(c) \in BOOLEAN
        BY <1>2, HoldsIsBoolean DEF Elif, InC
    <2> QED BY <1>1, <2>1, TurnsOne DEF Turned
<1>3. CASE mode = "obey"
    <2>1. f # "hidden" /\ Skip(TRUE) /\ done' = FALSE
        BY <1>1, <1>3, ReadRight DEF Elif, AtTurn, Noticed
    <2> QED BY <1>2, <1>3, <2>1, TurnedObeying
<1>4. CASE AtTurn
    <2>1. f # "hidden" /\ Evaluate(c)
        BY <1>1, <1>4, ReadRight DEF Elif, AtTurn
    <2> QED BY <1>2, <1>4, <2>1, TurnedAtTurn DEF Evaluate
<1>5. CASE mode = "skip" /\ ~AtTurn
    <2>1. Ignored /\ UNCHANGED failed
        BY <1>5 DEF Elif, Obeyed
    <2>2. CASE f = "hidden"
        BY <1>1, <2>1, <2>2, NothingInductive DEF Elif, InC, Comments, Ignored, macros
    <2>3. CASE f # "hidden"
        BY <1>2, <1>5, <2>1, <2>3, TurnedIgnored
    <2> QED BY <2>2, <2>3
<1> QED BY <1>3, <1>4, <1>5 DEF IInv, KeptTypeOK

\* #else keeps the invariant.
LEMMA ElseInductive ==
    ASSUME IInv, NEW f \in Forms, Else(f), ~astray' PROVE IInv'
<1>1. /\ failed' = failed
      /\ defines' = defines /\ stack' = stack
      /\ Misread(f) => mode = "skip" /\ ~AtTurn
    BY DEF Else, Strays, macros, IInv, KeptTypeOK
<1>2. ASSUME f # "hidden" PROVE Turned(TRUE)
    <2>1. Turns(TRUE, TRUE) /\ failed' \in BOOLEAN
        BY <1>1, <1>2 DEF Else, InC, IInv, KeptTypeOK
    <2> QED BY <1>1, <2>1, TurnsOne DEF Turned
<1>3. CASE mode = "obey"
    <2>1. f # "hidden" /\ Skip(TRUE) /\ done' = FALSE
        BY <1>1, <1>3, ReadRight DEF Else, AtTurn, Noticed
    <2> QED BY <1>2, <1>3, <2>1, TurnedObeying
<1>4. CASE AtTurn
    <2>1. f # "hidden" /\ Resume /\ done' = TRUE
        BY <1>1, <1>4, ReadRight DEF Else, AtTurn
    <2> QED BY <1>2, <1>4, <2>1, TurnedAtTurn
<1>5. CASE mode = "skip" /\ ~AtTurn
    <2>1. Ignored
        BY <1>5 DEF Else, Obeyed
    <2>2. CASE f = "hidden"
        BY <1>1, <2>1, <2>2, NothingInductive DEF Else, InC, Comments, Ignored, macros
    <2>3. CASE f # "hidden"
        BY <1>2, <1>5, <2>1, <2>3, TurnedIgnored
    <2> QED BY <2>2, <2>3
<1> QED BY <1>3, <1>4, <1>5 DEF IInv, KeptTypeOK

\* #endif keeps the invariant.
LEMMA EndifInductive ==
    ASSUME IInv, NEW f \in Forms, Endif(f), ~astray' PROVE IInv'
<1>0. mode = "skip" => f # "hidden" /\ Noticed(f)
    BY ReadRight DEF Endif, Strays
<1>6. CASE f = "hidden"
    <2>1. mode = "obey"
        BY <1>0, <1>6 DEF IInv, KeptTypeOK
    <2> QED BY <1>6, <2>1, NothingInductive DEF Endif, InC, Comments, Noticed, macros
<1> SUFFICES ASSUME f # "hidden" PROVE IInv'
    BY <1>6
<1>1. /\ Len(open) \in Nat \ {0}
      /\ DOMAIN open = 1 .. Len(open)
      /\ open' \in Seq(Group)
      /\ Len(open') = Len(open) - 1
      /\ DOMAIN open' = 1 .. Len(open) - 1
      /\ \A i \in 1 .. Len(open) - 1 : open'[i] = open[i]
    BY ClosesOne DEF Endif, InC
<1>2. /\ due' = FALSE /\ done' = FALSE /\ failed' = failed
      /\ defines' = defines /\ stack' = stack
    BY DEF Endif, InC, macros
<1>3. CASE mode = "obey"
    <2>1. mode' = "obey" /\ n' = 0 /\ ~end' /\ end' = end
        BY <1>3 DEF Endif, Noticed, skipping, IInv, Counted, Obeying
    <2>2. Obeying'
        BY <1>1, <1>3, <2>1 DEF Obeying, IInv, Counted
    <2>3. KeptTypeOK'
        BY <1>1, <1>2, <2>1 DEF IInv, KeptTypeOK
    <2> QED BY <1>2, <2>1, <2>2, <2>3 DEF IInv, Counted
<1>4. CASE mode = "skip" /\ n = 1
    <2>1. mode' = "obey" /\ n' = 0 /\ end' = FALSE
        BY <1>0, <1>4 DEF Endif, Resume
    <2>2. Cause = Len(open)
        BY <1>1, <1>4 DEF Cause
    <2>3. Obeying'
        BY <1>1, <1>4, <2>1, <2>2 DEF Obeying, IInv, Counted, Skipping
    <2>4. KeptTypeOK'
        BY <1>1, <1>2, <2>1 DEF IInv, KeptTypeOK
    <2> QED BY <1>2, <2>1, <2>3, <2>4 DEF IInv, Counted
<1>5. CASE mode = "skip" /\ n # 1
    <2>1. mode' = "skip" /\ n' = n - 1 /\ end' = end
        BY <1>0, <1>5 DEF Endif
    <2>2. n \in 2 .. Len(open)
        BY <1>1, <1>5 DEF IInv, Counted, Skipping
    <2>3. Cause' = Cause /\ Cause \in 1 .. Len(open) - 1
        BY <1>1, <2>1, <2>2 DEF Cause
    <2>4. Skipping'
        <3>1. Skipping
            BY <1>5 DEF IInv, Counted
        <3>2. n' \in 1 .. Len(open') /\ ~open'[Cause'].on /\ (end' <=> open'[Cause'].taken)
            BY <1>1, <2>1, <2>2, <2>3, <3>1 DEF Skipping
        <3>3. \A i \in DOMAIN open' : open'[i] = open[i] /\ i \in DOMAIN open
            BY <1>1
        <3> QED BY <2>3, <3>1, <3>2, <3>3 DEF Skipping
    <2>5. KeptTypeOK'
        <3>1. n' \in Nat
            BY <1>1, <2>1, <2>2
        <3> QED BY <1>1, <1>2, <2>1, <3>1 DEF IInv, KeptTypeOK
    <2> QED BY <1>2, <2>1, <2>4, <2>5 DEF IInv, Counted
<1> QED BY <1>3, <1>4, <1>5 DEF IInv, KeptTypeOK

\* The other directives leave the conditions alone.
LEMMA DoesInductive ==
    ASSUME IInv, UNCHANGED <<open, skipping>>,
           done' = (mode = "obey"), due' = AllOn(open),
           failed' \in BOOLEAN,
           defines' \in [Name -> Value \cup {Undefined}],
           stack' \in [Name -> Seq(Value)]
    PROVE  IInv'
<1>1. done' = due' /\ done' \in BOOLEAN
    BY ObeyedIsOn DEF AllOn
<1>2. KeptTypeOK'
    BY <1>1 DEF IInv, KeptTypeOK, skipping
<1>3. Counted'
    BY DEF IInv, Counted, Obeying, Skipping, Cause, skipping
<1> QED BY <1>1, <1>2, <1>3 DEF IInv

\* In skipped lines they do nothing.
LEMMA DoesNothing ==
    ASSUME IInv, NEW f \in Forms, mode = "skip", InC(f, Counts),
           UNCHANGED <<macros, failed, skipping>>, done' = FALSE
    PROVE  IInv'
<1>1. CASE f = "hidden"
    BY <1>1, NothingInductive DEF InC, Comments
<1>2. CASE f # "hidden"
    BY <1>2, DoesInductive DEF InC, Counts, macros, IInv, KeptTypeOK
<1> QED BY <1>1, <1>2

\* #define keeps the invariant.
LEMMA DefineInductive ==
    ASSUME IInv, NEW x \in Name, NEW v \in Value \cup {Undefined},
           NEW f \in Forms, Define(x, v, f), ~astray'
    PROVE  IInv'
<1>1. CASE mode = "skip"
    BY <1>1, DoesNothing DEF Define, Does, Obeyed
<1>2. CASE mode = "obey"
    <2>1. f # "hidden" /\ Obeyed(f)
        BY <1>2, ReadRight DEF Define, Does, Strays
    <2> QED BY <1>2, <2>1, DoesInductive
            DEF Define, Does, InC, Counts, macros, IInv, KeptTypeOK
<1> QED BY <1>1, <1>2 DEF IInv, KeptTypeOK

\* #pragma push_macro keeps the invariant.
LEMMA PushMacroInductive ==
    ASSUME IInv, NEW x \in Name, NEW f \in Forms, PushMacro(x, f), ~astray'
    PROVE  IInv'
<1>1. CASE mode = "skip"
    BY <1>1, DoesNothing DEF PushMacro, Does, Obeyed
<1>2. CASE mode = "obey"
    <2>1. f # "hidden" /\ Obeyed(f)
        BY <1>2, ReadRight DEF PushMacro, Does, Strays
    <2>2. /\ UNCHANGED <<open, skipping>> /\ due' = AllOn(open)
          /\ done' = (mode = "obey")
        BY <1>2, <2>1 DEF PushMacro, Does, InC, Counts
    <2>3. failed' \in BOOLEAN /\ defines' \in [Name -> Value \cup {Undefined}]
        BY <2>1 DEF PushMacro, Does, IInv, KeptTypeOK
    <2>4. stack' \in [Name -> Seq(Value)]
        <3>1. CASE UNCHANGED stack
            BY <3>1 DEF IInv, KeptTypeOK
        <3>2. CASE /\ defines[x] # Undefined
                   /\ stack' = [stack EXCEPT ![x] = Append(@, defines[x])]
            <4>1. defines[x] \in Value /\ stack[x] \in Seq(Value)
                BY <3>2 DEF IInv, KeptTypeOK
            <4>2. Append(stack[x], defines[x]) \in Seq(Value)
                BY <4>1
            <4> QED BY <3>2, <4>2 DEF IInv, KeptTypeOK
        <3> QED BY <2>1, <3>1, <3>2 DEF PushMacro, Does
    <2> QED BY <2>2, <2>3, <2>4, DoesInductive
<1> QED BY <1>1, <1>2 DEF IInv, KeptTypeOK

\* #pragma pop_macro keeps the invariant.
LEMMA PopMacroInductive ==
    ASSUME IInv, NEW x \in Name, NEW f \in Forms, PopMacro(x, f), ~astray'
    PROVE  IInv'
<1>1. CASE mode = "skip"
    BY <1>1, DoesNothing DEF PopMacro, Does, Obeyed
<1>2. CASE mode = "obey"
    <2>1. f # "hidden" /\ Obeyed(f)
        BY <1>2, ReadRight DEF PopMacro, Does, Strays
    <2>2. /\ UNCHANGED <<open, skipping>> /\ due' = AllOn(open)
          /\ done' = (mode = "obey")
          /\ failed' \in BOOLEAN
        BY <1>2, <2>1 DEF PopMacro, Does, InC, Counts, IInv, KeptTypeOK
    <2>3. CASE UNCHANGED macros
        BY <2>2, <2>3, DoesInductive DEF macros, IInv, KeptTypeOK
    <2>4. CASE /\ stack[x] # <<>>
               /\ defines' = [defines EXCEPT ![x] = stack[x][Len(stack[x])]]
               /\ stack' = [stack EXCEPT ![x] = SubSeq(@, 1, Len(@) - 1)]
        <3>1. /\ stack[x] \in Seq(Value)
              /\ stack[x][Len(stack[x])] \in Value
              /\ SubSeq(stack[x], 1, Len(stack[x]) - 1) \in Seq(Value)
            <4>1. stack[x] \in Seq(Value)
                BY DEF IInv, KeptTypeOK
            <4> DEFINE s == stack[x]
            <4> HIDE DEF s
            <4>2. s \in Seq(Value) /\ s # <<>>
                BY <2>4, <4>1 DEF s
            <4>3. Len(s) \in Nat \ {0} /\ \A i \in 1 .. Len(s) : s[i] \in Value
                BY <4>2
            <4>4. s[Len(s)] \in Value /\ SubSeq(s, 1, Len(s) - 1) \in Seq(Value)
                BY <4>3
            <4> QED BY <4>1, <4>4 DEF s
        <3> QED BY <2>2, <2>4, <3>1, DoesInductive DEF IInv, KeptTypeOK
    <2> QED BY <2>1, <2>3, <2>4 DEF PopMacro, Does
<1> QED BY <1>1, <1>2 DEF IInv, KeptTypeOK

\* #undef keeps the invariant.
LEMMA UndefInductive ==
    ASSUME IInv, NEW x \in Name, NEW f \in Forms, Undef(x, f), ~astray'
    PROVE  IInv'
    BY DefineInductive DEF Undef, Define

\* #error keeps the invariant.
LEMMA FailInductive ==
    ASSUME IInv, NEW f \in Forms, Fail(f), ~astray' PROVE IInv'
<1>1. CASE mode = "skip"
    BY <1>1, DoesNothing DEF Fail, Does, Obeyed
<1>2. CASE mode = "obey"
    <2>1. f # "hidden" /\ Obeyed(f)
        BY <1>2, ReadRight DEF Fail, Does, Strays
    <2> QED BY <1>2, <2>1, DoesInductive
            DEF Fail, Does, InC, Counts, macros, IInv, KeptTypeOK
<1> QED BY <1>1, <1>2 DEF IInv, KeptTypeOK

-------------------------------------------------------------------------------
(* The theorem *)

\* Every line keeps the invariant, until one is misread.
LEMMA Inductive == ReadInv /\ [Next]_vars => ReadInv'
<1> SUFFICES ASSUME ReadInv, [Next]_vars, ~astray' PROVE IInv'
    BY DEF ReadInv
<1>1. IInv
    <2>1. ~astray
        <3>1. CASE Text \/ Remark \/ UNCHANGED vars
            BY <3>1 DEF Text, Remark, vars
        <3>2. ASSUME NEW f, NEW matters, Strays(f, matters) PROVE ~astray
            BY <3>2 DEF Strays
        <3> QED BY <3>1, <3>2 DEF Next, If, Elif, Else, Endif, Fail, Define, Undef, PushMacro,
                                  PopMacro, Does
    <2> QED BY <2>1 DEF ReadInv
<1>2. CASE Text
    BY <1>1, <1>2, TextInductive
<1>3. CASE Remark
    BY <1>1, <1>3, NothingInductive DEF Remark, Comments
<1>4. ASSUME NEW f \in Forms, Else(f) \/ Endif(f) \/ Fail(f) PROVE IInv'
    BY <1>1, <1>4, ElseInductive, EndifInductive, FailInductive
<1>5. ASSUME NEW f \in Forms, NEW c \in Condition, If(c, f) \/ Elif(c, f) PROVE IInv'
    BY <1>1, <1>5, IfInductive, ElifInductive
<1>6. ASSUME NEW f \in Forms, NEW x \in Name, NEW v \in Value, Define(x, v, f)
      PROVE  IInv'
    BY <1>1, <1>6, DefineInductive
<1>7. ASSUME NEW f \in Forms, NEW x \in Name,
             Undef(x, f) \/ PushMacro(x, f) \/ PopMacro(x, f)
      PROVE  IInv'
    BY <1>1, <1>7, UndefInductive, PushMacroInductive, PopMacroInductive
<1>8. CASE UNCHANGED vars
    <2>1. KeptTypeOK'
        BY <1>1, <1>8 DEF vars, IInv, KeptTypeOK
    <2>2. Counted'
        BY <1>1, <1>8 DEF vars, IInv, Counted, Obeying, Skipping, Cause
    <2> QED BY <1>1, <1>8, <2>1, <2>2 DEF vars, IInv
<1> QED BY <1>2, <1>3, <1>4, <1>5, <1>6, <1>7, <1>8 DEF Next

\* The compiler obeys exactly the lines that C obeys, for any number of nested
\* conditions, until a line is misread where that matters: in obeyed lines a
\* directive with a blank before its name or none behind it, or a comment that
\* looks like one, but no #endif; in skipped lines a condition, its end or the
\* alternative that would be taken, without a blank behind its name or in a comment.
THEOREM ObeysWhatCObeysAlways == Spec => []ObeysWhatCObeys
<1>1. Init => ReadInv
    <2> SUFFICES ASSUME Init PROVE IInv
        BY DEF ReadInv
    <2>1. open = <<>> /\ open \in Seq(Group) /\ DOMAIN open = {}
        BY DEF Init
    <2>2. stack \in [Name -> Seq(Value)]
        BY DEF Init
    <2>3. KeptTypeOK
        BY <2>1, <2>2 DEF Init, KeptTypeOK
    <2>4. Counted
        BY <2>1 DEF Init, Counted, Obeying
    <2> QED BY <2>3, <2>4 DEF Init, IInv
<1>2. ReadInv /\ [Next]_vars => ReadInv'
    BY Inductive
<1>3. ReadInv => ObeysWhatCObeys
    BY DEF ReadInv, IInv, ObeysWhatCObeys
<1> QED BY <1>1, <1>2, <1>3, PTL DEF Spec
===============================================================================
